-------------------------- MODULE AppSessionProofs --------------------------
(***************************************************************************)
(* Proofs about the app's session: for any number of indicators, any number *)
(* of key-offs, time-outs and actions of the user, and any order of the     *)
(* callbacks.                                                               *)
(***************************************************************************)
EXTENDS AppSession, FiniteSetTheorems, TLAPS

-----------------------------------------------------------------------------
(* Counting what is on the way.                                             *)

\* ReadsAnswered and ReadsAsked, of a queue of tasks and of the requests.
Answers(ts) == {k \in DOMAIN ts : ts[k].type = "value" /\ ts[k].whole}
Asks(rq) == {x \in UNION {{i} \X DOMAIN rq[i] : i \in Indicators} : rq[x[1]][x[2]] = "read"}

\* A request among those of the indicators.
LEMMA AskMeans ==
    ASSUME NEW rq, NEW x
    PROVE  x \in Asks(rq) <=> \E i \in Indicators : \E k \in DOMAIN rq[i] : x = <<i, k>> /\ rq[i][k] = "read"
<1>1. ASSUME NEW i \in Indicators, NEW k \in DOMAIN rq[i], x = <<i, k>>, rq[i][k] = "read"
      PROVE  x \in Asks(rq)
  <2>1. x \in {i} \X DOMAIN rq[i]
    BY <1>1
  <2>2. x \in UNION {{j} \X DOMAIN rq[j] : j \in Indicators}
    BY <2>1
  <2> QED BY <1>1, <2>2 DEF Asks
<1>2. ASSUME x \in Asks(rq)
      PROVE  \E i \in Indicators : \E k \in DOMAIN rq[i] : x = <<i, k>> /\ rq[i][k] = "read"
  <2>1. x \in UNION {{j} \X DOMAIN rq[j] : j \in Indicators} /\ rq[x[1]][x[2]] = "read"
    BY <1>2 DEF Asks
  <2>2. PICK i \in Indicators : x \in {i} \X DOMAIN rq[i]
    BY <2>1
  <2>3. PICK k \in DOMAIN rq[i] : x = <<i, k>>
    BY <2>2
  <2> QED BY <2>1, <2>3
<1> QED BY <1>1, <1>2

\* A renumbering keeps the number.
LEMMA Renumbered ==
    ASSUME NEW S, NEW T, IsFiniteSet(S), NEW f \in [S -> T],
           \A x, y \in S : f[x] = f[y] => x = y, \A y \in T : \E x \in S : f[x] = y
    PROVE  IsFiniteSet(T) /\ Cardinality(T) = Cardinality(S)
<1>1. f \in Bijection(S, T)
  BY DEF Bijection, Injection, Surjection, IsInjective
<1>2. ExistsBijection(S, T)
  BY <1>1 DEF ExistsBijection
<1> QED BY <1>2, FS_Bijection

\* The first of a queue is taken.
LEMMA TailEntries ==
    ASSUME NEW T, NEW s \in Seq(T), s # <<>>
    PROVE  /\ Tail(s) \in Seq(T) /\ Head(s) = s[1] /\ 1 \in DOMAIN s /\ Head(s) \in T
           /\ \A k \in DOMAIN Tail(s) : k \in Nat /\ k > 0 /\ k + 1 \in DOMAIN s /\ Tail(s)[k] = s[k + 1]
           /\ \A k \in DOMAIN s : k \in Nat /\ (k # 1 => k - 1 \in DOMAIN Tail(s) /\ Tail(s)[k - 1] = s[k])
OBVIOUS

\* The app asks an indicator for one more thing.
LEMMA AsksAppend ==
    ASSUME NEW rq \in Requests, NEW i \in Indicators, NEW w \in Kinds, IsFiniteSet(Asks(rq))
    PROVE  LET rr == [rq EXCEPT ![i] = Append(@, w)]
           IN  /\ rr \in Requests /\ IsFiniteSet(Asks(rr))
               /\ Cardinality(Asks(rr)) = Cardinality(Asks(rq)) + (IF w = "read" THEN 1 ELSE 0)
<1> DEFINE rr == [rq EXCEPT ![i] = Append(@, w)]
           n == Len(rq[i]) + 1
<1>1. rr \in Requests /\ \A j \in Indicators : j # i => rr[j] = rq[j]
  BY DEF Requests
<1>2. rr[i] = Append(rq[i], w) /\ rq[i] \in Seq(Kinds)
  BY DEF Requests
<1>3. /\ \A k \in DOMAIN rq[i] : k \in DOMAIN rr[i] /\ rr[i][k] = rq[i][k] /\ k # n
      /\ \A k \in DOMAIN rr[i] : k \in DOMAIN rq[i] \/ k = n
      /\ n \in DOMAIN rr[i] /\ rr[i][n] = w
  BY <1>2
<1> HIDE DEF rr, n
<1>4. \A j \in Indicators : \A k \in DOMAIN rq[j] : k \in DOMAIN rr[j] /\ rr[j][k] = rq[j][k] /\ <<j, k>> # <<i, n>>
  BY <1>1, <1>3
<1>5. \A j \in Indicators : \A k \in DOMAIN rr[j] :
        (k \in DOMAIN rq[j] /\ rr[j][k] = rq[j][k]) \/ (j = i /\ k = n)
  BY <1>1, <1>3
<1>6. <<i, n>> \notin Asks(rq)
  BY <1>4, AskMeans
<1>7. Cardinality(Asks(rq)) \in Nat
  BY FS_CardinalityType
<1>8. CASE w = "read"
  <2>1. Asks(rr) = Asks(rq) \cup {<<i, n>>}
    <3>1. \A x : x \in Asks(rq) => x \in Asks(rr)
      BY <1>4, AskMeans
    <3>2. <<i, n>> \in Asks(rr)
      BY <1>3, <1>8, AskMeans
    <3>3. \A x : x \in Asks(rr) => x \in Asks(rq) \/ x = <<i, n>>
      BY <1>5, AskMeans
    <3> QED BY <3>1, <3>2, <3>3
  <2>2. IsFiniteSet(Asks(rr)) /\ Cardinality(Asks(rr)) = Cardinality(Asks(rq)) + 1
    BY <1>6, <2>1, FS_AddElement
  <2> QED BY <1>1, <1>8, <2>2 DEF rr
<1>9. CASE w # "read"
  <2>1. Asks(rr) = Asks(rq)
    <3>1. \A x : x \in Asks(rq) => x \in Asks(rr)
      BY <1>4, AskMeans
    <3>2. \A x : x \in Asks(rr) => x \in Asks(rq)
      BY <1>3, <1>5, <1>9, AskMeans
    <3> QED BY <3>1, <3>2
  <2> QED BY <1>1, <1>7, <1>9, <2>1 DEF rr
<1> QED BY <1>8, <1>9

\* An indicator has served its first request.
LEMMA AsksTail ==
    ASSUME NEW rq \in Requests, NEW i \in Indicators, rq[i] # <<>>, IsFiniteSet(Asks(rq))
    PROVE  LET rr == [rq EXCEPT ![i] = Tail(@)]
           IN  /\ rr \in Requests /\ IsFiniteSet(Asks(rr)) /\ Head(rq[i]) \in Kinds
               /\ Cardinality(Asks(rr)) = Cardinality(Asks(rq)) - (IF Head(rq[i]) = "read" THEN 1 ELSE 0)
<1> DEFINE rr == [rq EXCEPT ![i] = Tail(@)]
           S == Asks(rq) \ {<<i, 1>>}
           f == [x \in S |-> IF x[1] = i THEN <<i, x[2] - 1>> ELSE x]
<1>1. rr \in Requests /\ \A j \in Indicators : j # i => rr[j] = rq[j]
  BY DEF Requests
<1>2. rr[i] = Tail(rq[i]) /\ rq[i] \in Seq(Kinds)
  BY DEF Requests
<1> HIDE DEF rr, S, f
<1>3. /\ Head(rq[i]) = rq[i][1] /\ 1 \in DOMAIN rq[i] /\ Head(rq[i]) \in Kinds
      /\ \A k \in DOMAIN rr[i] : k \in Nat /\ k > 0 /\ k + 1 \in DOMAIN rq[i] /\ rr[i][k] = rq[i][k + 1]
      /\ \A k \in DOMAIN rq[i] : k \in Nat /\ (k # 1 => k - 1 \in DOMAIN rr[i] /\ rr[i][k - 1] = rq[i][k])
  <2> DEFINE q == rq[i]
  <2>1. q \in Seq(Kinds) /\ q # <<>> /\ rr[i] = Tail(q)
    BY <1>2
  <2> HIDE DEF q
  <2>2. /\ Head(q) = q[1] /\ 1 \in DOMAIN q /\ Head(q) \in Kinds
        /\ \A k \in DOMAIN Tail(q) : k \in Nat /\ k > 0 /\ k + 1 \in DOMAIN q /\ Tail(q)[k] = q[k + 1]
        /\ \A k \in DOMAIN q : k \in Nat /\ (k # 1 => k - 1 \in DOMAIN Tail(q) /\ Tail(q)[k - 1] = q[k])
    BY <2>1, TailEntries
  <2> QED BY <2>1, <2>2 DEF q
<1> USE DEF S, f
<1>4. IsFiniteSet(S) /\ Cardinality(S) = Cardinality(Asks(rq)) - (IF Head(rq[i]) = "read" THEN 1 ELSE 0)
  <2>1. <<i, 1>> \in Asks(rq) <=> Head(rq[i]) = "read"
    BY <1>3, AskMeans
  <2>2. Cardinality(Asks(rq)) \in Nat
    BY FS_CardinalityType
  <2> QED BY <2>1, <2>2, FS_RemoveElement
<1>5. ASSUME NEW x \in S
      PROVE  \E j \in Indicators : \E k \in DOMAIN rq[j] :
               /\ x = <<j, k>> /\ rq[j][k] = "read" /\ (j = i => k # 1)
               /\ f[x] = IF j = i THEN <<i, k - 1>> ELSE <<j, k>>
  <2>1. PICK j \in Indicators, k \in UNION {DOMAIN rq[l] : l \in Indicators} :
          k \in DOMAIN rq[j] /\ x = <<j, k>> /\ rq[j][k] = "read"
    BY <1>5, AskMeans
  <2>2. x[1] = j /\ x[2] = k /\ f[x] = IF x[1] = i THEN <<i, x[2] - 1>> ELSE x
    BY <1>5, <2>1
  <2>3. j = i => k # 1
    BY <1>5, <2>1
  <2> QED BY <2>1, <2>2, <2>3
<1>6. \A x \in S : f[x] \in Asks(rr)
  <2> TAKE x \in S
  <2>1. PICK j \in Indicators : \E k \in DOMAIN rq[j] :
               /\ x = <<j, k>> /\ rq[j][k] = "read" /\ (j = i => k # 1)
               /\ f[x] = IF j = i THEN <<i, k - 1>> ELSE <<j, k>>
    BY <1>5
  <2>2. PICK k \in DOMAIN rq[j] :
               /\ x = <<j, k>> /\ rq[j][k] = "read" /\ (j = i => k # 1)
               /\ f[x] = IF j = i THEN <<i, k - 1>> ELSE <<j, k>>
    BY <2>1
  <2> HIDE DEF f
  <2>3. CASE j = i
    BY <1>3, <2>2, <2>3, AskMeans
  <2>4. CASE j # i
    BY <1>1, <2>2, <2>4, AskMeans
  <2> QED BY <2>3, <2>4
<1>7. f \in [S -> Asks(rr)]
  BY <1>6
<1>8. \A x, y \in S : f[x] = f[y] => x = y
  <2> SUFFICES ASSUME NEW x \in S, NEW y \in S, f[x] = f[y] PROVE x = y
    OBVIOUS
  <2>1. PICK j \in Indicators : \E k \in DOMAIN rq[j] :
               x = <<j, k>> /\ f[x] = IF j = i THEN <<i, k - 1>> ELSE <<j, k>>
    BY <1>5
  <2>2. PICK k \in DOMAIN rq[j] : x = <<j, k>> /\ f[x] = IF j = i THEN <<i, k - 1>> ELSE <<j, k>>
    BY <2>1
  <2>3. PICK l \in Indicators : \E m \in DOMAIN rq[l] :
               y = <<l, m>> /\ f[y] = IF l = i THEN <<i, m - 1>> ELSE <<l, m>>
    BY <1>5
  <2>4. PICK m \in DOMAIN rq[l] : y = <<l, m>> /\ f[y] = IF l = i THEN <<i, m - 1>> ELSE <<l, m>>
    BY <2>3
  <2> HIDE DEF f
  <2>5. CASE j = i /\ l = i
    <3>1. k - 1 = m - 1 /\ k \in Nat /\ m \in Nat
      BY <1>3, <2>2, <2>4, <2>5
    <3> QED BY <2>2, <2>4, <2>5, <3>1
  <2>6. CASE ~(j = i /\ l = i)
    BY <2>2, <2>4, <2>6
  <2> QED BY <2>5, <2>6
<1>9. \A y \in Asks(rr) : \E x \in S : f[x] = y
  <2> TAKE y \in Asks(rr)
  <2>1. PICK j \in Indicators : \E k \in DOMAIN rr[j] : y = <<j, k>> /\ rr[j][k] = "read"
    BY AskMeans
  <2>2. PICK k \in DOMAIN rr[j] : y = <<j, k>> /\ rr[j][k] = "read"
    BY <2>1
  <2>3. CASE j = i
    <3>1. k \in Nat /\ k > 0 /\ k + 1 \in DOMAIN rq[i] /\ rq[i][k + 1] = "read"
      BY <1>3, <2>2, <2>3
    <3>2. <<i, k + 1>> \in S
      BY <3>1, AskMeans
    <3>3. f[<<i, k + 1>>] = <<i, (k + 1) - 1>>
      BY <3>2
    <3>4. (k + 1) - 1 = k
      BY <3>1
    <3> QED BY <2>2, <2>3, <3>2, <3>3, <3>4
  <2>4. CASE j # i
    <3>1. y \in S
      BY <1>1, <2>2, <2>4, AskMeans
    <3>2. f[y] = y
      BY <2>2, <2>4, <3>1
    <3> QED BY <3>1, <3>2
  <2> QED BY <2>3, <2>4
<1> HIDE DEF f, S
<1>10. IsFiniteSet(Asks(rr)) /\ Cardinality(Asks(rr)) = Cardinality(S)
  BY <1>4, <1>7, <1>8, <1>9, Renumbered
<1> QED BY <1>1, <1>3, <1>4, <1>10 DEF rr

\* With the link everything asked of the indicator is dropped.
LEMMA AsksDropped ==
    ASSUME NEW rq \in Requests, NEW i \in Indicators, IsFiniteSet(Asks(rq))
    PROVE  LET rr == [rq EXCEPT ![i] = <<>>] IN rr \in Requests /\ IsFiniteSet(Asks(rr))
<1> DEFINE rr == [rq EXCEPT ![i] = <<>>]
<1>1. rr \in Requests /\ rr[i] = <<>> /\ \A j \in Indicators : j # i => rr[j] = rq[j]
  BY DEF Requests
<1> HIDE DEF rr
<1>2. \A x : x \in Asks(rr) => x \in Asks(rq)
  BY <1>1, AskMeans
<1>3. IsFiniteSet(Asks(rr))
  BY <1>2, FS_Subset
<1> QED BY <1>1, <1>3 DEF rr

IsAnswer(t) == t.type = "value" /\ t.whole

\* The answers in a queue of tasks are finitely many.
LEMMA AnswersFinite ==
    ASSUME NEW ts \in Seq(Tasks)
    PROVE  IsFiniteSet(Answers(ts)) /\ Cardinality(Answers(ts)) \in Nat
<1>1. Answers(ts) \in SUBSET Nat /\ Len(ts) \in Nat /\ \A k \in Answers(ts) : k <= Len(ts)
  BY DEF Answers
<1>2. IsFiniteSet(Answers(ts))
  BY <1>1, FS_BoundedSetOfNaturals
<1> QED BY <1>2, FS_CardinalityType

\* CoreBluetooth calls back.
LEMMA AnswersAppend ==
    ASSUME NEW ts \in Seq(Tasks), NEW t \in Tasks
    PROVE  /\ Append(ts, t) \in Seq(Tasks)
           /\ Cardinality(Answers(Append(ts, t))) = Cardinality(Answers(ts)) + (IF IsAnswer(t) THEN 1 ELSE 0)
<1> DEFINE tt == Append(ts, t)
           n == Len(ts) + 1
<1>1. /\ tt \in Seq(Tasks) /\ n \in DOMAIN tt /\ tt[n] = t
      /\ \A k \in DOMAIN ts : k \in DOMAIN tt /\ tt[k] = ts[k] /\ k # n
      /\ \A k \in DOMAIN tt : k \in DOMAIN ts \/ k = n
  OBVIOUS
<1>2. IsFiniteSet(Answers(ts)) /\ Cardinality(Answers(ts)) \in Nat
  BY AnswersFinite
<1> HIDE DEF tt, n
<1>3. n \notin Answers(ts)
  BY <1>1 DEF Answers
<1>4. CASE IsAnswer(t)
  <2>1. Answers(tt) = Answers(ts) \cup {n}
    BY <1>1, <1>4 DEF Answers, IsAnswer
  <2>2. Cardinality(Answers(tt)) = Cardinality(Answers(ts)) + 1
    BY <1>2, <1>3, <2>1, FS_AddElement
  <2> QED BY <1>1, <1>4, <2>2 DEF tt
<1>5. CASE ~IsAnswer(t)
  <2>1. Answers(tt) = Answers(ts)
    BY <1>1, <1>5 DEF Answers, IsAnswer
  <2> QED BY <1>1, <1>2, <1>5, <2>1 DEF tt
<1> QED BY <1>4, <1>5

\* The main actor takes a task.
LEMMA AnswersTail ==
    ASSUME NEW ts \in Seq(Tasks), ts # <<>>
    PROVE  /\ Tail(ts) \in Seq(Tasks) /\ Head(ts) \in Tasks
           /\ Cardinality(Answers(Tail(ts))) = Cardinality(Answers(ts)) - (IF IsAnswer(Head(ts)) THEN 1 ELSE 0)
<1> DEFINE tt == Tail(ts)
           S == Answers(ts) \ {1}
           f == [k \in S |-> k - 1]
<1>1. /\ tt \in Seq(Tasks) /\ Head(ts) = ts[1] /\ 1 \in DOMAIN ts /\ Head(ts) \in Tasks
      /\ \A k \in DOMAIN tt : k \in Nat /\ k > 0 /\ k + 1 \in DOMAIN ts /\ tt[k] = ts[k + 1]
      /\ \A k \in DOMAIN ts : k \in Nat /\ (k # 1 => k - 1 \in DOMAIN tt /\ tt[k - 1] = ts[k])
  BY TailEntries
<1>2. IsFiniteSet(Answers(ts)) /\ Cardinality(Answers(ts)) \in Nat
  BY AnswersFinite
<1> HIDE DEF tt
<1>3. IsFiniteSet(S) /\ Cardinality(S) = Cardinality(Answers(ts)) - (IF IsAnswer(Head(ts)) THEN 1 ELSE 0)
  <2>1. 1 \in Answers(ts) <=> IsAnswer(Head(ts))
    BY <1>1 DEF Answers, IsAnswer
  <2> QED BY <1>2, <2>1, FS_RemoveElement
<1>4. \A k \in S : k \in Nat /\ f[k] = k - 1 /\ k - 1 \in Answers(tt)
  BY <1>1 DEF Answers
<1>5. f \in [S -> Answers(tt)] /\ \A j, k \in S : f[j] = f[k] => j = k
  BY <1>4
<1>6. \A k \in Answers(tt) : \E j \in S : f[j] = k
  <2> TAKE k \in Answers(tt)
  <2>1. k \in Nat /\ k > 0 /\ k + 1 \in Answers(ts)
    BY <1>1 DEF Answers
  <2>2. k + 1 \in S /\ (k + 1) - 1 = k
    BY <2>1
  <2>3. f[k + 1] = k
    BY <2>2
  <2> QED BY <2>2, <2>3
<1> HIDE DEF f, S
<1>7. Cardinality(Answers(tt)) = Cardinality(S)
  BY <1>3, <1>5, <1>6, Renumbered
<1> QED BY <1>1, <1>3, <1>7 DEF tt

-----------------------------------------------------------------------------
(* Types.                                                                   *)

DeviceTypes ==
    /\ power \in [Indicators -> BOOLEAN] /\ built \in [Indicators -> BOOLEAN]
    /\ subscribed \in [Indicators -> BOOLEAN] /\ value \in [Indicators -> 0..MaxValue]

CentralTypes ==
    link \in [Indicators -> LinkStates] /\ requests \in Requests /\ tasks \in Seq(Tasks)

AppTypes ==
    /\ state \in {"idle", "scanning", "connecting", "connected", "disconnected"}
    /\ peripheral \in Indicators \cup {None} /\ wanted \in Indicators \cup {None}
    /\ characteristics \in Indicators \cup {None} /\ userDisconnected \in BOOLEAN
    /\ shown \in -1..MaxValue /\ pendingReads \in Seq(Callers)

Types == DeviceTypes /\ CentralTypes /\ AppTypes

\* Tasks as they are made.
LEMMA TasksMade ==
    ASSUME NEW i \in Indicators
    PROVE  /\ \A t \in {"didConnect", "didFailToConnect", "didDisconnect", "characteristics"} :
                Task(t, i) \in Tasks /\ ~IsAnswer(Task(t, i)) /\ Task(t, i).type = t
           /\ \A w \in BOOLEAN : value' \in [Indicators -> 0..MaxValue] =>
                Value(i, w) \in Tasks /\ Value(i, w).type = "value" /\ (IsAnswer(Value(i, w)) <=> w)
BY AppAssumption DEF Task, Value, Tasks, IsAnswer

\* Requests as they are made.
LEMMA RequestsMade ==
    ASSUME NEW s \in Seq(Kinds)
    PROVE  /\ s \o <<"read">> = Append(s, "read")
           /\ s \o <<"subscribe", "read">> = Append(Append(s, "subscribe"), "read")
BY DEF Kinds

ReadsOK ==
    /\ IsFiniteSet(Asks(requests))
    /\ \/ Queued("didDisconnect")
       \/ Len(pendingReads) <= Cardinality(Answers(tasks)) + Cardinality(Asks(requests))

AppInv == Types /\ ReadsOK

\* What a step has done to the tasks, the requests and the callers: the callers
\* have not become more than what is on the way for them.
Keeps ==
    /\ CentralTypes' /\ pendingReads' \in Seq(Callers) /\ IsFiniteSet(Asks(requests'))
    /\ Queued("didDisconnect") => Queued("didDisconnect")' \/ pendingReads' = <<>>
    /\ \/ Queued("didDisconnect")' \/ pendingReads' = <<>>
       \/ Len(pendingReads') + Cardinality(Answers(tasks)) + Cardinality(Asks(requests))
             <= Len(pendingReads) + Cardinality(Answers(tasks')) + Cardinality(Asks(requests'))

\* Then a caller that waits still has something on the way.
LEMMA KeepsReadsOK ==
    ASSUME AppInv, Keeps
    PROVE  ReadsOK'
<1>1. /\ Cardinality(Answers(tasks)) \in Nat /\ Cardinality(Answers(tasks')) \in Nat
      /\ Cardinality(Asks(requests)) \in Nat /\ Cardinality(Asks(requests')) \in Nat
  BY AnswersFinite, FS_CardinalityType DEF AppInv, Types, CentralTypes, ReadsOK, Keeps
<1>2. Len(pendingReads) \in Nat /\ Len(pendingReads') \in Nat
  BY DEF AppInv, Types, AppTypes, Keeps
<1>3. CASE pendingReads' = <<>>
  BY <1>1, <1>3 DEF ReadsOK, Keeps
<1>4. CASE pendingReads' # <<>> /\ ~Queued("didDisconnect")'
  BY <1>1, <1>2, <1>4 DEF AppInv, ReadsOK, Keeps
<1>5. CASE Queued("didDisconnect")'
  BY <1>5 DEF ReadsOK, Keeps
<1> QED BY <1>3, <1>4, <1>5

\* A task is put behind the others.
LEMMA QueuedAppend ==
    ASSUME CentralTypes, NEW t \in Tasks, tasks' = Append(tasks, t)
    PROVE  /\ \A T : Queued(T) => Queued(T)'
           /\ Queued(t.type)'
<1>1. /\ \A k \in DOMAIN tasks : k \in DOMAIN tasks' /\ tasks'[k] = tasks[k]
      /\ Len(tasks) + 1 \in DOMAIN tasks' /\ tasks'[Len(tasks) + 1] = t
  BY DEF CentralTypes
<1> QED BY <1>1 DEF Queued

\* The first task is taken.
LEMMA QueuedTail ==
    ASSUME CentralTypes, tasks # <<>>, tasks' = Tail(tasks)
    PROVE  \A T : Queued(T) /\ Head(tasks).type # T => Queued(T)'
<1>1. /\ Head(tasks) = tasks[1]
      /\ \A k \in DOMAIN tasks : k # 1 => k - 1 \in DOMAIN tasks' /\ tasks'[k - 1] = tasks[k]
  BY TailEntries DEF CentralTypes
<1> QED BY <1>1 DEF Queued

\* A step that only puts a task that is no answer.
LEMMA PutKeeps ==
    ASSUME AppInv, link' \in [Indicators -> LinkStates], UNCHANGED <<requests, pendingReads>>,
           tasks' = tasks \/ \E t \in Tasks : tasks' = Append(tasks, t) /\ ~IsAnswer(t)
    PROVE  Keeps
<1>1. CASE tasks' = tasks
  <2>1. Queued("didDisconnect")' = Queued("didDisconnect")
    BY <1>1 DEF Queued
  <2>2. /\ Cardinality(Answers(tasks)) \in Nat /\ Cardinality(Asks(requests)) \in Nat
        /\ Len(pendingReads) \in Nat
    BY AnswersFinite, FS_CardinalityType DEF AppInv, Types, CentralTypes, AppTypes, ReadsOK
  <2> QED BY <1>1, <2>1, <2>2 DEF AppInv, Types, CentralTypes, AppTypes, ReadsOK, Keeps
<1>2. ASSUME NEW t \in Tasks, tasks' = Append(tasks, t), ~IsAnswer(t) PROVE Keeps
  <2>1. Queued("didDisconnect") => Queued("didDisconnect")'
    BY <1>2, QueuedAppend DEF AppInv, Types
  <2>2. /\ Cardinality(Answers(tasks)) \in Nat /\ Cardinality(Asks(requests)) \in Nat
        /\ Len(pendingReads) \in Nat
    BY AnswersFinite, FS_CardinalityType DEF AppInv, Types, CentralTypes, AppTypes, ReadsOK
  <2>3. tasks' \in Seq(Tasks) /\ Cardinality(Answers(tasks')) = Cardinality(Answers(tasks)) + 0
    BY <1>2, AnswersAppend DEF AppInv, Types, CentralTypes
  <2> QED BY <2>1, <2>2, <2>3 DEF AppInv, Types, CentralTypes, AppTypes, ReadsOK, Keeps
<1> QED BY <1>1, <1>2

\* The indicators and CoreBluetooth.
LEMMA OutsideAppInv ==
    ASSUME AppInv, NEW i \in Indicators,
           \/ KeyOn(i) \/ KeyOff(i) \/ Changes(i) \/ LinkFails(i) \/ LinkUp(i) \/ LinkDown(i)
           \/ Build(i) \/ Serve(i)
    PROVE  AppInv'
<1>1. /\ link \in [Indicators -> LinkStates] /\ requests \in Requests /\ tasks \in Seq(Tasks)
      /\ DeviceTypes /\ AppTypes /\ IsFiniteSet(Asks(requests)) /\ CentralTypes
  BY DEF AppInv, Types, CentralTypes, ReadsOK
<1>2. AppTypes' /\ UNCHANGED pendingReads
  BY <1>1 DEF KeyOn, KeyOff, Changes, LinkFails, LinkUp, LinkDown, Build, Serve, AppUnchanged, AppTypes, bleVars
<1>3. value' \in [Indicators -> 0..MaxValue]
  <2>1. CASE Changes(i)
    <3>1. value[i] + 1 \in 0..MaxValue
      BY <1>1, <2>1, AppAssumption DEF Changes, DeviceTypes
    <3> QED BY <1>1, <2>1, <3>1 DEF Changes, DeviceTypes
  <2>2. CASE ~Changes(i)
    BY <1>1, <2>2 DEF KeyOn, KeyOff, LinkFails, LinkUp, LinkDown, Build, Serve, DeviceTypes, deviceVars
  <2> QED BY <2>1, <2>2
<1>4. DeviceTypes'
  <2>1. power' \in [Indicators -> BOOLEAN] /\ built' \in [Indicators -> BOOLEAN]
    BY <1>1 DEF KeyOn, KeyOff, Changes, LinkFails, LinkUp, LinkDown, Build, Serve, DeviceTypes, deviceVars
  <2>2. subscribed' \in [Indicators -> BOOLEAN]
    <3>1. CASE Serve(i)
      <4>1. Head(requests[i]) \in Kinds
        BY <1>1, <3>1, AsksTail DEF Serve
      <4> QED BY <1>1, <3>1, <4>1 DEF Serve, DeviceTypes, Kinds
    <3>2. CASE ~Serve(i)
      BY <1>1, <3>2 DEF KeyOn, KeyOff, Changes, LinkFails, LinkUp, LinkDown, Build, DeviceTypes, deviceVars
    <3> QED BY <3>1, <3>2
  <2> QED BY <1>3, <2>1, <2>2 DEF DeviceTypes
<1>5. link' \in [Indicators -> LinkStates]
  BY <1>1 DEF KeyOn, KeyOff, Changes, LinkFails, LinkUp, LinkDown, Build, Serve, LinkStates, centralVars
<1>6. CASE KeyOn(i) \/ KeyOff(i) \/ Changes(i) \/ LinkFails(i) \/ LinkUp(i) \/ Build(i)
  <2>1. UNCHANGED requests
    BY <1>6 DEF KeyOn, KeyOff, Changes, LinkFails, LinkUp, Build, centralVars
  <2>2. tasks' = tasks \/ \E t \in Tasks : tasks' = Append(tasks, t) /\ ~IsAnswer(t)
    <3>1. CASE Changes(i)
      <4>1. Value(i, FALSE) \in Tasks /\ ~IsAnswer(Value(i, FALSE))
        BY <1>3, TasksMade
      <4> QED BY <3>1, <4>1 DEF Changes
    <3>2. CASE ~Changes(i)
      BY <1>6, <3>2, TasksMade DEF KeyOn, KeyOff, LinkFails, LinkUp, Build, centralVars, Calls
    <3> QED BY <3>1, <3>2
  <2>3. Keeps
    BY <1>2, <1>5, <2>1, <2>2, PutKeeps
  <2> QED BY <1>2, <1>4, <2>3, KeepsReadsOK DEF AppInv, Types, Keeps
<1>7. CASE LinkDown(i)
  <2>1. Task("didDisconnect", i) \in Tasks /\ Task("didDisconnect", i).type = "didDisconnect"
    BY TasksMade
  <2>2. tasks' = Append(tasks, Task("didDisconnect", i)) /\ requests' = [requests EXCEPT ![i] = <<>>]
    BY <1>7 DEF LinkDown, Calls
  <2>3. Queued("didDisconnect")'
    BY <1>1, <2>1, <2>2, QueuedAppend
  <2>4. requests' \in Requests /\ IsFiniteSet(Asks(requests'))
    BY <1>1, <2>2, AsksDropped
  <2>5. tasks' \in Seq(Tasks)
    BY <1>1, <2>1, <2>2
  <2>6. Keeps
    BY <1>2, <1>5, <2>3, <2>4, <2>5 DEF Keeps, CentralTypes, AppTypes
  <2> QED BY <1>2, <1>4, <2>6, KeepsReadsOK DEF AppInv, Types, Keeps
<1>8. CASE Serve(i)
  <2>1. requests[i] # <<>> /\ requests' = [requests EXCEPT ![i] = Tail(@)]
    BY <1>8 DEF Serve
  <2>2. /\ requests' \in Requests /\ IsFiniteSet(Asks(requests')) /\ Head(requests[i]) \in Kinds
        /\ Cardinality(Asks(requests')) = Cardinality(Asks(requests)) - (IF Head(requests[i]) = "read" THEN 1 ELSE 0)
    BY <1>1, <2>1, AsksTail
  <2>3. \/ tasks' = tasks /\ Head(requests[i]) # "read"
        \/ tasks' = Append(tasks, Value(i, TRUE)) /\ Head(requests[i]) = "read"
        \/ tasks' = Append(tasks, Task("characteristics", i)) /\ Head(requests[i]) # "read"
    BY <1>8, <2>2 DEF Serve, Kinds
  <2>4. /\ Value(i, TRUE) \in Tasks /\ IsAnswer(Value(i, TRUE))
        /\ Task("characteristics", i) \in Tasks /\ ~IsAnswer(Task("characteristics", i))
    BY <1>3, TasksMade
  <2>5. /\ tasks' \in Seq(Tasks)
        /\ Cardinality(Answers(tasks')) = Cardinality(Answers(tasks)) + (IF Head(requests[i]) = "read" THEN 1 ELSE 0)
    <3>1. Cardinality(Answers(tasks)) \in Nat
      BY <1>1, AnswersFinite
    <3>2. CASE tasks' = tasks /\ Head(requests[i]) # "read"
      BY <1>1, <3>1, <3>2
    <3>3. CASE tasks' = Append(tasks, Value(i, TRUE)) /\ Head(requests[i]) = "read"
      BY <1>1, <2>4, <3>3, AnswersAppend
    <3>4. CASE tasks' = Append(tasks, Task("characteristics", i)) /\ Head(requests[i]) # "read"
      BY <1>1, <2>4, <3>4, AnswersAppend
    <3> QED BY <2>3, <3>2, <3>3, <3>4
  <2>6. Queued("didDisconnect") => Queued("didDisconnect")'
    <3>1. CASE tasks' = tasks
      BY <3>1 DEF Queued
    <3>2. CASE tasks' # tasks
      BY <1>1, <2>3, <2>4, <3>2, QueuedAppend
    <3> QED BY <3>1, <3>2
  <2>7. Cardinality(Answers(tasks)) \in Nat /\ Cardinality(Asks(requests)) \in Nat /\ Len(pendingReads) \in Nat
    BY <1>1, AnswersFinite, FS_CardinalityType DEF AppTypes
  <2>8. Keeps
    BY <1>2, <1>5, <2>2, <2>5, <2>6, <2>7 DEF Keeps, CentralTypes, AppTypes
  <2> QED BY <1>2, <1>4, <2>8, KeepsReadsOK DEF AppInv, Types, Keeps
<1> QED BY <1>6, <1>7, <1>8

\* A step that leaves no caller waiting.
LEMMA NobodyWaitsKeeps ==
    ASSUME CentralTypes', IsFiniteSet(Asks(requests')), pendingReads' = <<>>
    PROVE  Keeps
<1>1. pendingReads' \in Seq(Callers)
  BY SMT
<1> QED BY <1>1 DEF Keeps

\* The user and the timers: connect, disconnect, startScan and stopScan,
\* refresh, and the eight seconds of a read.
LEMMA UserAppInv ==
    ASSUME AppInv, User \/ TimeOut
    PROVE  AppInv'
<1>1. /\ link \in [Indicators -> LinkStates] /\ requests \in Requests /\ tasks \in Seq(Tasks)
      /\ DeviceTypes /\ AppTypes /\ IsFiniteSet(Asks(requests)) /\ CentralTypes
  BY DEF AppInv, Types, CentralTypes, ReadsOK
<1>2. DeviceTypes'
  BY <1>1 DEF User, connect, disconnect, Scan, Refresh, TimeOut, DeviceTypes, deviceVars
<1>3. Cardinality(Answers(tasks)) \in Nat /\ Cardinality(Asks(requests)) \in Nat /\ Len(pendingReads) \in Nat
  BY <1>1, AnswersFinite, FS_CardinalityType DEF AppTypes
<1>4. ASSUME NEW i \in Indicators, connect(i) PROVE AppInv'
  <2>1. AppTypes'
    BY <1>1, <1>4 DEF connect, AppTypes
  <2>2. link' \in [Indicators -> LinkStates]
    BY <1>1, <1>4 DEF connect, CentralConnect, LinkStates
  <2>3. tasks' = tasks \/ \E t \in Tasks : tasks' = Append(tasks, t) /\ ~IsAnswer(t)
    BY <1>4, TasksMade DEF connect, CentralConnect
  <2>4. Keeps
    BY <1>4, <2>2, <2>3, PutKeeps DEF connect
  <2> QED BY <1>2, <2>1, <2>4, KeepsReadsOK DEF AppInv, Types, Keeps
<1>5. CASE disconnect
  <2>1. peripheral # None => peripheral \in Indicators
    BY <1>1 DEF AppTypes
  <2>2. AppTypes'
    BY <1>1, <1>5 DEF disconnect, AppTypes
  <2>3. link' \in [Indicators -> LinkStates]
    BY <1>1, <1>5 DEF disconnect, LinkStates
  <2>4. tasks' \in Seq(Tasks)
    BY <1>1, <1>5, <2>1, TasksMade DEF disconnect, Calls
  <2>5. UNCHANGED requests /\ pendingReads' = <<>>
    BY <1>5 DEF disconnect
  <2>6. Keeps
    BY <1>1, <2>3, <2>4, <2>5, NobodyWaitsKeeps DEF CentralTypes
  <2> QED BY <1>2, <2>2, <2>6, KeepsReadsOK DEF AppInv, Types, Keeps
<1>6. CASE Scan
  <2>1. AppTypes'
    BY <1>1, <1>6 DEF Scan, AppTypes
  <2>2. UNCHANGED <<link, requests, tasks, pendingReads>>
    BY <1>6 DEF Scan, centralVars
  <2>3. Keeps
    BY <1>1, <2>2, PutKeeps
  <2> QED BY <1>2, <2>1, <2>3, KeepsReadsOK DEF AppInv, Types, Keeps
<1>7. CASE Refresh
  <2>1. peripheral \in Indicators
    BY <1>1, <1>7 DEF Refresh, isConnected, AppTypes
  <2>2. pendingReads' = Append(pendingReads, Caller) /\ Caller \in Callers
    BY <1>7 DEF Refresh, Caller, Callers
  <2>3. pendingReads' \in Seq(Callers) /\ Len(pendingReads') = Len(pendingReads) + 1
    BY <1>1, <2>2 DEF AppTypes
  <2>4. AppTypes'
    BY <1>1, <1>7, <2>3 DEF Refresh, AppTypes
  <2>5. requests' = [requests EXCEPT ![peripheral] = Append(@, "read")]
    <3>1. requests[peripheral] \o <<"read">> = Append(requests[peripheral], "read")
      BY <1>1, <2>1, RequestsMade DEF Requests
    <3> QED BY <1>7, <3>1 DEF Refresh, Ask
  <2>6. /\ requests' \in Requests /\ IsFiniteSet(Asks(requests'))
        /\ Cardinality(Asks(requests')) = Cardinality(Asks(requests)) + 1
    BY <1>1, <2>1, <2>5, AsksAppend DEF Kinds
  <2>7. UNCHANGED <<link, tasks>> /\ Queued("didDisconnect")' = Queued("didDisconnect")
    BY <1>7 DEF Refresh, Queued
  <2>8. Keeps
    BY <1>1, <1>3, <2>3, <2>6, <2>7 DEF Keeps, CentralTypes
  <2> QED BY <1>2, <2>4, <2>8, KeepsReadsOK DEF AppInv, Types, Keeps
<1>8. CASE TimeOut
  <2>1. PICK k \in DOMAIN pendingReads : pendingReads' = [pendingReads EXCEPT ![k].timedOut = TRUE]
    BY <1>8 DEF TimeOut
  <2>2. pendingReads' \in Seq(Callers) /\ Len(pendingReads') = Len(pendingReads)
    <3> DEFINE c == [pendingReads[k] EXCEPT !.timedOut = TRUE]
    <3>1. pendingReads[k] \in Callers
      BY <1>1 DEF AppTypes
    <3>2. c \in Callers /\ pendingReads' = [pendingReads EXCEPT ![k] = c]
      BY <2>1, <3>1 DEF Callers
    <3> HIDE DEF c
    <3> QED BY <1>1, <3>2 DEF AppTypes
  <2>3. AppTypes'
    BY <1>1, <1>8, <2>2 DEF TimeOut, AppTypes
  <2>4. UNCHANGED <<link, requests, tasks>> /\ Queued("didDisconnect")' = Queued("didDisconnect")
    BY <1>8 DEF TimeOut, centralVars, Queued
  <2>5. Keeps
    BY <1>1, <1>3, <2>2, <2>4 DEF Keeps, CentralTypes
  <2> QED BY <1>2, <2>3, <2>5, KeepsReadsOK DEF AppInv, Types, Keeps
<1> QED BY <1>4, <1>5, <1>6, <1>7, <1>8 DEF User

\* The main actor takes a task from the queue.
LEMMA TaskTaken ==
    ASSUME AppInv, tasks # <<>>, Done
    PROVE  /\ tasks' \in Seq(Tasks) /\ Head(tasks) \in Tasks
           /\ Cardinality(Answers(tasks)) \in Nat /\ Cardinality(Answers(tasks')) \in Nat
           /\ Cardinality(Answers(tasks')) = Cardinality(Answers(tasks)) - (IF IsAnswer(Head(tasks)) THEN 1 ELSE 0)
           /\ Head(tasks).type # "didDisconnect" /\ Queued("didDisconnect") => Queued("didDisconnect")'
<1>1. tasks \in Seq(Tasks) /\ CentralTypes /\ tasks' = Tail(tasks)
  BY DEF AppInv, Types, CentralTypes, Done
<1>2. /\ tasks' \in Seq(Tasks) /\ Head(tasks) \in Tasks
      /\ Cardinality(Answers(tasks')) = Cardinality(Answers(tasks)) - (IF IsAnswer(Head(tasks)) THEN 1 ELSE 0)
  BY <1>1, AnswersTail
<1>3. Cardinality(Answers(tasks)) \in Nat /\ Cardinality(Answers(tasks')) \in Nat
  BY <1>1, <1>2, AnswersFinite
<1>4. Head(tasks).type # "didDisconnect" /\ Queued("didDisconnect") => Queued("didDisconnect")'
  BY <1>1, QueuedTail
<1> QED BY <1>2, <1>3, <1>4

\* onNotification reads again: the one caller has its request.
LEMMA NotifiedReads ==
    ASSUME AppInv, onNotification, isConnected, characteristics # None
    PROVE  CentralTypes' /\ pendingReads' \in Seq(Callers) /\ ReadsOK'
<1>1. /\ peripheral \in Indicators /\ link \in [Indicators -> LinkStates]
      /\ requests \in Requests /\ IsFiniteSet(Asks(requests))
  BY DEF AppInv, Types, AppTypes, CentralTypes, ReadsOK, isConnected
<1>2. requests' = [requests EXCEPT ![peripheral] = Append(@, "read")]
  <2>1. requests[peripheral] \o <<"read">> = Append(requests[peripheral], "read")
    BY <1>1, RequestsMade DEF Requests
  <2> QED BY <2>1 DEF onNotification, Ask
<1>3. /\ requests' \in Requests /\ IsFiniteSet(Asks(requests'))
      /\ Cardinality(Asks(requests')) = Cardinality(Asks(requests)) + 1
  BY <1>1, <1>2, AsksAppend DEF Kinds
<1>4. tasks' \in Seq(Tasks) /\ Cardinality(Answers(tasks')) \in Nat
  BY TaskTaken DEF onNotification, Handling
<1>5. pendingReads' \in Seq(Callers) /\ Len(pendingReads') = 1
  <2>1. pendingReads' = <<Caller>> /\ Caller \in Callers
    BY DEF onNotification, Caller, Callers
  <2> QED BY <2>1
<1>6. Cardinality(Asks(requests)) \in Nat
  BY <1>1, FS_CardinalityType
<1>7. link' = link
  BY DEF onNotification
<1> QED BY <1>1, <1>3, <1>4, <1>5, <1>6, <1>7 DEF CentralTypes, ReadsOK

\* didUpdateValueFor while a caller waits: it takes one value off the queue, and
\* one caller.
LEMMA AnsweredKeeps ==
    ASSUME AppInv, AnswerCaller
    PROVE  Keeps
<1>1. /\ tasks' \in Seq(Tasks) /\ Cardinality(Answers(tasks)) \in Nat /\ Cardinality(Answers(tasks')) \in Nat
      /\ Cardinality(Answers(tasks')) >= Cardinality(Answers(tasks)) - 1
      /\ Queued("didDisconnect") => Queued("didDisconnect")'
  BY TaskTaken DEF AnswerCaller, Handling
<1>2. /\ pendingReads' \in Seq(Callers) /\ Len(pendingReads') = Len(pendingReads) - 1
      /\ Len(pendingReads) \in Nat
  BY DEF AppInv, Types, AppTypes, AnswerCaller
<1>3. requests' = requests /\ link' = link /\ Cardinality(Asks(requests)) \in Nat
  BY FS_CardinalityType DEF AppInv, ReadsOK, AnswerCaller
<1> QED BY <1>1, <1>2, <1>3 DEF AppInv, Types, CentralTypes, ReadsOK, Keeps

\* didDiscoverCharacteristicsFor: onReady's read comes with its caller.
LEMMA DiscoveredKeeps ==
    ASSUME AppInv, didDiscover
    PROVE  Keeps
<1>1. /\ tasks' \in Seq(Tasks) /\ Cardinality(Answers(tasks)) \in Nat
      /\ Cardinality(Answers(tasks')) = Cardinality(Answers(tasks))
      /\ Queued("didDisconnect") => Queued("didDisconnect")'
  BY TaskTaken DEF didDiscover, Handling, IsAnswer
<1>2. /\ requests \in Requests /\ IsFiniteSet(Asks(requests)) /\ link \in [Indicators -> LinkStates]
      /\ pendingReads \in Seq(Callers) /\ Len(pendingReads) \in Nat
      /\ peripheral # None => peripheral \in Indicators
  BY DEF AppInv, Types, AppTypes, CentralTypes, ReadsOK
<1>3. link' = link /\ Cardinality(Asks(requests)) \in Nat
  BY <1>2, FS_CardinalityType DEF didDiscover
<1>4. CASE peripheral # None /\ Linked(peripheral)
  <2> DEFINE rr == [requests EXCEPT ![peripheral] = Append(@, "subscribe")]
  <2>1. /\ rr \in Requests /\ IsFiniteSet(Asks(rr))
        /\ Cardinality(Asks(rr)) = Cardinality(Asks(requests)) + 0
    BY <1>2, <1>4, AsksAppend DEF Kinds
  <2>2. requests' = [rr EXCEPT ![peripheral] = Append(@, "read")]
    <3>1. requests[peripheral] \o <<"subscribe", "read">> = Append(Append(requests[peripheral], "subscribe"), "read")
      BY <1>2, <1>4, RequestsMade DEF Requests
    <3>2. requests' = [requests EXCEPT ![peripheral] = Append(Append(@, "subscribe"), "read")]
      BY <1>4, <3>1 DEF didDiscover, Ask, onReady
    <3> QED BY <1>2, <1>4, <3>2 DEF Requests
  <2> HIDE DEF rr
  <2>3. /\ requests' \in Requests /\ IsFiniteSet(Asks(requests'))
        /\ Cardinality(Asks(requests')) = Cardinality(Asks(rr)) + 1
    BY <1>2, <1>4, <2>1, <2>2, AsksAppend DEF Kinds
  <2>4. pendingReads' = Append(pendingReads, Caller) /\ Caller \in Callers
    BY <1>4 DEF didDiscover, Caller, Callers
  <2>5. pendingReads' \in Seq(Callers) /\ Len(pendingReads') = Len(pendingReads) + 1
    BY <1>2, <2>4
  <2> QED BY <1>1, <1>2, <1>3, <2>1, <2>3, <2>5 DEF CentralTypes, Keeps
<1>5. CASE ~(peripheral # None /\ Linked(peripheral))
  <2>1. requests' = requests /\ pendingReads' = pendingReads
    BY <1>5 DEF didDiscover
  <2> QED BY <1>1, <1>2, <1>3, <2>1 DEF CentralTypes, Keeps
<1> QED BY <1>4, <1>5

\* The main actor's tasks, one per callback.
LEMMA MainActorAppInv ==
    ASSUME AppInv, MainActor
    PROVE  AppInv'
<1>1. /\ link \in [Indicators -> LinkStates] /\ requests \in Requests /\ IsFiniteSet(Asks(requests))
      /\ DeviceTypes /\ AppTypes /\ tasks # <<>> /\ Done
  BY DEF AppInv, Types, CentralTypes, ReadsOK, MainActor, didConnect, didDiscover, didFailToConnect,
         didDisconnect, AnswerCaller, onNotification, Handling
<1>2. DeviceTypes'
  BY <1>1 DEF MainActor, didConnect, didDiscover, didFailToConnect, didDisconnect, AnswerCaller,
              onNotification, HandlerUnchanged, DeviceTypes, deviceVars
<1>3. tasks' \in Seq(Tasks) /\ From \in Indicators /\ Head(tasks).value \in 0..MaxValue
  BY <1>1, TaskTaken DEF Tasks, From
<1>4. CASE didConnect
  <2>1. /\ requests' \in Requests /\ IsFiniteSet(Asks(requests'))
        /\ Cardinality(Asks(requests')) = Cardinality(Asks(requests))
    <3>1. Cardinality(Asks(requests)) \in Nat
      BY <1>1, FS_CardinalityType
    <3>2. CASE Linked(From)
      <4>1. requests' = [requests EXCEPT ![From] = Append(@, "discover")]
        BY <1>4, <3>2 DEF didConnect
      <4>2. /\ requests' \in Requests /\ IsFiniteSet(Asks(requests'))
            /\ Cardinality(Asks(requests')) = Cardinality(Asks(requests)) + 0
        BY <1>1, <1>3, <4>1, AsksAppend DEF Kinds
      <4> QED BY <3>1, <4>2
    <3>3. CASE ~Linked(From)
      BY <1>1, <1>4, <3>3 DEF didConnect
    <3> QED BY <3>2, <3>3
  <2>2. UNCHANGED <<link, pendingReads>> /\ AppTypes'
    BY <1>1, <1>4 DEF didConnect, AppTypes
  <2>3. /\ Cardinality(Answers(tasks)) \in Nat /\ Cardinality(Answers(tasks')) = Cardinality(Answers(tasks))
        /\ Queued("didDisconnect") => Queued("didDisconnect")'
    BY <1>1, <1>4, TaskTaken DEF didConnect, Handling, IsAnswer
  <2>4. Cardinality(Asks(requests)) \in Nat /\ Len(pendingReads) \in Nat
    BY <1>1, FS_CardinalityType DEF AppTypes
  <2>5. Keeps
    BY <1>1, <1>3, <2>1, <2>2, <2>3, <2>4 DEF Keeps, CentralTypes, AppTypes
  <2> QED BY <1>2, <2>2, <2>5, KeepsReadsOK DEF AppInv, Types, Keeps
<1>5. CASE didDiscover
  <2>1. Keeps
    BY <1>5, DiscoveredKeeps
  <2>2. AppTypes'
    BY <1>1, <1>3, <1>5, <2>1 DEF didDiscover, AppTypes, Keeps
  <2> QED BY <1>2, <2>1, <2>2, KeepsReadsOK DEF AppInv, Types, Keeps
<1>6. CASE didFailToConnect \/ didDisconnect
  <2>1. pendingReads' = <<>> /\ UNCHANGED requests
    BY <1>6 DEF didFailToConnect, didDisconnect
  <2>2. link' \in [Indicators -> LinkStates]
    BY <1>1, <1>3, <1>6 DEF didFailToConnect, didDisconnect, Reopen, LinkStates
  <2>3. Keeps
    BY <1>1, <1>3, <2>1, <2>2, NobodyWaitsKeeps DEF CentralTypes
  <2>4. AppTypes'
    BY <1>1, <1>6, <2>3 DEF didFailToConnect, didDisconnect, AppTypes, Keeps
  <2> QED BY <1>2, <2>3, <2>4, KeepsReadsOK DEF AppInv, Types, Keeps
<1>7. CASE AnswerCaller
  <2>1. Keeps
    BY <1>7, AnsweredKeeps
  <2>2. shown' \in -1..MaxValue
    <3>1. shown' = shown \/ shown' = Head(tasks).value
      BY <1>7 DEF AnswerCaller
    <3> QED BY <1>1, <1>3, <3>1, AppAssumption DEF AppTypes
  <2>3. AppTypes'
    BY <1>1, <1>7, <2>1, <2>2 DEF AnswerCaller, AppTypes, Keeps
  <2> QED BY <1>2, <2>1, <2>3, KeepsReadsOK DEF AppInv, Types, Keeps
<1>8. CASE onNotification
  <2>1. CASE isConnected /\ characteristics # None
    <3>1. CentralTypes' /\ pendingReads' \in Seq(Callers) /\ ReadsOK'
      BY <1>8, <2>1, NotifiedReads
    <3>2. AppTypes'
      BY <1>1, <1>8, <3>1 DEF onNotification, AppTypes
    <3> QED BY <1>2, <3>1, <3>2 DEF AppInv, Types
  <2>2. CASE ~(isConnected /\ characteristics # None)
    <3>1. pendingReads' = <<>> /\ UNCHANGED <<requests, link>>
      BY <1>8, <2>2 DEF onNotification
    <3>2. Keeps
      BY <1>1, <1>3, <3>1, NobodyWaitsKeeps DEF CentralTypes
    <3>3. AppTypes'
      BY <1>1, <1>8, <3>2 DEF onNotification, AppTypes, Keeps
    <3> QED BY <1>2, <3>2, <3>3, KeepsReadsOK DEF AppInv, Types, Keeps
  <2> QED BY <2>1, <2>2
<1> QED BY <1>4, <1>5, <1>6, <1>7, <1>8 DEF MainActor

-----------------------------------------------------------------------------
(* What holds in every state.                                               *)

\* The app starts with nothing connected, nothing asked and nobody waiting.
LEMMA InitAppInv ==
    ASSUME Init
    PROVE  AppInv
<1>1. DeviceTypes /\ AppTypes
  <2>1. DeviceTypes
    BY AppAssumption DEF Init, DeviceTypes
  <2>2. shown \in -1..MaxValue
    BY AppAssumption DEF Init
  <2>3. pendingReads \in Seq(Callers)
    BY DEF Init
  <2> QED BY <2>1, <2>2, <2>3 DEF Init, AppTypes
<1>2. link \in [Indicators -> LinkStates] /\ requests \in Requests /\ tasks \in Seq(Tasks)
  BY DEF Init, LinkStates, Requests
<1>3. Asks(requests) = {}
  <2>1. \A i \in Indicators : DOMAIN requests[i] = {}
    BY DEF Init
  <2> QED BY <2>1, AskMeans
<1>4. IsFiniteSet(Asks(requests)) /\ Cardinality(Asks(requests)) = 0
  BY <1>3, FS_EmptySet
<1>5. Cardinality(Answers(tasks)) \in Nat
  BY <1>2, AnswersFinite
<1>6. Len(pendingReads) = 0
  BY DEF Init
<1> QED BY <1>1, <1>2, <1>4, <1>5, <1>6 DEF AppInv, Types, CentralTypes, ReadsOK

\* Every step keeps the invariant.
LEMMA NextAppInv ==
    ASSUME AppInv, [Next]_vars
    PROVE  AppInv'
<1>1. CASE MainActor
  BY <1>1, MainActorAppInv
<1>2. CASE User \/ TimeOut
  BY <1>2, UserAppInv
<1>3. CASE Bluetooth \/ Riding \/ \E i \in Indicators : Build(i) \/ Serve(i)
  BY <1>3, OutsideAppInv DEF Bluetooth, Riding
<1>4. CASE UNCHANGED vars
  BY <1>4 DEF vars, deviceVars, centralVars, bleVars, AppInv, Types, DeviceTypes, CentralTypes,
              AppTypes, ReadsOK, Queued, Answers, Asks
<1> QED BY <1>1, <1>2, <1>3, <1>4 DEF Next

\* The invariant: what every variable holds, and the count of the callers of
\* pendingReads against what CoreBluetooth still has to deliver to them.
THEOREM AppInvariant == Spec => []AppInv
<1>1. Init => AppInv
  BY InitAppInv
<1>2. AppInv /\ [Next]_vars => AppInv'
  BY NextAppInv
<1> QED BY <1>1, <1>2, PTL DEF Spec

\* A status on its way, or shown, is one an indicator has had; the observers and
\* the counters keep their bounds.
Had ==
    /\ \A k \in DOMAIN tasks : tasks[k].value <= value[tasks[k].from]
    /\ shown = -1 \/ \E i \in Indicators : shown \in 0..value[i]

Observers == gaveUp \in BOOLEAN /\ keyOffs \in 0..MaxKeyOffs /\ user \in 0..MaxUser /\ timeouts \in 0..MaxTimeouts

\* What a step does to the callbacks: it leaves them, puts one whose status is the
\* indicator's, or takes the first; a status never goes back, and what the app
\* shows is what it showed or came with the first.
LEMMA CallbackHad ==
    ASSUME AppInv, AppInv', Had,
           \A i \in Indicators : value[i] <= value'[i],
           \/ tasks' = tasks
           \/ \E t \in Tasks : tasks' = Append(tasks, t) /\ t.value <= value'[t.from]
           \/ tasks # <<>> /\ tasks' = Tail(tasks),
           shown' = shown \/ (tasks # <<>> /\ shown' = Head(tasks).value)
    PROVE  Had'
<1>1. tasks \in Seq(Tasks) /\ tasks' \in Seq(Tasks)
  BY DEF AppInv, Types, CentralTypes
<1>2. value \in [Indicators -> 0..MaxValue] /\ value' \in [Indicators -> 0..MaxValue]
  BY DEF AppInv, Types, DeviceTypes
<1>3. \A k \in DOMAIN tasks : /\ tasks[k].from \in Indicators /\ tasks[k].value \in 0..MaxValue
                              /\ tasks[k].value <= value[tasks[k].from]
  <2> TAKE k \in DOMAIN tasks
  <2>1. tasks[k] \in Tasks
    BY <1>1
  <2> QED BY <2>1 DEF Had, Tasks
<1>4. \A k \in DOMAIN tasks : tasks[k].value <= value'[tasks[k].from]
  <2> TAKE k \in DOMAIN tasks
  <2> DEFINE i == tasks[k].from
             v == tasks[k].value
  <2>1. i \in Indicators /\ v \in 0..MaxValue /\ v <= value[i] /\ value[i] <= value'[i]
    BY <1>3
  <2>2. value[i] \in 0..MaxValue /\ value'[i] \in 0..MaxValue
    BY <1>2, <2>1
  <2> HIDE DEF i, v
  <2>3. v <= value'[i]
    BY <2>1, <2>2, AppAssumption
  <2> QED BY <2>3 DEF i, v
<1>5. \A k \in DOMAIN tasks' : tasks'[k].value <= value'[tasks'[k].from]
  <2>1. CASE tasks' = tasks
    BY <1>4, <2>1
  <2>2. ASSUME NEW t \in Tasks, tasks' = Append(tasks, t), t.value <= value'[t.from]
        PROVE  \A k \in DOMAIN tasks' : tasks'[k].value <= value'[tasks'[k].from]
    <3>1. \A k \in DOMAIN tasks' : (k \in DOMAIN tasks /\ tasks'[k] = tasks[k]) \/ tasks'[k] = t
      BY <1>1, <2>2
    <3> QED BY <1>4, <2>2, <3>1
  <2>3. CASE tasks # <<>> /\ tasks' = Tail(tasks)
    <3>1. \A k \in DOMAIN tasks' : k + 1 \in DOMAIN tasks /\ tasks'[k] = tasks[k + 1]
      BY <1>1, <2>3, TailEntries
    <3> QED BY <1>4, <3>1
  <2> QED BY <2>1, <2>2, <2>3
<1>6. shown' = -1 \/ \E i \in Indicators : shown' \in 0..value'[i]
  <2>1. CASE shown' = shown /\ shown = -1
    BY <2>1
  <2>2. ASSUME NEW i \in Indicators, shown' = shown, shown \in 0..value[i]
        PROVE  shown' \in 0..value'[i]
    <3>1. value[i] \in 0..MaxValue /\ value'[i] \in 0..MaxValue /\ value[i] <= value'[i]
      BY <1>2
    <3> QED BY <2>2, <3>1, AppAssumption
  <2>3. CASE tasks # <<>> /\ shown' = Head(tasks).value
    <3> DEFINE i == tasks[1].from
               v == tasks[1].value
    <3>1. 1 \in DOMAIN tasks /\ Head(tasks) = tasks[1]
      BY <1>1, <2>3, TailEntries
    <3>2. i \in Indicators /\ v \in 0..MaxValue /\ v <= value'[i] /\ shown' = v
      BY <1>3, <1>4, <2>3, <3>1
    <3>3. value'[i] \in 0..MaxValue
      BY <1>2, <3>2
    <3> HIDE DEF i, v
    <3>4. shown' \in 0..value'[i]
      BY <3>2, <3>3, AppAssumption
    <3> QED BY <3>2, <3>4
  <2> QED BY <2>1, <2>2, <2>3 DEF Had
<1> QED BY <1>5, <1>6 DEF Had

\* A status never goes back.
LEMMA StatusGrows ==
    ASSUME AppInv, [Next]_vars
    PROVE  \A i \in Indicators : value[i] <= value'[i]
<1>1. \A i \in Indicators : value[i] \in Nat
  BY AppAssumption DEF AppInv, Types, DeviceTypes
<1>2. ASSUME NEW j \in Indicators, Changes(j)
      PROVE  \A i \in Indicators : value[i] <= value'[i]
  BY <1>1, <1>2 DEF Changes, AppInv, Types, DeviceTypes
<1>3. CASE ~\E j \in Indicators : Changes(j)
  <2>1. value' = value
    BY <1>3 DEF Next, MainActor, didConnect, didDiscover, didFailToConnect, didDisconnect,
           AnswerCaller, onNotification, HandlerUnchanged, User, connect, disconnect, Scan, Refresh, TimeOut,
           Bluetooth, Riding, KeyOn, KeyOff, LinkFails, LinkUp, LinkDown, Build, Serve,
           vars, deviceVars
  <2> QED BY <1>1, <2>1
<1> QED BY <1>2, <1>3

\* A callback carries no status or the one the indicator has.
LEMMA MadeWithStatus ==
    ASSUME NEW i \in Indicators, value' \in [Indicators -> 0..MaxValue]
    PROVE  /\ \A t \in {"didConnect", "didFailToConnect", "didDisconnect", "characteristics"} :
                Task(t, i) \in Tasks /\ Task(t, i).value <= value'[Task(t, i).from]
           /\ \A w \in BOOLEAN : Value(i, w) \in Tasks /\ Value(i, w).value <= value'[Value(i, w).from]
<1>1. value'[i] \in 0..MaxValue /\ value'[i] <= value'[i] /\ 0 <= value'[i]
  BY AppAssumption
<1>2. ASSUME NEW t PROVE Task(t, i).value = 0 /\ Task(t, i).from = i
  BY DEF Task
<1>3. ASSUME NEW w PROVE Value(i, w).value = value'[i] /\ Value(i, w).from = i
  BY DEF Value
<1> QED BY <1>1, <1>2, <1>3, TasksMade

\* Every step keeps it.
LEMMA NextHad ==
    ASSUME AppInv, AppInv', Had, [Next]_vars
    PROVE  Had'
<1>1. value' \in [Indicators -> 0..MaxValue] /\ \A i \in Indicators : value[i] <= value'[i]
  BY StatusGrows DEF AppInv, Types, DeviceTypes
<1>2. peripheral # None => peripheral \in Indicators
  BY DEF AppInv, Types, AppTypes
<1> DEFINE Put == \E t \in Tasks : tasks' = Append(tasks, t) /\ t.value <= value'[t.from]
           Taken == tasks # <<>> /\ tasks' = Tail(tasks)
<1>3. tasks' = tasks \/ Put \/ Taken
  <2>1. CASE MainActor
    BY <2>1 DEF MainActor, didConnect, didDiscover, didFailToConnect, didDisconnect, AnswerCaller,
                onNotification, Handling, Done
  <2>2. CASE Scan \/ Refresh \/ TimeOut \/ UNCHANGED vars
    BY <2>2 DEF Scan, Refresh, TimeOut, vars, centralVars
  <2>3. CASE disconnect
    BY <1>1, <1>2, <2>3, MadeWithStatus DEF disconnect, Calls
  <2>4. ASSUME NEW i \in Indicators, connect(i) PROVE tasks' = tasks \/ Put
    BY <1>1, <2>4, MadeWithStatus DEF connect, CentralConnect
  <2>5. ASSUME NEW i \in Indicators, KeyOn(i) \/ KeyOff(i) \/ Build(i) PROVE tasks' = tasks
    BY <2>5 DEF KeyOn, KeyOff, Build, centralVars
  <2>6. ASSUME NEW i \in Indicators, Changes(i) PROVE tasks' = tasks \/ Put
    BY <1>1, <2>6, MadeWithStatus DEF Changes
  <2>7. ASSUME NEW i \in Indicators, LinkUp(i) \/ LinkFails(i) \/ LinkDown(i) PROVE tasks' = tasks \/ Put
    BY <1>1, <2>7, MadeWithStatus DEF LinkUp, LinkFails, LinkDown, Calls
  <2>8. ASSUME NEW i \in Indicators, Serve(i) PROVE tasks' = tasks \/ Put
    <3>1. Head(requests[i]) \in Kinds
      <4>1. requests[i] \in Seq(Kinds) /\ requests[i] # <<>>
        BY <2>8 DEF Serve, AppInv, Types, CentralTypes, Requests
      <4> QED BY <4>1
    <3> QED BY <1>1, <2>8, <3>1, MadeWithStatus DEF Serve, Kinds
  <2> QED BY <2>1, <2>2, <2>3, <2>4, <2>5, <2>6, <2>7, <2>8 DEF Next, User, Bluetooth, Riding
<1>4. shown' = shown \/ (tasks # <<>> /\ shown' = Head(tasks).value)
  BY DEF Next, MainActor, didConnect, didDiscover, didFailToConnect, didDisconnect, AnswerCaller, onNotification,
         Handling, User, connect, disconnect, Scan, Refresh, TimeOut, Bluetooth, Riding, KeyOn, KeyOff, Changes,
         LinkFails, LinkUp, LinkDown, Build, Serve, AppUnchanged, vars
<1> QED BY <1>1, <1>3, <1>4, CallbackHad

\* The observers and the counters.
LEMMA NextObservers ==
    ASSUME AppInv, Observers, [Next]_vars
    PROVE  Observers'
<1>1. keyOffs' \in 0..MaxKeyOffs /\ user' \in 0..MaxUser /\ timeouts' \in 0..MaxTimeouts
  <2>1. keyOffs' = keyOffs \/ (keyOffs < MaxKeyOffs /\ keyOffs' = keyOffs + 1)
    BY DEF Next, MainActor, didConnect, didDiscover, didFailToConnect, didDisconnect, AnswerCaller, onNotification,
         HandlerUnchanged, User, connect, disconnect, Scan, Refresh, TimeOut, Bluetooth, Riding, KeyOn, KeyOff,
         Changes, LinkFails, LinkUp, LinkDown, Build, Serve, vars, obsVars
  <2>2. user' = user \/ (user < MaxUser /\ user' = user + 1)
    BY DEF Next, MainActor, didConnect, didDiscover, didFailToConnect, didDisconnect, AnswerCaller, onNotification,
         HandlerUnchanged, User, connect, disconnect, Scan, Refresh, TimeOut, Bluetooth, Riding, KeyOn, KeyOff,
         Changes, LinkFails, LinkUp, LinkDown, Build, Serve, AppUnchanged, vars, obsVars
  <2>3. timeouts' = timeouts \/ (timeouts < MaxTimeouts /\ timeouts' = timeouts + 1)
    BY DEF Next, MainActor, didConnect, didDiscover, didFailToConnect, didDisconnect, AnswerCaller, onNotification,
         HandlerUnchanged, User, connect, disconnect, Scan, Refresh, TimeOut, Bluetooth, Riding, KeyOn, KeyOff,
         Changes, LinkFails, LinkUp, LinkDown, Build, Serve, AppUnchanged, vars, obsVars
  <2> QED BY <2>1, <2>2, <2>3, AppAssumption DEF Observers
<1>2. gaveUp' \in BOOLEAN
  <2>1. CASE AnswerCaller
    <3>1. pendingReads \in Seq(Callers) /\ pendingReads # <<>>
      BY <2>1 DEF AnswerCaller, AppInv, Types, AppTypes
    <3>2. Head(pendingReads) \in Callers
      BY <3>1
    <3>3. Head(pendingReads).timedOut \in BOOLEAN
      BY <3>2 DEF Callers
    <3> QED BY <2>1, <3>3 DEF AnswerCaller, Observers
  <2>2. CASE ~AnswerCaller
    BY <2>2 DEF Next, MainActor, didConnect, didDiscover, didFailToConnect, didDisconnect, onNotification,
         User, connect, disconnect, Scan, Refresh, TimeOut, Bluetooth, Riding, KeyOn, KeyOff,
         Changes, LinkFails, LinkUp, LinkDown, Build, Serve, AppUnchanged, vars, obsVars, Observers
  <2> QED BY <2>1, <2>2
<1> QED BY <1>1, <1>2 DEF Observers

\* The type invariant: what each variable holds, every callback is from an
\* indicator, and a status the app shows, or is about to, is one an indicator had.
THEOREM AppTypesHold == Spec => []TypeOK
<1>1. Init => Had /\ Observers
  <2> SUFFICES ASSUME Init PROVE Had /\ Observers
    OBVIOUS
  <2>1. DOMAIN tasks = {}
    BY DEF Init
  <2>2. Had
    BY <2>1 DEF Init, Had
  <2>3. gaveUp \in BOOLEAN /\ keyOffs = 0 /\ user = 0 /\ timeouts = 0
    BY DEF Init
  <2>4. Observers
    BY <2>3, AppAssumption DEF Observers
  <2> QED BY <2>2, <2>4
<1>2. AppInv /\ AppInv' /\ Had /\ Observers /\ [Next]_vars => Had' /\ Observers'
  BY NextHad, NextObservers
<1>3. AppInv /\ Had /\ Observers => TypeOK
  BY DEF AppInv, Types, DeviceTypes, CentralTypes, AppTypes, Had, Observers, TypeOK
<1> QED BY <1>1, <1>2, <1>3, AppInvariant, PTL DEF Spec

\* ReadsAreAnswerable: for every caller of pendingReads a request or an answer is
\* on the way, or the loss of a link, which ends them all, is.
THEOREM ReadsAlwaysAnswerable == Spec => []ReadsAreAnswerable
<1>1. AppInv => ReadsAreAnswerable
  BY DEF AppInv, ReadsOK, ReadsAreAnswerable, ReadsAnswered, ReadsAsked, Answers, Asks
<1> QED BY <1>1, AppInvariant, PTL

-----------------------------------------------------------------------------
(* Reconnecting.                                                            *)

\* While the user's disconnection holds, didFailToConnect and didDisconnect ask
\* for no connection, and nothing else does.
LEMMA NoneBecomesPending ==
    ASSUME AppInv, [Next]_vars, userDisconnected, userDisconnected', NEW j \in Indicators,
           link'[j] = "pending"
    PROVE  link[j] = "pending"
<1>1. link \in [Indicators -> LinkStates]
  BY DEF AppInv, Types, CentralTypes
<1>2. CASE MainActor
  BY <1>1, <1>2 DEF MainActor, didConnect, didDiscover, didFailToConnect, didDisconnect, AnswerCaller, onNotification
<1>3. CASE User
  <2>1. CASE disconnect
    BY <1>1, <2>1 DEF disconnect, LinkStates
  <2>2. CASE Scan \/ Refresh \/ \E i \in Indicators : connect(i)
    BY <2>2 DEF Scan, Refresh, connect, centralVars
  <2> QED BY <1>3, <2>1, <2>2 DEF User
<1>4. CASE TimeOut
  BY <1>4 DEF TimeOut, centralVars
<1>5. ASSUME NEW i \in Indicators,
             \/ KeyOn(i) \/ KeyOff(i) \/ Changes(i) \/ LinkFails(i) \/ LinkUp(i) \/ LinkDown(i)
             \/ Build(i) \/ Serve(i)
      PROVE  link[j] = "pending"
  BY <1>1, <1>5 DEF KeyOn, KeyOff, Changes, LinkFails, LinkUp, LinkDown, Build, Serve, centralVars
<1>6. CASE UNCHANGED vars
  BY <1>6 DEF vars, centralVars
<1> QED BY <1>2, <1>3, <1>4, <1>5, <1>6 DEF Next, Bluetooth, Riding

\* Once the user has disconnected, and until he connects again, no step of the
\* app or of CoreBluetooth asks for a connection: a didDisconnect or a
\* didFailToConnect that comes late does not undo the disconnection.
THEOREM NoConnectAfterDisconnect ==
    Spec => [][userDisconnected /\ userDisconnected'
                 => \A i \in Indicators : link'[i] = "pending" => link[i] = "pending"]_vars
<1>1. AppInv /\ [Next]_vars
        => [userDisconnected /\ userDisconnected'
              => \A i \in Indicators : link'[i] = "pending" => link[i] = "pending"]_vars
  BY NoneBecomesPending
<1> QED BY <1>1, AppInvariant, PTL DEF Spec

\* What the app wants of the only indicator: unless the user has disconnected it
\* is both wanted and the peripheral, or nothing has been asked for yet.
OneIndicator(a) ==
    \/ userDisconnected
    \/ wanted = a /\ peripheral = a
    \/ tasks = <<>> /\ link[a] = "none"

\* Of one indicator: didDisconnect lets go of the peripheral only when the user
\* has disconnected.
LEMMA OneIndicatorStep ==
    ASSUME NEW a, Indicators = {a}, AppInv, OneIndicator(a), [Next]_vars
    PROVE  OneIndicator(a)'
<1> SUFFICES ASSUME ~userDisconnected'
             PROVE  (wanted' = a /\ peripheral' = a) \/ (tasks' = <<>> /\ link'[a] = "none")
  BY DEF OneIndicator
<1>1. link \in [Indicators -> LinkStates] /\ tasks \in Seq(Tasks)
  BY DEF AppInv, Types, CentralTypes
<1>2. CASE MainActor
  <2>1. tasks # <<>> /\ From = a /\ ~userDisconnected
    <3>1. tasks # <<>> /\ Done
      BY <1>2 DEF MainActor, didConnect, didDiscover, didFailToConnect, didDisconnect, AnswerCaller,
                  onNotification, Handling
    <3>2. userDisconnected' = userDisconnected
      BY <1>2 DEF MainActor, didConnect, didDiscover, didFailToConnect, didDisconnect, AnswerCaller,
                  onNotification
    <3>3. Head(tasks) \in Tasks
      BY <3>1, TaskTaken
    <3>4. From = a
      BY <3>3 DEF Tasks, From
    <3>5. ~userDisconnected
      BY <3>2, Zenon
    <3> QED BY <3>1, <3>4, <3>5
  <2>2. wanted = a /\ peripheral = a
    BY <2>1 DEF OneIndicator
  <2> QED BY <1>2, <2>1, <2>2 DEF MainActor, didConnect, didDiscover, didFailToConnect, didDisconnect,
                                  AnswerCaller, onNotification
<1>3. CASE User
  <2>1. CASE Scan \/ Refresh
    BY <2>1 DEF Scan, Refresh, centralVars, OneIndicator
  <2>2. ASSUME NEW i \in Indicators, connect(i)
        PROVE  wanted' = a /\ peripheral' = a
    BY <2>2 DEF connect
  <2>3. ~disconnect
    BY DEF disconnect
  <2> QED BY <1>3, <2>1, <2>2, <2>3 DEF User
<1>4. CASE TimeOut
  BY <1>4 DEF TimeOut, centralVars, OneIndicator
<1>5. ASSUME NEW i \in Indicators,
             \/ KeyOn(i) \/ KeyOff(i) \/ Changes(i) \/ LinkFails(i) \/ LinkUp(i) \/ LinkDown(i)
             \/ Build(i) \/ Serve(i)
      PROVE  (wanted' = a /\ peripheral' = a) \/ (tasks' = <<>> /\ link'[a] = "none")
  <2>1. UNCHANGED <<wanted, peripheral, userDisconnected>>
    BY <1>5 DEF KeyOn, KeyOff, Changes, LinkFails, LinkUp, LinkDown, Build, Serve, AppUnchanged, bleVars
  <2>2. link[a] = "none" => UNCHANGED <<tasks, link>>
    BY <1>5 DEF KeyOn, KeyOff, Changes, LinkFails, LinkUp, LinkDown, Build, Serve, centralVars
  <2> QED BY <2>1, <2>2 DEF OneIndicator
<1>6. CASE UNCHANGED vars
  BY <1>6 DEF vars, centralVars, bleVars, OneIndicator
<1> QED BY <1>2, <1>3, <1>4, <1>5, <1>6 DEF Next, Bluetooth, Riding

\* UserDisconnectHolds, where there is one indicator: the app does not go back to
\* it.  With two, the connection asked of the first stays pending when the user
\* goes to the second and disconnects there, for disconnect cancels only the
\* peripheral's.
THEOREM UserDisconnectAlwaysHolds ==
    ASSUME NEW a, Indicators = {a}
    PROVE  Spec => []UserDisconnectHolds
<1>1. Init => UserDisconnectHolds /\ OneIndicator(a)
  BY DEF Init, UserDisconnectHolds, OneIndicator
<1>2. ASSUME AppInv, [Next]_vars, UserDisconnectHolds, OneIndicator(a)
      PROVE  UserDisconnectHolds'
  <2> SUFFICES ASSUME userDisconnected', NEW j \in Indicators, link'[j] = "pending"
               PROVE  FALSE
    BY DEF UserDisconnectHolds
  <2>1. CASE userDisconnected
    BY <1>2, <2>1, NoneBecomesPending DEF UserDisconnectHolds
  <2>2. CASE ~userDisconnected
    <3>1. disconnect
      BY <1>2, <2>2 DEF Next, MainActor, didConnect, didDiscover, didFailToConnect, didDisconnect,
                 AnswerCaller, onNotification, User, connect, Scan, Refresh, TimeOut, Bluetooth, Riding,
                 KeyOn, KeyOff, Changes, LinkFails, LinkUp, LinkDown, Build, Serve, AppUnchanged,
                 vars, bleVars
    <3>2. peripheral = j \/ link[j] = "none"
      BY <1>2, <2>2 DEF OneIndicator
    <3> QED BY <3>1, <3>2 DEF disconnect, Linked
  <2> QED BY <2>1, <2>2
<1>3. AppInv /\ [Next]_vars /\ UserDisconnectHolds /\ OneIndicator(a)
        => UserDisconnectHolds' /\ OneIndicator(a)'
  BY <1>2, OneIndicatorStep
<1> QED BY <1>1, <1>3, AppInvariant, PTL DEF Spec
=============================================================================
