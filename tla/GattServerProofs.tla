-------------------------- MODULE GattServerProofs --------------------------
(***************************************************************************)
(* Proofs about the Bluetooth server, for every list of characteristics,    *)
(* any number of phones and writes, any capacities and any lag of the       *)
(* callback.  The events are a queue into which the stack and the phones    *)
(* put, in any mixture; the invariants say what its entries stand for.      *)
(***************************************************************************)
EXTENDS GattServer, FiniteSetTheorems, TLAPS

-----------------------------------------------------------------------------
(* The queue of events.                                                     *)

\* An event of the stack is not one of a phone.
FromTheirSender(q) ==
    \A k \in DOMAIN q : q[k].phone = "stack" <=> q[k].type \in StackTypes

\* An entry of the queue after an event was put behind it.
LEMMA QueueAppend ==
    ASSUME NEW q \in Seq(Records), NEW e \in Records
    PROVE  /\ Append(q, e) \in Seq(Records)
           /\ DOMAIN q = 1..Len(q) /\ Len(q) \in Nat
           /\ DOMAIN Append(q, e) = 1..(Len(q) + 1)
           /\ \A k \in DOMAIN q : k \in DOMAIN Append(q, e) /\ Append(q, e)[k] = q[k]
           /\ Append(q, e)[Len(q) + 1] = e
           /\ \A k \in DOMAIN Append(q, e) : k \in DOMAIN q \/ k = Len(q) + 1
OBVIOUS

\* An entry of the queue after the first one was taken.
LEMMA QueueTail ==
    ASSUME NEW q \in Seq(Records), q # <<>>
    PROVE  /\ Tail(q) \in Seq(Records)
           /\ DOMAIN q = 1..Len(q) /\ Len(q) \in Nat
           /\ Head(q) = q[1] /\ 1 \in DOMAIN q
           /\ DOMAIN Tail(q) = 1..(Len(q) - 1)
           /\ \A k \in DOMAIN Tail(q) : k + 1 \in DOMAIN q /\ Tail(q)[k] = q[k + 1]
           /\ \A k \in DOMAIN q : k # 1 => k - 1 \in DOMAIN Tail(q) /\ Tail(q)[k - 1] = q[k]
OBVIOUS

-----------------------------------------------------------------------------
(* Building the service, as a relation of the stack's table, the queue and  *)
(* the handles the callback has noted.                                      *)

BuildTypes(t, q, hs, cs, p) ==
    /\ t \in Seq({"char", "desc"} \X Chars)
    /\ q \in Seq(Records) /\ FromTheirSender(q)
    /\ hs \in [Chars -> Nat] /\ cs \in [Chars -> Nat] /\ p \in Chars

\* The next thing is only added when the event of the last has been handled.
OneStackEvent(q) ==
    \A j, k \in DOMAIN q : q[j].type \in StackTypes /\ q[k].type \in StackTypes => j = k

\* What HandlesMatch says, and that the handles are in the table.
HandlesInTable(t, hs, cs) ==
    \A i \in Chars : /\ hs[i] # 0 => hs[i] \in DOMAIN t /\ t[hs[i]] = <<"char", i>>
                     /\ cs[i] # 0 => cs[i] \in DOMAIN t /\ t[cs[i]] = <<"desc", i>>

\* Nothing is added twice, and nothing beyond the pending characteristic.
EntriesOnce(t, p) ==
    /\ \A g, h \in DOMAIN t : t[g] = t[h] => g = h
    /\ \A h \in DOMAIN t : t[h][2] <= p

\* The event in the queue is about what was added last, for the pending one.
ReportsPending(t, q, p) ==
    \A k \in DOMAIN q :
        LET e == q[k] IN
        /\ e.type \in {"registered", "created"} => t = <<>>
        /\ e.type = "charAdded" =>
             /\ \A h \in DOMAIN t : t[h][2] = p => h = e.handle /\ t[h] = <<"char", p>>
             /\ e.handle # 0 => e.handle \in DOMAIN t /\ t[e.handle] = <<"char", p>>
        /\ e.type = "descAdded" /\ e.handle # 0 =>
             e.handle \in DOMAIN t /\ t[e.handle] = <<"desc", p>>

Noted(t, hs, cs, h) ==
    \/ t[h][1] = "char" /\ hs[t[h][2]] = h
    \/ t[h][1] = "desc" /\ cs[t[h][2]] = h

Announces(e, h) == e.type \in {"charAdded", "descAdded"} /\ e.handle = h

\* What is in the table is noted or about to be.
EntriesNoted(t, q, hs, cs) ==
    \A h \in DOMAIN t : Noted(t, hs, cs, h) \/ \E j \in DOMAIN q : Announces(q[j], h)

\* What a phone refers to is noted by the time its request is handled.
RequestsNoted(t, q, hs, cs) ==
    \A k \in DOMAIN q : q[k].type \in DescTypes \cup WriteTypes =>
        /\ q[k].handle \in DOMAIN t
        /\ q[k].type \in DescTypes => t[q[k].handle][1] = "desc"
        /\ q[k].type \in WriteTypes => t[q[k].handle] = <<"char", char_index(q[k].write.attr)>>
        /\ \/ Noted(t, hs, cs, q[k].handle)
           \/ \E j \in DOMAIN q : j < k /\ Announces(q[j], q[k].handle)

BuildOK(t, q, hs, cs, p) ==
    /\ BuildTypes(t, q, hs, cs, p) /\ OneStackEvent(q) /\ HandlesInTable(t, hs, cs)
    /\ EntriesOnce(t, p) /\ ReportsPending(t, q, p)
    /\ EntriesNoted(t, q, hs, cs) /\ RequestsNoted(t, q, hs, cs)

NoStackEvent(q) == \A k \in DOMAIN q : q[k].type \notin StackTypes

\* A phone puts an event into the queue; a request is about something in the
\* table.
LEMMA PhoneEventBuildOK ==
    ASSUME NEW t, NEW q, NEW hs, NEW cs, NEW p, BuildOK(t, q, hs, cs, p),
           NEW e \in Records, e.type \in PhoneTypes, e.phone \in Phones,
           e.type \in DescTypes => e.handle \in DOMAIN t /\ t[e.handle][1] = "desc",
           e.type \in WriteTypes =>
               e.handle \in DOMAIN t /\ t[e.handle] = <<"char", char_index(e.write.attr)>>
    PROVE  BuildOK(t, Append(q, e), hs, cs, p)
<1> DEFINE r == Append(q, e)
<1>1. q \in Seq(Records)
  BY DEF BuildOK, BuildTypes
<1>2. /\ r \in Seq(Records) /\ DOMAIN q = 1..Len(q) /\ Len(q) \in Nat
      /\ \A k \in DOMAIN q : k \in DOMAIN r /\ r[k] = q[k]
      /\ \A k \in DOMAIN r : k \in DOMAIN q \/ (k = Len(q) + 1 /\ r[k] = e)
  BY <1>1, QueueAppend
<1>3. e.type \notin StackTypes /\ e.phone # "stack"
  BY GattAssumption DEF StackTypes, PhoneTypes, DescTypes, WriteTypes
<1> HIDE DEF r
<1>4. BuildTypes(t, r, hs, cs, p)
  BY <1>2, <1>3 DEF BuildOK, BuildTypes, FromTheirSender
<1>5. OneStackEvent(r)
  BY <1>2, <1>3 DEF BuildOK, OneStackEvent
<1>6. ReportsPending(t, r, p)
  BY <1>2, <1>3 DEF BuildOK, ReportsPending, StackTypes
<1>7. EntriesNoted(t, r, hs, cs)
  BY <1>2 DEF BuildOK, EntriesNoted
<1>8. RequestsNoted(t, r, hs, cs)
  <2> SUFFICES ASSUME NEW k \in DOMAIN r, r[k].type \in DescTypes \cup WriteTypes
               PROVE  /\ r[k].handle \in DOMAIN t
                      /\ r[k].type \in DescTypes => t[r[k].handle][1] = "desc"
                      /\ r[k].type \in WriteTypes =>
                           t[r[k].handle] = <<"char", char_index(r[k].write.attr)>>
                      /\ \/ Noted(t, hs, cs, r[k].handle)
                         \/ \E j \in DOMAIN r : j < k /\ Announces(r[j], r[k].handle)
    BY DEF RequestsNoted
  <2>1. CASE k \in DOMAIN q
    BY <1>2, <2>1 DEF BuildOK, RequestsNoted
  <2>2. CASE k = Len(q) + 1 /\ r[k] = e
    <3>1. \A j \in DOMAIN q : j < k
      BY <1>2, <2>2
    <3>2. e.handle \in DOMAIN t
      BY <2>2
    <3>3. \/ Noted(t, hs, cs, e.handle)
          \/ \E j \in DOMAIN q : Announces(q[j], e.handle)
      BY <3>2 DEF BuildOK, EntriesNoted
    <3> QED BY <1>2, <2>2, <3>1, <3>2, <3>3
  <2> QED BY <1>2, <2>1, <2>2
<1> QED BY <1>4, <1>5, <1>6, <1>7, <1>8 DEF BuildOK, r

\* The callback takes an event that announces nothing: one of a phone, or one
\* that reports a failure.
LEMMA TakeBuildOK ==
    ASSUME NEW t, NEW q, NEW hs, NEW cs, NEW p, BuildOK(t, q, hs, cs, p), q # <<>>,
           \A h \in DOMAIN t : ~Announces(q[1], h)
    PROVE  BuildOK(t, Tail(q), hs, cs, p)
<1> DEFINE r == Tail(q)
<1>1. q \in Seq(Records)
  BY DEF BuildOK, BuildTypes
<1>2. /\ r \in Seq(Records) /\ DOMAIN q = 1..Len(q) /\ Len(q) \in Nat
      /\ DOMAIN r = 1..(Len(q) - 1)
      /\ \A k \in DOMAIN r : k + 1 \in DOMAIN q /\ r[k] = q[k + 1]
      /\ \A k \in DOMAIN q : k # 1 => k - 1 \in DOMAIN r /\ r[k - 1] = q[k]
  BY <1>1, QueueTail
<1> HIDE DEF r
<1>3. BuildTypes(t, r, hs, cs, p)
  BY <1>2 DEF BuildOK, BuildTypes, FromTheirSender
<1>4. OneStackEvent(r)
  BY <1>2 DEF BuildOK, OneStackEvent
<1>5. ReportsPending(t, r, p)
  BY <1>2 DEF BuildOK, ReportsPending
<1>6. EntriesNoted(t, r, hs, cs)
  BY <1>2 DEF BuildOK, EntriesNoted
<1>7. RequestsNoted(t, r, hs, cs)
  <2> SUFFICES ASSUME NEW k \in DOMAIN r, r[k].type \in DescTypes \cup WriteTypes
               PROVE  /\ r[k].handle \in DOMAIN t
                      /\ r[k].type \in DescTypes => t[r[k].handle][1] = "desc"
                      /\ r[k].type \in WriteTypes =>
                           t[r[k].handle] = <<"char", char_index(r[k].write.attr)>>
                      /\ \/ Noted(t, hs, cs, r[k].handle)
                         \/ \E j \in DOMAIN r : j < k /\ Announces(r[j], r[k].handle)
    BY DEF RequestsNoted
  <2>1. k + 1 \in DOMAIN q /\ r[k] = q[k + 1]
    BY <1>2
  <2>2. /\ r[k].handle \in DOMAIN t
        /\ r[k].type \in DescTypes => t[r[k].handle][1] = "desc"
        /\ r[k].type \in WriteTypes => t[r[k].handle] = <<"char", char_index(r[k].write.attr)>>
        /\ \/ Noted(t, hs, cs, r[k].handle)
           \/ \E j \in DOMAIN q : j < k + 1 /\ Announces(q[j], r[k].handle)
    BY <2>1 DEF BuildOK, RequestsNoted
  <2>3. ASSUME NEW j \in DOMAIN q, j < k + 1, Announces(q[j], r[k].handle)
        PROVE  \E i \in DOMAIN r : i < k /\ Announces(r[i], r[k].handle)
    <3>1. j # 1
      BY <2>2, <2>3
    <3> QED BY <1>2, <2>3, <3>1
  <2> QED BY <2>2, <2>3
<1> QED BY <1>3, <1>4, <1>5, <1>6, <1>7 DEF BuildOK, r

\* With the stack's event the last one is gone from the queue.
LEMMA TakeStackEvent ==
    ASSUME NEW q \in Seq(Records), q # <<>>, OneStackEvent(q), q[1].type \in StackTypes
    PROVE  NoStackEvent(Tail(q))
<1>1. /\ 1 \in DOMAIN q
      /\ \A k \in DOMAIN Tail(q) : k \in Nat /\ k > 0 /\ k + 1 \in DOMAIN q /\ Tail(q)[k] = q[k + 1]
  BY QueueTail
<1> QED BY <1>1 DEF OneStackEvent, NoStackEvent

\* Taking the event of a new entry and noting its handle with the pending
\* characteristic: what = "char" for charAdded, "desc" for descAdded.
LEMMA NoteBuildOK ==
    ASSUME NEW t, NEW q, NEW hs, NEW cs, NEW p, BuildOK(t, q, hs, cs, p), q # <<>>,
           q[1].handle # 0,
           NEW hs2, NEW cs2,
           \/ /\ q[1].type = "charAdded"
              /\ hs2 = [hs EXCEPT ![p] = q[1].handle] /\ cs2 = cs
           \/ /\ q[1].type = "descAdded"
              /\ cs2 = [cs EXCEPT ![p] = q[1].handle] /\ hs2 = hs
    PROVE  BuildOK(t, Tail(q), hs2, cs2, p)
<1> DEFINE r == Tail(q)
           a == q[1].handle
<1>1. q \in Seq(Records) /\ hs \in [Chars -> Nat] /\ cs \in [Chars -> Nat] /\ p \in Chars
      /\ t \in Seq({"char", "desc"} \X Chars)
  BY DEF BuildOK, BuildTypes
<1>2. /\ r \in Seq(Records) /\ DOMAIN q = 1..Len(q) /\ Len(q) \in Nat /\ 1 \in DOMAIN q
      /\ DOMAIN r = 1..(Len(q) - 1)
      /\ \A k \in DOMAIN r : k + 1 \in DOMAIN q /\ r[k] = q[k + 1]
      /\ \A k \in DOMAIN q : k # 1 => k - 1 \in DOMAIN r /\ r[k - 1] = q[k]
  BY <1>1, QueueTail
<1> HIDE DEF r
<1>3. /\ a \in Nat /\ a # 0 /\ a \in DOMAIN t
      /\ q[1].type = "charAdded" => /\ t[a] = <<"char", p>>
                                    /\ \A h \in DOMAIN t : t[h][2] = p => h = a
      /\ q[1].type = "descAdded" => t[a] = <<"desc", p>>
  <2>1. q[1] \in Records
    BY <1>1, <1>2
  <2>2. a \in Nat
    BY <2>1 DEF Records
  <2> QED BY <1>2, <2>2 DEF BuildOK, ReportsPending
<1>4. /\ hs2 \in [Chars -> Nat] /\ cs2 \in [Chars -> Nat]
      /\ \A i \in Chars : hs2[i] = hs[i] \/ (i = p /\ q[1].type = "charAdded" /\ hs2[i] = a)
      /\ \A i \in Chars : cs2[i] = cs[i] \/ (i = p /\ q[1].type = "descAdded" /\ cs2[i] = a)
      /\ q[1].type = "charAdded" => hs2[p] = a /\ cs2 = cs
      /\ q[1].type = "descAdded" => cs2[p] = a /\ hs2 = hs
  BY <1>1, <1>3
<1> HIDE DEF a
<1>5. BuildTypes(t, r, hs2, cs2, p)
  BY <1>2, <1>4 DEF BuildOK, BuildTypes, FromTheirSender
<1>6. OneStackEvent(r)
  BY <1>2 DEF BuildOK, OneStackEvent
<1>7. HandlesInTable(t, hs2, cs2)
  BY <1>3, <1>4 DEF BuildOK, HandlesInTable
<1>8. ReportsPending(t, r, p)
  BY <1>2 DEF BuildOK, ReportsPending
<1>9. ASSUME NEW h \in DOMAIN t, Noted(t, hs, cs, h)
      PROVE  Noted(t, hs2, cs2, h)
  <2>1. t[h] \in {"char", "desc"} \X Chars /\ t[h] = <<t[h][1], t[h][2]>> /\ t[h][2] \in Chars
    BY <1>1
  <2>2. CASE t[h][1] = "char" /\ hs[t[h][2]] = h
    <3>1. t[h][2] = p /\ q[1].type = "charAdded" => h = a
      BY <1>3
    <3> QED BY <2>1, <2>2, <3>1, <1>4 DEF Noted
  <2>3. CASE t[h][1] = "desc" /\ cs[t[h][2]] = h
    <3>1. t[h][2] = p /\ q[1].type = "descAdded" => h = a
      BY <1>3, <2>1, <2>3 DEF BuildOK, EntriesOnce
    <3> QED BY <2>1, <2>3, <3>1, <1>4 DEF Noted
  <2> QED BY <1>9, <2>2, <2>3 DEF Noted
<1>10. Noted(t, hs2, cs2, a)
  BY <1>3, <1>4 DEF Noted
<1>11. \A h \in DOMAIN t : Announces(q[1], h) => h = a
  BY DEF Announces, a
<1>12. EntriesNoted(t, r, hs2, cs2)
  BY <1>2, <1>9, <1>10, <1>11 DEF BuildOK, EntriesNoted
<1>13. RequestsNoted(t, r, hs2, cs2)
  <2> SUFFICES ASSUME NEW k \in DOMAIN r, r[k].type \in DescTypes \cup WriteTypes
               PROVE  /\ r[k].handle \in DOMAIN t
                      /\ r[k].type \in DescTypes => t[r[k].handle][1] = "desc"
                      /\ r[k].type \in WriteTypes =>
                           t[r[k].handle] = <<"char", char_index(r[k].write.attr)>>
                      /\ \/ Noted(t, hs2, cs2, r[k].handle)
                         \/ \E j \in DOMAIN r : j < k /\ Announces(r[j], r[k].handle)
    BY DEF RequestsNoted
  <2>1. k + 1 \in DOMAIN q /\ r[k] = q[k + 1]
    BY <1>2
  <2>2. /\ r[k].handle \in DOMAIN t
        /\ r[k].type \in DescTypes => t[r[k].handle][1] = "desc"
        /\ r[k].type \in WriteTypes => t[r[k].handle] = <<"char", char_index(r[k].write.attr)>>
        /\ \/ Noted(t, hs, cs, r[k].handle)
           \/ \E j \in DOMAIN q : j < k + 1 /\ Announces(q[j], r[k].handle)
    BY <2>1 DEF BuildOK, RequestsNoted
  <2>3. ASSUME NEW j \in DOMAIN q, j < k + 1, Announces(q[j], r[k].handle), j # 1
        PROVE  \E i \in DOMAIN r : i < k /\ Announces(r[i], r[k].handle)
    BY <1>2, <2>3
  <2>4. Announces(q[1], r[k].handle) => Noted(t, hs2, cs2, r[k].handle)
    BY <1>10, <1>11, <2>2
  <2> QED BY <1>9, <2>2, <2>3, <2>4
<1> QED BY <1>5, <1>6, <1>7, <1>8, <1>12, <1>13 DEF BuildOK, r

\* The stack is asked for the next thing: it reports a new entry at the end of
\* the table, or that it added nothing.
LEMMA AddBuildOK ==
    ASSUME NEW t, NEW q, NEW hs, NEW cs, NEW p, BuildOK(t, q, hs, cs, p), NoStackEvent(q),
           NEW i \in Chars, NEW what, NEW type,
           \/ /\ what = "char" /\ type = "charAdded"
              /\ \A h \in DOMAIN t : t[h][2] < i
           \/ /\ what = "desc" /\ type = "descAdded" /\ i = p
              /\ \A h \in DOMAIN t : t[h] # <<"desc", p>>
    PROVE  /\ BuildOK(Append(t, <<what, i>>), Append(q, StackEvent(type, Len(t) + 1)), hs, cs, i)
           /\ BuildOK(t, Append(q, StackEvent(type, 0)), hs, cs, i)
<1>1. /\ q \in Seq(Records) /\ hs \in [Chars -> Nat] /\ cs \in [Chars -> Nat] /\ p \in Chars
      /\ t \in Seq({"char", "desc"} \X Chars) /\ <<what, i>> \in {"char", "desc"} \X Chars
  BY DEF BuildOK, BuildTypes
<1>2. Chars \subseteq Nat
  BY GattAssumption DEF Chars
<1> DEFINE u == Append(t, <<what, i>>)
<1>3. /\ u \in Seq({"char", "desc"} \X Chars) /\ DOMAIN t = 1..Len(t) /\ Len(t) \in Nat
      /\ \A h \in DOMAIN t : h \in DOMAIN u /\ u[h] = t[h] /\ h # Len(t) + 1
      /\ Len(t) + 1 \in DOMAIN u /\ u[Len(t) + 1] = <<what, i>>
      /\ \A h \in DOMAIN u : h \in DOMAIN t \/ h = Len(t) + 1
      /\ \A h \in DOMAIN t : t[h] \in {"char", "desc"} \X Chars
  <2> DEFINE T == {"char", "desc"} \X Chars
             x == <<what, i>>
  <2>1. t \in Seq(T) /\ x \in T
    BY <1>1
  <2> HIDE DEF T, x
  <2>2. /\ Append(t, x) \in Seq(T) /\ DOMAIN t = 1..Len(t) /\ Len(t) \in Nat
        /\ \A h \in DOMAIN t : h \in DOMAIN Append(t, x) /\ Append(t, x)[h] = t[h] /\ h # Len(t) + 1
        /\ Len(t) + 1 \in DOMAIN Append(t, x) /\ Append(t, x)[Len(t) + 1] = x
        /\ \A h \in DOMAIN Append(t, x) : h \in DOMAIN t \/ h = Len(t) + 1
        /\ \A h \in DOMAIN t : t[h] \in T
    BY <2>1
  <2> QED BY <2>2 DEF T, x
<1>4. \A h \in DOMAIN t : t[h] # <<what, i>> /\ t[h][2] \in Nat /\ t[h][2] <= i
  <2> TAKE h \in DOMAIN t
  <2>1. t[h] \in {"char", "desc"} \X Chars
    BY <1>3
  <2>2. t[h] = <<t[h][1], t[h][2]>> /\ t[h][2] \in Chars
    BY <2>1
  <2>3. t[h][2] \in Nat /\ i \in Nat /\ p \in Nat
    BY <1>1, <1>2, <2>2
  <2>4. t[h][2] <= p
    BY DEF BuildOK, EntriesOnce
  <2>5. t[h][2] <= i
    BY <2>3, <2>4
  <2>6. t[h] # <<what, i>>
    <3>1. CASE what = "char" /\ \A g \in DOMAIN t : t[g][2] < i
      BY <2>3, <3>1
    <3>2. CASE what = "desc" /\ i = p /\ \A g \in DOMAIN t : t[g] # <<"desc", p>>
      BY <3>2
    <3> QED BY <3>1, <3>2
  <2> QED BY <2>3, <2>5, <2>6
<1>5. ASSUME NEW e \in Records, e = StackEvent(type, e.handle)
      PROVE  LET r == Append(q, e) IN
             /\ r \in Seq(Records) /\ DOMAIN q = 1..Len(q) /\ Len(q) \in Nat
             /\ \A k \in DOMAIN q : k \in DOMAIN r /\ r[k] = q[k] /\ k # Len(q) + 1
             /\ Len(q) + 1 \in DOMAIN r /\ r[Len(q) + 1] = e
             /\ \A k \in DOMAIN r : k \in DOMAIN q \/ (k = Len(q) + 1 /\ r[k] = e)
             /\ FromTheirSender(r) /\ OneStackEvent(r)
             /\ e.type = type /\ type \in StackTypes /\ type \notin DescTypes \cup WriteTypes
  <2> DEFINE r == Append(q, e)
  <2>1. /\ r \in Seq(Records) /\ DOMAIN q = 1..Len(q) /\ Len(q) \in Nat
        /\ \A k \in DOMAIN q : k \in DOMAIN r /\ r[k] = q[k] /\ k # Len(q) + 1
        /\ Len(q) + 1 \in DOMAIN r /\ r[Len(q) + 1] = e
        /\ \A k \in DOMAIN r : k \in DOMAIN q \/ (k = Len(q) + 1 /\ r[k] = e)
    BY <1>1, QueueAppend
  <2>2. /\ e.phone = "stack" /\ e.type = type /\ type \in StackTypes
        /\ type \notin DescTypes \cup WriteTypes
    BY <1>5 DEF StackEvent, Event, StackTypes, DescTypes, WriteTypes
  <2> HIDE DEF r
  <2>3. FromTheirSender(r)
    BY <2>1, <2>2 DEF BuildOK, BuildTypes, FromTheirSender
  <2>4. OneStackEvent(r)
    BY <2>1, <2>2 DEF NoStackEvent, OneStackEvent
  <2> QED BY <2>1, <2>2, <2>3, <2>4 DEF r
<1>6. \A n \in Nat : StackEvent(type, n) \in Records /\ StackEvent(type, n).handle = n
  BY DEF StackEvent, Event, Records, StackTypes
<1>7. BuildOK(u, Append(q, StackEvent(type, Len(t) + 1)), hs, cs, i)
  <2> DEFINE e == StackEvent(type, Len(t) + 1)
             r == Append(q, e)
  <2>1. e \in Records /\ e.handle = Len(t) + 1 /\ e = StackEvent(type, e.handle)
    BY <1>3, <1>6
  <2> HIDE DEF e
  <2>2. /\ r \in Seq(Records) /\ DOMAIN q = 1..Len(q) /\ Len(q) \in Nat
        /\ \A k \in DOMAIN q : k \in DOMAIN r /\ r[k] = q[k] /\ k # Len(q) + 1
        /\ Len(q) + 1 \in DOMAIN r /\ r[Len(q) + 1] = e
        /\ \A k \in DOMAIN r : k \in DOMAIN q \/ (k = Len(q) + 1 /\ r[k] = e)
        /\ FromTheirSender(r) /\ OneStackEvent(r)
        /\ e.type = type /\ type \in StackTypes /\ type \notin DescTypes \cup WriteTypes
    BY <1>5, <2>1
  <2> HIDE DEF r, u
  <2>3. BuildTypes(u, r, hs, cs, i)
    BY <1>1, <1>3, <2>2 DEF BuildTypes
  <2>4. HandlesInTable(u, hs, cs)
    BY <1>3 DEF BuildOK, HandlesInTable
  <2>5. EntriesOnce(u, i)
    <3>1. \A g, h \in DOMAIN u : u[g] = u[h] => g = h
      BY <1>3, <1>4 DEF BuildOK, EntriesOnce
    <3>2. \A h \in DOMAIN u : u[h][2] <= i
      BY <1>2, <1>3, <1>4
    <3> QED BY <3>1, <3>2 DEF EntriesOnce
  <2>6. ReportsPending(u, r, i)
    <3>1. \A k \in DOMAIN r : r[k].type \in StackTypes => r[k] = e
      BY <2>2 DEF NoStackEvent
    <3>2. type = "charAdded" => \A h \in DOMAIN t : t[h][2] # i
      BY <1>2, <1>4
    <3>3. type = "charAdded" => \A h \in DOMAIN u : u[h][2] = i => h = Len(t) + 1 /\ u[h] = <<"char", i>>
      BY <1>3, <3>2
    <3>4. type \in {"charAdded", "descAdded"}
      OBVIOUS
    <3> QED BY <1>3, <2>1, <2>2, <3>1, <3>3, <3>4 DEF ReportsPending, StackTypes
  <2>7. \A h \in DOMAIN t : Noted(t, hs, cs, h) => Noted(u, hs, cs, h)
    BY <1>3 DEF Noted
  <2>8. EntriesNoted(u, r, hs, cs)
    <3> SUFFICES ASSUME NEW h \in DOMAIN u
                 PROVE  Noted(u, hs, cs, h) \/ \E j \in DOMAIN r : Announces(r[j], h)
      BY DEF EntriesNoted
    <3>1. CASE h \in DOMAIN t
      <4>1. Noted(t, hs, cs, h) \/ \E j \in DOMAIN q : Announces(q[j], h)
        BY <3>1 DEF BuildOK, EntriesNoted
      <4> QED BY <2>2, <2>7, <3>1, <4>1
    <3>2. CASE h = Len(t) + 1
      <4>1. Announces(e, h)
        BY <2>1, <2>2, <3>2 DEF Announces
      <4> QED BY <2>2, <4>1
    <3> QED BY <1>3, <3>1, <3>2
  <2>9. RequestsNoted(u, r, hs, cs)
    <3> SUFFICES ASSUME NEW k \in DOMAIN r, r[k].type \in DescTypes \cup WriteTypes
                 PROVE  /\ r[k].handle \in DOMAIN u
                        /\ r[k].type \in DescTypes => u[r[k].handle][1] = "desc"
                        /\ r[k].type \in WriteTypes =>
                             u[r[k].handle] = <<"char", char_index(r[k].write.attr)>>
                        /\ \/ Noted(u, hs, cs, r[k].handle)
                           \/ \E j \in DOMAIN r : j < k /\ Announces(r[j], r[k].handle)
      BY DEF RequestsNoted
    <3>1. k \in DOMAIN q /\ r[k] = q[k]
      BY <2>2
    <3>2. /\ r[k].handle \in DOMAIN t
          /\ r[k].type \in DescTypes => t[r[k].handle][1] = "desc"
          /\ r[k].type \in WriteTypes => t[r[k].handle] = <<"char", char_index(r[k].write.attr)>>
          /\ \/ Noted(t, hs, cs, r[k].handle)
             \/ \E j \in DOMAIN q : j < k /\ Announces(q[j], r[k].handle)
      BY <3>1 DEF BuildOK, RequestsNoted
    <3>3. u[r[k].handle] = t[r[k].handle] /\ r[k].handle \in DOMAIN u
      BY <1>3, <3>2
    <3> QED BY <2>2, <2>7, <3>2, <3>3
  <2> QED BY <2>2, <2>3, <2>4, <2>5, <2>6, <2>8, <2>9 DEF BuildOK, r, e
<1>8. BuildOK(t, Append(q, StackEvent(type, 0)), hs, cs, i)
  <2> DEFINE e == StackEvent(type, 0)
             r == Append(q, e)
  <2>1. e \in Records /\ e.handle = 0 /\ e = StackEvent(type, e.handle)
    BY <1>6
  <2> HIDE DEF e
  <2>2. /\ r \in Seq(Records) /\ DOMAIN q = 1..Len(q) /\ Len(q) \in Nat
        /\ \A k \in DOMAIN q : k \in DOMAIN r /\ r[k] = q[k] /\ k # Len(q) + 1
        /\ Len(q) + 1 \in DOMAIN r /\ r[Len(q) + 1] = e
        /\ \A k \in DOMAIN r : k \in DOMAIN q \/ (k = Len(q) + 1 /\ r[k] = e)
        /\ FromTheirSender(r) /\ OneStackEvent(r)
        /\ e.type = type /\ type \in StackTypes /\ type \notin DescTypes \cup WriteTypes
    BY <1>5, <2>1
  <2> HIDE DEF r
  <2>3. BuildTypes(t, r, hs, cs, i)
    BY <1>1, <2>2 DEF BuildTypes
  <2>4. EntriesOnce(t, i)
    BY <1>4 DEF BuildOK, EntriesOnce
  <2>5. ReportsPending(t, r, i)
    <3>1. \A k \in DOMAIN r : r[k].type \in StackTypes => r[k] = e
      BY <2>2 DEF NoStackEvent
    <3>2. type = "charAdded" => \A h \in DOMAIN t : t[h][2] # i
      BY <1>2, <1>4
    <3> QED BY <2>1, <2>2, <3>1, <3>2 DEF ReportsPending, StackTypes
  <2>6. EntriesNoted(t, r, hs, cs)
    BY <2>2 DEF BuildOK, EntriesNoted
  <2>7. RequestsNoted(t, r, hs, cs)
    BY <2>2 DEF BuildOK, RequestsNoted
  <2> QED BY <2>2, <2>3, <2>4, <2>5, <2>6, <2>7 DEF BuildOK, r, e
<1> QED BY <1>7, <1>8

\* The service is asked for: nothing is in the table yet.
LEMMA CreateBuildOK ==
    ASSUME NEW q, NEW hs, NEW cs, NEW p, BuildOK(<<>>, q, hs, cs, p), NoStackEvent(q)
    PROVE  BuildOK(<<>>, Append(q, StackEvent("created", 0)), hs, cs, p)
<1> DEFINE e == StackEvent("created", 0)
           r == Append(q, e)
<1>1. /\ e \in Records /\ e.type = "created" /\ e.phone = "stack"
      /\ e.type \in StackTypes /\ e.type \notin DescTypes \cup WriteTypes
  BY DEF StackEvent, Event, Records, StackTypes, DescTypes, WriteTypes
<1>2. q \in Seq(Records)
  BY DEF BuildOK, BuildTypes
<1> HIDE DEF e
<1>3. /\ r \in Seq(Records)
      /\ \A k \in DOMAIN q : k \in DOMAIN r /\ r[k] = q[k]
      /\ \A k \in DOMAIN r : k \in DOMAIN q \/ (k = Len(q) + 1 /\ r[k] = e)
  BY <1>1, <1>2, QueueAppend
<1> HIDE DEF r
<1>4. BuildTypes(<<>>, r, hs, cs, p)
  BY <1>1, <1>3 DEF BuildOK, BuildTypes, FromTheirSender
<1>5. OneStackEvent(r)
  BY <1>1, <1>3 DEF NoStackEvent, OneStackEvent
<1>6. ReportsPending(<<>>, r, p)
  BY <1>1, <1>3 DEF BuildOK, ReportsPending
<1>7. EntriesNoted(<<>>, r, hs, cs)
  BY DEF EntriesNoted
<1>8. RequestsNoted(<<>>, r, hs, cs)
  BY <1>1, <1>3 DEF BuildOK, RequestsNoted
<1> QED BY <1>4, <1>5, <1>6, <1>7, <1>8 DEF BuildOK, r, e

-----------------------------------------------------------------------------
(* HandlesMatch, whatever the phones do between the events of the stack.    *)

BuildInv == BuildOK(table, events, handles, cccd, pending)

\* Ble::start has asked for nothing but the registration.
LEMMA InitBuildInv ==
    ASSUME Init
    PROVE  BuildInv
<1>1. 1 \in Chars /\ \A i \in Chars : handles[i] = 0 /\ cccd[i] = 0
  BY GattAssumption DEF Init, Chars
<1>2. /\ events[1] = StackEvent("registered", 0) /\ DOMAIN events = {1}
      /\ StackEvent("registered", 0) \in Records
      /\ StackEvent("registered", 0).type = "registered"
      /\ StackEvent("registered", 0).phone = "stack"
  BY DEF Init, StackEvent, Event, Records, StackTypes
<1>3. events \in Seq(Records)
  BY <1>2 DEF Init
<1>4. BuildTypes(table, events, handles, cccd, pending)
  BY <1>1, <1>2, <1>3 DEF Init, BuildTypes, FromTheirSender, StackTypes
<1>5. OneStackEvent(events) /\ ReportsPending(table, events, pending)
  BY <1>2 DEF Init, OneStackEvent, ReportsPending
<1>6. HandlesInTable(table, handles, cccd) /\ EntriesOnce(table, pending)
      /\ EntriesNoted(table, events, handles, cccd)
  BY <1>1 DEF Init, HandlesInTable, EntriesOnce, EntriesNoted
<1>7. RequestsNoted(table, events, handles, cccd)
  BY <1>2 DEF RequestsNoted, DescTypes, WriteTypes
<1> QED BY <1>4, <1>5, <1>6, <1>7 DEF BuildInv, BuildOK

\* What the callback sees when it takes a stack event.
LEMMA StackEventTaken ==
    ASSUME BuildInv, NEW T, Handling(T), T \in StackTypes
    PROVE  /\ events # <<>> /\ events[1].type = T /\ Head(events) = events[1]
           /\ NoStackEvent(Tail(events)) /\ 1 \in DOMAIN events
           /\ T \notin {"charAdded", "descAdded"} => BuildOK(table, Tail(events), handles, cccd, pending)
           /\ T \in {"charAdded", "descAdded"} /\ events[1].handle = 0 =>
                BuildOK(table, Tail(events), handles, cccd, pending)
<1>1. events \in Seq(Records) /\ OneStackEvent(events) /\ table \in Seq({"char", "desc"} \X Chars)
  BY DEF BuildInv, BuildOK, BuildTypes
<1>2. events # <<>> /\ Head(events) = events[1] /\ events[1].type = T /\ 1 \in DOMAIN events
  BY <1>1, QueueTail DEF Handling
<1>3. NoStackEvent(Tail(events))
  BY <1>1, <1>2, TakeStackEvent
<1>4. \A h \in DOMAIN table : h # 0
  BY <1>1
<1>5. ASSUME \A h \in DOMAIN table : ~Announces(events[1], h)
      PROVE  BuildOK(table, Tail(events), handles, cccd, pending)
  BY <1>2, <1>5, TakeBuildOK DEF BuildInv
<1> QED BY <1>2, <1>3, <1>4, <1>5 DEF Announces

\* add_char, for the next characteristic or the first one.
LEMMA AddCharBuildOK ==
    ASSUME NEW t, NEW q, NEW hs, NEW cs, NEW p, BuildOK(t, q, hs, cs, p), NoStackEvent(q),
           NEW i \in Chars, i = p + 1 \/ t = <<>>
    PROVE  /\ BuildOK(Append(t, <<"char", i>>), Append(q, StackEvent("charAdded", Len(t) + 1)), hs, cs, i)
           /\ BuildOK(t, Append(q, StackEvent("charAdded", 0)), hs, cs, i)
<1>1. \A h \in DOMAIN t : t[h][2] < i
  <2>1. CASE t = <<>>
    BY <2>1
  <2>2. CASE i = p + 1
    <3> TAKE h \in DOMAIN t
    <3>1. t \in Seq({"char", "desc"} \X Chars) /\ p \in Chars
      BY DEF BuildOK, BuildTypes
    <3>2. t[h] \in {"char", "desc"} \X Chars
      BY <3>1
    <3>3. t[h][2] \in Nat /\ p \in Nat
      BY <3>1, <3>2, GattAssumption DEF Chars
    <3>4. t[h][2] <= p
      BY DEF BuildOK, EntriesOnce
    <3> QED BY <2>2, <3>3, <3>4
  <2> QED BY <2>1, <2>2
<1> QED BY <1>1, AddBuildOK

\* advance, after the callback has noted the handle.
LEMMA AdvanceBuildInv ==
    ASSUME BuildOK(table, Tail(events), handles', cccd', pending), NoStackEvent(Tail(events)),
           advance(pending)
    PROVE  BuildInv'
<1>1. pending \in Chars
  BY DEF BuildOK, BuildTypes
<1>2. CASE pending < Len(CHARS)
  <2>1. pending + 1 \in Chars
    BY <1>1, <1>2, GattAssumption DEF Chars
  <2>2. /\ BuildOK(Append(table, <<"char", pending + 1>>),
                   Append(Tail(events), StackEvent("charAdded", Len(table) + 1)),
                   handles', cccd', pending + 1)
        /\ BuildOK(table, Append(Tail(events), StackEvent("charAdded", 0)), handles', cccd', pending + 1)
    BY <2>1, AddCharBuildOK
  <2> QED BY <1>2, <2>2 DEF advance, add_char, AddToTable, BuildInv
<1>3. CASE ~(pending < Len(CHARS))
  BY <1>3 DEF advance, BuildInv
<1> QED BY <1>2, <1>3

\* The steps that build the service.
LEMMA BuildBuildInv ==
    ASSUME BuildInv, Build \/ EventFails
    PROVE  BuildInv'
<1>1. CASE OnRegistered
  <2>1. /\ events # <<>> /\ events[1].type = "registered" /\ NoStackEvent(Tail(events))
        /\ 1 \in DOMAIN events /\ BuildOK(table, Tail(events), handles, cccd, pending)
    BY <1>1, StackEventTaken DEF OnRegistered, StackTypes
  <2>2. table = <<>>
    BY <2>1 DEF BuildInv, BuildOK, ReportsPending
  <2>3. BuildOK(table, Append(Tail(events), StackEvent("created", 0)), handles, cccd, pending)
    BY <2>1, <2>2, CreateBuildOK
  <2> QED BY <1>1, <2>3 DEF OnRegistered, buildVars, BuildInv
<1>2. CASE OnAdvConfigured
  BY <1>2 DEF OnAdvConfigured, BuildInv
<1>3. CASE OnCreated
  <2>1. /\ events # <<>> /\ events[1].type = "created" /\ NoStackEvent(Tail(events))
        /\ 1 \in DOMAIN events /\ BuildOK(table, Tail(events), handles, cccd, pending)
    BY <1>3, StackEventTaken DEF OnCreated, StackTypes
  <2>2. table = <<>> /\ 1 \in Chars
    BY <2>1, GattAssumption DEF BuildInv, BuildOK, ReportsPending, Chars
  <2>3. /\ BuildOK(Append(table, <<"char", 1>>),
                   Append(Tail(events), StackEvent("charAdded", Len(table) + 1)), handles, cccd, 1)
        /\ BuildOK(table, Append(Tail(events), StackEvent("charAdded", 0)), handles, cccd, 1)
    BY <2>1, <2>2, AddCharBuildOK
  <2> QED BY <1>3, <2>3 DEF OnCreated, add_char, AddToTable, BuildInv
<1>4. CASE OnCharAdded
  <2>1. /\ events # <<>> /\ events[1].type = "charAdded" /\ NoStackEvent(Tail(events))
        /\ 1 \in DOMAIN events /\ Head(events) = events[1]
    BY <1>4, StackEventTaken DEF OnCharAdded, StackTypes
  <2>2. BuildOK(table, Tail(events), handles', cccd', pending)
    BY <1>4, <2>1, NoteBuildOK DEF OnCharAdded, BuildInv
  <2>3. CASE CHARS[pending].notify
    <3>1. \A h \in DOMAIN table : table[h] # <<"desc", pending>>
      BY <2>1 DEF BuildInv, BuildOK, ReportsPending
    <3>2. pending \in Chars
      BY DEF BuildInv, BuildOK, BuildTypes
    <3>3. /\ BuildOK(Append(table, <<"desc", pending>>),
                     Append(Tail(events), StackEvent("descAdded", Len(table) + 1)), handles', cccd', pending)
          /\ BuildOK(table, Append(Tail(events), StackEvent("descAdded", 0)), handles', cccd', pending)
      BY <2>1, <2>2, <3>1, <3>2, AddBuildOK
    <3> QED BY <1>4, <2>3, <3>3 DEF OnCharAdded, AddToTable, BuildInv
  <2>4. CASE ~CHARS[pending].notify
    BY <1>4, <2>1, <2>2, <2>4, AdvanceBuildInv DEF OnCharAdded
  <2> QED BY <2>3, <2>4
<1>5. CASE OnDescAdded
  <2>1. /\ events # <<>> /\ events[1].type = "descAdded" /\ NoStackEvent(Tail(events))
        /\ 1 \in DOMAIN events /\ Head(events) = events[1]
    BY <1>5, StackEventTaken DEF OnDescAdded, StackTypes
  <2>2. BuildOK(table, Tail(events), handles', cccd', pending)
    BY <1>5, <2>1, NoteBuildOK DEF OnDescAdded, BuildInv
  <2> QED BY <1>5, <2>1, <2>2, AdvanceBuildInv DEF OnDescAdded
<1>6. CASE EventFails
  <2>1. \/ Handling("registered") \/ Handling("created")
        \/ (Handling("charAdded") \/ Handling("descAdded")) /\ Head(events).handle = 0
    BY <1>6 DEF EventFails
  <2>2. BuildOK(table, Tail(events), handles, cccd, pending)
    BY <2>1, StackEventTaken DEF StackTypes
  <2> QED BY <1>6, <2>2 DEF EventFails, stackVars, buildVars, BuildInv
<1> QED BY <1>1, <1>2, <1>3, <1>4, <1>5, <1>6 DEF Build

\* The callback on a phone's event notes nothing.
LEMMA CallbackBuildInv ==
    ASSUME BuildInv, Callback
    PROVE  BuildInv'
<1>1. /\ events # <<>> /\ Head(events).type \in PhoneTypes /\ events' = Tail(events)
      /\ table' = table /\ handles' = handles /\ cccd' = cccd /\ pending' = pending
  BY DEF Callback, OnConnected, OnDisconnected, OnSecurityRequest, OnRead, OnSubscribe, OnWrite,
         OnExecWrite, Handling, Done, CallbackUnchanged, CallbackKeeps, buildVars, PhoneTypes, DescTypes, WriteTypes
<1>2. Head(events) = events[1]
  BY <1>1, QueueTail DEF BuildInv, BuildOK, BuildTypes
<1>3. \A h \in DOMAIN table : ~Announces(events[1], h)
  BY <1>1, <1>2 DEF Announces, PhoneTypes, DescTypes, WriteTypes
<1> QED BY <1>1, <1>3, TakeBuildOK DEF BuildInv

\* A phone's doing, in terms of the event it puts into the queue.
PhoneEvent(e) ==
    /\ e \in Records /\ e.type \in PhoneTypes /\ e.phone \in Phones
    /\ e.type \in DescTypes => e.handle \in DOMAIN table /\ table[e.handle][1] = "desc"
    /\ e.type \in WriteTypes =>
         /\ e.write \in Writes
         /\ e.handle \in DOMAIN table /\ table[e.handle] = <<"char", char_index(e.write.attr)>>

\* Every step of a phone puts one event into the queue and changes nothing of
\* the service.
LEMMA PhonePuts ==
    ASSUME BuildInv, NEW p \in Phones,
           \/ Connect(p) \/ Disconnect(p) \/ AskDescriptor(p) \/ AskPairing(p)
           \/ \E w \in Writes : WriteAttr(p, w)
    PROVE  /\ \E e : PhoneEvent(e) /\ e.phone = p /\ events' = Append(events, e)
           /\ UNCHANGED <<table, handles, cccd, pending>>
<1>1. \A T, h, w : T \in PhoneTypes /\ h \in Nat /\ w \in Writes \cup {Nothing} =>
        LET e == Event(T, p, h, w)
        IN  e \in Records /\ e.type = T /\ e.phone = p /\ e.handle = h /\ e.write = w
  BY DEF Event, Records
<1>2. \A h \in DOMAIN table : h \in Nat
  BY DEF BuildInv, BuildOK, BuildTypes
<1>3. CASE Connect(p)
  <2>1. PhoneEvent(Event("connected", p, 0, Nothing))
    BY <1>1 DEF PhoneEvent, PhoneTypes, DescTypes, WriteTypes
  <2> QED BY <1>1, <1>3, <2>1 DEF Connect, Happens, PhoneUnchanged, buildVars, PhoneTypes
<1>4. CASE Disconnect(p)
  <2>1. PhoneEvent(Event("disconnected", p, 0, Nothing))
    BY <1>1 DEF PhoneEvent, PhoneTypes, DescTypes, WriteTypes
  <2> QED BY <1>1, <1>4, <2>1 DEF Disconnect, Happens, PhoneUnchanged, buildVars, PhoneTypes
<1>5. CASE AskDescriptor(p)
  <2>1. PICK h \in DOMAIN table, T \in DescTypes :
          table[h][1] = "desc" /\ events' = Append(events, Event(T, p, h, Nothing))
    BY <1>5 DEF AskDescriptor, Happens, DescTypes
  <2>2. PhoneEvent(Event(T, p, h, Nothing)) /\ Event(T, p, h, Nothing).phone = p
    BY <1>1, <1>2, <2>1 DEF PhoneEvent, PhoneTypes, DescTypes, WriteTypes
  <2> QED BY <1>5, <2>1, <2>2 DEF AskDescriptor, PhoneUnchanged, buildVars
<1>6. CASE AskPairing(p)
  <2>1. PhoneEvent(Event("pair", p, 0, Nothing))
    BY <1>1 DEF PhoneEvent, PhoneTypes, DescTypes, WriteTypes
  <2> QED BY <1>1, <1>6, <2>1 DEF AskPairing, Happens, PhoneUnchanged, buildVars, PhoneTypes
<1>7. ASSUME NEW w \in Writes, WriteAttr(p, w)
      PROVE  /\ \E e : PhoneEvent(e) /\ e.phone = p /\ events' = Append(events, e)
             /\ UNCHANGED <<table, handles, cccd, pending>>
  <2>1. PICK h \in DOMAIN table, T \in WriteTypes :
          /\ table[h] = <<"char", char_index(w.attr)>>
          /\ events' = Append(events, Event(T, p, h, w))
    BY <1>7 DEF WriteAttr, Happens, WriteTypes
  <2>2. PhoneEvent(Event(T, p, h, w)) /\ Event(T, p, h, w).phone = p
    BY <1>1, <1>2, <2>1 DEF PhoneEvent, PhoneTypes, DescTypes, WriteTypes
  <2> QED BY <1>7, <2>1, <2>2 DEF WriteAttr, PhoneUnchanged, buildVars
<1> QED BY <1>3, <1>4, <1>5, <1>6, <1>7

\* Every step.
LEMMA NextBuildInv ==
    ASSUME BuildInv, [Next]_vars
    PROVE  BuildInv'
<1>1. CASE Build \/ EventFails
  BY <1>1, BuildBuildInv
<1>2. CASE Callback
  BY <1>2, CallbackBuildInv
<1>3. CASE MainLoop
  BY <1>3 DEF MainLoop, DrainWifi, DrainCommands, NotifyLive, PublishIfChanged, MainUnchanged,
              stackVars, buildVars, BuildInv
<1>4. CASE Phone
  <2>1. PICK e : PhoneEvent(e) /\ events' = Append(events, e) /\ UNCHANGED <<table, handles, cccd, pending>>
    BY <1>4, PhonePuts DEF Phone
  <2>2. BuildOK(table, Append(events, e), handles, cccd, pending)
    BY <2>1, PhoneEventBuildOK DEF PhoneEvent, BuildInv
  <2> QED BY <2>1, <2>2 DEF BuildInv
<1>5. CASE UNCHANGED vars
  BY <1>5 DEF vars, stackVars, buildVars, BuildInv
<1> QED BY <1>1, <1>2, <1>3, <1>4, <1>5 DEF Next

\* How the service is built (`pending' in ble.rs, one thing after the other):
\* the queue holds at most one event of the stack, about the entry added last,
\* and a phone's request is behind the event of what it refers to.
THEOREM ServiceIsBuilt == Spec => []BuildInv
<1>1. Init => BuildInv
  BY InitBuildInv
<1>2. BuildInv /\ [Next]_vars => BuildInv'
  BY NextBuildInv
<1> QED BY <1>1, <1>2, PTL DEF Spec

\* The comment on `pending' in ble.rs: every handle the callback has noted is
\* the one of that characteristic or of its descriptor.
THEOREM HandlesAlwaysMatch == Spec => []HandlesMatch
<1>1. BuildInv => HandlesMatch
  BY DEF BuildInv, BuildOK, HandlesInTable, HandlesMatch
<1> QED BY <1>1, ServiceIsBuilt, PTL

-----------------------------------------------------------------------------
(* The link, as the phone, the queue and the callback's list of connections *)
(* see it: q the queue, L the linked phones, C the connections, A who is     *)
(* asking, W the subscriptions the phones want, t the table.                *)

AskTypes == DescTypes \cup {"pair"}

InQueue(q, type) == \E k \in DOMAIN q : q[k].type = type

\* Nothing of a link is there.
Idle(q, L, C) == L = {} /\ C = {} /\ \A k \in DOMAIN q : q[k].phone = "stack"

\* The characteristics some connection is noted to have subscribed to.
Subscribed(C) == {i \in Chars : \E c \in C : i \in c.subscribed}

LinkTypes(L, C, A, W) ==
    /\ L \subseteq Phones /\ A \subseteq L
    /\ C \subseteq [phone : Phones, subscribed : SUBSET Chars]
    /\ W \in [Phones -> SUBSET Chars]

\* Everything there is of links is of one.
OnePeer(q, L, C) ==
    /\ \E x : /\ L \subseteq {x} /\ \A c \in C : c.phone = x
              /\ \A k \in DOMAIN q : q[k].phone \in {x, "stack"}
    /\ \A c, d \in C : c = d

\* The first and the last event of a link.
ConnectedFirst(q, C) ==
    \A k \in DOMAIN q : q[k].type = "connected" =>
        C = {} /\ \A j \in DOMAIN q : q[j].phone # "stack" => k <= j

DisconnectedLast(q, L) ==
    \A k \in DOMAIN q : q[k].type = "disconnected" =>
        L = {} /\ \A j \in DOMAIN q : q[j].phone # "stack" => j <= k

LinkIsKnown(q, L, C) ==
    /\ L # {} => C # {} \/ InQueue(q, "connected")
    /\ Idle(q, L, C) \/ L # {} \/ InQueue(q, "disconnected")

\* A phone has one request out at a time.
OneRequest(q, L, A) ==
    /\ \A j, k \in DOMAIN q : q[j].type \in AskTypes /\ q[k].type \in AskTypes => j = k
    /\ L # {} => \A k \in DOMAIN q : q[k].type \in AskTypes => q[k].phone \in A

\* What the phone wants is what is noted, but for the request on its way.
WantsNoted(t, q, L, C, W) ==
    /\ \A p \in Phones \ L : W[p] = {}
    /\ \A p \in L :
         /\ ~InQueue(q, "subscribe") /\ ~InQueue(q, "unsubscribe") => W[p] = Subscribed(C)
         /\ \A k \in DOMAIN q :
              /\ q[k].type = "subscribe" => W[p] = Subscribed(C) \cup {t[q[k].handle][2]}
              /\ q[k].type = "unsubscribe" => W[p] = Subscribed(C) \ {t[q[k].handle][2]}

LinkOK(t, q, L, C, A, W) ==
    /\ LinkTypes(L, C, A, W) /\ OnePeer(q, L, C) /\ ConnectedFirst(q, C) /\ DisconnectedLast(q, L)
    /\ LinkIsKnown(q, L, C) /\ OneRequest(q, L, A) /\ WantsNoted(t, q, L, C, W)

\* What is in the queue, with what the requests in it refer to.
QueueOK(t, q) ==
    /\ q \in Seq(Records) /\ FromTheirSender(q)
    /\ \A k \in DOMAIN q : q[k].type \in DescTypes => q[k].handle \in DOMAIN t

\* The callback takes an event of the stack, a request that changes no
\* subscription (its phone may be answered) or a write.
LEMMA TakeLinkOK ==
    ASSUME NEW t, NEW q, NEW L, NEW C, NEW A, NEW W, LinkOK(t, q, L, C, A, W), QueueOK(t, q), q # <<>>,
           q[1].type \notin {"connected", "disconnected", "subscribe", "unsubscribe"},
           NEW B, B = A \/ (B \subseteq A /\ q[1].type \in AskTypes)
    PROVE  LinkOK(t, Tail(q), L, C, B, W)
<1> DEFINE r == Tail(q)
<1>1. q \in Seq(Records)
  BY DEF QueueOK
<1>2. /\ 1 \in DOMAIN q
      /\ \A k \in DOMAIN r : k \in Nat /\ k > 0 /\ k + 1 \in DOMAIN q /\ r[k] = q[k + 1]
      /\ \A k \in DOMAIN q : k \in Nat /\ (k # 1 => k - 1 \in DOMAIN r /\ r[k - 1] = q[k])
  BY <1>1, QueueTail
<1> HIDE DEF r
<1>3. LinkTypes(L, C, B, W)
  BY DEF LinkOK, LinkTypes
<1>4. OnePeer(r, L, C)
  BY <1>2, ZenonT(60) DEF LinkOK, OnePeer
<1>5. ConnectedFirst(r, C)
  <2> SUFFICES ASSUME NEW k \in DOMAIN r, r[k].type = "connected"
               PROVE  C = {} /\ \A j \in DOMAIN r : r[j].phone # "stack" => k <= j
    BY DEF ConnectedFirst
  <2>1. C = {} /\ \A j \in DOMAIN q : q[j].phone # "stack" => k + 1 <= j
    BY <1>2 DEF LinkOK, ConnectedFirst
  <2> QED BY <1>2, <2>1
<1>6. DisconnectedLast(r, L)
  <2> SUFFICES ASSUME NEW k \in DOMAIN r, r[k].type = "disconnected"
               PROVE  L = {} /\ \A j \in DOMAIN r : r[j].phone # "stack" => j <= k
    BY DEF DisconnectedLast
  <2>1. L = {} /\ \A j \in DOMAIN q : q[j].phone # "stack" => j <= k + 1
    BY <1>2 DEF LinkOK, DisconnectedLast
  <2> QED BY <1>2, <2>1
<1>7. LinkIsKnown(r, L, C)
  <2>1. InQueue(q, "connected") => InQueue(r, "connected")
    BY <1>2 DEF InQueue
  <2>2. InQueue(q, "disconnected") => InQueue(r, "disconnected")
    BY <1>2 DEF InQueue
  <2>3. Idle(q, L, C) => Idle(r, L, C)
    BY <1>2 DEF Idle
  <2> QED BY <2>1, <2>2, <2>3 DEF LinkOK, LinkIsKnown
<1>8. OneRequest(r, L, B)
  <2>1. \A j, k \in DOMAIN r : r[j].type \in AskTypes /\ r[k].type \in AskTypes => j = k
    BY <1>2 DEF LinkOK, OneRequest
  <2>2. CASE B = A
    BY <1>2, <2>1, <2>2 DEF LinkOK, OneRequest
  <2>3. CASE q[1].type \in AskTypes
    <3>1. \A k \in DOMAIN r : r[k].type \notin AskTypes
      BY <1>2, <2>3 DEF LinkOK, OneRequest
    <3> QED BY <2>1, <3>1 DEF OneRequest
  <2> QED BY <2>2, <2>3
<1>9. WantsNoted(t, r, L, C, W)
  <2>1. /\ InQueue(q, "subscribe") => InQueue(r, "subscribe")
        /\ InQueue(q, "unsubscribe") => InQueue(r, "unsubscribe")
    BY <1>2 DEF InQueue
  <2> QED BY <1>2, <2>1 DEF LinkOK, WantsNoted
<1> QED BY <1>3, <1>4, <1>5, <1>6, <1>7, <1>8, <1>9 DEF LinkOK, r

\* The stack puts an event into the queue, having added to the table or not;
\* or a linked phone writes.
LEMMA PutLinkOK ==
    ASSUME NEW t, NEW q, NEW L, NEW C, NEW A, NEW W, LinkOK(t, q, L, C, A, W), QueueOK(t, q),
           NEW e \in Records, e.type \in StackTypes \cup WriteTypes, e.phone \in L \cup {"stack"},
           NEW u, \A h \in DOMAIN t : u[h] = t[h]
    PROVE  LinkOK(u, Append(q, e), L, C, A, W)
<1> DEFINE r == Append(q, e)
<1>1. q \in Seq(Records)
  BY DEF QueueOK
<1>2. /\ \A k \in DOMAIN q : k \in Nat /\ k < Len(q) + 1 /\ k \in DOMAIN r /\ r[k] = q[k]
      /\ \A k \in DOMAIN r : k \in DOMAIN q \/ (k = Len(q) + 1 /\ r[k] = e)
      /\ Len(q) \in Nat
  BY <1>1, QueueAppend
<1>3. e.type \notin {"connected", "disconnected", "subscribe", "unsubscribe"} \cup AskTypes
  BY DEF AskTypes, StackTypes, WriteTypes, DescTypes
<1> HIDE DEF r
<1>4. OnePeer(r, L, C)
  BY <1>2 DEF LinkOK, OnePeer
<1>5. ConnectedFirst(r, C)
  <2> SUFFICES ASSUME NEW k \in DOMAIN r, r[k].type = "connected"
               PROVE  C = {} /\ \A j \in DOMAIN r : r[j].phone # "stack" => k <= j
    BY DEF ConnectedFirst
  <2>1. k \in DOMAIN q /\ q[k].type = "connected"
    BY <1>2, <1>3
  <2> QED BY <1>2, <2>1 DEF LinkOK, ConnectedFirst
<1>6. DisconnectedLast(r, L)
  <2> SUFFICES ASSUME NEW k \in DOMAIN r, r[k].type = "disconnected"
               PROVE  L = {} /\ \A j \in DOMAIN r : r[j].phone # "stack" => j <= k
    BY DEF DisconnectedLast
  <2>1. k \in DOMAIN q /\ q[k].type = "disconnected"
    BY <1>2, <1>3
  <2> QED BY <1>2, <2>1 DEF LinkOK, DisconnectedLast
<1>7. LinkIsKnown(r, L, C)
  <2>1. InQueue(q, "connected") => InQueue(r, "connected")
    BY <1>2 DEF InQueue
  <2>2. InQueue(q, "disconnected") => InQueue(r, "disconnected")
    BY <1>2 DEF InQueue
  <2>3. Idle(q, L, C) => Idle(r, L, C)
    BY <1>2 DEF Idle
  <2> QED BY <2>1, <2>2, <2>3 DEF LinkOK, LinkIsKnown
<1>8. OneRequest(r, L, A)
  BY <1>2, <1>3 DEF LinkOK, OneRequest
<1>9. WantsNoted(u, r, L, C, W)
  <2>1. /\ InQueue(q, "subscribe") => InQueue(r, "subscribe")
        /\ InQueue(q, "unsubscribe") => InQueue(r, "unsubscribe")
    BY <1>2 DEF InQueue
  <2>2. \A k \in DOMAIN r : r[k].type \in {"subscribe", "unsubscribe"} =>
          k \in DOMAIN q /\ r[k] = q[k] /\ u[r[k].handle] = t[r[k].handle]
    BY <1>2, <1>3 DEF QueueOK, DescTypes
  <2> QED BY <2>1, <2>2 DEF LinkOK, WantsNoted
<1> QED BY <1>4, <1>5, <1>6, <1>7, <1>8, <1>9 DEF LinkOK, r

\* A phone links, to a server that nobody else uses.
LEMMA ConnectLinkOK ==
    ASSUME NEW t, NEW q, NEW L, NEW C, NEW A, NEW W, LinkOK(t, q, L, C, A, W), QueueOK(t, q),
           Idle(q, L, C), NEW p \in Phones
    PROVE  LinkOK(t, Append(q, Event("connected", p, 0, Nothing)), L \cup {p}, C, A, W)
<1> DEFINE e == Event("connected", p, 0, Nothing)
           r == Append(q, e)
<1>1. /\ e \in Records /\ e.type = "connected" /\ e.phone = p
      /\ e.type \notin AskTypes /\ p # "stack"
  BY GattAssumption DEF Event, Records, PhoneTypes, AskTypes, DescTypes
<1> HIDE DEF e
<1>2. /\ \A k \in DOMAIN q : k \in Nat /\ k < Len(q) + 1 /\ k \in DOMAIN r /\ r[k] = q[k]
      /\ \A k \in DOMAIN r : k \in DOMAIN q \/ (k = Len(q) + 1 /\ r[k] = e)
      /\ Len(q) + 1 \in DOMAIN r /\ r[Len(q) + 1] = e /\ Len(q) \in Nat
  BY <1>1, QueueAppend DEF QueueOK
<1> HIDE DEF r
<1>3. \A k \in DOMAIN q : q[k].type \in StackTypes /\ q[k].phone = "stack"
  BY DEF Idle, QueueOK, FromTheirSender
<1>4. \A k \in DOMAIN r : r[k] = e \/ (r[k].type \in StackTypes /\ r[k].phone = "stack" /\ k \in DOMAIN q)
  BY <1>2, <1>3
<1>5. LinkTypes(L \cup {p}, C, A, W)
  BY DEF LinkOK, LinkTypes
<1>6. OnePeer(r, L \cup {p}, C)
  BY <1>1, <1>4 DEF Idle, OnePeer
<1>7. ConnectedFirst(r, C)
  <2>1. \A j \in DOMAIN r : r[j].phone # "stack" => j = Len(q) + 1
    BY <1>2, <1>3
  <2>2. \A k \in DOMAIN r : r[k].type = "connected" => k = Len(q) + 1
    BY <1>2, <1>3 DEF StackTypes
  <2> QED BY <1>2, <2>1, <2>2 DEF Idle, ConnectedFirst
<1>8. DisconnectedLast(r, L \cup {p})
  BY <1>1, <1>4 DEF DisconnectedLast, StackTypes
<1>9. LinkIsKnown(r, L \cup {p}, C)
  BY <1>1, <1>2 DEF LinkIsKnown, InQueue
<1>10. OneRequest(r, L \cup {p}, A)
  BY <1>1, <1>4 DEF OneRequest, StackTypes, AskTypes, DescTypes
<1>11. WantsNoted(t, r, L \cup {p}, C, W)
  <2>1. Subscribed(C) = {} /\ L = {}
    BY DEF Idle, Subscribed
  <2>2. \A k \in DOMAIN r : r[k].type \notin {"subscribe", "unsubscribe"}
    BY <1>1, <1>4 DEF StackTypes
  <2>3. \A x \in Phones : W[x] = {}
    BY <2>1 DEF LinkOK, WantsNoted
  <2> QED BY <2>1, <2>2, <2>3 DEF WantsNoted
<1> QED BY <1>5, <1>6, <1>7, <1>8, <1>9, <1>10, <1>11 DEF LinkOK, r, e

\* A linked phone goes.
LEMMA DisconnectLinkOK ==
    ASSUME NEW t, NEW q, NEW L, NEW C, NEW A, NEW W, LinkOK(t, q, L, C, A, W), QueueOK(t, q),
           NEW p \in L
    PROVE  LinkOK(t, Append(q, Event("disconnected", p, 0, Nothing)), L \ {p}, C, A \ {p},
                  [W EXCEPT ![p] = {}])
<1> DEFINE e == Event("disconnected", p, 0, Nothing)
           r == Append(q, e)
           V == [W EXCEPT ![p] = {}]
<1>1. p \in Phones /\ L = {p} /\ L \ {p} = {} /\ A \ {p} = {} /\ W \in [Phones -> SUBSET Chars]
  BY DEF LinkOK, LinkTypes, OnePeer
<1>2. /\ e \in Records /\ e.type = "disconnected" /\ e.phone = p
      /\ e.type \notin AskTypes /\ p # "stack"
  BY <1>1, GattAssumption DEF Event, Records, PhoneTypes, AskTypes, DescTypes
<1> HIDE DEF e
<1>3. /\ \A k \in DOMAIN q : k \in Nat /\ k < Len(q) + 1 /\ k \in DOMAIN r /\ r[k] = q[k]
      /\ \A k \in DOMAIN r : k \in DOMAIN q \/ (k = Len(q) + 1 /\ r[k] = e)
      /\ Len(q) + 1 \in DOMAIN r /\ r[Len(q) + 1] = e /\ Len(q) \in Nat
  BY <1>2, QueueAppend DEF QueueOK
<1> HIDE DEF r
<1>4. V \in [Phones -> SUBSET Chars] /\ \A x \in Phones : V[x] = {}
  <2>1. \A x \in Phones : x # p => W[x] = {}
    BY <1>1 DEF LinkOK, WantsNoted
  <2> QED BY <1>1, <2>1
<1> HIDE DEF V
<1>5. LinkTypes(L \ {p}, C, A \ {p}, V)
  BY <1>1, <1>4 DEF LinkOK, LinkTypes
<1>6. OnePeer(r, L \ {p}, C)
  BY <1>1, <1>2, <1>3, ZenonT(60) DEF LinkOK, OnePeer
<1>7. ConnectedFirst(r, C)
  <2> SUFFICES ASSUME NEW k \in DOMAIN r, r[k].type = "connected"
               PROVE  C = {} /\ \A j \in DOMAIN r : r[j].phone # "stack" => k <= j
    BY DEF ConnectedFirst
  <2>1. k \in DOMAIN q /\ q[k].type = "connected"
    BY <1>2, <1>3
  <2> QED BY <1>3, <2>1 DEF LinkOK, ConnectedFirst
<1>8. DisconnectedLast(r, L \ {p})
  <2>1. \A k \in DOMAIN q : q[k].type # "disconnected"
    BY DEF LinkOK, DisconnectedLast
  <2> QED BY <1>1, <1>3, <2>1 DEF DisconnectedLast
<1>9. LinkIsKnown(r, L \ {p}, C)
  BY <1>1, <1>2, <1>3 DEF LinkIsKnown, InQueue
<1>10. OneRequest(r, L \ {p}, A \ {p})
  BY <1>1, <1>2, <1>3 DEF LinkOK, OneRequest
<1>11. WantsNoted(t, r, L \ {p}, C, V)
  BY <1>1, <1>4 DEF WantsNoted
<1> QED BY <1>5, <1>6, <1>7, <1>8, <1>9, <1>10, <1>11 DEF LinkOK, r, e, V

\* A linked phone without a request out makes one.
LEMMA AskLinkOK ==
    ASSUME NEW t, NEW q, NEW L, NEW C, NEW A, NEW W, LinkOK(t, q, L, C, A, W), QueueOK(t, q),
           NEW p \in L, p \notin A, NEW e \in Records, e.type \in AskTypes, e.phone = p,
           NEW V \in [Phones -> SUBSET Chars], \A x \in Phones : x # p => V[x] = W[x],
           e.type = "subscribe" => V[p] = W[p] \cup {t[e.handle][2]},
           e.type = "unsubscribe" => V[p] = W[p] \ {t[e.handle][2]},
           e.type \notin {"subscribe", "unsubscribe"} => V[p] = W[p]
    PROVE  LinkOK(t, Append(q, e), L, C, A \cup {p}, V)
<1> DEFINE r == Append(q, e)
<1>1. p \in Phones /\ L = {p}
  BY DEF LinkOK, LinkTypes, OnePeer
<1>2. /\ \A k \in DOMAIN q : k \in Nat /\ k < Len(q) + 1 /\ k \in DOMAIN r /\ r[k] = q[k]
      /\ \A k \in DOMAIN r : k \in DOMAIN q \/ (k = Len(q) + 1 /\ r[k] = e)
      /\ Len(q) + 1 \in DOMAIN r /\ r[Len(q) + 1] = e /\ Len(q) \in Nat
  BY QueueAppend DEF QueueOK
<1> HIDE DEF r
<1>3. e.type \notin {"connected", "disconnected"} /\ p # "stack"
  BY <1>1, GattAssumption DEF AskTypes, DescTypes
<1>4. \A k \in DOMAIN q : q[k].type \notin AskTypes
  <2> SUFFICES ASSUME NEW k \in DOMAIN q, q[k].type \in AskTypes
               PROVE  FALSE
    OBVIOUS
  <2>1. q[k].phone \in A /\ q[k].phone \in L
    BY DEF LinkOK, OneRequest, LinkTypes
  <2> QED BY <1>1, <2>1
<1>5. LinkTypes(L, C, A \cup {p}, V)
  BY DEF LinkOK, LinkTypes
<1>6. OnePeer(r, L, C)
  BY <1>1, <1>2 DEF LinkOK, OnePeer
<1>7. ConnectedFirst(r, C)
  <2> SUFFICES ASSUME NEW k \in DOMAIN r, r[k].type = "connected"
               PROVE  C = {} /\ \A j \in DOMAIN r : r[j].phone # "stack" => k <= j
    BY DEF ConnectedFirst
  <2>1. k \in DOMAIN q /\ q[k].type = "connected"
    BY <1>2, <1>3
  <2> QED BY <1>2, <2>1 DEF LinkOK, ConnectedFirst
<1>8. DisconnectedLast(r, L)
  <2>1. \A k \in DOMAIN q : q[k].type # "disconnected"
    BY DEF LinkOK, DisconnectedLast
  <2> QED BY <1>2, <1>3, <2>1 DEF DisconnectedLast
<1>9. LinkIsKnown(r, L, C)
  <2>1. InQueue(q, "connected") => InQueue(r, "connected")
    BY <1>2 DEF InQueue
  <2> QED BY <1>1, <2>1 DEF LinkOK, LinkIsKnown
<1>10. OneRequest(r, L, A \cup {p})
  BY <1>2, <1>4 DEF OneRequest
<1>11. WantsNoted(t, r, L, C, V)
  <2>1. W[p] = Subscribed(C)
    BY <1>1, <1>4 DEF LinkOK, WantsNoted, InQueue, AskTypes, DescTypes
  <2>2. \A x \in Phones \ L : V[x] = {}
    BY <1>1 DEF LinkOK, WantsNoted
  <2>3. \A k \in DOMAIN r : r[k].type \in {"subscribe", "unsubscribe"} => r[k] = e
    BY <1>2, <1>4 DEF AskTypes, DescTypes
  <2>4. ~InQueue(r, "subscribe") /\ ~InQueue(r, "unsubscribe") => e.type \notin {"subscribe", "unsubscribe"}
    BY <1>2 DEF InQueue
  <2> QED BY <1>1, <2>1, <2>2, <2>3, <2>4 DEF WantsNoted
<1> QED BY <1>5, <1>6, <1>7, <1>8, <1>9, <1>10, <1>11 DEF LinkOK, r

\* OnConnected: the list is empty, so there is room for the new phone.
LEMMA TakeConnectedLinkOK ==
    ASSUME NEW t, NEW q, NEW L, NEW C, NEW A, NEW W, LinkOK(t, q, L, C, A, W), QueueOK(t, q), q # <<>>,
           q[1].type = "connected"
    PROVE  C = {} /\ LinkOK(t, Tail(q), L, {[phone |-> q[1].phone, subscribed |-> {}]}, A, W)
<1> DEFINE r == Tail(q)
           D == {[phone |-> q[1].phone, subscribed |-> {}]}
<1>1. q \in Seq(Records)
  BY DEF QueueOK
<1>2. /\ 1 \in DOMAIN q
      /\ \A k \in DOMAIN r : k \in Nat /\ k > 0 /\ k + 1 \in DOMAIN q /\ r[k] = q[k + 1]
      /\ \A k \in DOMAIN q : k \in Nat /\ (k # 1 => k - 1 \in DOMAIN r /\ r[k - 1] = q[k])
  BY <1>1, QueueTail
<1> HIDE DEF r
<1>3. C = {}
  BY <1>2 DEF LinkOK, ConnectedFirst
<1>4. q[1].phone \in Phones
  <2>1. q[1] \in Records
    BY <1>1, <1>2
  <2>2. q[1].phone # "stack"
    BY <1>2 DEF QueueOK, FromTheirSender, StackTypes
  <2> QED BY <2>1, <2>2 DEF Records
<1>5. /\ D \subseteq [phone : Phones, subscribed : SUBSET Chars] /\ D # {}
      /\ \A c \in D : c.phone = q[1].phone /\ c.subscribed = {}
      /\ \A c, d \in D : c = d
  BY <1>4
<1> HIDE DEF D
<1>6. Subscribed(D) = {} /\ Subscribed(C) = {}
  BY <1>3, <1>5 DEF Subscribed
<1>7. \A k \in DOMAIN r : r[k].type # "connected"
  <2> SUFFICES ASSUME NEW k \in DOMAIN r, r[k].type = "connected" PROVE FALSE
    OBVIOUS
  <2>1. k + 1 \in DOMAIN q /\ q[k + 1].type = "connected" /\ k \in Nat /\ k > 0
    BY <1>2
  <2>2. q[1].phone # "stack"
    BY <1>4, GattAssumption
  <2>3. k + 1 <= 1
    BY <1>2, <2>1, <2>2 DEF LinkOK, ConnectedFirst
  <2> QED BY <2>1, <2>3
<1>8. LinkTypes(L, D, A, W)
  BY <1>5 DEF LinkOK, LinkTypes
<1>9. OnePeer(r, L, D)
  <2>1. PICK x : /\ L \subseteq {x} /\ \A c \in C : c.phone = x
                 /\ \A k \in DOMAIN q : q[k].phone \in {x, "stack"}
    BY DEF LinkOK, OnePeer
  <2>2. q[1].phone = x
    <3>1. q[1].phone # "stack"
      BY <1>4, GattAssumption
    <3> QED BY <1>2, <2>1, <3>1
  <2>3. \A c \in D : c.phone = x
    BY <1>5, <2>2
  <2>4. \A k \in DOMAIN r : r[k].phone \in {x, "stack"}
    BY <1>2, <2>1
  <2> QED BY <1>5, <2>1, <2>3, <2>4 DEF OnePeer
<1>10. ConnectedFirst(r, D)
  BY <1>7 DEF ConnectedFirst
<1>11. DisconnectedLast(r, L)
  <2> SUFFICES ASSUME NEW k \in DOMAIN r, r[k].type = "disconnected"
               PROVE  L = {} /\ \A j \in DOMAIN r : r[j].phone # "stack" => j <= k
    BY DEF DisconnectedLast
  <2>1. L = {} /\ \A j \in DOMAIN q : q[j].phone # "stack" => j <= k + 1
    BY <1>2 DEF LinkOK, DisconnectedLast
  <2> QED BY <1>2, <2>1
<1>12. LinkIsKnown(r, L, D)
  <2>1. InQueue(q, "disconnected") => InQueue(r, "disconnected")
    BY <1>2 DEF InQueue
  <2>2. ~Idle(q, L, C)
    BY <1>2, <1>4, GattAssumption DEF Idle
  <2> QED BY <1>5, <2>1, <2>2 DEF LinkOK, LinkIsKnown
<1>13. OneRequest(r, L, A)
  BY <1>2 DEF LinkOK, OneRequest
<1>14. WantsNoted(t, r, L, D, W)
  <2>1. /\ InQueue(q, "subscribe") => InQueue(r, "subscribe")
        /\ InQueue(q, "unsubscribe") => InQueue(r, "unsubscribe")
    BY <1>2 DEF InQueue
  <2> QED BY <1>2, <1>6, <2>1 DEF LinkOK, WantsNoted
<1> QED BY <1>3, <1>8, <1>9, <1>10, <1>11, <1>12, <1>13, <1>14 DEF LinkOK, r, D

\* OnDisconnected: nothing of a link is left.
LEMMA TakeDisconnectedLinkOK ==
    ASSUME NEW t, NEW q, NEW L, NEW C, NEW A, NEW W, LinkOK(t, q, L, C, A, W), QueueOK(t, q), q # <<>>,
           q[1].type = "disconnected"
    PROVE  /\ LinkOK(t, Tail(q), L, {c \in C : c.phone # q[1].phone}, A, W)
           /\ Idle(Tail(q), L, {c \in C : c.phone # q[1].phone})
<1> DEFINE r == Tail(q)
           D == {c \in C : c.phone # q[1].phone}
<1>1. q \in Seq(Records)
  BY DEF QueueOK
<1>2. /\ 1 \in DOMAIN q
      /\ \A k \in DOMAIN r : k \in Nat /\ k > 0 /\ k + 1 \in DOMAIN q /\ r[k] = q[k + 1]
  BY <1>1, QueueTail
<1> HIDE DEF r
<1>3. q[1].phone # "stack"
  BY <1>2 DEF QueueOK, FromTheirSender, StackTypes
<1>4. L = {} /\ \A k \in DOMAIN r : r[k].phone = "stack"
  <2>1. L = {} /\ \A j \in DOMAIN q : q[j].phone # "stack" => j <= 1
    BY <1>2 DEF LinkOK, DisconnectedLast
  <2> QED BY <1>2, <2>1
<1>5. D = {}
  <2>1. \A c \in C : c.phone = q[1].phone
    BY <1>2, <1>3 DEF LinkOK, OnePeer
  <2> QED BY <2>1
<1> HIDE DEF D
<1>6. \A k \in DOMAIN r : r[k].type \in StackTypes
  BY <1>2, <1>4 DEF QueueOK, FromTheirSender
<1>7. Idle(r, L, D)
  BY <1>4, <1>5 DEF Idle
<1>8. LinkTypes(L, D, A, W) /\ OnePeer(r, L, D)
  BY <1>4, <1>5 DEF LinkOK, LinkTypes, OnePeer
<1>9. ConnectedFirst(r, D) /\ DisconnectedLast(r, L) /\ OneRequest(r, L, A)
  BY <1>6 DEF ConnectedFirst, DisconnectedLast, OneRequest, AskTypes, DescTypes, StackTypes
<1>10. LinkIsKnown(r, L, D) /\ WantsNoted(t, r, L, D, W)
  BY <1>4, <1>7 DEF LinkOK, LinkIsKnown, WantsNoted
<1> QED BY <1>7, <1>8, <1>9, <1>10 DEF LinkOK, r, D

\* A list of one connection.
LEMMA OneConnection ==
    ASSUME NEW x, NEW S \in SUBSET Chars, NEW D, D = {[phone |-> x, subscribed |-> S]}
    PROVE  /\ \A c \in D : c.phone = x
           /\ \A c, d \in D : c = d
           /\ Subscribed(D) = S
BY DEF Subscribed

\* The connections after OnSubscribe.
WithRequest(C, p, on, i) ==
    {[c EXCEPT !.subscribed = IF c.phone # p THEN @ ELSE IF on THEN @ \cup i ELSE @ \ i] : c \in C}

\* OnSubscribe: the request is noted for the connection of the phone.
LEMMA TakeSubscribeLinkOK ==
    ASSUME NEW t, NEW q, NEW L, NEW C, NEW A, NEW W, LinkOK(t, q, L, C, A, W), QueueOK(t, q), q # <<>>,
           NEW on \in BOOLEAN, q[1].type = (IF on THEN "subscribe" ELSE "unsubscribe"),
           NEW i \in SUBSET Chars, i = {t[q[1].handle][2]},
           NEW B, B \subseteq A,
           NEW D, D = WithRequest(C, q[1].phone, on, i)
    PROVE  LinkOK(t, Tail(q), L, D, B, W)
<1> DEFINE r == Tail(q)
<1>1. q \in Seq(Records)
  BY DEF QueueOK
<1>2. /\ 1 \in DOMAIN q
      /\ \A k \in DOMAIN r : k \in Nat /\ k > 0 /\ k + 1 \in DOMAIN q /\ r[k] = q[k + 1]
      /\ \A k \in DOMAIN q : k \in Nat /\ (k # 1 => k - 1 \in DOMAIN r /\ r[k - 1] = q[k])
  BY <1>1, QueueTail
<1> HIDE DEF r
<1>3. q[1].phone # "stack" /\ q[1].type \in AskTypes /\ q[1].type \in {"subscribe", "unsubscribe"}
  BY <1>2 DEF QueueOK, FromTheirSender, StackTypes, AskTypes, DescTypes
<1>4. PICK x : /\ L \subseteq {x} /\ \A c \in C : c.phone = x
               /\ \A k \in DOMAIN q : q[k].phone \in {x, "stack"}
  BY DEF LinkOK, OnePeer
<1>5. q[1].phone = x
  BY <1>2, <1>3, <1>4
<1>6. ASSUME NEW c \in C
      PROVE  /\ c \in [phone : Phones, subscribed : SUBSET Chars]
             /\ D = {[phone |-> x, subscribed |-> IF on THEN c.subscribed \cup i ELSE c.subscribed \ i]}
  <2>1. c \in [phone : Phones, subscribed : SUBSET Chars] /\ c.phone = x /\ C = {c}
    BY <1>4, <1>6 DEF LinkOK, LinkTypes, OnePeer
  <2> DEFINE S == IF on THEN c.subscribed \cup i ELSE c.subscribed \ i
  <2>2. D = {[c EXCEPT !.subscribed = S]}
    BY <1>5, <2>1 DEF WithRequest
  <2> HIDE DEF S
  <2>3. [c EXCEPT !.subscribed = S] = [phone |-> x, subscribed |-> S]
    BY <2>1
  <2> QED BY <2>1, <2>2, <2>3 DEF S
<1>7. C = {} => D = {}
  BY DEF WithRequest
<1>8. C # {} <=> D # {}
  BY <1>6, <1>7
<1>9. LinkTypes(L, D, B, W)
  <2>1. D \subseteq [phone : Phones, subscribed : SUBSET Chars]
    <3>1. CASE C = {}
      BY <1>7, <3>1
    <3>2. ASSUME NEW c \in C PROVE D \subseteq [phone : Phones, subscribed : SUBSET Chars]
      <4> DEFINE S == IF on THEN c.subscribed \cup i ELSE c.subscribed \ i
      <4>1. c.phone = x /\ c \in [phone : Phones, subscribed : SUBSET Chars]
        BY <1>4, <1>6, <3>2
      <4>2. S \in SUBSET Chars /\ D = {[phone |-> x, subscribed |-> S]}
        BY <1>6, <3>2, <4>1
      <4> HIDE DEF S
      <4>3. x \in Phones
        BY <4>1
      <4>4. [phone |-> x, subscribed |-> S] \in [phone : Phones, subscribed : SUBSET Chars]
        BY <4>2, <4>3
      <4> QED BY <4>2, <4>4
    <3> QED BY <3>1, <3>2
  <2> QED BY <2>1 DEF LinkOK, LinkTypes
<1>10. OnePeer(r, L, D)
  <2>1. (\A c \in D : c.phone = x) /\ \A c, d \in D : c = d
    <3>1. CASE C = {}
      BY <1>7, <3>1
    <3>2. ASSUME NEW c \in C
          PROVE  (\A b \in D : b.phone = x) /\ \A b, d \in D : b = d
      <4> DEFINE S == IF on THEN c.subscribed \cup i ELSE c.subscribed \ i
      <4>1. S \in SUBSET Chars /\ D = {[phone |-> x, subscribed |-> S]}
        BY <1>6, <3>2
      <4> HIDE DEF S
      <4> QED BY <4>1, OneConnection
    <3> QED BY <3>1, <3>2
  <2> QED BY <1>2, <1>4, <2>1, ZenonT(60) DEF OnePeer
<1>11. ConnectedFirst(r, D)
  <2> SUFFICES ASSUME NEW k \in DOMAIN r, r[k].type = "connected" PROVE FALSE
    BY DEF ConnectedFirst
  <2>1. k + 1 <= 1 /\ k \in Nat /\ k > 0
    BY <1>2, <1>3 DEF LinkOK, ConnectedFirst
  <2> QED BY <2>1
<1>12. DisconnectedLast(r, L)
  <2> SUFFICES ASSUME NEW k \in DOMAIN r, r[k].type = "disconnected"
               PROVE  L = {} /\ \A j \in DOMAIN r : r[j].phone # "stack" => j <= k
    BY DEF DisconnectedLast
  <2>1. L = {} /\ \A j \in DOMAIN q : q[j].phone # "stack" => j <= k + 1
    BY <1>2 DEF LinkOK, DisconnectedLast
  <2> QED BY <1>2, <2>1
<1>13. L # {} => C # {}
  <2> SUFFICES ASSUME L # {}, C = {} PROVE FALSE
    OBVIOUS
  <2>1. PICK k \in DOMAIN q : q[k].type = "connected"
    BY DEF LinkOK, LinkIsKnown, InQueue
  <2>2. k <= 1 /\ k # 1 /\ k \in Nat /\ k > 0
    BY <1>1, <1>2, <1>3, <2>1 DEF LinkOK, ConnectedFirst
  <2> QED BY <2>2
<1>14. LinkIsKnown(r, L, D)
  <2>1. InQueue(q, "disconnected") => InQueue(r, "disconnected")
    BY <1>2, <1>3 DEF InQueue
  <2>2. ~Idle(q, L, C)
    BY <1>2, <1>3 DEF Idle
  <2> QED BY <1>8, <1>13, <2>1, <2>2 DEF LinkOK, LinkIsKnown
<1>15. \A k \in DOMAIN r : r[k].type \notin AskTypes
  BY <1>2, <1>3 DEF LinkOK, OneRequest
<1>16. OneRequest(r, L, B)
  BY <1>15 DEF OneRequest
<1>17. WantsNoted(t, r, L, D, W)
  <2>1. \A p \in Phones \ L : W[p] = {}
    BY DEF LinkOK, WantsNoted
  <2>2. ASSUME NEW p \in L PROVE W[p] = Subscribed(D)
    <3>1. PICK c \in C : TRUE
      BY <1>13, <2>2
    <3>2. Subscribed(C) = c.subscribed
      BY <1>6, <3>1 DEF LinkOK, OnePeer, Subscribed
    <3>3. Subscribed(D) = IF on THEN c.subscribed \cup i ELSE c.subscribed \ i
      <4> DEFINE S == IF on THEN c.subscribed \cup i ELSE c.subscribed \ i
      <4>1. S \in SUBSET Chars /\ D = {[phone |-> x, subscribed |-> S]}
        BY <1>6, <3>1
      <4> HIDE DEF S
      <4>2. Subscribed(D) = S
        BY <4>1, OneConnection
      <4> QED BY <4>2 DEF S
    <3>4. W[p] = IF on THEN Subscribed(C) \cup i ELSE Subscribed(C) \ i
      BY <1>2, <2>2 DEF LinkOK, WantsNoted
    <3> QED BY <3>2, <3>3, <3>4
  <2> QED BY <1>15, <2>1, <2>2 DEF WantsNoted, AskTypes, DescTypes
<1> QED BY <1>9, <1>10, <1>11, <1>12, <1>14, <1>16, <1>17 DEF LinkOK, r

-----------------------------------------------------------------------------
(* ServesTheLink, however far the callback is behind.                       *)

\* The radio starts once, when both parts of the advertisement are there, and
\* again when a link has ended: while it is on nothing of a link is there.
RadioOK ==
    /\ advertising \in {"off", "on", "refused"} /\ advParts \in Nat /\ gapEvents \in Nat /\ advParts + gapEvents <= 2
    /\ InQueue(events, "registered") => advParts = 0 /\ gapEvents = 0
    /\ advertising = "on" => advParts = 2
    /\ advertising = "on" \/ advParts # 2 => Idle(events, linked, connections)

LinkInv == LinkOK(table, events, linked, connections, asking, wants) /\ RadioOK

\* Nobody is linked at the start.
LEMMA InitLinkInv ==
    ASSUME Init
    PROVE  LinkInv
<1>1. /\ DOMAIN events = {1} /\ events[1].type = "registered" /\ events[1].phone = "stack"
      /\ events[1].type \in StackTypes
  BY DEF Init, StackEvent, Event, StackTypes
<1>2. Idle(events, linked, connections)
  BY <1>1 DEF Init, Idle
<1>3. LinkTypes(linked, connections, asking, wants) /\ OnePeer(events, linked, connections)
  BY <1>1 DEF Init, LinkTypes, OnePeer
<1>4. /\ ConnectedFirst(events, connections) /\ DisconnectedLast(events, linked)
      /\ OneRequest(events, linked, asking)
  BY <1>1 DEF ConnectedFirst, DisconnectedLast, OneRequest, AskTypes, DescTypes
<1>5. LinkIsKnown(events, linked, connections) /\ WantsNoted(table, events, linked, connections, wants)
  BY <1>2 DEF Init, LinkIsKnown, WantsNoted
<1>6. RadioOK
  <2>1. advertising = "off" /\ advParts = 0 /\ gapEvents = 0
    BY DEF Init
  <2>2. advParts \in Nat /\ gapEvents \in Nat /\ advParts + gapEvents <= 2
    BY <2>1
  <2> QED BY <1>2, <2>1, <2>2, Zenon DEF RadioOK
<1> QED BY <1>3, <1>4, <1>5, <1>6 DEF LinkInv, LinkOK

\* What the invariant of the service says of the queue.
LEMMA QueueFromBuild ==
    ASSUME BuildInv
    PROVE  QueueOK(table, events) /\ (events # <<>> => QueueOK(table, Tail(events)))
<1>1. QueueOK(table, events)
  BY DEF BuildInv, BuildOK, BuildTypes, RequestsNoted, QueueOK
<1>2. ASSUME events # <<>> PROVE QueueOK(table, Tail(events))
  <2>1. /\ Tail(events) \in Seq(Records)
        /\ \A k \in DOMAIN Tail(events) : k + 1 \in DOMAIN events /\ Tail(events)[k] = events[k + 1]
    BY <1>1, <1>2, QueueTail DEF QueueOK
  <2> QED BY <1>1, <2>1 DEF QueueOK, FromTheirSender
<1> QED BY <1>1, <1>2

\* A step that builds the service takes the stack's event and puts at most
\* another one.
LEMMA BuildStep ==
    ASSUME BuildInv, Build \/ EventFails, ~OnAdvConfigured
    PROVE  /\ events # <<>> /\ events[1].type \in StackTypes
           /\ \A k \in DOMAIN Tail(events) : Tail(events)[k].type \notin StackTypes
           /\ \/ events' = Tail(events) /\ table' = table
              \/ \E e \in Records :
                   /\ e.type \in StackTypes \ {"registered"} /\ e.phone = "stack" /\ e.write = Nothing
                   /\ events' = Append(Tail(events), e)
           /\ \A h \in DOMAIN table : table'[h] = table[h]
           /\ UNCHANGED <<linked, connections, phoneVars, advertising, advParts>>
           /\ UNCHANGED <<stored, channels, refused, applied, bonded>>
           /\ gapEvents' = gapEvents \/ (gapEvents' = 2 /\ events[1].type = "registered")
<1>1. PICK T \in StackTypes : Handling(T)
  BY DEF Build, EventFails, OnRegistered, OnCreated, OnCharAdded, OnDescAdded, StackTypes
<1>2. events # <<>> /\ events[1].type = T /\ NoStackEvent(Tail(events)) /\ Head(events) = events[1]
  BY <1>1, StackEventTaken
<1>3. \A h \in Nat : \A S \in {"created", "charAdded", "descAdded"} :
         /\ StackEvent(S, h) \in Records /\ StackEvent(S, h).type \in StackTypes \ {"registered"}
         /\ StackEvent(S, h).phone = "stack" /\ StackEvent(S, h).write = Nothing
  BY DEF StackEvent, Event, Records, StackTypes
<1>4. table \in Seq({"char", "desc"} \X Chars) /\ Len(table) + 1 \in Nat
  BY DEF BuildInv, BuildOK, BuildTypes
<1>5. \A x \in {"char", "desc"} \X Chars : \A h \in DOMAIN table : Append(table, x)[h] = table[h]
  BY <1>4
<1>6. \A x \in {"char", "desc"}, i \in Chars, S \in {"charAdded", "descAdded"} :
        AddToTable(x, i, S) =>
            /\ \E e \in Records : /\ e.type \in StackTypes \ {"registered"} /\ e.phone = "stack" /\ e.write = Nothing
                                  /\ events' = Append(Tail(events), e)
            /\ \A h \in DOMAIN table : table'[h] = table[h]
  <2> TAKE x \in {"char", "desc"}, i \in Chars, S \in {"charAdded", "descAdded"}
  <2> HAVE AddToTable(x, i, S)
  <2>1. <<x, i>> \in {"char", "desc"} \X Chars
    OBVIOUS
  <2>2. \A h \in DOMAIN table : table'[h] = table[h]
    BY <1>5, <2>1 DEF AddToTable
  <2>3. PICK n \in Nat : events' = Append(Tail(events), StackEvent(S, n))
    BY <1>4 DEF AddToTable
  <2> QED BY <1>3, <2>2, <2>3
<1>7. pending \in Chars /\ 1 \in Chars /\ (pending < Len(CHARS) => pending + 1 \in Chars)
  BY GattAssumption DEF BuildInv, BuildOK, BuildTypes, Chars
<1>8. advance(pending) =>
        /\ \/ events' = Tail(events) /\ table' = table
           \/ \E e \in Records : /\ e.type \in StackTypes \ {"registered"} /\ e.phone = "stack" /\ e.write = Nothing
                                 /\ events' = Append(Tail(events), e)
        /\ \A h \in DOMAIN table : table'[h] = table[h]
  BY <1>6, <1>7 DEF advance, add_char
<1>9. /\ \/ events' = Tail(events) /\ table' = table
         \/ \E e \in Records : /\ e.type \in StackTypes \ {"registered"} /\ e.phone = "stack" /\ e.write = Nothing
                               /\ events' = Append(Tail(events), e)
      /\ \A h \in DOMAIN table : table'[h] = table[h]
  <2>1. CASE OnRegistered
    BY <2>1, <1>3 DEF OnRegistered
  <2>2. CASE OnCreated
    BY <2>2, <1>6, <1>7 DEF OnCreated, add_char
  <2>3. CASE OnCharAdded
    BY <2>3, <1>6, <1>7, <1>8 DEF OnCharAdded
  <2>4. CASE OnDescAdded
    BY <2>4, <1>8 DEF OnDescAdded
  <2>5. CASE EventFails
    BY <2>5 DEF EventFails, stackVars
  <2> QED BY <2>1, <2>2, <2>3, <2>4, <2>5 DEF Build
<1>10. /\ UNCHANGED <<linked, connections, phoneVars, advertising, advParts>>
       /\ UNCHANGED <<stored, channels, refused, applied, bonded>>
       /\ gapEvents' = gapEvents \/ (gapEvents' = 2 /\ Handling("registered"))
  BY DEF Build, EventFails, OnRegistered, OnCreated, OnCharAdded, OnDescAdded, stackVars, buildVars, obsVars
<1> QED BY <1>1, <1>2, <1>9, <1>10 DEF NoStackEvent, Handling

\* The steps that build the service, and the radio's start.
LEMMA BuildLinkInv ==
    ASSUME BuildInv, LinkInv, Build \/ EventFails
    PROVE  LinkInv'
<1>1. CASE OnAdvConfigured
  <2>1. /\ gapEvents > 0 /\ gapEvents' = gapEvents - 1
        /\ \/ advParts' = advParts + 1 /\ (advParts' = 2 \/ advertising' = advertising)
           \/ advParts' = advParts /\ advertising' = advertising
        /\ advertising' \in {advertising, "on", "refused"}
        /\ UNCHANGED <<table, events, linked, connections, asking, wants>>
    BY <1>1 DEF OnAdvConfigured, start_advertising, phoneVars
  <2>2. RadioOK'
    <3>1. advParts \in Nat /\ gapEvents \in Nat /\ advParts + gapEvents <= 2 /\ advParts # 2
      BY <2>1 DEF LinkInv, RadioOK
    <3>2. Idle(events, linked, connections) /\ advertising # "on"
      BY <3>1 DEF LinkInv, RadioOK
    <3>3. advParts' \in Nat /\ gapEvents' \in Nat /\ advParts' + gapEvents' <= 2
      BY <2>1, <3>1
    <3>4. InQueue(events, "registered") => FALSE
      BY <2>1, <3>1 DEF LinkInv, RadioOK
    <3>5. advertising' = "on" => advParts' = 2
      BY <2>1, <3>2
    <3> QED BY <2>1, <3>2, <3>3, <3>4, <3>5 DEF LinkInv, RadioOK
  <2> QED BY <2>1, <2>2 DEF LinkInv
<1>2. CASE ~OnAdvConfigured
  <2>1. /\ events # <<>> /\ events[1].type \in StackTypes
        /\ \A k \in DOMAIN Tail(events) : Tail(events)[k].type \notin StackTypes
        /\ \/ events' = Tail(events) /\ table' = table
           \/ \E e \in Records :
                /\ e.type \in StackTypes \ {"registered"} /\ e.phone = "stack"
                /\ events' = Append(Tail(events), e)
        /\ \A h \in DOMAIN table : table'[h] = table[h]
        /\ UNCHANGED <<linked, connections, asking, wants, heard, advertising, advParts>>
        /\ gapEvents' = gapEvents \/ (gapEvents' = 2 /\ events[1].type = "registered")
    BY <1>2, BuildStep DEF phoneVars
  <2>2. QueueOK(table, events) /\ QueueOK(table, Tail(events))
    BY <2>1, QueueFromBuild
  <2>3. LinkOK(table, Tail(events), linked, connections, asking, wants)
    <3>1. events[1].type \notin {"connected", "disconnected", "subscribe", "unsubscribe"}
      BY <2>1 DEF StackTypes
    <3> QED BY <2>1, <2>2, <3>1, TakeLinkOK DEF LinkInv
  <2>4. LinkOK(table', events', linked, connections, asking, wants)
    <3>1. CASE events' = Tail(events) /\ table' = table
      BY <2>3, <3>1
    <3>2. ASSUME NEW e \in Records, e.type \in StackTypes, e.phone = "stack",
                 events' = Append(Tail(events), e)
          PROVE  LinkOK(table', events', linked, connections, asking, wants)
      BY <2>1, <2>2, <2>3, <3>2, PutLinkOK
    <3> QED BY <2>1, <3>1, <3>2
  <2>5. /\ Idle(events, linked, connections) => Idle(events', linked, connections)
        /\ ~InQueue(events', "registered")
    <3>1. /\ Tail(events) \in Seq(Records)
          /\ \A k \in DOMAIN Tail(events) : k + 1 \in DOMAIN events /\ Tail(events)[k] = events[k + 1]
      BY <2>1, <2>2, QueueTail DEF QueueOK
    <3>2. \A k \in DOMAIN events' :
            \/ k \in DOMAIN Tail(events) /\ events'[k] = Tail(events)[k]
            \/ events'[k].phone = "stack" /\ events'[k].type # "registered"
      BY <2>1, <3>1, QueueAppend
    <3> QED BY <2>1, <3>1, <3>2 DEF Idle, InQueue, StackTypes
  <2>6. gapEvents' = gapEvents \/ (gapEvents' = 2 /\ advParts = 0)
    <3>1. events[1].type = "registered" => InQueue(events, "registered")
      BY <2>1, <2>2, QueueTail DEF QueueOK, InQueue
    <3> QED BY <2>1, <3>1 DEF LinkInv, RadioOK
  <2>7. RadioOK'
    BY <2>1, <2>5, <2>6 DEF LinkInv, RadioOK
  <2> QED BY <2>1, <2>4, <2>7 DEF LinkInv
<1> QED BY <1>1, <1>2

\* A descriptor the callback is asked about is the one it has noted for just
\* that characteristic.
LEMMA DescriptorIsNoted ==
    ASSUME BuildInv, events # <<>>, events[1].type \in DescTypes
    PROVE  /\ events[1].handle \in Range(cccd)
           /\ {k \in Chars : cccd[k] = events[1].handle} = {table[events[1].handle][2]}
           /\ table[events[1].handle][2] \in Chars
<1> DEFINE h == events[1].handle
<1>1. /\ events \in Seq(Records) /\ table \in Seq({"char", "desc"} \X Chars)
      /\ cccd \in [Chars -> Nat]
  BY DEF BuildInv, BuildOK, BuildTypes
<1>2. 1 \in DOMAIN events /\ \A j \in DOMAIN events : j \in Nat /\ j > 0
  BY <1>1
<1>3. h \in DOMAIN table /\ table[h][1] = "desc" /\ Noted(table, handles, cccd, h)
  BY <1>2 DEF BuildInv, BuildOK, RequestsNoted
<1>4. table[h] \in {"char", "desc"} \X Chars /\ h # 0
  BY <1>1, <1>3
<1>5. table[h][2] \in Chars /\ cccd[table[h][2]] = h
  BY <1>3, <1>4 DEF Noted
<1>6. \A k \in Chars : cccd[k] = h => k = table[h][2]
  BY <1>4 DEF BuildInv, BuildOK, HandlesInTable
<1>7. h \in Range(cccd)
  BY <1>1, <1>5 DEF Range
<1> QED BY <1>5, <1>6, <1>7

\* The callback on a phone's event.
LEMMA CallbackLinkInv ==
    ASSUME BuildInv, LinkInv, Callback
    PROVE  LinkInv'
<1>1. /\ events # <<>> /\ Head(events).type \in PhoneTypes /\ events' = Tail(events)
      /\ UNCHANGED <<table, linked, wants, advParts, gapEvents>>
  BY DEF Callback, OnConnected, OnDisconnected, OnSecurityRequest, OnRead, OnSubscribe, OnWrite,
         OnExecWrite, Handling, Done, CallbackUnchanged, CallbackKeeps, buildVars, PhoneTypes, DescTypes, WriteTypes
<1>2. QueueOK(table, events) /\ events \in Seq(Records) /\ FromTheirSender(events)
  BY QueueFromBuild DEF QueueOK
<1>3. /\ Head(events) = events[1] /\ 1 \in DOMAIN events /\ events[1].type \in PhoneTypes
      /\ \A k \in DOMAIN Tail(events) : k + 1 \in DOMAIN events /\ Tail(events)[k] = events[k + 1]
  BY <1>1, <1>2, QueueTail
<1>4. events[1].phone # "stack"
  BY <1>2, <1>3 DEF FromTheirSender, StackTypes, PhoneTypes, DescTypes, WriteTypes
<1>5. advParts = 2 /\ advertising # "on"
  <2>1. ~Idle(events, linked, connections)
    BY <1>3, <1>4 DEF Idle
  <2> QED BY <2>1 DEF LinkInv, RadioOK
<1>6. InQueue(events', "registered") => InQueue(events, "registered")
  BY <1>1, <1>3 DEF InQueue
<1>7. UNCHANGED advertising => RadioOK'
  BY <1>1, <1>5, <1>6 DEF LinkInv, RadioOK
<1>8. LinkOK(table, events, linked, connections, asking, wants)
  BY DEF LinkInv
<1>9. CASE OnConnected
  <2>1. /\ connections = {}
        /\ LinkOK(table, Tail(events), linked, {[phone |-> events[1].phone, subscribed |-> {}]}, asking, wants)
    BY <1>1, <1>2, <1>3, <1>8, <1>9, TakeConnectedLinkOK DEF OnConnected, Handling
  <2>2. connections' = {[phone |-> events[1].phone, subscribed |-> {}]}
    BY <1>3, <1>9, <2>1, FS_EmptySet DEF OnConnected, MAX_CONNECTIONS
  <2> QED BY <1>1, <1>7, <1>9, <2>1, <2>2 DEF OnConnected, LinkInv
<1>10. CASE OnDisconnected
  <2>1. connections' = {c \in connections : c.phone # events[1].phone}
        /\ advertising' \in {"on", "refused"} /\ asking' = asking
    BY <1>3, <1>10 DEF OnDisconnected, start_advertising
  <2>2. /\ LinkOK(table, Tail(events), linked, connections', asking, wants)
        /\ Idle(Tail(events), linked, connections')
    BY <1>1, <1>2, <1>3, <1>8, <1>10, <2>1, TakeDisconnectedLinkOK DEF OnDisconnected, Handling
  <2>3. RadioOK'
    BY <1>1, <1>5, <1>6, <2>1, <2>2 DEF LinkInv, RadioOK
  <2> QED BY <1>1, <2>1, <2>2, <2>3 DEF LinkInv
<1>11. CASE OnSecurityRequest \/ OnRead
  <2>1. /\ UNCHANGED <<connections, advertising>> /\ asking' \subseteq asking
        /\ events[1].type \in AskTypes \ {"subscribe", "unsubscribe", "connected", "disconnected"}
    BY <1>3, <1>11 DEF OnSecurityRequest, OnRead, Answer, Handling, AskTypes, DescTypes
  <2>2. LinkOK(table, Tail(events), linked, connections, asking', wants)
    BY <1>1, <1>2, <1>8, <2>1, TakeLinkOK
  <2> QED BY <1>1, <1>7, <2>1, <2>2 DEF LinkInv
<1>12. ASSUME NEW on \in BOOLEAN, OnSubscribe(on) PROVE LinkInv'
  <2>1. events[1].type = (IF on THEN "subscribe" ELSE "unsubscribe")
    BY <1>3, <1>12 DEF OnSubscribe, Handling
  <2> DEFINE i == {k \in Chars : cccd[k] = events[1].handle}
  <2>2. i = {table[events[1].handle][2]} /\ i \in SUBSET Chars
    BY <1>1, <2>1, DescriptorIsNoted DEF DescTypes
  <2>3. /\ connections' = WithRequest(connections, events[1].phone, on, i)
        /\ asking' \subseteq asking /\ UNCHANGED advertising
    BY <1>3, <1>12 DEF OnSubscribe, Answer, WithRequest
  <2> HIDE DEF i
  <2>4. LinkOK(table, Tail(events), linked, connections', asking', wants)
    BY <1>1, <1>2, <1>8, <2>1, <2>2, <2>3, TakeSubscribeLinkOK
  <2> QED BY <1>1, <1>7, <2>3, <2>4 DEF LinkInv
<1>13. CASE OnWrite \/ OnExecWrite
  <2>1. /\ UNCHANGED <<connections, advertising, asking>>
        /\ events[1].type \notin {"subscribe", "unsubscribe", "connected", "disconnected"}
    BY <1>3, <1>13 DEF OnWrite, OnExecWrite, Handling
  <2>2. LinkOK(table, Tail(events), linked, connections, asking, wants)
    BY <1>1, <1>2, <1>8, <2>1, TakeLinkOK
  <2> QED BY <1>1, <1>7, <2>1, <2>2 DEF LinkInv
<1> QED BY <1>9, <1>10, <1>11, <1>12, <1>13 DEF Callback

\* What a phone does.
LEMMA PhoneLinkInv ==
    ASSUME BuildInv, LinkInv, NEW p \in Phones,
           \/ Connect(p) \/ Disconnect(p) \/ AskDescriptor(p) \/ AskPairing(p)
           \/ \E w \in Writes : WriteAttr(p, w)
    PROVE  LinkInv'
<1>1. QueueOK(table, events) /\ events \in Seq(Records)
  BY QueueFromBuild DEF QueueOK
<1>2. LinkOK(table, events, linked, connections, asking, wants)
  BY DEF LinkInv
<1>3. PICK e : PhoneEvent(e) /\ e.phone = p /\ events' = Append(events, e)
  BY PhonePuts
<1>4. /\ e.type # "registered"
      /\ \A k \in DOMAIN events' : (k \in DOMAIN events /\ events'[k] = events[k]) \/ events'[k] = e
  BY <1>1, <1>3, QueueAppend DEF PhoneEvent, PhoneTypes, DescTypes, WriteTypes
<1>5. InQueue(events', "registered") => InQueue(events, "registered")
  BY <1>4 DEF InQueue
<1>6. UNCHANGED <<table, connections, advParts, gapEvents>>
  BY DEF Connect, Disconnect, AskDescriptor, AskPairing, WriteAttr, PhoneUnchanged, buildVars
<1>7. p \in linked /\ UNCHANGED advertising => RadioOK'
  <2> HAVE p \in linked /\ UNCHANGED advertising
  <2>1. ~Idle(events, linked, connections)
    BY DEF Idle
  <2>2. advParts = 2 /\ advertising # "on"
    BY <2>1 DEF LinkInv, RadioOK
  <2> QED BY <1>5, <1>6, <2>2 DEF LinkInv, RadioOK
<1>8. wants \in [Phones -> SUBSET Chars]
  BY <1>2 DEF LinkOK, LinkTypes
<1>9. CASE Connect(p)
  <2>1. /\ advertising = "on" /\ linked' = linked \cup {p} /\ advertising' = "off"
        /\ events' = Append(events, Event("connected", p, 0, Nothing)) /\ UNCHANGED <<asking, wants>>
    BY <1>9 DEF Connect, Happens
  <2>2. Idle(events, linked, connections) /\ advParts = 2
    BY <2>1 DEF LinkInv, RadioOK
  <2>3. LinkOK(table, events', linked', connections, asking, wants)
    BY <1>1, <1>2, <2>1, <2>2, ConnectLinkOK
  <2>4. RadioOK'
    BY <1>5, <1>6, <2>1, <2>2 DEF LinkInv, RadioOK
  <2> QED BY <1>6, <2>1, <2>3, <2>4 DEF LinkInv
<1>10. CASE Disconnect(p)
  <2>1. /\ p \in linked /\ linked' = linked \ {p} /\ asking' = asking \ {p}
        /\ wants' = [wants EXCEPT ![p] = {}] /\ UNCHANGED advertising
        /\ events' = Append(events, Event("disconnected", p, 0, Nothing))
    BY <1>10 DEF Disconnect, Happens
  <2>2. LinkOK(table, events', linked', connections, asking', wants')
    BY <1>1, <1>2, <2>1, DisconnectLinkOK
  <2> QED BY <1>6, <1>7, <2>1, <2>2 DEF LinkInv
<1>11. CASE AskDescriptor(p)
  <2>1. PICK h \in DOMAIN table, T \in DescTypes :
          /\ events' = Append(events, Event(T, p, h, Nothing))
          /\ T = "subscribe" => wants' = [wants EXCEPT ![p] = @ \cup {table[h][2]}]
          /\ T = "unsubscribe" => wants' = [wants EXCEPT ![p] = @ \ {table[h][2]}]
          /\ T = "read" => wants' = wants
    BY <1>11 DEF AskDescriptor, Happens, DescTypes
  <2>2. p \in linked /\ p \notin asking /\ asking' = asking \cup {p} /\ UNCHANGED <<linked, advertising>>
    BY <1>11 DEF AskDescriptor
  <2>3. h \in Nat /\ table[h][2] \in Chars
    <3>1. table \in Seq({"char", "desc"} \X Chars)
      BY DEF BuildInv, BuildOK, BuildTypes
    <3>2. table[h] \in {"char", "desc"} \X Chars
      BY <3>1
    <3> QED BY <3>1, <3>2
  <2> DEFINE a == Event(T, p, h, Nothing)
  <2>4. a \in Records /\ a.type = T /\ a.phone = p /\ a.handle = h /\ T \in AskTypes
    BY <2>3 DEF Event, Records, PhoneTypes, AskTypes
  <2>5. /\ wants' \in [Phones -> SUBSET Chars] /\ \A x \in Phones : x # p => wants'[x] = wants[x]
        /\ T = "subscribe" => wants'[p] = wants[p] \cup {table[h][2]}
        /\ T = "unsubscribe" => wants'[p] = wants[p] \ {table[h][2]}
        /\ T \notin {"subscribe", "unsubscribe"} => wants'[p] = wants[p]
    <3>1. T \in {"subscribe", "unsubscribe", "read"}
      BY DEF DescTypes
    <3> QED BY <1>8, <2>1, <2>3, <3>1
  <2> HIDE DEF a
  <2>6. LinkOK(table, Append(events, a), linked, connections, asking \cup {p}, wants')
    BY <1>1, <1>2, <2>2, <2>4, <2>5, AskLinkOK
  <2>7. LinkOK(table', events', linked', connections', asking', wants')
    BY <1>6, <2>1, <2>2, <2>6 DEF a
  <2> QED BY <1>7, <2>2, <2>7 DEF LinkInv
<1>12. CASE AskPairing(p)
  <2> DEFINE a == Event("pair", p, 0, Nothing)
  <2>1. /\ p \in linked /\ p \notin asking /\ asking' = asking \cup {p}
        /\ UNCHANGED <<linked, advertising, wants>> /\ events' = Append(events, a)
    BY <1>12 DEF AskPairing, Happens
  <2>2. a \in Records /\ a.type = "pair" /\ a.phone = p /\ a.type \in AskTypes
    BY DEF Event, Records, PhoneTypes, AskTypes
  <2> HIDE DEF a
  <2>3. LinkOK(table, events', linked, connections, asking \cup {p}, wants)
    BY <1>1, <1>2, <1>8, <2>1, <2>2, AskLinkOK
  <2> QED BY <1>6, <1>7, <2>1, <2>3 DEF LinkInv
<1>13. ASSUME NEW w \in Writes, WriteAttr(p, w) PROVE LinkInv'
  <2>1. PICK h \in DOMAIN table, T \in WriteTypes : events' = Append(events, Event(T, p, h, w))
    BY <1>13 DEF WriteAttr, Happens, WriteTypes
  <2>2. p \in linked /\ UNCHANGED <<linked, advertising, asking, wants>>
    BY <1>13 DEF WriteAttr
  <2>3. h \in Nat
    BY DEF BuildInv, BuildOK, BuildTypes
  <2>4. /\ Event(T, p, h, w) \in Records /\ Event(T, p, h, w).type = T /\ Event(T, p, h, w).phone = p
    BY <2>3 DEF Event, Records, PhoneTypes
  <2>5. LinkOK(table, events', linked, connections, asking, wants)
    BY <1>1, <1>2, <2>1, <2>2, <2>4, PutLinkOK
  <2> QED BY <1>6, <1>7, <2>2, <2>5 DEF LinkInv
<1> QED BY <1>9, <1>10, <1>11, <1>12, <1>13

\* Every step.
LEMMA NextLinkInv ==
    ASSUME BuildInv, LinkInv, [Next]_vars
    PROVE  LinkInv'
<1>1. CASE Build \/ EventFails
  BY <1>1, BuildLinkInv
<1>2. CASE Callback
  BY <1>2, CallbackLinkInv
<1>3. CASE MainLoop
  BY <1>3 DEF MainLoop, DrainWifi, DrainCommands, NotifyLive, PublishIfChanged, MainUnchanged,
              stackVars, buildVars, LinkInv, RadioOK
<1>4. CASE Phone
  BY <1>4, PhoneLinkInv DEF Phone
<1>5. CASE UNCHANGED vars
  BY <1>5 DEF vars, stackVars, buildVars, phoneVars, LinkInv, RadioOK
<1> QED BY <1>1, <1>2, <1>3, <1>4, <1>5 DEF Next

\* The life of a link between the phone, the queue and the callback: nothing is
\* left of a link when the server can be found again, so there is one at a time,
\* from its first event to its last.
THEOREM OneLinkAtATime == Spec => []LinkInv
<1>1. Init => LinkInv
  BY InitLinkInv
<1>2. BuildInv /\ LinkInv /\ [Next]_vars => LinkInv'
  BY NextLinkInv
<1> QED BY <1>1, <1>2, ServiceIsBuilt, PTL DEF Spec

\* Once the callback of ble.rs has caught up, its connections are the links
\* there are, with the subscriptions the phone asked for.
THEOREM ConnectionsServeTheLink == Spec => []ServesTheLink
<1>1. ASSUME BuildInv, LinkInv, PhoneEvents = {}
      PROVE  /\ Cardinality(linked) <= 1
             /\ Cardinality(connections) = Cardinality(linked)
             /\ \A c \in connections : c.phone \in linked /\ c.subscribed = wants[c.phone]
  <2>1. /\ LinkTypes(linked, connections, asking, wants) /\ OnePeer(events, linked, connections)
        /\ LinkIsKnown(events, linked, connections)
        /\ WantsNoted(table, events, linked, connections, wants)
    BY <1>1 DEF LinkInv, LinkOK
  <2>2. \A k \in DOMAIN events : events[k].type \in StackTypes /\ events[k].phone = "stack"
    <3> TAKE k \in DOMAIN events
    <3>1. events \in Seq(Records) /\ FromTheirSender(events)
      BY <1>1 DEF BuildInv, BuildOK, BuildTypes
    <3>2. events[k] \in Records /\ events[k].phone \notin Phones
      BY <1>1, <3>1 DEF PhoneEvents
    <3> QED BY <3>1, <3>2 DEF Records, FromTheirSender
  <2>3. /\ ~InQueue(events, "connected") /\ ~InQueue(events, "disconnected")
        /\ ~InQueue(events, "subscribe") /\ ~InQueue(events, "unsubscribe")
    BY <2>2 DEF InQueue, StackTypes
  <2>4. linked # {} <=> connections # {}
    BY <2>1, <2>3 DEF LinkIsKnown, Idle
  <2>5. CASE linked = {}
    <3>1. connections = {}
      BY <2>4, <2>5
    <3> QED BY <2>5, <3>1, FS_EmptySet
  <2>6. CASE linked # {}
    <3>1. PICK p \in linked, c \in connections : TRUE
      BY <2>4, <2>6
    <3>2. linked = {p} /\ connections = {c} /\ c.phone = p
      BY <2>1 DEF OnePeer
    <3>3. Cardinality(linked) = 1 /\ Cardinality(connections) = 1
      BY <3>2, FS_Singleton
    <3>4. c.subscribed = Subscribed(connections)
      <4>1. c.subscribed \in SUBSET Chars
        BY <2>1 DEF LinkTypes
      <4> QED BY <3>2, <4>1 DEF Subscribed
    <3>5. wants[p] = Subscribed(connections)
      BY <2>1, <2>3 DEF WantsNoted
    <3> QED BY <3>2, <3>3, <3>4, <3>5
  <2> QED BY <2>5, <2>6
<1>2. BuildInv /\ LinkInv => ServesTheLink
  BY <1>1 DEF ServesTheLink
<1> QED BY <1>2, ServiceIsBuilt, OneLinkAtATime, PTL

-----------------------------------------------------------------------------
(* AppliedOnce, when a phone waits with the next write until the callback    *)
(* has had the last one.                                                    *)

NoDuplicates(s) == \A j, k \in DOMAIN s : s[j] = s[k] => j = k

\* The writes the callback has not had yet.
Coming(q) == {w \in Writes : \E k \in DOMAIN q : q[k].type \in WriteTypes /\ q[k].write = w}

\* A write is put behind the others of a channel.
LEMMA RangeAppend ==
    ASSUME NEW s \in Seq(Writes), NEW w \in Writes
    PROVE  /\ Append(s, w) \in Seq(Writes) /\ Range(Append(s, w)) = Range(s) \cup {w}
           /\ NoDuplicates(s) /\ w \notin Range(s) => NoDuplicates(Append(s, w))
<1> DEFINE r == Append(s, w)
<1>1. /\ r \in Seq(Writes) /\ Len(s) + 1 \in DOMAIN r /\ r[Len(s) + 1] = w
      /\ \A k \in DOMAIN s : k \in DOMAIN r /\ r[k] = s[k]
      /\ \A k \in DOMAIN r : k \in DOMAIN s \/ k = Len(s) + 1
  OBVIOUS
<1> HIDE DEF r
<1>2. Range(r) = Range(s) \cup {w}
  BY <1>1 DEF Range
<1>3. NoDuplicates(s) /\ w \notin Range(s) => NoDuplicates(r)
  BY <1>1 DEF Range, NoDuplicates
<1> QED BY <1>1, <1>2, <1>3 DEF r

\* The main loop takes the first write of a channel.
LEMMA RangeTail ==
    ASSUME NEW s \in Seq(Writes), s # <<>>, NoDuplicates(s)
    PROVE  /\ Tail(s) \in Seq(Writes) /\ NoDuplicates(Tail(s))
           /\ Head(s) \in Writes /\ Head(s) \in Range(s) /\ Range(Tail(s)) = Range(s) \ {Head(s)}
<1> DEFINE r == Tail(s)
<1>1. /\ r \in Seq(Writes) /\ 1 \in DOMAIN s /\ Head(s) = s[1] /\ s[1] \in Writes
      /\ \A k \in DOMAIN r : k \in Nat /\ k > 0 /\ k + 1 \in DOMAIN s /\ r[k] = s[k + 1]
      /\ \A k \in DOMAIN s : k \in Nat /\ (k # 1 => k - 1 \in DOMAIN r /\ r[k - 1] = s[k])
  OBVIOUS
<1> HIDE DEF r
<1>2. NoDuplicates(r)
  <2> SUFFICES ASSUME NEW j \in DOMAIN r, NEW k \in DOMAIN r, r[j] = r[k] PROVE j = k
    BY DEF NoDuplicates
  <2>1. j + 1 = k + 1
    BY <1>1 DEF NoDuplicates
  <2> QED BY <1>1, <2>1
<1>3. Range(r) = Range(s) \ {Head(s)}
  <2>1. ASSUME NEW k \in DOMAIN r PROVE r[k] \in Range(s) /\ r[k] # Head(s)
    <3>1. k + 1 \in DOMAIN s /\ r[k] = s[k + 1] /\ k + 1 # 1
      BY <1>1, <2>1
    <3> QED BY <1>1, <3>1 DEF Range, NoDuplicates
  <2>2. ASSUME NEW k \in DOMAIN s, s[k] # Head(s) PROVE s[k] \in Range(r)
    BY <1>1, <2>2 DEF Range
  <2> QED BY <2>1, <2>2 DEF Range
<1>4. Head(s) \in Range(s)
  BY <1>1 DEF Range
<1> QED BY <1>1, <1>2, <1>3, <1>4 DEF r

WriteTypesOK ==
    /\ commands \in Seq(Writes) /\ wifi \in Seq(Writes) /\ applied \in Seq(Writes)
    /\ written \in Seq(Writes) /\ refused \subseteq Writes
    /\ stored \in [Writable -> Writes \cup {Nothing}]
    /\ \A k \in DOMAIN events : events[k].write \in Writes <=> events[k].type \in WriteTypes

\* An attribute holds the write whose event is in the queue, or nothing.
OneWrite ==
    /\ \A j, k \in DOMAIN events :
         events[j].type \in WriteTypes /\ events[k].type \in WriteTypes => j = k
    /\ \A w \in Coming(events) : stored[w.attr] = w
    /\ \A a \in Writable : stored[a] # Nothing => stored[a] \in Coming(events) /\ stored[a].attr = a

\* M the writes in the queue of events, K and F the channels, P what was applied.
InOnePlace(M, K, F, P, R, N) ==
    /\ NoDuplicates(K) /\ NoDuplicates(F) /\ NoDuplicates(P)
    /\ Range(N) = M \cup Range(K) \cup Range(F) \cup Range(P) \cup R
    /\ M \cap (Range(K) \cup Range(F) \cup Range(P) \cup R) = {}
    /\ Range(K) \cap (Range(F) \cup Range(P) \cup R) = {}
    /\ Range(F) \cap (Range(P) \cup R) = {}
    /\ Range(P) \cap R = {}

WriteInv ==
    WriteTypesOK /\ OneWrite /\ InOnePlace(Coming(events), commands, wifi, applied, refused, written)

\* What the app writes is never the empty value of an attribute.
LEMMA WritesAreSomething ==
    /\ Nothing \notin Writes
    /\ \A w \in Writes : w.attr \in Writable /\ w.attr \in {CHARS[i].attr : i \in Chars}
BY GattAssumption DEF Nothing, Writable, Chars

\* Nothing was written at the start.
LEMMA InitWriteInv ==
    ASSUME Init
    PROVE  WriteInv
<1>1. DOMAIN events = {1} /\ events[1].type = "registered" /\ events[1].write = Nothing
  BY DEF Init, StackEvent, Event
<1>2. Coming(events) = {}
  BY <1>1 DEF Coming, WriteTypes
<1>3. Range(<<>>) = {} /\ NoDuplicates(<<>>)
  BY DEF Range, NoDuplicates
<1>4. WriteTypesOK
  BY <1>1, WritesAreSomething DEF Init, WriteTypesOK, WriteTypes
<1>5. OneWrite
  BY <1>1, <1>2 DEF Init, OneWrite
<1>6. InOnePlace(Coming(events), commands, wifi, applied, refused, written)
  BY <1>2, <1>3 DEF Init, InOnePlace
<1> QED BY <1>4, <1>5, <1>6 DEF WriteInv

\* Events that carry no write come and go.
LEMMA QuietWriteInv ==
    ASSUME WriteInv, UNCHANGED <<stored, channels, refused, applied, written>>,
           \A k \in DOMAIN events : events[k].type \in WriteTypes =>
               \E j \in DOMAIN events' : events'[j] = events[k],
           \A k \in DOMAIN events' : events'[k].type \in WriteTypes =>
               \E j \in DOMAIN events : events'[k] = events[j],
           \A j, k \in DOMAIN events' :
               events'[j].type \in WriteTypes /\ events'[k].type \in WriteTypes => j = k,
           \A k \in DOMAIN events' : events'[k].write \in Writes <=> events'[k].type \in WriteTypes
    PROVE  WriteInv'
<1>1. Coming(events') = Coming(events)
  BY DEF Coming
<1>2. WriteTypesOK'
  BY DEF WriteInv, WriteTypesOK, channels
<1>3. OneWrite'
  BY <1>1 DEF WriteInv, OneWrite
<1>4. InOnePlace(Coming(events'), commands', wifi', applied', refused', written')
  BY <1>1 DEF WriteInv, channels
<1> QED BY <1>2, <1>3, <1>4 DEF WriteInv

\* The steps that build the service.
LEMMA BuildWriteInv ==
    ASSUME BuildInv, WriteInv, Build \/ EventFails
    PROVE  WriteInv'
<1>1. CASE OnAdvConfigured
  BY <1>1 DEF OnAdvConfigured, phoneVars, channels, WriteInv, WriteTypesOK, OneWrite
<1>2. CASE ~OnAdvConfigured
  <2>1. /\ events # <<>> /\ events[1].type \in StackTypes
        /\ \/ events' = Tail(events)
           \/ \E e \in Records : /\ e.type \in StackTypes /\ e.write = Nothing
                                 /\ events' = Append(Tail(events), e)
        /\ UNCHANGED <<stored, channels, refused, applied, written>>
    BY <1>2, BuildStep DEF phoneVars
  <2>2. events \in Seq(Records)
    BY DEF BuildInv, BuildOK, BuildTypes
  <2> DEFINE r == Tail(events)
  <2>3. /\ r \in Seq(Records) /\ events[1].type \notin WriteTypes
        /\ \A k \in DOMAIN r : k \in Nat /\ k + 1 \in DOMAIN events /\ r[k] = events[k + 1]
        /\ \A k \in DOMAIN events : k # 1 => k - 1 \in DOMAIN r /\ r[k - 1] = events[k]
    BY <2>1, <2>2, QueueTail DEF StackTypes, WriteTypes
  <2>4. /\ \A k \in DOMAIN r : k \in DOMAIN events' /\ events'[k] = r[k]
        /\ \A k \in DOMAIN events' :
             \/ k \in DOMAIN r /\ events'[k] = r[k]
             \/ events'[k].type \in StackTypes /\ events'[k].write = Nothing
    BY <2>1, <2>3, QueueAppend
  <2> HIDE DEF r
  <2>5. \A k \in DOMAIN events : events[k].type \in WriteTypes => \E j \in DOMAIN events' : events'[j] = events[k]
    BY <2>3, <2>4
  <2>6. \A k \in DOMAIN events' : events'[k].type \in WriteTypes =>
          k \in Nat /\ k + 1 \in DOMAIN events /\ events'[k] = events[k + 1]
    BY <2>3, <2>4 DEF StackTypes, WriteTypes
  <2>7. \A j, k \in DOMAIN events' : events'[j].type \in WriteTypes /\ events'[k].type \in WriteTypes => j = k
    <3> SUFFICES ASSUME NEW j \in DOMAIN events', NEW k \in DOMAIN events',
                        events'[j].type \in WriteTypes, events'[k].type \in WriteTypes
                 PROVE  j = k
      OBVIOUS
    <3>1. j \in Nat /\ k \in Nat /\ j + 1 = k + 1
      BY <2>6 DEF WriteInv, OneWrite
    <3> QED BY <3>1
  <2>8. \A k \in DOMAIN events' : events'[k].write \in Writes <=> events'[k].type \in WriteTypes
    <3> TAKE k \in DOMAIN events'
    <3>1. CASE k \in DOMAIN r /\ events'[k] = r[k]
      BY <2>3, <3>1 DEF WriteInv, WriteTypesOK
    <3>2. CASE events'[k].type \in StackTypes /\ events'[k].write = Nothing
      BY <3>2, WritesAreSomething DEF StackTypes, WriteTypes
    <3> QED BY <2>4, <3>1, <3>2
  <2> QED BY <2>1, <2>5, <2>6, <2>7, <2>8, QuietWriteInv
<1> QED BY <1>1, <1>2

\* dispatch_write, of the write whose event is taken: it goes to its channel,
\* or it is refused, and the attributes are empty again.
LEMMA DispatchWriteInv ==
    ASSUME BuildInv, WriteInv, events # <<>>, events[1].type \in WriteTypes, events' = Tail(events),
           dispatch_write({events[1].write}), UNCHANGED <<applied, written>>
    PROVE  WriteInv'
<1> DEFINE w == events[1].write
<1>1. events \in Seq(Records)
  BY DEF BuildInv, BuildOK, BuildTypes
<1>2. /\ 1 \in DOMAIN events
      /\ \A k \in DOMAIN events' : k \in Nat /\ k > 0 /\ k + 1 \in DOMAIN events /\ events'[k] = events[k + 1]
  BY <1>1, QueueTail
<1>3. \A k \in DOMAIN events' : events'[k].type \notin WriteTypes
  BY <1>2 DEF WriteInv, OneWrite
<1>4. w \in Writes /\ Coming(events) = {w} /\ Coming(events') = {}
  BY <1>2, <1>3 DEF Coming, WriteInv, WriteTypesOK, OneWrite
<1>5. /\ commands \in Seq(Writes) /\ wifi \in Seq(Writes) /\ applied \in Seq(Writes)
      /\ written \in Seq(Writes) /\ refused \subseteq Writes /\ stored \in [Writable -> Writes \cup {Nothing}]
  BY DEF WriteInv, WriteTypesOK
<1>6. InOnePlace({w}, commands, wifi, applied, refused, written)
  BY <1>4 DEF WriteInv
<1> HIDE DEF w
<1>7. \A a \in Writable : stored[a] # Nothing => stored[a] = w /\ w.attr = a
  BY <1>4 DEF WriteInv, OneWrite
<1>8. stored' \in [Writable -> Writes \cup {Nothing}] /\ \A a \in Writable : stored'[a] = Nothing
  BY <1>5, <1>7 DEF dispatch_write, w
<1>9. OneWrite'
  BY <1>3, <1>4, <1>8 DEF OneWrite
<1>10. \/ commands' = Append(commands, w) /\ wifi' = wifi /\ refused' = refused
       \/ commands' = commands /\ wifi' = Append(wifi, w) /\ refused' = refused
       \/ commands' = commands /\ wifi' = wifi /\ refused' = refused \cup {w}
  <2>1. w \notin Range(commands) /\ w \notin Range(wifi)
    BY <1>6 DEF InOnePlace
  <2>2. /\ commands' = commands \/ (w.attr = "Command" /\ commands' = Append(commands, w))
        /\ wifi' = wifi \/ (w.attr = "WifiConfig" /\ wifi' = Append(wifi, w))
        /\ refused' = refused \cup ({w} \ (Range(commands') \cup Range(wifi')))
    BY DEF dispatch_write, Queued, w
  <2>3. Range(Append(commands, w)) = Range(commands) \cup {w} /\ Range(Append(wifi, w)) = Range(wifi) \cup {w}
    BY <1>4, <1>5, RangeAppend
  <2> QED BY <2>1, <2>2, <2>3
<1>11. WriteTypesOK' /\ InOnePlace({}, commands', wifi', applied', refused', written')
  <2>1. \A k \in DOMAIN events' : events'[k].write \in Writes <=> events'[k].type \in WriteTypes
    BY <1>2 DEF WriteInv, WriteTypesOK
  <2>2. CASE commands' = Append(commands, w) /\ wifi' = wifi /\ refused' = refused
    <3>1. /\ commands' \in Seq(Writes) /\ Range(commands') = Range(commands) \cup {w}
          /\ NoDuplicates(commands')
      BY <1>4, <1>5, <1>6, <2>2, RangeAppend DEF InOnePlace
    <3>2. InOnePlace({}, commands', wifi', applied', refused', written')
      BY <1>6, <2>2, <3>1 DEF InOnePlace
    <3> QED BY <1>5, <1>8, <2>1, <2>2, <3>1, <3>2 DEF WriteTypesOK
  <2>3. CASE commands' = commands /\ wifi' = Append(wifi, w) /\ refused' = refused
    <3>1. /\ wifi' \in Seq(Writes) /\ Range(wifi') = Range(wifi) \cup {w} /\ NoDuplicates(wifi')
      BY <1>4, <1>5, <1>6, <2>3, RangeAppend DEF InOnePlace
    <3>2. InOnePlace({}, commands', wifi', applied', refused', written')
      BY <1>6, <2>3, <3>1 DEF InOnePlace
    <3> QED BY <1>5, <1>8, <2>1, <2>3, <3>1, <3>2 DEF WriteTypesOK
  <2>4. CASE commands' = commands /\ wifi' = wifi /\ refused' = refused \cup {w}
    <3>1. InOnePlace({}, commands', wifi', applied', refused', written')
      BY <1>6, <2>4 DEF InOnePlace
    <3> QED BY <1>4, <1>5, <1>8, <2>1, <2>4, <3>1 DEF WriteTypesOK
  <2> QED BY <1>10, <2>2, <2>3, <2>4
<1> QED BY <1>4, <1>9, <1>11 DEF WriteInv

\* The callback: a write it is told of is one to an attribute it knows.
LEMMA CallbackWriteInv ==
    ASSUME BuildInv, WriteInv, Callback
    PROVE  WriteInv'
<1>1. events # <<>> /\ events' = Tail(events) /\ UNCHANGED <<applied, written>>
  BY DEF Callback, OnConnected, OnDisconnected, OnSecurityRequest, OnRead, OnSubscribe, OnWrite,
         OnExecWrite, Handling, Done, CallbackUnchanged, CallbackKeeps
<1>2. events \in Seq(Records)
  BY DEF BuildInv, BuildOK, BuildTypes
<1>3. /\ 1 \in DOMAIN events /\ Head(events) = events[1]
      /\ \A k \in DOMAIN events : k \in Nat /\ k > 0
      /\ \A k \in DOMAIN events' : k \in Nat /\ k + 1 \in DOMAIN events /\ events'[k] = events[k + 1]
      /\ \A k \in DOMAIN events : k # 1 => k - 1 \in DOMAIN events' /\ events'[k - 1] = events[k]
  BY <1>1, <1>2, QueueTail
<1>4. CASE events[1].type \notin WriteTypes
  <2>1. UNCHANGED <<stored, channels, refused>>
    BY <1>3, <1>4 DEF Callback, OnConnected, OnDisconnected, OnSecurityRequest, OnRead, OnSubscribe,
                      OnWrite, OnExecWrite, Handling, WriteTypes
  <2>2. \A k \in DOMAIN events : events[k].type \in WriteTypes => \E j \in DOMAIN events' : events'[j] = events[k]
    BY <1>3, <1>4
  <2>3. \A j, k \in DOMAIN events' : events'[j].type \in WriteTypes /\ events'[k].type \in WriteTypes => j = k
    <3> SUFFICES ASSUME NEW j \in DOMAIN events', NEW k \in DOMAIN events',
                        events'[j].type \in WriteTypes, events'[k].type \in WriteTypes
                 PROVE  j = k
      OBVIOUS
    <3>1. j \in Nat /\ k \in Nat /\ j + 1 = k + 1
      BY <1>3 DEF WriteInv, OneWrite
    <3> QED BY <3>1
  <2>4. \A k \in DOMAIN events' : events'[k].write \in Writes <=> events'[k].type \in WriteTypes
    BY <1>3 DEF WriteInv, WriteTypesOK
  <2> QED BY <1>1, <1>3, <2>1, <2>2, <2>3, <2>4, QuietWriteInv
<1>5. CASE events[1].type \in WriteTypes
  <2> DEFINE w == events[1].write
             h == events[1].handle
  <2>1. w \in Writes /\ w.attr \in Writable /\ stored[w.attr] = w /\ w # Nothing
    BY <1>3, <1>5, WritesAreSomething DEF WriteInv, WriteTypesOK, OneWrite, Coming
  <2>2. char_index(w.attr) \in Chars /\ CHARS[char_index(w.attr)].attr = w.attr
    BY <2>1, WritesAreSomething DEF char_index
  <2>3. handles[char_index(w.attr)] = h /\ h # 0
    <3>1. /\ h \in DOMAIN table /\ table[h] = <<"char", char_index(w.attr)>>
          /\ Noted(table, handles, cccd, h)
      BY <1>3, <1>5 DEF BuildInv, BuildOK, RequestsNoted
    <3>2. table \in Seq({"char", "desc"} \X Chars)
      BY DEF BuildInv, BuildOK, BuildTypes
    <3> QED BY <3>1, <3>2 DEF Noted
  <2>4. dispatch_write({w})
    <3>1. CASE OnWrite
      BY <1>3, <2>1, <2>2, <2>3, <3>1 DEF OnWrite
    <3>2. CASE OnExecWrite
      <4>1. {stored[a] : a \in {b \in Writable : handles[char_index(b)] # 0}} \ {Nothing} = {w}
        <5>1. \A a \in Writable : stored[a] # Nothing => stored[a] = w
          BY <1>3, <1>5 DEF WriteInv, OneWrite, Coming
        <5> QED BY <2>1, <2>3, <5>1
      <4> QED BY <3>2, <4>1 DEF OnExecWrite
    <3> QED BY <1>3, <1>5, <3>1, <3>2 DEF Callback, OnConnected, OnDisconnected, OnSecurityRequest,
               OnRead, OnSubscribe, Handling, WriteTypes
  <2> QED BY <1>1, <1>5, <2>4, DispatchWriteInv
<1> QED BY <1>4, <1>5

\* What a phone does, but for writing, puts an event without a write.
LEMMA PhoneWriteInv ==
    ASSUME ~Overlap, BuildInv, WriteInv, NEW p \in Phones,
           \/ Connect(p) \/ Disconnect(p) \/ AskDescriptor(p) \/ AskPairing(p)
           \/ \E w \in Writes : WriteAttr(p, w)
    PROVE  WriteInv'
<1>1. events \in Seq(Records) /\ \A h \in DOMAIN table : h \in Nat
  BY DEF BuildInv, BuildOK, BuildTypes
<1>2. CASE Connect(p) \/ Disconnect(p) \/ AskDescriptor(p) \/ AskPairing(p)
  <2>1. PICK T \in PhoneTypes \ WriteTypes, h \in Nat : events' = Append(events, Event(T, p, h, Nothing))
    BY <1>1, <1>2 DEF Connect, Disconnect, AskDescriptor, AskPairing, Happens, PhoneTypes, DescTypes, WriteTypes
  <2> DEFINE e == Event(T, p, h, Nothing)
  <2>2. e \in Records /\ e.type \notin WriteTypes /\ e.write = Nothing
    BY DEF Event, Records
  <2> HIDE DEF e
  <2>3. events' = Append(events, e)
    BY <2>1 DEF e
  <2>4. /\ \A k \in DOMAIN events : k \in DOMAIN events' /\ events'[k] = events[k]
        /\ \A k \in DOMAIN events' : (k \in DOMAIN events /\ events'[k] = events[k]) \/ events'[k] = e
    BY <1>1, <2>2, <2>3, QueueAppend
  <2>5. UNCHANGED <<stored, channels, refused, applied, written>>
    BY <1>2 DEF Connect, Disconnect, AskDescriptor, AskPairing, PhoneUnchanged, obsVars
  <2>6. \A j, k \in DOMAIN events' : events'[j].type \in WriteTypes /\ events'[k].type \in WriteTypes => j = k
    BY <2>2, <2>4 DEF WriteInv, OneWrite
  <2>7. \A k \in DOMAIN events' : events'[k].write \in Writes <=> events'[k].type \in WriteTypes
    BY <2>2, <2>4, WritesAreSomething DEF WriteInv, WriteTypesOK
  <2> QED BY <2>2, <2>4, <2>5, <2>6, <2>7, QuietWriteInv
<1>3. ASSUME NEW w \in Writes, WriteAttr(p, w) PROVE WriteInv'
  <2>1. PICK h \in DOMAIN table, T \in WriteTypes : events' = Append(events, Event(T, p, h, w))
    BY <1>3 DEF WriteAttr, Happens, WriteTypes
  <2> DEFINE e == Event(T, p, h, w)
  <2>2. e \in Records /\ e.type \in WriteTypes /\ e.write = w
    BY <1>1, <2>1 DEF Event, Records, PhoneTypes
  <2> HIDE DEF e
  <2>3. events' = Append(events, e)
    BY <2>1 DEF e
  <2>4. /\ \A k \in DOMAIN events : k \in DOMAIN events' /\ events'[k] = events[k]
        /\ \A k \in DOMAIN events' : (k \in DOMAIN events /\ events'[k] = events[k])
                                     \/ (k = Len(events) + 1 /\ events'[k] = e)
        /\ Len(events) + 1 \in DOMAIN events' /\ events'[Len(events) + 1] = e
    BY <1>1, <2>2, <2>3, QueueAppend
  <2>5. /\ UNCHANGED <<commands, wifi, refused, applied>> /\ written' = Append(written, w)
        /\ stored' = [stored EXCEPT ![w.attr] = w] /\ w \notin Range(written)
        /\ \A k \in DOMAIN events : events[k].type \notin WriteTypes
    BY <1>3 DEF WriteAttr, PhoneUnchanged, obsVars, channels, WriteTypes
  <2>6. Coming(events) = {} /\ Coming(events') = {w}
    BY <2>2, <2>4, <2>5 DEF Coming
  <2>7. stored \in [Writable -> Writes \cup {Nothing}] /\ \A a \in Writable : stored[a] = Nothing
    BY <2>6 DEF WriteInv, WriteTypesOK, OneWrite
  <2>8. w.attr \in Writable
    BY WritesAreSomething
  <2>9. /\ stored' \in [Writable -> Writes \cup {Nothing}] /\ stored'[w.attr] = w
        /\ \A a \in Writable : stored'[a] # Nothing => a = w.attr
    BY <2>5, <2>7, <2>8
  <2>10. OneWrite'
    <3>1. \A j, k \in DOMAIN events' :
            events'[j].type \in WriteTypes /\ events'[k].type \in WriteTypes => j = k
      BY <2>4, <2>5
    <3> QED BY <2>6, <2>9, <3>1 DEF OneWrite
  <2>11. written' \in Seq(Writes) /\ Range(written') = Range(written) \cup {w}
    BY <2>5, RangeAppend DEF WriteInv, WriteTypesOK
  <2>12. \A k \in DOMAIN events' : events'[k].write \in Writes <=> events'[k].type \in WriteTypes
    BY <2>2, <2>4 DEF WriteInv, WriteTypesOK
  <2>13. WriteTypesOK'
    BY <2>5, <2>9, <2>11, <2>12 DEF WriteInv, WriteTypesOK
  <2>14. InOnePlace({}, commands, wifi, applied, refused, written)
    BY <2>6 DEF WriteInv
  <2>15. InOnePlace({w}, commands', wifi', applied', refused', written')
    BY <2>5, <2>11, <2>14 DEF InOnePlace
  <2> QED BY <2>6, <2>10, <2>13, <2>15 DEF WriteInv
<1> QED BY <1>2, <1>3

\* The main loop takes from the channels.
LEMMA MainWriteInv ==
    ASSUME WriteInv, MainLoop
    PROVE  WriteInv'
<1>1. UNCHANGED <<events, stored, refused, written>>
  BY DEF MainLoop, DrainWifi, DrainCommands, NotifyLive, PublishIfChanged, MainUnchanged, stackVars
<1>2. OneWrite'
  BY <1>1 DEF WriteInv, OneWrite
<1>3. commands \in Seq(Writes) /\ wifi \in Seq(Writes) /\ applied \in Seq(Writes)
  BY DEF WriteInv, WriteTypesOK
<1>4. InOnePlace(Coming(events), commands, wifi, applied, refused, written)
  BY DEF WriteInv
<1>5. \/ UNCHANGED <<commands, wifi, applied>>
      \/ /\ wifi # <<>> /\ wifi' = Tail(wifi) /\ applied' = Append(applied, Head(wifi))
         /\ UNCHANGED commands
      \/ /\ commands # <<>> /\ commands' = Tail(commands) /\ applied' = Append(applied, Head(commands))
         /\ UNCHANGED wifi
  BY DEF MainLoop, DrainWifi, DrainCommands, NotifyLive, PublishIfChanged, channels
<1>6. CASE UNCHANGED <<commands, wifi, applied>>
  BY <1>1, <1>2, <1>6 DEF WriteInv, WriteTypesOK
<1>7. CASE /\ wifi # <<>> /\ wifi' = Tail(wifi) /\ applied' = Append(applied, Head(wifi))
           /\ UNCHANGED commands
  <2>1. /\ wifi' \in Seq(Writes) /\ NoDuplicates(wifi') /\ Head(wifi) \in Writes
        /\ Head(wifi) \in Range(wifi) /\ Range(wifi') = Range(wifi) \ {Head(wifi)}
    BY <1>3, <1>4, <1>7, RangeTail DEF InOnePlace
  <2>2. Head(wifi) \notin Range(applied)
    BY <1>4, <2>1 DEF InOnePlace
  <2>3. /\ applied' \in Seq(Writes) /\ Range(applied') = Range(applied) \cup {Head(wifi)}
        /\ NoDuplicates(applied')
    BY <1>3, <1>4, <1>7, <2>1, <2>2, RangeAppend DEF InOnePlace
  <2>4. InOnePlace(Coming(events), commands', wifi', applied', refused, written)
    BY <1>4, <1>7, <2>1, <2>3 DEF InOnePlace
  <2>5. WriteTypesOK'
    BY <1>1, <1>7, <2>1, <2>3 DEF WriteInv, WriteTypesOK
  <2> QED BY <1>1, <1>2, <2>4, <2>5 DEF WriteInv
<1>8. CASE /\ commands # <<>> /\ commands' = Tail(commands) /\ applied' = Append(applied, Head(commands))
           /\ UNCHANGED wifi
  <2>1. /\ commands' \in Seq(Writes) /\ NoDuplicates(commands') /\ Head(commands) \in Writes
        /\ Head(commands) \in Range(commands) /\ Range(commands') = Range(commands) \ {Head(commands)}
    BY <1>3, <1>4, <1>8, RangeTail DEF InOnePlace
  <2>2. Head(commands) \notin Range(applied)
    BY <1>4, <2>1 DEF InOnePlace
  <2>3. /\ applied' \in Seq(Writes) /\ Range(applied') = Range(applied) \cup {Head(commands)}
        /\ NoDuplicates(applied')
    BY <1>3, <1>4, <1>8, <2>1, <2>2, RangeAppend DEF InOnePlace
  <2>4. InOnePlace(Coming(events), commands', wifi', applied', refused, written)
    BY <1>4, <1>8, <2>1, <2>3 DEF InOnePlace
  <2>5. WriteTypesOK'
    BY <1>1, <1>8, <2>1, <2>3 DEF WriteInv, WriteTypesOK
  <2> QED BY <1>1, <1>2, <2>4, <2>5 DEF WriteInv
<1> QED BY <1>5, <1>6, <1>7, <1>8

\* Every step.
LEMMA NextWriteInv ==
    ASSUME ~Overlap, BuildInv, WriteInv, [Next]_vars
    PROVE  WriteInv'
<1>1. CASE Build \/ EventFails
  BY <1>1, BuildWriteInv
<1>2. CASE Callback
  BY <1>2, CallbackWriteInv
<1>3. CASE MainLoop
  BY <1>3, MainWriteInv
<1>4. CASE Phone
  BY <1>4, PhoneWriteInv DEF Phone
<1>5. CASE UNCHANGED vars
  BY <1>5 DEF vars, stackVars, phoneVars, obsVars, channels, WriteInv, WriteTypesOK, OneWrite
<1> QED BY <1>1, <1>2, <1>3, <1>4, <1>5 DEF Next

\* How often something is in a sequence that holds it at most once.
LEMMA CountOnce ==
    ASSUME NEW s, NEW w, \A j, k \in DOMAIN s : s[j] = w /\ s[k] = w => j = k
    PROVE  Cardinality({k \in DOMAIN s : s[k] = w}) = IF w \in Range(s) THEN 1 ELSE 0
<1>1. CASE w \in Range(s)
  <2>1. PICK i \in DOMAIN s : s[i] = w
    BY <1>1 DEF Range
  <2>2. {k \in DOMAIN s : s[k] = w} = {i}
    BY <2>1
  <2> QED BY <1>1, <2>2, FS_Singleton
<1>2. CASE w \notin Range(s)
  <2>1. {k \in DOMAIN s : s[k] = w} = {}
    BY <1>2 DEF Range
  <2> QED BY <1>2, <2>1, FS_EmptySet
<1> QED BY <1>1, <1>2

\* A write of a phone is in one place on its way through ble.rs and the loop.
LEMMA WriteInvImplies ==
    ASSUME WriteInv
    PROVE  AppliedOnce
<1> SUFFICES ASSUME NEW w \in Range(written) PROVE Occurrences(w) = 1
  BY DEF AppliedOnce
<1>1. InOnePlace(Coming(events), commands, wifi, applied, refused, written) /\ w \in Writes
  BY DEF WriteInv, WriteTypesOK, Range
<1> DEFINE ws == [k \in DOMAIN events |-> events[k].write]
           n(s) == Cardinality({k \in DOMAIN s : s[k] = w})
<1>2. n(ws) = IF w \in Coming(events) THEN 1 ELSE 0
  <2>1. \A k \in DOMAIN events : events[k].write = w => events[k].type \in WriteTypes
    BY <1>1 DEF WriteInv, WriteTypesOK
  <2>2. \A j, k \in DOMAIN ws : ws[j] = w /\ ws[k] = w => j = k
    BY <2>1 DEF WriteInv, OneWrite
  <2>3. w \in Range(ws) <=> w \in Coming(events)
    BY <1>1, <2>1 DEF Coming, Range
  <2> HIDE DEF ws
  <2> QED BY <2>2, <2>3, CountOnce
<1>3. /\ n(commands) = IF w \in Range(commands) THEN 1 ELSE 0
      /\ n(wifi) = IF w \in Range(wifi) THEN 1 ELSE 0
      /\ n(applied) = IF w \in Range(applied) THEN 1 ELSE 0
  BY <1>1, CountOnce DEF InOnePlace, NoDuplicates
<1>4. Cardinality(refused \cap {w}) = IF w \in refused THEN 1 ELSE 0
  <2>1. CASE w \in refused
    <3>1. refused \cap {w} = {w}
      BY <2>1
    <3> QED BY <2>1, <3>1, FS_Singleton
  <2>2. CASE w \notin refused
    <3>1. refused \cap {w} = {}
      BY <2>2
    <3> QED BY <2>2, <3>1, FS_EmptySet
  <2> QED BY <2>1, <2>2
<1>5. Occurrences(w) = n(ws) + n(commands) + n(wifi) + n(applied) + Cardinality(refused \cap {w})
  BY DEF Occurrences
<1> HIDE DEF ws, n
<1> QED BY <1>1, <1>2, <1>3, <1>4, <1>5 DEF InOnePlace

\* dispatch_write's "Clear so a later ExecWrite can't replay a stale value": a
\* phone that waits for the callback before it writes again has each write
\* applied once or refused, whatever else happens in between.
THEOREM WritesAppliedOnce ==
    ASSUME ~Overlap
    PROVE  Spec => []AppliedOnce
<1>1. Init => WriteInv
  BY InitWriteInv
<1>2. BuildInv /\ WriteInv /\ [Next]_vars => WriteInv'
  BY NextWriteInv
<1>3. WriteInv => AppliedOnce
  BY WriteInvImplies
<1> QED BY <1>1, <1>2, <1>3, ServiceIsBuilt, PTL DEF Spec

-----------------------------------------------------------------------------
(* Types and capacities, with Overlap or without.                           *)

ChannelsOK ==
    /\ ready \in BOOLEAN /\ heard \subseteq linked
    /\ stored \in [Writable -> Writes \cup {Nothing}]
    /\ commands \in Seq(Writes) /\ Len(commands) <= CMD_QUEUE
    /\ wifi \in Seq(Writes) /\ Len(wifi) <= WIFI_QUEUE

\* try_send on a channel: it takes what is decoded while there is room.
LEMMA QueuedResult ==
    ASSUME NEW s \in Seq(Writes), NEW a \in Writable, NEW n \in Nat, Len(s) <= n,
           NEW ws, ws \subseteq Writes \cup {Nothing}
    PROVE  Queued(s, a, n, ws) \in Seq(Writes) /\ Len(Queued(s, a, n, ws)) <= n
<1> DEFINE new == {w \in ws : w.attr = a /\ w.ok}
           c == CHOOSE w \in new : TRUE
<1>1. new \subseteq Writes
  BY DEF Nothing
<1>2. new # {} => c \in new
  OBVIOUS
<1> HIDE DEF c
<1>3. Queued(s, a, n, ws) = s \/ (c \in Writes /\ Len(s) < n /\ Queued(s, a, n, ws) = Append(s, c))
  BY <1>1, <1>2 DEF Queued, c
<1>4. c \in Writes /\ Len(s) < n => Append(s, c) \in Seq(Writes) /\ Len(Append(s, c)) <= n
  OBVIOUS
<1> QED BY <1>3, <1>4

\* dispatch_write, of what the attributes or an event hold.
LEMMA DispatchChannelsOK ==
    ASSUME ChannelsOK, NEW ws, ws \subseteq Writes \cup {Nothing}, dispatch_write(ws),
           UNCHANGED <<ready, heard, linked>>
    PROVE  ChannelsOK'
<1>1. CMD_QUEUE \in Nat /\ WIFI_QUEUE \in Nat /\ "Command" \in Writable /\ "WifiConfig" \in Writable
  BY GattAssumption DEF Writable
<1>2. commands' \in Seq(Writes) /\ Len(commands') <= CMD_QUEUE
  BY <1>1, QueuedResult DEF ChannelsOK, dispatch_write
<1>3. wifi' \in Seq(Writes) /\ Len(wifi') <= WIFI_QUEUE
  BY <1>1, QueuedResult DEF ChannelsOK, dispatch_write
<1>4. stored' \in [Writable -> Writes \cup {Nothing}]
  BY DEF ChannelsOK, dispatch_write
<1> QED BY <1>2, <1>3, <1>4 DEF ChannelsOK

\* Every step.
LEMMA NextChannelsOK ==
    ASSUME BuildInv, ChannelsOK, [Next]_vars
    PROVE  ChannelsOK'
<1>1. CASE Build \/ EventFails
  <2>1. UNCHANGED <<linked, heard, stored, commands, wifi>> /\ ready' \in {ready, TRUE}
    BY <1>1 DEF Build, EventFails, OnRegistered, OnAdvConfigured, OnCreated, OnCharAdded, OnDescAdded,
                advance, stackVars, buildVars, phoneVars, channels
  <2> QED BY <2>1 DEF ChannelsOK
<1>2. CASE Callback
  <2>1. UNCHANGED <<linked, heard, ready>> /\ events # <<>>
    BY <1>2 DEF Callback, OnConnected, OnDisconnected, OnSecurityRequest, OnRead, OnSubscribe, OnWrite,
                OnExecWrite, CallbackUnchanged, CallbackKeeps, buildVars, Handling
  <2>2. events[1] \in Records /\ Head(events) = events[1]
    BY <2>1, QueueTail DEF BuildInv, BuildOK, BuildTypes
  <2>3. \/ UNCHANGED <<stored, commands, wifi>>
        \/ \E ws : ws \subseteq Writes \cup {Nothing} /\ dispatch_write(ws)
    <3>1. CASE OnWrite
      <4>1. {events[1].write} \subseteq Writes \cup {Nothing}
        BY <2>2 DEF Records
      <4> QED BY <2>2, <3>1, <4>1 DEF OnWrite, channels
    <3>2. CASE OnExecWrite
      <4>1. {stored[a] : a \in {b \in Writable : handles[char_index(b)] # 0}} \ {Nothing} \subseteq Writes
        BY DEF ChannelsOK
      <4> QED BY <3>2, <4>1 DEF OnExecWrite
    <3>3. CASE ~OnWrite /\ ~OnExecWrite
      BY <1>2, <3>3 DEF Callback, OnConnected, OnDisconnected, OnSecurityRequest, OnRead, OnSubscribe, channels
    <3> QED BY <3>1, <3>2, <3>3
  <2>4. CASE UNCHANGED <<stored, commands, wifi>>
    BY <2>1, <2>4 DEF ChannelsOK
  <2> QED BY <2>1, <2>3, <2>4, DispatchChannelsOK
<1>3. CASE MainLoop
  <2>1. UNCHANGED <<linked, ready, stored>> /\ heard' \subseteq linked
    BY <1>3 DEF MainLoop, DrainWifi, DrainCommands, NotifyLive, PublishIfChanged, MainUnchanged, stackVars,
                buildVars, ChannelsOK
  <2>2. /\ commands' = commands \/ (commands # <<>> /\ commands' = Tail(commands))
        /\ wifi' = wifi \/ (wifi # <<>> /\ wifi' = Tail(wifi))
    BY <1>3 DEF MainLoop, DrainWifi, DrainCommands, NotifyLive, PublishIfChanged, channels
  <2>3. CMD_QUEUE \in Nat /\ WIFI_QUEUE \in Nat
    BY GattAssumption
  <2>4. commands' \in Seq(Writes) /\ Len(commands') <= CMD_QUEUE
    BY <2>2, <2>3, SMTT(30) DEF ChannelsOK
  <2>5. wifi' \in Seq(Writes) /\ Len(wifi') <= WIFI_QUEUE
    BY <2>2, <2>3, SMTT(30) DEF ChannelsOK
  <2> QED BY <2>1, <2>4, <2>5 DEF ChannelsOK
<1>4. CASE Phone
  <2>1. PICK p \in Phones : \/ Connect(p) \/ Disconnect(p) \/ AskDescriptor(p) \/ AskPairing(p)
                            \/ \E w \in Writes : WriteAttr(p, w)
    BY <1>4 DEF Phone
  <2>2. UNCHANGED <<ready, commands, wifi>> /\ heard' \subseteq linked'
    BY <2>1 DEF Connect, Disconnect, AskDescriptor, AskPairing, WriteAttr, PhoneUnchanged, buildVars,
                channels, ChannelsOK
  <2>3. stored' \in [Writable -> Writes \cup {Nothing}]
    BY <2>1 DEF Connect, Disconnect, AskDescriptor, AskPairing, WriteAttr, ChannelsOK
  <2> QED BY <2>2, <2>3 DEF ChannelsOK
<1>5. CASE UNCHANGED vars
  BY <1>5 DEF vars, stackVars, buildVars, phoneVars, channels, ChannelsOK
<1> QED BY <1>1, <1>2, <1>3, <1>4, <1>5 DEF Next

\* The rest: who is bonded, where the loop is, what the phones wrote and what
\* became of it.
RestOK ==
    /\ bonded \subseteq Phones /\ pc \in {"wifi", "commands", "telemetry", "publish"}
    /\ cached \in BOOLEAN /\ attribute \in BOOLEAN /\ fails \in 0..MaxFails
    /\ written \in Seq(Writes) /\ applied \in Seq(Writes) /\ refused \subseteq Writes
    /\ \A k \in DOMAIN events : events[k].type \in WriteTypes => events[k].write \in Writes

\* A sequence over a set, and one more member of it.
LEMMA AppendIn ==
    ASSUME NEW S, NEW s \in Seq(S), NEW x \in S
    PROVE  Append(s, x) \in Seq(S)
OBVIOUS

\* An event whose handling wrote nothing down, or the writes it is about.
LEMMA CallbackRestOK ==
    ASSUME BuildInv, LinkInv, ChannelsOK, RestOK, Callback
    PROVE  RestOK'
<1>1. /\ events # <<>> /\ events' = Tail(events)
      /\ UNCHANGED <<pc, cached, attribute, written, applied>>
      /\ fails' = fails \/ (fails < MaxFails /\ fails' = fails + 1)
      /\ bonded' = bonded \/ bonded' = bonded \cup {c.phone : c \in connections}
  BY DEF Callback, OnConnected, OnDisconnected, OnSecurityRequest, OnRead, OnSubscribe, OnWrite,
         OnExecWrite, start_advertising, Handling, Done, CallbackUnchanged, CallbackKeeps, mainVars
<1>2. events \in Seq(Records)
  BY DEF BuildInv, BuildOK, BuildTypes
<1>3. /\ 1 \in DOMAIN events /\ Head(events) = events[1]
      /\ \A k \in DOMAIN Tail(events) : k + 1 \in DOMAIN events /\ Tail(events)[k] = events[k + 1]
  BY <1>1, <1>2, QueueTail
<1>4. \A k \in DOMAIN events' : events'[k].type \in WriteTypes => events'[k].write \in Writes
  BY <1>1, <1>3 DEF RestOK
<1>5. bonded' \subseteq Phones
  <2>1. \A c \in connections : c.phone \in Phones
    BY DEF LinkInv, LinkOK, LinkTypes
  <2> QED BY <1>1, <2>1 DEF RestOK
<1>6. fails' \in 0..MaxFails
  BY <1>1, GattAssumption DEF RestOK
<1>7. refused' \subseteq Writes
  <2>1. CASE OnWrite
    <3>1. events[1].write \in Writes
      BY <1>3, <2>1 DEF OnWrite, Handling, RestOK, WriteTypes
    <3> QED BY <1>3, <2>1, <3>1 DEF OnWrite, dispatch_write, RestOK
  <2>2. CASE OnExecWrite
    <3> DEFINE ws == {stored[a] : a \in {b \in Writable : handles[char_index(b)] # 0}} \ {Nothing}
    <3>1. ws \subseteq Writes
      BY DEF ChannelsOK
    <3>2. dispatch_write(ws)
      BY <2>2 DEF OnExecWrite
    <3> HIDE DEF ws
    <3> QED BY <3>1, <3>2 DEF dispatch_write, RestOK
  <2>3. CASE ~OnWrite /\ ~OnExecWrite
    <3>1. refused' = refused
      BY <2>3 DEF Callback, OnConnected, OnDisconnected, OnSecurityRequest, OnRead, OnSubscribe
    <3> QED BY <3>1 DEF RestOK
  <2> QED BY <2>1, <2>2, <2>3
<1> QED BY <1>1, <1>4, <1>5, <1>6, <1>7 DEF RestOK

\* A step that builds the service writes nothing down.
LEMMA BuildRestOK ==
    ASSUME BuildInv, RestOK, Build \/ EventFails
    PROVE  RestOK'
<1>1. /\ UNCHANGED <<bonded, pc, cached, attribute, written, applied, refused>>
      /\ fails' = fails \/ (fails < MaxFails /\ fails' = fails + 1)
  BY DEF Build, EventFails, OnRegistered, OnAdvConfigured, OnCreated, OnCharAdded, OnDescAdded, advance,
         add_char, AddToTable, start_advertising, stackVars, mainVars, phoneVars, obsVars
<1>2. fails' \in 0..MaxFails
  BY <1>1, GattAssumption DEF RestOK
<1>3. \A k \in DOMAIN events' : events'[k].type \in WriteTypes => events'[k].write \in Writes
  <2>1. CASE OnAdvConfigured
    BY <2>1 DEF OnAdvConfigured, RestOK
  <2>2. CASE ~OnAdvConfigured
    <3>1. /\ events # <<>>
          /\ \/ events' = Tail(events)
             \/ \E e \in Records : e.type \in StackTypes /\ events' = Append(Tail(events), e)
      BY <2>2, BuildStep
    <3>2. /\ Tail(events) \in Seq(Records)
          /\ \A k \in DOMAIN Tail(events) : k + 1 \in DOMAIN events /\ Tail(events)[k] = events[k + 1]
      BY <3>1, QueueTail DEF BuildInv, BuildOK, BuildTypes
    <3>3. \A k \in DOMAIN events' :
             \/ k \in DOMAIN Tail(events) /\ events'[k] = Tail(events)[k]
             \/ events'[k].type \in StackTypes
      BY <3>1, <3>2, QueueAppend
    <3> QED BY <3>2, <3>3 DEF RestOK, StackTypes, WriteTypes
  <2> QED BY <2>1, <2>2
<1> QED BY <1>1, <1>2, <1>3 DEF RestOK

\* What a phone does.
LEMMA PhoneRestOK ==
    ASSUME BuildInv, RestOK, NEW p \in Phones,
           \/ Connect(p) \/ Disconnect(p) \/ AskDescriptor(p) \/ AskPairing(p)
           \/ \E w \in Writes : WriteAttr(p, w)
    PROVE  RestOK'
<1>1. UNCHANGED <<bonded, pc, cached, attribute, applied, refused, fails>>
  BY DEF Connect, Disconnect, AskDescriptor, AskPairing, WriteAttr, PhoneUnchanged, mainVars, obsVars
<1>2. written' \in Seq(Writes)
  <2>1. written' = written \/ \E w \in Writes : written' = Append(written, w)
    BY DEF Connect, Disconnect, AskDescriptor, AskPairing, WriteAttr
  <2>2. written \in Seq(Writes)
    BY DEF RestOK
  <2> QED BY <2>1, <2>2, AppendIn
<1>3. events \in Seq(Records)
  BY DEF BuildInv, BuildOK, BuildTypes
<1>4. PICK e : PhoneEvent(e) /\ e.phone = p /\ events' = Append(events, e)
  BY PhonePuts
<1>5. e.type \in WriteTypes => e.write \in Writes
  BY <1>4 DEF PhoneEvent
<1>6. \A k \in DOMAIN events' : (k \in DOMAIN events /\ events'[k] = events[k]) \/ events'[k] = e
  <2>1. e \in Records
    BY <1>4 DEF PhoneEvent
  <2> QED BY <1>3, <1>4, <2>1, QueueAppend
<1>7. \A k \in DOMAIN events' : events'[k].type \in WriteTypes => events'[k].write \in Writes
  BY <1>5, <1>6 DEF RestOK
<1> QED BY <1>1, <1>2, <1>7 DEF RestOK

\* Every step.
LEMMA NextRestOK ==
    ASSUME BuildInv, LinkInv, ChannelsOK, RestOK, [Next]_vars
    PROVE  RestOK'
<1>1. CASE Build \/ EventFails
  BY <1>1, BuildRestOK
<1>2. CASE Callback
  BY <1>2, CallbackRestOK
<1>3. CASE MainLoop
  <2>1. UNCHANGED <<bonded, fails, written, refused, events>>
    BY <1>3 DEF MainLoop, DrainWifi, DrainCommands, NotifyLive, PublishIfChanged, MainUnchanged, stackVars
  <2>2. pc' \in {"wifi", "commands", "telemetry", "publish"}
    BY <1>3 DEF MainLoop, DrainWifi, DrainCommands, NotifyLive, PublishIfChanged, RestOK
  <2>3. cached' \in BOOLEAN /\ attribute' \in BOOLEAN
    BY <1>3 DEF MainLoop, DrainWifi, DrainCommands, NotifyLive, PublishIfChanged, RestOK
  <2>4. \/ applied' = applied
        \/ commands # <<>> /\ applied' = Append(applied, Head(commands))
        \/ wifi # <<>> /\ applied' = Append(applied, Head(wifi))
    BY <1>3 DEF MainLoop, DrainWifi, DrainCommands, NotifyLive, PublishIfChanged
  <2>5. (commands # <<>> => Head(commands) \in Writes) /\ (wifi # <<>> => Head(wifi) \in Writes)
    BY DEF ChannelsOK
  <2>6. applied' \in Seq(Writes)
    <3>1. applied \in Seq(Writes)
      BY DEF RestOK
    <3> QED BY <2>4, <2>5, <3>1, AppendIn
  <2> QED BY <2>1, <2>2, <2>3, <2>6 DEF RestOK
<1>4. CASE Phone
  BY <1>4, PhoneRestOK DEF Phone
<1>5. CASE UNCHANGED vars
  BY <1>5 DEF vars, stackVars, mainVars, phoneVars, obsVars, RestOK
<1> QED BY <1>1, <1>2, <1>3, <1>4, <1>5 DEF Next

\* Every variable keeps its type, the handles noted are entries of the stack's
\* table, a full channel takes nothing more (try_send), the list of connections
\* stays within its two places, and only a linked phone waits or is notified.
THEOREM TypesAndCapacities == Spec => []TypeOK
<1>1. Init => ChannelsOK
  <2> SUFFICES ASSUME Init PROVE ChannelsOK
    OBVIOUS
  <2>1. ready \in BOOLEAN /\ heard \subseteq linked /\ commands = <<>> /\ wifi = <<>>
    BY DEF Init
  <2>2. stored \in [Writable -> Writes \cup {Nothing}]
    BY DEF Init
  <2>3. commands \in Seq(Writes) /\ Len(commands) <= CMD_QUEUE /\ wifi \in Seq(Writes) /\ Len(wifi) <= WIFI_QUEUE
    BY <2>1, GattAssumption
  <2> QED BY <2>1, <2>2, <2>3 DEF ChannelsOK
<1>2. BuildInv /\ ChannelsOK /\ [Next]_vars => ChannelsOK'
  BY NextChannelsOK
<1>5. Init => RestOK
  <2> SUFFICES ASSUME Init PROVE RestOK
    OBVIOUS
  <2>1. DOMAIN events = {1} /\ events[1].type = "registered"
    BY DEF Init, StackEvent, Event
  <2>2. fails = 0 /\ written = <<>> /\ applied = <<>> /\ refused = {} /\ bonded = {} /\ pc = "wifi"
        /\ cached = FALSE /\ attribute = FALSE
    BY DEF Init
  <2>3. fails \in 0..MaxFails
    BY <2>2, GattAssumption
  <2>4. written \in Seq(Writes) /\ applied \in Seq(Writes)
    BY <2>2
  <2> QED BY <2>1, <2>2, <2>3, <2>4 DEF RestOK, WriteTypes
<1>6. BuildInv /\ LinkInv /\ ChannelsOK /\ RestOK /\ [Next]_vars => RestOK'
  BY NextRestOK
<1>3. ASSUME BuildInv, LinkInv, ChannelsOK, RestOK PROVE TypeOK
  <2>1. Cardinality(connections) <= MAX_CONNECTIONS
    <3>1. CASE connections = {}
      BY <3>1, FS_EmptySet DEF MAX_CONNECTIONS
    <3>2. CASE connections # {}
      <4>1. PICK c \in connections : TRUE
        BY <3>2
      <4>2. connections = {c}
        BY <1>3, <4>1 DEF LinkInv, LinkOK, OnePeer
      <4>3. Cardinality(connections) = 1
        BY <4>2, FS_Singleton
      <4> QED BY <4>3 DEF MAX_CONNECTIONS
    <3> QED BY <3>1, <3>2
  <2>2. /\ pending \in Chars /\ handles \in [Chars -> Nat] /\ cccd \in [Chars -> Nat]
        /\ table \in Seq({"char", "desc"} \X Chars) /\ events \in Seq(Records)
    BY <1>3 DEF BuildInv, BuildOK, BuildTypes
  <2>3. /\ linked \subseteq Phones /\ asking \subseteq linked /\ wants \in [Phones -> SUBSET Chars]
        /\ connections \subseteq [phone : Phones, subscribed : SUBSET Chars]
    BY <1>3 DEF LinkInv, LinkOK, LinkTypes
  <2>4. advParts \in 0..2 /\ gapEvents \in 0..2 /\ advertising \in {"off", "on", "refused"}
    BY <1>3 DEF LinkInv, RadioOK
  <2>5. handles \in [Chars -> 0..Len(table)] /\ cccd \in [Chars -> 0..Len(table)]
    <3>1. DOMAIN table = 1..Len(table) /\ Len(table) \in Nat
      BY <2>2
    <3>2. ASSUME NEW i \in Chars PROVE handles[i] \in 0..Len(table) /\ cccd[i] \in 0..Len(table)
      <4>1. /\ handles[i] # 0 => handles[i] \in 1..Len(table)
            /\ cccd[i] # 0 => cccd[i] \in 1..Len(table)
        BY <1>3, <3>1 DEF BuildInv, BuildOK, HandlesInTable
      <4> QED BY <3>1, <4>1
    <3> QED BY <2>2, <3>2
  <2>6. /\ ready \in BOOLEAN /\ heard \subseteq linked /\ stored \in [Writable -> Writes \cup {Nothing}]
        /\ commands \in Seq(Writes) /\ Len(commands) <= CMD_QUEUE
        /\ wifi \in Seq(Writes) /\ Len(wifi) <= WIFI_QUEUE
    BY <1>3 DEF ChannelsOK
  <2>7. /\ bonded \subseteq Phones /\ pc \in {"wifi", "commands", "telemetry", "publish"}
        /\ cached \in BOOLEAN /\ attribute \in BOOLEAN /\ fails \in 0..MaxFails
        /\ written \in Seq(Writes) /\ applied \in Seq(Writes) /\ refused \subseteq Writes
        /\ \A k \in DOMAIN events : events[k].type \in WriteTypes => events[k].write \in Writes
    BY <1>3, Zenon DEF RestOK
  <2> QED BY <2>1, <2>2, <2>3, <2>4, <2>5, <2>6, <2>7, Zenon DEF TypeOK
<1>4. BuildInv /\ LinkInv /\ ChannelsOK /\ RestOK => TypeOK
  BY <1>3
<1> QED BY <1>1, <1>2, <1>4, <1>5, <1>6, ServiceIsBuilt, OneLinkAtATime, PTL DEF Spec
=============================================================================
