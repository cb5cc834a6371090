---------------------------- MODULE PollLoopProofs ----------------------------
(***************************************************************************)
(* Proofs about the poll loop and its frame channel, for every capacity of  *)
(* the channel, every refresh interval and every estimator.                 *)
(***************************************************************************)
EXTENDS PollLoop, TLAPS

-----------------------------------------------------------------------------
(* The channel.                                                             *)

\* What the frames are does not matter here, only that they form a sequence.
ChannelOK == \E S : frames \in Seq(S)

\* After try_send the channel is not empty: the frame is in it, or it was full.
LEMMA TrySendResult ==
    ASSUME NEW S, NEW q \in Seq(S), NEW f
    PROVE  /\ \E T : TrySend(q, f) \in Seq(T)
           /\ TrySend(q, f) # <<>>
           /\ Len(q) <= LED_QUEUE => Len(TrySend(q, f)) <= LED_QUEUE
<1>1. q \in Seq(S \cup {f}) /\ f \in S \cup {f} /\ Len(q) \in Nat
  OBVIOUS
<1>2. CASE Len(q) < LED_QUEUE
  <2>1. /\ TrySend(q, f) = Append(q, f)
        /\ Append(q, f) \in Seq(S \cup {f}) /\ Len(Append(q, f)) = Len(q) + 1
    BY <1>1, <1>2 DEF TrySend
  <2> QED BY <1>1, <1>2, <2>1, PollLoopAssumption
<1>3. CASE ~(Len(q) < LED_QUEUE)
  BY <1>1, <1>3, PollLoopAssumption DEF TrySend
<1> QED BY <1>2, <1>3

\* Taking a frame out of the channel leaves a shorter one.
LEMMA TailResult ==
    ASSUME NEW S, NEW q \in Seq(S), q # <<>>
    PROVE  Tail(q) \in Seq(S) /\ Len(Tail(q)) = Len(q) - 1
OBVIOUS

-----------------------------------------------------------------------------
(* The inductive invariant.                                                 *)

\* Where the loop is in its refresh interval bounds how long a cycle can have
\* left the matrix alone: the cycle with number 0 always sends.
StaleSinceRefresh ==
    /\ cycle \in 0..(REFRESH_EVERY - 1)
    /\ staleCycles \in Nat
    /\ staleCycles <= IF cycle = 0 THEN REFRESH_EVERY - 1 ELSE cycle - 1

IInv == ChannelOK /\ Len(frames) <= LED_QUEUE /\ StaleSinceRefresh

\* Before the first cycle the channel is empty and nothing is stale.
LEMMA InitIInv == Init => IInv
<1> SUFFICES ASSUME Init PROVE IInv
  OBVIOUS
<1>1. frames = <<>> /\ cycle = 0 /\ staleCycles = 0
  BY DEF Init
<1>2. <<>> \in Seq({}) /\ Len(<<>>) = 0
  OBVIOUS
<1> QED BY <1>1, <1>2, PollLoopAssumption DEF IInv, ChannelOK, StaleSinceRefresh

\* An action that leaves the refresh interval and the count alone has only the
\* channel to answer for: it keeps it, adds a frame to it or takes one out.
LEMMA ChannelIInv ==
    ASSUME IInv, UNCHANGED <<cycle, staleCycles>>,
           \/ frames' = frames
           \/ \E f : frames' = TrySend(frames, f)
           \/ frames # <<>> /\ frames' = Tail(frames)
    PROVE  IInv'
<1>1. StaleSinceRefresh'
  BY DEF IInv, StaleSinceRefresh
<1> PICK S : frames \in Seq(S)
  BY DEF IInv, ChannelOK
<1>2. CASE frames' = frames
  BY <1>1, <1>2 DEF IInv, ChannelOK
<1>3. CASE \E f : frames' = TrySend(frames, f)
  BY <1>1, <1>3, TrySendResult DEF IInv, ChannelOK
<1>4. CASE frames # <<>> /\ frames' = Tail(frames)
  <2>1. frames' \in Seq(S) /\ Len(frames') = Len(frames) - 1 /\ Len(frames) \in Nat
    BY <1>4, TailResult
  <2> QED BY <1>1, <2>1, PollLoopAssumption DEF IInv, ChannelOK
<1> QED BY <1>2, <1>3, <1>4

\* The number of the next cycle, cycle.wrapping_add(1) as far as the loop looks at it.
LEMMA NextCycle ==
    ASSUME NEW n \in Nat \ {0}, NEW c \in 0..(n - 1)
    PROVE  (c + 1) % n = IF c = n - 1 THEN 0 ELSE c + 1
<1>1. CASE c = n - 1
  BY <1>1
<1>2. CASE c # n - 1
  BY <1>2
<1> QED BY <1>1, <1>2

\* The end of a cycle: number 0 sends and starts the count again, every other
\* one adds at most one to it and moves on in the refresh interval.
LEMMA FinishIInv == IInv /\ Finish => IInv'
<1> SUFFICES ASSUME IInv, Finish PROVE IInv'
  OBVIOUS
<1> PICK S : frames \in Seq(S)
  BY DEF IInv, ChannelOK
<1>1. /\ frames' = frames \/ \E f : frames' = TrySend(frames, f)
      /\ cycle = 0 => \E f : frames' = TrySend(frames, f)
      /\ staleCycles' = 0 \/ (staleCycles' = staleCycles + 1 /\ frames' = <<>>)
  BY Zenon DEF Finish, RefreshDue
<1>2. ChannelOK' /\ Len(frames') <= LED_QUEUE /\ (cycle = 0 => frames' # <<>>)
  BY <1>1, TrySendResult DEF IInv, ChannelOK
<1>3. cycle' = IF cycle = REFRESH_EVERY - 1 THEN 0 ELSE cycle + 1
  BY NextCycle, PollLoopAssumption DEF Finish, IInv, StaleSinceRefresh
<1>4. CASE staleCycles' = 0
  BY <1>2, <1>3, <1>4, PollLoopAssumption DEF IInv, StaleSinceRefresh
<1>5. CASE staleCycles' = staleCycles + 1 /\ cycle # 0
  BY <1>2, <1>3, <1>5, PollLoopAssumption DEF IInv, StaleSinceRefresh
<1> QED BY <1>1, <1>2, <1>4, <1>5

\* Every step of the loop, the LED thread and the world keeps the invariant.
LEMMA NextIInv == IInv /\ [Next]_vars => IInv'
<1> SUFFICES ASSUME IInv, [Next]_vars PROVE IInv'
  OBVIOUS
<1>1. CASE TopWhileWriting
  BY <1>1, ChannelIInv DEF TopWhileWriting, PushIfChanged
<1>2. CASE TopAfterFailure
  BY <1>2, ChannelIInv DEF TopAfterFailure, PushIfChanged
<1>3. CASE Top
  BY <1>3, ChannelIInv DEF Top
<1>4. CASE ReadRpm \/ ReadSpeed
  <2>1. neutral_tick /\ UNCHANGED <<cycle, staleCycles>>
    BY <1>4 DEF ReadRpm, ReadSpeed
  <2>2. frames' = frames \/ \E f : frames' = TrySend(frames, f)
    BY <2>1, Zenon DEF neutral_tick
  <2> QED BY <2>1, <2>2, ChannelIInv
<1>5. CASE Finish
  BY <1>5, FinishIInv
<1>6. CASE Restart
  <2>1. frames' = <<>> /\ cycle' = 0 /\ staleCycles' = 0
    BY <1>6 DEF Restart, Boot
  <2>2. <<>> \in Seq({}) /\ Len(<<>>) = 0
    OBVIOUS
  <2> QED BY <2>1, <2>2, PollLoopAssumption DEF IInv, ChannelOK, StaleSinceRefresh
<1>7. CASE Led
  BY <1>7, ChannelIInv DEF Led, LedWrite, LedWriteFails
<1>8. CASE Shift \/ FlashEnds \/ OtaWorker \/ UNCHANGED vars
  BY <1>8, ChannelIInv DEF Shift, FlashEnds, OtaWorker, vars
<1> QED
  BY <1>1, <1>2, <1>3, <1>4, <1>5, <1>6, <1>7, <1>8 DEF Next, Loop

-----------------------------------------------------------------------------
(* The theorems.                                                            *)

\* The invariant holds throughout: the channel keeps its capacity, and the
\* refresh interval bounds the stale cycles.
THEOREM LoopInvariant == Spec => []IInv
BY InitIInv, NextIInv, PTL DEF Spec

\* However the wire moves between the reads, and whatever is lost at a full
\* channel or in a failed write, an N that neutral_tick left on the matrix is
\* followed by a frame before REFRESH_EVERY cycles have ended with it.
THEOREM StaleNIsBounded == Spec => []StaleNBounded
<1>1. IInv => StaleNBounded
  BY PollLoopAssumption DEF IInv, StaleSinceRefresh, StaleNBounded
<1> QED BY <1>1, LoopInvariant, PTL
=============================================================================
