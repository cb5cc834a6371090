----------------------------- MODULE AppSession -----------------------------
(***************************************************************************)
(* The app's side of the link: BLECentral and DeviceSession (ios/Sources/   *)
(* W230/BLE/BLECentral.swift, ios/Sources/W230/Model/DeviceSession.swift).  *)
(*                                                                          *)
(* CoreBluetooth calls back on its own; every delegate method starts a task *)
(* on the main actor, which runs them in the order of the callbacks, between*)
(* the user's actions.  One attribute stands for those the app subscribes   *)
(* to and reads again when notified (ota-status, wifi-status): its value is *)
(* a number, a notification carries a piece of it.  The waiting caller of a *)
(* read is an entry of pendingReads: a task group that times out waits for  *)
(* its other child before it throws, so a timed-out caller waits on, and    *)
(* then throws away what it gets.                                           *)
(***************************************************************************)
EXTENDS Integers, Sequences, FiniteSets, Functions

CONSTANTS
    Indicators,
    None,            \* not an indicator
    MaxValue, MaxKeyOffs, MaxUser, MaxTimeouts   \* bounds

ASSUME AppAssumption ==
    /\ None \notin Indicators
    /\ MaxValue \in Nat /\ MaxKeyOffs \in Nat /\ MaxUser \in Nat /\ MaxTimeouts \in Nat

VARIABLES
    \* the indicators
    power, built, value, subscribed,
    \* CoreBluetooth: connections, what the app asked of each, tasks for the main actor
    link, requests, tasks,
    \* BLECentral; characteristics are those of one indicator, or None's
    state, peripheral, wanted, userDisconnected, characteristics, pendingReads,
    \* DeviceSession
    shown,
    \* observation: a read was given up after its answer came; bounds
    gaveUp, keyOffs, user, timeouts

deviceVars == <<power, built, value, subscribed>>
centralVars == <<link, requests, tasks>>
bleVars == <<state, peripheral, wanted, userDisconnected, characteristics, pendingReads>>
obsVars == <<gaveUp, keyOffs, user, timeouts>>
vars == <<deviceVars, centralVars, bleVars, shown, obsVars>>

Init ==
    /\ power = [i \in Indicators |-> FALSE] /\ built = power /\ subscribed = power
    /\ value = [i \in Indicators |-> 0]
    /\ link = [i \in Indicators |-> "none"] /\ requests = [i \in Indicators |-> <<>>] /\ tasks = <<>>
    /\ state = "idle" /\ peripheral = None /\ wanted = None /\ userDisconnected = FALSE
    /\ characteristics = None /\ pendingReads = <<>>
    /\ shown = -1
    /\ gaveUp = FALSE /\ keyOffs = 0 /\ user = 0 /\ timeouts = 0

Task(t, i) == [type |-> t, from |-> i, value |-> 0, whole |-> FALSE]
Value(i, whole) == [type |-> "value", from |-> i, value |-> value'[i], whole |-> whole]
Calls(t, i) == tasks' = Append(tasks, Task(t, i))

-----------------------------------------------------------------------------
(* The indicators and CoreBluetooth.                                        *)

AppUnchanged == UNCHANGED <<bleVars, shown, gaveUp, user, timeouts>>

KeyOn(i) ==
    /\ ~power[i] /\ power' = [power EXCEPT ![i] = TRUE]
    /\ AppUnchanged /\ UNCHANGED <<built, value, subscribed, centralVars, keyOffs>>

Build(i) ==
    /\ power[i] /\ ~built[i] /\ built' = [built EXCEPT ![i] = TRUE]
    /\ AppUnchanged /\ UNCHANGED <<power, value, subscribed, centralVars, keyOffs>>

\* The phone does not notice yet.
KeyOff(i) ==
    /\ power[i] /\ keyOffs < MaxKeyOffs /\ keyOffs' = keyOffs + 1
    /\ power' = [power EXCEPT ![i] = FALSE] /\ built' = [built EXCEPT ![i] = FALSE]
    /\ link' = IF link[i] = "up" THEN [link EXCEPT ![i] = "lost"] ELSE link
    /\ AppUnchanged /\ UNCHANGED <<value, subscribed, requests, tasks>>

\* The status changes; who has subscribed is notified.
Changes(i) ==
    /\ power[i] /\ value[i] < MaxValue /\ value' = [value EXCEPT ![i] = @ + 1]
    /\ tasks' = IF subscribed[i] /\ link[i] = "up" THEN Append(tasks, Value(i, FALSE)) ELSE tasks
    /\ AppUnchanged /\ UNCHANGED <<power, built, subscribed, link, requests, keyOffs>>

\* A pending connection is made as soon as the indicator advertises.
LinkUp(i) ==
    /\ link[i] = "pending" /\ power[i]
    /\ link' = [link EXCEPT ![i] = "up"] /\ Calls("didConnect", i)
    /\ AppUnchanged /\ UNCHANGED <<deviceVars, requests, keyOffs>>

LinkFails(i) ==
    /\ link[i] = "pending" /\ keyOffs < MaxKeyOffs /\ keyOffs' = keyOffs + 1
    /\ link' = [link EXCEPT ![i] = "none"] /\ Calls("didFailToConnect", i)
    /\ AppUnchanged /\ UNCHANGED <<deviceVars, requests>>

LinkDown(i) ==
    /\ link[i] \in {"closing", "lost"}
    /\ link' = [link EXCEPT ![i] = "none"] /\ Calls("didDisconnect", i)
    /\ requests' = [requests EXCEPT ![i] = <<>>] /\ subscribed' = [subscribed EXCEPT ![i] = FALSE]
    /\ AppUnchanged /\ UNCHANGED <<power, built, value, keyOffs>>

\* The indicator serves what it is asked, one after the other.
Serve(i) ==
    /\ link[i] = "up" /\ requests[i] # <<>>
    /\ requests' = [requests EXCEPT ![i] = Tail(@)] /\ UNCHANGED value
    /\ CASE Head(requests[i]) = "subscribe" ->
              subscribed' = [subscribed EXCEPT ![i] = TRUE] /\ UNCHANGED tasks
         [] Head(requests[i]) = "read" ->
              tasks' = Append(tasks, Value(i, TRUE)) /\ UNCHANGED subscribed
         [] Head(requests[i]) = "discover" ->
              tasks' = (IF built[i] THEN Append(tasks, Task("characteristics", i)) ELSE tasks)
              /\ UNCHANGED subscribed
    /\ AppUnchanged /\ UNCHANGED <<power, built, link, keyOffs>>

-----------------------------------------------------------------------------
(* BLECentral and DeviceSession.                                            *)

\* CBPeripheral.state is connected.
Linked(i) == link[i] \in {"up", "lost"}

isConnected == state = "connected" /\ peripheral # None /\ Linked(peripheral)

\* central.connect: made when the indicator is there; for one that is
\* connected CoreBluetooth calls back at once.
CentralConnect(i) ==
    /\ link' = IF link[i] = "none" THEN [link EXCEPT ![i] = "pending"] ELSE link
    /\ tasks' = IF Linked(i) THEN Append(tasks, Task("didConnect", i)) ELSE tasks

\* User and views: connect, also after a scan or when the app starts.
connect(i) ==
    /\ user < MaxUser /\ user' = user + 1
    /\ userDisconnected' = FALSE /\ wanted' = i /\ peripheral' = i /\ state' = "connecting"
    /\ CentralConnect(i)
    /\ UNCHANGED <<deviceVars, requests, characteristics, pendingReads, shown, gaveUp, keyOffs, timeouts>>

\* Also without a peripheral.  The waiting callers get an error at once.
disconnect ==
    /\ user < MaxUser /\ user' = user + 1
    /\ userDisconnected' = TRUE /\ wanted' = None /\ pendingReads' = <<>>
    /\ link' = [i \in Indicators |->
                  CASE i = peripheral /\ Linked(i) -> "closing"
                    [] i = peripheral /\ link[i] = "pending" -> "none"
                    [] OTHER -> link[i]]
    /\ \/ UNCHANGED tasks
       \/ peripheral # None /\ link[peripheral] = "pending" /\ Calls("didDisconnect", peripheral)
    /\ UNCHANGED <<deviceVars, requests, state, peripheral, characteristics, shown, gaveUp, keyOffs, timeouts>>

\* startScan, in any state (the button asks for none), and stopScan.  They change
\* what the app shows, not its connections: a link stays up behind a scan.
Scan ==
    /\ user < MaxUser /\ user' = user + 1
    /\ state' = "scanning" \/ (state = "scanning" /\ state' = "idle")
    /\ UNCHANGED <<deviceVars, centralVars, peripheral, wanted, userDisconnected, characteristics,
                   pendingReads, shown, gaveUp, keyOffs, timeouts>>

Ask(what) == requests' = [requests EXCEPT ![peripheral] = @ \o what]
Caller == [timedOut |-> FALSE]

\* refresh, from a button or the like.
Refresh ==
    /\ isConnected /\ characteristics # None /\ user < MaxUser /\ user' = user + 1
    /\ pendingReads' = Append(pendingReads, Caller) /\ Ask(<<"read">>)
    /\ UNCHANGED <<deviceVars, link, tasks, state, peripheral, wanted, userDisconnected, characteristics,
                   shown, gaveUp, keyOffs, timeouts>>

\* The 8 s of a read are over.
TimeOut ==
    /\ timeouts < MaxTimeouts /\ timeouts' = timeouts + 1
    /\ \E k \in DOMAIN pendingReads :
         ~pendingReads[k].timedOut /\ pendingReads' = [pendingReads EXCEPT ![k].timedOut = TRUE]
    /\ UNCHANGED <<deviceVars, centralVars, state, peripheral, wanted, userDisconnected, characteristics,
                   shown, gaveUp, keyOffs, user>>

Handling(t) == tasks # <<>> /\ Head(tasks).type = t
From == Head(tasks).from
Done == tasks' = Tail(tasks)
HandlerUnchanged == UNCHANGED <<deviceVars, keyOffs, user, timeouts>>

didConnect ==
    /\ Handling("didConnect") /\ Done
    /\ characteristics' = None
    /\ requests' = IF Linked(From) THEN [requests EXCEPT ![From] = Append(@, "discover")] ELSE requests
    /\ HandlerUnchanged
    /\ UNCHANGED <<link, state, peripheral, wanted, userDisconnected, pendingReads, shown, gaveUp>>

\* Mutant: reads first, subscribes then.
onReadyReadsFirst == <<"read", "subscribe">>

\* What onReady asks for: notifications, then a value.
onReady == <<"subscribe", "read">>

\* didDiscoverCharacteristicsFor, with onReady: setNotify needs a peripheral,
\* refreshAll a connected one.
didDiscover ==
    /\ Handling("characteristics") /\ Done
    /\ characteristics' = From /\ state' = "connected"
    /\ IF peripheral # None /\ Linked(peripheral)
       THEN Ask(onReady) /\ pendingReads' = Append(pendingReads, Caller)
       ELSE UNCHANGED <<requests, pendingReads>>
    /\ HandlerUnchanged
    /\ UNCHANGED <<link, peripheral, wanted, userDisconnected, shown, gaveUp>>

Reopen(i) == link' = IF link[i] = "none" THEN [link EXCEPT ![i] = "pending"] ELSE link

\* Mutant: a failed connection is not tried again.
didFailToConnectGivesUp ==
    /\ Handling("didFailToConnect") /\ Done
    /\ pendingReads' = <<>> /\ state' = "disconnected"
    /\ HandlerUnchanged
    /\ UNCHANGED <<link, requests, peripheral, wanted, userDisconnected, characteristics, shown, gaveUp>>

didFailToConnect ==
    /\ Handling("didFailToConnect") /\ Done
    /\ pendingReads' = <<>>
    /\ IF userDisconnected THEN state' = "disconnected" /\ UNCHANGED link
       ELSE state' = "connecting" /\ Reopen(From)
    /\ HandlerUnchanged
    /\ UNCHANGED <<requests, peripheral, wanted, userDisconnected, characteristics, shown, gaveUp>>

\* Mutant: callers wait on when the link is lost.
didDisconnectKeepsReads ==
    /\ Handling("didDisconnect") /\ Done
    /\ characteristics' = None /\ UNCHANGED pendingReads
    /\ IF ~userDisconnected /\ wanted = From
       THEN state' = "connecting" /\ Reopen(From) /\ UNCHANGED peripheral
       ELSE state' = "disconnected" /\ peripheral' = None /\ UNCHANGED link
    /\ HandlerUnchanged /\ UNCHANGED <<requests, wanted, userDisconnected, shown, gaveUp>>

\* Mutant: reconnects also when the user has disconnected.
didDisconnectAlways ==
    /\ Handling("didDisconnect") /\ Done
    /\ characteristics' = None /\ pendingReads' = <<>>
    /\ state' = "connecting" /\ Reopen(From) /\ UNCHANGED peripheral
    /\ HandlerUnchanged /\ UNCHANGED <<requests, wanted, userDisconnected, shown, gaveUp>>

\* Key-off: a connection stays pending, unless it was the user.
didDisconnect ==
    /\ Handling("didDisconnect") /\ Done
    /\ characteristics' = None /\ pendingReads' = <<>>
    /\ IF ~userDisconnected /\ wanted = From
       THEN state' = "connecting" /\ Reopen(From) /\ UNCHANGED peripheral
       ELSE state' = "disconnected" /\ peripheral' = None /\ UNCHANGED link
    /\ HandlerUnchanged /\ UNCHANGED <<requests, wanted, userDisconnected, shown, gaveUp>>

\* didUpdateValueFor while a caller waits: the first gets the value, and shows
\* it if it decodes and the caller's time is not over.
AnswerCaller ==
    /\ Handling("value") /\ Done /\ pendingReads # <<>>
    /\ pendingReads' = Tail(pendingReads)
    /\ LET kept == ~Head(pendingReads).timedOut /\ Head(tasks).whole
       IN  /\ shown' = IF kept THEN Head(tasks).value ELSE shown
           /\ gaveUp' = IF kept THEN FALSE ELSE gaveUp \/ Head(pendingReads).timedOut
    /\ HandlerUnchanged
    /\ UNCHANGED <<link, requests, state, peripheral, wanted, userDisconnected, characteristics>>

\* Otherwise it is a notification: read again.
onNotification ==
    /\ Handling("value") /\ Done /\ pendingReads = <<>>
    /\ IF isConnected /\ characteristics # None
       THEN Ask(<<"read">>) /\ pendingReads' = <<Caller>>
       ELSE UNCHANGED <<requests, pendingReads>>
    /\ HandlerUnchanged
    /\ UNCHANGED <<link, state, peripheral, wanted, userDisconnected, characteristics, shown, gaveUp>>

-----------------------------------------------------------------------------
MainActor == didConnect \/ didDiscover \/ didFailToConnect \/ didDisconnect \/ AnswerCaller \/ onNotification
User == disconnect \/ Scan \/ Refresh \/ \E i \in Indicators : connect(i)
Bluetooth == \E i \in Indicators : LinkUp(i) \/ LinkDown(i)
Riding == \E i \in Indicators : KeyOn(i) \/ KeyOff(i) \/ Changes(i) \/ LinkFails(i)

Next == MainActor \/ User \/ TimeOut \/ Bluetooth \/ Riding \/ \E i \in Indicators : Build(i) \/ Serve(i)

Spec == Init /\ [][Next]_vars

\* The phone's side: the main actor runs its tasks, CoreBluetooth makes and
\* loses connections, timers fire.
PhoneFairness == WF_vars(MainActor) /\ WF_vars(Bluetooth) /\ WF_vars(TimeOut)

\* The indicator: it finishes booting and serves what it is asked.
DeviceFairness == \A i \in Indicators : WF_vars(Build(i)) /\ WF_vars(Serve(i))

PhoneSpec == Spec /\ PhoneFairness
FairSpec == PhoneSpec /\ DeviceFairness

-----------------------------------------------------------------------------
(* Properties.                                                              *)

Kinds == {"subscribe", "read", "discover"}
Tasks == [type : {"didConnect", "didFailToConnect", "didDisconnect", "characteristics", "value"},
          from : Indicators, value : 0..MaxValue, whole : BOOLEAN]
Callers == [timedOut : BOOLEAN]
Requests == [Indicators -> Seq(Kinds)]
LinkStates == {"none", "pending", "up", "lost", "closing"}

\* The type invariant.  A status only grows, so one that is on its way, or shown,
\* is one an indicator had if it is not above the indicator's own.
TypeOK ==
    /\ {power, built, subscribed} \subseteq [Indicators -> BOOLEAN]
    /\ value \in [Indicators -> 0..MaxValue]
    /\ link \in [Indicators -> LinkStates] /\ requests \in Requests /\ tasks \in Seq(Tasks)
    /\ \A k \in DOMAIN tasks : tasks[k].value <= value[tasks[k].from]
    /\ state \in {"idle", "scanning", "connecting", "connected", "disconnected"}
    /\ {peripheral, wanted, characteristics} \subseteq Indicators \cup {None}
    /\ userDisconnected \in BOOLEAN /\ pendingReads \in Seq(Callers)
    /\ shown = -1 \/ \E i \in Indicators : shown \in 0..value[i]
    /\ gaveUp \in BOOLEAN /\ keyOffs \in 0..MaxKeyOffs /\ user \in 0..MaxUser /\ timeouts \in 0..MaxTimeouts

Queued(t) == \E k \in DOMAIN tasks : tasks[k].type = t

ReadsAnswered == {k \in DOMAIN tasks : tasks[k].type = "value" /\ tasks[k].whole}
ReadsAsked == {x \in UNION {{i} \X DOMAIN requests[i] : i \in Indicators} : requests[x[1]][x[2]] = "read"}

\* A caller that waits for a read will be answered or told: for each there is a
\* request or an answer on the way (it may be another indicator's: the callers
\* are kept by characteristic), or the loss of a link is.  No continuation of an
\* earlier connection is left behind to take the answers of the next.
ReadsAreAnswerable ==
    \/ pendingReads = <<>> \/ Queued("didDisconnect")
    \/ Len(pendingReads) <= Cardinality(ReadsAnswered) + Cardinality(ReadsAsked)

\* The app never goes back to an indicator the user disconnected from.
UserDisconnectHolds == userDisconnected => \A i \in Indicators : link[i] # "pending"

\* Notifications are only a hint, and one that comes while a read is on its way
\* is taken for the answer; still, on a link that stays up the app ends up
\* showing the indicator's value, unless it gave up on an answer as too late.
StatusCatchesUp ==
    \A i \in Indicators :
        <>[](isConnected /\ peripheral = i) => <>[](shown = value[i] \/ gaveUp)

\* "keep a pending connect so it comes back by itself at the next key-on": the
\* indicator the user chose, once its service is built and if the phone was not
\* there before, gets connected as long as it has power.
ComesBack ==
    \A i \in Indicators :
        (wanted = i /\ built[i] /\ link[i] # "up") ~> (isConnected \/ wanted # i \/ ~power[i])

-----------------------------------------------------------------------------
(* Promises the code does not keep; no run checks them.                     *)

\* "one connected peripheral": when the app says it is connected, and the user
\* has not ended it, it has a peripheral, and the characteristics it reads are
\* not another's.  With two indicators the late disconnection of one takes away
\* the other.
ConnectedIsUsable ==
    state = "connected" /\ ~userDisconnected => peripheral # None /\ characteristics \in {peripheral, None}

\* A scan does not end the session: the link stays, but the state is "scanning",
\* then "idle", until the user connects again or the link is lost.
ScanKeepsSession == [][Scan /\ isConnected => isConnected']_vars

\* "The gear indicator did not answer in time.": a read whose time is over ends.
TimeoutEnds ==
    (\E k \in DOMAIN pendingReads : pendingReads[k].timedOut)
        ~> ~(\E k \in DOMAIN pendingReads : pendingReads[k].timedOut)
=============================================================================
