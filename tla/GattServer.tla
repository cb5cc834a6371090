----------------------------- MODULE GattServer -----------------------------
(***************************************************************************)
(* The Bluetooth server of firmware/esp32/src/ble.rs, the phones, and the   *)
(* places in the main loop (firmware/esp32/src/main.rs) that publish values *)
(* and take commands.                                                       *)
(*                                                                          *)
(* Bluedroid is modelled as far as the code relies on it: it answers each   *)
(* call with an event, it stores what a phone writes in the attribute and   *)
(* acknowledges it by itself (descriptors excepted), and it runs the        *)
(* server's callback on one event after the other, some time after they     *)
(* happened.                                                                *)
(***************************************************************************)
EXTENDS Integers, Sequences, FiniteSets, Functions

CONSTANTS
    CHARS,       \* the characteristics in order: attr, notify
    Phones,
    Writes,      \* what the app writes, each at most once: id, attr, ok (decodes)
    CMD_QUEUE, WIFI_QUEUE,   \* capacities of the channels (8 and 2)
    MaxBehind,   \* most events of phones the callback may be behind
    Overlap,     \* may a phone write again before the callback has had its last?
    MaxFails     \* bound on failures of the stack

ASSUME GattAssumption ==
    /\ CHARS \in Seq([attr : STRING, notify : BOOLEAN])
    /\ {"Live", "Command", "WifiConfig"} \subseteq {CHARS[i].attr : i \in DOMAIN CHARS}
    /\ "stack" \notin Phones
    /\ Writes \subseteq [id : STRING, attr : {"Command", "WifiConfig"}, ok : BOOLEAN]
    /\ CMD_QUEUE \in Nat \ {0} /\ WIFI_QUEUE \in Nat \ {0} /\ MaxBehind \in Nat \ {0}
    /\ Overlap \in BOOLEAN /\ MaxFails \in Nat

VARIABLES
    \* the stack: its attribute table, events not yet handled, the value of the
    \* two writable attributes, the links, the radio ("refused" when it did not
    \* start), bonds
    table, events, stored, linked, advertising, gapEvents, bonded,
    \* State of ble.rs
    pending, handles, cccd, ready, advParts,
    connections,    \* each with its phone and what that has subscribed to
    \* the channels to the main loop
    commands, wifi,
    \* the main loop: where it is; a slowly published value that does not
    \* change, as the settings: is it in the cache, is it in the attribute
    pc, cached, attribute,
    \* the phones: whose request waits for an answer, what they subscribed to
    \* and were sent; writes in their order, refused and applied
    asking, wants, heard, written, refused, applied, fails

stackVars == <<table, stored, linked, advertising, gapEvents, bonded>>
buildVars == <<pending, handles, cccd, ready, advParts>>
channels == <<commands, wifi>>
mainVars == <<pc, cached, attribute>>
phoneVars == <<asking, wants, heard, written>>
obsVars == <<refused, applied, fails>>
vars == <<stackVars, events, buildVars, connections, channels, mainVars, phoneVars, obsVars>>

Chars == DOMAIN CHARS
char_index(a) == CHOOSE i \in Chars : CHARS[i].attr = a
Writable == {"Command", "WifiConfig"}
Nothing == [id |-> "nothing", attr |-> "none", ok |-> FALSE]

MAX_CONNECTIONS == 2

Event(t, p, h, w) == [type |-> t, phone |-> p, handle |-> h, write |-> w]
StackEvent(t, h) == Event(t, "stack", h, Nothing)

StackTypes == {"registered", "created", "charAdded", "descAdded"}
DescTypes == {"subscribe", "unsubscribe", "read"}
WriteTypes == {"write", "exec"}
PhoneTypes == {"connected", "disconnected", "pair"} \cup DescTypes \cup WriteTypes

Records == [type : StackTypes \cup PhoneTypes, phone : Phones \cup {"stack"},
            handle : Nat, write : Writes \cup {Nothing}]

\* Ble::start, up to register_app.
Init ==
    /\ table = <<>> /\ events = <<StackEvent("registered", 0)>>
    /\ stored = [a \in Writable |-> Nothing]
    /\ linked = {} /\ advertising = "off" /\ gapEvents = 0 /\ bonded = {}
    /\ pending = 1 /\ handles = [i \in Chars |-> 0] /\ cccd = [i \in Chars |-> 0]
    /\ ready = FALSE /\ advParts = 0 /\ connections = {}
    /\ commands = <<>> /\ wifi = <<>>
    /\ pc = "wifi" /\ cached = FALSE /\ attribute = FALSE
    /\ asking = {} /\ wants = [p \in Phones |-> {}] /\ heard = {}
    /\ written = <<>> /\ refused = {} /\ applied = <<>> /\ fails = 0

-----------------------------------------------------------------------------
(* Building the service: each step is started by the event of the last.     *)

Handling(t) == events # <<>> /\ Head(events).type = t

\* The event reports a failure (the stack added nothing: handle 0): the
\* callback returns, and nothing follows.
EventFails ==
    /\ \/ /\ Handling("registered") \/ Handling("created")
          /\ fails < MaxFails /\ fails' = fails + 1
       \/ /\ Handling("charAdded") \/ Handling("descAdded")
          /\ Head(events).handle = 0 /\ UNCHANGED fails
    /\ events' = Tail(events)
    /\ UNCHANGED <<stackVars, buildVars, connections, channels, mainVars, phoneVars, refused, applied>>

\* create_service: both parts of the advertisement, then the service.
OnRegistered ==
    /\ Handling("registered")
    /\ gapEvents' = 2
    /\ events' = Append(Tail(events), StackEvent("created", 0))
    /\ UNCHANGED <<table, stored, linked, advertising, bonded, buildVars, connections, channels,
                   mainVars, phoneVars, obsVars>>

\* The stack starts advertising, or refuses to; nothing tries again.
start_advertising ==
    \/ advertising' = "on" /\ UNCHANGED fails
    \/ advertising' = "refused" /\ fails < MaxFails /\ fails' = fails + 1

\* The radio starts when the second part is configured; a part whose event
\* reports a failure does not count.
OnAdvConfigured ==
    /\ gapEvents > 0 /\ gapEvents' = gapEvents - 1
    /\ \/ /\ advParts' = advParts + 1
          /\ IF advParts' = 2 THEN start_advertising ELSE UNCHANGED <<advertising, fails>>
       \/ fails < MaxFails /\ fails' = fails + 1 /\ UNCHANGED <<advParts, advertising>>
    /\ UNCHANGED <<table, stored, linked, bonded, events, pending, handles, cccd, ready,
                   connections, channels, mainVars, phoneVars, refused, applied>>

\* The stack gives the next handle to what is added, or cannot add it, and
\* reports it.
AddToTable(what, i, event) ==
    \/ /\ table' = Append(table, <<what, i>>)
       /\ events' = Append(Tail(events), StackEvent(event, Len(table) + 1))
       /\ UNCHANGED fails
    \/ /\ fails < MaxFails /\ fails' = fails + 1
       /\ events' = Append(Tail(events), StackEvent(event, 0))
       /\ UNCHANGED table

add_char(i) == pending' = i /\ AddToTable("char", i, "charAdded")

\* The next characteristic, or the service is complete.
advance(i) ==
    IF i < Len(CHARS) THEN add_char(i + 1) /\ UNCHANGED ready
    ELSE ready' = TRUE /\ events' = Tail(events) /\ UNCHANGED <<table, pending, fails>>

OnCreated ==
    /\ Handling("created") /\ add_char(1)
    /\ UNCHANGED <<stored, linked, advertising, gapEvents, bonded, handles, cccd, ready, advParts,
                   connections, channels, mainVars, phoneVars, refused, applied>>

\* Mutant: the next characteristic is not made to wait for the descriptor.
OnCharAddedAtOnce ==
    /\ Handling("charAdded") /\ Head(events).handle # 0
    /\ handles' = [handles EXCEPT ![pending] = Head(events).handle]
    /\ IF CHARS[pending].notify /\ pending < Len(CHARS)
       THEN /\ table' = table \o <<<<"desc", pending>>, <<"char", pending + 1>>>>
            /\ events' = Tail(events) \o <<StackEvent("descAdded", Len(table) + 1),
                                           StackEvent("charAdded", Len(table) + 2)>>
            /\ pending' = pending + 1 /\ UNCHANGED <<ready, fails>>
       ELSE advance(pending)
    /\ UNCHANGED <<stored, linked, advertising, gapEvents, bonded, cccd, advParts, connections,
                   channels, mainVars, phoneVars, refused, applied>>

\* A descriptor comes under the characteristic added last.
OnCharAdded ==
    /\ Handling("charAdded") /\ Head(events).handle # 0
    /\ handles' = [handles EXCEPT ![pending] = Head(events).handle]
    /\ IF CHARS[pending].notify
       THEN AddToTable("desc", pending, "descAdded") /\ UNCHANGED <<pending, ready>>
       ELSE advance(pending)
    /\ UNCHANGED <<stored, linked, advertising, gapEvents, bonded, cccd, advParts, connections,
                   channels, mainVars, phoneVars, refused, applied>>

OnDescAdded ==
    /\ Handling("descAdded") /\ Head(events).handle # 0
    /\ cccd' = [cccd EXCEPT ![pending] = Head(events).handle]
    /\ advance(pending)
    /\ UNCHANGED <<stored, linked, advertising, gapEvents, bonded, handles, advParts, connections,
                   channels, mainVars, phoneVars, refused, applied>>

-----------------------------------------------------------------------------
(* The phones. A phone has one request out at a time; the stack answers all  *)
(* but requests on descriptors and for pairing, which wait for the callback. *)

PhoneEvents == {k \in DOMAIN events : events[k].phone \in Phones}

Happens(e) == Cardinality(PhoneEvents) < MaxBehind /\ events' = Append(events, e)

PhoneUnchanged == UNCHANGED <<table, gapEvents, buildVars, connections, channels, mainVars, obsVars>>

\* A link stops the advertising (main.rs and ble.rs never stop it themselves).
Connect(p) ==
    /\ advertising = "on" /\ p \notin linked
    /\ Happens(Event("connected", p, 0, Nothing))
    /\ linked' = linked \cup {p} /\ advertising' = "off"
    /\ UNCHANGED <<stored, bonded, asking, wants, heard, written>> /\ PhoneUnchanged

Disconnect(p) ==
    /\ p \in linked
    /\ Happens(Event("disconnected", p, 0, Nothing))
    /\ linked' = linked \ {p} /\ asking' = asking \ {p} /\ heard' = heard \ {p}
    /\ wants' = [wants EXCEPT ![p] = {}]
    /\ UNCHANGED <<stored, advertising, bonded, written>> /\ PhoneUnchanged

\* Switching notifications on or off, or reading whether they are on.
AskDescriptor(p) ==
    /\ p \in linked \ asking
    /\ \E h \in DOMAIN table :
         /\ table[h][1] = "desc"
         /\ \/ /\ Happens(Event("subscribe", p, h, Nothing))
               /\ wants' = [wants EXCEPT ![p] = @ \cup {table[h][2]}] /\ UNCHANGED heard
            \/ /\ Happens(Event("unsubscribe", p, h, Nothing))
               /\ wants' = [wants EXCEPT ![p] = @ \ {table[h][2]}] /\ heard' = heard \ {p}
            \/ Happens(Event("read", p, h, Nothing)) /\ UNCHANGED <<wants, heard>>
    /\ asking' = asking \cup {p}
    /\ UNCHANGED <<stored, linked, advertising, bonded, written>> /\ PhoneUnchanged

AskPairing(p) ==
    /\ p \in linked \ (asking \cup bonded)
    /\ Happens(Event("pair", p, 0, Nothing)) /\ asking' = asking \cup {p}
    /\ UNCHANGED <<stored, linked, advertising, bonded, wants, heard, written>> /\ PhoneUnchanged

\* A write in one piece comes with its value; the event of a long one does not
\* (its `write' is only for the properties: the callback reads the attribute).
WriteAttr(p, w) ==
    /\ p \in (linked \cap bonded) \ asking /\ w \notin Range(written)
    /\ Overlap \/ \A k \in DOMAIN events : events[k].type \notin {"write", "exec"}
    /\ \E h \in DOMAIN table, t \in {"write", "exec"} :
         table[h] = <<"char", char_index(w.attr)>> /\ Happens(Event(t, p, h, w))
    /\ stored' = [stored EXCEPT ![w.attr] = w] /\ written' = Append(written, w)
    /\ UNCHANGED <<linked, advertising, bonded, asking, wants, heard>> /\ PhoneUnchanged

-----------------------------------------------------------------------------
(* The callback, on the events of the phones.                               *)

Done == events' = Tail(events)

CallbackKeeps == UNCHANGED <<table, gapEvents, linked, buildVars, mainVars, wants, heard,
                             written, applied>>
CallbackUnchanged == CallbackKeeps /\ UNCHANGED fails

OnConnected ==
    /\ Handling("connected") /\ Done
    /\ connections' =
         IF Cardinality(connections) < MAX_CONNECTIONS
         THEN connections \cup {[phone |-> Head(events).phone, subscribed |-> {}]}
         ELSE connections
    /\ UNCHANGED <<stored, advertising, bonded, channels, asking, refused>> /\ CallbackUnchanged

\* Mutant: the connection stays in the list.
OnDisconnectedKeeps ==
    /\ Handling("disconnected") /\ Done
    /\ start_advertising
    /\ UNCHANGED <<connections, stored, bonded, channels, asking, refused>> /\ CallbackKeeps

OnDisconnected ==
    /\ Handling("disconnected") /\ Done
    /\ connections' = {c \in connections : c.phone # Head(events).phone}
    /\ start_advertising
    /\ UNCHANGED <<stored, bonded, channels, asking, refused>> /\ CallbackKeeps

\* The event of a pairing request names no phone: every connected one is accepted.
OnSecurityRequest ==
    LET peers == {c.phone : c \in connections}
    IN  /\ Handling("pair") /\ Done
        /\ bonded' = bonded \cup peers /\ asking' = asking \ peers
        /\ UNCHANGED <<connections, stored, advertising, channels, refused>> /\ CallbackUnchanged

\* Only a descriptor that the callback knows of is answered.
Answer == asking' = IF Head(events).handle \in Range(cccd) THEN asking \ {Head(events).phone} ELSE asking

\* Mutant: reads of a descriptor are left to the stack.
OnReadIgnored ==
    /\ Handling("read") /\ Done
    /\ UNCHANGED <<asking, connections, stored, advertising, bonded, channels, refused>> /\ CallbackUnchanged

OnRead ==
    /\ Handling("read") /\ Done /\ Answer
    /\ UNCHANGED <<connections, stored, advertising, bonded, channels, refused>> /\ CallbackUnchanged

\* on_write, of a descriptor.
OnSubscribe(on) ==
    LET e == Head(events)
        i == {k \in Chars : cccd[k] = e.handle}
        apply(c) == [c EXCEPT !.subscribed = IF c.phone # e.phone THEN @ ELSE IF on THEN @ \cup i ELSE @ \ i]
    IN  /\ Handling(IF on THEN "subscribe" ELSE "unsubscribe") /\ Done /\ Answer
        /\ connections' = {apply(c) : c \in connections}
        /\ UNCHANGED <<stored, advertising, bonded, channels, refused>> /\ CallbackUnchanged

\* try_send: a full channel drops the value.
Queued(queue, a, capacity, ws) ==
    LET new == {w \in ws : w.attr = a /\ w.ok}
    IN  IF new # {} /\ Len(queue) < capacity THEN Append(queue, CHOOSE w \in new : TRUE) ELSE queue

\* Mutant: the attribute keeps the value.
dispatch_write_keeps(ws) ==
    /\ commands' = Queued(commands, "Command", CMD_QUEUE, ws)
    /\ wifi' = Queued(wifi, "WifiConfig", WIFI_QUEUE, ws)
    /\ refused' = refused \cup (ws \ (Range(commands') \cup Range(wifi')))
    /\ UNCHANGED stored

\* dispatch_write, of at most one write to each attribute: decode, send, clear.
dispatch_write(ws) ==
    /\ commands' = Queued(commands, "Command", CMD_QUEUE, ws)
    /\ wifi' = Queued(wifi, "WifiConfig", WIFI_QUEUE, ws)
    /\ refused' = refused \cup (ws \ (Range(commands') \cup Range(wifi')))
    /\ stored' = [a \in DOMAIN stored |-> IF \E w \in ws : w.attr = a THEN Nothing ELSE stored[a]]

\* on_write, of a characteristic: the value is for the attribute of that handle.
OnWrite ==
    LET e == Head(events)
    IN  /\ Handling("write") /\ Done
        /\ IF \E i \in Chars : handles[i] = e.handle /\ CHARS[i].attr \in Writable
           THEN dispatch_write({e.write})
           ELSE UNCHANGED <<channels, refused, stored>>
        /\ UNCHANGED <<connections, advertising, bonded, asking>> /\ CallbackUnchanged

\* The end of a long write: whatever the two attributes hold.
OnExecWrite ==
    /\ Handling("exec") /\ Done
    /\ dispatch_write({stored[a] : a \in {b \in Writable : handles[char_index(b)] # 0}} \ {Nothing})
    /\ UNCHANGED <<connections, advertising, bonded, asking>> /\ CallbackUnchanged

-----------------------------------------------------------------------------
(* The main loop.                                                           *)

MainUnchanged == UNCHANGED <<stackVars, events, buildVars, connections, asking, wants, written,
                             refused, fails>>

\* handle_ble_commands: first all credentials, then all commands.
DrainWifi ==
    /\ pc = "wifi"
    /\ IF wifi # <<>> THEN wifi' = Tail(wifi) /\ applied' = Append(applied, Head(wifi)) /\ UNCHANGED pc
       ELSE pc' = "commands" /\ UNCHANGED <<wifi, applied>>
    /\ UNCHANGED <<commands, cached, attribute, heard>> /\ MainUnchanged

DrainCommands ==
    /\ pc = "commands"
    /\ IF commands # <<>>
       THEN commands' = Tail(commands) /\ applied' = Append(applied, Head(commands)) /\ UNCHANGED pc
       ELSE pc' = "telemetry" /\ UNCHANGED <<commands, applied>>
    /\ UNCHANGED <<wifi, cached, attribute, heard>> /\ MainUnchanged

\* The live packet goes to the subscribers, if there are any; a phone that has
\* gone or has lost interest does not get it.
NotifyLive ==
    LET live == char_index("Live")
        targets == {c.phone : c \in {d \in connections : live \in d.subscribed}}
    IN  /\ pc = "telemetry" /\ pc' = "publish"
        /\ heard' = heard \cup {p \in targets \cap linked : live \in wants[p] /\ handles[live] # 0}
        /\ UNCHANGED <<channels, cached, attribute, applied>> /\ MainUnchanged

\* publish_if_changed: publish does nothing before the service is built.
PublishIfChanged ==
    /\ pc = "publish" /\ pc' = "wifi"
    /\ cached' = TRUE
    /\ attribute' = (attribute \/ (~cached /\ ready))
    /\ UNCHANGED <<channels, heard, applied>> /\ MainUnchanged

-----------------------------------------------------------------------------
Build == OnRegistered \/ OnAdvConfigured \/ OnCreated \/ OnCharAdded \/ OnDescAdded

Callback == \/ OnConnected \/ OnDisconnected \/ OnSecurityRequest \/ OnRead
            \/ \E on \in BOOLEAN : OnSubscribe(on)
            \/ OnWrite \/ OnExecWrite

MainLoop == DrainWifi \/ DrainCommands \/ NotifyLive \/ PublishIfChanged

Phone == \E p \in Phones : \/ Connect(p) \/ Disconnect(p) \/ AskDescriptor(p) \/ AskPairing(p)
                           \/ \E w \in Writes : WriteAttr(p, w)

Next == Build \/ EventFails \/ Callback \/ MainLoop \/ Phone

Spec == Init /\ [][Next]_vars

\* The Bluetooth task and the main loop keep running; phones do as they please.
Fairness == WF_vars(Build \/ EventFails \/ Callback) /\ WF_vars(MainLoop)

FairSpec == Spec /\ Fairness

-----------------------------------------------------------------------------
(* Properties.                                                              *)

\* Types; the handles noted are entries of the table, the channels and the list
\* of connections keep their capacities, and only a phone that is linked waits
\* for an answer or has been notified.
TypeOK ==
    /\ table \in Seq({"char", "desc"} \X Chars) /\ events \in Seq(Records)
    /\ \A k \in DOMAIN events : events[k].type \in WriteTypes => events[k].write \in Writes
    /\ stored \in [Writable -> Writes \cup {Nothing}]
    /\ linked \subseteq Phones /\ bonded \subseteq Phones
    /\ advertising \in {"off", "on", "refused"} /\ gapEvents \in 0..2
    /\ pending \in Chars /\ ready \in BOOLEAN /\ advParts \in 0..2
    /\ handles \in [Chars -> 0..Len(table)] /\ cccd \in [Chars -> 0..Len(table)]
    /\ connections \subseteq [phone : Phones, subscribed : SUBSET Chars]
    /\ Cardinality(connections) <= MAX_CONNECTIONS
    /\ commands \in Seq(Writes) /\ Len(commands) <= CMD_QUEUE
    /\ wifi \in Seq(Writes) /\ Len(wifi) <= WIFI_QUEUE
    /\ pc \in {"wifi", "commands", "telemetry", "publish"}
    /\ cached \in BOOLEAN /\ attribute \in BOOLEAN
    /\ asking \subseteq linked /\ heard \subseteq linked /\ wants \in [Phones -> SUBSET Chars]
    /\ written \in Seq(Writes) /\ applied \in Seq(Writes) /\ refused \subseteq Writes
    /\ fails \in 0..MaxFails

\* The comment on `pending' in ble.rs: every handle the callback has noted is
\* the one of that characteristic, every descriptor the one under it, however
\* the stack's events and the phones' requests mix.
HandlesMatch ==
    \A i \in Chars : /\ handles[i] # 0 => table[handles[i]] = <<"char", i>>
                     /\ cccd[i] # 0 => table[cccd[i]] = <<"desc", i>>

\* Once the callback has caught up, the server's connections are the links
\* there are, at most one, each with the subscriptions its phone asked for.
ServesTheLink ==
    PhoneEvents = {} =>
        /\ Cardinality(linked) <= 1
        /\ Cardinality(connections) = Cardinality(linked)
        /\ \A c \in connections : c.phone \in linked /\ c.subscribed = wants[c.phone]

Occurrences(w) ==
    LET at(s) == Cardinality({k \in DOMAIN s : s[k] = w})
    IN  at([k \in DOMAIN events |-> events[k].write]) + at(commands) + at(wifi) + at(applied)
        + Cardinality(refused \cap {w})

\* The comment "Clear so a later ExecWrite can't replay a stale value": every
\* write of a phone is in exactly one place on its way to the main loop, so
\* none is applied twice and none disappears without having been refused.  It
\* needs Overlap = FALSE: a write stored before the callback of a long one runs
\* is applied in its place, and again on its own.
AppliedOnce == \A w \in Range(written) : Occurrences(w) = 1

\* The callback restarts what a connection stopped: when nobody is connected
\* the indicator can be found again, unless the stack refused to advertise.
PhoneCanReconnect == (advParts = 2 /\ linked = {}) ~> (advertising # "off" \/ linked # {})

\* The comment on descriptor reads ("must be answered here or the phone's ATT
\* queue stalls"): no request of a phone stays without an answer.
RequestsAnswered == \A p \in Phones : p \in asking ~> p \notin asking

\* A phone that subscribed to the live packet, and stays, gets it.
SubscriberHears ==
    \A p \in Phones : char_index("Live") \in wants[p] ~> (p \in heard \/ char_index("Live") \notin wants[p])

\* A write that was acknowledged reaches the main loop unless it was refused,
\* under the same condition.
WritesHandled == \A w \in Writes : w \in Range(written) ~> w \in refused \cup Range(applied)

\* However the phones' doings, the callback of ble.rs and the loop mix, no phone
\* waits for ever: to connect (unless the stack refused to advertise), for an
\* answer, for the live packet or for a write to be dealt with.
NobodyWaits == PhoneCanReconnect /\ RequestsAnswered /\ SubscriberHears /\ WritesHandled

-----------------------------------------------------------------------------
(* Promises the code does not keep; no run checks them.                     *)

\* The doc of Ble::start: "Advertising starts as soon as the stack reports the
\* service built".
AdvertisedIsBuilt == advertising = "on" => ready

\* The comment on the slow publish: "so the first read after a connect never
\* sees an empty attribute". The loop has published since the service was built.
NeverReadsEmpty == (linked # {} /\ ready /\ cached /\ pc = "wifi") => attribute

\* docs/ble-protocol.md on `wifi-config': "The firmware stores them". What the
\* app wrote last about the network, credentials or forget, is what holds.
AppliedInOrder ==
    \A i, j \in DOMAIN written : \A k, l \in DOMAIN applied :
        i < j /\ applied[k] = written[i] /\ applied[l] = written[j] => k < l
=============================================================================
