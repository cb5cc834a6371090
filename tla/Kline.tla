------------------------------- MODULE Kline -------------------------------
(***************************************************************************)
(* The transport of firmware/esp32/src/kds.rs and the part of the poll loop *)
(* (firmware/esp32/src/main.rs) that drives it, over a single wire on which *)
(* every byte sent comes back.                                              *)
(*                                                                          *)
(* The UART's receive FIFO is all that links one exchange to the next: a    *)
(* read takes bytes from it until it has enough, or until nothing comes any *)
(* more.  So an exchange is one step, on the bytes that reach the FIFO      *)
(* before a time-out: the echo, then the ECU's answer.  The faults disturb  *)
(* either; an answer that is late reaches the FIFO in the pause before the  *)
(* next request, or, when VeryLate, only behind that request's echo.        *)
(***************************************************************************)
EXTENDS KdsProto

CONSTANTS
    RpmData, SpeedData, InterlockData,  \* what the ECU puts in its answers
    INTERLOCK_EVERY_N_CYCLES,
    VeryLate,
    MaxFaults                           \* bound on faults, ECU resets and pauses

ASSUME KlineAssumption ==
    /\ RpmData \subseteq Byte \X Byte
    /\ SpeedData \subseteq {<<v>> : v \in Byte}
    /\ InterlockData \subseteq Byte \X Byte
    /\ INTERLOCK_EVERY_N_CYCLES \in Nat \ {0, 1}
    /\ VeryLate \in BOOLEAN /\ MaxFaults \in Nat

VARIABLES
    fifo,       \* bytes received and not read
    connected,
    session,    \* the ECU: has a diagnostic session open
    late,       \* the ECU: an answer it has yet to send
    pc, cycle,  \* the poll loop
    rpm, speed, interlock,
    answered,   \* observation: the data of the ECU's answer to the last request
    garbled,    \* observation: the registers whose last answer lost or gained a byte
    faults      \* faults so far

lineVars == <<fifo, session, late, faults>>
valueVars == <<rpm, speed, interlock, answered, garbled>>
vars == <<lineVars, valueVars, connected, pc, cycle>>

Registers == {REG_RPM, REG_SPEED, REG_INTERLOCK}

Init ==
    /\ fifo = <<>> /\ connected = FALSE
    /\ session = FALSE /\ late = <<>>
    /\ pc = "top" /\ cycle = 0
    /\ rpm = NoValue /\ speed = NoValue /\ interlock = NoValue
    /\ answered = [r \in Registers |-> <<>>] /\ garbled = {}
    /\ faults = 0

-----------------------------------------------------------------------------
(* The wire and the ECU.                                                    *)

\* The ECU's answers have their length in a byte of its own.
Reply(payload) ==
    WithChecksum(<<128, TESTER_ADDR, ECU_ADDR, Len(payload)>> \o payload)

Refusal == Reply(<<SVC_NEGATIVE, SVC_READ, 34>>)

\* What becomes of a request's echo and of the answer to it: one of the two may
\* be disturbed.  A byte of the echo is lost, or noise comes before it; the
\* answer is late; the line is held low for a while; the answer is cut short,
\* by its first byte already, or loses a byte, or gains one.  (A byte does not
\* change: there is nothing left then to tell a value by.)
Undisturbed(echo, answer) ==
    [echo |-> echo, heard |-> answer, late |-> <<>>, garbled |-> FALSE, faults |-> 0]

Noise == 255

DisturbedEchoes(echo) == {Tail(echo), <<Noise>> \o echo}

CutShort(answer) == {SubSeq(answer, 1, n) : n \in 0..(Len(answer) - 1)}

Garbled(answer) ==
    {SubSeq(answer, 1, i - 1) \o SubSeq(answer, i + 1, Len(answer)) : i \in DOMAIN answer} \cup
    {SubSeq(answer, 1, i) \o <<Noise>> \o SubSeq(answer, i + 1, Len(answer)) :
        i \in 0..Len(answer)}

Faulty(echo, heard, late_answer, is_garbled) ==
    [echo |-> echo, heard |-> heard, late |-> late_answer, garbled |-> is_garbled, faults |-> 1]

Disturbed(echo, answer) ==
    {Faulty(e, answer, <<>>, FALSE) : e \in DisturbedEchoes(echo)} \cup
    {Faulty(echo, a, <<>>, FALSE) : a \in CutShort(answer)} \cup
    {Faulty(echo, a, <<>>, TRUE) : a \in Garbled(answer)} \cup
    {Faulty(echo, <<>>, answer, FALSE),
     Faulty([i \in DOMAIN echo |-> 0], <<0, 0, 0, 0, 0, 0>>, <<>>, FALSE)}

Transmissions(echo, answer) ==
    {Undisturbed(echo, answer)} \cup (IF faults < MaxFaults THEN Disturbed(echo, answer) ELSE {})

\* The late answer comes in the pause between two requests.
LateArrives ==
    /\ late # <<>>
    /\ fifo' = fifo \o late /\ late' = <<>>
    /\ UNCHANGED <<session, faults, valueVars, connected, pc, cycle>>

\* The session ends when the ECU resets, or hears nothing for too long.
SessionLost ==
    /\ session /\ faults < MaxFaults
    /\ session' = FALSE /\ faults' = faults + 1
    /\ UNCHANGED <<fifo, late, valueVars, connected, pc, cycle>>

-----------------------------------------------------------------------------
(* send_request and read_response.                                          *)

\* As many bytes as were sent, those of build_request(payload), are thrown away,
\* whatever they are.
SentLen(payload) == Len(payload) + 4

AfterEcho(line, n) == SubSeq(line, n + 1, Len(line))

\* Mutant: the time-outs of the response are not looked at, what came is parsed
\* from its service byte on.
ExchangeFromService(payload, t) ==
    LET line == AfterEcho(fifo \o t.echo \o late \o t.heard, SentLen(payload))
    IN  [parse_response(line) EXCEPT !.payload = SubSeq(line, 5, Len(line))]

\* The response to a request, and what it leaves in the FIFO.
Exchange(payload, t) ==
    parse_response(AfterEcho(fifo \o t.echo \o late \o t.heard, SentLen(payload)))

\* The effect of an exchange on the wire.
OnWire(payload, t) ==
    /\ VeryLate \/ late = <<>>
    /\ fifo' = Exchange(payload, t).rest /\ late' = t.late /\ faults' = faults + t.faults

-----------------------------------------------------------------------------
(* start_communication.                                                     *)

\* Mutant: the FIFO is drained before the echo of the break has come in.
FastInitDrainsEarly ==
    /\ pc = "init" /\ (VeryLate \/ late = <<>>)
    /\ fifo' = <<0>>
    /\ pc' \in {"start", "telemetry"}
    /\ UNCHANGED <<session, late, faults, valueVars, connected, cycle>>

\* The FIFO is drained before the break and, with the break's echo, after it;
\* the UART may refuse the break.
FastInit ==
    /\ pc = "init" /\ (VeryLate \/ late = <<>>)
    /\ fifo' = <<>>
    /\ pc' \in {"start", "telemetry"}
    /\ UNCHANGED <<session, late, faults, valueVars, connected, cycle>>

StartCommunication ==
    /\ pc = "start"
    /\ LET request == <<SVC_START>>
           answer == Reply(<<SVC_START_OK, 234, 143>>)
       IN  \E t \in Transmissions(build_request(request), answer) :
             /\ OnWire(request, t)
             /\ pc' = IF Contains(Exchange(request, t).payload, SVC_START_OK)
                      THEN "session" ELSE "telemetry"
    /\ session' = FALSE
    /\ UNCHANGED <<valueVars, connected, cycle>>

StartSession ==
    /\ pc = "session"
    /\ LET request == <<SVC_SESSION, SVC_SESSION_KDS>>
           answer == Reply(<<SVC_SESSION_OK, SVC_SESSION_KDS>>)
       IN  \E t \in Transmissions(build_request(request), answer) :
             /\ OnWire(request, t)
             /\ connected' = Contains(Exchange(request, t).payload, SVC_SESSION_OK)
    /\ pc' = IF connected' THEN "rpm" ELSE "telemetry"
    /\ session' = TRUE
    /\ UNCHANGED <<valueVars, cycle>>

-----------------------------------------------------------------------------
(* The poll loop.                                                           *)

\* An update pauses polling: the link is given up, to be set up again after it.
OtaPause ==
    /\ pc = "top" /\ faults < MaxFaults
    /\ connected' = FALSE /\ faults' = faults + 1
    /\ UNCHANGED <<fifo, session, late, valueVars, pc, cycle>>

Top(next) ==
    /\ pc = "top"
    /\ rpm' = NoValue /\ speed' = NoValue
    /\ pc' = next
    /\ UNCHANGED <<lineVars, interlock, answered, garbled, connected, cycle>>

\* The link is set up anew once RECONNECT_INTERVAL is over.
Poll == connected /\ Top("rpm")
Reconnect == ~connected /\ Top("init")
ReconnectNotDue == ~connected /\ Top("telemetry")

\* The exchange for one register, and what read_register returns of it.  The
\* ECU answers with the data d, or refuses (<<>>); without a session it refuses
\* everything.
ReadRegister(reg, d, t) ==
    /\ OnWire(<<SVC_READ, reg>>, t)
    /\ answered' = [answered EXCEPT ![reg] = d]
    /\ garbled' = IF t.garbled THEN garbled \cup {reg} ELSE garbled \ {reg}
    /\ UNCHANGED <<session, cycle>>

Answers(data) == IF session THEN data ELSE {<<>>}

Sent(reg, d) ==
    Transmissions(build_request(<<SVC_READ, reg>>),
                  IF d = <<>> THEN Refusal ELSE Reply(<<SVC_READ_OK, reg>> \o d))

Returned(reg, t) == positive_data(Exchange(<<SVC_READ, reg>>, t).payload, SVC_READ_OK, reg)

ReadRpm ==
    /\ pc = "rpm"
    /\ \E d \in Answers(RpmData) : \E t \in Sent(REG_RPM, d) :
         ReadRegister(REG_RPM, d, t) /\ rpm' = decode_rpm(Returned(REG_RPM, t))
    /\ pc' = "speed"
    /\ UNCHANGED <<speed, interlock, connected>>

ReadSpeed ==
    /\ pc = "speed"
    /\ \E d \in Answers(SpeedData) : \E t \in Sent(REG_SPEED, d) :
         ReadRegister(REG_SPEED, d, t) /\ speed' = decode_speed(Returned(REG_SPEED, t))
    /\ pc' = IF cycle = 0 THEN "interlock" ELSE "link"
    /\ UNCHANGED <<rpm, interlock, connected>>

\* Every INTERLOCK_EVERY_N_CYCLES-th cycle.  The ECU may refuse this one at any
\* time; whatever is not decoded is unknown.
ReadInterlock ==
    /\ pc = "interlock"
    /\ \E d \in Answers(InterlockData) \cup {<<>>} : \E t \in Sent(REG_INTERLOCK, d) :
         /\ ReadRegister(REG_INTERLOCK, d, t)
         /\ interlock' = decode_interlock(Returned(REG_INTERLOCK, t))
    /\ pc' = "link"
    /\ UNCHANGED <<rpm, speed, connected>>

\* Both values missing: the link is dead.
CheckLink ==
    /\ pc = "link" /\ pc' = "telemetry"
    /\ IF rpm = NoValue /\ speed = NoValue
       THEN connected' = FALSE /\ interlock' = NoValue
       ELSE UNCHANGED <<connected, interlock>>
    /\ UNCHANGED <<lineVars, rpm, speed, answered, garbled, cycle>>

\* The values go to the estimator, the learner and the phone.
Telemetry ==
    /\ pc = "telemetry" /\ pc' = "top"
    /\ cycle' = (cycle + 1) % INTERLOCK_EVERY_N_CYCLES
    /\ UNCHANGED <<lineVars, valueVars, connected>>

Loop ==
    \/ Poll \/ Reconnect \/ ReconnectNotDue \/ FastInit \/ StartCommunication \/ StartSession
    \/ ReadRpm \/ ReadSpeed \/ ReadInterlock \/ CheckLink \/ Telemetry

Next == Loop \/ OtaPause \/ LateArrives \/ SessionLost

Spec == Init /\ [][Next]_vars

\* Reads time out, so the loop keeps turning; RECONNECT_INTERVAL passes; the
\* UART does not refuse every break; a late answer comes some time.
FairSpec ==
    /\ Spec
    /\ WF_vars(Loop) /\ WF_vars(LateArrives)
    /\ SF_vars(Reconnect) /\ SF_vars(FastInit /\ pc' = "start")

-----------------------------------------------------------------------------
(* Properties.                                                              *)

\* The type invariant.
TypeOK ==
    /\ fifo \in Seq(Byte) /\ late \in Seq(Byte)
    /\ connected \in BOOLEAN /\ session \in BOOLEAN
    /\ pc \in {"top", "init", "start", "session", "rpm", "speed", "interlock", "link", "telemetry"}
    /\ cycle \in 0..(INTERLOCK_EVERY_N_CYCLES - 1)
    /\ rpm \in Int /\ speed \in Int /\ interlock \in {NoValue, 0, 1}
    /\ answered \in [Registers -> Seq(Byte)] /\ garbled \subseteq Registers
    /\ faults \in 0..MaxFaults

\* A value a read returned is the one the ECU gave in answer to that very
\* request, not another register's, an older one, or a piece of an echo,
\* whatever was lost, cut, added or late before ("Read one register via service
\* 0x21. Returns the data bytes.", kds.rs).  Only an answer that has itself lost
\* or gained a byte may be misread: parse_response tolerates a missing checksum
\* and read_response only warns of a wrong one.
NoForeignValue ==
    /\ REG_RPM \in garbled \/ rpm \in {NoValue, decode_rpm(answered[REG_RPM])}
    /\ REG_SPEED \in garbled \/ speed \in {NoValue, decode_speed(answered[REG_SPEED])}
    /\ pc = "link" /\ cycle = 0 =>
         \/ REG_INTERLOCK \in garbled
         \/ interlock \in {NoValue, decode_interlock(answered[REG_INTERLOCK])}

\* A line that has been disturbed comes right by itself once the disturbances
\* end: the link is up for good and every cycle has both values as they were
\* sent.  Nothing that was left in the FIFO keeps the reads out of step.
LinkRecovers ==
    /\ <>[]connected
    /\ <>[](pc = "link" => /\ rpm = decode_rpm(answered[REG_RPM])
                          /\ speed = decode_speed(answered[REG_SPEED]))

-----------------------------------------------------------------------------
(* A promise the code does not keep; no run checks it.                      *)

\* A failed read "means UNKNOWN - never hold a stale neutral+clutch latch"
\* (main.rs): an interlock value that is sent to the phone belongs to the link
\* that is up.
InterlockNotStale == pc = "telemetry" /\ interlock # NoValue => connected
=============================================================================
