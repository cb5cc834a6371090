------------------------------ MODULE WireSweep ------------------------------
(***************************************************************************)
(* The two sides of Wire against each other: on every short payload, on     *)
(* every command, on what the user can type, and on live packets at the     *)
(* ends of their ranges.                                                    *)
(***************************************************************************)
EXTENDS Wire

CONSTANTS
    Openings,      \* first bytes of a payload
    Alphabet,      \* its other bytes, and those of the WiFi form
    MaxPayload,    \* longest payload
    Addresses,     \* what the user types for the manifest's address
    Statuses,      \* live statuses
    Usual          \* one of them

ASSUME WireSweepAssumption ==
    /\ Openings \subseteq Byte /\ Alphabet \subseteq Byte /\ MaxPayload \in Nat
    /\ Addresses \subseteq Seq(0..127)
    /\ Statuses \subseteq LiveStatus /\ Usual \in LiveStatus

VARIABLES payload, command, form, status

wireVars == <<payload, command, form, status>>

\* What the app's screens send: a brightness is a byte, a boot policy one of
\* three, and an address one that the button lets through, or none.
Commands ==
    {WithByte(Opcodes[k], 0) : k \in DOMAIN Opcodes \ {2, 5, 9}}
    \cup {WithByte("SetBrightness", n) : n \in Byte}
    \cup {WithByte("SetBootPolicy", n) : n \in 0..2}
    \cup {WithUrl(u) : u \in {<<>>} \cup {v \in Addresses : IsPrefix(Scheme, v)}}

Usually == WithByte("CheckUpdate", 0)
NoForm == [ssid |-> <<>>, psk |-> <<>>]

WireInit == payload = <<>> /\ command = Usually /\ form = NoForm /\ status = Usual

\* A payload of any bytes.
Grow ==
    /\ command = Usually /\ form = NoForm /\ status = Usual /\ Len(payload) < MaxPayload
    /\ \E b \in IF payload = <<>> THEN Openings ELSE Alphabet : payload' = Append(payload, b)
    /\ UNCHANGED <<command, form, status>>

\* The user presses a button.
Press ==
    /\ payload = <<>> /\ command = Usually /\ form = NoForm /\ status = Usual
    /\ command' \in Commands
    /\ UNCHANGED <<payload, form, status>>

\* The user fills in the WiFi form, past the ends of the fields.
Type ==
    /\ payload = <<>> /\ command = Usually /\ status = Usual
    /\ \E f \in DOMAIN form, b \in Alphabet \cap 32..127 :
         Len(form[f]) <= MAX_PSK /\ form' = [form EXCEPT ![f] = Append(@, b)]
    /\ UNCHANGED <<payload, command, status>>

\* The loop has something to show.
Show ==
    /\ payload = <<>> /\ command = Usually /\ form = NoForm /\ status = Usual
    /\ status' \in Statuses
    /\ UNCHANGED <<payload, command, form>>

WireNext == Grow \/ Press \/ Type \/ Show

WireSpec == WireInit /\ [][WireNext]_wireVars

-----------------------------------------------------------------------------
\* "malformed payloads are ignored, never guessed": what the firmware makes of
\* a payload is there in full, as the app would have written it, blanks around
\* a URL and bytes after the end apart.
NothingGuessed ==
    LET c == decode(payload)
        w == decode_wifi(payload)
    IN  /\ c # Ignored => IF c.op = "SetManifestUrl" THEN trim(From(payload, 2)) = c.url /\ payload[1] = 9
                       ELSE IsPrefix(data(c), payload)
        /\ w # Ignored => Fits(w) /\ IsPrefix(wifi_data(w), payload)

\* Credentials that the app sends arrive as they were typed, and a payload that
\* was cut short anywhere, as by a long write that lost its end, is refused.
CredentialsArrive ==
    LET c == Credentials(form.ssid, form.psk)
    IN  Fits(c) =>
          /\ decode_wifi(wifi_data(c)) = c
          /\ \A n \in 0..(Len(wifi_data(c)) - 1) : decode_wifi(SubSeq(wifi_data(c), 1, n)) = Ignored

\* A command that the app sends arrives as it was meant, an address without
\* the blanks around it.  Cut short, it is refused, but for an address: nothing
\* in the payload says how long it is (ble_proto.rs:192), so that a beginning of
\* it passes for the whole, and none of it for the built-in one.
CommandsArrive ==
    LET p == data(command)
        url == command.op = "SetManifestUrl"
    IN  /\ decode(p) = IF url THEN WithUrl(trim(command.url)) ELSE command
        /\ \A n \in 0..(Len(p) - 1) :
             LET cut == decode(SubSeq(p, 1, n))
             IN  cut # Ignored => url /\ cut.op = "SetManifestUrl" /\ IsPrefix(cut.url, command.url)

\* decode and decode_wifi: commands and credentials that the app sends arrive as
\* they were meant; one that was cut is refused, an address excepted, of which a
\* beginning may be taken; and nothing a payload does not say is guessed.
DecodesWhatWasSent == NothingGuessed /\ CommandsArrive /\ CredentialsArrive

\* The phone shows what the loop measured: every flag by itself, the interlock
\* with its three values, gears by their own numbers, counters in all bytes.
PhoneShowsStatus ==
    LET s == status
    IN  live(encode(s)) =
          [linkUp |-> s.link_up, neutralSwitch |-> s.neutral_switch, interlock |-> s.interlock,
           learnFlash |-> s.learn_flash, otaBusy |-> s.ota_busy, gear |-> s.gear,
           brightnessIndex |-> s.brightness_idx,
           rpm |-> Rounded(Shown(s.rpm), 4),
           speed |-> Rounded(Shown(s.speed), 2), ratio |-> ratio(s),
           samples |-> s.samples, uptime |-> s.uptime_s]
=============================================================================
