-------------------------------- MODULE Wire --------------------------------
(***************************************************************************)
(* What goes over Bluetooth, byte for byte: the firmware's side             *)
(* (firmware/core/src/ble_proto.rs) and the app's                           *)
(* (ios/Sources/W230/Protocol/W230Protocol.swift), each from its own code.  *)
(* Text is a sequence of bytes; those above 127 stand for what is not       *)
(* UTF-8.                                                                   *)
(***************************************************************************)
EXTENDS GearClassifier, Octets, SequencesExt

CONSTANTS
    Scheme,              \* "https://"
    MAX_SSID, MAX_PSK    \* 32 and 63 bytes: their lengths are bytes

ASSUME WireAssumption ==
    /\ Scheme \in Seq(33..127) \ {<<>>}    \* no blanks
    /\ {MAX_SSID, MAX_PSK} \subseteq Byte \ {0}

\* A payload that makes no command.
Ignored == [op |-> "none"]
IsUtf8(bytes) == \A i \in DOMAIN bytes : bytes[i] < 128
From(s, i) == SubSeq(s, i, Len(s))

\* to_le_bytes of u16 and u32, and the app's readers.
Le16(n) == <<n % 256, (n \div 256) % 256>>
Le32(n) == Le16(n % 65536) \o Le16(n \div 65536)
U16(s, i) == s[i] + 256 * s[i + 1]
U32(s, i) == U16(s, i) + 65536 * U16(s, i + 2)

-----------------------------------------------------------------------------
(* Commands.                                                                *)

Opcodes == <<"WipeCalibration", "SetBrightness", "CheckUpdate", "InstallUpdate", "SetBootPolicy",
             "Reboot", "ForgetWifi", "ClearBlackBox", "SetManifestUrl", "TestWifi">>

WithByte(op, n) == [op |-> op, n |-> n, url |-> <<>>]
WithUrl(url) == [op |-> "SetManifestUrl", n |-> 0, url |-> url]

\* str::trim, of blanks.
trim(s) ==
    LET ink == {i \in DOMAIN s : s[i] # 32}
    IN  IF ink = {} THEN <<>>
        ELSE SubSeq(s, CHOOSE i \in ink : \A j \in ink : i <= j, CHOOSE i \in ink : \A j \in ink : i >= j)

\* Command::decode; bytes after the payload are not looked at.
decode(bytes) ==
    IF bytes = <<>> \/ bytes[1] \notin DOMAIN Opcodes THEN Ignored
    ELSE LET op == Opcodes[bytes[1]]
             url == trim(From(bytes, 2))
         IN  CASE op \in {"SetBrightness", "SetBootPolicy"} ->
                    IF Len(bytes) < 2 \/ (op = "SetBootPolicy" /\ bytes[2] > 2) THEN Ignored
                    ELSE WithByte(op, bytes[2])
               [] op = "SetManifestUrl" ->
                    IF IsUtf8(From(bytes, 2)) /\ (url = <<>> \/ IsPrefix(Scheme, url)) THEN WithUrl(url) ELSE Ignored
               [] OTHER -> WithByte(op, 0)

\* Command.data of the app.
data(c) ==
    CASE c.op = "WipeCalibration" -> <<1>>
      [] c.op = "SetBrightness" -> <<2, c.n>>
      [] c.op = "CheckUpdate" -> <<3>>
      [] c.op = "InstallUpdate" -> <<4>>
      [] c.op = "SetBootPolicy" -> <<5, c.n>>
      [] c.op = "Reboot" -> <<6>>
      [] c.op = "ForgetWifi" -> <<7>>
      [] c.op = "ClearBlackBox" -> <<8>>
      [] c.op = "SetManifestUrl" -> <<9>> \o c.url
      [] c.op = "TestWifi" -> <<10>>

-----------------------------------------------------------------------------
(* WiFi credentials.                                                        *)

Credentials(ssid, psk) == [op |-> "wifi", ssid |-> ssid, psk |-> psk]

\* Mutant: takes the password that is there, whatever its length byte says.
decode_wifi_lenient(bytes) ==
    IF Len(bytes) < 3 \/ bytes[1] # 1 THEN Ignored
    ELSE LET sl == bytes[2]
             psk == From(bytes, sl + 4)
         IN  IF sl \notin 1..MAX_SSID \/ Len(bytes) < sl + 3 THEN Ignored
             ELSE IF bytes[sl + 3] > MAX_PSK \/ ~IsUtf8(SubSeq(bytes, 3, sl + 2)) \/ ~IsUtf8(psk) THEN Ignored
             ELSE Credentials(SubSeq(bytes, 3, sl + 2), psk)

\* WifiCredentials::decode: [1][len][ssid][len][psk], every length checked
\* against what has come.
decode_wifi(bytes) ==
    IF Len(bytes) < 2 \/ bytes[1] # 1 THEN Ignored
    ELSE LET sl == bytes[2]
         IN  IF sl \notin 1..MAX_SSID \/ Len(bytes) < sl + 3 THEN Ignored
             ELSE LET pl == bytes[sl + 3]
                      ssid == SubSeq(bytes, 3, sl + 2)
                      psk == SubSeq(bytes, sl + 4, sl + 3 + pl)
                  IN  IF pl > MAX_PSK \/ Len(bytes) < sl + 3 + pl \/ ~IsUtf8(ssid) \/ ~IsUtf8(psk) THEN Ignored
                      ELSE Credentials(ssid, psk)

\* WifiCredentials.data of the app; nothing is sent for what does not fit.
Fits(c) == Len(c.ssid) \in 1..MAX_SSID /\ Len(c.psk) <= MAX_PSK
wifi_data(c) == <<1, Len(c.ssid)>> \o c.ssid \o <<Len(c.psk)>> \o c.psk

-----------------------------------------------------------------------------
(* The live packet.  Rpm comes in quarters and speed in halves, or None;    *)
(* the ratio, an f32, is a fraction in the first of its four bytes.         *)

Bit(b, n) == IF b THEN n ELSE 0

\* u32.
Counter == {n \in Nat : n \div 65536 < 65536}

\* What the loop has to show: bytes, counters, readings that may be missing.
LiveStatus ==
    [link_up : BOOLEAN, neutral_switch : BOOLEAN, interlock : {"unknown", "open", "closed"},
     learn_flash : BOOLEAN, ota_busy : BOOLEAN, demo : BOOLEAN, gear : Gears, brightness_idx : Byte,
     rpm : {None} \cup Nat, speed : {None} \cup Nat, samples : Counter, uptime_s : Counter]

\* f32::round of n / d, halves away from zero, into a u16.
Rounded(n, d) == LET r == (2 * n + d) \div (2 * d) IN IF r > 65535 THEN 65535 ELSE r

NoRatio == <<0, 1>>
ratio(s) == IF s.rpm # None /\ s.speed >= 2 THEN <<s.rpm, 2 * s.speed>> ELSE NoRatio

GearByte(g) == CASE g = Unknown -> 0 [] g = Neutral -> 7 [] OTHER -> g

\* unwrap_or(0.0) of a reading.
Shown(n) == IF n = None THEN 0 ELSE n

Reading(n, d) == Le16(Rounded(Shown(n), d))

\* Mutant: a known open interlock is sent like an unknown one.
flags_closed_only(s) ==
    Bit(s.link_up, 1) + Bit(s.neutral_switch, 2) + Bit(s.interlock = "closed", 12)
    + Bit(s.learn_flash, 16) + Bit(s.ota_busy, 32) + Bit(s.demo, 64)

flags(s) ==
    Bit(s.link_up, 1) + Bit(s.neutral_switch, 2) + Bit(s.interlock # "unknown", 4)
    + Bit(s.interlock = "closed", 8) + Bit(s.learn_flash, 16) + Bit(s.ota_busy, 32) + Bit(s.demo, 64)

\* LiveStatus::encode.
encode(s) ==
    <<1, flags(s), GearByte(s.gear), s.brightness_idx>> \o Reading(s.rpm, 4) \o Reading(s.speed, 2)
    \o <<ratio(s), NoRatio, NoRatio, NoRatio>> \o Le32(s.samples) \o Le32(s.uptime_s)

\* LiveStatus.init(data:) of the app, with the properties it computes from the
\* flags.
Has(f, bit) == (f \div bit) % 2 = 1

live(b) ==
    [linkUp |-> Has(b[2], 1), neutralSwitch |-> Has(b[2], 2),
     interlock |-> IF ~Has(b[2], 4) THEN "unknown" ELSE IF Has(b[2], 8) THEN "closed" ELSE "open",
     learnFlash |-> Has(b[2], 16), otaBusy |-> Has(b[2], 32),
     gear |-> IF b[3] = 7 THEN Neutral ELSE IF b[3] \in 1..6 THEN b[3] ELSE Unknown,
     brightnessIndex |-> b[4], rpm |-> U16(b, 5), speed |-> U16(b, 7), ratio |-> b[9],
     samples |-> U32(b, 13), uptime |-> U32(b, 17)]
=============================================================================
