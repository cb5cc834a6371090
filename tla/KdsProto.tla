------------------------------ MODULE KdsProto ------------------------------
(***************************************************************************)
(* The K-line frames of firmware/core/src/kds_proto.rs, byte for byte.      *)
(* Values keep the ECU's units, so that no division is rounded: quarters of *)
(* a revolution per minute and halves of a km/h.                            *)
(***************************************************************************)
EXTENDS Octets, SequencesExt

ECU_ADDR == 17
TESTER_ADDR == 242
SVC_START == 129
SVC_START_OK == 193
SVC_SESSION == 16
SVC_SESSION_KDS == 128
SVC_SESSION_OK == 80
SVC_READ == 33
SVC_READ_OK == 97
SVC_NEGATIVE == 127
REG_RPM == 9
REG_SPEED == 12
REG_INTERLOCK == 3
MAX_PAYLOAD == 63

\* No value: a read that failed, or data of the wrong shape.
NoValue == -1

checksum(bytes) == Total(bytes) % 256

WithChecksum(bytes) == Append(bytes, checksum(bytes))

\* Only for payloads of 1..MAX_PAYLOAD bytes.
build_request(payload) ==
    WithChecksum(<<128 + Len(payload), ECU_ADDR, TESTER_ADDR>> \o payload)

\* The length is in the low six bits of the format byte, or in a byte of its own.
LengthInFormat(fmt) == fmt \div 64 = 2 /\ fmt % 64 # 0
HeaderLen(s) == IF LengthInFormat(s[1]) THEN 3 ELSE 4
PayloadEnd(s) == HeaderLen(s) + (IF LengthInFormat(s[1]) THEN s[1] % 64 ELSE s[4])

\* A read that times out in the middle has eaten every byte there was.
Unparsed(why) == [status |-> why, payload |-> <<>>, checksum_ok |-> FALSE, rest |-> <<>>]

\* parse_response on the bytes the source will ever deliver; rest is what it
\* leaves unread.
parse_response(s) ==
    IF s = <<>> THEN Unparsed("timeout")
    ELSE IF Len(s) < HeaderLen(s) \/ Len(s) < PayloadEnd(s) THEN Unparsed("truncated")
    ELSE LET raw == SubSeq(s, 1, IF Len(s) > PayloadEnd(s) THEN PayloadEnd(s) + 1 ELSE Len(s))
             rest == SubSeq(s, Len(raw) + 1, Len(s))
         IN  IF \A i \in DOMAIN raw : raw[i] = 0
             THEN [Unparsed("heldLow") EXCEPT !.rest = rest]
             ELSE [status |-> "frame",
                   payload |-> SubSeq(s, HeaderLen(s) + 1, PayloadEnd(s)),
                   checksum_ok |-> Len(s) > PayloadEnd(s) =>
                                     s[PayloadEnd(s) + 1] = checksum(SubSeq(s, 1, PayloadEnd(s))),
                   rest |-> rest]

-----------------------------------------------------------------------------
\* The data of a positive response, the echo of the identifier optional; <<>>
\* also stands for "not a positive response", which only the black box's count
\* of odd interlock values tells from empty data.
positive_data(payload, ok_service, id) ==
    IF payload = <<>> \/ payload[1] # ok_service THEN <<>>
    ELSE IF Len(payload) > 1 /\ payload[2] = id THEN SubSeq(payload, 3, Len(payload))
    ELSE Tail(payload)

decode_rpm(data) == IF Len(data) >= 2 THEN 256 * data[1] + data[2] ELSE NoValue

decode_speed(data) ==
    CASE Len(data) = 0 -> NoValue
      [] Len(data) = 1 -> 2 * data[1]
      [] OTHER -> 256 * data[1] + data[2]

\* 1: neutral with the clutch pulled, 0: not so.
decode_interlock(data) ==
    CASE data = <<0, 0>> -> 1
      [] data = <<255, 255>> -> 0
      [] OTHER -> NoValue
=============================================================================
