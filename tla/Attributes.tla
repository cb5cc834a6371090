----------------------------- MODULE Attributes -----------------------------
(***************************************************************************)
(* The texts that have to fit an attribute (firmware/core/src/ble_proto.rs  *)
(* and the slow publish of firmware/esp32/src/main.rs): the ring of events  *)
(* and the update status with its release notes.                            *)
(*                                                                          *)
(* A text is a sequence of bytes of five kinds: plain ("a"), escaped with a *)
(* backslash ("q"), a control character ("u"), first ("L") and second ("c") *)
(* byte of a longer character.  What else a JSON body holds is a number of  *)
(* bytes.  ota_status_json calls itself until the body fits: one step each. *)
(***************************************************************************)
EXTENDS Octets, SequencesExt, FiniteSetsExt

CONSTANTS
    MAX_ATTR_LEN,    \* 512
    CAPACITY,        \* 24 events
    EVENT_TEXT,      \* 48 bytes of an event
    EVENT_FRAME,     \* what JSON adds to an event's text
    TRIM,            \* 64 bytes of the notes
    Texts,           \* what an event says
    Notes,           \* release notes of manifests
    Others           \* lengths of the update status without its notes

Kinds == {"a", "q", "u", "L", "c"}

\* What a &str guarantees: second bytes follow first bytes, and only those.
IsText(s) ==
    /\ \A k \in DOMAIN s : (s[k] = "c") <=> (k > 1 /\ s[k - 1] = "L")
    /\ s # <<>> => s[Len(s)] # "L"

ASSUME AttributesAssumption ==
    /\ {MAX_ATTR_LEN, CAPACITY, EVENT_TEXT, EVENT_FRAME, TRIM} \subseteq Nat \ {0}
    /\ Texts \cup Notes \subseteq Seq(Kinds) /\ \A t \in Texts \cup Notes : IsText(t)
    \* an event with nothing but control characters fits, quotes and brackets included
    /\ 6 * EVENT_TEXT + EVENT_FRAME + 4 <= MAX_ATTR_LEN

VARIABLES
    ring,         \* EventRing.events
    pushed,       \* the last text pushed, in full
    notes, other, \* the status of the update
    rendering,    \* the notes left of the body being built
    building,     \* ota_status_json is running
    events        \* the attribute: the events listed

statusVars == <<notes, other>>
buildVars == <<rendering, building>>
attributeVars == <<ring, pushed, statusVars, buildVars, events>>

-----------------------------------------------------------------------------
is_char_boundary(s, k) == k \in {0, Len(s)} \/ (k < Len(s) /\ s[k + 1] # "c")

truncate_utf8(s, max) ==
    IF Len(s) <= max THEN s
    ELSE SubSeq(s, 1, Max({k \in 0..max : is_char_boundary(s, k)}))

Width(b) == CASE b = "q" -> 2 [] b = "u" -> 6 [] OTHER -> 1

\* The length of json_str, quotes included.
json_str(s) == 2 + Total([k \in DOMAIN s |-> Width(s[k])])

\* EventRing::push: the oldest makes room.
push(r, text) ==
    Append(IF Len(r) = CAPACITY THEN Tail(r) ELSE r, truncate_utf8(text, EVENT_TEXT))

\* The length of the JSON list of events, commas included.
ListLen(list) ==
    2 + Max({0, Len(list) - 1}) + Total([k \in DOMAIN list |-> EVENT_FRAME + json_str(list[k])])

\* Mutant: drops the newest first.
to_json_drops_newest(r) ==
    SubSeq(r, 1, Max({0} \cup {k \in DOMAIN r : ListLen(SubSeq(r, 1, k)) <= MAX_ATTR_LEN}))

\* EventRing::to_json: skips from the oldest on until the rest fits.
to_json(r) ==
    LET rest(skip) == SubSeq(r, skip + 1, Len(r))
    IN  rest(Min({Len(r)} \cup {skip \in 0..Len(r) : ListLen(rest(skip)) <= MAX_ATTR_LEN}))

-----------------------------------------------------------------------------
AttributesInit ==
    /\ ring = <<>> /\ pushed = <<>> /\ notes = <<>> /\ other = Min(Others)
    /\ rendering = <<>> /\ building = FALSE
    /\ events = <<>>

\* Something happens.
Push ==
    /\ ~building
    /\ \E t \in Texts : ring' = push(ring, t) /\ pushed' = t
    /\ UNCHANGED <<statusVars, buildVars, events>>

\* A check of the worker ends, or fails, and the loop mirrors its status.
Mirror ==
    /\ ~building
    /\ notes' \in Notes /\ other' \in Others
    /\ UNCHANGED <<ring, pushed, buildVars, events>>

\* The slow publish: the events, then the status of the update.
Publish ==
    /\ ~building
    /\ events' = to_json(ring)
    /\ rendering' = notes /\ building' = TRUE
    /\ UNCHANGED <<ring, pushed, statusVars>>

BodyLen == other + json_str(rendering)

\* Mutant: notes shorter than the step are left alone.
TrimmedLongOnly == IF Len(rendering) > TRIM THEN truncate_utf8(rendering, Len(rendering) - TRIM) ELSE rendering

Trimmed == truncate_utf8(rendering, Max({0, Len(rendering) - TRIM}))

\* ota_status_json: the body is too long, build it again with shorter notes.
TrimNotes ==
    /\ building /\ BodyLen > MAX_ATTR_LEN
    /\ rendering' = Trimmed
    /\ UNCHANGED <<ring, pushed, statusVars, building, events>>

\* It fits.
Built ==
    /\ building /\ BodyLen <= MAX_ATTR_LEN
    /\ building' = FALSE /\ rendering' = <<>>
    /\ UNCHANGED <<ring, pushed, statusVars, events>>

AttributesNext == Push \/ Mirror \/ Publish \/ TrimNotes \/ Built

AttributesSpec == AttributesInit /\ [][AttributesNext]_attributeVars

-----------------------------------------------------------------------------
\* No cut leaves half a character, in the ring or in the notes, however often
\* they are cut, and a cut costs no more than it must.
CharactersStayWhole ==
    /\ \A k \in DOMAIN ring : IsText(ring[k]) /\ Len(ring[k]) <= EVENT_TEXT
    /\ IsText(rendering)
    /\ ring # <<>> => LET last == ring[Len(ring)]
                      IN  IsPrefix(last, pushed)
                          /\ (last # pushed => Len(last) + 2 > EVENT_TEXT)

\* The app is shown the newest events, as many as fit: a list that "always fits
\* one attribute (oldest entries drop first)", even of texts that JSON makes
\* several times longer.
NewestEventsShown ==
    /\ ListLen(events) <= MAX_ATTR_LEN
    /\ building => /\ IsSuffix(events, ring) /\ (ring # <<>> => events # <<>>)
                   /\ events # ring =>
                        ListLen(SubSeq(ring, Len(ring) - Len(events), Len(ring))) > MAX_ATTR_LEN

\* EventRing: the newest events that fit are listed, and no text is cut within a
\* character, however often it is cut.
EventsShownWhole == CharactersStayWhole /\ NewestEventsShown

\* Building the body of the update status comes to an end, whatever the notes:
\* until it does the loop polls nothing and shows nothing.
RenderingEnds == building ~> ~building
=============================================================================
