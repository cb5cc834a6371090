--------------------------- MODULE UpdateContract ---------------------------
(***************************************************************************)
(* What an owner may rely on when the firmware is updated, without slots,   *)
(* queues, downloads or threads: one image runs, one image is known to      *)
(* work, and at most one is staged for the next start.                      *)
(***************************************************************************)
EXTENDS Integers

CONSTANTS
    Releases,   \* images that may be offered: version, healthy
    Shipped,    \* the image the board came with
    NoImage     \* nothing is staged

VARIABLES
    current,    \* the image that runs
    known,      \* the last image that proved itself
    staged      \* the image the next start will try

contractVars == <<current, known, staged>>

Init == current = Shipped /\ known = Shipped /\ staged = NoImage

\* Only the known image, once it runs, stages another one, and only a newer one.
Stage ==
    /\ current = known /\ staged = NoImage
    /\ staged' \in {i \in Releases : i.version > current.version}
    /\ UNCHANGED <<current, known>>

\* A start tries what was staged.
Try ==
    /\ staged # NoImage
    /\ current' = staged /\ staged' = NoImage
    /\ UNCHANGED known

\* An image that works may be kept while it runs.
Keep ==
    /\ current.healthy /\ staged = NoImage
    /\ known' = current
    /\ UNCHANGED <<current, staged>>

\* A start from an image that was not kept goes back to the known one.
FallBack ==
    /\ current # known /\ staged = NoImage
    /\ current' = known
    /\ UNCHANGED <<known, staged>>

Next == Stage \/ Try \/ Keep \/ FallBack

Spec == Init /\ [][Next]_contractVars
=============================================================================
