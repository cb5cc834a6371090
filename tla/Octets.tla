------------------------------- MODULE Octets -------------------------------
(* Bytes, and what checksums and lengths add up. *)
EXTENDS Integers, Sequences

Byte == 0..255

\* As a recursive function, so that it can be reasoned about.
Total(w) ==
    LET upTo[k \in 0..Len(w)] == IF k = 0 THEN 0 ELSE upTo[k - 1] + w[k]
    IN  upTo[Len(w)]
=============================================================================
