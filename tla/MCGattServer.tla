---------------------------- MODULE MCGattServer ----------------------------
(* Three of the twelve characteristics, in the order of CHARS (one of them   *)
(* with a descriptor), and channels of one element, so that they are full as *)
(* soon as the loop is behind.                                               *)
EXTENDS GattServer

CharsMC == <<[attr |-> "Live", notify |-> TRUE], [attr |-> "Command", notify |-> FALSE],
             [attr |-> "WifiConfig", notify |-> FALSE]>>

Write(id, a, ok) == [id |-> id, attr |-> a, ok |-> ok]

\* The first two go to the same channel.
ThreeWrites == {Write("forget", "Command", TRUE), Write("wipe", "Command", TRUE),
                Write("credentials", "WifiConfig", TRUE)}
=============================================================================
