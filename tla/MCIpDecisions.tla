--------------------------- MODULE MCIpDecisions ---------------------------
(* Instances of IpDecisions for TLC: two checks at a time, a key that lives *)
(* for two ticks and checks that last at most one.                          *)
EXTENDS IpDecisions, TLC

(* No definition tells one worker thread from another. *)
Symmetry == Permutations(Checkers)

=============================================================================
