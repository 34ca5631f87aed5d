-------------------------- MODULE MCCloudflarePush --------------------------
(* Instance of CloudflarePush for TLC: two addresses, one of them reported   *)
(* by two sources, a guard that lets a list of two lose one of them, take a  *)
(* third row or be left with the repeated address, and refuses to replace a  *)
(* list of one by more; spans of two ticks.                                  *)
EXTENDS CloudflarePush, TLC

CONSTANTS a, b,         \* addresses
          ra, rb, sb    \* rows: sb is the second one of b

MCIpOf == ra :> a @@ rb :> b @@ sb :> b

=============================================================================
