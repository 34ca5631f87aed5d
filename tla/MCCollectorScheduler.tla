------------------------ MODULE MCCollectorScheduler ------------------------
(* Instances of CollectorScheduler for TLC: four days of history in windows *)
(* of two, and days 0 .. MaxDay on which the service runs.                  *)
EXTENDS CollectorScheduler

(* Every day but one has rows, so that windows may also be partly empty. *)
MCPublished == (-BackfillDays .. MaxDay) \ {-1}

=============================================================================
