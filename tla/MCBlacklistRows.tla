-------------------------- MODULE MCBlacklistRows --------------------------
(* Instances of BlacklistRows for TLC.  Earlier days have left at most one  *)
(* row, of the collector; rows of different addresses meet only in a batch. *)
EXTENDS BlacklistRows

MCDetections == {0}
MCRemovals   == {None, 1}

Old(a, d, r) == [id |-> 1, active |-> a, detection |-> d, removal |-> r]

MCTables ==
    {[k \in Keys |-> IF k[2] = "REGTECH" /\ k[1] \in S THEN row ELSE Absent] :
        S \in {{}, Administered},
        row \in {Old(TRUE, 0, None), Old(FALSE, None, None), Old(TRUE, 0, 1), Old(TRUE, 2, 2)}}

=============================================================================
