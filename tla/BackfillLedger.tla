--------------------------- MODULE BackfillLedger ---------------------------
(***************************************************************************)
(* What the REGTECH_INITIAL row of collection_status promises its readers, *)
(* without threads, sessions or restarts: the ledger of the backfill is    *)
(* opened once, its checkpoint only recedes, by at most one window and     *)
(* only past days that are accounted for, and a decision is never          *)
(* revisited.                                                              *)
(***************************************************************************)
EXTENDS Integers

CONSTANTS
    WindowDays,  \* the longest span one step may checkpoint
    Published    \* the days that have rows to account for

VARIABLES
    ledger,      \* [state, next]: the row
    covered      \* the days accounted for

Init ==
    /\ ledger = [state |-> "none", next |-> 0]
    /\ covered = {}

Open ==
    /\ ledger.state = "none"
    /\ ledger'.next \in Nat
    /\ ledger' = [state |-> "in_progress", next |-> ledger'.next]
    /\ UNCHANGED covered

Skip ==
    /\ ledger.state = "none"
    /\ ledger' = [state |-> "skipped", next |-> 0]
    /\ UNCHANGED covered

Recede ==
    /\ ledger.state = "in_progress"
    /\ \E n \in 1..WindowDays :
          /\ ledger' = [state |-> "in_progress", next |-> ledger.next - n]
          /\ \A d \in Published :
                ledger.next - n < d /\ d <= ledger.next => d \in covered
    /\ UNCHANGED covered

Close ==
    /\ ledger.state = "in_progress"
    /\ ledger' = [state |-> "complete", next |-> 0]
    /\ UNCHANGED covered

Account ==
    /\ covered \subseteq covered'
    /\ covered' \subseteq Published
    /\ UNCHANGED ledger

Next == Open \/ Skip \/ Recede \/ Close \/ Account

Spec == Init /\ [][Next]_<<ledger, covered>>

=============================================================================
