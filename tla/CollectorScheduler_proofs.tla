--------------------- MODULE CollectorScheduler_proofs ---------------------
(***************************************************************************)
(* Proofs about CollectorScheduler, for every set of HTTP threads, every    *)
(* span and window length, every calendar of published days and every set   *)
(* of faults: type correctness, the exclusion of forced collections, the    *)
(* soundness of the backfill's checkpoint, and that the module implements   *)
(* BackfillLedger.                                                          *)
(***************************************************************************)
EXTENDS CollectorScheduler, TLAPS

-----------------------------------------------------------------------------
(* The inductive invariant *)

(* Which thread runs what, and where: the scheduler thread alone runs       *)
(* backfills and daily runs, HTTP threads alone run forced collections.     *)
ThreadInv ==
    \A p \in Proc :
        /\ kind[p] = "none" <=> pc[p] \in {"idle", "admit"}
        /\ pc[p] = "admit" => p = Sched
        /\ kind[p] = "backfill" =>
              p = Sched /\ pc[p] \in Locations \ {"idle", "admit"}
        /\ kind[p] = "daily" => p = Sched /\ pc[p] \in {"collect", "save"}
        /\ kind[p] = "forced" =>
              pc[p] \in {"credentials", "authenticate", "collect", "save"}

(* What the scheduler thread knows of the database while it runs a backfill: *)
(* the state is still open, its checkpoint is the thread's own position, and *)
(* the current window is accounted for before the checkpoint passes it.      *)
BackfillInv ==
    /\ pc[Sched] = "admit" => initial.state \notin Finished
    /\ kind[Sched] = "backfill" =>
        /\ initial.state \notin Finished
        /\ pc[Sched] = "mark" =>
              IF initial.state = "in_progress"
              THEN end[Sched] = initial.next
              ELSE end[Sched] \in Nat
        /\ pc[Sched] \in {"collect", "save", "checkpoint", "complete"} =>
              initial = [state |-> "in_progress", next |-> end[Sched]]
        /\ pc[Sched] \in {"collect", "save", "checkpoint"} =>
              end[Sched] >= oldest[Sched]
        /\ pc[Sched] = "save" =>
              Window(Sched) \subseteq batch[Sched] \cup swallowed
        /\ pc[Sched] = "checkpoint" =>
              Window(Sched) \subseteq stored \cup swallowed
        /\ pc[Sched] = "complete" => end[Sched] < oldest[Sched]

IInv ==
    /\ TypeOK
    /\ ThreadInv
    /\ SingleForcedRun
    /\ BackfillInv
    /\ NoWindowSkipped

-----------------------------------------------------------------------------
(* Type correctness *)

LEMMA InitTypeOK == Init => TypeOK
<1> SUFFICES ASSUME Init
             PROVE  TypeOK
  OBVIOUS
<1>1. FlagsOK
  BY Zenon DEF Init, FlagsOK
<1>2. ThreadsOK
  BY DEF Init, ThreadsOK, Locations
<1>3. DataOK
  BY CredentialAssumption DEF Init, DataOK
<1>4. QED
  BY <1>1, <1>2, <1>3 DEF TypeOK

LEMMA ReturnFlags ==
  ASSUME FlagsOK, NEW p, NEW success \in BOOLEAN, Return(p, success)
  PROVE  retryWait' \in BOOLEAN /\ initialJob' \in BOOLEAN
  BY Zenon DEF FlagsOK, Return

LEMMA NextFlagsOK ==
  ASSUME FlagsOK, [Next]_vars
  PROVE  FlagsOK'
<1> USE DEF database, memory, history
<1>1. CASE InitialJob
  BY <1>1, Zenon
  DEF FlagsOK, InitialJob, InitialJobDecides, InitialJobCannotRead,
      InitialJobStarts
<1>2. CASE AdmitBackfill
  BY <1>2, Zenon DEF FlagsOK, AdmitBackfill
<1>3. ASSUME NEW h \in Http, AdmitRequest(h)
      PROVE  FlagsOK'
  BY <1>3, Zenon DEF FlagsOK, AdmitRequest
<1>4. ASSUME NEW p \in Proc, Collection(p)
      PROVE  FlagsOK'
  <2>1. CASE CheckCredentials(p)
    BY <2>1, ReturnFlags, Zenon DEF FlagsOK, CheckCredentials
  <2>2. CASE Authenticate(p) \/ AuthenticateFails(p)
    BY <2>2, ReturnFlags, Zenon DEF FlagsOK, Authenticate, AuthenticateFails
  <2>3. CASE MarkInProgress(p) \/ SaveCheckpoint(p)
    BY <2>3, Zenon DEF FlagsOK, MarkInProgress, SaveCheckpoint
  <2>4. CASE CompleteBackfill(p) \/ DatabaseFails(p)
    BY <2>4, ReturnFlags, Zenon
    DEF FlagsOK, CompleteBackfill, DatabaseFails
  <2>5. CASE CollectPages(p) \/ CollectNothing(p)
    BY <2>5, Zenon DEF FlagsOK, CollectPages, CollectNothing
  <2>6. CASE CollectFails(p)
    BY <2>6, ReturnFlags, Zenon DEF FlagsOK, CollectFails
  <2>7. CASE SaveRows(p) \/ SaveRollsBack(p)
    BY <2>7, ReturnFlags, Zenon DEF FlagsOK, SaveRows, SaveRollsBack, AfterSave
  <2>8. QED
    BY <1>4, <2>1, <2>2, <2>3, <2>4, <2>5, <2>6, <2>7 DEF Collection
<1>5. CASE DailyJob
  BY <1>5, Zenon DEF FlagsOK, DailyJob
<1>6. CASE RetryElapses \/ SessionExpires \/ NextDay \/ AddForeignRow \/ Restart
  BY <1>6, Zenon
  DEF FlagsOK, RetryElapses, SessionExpires, NextDay, AddForeignRow, Restart
<1>7. ASSUME NEW c \in CredentialStates, SetCredentials(c)
      PROVE  FlagsOK'
  BY <1>7, Zenon DEF FlagsOK, SetCredentials
<1>8. CASE Crash
  BY <1>8, Zenon DEF FlagsOK, Crash
<1>9. CASE UNCHANGED vars
  BY <1>9, Zenon DEF FlagsOK, vars
<1>10. QED
  BY <1>1, <1>2, <1>3, <1>4, <1>5, <1>6, <1>7, <1>8, <1>9 DEF Next

LEMMA ReturnThreads ==
  ASSUME ThreadsOK, NEW p \in Proc, NEW success \in BOOLEAN, Return(p, success)
  PROVE  ThreadsOK'
  BY DEF ThreadsOK, Return, Locations

LEMMA CollectionThreadsOK ==
  ASSUME DataOK, ThreadsOK, NEW p \in Proc, Collection(p)
  PROVE  ThreadsOK'
<1> USE DEF run, GoTo, Locations
<1>1. CASE CheckCredentials(p)
  <2>1. CASE creds = "enabled"
    BY <1>1, <2>1 DEF ThreadsOK, CheckCredentials
  <2>2. CASE creds # "enabled"
    BY <1>1, <2>2, ReturnThreads DEF CheckCredentials
  <2>3. QED
    BY <2>1, <2>2
<1>2. CASE Authenticate(p)
  BY <1>2, SpanAssumption DEF ThreadsOK, DataOK, Authenticate, SetSpan
<1>3. CASE MarkInProgress(p)
  BY <1>3 DEF ThreadsOK, MarkInProgress, NextWindow
<1>4. CASE SaveCheckpoint(p)
  <2>1. WindowStart(p) \in Int
    BY SpanAssumption DEF ThreadsOK, WindowStart
  <2>2. QED
    BY <1>4, <2>1 DEF ThreadsOK, SaveCheckpoint, NextWindow
<1>5. CASE \/ AuthenticateFails(p) \/ CompleteBackfill(p)
           \/ DatabaseFails(p) \/ CollectFails(p)
  BY <1>5, ReturnThreads
  DEF AuthenticateFails, CompleteBackfill, DatabaseFails, CollectFails
<1>6. CASE CollectPages(p)
  BY <1>6 DEF ThreadsOK, CollectPages, Window
<1>7. CASE CollectNothing(p)
  BY <1>7 DEF ThreadsOK, CollectNothing
<1>8. CASE AfterSave(p)
  <2>1. CASE kind[p] = "backfill"
    BY <1>8, <2>1 DEF ThreadsOK, AfterSave
  <2>2. CASE kind[p] # "backfill"
    BY <1>8, <2>2, ReturnThreads DEF AfterSave
  <2>3. QED
    BY <2>1, <2>2
<1>9. QED
  BY <1>1, <1>2, <1>3, <1>4, <1>5, <1>6, <1>7, <1>8
  DEF Collection, SaveRows, SaveRollsBack

LEMMA NextThreadsOK ==
  ASSUME DataOK, ThreadsOK, [Next]_vars
  PROVE  ThreadsOK'
<1> USE DEF memory, run, GoTo, Locations
<1>1. CASE InitialJob
  BY <1>1
  DEF ThreadsOK, InitialJob, InitialJobDecides, InitialJobCannotRead,
      InitialJobStarts
<1>2. CASE AdmitBackfill
  BY <1>2 DEF ThreadsOK, AdmitBackfill
<1>3. ASSUME NEW h \in Http, AdmitRequest(h)
      PROVE  ThreadsOK'
  BY <1>3 DEF ThreadsOK, AdmitRequest
<1>4. ASSUME NEW p \in Proc, Collection(p)
      PROVE  ThreadsOK'
  BY <1>4, CollectionThreadsOK
<1>5. CASE DailyJob
  BY <1>5 DEF ThreadsOK, DataOK, DailyJob
<1>6. CASE RetryElapses \/ SessionExpires \/ NextDay \/ AddForeignRow \/ Restart
  BY <1>6
  DEF ThreadsOK, RetryElapses, SessionExpires, NextDay, AddForeignRow, Restart
<1>7. ASSUME NEW c \in CredentialStates, SetCredentials(c)
      PROVE  ThreadsOK'
  BY <1>7 DEF ThreadsOK, SetCredentials
<1>8. CASE Crash
  BY <1>8 DEF ThreadsOK, Crash
<1>9. CASE UNCHANGED vars
  BY <1>9 DEF ThreadsOK, vars
<1>10. QED
  BY <1>1, <1>2, <1>3, <1>4, <1>5, <1>6, <1>7, <1>8, <1>9 DEF Next

LEMMA CollectionDataOK ==
  ASSUME DataOK, ThreadsOK, NEW p \in Proc, Collection(p)
  PROVE  DataOK'
<1> USE DEF DataOK, database, history, Mishap, Return
<1>1. CASE CheckCredentials(p)
  BY <1>1 DEF CheckCredentials
<1>2. CASE Authenticate(p)
  BY <1>2 DEF Authenticate
<1>3. CASE MarkInProgress(p)
  BY <1>3 DEF ThreadsOK, MarkInProgress
<1>4. CASE SaveCheckpoint(p)
  <2>1. WindowStart(p) \in Int
    BY SpanAssumption DEF ThreadsOK, WindowStart
  <2>2. QED
    BY <1>4, <2>1 DEF SaveCheckpoint
<1>5. CASE CompleteBackfill(p)
  BY <1>5 DEF ThreadsOK, CompleteBackfill
<1>6. CASE AuthenticateFails(p) \/ DatabaseFails(p)
  <2>1. CASE AuthenticateFails(p)
    BY <2>1 DEF AuthenticateFails
  <2>2. CASE DatabaseFails(p)
    BY <2>2 DEF DatabaseFails
  <2>3. QED
    BY <1>6, <2>1, <2>2
<1>7. CASE CollectPages(p)
  BY <1>7 DEF CollectPages, DailyEnds
<1>8. CASE CollectNothing(p)
  BY <1>8 DEF CollectNothing, DailyEnds, Lose, Window
<1>9. CASE CollectFails(p)
  BY <1>9 DEF CollectFails, DailyEnds
<1>10. CASE SaveRows(p)
  BY <1>10 DEF ThreadsOK, SaveRows, AfterSave
<1>11. CASE SaveRollsBack(p)
  <2>1. active' \subseteq {"REGTECH"}
    BY <1>11 DEF SaveRollsBack, AfterSave
  <2>2. mishaps' \in Nat
    BY <1>11 DEF SaveRollsBack
  <2>3. swallowed' \subseteq Published
    BY <1>11 DEF ThreadsOK, SaveRollsBack, Lose
  <2>4. QED
    BY <1>11, <2>1, <2>2, <2>3 DEF SaveRollsBack
<1>12. QED
  BY <1>1, <1>2, <1>3, <1>4, <1>5, <1>6, <1>7, <1>8, <1>9, <1>10, <1>11
  DEF Collection

LEMMA NextDataOK ==
  ASSUME DataOK, ThreadsOK, [Next]_vars
  PROVE  DataOK'
<1> USE DEF DataOK, database, memory, history, Mishap
<1>1. CASE InitialJob
  <2>1. CASE InitialJobDecides
    BY <2>1 DEF InitialJobDecides
  <2>2. CASE InitialJobCannotRead
    BY <2>2 DEF InitialJobCannotRead
  <2>3. CASE InitialJobStarts
    BY <2>3 DEF InitialJobStarts
  <2>4. QED
    BY <1>1, <2>1, <2>2, <2>3 DEF InitialJob
<1>2. CASE AdmitBackfill
  BY <1>2 DEF AdmitBackfill
<1>3. ASSUME NEW h \in Http, AdmitRequest(h)
      PROVE  DataOK'
  BY <1>3 DEF AdmitRequest
<1>4. ASSUME NEW p \in Proc, Collection(p)
      PROVE  DataOK'
  BY <1>4, CollectionDataOK
<1>5. CASE DailyJob
  BY <1>5 DEF DailyJob
<1>6. CASE RetryElapses \/ SessionExpires \/ NextDay \/ AddForeignRow \/ Restart
  <2>1. today' \in Nat
    BY <1>6 DEF RetryElapses, SessionExpires, NextDay, AddForeignRow, Restart
  <2>2. QED
    BY <1>6, <2>1
    DEF RetryElapses, SessionExpires, NextDay, AddForeignRow, Restart
<1>7. ASSUME NEW c \in CredentialStates, SetCredentials(c)
      PROVE  DataOK'
  BY <1>7, CredentialAssumption DEF SetCredentials
<1>8. CASE Crash
  BY <1>8 DEF Crash
<1>9. CASE UNCHANGED vars
  BY <1>9 DEF vars
<1>10. QED
  BY <1>1, <1>2, <1>3, <1>4, <1>5, <1>6, <1>7, <1>8, <1>9 DEF Next

(* Every variable keeps its type, for every value of the constants. *)
THEOREM TypeCorrect == Spec => []TypeOK
<1>1. Init => TypeOK
  BY InitTypeOK
<1>2. TypeOK /\ [Next]_vars => TypeOK'
  BY NextFlagsOK, NextThreadsOK, NextDataOK DEF TypeOK
<1>3. QED
  BY <1>1, <1>2, PTL DEF Spec

-----------------------------------------------------------------------------
(* Who runs what *)

LEMMA ReturnThreadInv ==
  ASSUME ThreadsOK, ThreadInv, NEW p \in Proc, NEW success \in BOOLEAN,
         Return(p, success)
  PROVE  ThreadInv'
  BY DEF ThreadsOK, ThreadInv, Return, Locations

LEMMA CollectionThreadInv ==
  ASSUME ThreadsOK, ThreadInv, NEW p \in Proc, Collection(p)
  PROVE  ThreadInv'
<1> USE DEF run, GoTo, At
<1>1. CASE CheckCredentials(p)
  <2>1. CASE creds = "enabled"
    BY <1>1, <2>1 DEF ThreadsOK, ThreadInv, CheckCredentials, Locations
  <2>2. CASE creds # "enabled"
    BY <1>1, <2>2, ReturnThreadInv DEF CheckCredentials
  <2>3. QED
    BY <2>1, <2>2
<1>2. CASE Authenticate(p)
  BY <1>2 DEF ThreadsOK, ThreadInv, Authenticate, Locations
<1>3. CASE MarkInProgress(p)
  BY <1>3 DEF ThreadsOK, ThreadInv, MarkInProgress, NextWindow, Locations
<1>4. CASE SaveCheckpoint(p)
  BY <1>4 DEF ThreadsOK, ThreadInv, SaveCheckpoint, NextWindow, Locations
<1>5. CASE \/ AuthenticateFails(p) \/ CompleteBackfill(p)
           \/ DatabaseFails(p) \/ CollectFails(p)
  BY <1>5, ReturnThreadInv
  DEF AuthenticateFails, CompleteBackfill, DatabaseFails, CollectFails
<1>6. CASE CollectPages(p) \/ CollectNothing(p)
  BY <1>6 DEF ThreadsOK, ThreadInv, CollectPages, CollectNothing, Locations
<1>7. CASE (SaveRows(p) \/ SaveRollsBack(p)) /\ kind[p] = "backfill"
  BY <1>7
  DEF ThreadsOK, ThreadInv, SaveRows, SaveRollsBack, AfterSave, Locations
<1>8. CASE (SaveRows(p) \/ SaveRollsBack(p)) /\ kind[p] # "backfill"
  BY <1>8, ReturnThreadInv DEF SaveRows, SaveRollsBack, AfterSave
<1>9. QED
  BY <1>1, <1>2, <1>3, <1>4, <1>5, <1>6, <1>7, <1>8 DEF Collection

LEMMA NextThreadInv ==
  ASSUME ThreadsOK, ThreadInv, [Next]_vars
  PROVE  ThreadInv'
<1> USE DEF memory, run, GoTo, At, ThreadsOK, ThreadInv, Locations
<1>1. CASE InitialJob
  BY <1>1
  DEF InitialJob, InitialJobDecides, InitialJobCannotRead, InitialJobStarts
<1>2. CASE AdmitBackfill
  BY <1>2 DEF AdmitBackfill
<1>3. ASSUME NEW h \in Http, AdmitRequest(h)
      PROVE  ThreadInv'
  BY <1>3 DEF AdmitRequest
<1>4. ASSUME NEW p \in Proc, Collection(p)
      PROVE  ThreadInv'
  BY <1>4, CollectionThreadInv
<1>5. CASE DailyJob
  BY <1>5 DEF DailyJob
<1>6. CASE RetryElapses \/ SessionExpires \/ NextDay \/ AddForeignRow \/ Restart
  BY <1>6 DEF RetryElapses, SessionExpires, NextDay, AddForeignRow, Restart
<1>7. ASSUME NEW c \in CredentialStates, SetCredentials(c)
      PROVE  ThreadInv'
  BY <1>7 DEF SetCredentials
<1>8. CASE Crash
  BY <1>8 DEF Crash
<1>9. CASE UNCHANGED vars
  BY <1>9 DEF vars
<1>10. QED
  BY <1>1, <1>2, <1>3, <1>4, <1>5, <1>6, <1>7, <1>8, <1>9 DEF Next

-----------------------------------------------------------------------------
(* At most one forced collection *)

(* A step that changes no thread's kind and no admission keeps the exclusion, *)
(* and so does a return, which gives the admission back.                      *)
LEMMA ReturnSingle ==
  ASSUME ThreadsOK, DataOK, SingleForcedRun, NEW p \in Proc,
         NEW success \in BOOLEAN, Return(p, success)
  PROVE  SingleForcedRun'
  BY DEF ThreadsOK, DataOK, SingleForcedRun, InForceCollection, Forced, Return

LEMMA CollectionSingle ==
  ASSUME ThreadsOK, DataOK, SingleForcedRun, NEW p \in Proc, Collection(p)
  PROVE  SingleForcedRun'
<1>1. CASE UNCHANGED <<kind, active>>
  BY <1>1 DEF SingleForcedRun, InForceCollection, Forced
<1>2. CASE \E success \in BOOLEAN : Return(p, success)
  BY <1>2, ReturnSingle
<1>3. QED
  BY <1>1, <1>2
  DEF Collection, CheckCredentials, Authenticate, AuthenticateFails,
      MarkInProgress, SaveCheckpoint, CompleteBackfill, DatabaseFails,
      CollectPages, CollectNothing, CollectFails, SaveRows, SaveRollsBack,
      AfterSave, run

LEMMA NextSingle ==
  ASSUME ThreadsOK, DataOK, ThreadInv, SingleForcedRun, [Next]_vars
  PROVE  SingleForcedRun'
<1> USE DEF memory, run, At, ThreadsOK, DataOK, SingleForcedRun,
            InForceCollection, Forced
<1>1. CASE InitialJob
  BY <1>1
  DEF InitialJob, InitialJobDecides, InitialJobCannotRead, InitialJobStarts
<1>2. CASE AdmitBackfill
  BY <1>2 DEF AdmitBackfill, Proc
<1>3. ASSUME NEW h \in Http, AdmitRequest(h)
      PROVE  SingleForcedRun'
  BY <1>3 DEF AdmitRequest, Proc
<1>4. ASSUME NEW p \in Proc, Collection(p)
      PROVE  SingleForcedRun'
  BY <1>4, CollectionSingle
<1>5. CASE DailyJob
  BY <1>5 DEF DailyJob, ThreadInv
<1>6. CASE RetryElapses \/ SessionExpires \/ NextDay \/ AddForeignRow \/ Restart
  BY <1>6 DEF RetryElapses, SessionExpires, NextDay, AddForeignRow, Restart
<1>7. ASSUME NEW c \in CredentialStates, SetCredentials(c)
      PROVE  SingleForcedRun'
  BY <1>7 DEF SetCredentials
<1>8. CASE Crash
  BY <1>8 DEF Crash
<1>9. CASE UNCHANGED vars
  BY <1>9 DEF vars
<1>10. QED
  BY <1>1, <1>2, <1>3, <1>4, <1>5, <1>6, <1>7, <1>8, <1>9 DEF Next

-----------------------------------------------------------------------------
(* The running backfill and the database *)

(* A step that leaves the scheduler thread and the row alone, while the     *)
(* table and the history only grow, keeps BackfillInv.                      *)
LEMMA BackfillUndisturbed ==
  ASSUME BackfillInv, initial' = initial,
         stored \subseteq stored', swallowed \subseteq swallowed',
         pc'[Sched] = pc[Sched], kind'[Sched] = kind[Sched],
         end'[Sched] = end[Sched], oldest'[Sched] = oldest[Sched],
         batch'[Sched] = batch[Sched]
  PROVE  BackfillInv'
<1>1. Window(Sched)' = Window(Sched)
  BY DEF Window, WindowStart
<1>2. QED
  BY <1>1 DEF BackfillInv

LEMMA ReturnBackfill ==
  ASSUME ThreadsOK, BackfillInv, NEW p \in Proc, NEW success \in BOOLEAN,
         Return(p, success),
         p # Sched => initial' = initial,
         stored \subseteq stored', swallowed \subseteq swallowed'
  PROVE  BackfillInv'
<1>1. CASE p = Sched
  BY <1>1 DEF ThreadsOK, BackfillInv, Return
<1>2. CASE p # Sched
  BY <1>2, BackfillUndisturbed DEF ThreadsOK, Return
<1>3. QED
  BY <1>1, <1>2

(* Only the scheduler thread is ever at a step that writes the row. *)
LEMMA RowWriter ==
  ASSUME ThreadsOK, ThreadInv, NEW p \in Proc,
         pc[p] \in {"mark", "checkpoint", "complete"}
  PROVE  p = Sched /\ kind[p] = "backfill"
  BY DEF ThreadInv, ThreadsOK, Locations

LEMMA OthersBackfill ==
  ASSUME ThreadsOK, ThreadInv, BackfillInv,
         NEW p \in Proc, p # Sched, Collection(p)
  PROVE  BackfillInv'
<1>1. pc[p] \notin {"mark", "checkpoint", "complete"}
  BY RowWriter
<1>2. /\ initial' = initial
      /\ stored \subseteq stored'
      /\ swallowed \subseteq swallowed'
  BY <1>1
  DEF Collection, CheckCredentials, Authenticate, AuthenticateFails,
      MarkInProgress, SaveCheckpoint, CompleteBackfill, DatabaseFails,
      CollectPages, CollectNothing, CollectFails, SaveRows, SaveRollsBack,
      Lose, At, database, history
<1>3. CASE \E success \in BOOLEAN : Return(p, success)
  BY <1>2, <1>3, ReturnBackfill
<1>4. ASSUME UNCHANGED run, NEW location, GoTo(p, location)
      PROVE  BackfillInv'
  BY <1>2, <1>4, BackfillUndisturbed DEF ThreadsOK, GoTo, run
<1>5. CASE Authenticate(p)
  BY <1>2, <1>5, BackfillUndisturbed
  DEF ThreadsOK, Authenticate, SetSpan, GoTo
<1>6. ASSUME UNCHANGED <<kind, end, oldest>>,
             NEW days, batch' = [batch EXCEPT ![p] = days],
             NEW location, GoTo(p, location)
      PROVE  BackfillInv'
  BY <1>2, <1>6, BackfillUndisturbed DEF ThreadsOK, GoTo
<1>7. CASE CheckCredentials(p) \/ SaveRows(p) \/ SaveRollsBack(p)
  BY <1>3, <1>4, <1>7
  DEF CheckCredentials, SaveRows, SaveRollsBack, AfterSave
<1>8. CASE CollectPages(p)
  BY <1>6, <1>8 DEF CollectPages
<1>9. CASE CollectNothing(p)
  BY <1>6, <1>9 DEF CollectNothing
<1>10. QED
  BY <1>1, <1>3, <1>5, <1>7, <1>8, <1>9
  DEF Collection, AuthenticateFails, MarkInProgress, SaveCheckpoint,
      CompleteBackfill, DatabaseFails, CollectFails, At

LEMMA SchedBackfill ==
  ASSUME ThreadsOK, DataOK, ThreadInv, BackfillInv, Collection(Sched)
  PROVE  BackfillInv'
<1> Sched \in Proc
  BY DEF Proc
<1> WindowStart(Sched) \in Int
  BY SpanAssumption DEF ThreadsOK, WindowStart
<1> USE DEF run, GoTo, At
<1>1. ASSUME NEW success \in BOOLEAN, Return(Sched, success),
             stored \subseteq stored', swallowed \subseteq swallowed'
      PROVE  BackfillInv'
  BY <1>1, ReturnBackfill
<1>2. CASE CheckCredentials(Sched)
  <2>1. CASE creds = "enabled"
    BY <1>2, <2>1
    DEF ThreadsOK, BackfillInv, CheckCredentials, database, history
  <2>2. CASE creds # "enabled"
    BY <1>1, <1>2, <2>2 DEF CheckCredentials, database, history
  <2>3. QED
    BY <2>1, <2>2
<1>3. CASE Authenticate(Sched)
  BY <1>3
  DEF ThreadsOK, DataOK, BackfillInv, Authenticate, SetSpan, database, history
<1>4. CASE MarkInProgress(Sched)
  BY <1>4
  DEF ThreadsOK, DataOK, BackfillInv, MarkInProgress, NextWindow, Finished
<1>5. CASE SaveCheckpoint(Sched)
  BY <1>5 DEF ThreadsOK, DataOK, BackfillInv, SaveCheckpoint, NextWindow
<1>6. CASE CompleteBackfill(Sched)
  BY <1>1, <1>6 DEF CompleteBackfill
<1>7. CASE \/ AuthenticateFails(Sched) \/ DatabaseFails(Sched)
           \/ CollectFails(Sched)
  BY <1>1, <1>7
  DEF AuthenticateFails, DatabaseFails, CollectFails, database, history
<1>8. CASE CollectPages(Sched)
  <2>1. kind[Sched] = "backfill" =>
           /\ batch'[Sched] = Window(Sched)
           /\ Window(Sched)' = Window(Sched)
    BY <1>8 DEF ThreadsOK, CollectPages, Window, WindowStart
  <2>2. QED
    BY <1>8, <2>1 DEF ThreadsOK, BackfillInv, CollectPages, database
<1>9. CASE CollectNothing(Sched)
  <2>1. Window(Sched)' = Window(Sched)
    BY <1>9 DEF CollectNothing, Window, WindowStart
  <2>2. QED
    BY <1>9, <2>1 DEF ThreadsOK, BackfillInv, CollectNothing, Lose, database
<1>10. CASE (SaveRows(Sched) \/ SaveRollsBack(Sched)) /\ kind[Sched] = "backfill"
  <2>1. Window(Sched)' = Window(Sched)
    BY <1>10 DEF SaveRows, SaveRollsBack, AfterSave, Window, WindowStart
  <2>2. /\ initial' = initial
        /\ batch[Sched] \cup swallowed \subseteq stored' \cup swallowed'
    BY <1>10 DEF SaveRows, SaveRollsBack, Lose, database, history
  <2>3. QED
    BY <1>10, <2>1, <2>2
    DEF ThreadsOK, BackfillInv, SaveRows, SaveRollsBack, AfterSave
<1>11. CASE (SaveRows(Sched) \/ SaveRollsBack(Sched)) /\ kind[Sched] # "backfill"
  BY <1>1, <1>11
  DEF SaveRows, SaveRollsBack, AfterSave, Lose, database, history
<1>12. QED
  BY <1>2, <1>3, <1>4, <1>5, <1>6, <1>7, <1>8, <1>9, <1>10, <1>11
  DEF Collection

LEMMA NextBackfill ==
  ASSUME ThreadsOK, DataOK, ThreadInv, BackfillInv, [Next]_vars
  PROVE  BackfillInv'
<1> Sched \in Proc
  BY DEF Proc
<1> USE DEF database, memory, history, run, GoTo, At
<1>1. CASE InitialJobDecides
  BY <1>1 DEF ThreadInv, BackfillInv, InitialJobDecides
<1>2. CASE InitialJobStarts
  BY <1>2 DEF ThreadsOK, ThreadInv, BackfillInv, InitialJobStarts, Finished
<1>3. CASE AdmitBackfill
  BY <1>3 DEF ThreadsOK, ThreadInv, BackfillInv, AdmitBackfill
<1>4. ASSUME NEW h \in Http, AdmitRequest(h)
      PROVE  BackfillInv'
  BY <1>4, BackfillUndisturbed, SchedAssumption DEF ThreadsOK, AdmitRequest
<1>5. ASSUME NEW p \in Proc, Collection(p)
      PROVE  BackfillInv'
  BY <1>5, OthersBackfill, SchedBackfill
<1>6. CASE DailyJob
  BY <1>6 DEF ThreadsOK, ThreadInv, BackfillInv, DailyJob
<1>7. CASE \/ InitialJobCannotRead \/ RetryElapses \/ SessionExpires
           \/ NextDay \/ AddForeignRow \/ Restart
  BY <1>7, BackfillUndisturbed
  DEF InitialJobCannotRead, RetryElapses, SessionExpires, NextDay,
      AddForeignRow, Restart
<1>8. ASSUME NEW c \in CredentialStates, SetCredentials(c)
      PROVE  BackfillInv'
  BY <1>8, BackfillUndisturbed DEF SetCredentials
<1>9. CASE Crash
  BY <1>9 DEF BackfillInv, Crash
<1>10. CASE UNCHANGED vars
  BY <1>10, BackfillUndisturbed DEF vars
<1>11. QED
  BY <1>1, <1>2, <1>3, <1>4, <1>5, <1>6, <1>7, <1>8, <1>9, <1>10
  DEF Next, InitialJob

-----------------------------------------------------------------------------
(* The checkpoint *)

LEMMA CheckpointUndisturbed ==
  ASSUME NoWindowSkipped,
         initial' = initial, startDay' = startDay, floor' = floor,
         stored \subseteq stored', swallowed \subseteq swallowed'
  PROVE  NoWindowSkipped'
  BY DEF NoWindowSkipped, Checkpointed

LEMMA CollectionCheckpoint ==
  ASSUME ThreadsOK, DataOK, ThreadInv, BackfillInv, NoWindowSkipped,
         NEW p \in Proc, Collection(p)
  PROVE  NoWindowSkipped'
<1>1. CASE MarkInProgress(p)
  <2>1. p = Sched /\ kind[p] = "backfill"
    BY <1>1, RowWriter DEF MarkInProgress, At
  <2>2. CASE initial.state = "in_progress"
    <3>1. /\ initial' = [state |-> "in_progress", next |-> initial.next]
          /\ UNCHANGED <<startDay, stored, swallowed>>
      BY <1>1, <2>1, <2>2 DEF MarkInProgress, BackfillInv, At
    <3>2. QED
      BY <2>2, <3>1 DEF NoWindowSkipped, Checkpointed
  <2>3. CASE initial.state = "none"
    <3>1. initial' = [state |-> "in_progress", next |-> startDay']
      BY <1>1, <2>3 DEF MarkInProgress
    <3>2. startDay' \in Int
      BY <1>1, <2>3 DEF MarkInProgress, ThreadsOK
    <3>3. Checkpointed' = {}
      <4>1. ASSUME NEW d \in Published
            PROVE  ~(d <= startDay' /\ d > initial'.next)
        BY <3>1, <3>2, PublishedAssumption
      <4>2. initial'.state = "in_progress"
        BY <3>1
      <4>3. QED
        BY <4>1, <4>2 DEF Checkpointed
    <3>4. QED
      BY <3>3 DEF NoWindowSkipped
  <2>4. QED
    BY <2>1, <2>2, <2>3 DEF BackfillInv, DataOK, Finished
<1>2. CASE SaveCheckpoint(p)
  <2>1. p = Sched /\ kind[p] = "backfill"
    BY <1>2, RowWriter DEF SaveCheckpoint, At
  <2>2. /\ initial = [state |-> "in_progress", next |-> end[p]]
        /\ Window(p) \subseteq stored \cup swallowed
    BY <1>2, <2>1 DEF SaveCheckpoint, BackfillInv, At
  <2>3. /\ initial' = [state |-> "in_progress", next |-> WindowStart(p) - 1]
        /\ UNCHANGED <<startDay, stored, swallowed>>
    BY <1>2 DEF SaveCheckpoint, history
  <2>4. WindowStart(p) \in Int /\ end[p] \in Int /\ startDay \in Int
    BY SpanAssumption DEF ThreadsOK, DataOK, WindowStart
  <2>5. Checkpointed' \subseteq Checkpointed \cup Window(p)
    <3>1. ASSUME NEW d \in Published, d > initial'.next
          PROVE  d > initial.next \/ (WindowStart(p) <= d /\ d <= end[p])
      BY <2>2, <2>3, <2>4, <3>1, PublishedAssumption
    <3>2. initial.state = "in_progress" /\ initial'.state = "in_progress"
      BY <2>2, <2>3
    <3>3. QED
      BY <2>3, <3>1, <3>2 DEF Checkpointed, Window
  <2>6. QED
    BY <2>2, <2>3, <2>5 DEF NoWindowSkipped
<1>3. CASE CompleteBackfill(p)
  <2>1. p = Sched /\ kind[p] = "backfill"
    BY <1>3, RowWriter DEF CompleteBackfill, At
  <2>2. /\ initial = [state |-> "in_progress", next |-> end[p]]
        /\ end[p] < oldest[p]
    BY <1>3, <2>1 DEF CompleteBackfill, BackfillInv, At
  <2>3. /\ initial' = [state |-> "complete", next |-> 0]
        /\ floor' = oldest[p]
        /\ UNCHANGED <<startDay, stored, swallowed>>
    BY <1>3 DEF CompleteBackfill
  <2>4. end[p] \in Int /\ oldest[p] \in Int
    BY DEF ThreadsOK
  <2>5. Checkpointed' \subseteq Checkpointed
    <3>1. ASSUME NEW d \in Published, d >= floor'
          PROVE  d > initial.next
      BY <2>2, <2>3, <2>4, <3>1, PublishedAssumption
    <3>2. initial.state = "in_progress" /\ initial'.state = "complete"
      BY <2>2, <2>3
    <3>3. QED
      BY <2>3, <3>1, <3>2 DEF Checkpointed
  <2>6. QED
    BY <2>3, <2>5 DEF NoWindowSkipped
<1>4. CASE ~(MarkInProgress(p) \/ SaveCheckpoint(p) \/ CompleteBackfill(p))
  <2>1. /\ initial' = initial /\ startDay' = startDay /\ floor' = floor
        /\ stored \subseteq stored' /\ swallowed \subseteq swallowed'
    BY <1>4
    DEF Collection, CheckCredentials, Authenticate, AuthenticateFails,
        DatabaseFails, CollectPages, CollectNothing, CollectFails,
        SaveRows, SaveRollsBack, Lose, database, history
  <2>2. QED
    BY <2>1, CheckpointUndisturbed
<1>5. QED
  BY <1>1, <1>2, <1>3, <1>4

LEMMA NextCheckpoint ==
  ASSUME ThreadsOK, DataOK, ThreadInv, BackfillInv, NoWindowSkipped,
         [Next]_vars
  PROVE  NoWindowSkipped'
<1> USE DEF database, memory, history
<1>1. CASE InitialJobDecides
  <2>1. CASE initial' = [state |-> "skipped", next |-> 0]
    BY <2>1 DEF NoWindowSkipped, Checkpointed
  <2>2. CASE initial' = initial
    BY <1>1, <2>2, CheckpointUndisturbed DEF InitialJobDecides
  <2>3. QED
    BY <1>1, <2>1, <2>2 DEF InitialJobDecides
<1>2. ASSUME NEW p \in Proc, Collection(p)
      PROVE  NoWindowSkipped'
  BY <1>2, CollectionCheckpoint
<1>3. CASE \/ InitialJobCannotRead \/ InitialJobStarts \/ AdmitBackfill
           \/ \E h \in Http : AdmitRequest(h)
  BY <1>3, CheckpointUndisturbed
  DEF InitialJobCannotRead, InitialJobStarts, AdmitBackfill, AdmitRequest
<1>4. CASE \/ DailyJob \/ RetryElapses \/ SessionExpires \/ NextDay
           \/ (\E c \in CredentialStates : SetCredentials(c))
           \/ AddForeignRow \/ Crash \/ Restart \/ UNCHANGED vars
  BY <1>4, CheckpointUndisturbed
  DEF DailyJob, RetryElapses, SessionExpires, NextDay, SetCredentials,
      AddForeignRow, Crash, Restart, vars
<1>5. QED
  BY <1>1, <1>2, <1>3, <1>4 DEF Next, InitialJob

-----------------------------------------------------------------------------
(* The invariants, as theorems of the specification *)

LEMMA InitIInv == Init => IInv
<1> SUFFICES ASSUME Init
             PROVE  IInv
  OBVIOUS
<1>1. ThreadInv
  BY DEF Init, ThreadInv
<1>2. SingleForcedRun
  BY DEF Init, SingleForcedRun, InForceCollection, Forced
<1>3. BackfillInv
  BY DEF Init, BackfillInv, Proc
<1>4. NoWindowSkipped
  BY DEF Init, NoWindowSkipped, Checkpointed
<1>5. QED
  BY <1>1, <1>2, <1>3, <1>4, InitTypeOK DEF IInv

THEOREM Inductive == Spec => []IInv
<1>1. IInv /\ [Next]_vars => IInv'
  BY NextFlagsOK, NextThreadsOK, NextDataOK, NextThreadInv, NextSingle,
     NextBackfill, NextCheckpoint
  DEF IInv, TypeOK
<1>2. QED
  BY <1>1, InitIInv, PTL DEF Spec

(* At most one collection is between its admission by force_collection and  *)
(* its finally clause, and _active_collections says so.                     *)
THEOREM ForcedRunsExclude == Spec => []SingleForcedRun
<1>1. IInv => SingleForcedRun
  BY DEF IInv
<1>2. QED
  BY <1>1, Inductive, PTL

(* The checkpoint of the backfill never passes a published day that is not  *)
(* in the table, save those a swallowed failure lost.                       *)
THEOREM CheckpointSound == Spec => []NoWindowSkipped
<1>1. IInv => NoWindowSkipped
  BY DEF IInv
<1>2. QED
  BY <1>1, Inductive, PTL

(* No backfill runs once the database says it is complete or unnecessary. *)
THEOREM DecisionsAreFinal == Spec => []NoBackfillAfterDecision
<1>1. IInv => NoBackfillAfterDecision
  BY DEF IInv, ThreadInv, BackfillInv, NoBackfillAfterDecision
<1>2. QED
  BY <1>1, Inductive, PTL

-----------------------------------------------------------------------------
(* Refinement: the REGTECH_INITIAL row behaves as a BackfillLedger *)

LEMMA CoverGrows ==
  ASSUME TypeOK, [Next]_vars
  PROVE  stored \subseteq stored' /\ swallowed \subseteq swallowed'
<1> USE DEF database, memory, history
<1>1. ASSUME NEW p \in Proc, Collection(p)
      PROVE  stored \subseteq stored' /\ swallowed \subseteq swallowed'
  BY <1>1
  DEF Collection, CheckCredentials, Authenticate, AuthenticateFails,
      MarkInProgress, SaveCheckpoint, CompleteBackfill, DatabaseFails,
      CollectPages, CollectNothing, CollectFails, SaveRows, SaveRollsBack,
      Lose
<1>2. CASE InitialJob \/ AdmitBackfill \/ \E h \in Http : AdmitRequest(h)
  BY <1>2
  DEF InitialJob, InitialJobDecides, InitialJobCannotRead, InitialJobStarts,
      AdmitBackfill, AdmitRequest
<1>3. CASE \/ DailyJob \/ RetryElapses \/ SessionExpires \/ NextDay
           \/ (\E c \in CredentialStates : SetCredentials(c))
           \/ AddForeignRow \/ Crash \/ Restart \/ UNCHANGED vars
  BY <1>3
  DEF DailyJob, RetryElapses, SessionExpires, NextDay, SetCredentials,
      AddForeignRow, Crash, Restart, vars
<1>4. QED
  BY <1>1, <1>2, <1>3 DEF Next

(* A step that leaves the row alone accounts for more days, or for none. *)
LEMMA RowUndisturbed ==
  ASSUME IInv, [Next]_vars, initial' = initial
  PROVE  Ledger!Next
<1>1. stored' \subseteq Published /\ swallowed' \subseteq Published
  BY NextDataOK DEF IInv, TypeOK, DataOK
<1>2. Ledger!Account
  BY <1>1, CoverGrows DEF IInv, Ledger!Account
<1>3. QED
  BY <1>2 DEF Ledger!Next

LEMMA CollectionRefines ==
  ASSUME IInv, NEW p \in Proc, Collection(p)
  PROVE  Ledger!Next
<1> USE DEF IInv, TypeOK
<1>1. ASSUME initial' = initial
      PROVE  Ledger!Next
  BY <1>1, RowUndisturbed DEF Next
<1>2. CASE MarkInProgress(p)
  <2>1. p = Sched /\ kind[p] = "backfill" /\ end[p] \in Int
    BY <1>2, RowWriter DEF MarkInProgress, At, ThreadsOK
  <2>2. CASE initial.state = "in_progress"
    <3>1. end[p] = initial.next
      BY <1>2, <2>1, <2>2 DEF MarkInProgress, At, BackfillInv
    <3>2. initial = [state |-> "in_progress", next |-> initial.next]
      BY <2>2 DEF DataOK
    <3>3. QED
      BY <1>1, <1>2, <3>1, <3>2 DEF MarkInProgress
  <2>3. CASE initial.state = "none"
    <3>1. end[p] \in Nat
      BY <1>2, <2>1, <2>3 DEF MarkInProgress, At, BackfillInv
    <3>2. Ledger!Open
      BY <1>2, <2>3, <3>1 DEF MarkInProgress, Ledger!Open
    <3>3. QED
      BY <3>2 DEF Ledger!Next
  <2>4. QED
    BY <2>1, <2>2, <2>3 DEF BackfillInv, DataOK, Finished
<1>3. CASE SaveCheckpoint(p)
  <2>1. p = Sched /\ kind[p] = "backfill"
    BY <1>3, RowWriter DEF SaveCheckpoint, At
  <2>2. /\ initial = [state |-> "in_progress", next |-> end[p]]
        /\ end[p] >= oldest[p]
        /\ Window(p) \subseteq stored \cup swallowed
    BY <1>3, <2>1 DEF SaveCheckpoint, BackfillInv, At
  <2>3. /\ initial' = [state |-> "in_progress", next |-> WindowStart(p) - 1]
        /\ UNCHANGED <<stored, swallowed>>
    BY <1>3 DEF SaveCheckpoint, history
  <2> DEFINE n == end[p] - (WindowStart(p) - 1)
  <2>4. /\ WindowStart(p) \in Int /\ end[p] \in Int /\ n \in 1 .. WindowDays
        /\ WindowStart(p) - 1 = end[p] - n
    <3>1. oldest[p] \in Int /\ end[p] \in Int /\ end[p] >= oldest[p]
      BY <2>2 DEF ThreadsOK
    <3>2. CASE end[p] - (WindowDays - 1) > oldest[p]
      BY <2>1, <3>1, <3>2, SpanAssumption DEF WindowStart
    <3>3. CASE end[p] - (WindowDays - 1) <= oldest[p]
      BY <2>1, <3>1, <3>3, SpanAssumption DEF WindowStart
    <3>4. QED
      BY <3>1, <3>2, <3>3, SpanAssumption
  <2>5. initial.state = "in_progress" /\ initial.next = end[p]
    BY <2>2
  <2>6. initial' = [state |-> "in_progress", next |-> initial.next - n]
    BY <2>3, <2>4, <2>5
  <2>7. ASSUME NEW d \in Published, initial.next - n < d, d <= initial.next
        PROVE  d \in stored \cup swallowed
    BY <2>2, <2>4, <2>5, <2>7, PublishedAssumption DEF Window
  <2>8. Ledger!Recede
    BY <2>3, <2>4, <2>5, <2>6, <2>7 DEF Ledger!Recede
  <2>9. QED
    BY <2>8 DEF Ledger!Next
<1>4. CASE CompleteBackfill(p)
  <2>1. p = Sched /\ kind[p] = "backfill"
    BY <1>4, RowWriter DEF CompleteBackfill, At
  <2>2. initial.state = "in_progress"
    BY <1>4, <2>1 DEF CompleteBackfill, BackfillInv, At
  <2>3. Ledger!Close
    BY <1>4, <2>2 DEF CompleteBackfill, Ledger!Close
  <2>4. QED
    BY <2>3 DEF Ledger!Next
<1>5. CASE ~(MarkInProgress(p) \/ SaveCheckpoint(p) \/ CompleteBackfill(p))
  <2>1. initial' = initial
    BY <1>5
    DEF Collection, CheckCredentials, Authenticate, AuthenticateFails,
        DatabaseFails, CollectPages, CollectNothing, CollectFails,
        SaveRows, SaveRollsBack, database
  <2>2. QED
    BY <1>1, <2>1
<1>6. QED
  BY <1>2, <1>3, <1>4, <1>5

LEMMA NextRefines ==
  ASSUME IInv, [Next]_vars
  PROVE  Ledger!Next
<1> USE DEF database, memory, history
<1>1. CASE InitialJobDecides /\ initial' # initial
  <2>1. Ledger!Skip
    BY <1>1 DEF InitialJobDecides, Ledger!Skip
  <2>2. QED
    BY <2>1 DEF Ledger!Next
<1>2. ASSUME NEW p \in Proc, Collection(p)
      PROVE  Ledger!Next
  BY <1>2, CollectionRefines
<1>3. CASE \/ InitialJobCannotRead \/ InitialJobStarts \/ AdmitBackfill
           \/ \E h \in Http : AdmitRequest(h)
  <2>1. initial' = initial
    BY <1>3
    DEF InitialJobCannotRead, InitialJobStarts, AdmitBackfill, AdmitRequest
  <2>2. QED
    BY <2>1, RowUndisturbed
<1>4. CASE \/ DailyJob \/ RetryElapses \/ SessionExpires \/ NextDay
           \/ (\E c \in CredentialStates : SetCredentials(c))
           \/ AddForeignRow \/ Crash \/ Restart \/ UNCHANGED vars
  <2>1. initial' = initial
    BY <1>4
    DEF DailyJob, RetryElapses, SessionExpires, NextDay, SetCredentials,
        AddForeignRow, Crash, Restart, vars
  <2>2. QED
    BY <2>1, RowUndisturbed
<1>5. CASE InitialJobDecides /\ initial' = initial
  BY <1>5, RowUndisturbed
<1>6. QED
  BY <1>1, <1>2, <1>3, <1>4, <1>5 DEF Next, InitialJob

(* The REGTECH_INITIAL row implements BackfillLedger: it is opened once, its *)
(* checkpoint recedes by at most a window over days that are accounted for,  *)
(* and a decision is never revisited, whatever threads and restarts do.      *)
THEOREM Refinement == Spec => LedgerSpec
<1>1. Init => Ledger!Init
  BY DEF Init, Ledger!Init
<1>2. IInv /\ [Next]_vars => [Ledger!Next]_<<initial, stored \cup swallowed>>
  BY NextRefines
<1>3. QED
  BY <1>1, <1>2, Inductive, PTL DEF Spec, LedgerSpec, Ledger!Spec

=============================================================================
