-------------------------- MODULE MaintenanceProofs --------------------------
(* Proofs about Maintenance: the composition of the shutdown and the update,  *)
(* for any processes and any number of updates.                               *)
EXTENDS Maintenance, CygwinShutdownProofs, SetupIndexProofs

\* An update is in progress exactly when its process is alive.
Linked ==
    \A n \in 1..MaxUpdates : Updater[n] \in alive <=> Updating /\ n = update

MInv == ShutdownInv /\ IndexInv /\ Linked

-----------------------------------------------------------------------------
(* The update as seen by SetupIndex: nothing in the composition is new to it. *)

LEMMA IndexSimulated == [Next]_vars => [IndexNext]_indexVars
BY DEF Next, vars, StartUpdate, UpdateStep, UpdateDies, ShutdownStep, Others,
   IndexNext

\* The composition implements the specification of the update: killing it is a
\* behaviour that SetupIndex has.
THEOREM CompositionUpdates == Spec => IndexSpec
<1>1. Init => IndexInit
  BY DEF Init
<1>2. QED
  BY <1>1, IndexSimulated, PTL DEF Spec, IndexSpec

\* Killed by the shutdown or not, an update never loses the index.
THEOREM IndexSurvivesShutdown == Spec => []IndexSurvives
BY CompositionUpdates, IndexSurvivesAlways, PTL

\* ... and success means the whole new index and no backup.
THEOREM UpdateTruthfulUnderShutdown == Spec => []UpdateTruthful
BY CompositionUpdates, UpdateReportsTruth, PTL

\* ... and failure the old one put back.
THEOREM FailureRevertsUnderShutdown == Spec => []FailureReverts
BY CompositionUpdates, UpdateReportsTruth, PTL

-----------------------------------------------------------------------------
(* The update as seen by the shutdown: a process that starts or ends.         *)

\* A process ends, by itself or by the hand of another program, at any time.
LEMMA ProcessEnds ==
    ASSUME ShutdownInv, alive' \subseteq alive,
           UNCHANGED <<born, shpc, todo, snapshot, inJob, unassigned, verdict, refused>>
    PROVE  ShutdownInv'
BY DEF ShutdownInv, ShutdownTypeOK, Accounted, NothingSpared

\* A process starts that was not there before: no snapshot has it.
LEMMA ProcessStarts ==
    ASSUME ShutdownInv, NEW u \in Procs \ born,
           alive' = alive \cup {u}, born' = born \cup {u},
           UNCHANGED <<shpc, todo, snapshot, inJob, unassigned, verdict, refused>>
    PROVE  ShutdownInv'
BY DEF ShutdownInv, ShutdownTypeOK, Accounted, NothingSpared

\* A step of the shutdown starts nothing.
LEMMA ShutdownOnlyKills == ShutdownSteps => alive' \subseteq alive
BY DEF ShutdownSteps, TakeSnapshot, CreateJob, TerminateJob, Verify, AllKilled,
   Assign, KillDirect, KillNext, Dies

LEMMA MInitInv == Init => MInv
<1> SUFFICES ASSUME Init PROVE MInv
  OBVIOUS
<1>1. PICK running \in SUBSET (Procs \ Updaters) : ShutdownInit(running)
  BY DEF Init
<1>2. running \in SUBSET Procs /\ alive = running
  BY <1>1 DEF ShutdownInit
<1>3. ShutdownInv
  BY <1>1, <1>2, ShutdownInitInv
<1>4. IndexInv
  BY IndexInitInv DEF Init
<1>5. Linked
  BY <1>1, <1>2 DEF Init, IndexInit, Linked, Updating, Updaters
<1>6. QED
  BY <1>3, <1>4, <1>5 DEF MInv

LEMMA MStepInv == MInv /\ [Next]_vars => MInv'
<1> SUFFICES ASSUME MInv, [Next]_vars PROVE MInv'
  OBVIOUS
<1>1. IndexInv'
  BY IndexSimulated, IndexStepInv DEF MInv
<1>2. /\ update \in 0..MaxUpdates /\ MaxUpdates \in Nat
      /\ alive \subseteq born /\ born \subseteq Procs
  BY IndexAssumption DEF MInv, IndexInv, IndexTypeOK, ShutdownInv, ShutdownTypeOK
<1>3. CASE StartUpdate
  <2> DEFINE u == Updater[update']
  <2>1. /\ update' \in 1..MaxUpdates /\ u \in Procs
        /\ ~Updating /\ Updating'
    BY <1>2, <1>3, MaintenanceAssumption DEF StartUpdate, Start, Updating
  <2>2. /\ alive' = alive \cup {u}
        /\ ShutdownInv'
    <3>1. ASSUME NEW p \in alive, Fork(p, u) PROVE alive' = alive \cup {u} /\ ShutdownInv'
      BY <1>2, <2>1, <3>1, ShutdownStepInv DEF MInv, ShutdownNext, ProcessSteps, Fork
    <3>2. CASE /\ u \notin born /\ alive' = alive \cup {u} /\ born' = born \cup {u}
               /\ UNCHANGED <<shpc, todo, snapshot, inJob, unassigned, verdict, refused>>
      BY <2>1, <3>2, ProcessStarts DEF MInv
    <3>3. QED
      BY <1>3, <3>1, <3>2 DEF StartUpdate
  <2>3. Linked'
    BY <2>1, <2>2, MaintenanceAssumption DEF MInv, Linked
  <2>4. QED
    BY <1>1, <2>2, <2>3 DEF MInv
<1>4. ASSUME UpdateStep \/ UpdateDies PROVE MInv'
  <2>1. /\ Updating /\ update' = update
        /\ alive' = IF Updating' THEN alive ELSE alive \ {Updater[update]}
    BY <1>4 DEF UpdateStep, UpdateDies, UpdateSteps, Backup, TryDownload, Unpack,
                Clean, Restore, Die, Updating
  <2>2. ShutdownInv'
    BY <1>4, ProcessEnds DEF UpdateStep, UpdateDies, MInv
  <2>3. Linked'
    BY <1>2, <2>1, MaintenanceAssumption DEF MInv, Linked
  <2>4. QED
    BY <1>1, <2>2, <2>3 DEF MInv
<1>5. CASE ShutdownStep
  <2>1. ShutdownInv' /\ alive' \subseteq alive
    BY <1>5, ShutdownStepInv, ShutdownOnlyKills DEF ShutdownStep, ShutdownNext, MInv
  <2>2. CASE KillsUpdate /\ Die
    <3>1. ~Updating' /\ Updating /\ Updater[update] \notin alive'
      BY <2>2 DEF KillsUpdate, Die, Updating
    <3>2. Linked'
      BY <2>1, <3>1 DEF MInv, Linked
    <3>3. QED
      BY <1>1, <2>1, <3>2 DEF MInv
  <2>3. CASE ~KillsUpdate /\ UNCHANGED indexVars
    <3>1. /\ (Updating' <=> Updating) /\ update' = update
          /\ ~ (Updating /\ Updater[update] \in alive \ alive')
      BY <2>3 DEF KillsUpdate, indexVars, Updating
    <3>2. Linked'
      BY <2>1, <3>1 DEF MInv, Linked
    <3>3. QED
      BY <1>1, <2>1, <3>2 DEF MInv
  <2>4. QED
    BY <1>5, <2>2, <2>3 DEF ShutdownStep
<1>6. CASE Others
  <2>1. \/ \E p \in Procs \ Updaters : Ends(p)
        \/ \E p \in Procs, q \in Procs \ Updaters : Fork(p, q)
    BY <1>6 DEF Others
  <2>2. ShutdownInv'
    BY <2>1, ShutdownStepInv DEF MInv, ShutdownNext, ProcessSteps
  <2>3. \A n \in 1..MaxUpdates : Updater[n] \in alive' <=> Updater[n] \in alive
    BY <2>1 DEF Ends, Fork, Updaters
  <2>4. (Updating' <=> Updating) /\ update' = update
    BY <1>6 DEF Others, indexVars, Updating
  <2>5. Linked'
    BY <2>3, <2>4 DEF MInv, Linked
  <2>6. QED
    BY <1>1, <2>2, <2>5 DEF MInv
<1>7. CASE UNCHANGED vars
  <2>1. ShutdownInv' /\ alive' = alive
    BY <1>7, ShutdownStepInv DEF MInv, vars, shutdownVars
  <2>2. (Updating' <=> Updating) /\ update' = update
    BY <1>7 DEF vars, indexVars, Updating
  <2>3. QED
    BY <1>1, <2>1, <2>2 DEF MInv, Linked
<1>8. QED
  BY <1>3, <1>4, <1>5, <1>6, <1>7 DEF Next

LEMMA MInvariant == Spec => []MInv
BY MInitInv, MStepInv, PTL DEF Spec

\* An update is in progress exactly when its process is alive, and the parts have
\* their types.
THEOREM MaintenanceTypeOK == Spec => []TypeOK
<1>1. MInv => TypeOK
  BY DEF MInv, ShutdownInv, IndexInv, Linked, TypeOK
<1>2. QED
  BY <1>1, MInvariant, PTL

\* Updates that start and end while the shutdown runs, and after it, change
\* nothing: what it found is dead in the end, unless Windows refused cygctl to open
\* it or to end it.
THEOREM NothingSparedWithUpdates == Spec => []NothingSpared
<1>1. MInv => NothingSpared
  BY DEF MInv, ShutdownInv
<1>2. QED
  BY <1>1, MInvariant, PTL
=============================================================================
