------------------------ MODULE CygwinShutdownProofs ------------------------
(* Proofs about CygwinShutdown, for any processes.                            *)
EXTENDS CygwinShutdown, TLAPS

\* Where a process of the snapshot that still lives is accounted for.
Accounted ==
    /\ shpc = "start" => snapshot = {}
    /\ shpc = "assign" =>
         snapshot \cap alive \subseteq todo \cup inJob \cup unassigned \cup refused
    /\ shpc \in {"kill unassigned", "kill all"} =>
         snapshot \cap alive \subseteq todo \cup refused

ShutdownInv == ShutdownTypeOK /\ Accounted /\ NothingSpared

LEMMA ShutdownInitInv ==
    ASSUME NEW running \in SUBSET Procs, ShutdownInit(running)
    PROVE  ShutdownInv
BY ShutdownAssumption DEF ShutdownInit, ShutdownInv, ShutdownTypeOK, Accounted,
   NothingSpared

LEMMA ShutdownStepInv == ShutdownInv /\ [ShutdownNext]_shutdownVars => ShutdownInv'
<1> SUFFICES ASSUME ShutdownInv, [ShutdownNext]_shutdownVars PROVE ShutdownInv'
  OBVIOUS
<1> USE DEF ShutdownInv, ShutdownTypeOK, Accounted, NothingSpared
<1>1. CASE TakeSnapshot
  BY <1>1 DEF TakeSnapshot, Found
<1>2. CASE CreateJob
  BY <1>2 DEF CreateJob
<1>3. ASSUME NEW p \in Procs, Assign(p) PROVE ShutdownInv'
  <2>1. CASE p \in alive /\ inJob' = inJob \cup {p} /\ UNCHANGED <<unassigned, refused>>
    BY <1>3, <2>1 DEF Assign
  <2>2. CASE p \in alive /\ unassigned' = unassigned \cup {p} /\ UNCHANGED <<inJob, refused>>
    BY <1>3, <2>2 DEF Assign
  <2>3. CASE Refuse(p) /\ UNCHANGED <<inJob, unassigned>>
    BY <1>3, <2>3 DEF Assign, Refuse
  <2>4. QED
    BY <1>3, <2>1, <2>2, <2>3 DEF Assign
<1>4. CASE TerminateJob
  BY <1>4 DEF TerminateJob, KillNext, Dies, Gone
<1>5. ASSUME NEW p \in Procs, KillDirect(p) PROVE ShutdownInv'
  BY <1>5 DEF KillDirect, Refuse, Dies, Gone
<1>6. CASE Verify
  BY <1>6 DEF Verify, Gone, Found
<1>7. CASE AllKilled
  BY <1>7 DEF AllKilled, Gone
<1>8. ASSUME NEW p \in Procs, NEW q \in Procs, Fork(p, q) PROVE ShutdownInv'
  BY <1>8 DEF Fork, ShutdownRuns
<1>9. ASSUME NEW p \in Procs, Ends(p) PROVE ShutdownInv'
  BY <1>9 DEF Ends, ShutdownRuns
<1>10. CASE UNCHANGED shutdownVars
  BY <1>10 DEF shutdownVars
<1>11. QED
  BY <1>1, <1>2, <1>3, <1>4, <1>5, <1>6, <1>7, <1>8, <1>9, <1>10
     DEF ShutdownNext, ShutdownSteps, ProcessSteps

\* Whatever the processes do meanwhile, a shutdown that comes to its end has
\* spared none of those it found that Windows let it open and end.
THEOREM NothingSparedAlways == ShutdownSpec => []NothingSpared
<1>1. (\E running \in SUBSET Procs : ShutdownInit(running)) => ShutdownInv
  BY ShutdownInitInv
<1>2. ShutdownInv => NothingSpared
  BY DEF ShutdownInv
<1>3. QED
  BY <1>1, <1>2, ShutdownStepInv, PTL DEF ShutdownSpec
=============================================================================
