-------------------------- MODULE SetupIndexProofs --------------------------
(* Proofs about SetupIndex, for every number of updates.                      *)
EXTENDS SetupIndex, TLAPS

\* What holds at each place of the update, as long as it goes on and after.
Progress ==
    /\ upc = "backup" => had = ini /\ ~saved
    /\ upc = "clean" => ini = update
    /\ upc = "none" => ~saved
    /\ saved => had # Absent
    /\ saved /\ upc \in {"try", "unpack", "restore"} => bak = had

IndexInv ==
    /\ IndexTypeOK
    /\ Progress
    /\ IndexSurvives
    /\ UpdateTruthful
    /\ FailureReverts

LEMMA IndexInitInv == IndexInit => IndexInv
<1> SUFFICES ASSUME IndexInit PROVE IndexInv
  OBVIOUS
<1> USE IndexAssumption DEF IndexInit
<1>1. IndexTypeOK
  <2>1. saved \in BOOLEAN /\ disturbed \in BOOLEAN
    BY Zenon
  <2>2. QED
    BY <2>1 DEF IndexTypeOK, Formats, Contents
<1>2. Progress
  BY DEF Progress
<1>3. IndexSurvives /\ UpdateTruthful /\ FailureReverts
  BY DEF IndexSurvives, UpdateTruthful, FailureReverts
<1>4. QED
  BY <1>1, <1>2, <1>3 DEF IndexInv

LEMMA IndexStepInv == IndexInv /\ [IndexNext]_indexVars => IndexInv'
<1> SUFFICES ASSUME IndexInv, [IndexNext]_indexVars PROVE IndexInv'
  OBVIOUS
<1> USE IndexAssumption DEF IndexInv, IndexTypeOK, Progress, IndexSurvives,
        UpdateTruthful, FailureReverts, Formats, Contents
<1>1. CASE Start
  <2>1. saved' \in BOOLEAN /\ disturbed' \in BOOLEAN
    BY <1>1, Zenon DEF Start, Updating
  <2>2. IndexTypeOK'
    BY <1>1, <2>1 DEF Start, Updating
  <2>3. Progress'
    BY <1>1 DEF Start, Updating
  <2>4. IndexSurvives' /\ UpdateTruthful' /\ FailureReverts'
    BY <1>1 DEF Start, Updating
  <2>5. QED
    BY <2>2, <2>3, <2>4
<1>2. CASE Backup
  BY <1>2 DEF Backup, OpenElsewhere
<1>3. CASE TryDownload
  BY <1>3 DEF TryDownload, TryNext
<1>4. CASE Unpack
  <2>1. saved' \in BOOLEAN /\ disturbed' \in BOOLEAN
    BY <1>4, Zenon DEF Unpack, TryNext
  <2>2. IndexTypeOK'
    BY <1>4, <2>1 DEF Unpack, TryNext
  <2>3. Progress'
    BY <1>4 DEF Unpack, TryNext
  <2>4. IndexSurvives' /\ UpdateTruthful' /\ FailureReverts'
    BY <1>4 DEF Unpack, TryNext
  <2>5. QED
    BY <2>2, <2>3, <2>4
<1>5. CASE Clean
  BY <1>5 DEF Clean
<1>6. CASE Restore
  BY <1>6 DEF Restore, OpenElsewhere
<1>7. CASE Die
  BY <1>7 DEF Die, Updating
<1>8. CASE UNCHANGED indexVars
  BY <1>8 DEF indexVars
<1>9. QED
  BY <1>1, <1>2, <1>3, <1>4, <1>5, <1>6, <1>7, <1>8 DEF IndexNext, UpdateSteps

LEMMA IndexInvariant == IndexSpec => []IndexInv
BY IndexInitInv, IndexStepInv, PTL DEF IndexSpec

\* Wherever an update fails or is killed, the index it began with is still there
\* under one of its two names until the whole new one has replaced it.
THEOREM IndexSurvivesAlways == IndexSpec => []IndexSurvives
<1>1. IndexInv => IndexSurvives
  BY DEF IndexInv
<1>2. QED
  BY <1>1, IndexInvariant, PTL

\* Success means the whole new index and no backup, failure the old one put back.
THEOREM UpdateReportsTruth == IndexSpec => [](UpdateTruthful /\ FailureReverts)
<1>1. IndexInv => UpdateTruthful /\ FailureReverts
  BY DEF IndexInv
<1>2. QED
  BY <1>1, IndexInvariant, PTL
=============================================================================
