CONSTANTS
    Procs = {"cygctl", "bash", "apt1", "apt2"}
    Self = "cygctl"
    Updater <- MCUpdater
    MaxUpdates = 2
    Absent = Absent
    Torn = Torn
SPECIFICATION Spec
INVARIANTS
    TypeOK
    NothingSpared
    IndexSurvives
    UpdateTruthful
    FailureReverts
CHECK_DEADLOCK FALSE
