CONSTANTS
    Calls = {"three", "four", "lines", "cut", "bash", "accent", "ti"}
    Scenario <- MCScenario
    MaxIn = 1
    MaxSig = 1
    Codes = {0, 1}
    Env = {"su", "helper"}
    None = None
    Lost = Lost
SPECIFICATION LiveSpec
INVARIANTS
    TypeOK
    NoHandleLeft
    Reverted
    SpawnErrorKnown
    LostMeansFault
    ShownRight
PROPERTIES
    ForwardsCommand
    SuReturns
    HelperEnds
CHECK_DEADLOCK FALSE
