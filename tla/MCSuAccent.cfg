CONSTANTS
    Calls = {"accent"}
    Scenario <- MCScenario
    MaxIn = 1
    MaxSig = 1
    Codes = {0, 1}
    Env = {}
    None = None
    Lost = Lost
SPECIFICATION Spec
INVARIANTS
    UTF8Untouched
CHECK_DEADLOCK FALSE
