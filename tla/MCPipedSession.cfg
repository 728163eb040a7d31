CONSTANTS
    Streams = {"stdout", "stderr"}
    MaxOut <- MCMaxOut
    Hold <- MCHold
    MaxIn = 2
    MaxSig = 1
    Cap = 1
    Codes = {0, 1}
    Env = {"die", "stop", "nostart", "nopipe", "native"}
    None = None
    Lost = Lost
SPECIFICATION LiveSpec
INVARIANTS
    TypeOK
    SingleReader
    InputInOrder
    EofAfterInput
PROPERTIES
    ForwardsCommand
    ExitDelivered
    HandlerReleased
CHECK_DEADLOCK FALSE
