CONSTANTS
    Streams = {"stdout"}
    MaxOut <- MCMaxOut
    Hold <- MCHold
    MaxIn = 1
    MaxSig = 1
    Cap = 1
    Codes = {0, 1, 7}
    Env = {}
    None = None
    Lost = Lost
SPECIFICATION LiveSpec
PROPERTIES
    CtrlCForwarded
CHECK_DEADLOCK FALSE
