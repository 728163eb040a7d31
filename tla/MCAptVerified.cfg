CONSTANTS
    Procs = {"apt"}
    Pkgs <- MCPkgs
    Essential = {"base"}
    Obsolete = {"app"}
    Unhashed = {}
    Virtuals = {"soname"}
    Unknown = {"gone"}
    Provider <- MCProvider
    Depends <- MCDepends
    Files = {"shared", "lib.sh"}
    Scripts = {"lib.sh"}
    Contents <- MCContents
    Initial <- MCInitial
    Requests <- MCRequests
    Cmds = {"install"}
    Env = {"corrupt", "crash"}
    Absent = Absent
    None = None
    Missing = Missing
SPECIFICATION Spec
INVARIANTS
    VerifiedOnly
CHECK_DEADLOCK FALSE
