CONSTANTS
    Procs = {"apt"}
    Pkgs <- MCPkgs
    Essential = {"base"}
    Obsolete = {"app"}
    Unhashed = {}
    Virtuals = {"soname"}
    Unknown = {"gone"}
    Provider <- MCProvider
    Depends <- MCDepends
    Files = {"shared", "lib.sh"}
    Scripts = {"lib.sh"}
    Contents <- MCContents
    Initial <- MCInitial
    Requests <- MCRequests
    Cmds = {"reinstall"}
    Env = {"tarfail"}
    Absent = Absent
    None = None
    Missing = Missing
SPECIFICATION Spec
PROPERTIES
    EssentialFilesStay
