CONSTANTS
    Procs = {"apt"}
    Pkgs <- MCPkgs
    Essential = {"base"}
    Obsolete = {"app", "base"}
    Unhashed = {}
    Virtuals = {"soname"}
    Unknown = {"gone"}
    Provider <- MCProvider
    Depends <- MCDepends
    Files = {"shared", "lib.sh"}
    Scripts = {"lib.sh"}
    Contents <- MCContents
    Initial <- MCInitial
    Requests <- MCRequests
    Cmds = {"install", "reinstall", "upgrade", "remove", "autoremove", "download", "clean", "update"}
    Env = {"neterr", "hollow", "ghost", "listfail", "tarfail", "inuse", "crash"}
    Absent = Absent
    None = None
    Missing = Missing
SPECIFICATION Spec
INVARIANTS
    TypeOK
    FilesOwned
PROPERTIES
    NeededStays
    InstallCompletes
