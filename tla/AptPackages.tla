----------------------------- MODULE AptPackages -----------------------------
(***************************************************************************)
(* What the commands of cmd/apt-cyg/main.go do to a Cygwin installation:     *)
(* the archives in the cache, the files unpacked from them, one manifest per *)
(* package (<name>.lst.gz) and installed.db.                                 *)
(*                                                                         *)
(* Nothing is locked and nothing is written atomically, so a step is one     *)
(* operation on one of the four, and a process may die, or another apt-cyg   *)
(* run, between any two.  The order of a command's packages is left open:    *)
(* it takes them from a set.                                                 *)
(***************************************************************************)
EXTENDS Naturals, FiniteSetsExt

CONSTANTS
    Procs,      \* the apt-cyg processes running at once
    Pkgs,       \* the packages setup.ini lists
    Essential,  \* essentialPkgs
    Obsolete,   \* packages with no install path in setup.ini
    Unhashed,   \* packages that setup.ini gives no hash for
    Virtuals,   \* names that packages provide
    Unknown,    \* names that neither are packages nor are provided by one
    Provider,   \* the package resolveProvides finds for a virtual name
    Depends,    \* the names each package depends on
    Files,      \* paths of files (not of directories)
    Scripts,    \* those in /etc/postinstall
    Contents,   \* the paths in each archive <<package, version>>
    Initial,    \* the sets of packages that may be installed at first
    Requests,   \* the lists of names a user may give to a command
    Cmds,       \* the commands a run admits
    Env,        \* the faults it admits, see AllEnv
    Absent, None, Missing

Archives == DOMAIN Contents
Versions == {k[2] : k \in Archives}
AllCmds == {"install", "reinstall", "upgrade", "remove", "autoremove", "download",
            "clean", "update"}
AllEnv == {"neterr", "corrupt", "hollow", "ghost", "listfail", "tarfail", "inuse",
           "dbfail", "crash"}
Names == Pkgs \cup Virtuals \cup Unknown

ASSUME ConstAssumption ==
    /\ Essential \cup Obsolete \cup Unhashed \subseteq Pkgs
    /\ Virtuals \cap Pkgs = {} /\ Unknown \cap (Pkgs \cup Virtuals) = {}
    /\ Provider \in [Virtuals -> Pkgs]
    /\ Depends \in [Pkgs -> SUBSET Names]
    /\ Scripts \subseteq Files
    /\ Archives \subseteq Pkgs \X (Nat \ {0})
    /\ \A p \in Pkgs : <<p, 1>> \in Archives
    /\ Contents \in [Archives -> SUBSET Files]
    /\ Initial \subseteq SUBSET Pkgs /\ Requests \subseteq SUBSET Names
    /\ Cmds \subseteq AllCmds /\ Env \subseteq AllEnv
    /\ None \notin Pkgs

VARIABLES
    avail,      \* the version of each package in setup.ini
    cache,      \* the state of each archive in the cache directory
    fs,         \* each path: Absent, or whose it is and if its archive was right
    stray,      \* history: the files that apt-cyg lost track of
    manifest,   \* each package: None, or the paths in its .lst.gz
    db,         \* installed.db: Missing, or an entry or None per package
    pc, cmd,    \* process: where it is, in which command
    want,       \* process: what "install" promised to install
    queue, cur, \* process: the packages to do, the one being done
    todo,       \* process: its files still to be unpacked or removed
    mem         \* process: the database it is about to write

disk == <<avail, cache, fs, stray, manifest, db>>
procVars == <<pc, cmd, want, queue, cur, todo, mem>>
vars == <<disk, procVars>>

NoEntries == [p \in Pkgs |-> None]
Entries == (Versions \cup {0}) \X {0, 1}  \* version 0: the name a scan makes up

Entry(v, explicit) == <<v, explicit>>

ASSUME DistinctAssumption ==
    /\ \A F \in SUBSET Files : F # None
    /\ \A entries \in [Pkgs -> {None} \cup Entries] : entries # Missing

\* readInstalledDB: without the file, every manifest counts as an explicit
\* package of unknown version.
ReadDB ==
    IF db # Missing THEN db
    ELSE [p \in Pkgs |-> IF manifest[p] # None THEN Entry(0, 1) ELSE None]

IsInstalled(p) == ReadDB[p] # None \/ manifest[p] # None

Listed(p) == IF manifest[p] = None THEN {} ELSE manifest[p]

Owned(p) == {f \in Files : fs[f] # Absent /\ fs[f][1] = p}

\* A name found nowhere is warned about, and left out.
Resolve(n) == IF n \in Virtuals THEN Provider[n] ELSE n
Resolved(N) == {Resolve(n) : n \in N \ Unknown}
Needs(p) == Resolved(Depends[p])

\* Mutant: resolveDependencies does not recurse.
ClosureMut(S) == S \cup UNION {Needs(p) : p \in S}

\* The calls of resolveDependencies for names, one after the other: what they
\* return together and done after them.
InTurn(resolve, names, visiting, done) ==
    FoldSet(LAMBDA n, walked :
                LET r == resolve[n, visiting, walked.done]
                IN  [found |-> walked.found \cup r.found, done |-> r.done],
            [found |-> {}, done |-> done], names)

\* resolveInstallList before it drops what is installed: a walk in depth.
\* visiting is the path to n, done what has been left for good.
Closure(S) ==
    LET resolve[n \in Pkgs, visiting \in SUBSET Pkgs, done \in SUBSET Pkgs] ==
            CASE n \in done -> [found |-> {n}, done |-> done]
              [] n \in visiting \ done -> [found |-> {}, done |-> done]
              [] OTHER ->
                   LET below == InTurn(resolve, Needs(n), visiting \cup {n}, done)
                   IN  [found |-> {n} \cup below.found, done |-> {n} \cup below.done]
    IN  InTurn(resolve, S, {}, {}).found

\* Installed by setup.exe or apt-cyg: complete, with a manifest, and recorded.
Init ==
    \E I \in Initial :
        /\ avail = [p \in Pkgs |-> 1]
        /\ cache = [k \in Archives |-> "none"]
        /\ fs \in [Files -> {Absent} \cup (I \X {TRUE})]
        /\ \A f \in Files :
               LET owners == {p \in I : f \in Contents[<<p, 1>>] \ Scripts}
               IN  IF owners = {} THEN fs[f] = Absent
                   ELSE fs[f] # Absent /\ fs[f][1] \in owners
        /\ stray = {}
        /\ manifest = [p \in Pkgs |-> IF p \in I THEN Contents[<<p, 1>>] ELSE None]
        /\ db \in {[p \in Pkgs |-> IF p \in I THEN Entry(1, e[p]) ELSE None] :
                       e \in [Pkgs -> {0, 1}]} \cup {Missing}
        /\ pc = [a \in Procs |-> "idle"]
        /\ cmd = [a \in Procs |-> "none"]
        /\ want = [a \in Procs |-> {}]
        /\ queue = [a \in Procs |-> {}]
        /\ cur = [a \in Procs |-> None]
        /\ todo = [a \in Procs |-> {}]
        /\ mem = [a \in Procs |-> NoEntries]

-----------------------------------------------------------------------------
(* How a process moves on. *)

Goto(a, l) ==
    /\ pc' = [pc EXCEPT ![a] = l]
    /\ UNCHANGED <<cmd, want, queue, cur, todo, mem>>

\* The process ends, by os.Exit or at the end of its command.
Quit(a) ==
    /\ pc' = [pc EXCEPT ![a] = "idle"]
    /\ cmd' = [cmd EXCEPT ![a] = "none"]
    /\ want' = [want EXCEPT ![a] = {}]
    /\ queue' = [queue EXCEPT ![a] = {}]
    /\ cur' = [cur EXCEPT ![a] = None]
    /\ todo' = [todo EXCEPT ![a] = {}]
    /\ mem' = [mem EXCEPT ![a] = NoEntries]

\* A failed download: cmdDownload goes on to the next package.
GiveUp(a) == IF cmd[a] = "download" THEN Goto(a, "pick") ELSE Quit(a)

Start(a, c, S, goal) ==
    /\ c \in Cmds
    /\ pc[a] = "idle"
    /\ S # {}
    /\ pc' = [pc EXCEPT ![a] = "pick"]
    /\ cmd' = [cmd EXCEPT ![a] = c]
    /\ queue' = [queue EXCEPT ![a] = S]
    /\ want' = [want EXCEPT ![a] = goal]
    /\ UNCHANGED <<disk, cur, todo, mem>>

-----------------------------------------------------------------------------
(* The commands. *)

\* --nodeps installs the named packages only.
Install(a) ==
    \E N \in Requests :
        LET S == Resolved(N) IN
        \/ Start(a, "install", {p \in Pkgs : p \in Closure(S) /\ ~ IsInstalled(p)}, S)
        \/ Start(a, "install", {p \in S : ~ IsInstalled(p)}, {})

\* Other names than those of packages are reported and passed over.
Reinstall(a) == \E N \in Requests : Start(a, "reinstall", N \cap Pkgs, {})

\* A package is current if the database names the archive setup.ini names.
UpToDate(p) == ReadDB[p] # None /\ ReadDB[p][1] = avail[p]

Upgrade(a) ==
    \/ \E N \in Requests :
           Start(a, "upgrade", {p \in N \cap Pkgs : IsInstalled(p) /\ ~ UpToDate(p)}, {})
    \/ Start(a, "upgrade", {p \in Pkgs : ReadDB[p] # None /\ ~ UpToDate(p)}, {})

Remove(a) == \E N \in Requests : Start(a, "remove", N \cap Pkgs, {})

\* Mutant: only what explicit packages depend on is needed.
NeededMut == UNION {Depends[p] : p \in {q \in Pkgs : /\ ReadDB[q] # None
                                                     /\ ReadDB[q][2] = 1}}

\* Names as they are written: a virtual name is not resolved.
Needed == UNION {Depends[p] : p \in {q \in Pkgs : ReadDB[q] # None}}

Orphans == {p \in Pkgs \ (Needed \cup Essential) :
               ReadDB[p] # None /\ ReadDB[p][2] # 1}

Autoremove(a) == Start(a, "autoremove", Orphans, {})

Download(a) == \E N \in Requests : Start(a, "download", N \cap Pkgs, {})

\* One archive of those "clean" goes through.
Clean(a) ==
    \E k \in Archives :
        /\ "clean" \in Cmds
        /\ pc[a] = "idle"
        /\ cache[k] # "none"
        /\ cache' = [cache EXCEPT ![k] = "none"]
        /\ UNCHANGED <<avail, fs, stray, manifest, db, procVars>>

\* A new setup.ini.  A command reads it once, at its start.
Update ==
    \E p \in Pkgs :
        /\ "update" \in Cmds
        /\ \A a \in Procs : pc[a] = "idle"
        /\ <<p, avail[p] + 1>> \in Archives
        /\ avail' = [avail EXCEPT ![p] = @ + 1]
        /\ UNCHANGED <<cache, fs, stray, manifest, db, procVars>>

-----------------------------------------------------------------------------
(* One package of a command. *)

Removing(a) == cmd[a] \in {"remove", "autoremove"}
Forced(a) == cmd[a] \in {"reinstall", "upgrade"}
Archive(p) == <<p, avail[p]>>

\* Nothing to be done for p.
Passed(a, p) ==
    \/ Removing(a) /\ ~ IsInstalled(p)
    \/ cmd[a] = "install" /\ IsInstalled(p)
    \/ cmd[a] = "download" /\ cache[Archive(p)] # "none"
    \/ ~ Removing(a) /\ cmd[a] # "download" /\ p \in Obsolete

Take(a, p) ==
    /\ pc[a] = "pick"
    /\ p \in queue[a]
    /\ queue' = [queue EXCEPT ![a] = @ \ {p}]

Skip(a) ==
    \E p \in Pkgs :
        /\ Take(a, p)
        /\ Passed(a, p)
        /\ UNCHANGED <<disk, pc, cmd, want, cur, todo, mem>>

Mark(k, state) == cache' = [cache EXCEPT ![k] = state]

\* os.Remove of an archive; Windows refuses while another program has it open.
Discard(k) ==
    \/ Mark(k, "none")
    \/ "inuse" \in Env /\ UNCHANGED cache

\* reinstall removes the cached archive first.
Begin(a) ==
    \E p \in Pkgs :
        /\ Take(a, p)
        /\ ~ Removing(a)
        /\ ~ Passed(a, p)
        /\ cur' = [cur EXCEPT ![a] = p]
        /\ IF cmd[a] = "reinstall" THEN Discard(Archive(p)) ELSE UNCHANGED cache
        /\ pc' = [pc EXCEPT ![a] = "fetch"]
        /\ UNCHANGED <<avail, fs, stray, manifest, db, cmd, want, todo, mem>>

BeginRemove(a) ==
    \E p \in Pkgs \ Essential :
        /\ Take(a, p)
        /\ Removing(a)
        /\ ~ Passed(a, p)
        /\ cur' = [cur EXCEPT ![a] = p]
        /\ todo' = [todo EXCEPT ![a] = Listed(p)]
        /\ pc' = [pc EXCEPT ![a] = "delete"]
        /\ UNCHANGED <<disk, cmd, want, mem>>

\* Cannot remove an essential package: the rest of the list is not done.
Refuse(a) ==
    /\ pc[a] = "pick"
    /\ Removing(a)
    /\ \E p \in queue[a] \cap Essential : ~ Passed(a, p)
    /\ Quit(a)
    /\ UNCHANGED disk

\* The list is done; what was unpacked has scripts to run.
Finish(a) ==
    /\ pc[a] = "pick"
    /\ queue[a] = {}
    /\ IF cmd[a] = "install" \/ Forced(a) THEN Goto(a, "scripts") ELSE Quit(a)
    /\ UNCHANGED disk

-----------------------------------------------------------------------------
(* installPackage: fetch, verify, unpack. *)

Fetched(a) == cache[Archive(cur[a])]

\* "Using cached": the hash of the archive is not looked at.
UseCached(a) ==
    /\ pc[a] = "fetch"
    /\ cmd[a] = "install"
    /\ Fetched(a) # "none"
    /\ Goto(a, "hollow")
    /\ UNCHANGED disk

\* os.Create, then io.Copy into the file.
OpenArchive(a) ==
    /\ pc[a] = "fetch"
    /\ cmd[a] = "install" => Fetched(a) = "none"
    /\ \/ /\ Mark(Archive(cur[a]), "partial")
          /\ Goto(a, "copy")
       \/ /\ "neterr" \in Env
          /\ GiveUp(a)
          /\ UNCHANGED cache
    /\ UNCHANGED <<avail, fs, stray, manifest, db>>

CopyArchive(a) ==
    /\ pc[a] = "copy"
    /\ \/ /\ \/ Mark(Archive(cur[a]), "good")
             \/ "corrupt" \in Env /\ Mark(Archive(cur[a]), "wrong")
          /\ Goto(a, "verify")
       \/ /\ "neterr" \in Env
          /\ Discard(Archive(cur[a]))
          /\ GiveUp(a)
    /\ UNCHANGED <<avail, fs, stray, manifest, db>>

\* Without a hash every archive passes.
Verify(a) ==
    /\ pc[a] = "verify"
    /\ \/ /\ Fetched(a) = "good" \/ cur[a] \in Unhashed
          /\ Goto(a, IF cmd[a] = "download" THEN "pick" ELSE "hollow")
          /\ UNCHANGED cache
       \/ /\ Fetched(a) # "good" /\ cur[a] \notin Unhashed
          /\ Discard(Archive(cur[a]))
          /\ GiveUp(a)
    /\ UNCHANGED <<avail, fs, stray, manifest, db>>

\* checkHollow, whose verdict depends on sizes the model does not have.
CheckHollow(a) ==
    /\ pc[a] = "hollow"
    /\ \/ Goto(a, "list")
       \/ "hollow" \in Env /\ Quit(a)
    /\ UNCHANGED disk

\* The shell empties the manifest, and then tar and gzip fill it.
OpenManifest(a) ==
    /\ pc[a] = "list"
    /\ manifest' = [manifest EXCEPT ![cur[a]] = {}]
    /\ stray' = stray \cup Owned(cur[a])
    /\ Goto(a, "listing")
    /\ UNCHANGED <<avail, cache, fs, db>>

\* tar is to unpack the archive, whatever has become of the manifest.
ToUnpack(a) ==
    /\ todo' = [todo EXCEPT ![a] = Contents[Archive(cur[a])]]
    /\ pc' = [pc EXCEPT ![a] = "unpack"]
    /\ UNCHANGED <<cmd, want, queue, cur, mem>>

\* tar lists what it can read of a truncated archive; nobody looks at an error.
WriteManifest(a) ==
    /\ pc[a] = "listing"
    /\ \E L \in SUBSET Contents[Archive(cur[a])] :
           /\ \/ L = Contents[Archive(cur[a])]
              \/ Fetched(a) \notin {"good", "wrong"}
              \/ "listfail" \in Env
           /\ manifest' = [manifest EXCEPT ![cur[a]] = L]
           /\ stray' = stray \ (L \cap Owned(cur[a]))
    /\ ToUnpack(a)
    /\ UNCHANGED <<avail, cache, fs, db>>

\* The shell that was to list the archive does not start.
NoManifest(a) ==
    /\ pc[a] = "list"
    /\ "listfail" \in Env
    /\ ToUnpack(a)
    /\ UNCHANGED disk

\* A file that the manifest does not list is lost track of.
Unpack(a) ==
    \E f \in todo[a] :
        /\ pc[a] = "unpack"
        /\ fs' = [fs EXCEPT ![f] = <<cur[a], Fetched(a) = "good">>]
        /\ stray' = IF f \in Listed(cur[a]) THEN stray \ {f} ELSE stray \cup {f}
        /\ todo' = [todo EXCEPT ![a] = @ \ {f}]
        /\ UNCHANGED <<avail, cache, manifest, db, pc, cmd, want, queue, cur, mem>>

\* tar fails, or a program it unpacked is no program: rollbackInstall.
UnpackFails(a) ==
    /\ pc[a] = "unpack"
    /\ \/ Fetched(a) \notin {"good", "wrong"}
       \/ "tarfail" \in Env
       \/ "ghost" \in Env /\ todo[a] = {}
    /\ IF manifest[cur[a]] = None THEN Quit(a)
       ELSE /\ pc' = [pc EXCEPT ![a] = "rollback"]
            /\ todo' = [todo EXCEPT ![a] = Listed(cur[a])]
            /\ UNCHANGED <<cmd, want, queue, cur, mem>>
    /\ UNCHANGED disk

\* Mutant: a failure of tar is not noticed.
UnpackedMut(a) ==
    /\ pc[a] = "unpack"
    /\ Fetched(a) \in {"good", "wrong"}
    /\ Goto(a, "readDB")
    /\ UNCHANGED disk

Unpacked(a) ==
    /\ pc[a] = "unpack"
    /\ todo[a] = {}
    /\ Fetched(a) \in {"good", "wrong"}
    /\ Goto(a, "readDB")
    /\ UNCHANGED disk

\* Mutant: the manifest is removed before the files it lists.
DeleteFirstMut(a) == TRUE

DeleteFirst(a) == todo[a] = {}

\* rollbackInstall and cmdRemove: the files of the manifest, then the manifest.
\* That Windows refuses to delete a program that runs is ignored.
DeleteFile(a) ==
    \E f \in todo[a] :
        /\ pc[a] \in {"rollback", "delete"}
        /\ \/ /\ fs' = [fs EXCEPT ![f] = Absent]
              /\ stray' = stray \ {f}
           \/ /\ "inuse" \in Env
              /\ stray' = stray \cup ({f} \cap Owned(cur[a]))
              /\ UNCHANGED fs
        /\ todo' = [todo EXCEPT ![a] = @ \ {f}]
        /\ UNCHANGED <<avail, cache, manifest, db, pc, cmd, want, queue, cur, mem>>

DeleteManifest(a) ==
    /\ pc[a] \in {"rollback", "delete"}
    /\ DeleteFirst(a)
    /\ \/ manifest' = [manifest EXCEPT ![cur[a]] = None]
       \/ "inuse" \in Env /\ UNCHANGED manifest
    /\ IF pc[a] = "rollback" THEN Quit(a) ELSE Goto(a, "readDB")
    /\ UNCHANGED <<avail, cache, fs, stray, db>>

-----------------------------------------------------------------------------
(* addToInstalledDB, removeFromInstalledDB, runAllPostinstall, and death. *)

\* What the package's entry becomes: cmdInstall passes explicit = 1 for the
\* dependencies too.
NewEntry(a) == IF Removing(a) THEN None ELSE Entry(avail[cur[a]], 1)

LoadDB(a) ==
    /\ pc[a] = "readDB"
    /\ mem' = [mem EXCEPT ![a] = [ReadDB EXCEPT ![cur[a]] = NewEntry(a)]]
    /\ pc' = [pc EXCEPT ![a] = "truncateDB"]
    /\ UNCHANGED <<disk, cmd, want, queue, cur, todo>>

\* On to the next package.
Recorded(a) ==
    /\ mem' = [mem EXCEPT ![a] = NoEntries]
    /\ cur' = [cur EXCEPT ![a] = None]
    /\ pc' = [pc EXCEPT ![a] = "pick"]
    /\ UNCHANGED <<cmd, want, queue, todo>>

\* os.WriteFile truncates the file, then writes it; its error is ignored.
TruncateDB(a) ==
    /\ pc[a] = "truncateDB"
    /\ \/ db' = NoEntries /\ Goto(a, "writeDB")
       \/ "dbfail" \in Env /\ UNCHANGED db /\ Recorded(a)
    /\ UNCHANGED <<avail, cache, fs, stray, manifest>>

WriteDB(a) ==
    /\ pc[a] = "writeDB"
    /\ db' = mem[a]
    /\ Recorded(a)
    /\ UNCHANGED <<avail, cache, fs, stray, manifest>>

\* A script is run and renamed.
RunScript(a) ==
    \E f \in Scripts :
        /\ pc[a] = "scripts"
        /\ fs[f] # Absent
        /\ fs' = [fs EXCEPT ![f] = Absent]
        /\ stray' = stray \ {f}
        /\ UNCHANGED <<avail, cache, manifest, db, procVars>>

\* All are run, or --noscripts.
Complete(a) ==
    /\ pc[a] = "scripts"
    /\ Quit(a)
    /\ UNCHANGED disk

\* Ctrl+C, or the machine stops.
Crash(a) ==
    /\ pc[a] # "idle"
    /\ "crash" \in Env
    /\ Quit(a)
    /\ UNCHANGED disk

-----------------------------------------------------------------------------

Command(a) ==
    \/ Install(a) \/ Reinstall(a) \/ Upgrade(a) \/ Remove(a) \/ Autoremove(a)
    \/ Download(a) \/ Clean(a)

Step(a) ==
    \/ Skip(a) \/ Begin(a) \/ BeginRemove(a) \/ Refuse(a) \/ Finish(a)
    \/ UseCached(a) \/ OpenArchive(a) \/ CopyArchive(a) \/ Verify(a)
    \/ CheckHollow(a) \/ OpenManifest(a) \/ WriteManifest(a) \/ NoManifest(a)
    \/ Unpack(a) \/ UnpackFails(a) \/ Unpacked(a)
    \/ DeleteFile(a) \/ DeleteManifest(a)
    \/ LoadDB(a) \/ TruncateDB(a) \/ WriteDB(a)
    \/ RunScript(a) \/ Complete(a)

Next ==
    \/ \E a \in Procs : Command(a) \/ Step(a) \/ Crash(a)
    \/ Update

Spec == Init /\ [][Next]_vars

-----------------------------------------------------------------------------

\* Every variable has a value of its type; a process between two packages has
\* no file left to handle.
TypeOK ==
    /\ avail \in [Pkgs -> Versions]
    /\ cache \in [Archives -> {"none", "partial", "wrong", "good"}]
    /\ fs \in [Files -> {Absent} \cup (Pkgs \X BOOLEAN)]
    /\ stray \subseteq Files
    /\ manifest \in [Pkgs -> {None} \cup SUBSET Files]
    /\ db \in {Missing} \cup [Pkgs -> {None} \cup Entries]
    /\ pc \in [Procs -> {"idle", "pick", "fetch", "copy", "verify", "hollow",
                         "list", "listing", "unpack", "rollback", "delete",
                         "readDB", "truncateDB", "writeDB", "scripts"}]
    /\ cmd \in [Procs -> AllCmds \cup {"none"}]
    /\ want \in [Procs -> SUBSET Pkgs]
    /\ queue \in [Procs -> SUBSET Pkgs]
    /\ cur \in [Procs -> Pkgs \cup {None}]
    /\ todo \in [Procs -> SUBSET Files]
    /\ mem \in [Procs -> [Pkgs -> {None} \cup Entries]]
    /\ \A a \in Procs : pc[a] \in {"idle", "pick"} => todo[a] = {}

\* A file that apt-cyg unpacked belongs to a package that apt-cyg reports as
\* installed, so that "remove" can still be asked for it, whatever fails or dies
\* in the middle of an installation, an upgrade or a removal.  Only those files
\* are left behind that apt-cyg loses track of in one of three ways: the
\* manifest lists too little (main.go:1280), or was emptied and not written
\* again, or the new version has dropped the path (816), or a file could not be
\* deleted when it was its turn (1302, 1339).  Not so if two processes are at
\* work at once.
FilesOwned ==
    \A f \in Files : fs[f] # Absent => IsInstalled(fs[f][1]) \/ f \in stray

\* autoremove takes nothing away that a recorded package depends on by name,
\* also after earlier commands died half way.
NeededStays ==
    [][\A a \in Procs, p \in Pkgs :
          /\ cmd[a] = "autoremove" /\ cur[a] = p
          /\ manifest[p] # None /\ manifest'[p] = None
          => \A q \in Pkgs \ {p} : ReadDB[q] # None => p \notin Depends[q]]_vars

\* "install" ends without an error only if the packages it was asked for, what
\* they depend on, what those depend on and so on are all reported as
\* installed, as far as setup.ini knows them and has an archive for them; it
\* takes one of the two records of a package to be written.
InstallCompletes ==
    [][\A a \in Procs :
          cmd[a] = "install" /\ pc[a] = "pick" /\ pc'[a] = "scripts" =>
              \E T \in SUBSET Pkgs :
                  /\ want[a] \subseteq T
                  /\ \A p \in T : /\ Needs(p) \subseteq T
                                  /\ IsInstalled(p) \/ p \in Obsolete]_vars

\* Comment, main.go:79: "Essential packages that must not be removed".  Their
\* files stay, but for the scripts that have run.
EssentialFilesStay ==
    [][\A f \in Files \ Scripts :
          fs[f] # Absent /\ fs[f][1] \in Essential => fs'[f] # Absent]_vars

\* Comment, main.go:1199: "installPackage downloads (if needed), verifies,
\* extracts, and records a package."  Nothing is unpacked from an archive
\* whose hash is not the one setup.ini gives.
VerifiedOnly == \A f \in Files : fs[f] # Absent => fs[f][2]
=============================================================================
