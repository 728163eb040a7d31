-------------------------- MODULE AptPackagesProofs --------------------------
(* Proofs about AptPackages, for every set of packages, every content of the  *)
(* archives and every dependency between them.                                *)
EXTENDS AptPackages, TLAPS

-----------------------------------------------------------------------------
(* The types, of the installation and of the processes. *)

Places == {"idle", "pick", "fetch", "copy", "verify", "hollow", "list", "listing",
           "unpack", "rollback", "delete", "readDB", "truncateDB", "writeDB",
           "scripts"}
Databases == [Pkgs -> {None} \cup Entries]

DiskOK ==
    /\ avail \in [Pkgs -> Versions]
    /\ cache \in [Archives -> {"none", "partial", "wrong", "good"}]
    /\ fs \in [Files -> {Absent} \cup (Pkgs \X BOOLEAN)]
    /\ stray \subseteq Files
    /\ manifest \in [Pkgs -> {None} \cup SUBSET Files]
    /\ db \in {Missing} \cup Databases
    /\ \A p \in Pkgs : Archive(p) \in Archives

\* A process handles files of the package it works on.
ProcOK ==
    /\ pc \in [Procs -> Places]
    /\ cmd \in [Procs -> AllCmds \cup {"none"}]
    /\ want \in [Procs -> SUBSET Pkgs]
    /\ queue \in [Procs -> SUBSET Pkgs]
    /\ cur \in [Procs -> Pkgs \cup {None}]
    /\ todo \in [Procs -> SUBSET Files]
    /\ mem \in [Procs -> Databases]
    /\ \A a \in Procs :
          /\ pc[a] \notin {"unpack", "rollback", "delete"} => todo[a] = {}
          /\ pc[a] \notin {"idle", "pick", "scripts"} => cur[a] \in Pkgs

TypeInv == DiskOK /\ ProcOK

-----------------------------------------------------------------------------
(* How a process moves on. *)

LEMMA NoEntriesType == NoEntries \in Databases
BY DEF NoEntries, Databases

LEMMA ReadDBType == DiskOK => ReadDB \in Databases
BY DEF DiskOK, ReadDB, Databases, Entries, Entry

LEMMA QuitOK ==
    ASSUME ProcOK, NEW a \in Procs, Quit(a)
    PROVE  ProcOK'
BY NoEntriesType DEF ProcOK, Quit, Places

LEMMA GotoOK ==
    ASSUME ProcOK, NEW a \in Procs, NEW l \in Places, Goto(a, l),
           l \notin {"unpack", "rollback", "delete"} => todo[a] = {},
           l \notin {"idle", "pick", "scripts"} => cur[a] \in Pkgs
    PROVE  ProcOK'
BY DEF ProcOK, Goto

LEMMA GiveUpOK ==
    ASSUME ProcOK, NEW a \in Procs, GiveUp(a), todo[a] = {}
    PROVE  ProcOK'
BY QuitOK, GotoOK DEF GiveUp, Places

LEMMA StartOK ==
    ASSUME ProcOK, NEW a \in Procs, NEW c \in AllCmds, NEW S \in SUBSET Pkgs,
           NEW goal \in SUBSET Pkgs, Start(a, c, S, goal)
    PROVE  ProcOK'
BY DEF ProcOK, Start, Places

LEMMA DiskKept == DiskOK /\ UNCHANGED disk => DiskOK'
BY DEF DiskOK, disk, Archive

LEMMA ProcKept == ProcOK /\ UNCHANGED procVars => ProcOK'
BY DEF ProcOK, procVars

\* The package a process works on, and its archive.
LEMMA Current ==
    ASSUME TypeInv, NEW a \in Procs, pc[a] \notin {"idle", "pick", "scripts"}
    PROVE  cur[a] \in Pkgs /\ Archive(cur[a]) \in Archives
BY DEF TypeInv, ProcOK, DiskOK

LEMMA MarkOK ==
    ASSUME DiskOK, NEW k, NEW state \in {"none", "partial", "wrong", "good"},
           Mark(k, state), UNCHANGED <<avail, fs, stray, manifest, db>>
    PROVE  DiskOK'
BY DEF DiskOK, Mark, Archive

-----------------------------------------------------------------------------
(* The commands. *)

LEMMA ResolvedType ==
    ASSUME NEW N \in Requests
    PROVE  Resolved(N) \in SUBSET Pkgs /\ N \cap Pkgs \in SUBSET Pkgs
<1>1. N \subseteq Names
  BY ConstAssumption
<1>2. ASSUME NEW n \in N \ Unknown PROVE Resolve(n) \in Pkgs
  BY <1>1, ConstAssumption DEF Resolve, Names
<1>3. QED
  BY <1>2 DEF Resolved

LEMMA CommandOK ==
    ASSUME TypeInv, NEW a \in Procs, Command(a)
    PROVE  TypeInv'
<1>1. CASE Clean(a)
  <2>1. PICK k \in Archives :
            /\ cache' = [cache EXCEPT ![k] = "none"]
            /\ UNCHANGED <<avail, fs, stray, manifest, db, procVars>>
    BY <1>1 DEF Clean
  <2>2. DiskOK'
    BY <2>1 DEF TypeInv, DiskOK, Archive
  <2>3. QED
    BY <2>1, <2>2, ProcKept DEF TypeInv
<1>2. ASSUME NEW c \in AllCmds, NEW S \in SUBSET Pkgs, NEW goal \in SUBSET Pkgs,
             Start(a, c, S, goal)
      PROVE  TypeInv'
  <2>1. UNCHANGED disk
    BY <1>2 DEF Start
  <2>2. QED
    BY <1>2, <2>1, DiskKept, StartOK DEF TypeInv
<1>3. /\ {p \in Pkgs : ReadDB[p] # None /\ ~ UpToDate(p)} \in SUBSET Pkgs
      /\ Orphans \in SUBSET Pkgs
  BY DEF Orphans
<1>4. \A S \in SUBSET Pkgs :
          /\ {p \in Pkgs : p \in Closure(S) /\ ~ IsInstalled(p)} \in SUBSET Pkgs
          /\ {p \in S : ~ IsInstalled(p)} \in SUBSET Pkgs
          /\ {p \in S : IsInstalled(p) /\ ~ UpToDate(p)} \in SUBSET Pkgs
  OBVIOUS
<1>5. PICK c \in {"install", "reinstall", "upgrade", "remove", "autoremove", "download"},
           S \in SUBSET Pkgs, goal \in SUBSET Pkgs : Clean(a) \/ Start(a, c, S, goal)
  <2>1. CASE Install(a)
    BY <1>4, <2>1, ResolvedType DEF Install
  <2>2. CASE Reinstall(a) \/ Remove(a) \/ Download(a)
    BY <2>2, ResolvedType DEF Reinstall, Remove, Download
  <2>3. CASE Upgrade(a)
    BY <1>3, <1>4, <2>3 DEF Upgrade
  <2>4. CASE Autoremove(a)
    BY <1>3, <2>4 DEF Autoremove
  <2>5. QED
    BY <1>1, <2>1, <2>2, <2>3, <2>4 DEF Command
<1>6. QED
  BY <1>1, <1>2, <1>5 DEF AllCmds

LEMMA UpdateOK == TypeInv /\ Update => TypeInv'
<1> SUFFICES ASSUME TypeInv, Update PROVE TypeInv'
  OBVIOUS
<1>1. PICK p \in Pkgs : /\ <<p, avail[p] + 1>> \in Archives
                        /\ avail' = [avail EXCEPT ![p] = @ + 1]
                        /\ UNCHANGED <<cache, fs, stray, manifest, db, procVars>>
  BY DEF Update
<1>2. avail[p] + 1 \in Versions
  BY <1>1 DEF Versions
<1>3. DiskOK'
  BY <1>1, <1>2 DEF TypeInv, DiskOK, Archive
<1>4. QED
  BY <1>1, <1>3, ProcKept DEF TypeInv

-----------------------------------------------------------------------------
(* One package of a command. *)

LEMMA PickOK ==
    ASSUME TypeInv, NEW a \in Procs,
           Skip(a) \/ Begin(a) \/ BeginRemove(a) \/ Refuse(a) \/ Finish(a)
    PROVE  TypeInv'
<1>1. CASE Skip(a)
  <2>1. DiskOK'
    BY <1>1, DiskKept DEF Skip, TypeInv
  <2>2. ProcOK'
    BY <1>1 DEF Skip, Take, TypeInv, ProcOK
  <2>3. QED
    BY <2>1, <2>2 DEF TypeInv
<1>2. CASE Begin(a)
  <2>1. PICK p \in Pkgs :
            /\ Take(a, p)
            /\ cur' = [cur EXCEPT ![a] = p]
            /\ cache' \in {cache, [cache EXCEPT ![Archive(p)] = "none"]}
            /\ pc' = [pc EXCEPT ![a] = "fetch"]
            /\ UNCHANGED <<avail, fs, stray, manifest, db, cmd, want, todo, mem>>
    BY <1>2 DEF Begin, Discard, Mark
  <2>2. DiskOK'
    BY <2>1 DEF TypeInv, DiskOK, Archive
  <2>3. ProcOK'
    BY <2>1 DEF Take, TypeInv, ProcOK, Places
  <2>4. QED
    BY <2>2, <2>3 DEF TypeInv
<1>3. CASE BeginRemove(a)
  <2>1. PICK p \in Pkgs :
            /\ Take(a, p)
            /\ cur' = [cur EXCEPT ![a] = p]
            /\ todo' = [todo EXCEPT ![a] = Listed(p)]
            /\ pc' = [pc EXCEPT ![a] = "delete"]
            /\ UNCHANGED <<disk, cmd, want, mem>>
    BY <1>3 DEF BeginRemove
  <2>2. Listed(p) \in SUBSET Files
    BY DEF TypeInv, DiskOK, Listed
  <2>3. ProcOK'
    BY <2>1, <2>2 DEF Take, TypeInv, ProcOK, Places
  <2>4. QED
    BY <2>1, <2>3, DiskKept DEF TypeInv
<1>4. CASE Refuse(a)
  BY <1>4, DiskKept, QuitOK DEF Refuse, TypeInv
<1>5. CASE Finish(a)
  <2>1. DiskOK' /\ todo[a] = {}
    BY <1>5, DiskKept DEF Finish, TypeInv, ProcOK
  <2>2. ProcOK'
    BY <1>5, <2>1, QuitOK, GotoOK DEF Finish, TypeInv, Places
  <2>3. QED
    BY <2>1, <2>2 DEF TypeInv
<1>6. QED
  BY <1>1, <1>2, <1>3, <1>4, <1>5

LEMMA FetchOK ==
    ASSUME TypeInv, NEW a \in Procs,
           UseCached(a) \/ OpenArchive(a) \/ CopyArchive(a) \/ Verify(a) \/ CheckHollow(a)
    PROVE  TypeInv'
<1>1. /\ pc[a] \in {"fetch", "copy", "verify", "hollow"}
      /\ todo[a] = {} /\ cur[a] \in Pkgs
  BY DEF UseCached, OpenArchive, CopyArchive, Verify, CheckHollow, TypeInv, ProcOK
<1>2. DiskOK'
  <2>1. \/ UNCHANGED disk
        \/ /\ UNCHANGED <<avail, fs, stray, manifest, db>>
           /\ \/ Discard(Archive(cur[a]))
              \/ \E state \in {"partial", "wrong", "good"} :
                     Mark(Archive(cur[a]), state)
    BY DEF UseCached, OpenArchive, CopyArchive, Verify, CheckHollow, disk
  <2>2. QED
    BY <2>1, DiskKept, MarkOK DEF TypeInv, Discard, disk
<1>3. ProcOK'
  <2>1. \/ Quit(a) \/ GiveUp(a)
        \/ \E l \in {"copy", "verify", "pick", "hollow", "list"} : Goto(a, l)
    BY DEF UseCached, OpenArchive, CopyArchive, Verify, CheckHollow
  <2>2. QED
    BY <1>1, <2>1, QuitOK, GiveUpOK, GotoOK DEF TypeInv, Places
<1>4. QED
  BY <1>2, <1>3 DEF TypeInv

LEMMA ManifestOK ==
    ASSUME TypeInv, NEW a \in Procs,
           OpenManifest(a) \/ WriteManifest(a) \/ NoManifest(a) \/ DeleteManifest(a)
    PROVE  TypeInv'
<1>1. cur[a] \in Pkgs /\ Archive(cur[a]) \in Archives
  BY Current DEF OpenManifest, WriteManifest, NoManifest, DeleteManifest
<1>6. ASSUME ToUnpack(a) PROVE ProcOK'
  <2>1. Contents[Archive(cur[a])] \in SUBSET Files
    BY <1>1, ConstAssumption
  <2>2. QED
    BY <1>1, <1>6, <2>1 DEF ToUnpack, TypeInv, ProcOK, Places
<1>2. CASE OpenManifest(a)
  <2>1. DiskOK'
    BY <1>2 DEF OpenManifest, TypeInv, DiskOK, Archive, Owned
  <2>2. todo[a] = {} /\ Goto(a, "listing")
    BY <1>2 DEF OpenManifest, TypeInv, ProcOK
  <2>3. QED
    BY <1>1, <2>1, <2>2, GotoOK DEF TypeInv, Places
<1>3. CASE WriteManifest(a)
  <2>1. PICK L \in SUBSET Contents[Archive(cur[a])] :
            /\ manifest' = [manifest EXCEPT ![cur[a]] = L]
            /\ stray' = stray \ (L \cap Owned(cur[a]))
            /\ UNCHANGED <<avail, cache, fs, db>>
    BY <1>3 DEF WriteManifest
  <2>2. L \in SUBSET Files
    BY <1>1, <2>1, ConstAssumption
  <2>3. DiskOK'
    BY <2>1, <2>2 DEF TypeInv, DiskOK, Archive
  <2>4. QED
    BY <1>3, <1>6, <2>3 DEF WriteManifest, TypeInv
<1>7. CASE NoManifest(a)
  BY <1>6, <1>7, DiskKept DEF NoManifest, TypeInv
<1>4. CASE DeleteManifest(a)
  <2>1. DiskOK'
    BY <1>4 DEF DeleteManifest, TypeInv, DiskOK, Archive
  <2>2. todo[a] = {} /\ (Quit(a) \/ Goto(a, "readDB"))
    BY <1>4 DEF DeleteManifest, DeleteFirst
  <2>3. QED
    BY <1>1, <2>1, <2>2, QuitOK, GotoOK DEF TypeInv, Places
<1>5. QED
  BY <1>2, <1>3, <1>4, <1>7

LEMMA FilesOK ==
    ASSUME TypeInv, NEW a \in Procs,
           Unpack(a) \/ UnpackFails(a) \/ Unpacked(a) \/ DeleteFile(a) \/ RunScript(a)
    PROVE  TypeInv'
<1>1. CASE Unpack(a)
  <2>1. PICK f \in todo[a] :
            /\ pc[a] = "unpack"
            /\ fs' = [fs EXCEPT ![f] = <<cur[a], Fetched(a) = "good">>]
            /\ stray' \subseteq stray \cup {f}
            /\ todo' = [todo EXCEPT ![a] = @ \ {f}]
            /\ UNCHANGED <<avail, cache, manifest, db, pc, cmd, want, queue, cur, mem>>
    BY <1>1 DEF Unpack
  <2>2. <<cur[a], Fetched(a) = "good">> \in Pkgs \X BOOLEAN /\ f \in Files
    BY <2>1, Current DEF TypeInv, ProcOK
  <2>3. DiskOK'
    BY <2>1, <2>2 DEF TypeInv, DiskOK, Archive
  <2>4. ProcOK'
    BY <2>1 DEF TypeInv, ProcOK
  <2>5. QED
    BY <2>3, <2>4 DEF TypeInv
<1>2. CASE UnpackFails(a)
  <2>1. DiskOK'
    BY <1>2, DiskKept DEF UnpackFails, TypeInv
  <2>2. CASE Quit(a)
    BY <2>1, <2>2, QuitOK DEF TypeInv
  <2>3. CASE /\ pc' = [pc EXCEPT ![a] = "rollback"]
             /\ todo' = [todo EXCEPT ![a] = Listed(cur[a])]
             /\ UNCHANGED <<cmd, want, queue, cur, mem>>
    <3>1. cur[a] \in Pkgs /\ Listed(cur[a]) \in SUBSET Files
      BY <1>2, Current DEF UnpackFails, TypeInv, DiskOK, Listed
    <3>2. ProcOK'
      BY <2>3, <3>1 DEF TypeInv, ProcOK, Places
    <3>3. QED
      BY <2>1, <3>2 DEF TypeInv
  <2>4. QED
    BY <1>2, <2>2, <2>3 DEF UnpackFails
<1>3. CASE Unpacked(a)
  BY <1>3, DiskKept, Current, GotoOK DEF Unpacked, TypeInv, Places
<1>4. CASE DeleteFile(a)
  <2>1. PICK f \in todo[a] :
            /\ fs' \in {fs, [fs EXCEPT ![f] = Absent]}
            /\ stray' \subseteq stray \cup {f}
            /\ todo' = [todo EXCEPT ![a] = @ \ {f}]
            /\ UNCHANGED <<avail, cache, manifest, db, pc, cmd, want, queue, cur, mem>>
    BY <1>4 DEF DeleteFile
  <2>4. f \in Files
    BY DEF TypeInv, ProcOK
  <2>5. DiskOK'
    BY <2>1, <2>4 DEF TypeInv, DiskOK, Archive
  <2>2. ProcOK'
    BY <2>1 DEF TypeInv, ProcOK
  <2>3. QED
    BY <2>5, <2>2 DEF TypeInv
<1>5. CASE RunScript(a)
  <2>1. DiskOK'
    BY <1>5 DEF RunScript, TypeInv, DiskOK, Archive
  <2>2. QED
    BY <1>5, <2>1, ProcKept DEF RunScript, TypeInv
<1>6. QED
  BY <1>1, <1>2, <1>3, <1>4, <1>5

LEMMA DatabaseOK ==
    ASSUME TypeInv, NEW a \in Procs,
           LoadDB(a) \/ TruncateDB(a) \/ WriteDB(a) \/ Complete(a) \/ Crash(a)
    PROVE  TypeInv'
<1>6. ASSUME Recorded(a), pc[a] \in {"truncateDB", "writeDB"} PROVE ProcOK'
  BY <1>6, NoEntriesType DEF Recorded, TypeInv, ProcOK, Places
<1>1. CASE LoadDB(a)
  <2>1. cur[a] \in Pkgs /\ avail[cur[a]] \in Versions
    BY <1>1, Current DEF LoadDB, TypeInv, DiskOK
  <2>2. NewEntry(a) \in {None} \cup Entries
    BY <2>1 DEF NewEntry, Entries, Entry
  <2>3. [ReadDB EXCEPT ![cur[a]] = NewEntry(a)] \in Databases
    BY <2>2, ReadDBType DEF TypeInv, Databases
  <2>4. ProcOK'
    BY <1>1, <2>1, <2>3 DEF LoadDB, TypeInv, ProcOK, Places
  <2>5. QED
    BY <1>1, <2>4, DiskKept DEF LoadDB, TypeInv
<1>2. CASE TruncateDB(a)
  <2>1. DiskOK'
    BY <1>2, NoEntriesType DEF TruncateDB, TypeInv, DiskOK, Archive
  <2>2. /\ todo[a] = {} /\ cur[a] \in Pkgs /\ pc[a] = "truncateDB"
        /\ Goto(a, "writeDB") \/ Recorded(a)
    BY <1>2 DEF TruncateDB, TypeInv, ProcOK
  <2>3. QED
    BY <1>6, <2>1, <2>2, GotoOK DEF TypeInv, Places
<1>3. CASE WriteDB(a)
  <2>1. DiskOK'
    BY <1>3 DEF WriteDB, TypeInv, ProcOK, DiskOK, Archive
  <2>2. ProcOK'
    BY <1>3, <1>6 DEF WriteDB
  <2>3. QED
    BY <2>1, <2>2 DEF TypeInv
<1>4. CASE Complete(a) \/ Crash(a)
  BY <1>4, DiskKept, QuitOK DEF Complete, Crash, TypeInv
<1>5. QED
  BY <1>1, <1>2, <1>3, <1>4

LEMMA TypeInit == Init => TypeInv
<1> SUFFICES ASSUME Init PROVE TypeInv
  OBVIOUS
<1>1. PICK I \in SUBSET Pkgs :
          /\ fs \in [Files -> {Absent} \cup (I \X {TRUE})]
          /\ manifest = [p \in Pkgs |-> IF p \in I THEN Contents[<<p, 1>>] ELSE None]
          /\ db \in {[p \in Pkgs |-> IF p \in I THEN Entry(1, e[p]) ELSE None] :
                         e \in [Pkgs -> {0, 1}]} \cup {Missing}
  BY ConstAssumption DEF Init
<1>2. ASSUME NEW p \in Pkgs
      PROVE  /\ <<p, 1>> \in Archives /\ 1 \in Versions
             /\ Contents[<<p, 1>>] \in SUBSET Files
  <2>1. <<p, 1>> \in Archives /\ Contents \in [Archives -> SUBSET Files]
    BY ConstAssumption
  <2>2. 1 \in Versions
    BY <2>1 DEF Versions
  <2>3. QED
    BY <2>1, <2>2
<1>3. db \in {Missing} \cup Databases
  <2>1. ASSUME NEW e \in [Pkgs -> {0, 1}]
        PROVE  [p \in Pkgs |-> IF p \in I THEN Entry(1, e[p]) ELSE None] \in Databases
    BY <1>2 DEF Databases, Entries, Entry
  <2>2. QED
    BY <1>1, <2>1
<1>4. DiskOK
  <2>1. avail \in [Pkgs -> Versions] /\ \A p \in Pkgs : Archive(p) \in Archives
    <3>1. avail = [p \in Pkgs |-> 1]
      BY DEF Init
    <3>2. \A p \in Pkgs : Archive(p) = <<p, 1>>
      BY <3>1 DEF Archive
    <3>3. QED
      BY <1>2, <3>1, <3>2
  <2>2. cache \in [Archives -> {"none", "partial", "wrong", "good"}]
    BY DEF Init
  <2>3. fs \in [Files -> {Absent} \cup (Pkgs \X BOOLEAN)]
    BY <1>1
  <2>4. manifest \in [Pkgs -> {None} \cup SUBSET Files]
    BY <1>1, <1>2
  <2>5. stray \subseteq Files
    BY DEF Init
  <2>6. QED
    BY <1>3, <2>1, <2>2, <2>3, <2>4, <2>5 DEF DiskOK
<1>5. ProcOK
  BY NoEntriesType DEF Init, ProcOK, Places
<1>6. QED
  BY <1>4, <1>5 DEF TypeInv

LEMMA TypeStep == TypeInv /\ [Next]_vars => TypeInv'
<1> SUFFICES ASSUME TypeInv, [Next]_vars PROVE TypeInv'
  OBVIOUS
<1>1. ASSUME NEW a \in Procs, Command(a) \/ Step(a) \/ Crash(a) PROVE TypeInv'
  BY <1>1, CommandOK, PickOK, FetchOK, ManifestOK, FilesOK, DatabaseOK DEF Step
<1>2. CASE UNCHANGED vars
  BY <1>2, DiskKept, ProcKept DEF vars, TypeInv
<1>3. QED
  BY <1>1, <1>2, UpdateOK DEF Next

LEMMA TypeInvariant == Spec => []TypeInv
BY TypeInit, TypeStep, PTL DEF Spec

\* The types of the installation and of every apt-cyg process, however many run at
\* once; a process between two packages has no file left to handle.
THEOREM PackagesTypeOK == Spec => []TypeOK
<1>1. TypeInv => TypeOK
  BY DEF TypeInv, DiskOK, ProcOK, TypeOK, Places, Databases
<1>2. QED
  BY <1>1, TypeInvariant, PTL
-----------------------------------------------------------------------------
(* Who owns which file.                                                       *)

\* One apt-cyg at a time.
Alone == \A a, b \in Procs : a = b

Owns(p, f) == fs[f] # Absent /\ fs[f][1] = p

\* What a package owns is in its manifest, or was lost track of.
OwnerInv ==
    \A p \in Pkgs, f \in Files : Owns(p, f) => f \in Listed(p) \cup stray

\* A manifest just emptied is empty, and a package that is to go owns only what
\* is still to be deleted, or was lost track of.
Stage(a) ==
    /\ pc[a] = "listing" => Listed(cur[a]) = {}
    /\ pc[a] \in {"rollback", "delete"} =>
           \A f \in Files : Owns(cur[a], f) => f \in todo[a] \cup stray

OwnInv == OwnerInv /\ \A a \in Procs : Stage(a)

\* A step that leaves the files and the manifests alone changes no owner.
LEMMA OwnerKept ==
    ASSUME OwnerInv, UNCHANGED <<fs, stray, manifest>>
    PROVE  OwnerInv'
BY DEF OwnerInv, Owns, Listed

\* Where a process is at no stage.
LEMMA NoStage ==
    ASSUME NEW a, pc'[a] \notin {"listing", "rollback", "delete"}
    PROVE  Stage(a)'
BY DEF Stage

LEMMA OwnCommand ==
    ASSUME TypeInv, OwnInv, NEW a \in Procs, Procs = {a}, Command(a)
    PROVE  OwnInv'
<1>1. UNCHANGED <<fs, stray, manifest>> /\ pc'[a] \in {"idle", "pick"}
  BY DEF Command, Install, Reinstall, Upgrade, Remove, Autoremove, Download, Clean,
         Start, disk, procVars, TypeInv, ProcOK
<1>2. QED
  BY <1>1, OwnerKept, NoStage DEF OwnInv

LEMMA OwnUpdate == OwnInv /\ Update => OwnInv'
<1> SUFFICES ASSUME OwnInv, Update PROVE OwnInv'
  OBVIOUS
<1>1. UNCHANGED <<fs, stray, manifest, pc, cur, todo>>
  BY DEF Update, procVars
<1>2. QED
  BY <1>1 DEF OwnInv, OwnerInv, Stage, Owns, Listed

\* "remove" starts from the manifest.
LEMMA OwnPick ==
    ASSUME TypeInv, OwnInv, NEW a \in Procs, Procs = {a},
           Skip(a) \/ Begin(a) \/ BeginRemove(a) \/ Refuse(a) \/ Finish(a)
    PROVE  OwnInv'
<1>1. UNCHANGED <<fs, stray, manifest>>
  BY DEF Skip, Begin, BeginRemove, Refuse, Finish, Take, disk
<1>2. OwnerInv'
  BY <1>1, OwnerKept DEF OwnInv
<1>3. CASE Skip(a) \/ Refuse(a) \/ Finish(a) \/ Begin(a)
  <2>1. pc'[a] \in {"idle", "pick", "scripts", "fetch"}
    BY <1>3 DEF Skip, Refuse, Finish, Begin, Take, Quit, Goto, TypeInv, ProcOK
  <2>2. QED
    BY <1>2, <2>1, NoStage DEF OwnInv
<1>4. CASE BeginRemove(a)
  <2>1. PICK p \in Pkgs : /\ cur' = [cur EXCEPT ![a] = p]
                          /\ pc' = [pc EXCEPT ![a] = "delete"]
                          /\ todo' = [todo EXCEPT ![a] = Listed(p)]
    BY <1>4 DEF BeginRemove
  <2>2. cur'[a] = p /\ pc'[a] = "delete" /\ todo'[a] = Listed(p)
    BY <2>1 DEF TypeInv, ProcOK
  <2>3. \A f \in Files : Owns(p, f)' => f \in todo'[a] \cup stray'
    BY <1>1, <2>2 DEF Owns, OwnInv, OwnerInv
  <2>4. Stage(a)'
    BY <2>2, <2>3 DEF Stage, Owns
  <2>5. QED
    BY <1>2, <2>4 DEF OwnInv
<1>5. QED
  BY <1>3, <1>4

LEMMA OwnFetch ==
    ASSUME TypeInv, OwnInv, NEW a \in Procs, Procs = {a},
           UseCached(a) \/ OpenArchive(a) \/ CopyArchive(a) \/ Verify(a) \/ CheckHollow(a)
    PROVE  OwnInv'
<1>1. UNCHANGED <<fs, stray, manifest>>
  BY DEF UseCached, OpenArchive, CopyArchive, Verify, CheckHollow, disk
<1>2. pc'[a] \in {"idle", "pick", "copy", "verify", "hollow", "list"}
  BY DEF UseCached, OpenArchive, CopyArchive, Verify, CheckHollow, GiveUp, Goto, Quit,
         TypeInv, ProcOK
<1>3. QED
  BY <1>1, <1>2, OwnerKept, NoStage DEF OwnInv

\* The manifest is emptied, which loses track of all the package owns, and written,
\* which finds again what it lists.
LEMMA OwnManifest ==
    ASSUME TypeInv, OwnInv, NEW a \in Procs, Procs = {a},
           OpenManifest(a) \/ WriteManifest(a) \/ NoManifest(a)
    PROVE  OwnInv'
<1>1. cur[a] \in Pkgs
  BY Current DEF OpenManifest, WriteManifest, NoManifest
<1>2. CASE OpenManifest(a)
  <2>1. /\ pc'[a] = "listing" /\ cur' = cur /\ fs' = fs
        /\ manifest' = [manifest EXCEPT ![cur[a]] = {}]
        /\ stray' = stray \cup Owned(cur[a])
    BY <1>2 DEF OpenManifest, Goto, TypeInv, ProcOK
  <2>2. manifest'[cur[a]] = {} /\ \A p \in Pkgs \ {cur[a]} : manifest'[p] = manifest[p]
    BY <1>1, <2>1 DEF TypeInv, DiskOK
  <2>3. ASSUME NEW p \in Pkgs, NEW f \in Files, Owns(p, f)'
        PROVE  f \in Listed(p)' \cup stray'
    <3>1. Owns(p, f)
      BY <2>1, <2>3 DEF Owns
    <3>2. CASE p = cur[a]
      BY <2>1, <3>1, <3>2 DEF Owned, Owns
    <3>3. CASE p # cur[a]
      BY <2>1, <2>2, <3>1, <3>3 DEF OwnInv, OwnerInv, Listed
    <3>4. QED
      BY <3>2, <3>3
  <2>4. Stage(a)'
    BY <2>1, <2>2 DEF Stage, Listed
  <2>5. QED
    BY <2>3, <2>4 DEF OwnInv, OwnerInv
<1>3. CASE WriteManifest(a)
  <2>1. PICK L \in SUBSET Contents[Archive(cur[a])] :
            /\ manifest' = [manifest EXCEPT ![cur[a]] = L]
            /\ stray' = stray \ (L \cap Owned(cur[a]))
    BY <1>3 DEF WriteManifest
  <2>2. pc[a] = "listing" /\ pc'[a] = "unpack" /\ fs' = fs
    BY <1>3 DEF WriteManifest, ToUnpack, TypeInv, ProcOK
  <2>3. /\ manifest'[cur[a]] = L /\ L # None
        /\ \A p \in Pkgs \ {cur[a]} : manifest'[p] = manifest[p]
    <3>1. L \in SUBSET Files
      BY <1>3, Current, ConstAssumption DEF WriteManifest
    <3>2. QED
      BY <1>1, <2>1, <3>1, DistinctAssumption DEF TypeInv, DiskOK
  <2>4. ASSUME NEW p \in Pkgs, NEW f \in Files, Owns(p, f)'
        PROVE  f \in Listed(p)' \cup stray'
    <3>1. Owns(p, f)
      BY <2>2, <2>4 DEF Owns
    <3>2. CASE p = cur[a]
      <4>1. f \in stray
        BY <2>2, <3>1, <3>2 DEF OwnInv, OwnerInv, Stage
      <4>2. Listed(p)' = L
        BY <2>3, <3>2 DEF Listed
      <4>3. QED
        BY <2>1, <4>1, <4>2
    <3>3. CASE p # cur[a]
      <4>1. Listed(p)' = Listed(p)
        BY <2>3, <3>3 DEF Listed
      <4>2. f \notin Owned(cur[a])
        BY <3>1, <3>3 DEF Owned, Owns
      <4>3. QED
        BY <2>1, <3>1, <4>1, <4>2 DEF OwnInv, OwnerInv
    <3>4. QED
      BY <3>2, <3>3
  <2>5. QED
    BY <2>2, <2>4, NoStage DEF OwnInv, OwnerInv
<1>4. CASE NoManifest(a)
  <2>1. UNCHANGED <<fs, stray, manifest>> /\ pc'[a] = "unpack"
    BY <1>4 DEF NoManifest, ToUnpack, disk, TypeInv, ProcOK
  <2>2. QED
    BY <2>1, OwnerKept, NoStage DEF OwnInv
<1>5. QED
  BY <1>2, <1>3, <1>4

\* A file leaves the list of those to be deleted when it is gone, or lost track of.
LEMMA OwnDeleteFile ==
    ASSUME TypeInv, OwnInv, NEW a \in Procs, Procs = {a}, DeleteFile(a)
    PROVE  OwnInv'
<1>1. PICK f \in todo[a] :
          /\ pc[a] \in {"rollback", "delete"}
          /\ \/ fs' = [fs EXCEPT ![f] = Absent] /\ stray' = stray \ {f}
             \/ stray' = stray \cup ({f} \cap Owned(cur[a])) /\ UNCHANGED fs
          /\ todo' = [todo EXCEPT ![a] = @ \ {f}]
          /\ UNCHANGED <<manifest, pc, cur>>
  BY DEF DeleteFile
<1>2. todo'[a] = todo[a] \ {f} /\ f \in Files
  BY <1>1 DEF TypeInv, ProcOK
<1>3. ASSUME NEW p \in Pkgs, NEW g \in Files, Owns(p, g)'
      PROVE  /\ Owns(p, g) /\ (g \in stray => g \in stray')
             /\ p = cur[a] /\ g = f => g \in stray'
  <2>1. CASE fs' = [fs EXCEPT ![f] = Absent] /\ stray' = stray \ {f}
    <3>1. fs'[f] = Absent /\ \A h \in Files \ {f} : fs'[h] = fs[h]
      BY <1>2, <2>1 DEF TypeInv, DiskOK
    <3>2. QED
      BY <1>3, <2>1, <3>1 DEF Owns
  <2>2. CASE stray' = stray \cup ({f} \cap Owned(cur[a])) /\ UNCHANGED fs
    BY <1>3, <2>2 DEF Owns, Owned
  <2>3. QED
    BY <1>1, <2>1, <2>2
<1>4. OwnerInv'
  <2> SUFFICES ASSUME NEW p \in Pkgs, NEW g \in Files, Owns(p, g)'
               PROVE  g \in Listed(p)' \cup stray'
    BY DEF OwnerInv
  <2>1. Owns(p, g) /\ (g \in stray => g \in stray')
    BY <1>3
  <2>2. Listed(p)' = Listed(p)
    BY <1>1 DEF Listed
  <2>3. QED
    BY <2>1, <2>2 DEF OwnInv, OwnerInv
<1>5. Stage(a)'
  <2>1. cur[a] \in Pkgs
    BY <1>1, Current
  <2>2. ASSUME NEW p \in Pkgs, NEW g \in Files, p = cur[a], Owns(p, g)'
        PROVE  g \in todo'[a] \cup stray'
    <3>1. Owns(cur[a], g) /\ (g \in stray => g \in stray') /\ (g = f => g \in stray')
      BY <1>3, <2>1, <2>2
    <3>2. g \in todo[a] \cup stray
      BY <1>1, <3>1 DEF OwnInv, Stage
    <3>3. QED
      BY <1>2, <3>1, <3>2
  <2>3. pc'[a] # "listing" /\ cur'[a] = cur[a]
    BY <1>1
  <2>4. QED
    BY <2>1, <2>2, <2>3 DEF Stage, Owns
<1>6. QED
  BY <1>4, <1>5 DEF OwnInv

LEMMA OwnFiles ==
    ASSUME TypeInv, OwnInv, NEW a \in Procs, Procs = {a},
           Unpack(a) \/ UnpackFails(a) \/ RunScript(a)
    PROVE  OwnInv'
<1>1. CASE Unpack(a)
  <2>1. PICK f \in todo[a] :
            /\ pc[a] = "unpack"
            /\ fs' = [fs EXCEPT ![f] = <<cur[a], Fetched(a) = "good">>]
            /\ stray' = IF f \in Listed(cur[a]) THEN stray \ {f} ELSE stray \cup {f}
            /\ UNCHANGED <<manifest, pc>>
    BY <1>1 DEF Unpack
  <2>2. /\ f \in Files /\ fs'[f] = <<cur[a], Fetched(a) = "good">>
        /\ \A g \in Files \ {f} : fs'[g] = fs[g]
    BY <2>1 DEF TypeInv, DiskOK, ProcOK
  <2>3. ASSUME NEW p \in Pkgs, NEW g \in Files, Owns(p, g)'
        PROVE  g \in Listed(p)' \cup stray'
    <3>1. Listed(p)' = Listed(p)
      BY <2>1 DEF Listed
    <3>2. CASE g = f
      BY <2>1, <2>2, <2>3, <3>1, <3>2 DEF Owns
    <3>3. CASE g # f
      <4>1. Owns(p, g)
        BY <2>2, <2>3, <3>3 DEF Owns
      <4>2. g \in stray => g \in stray'
        BY <2>1, <3>3
      <4>3. QED
        BY <3>1, <4>1, <4>2 DEF OwnInv, OwnerInv
    <3>4. QED
      BY <3>2, <3>3
  <2>4. QED
    BY <2>1, <2>3, NoStage DEF OwnInv, OwnerInv
<1>2. CASE UnpackFails(a)
  <2>1. pc[a] = "unpack" /\ UNCHANGED <<fs, stray, manifest>>
    BY <1>2 DEF UnpackFails, disk
  <2>2. OwnerInv'
    BY <2>1, OwnerKept DEF OwnInv
  <2>3. CASE Quit(a)
    BY <2>2, <2>3, NoStage DEF Quit, OwnInv, TypeInv, ProcOK
  <2>4. CASE /\ pc' = [pc EXCEPT ![a] = "rollback"]
             /\ todo' = [todo EXCEPT ![a] = Listed(cur[a])]
             /\ UNCHANGED <<cmd, want, queue, cur, mem>>
    <3>1. pc'[a] = "rollback" /\ todo'[a] = Listed(cur[a]) /\ cur[a] \in Pkgs
      BY <2>1, <2>4, Current DEF TypeInv, ProcOK
    <3>2. Stage(a)'
      BY <2>1, <2>4, <3>1 DEF OwnInv, OwnerInv, Stage, Owns
    <3>3. QED
      BY <2>2, <3>2 DEF OwnInv
  <2>5. QED
    BY <1>2, <2>3, <2>4 DEF UnpackFails
<1>3. CASE RunScript(a)
  <2>1. PICK f \in Scripts :
            /\ pc[a] = "scripts" /\ fs' = [fs EXCEPT ![f] = Absent]
            /\ stray' = stray \ {f}
            /\ UNCHANGED <<manifest, pc>>
    BY <1>3 DEF RunScript, procVars
  <2>2. fs'[f] = Absent /\ \A g \in Files \ {f} : fs'[g] = fs[g]
    BY <2>1, ConstAssumption DEF TypeInv, DiskOK
  <2>3. OwnerInv'
    BY <2>1, <2>2 DEF OwnInv, OwnerInv, Owns, Listed
  <2>4. QED
    BY <2>1, <2>3, NoStage DEF OwnInv
<1>4. QED
  BY <1>1, <1>2, <1>3

\* The manifest goes when no file is left that it lists and nobody lost track of.
LEMMA OwnDeleteManifest ==
    ASSUME TypeInv, OwnInv, NEW a \in Procs, Procs = {a}, DeleteManifest(a)
    PROVE  OwnInv'
<1>1. /\ pc[a] \in {"rollback", "delete"} /\ todo[a] = {}
      /\ \/ manifest' = [manifest EXCEPT ![cur[a]] = None]
         \/ UNCHANGED manifest
      /\ UNCHANGED <<fs, stray>>
      /\ pc'[a] \in {"idle", "readDB"}
  BY DEF DeleteManifest, DeleteFirst, Quit, Goto, TypeInv, ProcOK
<1>2. \A p \in Pkgs \ {cur[a]} : manifest'[p] = manifest[p]
  BY <1>1 DEF TypeInv, DiskOK
<1>3. \A f \in Files : Owns(cur[a], f) => f \in stray
  BY <1>1 DEF OwnInv, Stage
<1>4. OwnerInv'
  BY <1>1, <1>2, <1>3 DEF OwnInv, OwnerInv, Owns, Listed
<1>5. QED
  BY <1>1, <1>4, NoStage DEF OwnInv

\* Recording and ending touch no file and no manifest.
LEMMA OwnDatabase ==
    ASSUME TypeInv, OwnInv, NEW a \in Procs, Procs = {a},
           \/ Unpacked(a) \/ LoadDB(a) \/ TruncateDB(a) \/ WriteDB(a) \/ Complete(a)
           \/ Crash(a)
    PROVE  OwnInv'
<1>1. /\ UNCHANGED <<fs, stray, manifest>>
      /\ pc'[a] \in {"idle", "pick", "readDB", "truncateDB", "writeDB"}
  BY DEF Unpacked, LoadDB, TruncateDB, WriteDB, Recorded, Complete, Crash, Quit, Goto,
         disk, TypeInv, ProcOK
<1>2. QED
  BY <1>1, OwnerKept, NoStage DEF OwnInv

LEMMA OwnInit == Init => OwnInv
<1> SUFFICES ASSUME Init PROVE OwnInv
  OBVIOUS
<1>1. PICK I \in SUBSET Pkgs :
          /\ fs \in [Files -> {Absent} \cup (I \X {TRUE})]
          /\ \A f \in Files :
                 LET owners == {p \in I : f \in Contents[<<p, 1>>] \ Scripts}
                 IN  IF owners = {} THEN fs[f] = Absent
                     ELSE fs[f] # Absent /\ fs[f][1] \in owners
          /\ manifest = [p \in Pkgs |-> IF p \in I THEN Contents[<<p, 1>>] ELSE None]
          /\ pc = [a \in Procs |-> "idle"]
  BY ConstAssumption DEF Init
<1>2. \A p \in Pkgs : Contents[<<p, 1>>] # None
  BY ConstAssumption, DistinctAssumption
<1>3. ASSUME NEW p \in Pkgs, NEW f \in Files, Owns(p, f)
      PROVE  p \in I /\ f \in Contents[<<p, 1>>]
  BY <1>1, <1>3 DEF Owns
<1>4. OwnerInv
  BY <1>1, <1>2, <1>3 DEF OwnerInv, Listed
<1>5. \A a \in Procs : Stage(a)
  BY <1>1 DEF Stage
<1>6. QED
  BY <1>4, <1>5 DEF OwnInv

LEMMA OwnStep ==
    ASSUME Alone
    PROVE  TypeInv /\ OwnInv /\ [Next]_vars => OwnInv'
<1> SUFFICES ASSUME TypeInv, OwnInv, [Next]_vars PROVE OwnInv'
  OBVIOUS
<1>1. ASSUME NEW a \in Procs, Command(a) \/ Step(a) \/ Crash(a) PROVE OwnInv'
  <2>1. Procs = {a}
    BY DEF Alone
  <2>2. QED
    BY <1>1, <2>1, OwnCommand, OwnPick, OwnFetch, OwnManifest, OwnFiles,
       OwnDeleteFile, OwnDeleteManifest, OwnDatabase DEF Step
<1>2. CASE Update
  BY <1>2, OwnUpdate
<1>3. CASE UNCHANGED vars
  BY <1>3 DEF vars, disk, procVars, OwnInv, OwnerInv, Stage, Owns, Listed
<1>4. QED
  BY <1>1, <1>2, <1>3 DEF Next

\* A file that apt-cyg unpacked belongs to a package that apt-cyg reports as
\* installed, whatever fails and wherever the process dies, but for the files it
\* lost track of: those that a manifest does not list, or that could not be deleted
\* when it was their turn.  One apt-cyg runs at a time.
THEOREM FilesAreOwned ==
    ASSUME Alone
    PROVE  Spec => []FilesOwned
<1>1. TypeInv /\ OwnInv => FilesOwned
  <2> SUFFICES ASSUME TypeInv, OwnInv, NEW f \in Files, fs[f] # Absent, f \notin stray
               PROVE  IsInstalled(fs[f][1])
    BY DEF FilesOwned
  <2>1. fs[f][1] \in Pkgs /\ Owns(fs[f][1], f)
    BY DEF TypeInv, DiskOK, Owns
  <2>2. f \in Listed(fs[f][1])
    BY <2>1 DEF OwnInv, OwnerInv
  <2>3. QED
    BY <2>2 DEF Listed, IsInstalled
<1>2. OwnInv /\ TypeInv /\ [Next]_vars => OwnInv'
  BY OwnStep
<1>3. QED
  BY <1>1, <1>2, OwnInit, TypeInvariant, PTL DEF Spec
-----------------------------------------------------------------------------
(* What autoremove may take away.                                             *)

\* While autoremove is at work the database is there, and nothing that is in it,
\* or will be written to it, depends on a package that is still to go.
NeededInv ==
    \A a \in Procs :
        /\ pc[a] = "idle" => cur[a] = None /\ mem[a] = NoEntries /\ cmd[a] = "none"
        /\ cmd[a] = "autoremove" =>
               /\ db # Missing
               /\ \A p \in Pkgs, q \in Pkgs :
                      /\ p \in queue[a] \/ p = cur[a]
                      /\ db[q] # None \/ mem[a][q] # None
                      => p \notin Depends[q]


\* A process that goes on without touching the database, the list or its memory.
LEMMA NeededKept ==
    ASSUME TypeInv, NeededInv, NEW a \in Procs, Procs = {a}, db' = db,
           \/ Quit(a)
           \/ pc'[a] # "idle" /\ UNCHANGED <<cmd, queue, cur, mem>>
    PROVE  NeededInv'
<1>1. CASE Quit(a)
  BY <1>1 DEF Quit, NeededInv, TypeInv, ProcOK
<1>2. CASE pc'[a] # "idle" /\ UNCHANGED <<cmd, queue, cur, mem>>
  BY <1>2 DEF NeededInv
<1>3. QED
  BY <1>1, <1>2

\* autoremove starts from the database: a manifest alone counts as explicit.
LEMMA OrphansRecorded ==
    ASSUME TypeInv, NEW p \in Orphans
    PROVE  db # Missing /\ \A q \in Pkgs : db[q] # None => p \notin Depends[q]
<1>1. p \in Pkgs /\ p \notin Needed /\ ReadDB[p] # None /\ ReadDB[p][2] # 1
  BY DEF Orphans
<1>2. db # Missing
  BY <1>1 DEF ReadDB, Entry
<1>3. QED
  BY <1>1, <1>2 DEF Needed, ReadDB

LEMMA NeededStart ==
    ASSUME TypeInv, NeededInv, NEW a \in Procs, Procs = {a},
           NEW c, NEW S, NEW goal, Start(a, c, S, goal),
           c = "autoremove" => S = Orphans
    PROVE  NeededInv'
<1>1. /\ S # {} /\ db' = db /\ cur[a] = None /\ mem[a] = NoEntries
      /\ UNCHANGED <<cur, mem>>
      /\ pc'[a] = "pick" /\ cmd'[a] = c /\ queue'[a] = S
  BY DEF Start, NeededInv, TypeInv, ProcOK, disk
<1>2. CASE c # "autoremove"
  BY <1>1, <1>2 DEF NeededInv
<1>3. CASE c = "autoremove"
  <2>1. db # Missing
    BY <1>1, <1>3, OrphansRecorded
  <2>2. ASSUME NEW p \in Pkgs, NEW q \in Pkgs,
               p \in queue'[a] \/ p = cur'[a], db'[q] # None \/ mem'[a][q] # None
        PROVE  p \notin Depends[q]
    <3>1. p \in Orphans
      BY <1>1, <1>3, <2>2, ConstAssumption
    <3>2. db[q] # None
      BY <1>1, <2>2 DEF NoEntries
    <3>3. QED
      BY <3>1, <3>2, OrphansRecorded
  <2>3. QED
    BY <1>1, <2>1, <2>2 DEF NeededInv
<1>4. QED
  BY <1>2, <1>3

LEMMA NeededCommand ==
    ASSUME TypeInv, NeededInv, NEW a \in Procs, Procs = {a}, Command(a)
    PROVE  NeededInv'
<1>1. CASE Clean(a)
  BY <1>1 DEF Clean, NeededInv, procVars
<1>2. ASSUME NEW c, NEW S, NEW goal, Start(a, c, S, goal), c # "autoremove"
      PROVE  NeededInv'
  BY <1>2, NeededStart
<1>3. CASE Install(a) \/ Reinstall(a) \/ Remove(a) \/ Download(a)
  BY <1>2, <1>3 DEF Install, Reinstall, Remove, Download
<1>4. CASE Upgrade(a)
  BY <1>2, <1>4 DEF Upgrade
<1>5. CASE Autoremove(a)
  BY <1>5, NeededStart DEF Autoremove
<1>6. QED
  BY <1>1, <1>3, <1>4, <1>5 DEF Command

LEMMA NeededPick ==
    ASSUME TypeInv, NeededInv, NEW a \in Procs, Procs = {a},
           Skip(a) \/ Begin(a) \/ BeginRemove(a) \/ Refuse(a) \/ Finish(a)
    PROVE  NeededInv'
<1>1. CASE Skip(a)
  <2>1. /\ pc[a] = "pick" /\ queue'[a] \subseteq queue[a]
        /\ UNCHANGED <<db, pc, cmd, cur, mem>>
    BY <1>1 DEF Skip, Take, disk, TypeInv, ProcOK
  <2>2. QED
    BY <2>1 DEF NeededInv
<1>2. CASE Begin(a)
  <2>1. cmd'[a] # "autoremove" /\ pc'[a] = "fetch"
    BY <1>2 DEF Begin, Removing, TypeInv, ProcOK
  <2>2. QED
    BY <2>1 DEF NeededInv
<1>3. CASE BeginRemove(a)
  <2>1. PICK p \in Pkgs :
            /\ p \in queue[a] /\ queue'[a] = queue[a] \ {p} /\ cur'[a] = p
            /\ pc'[a] = "delete" /\ UNCHANGED <<db, cmd, mem>>
    BY <1>3 DEF BeginRemove, Take, disk, TypeInv, ProcOK
  <2>2. QED
    BY <2>1 DEF NeededInv
<1>4. CASE Refuse(a)
  BY <1>4, NeededKept DEF Refuse, disk
<1>5. CASE Finish(a)
  BY <1>5, NeededKept DEF Finish, Goto, disk, TypeInv, ProcOK
<1>6. QED
  BY <1>1, <1>2, <1>3, <1>4, <1>5

\* What is fetched, unpacked, deleted and run does not touch the database.
LEMMA NeededOther ==
    ASSUME TypeInv, NeededInv, NEW a \in Procs, Procs = {a},
           \/ UseCached(a) \/ OpenArchive(a) \/ CopyArchive(a) \/ Verify(a)
           \/ CheckHollow(a) \/ OpenManifest(a) \/ WriteManifest(a) \/ NoManifest(a)
           \/ Unpack(a) \/ UnpackFails(a) \/ Unpacked(a)
           \/ DeleteFile(a) \/ DeleteManifest(a)
           \/ RunScript(a) \/ Complete(a) \/ Crash(a)
    PROVE  NeededInv'
<1>1. db' = db
  BY DEF UseCached, OpenArchive, CopyArchive, Verify, CheckHollow, OpenManifest,
         WriteManifest, NoManifest, Unpack, UnpackFails, Unpacked, DeleteFile, DeleteManifest,
         RunScript, Complete, Crash, disk
<1>2. \/ Quit(a)
      \/ pc'[a] # "idle" /\ UNCHANGED <<cmd, queue, cur, mem>>
  <2>1. CASE UseCached(a) \/ OpenArchive(a) \/ CopyArchive(a) \/ Verify(a)
             \/ CheckHollow(a)
    BY <2>1 DEF UseCached, OpenArchive, CopyArchive, Verify, CheckHollow, GiveUp, Goto,
                TypeInv, ProcOK
  <2>2. CASE OpenManifest(a) \/ WriteManifest(a) \/ NoManifest(a) \/ DeleteManifest(a)
    BY <2>2 DEF OpenManifest, WriteManifest, NoManifest, ToUnpack, DeleteManifest, Goto,
                TypeInv, ProcOK
  <2>3. CASE Unpack(a) \/ UnpackFails(a) \/ Unpacked(a)
    BY <2>3 DEF Unpack, UnpackFails, Unpacked, Goto, TypeInv, ProcOK
  <2>4. CASE DeleteFile(a) \/ RunScript(a) \/ Complete(a) \/ Crash(a)
    BY <2>4 DEF DeleteFile, RunScript, Complete, Crash, procVars
  <2>5. QED
    BY <2>1, <2>2, <2>3, <2>4
<1>3. QED
  BY <1>1, <1>2, NeededKept

\* What is loaded, and written back, is the database less one package; between the
\* two the file is empty, and no process looks at it.
LEMMA NeededDatabase ==
    ASSUME TypeInv, NeededInv, NEW a \in Procs, Procs = {a},
           LoadDB(a) \/ TruncateDB(a) \/ WriteDB(a)
    PROVE  NeededInv'
<1>1. CASE LoadDB(a)
  <2>1. /\ pc'[a] = "truncateDB" /\ UNCHANGED <<db, cmd, queue, cur>>
        /\ mem'[a] = [ReadDB EXCEPT ![cur[a]] = NewEntry(a)]
        /\ ReadDB \in Databases /\ cur[a] \in Pkgs
    BY <1>1, ReadDBType, Current DEF LoadDB, disk, TypeInv, ProcOK
  <2>2. ASSUME cmd[a] = "autoremove", NEW q \in Pkgs, mem'[a][q] # None
        PROVE  db[q] # None
    <3>1. NewEntry(a) = None /\ ReadDB = db
      BY <2>2 DEF NewEntry, Removing, ReadDB, NeededInv
    <3>2. QED
      BY <2>1, <2>2, <3>1 DEF Databases
  <2>3. ASSUME cmd'[a] = "autoremove"
        PROVE  /\ db' # Missing
               /\ \A p \in Pkgs, q \in Pkgs :
                      /\ p \in queue'[a] \/ p = cur'[a]
                      /\ db'[q] # None \/ mem'[a][q] # None
                      => p \notin Depends[q]
    <3>1. cmd[a] = "autoremove" /\ db' = db /\ queue' = queue /\ cur' = cur
      BY <2>1, <2>3
    <3>2. \A q \in Pkgs : mem'[a][q] # None => db[q] # None
      BY <2>2, <3>1
    <3>3. QED
      BY <3>1, <3>2 DEF NeededInv
  <2>4. pc'[a] # "idle"
    BY <2>1
  <2>5. QED
    BY <2>3, <2>4 DEF NeededInv
<1>2. CASE TruncateDB(a)
  <2>1. \/ pc'[a] = "writeDB" /\ UNCHANGED <<cmd, queue, cur, mem>> /\ db' = NoEntries
        \/ Recorded(a) /\ db' = db
    BY <1>2 DEF TruncateDB, Goto, TypeInv, ProcOK
  <2>2. NoEntries # Missing /\ None \notin Pkgs
    BY DistinctAssumption, ConstAssumption DEF NoEntries
  <2>3. CASE Recorded(a) /\ db' = db
    <3>1. /\ pc'[a] = "pick" /\ UNCHANGED <<cmd, queue, db>>
          /\ mem'[a] = NoEntries /\ cur'[a] = None
      BY <2>3 DEF Recorded, TypeInv, ProcOK
    <3>2. QED
      BY <2>2, <3>1 DEF NeededInv, NoEntries
  <2>4. QED
    BY <2>1, <2>2, <2>3 DEF NeededInv, NoEntries
<1>3. CASE WriteDB(a)
  <2>1. /\ pc'[a] = "pick" /\ UNCHANGED <<cmd, queue>> /\ db' = mem[a]
        /\ mem'[a] = NoEntries /\ cur'[a] = None
    BY <1>3 DEF WriteDB, Recorded, TypeInv, ProcOK
  <2>2. mem[a] # Missing
    BY DistinctAssumption DEF TypeInv, ProcOK, Databases
  <2>3. None \notin Pkgs
    BY ConstAssumption
  <2>4. QED
    BY <2>1, <2>2, <2>3 DEF NeededInv, NoEntries
<1>4. QED
  BY <1>1, <1>2, <1>3

LEMMA NeededStep ==
    ASSUME Alone
    PROVE  TypeInv /\ NeededInv /\ [Next]_vars => NeededInv'
<1> SUFFICES ASSUME TypeInv, NeededInv, [Next]_vars PROVE NeededInv'
  OBVIOUS
<1>1. ASSUME NEW a \in Procs, Command(a) \/ Step(a) \/ Crash(a) PROVE NeededInv'
  <2>1. Procs = {a}
    BY DEF Alone
  <2>2. QED
    BY <1>1, <2>1, NeededCommand, NeededPick, NeededOther, NeededDatabase DEF Step
<1>2. CASE Update
  BY <1>2 DEF Update, procVars, NeededInv
<1>3. CASE UNCHANGED vars
  BY <1>3 DEF vars, disk, procVars, NeededInv
<1>4. QED
  BY <1>1, <1>2, <1>3 DEF Next

\* autoremove takes nothing away that a recorded package depends on by name, in any
\* installation, also one that earlier commands left half done, and whatever fails on
\* the way, as long as one apt-cyg runs at a time.
THEOREM NeededPackagesStay ==
    ASSUME Alone
    PROVE  Spec => NeededStays
<1>1. Init => NeededInv
  BY DEF Init, NeededInv
<1>2. TypeInv /\ NeededInv /\ [Next]_vars => NeededInv'
  BY NeededStep
<1>3. NeededInv =>
        \A a \in Procs, p \in Pkgs :
            cmd[a] = "autoremove" /\ cur[a] = p =>
                \A q \in Pkgs \ {p} : ReadDB[q] # None => p \notin Depends[q]
  BY DEF NeededInv, ReadDB
<1>4. NeededInv /\ [Next]_vars =>
        [\A a \in Procs, p \in Pkgs :
            /\ cmd[a] = "autoremove" /\ cur[a] = p
            /\ manifest[p] # None /\ manifest'[p] = None
            => \A q \in Pkgs \ {p} : ReadDB[q] # None => p \notin Depends[q]]_vars
  BY <1>3
<1>5. QED
  BY <1>1, <1>2, <1>4, TypeInvariant, PTL DEF Spec, NeededStays
=============================================================================
