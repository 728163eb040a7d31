----------------------------- MODULE SetupIndex -----------------------------
(***************************************************************************)
(* "apt-cyg update" (cmdUpdate and tryDownloadSetup in cmd/apt-cyg/main.go):  *)
(* the package index setup.ini is renamed to setup.ini-save, the mirror's    *)
(* index is fetched in up to three formats, each written to setup.ini in     *)
(* place, and the backup is removed or renamed back.                         *)
(*                                                                         *)
(* The index that update number n fetches is n, the one before the first is  *)
(* 0; Torn is a file whose writing was not completed.  The updates run one   *)
(* after the other; each may die between any two of its steps.  Another       *)
(* apt-cyg may have setup.ini open: Windows then refuses to rename, replace   *)
(* or remove it, but not to truncate it.                                     *)
(***************************************************************************)
EXTENDS Naturals

CONSTANTS
    MaxUpdates,     \* bound on the updates
    Absent, Torn

ASSUME IndexAssumption ==
    /\ MaxUpdates \in Nat
    /\ Absent \notin Nat /\ Torn \notin Nat /\ Absent # Torn

VARIABLES
    upc,        \* where the update stands
    update,     \* its number
    try,        \* which of setup.xz, setup.bz2, setup.ini it tries
    ini, bak,   \* setup.ini and setup.ini-save
    had,        \* setup.ini when the update began
    saved,      \* it was renamed
    disturbed   \* another apt-cyg has made a step of this update fail

indexVars == <<upc, update, try, ini, bak, had, saved, disturbed>>

Formats == 3

Contents == Nat \cup {Absent, Torn}

IndexInit ==
    /\ upc = "none" /\ update = 0 /\ try = 1
    /\ ini \in {0, Absent} /\ bak = Absent
    /\ had = Absent /\ saved = FALSE
    /\ disturbed = FALSE

Updating == upc \in {"backup", "try", "unpack", "clean", "restore"}

Start ==
    /\ ~Updating /\ update < MaxUpdates
    /\ update' = update + 1
    /\ upc' = "backup" /\ try' = 1
    /\ had' = ini /\ saved' = FALSE /\ disturbed' = FALSE
    /\ UNCHANGED <<ini, bak>>

\* Whether another apt-cyg has setup.ini open just now.
OpenElsewhere == IF ini = Absent THEN {FALSE} ELSE BOOLEAN

\* os.Rename(SetupIni, bakPath); that it may fail is ignored.
Backup ==
    /\ upc = "backup"
    /\ upc' = "try"
    /\ disturbed' \in OpenElsewhere
    /\ IF ini # Absent /\ ~disturbed'
       THEN bak' = ini /\ ini' = Absent /\ saved' = TRUE
       ELSE UNCHANGED <<ini, bak, saved>>
    /\ UNCHANGED <<update, try, had>>

\* Mutant: off by one, a fourth format.
TryNextLateMut ==
    IF try <= Formats THEN upc' = "try" /\ try' = try + 1
                      ELSE upc' = "restore" /\ UNCHANGED try

\* Mutant: after the last format the backup is taken to be of no more use.
TryNextMut ==
    IF try < Formats THEN upc' = "try" /\ try' = try + 1
                     ELSE upc' = "clean" /\ UNCHANGED try

TryNext ==
    IF try < Formats THEN upc' = "try" /\ try' = try + 1
                     ELSE upc' = "restore" /\ UNCHANGED try

\* tryDownloadSetup up to os.Create(SetupIni), which truncates it; for the
\* third format that is the file the download itself is written to.
TryDownload ==
    /\ upc = "try"
    /\ \/ ini' = Torn /\ upc' = "unpack" /\ UNCHANGED try
       \/ TryNext /\ UNCHANGED ini
    /\ UNCHANGED <<update, bak, had, saved, disturbed>>

\* Mutant: the error of io.Copy is not looked at.
UnpackMut ==
    /\ upc = "unpack"
    /\ upc' = "clean"
    /\ ini' \in {update, Torn}
    /\ UNCHANGED <<update, try, bak, had, saved, disturbed>>

\* io.Copy into setup.ini: the whole index, or an error and os.Remove.
Unpack ==
    /\ upc = "unpack"
    /\ \/ ini' = update /\ upc' = "clean" /\ UNCHANGED <<try, disturbed>>
       \/ /\ TryNext
          /\ \/ ini' = Absent /\ UNCHANGED disturbed
             \/ ini' = Torn /\ disturbed' = TRUE
    /\ UNCHANGED <<update, bak, had, saved>>

Clean ==
    /\ upc = "clean"
    /\ upc' = "updated"
    /\ bak' = Absent
    /\ UNCHANGED <<update, try, ini, had, saved, disturbed>>

\* Mutant: the program exits before it has reverted.
RestoreMut ==
    /\ upc = "restore"
    /\ upc' = "failed"
    /\ UNCHANGED <<update, try, ini, bak, had, saved, disturbed>>

\* os.Rename(bakPath, SetupIni), exit code 1.
Restore ==
    /\ upc = "restore"
    /\ upc' = "failed"
    /\ \E open \in OpenElsewhere :
          /\ IF bak # Absent /\ ~open
             THEN ini' = bak /\ bak' = Absent
             ELSE UNCHANGED <<ini, bak>>
          /\ disturbed' = (disturbed \/ open)
    /\ UNCHANGED <<update, try, had, saved>>

Die ==
    /\ Updating
    /\ upc' = "killed"
    /\ UNCHANGED <<update, try, ini, bak, had, saved, disturbed>>

UpdateSteps == Backup \/ TryDownload \/ Unpack \/ Clean \/ Restore

IndexNext == Start \/ UpdateSteps \/ Die

IndexSpec == IndexInit /\ [][IndexNext]_indexVars

-----------------------------------------------------------------------------

\* The states of an update.
IndexTypeOK ==
    /\ upc \in {"none", "backup", "try", "unpack", "clean", "restore",
                "updated", "failed", "killed"}
    /\ update \in 0..MaxUpdates
    /\ try \in 1..Formats
    /\ ini \in Contents /\ bak \in Contents /\ had \in Contents
    /\ saved \in BOOLEAN /\ disturbed \in BOOLEAN

\* "Back up existing setup.ini" (main.go:390): once the old index has been
\* renamed it exists, as the index or as its backup, until the whole new one is
\* in its place; wherever the update fails or is killed (main.go:392-403).
IndexSurvives == saved => had \in {ini, bak} \/ ini = update

\* An update that reports success has left the whole index of the mirror and no
\* backup (main.go:394-397).
UpdateTruthful == upc = "updated" => ini = update /\ bak = Absent

\* "Restore backup on failure" (main.go:400): an update that reports failure has
\* put the old index back, unless another apt-cyg was reading it.
FailureReverts ==
    upc = "failed" /\ saved /\ ~disturbed => ini = had /\ bak = Absent
=============================================================================
