--------------------------- MODULE CygwinShutdown ---------------------------
(***************************************************************************)
(* "cygctl --shutdown" (cmd/cygctl/winapi_windows.go): a snapshot of the      *)
(* Cygwin processes is put into a job object, process by process, the job is *)
(* terminated at once, the processes that could not be put into it are       *)
(* killed one by one, and a second snapshot tells whether any are left.      *)
(*                                                                         *)
(* The processes live on meanwhile: they end, and they fork, and a fork is   *)
(* in the job of its parent.  cygctl itself is a Cygwin process if it is      *)
(* installed in Cygwin's bin, as install.ps1 does; then the job takes it too. *)
(***************************************************************************)
EXTENDS Naturals, FiniteSets

CONSTANTS
    Procs,      \* the Cygwin processes there may be
    Self        \* cygctl, which runs as one of them if it is installed there

ASSUME ShutdownAssumption == Self \in Procs

VARIABLES
    alive,      \* the processes that run
    born,       \* those that ran at some time: no pid is used again
    shpc,       \* where shutdownCygwin stands
    todo,       \* the processes its loop has still to treat
    snapshot,   \* variable processes
    inJob,      \* the processes in the job
    unassigned, \* the variable of that name
    verdict,    \* what it says in the end
    refused     \* history: those that Windows did not let cygctl open or end

shutdownVars == <<alive, born, shpc, todo, snapshot, inJob, unassigned, verdict,
                  refused>>

ShutdownInit(running) ==
    /\ alive = running /\ born = running
    /\ shpc = "start" /\ todo = {} /\ snapshot = {}
    /\ inJob = {} /\ unassigned = {} /\ verdict = "none" /\ refused = {}

-----------------------------------------------------------------------------
(* shutdownCygwin.  Every call to Windows may fail, for a right that cygctl    *)
(* does not have or for any other reason.                                      *)

\* getCygwinProcesses: some process may not be looked at, or the snapshot fails.
Found == SUBSET alive

TakeSnapshot ==
    /\ shpc = "start"
    /\ snapshot' \in Found
    /\ \/ snapshot' = {} /\ shpc' = "done" /\ verdict' = "none found"
       \/ snapshot' # {} /\ shpc' = "job" /\ UNCHANGED verdict
    /\ UNCHANGED <<alive, born, todo, inJob, unassigned, refused>>

\* CreateJobObject; without a job everything is killed directly, and that is
\* the end.
CreateJob ==
    /\ shpc = "job"
    /\ shpc' \in {"assign", "kill all"}
    /\ todo' = snapshot
    /\ UNCHANGED <<alive, born, snapshot, inJob, unassigned, verdict, refused>>

\* OpenProcess fails, always so for a process that has ended.
Refuse(p) == refused' = refused \cup ({p} \cap alive)

\* Mutant: a process that is refused by the job is forgotten.
AssignMut(p) ==
    /\ shpc = "assign" /\ p \in todo
    /\ todo' = todo \ {p}
    /\ \/ p \in alive /\ inJob' \in {inJob, inJob \cup {p}} /\ UNCHANGED refused
       \/ Refuse(p) /\ UNCHANGED inJob
    /\ UNCHANGED <<alive, born, shpc, snapshot, unassigned, verdict>>

\* One turn of the loop.  A process that cannot be opened with the rights to put
\* it into a job and to end it is passed over for good, also if the right to end
\* it could be had; one that is opened and that the job does not take is noted.
Assign(p) ==
    /\ shpc = "assign" /\ p \in todo
    /\ todo' = todo \ {p}
    /\ \/ p \in alive /\ inJob' = inJob \cup {p} /\ UNCHANGED <<unassigned, refused>>
       \/ p \in alive /\ unassigned' = unassigned \cup {p} /\ UNCHANGED <<inJob, refused>>
       \/ Refuse(p) /\ UNCHANGED <<inJob, unassigned>>
    /\ UNCHANGED <<alive, born, shpc, snapshot, verdict>>

\* With cygctl its variables go, and the job.
Gone == todo' = {} /\ inJob' = {} /\ unassigned' = {}

Dies == shpc' = "killed" /\ Gone

KillNext == /\ shpc' = "kill unassigned" /\ todo' = unassigned
            /\ UNCHANGED <<inJob, unassigned>>

\* TerminateJobObject, whose error is ignored.
TerminateJob ==
    /\ shpc = "assign" /\ todo = {}
    /\ \/ /\ alive' = alive \ inJob
          /\ IF Self \in inJob THEN Dies ELSE KillNext
          /\ UNCHANGED refused
       \/ /\ refused' = refused \cup (inJob \cap alive)
          /\ KillNext
          /\ UNCHANGED alive
    /\ UNCHANGED <<born, snapshot, verdict>>

\* killProcessesDirect, of the unassigned processes or of all: OpenProcess with
\* the right to end it, then TerminateProcess, whose error is ignored.
KillDirect(p) ==
    /\ shpc \in {"kill unassigned", "kill all"} /\ p \in todo
    /\ \/ /\ p \in alive
          /\ alive' = alive \ {p}
          /\ IF p = Self THEN Dies
             ELSE todo' = todo \ {p} /\ UNCHANGED <<shpc, inJob, unassigned>>
          /\ UNCHANGED refused
       \/ /\ Refuse(p)
          /\ todo' = todo \ {p}
          /\ UNCHANGED <<alive, shpc, inJob, unassigned>>
    /\ UNCHANGED <<born, snapshot, verdict>>

Verify ==
    /\ shpc = "kill unassigned" /\ todo = {}
    /\ shpc' = "done" /\ Gone
    /\ \E left \in Found :
           verdict' = IF left = {} THEN "all terminated" ELSE "still running"
    /\ UNCHANGED <<alive, born, snapshot, refused>>

AllKilled ==
    /\ shpc = "kill all" /\ todo = {}
    /\ shpc' = "done" /\ Gone
    /\ UNCHANGED <<alive, born, snapshot, verdict, refused>>

ShutdownSteps ==
    \/ TakeSnapshot \/ CreateJob \/ TerminateJob \/ Verify \/ AllKilled
    \/ \E p \in Procs : Assign(p) \/ KillDirect(p)

-----------------------------------------------------------------------------
(* The processes. *)

ShutdownRuns == shpc \notin {"done", "killed"}

Fork(p, q) ==
    /\ ShutdownRuns
    /\ p \in alive \ {Self} /\ q \notin born \cup {Self}
    /\ alive' = alive \cup {q} /\ born' = born \cup {q}
    /\ inJob' = IF p \in inJob THEN inJob \cup {q} ELSE inJob
    /\ UNCHANGED <<shpc, todo, snapshot, unassigned, verdict, refused>>

Ends(p) ==
    /\ ShutdownRuns
    /\ p \in alive \ {Self}
    /\ alive' = alive \ {p}
    /\ UNCHANGED <<born, shpc, todo, snapshot, inJob, unassigned, verdict, refused>>

ProcessSteps == \E p \in Procs : Ends(p) \/ \E q \in Procs : Fork(p, q)

ShutdownNext == ShutdownSteps \/ ProcessSteps

ShutdownSpec ==
    /\ \E running \in SUBSET Procs : ShutdownInit(running)
    /\ [][ShutdownNext]_shutdownVars

-----------------------------------------------------------------------------

\* The states of the shutdown.
ShutdownTypeOK ==
    /\ born \subseteq Procs /\ alive \subseteq born
    /\ shpc \in {"start", "job", "assign", "kill unassigned", "kill all",
                 "done", "killed"}
    /\ todo \subseteq born /\ snapshot \subseteq born
    /\ inJob \subseteq born /\ unassigned \subseteq born /\ refused \subseteq born
    /\ verdict \in {"none", "none found", "all terminated", "still running"}

\* "Processes that cannot be assigned to the job are killed individually"
\* (winapi_windows.go:174): when cygctl comes to its end, a process that it found
\* is alive only if Windows refused to open that process for cygctl or to end it.
\* That no job was to be had, or that the job did not take the process, spares
\* none, whichever way each of them was treated and however they forked and
\* ended meanwhile.
NothingSpared ==
    shpc = "done" => snapshot \cap alive \subseteq refused
=============================================================================
