----------------------------- MODULE Maintenance -----------------------------
(* "cygctl --shutdown" while "apt-cyg update" runs: apt-cyg is a Cygwin       *)
(* process, which the shutdown finds or not, and kills between any two of its *)
(* steps.  The components are CygwinShutdown and SetupIndex.                  *)
EXTENDS CygwinShutdown, SetupIndex

CONSTANT Updater  \* the process of each update

ASSUME MaintenanceAssumption ==
    /\ \A n \in 1..MaxUpdates : Updater[n] \in Procs \ {Self}
    /\ \A m, n \in 1..MaxUpdates : Updater[m] = Updater[n] => m = n

Updaters == {Updater[n] : n \in 1..MaxUpdates}

vars == <<shutdownVars, indexVars>>

Init ==
    /\ \E running \in SUBSET (Procs \ Updaters) : ShutdownInit(running)
    /\ IndexInit

\* The user starts an update from Windows or from a Cygwin shell.
StartUpdate ==
    /\ Start
    /\ \/ \E p \in alive : Fork(p, Updater[update'])
       \/ /\ Updater[update'] \notin born
          /\ alive' = alive \cup {Updater[update']}
          /\ born' = born \cup {Updater[update']}
          /\ UNCHANGED <<shpc, todo, snapshot, inJob, unassigned, verdict, refused>>

\* A step of the update; with the last its process ends.
UpdateStep ==
    /\ UpdateSteps
    /\ alive' = IF Updating' THEN alive ELSE alive \ {Updater[update]}
    /\ UNCHANGED <<born, shpc, todo, snapshot, inJob, unassigned, verdict, refused>>

\* The update is killed by somebody else.
UpdateDies ==
    /\ Die
    /\ alive' = alive \ {Updater[update]}
    /\ UNCHANGED <<born, shpc, todo, snapshot, inJob, unassigned, verdict, refused>>

KillsUpdate == Updating /\ Updater[update] \in alive \ alive'

\* A step of the shutdown, which may kill the update.
ShutdownStep ==
    /\ ShutdownSteps
    /\ \/ KillsUpdate /\ Die
       \/ ~KillsUpdate /\ UNCHANGED indexVars

\* A process that is no update ends, or any forks.
Others ==
    /\ \/ \E p \in Procs \ Updaters : Ends(p)
       \/ \E p \in Procs, q \in Procs \ Updaters : Fork(p, q)
    /\ UNCHANGED indexVars

Next == StartUpdate \/ UpdateStep \/ UpdateDies \/ ShutdownStep \/ Others

Spec == Init /\ [][Next]_vars

-----------------------------------------------------------------------------

\* The types of both; an update is in progress exactly when its process is alive.
TypeOK ==
    /\ ShutdownTypeOK
    /\ IndexTypeOK
    /\ \A n \in 1..MaxUpdates :
          Updater[n] \in alive <=> Updating /\ n = update
=============================================================================
