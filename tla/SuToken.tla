------------------------------- MODULE SuToken -------------------------------
(***************************************************************************)
(* How su gets the token it starts its helper with (cmd/su/token_windows.go):*)
(* getSystemToken copies the token of winlogon, getTrustedInstallerToken    *)
(* starts the TrustedInstaller service, impersonates SYSTEM, copies the     *)
(* token of the service's process and reverts.  An account with a password  *)
(* ("logon") needs no token.                                                *)
(*                                                                         *)
(* One action per Windows call or group of calls that has an effect here;   *)
(* each may fail.  The service manager and the service run beside su: the   *)
(* service may be starting or stopping when su asks, and it stops by itself *)
(* when it is idle.                                                         *)
(***************************************************************************)
EXTENDS Naturals, FiniteSets

Users == {"logon", "system", "ti"}

VARIABLES
    user,           \* whom su was asked for
    tpc,            \* where the acquisition stands
    svc,            \* the TrustedInstaller service
    status,         \* its state as last queried
    target,         \* the service process su found: "none", "alive", "gone"
    handles,        \* the handles su holds
    impersonating   \* su's thread runs as SYSTEM

tokenVars == <<user, tpc, svc, status, target, handles, impersonating>>

ServiceStates == {"stopped", "starting", "running", "stopping"}

TokenInit(users) ==
    /\ user \in users
    /\ tpc = CASE user = "logon" -> "acquired"
               [] user = "system" -> "getSystemToken"
               [] user = "ti" -> "debug"
    /\ svc \in IF user = "ti" THEN ServiceStates ELSE {"stopped"}
    /\ status = "unknown"
    /\ target = "none"
    /\ handles = {}
    /\ impersonating = FALSE

-----------------------------------------------------------------------------
(* Leaving a function. *)

\* The handles that the deferred calls of getTrustedInstallerToken close.
Deferred == {"scm", "svc"}

\* The function returns an error; held is what it held.
FailsWith(held) ==
    /\ tpc' = "failed"
    /\ handles' = held \ Deferred

\* At its end the function's variables are gone.
Forget ==
    /\ status' = "unknown"
    /\ target' = "none"

Fails ==
    /\ FailsWith(handles)
    /\ Forget
    /\ UNCHANGED <<user, svc, impersonating>>

-----------------------------------------------------------------------------
(* getTrustedInstallerToken up to the service's process. *)

\* enableDebugPrivilege closes the handle it opens, OpenSCManager and
\* OpenService leave one each.
EnableDebug ==
    /\ tpc = "debug"
    /\ \/ tpc' = "scm" /\ UNCHANGED <<user, svc, status, target, handles, impersonating>>
       \/ Fails

OpenSCManager ==
    /\ tpc = "scm"
    /\ \/ /\ tpc' = "service"
          /\ handles' = handles \cup {"scm"}
          /\ UNCHANGED <<user, svc, status, target, impersonating>>
       \/ Fails

OpenService ==
    /\ tpc = "service"
    /\ \/ /\ tpc' = "query"
          /\ handles' = handles \cup {"svc"}
          /\ UNCHANGED <<user, svc, status, target, impersonating>>
       \/ Fails

QueryService ==
    /\ tpc = "query"
    /\ \/ /\ status' = svc
          /\ tpc' = IF svc = "running" THEN "pid" ELSE "start"
          /\ UNCHANGED <<user, svc, target, handles, impersonating>>
       \/ Fails

\* StartService is refused unless the service is stopped, so also when it is
\* already on its way up.
StartService ==
    /\ tpc = "start"
    /\ \/ /\ svc = "stopped"
          /\ svc' = "starting"
          /\ tpc' = "poll"
          /\ UNCHANGED <<user, status, target, handles, impersonating>>
       \/ Fails

\* One turn of the loop.
PollService ==
    /\ tpc = "poll"
    /\ status' = svc
    /\ tpc' = IF svc = "running" THEN "pid" ELSE "poll"
    /\ UNCHANGED <<user, svc, target, handles, impersonating>>

\* Five seconds have passed, or the query failed.
PollEnds ==
    /\ tpc = "poll"
    /\ tpc' = "polled"
    /\ UNCHANGED <<user, svc, status, target, handles, impersonating>>

\* The last known state decides.
StartedInTime ==
    /\ tpc = "polled"
    /\ \/ /\ status = "running"
          /\ tpc' = "pid"
          /\ UNCHANGED <<user, svc, status, target, handles, impersonating>>
       \/ status # "running" /\ Fails

FindService ==
    /\ tpc = "pid"
    /\ \/ /\ svc # "stopped"
          /\ target' = "alive"
          /\ tpc' = "getSystemToken"
          /\ UNCHANGED <<user, svc, status, handles, impersonating>>
       \/ Fails

-----------------------------------------------------------------------------
(* getSystemToken, for itself or on the way to TrustedInstaller. *)

GetSystemToken ==
    /\ tpc = "getSystemToken"
    /\ \/ /\ handles' = handles \cup {"system token"}
          /\ tpc' = IF user = "ti" THEN "impersonate" ELSE "acquired"
          /\ UNCHANGED <<user, svc, status, target, impersonating>>
       \/ Fails

\* Mutant: the SYSTEM token stays open when it cannot be impersonated.
ImpersonateFailsMut == handles

ImpersonateFails == handles \ {"system token"}

Impersonate ==
    /\ tpc = "impersonate"
    /\ \/ /\ impersonating' = TRUE
          /\ tpc' = "duplicate"
          /\ UNCHANGED <<user, svc, status, target, handles>>
       \/ /\ FailsWith(ImpersonateFails)
          /\ Forget
          /\ UNCHANGED <<user, svc, impersonating>>

\* duplicateTokenFrom(pid): the process may be gone, and it can be opened by
\* SYSTEM only.
Duplicate ==
    /\ tpc = "duplicate"
    /\ \/ /\ target = "alive" /\ impersonating
          /\ handles' = handles \cup {"ti token"}
       \/ UNCHANGED handles
    /\ tpc' = "revert"
    /\ UNCHANGED <<user, svc, status, target, impersonating>>

\* Mutant: only a successful copy is followed by RevertToSelf.
RevertMut ==
    /\ tpc = "revert"
    /\ impersonating' = ("ti token" \notin handles)
    /\ handles' = (handles \ {"system token"}) \ Deferred
    /\ tpc' = IF "ti token" \in handles THEN "acquired" ELSE "failed"
    /\ Forget
    /\ UNCHANGED <<user, svc>>

Revert ==
    /\ tpc = "revert"
    /\ impersonating' = FALSE
    /\ handles' = (handles \ {"system token"}) \ Deferred
    /\ tpc' = IF "ti token" \in handles THEN "acquired" ELSE "failed"
    /\ Forget
    /\ UNCHANGED <<user, svc>>

-----------------------------------------------------------------------------
(* The service beside su. *)

Acquiring == tpc \notin {"acquired", "failed"}

\* A process of the service exists unless it is stopped; one that exists after
\* that is another than su found.  Other programs start the service too.
ServiceMoves ==
    /\ Acquiring /\ user = "ti"
    /\ \/ svc = "starting" /\ svc' = "running"
       \/ svc = "running" /\ svc' = "stopping"
       \/ svc = "stopping" /\ svc' = "stopped"
       \/ svc = "stopped" /\ svc' = "starting"
    /\ target' = IF svc' = "stopped" /\ target = "alive" THEN "gone" ELSE target
    /\ UNCHANGED <<user, tpc, status, handles, impersonating>>

SuAcquires ==
    \/ EnableDebug \/ OpenSCManager \/ OpenService \/ QueryService
    \/ StartService \/ PollService \/ PollEnds \/ StartedInTime \/ FindService
    \/ GetSystemToken \/ Impersonate \/ Duplicate \/ Revert

TokenNext == SuAcquires \/ ServiceMoves

TokenSpec == TokenInit(Users) /\ [][TokenNext]_tokenVars

-----------------------------------------------------------------------------

\* The states of the acquisition.
TokenTypeOK ==
    /\ user \in Users
    /\ tpc \in {"debug", "scm", "service", "query", "start", "poll", "polled",
                "pid", "getSystemToken", "impersonate", "duplicate", "revert",
                "acquired", "failed"}
    /\ svc \in ServiceStates
    /\ status \in ServiceStates \cup {"unknown"}
    /\ target \in {"none", "alive", "gone"}
    /\ handles \subseteq {"scm", "svc", "system token", "ti token"}
    /\ impersonating \in BOOLEAN

\* The token su is to hold at the end.
TokenOf == [u \in Users |-> CASE u = "logon" -> {}
                              [] u = "system" -> {"system token"}
                              [] u = "ti" -> {"ti token"}]

\* Once the acquisition is over su holds the token it asked for and nothing
\* else, or, if it failed, nothing: the SYSTEM token that it borrowed on the way
\* to TrustedInstaller is closed however the way ended (token_windows.go:219).
NoHandleLeft ==
    /\ tpc = "acquired" => handles = TokenOf[user]
    /\ tpc = "failed" => handles = {}

\* "Impersonate SYSTEM for the duration of the call, then revert immediately
\* after" (token_windows.go:217): whatever fails, no code after the
\* acquisition, in particular the start of the helper, runs impersonated.
Reverted == impersonating => tpc \in {"duplicate", "revert"}
=============================================================================
