---------------------------- MODULE SuTokenProofs ----------------------------
(* Proofs about SuToken: what su holds, and as whom it runs, at every step of  *)
(* the acquisition of a token.                                                *)
EXTENDS SuToken, TLAPS

\* The handles su holds at each place.
Held ==
    /\ tpc \in {"debug", "scm"} => handles = {}
    /\ tpc = "service" => handles = {"scm"}
    /\ tpc \in {"query", "start", "poll", "polled", "pid"} => handles = {"scm", "svc"}
    /\ tpc = "getSystemToken" =>
         handles = IF user = "ti" THEN {"scm", "svc"} ELSE {}
    /\ tpc \in {"impersonate", "duplicate"} =>
         handles = {"scm", "svc", "system token"}
    /\ tpc = "revert" =>
         handles \in {{"scm", "svc", "system token"},
                      {"scm", "svc", "system token", "ti token"}}
    /\ user = "logon" => tpc = "acquired"
    /\ user = "system" => tpc \in {"getSystemToken", "acquired", "failed"}

TokenInv == TokenTypeOK /\ Held /\ NoHandleLeft /\ Reverted

LEMMA TokenInitInv == TokenInit(Users) => TokenInv
<1> SUFFICES ASSUME TokenInit(Users) PROVE TokenInv
  OBVIOUS
<1>1. TokenTypeOK
  <2>1. impersonating \in BOOLEAN
    BY Zenon DEF TokenInit
  <2>2. svc \in ServiceStates
    BY DEF TokenInit, ServiceStates
  <2>3. QED
    BY <2>1, <2>2 DEF TokenInit, TokenTypeOK, Users
<1>2. Held
  BY DEF TokenInit, Held, Users
<1>3. NoHandleLeft
  BY DEF TokenInit, NoHandleLeft, TokenOf, Users
<1>4. Reverted
  BY DEF TokenInit, Reverted
<1>5. QED
  BY <1>1, <1>2, <1>3, <1>4 DEF TokenInv

\* A failure inside getTrustedInstallerToken or getSystemToken, before the SYSTEM
\* token has been copied, leaves nothing open.
LEMMA FailsInv ==
  ASSUME TokenInv, Fails, user # "logon", handles \subseteq Deferred, ~impersonating
  PROVE  TokenInv'
<1> USE DEF Fails, FailsWith, Forget, Deferred
<1>1. impersonating' \in BOOLEAN /\ ~impersonating'
  BY Zenon DEF TokenInv, TokenTypeOK
<1>2. TokenTypeOK'
  BY <1>1 DEF TokenInv, TokenTypeOK
<1>3. Held'
  BY DEF TokenInv, Held
<1>4. NoHandleLeft'
  BY DEF NoHandleLeft
<1>5. QED
  BY <1>1, <1>2, <1>3, <1>4 DEF TokenInv, Reverted

LEMMA TokenStepInv == TokenInv /\ [TokenNext]_tokenVars => TokenInv'
<1> SUFFICES ASSUME TokenInv, [TokenNext]_tokenVars PROVE TokenInv'
  OBVIOUS
<1>0. TokenTypeOK /\ Held /\ NoHandleLeft /\ Reverted
  BY DEF TokenInv
<1>1. CASE EnableDebug
  <2>1. CASE Fails
    <3>1. user # "logon" /\ handles \subseteq Deferred
      BY <1>0, <1>1 DEF EnableDebug, Held, Deferred, TokenTypeOK, Users
    <3>2. ~impersonating
      BY <1>0, <1>1, Zenon DEF EnableDebug, Reverted
    <3>3. QED
      BY <2>1, <3>1, <3>2, FailsInv
  <2>2. CASE ~Fails
    <3>1. impersonating' \in BOOLEAN
      BY <1>0, <1>1, <2>2, Zenon DEF EnableDebug, TokenTypeOK
    <3>2. TokenTypeOK'
      BY <1>0, <1>1, <2>2, <3>1 DEF EnableDebug, TokenTypeOK, ServiceStates
    <3>3. Held'
      BY <1>0, <1>1, <2>2 DEF EnableDebug, Held, TokenTypeOK, Users
    <3>4. NoHandleLeft'
      BY <1>0, <1>1, <2>2 DEF EnableDebug, Held, NoHandleLeft, TokenOf, TokenTypeOK, Users
    <3>5. Reverted'
      BY <1>0, <1>1, <2>2 DEF EnableDebug, Reverted
    <3>6. QED
      BY <3>2, <3>3, <3>4, <3>5 DEF TokenInv
  <2>3. QED
    BY <2>1, <2>2
<1>2. CASE OpenSCManager
  <2>1. CASE Fails
    <3>1. user # "logon" /\ handles \subseteq Deferred
      BY <1>0, <1>2 DEF OpenSCManager, Held, Deferred, TokenTypeOK, Users
    <3>2. ~impersonating
      BY <1>0, <1>2, Zenon DEF OpenSCManager, Reverted
    <3>3. QED
      BY <2>1, <3>1, <3>2, FailsInv
  <2>2. CASE ~Fails
    <3>1. impersonating' \in BOOLEAN
      BY <1>0, <1>2, <2>2, Zenon DEF OpenSCManager, TokenTypeOK
    <3>2. TokenTypeOK'
      BY <1>0, <1>2, <2>2, <3>1 DEF OpenSCManager, TokenTypeOK, ServiceStates
    <3>3. Held'
      BY <1>0, <1>2, <2>2 DEF OpenSCManager, Held, TokenTypeOK, Users
    <3>4. NoHandleLeft'
      BY <1>0, <1>2, <2>2 DEF OpenSCManager, Held, NoHandleLeft, TokenOf, TokenTypeOK, Users
    <3>5. Reverted'
      BY <1>0, <1>2, <2>2 DEF OpenSCManager, Reverted
    <3>6. QED
      BY <3>2, <3>3, <3>4, <3>5 DEF TokenInv
  <2>3. QED
    BY <2>1, <2>2
<1>3. CASE OpenService
  <2>1. CASE Fails
    <3>1. user # "logon" /\ handles \subseteq Deferred
      BY <1>0, <1>3 DEF OpenService, Held, Deferred, TokenTypeOK, Users
    <3>2. ~impersonating
      BY <1>0, <1>3, Zenon DEF OpenService, Reverted
    <3>3. QED
      BY <2>1, <3>1, <3>2, FailsInv
  <2>2. CASE ~Fails
    <3>1. impersonating' \in BOOLEAN
      BY <1>0, <1>3, <2>2, Zenon DEF OpenService, TokenTypeOK
    <3>2. TokenTypeOK'
      BY <1>0, <1>3, <2>2, <3>1 DEF OpenService, TokenTypeOK, ServiceStates
    <3>3. Held'
      BY <1>0, <1>3, <2>2 DEF OpenService, Held, TokenTypeOK, Users
    <3>4. NoHandleLeft'
      BY <1>0, <1>3, <2>2 DEF OpenService, Held, NoHandleLeft, TokenOf, TokenTypeOK, Users
    <3>5. Reverted'
      BY <1>0, <1>3, <2>2 DEF OpenService, Reverted
    <3>6. QED
      BY <3>2, <3>3, <3>4, <3>5 DEF TokenInv
  <2>3. QED
    BY <2>1, <2>2
<1>4. CASE QueryService
  <2>1. CASE Fails
    <3>1. user # "logon" /\ handles \subseteq Deferred
      BY <1>0, <1>4 DEF QueryService, Held, Deferred, TokenTypeOK, Users
    <3>2. ~impersonating
      BY <1>0, <1>4, Zenon DEF QueryService, Reverted
    <3>3. QED
      BY <2>1, <3>1, <3>2, FailsInv
  <2>2. CASE ~Fails
    <3>1. impersonating' \in BOOLEAN
      BY <1>0, <1>4, <2>2, Zenon DEF QueryService, TokenTypeOK
    <3>2. TokenTypeOK'
      BY <1>0, <1>4, <2>2, <3>1 DEF QueryService, TokenTypeOK, ServiceStates
    <3>3. Held'
      BY <1>0, <1>4, <2>2 DEF QueryService, Held, TokenTypeOK, Users
    <3>4. NoHandleLeft'
      BY <1>0, <1>4, <2>2 DEF QueryService, Held, NoHandleLeft, TokenOf, TokenTypeOK, Users
    <3>5. Reverted'
      BY <1>0, <1>4, <2>2 DEF QueryService, Reverted
    <3>6. QED
      BY <3>2, <3>3, <3>4, <3>5 DEF TokenInv
  <2>3. QED
    BY <2>1, <2>2
<1>5. CASE StartService
  <2>1. CASE Fails
    <3>1. user # "logon" /\ handles \subseteq Deferred
      BY <1>0, <1>5 DEF StartService, Held, Deferred, TokenTypeOK, Users
    <3>2. ~impersonating
      BY <1>0, <1>5, Zenon DEF StartService, Reverted
    <3>3. QED
      BY <2>1, <3>1, <3>2, FailsInv
  <2>2. CASE ~Fails
    <3>1. impersonating' \in BOOLEAN
      BY <1>0, <1>5, <2>2, Zenon DEF StartService, TokenTypeOK
    <3>2. TokenTypeOK'
      BY <1>0, <1>5, <2>2, <3>1 DEF StartService, TokenTypeOK, ServiceStates
    <3>3. Held'
      BY <1>0, <1>5, <2>2 DEF StartService, Held, TokenTypeOK, Users
    <3>4. NoHandleLeft'
      BY <1>0, <1>5, <2>2 DEF StartService, Held, NoHandleLeft, TokenOf, TokenTypeOK, Users
    <3>5. Reverted'
      BY <1>0, <1>5, <2>2 DEF StartService, Reverted
    <3>6. QED
      BY <3>2, <3>3, <3>4, <3>5 DEF TokenInv
  <2>3. QED
    BY <2>1, <2>2
<1>6. CASE PollService
  <2>1. impersonating' \in BOOLEAN
    BY <1>0, <1>6, Zenon DEF PollService, TokenTypeOK
  <2>2. TokenTypeOK'
    BY <1>0, <1>6, <2>1 DEF PollService, TokenTypeOK, ServiceStates
  <2>3. Held'
    BY <1>0, <1>6 DEF PollService, Held, TokenTypeOK, Users
  <2>4. NoHandleLeft'
    BY <1>0, <1>6 DEF PollService, Held, NoHandleLeft, TokenOf, TokenTypeOK, Users
  <2>5. Reverted'
    BY <1>0, <1>6 DEF PollService, Reverted
  <2>6. QED
    BY <2>2, <2>3, <2>4, <2>5 DEF TokenInv
<1>7. CASE PollEnds
  <2>1. impersonating' \in BOOLEAN
    BY <1>0, <1>7, Zenon DEF PollEnds, TokenTypeOK
  <2>2. TokenTypeOK'
    BY <1>0, <1>7, <2>1 DEF PollEnds, TokenTypeOK, ServiceStates
  <2>3. Held'
    BY <1>0, <1>7 DEF PollEnds, Held, TokenTypeOK, Users
  <2>4. NoHandleLeft'
    BY <1>0, <1>7 DEF PollEnds, Held, NoHandleLeft, TokenOf, TokenTypeOK, Users
  <2>5. Reverted'
    BY <1>0, <1>7 DEF PollEnds, Reverted
  <2>6. QED
    BY <2>2, <2>3, <2>4, <2>5 DEF TokenInv
<1>8. CASE StartedInTime
  <2>1. CASE Fails
    <3>1. user # "logon" /\ handles \subseteq Deferred
      BY <1>0, <1>8 DEF StartedInTime, Held, Deferred, TokenTypeOK, Users
    <3>2. ~impersonating
      BY <1>0, <1>8, Zenon DEF StartedInTime, Reverted
    <3>3. QED
      BY <2>1, <3>1, <3>2, FailsInv
  <2>2. CASE ~Fails
    <3>1. impersonating' \in BOOLEAN
      BY <1>0, <1>8, <2>2, Zenon DEF StartedInTime, TokenTypeOK
    <3>2. TokenTypeOK'
      BY <1>0, <1>8, <2>2, <3>1 DEF StartedInTime, TokenTypeOK, ServiceStates
    <3>3. Held'
      BY <1>0, <1>8, <2>2 DEF StartedInTime, Held, TokenTypeOK, Users
    <3>4. NoHandleLeft'
      BY <1>0, <1>8, <2>2 DEF StartedInTime, Held, NoHandleLeft, TokenOf, TokenTypeOK, Users
    <3>5. Reverted'
      BY <1>0, <1>8, <2>2 DEF StartedInTime, Reverted
    <3>6. QED
      BY <3>2, <3>3, <3>4, <3>5 DEF TokenInv
  <2>3. QED
    BY <2>1, <2>2
<1>9. CASE FindService
  <2>1. CASE Fails
    <3>1. user # "logon" /\ handles \subseteq Deferred
      BY <1>0, <1>9 DEF FindService, Held, Deferred, TokenTypeOK, Users
    <3>2. ~impersonating
      BY <1>0, <1>9, Zenon DEF FindService, Reverted
    <3>3. QED
      BY <2>1, <3>1, <3>2, FailsInv
  <2>2. CASE ~Fails
    <3>1. impersonating' \in BOOLEAN
      BY <1>0, <1>9, <2>2, Zenon DEF FindService, TokenTypeOK
    <3>2. TokenTypeOK'
      BY <1>0, <1>9, <2>2, <3>1 DEF FindService, TokenTypeOK, ServiceStates
    <3>3. Held'
      BY <1>0, <1>9, <2>2 DEF FindService, Held, TokenTypeOK, Users
    <3>4. NoHandleLeft'
      BY <1>0, <1>9, <2>2 DEF FindService, Held, NoHandleLeft, TokenOf, TokenTypeOK, Users
    <3>5. Reverted'
      BY <1>0, <1>9, <2>2 DEF FindService, Reverted
    <3>6. QED
      BY <3>2, <3>3, <3>4, <3>5 DEF TokenInv
  <2>3. QED
    BY <2>1, <2>2
<1>10. CASE GetSystemToken
  <2>1. CASE Fails
    <3>1. user # "logon" /\ handles \subseteq Deferred
      BY <1>0, <1>10 DEF GetSystemToken, Held, Deferred, TokenTypeOK, Users
    <3>2. ~impersonating
      BY <1>0, <1>10, Zenon DEF GetSystemToken, Reverted
    <3>3. QED
      BY <2>1, <3>1, <3>2, FailsInv
  <2>2. CASE ~Fails
    <3>1. impersonating' \in BOOLEAN
      BY <1>0, <1>10, <2>2, Zenon DEF GetSystemToken, TokenTypeOK
    <3>2. TokenTypeOK'
      BY <1>0, <1>10, <2>2, <3>1 DEF GetSystemToken, TokenTypeOK, ServiceStates
    <3>3. Held'
      BY <1>0, <1>10, <2>2 DEF GetSystemToken, Held, TokenTypeOK, Users
    <3>4. NoHandleLeft'
      BY <1>0, <1>10, <2>2 DEF GetSystemToken, Held, NoHandleLeft, TokenOf, TokenTypeOK, Users
    <3>5. Reverted'
      BY <1>0, <1>10, <2>2 DEF GetSystemToken, Reverted
    <3>6. QED
      BY <3>2, <3>3, <3>4, <3>5 DEF TokenInv
  <2>3. QED
    BY <2>1, <2>2
<1>11. CASE Impersonate
  <2>1. impersonating' \in BOOLEAN
    BY <1>0, <1>11, Zenon DEF Impersonate, TokenTypeOK
  <2>2. TokenTypeOK'
    BY <1>0, <1>11, <2>1 DEF Impersonate, TokenTypeOK, ServiceStates, ImpersonateFails, FailsWith, Forget, Deferred
  <2>3. Held'
    BY <1>0, <1>11 DEF Impersonate, Held, TokenTypeOK, Users, ImpersonateFails, FailsWith, Forget, Deferred
  <2>4. NoHandleLeft'
    BY <1>0, <1>11 DEF Impersonate, Held, NoHandleLeft, TokenOf, TokenTypeOK, Users, ImpersonateFails, FailsWith, Forget, Deferred
  <2>5. Reverted'
    BY <1>0, <1>11 DEF Impersonate, Reverted, ImpersonateFails, FailsWith, Forget, Deferred
  <2>6. QED
    BY <2>2, <2>3, <2>4, <2>5 DEF TokenInv
<1>12. CASE Duplicate
  <2>1. impersonating' \in BOOLEAN
    BY <1>0, <1>12, Zenon DEF Duplicate, TokenTypeOK
  <2>2. TokenTypeOK'
    BY <1>0, <1>12, <2>1 DEF Duplicate, TokenTypeOK, ServiceStates
  <2>3. Held'
    BY <1>0, <1>12 DEF Duplicate, Held, TokenTypeOK, Users
  <2>4. NoHandleLeft'
    BY <1>0, <1>12 DEF Duplicate, Held, NoHandleLeft, TokenOf, TokenTypeOK, Users
  <2>5. Reverted'
    BY <1>0, <1>12 DEF Duplicate, Reverted
  <2>6. QED
    BY <2>2, <2>3, <2>4, <2>5 DEF TokenInv
<1>13. CASE Revert
  <2>1. impersonating' \in BOOLEAN
    BY <1>0, <1>13, Zenon DEF Revert, TokenTypeOK
  <2>2. TokenTypeOK'
    BY <1>0, <1>13, <2>1 DEF Revert, TokenTypeOK, ServiceStates, Forget, Deferred
  <2>3. Held'
    BY <1>0, <1>13 DEF Revert, Held, TokenTypeOK, Users, Forget, Deferred
  <2>4. NoHandleLeft'
    BY <1>0, <1>13 DEF Revert, Held, NoHandleLeft, TokenOf, TokenTypeOK, Users, Forget, Deferred
  <2>5. Reverted'
    BY <1>0, <1>13 DEF Revert, Reverted, Forget, Deferred
  <2>6. QED
    BY <2>2, <2>3, <2>4, <2>5 DEF TokenInv
<1>14. CASE ServiceMoves
  <2>1. impersonating' \in BOOLEAN
    BY <1>0, <1>14, Zenon DEF ServiceMoves, TokenTypeOK
  <2>2. TokenTypeOK'
    BY <1>0, <1>14, <2>1 DEF ServiceMoves, TokenTypeOK, ServiceStates, Acquiring
  <2>3. Held'
    BY <1>0, <1>14 DEF ServiceMoves, Held, TokenTypeOK, Users, Acquiring
  <2>4. NoHandleLeft'
    BY <1>0, <1>14 DEF ServiceMoves, Held, NoHandleLeft, TokenOf, TokenTypeOK, Users, Acquiring
  <2>5. Reverted'
    BY <1>0, <1>14 DEF ServiceMoves, Reverted, Acquiring
  <2>6. QED
    BY <2>2, <2>3, <2>4, <2>5 DEF TokenInv
<1>15. CASE UNCHANGED tokenVars
  <2>1. impersonating' = impersonating /\ handles' = handles /\ user' = user
          /\ tpc' = tpc /\ svc' = svc /\ status' = status /\ target' = target
    BY <1>15, Zenon DEF tokenVars
  <2>2. impersonating' \in BOOLEAN
    BY <1>0, <2>1, Zenon DEF TokenTypeOK
  <2>3. TokenTypeOK'
    BY <1>0, <2>1, <2>2 DEF TokenTypeOK
  <2>4. Held' /\ NoHandleLeft'
    BY <1>0, <2>1 DEF Held, NoHandleLeft
  <2>5. Reverted'
    BY <1>0, <2>1, Zenon DEF Reverted
  <2>6. QED
    BY <2>3, <2>4, <2>5 DEF TokenInv
<1>16. QED
  BY <1>1, <1>2, <1>3, <1>4, <1>5, <1>6, <1>7, <1>8, <1>9, <1>10, <1>11, <1>12,
     <1>13, <1>14, <1>15 DEF TokenNext, SuAcquires

LEMMA TokenInvariant == TokenSpec => []TokenInv
BY TokenInitInv, TokenStepInv, PTL DEF TokenSpec

\* However the acquisition ends, su holds the token it asked for or nothing.
THEOREM NoHandleLeftAlways == TokenSpec => []NoHandleLeft
<1>1. TokenInv => NoHandleLeft
  BY DEF TokenInv
<1>2. QED
  BY <1>1, TokenInvariant, PTL

\* Nothing after the copy of TrustedInstaller's token runs impersonated.
THEOREM RevertedAlways == TokenSpec => []Reverted
<1>1. TokenInv => Reverted
  BY DEF TokenInv
<1>2. QED
  BY <1>1, TokenInvariant, PTL
=============================================================================
