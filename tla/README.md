# Specifications of cygctl

TLA+ models of the parts of this repository whose correctness depends on the
order in which things happen: the elevation daemon behind `sudo`, the relay of
a piped command, a call of `su` with its tokens and its output filter, what
`apt-cyg` does to an installation and to its package index, and the shutdown of
all Cygwin processes. TLC checks them on small instances; TLAPS proves the
safety of each of them for every instance, with the exceptions that section 4 names.

## 1. Inventory

| Part | Source | State it keeps | Operations | Talks to |
|---|---|---|---|---|
| sudo client | `cmd/sudo/main.go` `runServer`, `killDaemon`, `tryConnectDaemon`, `spawnDaemon`, `waitAndConnectDaemon` | token, connection, mode | run a command, `-k` | lock file, named pipe, UAC prompt |
| cygsec daemon | `runDaemon`, `pipeListener`, `handleDaemonConn` | pending pipe instance, `activeConns`, `lastDoneNs`, `consoleMu` | accept, authenticate, run, idle stop, kill | lock file, pipe, caller's console |
| piped session | `runServer` from "Piped mode", `execPiped` | the goroutines' positions, pipe contents | relay stdin, stdout, stderr, Ctrl+C, exit code | the command |
| attached session | `execAttached` | the process-wide console | attach, run, detach | caller's console |
| su session | `cmd/su/main.go` `runServer`, `runClient`; `runServerAsToken` | one-shot listener, `spawnErr`, connection, the goroutines' positions | start the helper, accept with a timeout, relay | helper over loopback TCP, the command |
| su tokens | `token_windows.go` | token and service handles, impersonation | acquire for SYSTEM or TrustedInstaller | winlogon, TrustedInstaller service |
| output filter | `msgWriter` in `su` and in `sudo` | the incomplete tail | one write | the relay |
| apt-cyg packages | `cmd/apt-cyg/main.go` | files, `<pkg>.lst.gz`, `installed.db`, cached archives | install, reinstall, upgrade, remove, autoremove, download, clean | mirror, `tar` |
| apt-cyg index | `cmdUpdate`, `tryDownloadSetup`, `parseSetupIni` | `setup.ini`, its backup | update | mirror |
| apt-cyg resolver and queries | `resolveDependencies`, `cmdSearch`, ... | none | resolve, print | - |
| cygctl shutdown | `winapi_windows.go` | snapshot, job object | kill all Cygwin processes | processes |
| cygctl, the rest | `cmd/cygctl/*.go` | none | dispatch, status, WSL, path forms | `wsl.exe` |
| installer | `install.ps1`, `uninstall.ps1` | PATH, profile, AutoRun, `CYGWIN` and `BASH_ENV` variables | install, uninstall | registry, files |

What is hard here: several sudo processes share one file and one pipe name with
daemons that start, time out, are killed and crash, and none of these steps is
atomic; a connection is read by two goroutines and written by three; every
buffer on the way may be full while the other side waits; and `apt-cyg` writes
five kinds of files with neither a lock nor an atomic replacement, and calls
`os.Exit` in the middle of its lists; `su` waits for a process that Windows
starts when it pleases, with two goroutines, a listener and a timer between
them, and runs a part of its own code as SYSTEM; `cygctl --shutdown` works from
a list of processes that is old when it is used. `PROJECT.json` lists each of these
hazards at its line, with the properties that watch it.

What makes each part correct:

- daemon: one owner of the pipe name; a lock file that names the serving daemon;
  commands only on authenticated connections; an exact count of active
  connections on all paths; one console user; calls return and daemons end.
- session: every byte that goes in comes out once and in order, except those of a
  character that the output does not finish; the exit code last; both sides finish.
- packages: every file belongs to a package that can be removed, except the files
  that apt-cyg loses track of in ways it ignores; an install that succeeds has what
  `setup.ini` knows of what is needed; nothing needed is autoremoved.
- su: every byte of the command reaches the caller once and in order, converted
  where the code page calls for it as far as the filter can tell, and then the exit
  code; no token, handle or impersonation outlives its use; `su` returns and its
  helper ends, however late Windows is.
- index: an update that has renamed the index it found never loses it, and it tells
  the truth about what it did.
- shutdown: what it found is dead in the end, unless Windows refused to let
  cygctl open it or end it.

## 2. Modules

| Module | Models | Runs |
|---|---|---|
| `Cygsec` | sudo processes, daemons, lock file, pipe | `MCCygsec*.cfg` |
| `CygsecProofs` | theorems about `Cygsec` | - |
| `PipedSessionProofs` | theorems about `PipedSession` | - |
| `RemoteCommand` | what `sudo command` and `su user command` promise (abstract) | as a property of `PipedSession` and `SuSession` |
| `PipedSession` | one piped command, end to end | `MCPiped*.cfg` |
| `AptPackages` | the commands of apt-cyg that change the installation | `MCApt*.cfg` |
| `AptPackagesProofs` | theorems about `AptPackages` | - |
| `OutputWriter` | the output filter `msgWriter`, as operators on bytes | through `SuSession` |
| `SuToken` | the acquisition of a token | through `SuSession` |
| `SuTokenProofs` | theorems about `SuToken` | - |
| `SuSession` | one call of su, with `SuToken` and `OutputWriter` in it | `MCSu*.cfg` |
| `SuSessionProofs` | theorems about `SuSession` and its helper | - |
| `SetupIndex` | `apt-cyg update` | through `Maintenance` |
| `SetupIndexProofs` | theorems about `SetupIndex` | - |
| `CygwinShutdown` | `cygctl --shutdown` | through `Maintenance` |
| `CygwinShutdownProofs` | theorems about `CygwinShutdown` | - |
| `Maintenance` | the two together: the shutdown kills the update | `MCMaintenance.cfg` |
| `MaintenanceProofs` | theorems about the composition | - |
| `MC*` | instances for TLC | |

### Cygsec

A sudo process spawns at most one daemon, with a fresh token, so client, daemon
and token share a name. Connections are `<<c, n>>`, the n-th of client `c`.

- `pc` follows a client through `tryConnectDaemon` (`dial`, `send`, `auth`,
  `dropLock`), `spawnDaemon` (`spawn`), `waitAndConnectDaemon` (`poll`, and then
  `dial` to `auth` again) and the request (`session`, `await`).
- `dpc` follows `runDaemon`: `starting`, `owner` of the pipe name, `writing` the
  lock file (`os.WriteFile` has truncated it), `serving`, `dead`.
- `inst` is the pending pipe instance (`lis.curr`), `acc` the connection that
  `Accept` has returned and that is not counted yet, `active` is `activeConns`.
- `recent` abstracts `lastDoneNs` to "less than 24 hours ago"; `dog` is the
  watchdog between its two loads and its call of `stopFn`.
- `link` follows a connection through `handleDaemonConn`; `up` and `down` hold
  the unread message in each direction: the handshake never has two.
- The attached command and its wait for `consoleMu` are `lock` and `running`;
  what a piped command does meanwhile is `PipedSession`.

Faults and outside events are named in `AllEnv` and switched on per run.
Assumed of Windows: the pipe name becomes free when its process ends, what was
written before a close stays readable, and removing a file that `os.WriteFile`
has open fails, because Go opens it without `FILE_SHARE_DELETE`. The removal of
the lock file may fail at any other time too (`RemoveLock`), since another sudo
may be reading it; the code ignores that.

### PipedSession and RemoteCommand

The client's stdin goroutine is `feeder`, its signal goroutine `SendCtrlC`, its
main loop `Receive`. `c2s` and `s2c` are the two directions of the pipe, each
bounded by `Cap`; the anonymous pipe to the command holds one piece. `handler`
follows `execPiped` and the end of `handleDaemonConn`, `reader` the daemon's
stdin goroutine, `Copy` the goroutines of `os/exec`, which call `msgWriter`. A
piece of input is its number, and so is a byte of output; a message of output
carries a range of bytes. So loss, doubling and reordering show, in each stream
and also inside a message.

`Copy` takes any number of the bytes that are there, puts what `msgWriter` had
kept back before them, keeps back the beginning of a character that the buffer
ends in (`splitIncompleteUTF8Tail`), and sends the rest, or nothing if nothing is
left. `Hold[s][n]` says how many of the first `n` bytes of stream `s` begin a
character there. Nothing in the code flushes what is kept back when the command
ends: those bytes never arrive, and the model does not send them either. What the
conversion of the code page makes of the bytes of a message is not in this module
(`OutputWriter` has it, and `SuSession` uses it with real bytes).

`RemoteCommand` has only the command's output and exit code and what the caller
saw of them; the refinement (`Remote == INSTANCE RemoteCommand WITH ...`) maps
`written`, `status`, `printed` and `result` to the variables of those names, and
`due` to the bytes written less those of an unfinished character at their end. The
exit code is returned only after all that is `due` has been shown.
In `RemoteCommand` a lost connection may happen at any time: its result `Lost`
stands for the exit status 1 that sudo then returns without having been told it.
`Env` switches the faults on: `die` ends the client, `stop` the daemon (another
`sudo -k`, or the watchdog; the command lives on without its pipes), `nopipe` and
`nostart` are failures of `execPiped`, `native` is the answer to `id` or `whoami`.

### AptPackages

`fs` says of each path whose file it is and whether the archive it came from
had the right hash; `manifest` is `<pkg>.lst.gz`, `db` is `installed.db`
(`Missing` triggers the fallback of `readInstalledDB`), `cache` the archives. A
process takes the packages of its command from a set, because the properties
should not depend on the order. `Closure` walks the dependencies as
`resolveDependencies` does, cycle guard included; a name that is neither a package
nor provided by one (`Unknown`) is warned about and left out, as in the code.
`installPackage`, `rollbackInstall` and `cmdRemove` are followed file by file, the
writing of the database in the three steps read, truncate, write.

The errors that the code ignores are faults of the model: a file, a manifest or an
archive that Windows refuses to delete (`inuse`), a listing of the archive that is
empty or stops half way, or a shell that does not start for it (`listfail`), and a
database that cannot be written (`dbfail`). `Verify` passes an archive that
`setup.ini` gives no hash for (`Unhashed`). `checkHollow` and `checkPEBins` are
choices: their verdicts depend on sizes and bytes the model does not have. A file
of a truncated archive counts as unpacked with the wrong content (the second half
of its entry in `fs`), though some of them are right.

`stray` is a history variable, no state of the program: the files that apt-cyg has
lost track of. A file enters it when its package's manifest is emptied for
rewriting, when the file is unpacked under a manifest that does not list it, and when
it cannot be deleted when it is its turn; it leaves it when a manifest lists it
again or when it is deleted. `FilesOwned` says that every file on the disk belongs to
a package that is reported as installed, or is one of those: no other order of
failures, deaths and commands leaves a file behind.

`InstallCompletes` speaks of what the code promises: when `install` comes to
its end, what was asked for and all that follows from it by the dependencies that
`setup.ini` knows is reported as installed (`IsInstalled`, which takes one of the
two records). That the files of each are complete does not follow, and is not said: a
package that an earlier command left half unpacked counts as installed.

Left out: directories, pre-remove scripts and the `.sh.done`
markers, which the code never reads back, are not in `fs`; `setup.ini` changes
only between commands, each of which reads it once. `cmdInstall` passes 1 for every
package of its list, so that dependencies are recorded as asked for, against the
comment at `main.go:1200`, and `autoremove` finds only what another tool has
recorded: the initial states have such entries.

### SuSession, SuToken and OutputWriter

`SuToken` follows `getSystemToken` and `getTrustedInstallerToken` call by call
(`tpc`); each call may fail. `handles` is what su has open, `impersonating`
whether its thread runs as SYSTEM, `svc` the TrustedInstaller service, which
starts and stops beside su, `status` what su last read of it, `target` whether
the process su found still exists. The goroutine is taken to stay on its thread
between `ImpersonateLoggedOnUser` and `RevertToSelf` - it does not block there,
but the code has no `runtime.LockOSThread` - and `RevertToSelf`, whose result
the code ignores, to succeed.

`SuSession` is one call of `su`, for an account (`runServer`) or with a token
(`runServerAsToken`), whose code is the same from the listener on. `spc` follows
the main goroutine, `spawn` the one that starts the helper and waits for it,
`spawnErr` and `ch` are the channels, `lis` the listener; `stdin` and `SendCtrlC`
are the forwarding goroutines. `hpc`, `reader` and `copier` are the helper's main
goroutine, the reader of messages, and the copying goroutine of `os/exec`, which
calls `msgWriter`. `conn` is `queued` from the helper's `Dial` until `Accept`
takes it; `toHelper` and `toServer` are the two directions. Windows may carry
out the start of the helper after su has given up (`StartHelper` does not ask
whether su runs). `Dial` may fail though the listener is open. `Reset` is what TCP
does when one side closes with messages unread. Both output streams are one here:
`msgWriter` has one instance for each. `child` is `running` as long as somebody holds
the command's output: a process that the command leaves behind with it keeps
`cmd.Run` waiting, also in the model. The sockets' buffers are not bounded (one
piece of input and one Ctrl+C are all there is to fill them; `PipedSession` has
the bounded case).

su returns 1 when it could not tell the command's exit code (`main.go:477` and the
like), which a caller cannot tell from a command that ends with 1. `result` is
`Lost` there, so that the properties can.

`OutputWriter` has the filter as operators on sequences of bytes, each a
function of the source: `splitIncompleteUTF8Tail`, the two tests for the code
page, and `MsgWrite` for `msgWriter.Write`. What the caller gets is a sequence of
elements, each with the bytes it comes from: a byte passed on, a character that the
code page gives for its bytes, or the question mark for a byte that it gives none
for. So passing a character on and converting it differ. The code page is 936, and of
its tables only what the filter depends on is there: which bytes take a second one
along. That Windows has no character for some pairs is not.

Two properties share what the filter promises:

- `ForwardsCommand` is about bytes, for every text: the session implements
  `RemoteCommand`, where `printed` is the number of bytes that the elements shown
  come from, as long as these are a prefix of what the command wrote, and
  otherwise something no behaviour of `RemoteCommand` shows. A dropped, doubled or
  reordered byte violates it, and so does an exit code that su returns before it has
  shown what is due. Due is all but what begins, at the end of the output, a UTF-8
  character that is not finished - the tail that nothing flushes. OEM text may end in
  a byte that looks so; then it is lost as well (`main.go:60`), and `Unfinished`,
  which is a definition about the text and not the filter's own, says so.
- `ShownRight` is about what becomes of the bytes, and holds for some texts only. UTF-8
  text stays as it is wherever the writes cut it, unless a character of two bytes in
  it could be one of code page 936 (`Ambiguous`). OEM text is converted right if it is
  written in whole lines of which none is valid UTF-8 and none ends, before its
  newline, in a byte that begins a UTF-8 character (`PlainLines`). What bash writes
  is never converted.

Outside these conditions the filter shows something else than the command wrote.
An accented letter is taken for OEM text: `UTF8Untouched`, the comment at
`main.go:66` as it is written, is violated (run `su_accent`). A line of
OEM text whose last character ends in a byte from 0xE0 on is cut before that byte,
since the `break` under "no incomplete sequence here" leaves the `switch` and not
the loop (`main.go:116`), and OEM text is cut wherever a write ends inside a
character: the two halves are converted by themselves. The text `cut` of run `su` has both
cases; there only the bytes are checked.

### SetupIndex, CygwinShutdown and Maintenance

In `SetupIndex`, `ini` and `bak` are `setup.ini` and `setup.ini-save`: absent,
torn, or the index that some update fetched. `upc` follows `cmdUpdate`:
`backup`, `try` and `unpack` for each of the three formats, then `clean` or
`restore`. `os.Create` truncates before `io.Copy` writes, and for the third
format the download itself goes to `setup.ini`, because the cache directory
holds both. Every step may fail, the process may die between any two (`Die`),
and another apt-cyg that reads `setup.ini` makes Windows refuse to rename or
remove it, which the code ignores (`disturbed`).

In `CygwinShutdown`, `alive` is what runs. The steps are those of
`shutdownCygwin`: snapshot, job, one `Assign` for each process, termination, the
direct kills, the second snapshot. Meanwhile processes end and fork (a fork of a
process in the job is in the job). Every call to Windows may fail, each time anew:
a snapshot may miss any process, or fail and give none at all (then cygctl says "No
Cygwin processes" or "All terminated" whatever runs); the two calls of
`OpenProcess` ask for different rights (`winapi_windows.go:197` and 228), and what
the first refuses the second might grant; the job may not be had, a process may not
be put into it, and the errors of `TerminateJobObject` and `TerminateProcess` are
ignored.

`refused` is a history variable: the processes that Windows did not let cygctl open, or
did not end when asked to. `NothingSpared` says that of the processes found, no other is
alive when cygctl comes to its end. It does not say more, and the code does
not do more: a process that the first `OpenProcess` refuses is passed over and not
put into `unassigned` (199), so that `killProcessesDirect` never tries it. The comment
at 174 promises the individual kill only to processes that the job does not take.

`install.ps1` puts cygctl into Cygwin's bin, so that it finds itself: `Self` in the
job means that `TerminateJobObject` ends cygctl too, before it has killed what the
job did not take and without a verdict. `NothingSpared` is therefore about shutdowns
that come to their end (`done`). A pid is never used again in the model.

`Maintenance` composes them: an update is one of the processes, a step of the
shutdown that kills it is its `Die`, and it starts and forks while the shutdown
runs.

## 3. Runs

| Run | Expect | Shows |
|---|---|---|
| `cygsec` | pass | six invariants and `StopRemovesOwnLock`, with every fault |
| `cygsec_live` | pass | `CallsReturn`, `KillStops`, `DaemonsEnd` |
| `cygsec_retrigger` | violation | a live daemon's lock file is removed, the next call prompts again |
| `cygsec_watchdog` | violation | the idle watchdog ends a daemon with an active connection |
| `piped` | pass | the session implements `RemoteCommand`, byte by byte; reader, order, end of input, termination |
| `piped_ctrlc` | violation | Ctrl+C after the end of standard input is lost |
| `apt` | pass | `FilesOwned`, `NeededStays`, `InstallCompletes` over all commands, with errors ignored as the code ignores them |
| `apt_essential` | violation | rollback deletes an essential package's working files |
| `apt_verified` | violation | a cached archive is unpacked unverified |
| `su` | pass | `SuSession` implements `RemoteCommand`; texts that can be told apart are shown right; no token or impersonation is left; the reason of a failure is known; a lost exit code means a fault; su and its helper end |
| `su_accent` | violation | an accented letter in UTF-8 is converted as if it were OEM text |
| `maintenance` | pass | what the shutdown found is dead unless Windows refused it; an index that was renamed for an update survives kills, failures and another reader; update's verdict is true |

The violation runs are disagreements between the code and what its comments and
help text say; `PROJECT.json` quotes them.

**Bounds.** `cygsec` has two clients, hence two daemons, and two connections for
each client: enough for a stale and a fresh daemon, a client that fails against
the first and retries with the second, and two attached commands that compete
for the console. `cygsec_retrigger` needs a third client: the one that finds no
lock file. `cygsec_live` has one connection per client, because `MaxConns` cuts
the retries of `waitAndConnectDaemon` and liveness must not come from that cut;
its clients still meet each other's daemons, refusals and time-outs.

`piped` has buffers of one message, two pieces of input, three bytes of standard
output - a character of two bytes and the beginning of another - and one of standard
error: each buffer fills, each writer blocks, two messages of one stream follow each
other, a character is cut by a write and completed by the next, and one is left
unfinished.

`apt` has three packages: an obsolete one that asks for another by a virtual name,
and two that depend on each other (so a cycle is entered from outside) and share a
file, one of them essential; one of these has a second version that drops the shared
file and brings a postinstall script, the other also depends on a name that nothing
provides. The essential one is obsolete as well in `apt`, which keeps the states few: an
install passes it over and goes on to what it depends on. Any of the two may be installed at first, as dependencies or as asked for,
with or without `installed.db`; a user asks for the two, or for the obsolete package
and the unknown name. Faults are on, except two that would only multiply the states.
An archive with the wrong content (`corrupt`) is what `apt_verified` is about, and
differs for `FilesOwned` in nothing from a right one. A database that cannot be
written (`dbfail`) leaves a package that is recorded only in its manifest, which a
death between manifest and record leaves too. The theorems about `FilesOwned` and
`NeededStays` hold with both.

`su` has seven calls: an account with a CJK character after a letter, SYSTEM with a
character of four bytes, an account with two lines of OEM text, SYSTEM with OEM
text that the filter cuts wrongly, bash
(whose output is not converted) and a command with an accented letter, and
TrustedInstaller. A text may be cut into writes at any byte, the one in lines at the
ends of its lines. One piece of input and one Ctrl+C meet every state of the helper;
one process is killed in a behaviour.

`maintenance` has two updates, since the second meets what the first left behind,
a shell that may run at first or be forked by an update, and cygctl in or outside
Cygwin's bin. The runs have at most about 3.4 million states.

**Deadlock** is not checked where the system stops for good reasons: clients
have returned and daemons have ended (`Cygsec`), the session is over
(`PipedSession`, `SuSession`), the instance has nothing left to install
(`apt_verified`) or no update left to start (`Maintenance`).

**Fairness.** `Cygsec`: weak fairness of each process and goroutine, since the
scheduler runs them; strong fairness of `PollTimeout`, since the loop of
`waitAndConnectDaemon` looks at its deadline every time round; commands end
(`CommandEnds` is a step of the handler). Nothing makes a user start, abort or
approve anything, but a prompt is answered or times out; and nothing makes 24
hours pass without a call: `DaemonsEnd` has that as its premise, and `KillStops`
holds without it. `PipedSession`: weak fairness of the goroutines that can run; strong
fairness of `SendCtrlC`, whose `Encode` waits for room; none for the command,
the user, or the reading of standard input. `SuSession`: weak fairness of each
goroutine that can run and of the two timers (`Timeout`, `PollTimeout`); none for
the user and the password, the command, the goroutine that reads standard input,
the messages read by the helper, or Windows starting the helper, which may take
for ever: `SuReturns` rests on the timeout there.

## 4. Proofs

`CygsecProofs` proves for every finite set of clients, every `MaxConns`, every
subset of modes and faults, from `ConstAssumption` alone: `TypeOK`,
`SingleDaemon`, `LockNamesDaemon`, `SessionIsAuthentic`, `ActiveCountsHandlers`,
`OneConsole` and `StopRemovesOwnLock`.

The argument is one inductive invariant, `IInv`, with a part for each concern:

- `TypeInv`: the types, with `activeConns` any integer, and that a client about
  to dial has a connection left. That the counter is not negative follows only
  from the count.
- `LockInv`: one owner of the name; the lock file is absent, empty while its
  owner writes it, or holds the owner's token; a daemon that stops is an owner.
  `StopRemovesOwnLock` follows from this part.
- `ConnInv`: a connection that is not open has no messages; the pending instance
  and the accepted connection of a daemon are connections to that daemon.
  Without it a daemon's end could leave another daemon's goroutine uncounted.
- `AuthInv`: a client that has read "yes" holds the token of the daemon that
  sent it, and keeps it while it talks.
- `ConsoleInv`: who runs attached holds `consoleMu`.
- `CountInv`: `active[d] = Cardinality(Handlers(d))`; the steps of the proof are
  what starting, ending and vanishing goroutines do to a finite set.

Each part has one lemma per kind of step (client, daemon, connection), and
`InvStep` joins them.

`SuTokenProofs` proves `NoHandleLeft` and `Reverted` of `SuToken` from nothing
but its definitions. Neither is inductive: `Held` adds which handles are open at
each place, and that an account never enters the acquisition. A failure before
the SYSTEM token exists is one lemma, `FailsInv`, used by every call that may
fail.

`SetupIndexProofs` proves `IndexSurvives`, `UpdateTruthful` and `FailureReverts`
for any number of updates from `IndexAssumption`. `Progress` adds what the
update relies on from one step to the next: a renamed index is still in the
backup while formats are tried, `setup.ini` is the new index before the backup
is removed.

`CygwinShutdownProofs` proves `NothingSpared` for every set of processes from
`ShutdownAssumption`. The strengthening, `Accounted`, says where each living
process of the snapshot is at each stage: still to do, in the job, noted as
unassigned, or refused by Windows.

`PipedSessionProofs` proves, for any amount of input and output, any pipe size
and any faults, the four invariants of run `piped` and that the session
implements `RemoteCommand` (`SessionForwardsCommand`). The invariant has, beside
the types,

- `PhaseInv`: which goroutines exist at each place of the handler, and so that
  the daemon's reader and the drain never read at the same time;
- `InputInv`: read, piped and held input is a prefix of what was typed, and the
  pipe from the client carries exactly the rest. `Carries(q, x, a, b)` says this
  of a queue without naming its length: the messages `x` in it are those
  numbered `a + 1` to `b`, each once and in order. Lemmas say what sending,
  taking and losing a message does to it;
- `SignalInv`, `EofInv`: no input follows the message that closes it, a Ctrl+C
  is under way only if somebody pressed it, and a command that has seen the end
  of its input has accepted all that was sent;
- `OutputInv`: the same `Carries` for the bytes of each stream from `msgWriter` to
  the caller, with what is printed as its beginning; and `msgWriter` has kept back no
  more than a character that the bytes so far leave unfinished;
- `ExitInv`: the exit message is the last in the pipe, after all output, and
  carries the command's code.

Where characters end is a parameter (`Hold`), of which the proof uses only that an
unfinished character has at most three bytes and at most as many as there are
(`ConstAssumption`).

The refinement has one lemma for each kind of step: what the client receives,
what ends the session, what the command writes; everything else leaves the
abstract variables alone. A queue is shortened by `Tail` and lengthened by
`Append` only, so no induction over data is needed.

`SuSessionProofs` proves the invariants of run `su` for any set of calls, any
texts and any bounds. Its parts follow who waits for whom: `SpawnInv` ties su,
the goroutine that starts the helper and the listener together, `ConnInv` the
connection to what `Accept` has returned, `HelperInv` the helper to its command,
and `AnswersInv` orders what the helper sends: the answer to the token first,
the exit message last. `ExitInv` then says that what is returned, or still in
the connection, is the command's code. `SpawnErrorKnown` is inductive with the
first of these: the listener is closed only after `spawnErr` is written.
`LostMeansFault` needs all of them, since every way to lose the code has to be
found among the kills and the unread input. Two further theorems state what no
run does by name: an exit status of su other than 1 is the command's
(`ExitCodeIsKept`; of 1 nothing can be said, because su exits so as well when it has
lost the code or has never begun), and the helper is started by a su that has its token and has reverted
(`HelperIsStartedProperly`). The token properties come by composition: a session
acquires its token as `TokenSpec` says (`SessionAcquires`), so the theorems of
`SuTokenProofs` hold of it. `SessionTypeOK` contains a fact about the filter:
whatever bytes it is given, `msgWriter` keeps back less than one whole character
(lemma `KeepsLittle`).

`MaintenanceProofs` composes in the same way: `CompositionUpdates` shows that
what the shutdown does to an update is a step of `IndexSpec`, where a kill is a
`Die`, and the properties of `SetupIndexProofs` follow for updates that a
shutdown kills. The other direction, `NothingSparedWithUpdates`, takes an update
that starts, forks and ends as one more process; `Linked` says that an update
runs exactly while its process is alive.

`AptPackagesProofs` proves `TypeOK` for any number of processes, and two
properties for one:

- `FilesAreOwned`. `OwnerInv` strengthens it: a file that belongs to a package is in
  its manifest, or apt-cyg has lost track of it (`stray`). It speaks of the manifest
  only, because the record may be lost with `installed.db`. `Stage` says what a
  process relies on: a manifest that was just emptied is empty, and a package that is
  to go owns only what is still to be deleted, or strays. The one hypothesis is that
  one apt-cyg runs at a time (`Alone`); every fault and every installation is covered,
  and so are archives of new versions that drop paths.
- `NeededPackagesStay`. While autoremove works, `installed.db` exists (an orphan
  is found only in a database) and nothing in it, or in the copy to be written,
  depends on a package that is still to go (`NeededInv`). It needs `Alone` only.

TLC also checks the properties that these theorems are about, on the instances of
the runs.

**Assumptions on constants** are named in the modules that declare them and
evaluated by every run. Beside types they say that a marker such as `None`,
`Lost` or `Missing` is none of the values it stands beside; that messages and
streams have different names; that a text of su is a sequence of bytes cut
inside its length; that an unfinished character has at most three bytes; that the
names of packages, those that are provided and those that are unknown are
different; and that different updates are different processes, none of them
cygctl.

Only model-checked, and why:

- all liveness (`CallsReturn`, `KillStops`, `DaemonsEnd`, `ExitDelivered`,
  `HandlerReleased`, `SuReturns`, `HelperEnds`): fairness and `ENABLED` are out
  of the prover's reach;
- `ForwardsCommand` and `ShownRight` of `SuSession`: they compare the bytes and the
  look of what is shown with the text, and how the filter's output relates to its
  input is an induction over the bytes. (What `PipedSession` abstracts of the filter,
  the bytes it keeps back, is proved there.)
- `InstallCompletes`: the walk of `resolveDependencies` is a recursive function
  over paths and sets;
- the properties of the violation runs, which do not hold.

## 5. Not modelled, and what is left

- Proofs left: fault-free strengthenings, such as that a piped session without
  faults never returns `Lost`; what one may still say of two `apt-cyg` at once.
- The path conversions of `wsl.go`, the parser of `setup.ini`, command lookup,
  quoting, environment, X11 and shebang handling, and the rewriting of account
  names in the output of su are functions on strings with no state: a table of
  unit tests says more about them than a model. The rewriting looks at one message
  at a time, so a name that falls on two messages is not rewritten.
- Queries only print. Mirror and cache settings are one read and one write of
  `setup.rc`. The installers are sequential scripts run by hand.
- `findCygwinRoot` reads the registry. (It closes a key inside its loop over the
  key's values and again after it.)
- The model has su's helper as the only caller of su's listener. The one-time token
  is compared by the helper (`main.go:513`); su sends it to its caller and goes on with
  the answer `true`.
- Two `apt-cyg` processes at once are admitted by `AptPackages`
  (`Procs`), but the code takes no lock and the properties above do not hold for
  them, so the runs have one.
- What `stray` holds is not bounded: the code has no means of finding such files
  again, and no property says that it does.
- The build files, and the stand-alone detection test.
