# A verification model of cp-agent

`cp-agent` runs on an interview candidate's machine. A Go supervisor (`src/supervisor`) asks for
consent, shows the candidate everything it sends in a *mirror* window, and once a second asks a Rust
subprocess, `probe-serve` (`src/probe-core`), what is running, listening or hidden from capture. The
answers go, with lifecycle events, to a JSON-lines file (the *sink*), which a consumer reads as the
session's feed.

The modules here are written from that code. TLC checks them on small instances, TLAPS proves the
theorems in `*Proofs.tla` for every value of the constants.

    tlc -workers 2 -config MCSession.cfg MCSession      # and so on for every .cfg
    tlapm SessionProofs.tla                         # and so on for every *Proofs.tla

## 1. The system

| component | source | state | operations |
|---|---|---|---|
| session lifecycle | `cmd/cp-agent/main.go` | `seq`, `stopped` and `collectorEnded`, the hostHolder, `lastSampleSeq` | `main`, the sampling goroutine, the closer goroutine, `restartProbe`, `warmUpScan`, `closeSession`, the deferred calls |
| sink | `internal/sink` | the output file | `Open`, `WriteRaw`, `WriteValue`, `Close` |
| mirror window | `internal/ui/ui.go` | the WebView and its message loop | `AskConsent`, `ShowMirror`, `ShowCoverage`, `ShowSample`, `Run`, `BringToFront`, `Close`, `Destroy` |
| tray icon | `internal/ui/tray.go` | a thread with its window, icon and message queue | `StartTray`, `Stop`, the WndProc, the context menu |
| probe host | `internal/probehost` | one process, two pipes, `nextID`, `closed`, a mutex, and one reader goroutine per unanswered call | `Start`, `Ping`, `Coverage`, `Scan`, `Close` |
| signature gate | `probehost/verify.go` | none | runs a PowerShell command before each start |
| probe-serve loop | `cp-win/src/bin/probe_serve.rs` | the command in hand | read, dispatch inside `catch_unwind`, answer |
| scan pipeline | `cp-win/src/*.rs` | the signature cache | `scan`: window sweep, processes, signatures, foreground, microphone holders |
| capability prober | `cp-win/src/capability.rs`, `cp-signals/src/coverage.rs` | none | `report` |
| wire types | `cp-signals/src/*.rs` | none | tiers, observation keys, `SampleMeta` |
| lifetime guards | `internal/winguard` | a named mutex, a job object | `AcquireSingleInstance`, `NewProcessJob`, `AssignPID` |
| embedded probe | `internal/probeasset`, `appdir` | the extracted executable | `Extract`: hash, write, remove, rename |
| pages, dialogs, `probe_once`, CI | | none that outlives a call | |

**How they interact.** `main` opens the sink and the window, blocks in the window's loop for the
consent, starts a Host (which runs the gate, spawns `probe-serve` and puts it in the job object),
pings it and writes its coverage report. Then four threads run: `main` inside `mirror.Run`, the
sampling goroutine, the closer goroutine that waits on the channel `stopped` and calls
`mirror.Close`, and the tray's thread. The sampling goroutine makes one call at a time of the Host,
writes the answer to the sink and dispatches it to the window. When a periodic scan fails it closes
the Host, tries up to three times to start another, and declares the error, the gap and the new
coverage; if all attempts fail it writes `fatal_error` and `session_ended` and ends the session.
However the session ends, `main` returns from `mirror.Run`, waits for the sampling goroutine, writes
`candidate_quit` unless the collector ended the session, stops the tray, closes the Host and destroys
the window.

**What is hard.** Two sides may end the session at once. A scan may be in flight when the window
closes. Calls time out and are answered late. Writes fail and the code mostly goes on. A probe dies,
wedges or panics between any two steps. `main` waits for the tray's thread, which may be waiting for
`main`.

**What makes each part correct.**

* session: the feed is ordered; a consumer can tell every hole, every restart and who ended the
  session; every stop ends it; at most one probe lives, and none at the end;
* mirror: it shows only what was sent, and all of it;
* sink: a refused write is never referred to;
* probe host: no reply is paired with another request, every call returns, `Close` frees everything;
* probe-serve: answers in order; a stuck command is final;
* tray: its menu and double click do what they say, its thread ends with the session;
* scan pipeline: a probe that failed is never read as a clean result, and a process's facts agree
  across signals; capability report: never more than the probe can see;
* lifetime: one collector per login, no probe in a job outlives its agent, no half-written executable
  is started, no feed is overwritten while it is written.

## 2. The modules

| module | contents |
|---|---|
| `Session` | one run of `cp-agent`: `main`, sampling goroutine, closer, candidate, sink, Host holder |
| `SessionProperties` | what a session promises |
| `SessionClaims` | statements of the source about a session that do not always hold |
| `Feed` | the abstract feed, a state machine over messages alone |
| `SessionProofs` | type correctness, `NoStrayProbe`, `SinkOrdered`, for all bounds |
| `FeedProofs` | the properties of the feed and of the mirror, and that a session implements `Feed`, for all bounds |
| `ProbeHost` | one Host and its probe process: the call protocol |
| `ProbeHostProofs` | type correctness, `PairingSound`, `WedgeIsFinal`, `ReadersBounded`, for any number of calls |
| `Tray` | the tray's thread, the candidate's clicks, `main`'s `tray.Stop` |
| `TrayProofs` | type correctness and `NoCallbackAfterStop`, for any number of clicks |
| `Signals` | the wire types: subjects, observations, tiers, keys, `SampleMeta` (operators) |
| `Authenticode` | what the probe makes of a file: hash, trust, catalog, verdict (operators) |
| `Coverage` | the capabilities and the coverage report (operators) |
| `Machine` | the computer that is observed: processes, files, windows, audio sessions (external) |
| `Scan` | `probe-serve` carrying out `scan` and `coverage` on a `Machine`, call by call |
| `ScanProperties` | what a sample and a coverage report are worth |
| `ScanProofs`, `VerdictProofs` | `PartialNeverClean`; `VerdictWasTrueOnce`: on any machine |
| `ReplyProofs` | type correctness and what else `ScanProperties` says of an answer, on any machine |
| `Lifetime` | launches of the agent up to the first ping: mutex, feed's file, job object, extraction, crashes |
| `LifetimeProofs` | type correctness and the safety of the lifetime, for any launches and crashes |
| `MCSession`, `MCProbeHost`, `MCTray`, `MCScan`, `MCLifetime` | what TLC is run on |

How they fit together: `Lifetime` is many launches, each up to the moment its session runs. `Session`
is one launch from the consent on, with a Host reduced to the outcomes of its calls. `ProbeHost` is
one Host with its process and the pipes, with commands reduced to an answer. `Scan` is what the
process does for one command. Each takes from the one below only what that one checks:
`Session` that a call returns and answers its own command, `ProbeHost` that a command that does not
wedge is answered (`EveryCommandAnswered`).

Operators named in a comment as the *mutant* of another state a plausible bug. They are no part of
any specification; replacing the definition by its mutant must break the property named beside it in
`PROJECT.json`, which shows that the property depends on the code.

### Session

`main` and `tick` are the program counters of `func main` and of the sampling goroutine.

| code | model |
|---|---|
| `stopped`, `collectorEnded`, `closeOnce` | `stopped`, `collectorEnded`, `CloseSession` |
| `seq.Add(1)`, then `WriteValue` or `WriteRaw` | `seq'`, then `Emit` or `Written`, `Lost`, `Unsynced` |
| `hh` and the Host in it | `host`, `gen` (how many it has held), `probes` (processes alive) |
| `AskConsent` | `ConsentGranted`, `ConsentDeclined` |
| sections 2 and 3 of `main` | `FirstStart`, `FirstPing`, `FirstCoverage`, and their failures |
| `ShowMirror`, `StartTray`; `ShowCoverage`, the two `go` statements | `OpenMirror`; `Launch` |
| the page's stop button; the native close; the tray's callback | `StopClick`; `WindowClosed`; `TrayStop` |
| `<-stopped; mirror.Close()` | `Closer` |
| after `mirror.Run` | `RunReturns`, `AwaitTicker`, `CandidateQuit` or `NoCandidateQuit` |
| the deferred calls | `TrayStopped`, `CloseCurrent`, `Exit` |
| `warmUpScan`; a tick | `WarmUp`, `WarmUpFails`; `Tick`, `ScanFails`; for both `Sampled`, `ShowSample` |
| `restartProbe` | `Restart`, `RestartFails`, `RepingFails`, `NextAttempt` |
| the recovery, the giving up | `Restarted`, `DeclareError`, `DeclareGap`, `Recover`, `Announce`; `GiveUp`, `SessionEnded`, `CollectorEnds` |

A call of the Host is a step that begins it (its `seq` is allocated) and a step that ends it, so
every other thread may run in between. Allocating a number and writing its message is one step where
no other thread allocates or writes at that point; `SinkOrdered` and `TypeOK` fail if one could,
as the mutant `NoWait` shows. Message texts, ids, timestamps and logging are left out; a message is
its kind, its number, its references and, for the properties only, the Host current when it was
written. A write may fail in the two ways `WriteRaw` can: nothing is in the file, or the line is in
the file and `Sync` reported the error.

`pending` and `shown` are the readings dispatched to the window and drawn by it; only the message
loop draws. `TrayStop` allows the tray to call `onStop`, although `Tray` finds that no menu opens to
pick it from: the session's properties are those of a session whose tray works as well.

### ProbeHost

`stdin` and `stdout` are the two pipes, `readers` the calls whose goroutine is still inside
`ReadString`, `done` the channel of the call that waits, `outcome` what the last call returned. A
call ends by its reader (`Return`) or by its timer (`Timeout`), whichever the `select` takes; the
timer may fire at any moment, which covers every duration. A reader that is left behind reads
whatever comes next (`ReadLine`). `bufio.Reader` is not made for two readers: while there are two,
a line may also come out garbled, come out twice, or be lost (`RacedRead`). A garbled line that is
still valid JSON with the right id is not modelled. `stage` follows the session's use of a Host,
which decides after which errors the same Host is called again (`Survives`); `restarted` tells
`main`'s first Host from those of `restartProbe`.

The probe takes one command at a time (`Serve`), answers it, ok or not (`Answer`), never finishes it
(`Wedge`), or dies (`Die`).

### Tray

`queue` is the message queue of the tray's thread. The thread is in its loop (`Dispatch`) or, from
there, in `onShow` (`showing`). `main` takes messages until `mirror.Run` returns (`pumping`). After
`Terminate` the window still exists, after the native close it does not: `RunReturns` allows both.

The context menu never opens. `tray.go:52` binds `TrackPopupMenuEx`, which takes a menu, flags, a
place, an owner window and a pointer to a `TPMPARAMS`; line 347 passes it the arguments of
`TrackPopupMenu`, which has a reserved zero before the window. So the owner is NULL and the window's
handle stands where the pointer belongs (`PopupCall`); Windows refuses the call, and its result is
dropped. A right click leaves nothing but `popup = "refused"`. The menu's message loop, a choice and
the WndProc's `WM_COMMAND` cases, which only a menu would lead to, are therefore no behaviour of this
program and no part of the model.

The model takes three things from Windows: posted messages wait in the thread's queue; `ShowWindow` on
another thread's window returns only when that thread takes the message, or at once when the window
is gone; `TrackPopupMenuEx` shows a menu only for an owner window, and only for an area to keep clear
that is none or a `TPMPARAMS`.

### Scan, Machine, Signals, Authenticode, Coverage

`Machine` changes at any moment: processes exit and start, a pid may come back, windows and audio
sessions appear, change and go, a file is replaced. `Scan` takes a step for each call of Windows, or
for each pass of a loop, so the machine may change between any two.

| code | model |
|---|---|
| the command in `dispatch`; the local variables of `scan` and `probe_all` | `op`; `locals`, reset by `Reply` |
| `affinity::sweep` | `Sweep`, `SweepFails`; its `WindowSweep` is `sweep` |
| `process::snapshot` with `resolve_path` for each entry | `List`, `ListFails`; `Resolve`, `Resolved` |
| `signature::cached` | `cache`; `HashFile` then `TrustFile`, the two opens of `verify`; `Verdict` combines them |
| `process::observe`, for each process | `Observe` |
| `affinity::observe`, `foreground::probe` | `Foreground` |
| `audio::enumerate`, one flow at a time | `ComFails`, `Enumerate`, `EndpointsFail`; `holders`, `failed` |
| `audio::probe`, the end of `scan` | `MicRow`, `FinalMeta`, `Finish` |
| `probe_all`, `report` | the same actions with `op = "coverage"`, `OwnImage`, `Report` |
| `Observation` with `code`, `scope`, `tier`, `observation_key`, `into_signal` | `Observation`, `Scope`, `Tier`, `ObservationKey`, `Signal` |

`faults` records what failed in a command. Four kinds are errors to the scan (`Loud`: the sweep, the
process snapshot, COM, an audio endpoint). Five it takes for answers: a process list that breaks off,
an affinity or an image path that cannot be read, an audio session that cannot be had or whose state
cannot be read. `touched` records what changed since the command began, so that a property can speak
of what stayed as it was. `EnumWindows`, `CreateToolhelp32Snapshot` and one flow's sessions are each
the state of one moment; the order in which processes are looked at is by pid, since no step on one
depends on another.

### Lifetime

| code | model |
|---|---|
| `AcquireSingleInstance`, `releaseInstance` | `Acquire`, `AcquireFails`, `Refused`; `handles` |
| `sink.Open`, `WriteRaw` | `OpenSink`, `OpenSinkFails`, `Write`; `feed` counts the lines of the login's file |
| the consent, `RuntimeAvailable`, `NewApp` | `ConsentGranted`, `ConsentDeclined`, `NoWindow` |
| `NewProcessJob`, `AssignPID` | `NewJob`, `Assign`; `job`, `assigned` |
| `extractTo`, `matches`, `writeAtomic` | `Match`, `CreateTemp`, `WriteTemp`, `RemoveOld`, `Rename`, `ExtractFails` |
| `verifyBeforeSpawn`, `cmd.Start`, `Ping` | `Verify`, `VerifyHangs`, `VerifyFails`, `Spawn`, `SpawnFails`, `Ping`, `PingFails` |
| return from `main`, `fatal`, the agent killed | `Return`; `FatalExit` and `Crash`, which share `Dies` |
| `probe_serve`'s loop at its end of input | `ProbeEnds` |

From Windows it takes: handles of a process that ends are closed; closing a job with the kill limit
kills what is in it; an image that runs is neither removed nor replaced. The launches of one login
share mutex and feed, because the mutex is `Local\` and the feed's default is one file name; all share the
directory of the extracted probe. The copy may be deleted at any time when it does not run. It may be
damaged only while no launch is between its hash check and its start: nothing in the code covers
that interval.

## 3. What TLC checks

### Runs that pass

**session** (`MCSession.cfg`, 608 675 states). `MaxSeq = 10`: no periodic scan begins once ten
numbers are used. That reaches two restarts of the probe in one session (a restart uses up to six
numbers), a giving up after a restart, and every stop at every point of these. `MaxSinkFaults = 1`:
one refused or unsynced write, at any point. The properties relate at most a restart, the messages
around it and one lost write. A third restart starts from the same control state as the second.

* `SinkOrdered`: the feed is in `seq` order.
* `CoverageFirst`: no sample before a coverage report.
* `GapSound`, `RestartDeclared`: a declared gap is a true hole and starts where sampling stopped;
  samples of two probes always have a gap between them.
* `CoverageChangedRef`: an announcement names the report just before it, also when writes fail.
* `SessionEndSound`: a feed has one terminal event, or `session_ended` and then `candidate_quit`, at
  its end; the last one names the side that ended the session; the candidate is never said to have
  quit when the collector won.
* `MirrorHonest`: the mirror is given the readings in the feed and no others. A reading in the feed is
  drawn, waits for the message loop or is just being dispatched; what still waits when the loop ends
  is not drawn (section 5).
* `NoStrayProbe`: never two probes, none after a session that ended in order.
* `CollectorsEndStands`: once the collector has ended the session, no `candidate_quit` is in the feed,
  then or ever after, although the window still closes, `mirror.Run` still returns and the candidate
  may still press stop, each of which also ends the session in the candidate's name.
* `FeedSpec`: with the sink as `feed`, a session takes only steps of `Feed`, as long as no write has
  failed.
* `StopEndsSession`, `RestartResolves`: every stop, whoever makes it, gets `main` past the terminal
  event; every restart ends in sampling or in giving up.

Some of the properties are restricted to `faults = 0`. A lost write makes a hole that the code cannot
declare: the errors of `WriteValue` are dropped.

**probehost** (`MCProbeHost.cfg`, 5 566 states). `MaxCalls = 6`: ping, coverage, warm-up and three
scans, with every combination of timeouts. At most three readers can be alive (`ReadersBounded`), and
the fourth call is the first that three of them can meet.

* `PairingSound`: a call that succeeds has the answer to its own command.
* `ReadersBounded`: a Host outlives at most the timeouts of its warm-up and, after a restart, of its
  coverage call, so stale readers do not pile up.
* `WedgeIsFinal`: once the probe is stuck, no later command succeeds. This is what `restartProbe`'s
  comment argues from.
* `EveryCallReturns`, `ReadersEnd`: every call returns; closing the Host ends every reader.

**tray** (`MCTray.cfg`, 1 436 states). `MaxClicks = 4`: a Show under way, two clicks queued behind it,
and one more while `Stop` waits. Deadlock is not checked because the system does deadlock, see
`tray_stop`.

* `NoCallbackAfterStop`: when `Stop` has returned no callback runs or can start, so none meets the
  window that `main` destroys next.
* `HandshakeCompletes`: the shutdown handshake ends, whatever is queued before `msgQuit`, unless a
  Show is under way after `mirror.Run`.
* `DoubleClickShows`: a double click reaches `onShow` while the mirror is up.

**scan** (`MCScan.cfg`, 779 955 states). Two processes, of which one may run an image that refuses to
be opened; one window, which either may own, hidden, visible or excluded; a microphone session, a
render session and the system sounds; five contents a file may have (signed, unsigned, catalogued,
locked, tampered); two starting desktops. `MaxCommands = 2`: the second command meets the cache of the
first. `MaxTrouble = 2`: changes of the machine and kinds of failing call, together. Two is what a
wrong answer needs: a process ends and its pid is taken again; a file is replaced and then used; a call
fails while something changes. Deadlock is not checked: an idle probe waits for its next command.

* `PartialNeverClean`: a sample is complete exactly when no call failed that counts as an error to the
  scan. An affinity, an image path, an audio session or its state, or the rest of the process list
  that cannot be had does not count, and leaves a sample complete.
* `EveryProcessListed`, `ExclusionsReported`, `MicFindingsSound`: what a complete sample says of
  processes, of excluded windows and of microphone holders is true of everything that stayed as it was.
* `VerdictWasTrueOnce`: a hash or a "valid" was true of something that was at that path.
* `OneIdentityPerPid`: the rows of one pid give it one image, and no two verdicts.
* `RowsAndCountsAgree`: S1 rows, S2 rows and the count of unreadable paths tell one story.
* `FullIsMeasured`: the coverage report says "full" only of a call that left nothing out.
* `EveryCommandAnswered`: every command comes to its reply.

Where a property exempts a fault by name (`EveryProcessListed` a list that breaks off,
`ExclusionsReported` an affinity, `MicFindingsSound` a session's control), the code is silent about
that fault and the property does not catch what is lost by it; see section 5.

**lifetime** (`MCLifetime.cfg`, 181 243 states). Three launches, two of one login and one of another,
at most two at once; one crash at any step; one damage to the copy; feeds of up to two lines. A
third launch is what meets a second that was refused and a first that crashed; two at once are enough
to interleave two extractions. Deadlock is not checked: all launches end.

* `OneCollectorPerLogin`: past the instance check there is one launch per login.
* `ProbeIsEmbedded`: whatever was interrupted, what is started is what was embedded.
* `OrphanHasNoJob`, `OrphansEnd`: a probe without an agent is one that no job held, and it ends at its
  end of input unless it is wedged.
* `FeedSurvivesSecondLaunch`: no other launch truncates a file a session writes.
* `LaunchResolves`: every consented launch comes to a session, a message or a hung signature check.

### Runs that find a disagreement

Each checks one statement of the repository and ends with a counterexample.

| run | statement | what happens |
|---|---|---|
| `one_terminal` | "only one terminal event may ever be written" (main.go:182) | the goroutine writes `session_ended`, then a stop wins `closeOnce`, then `main` writes `candidate_quit` |
| `coverage_current` | "It must arrive first" (main.go:165) | the coverage call after a restart fails, samples of the new probe follow |
| `seq_gaps` | "seq is contiguous … A gap … must surface" (cp-signals/src/lib.rs:24) | a failed warm-up has used a number that no gap covers |
| `headless_tier` | "Tier 2 when the mic holder shows no window; tier 3 otherwise" (detail.rs:156) | after a failed window sweep every holder is tier 2, whatever windows it has |
| `scan_error` | "never as a protocol-level error … gone or wedged" (main.go:260) | a panic in a scan, or a late answer, fails the scan and a healthy probe is restarted |
| `menu_stop` | "onStop when they pick "Stop monitoring"" (tray.go:160) | `TrackPopupMenuEx` is given the arguments of `TrackPopupMenu` and refuses: a right click shows no menu to pick from |
| `tray_stop` | "Stop removes the icon and ends its message loop" (tray.go:198) | the tray's thread waits in `ShowWindow` for `main` while `main` waits in `Stop` for the tray's thread |

Mending the argument list alone would not make `menu_stop` true: the flags ask for `TPM_RETURNCMD`, so
the choice would be the call's return value, which is dropped, and no `WM_COMMAND` would be posted.

In `tray_stop` the icon is still there while `Stop` waits: `Stop` deletes uID 0, `addIcon` added
uID 1. The Host is closed only after `tray.Stop`, so the probe stays as long as `Stop` hangs.

### Fairness

* Session: weak fairness of each thread. Goroutines are scheduled, every call of the Host returns
  (`EveryCallReturns` shows why) and `Start` is taken to return. Strong fairness of `StopSeen`: when
  a tick and `stopped` are both ready Go's `select` chooses at random, so the tick cannot win for
  ever. Nothing is assumed of the candidate, of the tray, or of `tray.Stop`, which is why
  `StopEndsSession` ends at the terminal event and does not promise the exit. It rests on two
  assumptions: that `Terminate`, called by the closer goroutine, ends `Run` on `main`'s thread, and
  that `Start` with its signature check returns (`VerifyHangs` of `Lifetime` is the case in which it
  does not).
* ProbeHost: the timer fires or the result is taken; reader goroutines run. Nothing is assumed of the
  probe.
* Scan: the probe's one thread runs and every call of Windows returns. A call that does not is
  `ProbeHost`'s `Wedge`.
* Lifetime: `main` runs, and a probe that waits for input sees its end. Nobody has to answer a dialog
  or the consent, and nothing ends a hung signature check.
* Tray: both threads run; nothing is assumed of the candidate.

## 4. What TLAPS proves

| theorem | statement |
|---|---|
| `SessionProofs!TypeCorrect` | `Spec => []TypeOK` |
| `SessionProofs!ProbesAccountedFor` | `Spec => []NoStrayProbe` |
| `SessionProofs!FeedInOrder` | `Spec => []SinkOrdered` |
| `FeedProofs!CoverageComesFirst` | `Spec => []CoverageFirst` |
| `FeedProofs!ChangesRefer` | `Spec => []CoverageChangedRef` |
| `FeedProofs!GapsSound` | `Spec => []GapSound` |
| `FeedProofs!RestartsDeclared` | `Spec => []RestartDeclared` |
| `FeedProofs!MirrorShowsSent` | `Spec => []MirrorHonest` |
| `FeedProofs!EndsSound` | `Spec => []SessionEndSound` |
| `FeedProofs!CollectorsEndKept` | `Spec => CollectorsEndStands` |
| `FeedProofs!ImplementsFeed` | `Spec => FeedSpec` |
| `ProbeHostProofs!TypeCorrect` | `Spec => []TypeOK` |
| `ProbeHostProofs!RepliesPaired` | `Spec => []PairingSound` |
| `ProbeHostProofs!WedgedIsDone` | `Spec => WedgeIsFinal` |
| `ProbeHostProofs!StaleReadersBounded` | `Spec => []ReadersBounded` |
| `TrayProofs!TrayTypeCorrect` | `Spec => []TypeOK` |
| `TrayProofs!CallbacksEndWithStop` | `Spec => []NoCallbackAfterStop` |
| `ScanProofs!PartialIsMarked` | `Spec => []PartialNeverClean` |
| `VerdictProofs!VerdictsWereTrue` | `Spec => []VerdictWasTrueOnce` |
| `ReplyProofs!ProbeTypeCorrect` | `Spec => []TypeOK` |
| `ReplyProofs!RowsAgreeOnIdentity` | `Spec => []OneIdentityPerPid` |
| `ReplyProofs!CountsAreRows` | `Spec => []RowsAndCountsAgree` |
| `ReplyProofs!ProcessesAllListed` | `Spec => []EveryProcessListed` |
| `ReplyProofs!ExclusionsAllReported` | `Spec => []ExclusionsReported` |
| `ReplyProofs!MicFindingsTrue` | `Spec => []MicFindingsSound` |
| `ReplyProofs!FullMeansMeasured` | `Spec => []FullIsMeasured` |
| `LifetimeProofs!TypeCorrect` | `Spec => []TypeOK` |
| `LifetimeProofs!OneCollector` | `Spec => []OneCollectorPerLogin` |
| `LifetimeProofs!FeedSurvives` | `Spec => FeedSurvivesSecondLaunch` |
| `LifetimeProofs!OnlyEmbeddedProbes` | `Spec => []ProbeIsEmbedded` |
| `LifetimeProofs!OrphansAreJobless` | `Spec => []OrphanHasNoJob` |

Every property that a passing run checks, other than the liveness properties, is stated by one of these.

The assumptions say that the bounds are numbers (`BoundsAssumption`, `MaxCallsAssumption`,
`MaxClicksAssumption`, `LifetimeAssumption`, `ScanAssumption`), so the theorems hold for any number of
scans, restarts, faults, calls, clicks, launches and crashes. `MachineAssumption` adds that pids,
windows and audio endpoints are finitely many (a pid is a 32-bit number, a desktop has a limit of
windows), that pid 0 is the idle process, and that the machine is at first what its variables can hold. The
counts of a sample are cardinalities, which mean nothing of an infinite set.

**Session.** `TypeOK` is not inductive: closing a probe subtracts one from `probes`, which must have
been counted. `CInv` adds where the two threads can be at once (the goroutine runs only between
`Launch` and `AwaitTicker`) and that `probes` is 1 exactly while the held Host is open or a new one
is being pinged. `NoStrayProbe` follows from it. For the order of the feed, `FeedStep` classifies
every step by what it does to `seq`, `sink` and the number the goroutine holds: nothing, allocate and
write, allocate, or write what was allocated. `OInv` says that everything written is at most `seq`
and that a number held by a scan in flight is greater than everything written. That last part fails
if `main` does not wait for the goroutine.

**The feed.** `FeedProofs` takes `FeedStep` further. `Step` says of every step that the counters and
the control state go on as `Always` has it, and that it is `Silent` or is `Sending` one message: which
control state may send which kind with which numbers (`Sender`), and what a message leaves behind.
`StepFacts` proves this action by action, once; each property is then two cases of an induction. Each
needs its own memory of the control state. `CoverageInv`: sampling goes on only where a report was
written. `ChangedInv`: from the report of a restarted probe to its announcement the report stays
last. `GapInv`: no sample is newer than the one a gap would start at, and that one is in the sink
unless a write failed; it rests on `NumberInv`, that a scan's number is above the last sample's.
`RestartInv`: once the gap is declared every sample of an earlier probe has a gap after it, so the
first sample of the new probe adds nothing to prove. `HonestInv`: what is shown, dispatched or about to
be dispatched is exactly what the sink has of readings, since whoever sends one hands it on. `LastInv`:
the control state knows the kind of the last message (`Fits`); after the end only `candidate_quit` is
written, by `main`, which then is past writing; a `consent_declined` belongs to a session whose
goroutine never ran; `candidate_quit` is there only once the collector's reason is ruled out.
`CollectorsEndStands` is this last part together with two facts about what is to come: the collector's
reason is given after the goroutine's last message (`EndInv`), and no later ending replaces a reason
(`ReasonStands`). The refinement needs nothing beyond these: with no write lost, `Fits` gives the message that
`Feed` saw last, `Sender` with `GapInv` and `ChangedInv` the numbers its `Send` asks for.

**ProbeHost.** `CallInv`: a call is made only of a Host in use. `PairInv`: what a reader has posted
for the waiting call with verdict ok carries that call's id. Type correctness and the pairing need no
more, however the readers race. `OrderInv` follows the ids from `stdin` through the probe to `stdout`:
increasing in `stdin`, the one in work below those, answers below both. From it a success after the
wedge is one that was answered before it. `ReadersInv` counts the readers other than that of the call
under way: at most `Stale(stage)`, the timeouts a Host has survived when it is at `stage`. A call that
times out leaves one more, and either moves to a stage that allows one more or is the Host's last.

**Tray.** `LoopInv`: a Show is the tray's thread inside its loop, the thread starts only
when `main` starts it, and `main` is past its wait only when the loop is over. A callback is a step
of the loop, so none is left.

**Scan.** While a scan is under way endpoints that failed are not in `meta`, only in `failed`, so
`PartialNeverClean` says nothing until the end. `Honest` says it of the scan in progress: `meta` knows
of every loud fault but that of the endpoints, `failed` counts those. `MetaFinish` puts the two
together. The counting needs that a set of endpoints is finite.

For the verdicts, `KeptInv` says of each place in which a verdict rests (the hash inside `verify`, the
cache, the rows, the reply) that it is backed by a content the path has had. A path's past only grows
(`BackedStays`), so what is backed stays so, in the cache for any number of commands.
`VerdictBacked` is the case of two contents, one hashed and another trusted: either one may be the
witness, and a catalog's trust belongs to the one that was hashed.

What an answer says of the machine is proved in `ReplyProofs`, over `Base` (types, and the invariants of
the two modules before) and `Course` (which call follows which, and that there is no process list
before it is made). A property is about the end of a command, so its invariant says what holds while the
command is under way of everything that has not been `touched`.

* `RowsInv`: a row that is of a process has that process's image (`RowsMade`), there is one such row of
  each code and pid, with one subject (`RowsAlone`), and no process that was looked at is without
  one (`RowsCovered`). At `Finish` nothing is left to look at, so rows and processes correspond one
  to one and `CountKept` counts the rows.
* `ListInv`: a process that ran all along is in the list, and a refused image is known as such.
* `SweepInv`: the sweep is right about windows nobody touched; `ExclusionsMade`: the S5 rows are
  those of the sweep.
* `HoldersFound`: when both flows are enumerated a capture session that lasted has its holder.
* `CapInv`: the entries of a coverage report so far are those of the calls made (`KeysAt`), each
  "full" was measured, and a failure that would take it back can no longer come, as each kind of
  failure belongs to a call that has been made.

An answer that stands is not disturbed by the machine that goes on changing, since what changes is
`touched` (`AnswerStands`).

**Lifetime.** `LoginInv` strengthens `OneCollectorPerLogin`: a launch past the check has a handle
(`Guarded`), two launches of one login are not both past it (`Alone`), and the first message goes to an
empty file (`Fresh`), from which the feed's theorem follows. `FileInv`: what is about to be renamed is
whole (`StagedWhole`), and between the hash check and the start the copy is not damaged (`Checked`),
also when another launch removes or replaces it. `JobInv`: before its start a launch has no probe
(`NotYet`), so one that ends leaves none but what `Dies` leaves.

TLC checked each of these invariants on the instance of the component's passing run before it was proved.

**Left to TLC**: liveness (`StopEndsSession`, `RestartResolves`, `EveryCallReturns`, `ReadersEnd`,
`HandshakeCompletes`, `DoubleClickShows`, `EveryCommandAnswered`, `OrphansEnd`, `LaunchResolves`):
fairness is stated with ENABLED, which the prover does not reason about. The mutants are checked by
TLC too, and so are the seven disagreements of section 3, each of which is one behaviour.

## 5. What the models leave to the reader

**Disagreements that are seen in the models and have no run of their own.**

* A sample stays `complete` when `GetWindowDisplayAffinity` fails for a window (`affinity.rs:112`), when
  an audio session's control cannot be had (`audio.rs:191`) or when `Process32NextW` fails
  (`process.rs:59`). The comments beside the first call it "not treated as no finding"; only the
  coverage report, made once, counts it.
* `process.rs:101` wants no consumer to see `not_checked` and `valid` for one pid in one sample. That
  holds of S1 and S2; the S3, S5 and S6 rows of the same pid say `not_checked`. `OneIdentityPerPid`
  allows exactly this.
* A microphone holder that is not in the process list is `access_denied` (`audio.rs:310`), a window's
  owner that is not is `exited` (`affinity.rs:146`), for the same race.
* `S6_window_titles` is reported as probed and full without a call (`capability.rs:231`), and
  `probe_capability` drops the number of endpoints that failed (`audio.rs:367`).
* The tier turns on `has_window`, not on `has_visible_window`; a TODO in `detail.rs:193` says so.
* Two capture sessions of one process on one device have one observation key, a pid that is taken
  again keeps the key of its predecessor.
* `main.go:490` says that no consent for S2 exists and that the notice must say so first "if S2 ships";
  the scan sends S2 for every readable image.
* The consent page promises "If it is not in that window, it is not being sent" and "Monitoring ends
  immediately" (`consent.html:61`). A scan in flight when the window closes is written and never
  drawn, and the warm-up after a restart, or a tick that wins the `select`, begins after the stop.
* `sink.Open` truncates the file of an earlier session of the login before the consent is asked.

**Not modelled.**

* Fatal dialogs and pages: no state.
* How PowerShell judges the probe's signature; `platform.rs`, a table of facts; the `SessionEvent`
  builders of `cp-signals`, which nothing calls; timestamps, JSON layout, device names.
* go-webview2: `Terminate` is taken to end `Run` from any thread, as `ui.go` says of `Close`.
* A pipe that is full, an interval that is zero (`NewTicker` panics), `seq` at its 64-bit limit, `CreateMutexW` refused by
  another user's object.
* A start whose stdin or stdout pipe cannot be made is a `SpawnFails`; log files and directories that
  cannot be created are `ExtractFails` or nothing.
* `probe_once`, the build workflow.

## 6. The plan

1. `Session`, `Feed`, `ProbeHost`, `Tray`, their runs and first proofs (done).
2. `Scan` with its operator modules, `Lifetime`, their runs (done).
3. The proofs of `Lifetime`'s safety, and of `PartialNeverClean` and `VerdictWasTrueOnce` (done).
4. Every other safety property: the feed and its refinement, `ReadersBounded`, `NoCallbackAfterStop`,
   and what a sample and a coverage report say (done).
5. What `one_terminal` leaves standing of a feed's end: in `SessionEndSound` and `CollectorsEndStands`,
   proved (done).
6. Next: lemmas on `Signals` (keys and tiers) and `Coverage` stated for every argument.
