------------------------------- MODULE Session -------------------------------
(***************************************************************************)
(* One run of cp-agent (supervisor/cmd/cp-agent/main.go): the consent gate, *)
(* the probe's start, the sampling goroutine ("the ticker"), the goroutine  *)
(* that closes the window, the candidate's ways to stop, and the exit.      *)
(*                                                                          *)
(* What is written to the sink is the sequence `sink`; everything the agent *)
(* promises a consumer of the feed is a property of that sequence.          *)
(***************************************************************************)
EXTENDS Naturals, Sequences

CONSTANTS
    MaxSeq,         \* bound: no periodic scan begins once seq has reached it
    MaxSinkFaults   \* bound: how many WriteRaw calls may report an error

ASSUME BoundsAssumption == MaxSeq \in Nat /\ MaxSinkFaults \in Nat

VARIABLES
    main,           \* where func main is
    tick,           \* where the sampling goroutine is
    stopped,        \* the channel `stopped` has been closed
    collectorEnded, \* which side closed it
    quit,           \* the mirror's message loop has been told to end
    pending,        \* seqs of the readings dispatched to the window, not yet drawn
    shown,          \* seqs of the readings the window has drawn
    seq,            \* the shared message counter
    sink,           \* the messages in the sink file, in order
    faults,         \* WriteRaw errors so far
    host,           \* the Host in the hostHolder
    gen,            \* how many Hosts the holder has held
    probes,         \* probe processes started and not yet closed
    n,              \* the seq of the call the ticker is making
    lastSampleSeq,
    attempt         \* which of restartProbe's attempts is being made

sessionVars == <<stopped, collectorEnded>>
uiVars      == <<quit, pending, shown>>
feedVars    == <<seq, sink, faults>>
probeVars   == <<host, gen, probes>>
tickVars    == <<n, lastSampleSeq, attempt>>
vars == <<main, tick, sessionVars, uiVars, feedVars, probeVars, tickVars>>

-----------------------------------------------------------------------------
(* The messages. The two forms of collector_error are told apart by their   *)
(* kind. `from` and `to` are gap_declared's bounds and coverage_changed's    *)
(* reference; `gen` records which Host was current, for the properties only. *)

LifecycleKinds == {"consent_granted", "consent_declined", "recovered_error",
                   "fatal_error", "gap_declared", "coverage_changed",
                   "session_ended", "candidate_quit"}
Kinds         == LifecycleKinds \cup {"coverage", "sample"}
TerminalKinds == {"consent_declined", "session_ended", "candidate_quit"}

Message == [kind : Kinds, seq : Nat, gen : Nat, from : Nat, to : Nat]

Msg(k, s, f, t) == [kind |-> k, seq |-> s, gen |-> gen, from |-> f, to |-> t]

Attempts == 3   \* len(delays) in restartProbe

-----------------------------------------------------------------------------
(* sink.WriteRaw: the line is written and synced; or Write fails; or Write  *)
(* succeeds and Sync reports an error, with the line in the file.           *)

Written(m)  == sink' = Append(sink, m) /\ UNCHANGED faults
Fault       == faults < MaxSinkFaults /\ faults' = faults + 1
Lost        == Fault /\ UNCHANGED sink
Unsynced(m) == Fault /\ sink' = Append(sink, m)

\* Mutant of WriteIgnoringError: a buffered line counts as written.
BufferedWrite(m) == Written(m) \/ UNCHANGED <<sink, faults>>

\* A caller that drops the error: an unsynced line is then just a written one.
WriteIgnoringError(m) == Written(m) \/ Lost

\* WriteValue(..., seq.Add(1), ...). No other goroutine allocates or writes
\* between the two: the properties below fail if one could.
Emit(k, f, t) == seq' = seq + 1 /\ WriteIgnoringError(Msg(k, seq + 1, f, t))

\* Mutant of CloseSession: without the sync.Once.
CloseWithoutOnce(collectorInitiated) ==
    stopped' = TRUE /\ collectorEnded' = collectorInitiated

\* closeSession: sync.Once, so the first reason is the one that stands.
CloseSession(collectorInitiated) ==
    /\ stopped' = TRUE
    /\ collectorEnded' = IF stopped THEN collectorEnded ELSE collectorInitiated

\* Mutant of CloseHeldHost: without the `closed` check.
CloseTwice == host' = "closed" /\ probes' = probes - 1 /\ UNCHANGED gen

\* Host.Close: idempotent, kills the process and waits for it.
CloseHeldHost ==
    /\ host' = "closed"
    /\ probes' = IF host = "open" THEN probes - 1 ELSE probes
    /\ UNCHANGED gen

\* The call the ticker is making holds Host.mu of the held Host.
HostBusy == tick \in {"warm", "scan", "recover"}

-----------------------------------------------------------------------------
Init ==
    /\ main = "consent" /\ tick = "none"
    /\ stopped = FALSE /\ collectorEnded = FALSE
    /\ quit = FALSE /\ pending = {} /\ shown = {}
    /\ seq = 0 /\ sink = <<>> /\ faults = 0
    /\ host = "none" /\ gen = 0 /\ probes = 0
    /\ n = 0 /\ lastSampleSeq = 0 /\ attempt = 0

(* func main, up to the mirror *)

\* AskConsent returned Declined: an explicit decline, or the window was closed.
ConsentDeclined ==
    /\ main = "consent"
    /\ Emit("consent_declined", 0, 0)
    /\ main' = "destroy"
    /\ UNCHANGED <<tick, sessionVars, uiVars, probeVars, tickVars>>

ConsentGranted ==
    /\ main = "consent"
    /\ Emit("consent_granted", 0, 0)
    /\ main' = "spawn"
    /\ UNCHANGED <<tick, sessionVars, uiVars, probeVars, tickVars>>

\* resolveProbePath or probehost.Start fails.
FirstStartFails ==
    /\ main = "spawn"
    /\ main' = "fatal"
    /\ UNCHANGED <<tick, sessionVars, uiVars, feedVars, probeVars, tickVars>>

FirstStart ==
    /\ main = "spawn"
    /\ main' = "ping"
    /\ host' = "open" /\ gen' = gen + 1 /\ probes' = probes + 1
    /\ UNCHANGED <<tick, sessionVars, uiVars, feedVars, tickVars>>

FirstPing ==
    /\ main = "ping"
    /\ main' \in {"coverage", "fatal"}
    /\ UNCHANGED <<tick, sessionVars, uiVars, feedVars, probeVars, tickVars>>

FirstCoverage ==
    /\ main = "coverage"
    /\ seq' = seq + 1
    /\ Written(Msg("coverage", seq + 1, 0, 0))
    /\ main' = "mirror"
    /\ UNCHANGED <<tick, sessionVars, uiVars, probeVars, tickVars>>

\* Mutant of FirstCoverageFails: the error is logged, as after a restart.
FirstCoverageOptional ==
    /\ main = "coverage"
    /\ seq' = seq + 1
    /\ main' = "mirror"
    /\ UNCHANGED <<sink, faults, tick, sessionVars, uiVars, probeVars, tickVars>>

\* The probe did not answer, or the sink refused the report.
FirstCoverageFails ==
    /\ main = "coverage"
    /\ seq' = seq + 1
    /\ \/ UNCHANGED <<sink, faults>>
       \/ Lost
       \/ Unsynced(Msg("coverage", seq + 1, 0, 0))
    /\ main' = "fatal"
    /\ UNCHANGED <<tick, sessionVars, uiVars, probeVars, tickVars>>

\* ShowMirror binds stopMonitoring, StartTray registers the tray's callbacks.
\* A tray that failed to start is one that never calls back.
OpenMirror ==
    /\ main = "mirror"
    /\ main' = "launch"
    /\ UNCHANGED <<tick, sessionVars, uiVars, feedVars, probeVars, tickVars>>

\* ShowCoverage, then the two goroutines; main goes on to mirror.Run.
Launch ==
    /\ main = "launch"
    /\ pending' = pending \cup {seq}
    /\ main' = "run" /\ tick' = "start"
    /\ UNCHANGED <<sessionVars, quit, shown, feedVars, probeVars, tickVars>>

-----------------------------------------------------------------------------
(* The window's thread, inside mirror.Run *)

\* The dispatched evals are run by the message loop, and only there. After the
\* native close button there may be no page left for them to draw in; the
\* model lets the loop draw until it has ended.
Draw ==
    /\ main = "run" /\ pending # {}
    /\ shown' = shown \cup pending /\ pending' = {}
    /\ UNCHANGED <<main, tick, sessionVars, quit, feedVars, probeVars, tickVars>>

\* "Stop monitoring" in the page: onStop, then Terminate.
StopClick ==
    /\ main = "run" /\ ~quit
    /\ CloseSession(FALSE)
    /\ quit' = TRUE
    /\ UNCHANGED <<main, tick, pending, shown, feedVars, probeVars, tickVars>>

\* The native close button ends the loop without going through onStop.
WindowClosed ==
    /\ main = "run" /\ ~quit
    /\ quit' = TRUE
    /\ UNCHANGED <<main, tick, sessionVars, pending, shown, feedVars, probeVars, tickVars>>

\* onStop as the tray's own thread would call it, until tray.Stop has returned.
\* Module Tray shows that no menu opens to pick it from; the session allows for
\* a tray that works.
TrayStop ==
    /\ main \in {"launch", "run", "wait", "terminal", "traystop"}
    /\ ~stopped
    /\ CloseSession(FALSE)
    /\ UNCHANGED <<main, tick, uiVars, feedVars, probeVars, tickVars>>

\* Mutant of Closer: started for the candidate's stop only.
CloserForCandidate ==
    /\ tick # "none" /\ stopped /\ ~quit /\ ~collectorEnded
    /\ quit' = TRUE
    /\ UNCHANGED <<main, tick, sessionVars, pending, shown, feedVars, probeVars, tickVars>>

\* The goroutine that waits for `stopped` and calls mirror.Close.
Closer ==
    /\ tick # "none" /\ stopped /\ ~quit
    /\ quit' = TRUE
    /\ UNCHANGED <<main, tick, sessionVars, pending, shown, feedVars, probeVars, tickVars>>

-----------------------------------------------------------------------------
(* func main, after the mirror *)

RunReturns ==
    /\ main = "run" /\ quit
    /\ CloseSession(FALSE)
    /\ main' = "wait"
    /\ UNCHANGED <<tick, uiVars, feedVars, probeVars, tickVars>>

\* Mutant of TickerDone: main does not wait, as it once did not.
NoWait == TRUE

\* main receives from tickerDone.
TickerDone == tick = "done"

AwaitTicker ==
    /\ main = "wait" /\ TickerDone
    /\ main' = "terminal"
    /\ UNCHANGED <<tick, sessionVars, uiVars, feedVars, probeVars, tickVars>>

\* Mutant of CandidateQuit: written whoever ended the session.
AlwaysQuit ==
    /\ main = "terminal"
    /\ Emit("candidate_quit", 0, 0)
    /\ main' = "traystop"
    /\ UNCHANGED <<tick, sessionVars, uiVars, probeVars, tickVars>>

CandidateQuit ==
    /\ main = "terminal" /\ ~collectorEnded
    /\ Emit("candidate_quit", 0, 0)
    /\ main' = "traystop"
    /\ UNCHANGED <<tick, sessionVars, uiVars, probeVars, tickVars>>

NoCandidateQuit ==
    /\ main = "terminal" /\ collectorEnded
    /\ main' = "traystop"
    /\ UNCHANGED <<tick, sessionVars, uiVars, feedVars, probeVars, tickVars>>

\* The deferred calls, last registered first: tray.Stop, hh.closeCurrent,
\* then app.Destroy, out.Close and releaseInstance.
TrayStopped ==
    /\ main = "traystop"
    /\ main' = "closehost"
    /\ UNCHANGED <<tick, sessionVars, uiVars, feedVars, probeVars, tickVars>>

CloseCurrent ==
    /\ main = "closehost" /\ ~HostBusy
    /\ CloseHeldHost
    /\ main' = "destroy"
    /\ UNCHANGED <<tick, sessionVars, uiVars, feedVars, tickVars>>

Exit ==
    /\ main = "destroy"
    /\ main' = "exited"
    /\ UNCHANGED <<tick, sessionVars, uiVars, feedVars, probeVars, tickVars>>

-----------------------------------------------------------------------------
(* The sampling goroutine *)

\* `stopped` is seen before the warm-up, or at the select. When a tick is
\* also ready Go's select may choose either.
StopSeen ==
    /\ tick \in {"start", "select"} /\ stopped
    /\ tick' = "done"
    /\ UNCHANGED <<main, sessionVars, uiVars, feedVars, probeVars, tickVars>>

\* warmUpScan begins: at the start unless already stopped, and after a restart.
WarmUp ==
    /\ \/ tick = "start" /\ ~stopped
       \/ tick = "rewarm"
    /\ seq' = seq + 1 /\ n' = seq + 1
    /\ tick' = "warm"
    /\ UNCHANGED <<main, sessionVars, uiVars, sink, faults, probeVars, lastSampleSeq, attempt>>

WarmUpFails ==
    /\ tick = "warm"
    /\ tick' = "select"
    /\ UNCHANGED <<main, sessionVars, uiVars, feedVars, probeVars, tickVars>>

\* A tick: MaxSeq bounds how many are explored.
Tick ==
    /\ tick = "select" /\ seq < MaxSeq
    /\ seq' = seq + 1 /\ n' = seq + 1
    /\ tick' = "scan"
    /\ UNCHANGED <<main, sessionVars, uiVars, sink, faults, probeVars, lastSampleSeq, attempt>>

\* The envelope is written whether it came from the warm-up or from a tick.
Sampled ==
    /\ tick \in {"warm", "scan"} /\ host = "open"
    /\ WriteIgnoringError(Msg("sample", n, 0, 0))
    /\ tick' = "show"
    /\ UNCHANGED <<main, sessionVars, uiVars, seq, probeVars, tickVars>>

\* Mutant of ShowSample: the last sample is not remembered.
ShowAndForget ==
    /\ tick = "show"
    /\ pending' = pending \cup {n}
    /\ tick' = "select"
    /\ UNCHANGED <<main, sessionVars, quit, shown, feedVars, probeVars, tickVars>>

ShowSample ==
    /\ tick = "show"
    /\ pending' = pending \cup {n}
    /\ lastSampleSeq' = n
    /\ tick' = "select"
    /\ UNCHANGED <<main, sessionVars, quit, shown, feedVars, probeVars, n, attempt>>

\* A periodic scan failed: the Host is closed before another is started.
ScanFails ==
    /\ tick = "scan"
    /\ CloseHeldHost
    /\ attempt' = 1
    /\ tick' = "restart"
    /\ UNCHANGED <<main, sessionVars, uiVars, feedVars, n, lastSampleSeq>>

\* Mutant of NextAttempt: the attempts are not counted.
TryForEver == tick' = "restart" /\ UNCHANGED attempt

\* restartProbe gives up after its last attempt.
NextAttempt ==
    \/ attempt < Attempts /\ attempt' = attempt + 1 /\ tick' = "restart"
    \/ attempt >= Attempts /\ tick' = "giveup" /\ UNCHANGED attempt

RestartFails ==
    /\ tick = "restart"
    /\ NextAttempt
    /\ UNCHANGED <<main, sessionVars, uiVars, feedVars, probeVars, n, lastSampleSeq>>

Restart ==
    /\ tick = "restart"
    /\ probes' = probes + 1
    /\ tick' = "reping"
    /\ UNCHANGED <<main, sessionVars, uiVars, feedVars, host, gen, tickVars>>

\* Mutant of RepingFails: the probe that did not answer is not closed.
LeaveUnanswering ==
    /\ tick = "reping"
    /\ NextAttempt
    /\ UNCHANGED <<main, sessionVars, uiVars, feedVars, probeVars, n, lastSampleSeq>>

RepingFails ==
    /\ tick = "reping"
    /\ probes' = probes - 1
    /\ NextAttempt
    /\ UNCHANGED <<main, sessionVars, uiVars, feedVars, host, gen, n, lastSampleSeq>>

\* Mutant of Restarted: the restart is taken for something internal.
RestartedQuietly ==
    /\ tick = "reping"
    /\ host' = "open" /\ gen' = gen + 1
    /\ tick' = "recover"
    /\ UNCHANGED <<main, sessionVars, uiVars, feedVars, probes, tickVars>>

\* restartProbe returns the new Host and hh.swap makes it current.
Restarted ==
    /\ tick = "reping"
    /\ host' = "open" /\ gen' = gen + 1
    /\ tick' = "error"
    /\ UNCHANGED <<main, sessionVars, uiVars, feedVars, probes, tickVars>>

DeclareError ==
    /\ tick = "error"
    /\ Emit("recovered_error", 0, 0)
    /\ tick' = "gap"
    /\ UNCHANGED <<main, sessionVars, uiVars, probeVars, tickVars>>

DeclareGap ==
    /\ tick = "gap"
    /\ Emit("gap_declared", lastSampleSeq, n)
    /\ tick' = "recover"
    /\ UNCHANGED <<main, sessionVars, uiVars, probeVars, tickVars>>

\* The new probe's coverage: covSeq (held in n, no longer needed) is allocated,
\* the report asked for and written. Only a report that was written is shown and announced.
Recover ==
    /\ tick = "recover" /\ host = "open"
    /\ seq' = seq + 1 /\ n' = seq + 1
    /\ Written(Msg("coverage", seq + 1, 0, 0))
    /\ tick' = "announce"
    /\ UNCHANGED <<main, sessionVars, uiVars, probeVars, lastSampleSeq, attempt>>

\* Mutant of RecoverFails: announced although it was not written.
AnnounceAnyway ==
    /\ tick = "recover"
    /\ seq' = seq + 1 /\ n' = seq + 1
    /\ tick' = "announce"
    /\ UNCHANGED <<sink, faults, main, sessionVars, uiVars, probeVars, lastSampleSeq, attempt>>

RecoverFails ==
    /\ tick = "recover"
    /\ seq' = seq + 1 /\ n' = seq + 1
    /\ \/ UNCHANGED <<sink, faults>>
       \/ host = "open" /\ (Lost \/ Unsynced(Msg("coverage", seq + 1, 0, 0)))
    /\ tick' = "rewarm"
    /\ UNCHANGED <<main, sessionVars, uiVars, probeVars, lastSampleSeq, attempt>>

\* ShowCoverage and coverage_changed, which names the report by its seq.
Announce ==
    /\ tick = "announce"
    /\ pending' = pending \cup {n}
    /\ Emit("coverage_changed", n, 0)
    /\ tick' = "rewarm"
    /\ UNCHANGED <<main, sessionVars, quit, shown, probeVars, tickVars>>

\* Mutant of GiveUp: the collector's error is left out.
GiveUpSilently ==
    /\ tick = "giveup"
    /\ Emit("session_ended", 0, 0)
    /\ tick' = "closing"
    /\ UNCHANGED <<main, sessionVars, uiVars, probeVars, tickVars>>

GiveUp ==
    /\ tick = "giveup"
    /\ Emit("fatal_error", 0, 0)
    /\ tick' = "ended"
    /\ UNCHANGED <<main, sessionVars, uiVars, probeVars, tickVars>>

SessionEnded ==
    /\ tick = "ended"
    /\ Emit("session_ended", 0, 0)
    /\ tick' = "closing"
    /\ UNCHANGED <<main, sessionVars, uiVars, probeVars, tickVars>>

\* closeSession(true), and the goroutine returns, closing tickerDone.
CollectorEnds ==
    /\ tick = "closing"
    /\ CloseSession(TRUE)
    /\ tick' = "done"
    /\ UNCHANGED <<main, uiVars, feedVars, probeVars, tickVars>>

-----------------------------------------------------------------------------
Running == main \notin {"exited", "fatal"}

Startup  == ConsentDeclined \/ ConsentGranted \/ FirstStartFails \/ FirstStart
            \/ FirstPing \/ FirstCoverage \/ FirstCoverageFails \/ OpenMirror \/ Launch
Window   == Draw \/ StopClick \/ WindowClosed \/ TrayStop \/ Closer
Shutdown == RunReturns \/ AwaitTicker \/ CandidateQuit \/ NoCandidateQuit
            \/ TrayStopped \/ CloseCurrent \/ Exit
Scanning == StopSeen \/ WarmUp \/ WarmUpFails \/ Tick \/ Sampled \/ ShowSample
Recovery == ScanFails \/ RestartFails \/ Restart \/ RepingFails \/ Restarted
            \/ DeclareError \/ DeclareGap \/ Recover \/ RecoverFails \/ Announce
            \/ GiveUp \/ SessionEnded \/ CollectorEnds
Ticker   == Running /\ (Scanning \/ Recovery)

\* The process is gone: nothing more happens.
Terminated == ~Running /\ UNCHANGED vars

Next == Startup \/ Window \/ Shutdown \/ Ticker \/ Terminated

Spec == Init /\ [][Next]_vars

\* Goroutines are scheduled and every probe call is answered or times out, so
\* each thread that can always step does. The candidate owes nothing, and
\* tray.Stop is not assumed to return. Go's select chooses at random among
\* ready cases, so `stopped` cannot lose to the ticker for ever: SF.
FairSpec ==
    /\ Spec
    /\ WF_vars(Launch \/ RunReturns \/ AwaitTicker \/ CandidateQuit \/ NoCandidateQuit)
    /\ WF_vars(Closer)
    /\ WF_vars(Ticker)
    /\ SF_vars(StopSeen)

=============================================================================
