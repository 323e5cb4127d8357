------------------------------ MODULE FeedProofs ------------------------------
(***************************************************************************)
(* Proofs about what a session writes, for every number of scans, restarts *)
(* and refused writes. A step of a session leaves the sink as it is, or    *)
(* appends one message of which the control state says what it may be.     *)
(* StepFacts proves that once, action by action, and the properties of the *)
(* feed, and the refinement of module Feed, follow from it.                *)
(***************************************************************************)
EXTENDS SessionProofs

-----------------------------------------------------------------------------
(* What the control state says of the feed *)

\* Sampling has begun or is about to, so a coverage report was written.
InSession == main \in {"mirror", "launch"} \/ tick # "none"

\* The ticker holds a number n it allocated for a scan.
Held == tick \in {"warm", "scan", "show", "restart", "reping", "error", "gap"}

\* A restarted probe is current and the gap before it is not yet declared.
Undeclared == tick \in {"error", "gap"}

\* No sample has a number above this one.
Newest == IF tick = "show" THEN n ELSE lastSampleSeq

\* main has got past the session's last event.
Leaving == main \in {"traystop", "closehost", "destroy", "exited"}

\* Consent was refused; a terminal event may have been written; candidate_quit
\* may have been.
Declined == tick = "none" /\ main \in {"destroy", "exited"}
Over     == Declined \/ tick \in {"closing", "done"}
Quitted  == tick = "done" /\ Leaving /\ ~collectorEnded

\* The readings the window draws, will draw, or is about to be given, and the
\* kinds of message that bring one.
Handed       == shown \cup pending \cup InHand
IsReading(k) == k \in {"coverage", "sample"}

\* The kinds after which sampling goes on.
Steady == {"coverage", "sample", "gap_declared", "coverage_changed"}

\* While no write has failed, a message of kind k can be the last in the sink
\* ("nothing": the sink is empty).
Fits(k) ==
    /\ main = "consent" => k = "nothing"
    /\ main \in {"spawn", "ping", "coverage"} => k = "consent_granted"
    /\ main \in {"mirror", "launch"} => k = "coverage"
    /\ tick \in {"start", "warm", "select", "scan", "restart", "reping", "error",
                 "giveup", "rewarm"} => k \in Steady
    /\ tick = "show"     => k = "sample"
    /\ tick = "gap"      => k = "recovered_error"
    /\ tick = "recover"  => k = "gap_declared"
    /\ tick = "announce" => k = "coverage"
    /\ tick = "ended"    => k = "fatal_error"
    /\ tick = "closing" \/ (tick = "done" /\ collectorEnded) => k = "session_ended"
    /\ tick = "done" /\ ~Leaving => k \in Steady \cup {"session_ended"}
    /\ Quitted => k = "candidate_quit"
    /\ Declined => k = "consent_declined"

\* Who sends a message m, and with which numbers.
Sender(m) ==
    /\ m.kind \in {"consent_granted", "consent_declined"} => main = "consent"
    /\ m.kind = "coverage"         => main = "coverage" \/ tick = "recover"
    /\ m.kind = "sample"           => tick \in Calling
    /\ m.kind = "recovered_error"  => tick = "error"
    /\ m.kind = "gap_declared"     => tick = "gap" /\ m.from = lastSampleSeq /\ m.to = n
    /\ m.kind = "coverage_changed" => tick = "announce" /\ m.from = n
    /\ m.kind = "fatal_error"      => tick = "giveup"
    /\ m.kind = "session_ended"    => tick = "ended"
    /\ m.kind = "candidate_quit"   => main = "terminal" /\ tick = "done" /\ ~collectorEnded
    /\ m.seq = IF m.kind = "sample" THEN n ELSE seq + 1
    /\ m.gen = gen

\* A step that writes nothing. While no write has failed nothing was to be
\* written either.
Silent ==
    /\ sink' = sink
    /\ InSession' => InSession
    /\ tick' = "announce" => tick = "announce" /\ n' = n
    /\ faults' = 0 =>
         /\ \A k : Fits(k) => Fits(k)'
         /\ Newest' = Newest
         /\ Handed' = Handed
         /\ tick' = "none" \/ Undeclared' \/ (gen' = gen /\ ~Undeclared)

\* A step that writes m.
Sending(m) ==
    /\ m \in Message /\ sink' = Append(sink, m)
    /\ Sender(m)
    /\ InSession' => InSession \/ m.kind = "coverage"
    /\ tick' = "announce" => m.kind = "coverage" /\ m.seq = n'
    /\ m.kind = "sample" => tick' = "show" /\ n' = n
    /\ m.kind \in TerminalKinds => Over'
    /\ m.kind = "candidate_quit" => Quitted'
    /\ m.kind = "consent_declined" => Declined'
    /\ gen' = gen
    /\ Undeclared => Undeclared' \/ m.kind = "gap_declared"
    /\ faults' = 0 =>
         /\ Fits(m.kind)'
         /\ m.kind # "sample" => Newest' = Newest
         /\ Handed' = IF IsReading(m.kind) THEN Handed \cup {m.seq} ELSE Handed

\* What every step does to the counters and, once the session is over, to the
\* control state.
Always ==
    /\ seq' \in Nat /\ n' \in Nat /\ seq <= seq'
    /\ faults' = 0 => faults = 0
    /\ tick' = "none" => tick = "none"
    /\ Over => Over'
    /\ Quitted => Quitted'
    /\ Declined => Declined'
    /\ collectorEnded' => collectorEnded \/ tick = "closing"
    /\ lastSampleSeq' \in {lastSampleSeq, n}
    /\ Held' => lastSampleSeq' = lastSampleSeq /\ ((Held /\ n' = n) \/ n' = seq + 1)
    /\ Newest' = Newest \/ (tick \in Calling /\ Newest' = n)

Step == Always /\ (Silent \/ \E m \in Message : Sending(m))

-----------------------------------------------------------------------------
(* The session's outcome *)

\* The collector's reason is there only once the ticker has given it.
EndInv == collectorEnded => tick = "done" /\ stopped

\* EndInv is inductive: only CollectorEnds gives the collector's reason, it is
\* the ticker's last step, and no later stop takes its place.
LEMMA EndInvNext == TInv /\ EndInv /\ [Next]_vars => EndInv'
<1> SUFFICES ASSUME TInv, EndInv, [Next]_vars PROVE EndInv'
  OBVIOUS
<1> USE DEF TInv, TypeOK, CInv, StartupPcs, EndInv, sessionVars, tickVars
<1>1. CASE UNCHANGED vars
  BY <1>1 DEF vars
<1>2. CASE Startup
  BY <1>2 DEF Startup, ConsentDeclined, ConsentGranted, FirstStartFails, FirstStart,
         FirstPing, FirstCoverage, FirstCoverageFails, OpenMirror, Launch
<1>3. CASE Window
  BY <1>3 DEF Window, Draw, StopClick, WindowClosed, TrayStop, Closer, CloseSession
<1>4. CASE Shutdown
  BY <1>4 DEF Shutdown, RunReturns, AwaitTicker, CandidateQuit, NoCandidateQuit,
         TrayStopped, CloseCurrent, Exit, CloseSession
<1>5. CASE Scanning
  BY <1>5 DEF Scanning, StopSeen, WarmUp, WarmUpFails, Tick, Sampled, ShowSample
<1>6. CASE Recovery
  BY <1>6 DEF Recovery, ScanFails, RestartFails, Restart, RepingFails, Restarted,
         DeclareError, DeclareGap, Recover, RecoverFails, Announce, GiveUp,
         SessionEnded, CollectorEnds, CloseSession, NextAttempt
<1> QED
  BY <1>1, <1>2, <1>3, <1>4, <1>5, <1>6 DEF Next, Ticker, Terminated

\* The reason of every reachable state was given by the side it names.
LEMMA EndInvariant == Spec => []EndInv
<1>1. Init => EndInv
  BY DEF Init, EndInv
<1>2. QED
  BY <1>1, EndInvNext, ControlInvariant, PTL DEF Spec

\* closeOnce: a session that is ended keeps its first reason.
LEMMA ReasonStands == stopped /\ [Next]_vars => UNCHANGED sessionVars
<1> SUFFICES ASSUME [Next]_vars, stopped PROVE UNCHANGED sessionVars
  OBVIOUS
<1>1. CASE UNCHANGED vars
  BY <1>1 DEF vars
<1>2. CASE Startup
  BY <1>2 DEF Startup, ConsentDeclined, ConsentGranted, FirstStartFails, FirstStart,
         FirstPing, FirstCoverage, FirstCoverageFails, OpenMirror, Launch
<1>3. CASE Window
  BY <1>3 DEF Window, Draw, StopClick, WindowClosed, TrayStop, Closer, CloseSession, sessionVars
<1>4. CASE Shutdown
  BY <1>4 DEF Shutdown, RunReturns, AwaitTicker, CandidateQuit, NoCandidateQuit,
         TrayStopped, CloseCurrent, Exit, CloseSession, sessionVars
<1>5. CASE Scanning
  BY <1>5 DEF Scanning, StopSeen, WarmUp, WarmUpFails, Tick, Sampled, ShowSample
<1>6. CASE Recovery
  BY <1>6 DEF Recovery, ScanFails, RestartFails, Restart, RepingFails, Restarted,
         DeclareError, DeclareGap, Recover, RecoverFails, Announce, GiveUp,
         SessionEnded, CollectorEnds, CloseSession, sessionVars
<1> QED
  BY <1>1, <1>2, <1>3, <1>4, <1>5, <1>6 DEF Next, Ticker, Terminated

-----------------------------------------------------------------------------
(* Every step is a Step *)

\* main's steps up to the mirror: the ticker does not run, so main alone writes.
LEMMA StepFactsStartup == TInv /\ EndInv /\ Startup => Step
<1> SUFFICES ASSUME TInv, EndInv, Startup PROVE Step
  OBVIOUS
<1> USE BoundsAssumption DEF TInv, TypeOK, CInv, StartupPcs, EndInv, Step, Always, Silent, Sending,
        Sender, Fits, InSession, Held, Undeclared, Newest, Leaving, Over, Quitted, Declined, Handed, InHand, IsReading,
        Steady, Calling, TerminalKinds, sessionVars, uiVars, feedVars, probeVars, tickVars
<1>k. /\ "consent_declined" \in Kinds
      /\ "consent_granted" \in Kinds
      /\ "coverage" \in Kinds
  BY DEF Kinds, LifecycleKinds
<1>ConsentDeclined. CASE ConsentDeclined
  <2> DEFINE m == Msg("consent_declined", seq + 1, 0, 0)
  <2>1. m \in Message /\ m.kind = "consent_declined" /\ m.seq = seq + 1 /\ m.gen = gen
    BY <1>k, MsgType DEF Msg
  <2>2. CASE sink' = sink
    BY <1>ConsentDeclined, <2>2 DEF ConsentDeclined, Emit, WriteIgnoringError, Written, Lost, Fault
  <2>3. CASE sink' = Append(sink, m)
    BY <1>ConsentDeclined, <2>1, <2>3 DEF ConsentDeclined, Emit, WriteIgnoringError, Written, Lost, Fault
  <2>4. QED
    BY <1>ConsentDeclined, <2>1, <2>2, <2>3 DEF ConsentDeclined, Emit, WriteIgnoringError, Written, Lost, Fault
<1>ConsentGranted. CASE ConsentGranted
  <2> DEFINE m == Msg("consent_granted", seq + 1, 0, 0)
  <2>1. m \in Message /\ m.kind = "consent_granted" /\ m.seq = seq + 1 /\ m.gen = gen
    BY <1>k, MsgType DEF Msg
  <2>2. CASE sink' = sink
    BY <1>ConsentGranted, <2>2 DEF ConsentGranted, Emit, WriteIgnoringError, Written, Lost, Fault
  <2>3. CASE sink' = Append(sink, m)
    BY <1>ConsentGranted, <2>1, <2>3 DEF ConsentGranted, Emit, WriteIgnoringError, Written, Lost, Fault
  <2>4. QED
    BY <1>ConsentGranted, <2>1, <2>2, <2>3 DEF ConsentGranted, Emit, WriteIgnoringError, Written, Lost, Fault
<1>FirstStartFails. CASE FirstStartFails
  BY <1>FirstStartFails DEF FirstStartFails
<1>FirstStart. CASE FirstStart
  BY <1>FirstStart DEF FirstStart
<1>FirstPing. CASE FirstPing
  BY <1>FirstPing DEF FirstPing
<1>FirstCoverage. CASE FirstCoverage
  <2> DEFINE m == Msg("coverage", seq + 1, 0, 0)
  <2>1. m \in Message /\ m.kind = "coverage" /\ m.seq = seq + 1 /\ m.gen = gen
    BY <1>k, MsgType DEF Msg
  <2>2. CASE sink' = sink
    BY <1>FirstCoverage, <2>2 DEF FirstCoverage, Written
  <2>3. CASE sink' = Append(sink, m)
    BY <1>FirstCoverage, <2>1, <2>3 DEF FirstCoverage, Written
  <2>4. QED
    BY <1>FirstCoverage, <2>1, <2>2, <2>3 DEF FirstCoverage, Written
<1>FirstCoverageFails. CASE FirstCoverageFails
  <2> DEFINE m == Msg("coverage", seq + 1, 0, 0)
  <2>1. m \in Message /\ m.kind = "coverage" /\ m.seq = seq + 1 /\ m.gen = gen
    BY <1>k, MsgType DEF Msg
  <2>2. CASE sink' = sink
    BY <1>FirstCoverageFails, <2>2 DEF FirstCoverageFails, Lost, Unsynced, Fault
  <2>3. CASE sink' = Append(sink, m)
    BY <1>FirstCoverageFails, <2>1, <2>3 DEF FirstCoverageFails, Lost, Unsynced, Fault
  <2>4. QED
    BY <1>FirstCoverageFails, <2>1, <2>2, <2>3 DEF FirstCoverageFails, Lost, Unsynced, Fault
<1>OpenMirror. CASE OpenMirror
  BY <1>OpenMirror DEF OpenMirror
<1>Launch. CASE Launch
  BY <1>Launch DEF Launch
<1> QED
  BY <1>ConsentDeclined, <1>ConsentGranted, <1>FirstStartFails, <1>FirstStart, <1>FirstPing, <1>FirstCoverage, <1>FirstCoverageFails, <1>OpenMirror, <1>Launch DEF Startup

\* The window and the candidate write nothing; they may only end the session.
LEMMA StepFactsWindow == TInv /\ EndInv /\ Window => Step
<1> SUFFICES ASSUME TInv, EndInv, Window PROVE Step
  OBVIOUS
<1> USE BoundsAssumption DEF TInv, TypeOK, CInv, StartupPcs, EndInv, Step, Always, Silent, Sending,
        Sender, Fits, InSession, Held, Undeclared, Newest, Leaving, Over, Quitted, Declined, Handed, InHand, IsReading,
        Steady, Calling, TerminalKinds, sessionVars, uiVars, feedVars, probeVars, tickVars
<1>Draw. CASE Draw
  BY <1>Draw DEF Draw
<1>StopClick. CASE StopClick
  BY <1>StopClick DEF StopClick, CloseSession
<1>WindowClosed. CASE WindowClosed
  BY <1>WindowClosed DEF WindowClosed
<1>TrayStop. CASE TrayStop
  BY <1>TrayStop DEF TrayStop, CloseSession
<1>Closer. CASE Closer
  BY <1>Closer DEF Closer
<1> QED
  BY <1>Draw, <1>StopClick, <1>WindowClosed, <1>TrayStop, <1>Closer DEF Window

\* main's steps after the mirror: it writes only once the ticker is done.
LEMMA StepFactsShutdown == TInv /\ EndInv /\ Shutdown => Step
<1> SUFFICES ASSUME TInv, EndInv, Shutdown PROVE Step
  OBVIOUS
<1> USE BoundsAssumption DEF TInv, TypeOK, CInv, StartupPcs, EndInv, Step, Always, Silent, Sending,
        Sender, Fits, InSession, Held, Undeclared, Newest, Leaving, Over, Quitted, Declined, Handed, InHand, IsReading,
        Steady, Calling, TerminalKinds, sessionVars, uiVars, feedVars, probeVars, tickVars
<1>k. /\ "candidate_quit" \in Kinds
  BY DEF Kinds, LifecycleKinds
<1>RunReturns. CASE RunReturns
  BY <1>RunReturns DEF RunReturns, CloseSession
<1>AwaitTicker. CASE AwaitTicker
  BY <1>AwaitTicker DEF AwaitTicker, TickerDone
<1>CandidateQuit. CASE CandidateQuit
  <2> DEFINE m == Msg("candidate_quit", seq + 1, 0, 0)
  <2>1. m \in Message /\ m.kind = "candidate_quit" /\ m.seq = seq + 1 /\ m.gen = gen
    BY <1>k, MsgType DEF Msg
  <2>2. CASE sink' = sink
    BY <1>CandidateQuit, <2>2 DEF CandidateQuit, Emit, WriteIgnoringError, Written, Lost, Fault
  <2>3. CASE sink' = Append(sink, m)
    BY <1>CandidateQuit, <2>1, <2>3 DEF CandidateQuit, Emit, WriteIgnoringError, Written, Lost, Fault
  <2>4. QED
    BY <1>CandidateQuit, <2>1, <2>2, <2>3 DEF CandidateQuit, Emit, WriteIgnoringError, Written, Lost, Fault
<1>NoCandidateQuit. CASE NoCandidateQuit
  BY <1>NoCandidateQuit DEF NoCandidateQuit
<1>TrayStopped. CASE TrayStopped
  BY <1>TrayStopped DEF TrayStopped
<1>CloseCurrent. CASE CloseCurrent
  BY <1>CloseCurrent DEF CloseCurrent, CloseHeldHost
<1>Exit. CASE Exit
  BY <1>Exit DEF Exit
<1> QED
  BY <1>RunReturns, <1>AwaitTicker, <1>CandidateQuit, <1>NoCandidateQuit, <1>TrayStopped, <1>CloseCurrent, <1>Exit DEF Shutdown

\* The ticker's scans: the only samples, under the number allocated before.
LEMMA StepFactsScanning == TInv /\ EndInv /\ Scanning => Step
<1> SUFFICES ASSUME TInv, EndInv, Scanning PROVE Step
  OBVIOUS
<1> USE BoundsAssumption DEF TInv, TypeOK, CInv, StartupPcs, EndInv, Step, Always, Silent, Sending,
        Sender, Fits, InSession, Held, Undeclared, Newest, Leaving, Over, Quitted, Declined, Handed, InHand, IsReading,
        Steady, Calling, TerminalKinds, sessionVars, uiVars, feedVars, probeVars, tickVars
<1>k. /\ "sample" \in Kinds
  BY DEF Kinds, LifecycleKinds
<1>StopSeen. CASE StopSeen
  BY <1>StopSeen DEF StopSeen
<1>WarmUp. CASE WarmUp
  BY <1>WarmUp DEF WarmUp
<1>WarmUpFails. CASE WarmUpFails
  BY <1>WarmUpFails DEF WarmUpFails
<1>Tick. CASE Tick
  BY <1>Tick DEF Tick
<1>Sampled. CASE Sampled
  <2> DEFINE m == Msg("sample", n, 0, 0)
  <2>1. m \in Message /\ m.kind = "sample" /\ m.seq = n /\ m.gen = gen
    BY <1>k, MsgType DEF Msg
  <2>2. CASE sink' = sink
    BY <1>Sampled, <2>2 DEF Sampled, WriteIgnoringError, Written, Lost, Fault
  <2>3. CASE sink' = Append(sink, m)
    BY <1>Sampled, <2>1, <2>3 DEF Sampled, WriteIgnoringError, Written, Lost, Fault
  <2>4. QED
    BY <1>Sampled, <2>1, <2>2, <2>3 DEF Sampled, WriteIgnoringError, Written, Lost, Fault
<1>ShowSample. CASE ShowSample
  BY <1>ShowSample DEF ShowSample
<1> QED
  BY <1>StopSeen, <1>WarmUp, <1>WarmUpFails, <1>Tick, <1>Sampled, <1>ShowSample DEF Scanning

\* The ticker's restart of the probe and its end of the session.
LEMMA StepFactsRecovery == TInv /\ EndInv /\ Recovery => Step
<1> SUFFICES ASSUME TInv, EndInv, Recovery PROVE Step
  OBVIOUS
<1> USE BoundsAssumption DEF TInv, TypeOK, CInv, StartupPcs, EndInv, Step, Always, Silent, Sending,
        Sender, Fits, InSession, Held, Undeclared, Newest, Leaving, Over, Quitted, Declined, Handed, InHand, IsReading,
        Steady, Calling, TerminalKinds, sessionVars, uiVars, feedVars, probeVars, tickVars
<1>k. /\ "recovered_error" \in Kinds
      /\ "gap_declared" \in Kinds
      /\ "coverage" \in Kinds
      /\ "coverage_changed" \in Kinds
      /\ "fatal_error" \in Kinds
      /\ "session_ended" \in Kinds
  BY DEF Kinds, LifecycleKinds
<1>ScanFails. CASE ScanFails
  BY <1>ScanFails DEF ScanFails, CloseHeldHost
<1>RestartFails. CASE RestartFails
  BY <1>RestartFails DEF RestartFails, NextAttempt
<1>Restart. CASE Restart
  BY <1>Restart DEF Restart
<1>RepingFails. CASE RepingFails
  BY <1>RepingFails DEF RepingFails, NextAttempt
<1>Restarted. CASE Restarted
  BY <1>Restarted DEF Restarted
<1>DeclareError. CASE DeclareError
  <2> DEFINE m == Msg("recovered_error", seq + 1, 0, 0)
  <2>1. m \in Message /\ m.kind = "recovered_error" /\ m.seq = seq + 1 /\ m.gen = gen
    BY <1>k, MsgType DEF Msg
  <2>2. CASE sink' = sink
    BY <1>DeclareError, <2>2 DEF DeclareError, Emit, WriteIgnoringError, Written, Lost, Fault
  <2>3. CASE sink' = Append(sink, m)
    BY <1>DeclareError, <2>1, <2>3 DEF DeclareError, Emit, WriteIgnoringError, Written, Lost, Fault
  <2>4. QED
    BY <1>DeclareError, <2>1, <2>2, <2>3 DEF DeclareError, Emit, WriteIgnoringError, Written, Lost, Fault
<1>DeclareGap. CASE DeclareGap
  <2> DEFINE m == Msg("gap_declared", seq + 1, lastSampleSeq, n)
  <2>1. m \in Message /\ m.kind = "gap_declared" /\ m.seq = seq + 1 /\ m.gen = gen /\ m.from = lastSampleSeq /\ m.to = n
    BY <1>k, MsgType DEF Msg
  <2>2. CASE sink' = sink
    BY <1>DeclareGap, <2>2 DEF DeclareGap, Emit, WriteIgnoringError, Written, Lost, Fault
  <2>3. CASE sink' = Append(sink, m)
    BY <1>DeclareGap, <2>1, <2>3 DEF DeclareGap, Emit, WriteIgnoringError, Written, Lost, Fault
  <2>4. QED
    BY <1>DeclareGap, <2>1, <2>2, <2>3 DEF DeclareGap, Emit, WriteIgnoringError, Written, Lost, Fault
<1>Recover. CASE Recover
  <2> DEFINE m == Msg("coverage", seq + 1, 0, 0)
  <2>1. m \in Message /\ m.kind = "coverage" /\ m.seq = seq + 1 /\ m.gen = gen
    BY <1>k, MsgType DEF Msg
  <2>2. CASE sink' = sink
    BY <1>Recover, <2>2 DEF Recover, Written
  <2>3. CASE sink' = Append(sink, m)
    BY <1>Recover, <2>1, <2>3 DEF Recover, Written
  <2>4. QED
    BY <1>Recover, <2>1, <2>2, <2>3 DEF Recover, Written
<1>RecoverFails. CASE RecoverFails
  <2> DEFINE m == Msg("coverage", seq + 1, 0, 0)
  <2>1. m \in Message /\ m.kind = "coverage" /\ m.seq = seq + 1 /\ m.gen = gen
    BY <1>k, MsgType DEF Msg
  <2>2. CASE sink' = sink
    BY <1>RecoverFails, <2>2 DEF RecoverFails, Lost, Unsynced, Fault
  <2>3. CASE sink' = Append(sink, m)
    BY <1>RecoverFails, <2>1, <2>3 DEF RecoverFails, Lost, Unsynced, Fault
  <2>4. QED
    BY <1>RecoverFails, <2>1, <2>2, <2>3 DEF RecoverFails, Lost, Unsynced, Fault
<1>Announce. CASE Announce
  <2> DEFINE m == Msg("coverage_changed", seq + 1, n, 0)
  <2>1. m \in Message /\ m.kind = "coverage_changed" /\ m.seq = seq + 1 /\ m.gen = gen /\ m.from = n /\ m.to = 0
    BY <1>k, MsgType DEF Msg
  <2>2. CASE sink' = sink
    BY <1>Announce, <2>2 DEF Announce, Emit, WriteIgnoringError, Written, Lost, Fault
  <2>3. CASE sink' = Append(sink, m)
    BY <1>Announce, <2>1, <2>3 DEF Announce, Emit, WriteIgnoringError, Written, Lost, Fault
  <2>4. QED
    BY <1>Announce, <2>1, <2>2, <2>3 DEF Announce, Emit, WriteIgnoringError, Written, Lost, Fault
<1>GiveUp. CASE GiveUp
  <2> DEFINE m == Msg("fatal_error", seq + 1, 0, 0)
  <2>1. m \in Message /\ m.kind = "fatal_error" /\ m.seq = seq + 1 /\ m.gen = gen
    BY <1>k, MsgType DEF Msg
  <2>2. CASE sink' = sink
    BY <1>GiveUp, <2>2 DEF GiveUp, Emit, WriteIgnoringError, Written, Lost, Fault
  <2>3. CASE sink' = Append(sink, m)
    BY <1>GiveUp, <2>1, <2>3 DEF GiveUp, Emit, WriteIgnoringError, Written, Lost, Fault
  <2>4. QED
    BY <1>GiveUp, <2>1, <2>2, <2>3 DEF GiveUp, Emit, WriteIgnoringError, Written, Lost, Fault
<1>SessionEnded. CASE SessionEnded
  <2> DEFINE m == Msg("session_ended", seq + 1, 0, 0)
  <2>1. m \in Message /\ m.kind = "session_ended" /\ m.seq = seq + 1 /\ m.gen = gen
    BY <1>k, MsgType DEF Msg
  <2>2. CASE sink' = sink
    BY <1>SessionEnded, <2>2 DEF SessionEnded, Emit, WriteIgnoringError, Written, Lost, Fault
  <2>3. CASE sink' = Append(sink, m)
    BY <1>SessionEnded, <2>1, <2>3 DEF SessionEnded, Emit, WriteIgnoringError, Written, Lost, Fault
  <2>4. QED
    BY <1>SessionEnded, <2>1, <2>2, <2>3 DEF SessionEnded, Emit, WriteIgnoringError, Written, Lost, Fault
<1>CollectorEnds. CASE CollectorEnds
  BY <1>CollectorEnds DEF CollectorEnds, CloseSession
<1> QED
  BY <1>ScanFails, <1>RestartFails, <1>Restart, <1>RepingFails, <1>Restarted, <1>DeclareError, <1>DeclareGap, <1>Recover, <1>RecoverFails, <1>Announce, <1>GiveUp, <1>SessionEnded, <1>CollectorEnds DEF Recovery

\* Every step of a session keeps to the table.
LEMMA StepFacts == TInv /\ EndInv /\ [Next]_vars => Step
<1> SUFFICES ASSUME TInv, EndInv, [Next]_vars PROVE Step
  OBVIOUS
<1>1. CASE UNCHANGED vars
  BY <1>1 DEF vars, TInv, TypeOK, Step, Always, Silent, Fits, InSession, Held, Undeclared,
       Newest, Leaving, Over, Quitted, Declined, Handed, InHand, IsReading, Calling,
       sessionVars, uiVars, feedVars, probeVars, tickVars
<1>2. QED
  BY <1>1, StepFactsStartup, StepFactsWindow, StepFactsShutdown, StepFactsScanning,
     StepFactsRecovery DEF Next, Ticker, Terminated

\* What a session's proofs may assume of a state and of a step from it.
SInv == TInv /\ EndInv /\ OInv

\* Every reachable state satisfies it.
LEMMA SessionInvariant == Spec => []SInv
<1>1. Init => OInv
  BY DEF Init, OInv, SinkOrdered, Calling
<1>2. QED
  BY <1>1, OInvNext, ControlInvariant, EndInvariant, PTL DEF Spec, SInv

-----------------------------------------------------------------------------
(* Appending to the sink *)

\* A written message is the last of the sink, and nothing else has moved.
LEMMA Appended ==
    ASSUME TypeOK, NEW m \in Message, sink' = Append(sink, m)
    PROVE  /\ Len(sink) \in Nat /\ Len(sink') = Len(sink) + 1 /\ sink' # <<>>
           /\ DOMAIN sink = 1..Len(sink)
           /\ DOMAIN sink' = DOMAIN sink \cup {Len(sink) + 1}
           /\ sink'[Len(sink) + 1] = m
           /\ \A i \in DOMAIN sink :
                i \in Nat /\ i < Len(sink) + 1 /\ sink'[i] = sink[i] /\ sink[i].seq \in Nat
<1>1. sink \in Seq(Message)
  BY DEF TypeOK
<1>2. QED
  BY <1>1, AppendFacts, SinkElements

\* Where the messages of a kind are found when one more is written.
LEMMA AppendedPositions ==
    ASSUME TypeOK, NEW m \in Message, sink' = Append(sink, m), NEW k
    PROVE  /\ m.kind = k => Positions(k)' = Positions(k) \cup {Len(sink) + 1}
           /\ m.kind # k => Positions(k)' = Positions(k)
BY Appended DEF Positions

-----------------------------------------------------------------------------
(* Coverage first *)

\* Until the ticker runs there is no sample, and it runs on a coverage report.
CoverageInv ==
    /\ CoverageFirst
    /\ InSession => Positions("coverage") # {}

\* CoverageInv is inductive, whether writes succeed or not.
LEMMA CoverageInvNext == SInv /\ CoverageInv /\ [Next]_vars => CoverageInv'
<1> SUFFICES ASSUME SInv, CoverageInv, [Next]_vars PROVE CoverageInv'
  OBVIOUS
<1>1. TypeOK /\ Step
  BY StepFacts DEF SInv, TInv
<1>2. CASE Silent
  BY <1>2 DEF CoverageInv, CoverageFirst, Positions, Silent
<1>3. ASSUME NEW m \in Message, Sending(m) PROVE CoverageInv'
  <2>1. sink' = Append(sink, m)
    BY <1>3 DEF Sending
  <2>2. Positions("coverage") \subseteq Positions("coverage")'
    BY <1>1, <2>1, AppendedPositions
  <2>3. InSession' => Positions("coverage")' # {}
    BY <1>1, <1>3, <2>1, <2>2, AppendedPositions DEF Sending, CoverageInv
  <2>4. m.kind = "sample" => InSession
    BY <1>3 DEF Sending, Sender, InSession, Calling
  <2>5. CoverageFirst'
    <3>1. SUFFICES ASSUME NEW i \in Positions("sample")'
                   PROVE  \E j \in Positions("coverage")' : j < i
      BY DEF CoverageFirst
    <3>2. CASE i \in Positions("sample")
      BY <2>2, <3>2 DEF CoverageInv, CoverageFirst
    <3>3. CASE i \notin Positions("sample")
      <4>1. i = Len(sink) + 1 /\ InSession
        BY <1>1, <2>1, <2>4, <3>3, AppendedPositions
      <4>2. PICK j \in Positions("coverage") : TRUE
        BY <4>1 DEF CoverageInv
      <4>3. j < i
        BY <1>1, <2>1, <4>1, Appended DEF Positions
      <4>4. QED
        BY <2>2, <4>3
    <3>4. QED
      BY <3>2, <3>3
  <2>6. QED
    BY <2>3, <2>5 DEF CoverageInv
<1>4. QED
  BY <1>1, <1>2, <1>3 DEF Step

\* No sample reaches a consumer before a coverage report: a session whose
\* first report was not written is over before it samples.
THEOREM CoverageComesFirst == Spec => []CoverageFirst
<1>1. Init => CoverageInv
  BY DEF Init, CoverageInv, CoverageFirst, Positions, InSession
<1>2. CoverageInv => CoverageFirst
  BY DEF CoverageInv
<1>3. QED
  BY <1>1, <1>2, CoverageInvNext, SessionInvariant, PTL DEF Spec

-----------------------------------------------------------------------------
(* coverage_changed *)

\* Between the report of a restarted probe and its announcement nobody writes.
ChangedInv ==
    /\ CoverageChangedRef
    /\ tick = "announce" =>
         sink # <<>> /\ sink[Len(sink)].kind = "coverage" /\ sink[Len(sink)].seq = n

\* ChangedInv is inductive.
LEMMA ChangedInvNext == SInv /\ ChangedInv /\ [Next]_vars => ChangedInv'
<1> SUFFICES ASSUME SInv, ChangedInv, [Next]_vars PROVE ChangedInv'
  OBVIOUS
<1>1. TypeOK /\ Step
  BY StepFacts DEF SInv, TInv
<1>2. CASE Silent
  BY <1>2 DEF ChangedInv, CoverageChangedRef, Positions, Silent
<1>3. ASSUME NEW m \in Message, Sending(m) PROVE ChangedInv'
  <2>1. sink' = Append(sink, m)
    BY <1>3 DEF Sending
  <2>2. tick' = "announce" =>
          sink' # <<>> /\ sink'[Len(sink')].kind = "coverage" /\ sink'[Len(sink')].seq = n'
    BY <1>1, <1>3, <2>1, Appended DEF Sending
  <2>3. CoverageChangedRef'
    <3>1. SUFFICES ASSUME NEW i \in Positions("coverage_changed")'
                   PROVE  /\ i > 1 /\ sink'[i - 1].kind = "coverage"
                          /\ sink'[i - 1].seq = sink'[i].from
      BY DEF CoverageChangedRef
    <3>2. CASE i \in Positions("coverage_changed")
      <4>1. i > 1 /\ sink[i - 1].kind = "coverage" /\ sink[i - 1].seq = sink[i].from
        BY <3>2 DEF ChangedInv, CoverageChangedRef
      <4>2. i \in DOMAIN sink /\ i - 1 \in DOMAIN sink
        BY <1>1, <2>1, <3>2, <4>1, Appended DEF Positions
      <4>3. QED
        BY <1>1, <2>1, <4>1, <4>2, Appended
    <3>3. CASE i \notin Positions("coverage_changed")
      <4>1. i = Len(sink) + 1 /\ m.kind = "coverage_changed"
        BY <1>1, <2>1, <3>3, AppendedPositions
      <4>2. tick = "announce" /\ m.from = n
        BY <1>3, <4>1 DEF Sending, Sender
      <4>3. Len(sink) > 0 /\ Len(sink) \in DOMAIN sink
        BY <1>1, <4>2 DEF ChangedInv, TypeOK
      <4>4. sink'[i] = m /\ sink'[i - 1] = sink[Len(sink)]
        BY <1>1, <2>1, <4>1, <4>3, Appended
      <4>5. QED
        BY <1>1, <2>1, <4>1, <4>2, <4>3, <4>4, Appended DEF ChangedInv
    <3>4. QED
      BY <3>2, <3>3
  <2>4. QED
    BY <2>2, <2>3 DEF ChangedInv
<1>4. QED
  BY <1>1, <1>2, <1>3 DEF Step

\* coverage_changed always names the report just before it: a report that was
\* refused is not announced, and no other thread writes in between.
THEOREM ChangesRefer == Spec => []CoverageChangedRef
<1>1. Init => ChangedInv
  BY DEF Init, ChangedInv, CoverageChangedRef, Positions
<1>2. ChangedInv => CoverageChangedRef
  BY DEF ChangedInv
<1>3. QED
  BY <1>1, <1>2, ChangedInvNext, SessionInvariant, PTL DEF Spec

-----------------------------------------------------------------------------
(* Gaps *)

\* A scan's number is above that of the last sample until its sample, or the
\* gap in its place, has been written.
NumberInv == lastSampleSeq <= seq /\ (Held => lastSampleSeq < n)

\* NumberInv is inductive.
LEMMA NumberInvNext == SInv /\ NumberInv /\ [Next]_vars => NumberInv'
<1> SUFFICES ASSUME SInv, NumberInv, [Next]_vars PROVE NumberInv'
  OBVIOUS
<1>1. TypeOK /\ OInv /\ Always
  BY StepFacts DEF SInv, TInv, Step
<1>2. QED
  BY <1>1 DEF NumberInv, OInv, Always, TypeOK

\* The gap the ticker would declare begins at the last sample: no sample is
\* newer, and it is in the sink unless a write failed.
GapInv ==
    /\ NumberInv
    /\ GapSound
    /\ \A j \in Positions("sample") : sink[j].seq <= Newest
    /\ faults = 0 => Newest = 0 \/ \E j \in Positions("sample") : sink[j].seq = Newest

\* A gap declared earlier stays sound when a message is written after it.
LEMMA OldGapsStand ==
    ASSUME SInv, GapInv, NEW m \in Message, Sending(m), faults' = 0 => faults = 0,
           NEW i \in Positions("gap_declared")
    PROVE  LET g == sink'[i] IN
           /\ g.from < g.to /\ g.to < g.seq
           /\ \A j \in Positions("sample")' : ~(g.from < sink'[j].seq /\ sink'[j].seq <= g.to)
           /\ faults' = 0 =>
                g.from = 0 \/ \E j \in Positions("sample")' : j < i /\ sink'[j].seq = g.from
<1> DEFINE g == sink[i]
<1>1. TypeOK /\ OInv /\ sink' = Append(sink, m)
  BY DEF SInv, TInv, Sending
<1>2. /\ i \in DOMAIN sink /\ g \in Message /\ sink'[i] = g
      /\ g.seq \in Nat /\ g.to \in Nat /\ g.from \in Nat
  BY <1>1, Appended, SinkElements DEF Positions, Message
<1>3. /\ g.from < g.to /\ g.to < g.seq
      /\ \A j \in Positions("sample") : ~(g.from < sink[j].seq /\ sink[j].seq <= g.to)
      /\ faults = 0 =>
           g.from = 0 \/ \E j \in Positions("sample") : j < i /\ sink[j].seq = g.from
  BY DEF GapInv, GapSound
<1>4. /\ Positions("sample") \subseteq Positions("sample")'
      /\ \A j \in Positions("sample") : sink'[j] = sink[j]
  BY <1>1, Appended, AppendedPositions DEF Positions
<1>5. m.kind = "sample" => g.seq < m.seq /\ m.seq \in Nat
  BY <1>1, <1>2 DEF Sending, Sender, OInv, Message
<1>6. ASSUME NEW j \in Positions("sample")'
      PROVE  ~(g.from < sink'[j].seq /\ sink'[j].seq <= g.to)
  <2>1. CASE j \in Positions("sample")
    BY <1>3, <1>4, <2>1
  <2>2. CASE j \notin Positions("sample")
    <3>1. sink'[j] = m /\ m.kind = "sample"
      BY <1>1, <2>2, Appended, AppendedPositions
    <3>2. QED
      BY <1>2, <1>3, <1>5, <3>1
  <2>3. QED
    BY <2>1, <2>2
<1> HIDE DEF g
<1>7. QED
  BY <1>2, <1>3, <1>4, <1>6

\* The gap that is being declared is sound: the failed scan's number lies
\* after the last sample and before the declaration's own.
LEMMA NewGapStands ==
    ASSUME SInv, GapInv, NEW m \in Message, Sending(m), m.kind = "gap_declared",
           faults' = 0 => faults = 0
    PROVE  LET g == sink'[Len(sink) + 1] IN
           /\ g.from < g.to /\ g.to < g.seq
           /\ \A j \in Positions("sample")' : ~(g.from < sink'[j].seq /\ sink'[j].seq <= g.to)
           /\ faults' = 0 =>
                \/ g.from = 0
                \/ \E j \in Positions("sample")' : j < Len(sink) + 1 /\ sink'[j].seq = g.from
<1>1. TypeOK /\ OInv /\ sink' = Append(sink, m) /\ seq \in Nat /\ n \in Nat /\ lastSampleSeq \in Nat
  BY DEF SInv, TInv, Sending, TypeOK
<1>2. tick = "gap" /\ m.from = lastSampleSeq /\ m.to = n /\ m.seq = seq + 1
  BY DEF Sending, Sender
<1>3. sink'[Len(sink) + 1] = m /\ Newest = lastSampleSeq
  BY <1>1, <1>2, Appended DEF Newest
<1>4. m.from < m.to /\ m.to < m.seq
  BY <1>1, <1>2 DEF GapInv, NumberInv, Held, OInv
<1>5. /\ Positions("sample")' = Positions("sample")
      /\ \A j \in Positions("sample") :
           sink'[j] = sink[j] /\ j < Len(sink) + 1 /\ sink[j].seq \in Nat
  BY <1>1, Appended, AppendedPositions DEF Positions
<1>6. \A j \in Positions("sample") : sink[j].seq <= m.from
  BY <1>2, <1>3 DEF GapInv
<1>7. faults' = 0 => m.from = 0 \/ \E j \in Positions("sample") : sink[j].seq = m.from
  BY <1>2, <1>3 DEF GapInv
<1>8. \A j \in Positions("sample")' : ~(m.from < sink'[j].seq /\ sink'[j].seq <= m.to)
  <2> SUFFICES ASSUME NEW j \in Positions("sample")'
               PROVE  ~(m.from < sink'[j].seq /\ sink'[j].seq <= m.to)
    OBVIOUS
  <2>1. j \in Positions("sample") /\ sink'[j] = sink[j] /\ sink[j].seq \in Nat
    BY <1>5
  <2>2. sink[j].seq <= m.from
    BY <1>6, <2>1
  <2>3. QED
    BY <1>1, <1>2, <2>1, <2>2
<1>9. QED
  BY <1>3, <1>4, <1>5, <1>7, <1>8

\* GapInv is inductive.
LEMMA GapInvNext == SInv /\ GapInv /\ [Next]_vars => GapInv'
<1> SUFFICES ASSUME SInv, GapInv, [Next]_vars PROVE GapInv'
  OBVIOUS
<1>1. TypeOK /\ OInv /\ Step /\ Always
  BY StepFacts DEF SInv, TInv, Step
<1>2. NumberInv'
  BY NumberInvNext DEF GapInv
<1>3. /\ Newest \in Nat /\ Newest' \in Nat /\ Newest <= Newest'
      /\ faults' = 0 => faults = 0
  BY <1>1 DEF Always, GapInv, NumberInv, Held, Calling, Newest, TypeOK
<1>4. CASE Silent
  <2>1. sink' = sink /\ (faults' = 0 => Newest' = Newest)
    BY <1>4 DEF Silent
  <2>2. /\ Positions("sample")' = Positions("sample")
        /\ Positions("gap_declared")' = Positions("gap_declared")
        /\ \A j \in Positions("sample") : sink[j].seq \in Nat
    BY <1>1, <2>1, SinkElements DEF Positions
  <2>3. GapSound'
    BY <1>3, <2>1, <2>2 DEF GapInv, GapSound
  <2>4. QED
    BY <1>2, <1>3, <2>1, <2>2, <2>3 DEF GapInv
<1>5. ASSUME NEW m \in Message, Sending(m) PROVE GapInv'
  <2>1. sink' = Append(sink, m)
    BY <1>5 DEF Sending
  <2>2. GapSound'
    <3>1. \A i \in Positions("gap_declared")' :
            i \in Positions("gap_declared") \/ (i = Len(sink) + 1 /\ m.kind = "gap_declared")
      BY <1>1, <2>1, AppendedPositions
    <3>2. QED
      BY <1>3, <1>5, <3>1, OldGapsStand, NewGapStands DEF GapSound
  <2>3. m.kind = "sample" => m.seq = Newest'
    BY <1>5 DEF Sending, Sender, Newest
  <2>4. /\ Positions("sample") \subseteq Positions("sample")'
        /\ \A j \in Positions("sample") : sink'[j] = sink[j] /\ sink[j].seq \in Nat
    BY <1>1, <2>1, Appended, AppendedPositions DEF Positions
  <2>5. \A j \in Positions("sample")' :
          j \in Positions("sample") \/ (sink'[j] = m /\ m.kind = "sample")
    BY <1>1, <2>1, Appended, AppendedPositions
  <2>6. \A j \in Positions("sample")' : sink'[j].seq <= Newest'
    BY <1>3, <2>3, <2>4, <2>5 DEF GapInv
  <2>7. faults' = 0 =>
          Newest' = 0 \/ \E j \in Positions("sample")' : sink'[j].seq = Newest'
    <3>1. CASE m.kind = "sample"
      <4>1. Len(sink) + 1 \in Positions("sample")' /\ sink'[Len(sink) + 1] = m
        BY <1>1, <2>1, <3>1, Appended, AppendedPositions
      <4>2. QED
        BY <2>3, <3>1, <4>1
    <3>2. CASE m.kind # "sample"
      <4>1. faults' = 0 => Newest' = Newest /\ faults = 0
        BY <1>3, <1>5, <3>2 DEF Sending
      <4>2. QED
        BY <2>4, <4>1 DEF GapInv
    <3>3. QED
      BY <3>1, <3>2
  <2>8. QED
    BY <1>2, <2>2, <2>6, <2>7 DEF GapInv
<1>6. QED
  BY <1>1, <1>4, <1>5 DEF Step

\* Every reachable state satisfies it.
LEMMA GapInvariant == Spec => []GapInv
<1>1. Init => GapInv
  BY DEF Init, GapInv, NumberInv, Held, GapSound, Positions, Newest
<1>2. QED
  BY <1>1, GapInvNext, SessionInvariant, PTL DEF Spec

\* A declared gap is one: no sample is ever found inside it, in whatever order
\* scans, restarts and refused writes came.
THEOREM GapsSound == Spec => []GapSound
<1>1. GapInv => GapSound
  BY DEF GapInv
<1>2. QED
  BY <1>1, GapInvariant, PTL

-----------------------------------------------------------------------------
(* Restarts *)

\* A gap that a consumer finds between the sample i and what comes next.
GapAfter(i, k) == i < k /\ sink[i].seq <= sink[k].from

\* Once the gap is declared every sample of an earlier probe has one after it.
RestartInv ==
    /\ RestartDeclared
    /\ tick = "none" => Positions("sample") = {}
    /\ (faults = 0 /\ ~Undeclared) =>
         \A i \in Positions("sample") :
             sink[i].gen # gen => \E k \in Positions("gap_declared") : GapAfter(i, k)

\* The sample of a new probe comes after the gap that ends the old one's.
LEMMA NewSampleDeclared ==
    ASSUME SInv, GapInv, RestartInv, NEW m \in Message, Sending(m), m.kind = "sample",
           faults = 0, NEW i \in Positions("sample"), sink[i].gen # m.gen
    PROVE  \E k \in Positions("gap_declared") : GapAfter(i, k) /\ sink[k].to < m.seq
<1>1. tick \in Calling /\ m.seq = n /\ m.gen = gen
  BY DEF Sending, Sender
<1>2. ~Undeclared
  BY <1>1 DEF Calling, Undeclared
<1>3. PICK k \in Positions("gap_declared") : GapAfter(i, k)
  BY <1>1, <1>2 DEF RestartInv
<1>4. sink[k].to < sink[k].seq
  BY DEF GapInv, GapSound
<1>5. sink[k].seq < n
  BY <1>1 DEF SInv, OInv, Positions
<1>6. sink[k].to \in Nat /\ sink[k].seq \in Nat /\ n \in Nat
  BY SinkElements DEF SInv, TInv, TypeOK, Positions, Message
<1>7. QED
  BY <1>1, <1>3, <1>4, <1>5, <1>6

\* RestartInv is inductive.
LEMMA RestartInvNext == SInv /\ GapInv /\ RestartInv /\ [Next]_vars => RestartInv'
<1> SUFFICES ASSUME SInv, GapInv, RestartInv, [Next]_vars PROVE RestartInv'
  OBVIOUS
<1>1. TypeOK /\ Step /\ (faults' = 0 => faults = 0) /\ (tick' = "none" => tick = "none")
  BY StepFacts DEF SInv, TInv, Step, Always
<1>2. CASE Silent
  <2>1. sink' = sink
    BY <1>2 DEF Silent
  <2>2. faults' = 0 => tick' = "none" \/ Undeclared' \/ (gen' = gen /\ ~Undeclared)
    BY <1>2 DEF Silent
  <2>3. /\ Positions("sample")' = Positions("sample")
        /\ Positions("gap_declared")' = Positions("gap_declared")
    BY <2>1 DEF Positions
  <2>4. RestartDeclared'
    BY <1>1, <2>1, <2>3 DEF RestartInv, RestartDeclared
  <2>5. QED
    BY <1>1, <2>1, <2>2, <2>3, <2>4 DEF RestartInv, GapAfter
<1>3. ASSUME NEW m \in Message, Sending(m) PROVE RestartInv'
  <2>1. sink' = Append(sink, m) /\ gen' = gen /\ m.gen = gen
    BY <1>3 DEF Sending, Sender
  <2>2. /\ Positions("sample") \subseteq Positions("sample")'
        /\ Positions("gap_declared") \subseteq Positions("gap_declared")'
        /\ \A i \in DOMAIN sink : sink'[i] = sink[i] /\ i < Len(sink) + 1 /\ i \in Nat
        /\ sink'[Len(sink) + 1] = m /\ Len(sink) \in Nat
    BY <1>1, <2>1, Appended, AppendedPositions
  <2>3. \A i \in Positions("sample")' :
          i \in Positions("sample") \/ (i = Len(sink) + 1 /\ m.kind = "sample")
    BY <1>1, <2>1, AppendedPositions
  <2>4. Positions("sample") \subseteq DOMAIN sink /\ Positions("gap_declared") \subseteq DOMAIN sink
    BY DEF Positions
  <2>5. \A i \in Positions("sample"), k \in Positions("gap_declared") :
          GapAfter(i, k) => GapAfter(i, k)'
    BY <2>2, <2>4 DEF GapAfter
  <2>6. RestartDeclared'
    <3>1. SUFFICES ASSUME faults' = 0, NEW i \in Positions("sample")',
                          NEW j \in Positions("sample")',
                          i < j, sink'[i].gen # sink'[j].gen
                   PROVE  \E k \in Positions("gap_declared")' :
                            /\ i < k /\ k < j
                            /\ sink'[i].seq <= sink'[k].from /\ sink'[k].to < sink'[j].seq
      BY DEF RestartDeclared
    <3>2. CASE j \in Positions("sample")
      <4>1. i \in Positions("sample") /\ sink[i].gen # sink[j].gen
        BY <2>2, <2>3, <2>4, <3>1, <3>2
      <4>2. PICK k \in Positions("gap_declared") :
                i < k /\ k < j /\ sink[i].seq <= sink[k].from /\ sink[k].to < sink[j].seq
        BY <1>1, <3>1, <3>2, <4>1 DEF RestartInv, RestartDeclared
      <4>3. QED
        BY <2>2, <2>4, <3>2, <4>1, <4>2
    <3>3. CASE j \notin Positions("sample")
      <4>1. j = Len(sink) + 1 /\ m.kind = "sample" /\ sink'[j] = m
        BY <2>2, <2>3, <3>3
      <4>2. i \in Positions("sample") /\ sink[i].gen # m.gen
        BY <2>2, <2>3, <2>4, <3>1, <4>1
      <4>3. PICK k \in Positions("gap_declared") : GapAfter(i, k) /\ sink[k].to < m.seq
        BY <1>1, <1>3, <3>1, <4>1, <4>2, NewSampleDeclared
      <4>4. QED
        BY <2>2, <2>4, <4>1, <4>2, <4>3 DEF GapAfter
    <3>4. QED
      BY <3>2, <3>3
  <2>7. tick' = "none" => Positions("sample")' = {}
    <3>1. tick = "none" => m.kind # "sample"
      BY <1>3 DEF Sending, Sender, Calling
    <3>2. QED
      BY <1>1, <2>3, <3>1 DEF RestartInv
  <2>8. ASSUME faults' = 0, ~Undeclared', NEW i \in Positions("sample")', sink'[i].gen # gen'
        PROVE  \E k \in Positions("gap_declared")' : GapAfter(i, k)'
    <3>1. i \in Positions("sample") /\ sink'[i] = sink[i] /\ sink[i].gen # gen
      BY <2>1, <2>2, <2>3, <2>4, <2>8
    <3>2. CASE ~Undeclared
      BY <1>1, <2>2, <2>5, <2>8, <3>1, <3>2 DEF RestartInv
    <3>3. CASE Undeclared
      <4>1. m.kind = "gap_declared"
        BY <1>3, <2>8, <3>3 DEF Sending
      <4>2. m.from = Newest
        BY <1>3, <4>1 DEF Sending, Sender, Newest
      <4>3. sink[i].seq <= m.from
        BY <3>1, <4>2 DEF GapInv
      <4>4. PICK k \in Positions("gap_declared")' : k = Len(sink) + 1
        BY <1>1, <2>1, <4>1, AppendedPositions
      <4>5. GapAfter(i, k)'
        BY <2>2, <2>4, <3>1, <4>3, <4>4 DEF GapAfter
      <4>6. QED
        BY <4>4, <4>5
    <3>4. QED
      BY <3>2, <3>3
  <2>9. QED
    BY <2>6, <2>7, <2>8 DEF RestartInv
<1>4. QED
  BY <1>1, <1>2, <1>3 DEF Step

\* Between two samples of different probes a consumer finds a gap that covers
\* the change, however many restarts there were and whatever they recovered.
THEOREM RestartsDeclared == Spec => []RestartDeclared
<1>1. Init => RestartInv
  BY DEF Init, RestartInv, RestartDeclared, Positions, Undeclared
<1>2. RestartInv => RestartDeclared
  BY DEF RestartInv
<1>3. QED
  BY <1>1, <1>2, RestartInvNext, GapInvariant, SessionInvariant, PTL DEF Spec

-----------------------------------------------------------------------------
(* What the mirror shows *)

\* While no write has failed, what the mirror is given is what was sent.
HonestInv == faults = 0 => Handed = Readings

\* HonestInv is inductive: a reading is handed on by the thread that sent it,
\* and by nobody else.
LEMMA HonestInvNext == SInv /\ HonestInv /\ [Next]_vars => HonestInv'
<1> SUFFICES ASSUME SInv, HonestInv, [Next]_vars, faults' = 0
             PROVE  Handed' = Readings'
  BY DEF HonestInv
<1>1. TypeOK /\ Step /\ faults = 0 /\ Handed = Readings
  BY StepFacts DEF SInv, TInv, Step, Always, HonestInv
<1>2. CASE Silent
  <2>1. Readings' = Readings
    BY <1>2 DEF Silent, Readings, Positions
  <2>2. QED
    BY <1>1, <1>2, <2>1 DEF Silent
<1>3. ASSUME NEW m \in Message, Sending(m) PROVE Handed' = Readings'
  <2>1. /\ sink' = Append(sink, m)
        /\ Handed' = IF IsReading(m.kind) THEN Handed \cup {m.seq} ELSE Handed
    BY <1>3 DEF Sending
  <2> DEFINE Brought == Positions("coverage") \cup Positions("sample")
  <2>2. /\ Len(sink) + 1 \notin Brought /\ sink'[Len(sink) + 1] = m
        /\ \A i \in Brought : sink'[i] = sink[i]
    BY <1>1, <2>1, Appended DEF Positions
  <2>3. Brought' = IF IsReading(m.kind) THEN Brought \cup {Len(sink) + 1} ELSE Brought
    BY <1>1, <2>1, AppendedPositions DEF IsReading
  <2>4. Readings = {sink[i].seq : i \in Brought} /\ Readings' = {sink'[i].seq : i \in Brought'}
    BY DEF Readings
  <2> HIDE DEF Brought
  <2>5. Readings' = IF IsReading(m.kind) THEN Readings \cup {m.seq} ELSE Readings
    BY <2>2, <2>3, <2>4
  <2>6. QED
    BY <1>1, <2>1, <2>5
<1>4. QED
  BY <1>1, <1>2, <1>3 DEF Step

\* The candidate is shown what the consumer was sent: every reading drawn or
\* about to be is in the feed, and every one in the feed has been handed to
\* the window or is about to be, unless a write failed.
THEOREM MirrorShowsSent == Spec => []MirrorHonest
<1>1. Init => HonestInv
  BY DEF Init, HonestInv, Handed, InHand, Readings, Positions
<1>2. HonestInv => MirrorHonest
  BY DEF HonestInv, MirrorHonest, Handed
<1>3. QED
  BY <1>1, <1>2, HonestInvNext, SessionInvariant, PTL DEF Spec

-----------------------------------------------------------------------------
(* The last message, and the end of the session *)

LastKind == IF sink = <<>> THEN "nothing" ELSE sink[Len(sink)].kind

\* The last message is one the control state allows; terminal events come
\* last, the collector's before the candidate's; candidate_quit is written once
\* the collector's reason is ruled out, and consent_declined by a session that
\* never sampled.
LastInv ==
    /\ faults = 0 => Fits(LastKind)
    /\ \A i, j \in DOMAIN sink :
          (i < j /\ sink[i].kind \in TerminalKinds) =>
              sink[i].kind = "session_ended" /\ sink[j].kind = "candidate_quit"
    /\ \A i \in DOMAIN sink : sink[i].kind \in TerminalKinds => Over
    /\ Positions("candidate_quit") # {} => Quitted
    /\ Positions("consent_declined") # {} => Declined

\* LastInv is inductive: after the end only main writes, and only candidate_quit,
\* which it writes once, after a session that had consent.
LEMMA LastInvNext == SInv /\ LastInv /\ [Next]_vars => LastInv'
<1> SUFFICES ASSUME SInv, LastInv, [Next]_vars PROVE LastInv'
  OBVIOUS
<1>1. /\ TypeOK /\ CInv /\ Step
      /\ (faults' = 0 => faults = 0) /\ (Over => Over')
      /\ (Quitted => Quitted') /\ (Declined => Declined')
  BY StepFacts DEF SInv, TInv, Step, Always
<1>2. CASE Silent
  <2>1. sink' = sink /\ (faults' = 0 => \A k : Fits(k) => Fits(k)')
    BY <1>2 DEF Silent
  <2>2. LastKind' = LastKind
    BY <2>1 DEF LastKind
  <2>3. faults' = 0 => Fits(LastKind)'
    <3>1. faults' = 0 => Fits(LastKind)
      BY <1>1 DEF LastInv
    <3>2. QED
      BY <2>1, <2>2, <3>1 DEF Fits
  <2>4. QED
    BY <1>1, <2>1, <2>3 DEF LastInv, Positions
<1>3. ASSUME NEW m \in Message, Sending(m) PROVE LastInv'
  <2>1. sink' = Append(sink, m)
    BY <1>3 DEF Sending
  <2>2. LastKind' = m.kind
    BY <1>1, <2>1, Appended DEF LastKind
  <2>3. faults' = 0 => Fits(LastKind)'
    BY <1>3, <2>2 DEF Sending, Fits
  <2>4. m.kind \in TerminalKinds => Over'
    BY <1>3 DEF Sending
  <2>5. Over => m.kind = "candidate_quit"
    BY <1>1, <1>3 DEF Sending, Sender, Message, Kinds, LifecycleKinds, Over, Declined, CInv, StartupPcs, Calling
  <2>6. \A i \in DOMAIN sink : sink'[i] = sink[i] /\ i < Len(sink) + 1 /\ i \in Nat
    BY <1>1, <2>1, Appended
  <2>7. \A i \in DOMAIN sink' : i \in DOMAIN sink \/ (i = Len(sink) + 1 /\ sink'[i] = m)
    BY <1>1, <2>1, Appended
  <2>8. \A i \in DOMAIN sink' : sink'[i].kind \in TerminalKinds => Over'
    BY <1>1, <2>4, <2>6, <2>7 DEF LastInv
  <2>9. ASSUME NEW i \in DOMAIN sink', NEW j \in DOMAIN sink', i < j,
               sink'[i].kind \in TerminalKinds
        PROVE  sink'[i].kind = "session_ended" /\ sink'[j].kind = "candidate_quit"
    <3>1. i \in DOMAIN sink
      BY <1>1, <2>6, <2>7, <2>9, Appended
    <3>2. CASE j \in DOMAIN sink
      BY <2>6, <2>9, <3>1, <3>2 DEF LastInv
    <3>3. CASE j \notin DOMAIN sink
      <4>1. sink[i].kind \in TerminalKinds /\ sink'[j] = m /\ sink'[i] = sink[i]
        BY <2>6, <2>7, <2>9, <3>1, <3>3
      <4>2. m.kind = "candidate_quit"
        BY <2>5, <3>1, <4>1 DEF LastInv
      <4>3. ~Quitted /\ ~Declined
        BY <1>3, <4>2 DEF Sending, Sender, Quitted, Leaving, Declined
      <4>4. sink[i].kind \notin {"candidate_quit", "consent_declined"}
        BY <3>1, <4>3 DEF LastInv, Positions
      <4>5. QED
        BY <4>1, <4>2, <4>4 DEF TerminalKinds
    <3>4. QED
      BY <3>2, <3>3
  <2>10. Positions("candidate_quit")' # {} => Quitted'
    <3>1. m.kind = "candidate_quit" => Quitted'
      BY <1>3 DEF Sending
    <3>2. QED
      BY <1>1, <2>1, <3>1, AppendedPositions DEF LastInv
  <2>11. Positions("consent_declined")' # {} => Declined'
    <3>1. m.kind = "consent_declined" => Declined'
      BY <1>3 DEF Sending
    <3>2. QED
      BY <1>1, <2>1, <3>1, AppendedPositions DEF LastInv
  <2>12. QED
    BY <2>3, <2>8, <2>9, <2>10, <2>11 DEF LastInv
<1>4. QED
  BY <1>1, <1>2, <1>3 DEF Step

\* Every reachable state satisfies it.
LEMMA LastInvariant == Spec => []LastInv
<1>1. Init => LastInv
  BY DEF Init, LastInv, Fits, LastKind, Positions, Quitted, Leaving, Declined
<1>2. QED
  BY <1>1, LastInvNext, SessionInvariant, PTL DEF Spec

\* A feed ends with one terminal event, or with session_ended and then
\* candidate_quit, and a finished one with the event that names the side that
\* ended it.
THEOREM EndsSound == Spec => []SessionEndSound
<1>1. SInv /\ LastInv => SessionEndSound
  <2> SUFFICES ASSUME SInv, LastInv PROVE SessionEndSound
    OBVIOUS
  <2>1. Positions("candidate_quit") # {} => ~collectorEnded
    BY DEF LastInv, Quitted
  <2>2. ASSUME main = "exited", faults = 0
        PROVE  sink[Len(sink)].kind \in
                 (IF collectorEnded THEN {"session_ended"} ELSE {"candidate_quit", "consent_declined"})
    <3>1. tick = "none" => ~collectorEnded /\ LastKind = "consent_declined"
      BY <2>2 DEF SInv, EndInv, LastInv, Fits, Declined
    <3>2. tick = "done" => LastKind = IF collectorEnded THEN "session_ended" ELSE "candidate_quit"
      BY <2>2 DEF LastInv, Fits, Quitted, Leaving
    <3>3. tick \in {"none", "done"}
      BY <2>2 DEF SInv, TInv, CInv
    <3>4. LastKind # "nothing" => LastKind = sink[Len(sink)].kind
      BY DEF LastKind
    <3>5. QED
      BY <3>1, <3>2, <3>3, <3>4
  <2>3. QED
    BY <2>1, <2>2 DEF LastInv, SessionEndSound
<1>2. QED
  BY <1>1, LastInvariant, SessionInvariant, PTL

\* A session the collector has ended is never laid to the candidate: main reads
\* the reason after the ticker has given it, and no later stop, close of the
\* window or return of mirror.Run gives another.
THEOREM CollectorsEndKept == Spec => CollectorsEndStands
<1>1. LastInv /\ collectorEnded => Positions("candidate_quit") = {}
  BY DEF LastInv, Quitted
<1>2. SInv /\ collectorEnded /\ [Next]_vars => collectorEnded'
  BY ReasonStands DEF SInv, EndInv, sessionVars
<1>3. QED
  BY <1>1, <1>2, LastInvariant, SessionInvariant, PTL DEF Spec, CollectorsEndStands

-----------------------------------------------------------------------------
(* A session implements the abstract feed *)

\* What module Feed lets follow a message.
LEMMA MayFollow ==
    /\ "coverage" \in F!After("consent_granted") /\ "coverage" \in F!After("gap_declared")
    /\ "coverage_changed" \in F!After("coverage")
    /\ "gap_declared" \in F!After("recovered_error")
    /\ "session_ended" \in F!After("fatal_error")
    /\ "candidate_quit" \in F!After("session_ended")
    /\ \A k \in Steady :
         {"sample", "recovered_error", "fatal_error", "candidate_quit"} \subseteq F!After(k)
<1>1. "coverage" \in F!After("consent_granted")
  BY Zenon DEF F!After
<1>2. "coverage" \in F!After("gap_declared")
  BY Zenon DEF F!After
<1>3. "coverage_changed" \in F!After("coverage")
  BY Zenon DEF F!After
<1>4. "gap_declared" \in F!After("recovered_error")
  BY Zenon DEF F!After
<1>5. "session_ended" \in F!After("fatal_error")
  BY Zenon DEF F!After
<1>6. "candidate_quit" \in F!After("session_ended")
  BY Zenon DEF F!After
<1>7. ASSUME NEW k \in Steady
      PROVE  {"sample", "recovered_error", "fatal_error", "candidate_quit"} \subseteq F!After(k)
  <2>1. F!Body \subseteq F!After("coverage")
    BY Zenon DEF F!After
  <2>2. F!Body \subseteq F!After("sample")
    BY Zenon DEF F!After
  <2>3. F!Body \subseteq F!After("gap_declared")
    BY Zenon DEF F!After
  <2>4. F!Body \subseteq F!After("coverage_changed")
    BY Zenon DEF F!After
  <2>5. QED
    BY <2>1, <2>2, <2>3, <2>4 DEF Steady, F!Body
<1>8. QED
  BY <1>1, <1>2, <1>3, <1>4, <1>5, <1>6, <1>7

\* The control state that lets a thread send m lets m follow the last message.
LEMMA SenderFollows ==
    ASSUME SInv, Fits(LastKind), NEW m \in Message, Sender(m)
    PROVE  \/ LastKind = "nothing" /\ m.kind \in {"consent_granted", "consent_declined"}
           \/ LastKind # "nothing" /\ m.kind \in F!After(LastKind)
<1>0. m.kind \in Kinds
  BY DEF Message
<1>1. CASE m.kind \in {"consent_granted", "consent_declined"}
  BY <1>1 DEF Sender, Fits
<1>2. CASE m.kind = "coverage"
  BY <1>2, MayFollow DEF Sender, Fits
<1>3. CASE m.kind \in {"sample", "recovered_error", "fatal_error"}
  <2>1. LastKind \in Steady
    BY <1>3 DEF Sender, Fits, Calling
  <2>2. QED
    BY <1>3, <2>1, MayFollow DEF Steady
<1>4. CASE m.kind = "gap_declared"
  BY <1>4, MayFollow DEF Sender, Fits
<1>5. CASE m.kind = "coverage_changed"
  BY <1>5, MayFollow DEF Sender, Fits
<1>6. CASE m.kind = "session_ended"
  BY <1>6, MayFollow DEF Sender, Fits
<1>7. CASE m.kind = "candidate_quit"
  <2>1. LastKind \in Steady \cup {"session_ended"}
    BY <1>7 DEF Sender, Fits, Leaving
  <2>2. QED
    BY <1>7, <2>1, MayFollow DEF Steady
<1>8. QED
  BY <1>0, <1>1, <1>2, <1>3, <1>4, <1>5, <1>6, <1>7 DEF Kinds, LifecycleKinds

\* A step of a session whose writes have all succeeded is a step of the feed,
\* or leaves the feed as it is.
LEMMA FeedStepImplements ==
    SInv /\ GapInv /\ GapInv' /\ ChangedInv /\ LastInv /\ [Next]_vars
        => [faults' = 0 => F!Send]_sink
<1> SUFFICES ASSUME SInv, GapInv, GapInv', ChangedInv, LastInv, [Next]_vars,
                    faults' = 0, sink' # sink
             PROVE  F!Send
  OBVIOUS
<1>1. TypeOK /\ OInv /\ Step /\ faults = 0
  BY StepFacts DEF SInv, TInv, Step, Always
<1>2. PICK m \in Message : Sending(m)
  BY <1>1 DEF Step, Silent
<1>3. sink' = Append(sink, m) /\ Sender(m)
  BY <1>2 DEF Sending
<1>4. sink'[Len(sink')] = m
  BY <1>1, <1>3, Appended
<1>5. Fits(LastKind)
  BY <1>1 DEF LastInv
<1>6. CASE sink = <<>>
  BY <1>3, <1>4, <1>5, <1>6, SenderFollows DEF LastKind, F!Send, F!Open
<1>7. CASE sink # <<>>
  <2>1. LastKind = F!Last.kind /\ Len(sink) \in DOMAIN sink
    BY <1>1, <1>7 DEF LastKind, F!Last, TypeOK
  <2>2. m.kind \in F!After(F!Last.kind)
    <3>1. LastKind # "nothing"
      BY <1>1, <1>7, <2>1, SinkElements DEF LastKind, Message, Kinds, LifecycleKinds
    <3>2. m.kind \in F!After(LastKind)
      BY <1>3, <1>5, <3>1, SenderFollows
    <3>3. QED
      BY <2>1, <3>2
  <2>3. m.seq > F!Last.seq
    BY <1>1, <1>3, <2>1, SinkElements DEF OInv, Sender, Calling, F!Last, TypeOK
  <2>4. F!WellFormed(m)
    <3>1. m.kind = "gap_declared" => m.from < m.to /\ m.to < m.seq
      BY <1>1, <1>3, <1>4, Appended, AppendedPositions DEF GapInv, GapSound
    <3>2. m.kind = "coverage_changed" => m.from = F!Last.seq
      BY <1>3 DEF Sender, ChangedInv, F!Last
    <3>3. QED
      BY <3>1, <3>2 DEF F!WellFormed
  <2>5. F!Continue(m)
    BY <1>7, <2>2, <2>3, <2>4 DEF F!Continue
  <2>6. QED
    BY <1>3, <1>4, <2>5 DEF F!Send
<1>8. QED
  BY <1>6, <1>7

\* The session implements the abstract feed for as long as its writes succeed,
\* under the mapping that takes the sink for the feed.
THEOREM ImplementsFeed == Spec => FeedSpec
<1>1. Init => F!Init
  BY DEF Init, F!Init
<1>2. Init => ChangedInv
  BY DEF Init, ChangedInv, CoverageChangedRef, Positions
<1>3. QED
  BY <1>1, <1>2, ChangedInvNext, FeedStepImplements, SessionInvariant, GapInvariant,
     LastInvariant, PTL DEF Spec, FeedSpec

=============================================================================
