---------------------------- MODULE SessionProofs ----------------------------
(***************************************************************************)
(* Proofs about Session for every bound. The control invariant CInv says    *)
(* where the two threads can be at once and which probe is running; type    *)
(* correctness needs it (a probe that is closed was started), and the       *)
(* invariants of the feed are proved on top of it.                          *)
(***************************************************************************)
EXTENDS SessionProperties, SequenceTheorems, TLAPS

StartupPcs == {"consent", "spawn", "ping", "coverage", "mirror", "launch", "fatal"}

\* The sampling goroutine runs only between Launch and AwaitTicker, and what
\* it needs of the probe holds where it needs it.
CInv ==
    /\ main \in StartupPcs => tick = "none"
    /\ main \in {"run", "wait"} => tick # "none"
    /\ main \in {"terminal", "traystop", "closehost"} => tick = "done"
    /\ main \in {"destroy", "exited"} => tick \in {"none", "done"} /\ host # "open"
    /\ main \in {"consent", "spawn"} => host = "none"
    /\ tick \in {"restart", "reping", "giveup", "ended", "closing"} => host = "closed"
    /\ probes = IF host = "open" \/ tick = "reping" THEN 1 ELSE 0

TInv == TypeOK /\ CInv

-----------------------------------------------------------------------------
(* What the writing operators do to the feed's types *)

LEMMA MsgType ==
    ASSUME TypeOK, NEW k \in Kinds, NEW s \in Nat, NEW f \in Nat, NEW t \in Nat
    PROVE  Msg(k, s, f, t) \in Message
BY DEF TypeOK, Msg, Message

LEMMA WriteType ==
    ASSUME TypeOK, NEW m \in Message,
           WriteIgnoringError(m) \/ Lost \/ Unsynced(m) \/ Written(m)
    PROVE  sink' \in Seq(Message) /\ faults' \in 0..MaxSinkFaults
BY BoundsAssumption DEF TypeOK, WriteIgnoringError, Written, Lost, Unsynced, Fault

LEMMA EmitType ==
    ASSUME TypeOK, NEW k \in Kinds, NEW f \in Nat, NEW t \in Nat, Emit(k, f, t)
    PROVE  seq' \in Nat /\ sink' \in Seq(Message) /\ faults' \in 0..MaxSinkFaults
<1>1. seq \in Nat /\ seq' = seq + 1 /\ WriteIgnoringError(Msg(k, seq + 1, f, t))
  BY DEF TypeOK, Emit
<1>2. Msg(k, seq + 1, f, t) \in Message
  BY <1>1, MsgType
<1>3. QED
  BY <1>1, <1>2, WriteType

-----------------------------------------------------------------------------
(* Type correctness *)

\* Every reachable state is well typed and satisfies the control invariant.
LEMMA TInvInit == Init => TInv
<1> SUFFICES ASSUME Init PROVE TInv
  OBVIOUS
<1>1. 0 \in 0..MaxSinkFaults /\ 0 \in 0..Attempts
  BY BoundsAssumption DEF Attempts
<1>2. sink \in Seq(Message)
  BY DEF Init
<1>3. TypeOK
  BY <1>1, <1>2 DEF Init, TypeOK, MainPcs, TickPcs
<1>4. CInv
  BY DEF Init, CInv, StartupPcs
<1>5. QED
  BY <1>3, <1>4 DEF TInv

LEMMA TInvStartup == TInv /\ Startup => TInv'
<1> SUFFICES ASSUME TInv, Startup PROVE TInv'
  OBVIOUS
<1> USE DEF TInv, CInv, StartupPcs
<1>k. {"consent_granted", "consent_declined", "coverage"} \subseteq Kinds
  BY DEF Kinds, LifecycleKinds
<1>ConsentDeclined. CASE ConsentDeclined
  <2>1. Emit("consent_declined", 0, 0)
    BY <1>ConsentDeclined DEF ConsentDeclined
  <2>2. seq' \in Nat /\ sink' \in Seq(Message) /\ faults' \in 0..MaxSinkFaults
    BY <1>k, <2>1, EmitType DEF TypeOK
  <2>3. QED
    BY <1>ConsentDeclined, <2>2 DEF ConsentDeclined, TypeOK, MainPcs, TickPcs, sessionVars, uiVars, feedVars, probeVars, tickVars
<1>ConsentGranted. CASE ConsentGranted
  <2>1. Emit("consent_granted", 0, 0)
    BY <1>ConsentGranted DEF ConsentGranted
  <2>2. seq' \in Nat /\ sink' \in Seq(Message) /\ faults' \in 0..MaxSinkFaults
    BY <1>k, <2>1, EmitType DEF TypeOK
  <2>3. QED
    BY <1>ConsentGranted, <2>2 DEF ConsentGranted, TypeOK, MainPcs, TickPcs, sessionVars, uiVars, feedVars, probeVars, tickVars
<1>FirstStartFails. CASE FirstStartFails
  BY <1>FirstStartFails DEF FirstStartFails, TypeOK, MainPcs, TickPcs, sessionVars, uiVars, feedVars, probeVars, tickVars
<1>FirstStart. CASE FirstStart
  BY <1>FirstStart DEF FirstStart, TypeOK, MainPcs, TickPcs, sessionVars, uiVars, feedVars, probeVars, tickVars
<1>FirstPing. CASE FirstPing
  BY <1>FirstPing DEF FirstPing, TypeOK, MainPcs, TickPcs, sessionVars, uiVars, feedVars, probeVars, tickVars
<1>FirstCoverage. CASE FirstCoverage
  <2>1. Msg("coverage", seq + 1, 0, 0) \in Message
    BY <1>k, MsgType DEF TypeOK
  <2>2. sink' \in Seq(Message) /\ faults' \in 0..MaxSinkFaults
    BY <1>FirstCoverage, <2>1, WriteType DEF FirstCoverage, TypeOK
  <2>3. QED
    BY <1>FirstCoverage, <2>2 DEF FirstCoverage, TypeOK, MainPcs, TickPcs, sessionVars, uiVars, feedVars, probeVars, tickVars
<1>FirstCoverageFails. CASE FirstCoverageFails
  <2>1. Msg("coverage", seq + 1, 0, 0) \in Message
    BY <1>k, MsgType DEF TypeOK
  <2>2. sink' \in Seq(Message) /\ faults' \in 0..MaxSinkFaults
    BY <1>FirstCoverageFails, <2>1, WriteType DEF FirstCoverageFails, TypeOK
  <2>3. QED
    BY <1>FirstCoverageFails, <2>2 DEF FirstCoverageFails, TypeOK, MainPcs, TickPcs, sessionVars, uiVars, feedVars, probeVars, tickVars
<1>OpenMirror. CASE OpenMirror
  BY <1>OpenMirror DEF OpenMirror, TypeOK, MainPcs, TickPcs, sessionVars, uiVars, feedVars, probeVars, tickVars
<1>Launch. CASE Launch
  BY <1>Launch DEF Launch, TypeOK, MainPcs, TickPcs, sessionVars, uiVars, feedVars, probeVars, tickVars
<1> QED
  BY <1>ConsentDeclined, <1>ConsentGranted, <1>FirstStartFails, <1>FirstStart, <1>FirstPing, <1>FirstCoverage, <1>FirstCoverageFails, <1>OpenMirror, <1>Launch DEF Startup

LEMMA TInvWindow == TInv /\ Window => TInv'
<1> SUFFICES ASSUME TInv, Window PROVE TInv'
  OBVIOUS
<1> USE DEF TInv, CInv, StartupPcs
<1>Draw. CASE Draw
  BY <1>Draw DEF Draw, TypeOK, MainPcs, TickPcs, sessionVars, uiVars, feedVars, probeVars, tickVars
<1>StopClick. CASE StopClick
  BY <1>StopClick DEF StopClick, CloseSession, TypeOK, MainPcs, TickPcs, sessionVars, uiVars, feedVars, probeVars, tickVars
<1>WindowClosed. CASE WindowClosed
  BY <1>WindowClosed DEF WindowClosed, TypeOK, MainPcs, TickPcs, sessionVars, uiVars, feedVars, probeVars, tickVars
<1>TrayStop. CASE TrayStop
  BY <1>TrayStop DEF TrayStop, CloseSession, TypeOK, MainPcs, TickPcs, sessionVars, uiVars, feedVars, probeVars, tickVars
<1>Closer. CASE Closer
  BY <1>Closer DEF Closer, TypeOK, MainPcs, TickPcs, sessionVars, uiVars, feedVars, probeVars, tickVars
<1> QED
  BY <1>Draw, <1>StopClick, <1>WindowClosed, <1>TrayStop, <1>Closer DEF Window

LEMMA TInvShutdown == TInv /\ Shutdown => TInv'
<1> SUFFICES ASSUME TInv, Shutdown PROVE TInv'
  OBVIOUS
<1> USE DEF TInv, CInv, StartupPcs
<1>k. {"candidate_quit"} \subseteq Kinds
  BY DEF Kinds, LifecycleKinds
<1>RunReturns. CASE RunReturns
  BY <1>RunReturns DEF RunReturns, CloseSession, TypeOK, MainPcs, TickPcs, sessionVars, uiVars, feedVars, probeVars, tickVars
<1>AwaitTicker. CASE AwaitTicker
  BY <1>AwaitTicker DEF AwaitTicker, TickerDone, TypeOK, MainPcs, TickPcs, sessionVars, uiVars, feedVars, probeVars, tickVars
<1>CandidateQuit. CASE CandidateQuit
  <2>1. Emit("candidate_quit", 0, 0)
    BY <1>CandidateQuit DEF CandidateQuit
  <2>2. seq' \in Nat /\ sink' \in Seq(Message) /\ faults' \in 0..MaxSinkFaults
    BY <1>k, <2>1, EmitType DEF TypeOK
  <2>3. QED
    BY <1>CandidateQuit, <2>2 DEF CandidateQuit, TypeOK, MainPcs, TickPcs, sessionVars, uiVars, feedVars, probeVars, tickVars
<1>NoCandidateQuit. CASE NoCandidateQuit
  BY <1>NoCandidateQuit DEF NoCandidateQuit, TypeOK, MainPcs, TickPcs, sessionVars, uiVars, feedVars, probeVars, tickVars
<1>TrayStopped. CASE TrayStopped
  BY <1>TrayStopped DEF TrayStopped, TypeOK, MainPcs, TickPcs, sessionVars, uiVars, feedVars, probeVars, tickVars
<1>CloseCurrent. CASE CloseCurrent
  BY <1>CloseCurrent DEF CloseCurrent, CloseHeldHost, TypeOK, MainPcs, TickPcs, sessionVars, uiVars, feedVars, probeVars, tickVars
<1>Exit. CASE Exit
  BY <1>Exit DEF Exit, TypeOK, MainPcs, TickPcs, sessionVars, uiVars, feedVars, probeVars, tickVars
<1> QED
  BY <1>RunReturns, <1>AwaitTicker, <1>CandidateQuit, <1>NoCandidateQuit, <1>TrayStopped, <1>CloseCurrent, <1>Exit DEF Shutdown

LEMMA TInvScanning == TInv /\ Scanning => TInv'
<1> SUFFICES ASSUME TInv, Scanning PROVE TInv'
  OBVIOUS
<1> USE DEF TInv, CInv, StartupPcs
<1>k. {"sample"} \subseteq Kinds
  BY DEF Kinds, LifecycleKinds
<1>StopSeen. CASE StopSeen
  BY <1>StopSeen DEF StopSeen, TypeOK, MainPcs, TickPcs, sessionVars, uiVars, feedVars, probeVars, tickVars
<1>WarmUp. CASE WarmUp
  BY <1>WarmUp DEF WarmUp, TypeOK, MainPcs, TickPcs, sessionVars, uiVars, feedVars, probeVars, tickVars
<1>WarmUpFails. CASE WarmUpFails
  BY <1>WarmUpFails DEF WarmUpFails, TypeOK, MainPcs, TickPcs, sessionVars, uiVars, feedVars, probeVars, tickVars
<1>Tick. CASE Tick
  BY <1>Tick DEF Tick, TypeOK, MainPcs, TickPcs, sessionVars, uiVars, feedVars, probeVars, tickVars
<1>Sampled. CASE Sampled
  <2>1. Msg("sample", n, 0, 0) \in Message
    BY <1>k, MsgType DEF TypeOK
  <2>2. sink' \in Seq(Message) /\ faults' \in 0..MaxSinkFaults
    BY <1>Sampled, <2>1, WriteType DEF Sampled, TypeOK
  <2>3. QED
    BY <1>Sampled, <2>2 DEF Sampled, TypeOK, MainPcs, TickPcs, sessionVars, uiVars, feedVars, probeVars, tickVars
<1>ShowSample. CASE ShowSample
  BY <1>ShowSample DEF ShowSample, TypeOK, MainPcs, TickPcs, sessionVars, uiVars, feedVars, probeVars, tickVars
<1> QED
  BY <1>StopSeen, <1>WarmUp, <1>WarmUpFails, <1>Tick, <1>Sampled, <1>ShowSample DEF Scanning

LEMMA TInvRecovery == TInv /\ Recovery => TInv'
<1> SUFFICES ASSUME TInv, Recovery PROVE TInv'
  OBVIOUS
<1> USE DEF TInv, CInv, StartupPcs
<1>k. {"recovered_error", "gap_declared", "coverage", "coverage_changed", "fatal_error", "session_ended"} \subseteq Kinds
  BY DEF Kinds, LifecycleKinds
<1>ScanFails. CASE ScanFails
  BY <1>ScanFails DEF ScanFails, CloseHeldHost, Attempts, TypeOK, MainPcs, TickPcs, sessionVars, uiVars, feedVars, probeVars, tickVars
<1>RestartFails. CASE RestartFails
  BY <1>RestartFails DEF RestartFails, NextAttempt, Attempts, TypeOK, MainPcs, TickPcs, sessionVars, uiVars, feedVars, probeVars, tickVars
<1>Restart. CASE Restart
  BY <1>Restart DEF Restart, TypeOK, MainPcs, TickPcs, sessionVars, uiVars, feedVars, probeVars, tickVars
<1>RepingFails. CASE RepingFails
  BY <1>RepingFails DEF RepingFails, NextAttempt, Attempts, TypeOK, MainPcs, TickPcs, sessionVars, uiVars, feedVars, probeVars, tickVars
<1>Restarted. CASE Restarted
  BY <1>Restarted DEF Restarted, TypeOK, MainPcs, TickPcs, sessionVars, uiVars, feedVars, probeVars, tickVars
<1>DeclareError. CASE DeclareError
  <2>1. Emit("recovered_error", 0, 0)
    BY <1>DeclareError DEF DeclareError
  <2>2. seq' \in Nat /\ sink' \in Seq(Message) /\ faults' \in 0..MaxSinkFaults
    BY <1>k, <2>1, EmitType DEF TypeOK
  <2>3. QED
    BY <1>DeclareError, <2>2 DEF DeclareError, TypeOK, MainPcs, TickPcs, sessionVars, uiVars, feedVars, probeVars, tickVars
<1>DeclareGap. CASE DeclareGap
  <2>1. Emit("gap_declared", lastSampleSeq, n)
    BY <1>DeclareGap DEF DeclareGap
  <2>2. seq' \in Nat /\ sink' \in Seq(Message) /\ faults' \in 0..MaxSinkFaults
    BY <1>k, <2>1, EmitType DEF TypeOK
  <2>3. QED
    BY <1>DeclareGap, <2>2 DEF DeclareGap, TypeOK, MainPcs, TickPcs, sessionVars, uiVars, feedVars, probeVars, tickVars
<1>Recover. CASE Recover
  <2>1. Msg("coverage", seq + 1, 0, 0) \in Message
    BY <1>k, MsgType DEF TypeOK
  <2>2. sink' \in Seq(Message) /\ faults' \in 0..MaxSinkFaults
    BY <1>Recover, <2>1, WriteType DEF Recover, TypeOK
  <2>3. QED
    BY <1>Recover, <2>2 DEF Recover, TypeOK, MainPcs, TickPcs, sessionVars, uiVars, feedVars, probeVars, tickVars
<1>RecoverFails. CASE RecoverFails
  <2>1. Msg("coverage", seq + 1, 0, 0) \in Message
    BY <1>k, MsgType DEF TypeOK
  <2>2. sink' \in Seq(Message) /\ faults' \in 0..MaxSinkFaults
    BY <1>RecoverFails, <2>1, WriteType DEF RecoverFails, TypeOK
  <2>3. QED
    BY <1>RecoverFails, <2>2 DEF RecoverFails, TypeOK, MainPcs, TickPcs, sessionVars, uiVars, feedVars, probeVars, tickVars
<1>Announce. CASE Announce
  <2>1. Emit("coverage_changed", n, 0)
    BY <1>Announce DEF Announce
  <2>2. seq' \in Nat /\ sink' \in Seq(Message) /\ faults' \in 0..MaxSinkFaults
    BY <1>k, <2>1, EmitType DEF TypeOK
  <2>3. QED
    BY <1>Announce, <2>2 DEF Announce, TypeOK, MainPcs, TickPcs, sessionVars, uiVars, feedVars, probeVars, tickVars
<1>GiveUp. CASE GiveUp
  <2>1. Emit("fatal_error", 0, 0)
    BY <1>GiveUp DEF GiveUp
  <2>2. seq' \in Nat /\ sink' \in Seq(Message) /\ faults' \in 0..MaxSinkFaults
    BY <1>k, <2>1, EmitType DEF TypeOK
  <2>3. QED
    BY <1>GiveUp, <2>2 DEF GiveUp, TypeOK, MainPcs, TickPcs, sessionVars, uiVars, feedVars, probeVars, tickVars
<1>SessionEnded. CASE SessionEnded
  <2>1. Emit("session_ended", 0, 0)
    BY <1>SessionEnded DEF SessionEnded
  <2>2. seq' \in Nat /\ sink' \in Seq(Message) /\ faults' \in 0..MaxSinkFaults
    BY <1>k, <2>1, EmitType DEF TypeOK
  <2>3. QED
    BY <1>SessionEnded, <2>2 DEF SessionEnded, TypeOK, MainPcs, TickPcs, sessionVars, uiVars, feedVars, probeVars, tickVars
<1>CollectorEnds. CASE CollectorEnds
  BY <1>CollectorEnds DEF CollectorEnds, CloseSession, TypeOK, MainPcs, TickPcs, sessionVars, uiVars, feedVars, probeVars, tickVars
<1> QED
  BY <1>ScanFails, <1>RestartFails, <1>Restart, <1>RepingFails, <1>Restarted, <1>DeclareError, <1>DeclareGap, <1>Recover, <1>RecoverFails, <1>Announce, <1>GiveUp, <1>SessionEnded, <1>CollectorEnds DEF Recovery

LEMMA TInvNext == TInv /\ [Next]_vars => TInv'
<1> SUFFICES ASSUME TInv, [Next]_vars PROVE TInv'
  OBVIOUS
<1>1. CASE UNCHANGED vars
  BY <1>1 DEF vars, TInv, TypeOK, CInv, sessionVars, uiVars, feedVars, probeVars, tickVars
<1>2. CASE Startup
  BY <1>2, TInvStartup
<1>3. CASE Window
  BY <1>3, TInvWindow
<1>4. CASE Shutdown
  BY <1>4, TInvShutdown
<1>5. CASE Ticker
  BY <1>5, TInvScanning, TInvRecovery DEF Ticker
<1> QED
  BY <1>1, <1>2, <1>3, <1>4, <1>5 DEF Next, Terminated

LEMMA ControlInvariant == Spec => []TInv
<1>1. QED
  BY TInvInit, TInvNext, PTL DEF Spec

\* Type correctness for every bound: in particular no Host is closed that was
\* not started, which would make `probes` negative.
THEOREM TypeCorrect == Spec => []TypeOK
<1>1. TInv => TypeOK
  BY DEF TInv
<1>2. QED
  BY <1>1, ControlInvariant, PTL

\* Never two probe processes, and none left by a session that ended in order:
\* main closes the held Host only when no restart can be putting in another.
THEOREM ProbesAccountedFor == Spec => []NoStrayProbe
<1>1. TInv => NoStrayProbe
  BY DEF TInv, TypeOK, CInv, NoStrayProbe
<1>2. QED
  BY <1>1, ControlInvariant, PTL

-----------------------------------------------------------------------------
(* Every step leaves the feed alone, begins a call, sends a message of its   *)
(* own number, or sends the sample whose number was allocated before.        *)

Calling == {"warm", "scan"}

FeedUntouched == UNCHANGED <<seq, sink, n>> /\ (tick' \in Calling => tick' = tick)

CallBegun == sink' = sink /\ seq' = seq + 1 /\ n' = seq + 1

MessageSent ==
    \E m \in Message :
        /\ m.kind # "sample" /\ m.seq = seq + 1
        /\ sink' = sink \/ sink' = Append(sink, m)
        /\ seq' = seq + 1 /\ n' \in {n, seq + 1} /\ tick' \notin Calling

SampleSent ==
    \E m \in Message :
        /\ tick \in Calling /\ m.seq = n
        /\ sink' = sink \/ sink' = Append(sink, m)
        /\ UNCHANGED <<seq, n>> /\ tick' = "show"

FeedStep == FeedUntouched \/ CallBegun \/ MessageSent \/ SampleSent

LEMMA EmitIsMessageSent ==
    ASSUME TypeOK, NEW k \in Kinds \ {"sample"}, NEW f \in Nat, NEW t \in Nat,
           Emit(k, f, t), n' = n, tick' \notin Calling
    PROVE  MessageSent
<1> DEFINE m == Msg(k, seq + 1, f, t)
<1>1. m \in Message /\ m.kind = k /\ m.seq = seq + 1
  BY MsgType DEF TypeOK, Msg
<1>2. (sink' = sink \/ sink' = Append(sink, m)) /\ seq' = seq + 1
  BY DEF Emit, WriteIgnoringError, Written, Lost
<1>3. QED
  BY <1>1, <1>2 DEF MessageSent

LEMMA FeedStepStartup == TInv /\ Startup => FeedStep
<1> SUFFICES ASSUME TInv, Startup PROVE FeedStep
  OBVIOUS
<1> USE DEF TInv, FeedStep, Calling
<1>k. {"consent_declined", "consent_granted", "coverage"} \subseteq Kinds \ {"sample"}
  BY DEF Kinds, LifecycleKinds
<1>ConsentDeclined. CASE ConsentDeclined
  <2>1. Emit("consent_declined", 0, 0) /\ n' = n /\ tick' \notin Calling
    BY <1>ConsentDeclined DEF ConsentDeclined, CInv, StartupPcs, sessionVars, uiVars, feedVars, probeVars, tickVars
  <2>2. QED
    BY <1>k, <2>1, EmitIsMessageSent DEF TypeOK
<1>ConsentGranted. CASE ConsentGranted
  <2>1. Emit("consent_granted", 0, 0) /\ n' = n /\ tick' \notin Calling
    BY <1>ConsentGranted DEF ConsentGranted, CInv, StartupPcs, sessionVars, uiVars, feedVars, probeVars, tickVars
  <2>2. QED
    BY <1>k, <2>1, EmitIsMessageSent DEF TypeOK
<1>FirstStartFails. CASE FirstStartFails
  BY <1>FirstStartFails DEF FirstStartFails, FeedUntouched, sessionVars, uiVars, feedVars, probeVars, tickVars
<1>FirstStart. CASE FirstStart
  BY <1>FirstStart DEF FirstStart, FeedUntouched, sessionVars, uiVars, feedVars, probeVars, tickVars
<1>FirstPing. CASE FirstPing
  BY <1>FirstPing DEF FirstPing, FeedUntouched, sessionVars, uiVars, feedVars, probeVars, tickVars
<1>FirstCoverage. CASE FirstCoverage
  <2> DEFINE m == Msg("coverage", seq + 1, 0, 0)
  <2>1. m \in Message /\ m.kind # "sample" /\ m.seq = seq + 1
    BY <1>k, MsgType DEF TypeOK, Msg
  <2>2. /\ sink' = sink \/ sink' = Append(sink, m)
        /\ seq' = seq + 1 /\ n' \in {n, seq + 1} /\ tick' \notin Calling
    BY <1>FirstCoverage DEF FirstCoverage, Written, Lost, Unsynced, CInv, StartupPcs, sessionVars, uiVars, feedVars, probeVars, tickVars
  <2>3. QED
    BY <2>1, <2>2 DEF MessageSent
<1>FirstCoverageFails. CASE FirstCoverageFails
  <2> DEFINE m == Msg("coverage", seq + 1, 0, 0)
  <2>1. m \in Message /\ m.kind # "sample" /\ m.seq = seq + 1
    BY <1>k, MsgType DEF TypeOK, Msg
  <2>2. /\ sink' = sink \/ sink' = Append(sink, m)
        /\ seq' = seq + 1 /\ n' \in {n, seq + 1} /\ tick' \notin Calling
    BY <1>FirstCoverageFails DEF FirstCoverageFails, Written, Lost, Unsynced, CInv, StartupPcs, sessionVars, uiVars, feedVars, probeVars, tickVars
  <2>3. QED
    BY <2>1, <2>2 DEF MessageSent
<1>OpenMirror. CASE OpenMirror
  BY <1>OpenMirror DEF OpenMirror, FeedUntouched, sessionVars, uiVars, feedVars, probeVars, tickVars
<1>Launch. CASE Launch
  BY <1>Launch DEF Launch, FeedUntouched, sessionVars, uiVars, feedVars, probeVars, tickVars
<1> QED
  BY <1>ConsentDeclined, <1>ConsentGranted, <1>FirstStartFails, <1>FirstStart, <1>FirstPing, <1>FirstCoverage, <1>FirstCoverageFails, <1>OpenMirror, <1>Launch DEF Startup

LEMMA FeedStepWindow == TInv /\ Window => FeedStep
<1> SUFFICES ASSUME TInv, Window PROVE FeedStep
  OBVIOUS
<1> USE DEF TInv, FeedStep, Calling
<1>Draw. CASE Draw
  BY <1>Draw DEF Draw, FeedUntouched, sessionVars, uiVars, feedVars, probeVars, tickVars
<1>StopClick. CASE StopClick
  BY <1>StopClick DEF StopClick, FeedUntouched, sessionVars, uiVars, feedVars, probeVars, tickVars
<1>WindowClosed. CASE WindowClosed
  BY <1>WindowClosed DEF WindowClosed, FeedUntouched, sessionVars, uiVars, feedVars, probeVars, tickVars
<1>TrayStop. CASE TrayStop
  BY <1>TrayStop DEF TrayStop, FeedUntouched, sessionVars, uiVars, feedVars, probeVars, tickVars
<1>Closer. CASE Closer
  BY <1>Closer DEF Closer, FeedUntouched, sessionVars, uiVars, feedVars, probeVars, tickVars
<1> QED
  BY <1>Draw, <1>StopClick, <1>WindowClosed, <1>TrayStop, <1>Closer DEF Window

LEMMA FeedStepShutdown == TInv /\ Shutdown => FeedStep
<1> SUFFICES ASSUME TInv, Shutdown PROVE FeedStep
  OBVIOUS
<1> USE DEF TInv, FeedStep, Calling
<1>k. {"candidate_quit"} \subseteq Kinds \ {"sample"}
  BY DEF Kinds, LifecycleKinds
<1>RunReturns. CASE RunReturns
  BY <1>RunReturns DEF RunReturns, FeedUntouched, sessionVars, uiVars, feedVars, probeVars, tickVars
<1>AwaitTicker. CASE AwaitTicker
  BY <1>AwaitTicker DEF AwaitTicker, FeedUntouched, sessionVars, uiVars, feedVars, probeVars, tickVars
<1>CandidateQuit. CASE CandidateQuit
  <2>1. Emit("candidate_quit", 0, 0) /\ n' = n /\ tick' \notin Calling
    BY <1>CandidateQuit DEF CandidateQuit, CInv, StartupPcs, sessionVars, uiVars, feedVars, probeVars, tickVars
  <2>2. QED
    BY <1>k, <2>1, EmitIsMessageSent DEF TypeOK
<1>NoCandidateQuit. CASE NoCandidateQuit
  BY <1>NoCandidateQuit DEF NoCandidateQuit, FeedUntouched, sessionVars, uiVars, feedVars, probeVars, tickVars
<1>TrayStopped. CASE TrayStopped
  BY <1>TrayStopped DEF TrayStopped, FeedUntouched, sessionVars, uiVars, feedVars, probeVars, tickVars
<1>CloseCurrent. CASE CloseCurrent
  BY <1>CloseCurrent DEF CloseCurrent, FeedUntouched, sessionVars, uiVars, feedVars, probeVars, tickVars
<1>Exit. CASE Exit
  BY <1>Exit DEF Exit, FeedUntouched, sessionVars, uiVars, feedVars, probeVars, tickVars
<1> QED
  BY <1>RunReturns, <1>AwaitTicker, <1>CandidateQuit, <1>NoCandidateQuit, <1>TrayStopped, <1>CloseCurrent, <1>Exit DEF Shutdown

LEMMA FeedStepScanning == TInv /\ Scanning => FeedStep
<1> SUFFICES ASSUME TInv, Scanning PROVE FeedStep
  OBVIOUS
<1> USE DEF TInv, FeedStep, Calling
<1>k. "sample" \in Kinds
  BY DEF Kinds, LifecycleKinds
<1>StopSeen. CASE StopSeen
  BY <1>StopSeen DEF StopSeen, FeedUntouched, sessionVars, uiVars, feedVars, probeVars, tickVars
<1>WarmUp. CASE WarmUp
  BY <1>WarmUp DEF WarmUp, CallBegun
<1>WarmUpFails. CASE WarmUpFails
  BY <1>WarmUpFails DEF WarmUpFails, FeedUntouched, sessionVars, uiVars, feedVars, probeVars, tickVars
<1>Tick. CASE Tick
  BY <1>Tick DEF Tick, CallBegun
<1>Sampled. CASE Sampled
  <2> DEFINE m == Msg("sample", n, 0, 0)
  <2>1. m \in Message /\ m.seq = n
    BY <1>k, MsgType DEF TypeOK, Msg
  <2>2. /\ tick \in Calling /\ (sink' = sink \/ sink' = Append(sink, m))
        /\ UNCHANGED <<seq, n>> /\ tick' = "show"
    BY <1>Sampled DEF Sampled, WriteIgnoringError, Written, Lost, tickVars
  <2>3. QED
    BY <2>1, <2>2 DEF SampleSent
<1>ShowSample. CASE ShowSample
  BY <1>ShowSample DEF ShowSample, FeedUntouched, sessionVars, uiVars, feedVars, probeVars, tickVars
<1> QED
  BY <1>StopSeen, <1>WarmUp, <1>WarmUpFails, <1>Tick, <1>Sampled, <1>ShowSample DEF Scanning

LEMMA FeedStepRecovery == TInv /\ Recovery => FeedStep
<1> SUFFICES ASSUME TInv, Recovery PROVE FeedStep
  OBVIOUS
<1> USE DEF TInv, FeedStep, Calling
<1>k. {"recovered_error", "gap_declared", "coverage", "coverage_changed", "fatal_error", "session_ended"} \subseteq Kinds \ {"sample"}
  BY DEF Kinds, LifecycleKinds
<1>ScanFails. CASE ScanFails
  BY <1>ScanFails DEF ScanFails, FeedUntouched, sessionVars, uiVars, feedVars, probeVars, tickVars
<1>RestartFails. CASE RestartFails
  BY <1>RestartFails DEF RestartFails, NextAttempt, FeedUntouched, sessionVars, uiVars, feedVars, probeVars, tickVars
<1>Restart. CASE Restart
  BY <1>Restart DEF Restart, FeedUntouched, sessionVars, uiVars, feedVars, probeVars, tickVars
<1>RepingFails. CASE RepingFails
  BY <1>RepingFails DEF RepingFails, NextAttempt, FeedUntouched, sessionVars, uiVars, feedVars, probeVars, tickVars
<1>Restarted. CASE Restarted
  BY <1>Restarted DEF Restarted, FeedUntouched, sessionVars, uiVars, feedVars, probeVars, tickVars
<1>DeclareError. CASE DeclareError
  <2>1. Emit("recovered_error", 0, 0) /\ n' = n /\ tick' \notin Calling
    BY <1>DeclareError DEF DeclareError, CInv, StartupPcs, sessionVars, uiVars, feedVars, probeVars, tickVars
  <2>2. QED
    BY <1>k, <2>1, EmitIsMessageSent DEF TypeOK
<1>DeclareGap. CASE DeclareGap
  <2>1. Emit("gap_declared", lastSampleSeq, n) /\ n' = n /\ tick' \notin Calling
    BY <1>DeclareGap DEF DeclareGap, CInv, StartupPcs, sessionVars, uiVars, feedVars, probeVars, tickVars
  <2>2. QED
    BY <1>k, <2>1, EmitIsMessageSent DEF TypeOK
<1>Recover. CASE Recover
  <2> DEFINE m == Msg("coverage", seq + 1, 0, 0)
  <2>1. m \in Message /\ m.kind # "sample" /\ m.seq = seq + 1
    BY <1>k, MsgType DEF TypeOK, Msg
  <2>2. /\ sink' = sink \/ sink' = Append(sink, m)
        /\ seq' = seq + 1 /\ n' \in {n, seq + 1} /\ tick' \notin Calling
    BY <1>Recover DEF Recover, Written, Lost, Unsynced, CInv, StartupPcs, sessionVars, uiVars, feedVars, probeVars, tickVars
  <2>3. QED
    BY <2>1, <2>2 DEF MessageSent
<1>RecoverFails. CASE RecoverFails
  <2> DEFINE m == Msg("coverage", seq + 1, 0, 0)
  <2>1. m \in Message /\ m.kind # "sample" /\ m.seq = seq + 1
    BY <1>k, MsgType DEF TypeOK, Msg
  <2>2. /\ sink' = sink \/ sink' = Append(sink, m)
        /\ seq' = seq + 1 /\ n' \in {n, seq + 1} /\ tick' \notin Calling
    BY <1>RecoverFails DEF RecoverFails, Written, Lost, Unsynced, CInv, StartupPcs, sessionVars, uiVars, feedVars, probeVars, tickVars
  <2>3. QED
    BY <2>1, <2>2 DEF MessageSent
<1>Announce. CASE Announce
  <2>1. Emit("coverage_changed", n, 0) /\ n' = n /\ tick' \notin Calling
    BY <1>Announce DEF Announce, CInv, StartupPcs, sessionVars, uiVars, feedVars, probeVars, tickVars
  <2>2. QED
    BY <1>k, <2>1, EmitIsMessageSent DEF TypeOK
<1>GiveUp. CASE GiveUp
  <2>1. Emit("fatal_error", 0, 0) /\ n' = n /\ tick' \notin Calling
    BY <1>GiveUp DEF GiveUp, CInv, StartupPcs, sessionVars, uiVars, feedVars, probeVars, tickVars
  <2>2. QED
    BY <1>k, <2>1, EmitIsMessageSent DEF TypeOK
<1>SessionEnded. CASE SessionEnded
  <2>1. Emit("session_ended", 0, 0) /\ n' = n /\ tick' \notin Calling
    BY <1>SessionEnded DEF SessionEnded, CInv, StartupPcs, sessionVars, uiVars, feedVars, probeVars, tickVars
  <2>2. QED
    BY <1>k, <2>1, EmitIsMessageSent DEF TypeOK
<1>CollectorEnds. CASE CollectorEnds
  BY <1>CollectorEnds DEF CollectorEnds, FeedUntouched, sessionVars, uiVars, feedVars, probeVars, tickVars
<1> QED
  BY <1>ScanFails, <1>RestartFails, <1>Restart, <1>RepingFails, <1>Restarted, <1>DeclareError, <1>DeclareGap, <1>Recover, <1>RecoverFails, <1>Announce, <1>GiveUp, <1>SessionEnded, <1>CollectorEnds DEF Recovery

LEMMA FeedStepNext == TInv /\ [Next]_vars => FeedStep
<1> SUFFICES ASSUME TInv, [Next]_vars PROVE FeedStep
  OBVIOUS
<1>1. CASE UNCHANGED vars
  BY <1>1 DEF FeedStep, FeedUntouched, vars, feedVars, tickVars
<1>2. CASE Startup
  BY <1>2, FeedStepStartup
<1>3. CASE Window
  BY <1>3, FeedStepWindow
<1>4. CASE Shutdown
  BY <1>4, FeedStepShutdown
<1>5. CASE Ticker
  BY <1>5, FeedStepScanning, FeedStepRecovery DEF Ticker
<1> QED
  BY <1>1, <1>2, <1>3, <1>4, <1>5 DEF Next, Terminated

-----------------------------------------------------------------------------
(* The order of the feed. A number that was allocated and not yet written is *)
(* above everything written: nobody writes while the ticker has one in hand. *)

OInv ==
    /\ SinkOrdered
    /\ \A i \in DOMAIN sink : sink[i].seq <= seq
    /\ n <= seq
    /\ tick \in Calling => \A i \in DOMAIN sink : sink[i].seq < n

LEMMA AppendFacts ==
    ASSUME NEW s \in Seq(Message), NEW m \in Message
    PROVE  /\ Append(s, m) \in Seq(Message)
           /\ DOMAIN s = 1..Len(s) /\ DOMAIN Append(s, m) = 1..(Len(s) + 1)
           /\ \A i \in DOMAIN s : Append(s, m)[i] = s[i]
           /\ Append(s, m)[Len(s) + 1] = m
           /\ \A i \in DOMAIN s : s[i] \in Message
  OBVIOUS

LEMMA SinkElements ==
    ASSUME TypeOK
    PROVE  \A i \in DOMAIN sink : sink[i] \in Message /\ sink[i].seq \in Nat
<1>1. sink \in Seq(Message)
  BY DEF TypeOK
<1>2. \A i \in DOMAIN sink : sink[i] \in Message
  BY <1>1
<1>3. QED
  BY <1>2 DEF Message

\* Appending a message with a number above all others keeps the order.
LEMMA AppendOrdered ==
    ASSUME TypeOK, SinkOrdered, NEW m \in Message, sink' = Append(sink, m),
           \A i \in DOMAIN sink : sink[i].seq < m.seq,
           NEW bound \in Nat, m.seq <= bound
    PROVE  SinkOrdered' /\ \A i \in DOMAIN sink' : sink'[i].seq <= bound
<1>1. sink \in Seq(Message)
  BY DEF TypeOK
<1>2. \A i \in DOMAIN sink' : i \in DOMAIN sink \/ i = Len(sink) + 1
  BY <1>1, AppendFacts
<1>3. \A i \in DOMAIN sink : sink'[i] = sink[i] /\ i < Len(sink) + 1 /\ i \in Nat
  BY <1>1, AppendFacts
<1>4. sink'[Len(sink) + 1] = m /\ Len(sink) \in Nat
  BY <1>1, AppendFacts
<1>5. \A i \in DOMAIN sink : sink[i].seq \in Nat
  BY SinkElements
<1>6. SinkOrdered'
  BY <1>2, <1>3, <1>4 DEF SinkOrdered
<1>7. m.seq \in Nat
  BY DEF Message
<1>8. QED
  BY <1>2, <1>3, <1>4, <1>5, <1>6, <1>7

LEMMA OInvNext == TInv /\ OInv /\ [Next]_vars => OInv'
<1> SUFFICES ASSUME TInv, OInv, [Next]_vars PROVE OInv'
  OBVIOUS
<1>t. /\ TypeOK /\ seq \in Nat /\ n \in Nat /\ sink \in Seq(Message)
      /\ \A i \in DOMAIN sink : sink[i].seq \in Nat
  BY SinkElements DEF TInv, TypeOK
<1>1. CASE FeedUntouched
  BY <1>1 DEF OInv, SinkOrdered, FeedUntouched
<1>2. CASE CallBegun
  BY <1>2, <1>t DEF OInv, SinkOrdered, CallBegun
<1>3. CASE MessageSent
  <2>1. PICK m \in Message :
            /\ m.seq = seq + 1
            /\ sink' = sink \/ sink' = Append(sink, m)
            /\ seq' = seq + 1 /\ n' \in {n, seq + 1} /\ tick' \notin Calling
    BY <1>3 DEF MessageSent
  <2>2. SinkOrdered' /\ \A i \in DOMAIN sink' : sink'[i].seq <= seq'
    <3>1. CASE sink' = sink
      BY <2>1, <3>1, <1>t DEF OInv, SinkOrdered
    <3>2. CASE sink' = Append(sink, m)
      <4>1. \A i \in DOMAIN sink : sink[i].seq < m.seq
        BY <2>1, <1>t DEF OInv
      <4>2. QED
        BY <2>1, <3>2, <4>1, <1>t, AppendOrdered DEF OInv
    <3>3. QED
      BY <2>1, <3>1, <3>2
  <2>3. QED
    BY <2>1, <2>2, <1>t DEF OInv
<1>4. CASE SampleSent
  <2>1. PICK m \in Message :
            /\ tick \in Calling /\ m.seq = n
            /\ sink' = sink \/ sink' = Append(sink, m)
            /\ UNCHANGED <<seq, n>> /\ tick' = "show"
    BY <1>4 DEF SampleSent
  <2>2. SinkOrdered' /\ \A i \in DOMAIN sink' : sink'[i].seq <= seq'
    <3>1. CASE sink' = sink
      BY <2>1, <3>1 DEF OInv, SinkOrdered
    <3>2. CASE sink' = Append(sink, m)
      BY <2>1, <3>2, <1>t, AppendOrdered DEF OInv
    <3>3. QED
      BY <2>1, <3>1, <3>2
  <2>3. QED
    BY <2>1, <2>2 DEF OInv, Calling
<1> QED
  BY <1>1, <1>2, <1>3, <1>4, FeedStepNext DEF FeedStep

\* The feed is in seq order, for every number of scans and restarts: main
\* writes only when the sampling goroutine has no number in hand.
THEOREM FeedInOrder == Spec => []SinkOrdered
<1>1. Init => OInv
  BY DEF Init, OInv, SinkOrdered, Calling
<1>2. OInv => SinkOrdered
  BY DEF OInv
<1>3. QED
  BY <1>1, <1>2, OInvNext, ControlInvariant, PTL DEF Spec

=============================================================================
