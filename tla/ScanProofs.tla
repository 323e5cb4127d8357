------------------------------ MODULE ScanProofs ------------------------------
(***************************************************************************)
(* Theorems about Scan for any machine, any number of changes, of failing   *)
(* calls and of commands.                                                   *)
(***************************************************************************)
EXTENDS ScanProperties, FiniteSetTheorems, TLAPS

-----------------------------------------------------------------------------
(* A partial sample is never complete *)

Early == {"windows", "snapshot", "com"}

\* Which command is under way, and where its end is.
Control ==
    /\ op \in {"idle", "scan", "coverage"}
    /\ op = "idle" => pc = "idle" /\ meta = Snapshot /\ failed = 0
    /\ op # "idle" => reply = None
    /\ pc = "done" => op = "scan"
    /\ pc = "report" => op = "coverage"

MetaShape ==
    /\ DOMAIN meta = {"complete", "probe_errors", "unreadable"}
    /\ meta.complete \in BOOLEAN
    /\ failed \in Nat

\* What the honesty record says while the scan is still under way; endpoints
\* that failed are only counted until its end.
Honest ==
    op = "scan" =>
        /\ meta.complete <=> faults \cap Early = {}
        /\ meta.complete <=> meta.probe_errors = {}
        /\ failed = 0 <=> "endpoints" \notin faults

MetaInv == Control /\ MetaShape /\ Honest /\ PartialNeverClean

\* A set of endpoints is finite, so counting a broken one counts it.
LEMMA FailuresCount ==
    ASSUME NEW n \in Nat, NEW flow, NEW broken \in SUBSET Devices(flow)
    PROVE  /\ CountFailed(n, broken) \in Nat
           /\ CountFailed(n, broken) = 0 <=> n = 0 /\ broken = {}
<1>1. broken \subseteq {DeviceOf[s] : s \in Session}
      BY DEF OnFlow, Devices
<1>2. IsFiniteSet(broken)
      BY <1>1, MachineAssumption, FS_Subset
<1>3. Cardinality(broken) \in Nat /\ (Cardinality(broken) = 0 <=> broken = {})
      BY <1>2, FS_CardinalityType, FS_EmptySet
<1> QED BY <1>3 DEF CountFailed

\* RecordError makes a record incomplete and gives it an error.
LEMMA RecordedError ==
    ASSUME NEW m, NEW code, DOMAIN m = {"complete", "probe_errors", "unreadable"}
    PROVE  /\ DOMAIN RecordError(m, code) = DOMAIN m
           /\ RecordError(m, code).complete = FALSE
           /\ RecordError(m, code).probe_errors # {}
BY DEF RecordError

\* CountUnreadable leaves the rest of the record alone.
LEMMA CountedUnreadable ==
    ASSUME NEW m, NEW key, NEW n, DOMAIN m = {"complete", "probe_errors", "unreadable"}
    PROVE  /\ DOMAIN CountUnreadable(m, key, n) = DOMAIN m
           /\ CountUnreadable(m, key, n).complete = m.complete
           /\ CountUnreadable(m, key, n).probe_errors = m.probe_errors
BY DEF CountUnreadable

\* The invariant holds at first.
LEMMA MetaInit == Init => MetaInv
BY DEF Init, MetaInv, Control, MetaShape, Honest, PartialNeverClean, IsSample, Snapshot

\* A step that leaves the honesty record alone, and adds no loud fault.
LEMMA MetaQuiet ==
    ASSUME MetaInv, op # "idle", UNCHANGED <<op, meta, failed, reply>>,
           faults' \cap Loud = faults \cap Loud,
           pc' = "done" => op = "scan", pc' = "report" => op = "coverage"
    PROVE  MetaInv'
<1>1. Early \subseteq Loud /\ "endpoints" \in Loud
      BY DEF Early, Loud
<1>2. faults' \cap Early = faults \cap Early /\ ("endpoints" \in faults' <=> "endpoints" \in faults)
      BY <1>1
<1>3. Control' /\ MetaShape' /\ ~IsSample'
      BY DEF MetaInv, Control, MetaShape, IsSample
<1>4. Honest'
      BY <1>2 DEF MetaInv, Honest
<1> QED BY <1>3, <1>4 DEF MetaInv, PartialNeverClean

\* A step on which a call fails that the scan records at once.
LEMMA MetaRecorded ==
    ASSUME MetaInv, op # "idle", UNCHANGED <<op, failed, reply>>,
           NEW code, NEW kind \in Early, faults' = faults \cup {kind},
           meta' = RecordError(meta, code),
           pc' = "done" => op = "scan", pc' = "report" => op = "coverage"
    PROVE  MetaInv'
<1>1. Control' /\ ~IsSample'
      BY DEF MetaInv, Control, IsSample
<1>2. /\ DOMAIN meta' = DOMAIN meta
      /\ meta'.complete = FALSE /\ meta'.probe_errors # {}
      BY RecordedError DEF MetaInv, MetaShape
<1>3. MetaShape'
      BY <1>2 DEF MetaInv, MetaShape
<1>4. "endpoints" \in faults' <=> "endpoints" \in faults
      BY DEF Early
<1>5. Honest'
      BY <1>2, <1>4 DEF MetaInv, Honest
<1> QED BY <1>1, <1>3, <1>5 DEF MetaInv, PartialNeverClean

\* A step on which endpoints of a flow fail, or none.
LEMMA MetaCounted ==
    ASSUME MetaInv, op # "idle", UNCHANGED <<op, meta, reply>>,
           NEW broken, failed' = CountFailed(failed, broken),
           CountFailed(failed, broken) \in Nat,
           CountFailed(failed, broken) = 0 <=> failed = 0 /\ broken = {},
           NEW kinds, faults' = faults \cup kinds,
           kinds \cap Early = {}, "endpoints" \in kinds <=> broken # {},
           pc' = "done" => op = "scan", pc' = "report" => op = "coverage"
    PROVE  MetaInv'
<1>1. Control' /\ MetaShape' /\ ~IsSample'
      BY DEF MetaInv, Control, MetaShape, IsSample
<1>2. Honest'
      BY DEF MetaInv, Honest
<1> QED BY <1>1, <1>2 DEF MetaInv, PartialNeverClean

\* A call of the audio loop: endpoints and sessions of one flow.
LEMMA MetaEnumerate ==
    ASSUME MetaInv, NEW flow \in {"capture", "render"}, Enumerate(flow)
    PROVE  MetaInv'
<1>1. PICK broken \in SUBSET Devices(flow), lost \in SUBSET Opened(flow) :
      \E unread \in SUBSET (Opened(flow) \ lost) :
        /\ Faults(If(broken # {}, "endpoints") \cup If(lost # {}, "session")
                  \cup If(unread # {}, "state"))
        /\ failed' = CountFailed(failed, broken)
      BY DEF Enumerate
<1>2. PICK unread \in SUBSET (Opened(flow) \ lost) :
        /\ Faults(If(broken # {}, "endpoints") \cup If(lost # {}, "session")
                  \cup If(unread # {}, "state"))
        /\ failed' = CountFailed(failed, broken)
      BY <1>1
<1> DEFINE kinds == If(broken # {}, "endpoints") \cup If(lost # {}, "session")
                        \cup If(unread # {}, "state")
<1>3. /\ pc = flow /\ UNCHANGED <<op, meta, reply>>
      /\ pc' = "done" => op = "scan"
      /\ pc' # "report"
      BY DEF Enumerate, AfterAudio
<1>4. op # "idle"
      BY <1>3 DEF MetaInv, Control
<1>5. kinds \cap Early = {} /\ ("endpoints" \in kinds <=> broken # {})
      BY DEF If, Early
<1>6. faults' = faults \cup kinds
      BY <1>2 DEF Faults
<1>7. /\ CountFailed(failed, broken) \in Nat
      /\ CountFailed(failed, broken) = 0 <=> failed = 0 /\ broken = {}
      BY FailuresCount DEF MetaInv, MetaShape
<1> HIDE DEF kinds
<1> QED BY <1>2, <1>3, <1>4, <1>5, <1>6, <1>7, MetaCounted

\* The flow cannot be enumerated: one failure.
LEMMA MetaEndpointsFail ==
    ASSUME MetaInv, NEW flow \in {"capture", "render"}, EndpointsFail(flow)
    PROVE  MetaInv'
<1>1. /\ pc = flow /\ UNCHANGED <<op, meta, reply>>
      /\ faults' = faults \cup {"endpoints"}
      /\ failed' = CountFailed(failed, {flow})
      /\ pc' = "done" => op = "scan"
      /\ pc' # "report"
      BY DEF EndpointsFail, AfterAudio, Faults
<1>2. op # "idle"
      BY <1>1 DEF MetaInv, Control
<1>3. /\ CountFailed(failed, {flow}) \in Nat
      /\ CountFailed(failed, {flow}) = 0 <=> failed = 0 /\ {flow} = {}
      <2>1. IsFiniteSet({flow}) /\ Cardinality({flow}) = 1
            BY FS_Singleton
      <2> QED BY <2>1 DEF CountFailed, MetaInv, MetaShape
<1>4. {"endpoints"} \cap Early = {}
      BY DEF Early
<1> QED BY <1>1, <1>2, <1>3, <1>4, MetaCounted

\* The scan's answer: endpoints that failed make it incomplete now.
LEMMA MetaFinish ==
    ASSUME MetaInv, Finish
    PROVE  MetaInv'
<1>1. op = "scan" /\ pc = "done"
      BY DEF Finish, MetaInv, Control
<1>2. reply' = SampleEnvelope(observations \cup {MicRow(h) : h \in holders}, FinalMeta)
      BY DEF Finish, Reply
<1>3. reply'.meta = FinalMeta
      BY <1>2 DEF SampleEnvelope
<1>4. /\ meta.complete \in BOOLEAN
      /\ meta.complete <=> faults \cap Early = {}
      /\ meta.complete <=> meta.probe_errors = {}
      /\ failed = 0 <=> "endpoints" \notin faults
      BY <1>1 DEF MetaInv, MetaShape, Honest
<1>5. /\ FinalMeta.complete <=> faults \cap Loud = {}
      /\ FinalMeta.complete <=> FinalMeta.probe_errors = {}
      <2>1. CASE failed = 0
            <3>1. FinalMeta = meta
                  BY <2>1 DEF FinalMeta
            <3>2. faults \cap Loud = {} <=> faults \cap Early = {}
                  BY <2>1, <1>4 DEF Loud, Early
            <3> QED BY <3>1, <3>2, <1>4
      <2>2. CASE failed # 0
            <3>1. FinalMeta = CountUnreadable(RecordError(meta, "S3"), "audio_endpoints", failed)
                  BY <2>2 DEF FinalMeta
            <3> DEFINE m == RecordError(meta, "S3")
            <3>2. /\ DOMAIN m = {"complete", "probe_errors", "unreadable"}
                  /\ m.complete = FALSE /\ m.probe_errors # {}
                  BY RecordedError DEF MetaInv, MetaShape
            <3> HIDE DEF m
            <3>3. FinalMeta = CountUnreadable(m, "audio_endpoints", failed)
                  BY <3>1 DEF m
            <3>4. FinalMeta.complete = FALSE /\ FinalMeta.probe_errors # {}
                  BY <3>2, <3>3, CountedUnreadable
            <3>5. faults \cap Loud # {}
                  BY <2>2, <1>4 DEF Loud
            <3> QED BY <3>4, <3>5
      <2> QED BY <2>1, <2>2
<1>6. faults' = faults
      BY DEF Finish, Reply
<1>7. PartialNeverClean'
      BY <1>3, <1>5, <1>6 DEF PartialNeverClean, Loud
<1>8. op' = "idle" /\ pc' = "idle" /\ meta' = Snapshot /\ failed' = 0
      BY DEF Finish, Reply, LocalsReset
<1>9. Control' /\ MetaShape' /\ Honest'
      BY <1>8 DEF Control, MetaShape, Honest, Snapshot
<1> QED BY <1>7, <1>9 DEF MetaInv

\* The report's answer is no sample.
LEMMA MetaReport ==
    ASSUME MetaInv, Report
    PROVE  MetaInv'
<1>1. reply'.type = "coverage_report"
      BY DEF Report, Reply, CoverageReport
<1>2. op' = "idle" /\ pc' = "idle" /\ meta' = Snapshot /\ failed' = 0
      BY DEF Report, Reply, LocalsReset
<1>3. Control' /\ MetaShape' /\ Honest'
      BY <1>2 DEF Control, MetaShape, Honest, Snapshot
<1> QED BY <1>1, <1>3 DEF MetaInv, PartialNeverClean, IsSample

\* A command begins with a clean record.
LEMMA MetaBegin ==
    ASSUME MetaInv, BeginScan \/ BeginCoverage
    PROVE  MetaInv'
<1>1. op = "idle" /\ op' \in {"scan", "coverage"} /\ pc' \in {"sweep", "list"}
      BY DEF BeginScan, BeginCoverage, Begin
<1>2. reply' = None /\ faults' = {} /\ UNCHANGED <<meta, failed>>
      BY DEF BeginScan, BeginCoverage, Begin, locals
<1>3. meta = Snapshot /\ failed = 0
      BY <1>1 DEF MetaInv, Control
<1>4. Control' /\ MetaShape' /\ Honest'
      BY <1>1, <1>2, <1>3 DEF Control, MetaShape, Honest, Snapshot
<1> QED BY <1>2, <1>4 DEF MetaInv, PartialNeverClean, IsSample

\* Every step keeps the invariant, one case for each action.
LEMMA MetaStep == MetaInv /\ [Next]_vars => MetaInv'
<1> SUFFICES ASSUME MetaInv, [Next]_vars PROVE MetaInv'
    OBVIOUS
<1>1. pc # "idle" => op # "idle"
      BY DEF MetaInv, Control
<1>2. CASE BeginScan \/ BeginCoverage
      BY <1>2, MetaBegin
<1>3. CASE Sweep
      <2>1. faults' \cap Loud = faults \cap Loud
            <3>1. PICK unread \in SUBSET OpenWindows : Faults(If(unread # {}, "affinity"))
                  BY <1>3 DEF Sweep
            <3> QED BY <3>1 DEF Faults, If, Loud
      <2>2. /\ pc = "sweep" /\ UNCHANGED <<op, meta, failed, reply>>
            /\ pc' # "done" /\ (pc' = "report" => op = "coverage")
            BY <1>3 DEF Sweep
      <2> QED BY <1>1, <2>1, <2>2, MetaQuiet
<1>4. CASE SweepFails
      <2>1. /\ pc = "sweep" /\ UNCHANGED <<op, failed, reply>>
            /\ faults' = faults \cup {"windows"}
            BY <1>4 DEF SweepFails, Faults
      <2>2. CASE op = "scan"
            <3>1. meta' = RecordError(meta, "S5") /\ pc' = "list"
                  BY <1>4, <2>2 DEF SweepFails
            <3> QED BY <1>1, <2>1, <3>1, MetaRecorded DEF Early
      <2>3. CASE op # "scan"
            <3>1. op = "coverage" /\ meta' = meta /\ pc' = "report"
                  BY <1>4, <2>3 DEF SweepFails
            <3> QED BY <2>1, <3>1 DEF MetaInv, Control, MetaShape, Honest, PartialNeverClean, IsSample
      <2> QED BY <2>2, <2>3
<1>5. CASE List
      <2>1. faults' \cap Loud = faults \cap Loud
            <3>1. PICK listed \in SUBSET ({0} \cup Alive) : Faults(If(listed # {0} \cup Alive, "list"))
                  BY <1>5 DEF List
            <3> QED BY <3>1 DEF Faults, If, Loud
      <2>2. pc = "list" /\ pc' = "resolve" /\ UNCHANGED <<op, meta, failed, reply>>
            BY <1>5 DEF List
      <2> QED BY <1>1, <2>1, <2>2, MetaQuiet
<1>6. CASE ListFails
      <2>1. /\ pc = "list" /\ UNCHANGED <<op, failed, reply>>
            /\ faults' = faults \cup {"snapshot"}
            BY <1>6 DEF ListFails, Faults
      <2>2. CASE op = "scan"
            <3>1. meta' = RecordError(meta, "S1") /\ pc' = "observe"
                  BY <1>6, <2>2 DEF ListFails
            <3> QED BY <1>1, <2>1, <3>1, MetaRecorded DEF Early
      <2>3. CASE op # "scan"
            <3>1. op = "coverage" /\ meta' = meta /\ pc' = "own"
                  BY <1>6, <2>3 DEF ListFails
            <3> QED BY <2>1, <3>1 DEF MetaInv, Control, MetaShape, Honest, PartialNeverClean, IsSample
      <2> QED BY <2>2, <2>3
<1>7. CASE Resolve
      <2>1. faults' = faults \/ faults' = faults \cup {"image"}
            BY <1>7 DEF Resolve, Faults
      <2>2. pc = "resolve" /\ UNCHANGED <<op, pc, meta, failed, reply>>
            BY <1>7 DEF Resolve
      <2>3. faults' \cap Loud = faults \cap Loud
            BY <2>1 DEF Loud
      <2> QED BY <1>1, <2>2, <2>3, MetaQuiet
<1>8. CASE Resolved
      <2>1. pc = "resolve" /\ UNCHANGED <<op, failed, reply, faults>>
            BY <1>8 DEF Resolved
      <2>2. CASE op = "scan"
            <3>1. meta' = CountUnreadable(meta, "process_paths", UnreadablePaths) /\ pc' = "observe"
                  BY <1>8, <2>2 DEF Resolved
            <3>2. /\ DOMAIN meta' = DOMAIN meta
                  /\ meta'.complete = meta.complete /\ meta'.probe_errors = meta.probe_errors
                  BY <3>1, CountedUnreadable DEF MetaInv, MetaShape
            <3>3. Control' /\ MetaShape' /\ Honest' /\ ~IsSample'
                  BY <2>1, <2>2, <3>1, <3>2
                  DEF MetaInv, Control, MetaShape, Honest, IsSample
            <3> QED BY <3>3 DEF MetaInv, PartialNeverClean
      <2>3. CASE op # "scan"
            <3>1. op = "coverage" /\ meta' = meta /\ pc' = "own"
                  BY <1>8, <2>3 DEF Resolved
            <3> QED BY <1>1, <2>1, <3>1, MetaQuiet
      <2> QED BY <2>2, <2>3
<1>9. CASE HashFile
      <2>1. /\ pc \in {"own", "observe"}
            /\ UNCHANGED <<op, pc, meta, failed, reply, faults>>
            BY <1>9 DEF HashFile, Wanted
      <2> QED BY <1>1, <2>1, MetaQuiet
<1>10. CASE \/ TrustFile
            \/ MachineChanges /\ UNCHANGED <<op, pc, locals, cache, reply, faults, commands>>
            \/ UNCHANGED vars
      <2>1. UNCHANGED <<op, pc, meta, failed, reply, faults>>
            BY <1>10 DEF TrustFile, locals, vars
      <2> QED BY <2>1 DEF MetaInv, Control, MetaShape, Honest, PartialNeverClean, IsSample
<1>11. CASE Observe
      <2>1. pc = "observe" /\ UNCHANGED <<op, pc, meta, failed, reply, faults>>
            BY <1>11 DEF Observe
      <2> QED BY <1>1, <2>1, MetaQuiet
<1>12. CASE OwnImage
      <2>1. pc = "own" /\ pc' = "capture" /\ UNCHANGED <<op, meta, failed, reply>>
            BY <1>12 DEF OwnImage
      <2>2. faults' = faults \/ faults' = faults \cup {"image"}
            BY <1>12 DEF OwnImage, Faults
      <2>3. faults' \cap Loud = faults \cap Loud
            BY <2>2 DEF Loud
      <2> QED BY <1>1, <2>1, <2>3, MetaQuiet
<1>13. CASE Foreground
      <2>1. pc = "observe" /\ pc' = "capture" /\ UNCHANGED <<op, meta, failed, reply, faults>>
            BY <1>13 DEF Foreground
      <2> QED BY <1>1, <2>1, MetaQuiet
<1>14. CASE Audio
      <2>1. CASE ComFails
            <3>1. /\ pc = "capture" /\ UNCHANGED <<op, failed, reply>>
                  /\ faults' = faults \cup {"com"}
                  BY <2>1 DEF ComFails, Faults
            <3>2. CASE op = "scan"
                  <4>1. meta' = RecordError(meta, "S3") /\ pc' = "done"
                        BY <2>1, <3>2 DEF ComFails
                  <4> QED BY <1>1, <3>1, <3>2, <4>1, MetaRecorded DEF Early
            <3>3. CASE op # "scan"
                  <4>1. op = "coverage" /\ meta' = meta /\ pc' = "sweep"
                        BY <2>1, <3>3 DEF ComFails
                  <4> QED BY <3>1, <4>1
                          DEF MetaInv, Control, MetaShape, Honest, PartialNeverClean, IsSample
            <3> QED BY <3>2, <3>3
      <2> QED BY <1>14, <2>1, MetaEnumerate, MetaEndpointsFail DEF Audio
<1>15. CASE Finish
      BY <1>15, MetaFinish
<1>16. CASE Report
      BY <1>16, MetaReport
<1>17. CASE ProbeStep
      BY <1>17, <1>3, <1>4, <1>5, <1>6, <1>7, <1>8, <1>9, <1>10, <1>11, <1>12, <1>13, <1>14,
         <1>15, <1>16, Zenon DEF ProbeStep, Windows, Processes
<1>18. CASE Next
      BY <1>18, <1>2, <1>10, <1>17, Zenon DEF Next
<1> QED BY <1>10, <1>18

\* On any machine, a sample says complete exactly when no call failed that the
\* scan takes for an error, and never beside a listed error (lib.rs scan):
\* endpoints that fail are counted apart from the record until its end.
THEOREM PartialIsMarked == Spec => []PartialNeverClean
<1>1. MetaInv => PartialNeverClean
      BY DEF MetaInv
<1> QED BY <1>1, MetaInit, MetaStep, PTL DEF Spec
=============================================================================
