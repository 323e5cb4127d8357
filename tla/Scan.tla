--------------------------------- MODULE Scan ---------------------------------
(***************************************************************************)
(* One probe-serve process at work: `scan` of cp-win/src/lib.rs with the     *)
(* probes it calls (affinity, process, signature, foreground, audio), and    *)
(* `probe_all` of cp-win/src/capability.rs, which calls the same ones. A     *)
(* step is one call of Windows, or the end of a loop; the machine may change *)
(* between any two, and each call may fail. Commands come one at a time,     *)
(* probe_serve's loop sees to that. The signature cache outlives commands;   *)
(* everything else is a local variable of the command.                       *)
(*                                                                           *)
(* The processes are looked at in the order of their pids: no step on one    *)
(* depends on another, so one order stands for all.                          *)
(***************************************************************************)
EXTENDS Machine, Coverage

CONSTANTS
    OwnExe,         \* the collector's own image
    MaxTrouble,     \* bound: the machine's changes and the kinds of call that
                    \* fail within a command, together
    MaxCommands     \* bound: commands

ASSUME ScanAssumption ==
    /\ OwnExe \in Path \ Protected
    /\ MaxTrouble \in Nat /\ MaxCommands \in Nat

VARIABLES
    op,             \* the command: "idle", "scan", "coverage"
    pc,             \* the call that comes next
    sweep,          \* WindowSweep
    procs,          \* the process list: an image for each pid
    todo,           \* pids the current loop has yet to look at
    hashed,         \* inside verify: a path and the hash made of it
    holders,        \* MicHolders; `session` tells the entries of the Vec apart
    failed,         \* failed_devices
    meta, observations, capabilities,
    cache,          \* signature::cache: a verdict for each path, or None
    reply,          \* the answer to the last command
    faults,         \* history: what failed in the last command
    commands

locals == <<sweep, procs, todo, hashed, holders, failed, meta, observations, capabilities>>
vars   == <<op, pc, locals, cache, reply, faults, commands, machineVars>>

NoProcs    == [p \in {} |-> None]
EmptySweep == [non_default |-> {}, owners |-> {}, visible |-> {},
               counts |-> [p \in Pid |-> 0], unreadable |-> 0, total |-> 0]

LocalsReset ==
    /\ sweep' = EmptySweep /\ procs' = NoProcs /\ todo' = {} /\ hashed' = None
    /\ holders' = {} /\ failed' = 0 /\ meta' = Snapshot
    /\ observations' = {} /\ capabilities' = {}

Init ==
    /\ op = "idle" /\ pc = "idle"
    /\ sweep = EmptySweep /\ procs = NoProcs /\ todo = {} /\ hashed = None
    /\ holders = {} /\ failed = 0 /\ meta = Snapshot
    /\ observations = {} /\ capabilities = {}
    /\ cache = [path \in Path |-> None]
    /\ reply = None /\ faults = {} /\ commands = 0
    /\ MachineInit

\* Calls of Windows that fail. Four kinds are errors to the scan, the others
\* it takes for answers.
FaultKinds == {"windows", "snapshot", "com", "endpoints", "list", "affinity", "image", "session",
               "state"}
Loud       == {"windows", "snapshot", "com", "endpoints"}

Faults(kinds) ==
    /\ faults' = faults \cup kinds
    /\ Cardinality(faults') + changes <= MaxTrouble

If(b, kind) == IF b THEN {kind} ELSE {}

Begin(command, first) ==
    /\ op = "idle" /\ commands < MaxCommands
    /\ op' = command /\ pc' = first
    /\ commands' = commands + 1
    /\ reply' = None /\ faults' = {} /\ touched' = {}
    /\ UNCHANGED <<locals, cache, machine, held, changes>>

BeginScan     == Begin("scan", "sweep")
BeginCoverage == Begin("coverage", "list")

Reply(message) ==
    /\ reply' = message
    /\ op' = "idle" /\ pc' = "idle"
    /\ LocalsReset
    /\ UNCHANGED <<cache, faults, commands, machineVars>>

-----------------------------------------------------------------------------
(* affinity.rs *)

\* Mutant of Reported: hidden windows are passed over.
VisibleOnly(unread) ==
    {w \in OpenWindows \ unread : windows[w].affinity # "WDA_NONE" /\ windows[w].visible}

\* Hidden windows too.
Reported(unread) == {w \in OpenWindows \ unread : windows[w].affinity # "WDA_NONE"}

\* enum_proc over all windows. One whose affinity cannot be read is counted,
\* and its owner too. A title that cannot be read is an empty one.
SweepOf(unread) ==
    [non_default |-> {[hwnd |-> w, pid |-> windows[w].pid, visible |-> windows[w].visible,
                       affinity |-> windows[w].affinity, title |-> TitleOf[w]] : w \in Reported(unread)},
     owners      |-> {windows[w].pid : w \in OpenWindows},
     visible     |-> {windows[w].pid : w \in {v \in OpenWindows : windows[v].visible}},
     counts      |-> [p \in Pid |-> Cardinality({w \in OpenWindows : windows[w].pid = p})],
     unreadable  |-> Cardinality(unread),
     total       |-> Cardinality(OpenWindows)]

Sweep ==
    /\ pc = "sweep"
    /\ \E unread \in SUBSET OpenWindows :
        /\ Faults(If(unread # {}, "affinity"))
        /\ sweep' = SweepOf(unread)
    /\ \/ /\ op = "scan" /\ pc' = "list"
          /\ UNCHANGED capabilities
       \/ /\ op = "coverage" /\ pc' = "report"
          /\ capabilities' = capabilities
                \cup {CapabilityOfWindows(sweep'.total, sweep'.unreadable)}
    /\ UNCHANGED <<op, procs, todo, hashed, holders, failed, meta, observations,
                   cache, reply, commands, machineVars>>

\* The scan goes on without the windows.
SweepFails ==
    /\ pc = "sweep" /\ Faults({"windows"})
    /\ \/ /\ op = "scan" /\ pc' = "list"
          /\ meta' = RecordError(meta, "S5")
          /\ UNCHANGED capabilities
       \/ /\ op = "coverage" /\ pc' = "report"
          /\ capabilities' = capabilities \cup {WindowsDenied}
          /\ UNCHANGED meta
    /\ UNCHANGED <<op, sweep, procs, todo, hashed, holders, failed, observations,
                   cache, reply, commands, machineVars>>

WindowCount(p) == IF p = 0 THEN 0 ELSE sweep.counts[p]

\* affinity::observe and foreground::probe name the process from the list.
ListedSubject(p) ==
    NewSubject(p, IF p \in DOMAIN procs THEN procs[p] ELSE Unreadable("exited"))

\* Mutant of WindowSubject: the process list is not consulted.
UnlistedSubject(p) == NewSubject(p, Unreadable("exited"))

WindowSubject(p) == ListedSubject(p)

ExclusionRow(w) ==
    Observation("S5", WindowSubject(w.pid),
                DetailS5(w.affinity, WindowRef(w.hwnd, w.title, w.visible)))

-----------------------------------------------------------------------------
(* process.rs *)

\* CreateToolhelp32Snapshot: the processes of one moment. Process32FirstW or
\* Process32NextW failing is taken for the end of them.
List ==
    /\ pc = "list" /\ pc' = "resolve"
    /\ \E listed \in SUBSET ({0} \cup Alive) :
        /\ \A p \in {0} \cup Alive, q \in listed : p < q => p \in listed
        /\ Faults(If(listed # {0} \cup Alive, "list"))
        /\ todo' = listed
        /\ procs' = [p \in listed |-> Unreadable("unknown")]
    /\ UNCHANGED <<op, sweep, hashed, holders, failed, meta, observations, capabilities,
                   cache, reply, commands, machineVars>>

ListFails ==
    /\ pc = "list" /\ Faults({"snapshot"})
    /\ \/ /\ op = "scan" /\ pc' = "observe"
          /\ meta' = RecordError(meta, "S1")
          /\ UNCHANGED capabilities
       \/ /\ op = "coverage" /\ pc' = "own"
          /\ capabilities' = capabilities \cup ProcessesDenied
          /\ UNCHANGED meta
    /\ UNCHANGED <<op, sweep, procs, todo, hashed, holders, failed, observations,
                   cache, reply, commands, machineVars>>

First(p) == p \in todo /\ \A q \in todo : p <= q

\* resolve_path
ImageOf(p) ==
    IF p = 0 THEN Unreadable("not_applicable")
    ELSE IF running[p] = None THEN Unreadable("exited")
    ELSE IF running[p] \in Protected THEN Unreadable("access_denied")
    ELSE Readable(running[p])

\* QueryFullProcessImageNameW may fail on a process that could be opened.
Resolve ==
    /\ pc = "resolve"
    /\ \E p \in todo :
        /\ First(p) /\ todo' = todo \ {p}
        /\ \/ /\ procs' = [procs EXCEPT ![p] = ImageOf(p)]
              /\ UNCHANGED faults
           \/ /\ IsReadable(ImageOf(p)) /\ Faults({"image"})
              /\ procs' = [procs EXCEPT ![p] = Unreadable("unknown")]
    /\ UNCHANGED <<op, pc, sweep, hashed, holders, failed, meta, observations, capabilities,
                   cache, reply, commands, machineVars>>

\* Mutant of UnreadablePaths: only those that refuse to be opened.
RefusedPaths == Cardinality({p \in DOMAIN procs : procs[p].state = "access_denied"})

UnreadablePaths == Cardinality({p \in DOMAIN procs : ~IsReadable(procs[p])})

Resolved ==
    /\ pc = "resolve" /\ todo = {}
    /\ \/ /\ op = "scan" /\ pc' = "observe"
          /\ meta' = CountUnreadable(meta, "process_paths", UnreadablePaths)
          /\ todo' = DOMAIN procs
          /\ UNCHANGED capabilities
       \/ /\ op = "coverage" /\ pc' = "own"
          /\ capabilities' = capabilities
                \cup CapabilityOfProcesses(Cardinality(DOMAIN procs), UnreadablePaths)
          /\ UNCHANGED <<meta, todo>>
    /\ UNCHANGED <<op, sweep, procs, hashed, holders, failed, observations,
                   cache, reply, faults, commands, machineVars>>

-----------------------------------------------------------------------------
(* signature.rs *)

\* Mutant of CacheKey: the cache is keyed by file name, which paths share.
KeyByName(path) == OwnExe

CacheKey(path) == path

\* The path whose verdict the command needs next.
Wanted ==
    IF pc = "own" THEN {OwnExe}
    ELSE IF pc = "observe"
    THEN {procs[p].path : p \in {q \in todo : First(q) /\ IsReadable(procs[q])}}
    ELSE {}

\* Mutant of Remembered: a file that could not be hashed is tried again.
RememberHashed(verdict) == IF verdict.signature = Unavailable THEN None ELSE verdict

\* Every verdict is kept, that there is none too.
Remembered(verdict) == verdict

\* verify opens the file twice: for the hash, then again for the trust.
HashFile ==
    /\ hashed = None
    /\ \E path \in Wanted :
        /\ cache[CacheKey(path)] = None
        /\ hashed' = [path |-> path, hash |-> AuthenticodeHash(files[path])]
    /\ UNCHANGED <<op, pc, sweep, procs, todo, holders, failed, meta, observations, capabilities,
                   cache, reply, faults, commands, machineVars>>

TrustFile ==
    /\ hashed # None
    /\ cache' = [cache EXCEPT ![CacheKey(hashed.path)] =
                    Remembered(Verdict(hashed.hash, VerifyTrust(files[hashed.path])))]
    /\ hashed' = None
    /\ UNCHANGED <<op, pc, sweep, procs, todo, holders, failed, meta, observations, capabilities,
                   reply, faults, commands, machineVars>>

\* process::observe: an S1 row and, for a readable image, the S2 row that
\* shares its subject.
RowsOfOne(p) ==
    LET subject == WithHasWindow(NewSubject(p, procs[p]), WindowCount(p) > 0)
        verdict == cache[CacheKey(procs[p].path)]
        signed  == WithSignature(subject, verdict.signature)
    IN  IF IsReadable(procs[p])
        THEN {Observation("S1", signed, DetailS1(WindowCount(p))),
              Observation("S2", signed, verdict.detail)}
        ELSE {Observation("S1", subject, DetailS1(WindowCount(p)))}

\* Mutant of Rows: a process whose image is unreadable has no row at all.
RowsOfReadable(p) == IF IsReadable(procs[p]) THEN RowsOfOne(p) ELSE {}

Rows(p) == RowsOfOne(p)

Observe ==
    /\ pc = "observe" /\ hashed = None
    /\ \E p \in todo :
        /\ First(p) /\ todo' = todo \ {p}
        /\ IsReadable(procs[p]) => cache[CacheKey(procs[p].path)] # None
        /\ observations' = observations \cup Rows(p)
    /\ UNCHANGED <<op, pc, sweep, procs, hashed, holders, failed, meta, capabilities,
                   cache, reply, faults, commands, machineVars>>

\* The collector's own image; current_exe may not know it.
OwnImage ==
    /\ pc = "own" /\ hashed = None
    /\ \/ /\ cache[CacheKey(OwnExe)] # None
          /\ capabilities' = capabilities
                \cup {CapabilityOfSignature(cache[CacheKey(OwnExe)].detail)}
          /\ UNCHANGED faults
       \/ /\ Faults({"image"})
          /\ capabilities' = capabilities \cup {SignatureUnknown}
    /\ pc' = "capture"
    /\ UNCHANGED <<op, sweep, procs, todo, hashed, holders, failed, meta, observations,
                   cache, reply, commands, machineVars>>

-----------------------------------------------------------------------------
(* foreground.rs, after the windows of the sweep *)

ForegroundRow(w, pid, visible) ==
    Observation("S6", WithHasWindow(WindowSubject(pid), TRUE),
                DetailS6(WindowRef(w, TitleOf[w], visible)))

\* No window, an open one, or one that closed after it was named: it belongs
\* to nobody, and pid stays 0.
ForegroundRows ==
    {{}} \cup {{ForegroundRow(w, windows[w].pid, windows[w].visible)} : w \in OpenWindows}
         \cup {{ForegroundRow(w, 0, FALSE)} : w \in (Window \cap touched) \ OpenWindows}

Foreground ==
    /\ pc = "observe" /\ hashed = None /\ todo = {}
    /\ pc' = "capture"
    /\ \E rows \in ForegroundRows :
        observations' = observations \cup {ExclusionRow(w) : w \in sweep.non_default} \cup rows
    /\ UNCHANGED <<op, sweep, procs, todo, hashed, holders, failed, meta, capabilities,
                   cache, reply, faults, commands, machineVars>>

-----------------------------------------------------------------------------
(* audio.rs *)

OnFlow(flow)  == {s \in Session : FlowOf[s] = flow}
Devices(flow) == {DeviceOf[s] : s \in OnFlow(flow)}

\* The open sessions of a flow, of those GetSessionEnumerator lists.
Opened(flow)  == {s \in OnFlow(flow) : sessions[s] # None}

\* GetState, which may fail.
StateOf(s, unread) == IF s \in unread THEN "unknown" ELSE sessions[s].state

\* Mutant of Held: expired sessions too.
HeldEver(s, unread) == TRUE

\* scan_device: every session that is not known to be expired, active or not.
Held(s, unread) == StateOf(s, unread) # "expired"

Holder(s, unread) ==
    [session |-> s, pid |-> sessions[s].pid, device |-> DeviceOf[s], state |-> StateOf(s, unread),
     is_system_sounds |-> s \in SystemSounds, flow |-> FlowOf[s]]

\* Mutant of CountFailed: an endpoint that fails is only passed over.
PassOver(n, broken) == n

CountFailed(n, broken) == n + Cardinality(broken)

AfterAudio ==
    \/ /\ op = "scan" /\ pc' = "done"
       /\ UNCHANGED capabilities
    \/ /\ op = "coverage" /\ pc' = "sweep"
       /\ capabilities' = capabilities \cup {CapabilityOfAudio(
                Cardinality({h \in holders' : h.flow = "capture"}),
                Cardinality({h \in holders' : h.flow = "render"}))}

\* One pass of enumerate. An endpoint that fails is counted, a session that
\* fails is passed over, one whose state cannot be read is kept.
Enumerate(flow) ==
    /\ pc = flow
    /\ \E broken \in SUBSET Devices(flow), lost \in SUBSET Opened(flow) :
       \E unread \in SUBSET (Opened(flow) \ lost) :
        /\ \A s \in lost \cup unread : DeviceOf[s] \notin broken
        /\ Faults(If(broken # {}, "endpoints") \cup If(lost # {}, "session")
                  \cup If(unread # {}, "state"))
        /\ failed' = CountFailed(failed, broken)
        /\ holders' = holders \cup
                {Holder(s, unread) : s \in
                    {t \in Opened(flow) \ lost : Held(t, unread) /\ DeviceOf[t] \notin broken}}
    /\ \/ flow = "capture" /\ pc' = "render" /\ UNCHANGED capabilities
       \/ flow = "render" /\ AfterAudio
    /\ UNCHANGED <<op, sweep, procs, todo, hashed, meta, observations,
                   cache, reply, commands, machineVars>>

\* EnumAudioEndpoints fails for the whole flow: one failure.
EndpointsFail(flow) ==
    /\ pc = flow /\ Faults({"endpoints"})
    /\ failed' = CountFailed(failed, {flow})
    /\ UNCHANGED holders
    /\ \/ flow = "capture" /\ pc' = "render" /\ UNCHANGED capabilities
       \/ flow = "render" /\ AfterAudio
    /\ UNCHANGED <<op, sweep, procs, todo, hashed, meta, observations,
                   cache, reply, commands, machineVars>>

\* Neither flow can be enumerated.
ComFails ==
    /\ pc = "capture" /\ Faults({"com"})
    /\ \/ /\ op = "scan" /\ pc' = "done"
          /\ meta' = RecordError(meta, "S3")
          /\ UNCHANGED capabilities
       \/ /\ op = "coverage" /\ pc' = "sweep"
          /\ capabilities' = capabilities \cup {AudioDenied}
          /\ UNCHANGED meta
    /\ UNCHANGED <<op, sweep, procs, todo, hashed, holders, failed, observations,
                   cache, reply, commands, machineVars>>

\* audio::probe. A holder that is not in the list is taken for one that could
\* not be opened.
MicRow(h) ==
    LET image      == IF h.pid \in DOMAIN procs THEN procs[h.pid] ELSE Unreadable("access_denied")
        hasWindow  == h.pid \in sweep.owners
        hasVisible == h.pid \in sweep.visible
        device     == SessionScoped(h.device)
    IN  Observation("S3", WithHasWindow(NewSubject(h.pid, image), hasWindow),
            IF h.flow = "capture"
            THEN CaptureSession(hasWindow, hasVisible, device, h.state, h.is_system_sounds)
            ELSE RenderSession(hasWindow, hasVisible, device, h.state, h.is_system_sounds))

-----------------------------------------------------------------------------
(* The answers *)

FinalMeta ==
    IF failed = 0 THEN meta
    ELSE CountUnreadable(RecordError(meta, "S3"), "audio_endpoints", failed)

\* The end of scan.
Finish ==
    /\ pc = "done"
    /\ Reply(SampleEnvelope(observations \cup {MicRow(h) : h \in holders}, FinalMeta))

\* The end of probe_all, and report.
Report ==
    /\ pc = "report"
    /\ Reply(CoverageReport(capabilities \cup FixedCapabilities))

Windows   == Sweep \/ SweepFails
Processes == List \/ ListFails \/ Resolve \/ Resolved \/ HashFile \/ TrustFile \/ Observe
Audio     == ComFails \/ \E flow \in {"capture", "render"} : Enumerate(flow) \/ EndpointsFail(flow)

ProbeStep == Windows \/ Processes \/ OwnImage \/ Foreground \/ Audio \/ Finish \/ Report

Next ==
    \/ BeginScan \/ BeginCoverage
    \/ ProbeStep
    \/ /\ MachineChanges /\ changes + Cardinality(faults) < MaxTrouble
       /\ UNCHANGED <<op, pc, locals, cache, reply, faults, commands>>

\* The probe's only thread runs, and every call of Windows returns.
Spec == Init /\ [][Next]_vars /\ WF_vars(ProbeStep)
=============================================================================
