------------------------------ MODULE ReplyProofs ------------------------------
(***************************************************************************)
(* What an answer of Scan says about the machine, on any machine and for   *)
(* any number of changes, of failing calls and of commands: which processes*)
(* a sample lists and as what, which windows and microphone holders it     *)
(* reports, and what a coverage report means by "full".                    *)
(***************************************************************************)
EXTENDS ScanProofs, VerdictProofs

-----------------------------------------------------------------------------
(* Types *)

\* The machine's variables keep their types whatever changes.
LEMMA MachineTypes ==
    ASSUME MachineTypeOK, MachineChanges
    PROVE  MachineTypeOK'
<1>1. /\ running \in [Pid -> Path \cup {None}] /\ files \in [Path -> File]
      /\ windows \in [Window -> WindowRecord \cup {None}]
      /\ sessions \in [Session -> SessionRecord \cup {None}]
      /\ held \in [Path -> SUBSET File] /\ changes \in 0..MaxChanges
      BY DEF MachineTypeOK
<1>2. ASSUME NEW things, Change(things)
      PROVE  changes' \in 0..MaxChanges
      BY <1>1, <1>2, MachineAssumption DEF Change
<1>3. CASE \E p \in Pid : Exits(p)
      BY <1>1, <1>2, <1>3 DEF MachineTypeOK, Exits
<1>4. CASE \E p \in Pid, path \in Path : Starts(p, path)
      BY <1>1, <1>2, <1>4 DEF MachineTypeOK, Starts
<1>5. CASE \E w \in Window : WindowChanges(w)
      <2>1. PICK w \in Window : WindowChanges(w)
            BY <1>5
      <2>2. PICK r \in WindowRecord \cup {None} : windows' = [windows EXCEPT ![w] = r]
            BY <2>1 DEF WindowChanges, WindowOf
      <2>3. windows' \in [Window -> WindowRecord \cup {None}]
            BY <1>1, <2>2
      <2> QED BY <1>1, <1>2, <2>1, <2>3 DEF MachineTypeOK, WindowChanges
<1>6. CASE \E s \in Session : SessionChanges(s)
      <2>1. PICK s \in Session : SessionChanges(s)
            BY <1>6
      <2>2. PICK r \in SessionRecord \cup {None} : sessions' = [sessions EXCEPT ![s] = r]
            BY <2>1 DEF SessionChanges, SessionOf
      <2>3. sessions' \in [Session -> SessionRecord \cup {None}]
            BY <1>1, <2>2
      <2> QED BY <1>1, <1>2, <2>1, <2>3 DEF MachineTypeOK, SessionChanges
<1>7. CASE \E path \in Path, f \in File : FileReplaced(path, f)
      <2>1. PICK path \in Path, f \in File : FileReplaced(path, f)
            BY <1>7
      <2>2. files' \in [Path -> File]
            BY <1>1, <2>1 DEF FileReplaced
      <2>3. held' \in [Path -> SUBSET File]
            BY <1>1, <2>1 DEF FileReplaced
      <2> QED BY <1>1, <1>2, <2>1, <2>2, <2>3 DEF MachineTypeOK, FileReplaced
<1> QED BY <1>3, <1>4, <1>5, <1>6, <1>7 DEF MachineChanges

\* The variables have their types at first.
LEMMA TypesInit == Init => TypeOK
<1> SUFFICES ASSUME Init PROVE TypeOK
    OBVIOUS
<1>1. MachineTypeOK
      BY MachineAssumption DEF Init, MachineInit, MachineTypeOK
<1>2. commands \in 0..MaxCommands
      BY ScanAssumption DEF Init
<1> QED BY <1>1, <1>2 DEF Init, TypeOK, NoProcs

Sources == {"authenticode", "full_file", "none"}

\* Every verdict names where its hash comes from.
LEMMA VerdictSource ==
    ASSUME NEW f, NEW trust
    PROVE  Verdict(AuthenticodeHash(f), trust).detail.hash_source \in Sources
<1>1. CASE AuthenticodeHash(f) = None
      BY <1>1 DEF Verdict, Verification, Sources
<1>2. CASE AuthenticodeHash(f) # None
      <2>1. AuthenticodeHash(f).source \in Sources
            BY <1>2 DEF AuthenticodeHash, Sources
      <2> QED BY <1>2, <2>1 DEF Verdict, Verification
<1> QED BY <1>1, <1>2

\* The kinds of failing calls a step may add.
LEMMA FaultsType ==
    ASSUME faults \subseteq FaultKinds, NEW kinds \in SUBSET FaultKinds, Faults(kinds)
    PROVE  faults' \subseteq FaultKinds
BY DEF Faults

Stages == {"idle", "sweep", "list", "resolve", "observe", "own", "capture", "render",
           "done", "report"}

\* The control of a command after a step of the probe.
LEMMA StagesKept ==
    ASSUME pc \in Stages, Next
    PROVE  pc' \in Stages
<1>1. CASE BeginScan \/ BeginCoverage
      BY <1>1 DEF BeginScan, BeginCoverage, Begin, Stages
<1>2. CASE Windows \/ Processes \/ OwnImage \/ Foreground
      BY <1>2 DEF Windows, Processes, Sweep, SweepFails, List, ListFails, Resolve, Resolved,
                  HashFile, TrustFile, Observe, OwnImage, Foreground, Stages
<1>3. CASE Audio
      BY <1>3 DEF Audio, Enumerate, EndpointsFail, ComFails, AfterAudio, Stages
<1>4. CASE Finish \/ Report
      BY <1>4 DEF Finish, Report, Reply, Stages
<1>5. CASE MachineChanges /\ UNCHANGED <<op, pc, locals, cache, reply, faults, commands>>
      BY <1>5
<1> QED BY <1>1, <1>2, <1>3, <1>4, <1>5, Zenon DEF Next, ProbeStep

Commands == {"idle", "scan", "coverage"}

\* The counters and the command.
LEMMA CommandsKept ==
    ASSUME op \in Commands, commands \in 0..MaxCommands, Next
    PROVE  op' \in Commands /\ commands' \in 0..MaxCommands
<1>1. CASE BeginScan \/ BeginCoverage
      BY <1>1, ScanAssumption DEF BeginScan, BeginCoverage, Begin, Commands
<1>2. CASE Windows \/ Processes \/ OwnImage \/ Foreground
      BY <1>2 DEF Windows, Processes, Sweep, SweepFails, List, ListFails, Resolve, Resolved,
                  HashFile, TrustFile, Observe, OwnImage, Foreground
<1>3. CASE Audio
      BY <1>3 DEF Audio, Enumerate, EndpointsFail, ComFails
<1>4. CASE Finish \/ Report
      BY <1>4 DEF Finish, Report, Reply, Commands
<1>5. CASE MachineChanges /\ UNCHANGED <<op, pc, locals, cache, reply, faults, commands>>
      BY <1>5
<1> QED BY <1>1, <1>2, <1>3, <1>4, <1>5, Zenon DEF Next, ProbeStep

\* What one pass over the endpoints of a flow does.
Enumerated(flow, broken, lost, unread) ==
    /\ \A s \in lost \cup unread : DeviceOf[s] \notin broken
    /\ faults' = faults \cup If(broken # {}, "endpoints") \cup If(lost # {}, "session")
                         \cup If(unread # {}, "state")
    /\ holders' = holders \cup
            {Holder(s, unread) : s \in
                {t \in Opened(flow) \ lost : Held(t, unread) /\ DeviceOf[t] \notin broken}}

\* What enumerating one flow leaves: holders, failed endpoints and faults only grow.
LEMMA EnumerateFacts ==
    ASSUME NEW flow, Enumerate(flow)
    PROVE  \E broken \in SUBSET Devices(flow), lost \in SUBSET Opened(flow) :
           \E unread \in SUBSET (Opened(flow) \ lost) : Enumerated(flow, broken, lost, unread)
<1>1. PICK broken \in SUBSET Devices(flow), lost \in SUBSET Opened(flow) :
      \E unread \in SUBSET (Opened(flow) \ lost) :
        /\ \A s \in lost \cup unread : DeviceOf[s] \notin broken
        /\ Faults(If(broken # {}, "endpoints") \cup If(lost # {}, "session")
                  \cup If(unread # {}, "state"))
        /\ holders' = holders \cup
                {Holder(s, unread) : s \in
                    {t \in Opened(flow) \ lost : Held(t, unread) /\ DeviceOf[t] \notin broken}}
      BY DEF Enumerate
<1>2. PICK unread \in SUBSET (Opened(flow) \ lost) :
        /\ \A s \in lost \cup unread : DeviceOf[s] \notin broken
        /\ Faults(If(broken # {}, "endpoints") \cup If(lost # {}, "session")
                  \cup If(unread # {}, "state"))
        /\ holders' = holders \cup
                {Holder(s, unread) : s \in
                    {t \in Opened(flow) \ lost : Held(t, unread) /\ DeviceOf[t] \notin broken}}
      BY <1>1
<1>3. Enumerated(flow, broken, lost, unread)
      BY <1>2 DEF Enumerated, Faults
<1> QED BY <1>3

\* The calls that may fail are among the known ones.
LEMMA FaultsKept ==
    ASSUME faults \subseteq FaultKinds, Next
    PROVE  faults' \subseteq FaultKinds
<1>2. CASE BeginScan \/ BeginCoverage
      BY <1>2 DEF BeginScan, BeginCoverage, Begin
<1>3. CASE Sweep \/ List
      <2>1. CASE Sweep
            <3>1. PICK unread \in SUBSET OpenWindows : Faults(If(unread # {}, "affinity"))
                  BY <2>1 DEF Sweep
            <3> QED BY <3>1, FaultsType DEF If, FaultKinds
      <2>2. CASE List
            <3>1. PICK listed \in SUBSET ({0} \cup Alive) : Faults(If(listed # {0} \cup Alive, "list"))
                  BY <2>2 DEF List
            <3> QED BY <3>1, FaultsType DEF If, FaultKinds
      <2> QED BY <1>3, <2>1, <2>2
<1>4. CASE SweepFails \/ ListFails \/ ComFails \/ \E flow \in {"capture", "render"} : EndpointsFail(flow)
      BY <1>4 DEF SweepFails, ListFails, ComFails, EndpointsFail, Faults, FaultKinds
<1>5. CASE Resolve \/ OwnImage
      BY <1>5 DEF Resolve, OwnImage, Faults, FaultKinds
<1>6. CASE Resolved \/ HashFile \/ TrustFile \/ Observe \/ Foreground \/ Finish \/ Report
      BY <1>6 DEF Resolved, HashFile, TrustFile, Observe, Foreground, Finish, Report, Reply
<1>7. CASE \E flow \in {"capture", "render"} : Enumerate(flow)
      <2>1. PICK flow \in {"capture", "render"} : Enumerate(flow)
            BY <1>7
      <2>2. PICK broken, lost, unread : Enumerated(flow, broken, lost, unread)
            BY <2>1, EnumerateFacts
      <2> QED BY <2>2 DEF Enumerated, If, FaultKinds
<1>8. CASE MachineChanges /\ UNCHANGED <<op, pc, locals, cache, reply, faults, commands>>
      BY <1>8
<1> QED BY <1>2, <1>3, <1>4, <1>5, <1>6, <1>7, <1>8, Zenon
        DEF Next, ProbeStep, Windows, Processes, Audio

HoldersTyped == \A h \in holders : h.session \in Session /\ h.state # "expired"

\* Nothing but a session that is not known to be expired is a holder.
LEMMA HoldersKept ==
    ASSUME HoldersTyped, Next
    PROVE  HoldersTyped'
<1>1. CASE \E flow \in {"capture", "render"} : Enumerate(flow)
      <2>1. PICK flow \in {"capture", "render"} : Enumerate(flow)
            BY <1>1
      <2>2. PICK broken \in SUBSET Devices(flow), lost \in SUBSET Opened(flow) :
            \E unread \in SUBSET (Opened(flow) \ lost) : Enumerated(flow, broken, lost, unread)
            BY <2>1, EnumerateFacts
      <2>3. PICK unread \in SUBSET (Opened(flow) \ lost) : Enumerated(flow, broken, lost, unread)
            BY <2>2
      <2>4. SUFFICES ASSUME NEW h \in holders', h \notin holders
                     PROVE  h.session \in Session /\ h.state # "expired"
            BY DEF HoldersTyped
      <2>5. PICK s \in Opened(flow) : h = Holder(s, unread) /\ Held(s, unread)
            BY <2>3, <2>4 DEF Enumerated
      <2> QED BY <2>5 DEF Holder, Held, Opened, OnFlow
<1>2. CASE Finish \/ Report
      BY <1>2 DEF Finish, Report, Reply, LocalsReset, HoldersTyped
<1>3. CASE Windows \/ Processes \/ OwnImage \/ Foreground \/ ComFails
           \/ \E flow \in {"capture", "render"} : EndpointsFail(flow)
      <2>1. holders' = holders
            BY <1>3 DEF Windows, Processes, Sweep, SweepFails, List, ListFails, Resolve, Resolved,
                  HashFile, TrustFile, Observe, OwnImage, Foreground, ComFails, EndpointsFail
      <2> QED BY <2>1 DEF HoldersTyped
<1>4. CASE \/ BeginScan \/ BeginCoverage
           \/ MachineChanges /\ UNCHANGED <<op, pc, locals, cache, reply, faults, commands>>
      BY <1>4 DEF BeginScan, BeginCoverage, Begin, locals, HoldersTyped
<1>5. CASE Audio
      BY <1>5, <1>1, <1>3 DEF Audio
<1>6. CASE ProbeStep
      BY <1>2, <1>3, <1>5, <1>6, Zenon DEF ProbeStep
<1> QED BY <1>4, <1>6, Zenon DEF Next

\* A step of the probe leaves the machine as it is.
LEMMA StillMachine ==
    ASSUME Next
    PROVE  \/ MachineChanges /\ UNCHANGED <<op, pc, locals, cache, reply, faults, commands>>
           \/ (BeginScan \/ BeginCoverage) /\ UNCHANGED <<machine, held, changes>>
           \/ ProbeStep /\ UNCHANGED machineVars
<1>1. CASE BeginScan \/ BeginCoverage
      BY <1>1 DEF BeginScan, BeginCoverage, Begin
<1>2. CASE Windows \/ Processes \/ OwnImage \/ Foreground \/ Finish \/ Report
      BY <1>2 DEF Windows, Processes, Sweep, SweepFails, List, ListFails, Resolve, Resolved,
                  HashFile, TrustFile, Observe, OwnImage, Foreground, Finish, Report, Reply, ProbeStep
<1>3. CASE Audio
      BY <1>3 DEF Audio, Enumerate, EndpointsFail, ComFails, ProbeStep
<1> QED BY <1>1, <1>2, <1>3, Zenon DEF Next, ProbeStep

Sourced == \A path \in Path : cache[path] # None => cache[path].detail.hash_source \in Sources

\* Nothing but a verdict enters the cache.
LEMMA CacheKeptSourced ==
    ASSUME Sourced, KeptInv, Next
    PROVE  Sourced'
<1>1. CASE TrustFile
      <2>1. hashed # None
            BY <1>1 DEF TrustFile
      <2>2. PICK f \in held[hashed.path] : hashed.hash = AuthenticodeHash(f)
            BY <2>1 DEF KeptInv, HashKept
      <2> DEFINE verdict == Verdict(hashed.hash, VerifyTrust(files[hashed.path]))
      <2>3. verdict.detail.hash_source \in Sources
            BY <2>2, VerdictSource
      <2>4. cache' = [cache EXCEPT ![hashed.path] = verdict]
            BY <1>1 DEF TrustFile, CacheKey, Remembered
      <2> HIDE DEF verdict
      <2> QED BY <2>3, <2>4 DEF Sourced, KeptInv, CacheKept
<1>2. CASE Windows \/ List \/ ListFails \/ Resolve \/ Resolved \/ HashFile \/ Observe \/ OwnImage
           \/ Foreground \/ Finish \/ Report
      <2>1. cache' = cache
            BY <1>2 DEF Windows, Sweep, SweepFails, List, ListFails, Resolve, Resolved, HashFile,
                        Observe, OwnImage, Foreground, Finish, Report, Reply
      <2> QED BY <2>1 DEF Sourced
<1>3. CASE Audio
      BY <1>3 DEF Audio, Enumerate, EndpointsFail, ComFails, Sourced
<1>4. CASE \/ BeginScan \/ BeginCoverage
           \/ MachineChanges /\ UNCHANGED <<op, pc, locals, cache, reply, faults, commands>>
      BY <1>4 DEF BeginScan, BeginCoverage, Begin, Sourced
<1>5. CASE ProbeStep
      BY <1>1, <1>2, <1>3, <1>5, Zenon DEF ProbeStep, Processes
<1> QED BY <1>4, <1>5, Zenon DEF Next

\* The types are kept together with what the other theorems know.
LEMMA TypesStep == TypeOK /\ MetaInv' /\ KeptInv /\ KeptInv' /\ [Next]_vars => TypeOK'
<1> SUFFICES ASSUME TypeOK, MetaInv', KeptInv, KeptInv', [Next]_vars
             PROVE  TypeOK'
    OBVIOUS
<1>1. CASE UNCHANGED vars
      BY <1>1 DEF vars, locals, machineVars, machine, TypeOK, MachineTypeOK
<1>2. CASE Next
      <2>1. MachineTypeOK'
            <3>1. CASE MachineChanges
                  BY <3>1, MachineTypes DEF TypeOK
            <3>2. CASE UNCHANGED <<machine, held, changes>>
                  BY <3>2 DEF TypeOK, MachineTypeOK, machine
            <3>3. MachineChanges \/ UNCHANGED <<machine, held, changes>>
                  BY <1>2, StillMachine DEF machineVars
            <3> QED BY <3>1, <3>2, <3>3
      <2>2. op' \in Commands /\ pc' \in Stages /\ commands' \in 0..MaxCommands
            BY <1>2, StagesKept, CommandsKept DEF TypeOK, Commands, Stages
      <2>3. HoldersTyped' /\ Sourced' /\ faults' \subseteq FaultKinds
            BY <1>2, HoldersKept, CacheKeptSourced, FaultsKept
               DEF TypeOK, HoldersTyped, Sourced, Sources
      <2>4. /\ (todo \subseteq DOMAIN procs /\ DOMAIN procs \subseteq {0} \cup Pid)'
            /\ failed' \in Nat
            BY DEF KeptInv, ListKept, MetaInv, MetaShape
      <2> QED BY <2>1, <2>2, <2>3, <2>4
              DEF TypeOK, Commands, Stages, HoldersTyped, Sourced, Sources
<1> QED BY <1>1, <1>2

Base == TypeOK /\ MetaInv /\ KeptInv

\* Types, the counting of failures and the backing of verdicts hold throughout.
LEMMA BaseInvariant == Spec => []Base
<1>1. Init => Base
      BY TypesInit, MetaInit, KeptInit DEF Base
<1>2. Base /\ [Next]_vars => Base'
      BY TypesStep, MetaStep, KeptStep DEF Base
<1> QED BY <1>1, <1>2, PTL DEF Spec

\* On any machine the probe's variables, its list of processes, the verdicts
\* it has cached and the holders it has found keep their types (lib.rs scan,
\* capability.rs probe_all).
THEOREM ProbeTypeCorrect == Spec => []TypeOK
<1>1. Base => TypeOK
      BY DEF Base
<1> QED BY <1>1, BaseInvariant, PTL

-----------------------------------------------------------------------------
(* What a command may rely on *)

\* What is not in `touched` is what it was when the command began.
LEMMA Unmoved ==
    ASSUME MachineTypeOK, MachineChanges
    PROVE  /\ touched \subseteq touched'
           /\ \A p \in Pid : p \notin touched' => running'[p] = running[p]
           /\ \A w \in Window : w \notin touched' => windows'[w] = windows[w]
           /\ \A s \in Session : s \notin touched' => sessions'[s] = sessions[s]
<1>1. CASE \E p \in Pid : Exits(p)
      <2>1. PICK p \in Pid : Exits(p)
            BY <1>1
      <2> DEFINE ws == {w \in OpenWindows : windows[w].pid = p}
                 ss == {s \in Session : sessions[s] # None /\ sessions[s].pid = p}
      <2>2. /\ touched' = touched \cup ({p} \cup ws \cup ss)
            /\ running' = [running EXCEPT ![p] = None]
            /\ windows' = [w \in Window |-> IF w \in ws THEN None ELSE windows[w]]
            /\ sessions' = [s \in Session |-> IF s \in ss THEN None ELSE sessions[s]]
            BY <2>1 DEF Exits, Change
      <2> HIDE DEF ws, ss
      <2> QED BY <2>2 DEF MachineTypeOK
<1>2. CASE \E p \in Pid, path \in Path : Starts(p, path)
      BY <1>2 DEF MachineTypeOK, Starts, Change
<1>3. CASE \E w \in Window : WindowChanges(w)
      <2>1. PICK w \in Window : WindowChanges(w)
            BY <1>3
      <2>2. PICK r : windows' = [windows EXCEPT ![w] = r]
            BY <2>1 DEF WindowChanges
      <2> QED BY <2>1, <2>2 DEF MachineTypeOK, WindowChanges, Change
<1>4. CASE \E s \in Session : SessionChanges(s)
      <2>1. PICK s \in Session : SessionChanges(s)
            BY <1>4
      <2>2. PICK r : sessions' = [sessions EXCEPT ![s] = r]
            BY <2>1 DEF SessionChanges
      <2> QED BY <2>1, <2>2 DEF MachineTypeOK, SessionChanges, Change
<1>5. CASE \E path \in Path, f \in File : FileReplaced(path, f)
      BY <1>5 DEF FileReplaced, Change
<1> QED BY <1>1, <1>2, <1>3, <1>4, <1>5 DEF MachineChanges

\* The order of the calls in the two commands, and what each finds of the
\* process list: nothing before it is made, nothing left to do after its loop.
Course ==
    /\ op = "scan" => pc \in {"sweep", "list", "resolve", "observe", "capture", "render", "done"}
    /\ op = "coverage" => pc \in {"list", "resolve", "own", "capture", "render", "sweep", "report"}
    /\ pc \in {"idle", "list"} => procs = NoProcs
    /\ op = "scan" /\ pc = "sweep" => procs = NoProcs
    /\ pc \notin {"resolve", "observe"} => todo = {}

\* Every step keeps to the course.
LEMMA CourseKept == Base /\ Course /\ [Next]_vars => Course'
<1> SUFFICES ASSUME Base, Course, [Next]_vars PROVE Course'
    OBVIOUS
<1>1. op \in Commands /\ (op = "idle" => pc = "idle")
      BY DEF Base, TypeOK, MetaInv, Control, Commands
<1>2. CASE \/ UNCHANGED vars
           \/ MachineChanges /\ UNCHANGED <<op, pc, locals, cache, reply, faults, commands>>
      BY <1>2 DEF vars, locals, Course
<1>3. CASE BeginScan \/ BeginCoverage
      BY <1>1, <1>3 DEF BeginScan, BeginCoverage, Begin, locals, Course
<1>4. CASE Windows
      BY <1>1, <1>4 DEF Windows, Sweep, SweepFails, Course, Commands
<1>5. CASE List \/ ListFails
      BY <1>1, <1>5 DEF List, ListFails, Course, Commands
<1>6. CASE Resolve \/ Resolved
      BY <1>1, <1>6 DEF Resolve, Resolved, Course, Commands
<1>7. CASE HashFile \/ TrustFile \/ Observe \/ OwnImage \/ Foreground
      BY <1>1, <1>7 DEF HashFile, TrustFile, Observe, OwnImage, Foreground, Course, Commands
<1>8. CASE Audio
      BY <1>1, <1>8 DEF Audio, Enumerate, EndpointsFail, ComFails, AfterAudio, Course, Commands
<1>9. CASE Finish \/ Report
      BY <1>9 DEF Finish, Report, Reply, LocalsReset, Course
<1>10. CASE ProbeStep
      BY <1>4, <1>5, <1>6, <1>7, <1>8, <1>9, <1>10, Zenon DEF ProbeStep, Processes
<1> QED BY <1>2, <1>3, <1>10, Zenon DEF Next

\* An idle probe is at no call.
LEMMA CourseInit == Init => Course
BY DEF Init, Course

-----------------------------------------------------------------------------
(* The rows about processes *)

\* The list is made, or could not be.
Listed == op = "scan" /\ pc \in {"observe", "capture", "render", "done"}

OfProcess(o) == o.code \in {"S1", "S2"}

\* A subject made without a look at its file names the listed image, if any.
Nameless(subject) ==
    /\ IF subject.pid \in DOMAIN procs
       THEN subject.image = procs[subject.pid]
       ELSE ~IsReadable(subject.image)
    /\ subject.signature = IF IsReadable(subject.image) THEN NotChecked ELSE Unavailable

\* A row of a process that the observing loop is done with.
Told(o) ==
    /\ o.subject.pid \in DOMAIN procs \ todo
    /\ o.subject.image = procs[o.subject.pid]
    /\ ~IsReadable(o.subject.image) => o.code = "S1" /\ o.subject.signature = Unavailable

RowsMade ==
    /\ ~Listed => observations = {}
    /\ \A o \in observations : IF OfProcess(o) THEN Told(o) ELSE o.code \in {"S5", "S6"} /\ Nameless(o.subject)

\* The rows of one process share their subject, and there is one of each code.
RowsAlone ==
    \A o, q \in {x \in observations : OfProcess(x)} :
        o.subject.pid = q.subject.pid => /\ o.subject = q.subject
                                         /\ o.code = q.code => o = q

HasRow(code, p) == \E o \in observations : o.code = code /\ o.subject.pid = p

RowsCovered ==
    Listed => \A p \in DOMAIN procs \ todo :
        HasRow("S1", p) /\ (IsReadable(procs[p]) => HasRow("S2", p))

CountKept ==
    /\ DOMAIN meta.unreadable = UnreadableKeys
    /\ meta.unreadable["process_paths"] = IF Listed THEN UnreadablePaths ELSE 0

RowsInv == RowsMade /\ RowsAlone /\ RowsCovered /\ CountKept /\ OneIdentityPerPid /\ RowsAndCountsAgree

\* The rows of one process.
LEMMA RowsOfProcess ==
    ASSUME NEW p
    PROVE  /\ \A o \in Rows(p) : /\ OfProcess(o) /\ o.subject.pid = p
                                 /\ o.subject.image = procs[p]
                                 /\ ~IsReadable(procs[p]) =>
                                        o.code = "S1" /\ o.subject.signature = Unavailable
           /\ \A o, q \in Rows(p) : o.subject = q.subject /\ (o.code = q.code => o = q)
           /\ \E o \in Rows(p) : o.code = "S1"
           /\ IsReadable(procs[p]) => \E o \in Rows(p) : o.code = "S2"
<1> DEFINE subject == WithHasWindow(NewSubject(p, procs[p]), WindowCount(p) > 0)
           verdict == cache[CacheKey(procs[p].path)]
           signed  == WithSignature(subject, verdict.signature)
           first   == Observation("S1", signed, DetailS1(WindowCount(p)))
           second  == Observation("S2", signed, verdict.detail)
           only    == Observation("S1", subject, DetailS1(WindowCount(p)))
<1>1. /\ subject.pid = p /\ subject.image = procs[p]
      /\ ~IsReadable(procs[p]) => subject.signature = Unavailable
      BY DEF WithHasWindow, NewSubject
<1>2. signed.pid = p /\ signed.image = procs[p]
      BY DEF WithHasWindow, NewSubject, WithSignature
<1>3. Rows(p) = IF IsReadable(procs[p]) THEN {first, second} ELSE {only}
      BY DEF Rows, RowsOfOne
<1>4. /\ first.code = "S1" /\ first.subject = signed
      /\ second.code = "S2" /\ second.subject = signed
      /\ only.code = "S1" /\ only.subject = subject
      BY DEF Observation
<1> HIDE DEF subject, verdict, signed, first, second, only
<1>5. CASE IsReadable(procs[p])
      BY <1>2, <1>3, <1>4, <1>5 DEF OfProcess
<1>6. CASE ~IsReadable(procs[p])
      BY <1>1, <1>3, <1>4, <1>6 DEF OfProcess
<1> QED BY <1>5, <1>6

\* A count of the honesty record changes by what is counted, the other stays.
LEMMA CountedOne ==
    ASSUME NEW m, NEW key, NEW n, "unreadable" \in DOMAIN m, DOMAIN m.unreadable = UnreadableKeys,
           key \in UnreadableKeys
    PROVE  LET u == CountUnreadable(m, key, n).unreadable
           IN  /\ DOMAIN u = UnreadableKeys
               /\ u[key] = m.unreadable[key] + n
               /\ \A k \in UnreadableKeys : k # key => u[k] = m.unreadable[k]
BY DEF CountUnreadable

\* An error in the meta is none of its counts.
LEMMA RecordedKeepsCounts ==
    ASSUME NEW m, NEW code, "unreadable" \in DOMAIN m
    PROVE  RecordError(m, code).unreadable = m.unreadable
BY DEF RecordError

\* Fewer processes have an unreadable path than there are pids.
LEMMA UnreadableType ==
    ASSUME Base
    PROVE  /\ UnreadablePaths \in Nat
           /\ procs = NoProcs => UnreadablePaths = 0
           /\ IsFiniteSet({p \in DOMAIN procs : ~IsReadable(procs[p])})
<1>1. IsFiniteSet({0} \cup Pid)
      BY MachineAssumption, FS_Singleton, FS_Union
<1>2. {p \in DOMAIN procs : ~IsReadable(procs[p])} \in SUBSET ({0} \cup Pid)
      BY DEF Base, TypeOK
<1>3. procs = NoProcs => {p \in DOMAIN procs : ~IsReadable(procs[p])} = {}
      BY DEF NoProcs
<1> QED BY <1>1, <1>2, <1>3, FS_Subset, FS_CardinalityType, FS_EmptySet DEF UnreadablePaths

\* A step that leaves the list, the rows and the counts alone.
LEMMA RowsQuiet ==
    ASSUME RowsInv, UNCHANGED <<procs, todo, observations>>,
           meta'.unreadable = meta.unreadable, Listed' <=> Listed,
           reply' = reply \/ ~IsSample'
    PROVE  RowsInv'
<1>1. RowsMade'
      BY DEF RowsInv, RowsMade, Told, Nameless
<1>2. RowsAlone' /\ RowsCovered'
      BY DEF RowsInv, RowsAlone, RowsCovered, HasRow
<1>3. CountKept'
      BY DEF RowsInv, CountKept, UnreadablePaths
<1>4. OneIdentityPerPid' /\ RowsAndCountsAgree'
      BY DEF RowsInv, OneIdentityPerPid, RowsAndCountsAgree, IsSample, RowsOf
<1> QED BY <1>1, <1>2, <1>3, <1>4 DEF RowsInv

\* While a command runs there is no answer yet.
LEMMA NoAnswerYet ==
    ASSUME Base, pc # "idle"
    PROVE  op # "idle" /\ ~IsSample /\ ~IsCoverage
BY DEF Base, MetaInv, Control, IsSample, IsCoverage

\* Before the rows are begun, only the count may change.
LEMMA RowsBegun ==
    ASSUME ~IsSample', observations' = {}, CountKept',
           Listed' => (DOMAIN procs \ todo)' = {}
    PROVE  RowsInv'
<1>1. RowsMade' /\ RowsAlone' /\ RowsCovered'
      BY DEF RowsMade, RowsAlone, RowsCovered
<1>2. OneIdentityPerPid' /\ RowsAndCountsAgree'
      BY DEF OneIdentityPerPid, RowsAndCountsAgree
<1> QED BY <1>1, <1>2 DEF RowsInv

\* Listing processes and resolving their paths makes the entries that the rows will be of.
LEMMA RowsList ==
    ASSUME Base, Course, RowsInv, List \/ ListFails \/ Resolve \/ Resolved
    PROVE  RowsInv'
<1>1. pc \in {"list", "resolve"} /\ ~Listed
      BY DEF List, ListFails, Resolve, Resolved, Listed
<1>2. /\ op \in {"scan", "coverage"} /\ ~IsSample
      /\ UNCHANGED <<op, reply, observations>>
      BY <1>1, NoAnswerYet DEF List, ListFails, Resolve, Resolved, Base, TypeOK
<1>3. /\ observations = {} /\ DOMAIN meta.unreadable = UnreadableKeys
      /\ meta.unreadable["process_paths"] = 0
      BY <1>1 DEF RowsInv, RowsMade, CountKept
<1>4. ~IsSample' /\ observations' = {}
      BY <1>2, <1>3 DEF IsSample
<1>5. "unreadable" \in DOMAIN meta
      BY DEF Base, MetaInv, MetaShape
<1>6. CASE List \/ Resolve
      <2>1. ~Listed' /\ meta' = meta
            BY <1>1, <1>6 DEF List, Resolve, Listed
      <2> QED BY <1>3, <1>4, <2>1, RowsBegun DEF CountKept
<1>7. CASE ListFails
      <2>1. /\ procs' = procs /\ todo' = todo /\ procs = NoProcs
            /\ meta'.unreadable = meta.unreadable
            BY <1>5, <1>7, RecordedKeepsCounts DEF ListFails, Course
      <2>2. UnreadablePaths' = 0 /\ DOMAIN procs' = {}
            BY <2>1, UnreadableType DEF UnreadablePaths, NoProcs
      <2> QED BY <1>3, <1>4, <2>1, <2>2, RowsBegun DEF CountKept
<1>8. CASE Resolved
      <2>1. CASE op = "coverage"
            <3>1. ~Listed' /\ meta' = meta
                  BY <1>2, <1>8, <2>1 DEF Resolved, Listed
            <3> QED BY <1>3, <1>4, <3>1, RowsBegun DEF CountKept
      <2>2. CASE op = "scan"
            <3>1. /\ Listed' /\ procs' = procs /\ todo' = DOMAIN procs
                  /\ meta' = CountUnreadable(meta, "process_paths", UnreadablePaths)
                  BY <1>2, <1>8, <2>2 DEF Resolved, Listed
            <3>2. /\ DOMAIN meta'.unreadable = UnreadableKeys
                  /\ meta'.unreadable["process_paths"] = 0 + UnreadablePaths
                  BY <1>3, <1>5, <3>1, CountedOne DEF UnreadableKeys
            <3>3. UnreadablePaths' = UnreadablePaths /\ UnreadablePaths \in Nat
                  BY <3>1, UnreadableType DEF UnreadablePaths
            <3>4. CountKept'
                  BY <3>1, <3>2, <3>3 DEF CountKept
            <3> QED BY <1>4, <3>1, <3>4, RowsBegun
      <2> QED BY <1>2, <2>1, <2>2
<1> QED BY <1>6, <1>7, <1>8

\* The rows of one process join the others: they are the only ones about it.
LEMMA RowsObserve ==
    ASSUME Base, Course, RowsInv, Observe
    PROVE  RowsInv'
<1>1. /\ pc = "observe" /\ UNCHANGED <<op, pc, procs, meta, reply>>
      /\ op = "scan" /\ Listed /\ Listed'
      BY DEF Observe, Course, Listed, Base, TypeOK, MetaInv, Control
<1>2. PICK p \in todo : todo' = todo \ {p} /\ observations' = observations \cup Rows(p)
      BY DEF Observe
<1>3. p \in DOMAIN procs
      BY DEF Base, TypeOK
<1>4. /\ \A o \in Rows(p) : /\ OfProcess(o) /\ o.subject.pid = p
                            /\ o.subject.image = procs[p]
                            /\ ~IsReadable(procs[p]) =>
                                    o.code = "S1" /\ o.subject.signature = Unavailable
      /\ \A o, q \in Rows(p) : o.subject = q.subject /\ (o.code = q.code => o = q)
      /\ \E o \in Rows(p) : o.code = "S1"
      /\ IsReadable(procs[p]) => \E o \in Rows(p) : o.code = "S2"
      BY RowsOfProcess
<1>5. \A o \in observations : IF OfProcess(o) THEN Told(o) ELSE o.code \in {"S5", "S6"} /\ Nameless(o.subject)
      BY DEF RowsInv, RowsMade
<1>6. RowsMade'
      <2>1. ASSUME NEW o \in observations'
            PROVE  IF OfProcess(o) THEN Told(o)' ELSE o.code \in {"S5", "S6"} /\ Nameless(o.subject)'
            <3>1. CASE o \in observations
                  BY <1>1, <1>2, <1>5, <3>1 DEF Told, Nameless
            <3>2. CASE o \in Rows(p)
                  BY <1>1, <1>2, <1>3, <1>4, <3>2 DEF Told
            <3> QED BY <1>2, <3>1, <3>2
      <2> QED BY <1>1, <2>1 DEF RowsMade
<1>7. RowsAlone'
      <2>1. ASSUME NEW o \in observations, OfProcess(o)
            PROVE  o.subject.pid # p
            BY <1>2, <1>5, <2>1 DEF Told
      <2>2. ASSUME NEW o \in observations', NEW q \in observations', OfProcess(o), OfProcess(q),
                   o.subject.pid = q.subject.pid
            PROVE  o.subject = q.subject /\ (o.code = q.code => o = q)
            <3>1. CASE o \in observations /\ q \in observations
                  BY <2>2, <3>1 DEF RowsInv, RowsAlone
            <3>2. CASE o \in Rows(p) /\ q \in Rows(p)
                  BY <1>4, <3>2
            <3> QED BY <1>2, <1>4, <2>1, <2>2, <3>1, <3>2
      <2> QED BY <2>2 DEF RowsAlone
<1>8. RowsCovered'
      <2> SUFFICES ASSUME NEW q \in DOMAIN procs, q \notin todo'
                   PROVE  HasRow("S1", q)' /\ (IsReadable(procs[q]) => HasRow("S2", q)')
          BY <1>1 DEF RowsCovered
      <2>1. CASE q = p
            BY <1>2, <1>4, <2>1 DEF HasRow
      <2>2. CASE q # p
            BY <1>1, <1>2, <2>2 DEF RowsInv, RowsCovered, HasRow
      <2> QED BY <2>1, <2>2
<1>9. CountKept' /\ ~IsSample'
      BY <1>1, NoAnswerYet DEF RowsInv, CountKept, UnreadablePaths, IsSample
<1> QED BY <1>6, <1>7, <1>8, <1>9 DEF RowsInv, OneIdentityPerPid, RowsAndCountsAgree

\* A subject that is named from the list.
LEMMA ListedIsNameless ==
    ASSUME NEW p
    PROVE  Nameless(ListedSubject(p)) /\ Nameless(WithHasWindow(ListedSubject(p), TRUE))
BY DEF Nameless, ListedSubject, NewSubject, WithHasWindow, Unreadable, IsReadable

\* The rows about the foreground window.
LEMMA ForegroundIsNameless ==
    ASSUME NEW rows \in ForegroundRows, NEW o \in rows
    PROVE  o.code = "S6" /\ Nameless(o.subject)
<1>1. \A w, p, visible : /\ ForegroundRow(w, p, visible).code = "S6"
                         /\ Nameless(ForegroundRow(w, p, visible).subject)
      BY ListedIsNameless DEF ForegroundRow, WindowSubject, Observation
<1>2. CASE rows = {}
      BY <1>2
<1>3. CASE \E w \in OpenWindows : rows = {ForegroundRow(w, windows[w].pid, windows[w].visible)}
      BY <1>1, <1>3
<1>4. CASE \E w \in (Window \cap touched) \ OpenWindows : rows = {ForegroundRow(w, 0, FALSE)}
      <2>1. PICK w : rows = {ForegroundRow(w, 0, FALSE)}
            BY <1>4
      <2>2. o = ForegroundRow(w, 0, FALSE)
            BY <2>1
      <2> QED BY <1>1, <2>2, Zenon
<1> QED BY <1>2, <1>3, <1>4 DEF ForegroundRows

\* The rows about windows join the others.
LEMMA RowsForeground ==
    ASSUME Base, Course, RowsInv, Foreground
    PROVE  RowsInv'
<1>1. /\ pc = "observe" /\ pc' = "capture" /\ UNCHANGED <<op, procs, todo, meta, reply>>
      /\ op = "scan" /\ Listed /\ Listed'
      BY DEF Foreground, Course, Listed, Base, TypeOK, MetaInv, Control
<1>2. PICK rows \in ForegroundRows :
        observations' = observations \cup {ExclusionRow(w) : w \in sweep.non_default} \cup rows
      BY DEF Foreground
<1>3. \A w : ExclusionRow(w).code = "S5" /\ Nameless(ExclusionRow(w).subject)
      BY ListedIsNameless DEF ExclusionRow, WindowSubject, Observation
<1>4. \A o \in rows : o.code = "S6" /\ Nameless(o.subject)
      BY <1>2, ForegroundIsNameless
<1>5. \A o \in observations' :
        \/ o \in observations
        \/ ~OfProcess(o) /\ o.code \in {"S5", "S6"} /\ Nameless(o.subject)
      BY <1>2, <1>3, <1>4 DEF OfProcess
<1>6. RowsMade'
      <2>1. ASSUME NEW o \in observations'
            PROVE  IF OfProcess(o) THEN Told(o)' ELSE o.code \in {"S5", "S6"} /\ Nameless(o.subject)'
            BY <1>1, <1>5 DEF RowsInv, RowsMade, Told, Nameless
      <2> QED BY <1>1, <2>1 DEF RowsMade
<1>7. RowsAlone'
      BY <1>5 DEF RowsInv, RowsAlone
<1>8. observations \subseteq observations'
      BY <1>2
<1>9. RowsCovered'
      BY <1>1, <1>8 DEF RowsInv, RowsCovered, HasRow
<1>10. CountKept' /\ ~IsSample'
      BY <1>1, NoAnswerYet DEF RowsInv, CountKept, UnreadablePaths, IsSample
<1> QED BY <1>6, <1>7, <1>9, <1>10 DEF RowsInv, OneIdentityPerPid, RowsAndCountsAgree

\* What a signal keeps of its observation.
LEMMA SignalKeeps ==
    ASSUME NEW o
    PROVE  /\ Signal(o).code = o.code /\ Signal(o).subject = o.subject
           /\ Signal(o).detail = o.detail /\ Signal(o).tier = Tier(o)
           /\ Signal(o).observation_key = ObservationKey(o)
BY DEF Signal

Sampled == observations \cup {MicRow(h) : h \in holders}

\* The sample's rows: those observed, and the holders', which are named from
\* the list as well.
LEMMA SampledRows ==
    ASSUME Base, Course, RowsInv, Finish
    PROVE  /\ op = "scan" /\ Listed /\ todo = {}
           /\ reply'.meta = FinalMeta
           /\ reply'.signals = {Signal(o) : o \in Sampled}
           /\ \A o \in Sampled :
                IF OfProcess(o) THEN o \in observations /\ Told(o)
                ELSE o.code \in {"S3", "S5", "S6"} /\ Nameless(o.subject)
<1>1. op = "scan" /\ pc = "done"
      BY DEF Finish, Base, MetaInv, Control
<1>2. Listed /\ todo = {}
      BY <1>1 DEF Listed, Course
<1>3. reply' = SampleEnvelope(Sampled, FinalMeta)
      BY DEF Finish, Reply, Sampled
<1>4. /\ reply'.meta = FinalMeta
      /\ reply'.signals = {Signal(o) : o \in Sampled}
      BY <1>3 DEF SampleEnvelope
<1>5. \A h : MicRow(h).code = "S3" /\ Nameless(MicRow(h).subject)
      BY DEF MicRow, Observation, Nameless, NewSubject, WithHasWindow, Unreadable, IsReadable
<1>6. \A o \in Sampled :
        IF OfProcess(o) THEN o \in observations /\ Told(o)
        ELSE o.code \in {"S3", "S5", "S6"} /\ Nameless(o.subject)
      BY <1>5 DEF Sampled, RowsInv, RowsMade, OfProcess
<1> QED BY <1>1, <1>2, <1>4, <1>6

\* Two rows of the sample that name one pid tell one identity.
LEMMA OneIdentity ==
    ASSUME RowsInv, todo = {}, NEW o, NEW q, o.subject.pid = q.subject.pid,
           IF OfProcess(o) THEN o \in observations /\ Told(o) ELSE Nameless(o.subject),
           IF OfProcess(q) THEN q \in observations /\ Told(q) ELSE Nameless(q.subject)
    PROVE  IF o.subject.pid \in DOMAIN procs
           THEN /\ o.subject.image = q.subject.image
                /\ \/ o.subject.signature = q.subject.signature
                   \/ NotChecked \in {o.subject.signature, q.subject.signature}
           ELSE ~IsReadable(o.subject.image) /\ o.subject.signature = Unavailable
<1>1. CASE o.subject.pid \in DOMAIN procs
      <2>1. o.subject.image = procs[o.subject.pid] /\ q.subject.image = procs[o.subject.pid]
            BY <1>1 DEF Told, Nameless
      <2>2. CASE OfProcess(o) /\ OfProcess(q)
            <3>1. o.subject = q.subject
                  BY <2>2 DEF RowsInv, RowsAlone
            <3> QED BY <1>1, <3>1
      <2>3. CASE ~(OfProcess(o) /\ OfProcess(q))
            <3>1. CASE IsReadable(procs[o.subject.pid])
                  BY <1>1, <2>1, <2>3, <3>1 DEF Nameless
            <3>2. CASE ~IsReadable(procs[o.subject.pid])
                  BY <1>1, <2>1, <2>3, <3>2 DEF Nameless, Told
            <3> QED BY <3>1, <3>2
      <2> QED BY <2>2, <2>3
<1>2. CASE o.subject.pid \notin DOMAIN procs
      <2>1. ~OfProcess(o)
            BY <1>2 DEF Told
      <2> QED BY <1>2, <2>1 DEF Nameless
<1> QED BY <1>1, <1>2

\* The sample that a scan answers with gives a pid one identity.
LEMMA OneIdentityFinish ==
    ASSUME Base, Course, RowsInv, Finish
    PROVE  OneIdentityPerPid'
<1> SUFFICES ASSUME NEW r \in reply'.signals, NEW s \in reply'.signals,
                    r.subject.pid = s.subject.pid
             PROVE  \/ /\ r.subject.image = s.subject.image
                       /\ \/ r.subject.signature = s.subject.signature
                          \/ NotChecked \in {r.subject.signature, s.subject.signature}
                    \/ /\ \A t \in reply'.signals : t.code = "S1" => t.subject.pid # r.subject.pid
                       /\ ~IsReadable(r.subject.image) /\ r.subject.signature = Unavailable
    BY DEF OneIdentityPerPid, RowsOf
<1>1. PICK o \in Sampled : r = Signal(o)
      BY SampledRows
<1>2. PICK q \in Sampled : s = Signal(q)
      BY SampledRows
<1>3. r.subject = o.subject /\ s.subject = q.subject
      BY <1>1, <1>2, SignalKeeps
<1>4. IF o.subject.pid \in DOMAIN procs
      THEN /\ o.subject.image = q.subject.image
           /\ \/ o.subject.signature = q.subject.signature
              \/ NotChecked \in {o.subject.signature, q.subject.signature}
      ELSE ~IsReadable(o.subject.image) /\ o.subject.signature = Unavailable
      BY <1>3, SampledRows, OneIdentity
<1>5. ASSUME NEW t \in reply'.signals, t.code = "S1"
      PROVE  t.subject.pid \in DOMAIN procs
      <2>1. PICK x \in Sampled : t = Signal(x)
            BY SampledRows
      <2>2. OfProcess(x) /\ Told(x)
            BY <1>5, <2>1, SignalKeeps, SampledRows DEF OfProcess
      <2> QED BY <2>1, <2>2, SignalKeeps DEF Told
<1> QED BY <1>3, <1>4, <1>5

\* The rows of processes without a readable image are as many as such processes.
LEMMA OneRowEach ==
    ASSUME Base, Course, RowsInv, Finish
    PROVE  UnreadablePaths = Cardinality({s \in {x \in reply'.signals : x.code = "S1"} :
                                            ~IsReadable(s.subject.image)})
<1> DEFINE P == {p \in DOMAIN procs : ~IsReadable(procs[p])}
           S == {s \in {x \in reply'.signals : x.code = "S1"} : ~IsReadable(s.subject.image)}
           f == [s \in S |-> s.subject.pid]
<1>1. IsFiniteSet(P) /\ UnreadablePaths = Cardinality(P)
      BY UnreadableType DEF UnreadablePaths
<1>2. ASSUME NEW s \in S
      PROVE  \E o \in observations : /\ s = Signal(o) /\ o.code = "S1" /\ Told(o)
                                     /\ ~IsReadable(o.subject.image)
                                     /\ s.subject.pid = o.subject.pid
      <2>1. PICK o \in Sampled : s = Signal(o)
            BY <1>2, SampledRows
      <2>2. o.code = "S1" /\ o.subject = s.subject
            BY <2>1, SignalKeeps
      <2>3. o \in observations /\ Told(o)
            BY <2>2, SampledRows DEF OfProcess
      <2> QED BY <2>1, <2>2, <2>3
<1>3. f \in [S -> P]
      BY <1>2 DEF Told
<1>4. ASSUME NEW s \in S, NEW t \in S, f[s] = f[t]
      PROVE  s = t
      <2>1. PICK o \in observations : s = Signal(o) /\ o.code = "S1" /\ s.subject.pid = o.subject.pid
            BY <1>2
      <2>2. PICK q \in observations : t = Signal(q) /\ q.code = "S1" /\ t.subject.pid = q.subject.pid
            BY <1>2
      <2>3. o.subject.pid = q.subject.pid
            BY <1>4, <2>1, <2>2
      <2>4. o = q
            BY <2>1, <2>2, <2>3 DEF RowsInv, RowsAlone, OfProcess
      <2> QED BY <2>1, <2>2, <2>4
<1>5. ASSUME NEW p \in P
      PROVE  \E s \in S : f[s] = p
      <2>1. PICK o \in observations : o.code = "S1" /\ o.subject.pid = p
            BY SampledRows DEF RowsInv, RowsCovered, HasRow
      <2>2. o.subject.image = procs[p]
            BY <2>1 DEF RowsInv, RowsMade, OfProcess, Told
      <2>3. Signal(o) \in reply'.signals
            BY SampledRows DEF Sampled
      <2>4. Signal(o) \in S /\ Signal(o).subject.pid = p
            BY <2>1, <2>2, <2>3, SignalKeeps
      <2> QED BY <2>4
<1> HIDE DEF f, P, S
<1>6. f \in Injection(S, P)
      BY <1>3, <1>4 DEF Injection, IsInjective
<1>7. f \in Surjection(S, P)
      BY <1>3, <1>5 DEF Surjection
<1>8. IsFiniteSet(S) /\ Cardinality(S) = Cardinality(P)
      BY <1>1, <1>6, <1>7, FS_Injection
<1> QED BY <1>1, <1>8 DEF S

\* The end of the scan adds no count of paths.
LEMMA FinalCount ==
    ASSUME Base, Course, RowsInv, Finish
    PROVE  FinalMeta.unreadable["process_paths"] = UnreadablePaths
<1>1. meta.unreadable["process_paths"] = UnreadablePaths /\ DOMAIN meta.unreadable = UnreadableKeys
      BY SampledRows DEF RowsInv, CountKept
<1>2. DOMAIN meta = {"complete", "probe_errors", "unreadable"}
      BY DEF Base, MetaInv, MetaShape
<1> DEFINE m == RecordError(meta, "S3")
<1>3. m.unreadable = meta.unreadable /\ "unreadable" \in DOMAIN m
      BY <1>2, RecordedKeepsCounts, RecordedError
<1>4. FinalMeta = IF failed = 0 THEN meta ELSE CountUnreadable(m, "audio_endpoints", failed)
      BY DEF FinalMeta
<1> HIDE DEF m
<1>5. CountUnreadable(m, "audio_endpoints", failed).unreadable["process_paths"]
        = m.unreadable["process_paths"]
      BY <1>1, <1>3, CountedOne DEF UnreadableKeys
<1> QED BY <1>1, <1>3, <1>4, <1>5

\* The sample that a scan answers with agrees with its counts.
LEMMA CountsFinish ==
    ASSUME Base, Course, RowsInv, Finish
    PROVE  RowsAndCountsAgree'
<1> DEFINE ones == {x \in reply'.signals : x.code = "S1"}
           twos == {x \in reply'.signals : x.code = "S2"}
<1>1. reply'.meta.unreadable["process_paths"] = Cardinality({s \in ones : ~IsReadable(s.subject.image)})
      BY OneRowEach, FinalCount, SampledRows
<1>2. {s.subject : s \in twos} = {s.subject : s \in {t \in ones : IsReadable(t.subject.image)}}
      <2>1. ASSUME NEW s \in twos
            PROVE  \E t \in ones : IsReadable(t.subject.image) /\ t.subject = s.subject
            <3>1. PICK o \in Sampled : s = Signal(o) /\ o.code = "S2" /\ s.subject = o.subject
                  BY SampledRows, SignalKeeps
            <3>2. /\ OfProcess(o) /\ o \in observations /\ Told(o)
                  /\ IsReadable(o.subject.image)
                  BY <3>1, SampledRows DEF OfProcess, Told
            <3>3. PICK q \in observations : q.code = "S1" /\ q.subject.pid = o.subject.pid
                  BY <3>2, SampledRows DEF RowsInv, RowsCovered, HasRow, Told
            <3>4. q.subject = o.subject
                  BY <3>2, <3>3 DEF RowsInv, RowsAlone, OfProcess
            <3>5. Signal(q) \in ones /\ Signal(q).subject = s.subject
                  BY <3>1, <3>3, <3>4, SampledRows, SignalKeeps DEF Sampled
            <3> QED BY <3>1, <3>2, <3>5
      <2>2. ASSUME NEW t \in ones, IsReadable(t.subject.image)
            PROVE  \E s \in twos : s.subject = t.subject
            <3>1. PICK o \in Sampled : t = Signal(o) /\ o.code = "S1" /\ t.subject = o.subject
                  BY SampledRows, SignalKeeps
            <3>2. OfProcess(o) /\ o \in observations /\ Told(o)
                  BY <3>1, SampledRows DEF OfProcess
            <3>3. PICK q \in observations : q.code = "S2" /\ q.subject.pid = o.subject.pid
                  BY <2>2, <3>1, <3>2, SampledRows DEF RowsInv, RowsCovered, HasRow, Told
            <3>4. q.subject = o.subject
                  BY <3>2, <3>3 DEF RowsInv, RowsAlone, OfProcess
            <3>5. Signal(q) \in twos /\ Signal(q).subject = t.subject
                  BY <3>1, <3>3, <3>4, SampledRows, SignalKeeps DEF Sampled
            <3> QED BY <3>5
      <2> HIDE DEF ones, twos
      <2> QED BY <2>1, <2>2
<1> QED BY <1>1, <1>2 DEF RowsAndCountsAgree, RowsOf

\* An answer leaves no rows behind for the next command.
LEMMA RowsAnswer ==
    ASSUME Base, Course, RowsInv, Finish \/ Report
    PROVE  RowsInv'
<1>1. /\ op' = "idle" /\ pc' = "idle" /\ procs' = NoProcs /\ observations' = {} /\ meta' = Snapshot
      /\ ~Listed'
      BY DEF Finish, Report, Reply, LocalsReset, Listed
<1>2. CountKept'
      BY <1>1 DEF CountKept, Snapshot, UnreadableKeys
<1>3. RowsMade' /\ RowsAlone' /\ RowsCovered'
      BY <1>1 DEF RowsMade, RowsAlone, RowsCovered
<1>4. OneIdentityPerPid' /\ RowsAndCountsAgree'
      <2>1. CASE Finish
            BY <2>1, OneIdentityFinish, CountsFinish
      <2>2. CASE Report
            <3>1. reply'.type = "coverage_report"
                  BY <2>2 DEF Report, Reply, CoverageReport
            <3> QED BY <3>1 DEF OneIdentityPerPid, RowsAndCountsAgree, IsSample
      <2> QED BY <2>1, <2>2
<1> QED BY <1>2, <1>3, <1>4 DEF RowsInv

\* There are no rows at first.
LEMMA RowsInit == Init => RowsInv
<1> SUFFICES ASSUME Init PROVE RowsInv
    OBVIOUS
<1>1. observations = {} /\ ~Listed /\ ~IsSample /\ meta = Snapshot
      BY DEF Init, Listed, IsSample
<1>2. CountKept
      BY <1>1 DEF CountKept, Snapshot, UnreadableKeys
<1> QED BY <1>1, <1>2 DEF RowsInv, RowsMade, RowsAlone, RowsCovered, OneIdentityPerPid,
                          RowsAndCountsAgree

\* Every step keeps what the rows about processes say.
LEMMA RowsStep == Base /\ Course /\ RowsInv /\ [Next]_vars => RowsInv'
<1> SUFFICES ASSUME Base, Course, RowsInv, [Next]_vars PROVE RowsInv'
    OBVIOUS
<1>1. "unreadable" \in DOMAIN meta
      BY DEF Base, MetaInv, MetaShape
<1>2. \A code : RecordError(meta, code).unreadable = meta.unreadable
      BY <1>1, RecordedKeepsCounts
<1>3. CASE \/ UNCHANGED vars
           \/ MachineChanges /\ UNCHANGED <<op, pc, locals, cache, reply, faults, commands>>
      BY <1>3, RowsQuiet DEF vars, locals, Listed
<1>4. CASE BeginScan \/ BeginCoverage
      <2>1. ~Listed /\ ~Listed' /\ reply' = None /\ UNCHANGED locals
            BY <1>4 DEF BeginScan, BeginCoverage, Begin, Listed
      <2> QED BY <2>1, RowsQuiet DEF locals, IsSample
<1>5. CASE Windows
      <2>1. ~Listed /\ ~Listed' /\ UNCHANGED <<procs, todo, observations, reply>>
            BY <1>5 DEF Windows, Sweep, SweepFails, Listed
      <2>2. meta'.unreadable = meta.unreadable
            BY <1>2, <1>5 DEF Windows, Sweep, SweepFails
      <2> QED BY <2>1, <2>2, RowsQuiet
<1>6. CASE HashFile \/ TrustFile \/ OwnImage
      <2>1. /\ UNCHANGED <<op, procs, todo, observations, meta, reply>>
            /\ UNCHANGED pc \/ (~Listed /\ ~Listed')
            BY <1>6 DEF HashFile, TrustFile, OwnImage, Course, Listed
      <2> QED BY <2>1, RowsQuiet DEF Listed
<1>7. CASE Audio
      <2>1. /\ UNCHANGED <<op, procs, todo, observations, reply>>
            /\ Listed' <=> Listed
            BY <1>7 DEF Audio, Enumerate, EndpointsFail, ComFails, AfterAudio, Listed
      <2>2. meta'.unreadable = meta.unreadable
            BY <1>2, <1>7 DEF Audio, Enumerate, EndpointsFail, ComFails
      <2> QED BY <2>1, <2>2, RowsQuiet
<1>8. CASE ProbeStep
      BY <1>5, <1>6, <1>7, <1>8, RowsList, RowsObserve, RowsForeground, RowsAnswer, Zenon
         DEF ProbeStep, Processes
<1> QED BY <1>3, <1>4, <1>8, Zenon DEF Next

SampleBase == Base /\ Course /\ RowsInv

\* The invariants so far, together.
LEMMA SampleInit == Init => SampleBase
BY TypesInit, MetaInit, KeptInit, CourseInit, RowsInit DEF SampleBase, Base

\* Every step keeps them.
LEMMA SampleStep == SampleBase /\ [Next]_vars => SampleBase'
BY TypesStep, MetaStep, KeptStep, CourseKept, RowsStep DEF SampleBase, Base

\* What the sections below take from the ones above.
LEMMA SampleInvariant == Spec => []SampleBase
BY SampleInit, SampleStep, PTL DEF Spec

\* Whatever starts, ends and fails during a scan, all rows of its sample that
\* name one pid give it one image and one verdict, if they have one; a row
\* about a process that is not in the list gives it neither (lib.rs scan, which
\* hands one process list to every probe).
THEOREM RowsAgreeOnIdentity == Spec => []OneIdentityPerPid
<1>1. SampleBase => OneIdentityPerPid
      BY DEF SampleBase, RowsInv
<1> QED BY <1>1, SampleInvariant, PTL

\* The count of unreadable paths is that of the S1 rows without an image, and
\* the other S1 rows are those that share their subject with an S2 row
\* (process.rs observe, lib.rs scan).
THEOREM CountsAreRows == Spec => []RowsAndCountsAgree
<1>1. SampleBase => RowsAndCountsAgree
      BY DEF SampleBase, RowsInv
<1> QED BY <1>1, SampleInvariant, PTL

-----------------------------------------------------------------------------
(* Which processes are listed *)

Listing == pc = "resolve" \/ Listed

\* Nothing that was there all along is missing from the list, unless the call
\* failed; an image that is refused is not taken for one that is known.
ListInv ==
    /\ Listing /\ faults \cap {"list", "snapshot"} = {} =>
            \A p \in Alive : p \notin touched => p \in DOMAIN procs
    /\ \A p \in DOMAIN procs :
            p \in Alive /\ p \notin touched /\ running[p] \in Protected => ~IsReadable(procs[p])

\* Within a command faults are only added.
LEMMA FaultsGrow ==
    ASSUME ProbeStep
    PROVE  faults \subseteq faults'
<1>1. CASE Windows \/ List \/ ListFails \/ Resolve
      BY <1>1 DEF Windows, Sweep, SweepFails, List, ListFails, Resolve, Faults
<1>2. CASE Resolved \/ HashFile \/ TrustFile \/ Observe \/ OwnImage \/ Foreground
      BY <1>2 DEF Resolved, HashFile, TrustFile, Observe, OwnImage, Foreground, Faults
<1>3. CASE Finish \/ Report
      BY <1>3 DEF Finish, Report, Reply
<1>4. CASE ComFails \/ \E flow \in {"capture", "render"} : EndpointsFail(flow)
      BY <1>4 DEF ComFails, EndpointsFail, Faults
<1>5. CASE \E flow \in {"capture", "render"} : Enumerate(flow)
      BY <1>5, EnumerateFacts DEF Enumerated
<1>6. CASE Audio
      BY <1>4, <1>5, <1>6 DEF Audio
<1> QED BY <1>1, <1>2, <1>3, <1>6, Zenon DEF ProbeStep, Processes

\* A step away from the process list leaves what is listed as it is, and faults only excuse more.
LEMMA ListQuiet ==
    ASSUME ListInv, UNCHANGED <<procs, running, touched>>, faults \subseteq faults', Listing' => Listing
    PROVE  ListInv'
BY DEF ListInv, Alive

\* A process that is untouched after a change of the machine was so before.
LEMMA ListMachine ==
    ASSUME SampleBase, ListInv, MachineChanges,
           UNCHANGED <<op, pc, locals, cache, reply, faults, commands>>
    PROVE  ListInv'
<1>1. /\ touched \subseteq touched'
      /\ \A p \in Pid : p \notin touched' => running'[p] = running[p]
      BY Unmoved DEF SampleBase, Base, TypeOK
<1>2. UNCHANGED <<procs, faults>> /\ Listing' = Listing
      BY DEF locals, Listing, Listed
<1> QED BY <1>1, <1>2 DEF ListInv, Alive

\* The snapshot lists what runs, and a path is resolved from what runs then.
LEMMA ListProcesses ==
    ASSUME SampleBase, ListInv, List \/ ListFails \/ Resolve \/ Resolved
    PROVE  ListInv'
<1>1. UNCHANGED <<running, touched>>
      BY DEF List, ListFails, Resolve, Resolved, machineVars, machine
<1>2. CASE List
      <2>1. PICK listed \in SUBSET ({0} \cup Alive) :
              /\ Faults(If(listed # {0} \cup Alive, "list"))
              /\ procs' = [p \in listed |-> Unreadable("unknown")]
            BY <1>2 DEF List
      <2>2. faults' \cap {"list", "snapshot"} = {} => listed = {0} \cup Alive
            BY <2>1 DEF Faults, If
      <2>3. \A p \in listed : ~IsReadable(procs'[p])
            BY <2>1 DEF IsReadable, Unreadable
      <2> QED BY <1>1, <2>1, <2>2, <2>3 DEF ListInv, Alive
<1>3. CASE ListFails
      <2>1. "snapshot" \in faults' /\ procs' = procs
            BY <1>3 DEF ListFails, Faults
      <2> QED BY <1>1, <2>1 DEF ListInv, Alive
<1>4. CASE Resolve
      <2>1. PICK p \in todo : \/ procs' = [procs EXCEPT ![p] = ImageOf(p)]
                              \/ procs' = [procs EXCEPT ![p] = Unreadable("unknown")]
            BY <1>4 DEF Resolve
      <2>2. /\ DOMAIN procs' = DOMAIN procs
            /\ \A q \in DOMAIN procs : q # p => procs'[q] = procs[q]
            BY <2>1
      <2>3. p \in Alive /\ running[p] \in Protected => ~IsReadable(procs'[p])
            <3>1. p \in Alive => p # 0 /\ running[p] # None
                  BY MachineAssumption DEF Alive
            <3>2. p \in DOMAIN procs
                  BY DEF SampleBase, Base, TypeOK
            <3> QED BY <2>1, <3>1, <3>2 DEF ImageOf, IsReadable, Unreadable
      <2>4. Listing /\ faults \subseteq faults'
            BY <1>4, FaultsGrow DEF Resolve, Listing, ProbeStep, Processes
      <2> QED BY <1>1, <2>2, <2>3, <2>4 DEF ListInv, Alive
<1>5. CASE Resolved
      BY <1>1, <1>5, ListQuiet DEF Resolved, Listing
<1> QED BY <1>2, <1>3, <1>4, <1>5

\* Every step keeps what the list says of the machine.
LEMMA ListStep == SampleBase /\ ListInv /\ [Next]_vars => ListInv'
<1> SUFFICES ASSUME SampleBase, ListInv, [Next]_vars PROVE ListInv'
    OBVIOUS
<1>1. CASE UNCHANGED vars
      <2>1. UNCHANGED <<op, pc, procs, running, touched, faults>>
            BY <1>1 DEF vars, locals, machineVars, machine
      <2> QED BY <2>1, ListQuiet DEF Listing, Listed
<1>2. CASE BeginScan \/ BeginCoverage
      <2>1. /\ pc' \in {"sweep", "list"} /\ procs' = procs /\ op = "idle"
            BY <1>2 DEF BeginScan, BeginCoverage, Begin, locals
      <2>2. procs = NoProcs
            BY <2>1 DEF SampleBase, Base, MetaInv, Control, Course
      <2> QED BY <2>1, <2>2 DEF ListInv, Listing, Listed, NoProcs
<1>3. CASE List \/ ListFails \/ Resolve \/ Resolved
      BY <1>3, ListProcesses
<1>4. CASE Windows \/ HashFile \/ TrustFile \/ Observe \/ OwnImage \/ Foreground \/ Audio
      <2>1. UNCHANGED <<procs, running, touched>>
            BY <1>4 DEF Windows, Sweep, SweepFails, HashFile, TrustFile, Observe, OwnImage,
                        Foreground, Audio, Enumerate, EndpointsFail, ComFails, machineVars, machine
      <2>2. Listing' => Listing
            BY <1>4 DEF Windows, Sweep, SweepFails, HashFile, TrustFile, Observe, OwnImage,
                        Foreground, Audio, Enumerate, EndpointsFail, ComFails, AfterAudio,
                        Listing, Listed, SampleBase, Course
      <2>3. faults \subseteq faults'
            BY <1>4, FaultsGrow DEF ProbeStep, Processes
      <2> QED BY <2>1, <2>2, <2>3, ListQuiet
<1>5. CASE Finish \/ Report
      BY <1>5 DEF Finish, Report, Reply, LocalsReset, ListInv, Listing, Listed, NoProcs
<1>6. CASE MachineChanges /\ UNCHANGED <<op, pc, locals, cache, reply, faults, commands>>
      BY <1>6, ListMachine
<1>7. CASE ProbeStep
      BY <1>3, <1>4, <1>5, <1>7, Zenon DEF ProbeStep, Processes
<1> QED BY <1>1, <1>2, <1>6, <1>7, Zenon DEF Next

\* Nothing is listed at first.
LEMMA ListInit == Init => ListInv
BY DEF Init, ListInv, Listing, Listed, NoProcs

\* An answer is given once, and stands until the next command begins while the
\* machine goes on.
LEMMA AnswerStands ==
    ASSUME SampleBase, [Next]_vars
    PROVE  \/ Finish \/ Report
           \/ ~IsSample' /\ ~IsCoverage'
           \/ UNCHANGED <<reply, faults>> /\ (MachineChanges \/ UNCHANGED machineVars)
<1>1. CASE UNCHANGED vars
      BY <1>1 DEF vars
<1>2. CASE BeginScan \/ BeginCoverage
      BY <1>2 DEF BeginScan, BeginCoverage, Begin, IsSample, IsCoverage
<1>3. CASE MachineChanges /\ UNCHANGED <<op, pc, locals, cache, reply, faults, commands>>
      BY <1>3
<1>4. CASE Windows \/ Processes \/ OwnImage \/ Foreground \/ Audio
      <2>1. reply' = reply
            BY <1>4 DEF Windows, Processes, Sweep, SweepFails, List, ListFails, Resolve, Resolved,
                        HashFile, TrustFile, Observe, OwnImage, Foreground, Audio, Enumerate,
                        EndpointsFail, ComFails
      <2>2. CASE op = "idle"
            <3>1. pc = "idle" /\ hashed # None
                  BY <1>4, <2>2 DEF SampleBase, Base, MetaInv, Control, Windows, Processes, Sweep,
                        SweepFails, List, ListFails, Resolve, Resolved, HashFile, Wanted, TrustFile,
                        Observe, OwnImage, Foreground, Audio, Enumerate, EndpointsFail, ComFails
            <3>2. TrustFile
                  BY <1>4, <3>1 DEF Windows, Processes, Sweep, SweepFails, List, ListFails, Resolve,
                        Resolved, HashFile, Wanted, Observe, OwnImage, Foreground, Audio, Enumerate,
                        EndpointsFail, ComFails
            <3> QED BY <3>2 DEF TrustFile
      <2>3. CASE op # "idle"
            BY <2>1, <2>3 DEF SampleBase, Base, MetaInv, Control, IsSample, IsCoverage
      <2> QED BY <2>2, <2>3
<1> QED BY <1>1, <1>2, <1>3, <1>4, Zenon DEF Next, ProbeStep

\* A complete sample had no fault that the scan takes for an error.
LEMMA CompleteIsClean ==
    ASSUME SampleBase, SampleBase', Complete'
    PROVE  faults' \cap Loud = {}
BY DEF SampleBase, Base, MetaInv, PartialNeverClean, Complete

\* The sample lists each process that was there all along.
LEMMA ProcessesFinish ==
    ASSUME SampleBase, SampleBase', ListInv, Finish
    PROVE  EveryProcessListed'
<1> SUFFICES ASSUME Complete', "list" \notin faults', NEW p \in Alive', p \notin touched'
             PROVE  Cardinality({s \in {x \in reply'.signals : x.code = "S1"} : s.subject.pid = p}) = 1
    BY DEF EveryProcessListed, RowsOf
<1> DEFINE S == {s \in {x \in reply'.signals : x.code = "S1"} : s.subject.pid = p}
<1>1. UNCHANGED <<running, touched, faults>> /\ Alive' = Alive
      BY DEF Finish, Reply, machineVars, machine, Alive
<1>2. faults \cap {"list", "snapshot"} = {}
      BY <1>1, CompleteIsClean DEF Loud
<1>3. Listed /\ todo = {}
      BY SampledRows DEF SampleBase
<1>4. p \in DOMAIN procs
      BY <1>1, <1>2, <1>3 DEF ListInv, Listing
<1>5. PICK o \in observations : o.code = "S1" /\ o.subject.pid = p
      BY <1>3, <1>4 DEF SampleBase, RowsInv, RowsCovered, HasRow
<1>6. Signal(o) \in S
      BY <1>5, SampledRows, SignalKeeps DEF SampleBase, Sampled
<1>7. ASSUME NEW s \in S
      PROVE  s = Signal(o)
      <2>1. PICK q \in Sampled : s = Signal(q)
            BY SampledRows DEF SampleBase
      <2>2. q.code = "S1" /\ q.subject.pid = p
            BY <2>1, SignalKeeps
      <2>3. q \in observations
            BY <2>2, SampledRows DEF SampleBase, OfProcess
      <2>4. q = o
            BY <1>5, <2>2, <2>3 DEF SampleBase, RowsInv, RowsAlone, OfProcess
      <2> QED BY <2>1, <2>4
<1> HIDE DEF S
<1>8. S = {Signal(o)}
      BY <1>6, <1>7
<1>9. Cardinality(S) = 1
      BY <1>8, FS_Singleton
<1> QED BY <1>9 DEF S

\* A sample is answered when every process is listed.
LEMMA ProcessesStep ==
    SampleBase /\ SampleBase' /\ ListInv /\ EveryProcessListed /\ [Next]_vars => EveryProcessListed'
<1> SUFFICES ASSUME SampleBase, SampleBase', ListInv, EveryProcessListed, [Next]_vars
             PROVE  EveryProcessListed'
    OBVIOUS
<1>1. CASE Finish
      BY <1>1, ProcessesFinish
<1>2. CASE Report
      <2>1. reply'.type = "coverage_report"
            BY <1>2 DEF Report, Reply, CoverageReport
      <2> QED BY <2>1 DEF EveryProcessListed, Complete, IsSample
<1>3. CASE ~IsSample' /\ ~IsCoverage'
      BY <1>3 DEF EveryProcessListed, Complete
<1>4. CASE UNCHANGED <<reply, faults>> /\ (MachineChanges \/ UNCHANGED machineVars)
      <2>1. touched \subseteq touched' /\ \A p \in Pid : p \notin touched' => running'[p] = running[p]
            BY <1>4, Unmoved DEF SampleBase, Base, TypeOK, machineVars, machine
      <2>2. \A p \in Alive' : p \notin touched' => p \in Alive /\ p \notin touched
            BY <2>1 DEF Alive
      <2>3. Complete' = Complete /\ RowsOf("S1")' = RowsOf("S1")
            BY <1>4 DEF Complete, IsSample, RowsOf
      <2> QED BY <1>4, <2>2, <2>3 DEF EveryProcessListed
<1> QED BY <1>1, <1>2, <1>3, <1>4, AnswerStands, Zenon

\* A complete sample has exactly one S1 row for each process that ran all
\* through the scan, whatever its image, and whatever else started and ended
\* (process.rs list and observe).
THEOREM ProcessesAllListed == Spec => []EveryProcessListed
<1> DEFINE I == SampleBase /\ ListInv /\ EveryProcessListed
<1>1. Init => I
      <2>1. Init => ~IsSample
            BY DEF Init, IsSample
      <2>2. ~IsSample => EveryProcessListed
            BY DEF EveryProcessListed, Complete
      <2> QED BY <2>1, <2>2, SampleInit, ListInit
<1>2. I /\ [Next]_vars => I'
      BY SampleStep, ListStep, ProcessesStep
<1>3. I => EveryProcessListed
      OBVIOUS
<1> QED BY <1>1, <1>2, <1>3, PTL DEF Spec

-----------------------------------------------------------------------------
(* Windows and microphone holders *)

Swept    == op = "scan" /\ pc # "sweep"
Captured == op = "scan" /\ pc \in {"render", "done"}

\* What the sweep says of the windows that stayed as they are.
SweepInv ==
    /\ pc = "idle" => sweep = EmptySweep
    /\ Swept /\ faults \cap {"windows", "affinity"} = {} =>
            \A w \in OpenWindows : w \notin touched /\ windows[w].affinity # "WDA_NONE" =>
                \E x \in sweep.non_default : x.hwnd = w /\ x.affinity = windows[w].affinity
    /\ \A x \in sweep.non_default :
            /\ x.hwnd \in Window
            /\ x.hwnd \notin touched =>
                    windows[x.hwnd] # None /\ windows[x.hwnd].affinity = x.affinity
    /\ Swept /\ "windows" \notin faults /\ Untouched(Window) =>
            \A p : p \in sweep.owners <=> OwnsWindow(p)

Excludes(o, x) ==
    /\ o.code = "S5"
    /\ o.detail.window.id = x.hwnd
    /\ o.detail.capture_excluded <=> x.affinity = "WDA_EXCLUDEFROMCAPTURE"

\* The rows about windows are those of the sweep.
ExclusionsMade ==
    /\ \A o \in observations : o.code = "S5" => \E x \in sweep.non_default : Excludes(o, x)
    /\ op = "scan" /\ pc \in {"capture", "render", "done"} =>
            \A x \in sweep.non_default : \E o \in observations : Excludes(o, x)

HolderOf(h, s) ==
    /\ h.pid = sessions[s].pid /\ h.device = DeviceOf[s] /\ h.flow = FlowOf[s]
    /\ h.state = sessions[s].state \/ "state" \in faults
    /\ h.is_system_sounds <=> s \in SystemSounds

\* Each capture session that lasts has its holder.
HoldersFound ==
    Captured /\ faults \cap {"com", "endpoints", "session"} = {} =>
        \A s \in Session :
            s \notin touched /\ FlowOf[s] = "capture" /\ sessions[s] # None /\ Held(s, {}) =>
                \E h \in holders : HolderOf(h, s)

\* What a sweep sees.
LEMMA SweepSees ==
    ASSUME Base, NEW unread \in SUBSET OpenWindows
    PROVE  /\ \A w \in OpenWindows \ unread : windows[w].affinity # "WDA_NONE" =>
                \E x \in SweepOf(unread).non_default : x.hwnd = w /\ x.affinity = windows[w].affinity
           /\ \A x \in SweepOf(unread).non_default :
                x.hwnd \in OpenWindows /\ x.affinity = windows[x.hwnd].affinity
           /\ \A p : p \in SweepOf(unread).owners <=> OwnsWindow(p)
<1> DEFINE Seen(w) == [hwnd |-> w, pid |-> windows[w].pid, visible |-> windows[w].visible,
                       affinity |-> windows[w].affinity, title |-> TitleOf[w]]
<1>1. /\ SweepOf(unread).non_default = {Seen(w) : w \in Reported(unread)}
      /\ SweepOf(unread).owners = {windows[w].pid : w \in OpenWindows}
      BY DEF SweepOf
<1>2. \A w : Seen(w).hwnd = w /\ Seen(w).affinity = windows[w].affinity
      OBVIOUS
<1>3. \A w : w \in Reported(unread) <=>
                w \in OpenWindows \ unread /\ windows[w].affinity # "WDA_NONE"
      BY DEF Reported
<1> HIDE DEF Seen
<1>4. ASSUME NEW w \in OpenWindows \ unread, windows[w].affinity # "WDA_NONE"
      PROVE  \E x \in SweepOf(unread).non_default : x.hwnd = w /\ x.affinity = windows[w].affinity
      <2>1. Seen(w) \in SweepOf(unread).non_default
            BY <1>1, <1>3, <1>4
      <2> QED BY <1>2, <2>1
<1>5. ASSUME NEW x \in SweepOf(unread).non_default
      PROVE  x.hwnd \in OpenWindows /\ x.affinity = windows[x.hwnd].affinity
      BY <1>1, <1>2, <1>3
<1>6. \A p : p \in SweepOf(unread).owners <=> OwnsWindow(p)
      BY <1>1 DEF OwnsWindow
<1> QED BY <1>4, <1>5, <1>6

\* The windows a step leaves alone.
SameWindows ==
    /\ touched \subseteq touched'
    /\ \A w \in Window : w \notin touched' => windows'[w] = windows[w]

\* A step that looks at no window and forgets none.
LEMMA SweepQuiet ==
    ASSUME SweepInv, sweep' = sweep, SameWindows, faults \subseteq faults',
           Swept' => Swept \/ "windows" \in faults', pc' # "idle" \/ pc = "idle"
    PROVE  SweepInv'
<1>1. \A w \in Window : w \notin touched' => w \notin touched /\ windows'[w] = windows[w]
      BY DEF SameWindows
<1>2. \A w : w \in OpenWindows' /\ w \notin touched' => w \in OpenWindows
      BY <1>1 DEF OpenWindows
<1>3. (pc = "idle" => sweep = EmptySweep)'
      BY DEF SweepInv
<1>4. (Swept /\ faults \cap {"windows", "affinity"} = {} =>
            \A w \in OpenWindows : w \notin touched /\ windows[w].affinity # "WDA_NONE" =>
                \E x \in sweep.non_default : x.hwnd = w /\ x.affinity = windows[w].affinity)'
      <2> SUFFICES ASSUME Swept', faults' \cap {"windows", "affinity"} = {},
                          NEW w \in OpenWindows', w \notin touched', windows'[w].affinity # "WDA_NONE"
                   PROVE  \E x \in sweep'.non_default : x.hwnd = w /\ x.affinity = windows'[w].affinity
          OBVIOUS
      <2>1. Swept /\ faults \cap {"windows", "affinity"} = {}
            OBVIOUS
      <2>2. w \in OpenWindows /\ w \notin touched /\ windows'[w] = windows[w]
            BY <1>1, <1>2 DEF OpenWindows
      <2> QED BY <2>1, <2>2 DEF SweepInv
<1>5. (\A x \in sweep.non_default :
            /\ x.hwnd \in Window
            /\ x.hwnd \notin touched =>
                    windows[x.hwnd] # None /\ windows[x.hwnd].affinity = x.affinity)'
      BY <1>1 DEF SweepInv
<1>6. (Swept /\ "windows" \notin faults /\ Untouched(Window) =>
            \A p : p \in sweep.owners <=> OwnsWindow(p))'
      <2> SUFFICES ASSUME Swept', "windows" \notin faults', Untouched(Window)'
                   PROVE  \A p : p \in sweep'.owners <=> OwnsWindow(p)'
          OBVIOUS
      <2>1. Swept /\ "windows" \notin faults /\ Untouched(Window)
            BY DEF SameWindows, Untouched
      <2>2. \A w \in Window : windows'[w] = windows[w]
            BY <1>1 DEF Untouched
      <2>3. OpenWindows' = OpenWindows
            BY <2>2 DEF OpenWindows
      <2>4. \A p : OwnsWindow(p)' <=> OwnsWindow(p)
            BY <2>2, <2>3 DEF OwnsWindow, OpenWindows
      <2> QED BY <2>1, <2>4 DEF SweepInv
<1> QED BY <1>3, <1>4, <1>5, <1>6 DEF SweepInv

\* A sweep stays true of the windows nobody has touched.
LEMMA SweepStep == SampleBase /\ SweepInv /\ [Next]_vars => SweepInv'
<1> SUFFICES ASSUME SampleBase, SweepInv, [Next]_vars PROVE SweepInv'
    OBVIOUS
<1>1. CASE UNCHANGED vars
      <2>1. UNCHANGED <<op, pc, sweep, windows, touched, faults>>
            BY <1>1 DEF vars, locals, machineVars, machine
      <2> QED BY <2>1, SweepQuiet DEF SameWindows, Swept
<1>2. CASE BeginScan \/ BeginCoverage
      <2>1. /\ pc = "idle" /\ sweep' = sweep /\ pc' # "idle" /\ ~Swept'
            BY <1>2 DEF BeginScan, BeginCoverage, Begin, locals, Swept, SampleBase, Base, MetaInv,
                        Control
      <2>2. sweep'.non_default = {}
            BY <2>1 DEF SweepInv, EmptySweep
      <2> QED BY <2>1, <2>2 DEF SweepInv
<1>3. CASE MachineChanges /\ UNCHANGED <<op, pc, locals, cache, reply, faults, commands>>
      <2>1. SameWindows
            BY <1>3, Unmoved DEF SameWindows, SampleBase, Base, TypeOK
      <2>2. UNCHANGED <<op, pc, sweep, faults>>
            BY <1>3 DEF locals
      <2> QED BY <2>1, <2>2, SweepQuiet DEF Swept
<1>4. CASE Sweep
      <2>1. PICK unread \in SUBSET OpenWindows :
                Faults(If(unread # {}, "affinity")) /\ sweep' = SweepOf(unread)
            BY <1>4 DEF Sweep
      <2>2. UNCHANGED <<windows, touched>> /\ pc' # "idle"
            BY <1>4 DEF Sweep, machineVars, machine
      <2>3. "affinity" \notin faults' => unread = {}
            BY <2>1 DEF Faults, If
      <2>4. /\ \A w \in OpenWindows \ unread : windows[w].affinity # "WDA_NONE" =>
                    \E x \in sweep'.non_default : x.hwnd = w /\ x.affinity = windows[w].affinity
            /\ \A x \in sweep'.non_default :
                    x.hwnd \in OpenWindows /\ x.affinity = windows[x.hwnd].affinity
            /\ \A p : p \in sweep'.owners <=> OwnsWindow(p)
            BY <2>1, SweepSees DEF SampleBase
      <2>5. OpenWindows' = OpenWindows /\ \A p : OwnsWindow(p)' <=> OwnsWindow(p)
            BY <2>2 DEF OpenWindows, OwnsWindow
      <2> QED BY <2>2, <2>3, <2>4, <2>5 DEF SweepInv, OpenWindows
<1>5. CASE SweepFails
      <2>1. /\ sweep' = sweep /\ "windows" \in faults' /\ UNCHANGED <<windows, touched>>
            /\ pc' # "idle" /\ faults \subseteq faults'
            BY <1>5 DEF SweepFails, Faults, machineVars, machine
      <2> QED BY <2>1, SweepQuiet DEF SameWindows
<1>6. CASE Processes \/ OwnImage \/ Foreground \/ Audio
      <2>1. sweep' = sweep /\ UNCHANGED <<windows, touched>>
            BY <1>6 DEF Processes, List, ListFails, Resolve, Resolved, HashFile, TrustFile, Observe,
                  OwnImage, Foreground, Audio, Enumerate, EndpointsFail, ComFails, machineVars, machine
      <2>2. (Swept' => Swept) /\ (pc' # "idle" \/ pc = "idle")
            BY <1>6 DEF Processes, List, ListFails, Resolve, Resolved, HashFile, TrustFile, Observe,
                  OwnImage, Foreground, Audio, Enumerate, EndpointsFail, ComFails, AfterAudio, Swept
      <2>3. faults \subseteq faults'
            BY <1>6, FaultsGrow DEF ProbeStep
      <2> QED BY <2>1, <2>2, <2>3, SweepQuiet DEF SameWindows
<1>7. CASE Finish \/ Report
      BY <1>7 DEF Finish, Report, Reply, LocalsReset, EmptySweep, SweepInv, Swept
<1>8. CASE ProbeStep
      BY <1>4, <1>5, <1>6, <1>7, <1>8, Zenon DEF ProbeStep, Windows
<1> QED BY <1>1, <1>2, <1>3, <1>8, Zenon DEF Next

Reporting == op = "scan" /\ pc \in {"capture", "render", "done"}

\* The row of a window that is not shared with the screen.
LEMMA ExclusionRowExcludes ==
    ASSUME NEW x
    PROVE  Excludes(ExclusionRow(x), x)
<1>1. WindowRef(x.hwnd, x.title, x.visible).id = x.hwnd
      BY DEF WindowRef
<1> QED BY <1>1 DEF Excludes, ExclusionRow, Observation, DetailS5

\* The rows of excluded windows are made from the sweep and stay.
LEMMA ExclusionsStep == SampleBase /\ ExclusionsMade /\ [Next]_vars => ExclusionsMade'
<1> SUFFICES ASSUME SampleBase, ExclusionsMade, [Next]_vars PROVE ExclusionsMade'
    OBVIOUS
<1>1. ASSUME UNCHANGED <<sweep, observations>>, Reporting' => Reporting
      PROVE  ExclusionsMade'
      BY <1>1 DEF ExclusionsMade, Reporting, Excludes
<1>2. ASSUME observations' = {}, ~Reporting'
      PROVE  ExclusionsMade'
      BY <1>2 DEF ExclusionsMade, Reporting
<1>3. CASE \/ UNCHANGED vars \/ BeginScan \/ BeginCoverage
           \/ MachineChanges /\ UNCHANGED <<op, pc, locals, cache, reply, faults, commands>>
      <2>1. UNCHANGED <<sweep, observations>> /\ (Reporting' => Reporting)
            BY <1>3 DEF BeginScan, BeginCoverage, Begin, vars, locals, Reporting
      <2> QED BY <1>1, <2>1
<1>4. CASE Windows
      <2>1. observations' = observations /\ ~Listed /\ ~Reporting'
            BY <1>4 DEF Windows, Sweep, SweepFails, Reporting, Listed
      <2>2. observations = {}
            BY <2>1 DEF SampleBase, RowsInv, RowsMade
      <2> QED BY <1>2, <2>1, <2>2
<1>5. CASE List \/ ListFails \/ Resolve \/ Resolved \/ HashFile \/ TrustFile \/ OwnImage \/ Audio
      <2>1. UNCHANGED <<sweep, observations>>
            BY <1>5 DEF List, ListFails, Resolve, Resolved, HashFile, TrustFile, OwnImage,
                        Audio, Enumerate, EndpointsFail, ComFails
      <2>2. Reporting' => Reporting
            BY <1>5 DEF List, ListFails, Resolve, Resolved, HashFile, TrustFile, OwnImage,
                        Audio, Enumerate, EndpointsFail, ComFails, AfterAudio, Reporting,
                        SampleBase, Course
      <2> QED BY <1>1, <2>1, <2>2
<1>6. CASE Observe
      <2>1. /\ sweep' = sweep /\ ~Reporting'
            /\ \E p \in todo : observations' = observations \cup Rows(p)
            BY <1>6 DEF Observe, Reporting
      <2>2. \A o \in observations' : o \in observations \/ o.code \in {"S1", "S2"}
            BY <2>1, RowsOfProcess DEF OfProcess
      <2> QED BY <2>1, <2>2 DEF ExclusionsMade, Reporting, Excludes
<1>7. CASE Foreground
      <2>1. PICK rows \in ForegroundRows :
              observations' = observations \cup {ExclusionRow(w) : w \in sweep.non_default} \cup rows
            BY <1>7 DEF Foreground
      <2>2. sweep' = sweep
            BY <1>7 DEF Foreground
      <2>3. \A o \in rows : o.code = "S6"
            BY <2>1, ForegroundIsNameless
      <2>4. \A x \in sweep.non_default : Excludes(ExclusionRow(x), x)
            BY ExclusionRowExcludes
      <2>5. ASSUME NEW o \in observations', o.code = "S5"
            PROVE  \E x \in sweep.non_default : Excludes(o, x)
            BY <2>1, <2>3, <2>4, <2>5 DEF ExclusionsMade
      <2>6. \A x \in sweep.non_default : \E o \in observations' : Excludes(o, x)
            BY <2>1, <2>4
      <2> QED BY <2>2, <2>5, <2>6 DEF ExclusionsMade
<1>8. CASE Finish \/ Report
      <2>1. observations' = {} /\ ~Reporting'
            BY <1>8 DEF Finish, Report, Reply, LocalsReset, Reporting
      <2> QED BY <1>2, <2>1
<1>9. CASE ProbeStep
      BY <1>4, <1>5, <1>6, <1>7, <1>8, <1>9, Zenon DEF ProbeStep, Processes
<1> QED BY <1>3, <1>9, Zenon DEF Next

\* The key and the tier of a row about a window.
LEMMA ExclusionSignal ==
    ASSUME NEW o, o.code = "S5"
    PROVE  /\ Signal(o).code = "S5"
           /\ Signal(o).observation_key = <<"S5", o.detail.window.id>>
           /\ Signal(o).tier = 2 <=> o.detail.capture_excluded
<1>1. ObservationKey(o) = <<"S5", o.detail.window.id>>
      BY Zenon DEF ObservationKey
<1>2. Tier(o) = 2 <=> o.detail.capture_excluded
      BY DEF Tier
<1> QED BY <1>1, <1>2, SignalKeeps

\* The sample reports each window that was excluded from capture all along.
LEMMA ExclusionsFinish ==
    ASSUME SampleBase, SampleBase', SweepInv, ExclusionsMade, Finish
    PROVE  ExclusionsReported'
<1> SUFFICES ASSUME Complete', "affinity" \notin faults', NEW w \in OpenWindows', w \notin touched'
             PROVE  windows'[w].affinity = "WDA_EXCLUDEFROMCAPTURE" <=>
                        \E s \in reply'.signals : /\ s.code = "S5" /\ s.tier = 2
                                                  /\ s.observation_key = <<"S5", w>>
    BY DEF ExclusionsReported, RowsOf
<1>1. UNCHANGED <<windows, touched, faults>> /\ w \in OpenWindows
      BY DEF Finish, Reply, machineVars, machine, OpenWindows
<1>2. faults \cap {"windows", "affinity"} = {}
      BY <1>1, CompleteIsClean DEF Loud
<1>3. op = "scan" /\ pc = "done" /\ Swept
      BY DEF Finish, SampleBase, Base, MetaInv, Control, Swept
<1>4. ASSUME windows[w].affinity = "WDA_EXCLUDEFROMCAPTURE"
      PROVE  \E s \in reply'.signals : /\ s.code = "S5" /\ s.tier = 2
                                       /\ s.observation_key = <<"S5", w>>
      <2>1. PICK x \in sweep.non_default : x.hwnd = w /\ x.affinity = windows[w].affinity
            BY <1>1, <1>2, <1>3, <1>4 DEF SweepInv
      <2>2. PICK o \in observations : Excludes(o, x)
            BY <1>3 DEF ExclusionsMade
      <2>3. Signal(o) \in reply'.signals
            BY SampledRows DEF SampleBase, Sampled
      <2> QED BY <1>4, <2>1, <2>2, <2>3, ExclusionSignal DEF Excludes
<1>5. ASSUME NEW s \in reply'.signals, s.code = "S5", s.tier = 2, s.observation_key = <<"S5", w>>
      PROVE  windows[w].affinity = "WDA_EXCLUDEFROMCAPTURE"
      <2>1. PICK o \in Sampled : s = Signal(o)
            BY SampledRows DEF SampleBase
      <2>2. o.code = "S5"
            BY <1>5, <2>1, SignalKeeps
      <2>3. o \in observations
            BY <2>2 DEF Sampled, MicRow, Observation
      <2>4. PICK x \in sweep.non_default : Excludes(o, x)
            BY <2>2, <2>3 DEF ExclusionsMade
      <2>5. o.detail.window.id = w /\ o.detail.capture_excluded
            BY <1>5, <2>1, <2>2, ExclusionSignal
      <2> QED BY <1>1, <2>4, <2>5 DEF Excludes, SweepInv
<1> QED BY <1>1, <1>4, <1>5

\* A sample is answered when they are made.
LEMMA ExclusionsReportedStep ==
    SampleBase /\ SampleBase' /\ SweepInv /\ ExclusionsMade /\ ExclusionsReported /\ [Next]_vars
        => ExclusionsReported'
<1> SUFFICES ASSUME SampleBase, SampleBase', SweepInv, ExclusionsMade, ExclusionsReported,
                    [Next]_vars
             PROVE  ExclusionsReported'
    OBVIOUS
<1>1. CASE Finish
      BY <1>1, ExclusionsFinish
<1>2. CASE Report
      <2>1. reply'.type = "coverage_report"
            BY <1>2 DEF Report, Reply, CoverageReport
      <2> QED BY <2>1 DEF ExclusionsReported, Complete, IsSample
<1>3. CASE ~IsSample' /\ ~IsCoverage'
      BY <1>3 DEF ExclusionsReported, Complete
<1>4. CASE UNCHANGED <<reply, faults>> /\ (MachineChanges \/ UNCHANGED machineVars)
      <2>1. SameWindows
            BY <1>4, Unmoved DEF SampleBase, Base, TypeOK, machineVars, machine, SameWindows
      <2>2. \A w \in OpenWindows' : w \notin touched' =>
                /\ w \in OpenWindows /\ w \notin touched
                /\ windows'[w] = windows[w]
            BY <2>1 DEF SameWindows, OpenWindows
      <2>3. Complete' = Complete /\ RowsOf("S5")' = RowsOf("S5")
            BY <1>4 DEF Complete, IsSample, RowsOf
      <2> QED BY <1>4, <2>2, <2>3 DEF ExclusionsReported
<1> QED BY <1>1, <1>2, <1>3, <1>4, AnswerStands, Zenon

\* In a complete sample a window that stayed as it is has a tier 2 row exactly
\* when it is excluded from capture, hidden or not, titled or not
\* (affinity.rs enum_proc and observe).
THEOREM ExclusionsAllReported == Spec => []ExclusionsReported
<1> DEFINE I == SampleBase /\ SweepInv /\ ExclusionsMade /\ ExclusionsReported
<1>1. Init => I
      <2>1. Init => SweepInv
            BY DEF Init, SweepInv, Swept, EmptySweep
      <2>2. Init => ExclusionsMade /\ ~IsSample
            BY DEF Init, ExclusionsMade, IsSample
      <2>3. ~IsSample => ExclusionsReported
            BY DEF ExclusionsReported, Complete
      <2> QED BY <2>1, <2>2, <2>3, SampleInit
<1>2. I /\ [Next]_vars => I'
      BY SampleStep, SweepStep, ExclusionsStep, ExclusionsReportedStep
<1>3. I => ExclusionsReported
      OBVIOUS
<1> QED BY <1>1, <1>2, <1>3, PTL DEF Spec

\* One pass over the capture endpoints finds every session that lasts, when no
\* endpoint and no session fails.
LEMMA CaptureFinds ==
    ASSUME Enumerate("capture"), faults' \cap {"endpoints", "session"} = {},
           NEW s \in Session, FlowOf[s] = "capture", sessions[s] # None, Held(s, {})
    PROVE  \E h \in holders' : /\ h.pid = sessions[s].pid /\ h.device = DeviceOf[s]
                               /\ h.flow = FlowOf[s]
                               /\ h.state = sessions[s].state \/ "state" \in faults'
                               /\ h.is_system_sounds <=> s \in SystemSounds
<1>1. PICK broken \in SUBSET Devices("capture"), lost \in SUBSET Opened("capture") :
      \E unread \in SUBSET (Opened("capture") \ lost) : Enumerated("capture", broken, lost, unread)
      BY EnumerateFacts
<1>2. PICK unread \in SUBSET (Opened("capture") \ lost) : Enumerated("capture", broken, lost, unread)
      BY <1>1
<1>3. broken = {} /\ lost = {}
      BY <1>2 DEF Enumerated, If
<1>4. s \in unread => "state" \in faults'
      BY <1>2 DEF Enumerated, If
<1>5. s \in Opened("capture") \ lost /\ DeviceOf[s] \notin broken
      BY <1>3 DEF Opened, OnFlow
<1>6. Held(s, unread)
      BY DEF Held, StateOf
<1>7. Holder(s, unread) \in holders'
      BY <1>2, <1>5, <1>6 DEF Enumerated
<1>8. Holder(s, unread).state = sessions[s].state \/ "state" \in faults'
      BY <1>4 DEF Holder, StateOf
<1>9. /\ Holder(s, unread).pid = sessions[s].pid /\ Holder(s, unread).device = DeviceOf[s]
      /\ Holder(s, unread).flow = FlowOf[s]
      /\ Holder(s, unread).is_system_sounds <=> s \in SystemSounds
      BY DEF Holder
<1> QED BY <1>7, <1>8, <1>9

\* The sessions a step leaves alone.
SameSessions ==
    /\ touched \subseteq touched'
    /\ \A s \in Session : s \notin touched' => sessions'[s] = sessions[s]

\* More holders, more faults and the same sessions leave none without its holder.
LEMMA HoldersQuiet ==
    ASSUME HoldersFound, SameSessions, holders \subseteq holders', faults \subseteq faults',
           Captured' => Captured
    PROVE  HoldersFound'
<1> SUFFICES ASSUME Captured', faults' \cap {"com", "endpoints", "session"} = {},
                    NEW s \in Session, s \notin touched', FlowOf[s] = "capture",
                    sessions'[s] # None, Held(s, {})'
             PROVE  \E h \in holders' : HolderOf(h, s)'
    BY DEF HoldersFound
<1>1. s \notin touched /\ sessions'[s] = sessions[s]
      BY DEF SameSessions
<1>2. Held(s, {})
      BY <1>1 DEF Held, StateOf
<1>3. PICK h \in holders : HolderOf(h, s)
      BY <1>1, <1>2 DEF HoldersFound
<1>4. HolderOf(h, s)'
      BY <1>1, <1>3 DEF HolderOf
<1> QED BY <1>4

\* The holders of a flow are found when the flow is enumerated.
LEMMA HoldersStep == SampleBase /\ HoldersFound /\ [Next]_vars => HoldersFound'
<1> SUFFICES ASSUME SampleBase, HoldersFound, [Next]_vars PROVE HoldersFound'
    OBVIOUS
<1>1. ASSUME ~Captured'
      PROVE  HoldersFound'
      BY <1>1 DEF HoldersFound
<1>2. CASE UNCHANGED vars
      <2>1. UNCHANGED <<op, pc, holders, sessions, touched, faults>>
            BY <1>2 DEF vars, locals, machineVars, machine
      <2> QED BY <2>1, HoldersQuiet DEF SameSessions, Captured
<1>3. CASE MachineChanges /\ UNCHANGED <<op, pc, locals, cache, reply, faults, commands>>
      <2>1. SameSessions
            BY <1>3, Unmoved DEF SameSessions, SampleBase, Base, TypeOK
      <2>2. UNCHANGED <<op, pc, holders, faults>>
            BY <1>3 DEF locals
      <2> QED BY <2>1, <2>2, HoldersQuiet DEF Captured
<1>4. CASE \/ BeginScan \/ BeginCoverage \/ Windows \/ List \/ ListFails \/ Resolve \/ Resolved
           \/ HashFile \/ Observe \/ OwnImage \/ Foreground \/ Finish \/ Report
      <2>1. ~Captured'
            BY <1>4 DEF BeginScan, BeginCoverage, Begin, Windows, Sweep, SweepFails, List, ListFails,
                  Resolve, Resolved, HashFile, Wanted, Observe, OwnImage, Foreground, Finish, Report,
                  Reply, Captured
      <2> QED BY <1>1, <2>1
<1>5. CASE TrustFile
      <2>1. UNCHANGED <<op, pc, holders, sessions, touched, faults>>
            BY <1>5 DEF TrustFile, machineVars, machine
      <2> QED BY <2>1, HoldersQuiet DEF SameSessions, Captured
<1>6. CASE ComFails \/ EndpointsFail("capture")
      <2>1. "com" \in faults' \/ "endpoints" \in faults'
            BY <1>6 DEF ComFails, EndpointsFail, Faults
      <2> QED BY <2>1 DEF HoldersFound
<1>7. CASE Enumerate("render") \/ EndpointsFail("render")
      <2>1. UNCHANGED <<op, sessions, touched>> /\ pc = "render"
            BY <1>7 DEF Enumerate, EndpointsFail, machineVars, machine
      <2>2. holders \subseteq holders' /\ faults \subseteq faults'
            BY <1>7, EnumerateFacts DEF EndpointsFail, Enumerated, Faults
      <2> QED BY <2>1, <2>2, HoldersQuiet DEF SameSessions, Captured
<1>8. CASE Enumerate("capture")
      <2> SUFFICES ASSUME faults' \cap {"com", "endpoints", "session"} = {},
                          NEW s \in Session, FlowOf[s] = "capture",
                          sessions'[s] # None, Held(s, {})'
                   PROVE  \E h \in holders' : HolderOf(h, s)'
          BY DEF HoldersFound
      <2>1. sessions' = sessions
            BY <1>8 DEF Enumerate, machineVars, machine
      <2>2. Held(s, {})
            BY <2>1 DEF Held, StateOf
      <2> QED BY <1>8, <2>1, <2>2, CaptureFinds DEF HolderOf
<1>9. CASE Audio
      BY <1>6, <1>7, <1>8, <1>9 DEF Audio
<1>10. CASE ProbeStep
      BY <1>4, <1>5, <1>9, <1>10, Zenon DEF ProbeStep, Processes
<1> QED BY <1>2, <1>3, <1>4, <1>10, Zenon DEF Next

\* What the row of a holder says.
LEMMA MicRowSays ==
    ASSUME NEW h
    PROVE  LET row == MicRow(h)
           IN  /\ row.code = "S3" /\ row.subject.pid = h.pid /\ row.detail.device.id = h.device
               /\ row.detail.session_state = h.state
               /\ row.detail.is_system_sounds = h.is_system_sounds
               /\ row.detail.has_window <=> h.pid \in sweep.owners
               /\ row.detail.endpoint_flow = "render" <=> h.flow # "capture"
               /\ row.detail.holds_microphone <=> h.flow = "capture"
<1>1. MicRow(h).code = "S3" /\ MicRow(h).subject.pid = h.pid
      BY DEF MicRow, Observation, WithHasWindow, NewSubject
<1> DEFINE visible == h.pid \in sweep.visible
           shown   == h.pid \in sweep.owners
           device  == SessionScoped(h.device)
           talk    == CaptureSession(shown, visible, device, h.state, h.is_system_sounds)
           hear    == RenderSession(shown, visible, device, h.state, h.is_system_sounds)
<1>2. MicRow(h).detail = IF h.flow = "capture" THEN talk ELSE hear
      BY DEF MicRow, Observation
<1>3. device.id = h.device
      BY DEF SessionScoped
<1>4. /\ talk.device = device /\ talk.session_state = h.state
      /\ talk.is_system_sounds = h.is_system_sounds
      /\ talk.has_window <=> shown
      /\ talk.endpoint_flow = "capture"
      /\ talk.holds_microphone
      BY DEF CaptureSession
<1>5. hear = [talk EXCEPT !.holds_microphone = FALSE, !.endpoint_flow = "render"]
      BY DEF RenderSession
<1>6. DOMAIN talk = {"holds_microphone", "has_window", "has_visible_window", "device",
                     "session_state", "is_system_sounds", "endpoint_flow"}
      BY DEF CaptureSession
<1>7. /\ hear.device = talk.device /\ hear.session_state = talk.session_state
      /\ hear.is_system_sounds = talk.is_system_sounds
      /\ hear.has_window = talk.has_window
      /\ hear.endpoint_flow = "render"
      /\ ~hear.holds_microphone
      <2> HIDE DEF talk, hear
      <2> QED BY <1>5, <1>6
<1> HIDE DEF shown, device, talk, hear
<1>8. CASE h.flow = "capture"
      BY <1>1, <1>2, <1>3, <1>4, <1>8 DEF shown
<1>9. CASE h.flow # "capture"
      BY <1>1, <1>2, <1>3, <1>4, <1>7, <1>9 DEF shown
<1> QED BY <1>8, <1>9

\* The key and the tier of a row about a session.
LEMMA MicSignal ==
    ASSUME NEW o, o.code = "S3"
    PROVE  /\ Signal(o).code = "S3" /\ Signal(o).detail = o.detail
           /\ Signal(o).observation_key = <<"S3", o.subject.pid, o.detail.device.id>>
           /\ Signal(o).tier = 2 <=> HeadlessHolder(o.detail)
           /\ Signal(o).tier \in {2, 3}
<1>1. ObservationKey(o) = <<"S3", o.subject.pid, o.detail.device.id>>
      BY Zenon DEF ObservationKey
<1>2. (Tier(o) = 2 <=> HeadlessHolder(o.detail)) /\ Tier(o) \in {2, 3}
      BY DEF Tier
<1> QED BY <1>1, <1>2, SignalKeeps

\* The sample has a row for each capture session that lasted, with the tier
\* its owner's windows call for.
LEMMA MicFinish ==
    ASSUME SampleBase, SampleBase', SweepInv, HoldersFound, Finish, Complete', "session" \notin faults',
           NEW s \in Session, s \notin touched', FlowOf[s] = "capture", sessions'[s] # None,
           Held(s, {})', Untouched(Window)'
    PROVE  \E r \in reply'.signals :
              /\ r.code = "S3"
              /\ r.observation_key = <<"S3", sessions'[s].pid, DeviceOf[s]>>
              /\ r.detail.holds_microphone
              /\ r.detail.session_state = sessions'[s].state \/ "state" \in faults'
              /\ r.tier = 2 <=> ~OwnsWindow(sessions[s].pid)' /\ s \notin SystemSounds
<1>1. UNCHANGED <<windows, sessions, touched, faults>>
      BY DEF Finish, Reply, machineVars, machine
<1>2. faults \cap {"com", "endpoints", "session"} = {} /\ "windows" \notin faults
      BY <1>1, CompleteIsClean DEF Loud
<1>3. op = "scan" /\ pc = "done"
      BY DEF Finish, SampleBase, Base, MetaInv, Control
<1>4. PICK h \in holders : HolderOf(h, s)
      BY <1>1, <1>2, <1>3 DEF HoldersFound, Captured, Held, StateOf
<1>5. \A p : p \in sweep.owners <=> OwnsWindow(p)
      BY <1>1, <1>2, <1>3 DEF SweepInv, Swept, Untouched
<1>6. OwnsWindow(sessions[s].pid)' <=> OwnsWindow(sessions[s].pid)
      BY <1>1 DEF OwnsWindow, OpenWindows
<1> DEFINE o == MicRow(h)
<1>7. /\ o.code = "S3" /\ o.subject.pid = h.pid /\ o.detail.device.id = h.device
      /\ o.detail.session_state = h.state
      /\ o.detail.is_system_sounds = h.is_system_sounds
      /\ o.detail.has_window <=> h.pid \in sweep.owners
      /\ o.detail.holds_microphone <=> h.flow = "capture"
      BY MicRowSays
<1>8. Signal(o) \in reply'.signals
      BY SampledRows DEF SampleBase, Sampled
<1> HIDE DEF o
<1>9. /\ h.pid = sessions[s].pid /\ h.device = DeviceOf[s] /\ h.flow = "capture"
      /\ h.state = sessions[s].state \/ "state" \in faults
      /\ h.is_system_sounds <=> s \in SystemSounds
      BY <1>4 DEF HolderOf
<1>10. HeadlessHolder(o.detail) <=> ~OwnsWindow(sessions[s].pid) /\ s \notin SystemSounds
      <2>1. o.detail.has_window <=> OwnsWindow(sessions[s].pid)
            BY <1>5, <1>7, <1>9
      <2>2. o.detail.is_system_sounds <=> s \in SystemSounds
            BY <1>7, <1>9, Zenon
      <2> QED BY <1>7, <1>9, <2>1, <2>2, Zenon DEF HeadlessHolder
<1>11. /\ Signal(o).code = "S3" /\ Signal(o).detail = o.detail
       /\ Signal(o).observation_key = <<"S3", h.pid, h.device>>
       /\ Signal(o).tier = 2 <=> HeadlessHolder(o.detail)
       BY <1>7, MicSignal
<1>12. Signal(o).detail.holds_microphone
       BY <1>7, <1>9, <1>11
<1>13. Signal(o).detail.session_state = sessions'[s].state \/ "state" \in faults'
       BY <1>1, <1>7, <1>9, <1>11
<1>14. Signal(o).observation_key = <<"S3", sessions'[s].pid, DeviceOf[s]>>
       BY <1>1, <1>9, <1>11
<1>15. Signal(o).tier = 2 <=> ~OwnsWindow(sessions[s].pid)' /\ s \notin SystemSounds
       BY <1>6, <1>10, <1>11, Zenon
<1> QED BY <1>8, <1>11, <1>12, <1>13, <1>14, <1>15, Zenon

\* A row of a render session is never a finding.
LEMMA RenderFinish ==
    ASSUME SampleBase, Finish, NEW r \in reply'.signals, r.code = "S3",
           r.detail.endpoint_flow = "render"
    PROVE  r.tier = 3
<1>1. PICK o \in Sampled : r = Signal(o)
      BY SampledRows DEF SampleBase
<1>2. o.code = "S3" /\ o.detail = r.detail
      BY <1>1, SignalKeeps
<1>3. \A x \in observations : x.code # "S3"
      BY DEF SampleBase, RowsInv, RowsMade, OfProcess
<1>4. PICK h \in holders : o = MicRow(h)
      BY <1>2, <1>3 DEF Sampled
<1>5. ~o.detail.holds_microphone
      BY <1>2, <1>4, MicRowSays
<1>6. ~HeadlessHolder(o.detail)
      BY <1>5 DEF HeadlessHolder
<1> QED BY <1>1, <1>2, <1>6, MicSignal

\* The rows of the holders are made of them before the sample is answered.
LEMMA MicFindingsStep ==
    SampleBase /\ SampleBase' /\ SweepInv /\ HoldersFound /\ MicFindingsSound /\ [Next]_vars
        => MicFindingsSound'
<1> SUFFICES ASSUME SampleBase, SampleBase', SweepInv, HoldersFound, MicFindingsSound, [Next]_vars
             PROVE  MicFindingsSound'
    OBVIOUS
<1>1. CASE Finish
      BY <1>1, MicFinish, RenderFinish DEF MicFindingsSound, RowsOf
<1>2. CASE Report
      <2>1. reply'.type = "coverage_report"
            BY <1>2 DEF Report, Reply, CoverageReport
      <2> QED BY <2>1 DEF MicFindingsSound, Complete, IsSample
<1>3. CASE ~IsSample' /\ ~IsCoverage'
      BY <1>3 DEF MicFindingsSound, Complete
<1>4. CASE UNCHANGED <<reply, faults>> /\ (MachineChanges \/ UNCHANGED machineVars)
      <2>1. SameSessions /\ SameWindows
            BY <1>4, Unmoved DEF SampleBase, Base, TypeOK, machineVars, machine, SameSessions,
                                 SameWindows
      <2>2. Complete' = Complete /\ RowsOf("S3")' = RowsOf("S3")
            BY <1>4 DEF Complete, IsSample, RowsOf
      <2>3. ASSUME NEW s \in Session, s \notin touched'
            PROVE  s \notin touched /\ sessions'[s] = sessions[s] /\ (Held(s, {})' <=> Held(s, {}))
            BY <2>1, <2>3 DEF SameSessions, Held, StateOf
      <2>4. ASSUME Untouched(Window)'
            PROVE  Untouched(Window) /\ \A p : OwnsWindow(p)' <=> OwnsWindow(p)
            <3>1. Untouched(Window) /\ \A w \in Window : windows'[w] = windows[w]
                  BY <2>1, <2>4 DEF SameWindows, Untouched
            <3> QED BY <3>1 DEF OwnsWindow, OpenWindows
      <2> SUFFICES ASSUME Complete', "session" \notin faults'
                   PROVE  /\ \A s \in Session \ touched' :
                                FlowOf[s] = "capture" /\ sessions'[s] # None /\ Held(s, {})'
                                    /\ Untouched(Window)' =>
                                \E r \in RowsOf("S3")' :
                                    /\ r.observation_key = <<"S3", sessions'[s].pid, DeviceOf[s]>>
                                    /\ r.detail.holds_microphone
                                    /\ r.detail.session_state = sessions'[s].state \/ "state" \in faults'
                                    /\ r.tier = 2 <=> ~OwnsWindow(sessions[s].pid)' /\ s \notin SystemSounds
                          /\ \A r \in RowsOf("S3")' : r.detail.endpoint_flow = "render" => r.tier = 3
          BY DEF MicFindingsSound
      <2>5. Complete /\ "session" \notin faults
            BY <1>4, <2>2
      <2>6. ASSUME NEW s \in Session, s \notin touched', FlowOf[s] = "capture", sessions'[s] # None,
                   Held(s, {})', Untouched(Window)'
            PROVE  \E r \in RowsOf("S3")' :
                      /\ r.observation_key = <<"S3", sessions'[s].pid, DeviceOf[s]>>
                      /\ r.detail.holds_microphone
                      /\ r.detail.session_state = sessions'[s].state \/ "state" \in faults'
                      /\ r.tier = 2 <=> ~OwnsWindow(sessions[s].pid)' /\ s \notin SystemSounds
            <3>1. /\ s \in Session \ touched /\ sessions'[s] = sessions[s] /\ sessions[s] # None
                  /\ Held(s, {}) /\ Untouched(Window)
                  BY <2>3, <2>4, <2>6
            <3>2. PICK r \in RowsOf("S3") :
                      /\ r.observation_key = <<"S3", sessions[s].pid, DeviceOf[s]>>
                      /\ r.detail.holds_microphone
                      /\ r.detail.session_state = sessions[s].state \/ "state" \in faults
                      /\ r.tier = 2 <=> ~OwnsWindow(sessions[s].pid) /\ s \notin SystemSounds
                  BY <2>5, <2>6, <3>1 DEF MicFindingsSound
            <3>3. PICK p : p = sessions[s].pid
                  OBVIOUS
            <3>4. OwnsWindow(p)' <=> OwnsWindow(p)
                  BY <2>4, <2>6
            <3>5. OwnsWindow(sessions[s].pid)' <=> OwnsWindow(p)'
                  BY <3>1, <3>3 DEF OwnsWindow
            <3> QED BY <1>4, <2>2, <3>1, <3>2, <3>3, <3>4, <3>5
      <2> QED BY <2>2, <2>5, <2>6 DEF MicFindingsSound
<1> QED BY <1>1, <1>2, <1>3, <1>4, AnswerStands, Zenon

\* In a complete sample each capture session that lasted has a row, also when
\* its state could not be read, tier 2 exactly when the owner shows no window
\* and is not Windows itself; a render session is never a finding (audio.rs
\* scan_device, enumerate and probe; detail.rs).
THEOREM MicFindingsTrue == Spec => []MicFindingsSound
<1> DEFINE I == SampleBase /\ SweepInv /\ HoldersFound /\ MicFindingsSound
<1>1. Init => I
      <2>1. Init => SweepInv
            BY DEF Init, SweepInv, Swept, EmptySweep
      <2>2. Init => HoldersFound /\ ~IsSample
            BY DEF Init, HoldersFound, Captured, IsSample
      <2>3. ~IsSample => MicFindingsSound
            BY DEF MicFindingsSound, Complete
      <2> QED BY <2>1, <2>2, <2>3, SampleInit
<1>2. I /\ [Next]_vars => I'
      BY SampleStep, SweepStep, HoldersStep, MicFindingsStep
<1>3. I => MicFindingsSound
      OBVIOUS
<1> QED BY <1>1, <1>2, <1>3, PTL DEF Spec

-----------------------------------------------------------------------------
(* The coverage report *)

\* A limit changes neither the key nor the state of an entry.
LEMMA LimitKeeps ==
    ASSUME NEW cap, {"key", "state"} \subseteq DOMAIN cap, NEW name, NEW n
    PROVE  /\ WithLimit(cap, name, n).key = cap.key /\ WithLimit(cap, name, n).state = cap.state
           /\ {"key", "state"} \subseteq DOMAIN WithLimit(cap, name, n)
BY DEF WithLimit

\* A capability says its own state of its own key.
LEMMA CapabilitySays ==
    ASSUME NEW key, NEW state, NEW method, NEW reason, NEW api, NEW limits
    PROVE  LET c == Capability(key, state, method, reason, api, limits)
           IN  c.key = key /\ c.state = state /\ {"key", "state"} \subseteq DOMAIN c
BY DEF Capability

\* What is told of each key.
Says(c, key, state) == c.key = key /\ c.state = state /\ {"key", "state"} \subseteq DOMAIN c

\* One more limit is no other state.
LEMMA SaysLimit ==
    ASSUME NEW c, NEW key, NEW state, Says(c, key, state), NEW name, NEW n
    PROVE  Says(WithLimit(c, name, n), key, state)
BY LimitKeeps DEF Says

\* What was called and answered.
LEMMA SaysProbed ==
    ASSUME NEW key, NEW state, NEW reason, NEW api
    PROVE  /\ Says(Probed(key, api), key, "full")
           /\ Says(Degraded(key, state, reason, api), key, state)
           /\ Says(NotApplicable(key), key, "not_applicable")
BY CapabilitySays DEF Says, Probed, Degraded, NotApplicable

\* The entries a process list gives, and one that failed.
LEMMA ProcessesSay ==
    ASSUME NEW total, NEW n
    PROVE  /\ \E c, d : /\ CapabilityOfProcesses(total, n) = {c, d}
                        /\ Says(c, "S1_processes", "full")
                        /\ Says(d, "process_paths", IF n = 0 THEN "full" ELSE "partial")
           /\ \E c, d : /\ ProcessesDenied = {c, d}
                        /\ Says(c, "S1_processes", "denied")
                        /\ Says(d, "process_paths", "unknown")
<1> DEFINE c == WithLimit(Probed("S1_processes", "CreateToolhelp32Snapshot"), "processes_total", total)
           full == Probed("process_paths", "QueryFullProcessImageNameW")
           part == WithLimit(WithLimit(
            Degraded("process_paths", "partial", "access_denied", "QueryFullProcessImageNameW"),
            "processes_total", total), "paths_unreadable", n)
           d == IF n = 0 THEN full ELSE part
<1>1. CapabilityOfProcesses(total, n) = {c, d}
      BY DEF CapabilityOfProcesses
<1>2. Says(c, "S1_processes", "full") /\ Says(full, "process_paths", "full")
      BY SaysProbed, SaysLimit
<1>3. Says(part, "process_paths", "partial")
      <2>1. Says(Degraded("process_paths", "partial", "access_denied", "QueryFullProcessImageNameW"),
                 "process_paths", "partial")
            BY SaysProbed
      <2> QED BY <2>1, SaysLimit
<1> DEFINE e == Degraded("S1_processes", "denied", "probe_failed", "CreateToolhelp32Snapshot")
           f == Degraded("process_paths", "unknown", "probe_failed", "QueryFullProcessImageNameW")
<1>4. ProcessesDenied = {e, f}
      BY DEF ProcessesDenied
<1>5. Says(e, "S1_processes", "denied") /\ Says(f, "process_paths", "unknown")
      BY SaysProbed
<1> HIDE DEF c, full, part, e, f
<1>6. Says(d, "process_paths", IF n = 0 THEN "full" ELSE "partial")
      BY <1>2, <1>3
<1> QED BY <1>1, <1>2, <1>4, <1>5, <1>6, Zenon

\* The rows of a report that depend on no call.
LEMMA OthersSay ==
    ASSUME NEW n, NEW m, NEW detail
    PROVE  /\ \E state : state # "full" /\ Says(CapabilityOfSignature(detail), "S2_signature", state)
           /\ Says(SignatureUnknown, "S2_signature", "unknown")
           /\ Says(CapabilityOfAudio(n, m), "S3_mic_owner", "partial")
           /\ Says(AudioDenied, "S3_mic_owner", "denied")
           /\ Says(CapabilityOfWindows(n, m), "S5_capture_excluded", IF m = 0 THEN "full" ELSE "partial")
           /\ Says(WindowsDenied, "S5_capture_excluded", "denied")
<1>1. \E state : state # "full" /\ Says(CapabilityOfSignature(detail), "S2_signature", state)
      <2>1. CASE detail.hash_source # "none"
            BY <2>1, SaysProbed DEF CapabilityOfSignature
      <2>2. CASE detail.hash_source = "none"
            BY <2>2, SaysProbed DEF CapabilityOfSignature
      <2> QED BY <2>1, <2>2
<1>2. /\ Says(SignatureUnknown, "S2_signature", "unknown")
      /\ Says(AudioDenied, "S3_mic_owner", "denied")
      /\ Says(WindowsDenied, "S5_capture_excluded", "denied")
      BY SaysProbed DEF SignatureUnknown, AudioDenied, WindowsDenied
<1>3. Says(CapabilityOfAudio(n, m), "S3_mic_owner", "partial")
      <2> DEFINE c == Degraded("S3_mic_owner", "partial", "collector_scope", "GetSessionEnumerator")
      <2>1. Says(c, "S3_mic_owner", "partial")
            BY SaysProbed
      <2>2. CapabilityOfAudio(n, m) = WithLimit(WithLimit(c, "capture_sessions_visible", n),
                                                "render_sessions_visible", m)
            BY DEF CapabilityOfAudio
      <2> HIDE DEF c
      <2> QED BY <2>1, <2>2, SaysLimit
<1>4. Says(CapabilityOfWindows(n, m), "S5_capture_excluded", IF m = 0 THEN "full" ELSE "partial")
      <2> DEFINE c == Probed("S5_capture_excluded", "GetWindowDisplayAffinity")
                 d == Degraded("S5_capture_excluded", "partial", "access_denied", "GetWindowDisplayAffinity")
      <2>1. Says(c, "S5_capture_excluded", "full") /\ Says(d, "S5_capture_excluded", "partial")
            BY SaysProbed
      <2>2. CapabilityOfWindows(n, m) =
                IF m = 0 THEN WithLimit(c, "windows_total", n)
                ELSE WithLimit(WithLimit(d, "windows_total", n), "windows_unreadable", m)
            BY DEF CapabilityOfWindows
      <2> HIDE DEF c, d
      <2> QED BY <2>1, <2>2, SaysLimit
<1> QED BY <1>1, <1>2, <1>3, <1>4

\* The entries made by the time a call of the coverage probe comes up.
KeysAt ==
    IF pc \in {"list", "resolve"} THEN {}
    ELSE IF pc = "own" THEN {"S1_processes", "process_paths"}
    ELSE IF pc \in {"capture", "render"} THEN {"S1_processes", "process_paths", "S2_signature"}
    ELSE IF pc = "sweep"
    THEN {"S1_processes", "process_paths", "S2_signature", "S3_mic_owner"}
    ELSE {"S1_processes", "process_paths", "S2_signature", "S3_mic_owner", "S5_capture_excluded"}

\* What "full" claims of a capability.
Measured(key) ==
    /\ key \in {"S1_processes", "process_paths"} => "snapshot" \notin faults
    /\ key = "process_paths" /\ "list" \notin faults =>
            \A p \in Alive : p \notin touched => running[p] \notin Protected
    /\ key = "S5_capture_excluded" => faults \cap {"windows", "affinity"} = {}
    /\ key \notin {"S2_signature", "S3_mic_owner", "realtime_events"}

\* The entries so far, and the calls that have not been made yet.
CapInv ==
    /\ capabilities # {} => op = "coverage"
    /\ op = "coverage" => {c.key : c \in capabilities} = KeysAt
    /\ \A c \in capabilities : c.state = "full" => Measured(c.key)
    /\ op = "coverage" /\ pc \in {"list", "resolve"} => "snapshot" \notin faults
    /\ op = "coverage" /\ pc # "report" => faults \cap {"windows", "affinity"} = {}

\* A step that makes entries, or none: what the others claim stays true when
\* the calls they are about fail no more.
LEMMA CapAdded ==
    ASSUME CapInv, op = "coverage", op' = "coverage", NEW new, capabilities' = capabilities \cup new,
           faults \subseteq faults', UNCHANGED <<running, touched>>,
           KeysAt' = KeysAt \cup {c.key : c \in new},
           \A c \in new : c.state = "full" => Measured(c.key)',
           KeysAt # {} /\ "snapshot" \in faults' => "snapshot" \in faults,
           "S5_capture_excluded" \notin KeysAt,
           pc' \in {"list", "resolve"} => "snapshot" \notin faults',
           pc' # "report" => faults' \cap {"windows", "affinity"} = {}
    PROVE  CapInv'
<1>1. {c.key : c \in capabilities'} = KeysAt'
      BY DEF CapInv
<1>2. ASSUME NEW c \in capabilities, c.state = "full"
      PROVE  Measured(c.key)'
      <2>1. PICK key : key = c.key
            OBVIOUS
      <2>2. Measured(key) /\ key \in KeysAt
            BY <1>2, <2>1 DEF CapInv
      <2>3. Measured(key)'
            BY <2>2 DEF Measured, Alive
      <2> QED BY <2>1, <2>3 DEF Measured
<1>3. \A c \in capabilities' : c.state = "full" => Measured(c.key)'
      BY <1>2
<1> QED BY <1>1, <1>3 DEF CapInv

\* A step that makes no entry.
LEMMA CapQuiet ==
    ASSUME CapInv, op = "coverage", op' = "coverage", UNCHANGED <<capabilities, running, touched>>,
           faults \subseteq faults', KeysAt' = KeysAt,
           "snapshot" \in faults' => "snapshot" \in faults,
           "S5_capture_excluded" \notin KeysAt,
           pc \notin {"list", "resolve"} => pc' \notin {"list", "resolve"},
           pc' # "report", faults' \cap {"windows", "affinity"} = {}
    PROVE  CapInv'
<1>1. capabilities' = capabilities \cup {} /\ KeysAt' = KeysAt \cup {c.key : c \in {}}
      OBVIOUS
<1>2. pc' \in {"list", "resolve"} => "snapshot" \notin faults'
      BY DEF CapInv
<1> QED BY <1>1, <1>2, CapAdded

\* No unreadable path is counted only when every listed image is known.
LEMMA NoneUnreadable ==
    ASSUME Base, UnreadablePaths = 0
    PROVE  \A p \in DOMAIN procs : IsReadable(procs[p])
<1>1. {p \in DOMAIN procs : ~IsReadable(procs[p])} = {}
      BY UnreadableType, FS_EmptySet DEF UnreadablePaths
<1> QED BY <1>1

\* The entries of the process list.
LEMMA CapProcesses ==
    ASSUME SampleBase, ListInv, CapInv, op = "coverage", List \/ ListFails \/ Resolve \/ Resolved
    PROVE  CapInv'
<1>1. UNCHANGED <<op, running, touched>> /\ faults \subseteq faults'
      BY FaultsGrow DEF List, ListFails, Resolve, Resolved, machineVars, machine, ProbeStep, Processes
<1>2. pc \in {"list", "resolve"} /\ KeysAt = {} /\ faults \cap {"windows", "affinity"} = {}
      BY DEF List, ListFails, Resolve, Resolved, KeysAt, CapInv
<1>3. "snapshot" \notin faults
      BY <1>2 DEF CapInv
<1>4. CASE List \/ Resolve
      <2>1. faults' \subseteq faults \cup {"list", "image"}
            <3>1. CASE List
                  <4>1. PICK listed \in SUBSET ({0} \cup Alive) :
                            Faults(If(listed # {0} \cup Alive, "list"))
                        BY <3>1 DEF List
                  <4> QED BY <4>1 DEF Faults, If
            <3>2. CASE Resolve
                  BY <3>2 DEF Resolve, Faults
            <3> QED BY <1>4, <3>1, <3>2
      <2>2. capabilities' = capabilities /\ pc' = "resolve"
            BY <1>4 DEF List, Resolve
      <2>3. KeysAt' = {}
            BY <2>2 DEF KeysAt
      <2> QED BY <1>1, <1>2, <1>3, <2>1, <2>2, <2>3, CapQuiet
<1>5. CASE ListFails
      <2>1. /\ capabilities' = capabilities \cup ProcessesDenied /\ pc' = "own"
            /\ faults' = faults \cup {"snapshot"}
            BY <1>5 DEF ListFails, Faults
      <2>2. PICK c, d : /\ ProcessesDenied = {c, d}
                        /\ Says(c, "S1_processes", "denied")
                        /\ Says(d, "process_paths", "unknown")
            BY ProcessesSay
      <2>3. KeysAt' = {"S1_processes", "process_paths"}
            BY <2>1 DEF KeysAt
      <2>4. KeysAt' = KeysAt \cup {x.key : x \in ProcessesDenied}
            BY <1>2, <2>2, <2>3 DEF Says
      <2>5. \A x \in ProcessesDenied : x.state # "full"
            BY <2>2 DEF Says
      <2> QED BY <1>1, <1>2, <2>1, <2>4, <2>5, CapAdded
<1>6. CASE Resolved
      <2> DEFINE new == CapabilityOfProcesses(Cardinality(DOMAIN procs), UnreadablePaths)
      <2>1. /\ capabilities' = capabilities \cup new /\ pc' = "own" /\ faults' = faults
            BY <1>6 DEF Resolved
      <2>2. PICK c, d : /\ new = {c, d}
                        /\ Says(c, "S1_processes", "full")
                        /\ Says(d, "process_paths", IF UnreadablePaths = 0 THEN "full" ELSE "partial")
            BY ProcessesSay
      <2> HIDE DEF new
      <2>3. KeysAt' = {"S1_processes", "process_paths"}
            BY <2>1 DEF KeysAt
      <2>4. KeysAt' = KeysAt \cup {x.key : x \in new}
            BY <1>2, <2>2, <2>3 DEF Says
      <2>5. Measured("S1_processes")'
            BY <1>3, <2>1 DEF Measured
      <2>6. UnreadablePaths = 0 => Measured("process_paths")'
            <3> SUFFICES ASSUME UnreadablePaths = 0, "list" \notin faults', NEW p \in Alive',
                                p \notin touched', running'[p] \in Protected
                         PROVE  FALSE
                BY <1>3, <2>1 DEF Measured
            <3>1. p \in Alive /\ p \notin touched /\ running[p] \in Protected
                  BY <1>1 DEF Alive
            <3>2. Listing
                  BY <1>6 DEF Resolved, Listing
            <3>3. p \in DOMAIN procs
                  BY <1>3, <2>1, <3>1, <3>2 DEF ListInv
            <3>4. IsReadable(procs[p])
                  BY <3>3, NoneUnreadable DEF SampleBase
            <3> QED BY <3>1, <3>3, <3>4 DEF ListInv
      <2>7. \A x \in new : x.state = "full" => Measured(x.key)'
            <3>1. Measured(c.key)'
                  BY <2>2, <2>5 DEF Says
            <3>2. d.state = "full" => Measured(d.key)'
                  BY <2>2, <2>6 DEF Says
            <3> QED BY <2>2, <3>1, <3>2
      <2> QED BY <1>1, <1>2, <1>3, <2>1, <2>4, <2>7, CapAdded
<1> QED BY <1>4, <1>5, <1>6

\* The entry of the signature check, and of the audio sessions.
LEMMA CapOwn ==
    ASSUME CapInv, op = "coverage", OwnImage
    PROVE  CapInv'
<1>1. /\ pc = "own" /\ pc' = "capture" /\ op' = op /\ UNCHANGED <<running, touched>>
      BY DEF OwnImage, machineVars, machine
<1>2. faults \subseteq faults' /\ faults' \subseteq faults \cup {"image"}
      BY DEF OwnImage, Faults
<1>3. faults \cap {"windows", "affinity"} = {}
      BY <1>1 DEF CapInv
<1>4. PICK c, state : /\ capabilities' = capabilities \cup {c}
                      /\ Says(c, "S2_signature", state) /\ state # "full"
      <2>1. PICK c : capabilities' = capabilities \cup {c} /\
                     (c = CapabilityOfSignature(cache[CacheKey(OwnExe)].detail) \/ c = SignatureUnknown)
            BY DEF OwnImage
      <2> QED BY <2>1, OthersSay
<1>5. KeysAt' = KeysAt \cup {"S2_signature"}
      BY <1>1 DEF KeysAt
<1>6. {x.key : x \in {c}} = {"S2_signature"} /\ c.state # "full"
      BY <1>4 DEF Says
<1>7. "S5_capture_excluded" \notin KeysAt
      BY <1>1 DEF KeysAt
<1>8. KeysAt' = KeysAt \cup {x.key : x \in {c}}
      BY <1>5, <1>6
<1>9. \A x \in {c} : x.state = "full" => Measured(x.key)'
      BY <1>6
<1>10. op' = "coverage" /\ ("snapshot" \in faults' => "snapshot" \in faults)
       BY <1>1, <1>2
<1>11. pc' \notin {"list", "resolve"} /\ faults' \cap {"windows", "affinity"} = {}
       BY <1>1, <1>2, <1>3
<1> HIDE DEF CapInv
<1> QED BY <1>1, <1>2, <1>4, <1>7, <1>8, <1>9, <1>10, <1>11, CapAdded

\* What the audio probe leaves behind in a coverage command.
LEMMA CapAudio ==
    ASSUME CapInv, op = "coverage", Audio
    PROVE  CapInv'
<1>1. /\ pc \in {"capture", "render"} /\ op' = op /\ UNCHANGED <<running, touched>>
      BY DEF Audio, Enumerate, EndpointsFail, ComFails, machineVars, machine
<1>2. /\ faults \subseteq faults'
      /\ faults' \subseteq faults \cup {"com", "endpoints", "session", "state"}
      <2>1. CASE ComFails \/ \E flow \in {"capture", "render"} : EndpointsFail(flow)
            BY <2>1 DEF ComFails, EndpointsFail, Faults
      <2>2. CASE \E flow \in {"capture", "render"} : Enumerate(flow)
            <3>1. PICK flow \in {"capture", "render"} : Enumerate(flow)
                  BY <2>2
            <3>2. PICK broken, lost, unread : Enumerated(flow, broken, lost, unread)
                  BY <3>1, EnumerateFacts
            <3> QED BY <3>2 DEF Enumerated, If
      <2> QED BY <2>1, <2>2 DEF Audio
<1>3. faults \cap {"windows", "affinity"} = {}
      BY <1>1 DEF CapInv
<1>4. \/ pc' = "render" /\ pc = "capture" /\ capabilities' = capabilities
      \/ pc' = "sweep" /\ \E c : /\ capabilities' = capabilities \cup {c}
                                 /\ Says(c, "S3_mic_owner", "partial") \/ Says(c, "S3_mic_owner", "denied")
      <2>1. CASE ComFails
            BY <2>1, OthersSay DEF ComFails
      <2>2. CASE \E flow \in {"capture", "render"} : Enumerate(flow) \/ EndpointsFail(flow)
            <3>1. PICK flow \in {"capture", "render"} : Enumerate(flow) \/ EndpointsFail(flow)
                  BY <2>2
            <3>2. /\ pc = flow
                  /\ \/ flow = "capture" /\ pc' = "render" /\ UNCHANGED capabilities
                     \/ flow = "render" /\ AfterAudio
                  BY <3>1 DEF Enumerate, EndpointsFail
            <3>3. CASE flow = "capture"
                  BY <3>2, <3>3
            <3>4. CASE flow = "render"
                  <4>1. PICK n, m : pc' = "sweep" /\ capabilities' = capabilities \cup {CapabilityOfAudio(n, m)}
                        BY <3>2, <3>4 DEF AfterAudio
                  <4> QED BY <4>1, OthersSay
            <3> QED BY <3>1, <3>3, <3>4
      <2> QED BY <2>1, <2>2 DEF Audio
<1>5. op' = "coverage" /\ ("snapshot" \in faults' => "snapshot" \in faults)
      BY <1>1, <1>2
<1>6. faults' \cap {"windows", "affinity"} = {}
      BY <1>2, <1>3
<1>7. "S5_capture_excluded" \notin KeysAt
      BY <1>1 DEF KeysAt
<1>8. CASE pc' = "render" /\ pc = "capture" /\ capabilities' = capabilities
      <2>1. KeysAt' = KeysAt
            BY <1>8 DEF KeysAt
      <2> QED BY <1>1, <1>2, <1>5, <1>6, <1>7, <1>8, <2>1, CapQuiet
<1>9. CASE pc' = "sweep" /\ \E c : /\ capabilities' = capabilities \cup {c}
                                   /\ Says(c, "S3_mic_owner", "partial") \/ Says(c, "S3_mic_owner", "denied")
      <2>1. PICK c : /\ capabilities' = capabilities \cup {c}
                     /\ Says(c, "S3_mic_owner", "partial") \/ Says(c, "S3_mic_owner", "denied")
            BY <1>9
      <2>2. KeysAt' = KeysAt \cup {"S3_mic_owner"}
            BY <1>1, <1>9 DEF KeysAt
      <2>3. KeysAt' = KeysAt \cup {x.key : x \in {c}}
            BY <2>1, <2>2 DEF Says
      <2>4. \A x \in {c} : x.state = "full" => Measured(x.key)'
            BY <2>1 DEF Says
      <2> QED BY <1>1, <1>2, <1>5, <1>6, <1>7, <1>9, <2>1, <2>3, <2>4, CapAdded
<1> QED BY <1>4, <1>8, <1>9

\* The entry of the windows, the last one.
LEMMA CapWindows ==
    ASSUME Base, CapInv, op = "coverage", Windows
    PROVE  CapInv'
<1>1. /\ pc = "sweep" /\ pc' = "report" /\ op' = op /\ UNCHANGED <<running, touched>>
      BY DEF Windows, Sweep, SweepFails, machineVars, machine
<1>2. faults \cap {"windows", "affinity"} = {}
      BY <1>1 DEF CapInv
<1>3. PICK c : /\ capabilities' = capabilities \cup {c}
               /\ c.key = "S5_capture_excluded"
               /\ faults \subseteq faults' /\ ("snapshot" \in faults' => "snapshot" \in faults)
               /\ c.state = "full" => faults' \cap {"windows", "affinity"} = {}
      <2>1. CASE Sweep
            <3>1. PICK unread \in SUBSET OpenWindows :
                    Faults(If(unread # {}, "affinity")) /\ sweep' = SweepOf(unread)
                  BY <2>1 DEF Sweep
            <3>2. sweep'.unreadable = Cardinality(unread)
                  BY <3>1 DEF SweepOf
            <3>3. IsFiniteSet(unread)
                  BY MachineAssumption, FS_Subset DEF OpenWindows
            <3>4. sweep'.unreadable = 0 => unread = {}
                  BY <3>2, <3>3, FS_EmptySet
            <3>5. capabilities' = capabilities \cup {CapabilityOfWindows(sweep'.total, sweep'.unreadable)}
                  BY <1>1, <2>1 DEF Sweep
            <3> DEFINE c == CapabilityOfWindows(sweep'.total, sweep'.unreadable)
            <3>6. Says(c, "S5_capture_excluded", IF sweep'.unreadable = 0 THEN "full" ELSE "partial")
                  BY OthersSay
            <3>7. c.state = "full" => faults' \cap {"windows", "affinity"} = {}
                  BY <1>2, <3>1, <3>4, <3>6 DEF Says, Faults, If
            <3>8. faults \subseteq faults' /\ ("snapshot" \in faults' => "snapshot" \in faults)
                  BY <3>1 DEF Faults, If
            <3> HIDE DEF c
            <3> QED BY <3>5, <3>6, <3>7, <3>8 DEF Says, c
      <2>2. CASE SweepFails
            BY <1>1, <2>2, OthersSay DEF SweepFails, Faults, Says
      <2> QED BY <2>1, <2>2 DEF Windows
<1>4. KeysAt' = KeysAt \cup {"S5_capture_excluded"} /\ "S5_capture_excluded" \notin KeysAt
      BY <1>1 DEF KeysAt
<1>5. KeysAt' = KeysAt \cup {x.key : x \in {c}}
      BY <1>3, <1>4
<1>6. \A x \in {c} : x.state = "full" => Measured(x.key)'
      BY <1>3 DEF Measured
<1> QED BY <1>1, <1>3, <1>4, <1>5, <1>6, CapAdded

\* Every step keeps what the entries claim.
LEMMA CapStep == SampleBase /\ ListInv /\ CapInv /\ [Next]_vars => CapInv'
<1> SUFFICES ASSUME SampleBase, ListInv, CapInv, [Next]_vars PROVE CapInv'
    OBVIOUS
<1>1. CASE UNCHANGED vars
      BY <1>1 DEF vars, locals, machineVars, machine, CapInv, KeysAt, Measured, Alive
<1>2. CASE BeginScan \/ BeginCoverage
      <2>1. /\ op = "idle" /\ capabilities' = capabilities /\ faults' = {}
            /\ op' = "coverage" => pc' = "list"
            BY <1>2 DEF BeginScan, BeginCoverage, Begin, locals
      <2>2. capabilities = {}
            BY <2>1 DEF CapInv
      <2> QED BY <2>1, <2>2 DEF CapInv, KeysAt
<1>3. CASE MachineChanges /\ UNCHANGED <<op, pc, locals, cache, reply, faults, commands>>
      <2>1. /\ touched \subseteq touched'
            /\ \A p \in Pid : p \notin touched' => running'[p] = running[p]
            BY <1>3, Unmoved DEF SampleBase, Base, TypeOK
      <2>2. UNCHANGED <<op, pc, capabilities, faults>>
            BY <1>3 DEF locals
      <2>3. \A key : Measured(key) => Measured(key)'
            BY <2>1, <2>2 DEF Measured, Alive
      <2> QED BY <2>2, <2>3 DEF CapInv, KeysAt
<1>4. CASE Finish \/ Report
      BY <1>4 DEF Finish, Report, Reply, LocalsReset, CapInv
<1>5. CASE (Windows \/ Processes \/ OwnImage \/ Foreground \/ Audio) /\ op # "coverage"
      <2>1. capabilities = {}
            BY <1>5 DEF CapInv
      <2>2. op' # "coverage" /\ capabilities' = capabilities
            BY <1>5 DEF Windows, Processes, Sweep, SweepFails, List, ListFails, Resolve, Resolved,
                  HashFile, TrustFile, Observe, Foreground, Audio, Enumerate, EndpointsFail, ComFails,
                  AfterAudio, OwnImage, SampleBase, Base, TypeOK, MetaInv, Control, Course
      <2> QED BY <2>1, <2>2 DEF CapInv
<1>6. CASE (HashFile \/ TrustFile) /\ op = "coverage"
      <2>1. UNCHANGED <<op, pc, capabilities, running, touched, faults>>
            BY <1>6 DEF HashFile, TrustFile, machineVars, machine
      <2> QED BY <2>1 DEF CapInv, KeysAt, Measured, Alive
<1>7. CASE (Observe \/ Foreground) /\ op = "coverage"
      BY <1>7 DEF Observe, Foreground, SampleBase, Course
<1>8. CASE (List \/ ListFails \/ Resolve \/ Resolved) /\ op = "coverage"
      BY <1>8, CapProcesses
<1>9. CASE (OwnImage \/ Audio \/ Windows) /\ op = "coverage"
      BY <1>9, CapOwn, CapAudio, CapWindows DEF SampleBase
<1>10. CASE ProbeStep
      BY <1>4, <1>5, <1>6, <1>7, <1>8, <1>9, <1>10, Zenon DEF ProbeStep, Processes
<1> QED BY <1>1, <1>2, <1>3, <1>10, Zenon DEF Next

\* The entries that no call stands behind.
LEMMA FixedSay ==
    /\ {c.key : c \in FixedCapabilities} = {"S6_window_titles", "host_machine", "realtime_events"}
    /\ \A c \in FixedCapabilities : c.key = "realtime_events" => c.state = "partial"
<1> DEFINE a == Probed("S6_window_titles", "GetWindowTextW")
           b == NotApplicable("host_machine")
           c == Degraded("realtime_events", "partial", "degraded_polling", "polling")
<1>1. FixedCapabilities = {a, b, c}
      BY DEF FixedCapabilities
<1>2. a.key = "S6_window_titles" /\ b.key = "host_machine"
      BY SaysProbed DEF Says
<1>3. c.key = "realtime_events" /\ c.state = "partial"
      BY SaysProbed DEF Says
<1> HIDE DEF a, b, c
<1> QED BY <1>1, <1>2, <1>3

\* The entry a report shows under a key is one that was made for it.
LEMMA ReportShows ==
    ASSUME NEW caps, NEW key \in {c.key : c \in caps}
    PROVE  \E c \in caps : c.key = key /\ CoverageReport(caps).capabilities[key] = Serialized(c)
<1> DEFINE c == CHOOSE x \in caps : x.key = key
<1>1. \E x \in caps : x.key = key
      OBVIOUS
<1>2. c \in caps /\ c.key = key
      BY <1>1, Zenon
<1> DEFINE entries == [k \in {x.key : x \in caps} |-> Serialized(CHOOSE x \in caps : x.key = k)]
<1>3. CoverageReport(caps).capabilities = entries
      BY DEF CoverageReport
<1>4. entries[key] = Serialized(c)
      BY Zenon
<1> HIDE DEF c, entries
<1> QED BY <1>2, <1>3, <1>4

\* The report's answer.
LEMMA CapReport ==
    ASSUME SampleBase, CapInv, Report
    PROVE  FullIsMeasured'
<1> DEFINE caps == capabilities \cup FixedCapabilities
           answer == reply'.capabilities
<1>1. reply' = CoverageReport(caps) /\ UNCHANGED <<faults, running, touched>>
      BY DEF Report, Reply, machineVars, machine
<1>2. op = "coverage" /\ pc = "report"
      BY DEF Report, SampleBase, Base, MetaInv, Control
<1>3. {c.key : c \in capabilities} =
        {"S1_processes", "process_paths", "S2_signature", "S3_mic_owner", "S5_capture_excluded"}
      BY <1>2 DEF CapInv, KeysAt
<1>4. {c.key : c \in caps} = CapabilityKeys
      <2>1. {c.key : c \in caps} = {c.key : c \in capabilities} \cup {c.key : c \in FixedCapabilities}
            OBVIOUS
      <2> QED BY <1>3, <2>1, FixedSay DEF CapabilityKeys
<1>5. DOMAIN answer = CapabilityKeys
      BY <1>1, <1>4 DEF CoverageReport
<1>6. \A cap : Serialized(cap).state = cap.state
      BY DEF Serialized
<1>7. ASSUME NEW key \in {"S1_processes", "process_paths", "S2_signature", "S3_mic_owner",
                          "S5_capture_excluded"},
             answer[key].state = "full"
      PROVE  Measured(key)
      <2>1. key \in {c.key : c \in caps}
            BY <1>3
      <2>2. PICK c \in caps : c.key = key /\ answer[key] = Serialized(c)
            BY <1>1, <2>1, ReportShows
      <2>3. c.state = "full"
            BY <1>6, <1>7, <2>2
      <2>4. c \notin FixedCapabilities
            BY <2>2, FixedSay
      <2>5. Measured(c.key)
            BY <2>3, <2>4 DEF CapInv
      <2> QED BY <2>2, <2>5 DEF Measured
<1>8. answer["realtime_events"].state # "full"
      <2>1. "realtime_events" \in {c.key : c \in caps}
            BY <1>4 DEF CapabilityKeys
      <2>2. PICK c \in caps : c.key = "realtime_events" /\ answer["realtime_events"] = Serialized(c)
            BY <1>1, <2>1, ReportShows
      <2>3. c \in FixedCapabilities
            BY <1>3, <2>2
      <2>4. c.state = "partial"
            BY <2>2, <2>3, FixedSay
      <2> QED BY <1>6, <2>2, <2>4
<1> HIDE DEF caps, answer
<1>9. \A key \in {"S1_processes", "process_paths", "S2_signature", "S3_mic_owner",
                  "S5_capture_excluded"} : answer[key].state = "full" => Measured(key)
      BY <1>7
<1>10. /\ answer["S1_processes"].state = "full" => "snapshot" \notin faults
       /\ answer["process_paths"].state = "full" => "snapshot" \notin faults /\
            ("list" \notin faults => ~\E p \in Alive \ touched : running[p] \in Protected)
       /\ answer["S5_capture_excluded"].state = "full" => faults \cap {"windows", "affinity"} = {}
       /\ answer["S2_signature"].state # "full" /\ answer["S3_mic_owner"].state # "full"
       BY <1>9 DEF Measured
<1>11. Alive' = Alive
       BY <1>1 DEF Alive
<1> QED BY <1>1, <1>5, <1>8, <1>10, <1>11 DEF FullIsMeasured, answer

\* A report says full of what CapInv says was measured.
LEMMA FullStep ==
    SampleBase /\ CapInv /\ FullIsMeasured /\ [Next]_vars => FullIsMeasured'
<1> SUFFICES ASSUME SampleBase, CapInv, FullIsMeasured, [Next]_vars PROVE FullIsMeasured'
    OBVIOUS
<1>1. CASE Finish
      <2>1. reply'.type = "signal_sample"
            BY <1>1 DEF Finish, Reply, SampleEnvelope
      <2> QED BY <2>1 DEF FullIsMeasured, IsCoverage
<1>2. CASE Report
      BY <1>2, CapReport
<1>3. CASE ~IsSample' /\ ~IsCoverage'
      BY <1>3 DEF FullIsMeasured
<1>4. CASE UNCHANGED <<reply, faults>> /\ (MachineChanges \/ UNCHANGED machineVars)
      <2>1. touched \subseteq touched' /\ \A p \in Pid : p \notin touched' => running'[p] = running[p]
            BY <1>4, Unmoved DEF SampleBase, Base, TypeOK, machineVars, machine
      <2>2. (\E p \in Alive \ touched : running[p] \in Protected)'
                => \E p \in Alive \ touched : running[p] \in Protected
            BY <2>1 DEF Alive
      <2>3. IsCoverage' = IsCoverage
            BY <1>4 DEF IsCoverage
      <2> QED BY <1>4, <2>2, <2>3 DEF FullIsMeasured
<1> QED BY <1>1, <1>2, <1>3, <1>4, AnswerStands, Zenon

\* A coverage report has one entry per capability and says "full" of one that
\* a call measures only when that call left nothing out (capability.rs
\* probe_all, coverage.rs CoverageReport::new).
THEOREM FullMeansMeasured == Spec => []FullIsMeasured
<1> DEFINE I == SampleBase /\ ListInv /\ CapInv /\ FullIsMeasured
<1>1. Init => I
      <2>1. Init => CapInv /\ ~IsCoverage
            BY DEF Init, CapInv, IsCoverage
      <2>2. ~IsCoverage => FullIsMeasured
            BY DEF FullIsMeasured
      <2> QED BY <2>1, <2>2, SampleInit, ListInit
<1>2. I /\ [Next]_vars => I'
      BY SampleStep, ListStep, CapStep, FullStep
<1>3. I => FullIsMeasured
      OBVIOUS
<1> QED BY <1>1, <1>2, <1>3, PTL DEF Spec
=============================================================================
