----------------------------- MODULE VerdictProofs -----------------------------
(***************************************************************************)
(* The signature cache of Scan on any machine: a verdict that a row carries *)
(* was true of a file at the row's path, for any number of changes, of      *)
(* failing calls and of commands the cache outlives.                        *)
(***************************************************************************)
EXTENDS ScanProperties, TLAPS

\* What a signature's hash, or its "valid", was true of.
HashedAs(f, sha256) == AuthenticodeHash(f) # None /\ AuthenticodeHash(f).sha256 = sha256
TrustedAs(f) ==
    \/ Trusted(VerifyTrust(f))
    \/ AuthenticodeHash(f) # None /\ ViaCatalog(AuthenticodeHash(f), VerifyTrust(f))

Backed(sig, path) ==
    /\ path \in Path
    /\ sig.sha256 # None => \E f \in held[path] : HashedAs(f, sig.sha256)
    /\ sig.state = "valid" => \E f \in held[path] : TrustedAs(f)

NoVerdict(sig) == sig.sha256 = None /\ sig.state # "valid"

SubjectSound(subject) ==
    \/ NoVerdict(subject.signature)
    \/ IsReadable(subject.image) /\ Backed(subject.signature, subject.image.path)

MachineKept ==
    /\ running \in [Pid -> Path \cup {None}]
    /\ files \in [Path -> File]
    /\ held \in [Path -> SUBSET File]
    /\ \A path \in Path : files[path] \in held[path]

ListKept ==
    /\ DOMAIN procs \subseteq {0} \cup Pid /\ todo \subseteq DOMAIN procs
    /\ \A p \in DOMAIN procs : IsReadable(procs[p]) => procs[p].path \in Path

HashKept ==
    hashed # None => /\ hashed.path \in Path
                     /\ \E f \in held[hashed.path] : hashed.hash = AuthenticodeHash(f)

CacheKept ==
    /\ DOMAIN cache = Path
    /\ \A path \in Path : cache[path] # None => Backed(cache[path].signature, path)

RowsKept  == \A o \in observations : SubjectSound(o.subject)
ReplyKept == IsSample => \A r \in reply.signals : SubjectSound(r.subject)

KeptInv == MachineKept /\ ListKept /\ HashKept /\ CacheKept /\ RowsKept /\ ReplyKept

-----------------------------------------------------------------------------
(* Facts about the operators *)

\* A verdict made of two contents the path has had, one for the hash and one
\* for the trust, is backed, also when they differ.
LEMMA VerdictBacked ==
    ASSUME NEW path \in Path, NEW f \in held[path], NEW g \in held[path]
    PROVE  Backed(Verdict(AuthenticodeHash(f), VerifyTrust(g)).signature, path)
<1> DEFINE hash == AuthenticodeHash(f)
           trust == VerifyTrust(g)
           sig == Verdict(hash, trust).signature
<1>1. CASE hash = None
      <2>1. sig = Unavailable
            BY <1>1 DEF Verdict
      <2> QED BY <2>1 DEF Backed, Unavailable, Sig
<1>2. CASE hash # None
      <2> DEFINE via   == ViaCatalog(hash, trust)
                 final == IF via THEN VerifyTrust(hash.catalog) ELSE trust
      <2>1. sig = SignatureOf(final, hash.sha256)
            BY <1>2 DEF Verdict
      <2>2. /\ sig.sha256 = hash.sha256
            /\ sig.state = "valid" => Trusted(final)
            BY <2>1 DEF SignatureOf, Valid, Unsigned, Invalid, Sig
      <2>3. HashedAs(f, sig.sha256)
            BY <1>2, <2>2 DEF HashedAs
      <2>4. sig.state = "valid" => TrustedAs(f) \/ TrustedAs(g)
            BY <1>2, <2>2 DEF TrustedAs, ViaCatalog
      <2> QED BY <2>3, <2>4 DEF Backed
<1> QED BY <1>1, <1>2

\* A subject made without a verdict claims none.
LEMMA NewSubjectSound ==
    ASSUME NEW p, NEW image, NEW b
    PROVE  /\ SubjectSound(NewSubject(p, image))
           /\ SubjectSound(WithHasWindow(NewSubject(p, image), b))
BY DEF SubjectSound, NoVerdict, NewSubject, WithHasWindow, NotChecked, Unavailable, Sig

\* What was backed stays so: a path's past only grows.
LEMMA BackedStays ==
    ASSUME \A path \in Path : held[path] \subseteq held'[path]
    PROVE  /\ \A sig, path : Backed(sig, path) => Backed(sig, path)'
           /\ \A subject : SubjectSound(subject) => SubjectSound(subject)'
<1>1. ASSUME NEW sig, NEW path, Backed(sig, path)
      PROVE  Backed(sig, path)'
      BY <1>1 DEF Backed
<1>2. ASSUME NEW subject, SubjectSound(subject)
      PROVE  SubjectSound(subject)'
      BY <1>1, <1>2 DEF SubjectSound
<1> QED BY <1>1, <1>2

-----------------------------------------------------------------------------
(* The invariant *)

\* The invariant holds at first: nothing is cached and nothing observed.
LEMMA KeptInit == Init => KeptInv
<1> SUFFICES ASSUME Init PROVE KeptInv
    OBVIOUS
<1>1. MachineKept
      BY MachineAssumption DEF Init, MachineInit, MachineKept
<1>2. ListKept /\ HashKept /\ RowsKept
      BY DEF Init, NoProcs, ListKept, HashKept, RowsKept
<1>3. CacheKept /\ ReplyKept
      BY DEF Init, CacheKept, ReplyKept, IsSample
<1> QED BY <1>1, <1>2, <1>3 DEF KeptInv

\* A step that touches no list, verdict or row, and answers nothing with rows.
LEMMA KeptQuiet ==
    ASSUME KeptInv, UNCHANGED <<running, files, held, hashed, cache, procs, todo, observations>>,
           reply' = reply \/ ~IsSample'
    PROVE  KeptInv'
<1>1. MachineKept' /\ ListKept' /\ HashKept'
      BY DEF KeptInv, MachineKept, ListKept, HashKept
<1>2. \A sig, path : Backed(sig, path) => Backed(sig, path)'
      BY DEF Backed
<1>3. \A subject : SubjectSound(subject) => SubjectSound(subject)'
      BY <1>2 DEF SubjectSound
<1>4. CacheKept' /\ RowsKept'
      BY <1>2, <1>3 DEF KeptInv, CacheKept, RowsKept
<1>5. ReplyKept'
      BY <1>3 DEF KeptInv, ReplyKept, IsSample
<1> QED BY <1>1, <1>4, <1>5 DEF KeptInv

\* What the machine does between two calls: files are replaced.
LEMMA KeptMachine ==
    ASSUME KeptInv, MachineChanges,
           UNCHANGED <<hashed, cache, procs, todo, observations, reply>>
    PROVE  KeptInv'
<1>1. MachineKept' /\ \A path \in Path : held[path] \subseteq held'[path]
      <2>1. CASE \E p \in Pid : Exits(p)
            BY <2>1 DEF Exits, KeptInv, MachineKept
      <2>2. CASE \E p \in Pid, path \in Path : Starts(p, path)
            BY <2>2 DEF Starts, KeptInv, MachineKept
      <2>3. CASE \E w \in Window : WindowChanges(w)
            BY <2>3 DEF WindowChanges, KeptInv, MachineKept
      <2>4. CASE \E s \in Session : SessionChanges(s)
            BY <2>4 DEF SessionChanges, KeptInv, MachineKept
      <2>5. CASE \E path \in Path, f \in File : FileReplaced(path, f)
            <3>1. PICK path \in Path, f \in File : FileReplaced(path, f)
                  BY <2>5
            <3>2. /\ files' = [files EXCEPT ![path] = f]
                  /\ held' = [held EXCEPT ![path] = held[path] \cup {f}]
                  /\ running' = running
                  BY <3>1 DEF FileReplaced
            <3> QED BY <3>2 DEF KeptInv, MachineKept
      <2> QED BY <2>1, <2>2, <2>3, <2>4, <2>5 DEF MachineChanges
<1>2. /\ \A sig, path : Backed(sig, path) => Backed(sig, path)'
      /\ \A subject : SubjectSound(subject) => SubjectSound(subject)'
      BY <1>1, BackedStays
<1>3. ListKept' /\ HashKept'
      BY <1>1 DEF KeptInv, ListKept, HashKept
<1>4. CacheKept' /\ RowsKept' /\ ReplyKept'
      BY <1>2 DEF KeptInv, CacheKept, RowsKept, ReplyKept, IsSample
<1> QED BY <1>1, <1>3, <1>4 DEF KeptInv

\* The processes are listed, their images read, and the observing loop begun.
LEMMA KeptList ==
    ASSUME KeptInv, List \/ Resolve \/ Resolved
    PROVE  KeptInv'
<1>1. /\ UNCHANGED <<running, files, held, hashed, cache, observations, reply>>
      BY DEF List, Resolve, Resolved, machineVars, machine
<1>2. ListKept'
      <2>1. CASE List
            BY <2>1 DEF List, Alive, ListKept, IsReadable, Unreadable
      <2>2. CASE Resolve
            <3>1. PICK p \in todo :
                  /\ todo' = todo \ {p}
                  /\ procs' = [procs EXCEPT ![p] = procs'[p]]
                  /\ procs'[p] \in {ImageOf(p), Unreadable("unknown")}
                  BY <2>2 DEF Resolve, KeptInv, ListKept
            <3>2. p \in {0} \cup Pid
                  BY DEF KeptInv, ListKept
            <3>3. IsReadable(procs'[p]) => procs'[p].path \in Path
                  BY <3>1, <3>2 DEF ImageOf, IsReadable, Readable, Unreadable,
                        KeptInv, MachineKept
            <3> QED BY <3>1, <3>3 DEF KeptInv, ListKept
      <2>3. CASE Resolved
            BY <2>3 DEF Resolved, KeptInv, ListKept
      <2> QED BY <2>1, <2>2, <2>3
<1>3. MachineKept' /\ HashKept'
      BY <1>1 DEF KeptInv, MachineKept, HashKept
<1>4. /\ \A sig, path : Backed(sig, path) => Backed(sig, path)'
      /\ \A subject : SubjectSound(subject) => SubjectSound(subject)'
      BY <1>1, BackedStays
<1>5. CacheKept' /\ RowsKept' /\ ReplyKept'
      BY <1>1, <1>4 DEF KeptInv, CacheKept, RowsKept, ReplyKept, IsSample
<1> QED BY <1>2, <1>3, <1>5 DEF KeptInv

\* verify's first look at a file.
LEMMA KeptHash ==
    ASSUME KeptInv, HashFile
    PROVE  KeptInv'
<1>1. UNCHANGED <<running, files, held, cache, procs, todo, observations, reply>>
      BY DEF HashFile, machineVars, machine
<1>2. PICK path \in Wanted : hashed' = [path |-> path, hash |-> AuthenticodeHash(files[path])]
      BY DEF HashFile
<1>3. path \in Path
      BY ScanAssumption DEF Wanted, First, KeptInv, ListKept
<1>4. HashKept'
      BY <1>1, <1>2, <1>3 DEF HashKept, KeptInv, MachineKept
<1>5. MachineKept' /\ ListKept'
      BY <1>1 DEF KeptInv, MachineKept, ListKept
<1>6. /\ \A sig, p : Backed(sig, p) => Backed(sig, p)'
      /\ \A subject : SubjectSound(subject) => SubjectSound(subject)'
      BY <1>1, BackedStays
<1>7. CacheKept' /\ RowsKept' /\ ReplyKept'
      BY <1>1, <1>6 DEF KeptInv, CacheKept, RowsKept, ReplyKept, IsSample
<1> QED BY <1>4, <1>5, <1>7 DEF KeptInv

\* verify's second look, which may be at another content: the verdict that is
\* cached is backed by what the path held then and now.
LEMMA KeptTrust ==
    ASSUME KeptInv, TrustFile
    PROVE  KeptInv'
<1>1. /\ UNCHANGED <<running, files, held, procs, todo, observations, reply>>
      /\ hashed # None /\ hashed' = None
      BY DEF TrustFile, machineVars, machine
<1> DEFINE path == hashed.path
           verdict == Verdict(hashed.hash, VerifyTrust(files[path]))
<1>2. cache' = [cache EXCEPT ![path] = verdict]
      BY DEF TrustFile, CacheKey, Remembered
<1>3. path \in Path
      BY <1>1 DEF KeptInv, HashKept
<1>4. PICK f \in held[path] : hashed.hash = AuthenticodeHash(f)
      BY <1>1 DEF KeptInv, HashKept
<1>5. files[path] \in held[path]
      BY <1>3 DEF KeptInv, MachineKept
<1>6. Backed(verdict.signature, path)
      BY <1>3, <1>4, <1>5, VerdictBacked
<1>7. /\ \A sig, p : Backed(sig, p) => Backed(sig, p)'
      /\ \A subject : SubjectSound(subject) => SubjectSound(subject)'
      BY <1>1, BackedStays
<1> HIDE DEF path, verdict
<1>8. CacheKept'
      <2>1. DOMAIN cache' = Path
            BY <1>2 DEF KeptInv, CacheKept
      <2>2. ASSUME NEW p \in Path, cache'[p] # None
            PROVE  Backed(cache'[p].signature, p)
            BY <1>2, <1>6, <2>2 DEF KeptInv, CacheKept
      <2>3. ASSUME NEW p \in Path, cache'[p] # None
            PROVE  Backed(cache[p].signature, p)'
            BY <2>2, <2>3, <1>7
      <2> QED BY <2>1, <2>3 DEF CacheKept
<1>9. MachineKept' /\ ListKept' /\ HashKept'
      BY <1>1 DEF KeptInv, MachineKept, ListKept, HashKept
<1>10. RowsKept' /\ ReplyKept'
      BY <1>1, <1>7 DEF KeptInv, RowsKept, ReplyKept, IsSample
<1> QED BY <1>8, <1>9, <1>10 DEF KeptInv

\* The rows of one process carry the cached verdict of its image, or none.
LEMMA RowsSound ==
    ASSUME KeptInv, NEW p \in todo, IsReadable(procs[p]) => cache[CacheKey(procs[p].path)] # None,
           NEW o \in Rows(p)
    PROVE  SubjectSound(o.subject)
<1> DEFINE subject == WithHasWindow(NewSubject(p, procs[p]), WindowCount(p) > 0)
           sig     == cache[procs[p].path].signature
           signed  == WithSignature(subject, sig)
<1>1. CASE IsReadable(procs[p])
      <2>1. o.subject = signed
            BY <1>1 DEF Rows, RowsOfOne, CacheKey, Observation
      <2>2. procs[p].path \in Path
            BY <1>1 DEF KeptInv, ListKept
      <2>3. Backed(sig, procs[p].path)
            BY <1>1, <2>2 DEF KeptInv, CacheKept, CacheKey
      <2>4. subject.image = procs[p]
            BY DEF WithHasWindow, NewSubject
      <2>5. signed.image = procs[p]
            BY <2>4 DEF WithSignature, WithHasWindow, NewSubject
      <2>6. signed.signature = sig
            BY <1>1, <2>4 DEF WithSignature, WithHasWindow, NewSubject
      <2> QED BY <1>1, <2>1, <2>3, <2>5, <2>6 DEF SubjectSound
<1>2. CASE ~IsReadable(procs[p])
      <2>1. o.subject = subject
            BY <1>2 DEF Rows, RowsOfOne, Observation
      <2> QED BY <2>1, NewSubjectSound
<1> QED BY <1>1, <1>2

\* The rows of one process join the others.
LEMMA KeptObserve ==
    ASSUME KeptInv, Observe
    PROVE  KeptInv'
<1>1. UNCHANGED <<running, files, held, hashed, cache, procs, reply>>
      BY DEF Observe, machineVars, machine
<1>2. PICK p \in todo :
        /\ todo' = todo \ {p}
        /\ IsReadable(procs[p]) => cache[CacheKey(procs[p].path)] # None
        /\ observations' = observations \cup Rows(p)
      BY DEF Observe
<1>3. \A o \in observations' : SubjectSound(o.subject)
      BY <1>2, RowsSound DEF KeptInv, RowsKept
<1>4. /\ \A sig, path : Backed(sig, path) => Backed(sig, path)'
      /\ \A subject : SubjectSound(subject) => SubjectSound(subject)'
      BY <1>1, BackedStays
<1>5. RowsKept'
      BY <1>3, <1>4 DEF RowsKept
<1>6. MachineKept' /\ ListKept' /\ HashKept'
      BY <1>1, <1>2 DEF KeptInv, MachineKept, ListKept, HashKept
<1>7. CacheKept' /\ ReplyKept'
      BY <1>1, <1>4 DEF KeptInv, CacheKept, ReplyKept, IsSample
<1> QED BY <1>5, <1>6, <1>7 DEF KeptInv

\* Rows about windows have no verdict.
LEMMA KeptForeground ==
    ASSUME KeptInv, Foreground
    PROVE  KeptInv'
<1>1. UNCHANGED <<running, files, held, hashed, cache, procs, todo, reply>>
      BY DEF Foreground, machineVars, machine
<1>2. PICK rows \in ForegroundRows :
        observations' = observations \cup {ExclusionRow(w) : w \in sweep.non_default} \cup rows
      BY DEF Foreground
<1>3. \A w : SubjectSound(ExclusionRow(w).subject)
      BY NewSubjectSound DEF ExclusionRow, WindowSubject, ListedSubject, Observation
<1>4. \A w, p, visible : SubjectSound(ForegroundRow(w, p, visible).subject)
      BY NewSubjectSound DEF ForegroundRow, WindowSubject, ListedSubject, Observation
<1>5. \A o \in rows : SubjectSound(o.subject)
      <2>1. rows \in {{}} \cup {{ForegroundRow(w, windows[w].pid, windows[w].visible)} : w \in OpenWindows}
                    \cup {{ForegroundRow(w, 0, FALSE)} : w \in (Window \cap touched) \ OpenWindows}
            BY <1>2 DEF ForegroundRows
      <2>2. CASE rows = {}
            BY <2>2
      <2>3. CASE \E w \in OpenWindows : rows = {ForegroundRow(w, windows[w].pid, windows[w].visible)}
            BY <2>3, <1>4
      <2>4. CASE \E w \in (Window \cap touched) \ OpenWindows : rows = {ForegroundRow(w, 0, FALSE)}
            BY <2>4, <1>4
      <2> QED BY <2>1, <2>2, <2>3, <2>4
<1>6. \A o \in observations' : SubjectSound(o.subject)
      BY <1>2, <1>3, <1>5 DEF KeptInv, RowsKept
<1>7. /\ \A sig, path : Backed(sig, path) => Backed(sig, path)'
      /\ \A subject : SubjectSound(subject) => SubjectSound(subject)'
      BY <1>1, BackedStays
<1>8. RowsKept'
      BY <1>6, <1>7 DEF RowsKept
<1>9. MachineKept' /\ ListKept' /\ HashKept'
      BY <1>1 DEF KeptInv, MachineKept, ListKept, HashKept
<1>10. CacheKept' /\ ReplyKept'
      BY <1>1, <1>7 DEF KeptInv, CacheKept, ReplyKept, IsSample
<1> QED BY <1>8, <1>9, <1>10 DEF KeptInv

\* The sample: the rows so far and those of the holders, which have no verdict.
LEMMA KeptReply ==
    ASSUME KeptInv, Finish \/ Report
    PROVE  KeptInv'
<1>1. /\ UNCHANGED <<running, files, held, cache>>
      /\ hashed' = None /\ procs' = NoProcs /\ todo' = {} /\ observations' = {}
      BY DEF Finish, Report, Reply, LocalsReset, machineVars, machine
<1>2. /\ \A sig, path : Backed(sig, path) => Backed(sig, path)'
      /\ \A subject : SubjectSound(subject) => SubjectSound(subject)'
      BY <1>1, BackedStays
<1>3. MachineKept' /\ CacheKept'
      BY <1>1, <1>2 DEF KeptInv, MachineKept, CacheKept
<1>4. ListKept' /\ HashKept' /\ RowsKept'
      BY <1>1 DEF ListKept, HashKept, RowsKept, NoProcs
<1>5. ReplyKept'
      <2>1. CASE Report
            <3>1. reply'.type = "coverage_report"
                  BY <2>1 DEF Report, Reply, CoverageReport
            <3> QED BY <3>1 DEF ReplyKept, IsSample
      <2>2. CASE Finish
            <3>1. reply' = SampleEnvelope(observations \cup {MicRow(h) : h \in holders}, FinalMeta)
                  BY <2>2 DEF Finish, Reply
            <3>2. reply'.signals = {Signal(o) : o \in observations \cup {MicRow(h) : h \in holders}}
                  BY <3>1 DEF SampleEnvelope
            <3>3. \A h : SubjectSound(MicRow(h).subject)
                  BY NewSubjectSound DEF MicRow, Observation
            <3>4. \A o : Signal(o).subject = o.subject
                  BY DEF Signal
            <3>5. \A r \in reply'.signals : SubjectSound(r.subject)
                  BY <3>2, <3>3, <3>4 DEF KeptInv, RowsKept
            <3> QED BY <3>5, <1>2 DEF ReplyKept
      <2> QED BY <2>1, <2>2
<1> QED BY <1>3, <1>4, <1>5 DEF KeptInv

\* Every step keeps the invariant.
LEMMA KeptStep == KeptInv /\ [Next]_vars => KeptInv'
<1> SUFFICES ASSUME KeptInv, [Next]_vars PROVE KeptInv'
    OBVIOUS
<1>1. CASE BeginScan \/ BeginCoverage
      <2>1. /\ UNCHANGED <<running, files, held, hashed, cache, procs, todo, observations>>
            /\ ~IsSample'
            BY <1>1 DEF BeginScan, BeginCoverage, Begin, locals, machine, IsSample
      <2> QED BY <2>1, KeptQuiet
<1>2. CASE Windows \/ ListFails \/ OwnImage \/ Audio
      <2>1. UNCHANGED <<running, files, held, hashed, cache, procs, todo, observations, reply>>
            BY <1>2 DEF Windows, Sweep, SweepFails, ListFails, OwnImage, Audio, Enumerate,
                        EndpointsFail, ComFails, machineVars, machine
      <2> QED BY <2>1, KeptQuiet
<1>3. CASE List \/ Resolve \/ Resolved
      BY <1>3, KeptList
<1>4. CASE HashFile
      BY <1>4, KeptHash
<1>5. CASE TrustFile
      BY <1>5, KeptTrust
<1>6. CASE Observe
      BY <1>6, KeptObserve
<1>7. CASE Foreground
      BY <1>7, KeptForeground
<1>8. CASE Finish \/ Report
      BY <1>8, KeptReply
<1>9. CASE MachineChanges /\ UNCHANGED <<op, pc, locals, cache, reply, faults, commands>>
      <2>1. UNCHANGED <<hashed, cache, procs, todo, observations, reply>>
            BY <1>9 DEF locals
      <2> QED BY <1>9, <2>1, KeptMachine
<1>10. CASE UNCHANGED vars
      <2>1. UNCHANGED <<running, files, held, hashed, cache, procs, todo, observations, reply>>
            BY <1>10 DEF vars, locals, machineVars, machine
      <2> QED BY <2>1, KeptQuiet
<1>11. CASE ProbeStep
      BY <1>11, <1>2, <1>3, <1>4, <1>5, <1>6, <1>7, <1>8, Zenon DEF ProbeStep, Processes
<1>12. CASE Next
      BY <1>12, <1>1, <1>9, <1>11, Zenon DEF Next
<1> QED BY <1>10, <1>12

\* On any machine, a hash in a row, and "valid", were true of a file that was
\* at the row's path, however long ago the verdict was cached and whatever
\* replaced the file between the two opens of verify (signature.rs).
THEOREM VerdictsWereTrue == Spec => []VerdictWasTrueOnce
<1>1. KeptInv => VerdictWasTrueOnce
      <2> SUFFICES ASSUME KeptInv, IsSample, NEW r \in reply.signals
                   PROVE  LET sig  == r.subject.signature
                              path == r.subject.image.path
                              HashedIn(f) == AuthenticodeHash(f) # None /\ AuthenticodeHash(f).sha256 = sig.sha256
                              TrustedIn(f) == \/ Trusted(VerifyTrust(f))
                                              \/ /\ AuthenticodeHash(f) # None
                                                 /\ ViaCatalog(AuthenticodeHash(f), VerifyTrust(f))
                          IN  /\ sig.sha256 # None =>
                                    IsReadable(r.subject.image) /\ \E f \in held[path] : HashedIn(f)
                              /\ sig.state = "valid" => \E f \in held[path] : TrustedIn(f)
          BY DEF VerdictWasTrueOnce
      <2>1. SubjectSound(r.subject)
            BY DEF KeptInv, ReplyKept
      <2> QED BY <2>1 DEF SubjectSound, NoVerdict, Backed, HashedAs, TrustedAs
<1> QED BY <1>1, KeptInit, KeptStep, PTL DEF Spec
=============================================================================
