---------------------------- MODULE LifetimeProofs ----------------------------
(***************************************************************************)
(* Theorems about Lifetime for any number of launches and logins, of        *)
(* crashes and of damages.                                                  *)
(***************************************************************************)
EXTENDS Lifetime, TLAPS

-----------------------------------------------------------------------------
(* One collector per login *)

\* Places in which a launch certainly has a handle to its login's mutex.
Holding == Places \ {"off", "instance", "fatal", "ended"}

\* Past the check, and not on the way out with a message.
Working == Past \ {"fatal"}

Types ==
    /\ pc \in [Launch -> Places] /\ handles \subseteq Launch
    /\ feed \in [Login -> 0..MaxFeed]

Guarded == \A a \in Launch : pc[a] \in Holding => a \in handles

Alone ==
    \A a, b \in Launch :
        a # b /\ LoginOf[a] = LoginOf[b] => pc[a] \notin Working \/ pc[b] \notin Working

\* The first message goes to an empty file.
Fresh == \A a \in Launch : pc[a] = "consent" => feed[LoginOf[a]] = 0

LoginInv == Types /\ Guarded /\ Alone /\ Fresh

\* Nobody has launched yet: no handle, no line in a feed.
LEMMA LoginInit == Init => LoginInv
BY LifetimeAssumption DEF Init, LoginInv, Types, Guarded, Alone, Fresh, Holding, Working, Past, Places, Login

\* Steps that change neither handles nor feed, between two places of which the
\* second is Working only when the first is.
LEMMA QuietStep ==
    ASSUME LoginInv, NEW a \in Launch, NEW p \in Places,
           pc' = [pc EXCEPT ![a] = p], handles' = handles, feed' = feed,
           p \in Working => pc[a] \in Working,
           p \in Holding => pc[a] \in Holding,
           p = "consent" => pc[a] = "consent"
    PROVE  LoginInv'
BY DEF LoginInv, Types, Guarded, Alone, Fresh, Login

\* Every step keeps one launch per login: a second is let in only when the first
\* has let go of its handle.
LEMMA LoginStep == LoginInv /\ [Next]_vars => LoginInv'
<1> SUFFICES ASSUME LoginInv, [Next]_vars PROVE LoginInv'
    OBVIOUS
<1> USE DEF Go
<1>1. ASSUME NEW a \in Launch, Starts(a) PROVE LoginInv'
      BY <1>1, QuietStep DEF Starts, Holding, Working, Past, Places
<1>2. ASSUME NEW a \in Launch, Startup(a) PROVE LoginInv'
  <2>1. CASE Acquire(a)
        BY <2>1 DEF Acquire, Contended, MutexExists, LoginInv, Types, Guarded, Alone, Fresh,
                    Holding, Working, Past, Places, Login
  <2>2. CASE AcquireFails(a)
        BY <2>2, QuietStep DEF AcquireFails, Holding, Working, Past, Places
  <2>3. CASE Refused(a)
        BY <2>3 DEF Refused, LoginInv, Types, Guarded, Alone, Fresh, Holding, Working, Past, Places, Login
  <2>4. CASE OpenSink(a)
        BY <2>4, LifetimeAssumption
        DEF OpenSink, SinkAt, LoginInv, Types, Guarded, Alone, Fresh, Holding, Working, Past, Places, Login
  <2>5. CASE OpenSinkFails(a)
        BY <2>5, QuietStep DEF OpenSinkFails, Holding, Working, Past, Places
  <2> QED BY <1>2, <2>1, <2>2, <2>3, <2>4, <2>5 DEF Startup
<1>3. ASSUME NEW a \in Launch, Consent(a) PROVE LoginInv'
  <2>1. CASE ConsentGranted(a)
        BY <2>1, LifetimeAssumption
        DEF ConsentGranted, Write, LoginInv, Types, Guarded, Alone, Fresh, Holding, Working, Past, Places, Login
  <2>2. CASE ConsentDeclined(a)
        BY <2>2, LifetimeAssumption
        DEF ConsentDeclined, Write, LoginInv, Types, Guarded, Alone, Fresh, Holding, Working, Past, Places, Login
  <2>3. CASE NoWindow(a)
        BY <2>3, QuietStep DEF NoWindow, Holding, Working, Past, Places
  <2> QED BY <1>3, <2>1, <2>2, <2>3 DEF Consent
<1>4. ASSUME NEW a \in Launch, Extract(a) PROVE LoginInv'
      BY <1>4, QuietStep
      DEF Extract, NewJob, Match, CreateTemp, WriteTemp, RemoveOld, Rename, ExtractFails,
          Holding, Working, Past, Places
<1>5. ASSUME NEW a \in Launch, Start(a) PROVE LoginInv'
      BY <1>5, QuietStep
      DEF Start, Verify, VerifyHangs, VerifyFails, Spawn, SpawnFails, Assign, Ping, PingFails,
          Holding, Working, Past, Places
<1>6. ASSUME NEW a \in Launch, Samples(a) PROVE LoginInv'
      BY <1>6, LifetimeAssumption
      DEF Samples, Write, LoginInv, Types, Guarded, Alone, Fresh, Holding, Working, Past, Places, Login
<1>7. ASSUME NEW a \in Launch, Return(a) \/ FatalExit(a) \/ Crash(a) PROVE LoginInv'
      BY <1>7 DEF Return, FatalExit, Crash, Dies, LoginInv, Types, Guarded, Alone, Fresh,
                  Holding, Working, Past, Places, Login
<1>8. ASSUME UNCHANGED <<pc, handles, feed>> PROVE LoginInv'
      BY <1>8 DEF LoginInv, Types, Guarded, Alone, Fresh, Login
<1> QED
    BY <1>1, <1>2, <1>3, <1>4, <1>5, <1>6, <1>7, <1>8
    DEF Next, vars, Wedges, ProbeEnds, Damaged

\* So it holds in every state.
LEMMA LoginAlways == Spec => []LoginInv
BY LoginInit, LoginStep, PTL DEF Spec

\* Past the instance check (winguard.AcquireSingleInstance) there is one launch
\* per login, however launches crash and restart.
THEOREM OneCollector == Spec => []OneCollectorPerLogin
<1>1. LoginInv => OneCollectorPerLogin
      BY DEF LoginInv, Types, Alone, Working, OneCollectorPerLogin
<1> QED BY <1>1, LoginAlways, PTL

\* A feed that a launch is writing is not truncated by another launch: sink.Open
\* comes after the instance check, and each login has its own file.
THEOREM FeedSurvives == Spec => FeedSurvivesSecondLaunch
<1> DEFINE Grows == \A a \in Launch :
        pc[a] \in Past \ {"sink", "fatal"} => feed'[LoginOf[a]] >= feed[LoginOf[a]]
<1>1. LoginInv /\ [Next]_vars => Grows
  <2> SUFFICES ASSUME LoginInv, [Next]_vars,
                      NEW a \in Launch, pc[a] \in Past \ {"sink", "fatal"}
               PROVE  feed'[LoginOf[a]] >= feed[LoginOf[a]]
      OBVIOUS
  <2>1. feed \in [Login -> Nat] /\ LoginOf[a] \in Login
        BY LifetimeAssumption DEF LoginInv, Types, Login
  <2>2. ASSUME NEW b \in Launch, OpenSink(b) PROVE LoginOf[b] # LoginOf[a]
        BY <2>2 DEF OpenSink, SinkAt, LoginInv, Alone, Working, Past, Places
  <2>3. ASSUME NEW b \in Launch, OpenSink(b) PROVE feed'[LoginOf[a]] = feed[LoginOf[a]]
        BY <2>1, <2>2, <2>3 DEF OpenSink
  <2>4. ASSUME NEW b \in Launch, Write(b) PROVE feed'[LoginOf[a]] >= feed[LoginOf[a]]
        BY <2>1, <2>4 DEF Write
  <2>5. ASSUME feed' = feed PROVE feed'[LoginOf[a]] >= feed[LoginOf[a]]
        BY <2>1, <2>5
  <2>6. \/ \E b \in Launch : OpenSink(b) \/ Write(b)
        \/ feed' = feed
        BY DEF Next, vars, Starts, Startup, Acquire, AcquireFails, Refused, OpenSinkFails,
               Consent, ConsentGranted, ConsentDeclined, NoWindow,
               Extract, NewJob, Match, CreateTemp, WriteTemp, RemoveOld, Rename, ExtractFails,
               Start, Verify, VerifyHangs, VerifyFails, Spawn, SpawnFails, Assign, Ping, PingFails,
               Samples, Return, FatalExit, Crash, Dies, Wedges, ProbeEnds, Damaged
  <2> QED BY <2>3, <2>4, <2>5, <2>6, <2>1
<1>2. LoginInv /\ [Next]_vars => [Grows]_vars
      BY <1>1
<1> QED BY <1>2, LoginAlways, PTL DEF Spec, FeedSurvivesSecondLaunch

-----------------------------------------------------------------------------
(* The probe that is started *)

Copies == {"none", "whole", "damaged"}
Staged == {"none", "partial", "whole"}

FileTypes ==
    /\ pc \in [Launch -> Places]
    /\ copy \in Copies /\ temp \in [Launch -> Staged]
    /\ probe \in [Launch -> {"none", "running", "wedged"}] /\ image \in [Launch -> Copies]

\* What is about to be moved into place is whole.
StagedWhole == \A a \in Launch : pc[a] \in {"remove", "rename"} => temp[a] = "whole"

\* Past the hash check the copy is whole, or deleted.
Checked == (\E a \in Launch : pc[a] \in {"verify", "hung", "spawn"}) => copy # "damaged"

FileInv == FileTypes /\ StagedWhole /\ Checked /\ ProbeIsEmbedded

\* At first nothing is staged and nothing was started.
LEMMA FileInit == Init => FileInv
BY DEF Init, FileInv, FileTypes, StagedWhole, Checked, ProbeIsEmbedded, Places, Copies, Staged

\* Steps that touch no file and no probe, and go to no place that claims something.
LEMMA FilesUntouched ==
    ASSUME FileInv, NEW a \in Launch, NEW p \in Places,
           pc' = [pc EXCEPT ![a] = p],
           copy' = copy, temp' = temp, probe' = probe, image' = image,
           p \notin {"remove", "rename"},
           p \in {"verify", "hung", "spawn"} => pc[a] \in {"verify", "hung", "spawn"} \/ copy = "whole"
    PROVE  FileInv'
BY DEF FileInv, FileTypes, StagedWhole, Checked, ProbeIsEmbedded

\* Every step keeps the staged file whole until it is renamed, and the copy
\* undamaged from its hash check to its start.
LEMMA FileStep == FileInv /\ [Next]_vars => FileInv'
<1> SUFFICES ASSUME FileInv, [Next]_vars PROVE FileInv'
    OBVIOUS
<1> USE DEF Go
<1>1. ASSUME NEW a \in Launch, Starts(a) \/ Startup(a) \/ Consent(a) PROVE FileInv'
  <2>1. CASE OpenSink(a)
        BY <2>1 DEF OpenSink, SinkAt, FileInv, FileTypes, StagedWhole, Checked, ProbeIsEmbedded, Places
  <2>2. CASE ~OpenSink(a)
        BY <1>1, <2>2, FilesUntouched
        DEF Starts, Startup, Acquire, AcquireFails, Refused, OpenSinkFails,
            Consent, ConsentGranted, ConsentDeclined, NoWindow, Places
  <2> QED BY <2>1, <2>2
<1>2. ASSUME NEW a \in Launch, Extract(a) PROVE FileInv'
  <2>1. CASE NewJob(a) \/ Match(a)
        BY <2>1, FilesUntouched DEF NewJob, Match, Matches, Places
  <2>2. CASE CreateTemp(a) \/ WriteTemp(a)
        BY <2>2 DEF CreateTemp, WriteTemp, FileInv, FileTypes, StagedWhole, Checked,
                    ProbeIsEmbedded, Places, Staged
  <2>3. CASE RemoveOld(a) \/ Rename(a)
        BY <2>3 DEF RemoveOld, Rename, FileInv, FileTypes, StagedWhole, Checked,
                    ProbeIsEmbedded, Places, Staged, Copies
  <2>4. CASE ExtractFails(a)
        BY <2>4 DEF ExtractFails, FileInv, FileTypes, StagedWhole, Checked,
                    ProbeIsEmbedded, Places, Staged
  <2> QED BY <1>2, <2>1, <2>2, <2>3, <2>4 DEF Extract
<1>3. ASSUME NEW a \in Launch, Start(a) PROVE FileInv'
  <2>1. CASE Spawn(a)
        BY <2>1 DEF Spawn, FileInv, FileTypes, StagedWhole, Checked, ProbeIsEmbedded, Places, Copies
  <2>2. CASE ~Spawn(a)
        BY <1>3, <2>2, FilesUntouched
        DEF Start, Verify, VerifyHangs, VerifyFails, SpawnFails, Assign, Ping, PingFails, Places
  <2> QED BY <2>1, <2>2
<1>4. ASSUME NEW a \in Launch, Return(a) \/ FatalExit(a) \/ Crash(a) PROVE FileInv'
  <2>1. CASE Return(a)
        BY <2>1 DEF Return, Ends, FileInv, FileTypes, StagedWhole, Checked, ProbeIsEmbedded, Places, Copies
  <2>2. CASE Dies(a)
        BY <2>2 DEF Dies, Ends, FileInv, FileTypes, StagedWhole, Checked, ProbeIsEmbedded,
                    Places, Copies, Staged
  <2> QED BY <1>4, <2>1, <2>2 DEF FatalExit, Crash
<1>5. ASSUME NEW a \in Launch, Wedges(a) \/ ProbeEnds(a) PROVE FileInv'
      BY <1>5 DEF Wedges, ProbeEnds, Ends, FileInv, FileTypes, StagedWhole, Checked,
                  ProbeIsEmbedded, Copies
<1>6. ASSUME Damaged PROVE FileInv'
      BY <1>6 DEF Damaged, Using, FileInv, FileTypes, StagedWhole, Checked, ProbeIsEmbedded, Copies
<1>7. ASSUME UNCHANGED <<pc, copy, temp, probe, image>> PROVE FileInv'
      BY <1>7 DEF FileInv, FileTypes, StagedWhole, Checked, ProbeIsEmbedded
<1> QED
    BY <1>1, <1>2, <1>3, <1>4, <1>5, <1>6, <1>7 DEF Next, vars, Samples

\* So it holds in every state.
LEMMA FileAlways == Spec => []FileInv
BY FileInit, FileStep, PTL DEF Spec

\* Every probe that was started came from the embedded bytes, whatever extraction
\* was interrupted or shared (probeasset.extractTo, writeAtomic).
THEOREM OnlyEmbeddedProbes == Spec => []ProbeIsEmbedded
<1>1. FileInv => ProbeIsEmbedded
      BY DEF FileInv
<1> QED BY <1>1, FileAlways, PTL

-----------------------------------------------------------------------------
(* The probe that is left *)

JobTypes ==
    /\ pc \in [Launch -> Places] /\ probe \in [Launch -> {"none", "running", "wedged"}]
    /\ job \in [Launch -> {"none", "kills"}] /\ assigned \subseteq Launch

\* Before the start there is no probe.
NotYet == \A a \in Launch :
    pc[a] \notin {"assign", "ping", "session", "fatal", "ended"} => probe[a] = "none"

JobInv == JobTypes /\ NotYet /\ OrphanHasNoJob

\* At first there is no probe.
LEMMA JobInit == Init => JobInv
BY DEF Init, JobInv, JobTypes, NotYet, OrphanHasNoJob, Alive, Places

\* A launch goes on and leaves its probe as it is.
LEMMA GoesOn ==
    ASSUME JobInv, NEW a \in Launch, NEW p \in Places,
           pc' = [pc EXCEPT ![a] = p], probe' = probe, job' = job, assigned' = assigned,
           p \in {"assign", "ping", "session"} =>
                pc[a] \in {"assign", "ping", "session"},
           p = "ended" => probe[a] = "none",
           p \notin {"fatal", "ended"} => pc[a] \notin {"fatal", "ended"},
           pc[a] \in {"assign", "ping", "session"} => p \in {"assign", "ping", "session", "fatal"}
    PROVE  JobInv'
BY DEF JobInv, JobTypes, NotYet, OrphanHasNoJob, Alive

\* Every step keeps a probe without an agent out of every job: the job dies with
\* the agent and kills what it holds.
LEMMA JobStep == JobInv /\ [Next]_vars => JobInv'
<1> SUFFICES ASSUME JobInv, [Next]_vars PROVE JobInv'
    OBVIOUS
<1> USE DEF Go
<1>1. ASSUME NEW a \in Launch, Starts(a) \/ Startup(a) \/ Consent(a) PROVE JobInv'
  <2>1. CASE OpenSink(a)
        BY <2>1 DEF OpenSink, SinkAt, JobInv, JobTypes, NotYet, OrphanHasNoJob, Alive, Places
  <2>2. CASE Refused(a) \/ ConsentDeclined(a)
        BY <2>2 DEF Refused, ConsentDeclined, JobInv, JobTypes, NotYet, OrphanHasNoJob, Alive, Places
  <2>3. CASE ~OpenSink(a) /\ ~Refused(a) /\ ~ConsentDeclined(a)
        BY <1>1, <2>3, GoesOn
        DEF Starts, Startup, Acquire, AcquireFails, OpenSinkFails, Consent, ConsentGranted,
            NoWindow, Places
  <2> QED BY <2>1, <2>2, <2>3
<1>2. ASSUME NEW a \in Launch, Extract(a) PROVE JobInv'
  <2>1. CASE NewJob(a)
        BY <2>1 DEF NewJob, JobLimit, JobInv, JobTypes, NotYet, OrphanHasNoJob, Alive, Places
  <2>2. CASE ExtractFails(a)
        BY <2>2 DEF ExtractFails, JobInv, JobTypes, NotYet, OrphanHasNoJob, Alive, Places
  <2>3. CASE ~NewJob(a) /\ ~ExtractFails(a)
        BY <1>2, <2>3, GoesOn
        DEF Extract, Match, CreateTemp, WriteTemp, RemoveOld, Rename, Places
  <2> QED BY <2>1, <2>2, <2>3
<1>3. ASSUME NEW a \in Launch, Start(a) PROVE JobInv'
  <2>1. CASE Spawn(a)
        BY <2>1 DEF Spawn, JobInv, JobTypes, NotYet, OrphanHasNoJob, Alive, Places
  <2>2. CASE Assign(a)
        BY <2>2 DEF Assign, JobInv, JobTypes, NotYet, OrphanHasNoJob, Alive, Places
  <2>3. CASE ~Spawn(a) /\ ~Assign(a)
        BY <1>3, <2>3, GoesOn
        DEF Start, Verify, VerifyHangs, VerifyFails, SpawnFails, Ping, PingFails, Places
  <2> QED BY <2>1, <2>2, <2>3
<1>4. ASSUME NEW a \in Launch, Return(a) \/ FatalExit(a) \/ Crash(a) PROVE JobInv'
  <2>1. CASE Return(a)
        BY <2>1 DEF Return, Ends, JobInv, JobTypes, NotYet, OrphanHasNoJob, Alive, Places
  <2>2. CASE Dies(a)
        BY <2>2 DEF Dies, Ends, JobInv, JobTypes, NotYet, OrphanHasNoJob, Alive, Places
  <2> QED BY <1>4, <2>1, <2>2 DEF FatalExit, Crash
<1>5. ASSUME NEW a \in Launch, Wedges(a) \/ ProbeEnds(a) PROVE JobInv'
      BY <1>5 DEF Wedges, ProbeEnds, Ends, JobInv, JobTypes, NotYet, OrphanHasNoJob, Alive
<1>6. ASSUME UNCHANGED <<pc, probe, job, assigned>> PROVE JobInv'
      BY <1>6 DEF JobInv, JobTypes, NotYet, OrphanHasNoJob, Alive
<1> QED
    BY <1>1, <1>2, <1>3, <1>4, <1>5, <1>6 DEF Next, vars, Samples, Damaged

\* A probe that outlives its agent is one that no job held (winguard.NewProcessJob,
\* AssignPID).
THEOREM OrphansAreJobless == Spec => []OrphanHasNoJob
<1>1. JobInv => OrphanHasNoJob
      BY DEF JobInv
<1> QED BY <1>1, JobInit, JobStep, PTL DEF Spec

-----------------------------------------------------------------------------
(* Types *)

Bounded == crashes \in 0..MaxCrashes /\ damage \in 0..MaxDamage

\* The counters of crashes and of damages stay within their bounds.
LEMMA BoundedStep == Bounded /\ [Next]_vars => Bounded'
<1> SUFFICES ASSUME Bounded, [Next]_vars PROVE Bounded'
    OBVIOUS
<1>1. ASSUME NEW a \in Launch, Crash(a) PROVE Bounded'
      BY <1>1, LifetimeAssumption DEF Crash, Dies, Bounded
<1>2. CASE Damaged
      BY <1>2, LifetimeAssumption DEF Damaged, Bounded
<1>3. CASE UNCHANGED <<crashes, damage>>
      BY <1>3 DEF Bounded
<1>4. \/ \E a \in Launch : Crash(a)
      \/ Damaged
      \/ UNCHANGED <<crashes, damage>>
      BY DEF Next, vars, Starts, Startup, Acquire, AcquireFails, Refused, OpenSink, OpenSinkFails,
             Consent, ConsentGranted, ConsentDeclined, NoWindow,
             Extract, NewJob, Match, CreateTemp, WriteTemp, RemoveOld, Rename, ExtractFails,
             Start, Verify, VerifyHangs, VerifyFails, Spawn, SpawnFails, Assign, Ping, PingFails,
             Samples, Return, FatalExit, Dies, Wedges, ProbeEnds
<1> QED BY <1>1, <1>2, <1>3, <1>4

\* Every variable keeps its type, and the counters of trouble their bounds.
THEOREM TypeCorrect == Spec => []TypeOK
<1>1. Init => Bounded
      BY LifetimeAssumption DEF Init, Bounded
<1>2. LoginInv /\ FileInv /\ JobInv /\ Bounded => TypeOK
      BY DEF LoginInv, Types, FileInv, FileTypes, Copies, Staged, JobInv, JobTypes, Bounded, TypeOK
<1> QED BY <1>1, <1>2, BoundedStep, LoginAlways, FileAlways, JobInit, JobStep, PTL DEF Spec
=============================================================================
