------------------------------- MODULE Lifetime -------------------------------
(***************************************************************************)
(* Launches of the agent on one user's machine, from the instance check to   *)
(* the end of the process: main.go up to the first ping, with winguard (the  *)
(* mutex and the job object), probeasset (the extracted probe), sink.Open    *)
(* and probehost.Start. Session models what one launch does afterwards.      *)
(*                                                                           *)
(* A launch ends by returning from main, by fatal (os.Exit: no deferred call *)
(* runs) or by a crash; Windows then closes its handles. The launches of one *)
(* login share the mutex and the feed's file, all share the directory.       *)
(***************************************************************************)
EXTENDS Naturals, FiniteSets

CONSTANTS
    Launch,         \* the launches
    LoginOf,        \* the login session of each
    MaxCrashes,     \* bound: launches killed from outside
    MaxDamage,      \* bound: times the extracted copy is damaged or deleted
    MaxFeed,        \* bound: messages in a feed
    MaxAtOnce       \* bound: launches under way at once

ASSUME LifetimeAssumption ==
    /\ IsFiniteSet(Launch)
    /\ MaxCrashes \in Nat /\ MaxDamage \in Nat /\ MaxAtOnce \in Nat
    /\ MaxFeed \in Nat \ {0}

VARIABLES
    pc,             \* where main is
    handles,        \* the launches with a handle to their login's mutex
    feed,           \* for each login, the messages in the file
    job,            \* each launch's job object: "none", "kills" on close, "plain"
    assigned,       \* the launches that put their probe into it
    copy,           \* the probe in the directory: "none", "whole", "damaged"
    temp,           \* each launch's temporary file: "none", "partial", "whole"
    probe,          \* each launch's probe: "none", "running", "wedged"
    image,          \* what that probe was started from
    crashes, damage

vars == <<pc, handles, feed, job, assigned, copy, temp, probe, image, crashes, damage>>

Login  == {LoginOf[a] : a \in Launch}
Places == {"off", "instance", "refused", "sink", "consent", "job", "match", "stage", "write",
           "remove", "rename", "verify", "hung", "spawn", "assign", "ping", "session",
           "fatal", "ended"}
Alive(a) == probe[a] \in {"running", "wedged"}

\* Places between the hash check of the copy and its use.
Using == {"match", "stage", "write", "remove", "rename", "verify", "hung", "spawn"}

Init ==
    /\ pc = [a \in Launch |-> "off"] /\ handles = {}
    /\ feed = [l \in Login |-> 0]
    /\ job = [a \in Launch |-> "none"] /\ assigned = {}
    /\ copy \in {"none", "damaged"}
    /\ temp = [a \in Launch |-> "none"]
    /\ probe = [a \in Launch |-> "none"] /\ image = [a \in Launch |-> "none"]
    /\ crashes = 0 /\ damage = 0

Go(a, from, to) == pc[a] = from /\ pc' = [pc EXCEPT ![a] = to]

Starts(a) ==
    /\ Cardinality({b \in Launch : pc[b] \notin {"off", "ended"}}) < MaxAtOnce
    /\ Go(a, "off", "instance")
    /\ UNCHANGED <<handles, feed, job, assigned, copy, temp, probe, image, crashes, damage>>

-----------------------------------------------------------------------------
(* winguard.AcquireSingleInstance *)

MutexExists(a) == \E b \in handles : LoginOf[b] = LoginOf[a]

\* Mutant of Contended: the handle is taken for the answer.
NeverContended(a) == FALSE

\* ERROR_ALREADY_EXISTS
Contended(a) == MutexExists(a)

\* CreateMutexW gives a handle either way.
Acquire(a) ==
    /\ handles' = handles \cup {a}
    /\ IF Contended(a) THEN Go(a, "instance", "refused") ELSE Go(a, "instance", "sink")
    /\ UNCHANGED <<feed, job, assigned, copy, temp, probe, image, crashes, damage>>

AcquireFails(a) ==
    /\ Go(a, "instance", "fatal")
    /\ UNCHANGED <<handles, feed, job, assigned, copy, temp, probe, image, crashes, damage>>

Refused(a) ==
    /\ Go(a, "refused", "ended")
    /\ handles' = handles \ {a}
    /\ UNCHANGED <<feed, job, assigned, copy, temp, probe, image, crashes, damage>>

-----------------------------------------------------------------------------
(* The feed's file and the consent *)

\* Mutant of SinkAt: the file is opened before the instance check.
SinkFirst(a) == pc[a] \in {"instance", "sink"}

SinkAt(a) == pc[a] = "sink"

\* os.Create: an earlier session's feed is gone.
OpenSink(a) ==
    /\ SinkAt(a)
    /\ feed' = [feed EXCEPT ![LoginOf[a]] = 0]
    /\ pc' = [pc EXCEPT ![a] = IF pc[a] = "sink" THEN "consent" ELSE pc[a]]
    /\ UNCHANGED <<handles, job, assigned, copy, temp, probe, image, crashes, damage>>

OpenSinkFails(a) ==
    /\ Go(a, "sink", "fatal")
    /\ UNCHANGED <<handles, feed, job, assigned, copy, temp, probe, image, crashes, damage>>

Write(a) == feed' = [feed EXCEPT ![LoginOf[a]] = @ + 1]

ConsentGranted(a) ==
    /\ Go(a, "consent", "job") /\ Write(a)
    /\ UNCHANGED <<handles, job, assigned, copy, temp, probe, image, crashes, damage>>

\* The deferred calls close the feed and release the mutex.
ConsentDeclined(a) ==
    /\ Go(a, "consent", "ended") /\ Write(a)
    /\ handles' = handles \ {a}
    /\ UNCHANGED <<job, assigned, copy, temp, probe, image, crashes, damage>>

NoWindow(a) ==
    /\ Go(a, "consent", "fatal")
    /\ UNCHANGED <<handles, feed, job, assigned, copy, temp, probe, image, crashes, damage>>

-----------------------------------------------------------------------------
(* winguard.NewProcessJob and probeasset.extractTo *)

\* Mutant of JobLimit: the limit is not set on the job.
NoLimit == "plain"

JobLimit == "kills"

\* Without a job the launch goes on.
NewJob(a) ==
    /\ Go(a, "job", "match")
    /\ job' \in {job, [job EXCEPT ![a] = JobLimit]}
    /\ UNCHANGED <<handles, feed, assigned, copy, temp, probe, image, crashes, damage>>

\* Mutant of Matches: a file of the right name is enough.
Present == copy # "none"

Matches == copy = "whole"

Match(a) ==
    /\ IF Matches THEN Go(a, "match", "verify") ELSE Go(a, "match", "stage")
    /\ UNCHANGED <<handles, feed, job, assigned, copy, temp, probe, image, crashes, damage>>

CreateTemp(a) ==
    /\ Go(a, "stage", "write")
    /\ temp' = [temp EXCEPT ![a] = "partial"]
    /\ UNCHANGED <<handles, feed, job, assigned, copy, probe, image, crashes, damage>>

WriteTemp(a) ==
    /\ Go(a, "write", "remove")
    /\ temp' = [temp EXCEPT ![a] = "whole"]
    /\ UNCHANGED <<handles, feed, job, assigned, copy, probe, image, crashes, damage>>

\* Windows removes and replaces no image that runs.
InUse == \E a \in Launch : Alive(a) /\ image[a] = copy

RemoveOld(a) ==
    /\ Go(a, "remove", "rename") /\ ~InUse
    /\ copy' = "none"
    /\ UNCHANGED <<handles, feed, job, assigned, temp, probe, image, crashes, damage>>

\* Mutant of Rename: the file is moved into place before it is written.
RenameAnyTemp(a) ==
    /\ pc[a] \in {"write", "rename"} /\ ~InUse
    /\ pc' = [pc EXCEPT ![a] = "verify"]
    /\ copy' = temp[a] /\ temp' = [temp EXCEPT ![a] = "none"]
    /\ UNCHANGED <<handles, feed, job, assigned, probe, image, crashes, damage>>

Rename(a) ==
    /\ Go(a, "rename", "verify") /\ ~InUse
    /\ copy' = temp[a] /\ temp' = [temp EXCEPT ![a] = "none"]
    /\ UNCHANGED <<handles, feed, job, assigned, probe, image, crashes, damage>>

\* A step of the extraction fails: writeAtomic removes its temporary file.
ExtractFails(a) ==
    /\ pc[a] \in {"match", "stage", "write", "remove", "rename"}
    /\ pc' = [pc EXCEPT ![a] = "fatal"]
    /\ temp' = [temp EXCEPT ![a] = "none"]
    /\ UNCHANGED <<handles, feed, job, assigned, copy, probe, image, crashes, damage>>

-----------------------------------------------------------------------------
(* probehost.Start *)

\* The check runs without a timeout; while it is not armed it always passes.
Verify(a) ==
    /\ Go(a, "verify", "spawn")
    /\ UNCHANGED <<handles, feed, job, assigned, copy, temp, probe, image, crashes, damage>>

VerifyHangs(a) ==
    /\ Go(a, "verify", "hung")
    /\ UNCHANGED <<handles, feed, job, assigned, copy, temp, probe, image, crashes, damage>>

\* Mutant of VerifyFails: a copy that is refused is extracted again.
VerifyAgain(a) ==
    /\ Go(a, "verify", "match")
    /\ UNCHANGED <<handles, feed, job, assigned, copy, temp, probe, image, crashes, damage>>

VerifyFails(a) ==
    /\ Go(a, "verify", "fatal")
    /\ UNCHANGED <<handles, feed, job, assigned, copy, temp, probe, image, crashes, damage>>

Spawn(a) ==
    /\ Go(a, "spawn", "assign") /\ copy # "none"
    /\ probe' = [probe EXCEPT ![a] = "running"]
    /\ image' = [image EXCEPT ![a] = copy]
    /\ UNCHANGED <<handles, feed, job, assigned, copy, temp, crashes, damage>>

SpawnFails(a) ==
    /\ Go(a, "spawn", "fatal")
    /\ UNCHANGED <<handles, feed, job, assigned, copy, temp, probe, image, crashes, damage>>

\* AssignPID; its failure is ignored.
Assign(a) ==
    /\ Go(a, "assign", "ping")
    /\ assigned' \in {assigned} \cup IF job[a] # "none" THEN {assigned \cup {a}} ELSE {}
    /\ UNCHANGED <<handles, feed, job, copy, temp, probe, image, crashes, damage>>

-----------------------------------------------------------------------------
(* The first ping, the session, and the ends of main *)

Ping(a) ==
    /\ Go(a, "ping", "session") /\ probe[a] = "running"
    /\ UNCHANGED <<handles, feed, job, assigned, copy, temp, probe, image, crashes, damage>>

\* No answer: fatal, and the Host is not closed.
PingFails(a) ==
    /\ Go(a, "ping", "fatal")
    /\ UNCHANGED <<handles, feed, job, assigned, copy, temp, probe, image, crashes, damage>>

Samples(a) ==
    /\ pc[a] = "session" /\ feed[LoginOf[a]] < MaxFeed
    /\ Write(a)
    /\ UNCHANGED <<pc, handles, job, assigned, copy, temp, probe, image, crashes, damage>>

\* The probe's process ends, and what is known of it.
Ends(a) ==
    /\ probe' = [probe EXCEPT ![a] = "none"] /\ image' = [image EXCEPT ![a] = "none"]
    /\ job' = [job EXCEPT ![a] = "none"] /\ assigned' = assigned \ {a}

\* main returns: closeCurrent kills the probe, job or no job.
Return(a) ==
    /\ Go(a, "session", "ended")
    /\ Ends(a)
    /\ handles' = handles \ {a}
    /\ UNCHANGED <<feed, copy, temp, crashes, damage>>

\* Windows closes the handles of a process that ends, the job's too. What a
\* crash leaves of a temporary file is never looked at again.
Dies(a) ==
    /\ pc' = [pc EXCEPT ![a] = "ended"]
    /\ handles' = handles \ {a}
    /\ temp' = [temp EXCEPT ![a] = "none"]
    /\ IF Alive(a) /\ ~(a \in assigned /\ job[a] = "kills")
       THEN UNCHANGED <<probe, image, job, assigned>> ELSE Ends(a)
    /\ UNCHANGED <<feed, copy, damage>>

\* fatal, once the candidate has read the dialog.
FatalExit(a) == pc[a] = "fatal" /\ Dies(a) /\ UNCHANGED crashes

Crash(a) ==
    /\ pc[a] \notin {"off", "ended"} /\ crashes < MaxCrashes
    /\ crashes' = crashes + 1
    /\ Dies(a)

-----------------------------------------------------------------------------
(* The probe, and what happens to its copy *)

Wedges(a) ==
    /\ probe[a] = "running"
    /\ probe' = [probe EXCEPT ![a] = "wedged"]
    /\ UNCHANGED <<pc, handles, feed, job, assigned, copy, temp, image, crashes, damage>>

\* Mutant of EndOfInput: the loop goes on after a line it cannot read.
ReadsOn(a) == FALSE

\* probe_serve's loop ends when the agent's end of the pipe is gone.
EndOfInput(a) == pc[a] = "ended"

ProbeEnds(a) ==
    /\ probe[a] = "running" /\ EndOfInput(a)
    /\ Ends(a)
    /\ UNCHANGED <<pc, handles, feed, copy, temp, crashes, damage>>

\* Between launches the copy may be damaged; any time it does not run it may
\* be deleted.
Damaged ==
    /\ damage < MaxDamage /\ ~InUse /\ copy # "none"
    /\ copy' \in {"none", "damaged"} \ {copy}
    /\ copy' = "damaged" => \A a \in Launch : pc[a] \notin Using
    /\ damage' = damage + 1
    /\ UNCHANGED <<pc, handles, feed, job, assigned, temp, probe, image, crashes>>

Startup(a)  == Acquire(a) \/ AcquireFails(a) \/ Refused(a) \/ OpenSink(a) \/ OpenSinkFails(a)
Consent(a)  == ConsentGranted(a) \/ ConsentDeclined(a) \/ NoWindow(a)
Extract(a)  == \/ NewJob(a) \/ Match(a) \/ CreateTemp(a) \/ WriteTemp(a)
               \/ RemoveOld(a) \/ Rename(a) \/ ExtractFails(a)
Start(a)    == \/ Verify(a) \/ VerifyHangs(a) \/ VerifyFails(a) \/ Spawn(a) \/ SpawnFails(a)
               \/ Assign(a) \/ Ping(a) \/ PingFails(a)

Next ==
    \/ \E a \in Launch :
        \/ Starts(a) \/ Startup(a) \/ Consent(a) \/ Extract(a) \/ Start(a)
        \/ Samples(a) \/ Return(a) \/ FatalExit(a) \/ Crash(a)
        \/ Wedges(a) \/ ProbeEnds(a)
    \/ Damaged

\* main runs, and a probe that waits for input sees its end. Nobody has to
\* answer a dialog, and nothing ends a hung check.
Fairness == \A a \in Launch :
    WF_vars(Startup(a) \/ Extract(a) \/ Start(a)) /\ WF_vars(ProbeEnds(a))

Spec == Init /\ [][Next]_vars /\ Fairness

-----------------------------------------------------------------------------
(* Properties *)

\* The variables' types.
TypeOK ==
    /\ pc \in [Launch -> Places] /\ handles \subseteq Launch
    /\ feed \in [Login -> 0..MaxFeed]
    /\ job \in [Launch -> {"none", "kills", "plain"}] /\ assigned \subseteq Launch
    /\ copy \in {"none", "whole", "damaged"}
    /\ temp \in [Launch -> {"none", "partial", "whole"}]
    /\ probe \in [Launch -> {"none", "running", "wedged"}]
    /\ image \in [Launch -> {"none", "whole", "damaged"}]
    /\ crashes \in 0..MaxCrashes /\ damage \in 0..MaxDamage

\* Past the instance check there is one launch per login, whatever crashed
\* before it and whoever is being refused (winguard.go:20, main.go:64).
Past == Places \ {"off", "instance", "refused", "ended"}
OneCollectorPerLogin ==
    \A a, b \in Launch :
        a # b /\ LoginOf[a] = LoginOf[b] /\ pc[a] \in Past /\ pc[b] \in Past =>
            "fatal" \in {pc[a], pc[b]}

\* Every probe that was started came from the embedded bytes, though a crash
\* may have interrupted an extraction at any step, another login's launch may
\* be replacing the copy, and an earlier copy may be damaged
\* (probeasset.go:108, writeAtomic).
ProbeIsEmbedded == \A a \in Launch : probe[a] # "none" => image[a] = "whole"

\* A probe that outlives its agent has no job that kills it: the job failed,
\* or the assignment did or was never reached. After a session that returned
\* there is none (winguard.go:53, probehost.go:87).
OrphanHasNoJob ==
    \A a \in Launch :
        pc[a] = "ended" /\ Alive(a) => a \notin assigned \/ job[a] = "none"

\* An orphan is no permanent one, unless it is wedged in a call.
OrphansEnd == \A a \in Launch : (pc[a] = "ended" /\ Alive(a)) ~> ~(probe[a] = "running")

\* A file that a launch is writing its feed to is not truncated by another
\* launch of the login, refused or not (main.go:66 before main.go:85).
FeedSurvivesSecondLaunch ==
    [][\A a \in Launch :
        pc[a] \in Past \ {"sink", "fatal"} =>
            feed'[LoginOf[a]] >= feed[LoginOf[a]]]_vars

\* Every launch that has the consent comes to a session or a message, unless
\* its signature check hangs: no failure sends it round again
\* (main.go:137-162, verify.go:53).
LaunchResolves ==
    \A a \in Launch : pc[a] = "job" ~> pc[a] \in {"session", "fatal", "ended", "hung"}
=============================================================================
