------------------------------ MODULE ProbeHost ------------------------------
(***************************************************************************)
(* One Host and its probe process: the call protocol of                      *)
(* internal/probehost/probehost.go against the command loop of               *)
(* cp-win/src/bin/probe_serve.rs, with the calls the session makes of a Host *)
(* (cmd/cp-agent/main.go): ping, coverage, warm-up scan, periodic scans.     *)
(*                                                                           *)
(* A call that times out leaves its reader goroutine blocked on the shared   *)
(* bufio.Reader. The next call adds another, and a late answer may reach     *)
(* either of them.                                                           *)
(***************************************************************************)
EXTENDS Naturals, Sequences, FiniteSets

CONSTANT MaxCalls   \* bound: how many calls are made of the Host

ASSUME MaxCallsAssumption == MaxCalls \in Nat \ {0}

None == 0           \* no command: ids start at 1

VARIABLES
    restarted,      \* this Host is restartProbe's, not main's first one
    stage,          \* the call the session makes next, or is making
    waiting,        \* a call is in callWithTimeout's select
    nextID,
    readers,        \* the calls whose reader goroutine is still reading
    done,           \* what the current call's reader found, if it has
    outcome,        \* how the last call to return ended
    closed,
    stdin,          \* commands in the pipe to the probe
    stdout,         \* answers in the pipe from the probe
    probe,          \* "up", "wedged" (it will not finish a command), "dead"
    working         \* the command the probe is executing

hostVars   == <<restarted, stage, waiting, nextID, readers, done, outcome, closed>>
probeVars  == <<probe, working>>
vars       == <<hostVars, stdin, stdout, probeVars>>

Stages == {"ping", "coverage", "warm", "scan", "failed"}

\* "ok": the answer to this call; the rest are errors.
Verdicts == {"none", "ok", "probe_error", "mismatch", "garbled", "eof"}
NotDone  == [verdict |-> "none", answers |-> None]
Quiet    == [id |-> None, ok |-> FALSE, answers |-> None, timedOut |-> FALSE]

Init ==
    /\ restarted \in BOOLEAN
    /\ stage = "ping" /\ waiting = FALSE /\ nextID = 0 /\ readers = {}
    /\ done = NotDone /\ outcome = Quiet /\ closed = FALSE
    /\ stdin = <<>> /\ stdout = <<>> /\ probe = "up" /\ working = None

-----------------------------------------------------------------------------
(* The session's side *)

\* Mutant of Survives: a failed scan is tried again in place.
SurvivesScan(ok) == ok \/ stage \in {"warm", "scan"} \/ (stage = "coverage" /\ restarted)

\* After a failed warm-up the same Host is used again, and so is restartProbe's
\* after a failed coverage call. Every other error is final for the Host.
Survives(ok) == ok \/ stage = "warm" \/ (stage = "coverage" /\ restarted)

Following == [ping |-> "coverage", coverage |-> "warm", warm |-> "scan", scan |-> "scan"]

\* What the session does next of this Host.
AfterCall(ok) == IF Survives(ok) THEN Following[stage] ELSE "failed"

\* The command is written and a goroutine started to read one line.
Call ==
    /\ ~waiting /\ ~closed /\ stage # "failed" /\ nextID < MaxCalls
    /\ probe # "dead"
    /\ nextID' = nextID + 1
    /\ stdin' = Append(stdin, nextID')
    /\ readers' = readers \cup {nextID'}
    /\ waiting' = TRUE /\ done' = NotDone
    /\ UNCHANGED <<restarted, stage, outcome, closed, stdout, probeVars>>

\* The write fails: nobody holds the other end of the pipe.
CallRefused ==
    /\ ~waiting /\ ~closed /\ stage # "failed" /\ nextID < MaxCalls
    /\ probe = "dead"
    /\ nextID' = nextID + 1
    /\ outcome' = [id |-> nextID', ok |-> FALSE, answers |-> None, timedOut |-> FALSE]
    /\ stage' = AfterCall(FALSE)
    /\ UNCHANGED <<restarted, waiting, readers, done, closed, stdin, stdout, probeVars>>

\* The select takes the reader's result.
Return ==
    /\ waiting /\ done # NotDone
    /\ LET ok == done.verdict = "ok" IN
       /\ outcome' = [id |-> nextID, ok |-> ok, answers |-> done.answers, timedOut |-> FALSE]
       /\ stage' = AfterCall(ok)
    /\ waiting' = FALSE
    /\ UNCHANGED <<restarted, nextID, readers, done, closed, stdin, stdout, probeVars>>

\* Mutant of Timeout: no time.After, only a reader ends a call.
WaitForEver == FALSE /\ UNCHANGED vars

\* The select takes the timer, even if a result is ready too. The reader stays.
Timeout ==
    /\ waiting
    /\ outcome' = [id |-> nextID, ok |-> FALSE, answers |-> None, timedOut |-> TRUE]
    /\ stage' = AfterCall(FALSE)
    /\ waiting' = FALSE
    /\ UNCHANGED <<restarted, nextID, readers, done, closed, stdin, stdout, probeVars>>

\* Mutant of Close: the pipes are closed, the process is left to notice.
CloseWithoutKill ==
    /\ ~waiting /\ ~closed
    /\ closed' = TRUE /\ stdin' = <<>>
    /\ UNCHANGED <<restarted, stage, waiting, nextID, readers, done, outcome, stdout, probeVars>>

\* After a failure, or when the session ends. Kill and Wait: Wait also closes
\* the reading end, so what the probe had answered is gone.
Close ==
    /\ ~waiting /\ ~closed
    /\ closed' = TRUE
    /\ stdin' = <<>> /\ stdout' = <<>> /\ probe' = "dead" /\ working' = None
    /\ UNCHANGED <<restarted, stage, waiting, nextID, readers, done, outcome>>

-----------------------------------------------------------------------------
(* The reader goroutines: each reads one line and judges it for its own call *)

\* Mutant of Judge: without the id check.
JudgeAnyId(line, r) ==
    [verdict |-> IF line.ok THEN "ok" ELSE "probe_error", answers |-> line.id]

Judge(line, r) ==
    [verdict |-> IF line.id # r THEN "mismatch"
                 ELSE IF line.ok THEN "ok" ELSE "probe_error",
     answers |-> line.id]

\* A result reaches the caller only through the call's own channel.
Post(r, result) == done' = IF r = nextID /\ waiting THEN result ELSE done

ReadLine(r) ==
    /\ r \in readers /\ stdout # <<>>
    /\ Post(r, Judge(Head(stdout), r))
    /\ readers' = readers \ {r} /\ stdout' = Tail(stdout)
    /\ UNCHANGED <<restarted, stage, waiting, nextID, outcome, closed, stdin, probeVars>>

\* Two goroutines in ReadString on one bufio.Reader race on its buffer: the
\* line may come out garbled, come out once more for another reader, or be lost
\* with its reader reading on.
RacedRead(r) ==
    /\ r \in readers /\ Cardinality(readers) > 1 /\ stdout # <<>>
    /\ \/ /\ Post(r, [verdict |-> "garbled", answers |-> None])
          /\ readers' = readers \ {r} /\ stdout' = Tail(stdout)
       \/ /\ Post(r, Judge(Head(stdout), r))
          /\ readers' = readers \ {r} /\ UNCHANGED stdout
       \/ /\ stdout' = Tail(stdout)
          /\ UNCHANGED <<readers, done>>
    /\ UNCHANGED <<restarted, stage, waiting, nextID, outcome, closed, stdin, probeVars>>

ReadEOF(r) ==
    /\ r \in readers /\ stdout = <<>> /\ probe = "dead"
    /\ Post(r, [verdict |-> "eof", answers |-> None])
    /\ readers' = readers \ {r}
    /\ UNCHANGED <<restarted, stage, waiting, nextID, outcome, closed, stdin, stdout, probeVars>>

-----------------------------------------------------------------------------
(* probe-serve: one command at a time, in order *)

\* Mutant of Serve: a thread per command, so a wedged one does not hold up the
\* next.
ServeConcurrently ==
    \/ /\ probe = "up" /\ working = None /\ stdin # <<>>
       /\ working' = Head(stdin) /\ stdin' = Tail(stdin)
       /\ UNCHANGED <<hostVars, stdout, probe>>
    \/ /\ probe = "wedged" /\ stdin # <<>>
       /\ stdout' = Append(stdout, [id |-> Head(stdin), ok |-> TRUE]) /\ stdin' = Tail(stdin)
       /\ UNCHANGED <<hostVars, probeVars>>

Serve ==
    /\ probe = "up" /\ working = None /\ stdin # <<>>
    /\ working' = Head(stdin) /\ stdin' = Tail(stdin)
    /\ UNCHANGED <<hostVars, stdout, probe>>

\* Mutant of Answer: a panic is answered as an unparseable command is, with id 0.
AnswerWithoutId ==
    /\ probe = "up" /\ working # None
    /\ \E id \in {working, None} : stdout' = Append(stdout, [id |-> id, ok |-> id = working])
    /\ working' = None
    /\ UNCHANGED <<hostVars, stdin, probe>>

\* dispatch returned, or panicked inside catch_unwind: ok is then FALSE.
Answer ==
    /\ probe = "up" /\ working # None
    /\ \E ok \in BOOLEAN : stdout' = Append(stdout, [id |-> working, ok |-> ok])
    /\ working' = None
    /\ UNCHANGED <<hostVars, stdin, probe>>

Wedge ==
    /\ probe = "up" /\ working # None
    /\ probe' = "wedged"
    /\ UNCHANGED <<hostVars, stdin, stdout, working>>

\* A fault no catch_unwind holds, or stdin at its end. What was answered can
\* still be read.
Die ==
    /\ probe # "dead"
    /\ probe' = "dead" /\ working' = None /\ stdin' = <<>>
    /\ UNCHANGED <<hostVars, stdout>>

-----------------------------------------------------------------------------
Reader == \E r \in readers : ReadLine(r) \/ RacedRead(r) \/ ReadEOF(r)

\* All that is left of a closed Host without readers.
Idle == closed /\ readers = {} /\ UNCHANGED vars

Next == Call \/ CallRefused \/ Return \/ Timeout \/ Close \/ Reader
        \/ Serve \/ Answer \/ Wedge \/ Die \/ Idle

Spec == Init /\ [][Next]_vars

\* The timer fires and goroutines run; nothing is asked of the probe.
FairSpec == Spec /\ WF_vars(Return \/ Timeout) /\ WF_vars(Reader)

-----------------------------------------------------------------------------
(* Properties *)

Ids == 1..MaxCalls

TypeOK ==
    /\ restarted \in BOOLEAN /\ stage \in Stages /\ waiting \in BOOLEAN
    /\ nextID \in 0..MaxCalls /\ readers \subseteq Ids
    /\ done \in [verdict : Verdicts, answers : Ids \cup {None}]
    /\ outcome \in [id : Ids \cup {None}, ok : BOOLEAN,
                    answers : Ids \cup {None}, timedOut : BOOLEAN]
    /\ closed \in BOOLEAN
    /\ stdin \in Seq(Ids) /\ stdout \in Seq([id : Ids, ok : BOOLEAN])
    /\ probe \in {"up", "wedged", "dead"} /\ working \in Ids \cup {None}

\* A call that succeeds returns the answer to its own command, whatever late
\* answers and stale readers earlier timeouts left behind.
PairingSound == outcome.ok => outcome.answers = outcome.id

\* Stale readers do not pile up: a Host outlives at most the timeouts of its
\* coverage call (if it is a restarted one) and of its warm-up.
ReadersBounded == Cardinality(readers) <= (IF restarted THEN 3 ELSE 2)

\* probe-serve answers in the order of the commands, so once it is wedged no
\* later command succeeds: "this process is done", as restartProbe says.
WedgeIsFinal ==
    [][(probe = "wedged" /\ outcome' # outcome /\ outcome'.ok) => outcome'.id < working]_vars

\* Every call returns, whatever the probe does.
EveryCallReturns == waiting ~> ~waiting

\* Closing ends every reader goroutine that is still blocked.
ReadersEnd == closed ~> readers = {}

-----------------------------------------------------------------------------
(* A statement of the source that does not hold *)

\* main.go on a failed scan: the probe never reports "a protocol-level error
\* -- so a Scan() error here means the probe process itself is gone or
\* wedged". A call that fails without having timed out finds the probe so.
ScanErrorMeansGone ==
    [][(stage = "scan" /\ stage' = "failed" /\ ~outcome'.timedOut)
         => probe \in {"wedged", "dead"}]_vars

=============================================================================
