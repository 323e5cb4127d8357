--------------------------- MODULE ProbeHostProofs ---------------------------
(***************************************************************************)
(* Proofs about ProbeHost for any number of calls: its types, that a reply *)
(* is never paired with another request, that a probe once wedged never    *)
(* satisfies a later command, and that stale readers do not pile up.       *)
(***************************************************************************)
EXTENDS ProbeHost, FiniteSetTheorems, TLAPS

Line   == [id : Ids, ok : BOOLEAN]
Result == [verdict : Verdicts, answers : Ids \cup {None}]

\* A call is made only of a Host that is still in use.
CallInv == waiting => stage # "failed" /\ nextID \in Ids

\* A reader that found its answer posted it for the call that waits.
PairInv == (waiting /\ done.verdict = "ok") => done.answers = nextID

\* The commands move from stdin through the probe to stdout in the order of
\* their ids, and no reader has found an answer from behind what is left.
OrderInv ==
    /\ probe = "wedged" => working # None
    /\ \A i, j \in DOMAIN stdin : i < j => stdin[i] < stdin[j]
    /\ \A i \in DOMAIN stdin :
       /\ working < stdin[i] /\ done.answers < stdin[i] /\ stdin[i] <= nextID
       /\ \A j \in DOMAIN stdout : stdout[j].id < stdin[i]
    /\ working # None => /\ done.answers < working /\ working <= nextID
                         /\ \A j \in DOMAIN stdout : stdout[j].id < working
    /\ done.answers <= nextID
    /\ \A j \in DOMAIN stdout : stdout[j].id <= nextID

TInv == TypeOK /\ CallInv
IInv == TInv /\ PairInv /\ PairingSound /\ OrderInv

-----------------------------------------------------------------------------
(* The operators *)

LEMMA JudgeType ==
    ASSUME NEW line \in Line, NEW r \in Ids
    PROVE  /\ Judge(line, r) \in Result
           /\ Judge(line, r).answers = line.id
           /\ Judge(line, r).verdict = "ok" => line.id = r
BY DEF Judge, Verdicts, Line, Result

\* A line that cannot be read, and a pipe at its end, answer no command.
LEMMA ErrorType ==
    ASSUME NEW v \in {"garbled", "eof", "none"}
    PROVE  [verdict |-> v, answers |-> None] \in Result
BY DEF Verdicts, Result

LEMMA AfterCallType ==
    ASSUME TypeOK, stage # "failed", NEW ok \in BOOLEAN
    PROVE  AfterCall(ok) \in Stages
BY DEF TypeOK, AfterCall, Survives, Following, Stages

\* What is read from a pipe, and what is left in it, is of the pipe's type.
LEMMA PipeType ==
    ASSUME NEW S, NEW s \in Seq(S), s # <<>>
    PROVE  /\ Head(s) \in S /\ Head(s) = s[1] /\ 1 \in DOMAIN s
           /\ Tail(s) \in Seq(S)
           /\ \A i \in DOMAIN Tail(s) : i + 1 \in DOMAIN s /\ Tail(s)[i] = s[i + 1]
OBVIOUS

LEMMA AppendType ==
    ASSUME NEW S, NEW s \in Seq(S), NEW e \in S
    PROVE  /\ Append(s, e) \in Seq(S)
           /\ \A i \in DOMAIN Append(s, e) :
              /\ i \in Nat
              /\ \/ i \in DOMAIN s /\ Append(s, e)[i] = s[i]
                 \/ Append(s, e)[i] = e /\ \A k \in DOMAIN s : k < i
OBVIOUS

-----------------------------------------------------------------------------
(* What a reader may do, whichever way its read goes *)

ReaderStep(r) == ReadLine(r) \/ RacedRead(r) \/ ReadEOF(r)

\* A reader changes nothing but the set of readers, the head of stdout and,
\* if the call still waits for it, `done`; and what it puts there is either an
\* error or a line of stdout judged for that call.
LEMMA ReaderFacts ==
    ASSUME TInv, NEW r \in readers, ReaderStep(r)
    PROVE  /\ readers' \subseteq readers
           /\ \/ stdout' = stdout
              \/ stdout # <<>> /\ stdout' = Tail(stdout)
           /\ \/ done' = done
              \/ /\ waiting /\ r = nextID
                 /\ \/ stdout # <<>> /\ done' = Judge(Head(stdout), r)
                    \/ \E v \in {"garbled", "eof"} :
                         done' = [verdict |-> v, answers |-> None]
           /\ UNCHANGED <<restarted, stage, waiting, nextID, outcome, closed, stdin, probeVars>>
<1>1. CASE ReadLine(r)
  BY <1>1 DEF ReadLine, Post
<1>2. CASE RacedRead(r)
  BY <1>2 DEF RacedRead, Post
<1>3. CASE ReadEOF(r)
  BY <1>3 DEF ReadEOF, Post
<1>4. QED
  BY <1>1, <1>2, <1>3 DEF ReaderStep

-----------------------------------------------------------------------------
(* Type correctness *)

LEMMA TInvInit == Init => TInv
<1> SUFFICES ASSUME Init PROVE TInv
  OBVIOUS
<1>1. done \in Result
  BY ErrorType DEF Init, NotDone
<1>2. TypeOK
  <2>1. nextID \in 0..MaxCalls /\ readers \subseteq Ids
    BY MaxCallsAssumption DEF Init
  <2>2. stdin \in Seq(Ids) /\ stdout \in Seq([id : Ids, ok : BOOLEAN])
    BY DEF Init
  <2>3. outcome \in [id : Ids \cup {None}, ok : BOOLEAN,
                    answers : Ids \cup {None}, timedOut : BOOLEAN]
    BY DEF Init, Quiet
  <2>4. QED
    BY <1>1, <2>1, <2>2, <2>3 DEF Init, TypeOK, Stages, Result
<1>3. CallInv
  BY DEF Init, CallInv
<1>4. QED
  BY <1>2, <1>3 DEF TInv

LEMMA TInvNext == TInv /\ [Next]_vars => TInv'
<1> SUFFICES ASSUME TInv, [Next]_vars PROVE TInv'
  OBVIOUS
<1> USE DEF hostVars, probeVars, TInv, TypeOK, CallInv
<1>1. CASE Call
  <2>1. nextID' \in Ids
    BY <1>1, MaxCallsAssumption DEF Call, Ids
  <2>2. stdin' \in Seq(Ids)
    BY <1>1, <2>1, AppendType DEF Call
  <2>3. done' \in Result
    BY <1>1, ErrorType DEF Call, NotDone
  <2>4. QED
    BY <1>1, <2>1, <2>2, <2>3 DEF Call, Ids, Result
<1>2. CASE CallRefused
  <2>1. nextID' \in Ids
    BY <1>2, MaxCallsAssumption DEF CallRefused, Ids
  <2>2. stage' \in Stages
    BY <1>2, AfterCallType DEF CallRefused
  <2>3. outcome' \in [id : Ids \cup {None}, ok : BOOLEAN,
                     answers : Ids \cup {None}, timedOut : BOOLEAN]
    BY <1>2, <2>1 DEF CallRefused
  <2>4. nextID' \in 0..MaxCalls
    BY <2>1 DEF Ids
  <2>5. QED
    BY <1>2, <2>1, <2>2, <2>3, <2>4 DEF CallRefused
<1>3. CASE Return
  <2>1. stage' \in Stages
    BY <1>3, AfterCallType DEF Return
  <2>2. QED
    BY <1>3, <2>1 DEF Return
<1>4. CASE Timeout
  <2>1. stage' \in Stages
    BY <1>4, AfterCallType DEF Timeout
  <2>2. QED
    BY <1>4, <2>1 DEF Timeout
<1>5. CASE Close
  BY <1>5 DEF Close
<1>6. CASE Reader
  <2>1. PICK r \in readers : ReaderStep(r)
    BY <1>6 DEF Reader, ReaderStep
  <2>2. done' \in Result
    <3>1. stdout # <<>> => Judge(Head(stdout), r) \in Result
      BY PipeType, JudgeType DEF Line
    <3>2. QED
      BY <2>1, <3>1, ReaderFacts, ErrorType DEF Result
  <2>3. stdout' \in Seq(Line)
    <3>1. stdout \in Seq(Line)
      BY DEF Line
    <3>2. stdout # <<>> => Tail(stdout) \in Seq(Line)
      BY <3>1, PipeType
    <3>3. QED
      BY <2>1, <3>1, <3>2, ReaderFacts
  <2>4. QED
    BY <2>1, <2>2, <2>3, ReaderFacts DEF Line, Result
<1>7. CASE Serve
  <2>1. Head(stdin) \in Ids /\ Tail(stdin) \in Seq(Ids)
    BY <1>7, PipeType DEF Serve
  <2>2. QED
    BY <1>7, <2>1 DEF Serve
<1>8. CASE Answer
  <2>1. PICK ok \in BOOLEAN : stdout' = Append(stdout, [id |-> working, ok |-> ok])
    BY <1>8 DEF Answer
  <2>2. stdout' \in Seq(Line)
    BY <1>8, <2>1, AppendType DEF Answer, Line
  <2>3. QED
    BY <1>8, <2>2 DEF Answer, Line
<1>9. CASE Wedge
  BY <1>9 DEF Wedge
<1>10. CASE Die
  BY <1>10 DEF Die
<1>11. CASE UNCHANGED vars
  BY <1>11 DEF vars
<1>12. QED
  BY <1>1, <1>2, <1>3, <1>4, <1>5, <1>6, <1>7, <1>8, <1>9, <1>10, <1>11 DEF Next, Idle

\* Every reachable state is well typed; probehost.go, probe_serve.rs.
THEOREM TypeCorrect == Spec => []TypeOK
<1>1. TInv => TypeOK
  BY DEF TInv
<1>2. QED
  BY <1>1, TInvInit, TInvNext, PTL DEF Spec

-----------------------------------------------------------------------------
(* Pairing *)

LEMMA PairNext ==
    ASSUME TInv, TInv', PairInv, PairingSound, [Next]_vars
    PROVE  PairInv' /\ PairingSound'
<1> USE DEF hostVars, probeVars, PairInv, PairingSound
<1>1. CASE Call
  BY <1>1 DEF Call, NotDone
<1>2. CASE CallRefused
  BY <1>2 DEF CallRefused
<1>3. CASE Return
  BY <1>3 DEF Return
<1>4. CASE Timeout
  BY <1>4 DEF Timeout
<1>5. CASE Close
  BY <1>5 DEF Close
<1>6. CASE Reader
  <2>1. PICK r \in readers : ReaderStep(r)
    BY <1>6 DEF Reader, ReaderStep
  <2>2. stdout # <<>> => Head(stdout) \in Line
    BY PipeType DEF TInv, TypeOK, Line
  <2>3. r \in Ids
    BY <2>1 DEF TInv, TypeOK
  <2>4. /\ UNCHANGED <<waiting, nextID, outcome>>
        /\ \/ done' = done
           \/ done'.verdict = "ok" => done'.answers = nextID
    BY <2>1, <2>2, <2>3, ReaderFacts, JudgeType
  <2>5. QED
    BY <2>4
<1>7. CASE Serve
  BY <1>7 DEF Serve
<1>8. CASE Answer
  BY <1>8 DEF Answer
<1>9. CASE Wedge
  BY <1>9 DEF Wedge
<1>10. CASE Die
  BY <1>10 DEF Die
<1>11. CASE UNCHANGED vars
  BY <1>11 DEF vars
<1>12. QED
  BY <1>1, <1>2, <1>3, <1>4, <1>5, <1>6, <1>7, <1>8, <1>9, <1>10, <1>11 DEF Next, Idle

\* A call that succeeds returns the answer to its own command, whatever
\* timeouts, late answers and racing readers went before; callWithTimeout.
THEOREM RepliesPaired == Spec => []PairingSound
<1>1. Init => PairInv /\ PairingSound
  BY DEF Init, PairInv, PairingSound, Quiet
<1>2. QED
  BY <1>1, TInvInit, TInvNext, PairNext, PTL DEF Spec

-----------------------------------------------------------------------------
(* Order *)

LEMMA Elements ==
    ASSUME NEW S, NEW s \in Seq(S)
    PROVE  \A i \in DOMAIN s : i \in Nat /\ s[i] \in S
OBVIOUS

LEMMA IdsAreNumbers ==
    ASSUME TInv
    PROVE  /\ working \in Nat /\ nextID \in Nat /\ done.answers \in Nat
           /\ \A i \in DOMAIN stdin : i \in Nat /\ stdin[i] \in Nat /\ stdin[i] > 0
           /\ \A j \in DOMAIN stdout : j \in Nat /\ stdout[j].id \in Nat
<1>1. /\ \A k \in Ids : k \in Nat /\ k > 0
      /\ \A k \in Ids \cup {None} : k \in Nat
  BY MaxCallsAssumption DEF Ids, None
<1>2. \A i \in DOMAIN stdin : i \in Nat /\ stdin[i] \in Ids
  BY Elements DEF TInv, TypeOK
<1>3. \A j \in DOMAIN stdout : j \in Nat /\ stdout[j].id \in Ids
  <2>1. \A j \in DOMAIN stdout : j \in Nat /\ stdout[j] \in Line
    BY Elements DEF TInv, TypeOK, Line
  <2>2. QED
    BY <2>1 DEF Line
<1>4. working \in Ids \cup {None} /\ done.answers \in Ids \cup {None}
  BY DEF TInv, TypeOK
<1>5. nextID \in Nat
  BY MaxCallsAssumption DEF TInv, TypeOK
<1>6. QED
  BY <1>1, <1>2, <1>3, <1>4, <1>5

LEMMA OrderInit == Init => OrderInv
<1> SUFFICES ASSUME Init PROVE OrderInv
  OBVIOUS
<1>1. DOMAIN stdin = {} /\ DOMAIN stdout = {} /\ done.answers = 0 /\ nextID = 0
  BY DEF Init, NotDone, None
<1>2. QED
  BY <1>1 DEF Init, OrderInv

\* The new command is behind every other.
LEMMA OrderCall == ASSUME TInv, TInv', OrderInv, Call PROVE OrderInv'
<1> USE DEF OrderInv
<1>1. nextID' = nextID + 1 /\ nextID' \in Ids /\ stdin' = Append(stdin, nextID')
  BY DEF Call, TInv, CallInv
<1>2. \A i \in DOMAIN stdin' :
         /\ i \in Nat
         /\ \/ i \in DOMAIN stdin /\ stdin'[i] = stdin[i]
            \/ stdin'[i] = nextID' /\ \A k \in DOMAIN stdin : k < i
  <2>1. stdin \in Seq(Ids)
    BY DEF TInv, TypeOK
  <2>2. \A i \in DOMAIN Append(stdin, nextID') :
           /\ i \in Nat
           /\ \/ i \in DOMAIN stdin /\ Append(stdin, nextID')[i] = stdin[i]
              \/ Append(stdin, nextID')[i] = nextID' /\ \A k \in DOMAIN stdin : k < i
    BY <1>1, <2>1, AppendType
  <2>3. QED
    BY <1>1, <2>2
<1>3. UNCHANGED <<working, probe, stdout>> /\ done'.answers = 0
  BY DEF Call, NotDone, None, probeVars
<1>4. \A i, j \in DOMAIN stdin' : i < j => stdin'[i] < stdin'[j]
  BY <1>1, <1>2, IdsAreNumbers
<1>5. working # None => working <= nextID
  OBVIOUS
<1>6. QED
  BY <1>1, <1>2, <1>3, <1>4, <1>5, IdsAreNumbers DEF None

\* The command that is taken is the least of those that wait.
LEMMA OrderServe == ASSUME TInv, OrderInv, Serve PROVE OrderInv'
<1> USE DEF OrderInv
<1>1. /\ working = None /\ stdin # <<>> /\ stdin' = Tail(stdin) /\ working' = Head(stdin)
      /\ probe = "up" /\ UNCHANGED <<probe, done, nextID, stdout>>
  BY DEF Serve, hostVars
<1>2. working' = stdin[1] /\ 1 \in DOMAIN stdin
      /\ \A i \in DOMAIN stdin' : i + 1 \in DOMAIN stdin /\ stdin'[i] = stdin[i + 1]
  BY <1>1, PipeType DEF TInv, TypeOK
<1>3. \A i \in DOMAIN stdin' : i \in Nat /\ i > 0
  BY <1>1 DEF TInv, TypeOK
<1>4. \A i, j \in DOMAIN stdin' : i < j => stdin'[i] < stdin'[j]
  BY <1>2, <1>3
<1>5. QED
  BY <1>1, <1>2, <1>3, <1>4, IdsAreNumbers

\* The answer goes behind every answer before it and ahead of every command.
LEMMA OrderAnswer == ASSUME TInv, OrderInv, Answer PROVE OrderInv'
<1> USE DEF OrderInv
<1>1. PICK ok \in BOOLEAN : stdout' = Append(stdout, [id |-> working, ok |-> ok])
  BY DEF Answer
<1>2. working \in Ids /\ working # None /\ working' = None
      /\ UNCHANGED <<probe, done, nextID, stdin>> /\ probe = "up"
  BY DEF Answer, TInv, TypeOK, hostVars
<1>3. \A j \in DOMAIN stdout' : \/ j \in DOMAIN stdout /\ stdout'[j] = stdout[j]
                               \/ stdout'[j].id = working
  BY <1>1, <1>2, AppendType DEF TInv, TypeOK, Line
<1>4. QED
  BY <1>2, <1>3, IdsAreNumbers DEF None

\* A reader takes the first answer or none.
LEMMA OrderReader == ASSUME TInv, OrderInv, Reader PROVE OrderInv'
<1> USE DEF OrderInv
<1>1. PICK r \in readers : ReaderStep(r)
  BY DEF Reader, ReaderStep
<1>2. UNCHANGED <<nextID, stdin, probe, working>>
  BY <1>1, ReaderFacts DEF probeVars
<1>3. \A j \in DOMAIN stdout' : \E k \in DOMAIN stdout : stdout'[j] = stdout[k]
  <2>1. stdout # <<>> =>
          \A j \in DOMAIN Tail(stdout) : j + 1 \in DOMAIN stdout /\ Tail(stdout)[j] = stdout[j + 1]
    BY PipeType DEF TInv, TypeOK
  <2>2. QED
    BY <1>1, <2>1, ReaderFacts
<1>4. \/ done'.answers = done.answers
      \/ done'.answers = 0
      \/ \E k \in DOMAIN stdout : done'.answers = stdout[k].id
  <2>1. stdout # <<>> => 1 \in DOMAIN stdout /\ Head(stdout) = stdout[1]
    BY PipeType DEF TInv, TypeOK
  <2>2. \A line : Judge(line, r).answers = line.id
    BY DEF Judge
  <2>3. QED
    BY <1>1, <2>1, <2>2, ReaderFacts DEF None
<1>5. QED
  BY <1>2, <1>3, <1>4, IdsAreNumbers DEF None

LEMMA OrderNext ==
    ASSUME TInv, TInv', OrderInv, [Next]_vars
    PROVE  OrderInv'
<1> USE DEF hostVars, probeVars
<1>1. CASE Call
  BY <1>1, OrderCall
<1>2. CASE CallRefused
  BY <1>2, IdsAreNumbers DEF CallRefused, OrderInv
<1>3. CASE Return
  BY <1>3 DEF Return, OrderInv
<1>4. CASE Timeout
  BY <1>4 DEF Timeout, OrderInv
<1>5. CASE Close
  <2>1. DOMAIN stdin' = {} /\ DOMAIN stdout' = {}
    BY <1>5 DEF Close
  <2>2. QED
    BY <1>5, <2>1 DEF Close, OrderInv
<1>6. CASE Reader
  BY <1>6, OrderReader
<1>7. CASE Serve
  BY <1>7, OrderServe
<1>8. CASE Answer
  BY <1>8, OrderAnswer
<1>9. CASE Wedge
  BY <1>9 DEF Wedge, OrderInv
<1>10. CASE Die
  <2>1. DOMAIN stdin' = {}
    BY <1>10 DEF Die
  <2>2. QED
    BY <1>10, <2>1 DEF Die, OrderInv
<1>11. CASE UNCHANGED vars
  BY <1>11 DEF vars, OrderInv
<1>12. QED
  BY <1>1, <1>2, <1>3, <1>4, <1>5, <1>6, <1>7, <1>8, <1>9, <1>10, <1>11 DEF Next, Idle

\* Only Return makes a call succeed, and with a reply from before the command
\* the probe is stuck in.
LEMMA WedgeStep ==
    ASSUME TInv, PairInv, OrderInv, [Next]_vars,
           probe = "wedged", outcome' # outcome, outcome'.ok
    PROVE  outcome'.id < working
<1>1. CASE Return
  <2>1. outcome'.id = nextID /\ done.answers = nextID /\ working # None
    BY <1>1 DEF Return, PairInv, OrderInv
  <2>2. QED
    BY <2>1 DEF OrderInv
<1>2. CASE CallRefused
  BY <1>2 DEF CallRefused
<1>3. CASE Timeout
  BY <1>3 DEF Timeout
<1>4. CASE Reader
  <2>1. PICK r \in readers : ReaderStep(r)
    BY <1>4 DEF Reader, ReaderStep
  <2>2. QED
    BY <2>1, ReaderFacts
<1>5. CASE Call \/ Close \/ Serve \/ Answer \/ Wedge \/ Die
  BY <1>5 DEF Call, Close, Serve, Answer, Wedge, Die, hostVars
<1>6. CASE UNCHANGED vars
  BY <1>6 DEF vars, hostVars
<1>7. QED
  BY <1>1, <1>2, <1>3, <1>4, <1>5, <1>6 DEF Next, Idle

\* A wedged probe is done: no later command of this Host succeeds, which is
\* what restartProbe's comment rests on; probe_serve.rs answers in order.
THEOREM WedgedIsDone == Spec => WedgeIsFinal
<1>1. Init => PairInv /\ PairingSound
  BY DEF Init, PairInv, PairingSound, Quiet
<1>2. TInv /\ PairInv /\ OrderInv /\ [Next]_vars
      => [(probe = "wedged" /\ outcome' # outcome /\ outcome'.ok) => outcome'.id < working]_vars
  BY WedgeStep
<1>3. QED
  BY <1>1, <1>2, TInvInit, TInvNext, PairNext, OrderInit, OrderNext, PTL DEF Spec, WedgeIsFinal

-----------------------------------------------------------------------------
(* Stale readers. Which timeouts a Host has outlived is told by the call the *)
(* session makes next; all other readers are the current call's own.         *)

\* How many readers earlier timeouts may have left behind at a stage.
Stale(s) ==
    (IF restarted /\ s \in {"warm", "scan", "failed"} THEN 1 ELSE 0)
    + (IF s \in {"scan", "failed"} THEN 1 ELSE 0)
    + (IF s = "failed" THEN 1 ELSE 0)

\* The reader of the call that is waiting.
Own == IF waiting THEN {nextID} ELSE {}

ReadersInv ==
    /\ IsFiniteSet(readers) /\ Cardinality(readers \ Own) <= Stale(stage)
    /\ (waiting /\ done # NotDone) => nextID \notin readers

\* A call that fails may leave its reader, one that returns a result does not.
LEMMA StaleNext ==
    ASSUME TypeOK, stage # "failed"
    PROVE  /\ \A s \in Stages : Stale(s) \in Nat
           /\ Stale(stage) + 1 <= Stale(AfterCall(FALSE))
           /\ \A ok \in BOOLEAN : Stale(stage) <= Stale(AfterCall(ok))
BY DEF TypeOK, Stages, Stale, AfterCall, Survives, Following

\* A set that lost elements, or got one more, has as many fewer or one more.
LEMMA FewerReaders ==
    ASSUME NEW S, IsFiniteSet(S), NEW T \in SUBSET S
    PROVE  IsFiniteSet(T) /\ Cardinality(T) <= Cardinality(S)
           /\ Cardinality(T) \in Nat /\ Cardinality(S) \in Nat
BY FS_Subset, FS_CardinalityType

\* One more reader is at most one more.
LEMMA OneMoreReader ==
    ASSUME NEW S, IsFiniteSet(S), NEW x
    PROVE  /\ Cardinality(S \ {x}) \in Nat /\ Cardinality(S) \in Nat
           /\ Cardinality(S) <= Cardinality(S \ {x}) + 1
<1>1. IsFiniteSet(S \ {x}) /\ Cardinality(S \ {x}) = IF x \in S THEN Cardinality(S) - 1 ELSE Cardinality(S)
  BY FS_RemoveElement
<1>2. Cardinality(S) \in Nat /\ Cardinality(S \ {x}) \in Nat
  BY <1>1, FS_CardinalityType
<1>3. QED
  BY <1>1, <1>2

\* A reader that has found something for the waiting call has stopped reading.
LEMMA ReaderLeaves ==
    ASSUME TInv, NEW r \in readers, ReaderStep(r), done' # done
    PROVE  waiting /\ r = nextID /\ readers' = readers \ {r}
BY DEF ReaderStep, ReadLine, RacedRead, ReadEOF, Post

\* ReadersInv is inductive.
LEMMA ReadersNext ==
    ASSUME TInv, ReadersInv, [Next]_vars
    PROVE  ReadersInv'
<1> USE DEF hostVars, probeVars, ReadersInv, Own
<1>t. TypeOK /\ (waiting => stage # "failed")
  BY DEF TInv, CallInv
<1>1. CASE Call
  <2>1. /\ ~waiting /\ waiting' /\ done' = NotDone /\ UNCHANGED <<restarted, stage>>
        /\ readers' = readers \cup {nextID'}
    BY <1>1 DEF Call
  <2>2. IsFiniteSet(readers')
    BY <2>1, FS_AddElement
  <2>3. readers' \ Own' \subseteq readers \ Own
    BY <2>1
  <2>4. Cardinality(readers' \ Own') <= Cardinality(readers \ Own)
        /\ Cardinality(readers' \ Own') \in Nat /\ Cardinality(readers \ Own) \in Nat
    BY <2>1, <2>3, FewerReaders
  <2>5. Stale(stage)' = Stale(stage) /\ Stale(stage) \in Nat
    BY <2>1 DEF Stale
  <2>6. QED
    BY <2>1, <2>2, <2>4, <2>5
<1>2. CASE CallRefused
  <2> DEFINE next == AfterCall(FALSE)
  <2>1. /\ ~waiting /\ ~waiting' /\ stage # "failed" /\ stage' = next
        /\ UNCHANGED <<restarted, readers, done>>
    BY <1>2 DEF CallRefused
  <2>2. /\ next \in Stages /\ Stale(next) \in Nat /\ Stale(stage) \in Nat
        /\ Stale(stage) <= Stale(next)
    BY <1>t, <2>1, AfterCallType, StaleNext DEF TypeOK
  <2> HIDE DEF next
  <2>3. Stale(stage)' = Stale(next)
    BY <2>1 DEF Stale
  <2>4. Cardinality(readers \ Own) \in Nat /\ readers' \ Own' = readers \ Own
    BY <2>1, FewerReaders
  <2>5. QED
    BY <2>1, <2>2, <2>3, <2>4
<1>3. CASE Return
  <2> DEFINE ok == done.verdict = "ok"
  <2>1. /\ waiting /\ ~waiting' /\ done # NotDone /\ stage' = AfterCall(ok)
        /\ UNCHANGED <<restarted, readers, done>>
    BY <1>3 DEF Return
  <2>2. ok \in BOOLEAN
    OBVIOUS
  <2> HIDE DEF ok
  <2>3. Stale(stage)' = Stale(AfterCall(ok)) /\ AfterCall(ok) \in Stages /\ stage \in Stages
    BY <1>t, <2>1, <2>2, AfterCallType DEF Stale, TypeOK
  <2>4. Cardinality(readers \ Own) \in Nat /\ readers' \ Own' = readers \ Own
    BY <2>1, FewerReaders
  <2>5. QED
    BY <1>t, <2>1, <2>2, <2>3, <2>4, StaleNext
<1>4. CASE Timeout
  <2> DEFINE next == AfterCall(FALSE)
  <2>1. /\ waiting /\ ~waiting' /\ stage # "failed" /\ stage' = next
        /\ UNCHANGED <<restarted, readers>>
    BY <1>4, <1>t DEF Timeout
  <2>2. /\ next \in Stages /\ Stale(next) \in Nat /\ Stale(stage) \in Nat
        /\ Stale(stage) + 1 <= Stale(next)
    BY <1>t, <2>1, AfterCallType, StaleNext DEF TypeOK
  <2> HIDE DEF next
  <2>3. Stale(stage)' = Stale(next)
    BY <2>1 DEF Stale
  <2>4. readers \ Own = readers \ {nextID} /\ readers' \ Own' = readers
    BY <2>1
  <2>5. /\ Cardinality(readers) <= Cardinality(readers \ Own) + 1
        /\ Cardinality(readers) \in Nat /\ Cardinality(readers \ Own) \in Nat
    BY <2>4, OneMoreReader
  <2>6. QED
    BY <2>1, <2>2, <2>3, <2>4, <2>5
<1>5. CASE Reader
  <2>1. PICK r \in readers : ReaderStep(r)
    BY <1>5 DEF Reader, ReaderStep
  <2>2. readers' \subseteq readers /\ UNCHANGED <<restarted, stage, waiting, nextID>>
    BY <2>1, ReaderFacts
  <2>3. readers' \ Own' \subseteq readers \ Own /\ IsFiniteSet(readers')
    BY <2>2, FewerReaders
  <2>4. Cardinality(readers' \ Own') <= Cardinality(readers \ Own)
        /\ Cardinality(readers' \ Own') \in Nat /\ Cardinality(readers \ Own) \in Nat
    BY <2>3, FewerReaders
  <2>5. Stale(stage)' = Stale(stage) /\ Stale(stage) \in Nat
    BY <2>2 DEF Stale
  <2>6. (waiting' /\ done' # NotDone) => nextID' \notin readers'
    BY <2>1, <2>2, ReaderLeaves
  <2>7. QED
    BY <2>3, <2>4, <2>5, <2>6
<1>6. CASE UNCHANGED <<readers, waiting, nextID, done, restarted, stage>>
  BY <1>6 DEF Stale
<1>7. Close \/ Serve \/ Answer \/ Wedge \/ Die \/ UNCHANGED vars
        => UNCHANGED <<readers, waiting, nextID, done, restarted, stage>>
  BY DEF Close, Serve, Answer, Wedge, Die, vars
<1>8. QED
  BY <1>1, <1>2, <1>3, <1>4, <1>5, <1>6, <1>7 DEF Next, Idle

\* Readers that timeouts left blocked on the pipe do not pile up, however many
\* calls are made: a Host does not outlive the timeout of any other call than
\* its warm-up and, if it is a restarted one, its coverage.
THEOREM StaleReadersBounded == Spec => []ReadersBounded
<1>1. Init => ReadersInv
  BY FS_EmptySet DEF Init, ReadersInv, Own, Stale
<1>2. TInv /\ ReadersInv => ReadersBounded
  <2> SUFFICES ASSUME TInv, ReadersInv PROVE ReadersBounded
    OBVIOUS
  <2>1. CASE waiting
    <3>1. Cardinality(readers) <= Cardinality(readers \ Own) + 1
          /\ Cardinality(readers) \in Nat /\ Cardinality(readers \ Own) \in Nat
      BY <2>1, OneMoreReader DEF ReadersInv, Own
    <3>2. stage \in Stages \ {"failed"}
      BY <2>1 DEF TInv, TypeOK, CallInv
    <3>3. QED
      BY <3>1, <3>2 DEF ReadersInv, ReadersBounded, Stale, Stages
  <2>2. CASE ~waiting
    <3>1. readers \ Own = readers /\ Cardinality(readers) \in Nat
      BY <2>2, FewerReaders DEF ReadersInv, Own
    <3>2. QED
      BY <3>1 DEF ReadersInv, ReadersBounded, Stale
  <2>3. QED
    BY <2>1, <2>2
<1>3. QED
  BY <1>1, <1>2, TInvInit, TInvNext, ReadersNext, PTL DEF Spec

=============================================================================
