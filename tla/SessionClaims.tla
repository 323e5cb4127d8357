---------------------------- MODULE SessionClaims ----------------------------
(***************************************************************************)
(* Statements the source makes about a session in its comments that its     *)
(* behaviours do not all satisfy.                                           *)
(* Each is checked alone, by a run that expects a counterexample.           *)
(***************************************************************************)
EXTENDS SessionProperties

\* main.go, closeSession: "the two can race (a restart-give-up and a click
\* landing in the same instant) and only one terminal event may ever be
\* written". sync.Once protects the flag; session_ended is written before it.
OneTerminalEvent ==
    \A i, j \in DOMAIN sink :
        sink[i].kind \in TerminalKinds /\ sink[j].kind \in TerminalKinds => i = j

\* main.go, section 3: "It must arrive first. A sample that reaches a consumer
\* before the coverage report can be read as complete when it is not". Read
\* for each probe process: what it can see is known before it is sampled.
CoverageCurrent ==
    \A i \in Positions("sample") :
        \E j \in Positions("coverage") : j < i /\ sink[j].gen = sink[i].gen

\* cp-signals/src/lib.rs: "seq is contiguous per collector_instance_id. A gap
\* means dropped samples and must surface as reduced coverage, never be
\* smoothed over". Every number missing from a finished feed lies in a gap.
SeqGapsDeclared ==
    main = "exited" =>
        \A s \in (1..seq) \ SinkSeqs :
            \E i \in Positions("gap_declared") : sink[i].from < s /\ s <= sink[i].to
=============================================================================
