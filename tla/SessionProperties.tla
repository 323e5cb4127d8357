-------------------------- MODULE SessionProperties --------------------------
(***************************************************************************)
(* What a session of cp-agent promises: to the consumer of the feed, to the *)
(* candidate in front of the mirror, and about the probe processes it owns. *)
(***************************************************************************)
EXTENDS Session

MainPcs == {"consent", "spawn", "ping", "coverage", "mirror", "launch", "run", "wait",
            "terminal", "traystop", "closehost", "destroy", "exited", "fatal"}
TickPcs == {"none", "start", "warm", "select", "scan", "show", "restart", "reping",
            "error", "gap", "recover", "announce", "rewarm", "giveup", "ended",
            "closing", "done"}

\* The type invariant.
TypeOK ==
    /\ main \in MainPcs /\ tick \in TickPcs
    /\ stopped \in BOOLEAN /\ collectorEnded \in BOOLEAN /\ quit \in BOOLEAN
    /\ pending \in SUBSET Nat /\ shown \in SUBSET Nat
    /\ seq \in Nat /\ sink \in Seq(Message) /\ faults \in 0..MaxSinkFaults
    /\ host \in {"none", "open", "closed"} /\ gen \in Nat /\ probes \in Nat
    /\ n \in Nat /\ lastSampleSeq \in Nat /\ attempt \in 0..Attempts

SinkSeqs        == {sink[i].seq : i \in DOMAIN sink}
Positions(k)    == {i \in DOMAIN sink : sink[i].kind = k}

-----------------------------------------------------------------------------
(* The feed *)

\* The feed is in seq order: what main.go's comment on tickerDone says once
\* failed on a real run, when two goroutines wrote at the end of a session.
SinkOrdered == \A i, j \in DOMAIN sink : i < j => sink[i].seq < sink[j].seq

\* No sample reaches a consumer before a coverage report ("It must arrive
\* first", section 3 of main), whatever the sink and the probe do.
CoverageFirst ==
    \A i \in Positions("sample") : \E j \in Positions("coverage") : j < i

\* A declared gap is one: its bounds are in order and before its own seq, no
\* sample lies inside it, and, unless a write was lost, it starts at the last
\* sample before it (or at 0 when there was none).
GapSound ==
    \A i \in Positions("gap_declared") :
        LET g == sink[i] IN
        /\ g.from < g.to /\ g.to < g.seq
        /\ \A j \in Positions("sample") : ~(g.from < sink[j].seq /\ sink[j].seq <= g.to)
        /\ faults = 0 =>
             g.from = 0 \/ \E j \in Positions("sample") : j < i /\ sink[j].seq = g.from

\* Between two samples of different probe processes a consumer finds a gap
\* that begins no earlier than the first sample and ends before the second.
RestartDeclared ==
    faults = 0 =>
        \A i, j \in Positions("sample") :
            (i < j /\ sink[i].gen # sink[j].gen) =>
                \E k \in Positions("gap_declared") :
                    i < k /\ k < j /\ sink[i].seq <= sink[k].from /\ sink[k].to < sink[j].seq

\* coverage_changed names the report written just before it, even when writes
\* fail: a report that was refused is never announced.
CoverageChangedRef ==
    \A i \in Positions("coverage_changed") :
        /\ i > 1
        /\ sink[i - 1].kind = "coverage" /\ sink[i - 1].seq = sink[i].from

\* What is left of "only one terminal event may ever be written": each side
\* writes at most one, nothing follows the collector's but the candidate's and
\* nothing the candidate's, also when writes fail. The last event of a finished
\* session names the side that ended it.
SessionEndSound ==
    /\ \A i, j \in DOMAIN sink :
          (i < j /\ sink[i].kind \in TerminalKinds) =>
              sink[i].kind = "session_ended" /\ sink[j].kind = "candidate_quit"
    /\ Positions("candidate_quit") # {} => ~collectorEnded
    /\ (main = "exited" /\ faults = 0) =>
          sink[Len(sink)].kind \in
              (IF collectorEnded THEN {"session_ended"} ELSE {"candidate_quit", "consent_declined"})

\* A session implements the abstract feed for as long as its writes succeed:
\* after a refused write a consumer may find anything missing.
F == INSTANCE Feed WITH feed <- sink
FeedSpec == F!Init /\ [][faults' = 0 => F!Send]_sink

-----------------------------------------------------------------------------
(* The candidate and the probe *)

\* The readings in the feed, and the one that is written but not yet
\* dispatched: main's first report, or what the ticker has just sent.
Readings == {sink[i].seq : i \in Positions("coverage") \cup Positions("sample")}
InHand   == (IF main \in {"mirror", "launch"} THEN {seq} ELSE {})
            \cup (IF tick \in {"show", "announce"} THEN {n} ELSE {})

\* The mirror is given what was sent and nothing else, unless a write failed:
\* a reading drawn or waiting for the message loop is in the feed, and one in
\* the feed is drawn, waiting, or just being dispatched. What still waits when
\* the loop ends is never drawn.
MirrorHonest ==
    faults = 0 => /\ shown \cup pending \subseteq Readings
                  /\ Readings \subseteq shown \cup pending \cup InHand

\* There is never more than one probe process, and none is left behind by a
\* session that ended in order, whatever a restart was doing at the time.
NoStrayProbe ==
    /\ probes <= 1
    /\ main \in {"destroy", "exited"} => probes = 0

\* A session the collector has ended is never laid to the candidate, whatever
\* stops and closes the window afterwards: "writing candidate_quit too would
\* falsely attribute the collector's own decision" (section 5 of main).
CollectorsEndStands == [](collectorEnded => [](Positions("candidate_quit") = {}))

-----------------------------------------------------------------------------
(* Liveness, under FairSpec *)

\* However the session was ended, main gets past the terminal event: no stop
\* is lost to a scan, a restart, or the closing window.
StopEndsSession == stopped ~> main \in {"traystop", "closehost", "destroy", "exited"}

\* A restart comes to an end: sampling resumes or the session is given up.
RestartResolves == tick = "restart" ~> tick \in {"select", "done"}

=============================================================================
