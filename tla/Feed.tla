--------------------------------- MODULE Feed ---------------------------------
(***************************************************************************)
(* The feed a session promises its consumer, with no agent in it: consent   *)
(* first; coverage before samples; a restart of the probe announced by an   *)
(* error and a gap before anything of the new probe; terminal events last;  *)
(* message numbers increasing throughout.                                   *)
(*                                                                          *)
(* One promise of the source is left out because the agent does not keep it *)
(* ("only one terminal event may ever be written"): candidate_quit may      *)
(* follow session_ended here. See OneTerminalEvent in SessionClaims.        *)
(***************************************************************************)
EXTENDS Naturals, Sequences

VARIABLE feed   \* the messages, in the order a consumer reads them

Last == feed[Len(feed)]

Body == {"sample", "recovered_error", "fatal_error", "candidate_quit"}

\* What may come right after a message of kind k.
After(k) ==
    CASE k = "consent_granted"  -> {"coverage"}
      [] k = "coverage"         -> Body \cup {"coverage_changed"}
      [] k = "sample"           -> Body
      [] k = "recovered_error"  -> {"gap_declared"}
      [] k = "gap_declared"     -> Body \cup {"coverage"}
      [] k = "coverage_changed" -> Body
      [] k = "fatal_error"      -> {"session_ended"}
      [] k = "session_ended"    -> {"candidate_quit"}
      [] OTHER                  -> {}

\* A message that refers to others refers to earlier ones.
WellFormed(m) ==
    /\ m.kind = "gap_declared" => m.from < m.to /\ m.to < m.seq
    /\ m.kind = "coverage_changed" => m.from = Last.seq

Init == feed = <<>>

Open(m) ==
    /\ feed = <<>>
    /\ m.kind \in {"consent_granted", "consent_declined"}

Continue(m) ==
    /\ feed # <<>>
    /\ m.kind \in After(Last.kind) /\ m.seq > Last.seq
    /\ WellFormed(m)

\* One message is appended.
Send ==
    LET m == feed'[Len(feed')] IN
    /\ feed' = Append(feed, m)
    /\ Open(m) \/ Continue(m)

Spec == Init /\ [][Send]_feed

=============================================================================
