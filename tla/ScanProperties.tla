---------------------------- MODULE ScanProperties ----------------------------
(***************************************************************************)
(* What a sample and a coverage report are worth: properties of Scan, read   *)
(* off the reply, the machine and the history of both. `touched` holds what  *)
(* changed since the command began, so a thing outside it is today what it   *)
(* was during the whole command.                                             *)
(***************************************************************************)
EXTENDS Scan

IsSample   == reply # None /\ reply.type = "signal_sample"
IsCoverage == reply # None /\ reply.type = "coverage_report"
Complete   == IsSample /\ reply.meta.complete
RowsOf(code) == {s \in reply.signals : s.code = code}
Untouched(things) == things \cap touched = {}
OwnsWindow(p) == \E w \in OpenWindows : windows[w].pid = p

\* Types of the probe's variables and of the machine's.
TypeOK ==
    /\ MachineTypeOK
    /\ op \in {"idle", "scan", "coverage"}
    /\ pc \in {"idle", "sweep", "list", "resolve", "observe", "own", "capture", "render",
               "done", "report"}
    /\ todo \subseteq DOMAIN procs /\ DOMAIN procs \subseteq {0} \cup Pid
    /\ failed \in Nat
    /\ \A h \in holders : h.session \in Session /\ h.state # "expired"
    /\ \A path \in Path : cache[path] # None => cache[path].detail.hash_source \in
            {"authenticode", "full_file", "none"}
    /\ faults \subseteq FaultKinds /\ commands \in 0..MaxCommands

\* A sample says complete exactly when no call failed that the scan takes for
\* an error, on whatever endpoint and in whatever order; it never lists an
\* error and stays complete (lib.rs scan, the S5, S1 and S3 arms). The failures
\* it takes for answers leave a sample complete.
PartialNeverClean ==
    IsSample => /\ reply.meta.complete <=> faults \cap Loud = {}
                /\ reply.meta.complete <=> reply.meta.probe_errors = {}

\* A complete sample has one S1 row for each process that ran all through the
\* scan, whatever its image, and whatever else started and ended meanwhile.
EveryProcessListed ==
    Complete /\ "list" \notin faults =>
        \A p \in Alive \ touched :
            Cardinality({s \in RowsOf("S1") : s.subject.pid = p}) = 1

\* In a complete sample a window that stayed as it is has a tier 2 row exactly
\* when it is excluded from capture, hidden or not, titled or not.
ExclusionsReported ==
    Complete /\ "affinity" \notin faults =>
        \A w \in OpenWindows \ touched :
            windows[w].affinity = "WDA_EXCLUDEFROMCAPTURE" <=>
                \E s \in RowsOf("S5") : s.tier = 2 /\ s.observation_key = <<"S5", w>>

\* In a complete sample, on a desktop whose windows stayed as they are, each
\* lasting capture session has a row, also when its state could not be read;
\* the row is tier 2 exactly when the owner has no window, hidden ones included,
\* and is not Windows itself, talking or not. A row of a render session is always tier 3.
MicFindingsSound ==
    Complete /\ "session" \notin faults =>
        /\ \A s \in Session \ touched :
            FlowOf[s] = "capture" /\ sessions[s] # None /\ Held(s, {}) /\ Untouched(Window) =>
                \E r \in RowsOf("S3") :
                    /\ r.observation_key = <<"S3", sessions[s].pid, DeviceOf[s]>>
                    /\ r.detail.holds_microphone
                    /\ r.detail.session_state = sessions[s].state \/ "state" \in faults
                    /\ r.tier = 2 <=> ~OwnsWindow(sessions[s].pid) /\ s \notin SystemSounds
        /\ \A r \in RowsOf("S3") : r.detail.endpoint_flow = "render" => r.tier = 3

\* A hash in a row is the hash of something that was at the row's path, and
\* "valid" was true of something that was at the row's path, however long ago
\* the verdict was cached and whatever replaced the file between its two
\* opens. A row without a path has no hash.
VerdictWasTrueOnce ==
    IsSample => \A r \in reply.signals :
        LET sig  == r.subject.signature
            path == r.subject.image.path
            HashedIn(f) == AuthenticodeHash(f) # None /\ AuthenticodeHash(f).sha256 = sig.sha256
            TrustedIn(f) == \/ Trusted(VerifyTrust(f))
                            \/ /\ AuthenticodeHash(f) # None
                               /\ ViaCatalog(AuthenticodeHash(f), VerifyTrust(f))
        IN  /\ sig.sha256 # None =>
                IsReadable(r.subject.image) /\ \E f \in held[path] : HashedIn(f)
            /\ sig.state = "valid" => \E f \in held[path] : TrustedIn(f)

\* All rows of a sample that name one pid give it one image, and verdicts that
\* differ only in that some rows were made without one; a row about a process
\* that is not in the list never gives it an image or a verdict.
OneIdentityPerPid ==
    IsSample => \A r, s \in reply.signals :
        r.subject.pid = s.subject.pid =>
            \/ /\ r.subject.image = s.subject.image
               /\ \/ r.subject.signature = s.subject.signature
                  \/ NotChecked \in {r.subject.signature, s.subject.signature}
            \/ /\ \A t \in RowsOf("S1") : t.subject.pid # r.subject.pid
               /\ ~IsReadable(r.subject.image) /\ r.subject.signature = Unavailable

\* The count of unreadable paths, the S1 rows and the S2 rows tell one story:
\* each S2 row shares its subject with an S1 row, and a process lacks one
\* exactly when it is counted.
RowsAndCountsAgree ==
    IsSample =>
        /\ reply.meta.unreadable["process_paths"] =
                Cardinality({s \in RowsOf("S1") : ~IsReadable(s.subject.image)})
        /\ {s.subject : s \in RowsOf("S2")} =
                {s.subject : s \in {t \in RowsOf("S1") : IsReadable(t.subject.image)}}

\* A coverage report has one entry per capability, and says "full" of one that
\* a call measures only when that call left nothing out.
FullIsMeasured ==
    IsCoverage =>
        /\ DOMAIN reply.capabilities = CapabilityKeys
        /\ LET Full(key) == reply.capabilities[key].state = "full"
           IN  /\ Full("S1_processes") => "snapshot" \notin faults
               /\ Full("process_paths") => "snapshot" \notin faults
                       /\ ("list" \notin faults => ~\E p \in Alive \ touched : running[p] \in Protected)
               /\ Full("S5_capture_excluded") => faults \cap {"windows", "affinity"} = {}
               /\ ~Full("S2_signature") /\ ~Full("S3_mic_owner") /\ ~Full("realtime_events")

\* Every command is answered: no change of the machine and no failing call
\* keeps a loop of the scan or of the coverage probe from its end.
EveryCommandAnswered == op # "idle" ~> op = "idle"

-----------------------------------------------------------------------------
\* detail.rs:156 says of an S3 row "Tier 2 when the mic holder shows no
\* window; tier 3 otherwise." The code takes a failed sweep for an empty
\* desktop here (lib.rs:53), against lib.rs:50.
Tier2MeansNoWindow ==
    IsSample => \A r \in RowsOf("S3") :
        r.tier = 2 => ~\E w \in OpenWindows \ touched : windows[w].pid = r.subject.pid
=============================================================================
