------------------------------- MODULE Coverage -------------------------------
(***************************************************************************)
(* The coverage report: the capabilities of cp-signals/src/coverage.rs and   *)
(* what cp-win/src/capability.rs concludes from each probe's outcome.        *)
(* Operators only; Scan makes the calls whose outcomes they judge. Prose     *)
(* details, timestamps and the platform block are left out.                  *)
(***************************************************************************)
EXTENDS Signals

CapabilityKeys == {"S1_processes", "process_paths", "S2_signature", "S3_mic_owner",
                   "S5_capture_excluded", "S6_window_titles", "host_machine", "realtime_events"}

\* The signal codes a capability gates.
Gates == [key \in CapabilityKeys |->
    IF key \in {"S2_signature", "process_paths"} THEN {"S2"}
    ELSE IF key = "S1_processes" THEN {"S1"}
    ELSE IF key = "S3_mic_owner" THEN {"S3"}
    ELSE IF key = "S5_capture_excluded" THEN {"S5"}
    ELSE IF key = "S6_window_titles" THEN {"S6"} ELSE {}]

Capability(key, state, method, reason, api, limits) ==
    [key |-> key, state |-> state, method |-> method, reason |-> reason,
     platform_api |-> api, limits |-> limits]

\* `limits` is the set of the quantified limits, a name with its value.
Probed(key, api) == Capability(key, "full", "probed", None, api, {})
Degraded(key, state, reason, api) == Capability(key, state, "probed", reason, api, {})
NotApplicable(key) == Capability(key, "not_applicable", "declared", None, None, {})
WithLimit(cap, name, n) == [cap EXCEPT !.limits = @ \cup {<<name, n>>}]

\* The bare word on the wire: a good state that was not probed, and nothing to
\* explain. Everything else is an object with the signals it gates.
Shorthandable(cap) ==
    /\ cap.state \in {"full", "not_applicable"}
    /\ cap.reason = None /\ cap.limits = {} /\ cap.method # "probed"

Serialized(cap) ==
    IF Shorthandable(cap)
    THEN [form |-> "word", state |-> cap.state]
    ELSE [form |-> "object", state |-> cap.state, method |-> cap.method, reason |-> cap.reason,
          signals |-> Gates[cap.key], platform_api |-> cap.platform_api, limits |-> cap.limits]

-----------------------------------------------------------------------------
(* probe_all, one operator per probe. An outcome None is the call's error. *)

CapabilityOfProcesses(total, unreadable) ==
    {WithLimit(Probed("S1_processes", "CreateToolhelp32Snapshot"), "processes_total", total),
     IF unreadable = 0
     THEN Probed("process_paths", "QueryFullProcessImageNameW")
     ELSE WithLimit(WithLimit(
            Degraded("process_paths", "partial", "access_denied", "QueryFullProcessImageNameW"),
            "processes_total", total), "paths_unreadable", unreadable)}

ProcessesDenied ==
    {Degraded("S1_processes", "denied", "probe_failed", "CreateToolhelp32Snapshot"),
     Degraded("process_paths", "unknown", "probe_failed", "QueryFullProcessImageNameW")}

\* `detail` is the verification of the collector's own image.
CapabilityOfSignature(detail) ==
    IF detail.hash_source # "none"
    THEN Degraded("S2_signature", "partial", "collector_scope", "WinVerifyTrust")
    ELSE Degraded("S2_signature", "denied", "probe_failed", "WinVerifyTrust")

SignatureUnknown == Degraded("S2_signature", "unknown", "probe_failed", "current_exe")

\* Never full: some ways to record are not enumerated at all.
CapabilityOfAudio(capture, render) ==
    WithLimit(WithLimit(
        Degraded("S3_mic_owner", "partial", "collector_scope", "GetSessionEnumerator"),
        "capture_sessions_visible", capture), "render_sessions_visible", render)

AudioDenied == Degraded("S3_mic_owner", "denied", "probe_failed", "GetSessionEnumerator")

\* Mutant of CapabilityOfWindows: full with the number of unreadable windows.
WindowsFullWithLimit(total, unreadable) ==
    WithLimit(WithLimit(Probed("S5_capture_excluded", "GetWindowDisplayAffinity"),
        "windows_total", total), "windows_unreadable", unreadable)

CapabilityOfWindows(total, unreadable) ==
    IF unreadable = 0
    THEN WithLimit(Probed("S5_capture_excluded", "GetWindowDisplayAffinity"),
            "windows_total", total)
    ELSE WithLimit(WithLimit(
            Degraded("S5_capture_excluded", "partial", "access_denied", "GetWindowDisplayAffinity"),
            "windows_total", total), "windows_unreadable", unreadable)

WindowsDenied == Degraded("S5_capture_excluded", "denied", "probe_failed", "EnumWindows")

\* The entries that no call stands behind.
FixedCapabilities ==
    {Probed("S6_window_titles", "GetWindowTextW"),
     NotApplicable("host_machine"),
     Degraded("realtime_events", "partial", "degraded_polling", "polling")}

\* CoverageReport::new collects into a map by key: one entry per key. The
\* reason is the handshake whenever it is asked for.
CoverageReport(capabilities) ==
    [type |-> "coverage_report", reason |-> "handshake",
     capabilities |-> [key \in {c.key : c \in capabilities} |->
        Serialized(CHOOSE c \in capabilities : c.key = key)]]
=============================================================================
