------------------------------- MODULE Signals -------------------------------
(***************************************************************************)
(* The wire types of crate cp-signals (envelope.rs, detail.rs): subjects,    *)
(* observations with the code, tier and key derived from them, and the       *)
(* honesty record of a sample. Operators only; Scan uses them.               *)
(*                                                                           *)
(* Names, timestamps, parent pids and texts are left out. A path, a window   *)
(* or a device stands for the string that names it on the wire.              *)
(***************************************************************************)
EXTENDS Naturals, FiniteSets

CONSTANT None       \* Rust's None, null on the wire

-----------------------------------------------------------------------------
(* Subjects *)

\* ImagePath::wire: a path exists exactly when the image was readable.
Readable(path)    == [state |-> "readable", path |-> path]
Unreadable(state) == [state |-> state, path |-> None]
IsReadable(image) == image.state = "readable"

\* Signature::wire
Sig(state, signer, sha256) == [state |-> state, signer |-> signer, sha256 |-> sha256]
NotChecked                 == Sig("not_checked", None, None)
Unavailable                == Sig("unavailable", None, None)
Unsigned(sha256)           == Sig("unsigned", None, sha256)
Valid(signer, sha256)      == Sig("valid", signer, sha256)
Invalid(signer, sha256)    == Sig("invalid", signer, sha256)

NewSubject(pid, image) ==
    [pid |-> pid, image |-> image, has_window |-> None,
     signature |-> IF IsReadable(image) THEN NotChecked ELSE Unavailable]

WithSignature(subject, sig) ==
    [subject EXCEPT !.signature = IF IsReadable(subject.image) THEN sig ELSE Unavailable]

WithHasWindow(subject, b) == [subject EXCEPT !.has_window = b]

-----------------------------------------------------------------------------
(* Windows and devices *)

\* An empty title is a fact, a missing one is not.
WindowRef(hwnd, title, visible) ==
    [id |-> hwnd, visible |-> visible,
     title |-> IF title = "" THEN None ELSE title,
     title_state |-> CASE title = None -> "unavailable"
                       [] title = ""   -> "empty"
                       [] OTHER        -> "captured"]

\* `id` is the endpoint's HMAC under the session's id: one value per device
\* within a session.
SessionScoped(id) == [id |-> id, id_scope |-> "session", kind |-> "unknown"]

-----------------------------------------------------------------------------
(* Details and observations *)

DetailS1(windowCount) ==
    [present |-> TRUE, has_window |-> windowCount > 0, window_count |-> windowCount]

CaptureSession(hasWindow, hasVisible, device, state, systemSounds) ==
    [holds_microphone |-> TRUE, has_window |-> hasWindow, has_visible_window |-> hasVisible,
     device |-> device, session_state |-> state, is_system_sounds |-> systemSounds,
     endpoint_flow |-> "capture"]

\* The only constructor of a render row; it never claims the microphone.
RenderSession(hasWindow, hasVisible, device, state, systemSounds) ==
    [CaptureSession(hasWindow, hasVisible, device, state, systemSounds)
        EXCEPT !.holds_microphone = FALSE, !.endpoint_flow = "render"]

DetailS5(affinity, window) ==
    [capture_excluded |-> affinity = "WDA_EXCLUDEFROMCAPTURE",
     affinity_name |-> affinity, window |-> window]

DetailS6(window) == [is_foreground |-> TRUE, window |-> window]

Codes == {"S1", "S2", "S3", "S5", "S6"}

Observation(code, subject, detail) == [code |-> code, subject |-> subject, detail |-> detail]

Scope(code) == IF code \in {"S1", "S2", "S3"} THEN "process" ELSE "window"

\* Mutant of HeadlessHolder: possession is derived from activity.
ActiveHeadlessHolder(detail) ==
    /\ ~detail.is_system_sounds
    /\ detail.holds_microphone /\ detail.session_state = "active"
    /\ ~detail.has_window

\* A microphone holder without a window; Windows' own sounds are no finding.
HeadlessHolder(detail) ==
    /\ ~detail.is_system_sounds
    /\ detail.holds_microphone
    /\ ~detail.has_window

Tier(o) ==
    IF \/ o.code = "S3" /\ HeadlessHolder(o.detail)
       \/ o.code = "S5" /\ o.detail.capture_excluded
    THEN 2 ELSE 3

ObservationKey(o) ==
    CASE o.code \in {"S1", "S2"} -> <<o.code, o.subject.pid>>
      [] o.code = "S3"           -> <<"S3", o.subject.pid, o.detail.device.id>>
      [] o.code = "S5"           -> <<"S5", o.detail.window.id>>
      [] o.code = "S6"           -> <<"S6", "foreground">>

\* Observation::into_signal
Signal(o) ==
    [code |-> o.code, tier |-> Tier(o), scope |-> Scope(o.code), subject |-> o.subject,
     detail |-> o.detail, observation_key |-> ObservationKey(o)]

-----------------------------------------------------------------------------
(* The honesty record *)

UnreadableKeys == {"process_paths", "audio_endpoints"}

Snapshot ==
    [complete |-> TRUE, probe_errors |-> {}, unreadable |-> [k \in UnreadableKeys |-> 0]]

\* Mutant of RecordError: the error is listed, the sample stays complete.
ListError(meta, code) == [meta EXCEPT !.probe_errors = @ \cup {code}]

RecordError(meta, code) ==
    [meta EXCEPT !.complete = FALSE, !.probe_errors = @ \cup {code}]

CountUnreadable(meta, key, n) == [meta EXCEPT !.unreadable[key] = @ + n]

\* Envelope::sample; the header is the supervisor's and is left out.
SampleEnvelope(observations, meta) ==
    [type |-> "signal_sample", signals |-> {Signal(o) : o \in observations}, meta |-> meta]
=============================================================================
