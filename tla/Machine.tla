------------------------------- MODULE Machine -------------------------------
(***************************************************************************)
(* The computer that probe-serve observes: processes, files, top-level       *)
(* windows, audio sessions. All of it is outside src/ and is modelled from   *)
(* what the probes of crate cp-win ask of it. Anything may change between    *)
(* two calls of a probe.                                                     *)
(***************************************************************************)
EXTENDS Authenticode

CONSTANTS
    Pid,            \* process ids other than 0, the System Idle Process
    Path,           \* image paths
    Protected,      \* the images whose processes refuse OpenProcess
    File,           \* the contents a file may have, see Authenticode
    Window, TitleOf,
    Affinity,       \* the display affinities windows set
    Session,        \* audio sessions, and for each the endpoint it is on
    DeviceOf, FlowOf,
    SystemSounds,   \* the sessions that are Windows' own
    SessionState,
    Desktops,       \* what the machine may be at first
    MaxChanges      \* bound: how often the machine changes

WindowRecord  == [pid : Pid, visible : BOOLEAN, affinity : Affinity]
SessionRecord == [pid : Pid \cup {0}, state : SessionState]

\* A pid is a DWORD, and a desktop has so many windows and no more.
ASSUME MachineAssumption ==
    /\ Pid \subseteq Nat \ {0} /\ IsFiniteSet(Pid)
    /\ IsFiniteSet(Window)
    /\ MaxChanges \in Nat
    /\ FlowOf \in [Session -> {"capture", "render"}]
    /\ IsFiniteSet({DeviceOf[s] : s \in Session})
    /\ None \notin Path
    /\ \A d \in Desktops : /\ d.running \in [Pid -> Path \cup {None}]
                          /\ d.files \in [Path -> File]
                          /\ d.windows \in [Window -> WindowRecord \cup {None}]
                          /\ d.sessions \in [Session -> SessionRecord \cup {None}]

VARIABLES
    running,        \* the image of each process, or None
    files,          \* the content at each path
    windows,        \* each window's owner, visibility and affinity, or None
    sessions,       \* each audio session's owner and state, or None
    held,           \* history: the contents each path has had
    touched,        \* history: what has changed since the last command began
    changes

machine     == <<running, files, windows, sessions>>
machineVars == <<machine, held, touched, changes>>

MachineTypeOK ==
    /\ running \in [Pid -> Path \cup {None}]
    /\ files \in [Path -> File]
    /\ windows \in [Window -> WindowRecord \cup {None}]
    /\ sessions \in [Session -> SessionRecord \cup {None}]
    /\ held \in [Path -> SUBSET File]
    /\ changes \in 0..MaxChanges

MachineInit ==
    /\ \E d \in Desktops :
        /\ running = d.running /\ files = d.files
        /\ windows = d.windows /\ sessions = d.sessions
        /\ held = [path \in Path |-> {d.files[path]}]
    /\ touched = {} /\ changes = 0

Alive       == {p \in Pid : running[p] # None}
OpenWindows == {w \in Window : windows[w] # None}

\* What a process may own.
WindowOf(p)  == {r \in WindowRecord : r.pid = p}
SessionOf(p) == {r \in SessionRecord : r.pid = p}

Change(things) ==
    /\ changes < MaxChanges
    /\ changes' = changes + 1
    /\ touched' = touched \cup things

\* A process ends with its windows and its audio sessions.
Exits(p) ==
    LET ws == {w \in OpenWindows : windows[w].pid = p}
        ss == {s \in Session : sessions[s] # None /\ sessions[s].pid = p}
    IN  /\ running[p] # None
        /\ Change({p} \cup ws \cup ss)
        /\ running' = [running EXCEPT ![p] = None]
        /\ windows' = [w \in Window |-> IF w \in ws THEN None ELSE windows[w]]
        /\ sessions' = [s \in Session |-> IF s \in ss THEN None ELSE sessions[s]]
        /\ UNCHANGED <<files, held>>

\* A pid may be one that an ended process had.
Starts(p, path) ==
    /\ running[p] = None
    /\ Change({p})
    /\ running' = [running EXCEPT ![p] = path]
    /\ UNCHANGED <<files, windows, sessions, held>>

\* A window opens, closes, hides, shows, or changes its affinity.
WindowChanges(w) ==
    /\ windows' \in {[windows EXCEPT ![w] = r] :
            r \in {None} \cup UNION {WindowOf(p) : p \in Alive}}
    /\ windows' # windows
    /\ Change({w})
    /\ UNCHANGED <<running, files, sessions, held>>

SessionChanges(s) ==
    /\ sessions' \in {[sessions EXCEPT ![s] = r] :
            r \in {None} \cup (IF s \in SystemSounds THEN SessionOf(0)
                               ELSE UNION {SessionOf(p) : p \in Alive})}
    /\ sessions' # sessions
    /\ Change({s})
    /\ UNCHANGED <<running, files, windows, held>>

\* An update, or a rename, puts another content under a path. Nothing reads a
\* file whose processes refuse to tell its path.
FileReplaced(path, f) ==
    /\ path \notin Protected /\ f # files[path]
    /\ Change({path})
    /\ files' = [files EXCEPT ![path] = f]
    /\ held' = [held EXCEPT ![path] = @ \cup {f}]
    /\ UNCHANGED <<running, windows, sessions>>

MachineChanges ==
    \/ \E p \in Pid : Exits(p)
    \/ \E p \in Pid, path \in Path : Starts(p, path)
    \/ \E w \in Window : WindowChanges(w)
    \/ \E s \in Session : SessionChanges(s)
    \/ \E path \in Path, f \in File : FileReplaced(path, f)
=============================================================================
