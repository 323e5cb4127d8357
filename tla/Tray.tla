-------------------------------- MODULE Tray --------------------------------
(***************************************************************************)
(* The tray icon (internal/ui/tray.go): its thread, the candidate who clicks *)
(* it, and func main, which owns the mirror window that the icon's Show      *)
(* restores and which waits for the tray's thread at the end of the session. *)
(*                                                                           *)
(* Of Windows: a posted message waits in the thread's queue; ShowWindow on a *)
(* window of another thread returns once that thread has taken the message;  *)
(* TrackPopupMenuEx shows a menu only for a window of the calling thread.    *)
(***************************************************************************)
EXTENDS Naturals, Sequences

CONSTANT MaxClicks   \* bound: how often the candidate clicks the icon

ASSUME MaxClicksAssumption == MaxClicks \in Nat

VARIABLES
    main,           \* "start", "pumping" (in mirror.Run, or about to be),
                    \* "leaving" (Run has returned), "traystop", "stopped"
    window,         \* the mirror window: "open" or "destroyed"
    tray,           \* the tray's thread: "none", "loop", "ended"
    icons,          \* the uIDs the shell shows for the tray's window
    queue,          \* messages posted to the tray's thread
    showing,        \* inside onShow: ShowWindow on the mirror window
    popup,          \* what came of the last right click: "none", "shown", "refused"
    clicks

vars == <<main, window, tray, icons, queue, showing, popup, clicks>>

IconEvents == {"rbutton", "dblclk"}
Messages   == IconEvents \cup {"quit"}

\* The icon that addIcon adds, and the one that Stop deletes.
AddedIcon   == 1
DeletedIcon == 0

\* What showContextMenu passes for the owner window and for the area to keep
\* clear. The procedure bound is TrackPopupMenuEx, of six parameters; the
\* arguments are the seven of TrackPopupMenu, so the tray's window comes after
\* a zero that TrackPopupMenu reserves, one place too late.
PopupCall == [owner |-> "null", area |-> "tray window"]

\* A menu needs an owner, and an area that is none or a TPMPARAMS. One that
\* was shown would run a message loop until it is closed; none ever is.
TrackPopupMenuEx(call) ==
    IF call.owner = "tray window" /\ call.area = "null" THEN "shown" ELSE "refused"

Init ==
    /\ main = "start" /\ window = "open"
    /\ tray = "none" /\ icons = {} /\ queue = <<>>
    /\ showing = FALSE /\ popup = "none" /\ clicks = 0

-----------------------------------------------------------------------------
(* func main *)

StartTray ==
    /\ main = "start"
    /\ main' = "pumping"
    /\ tray' = "loop" /\ icons' = {AddedIcon}
    /\ UNCHANGED <<window, queue, showing, popup, clicks>>

\* No window or no icon: the tray's thread is gone and Stop has nothing to do.
StartTrayFails ==
    /\ main = "start"
    /\ main' = "pumping"
    /\ UNCHANGED <<window, tray, icons, queue, showing, popup, clicks>>

\* Terminate leaves the window, which Destroy removes after tray.Stop; the
\* native close destroys it.
RunReturns ==
    /\ main = "pumping"
    /\ main' = "leaving"
    /\ window' \in {"open", "destroyed"}
    /\ UNCHANGED <<tray, icons, queue, showing, popup, clicks>>

\* Mutant of EnterStop: WM_DESTROY posted to the thread in place of msgQuit.
EnterStopWithDestroy ==
    /\ main = "leaving"
    /\ main' = "traystop"
    /\ icons' = icons \ {DeletedIcon}
    /\ queue' = IF tray = "loop" THEN Append(queue, "destroy") ELSE queue
    /\ UNCHANGED <<window, tray, showing, popup, clicks>>

\* tray.Stop: NIM_DELETE, then msgQuit to the thread.
EnterStop ==
    /\ main = "leaving"
    /\ main' = "traystop"
    /\ icons' = icons \ {DeletedIcon}
    /\ queue' = IF tray = "loop" THEN Append(queue, "quit") ELSE queue
    /\ UNCHANGED <<window, tray, showing, popup, clicks>>

\* Mutant of StopReturns: Stop does not wait for the thread.
StopReturnsAtOnce ==
    /\ main = "traystop"
    /\ main' = "stopped"
    /\ UNCHANGED <<window, tray, icons, queue, showing, popup, clicks>>

\* <-t.stopped, or a nil *Tray.
StopReturns ==
    /\ main = "traystop" /\ tray # "loop"
    /\ main' = "stopped"
    /\ UNCHANGED <<window, tray, icons, queue, showing, popup, clicks>>

-----------------------------------------------------------------------------
(* The candidate *)

IconClick ==
    /\ tray = "loop" /\ AddedIcon \in icons /\ clicks < MaxClicks
    /\ \E event \in IconEvents : queue' = Append(queue, event)
    /\ clicks' = clicks + 1
    /\ UNCHANGED <<main, window, tray, icons, showing, popup>>

-----------------------------------------------------------------------------
(* The tray's thread *)

\* Mutant of WndProc: the callback's event is looked for in wParam.
WndProcOtherParam(message) == UNCHANGED <<showing, popup, tray, icons>>

\* The WndProc: showContextMenu, or onShow. Its WM_COMMAND cases are never
\* run: a menu is what would send that message, and none is shown.
WndProc(message) ==
    /\ showing' = (message = "dblclk")
    /\ popup' = IF message = "rbutton" THEN TrackPopupMenuEx(PopupCall) ELSE popup
    /\ UNCHANGED <<tray, icons>>

\* DestroyWindow, the WM_DESTROY it sends, PostQuitMessage, close(t.stopped).
\* The shell drops the icon of a window that is gone when next it looks.
EndLoop == tray' = "ended" /\ UNCHANGED icons

\* GetMessage in messageLoop.
Dispatch ==
    /\ tray = "loop" /\ ~showing /\ queue # <<>>
    /\ queue' = Tail(queue)
    /\ IF Head(queue) = "quit"
       THEN EndLoop /\ UNCHANGED <<showing, popup>>
       ELSE WndProc(Head(queue))
    /\ UNCHANGED <<main, window, clicks>>

\* ShowWindow returns once func main's thread, which owns the window, has
\* taken its message, or at once if there is no window.
ShowDone ==
    /\ showing
    /\ main = "pumping" \/ window = "destroyed"
    /\ showing' = FALSE
    /\ UNCHANGED <<main, window, tray, icons, queue, popup, clicks>>

-----------------------------------------------------------------------------
TrayThread == Dispatch \/ ShowDone
Main       == StartTray \/ StartTrayFails \/ RunReturns \/ EnterStop \/ StopReturns

\* main's remaining deferred calls: nothing of the tray is left.
Stopped == main = "stopped" /\ UNCHANGED vars

Next == Main \/ IconClick \/ TrayThread \/ Stopped

Spec == Init /\ [][Next]_vars

\* Both threads are scheduled; the candidate owes nothing.
FairSpec == Spec /\ WF_vars(TrayThread) /\ WF_vars(EnterStop \/ StopReturns)

-----------------------------------------------------------------------------
(* Properties *)

TypeOK ==
    /\ main \in {"start", "pumping", "leaving", "traystop", "stopped"}
    /\ window \in {"open", "destroyed"}
    /\ tray \in {"none", "loop", "ended"} /\ icons \subseteq {AddedIcon}
    /\ queue \in Seq(Messages)
    /\ showing \in BOOLEAN /\ popup \in {"none", "shown", "refused"}
    /\ clicks \in 0..MaxClicks

\* Once Stop has returned no callback of the tray runs or can start, so none
\* reaches the window that main destroys next.
NoCallbackAfterStop == main = "stopped" => tray # "loop" /\ ~showing

\* Once mirror.Run has returned the shutdown handshake completes, unless a
\* Show is under way at some moment after that.
HandshakeCompletes == main = "leaving" ~> (main = "stopped" \/ showing)

\* A double click reaches onShow while the mirror is up, whatever was
\* clicked before it.
DoubleClickShows ==
    (queue # <<>> /\ Head(queue) = "dblclk") ~> (showing \/ main # "pumping")

-----------------------------------------------------------------------------
(* Statements of the source that do not hold *)

\* tray.go on StartTray: onStop is invoked "when they pick "Stop monitoring""
\* from the context menu. So a right click gets the candidate that menu.
MenuOffered ==
    (queue # <<>> /\ Head(queue) = "rbutton") ~> (popup = "shown" \/ main # "pumping")

\* tray.go on Stop: "Stop removes the icon and ends its message loop", and its
\* test: a Stop that has not returned after 5s "is hung".
StopAlwaysReturns == main = "traystop" ~> main = "stopped"

=============================================================================
