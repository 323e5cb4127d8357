------------------------------ MODULE TrayProofs ------------------------------
(***************************************************************************)
(* Proofs about Tray for every number of clicks. A callback runs only on   *)
(* the tray's thread, while that thread is in its message loop: with this, *)
(* Stop, which returns when the loop has ended or never began, leaves no   *)
(* callback behind.                                                        *)
(***************************************************************************)
EXTENDS Tray, SequenceTheorems, TLAPS

\* A Show is the tray's thread inside its loop; the thread is started by main
\* before anything else, and main ends its wait for it only when the loop is
\* over.
LoopInv ==
    /\ showing => tray = "loop"
    /\ main = "start" => tray = "none"
    /\ main = "stopped" => tray # "loop"

TrayInv == TypeOK /\ LoopInv

-----------------------------------------------------------------------------
\* What the thread's queue holds when a message is posted to it or taken.
LEMMA QueueType ==
    ASSUME NEW q \in Seq(Messages)
    PROVE  /\ \A m \in Messages : Append(q, m) \in Seq(Messages)
           /\ q # <<>> => Head(q) \in Messages /\ Tail(q) \in Seq(Messages)
  OBVIOUS

\* The events that are posted are messages of the queue.
LEMMA PostedMessages == IconEvents \subseteq Messages /\ "quit" \in Messages
BY DEF IconEvents, Messages

\* Initially no thread runs and no callback is under way.
LEMMA TrayInvInit == Init => TrayInv
<1> SUFFICES ASSUME Init PROVE TrayInv
  OBVIOUS
<1>1. queue \in Seq(Messages) /\ 0 \in 0..MaxClicks
  BY MaxClicksAssumption DEF Init
<1>2. QED
  BY <1>1 DEF Init, TrayInv, TypeOK, LoopInv

\* main's steps: the thread is started once, and waited for before "stopped".
LEMMA TrayInvMain == TrayInv /\ Main => TrayInv'
<1> SUFFICES ASSUME TrayInv, Main PROVE TrayInv'
  OBVIOUS
<1> USE QueueType, PostedMessages DEF TrayInv, TypeOK, LoopInv
<1>StartTray. CASE StartTray
  BY <1>StartTray DEF StartTray
<1>StartTrayFails. CASE StartTrayFails
  BY <1>StartTrayFails DEF StartTrayFails
<1>RunReturns. CASE RunReturns
  BY <1>RunReturns DEF RunReturns
<1>EnterStop. CASE EnterStop
  <2>1. queue' \in Seq(Messages)
    BY <1>EnterStop DEF EnterStop
  <2>2. QED
    BY <1>EnterStop, <2>1 DEF EnterStop
<1>StopReturns. CASE StopReturns
  BY <1>StopReturns DEF StopReturns
<1> QED
  BY <1>StartTray, <1>StartTrayFails, <1>RunReturns, <1>EnterStop, <1>StopReturns DEF Main

\* The candidate's step: an icon to click exists only while the loop runs.
LEMMA TrayInvClick == TrayInv /\ IconClick => TrayInv'
<1> SUFFICES ASSUME TrayInv, IconClick PROVE TrayInv'
  OBVIOUS
<1> USE QueueType, PostedMessages DEF TrayInv, TypeOK, LoopInv
<1>1. queue' \in Seq(Messages)
  BY DEF IconClick
<1>2. clicks' \in 0..MaxClicks
  BY MaxClicksAssumption DEF IconClick
<1>3. QED
  BY <1>1, <1>2 DEF IconClick

\* What the WndProc does to the thread's state, whatever the message.
LEMMA WndProcType ==
    ASSUME TypeOK, NEW message, WndProc(message)
    PROVE  /\ showing' \in BOOLEAN /\ popup' \in {"none", "shown", "refused"}
           /\ tray' = tray /\ icons' = icons
<1>1. (message = "dblclk") \in BOOLEAN
  OBVIOUS
<1>2. showing' \in BOOLEAN
  BY <1>1, Zenon DEF WndProc
<1>3. popup' \in {"none", "shown", "refused"}
  BY DEF WndProc, TrackPopupMenuEx, TypeOK
<1>4. QED
  BY <1>2, <1>3 DEF WndProc

\* The thread's own steps: a callback begins inside the loop, and the loop
\* ends with none under way.
LEMMA TrayInvThread == TrayInv /\ TrayThread => TrayInv'
<1> SUFFICES ASSUME TrayInv, TrayThread PROVE TrayInv'
  OBVIOUS
<1> USE QueueType DEF TrayInv, TypeOK, LoopInv
<1>Dispatch. CASE Dispatch
  <2>1. queue' \in Seq(Messages)
    BY <1>Dispatch DEF Dispatch
  <2>2. CASE Head(queue) = "quit"
    BY <1>Dispatch, <2>1, <2>2 DEF Dispatch, EndLoop
  <2>3. CASE WndProc(Head(queue))
    <3>1. tray' = "loop"
      BY <1>Dispatch, <2>3, WndProcType DEF Dispatch
    <3>2. QED
      BY <1>Dispatch, <2>1, <2>3, <3>1, WndProcType DEF Dispatch
  <2>4. QED
    BY <1>Dispatch, <2>2, <2>3 DEF Dispatch
<1>ShowDone. CASE ShowDone
  BY <1>ShowDone DEF ShowDone
<1> QED
  BY <1>Dispatch, <1>ShowDone DEF TrayThread

\* The invariant is inductive.
LEMMA TrayInvNext == TrayInv /\ [Next]_vars => TrayInv'
<1> SUFFICES ASSUME TrayInv, [Next]_vars PROVE TrayInv'
  OBVIOUS
<1>1. CASE UNCHANGED vars
  BY <1>1 DEF vars, TrayInv, TypeOK, LoopInv
<1>2. QED
  BY <1>1, TrayInvMain, TrayInvClick, TrayInvThread DEF Next, Stopped

\* Every reachable state satisfies it.
LEMMA TrayInvariant == Spec => []TrayInv
<1>1. QED
  BY TrayInvInit, TrayInvNext, PTL DEF Spec

-----------------------------------------------------------------------------
\* Type correctness for any number of clicks: only messages the thread knows
\* are ever in its queue, and a message is taken only from a queue with one.
THEOREM TrayTypeCorrect == Spec => []TypeOK
<1>1. TrayInv => TypeOK
  BY DEF TrayInv
<1>2. QED
  BY <1>1, TrayInvariant, PTL

\* When tray.Stop has returned no callback runs and none can start, so main
\* may destroy the window: neither a nil *Tray, nor a thread that ended, nor
\* clicks still queued behind the stop make an exception.
THEOREM CallbacksEndWithStop == Spec => []NoCallbackAfterStop
<1>1. TrayInv => NoCallbackAfterStop
  BY DEF TrayInv, LoopInv, NoCallbackAfterStop
<1>2. QED
  BY <1>1, TrayInvariant, PTL

=============================================================================
