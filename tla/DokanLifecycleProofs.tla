------------------------ MODULE DokanLifecycleProofs ------------------------
(***************************************************************************)
(* Proofs about DokanLifecycle, for either transport and either role.      *)
(*                                                                         *)
(* That nobody uses a destroyed session rests on who may destroy it: the   *)
(* opener before there is a task, the application's thread once the task   *)
(* has ended, or the task after a callback asked for it.  The parts below  *)
(* say that these exclude each other at every step of the two threads.     *)
(***************************************************************************)
EXTENDS DokanLifecycle, TLAPS

\* Before the task is spawned, and when it never is, nothing else is going on.
NoTaskYet ==
  app \in {"idle", "starting", "failed"} =>
    task = "none" /\ ~ses.closing /\ ~ses.deferred /\ ~tr.deferred

TaskOnceStarted == app \notin {"idle", "starting", "failed"} => task # "none"

\* Events are reported from three places, and their callbacks run there.
CallbackPlace == cb # "none" => task \in {"ending", "select", "poll"}

\* Only one of the threads closes, and each knows that it did.
OneCloser ==
  /\ app \in Closing \cup {"closed"} => ses.closing /\ ~ses.deferred
  /\ ses.deferred => app = "open" /\ ses.closing

\* The task tears down what a callback has closed.
TaskTearsDown ==
  /\ tr.deferred => ses.deferred
  /\ task = "destroy" => tr.deferred

\* stop() returns when the task is at its end.
TaskIsOver ==
  /\ tr.done => task = "ended"
  /\ app \in {"freeing", "closed"} => task = "ended"

Destroyed == app \in {"closed", "failed"} \/ (task = "ended" /\ tr.deferred)
FreedOnce == freed = IF Destroyed THEN 1 ELSE 0

IInv ==
  /\ TypeOK
  /\ NoTaskYet /\ TaskOnceStarted
  /\ CallbackPlace
  /\ QuietAfterClose
  /\ OneCloser
  /\ TaskTearsDown
  /\ TaskIsOver
  /\ FreedOnce
-----------------------------------------------------------------------------
LEMMA InitInv == Init => IInv
  BY DEF Init, IInv, TypeOK, Opening, Closing, Events, NoTaskYet, TaskOnceStarted, CallbackPlace, QuietAfterClose, OneCloser,
     TaskTearsDown, TaskIsOver, FreedOnce, Destroyed

\* The application's thread.
LEMMA AppKeeps ==
  ASSUME IInv, Opens \/ Close \/ Closes
  PROVE  IInv'
<1>. USE DEF IInv, TypeOK, Opening, Closing, Events, AppGoes,
     NoTaskYet, TaskOnceStarted, CallbackPlace, QuietAfterClose, OneCloser,
     TaskTearsDown, TaskIsOver, FreedOnce, Destroyed
<1>1. CASE Open
  BY <1>1 DEF Open
<1>2. CASE StartFails
  BY <1>2 DEF StartFails
<1>3. CASE Spawn
  BY <1>3 DEF Spawn
<1>4. CASE Opened
  BY <1>4 DEF Opened
<1>5. CASE Close
  BY <1>5 DEF Close
<1>6. CASE Stop
  BY <1>6 DEF Stop
<1>7. CASE Wake
  BY <1>7 DEF Wake, Wakes, Sim
<1>8. CASE Join
  BY <1>8 DEF Join, Joined, Sim
<1>9. CASE Free
  BY <1>9 DEF Free
<1>. QED
  BY <1>1, <1>2, <1>3, <1>4, <1>5, <1>6, <1>7, <1>8, <1>9 DEF Opens, Closes

\* The I/O task, and a callback of its.
LEMMA TaskKeeps ==
  ASSUME EarlyClose = FALSE, IInv, TaskStep \/ Callback
  PROVE  IInv'
<1>. USE DEF IInv, TypeOK, Opening, Closing, Events, TaskGoes,
     NoTaskYet, TaskOnceStarted, CallbackPlace, QuietAfterClose, OneCloser,
     TaskTearsDown, TaskIsOver, FreedOnce, Destroyed
<1>1. CASE Bind
  BY <1>1 DEF Bind, Sim
<1>2. CASE LinkUp
  BY <1>2 DEF LinkUp
<1>3. CASE GiveUp
  BY <1>3 DEF GiveUp, Sim
<1>4. CASE StopSeen
  BY <1>4 DEF StopSeen, Sim
<1>5. CASE Lost
  BY <1>5 DEF Lost
<1>6. CASE Report
  <2>1. CASE Listens /\ ~ses.error
    BY <1>6, <2>1 DEF Report, Fail, Listens
  <2>2. CASE ~(Listens /\ ~ses.error)
    BY <1>6, <2>2 DEF Report, Fail
  <2>. QED BY <2>1, <2>2
<1>7. CASE OnConnected
  BY <1>7 DEF OnConnected, Listens
<1>8. CASE Select
  BY <1>8 DEF Select, Sim, Readable
<1>9. CASE CheckStop
  BY <1>9 DEF CheckStop
<1>10. CASE ServeBytes
  <2>1. CASE UNCHANGED ses
    BY <1>10, <2>1 DEF ServeBytes, Fail, Listens
  <2>2. CASE ses' # ses
    BY <1>10, <2>2 DEF ServeBytes, Fail, Listens
  <2>. QED BY <2>1, <2>2
<1>11. CASE ServeFin
  BY <1>11 DEF ServeFin, Fail, Listens, Readable
<1>12. CASE ServeNothing
  BY <1>12 DEF ServeNothing, Readable
<1>13. CASE PollClose
  BY <1>13 DEF PollClose, CloseWanted
<1>14. CASE End
  BY <1>14 DEF End, TearsDown, Sim
<1>15. CASE Destroy
  BY <1>15 DEF Destroy
<1>16. CASE Callback
  BY <1>16 DEF Callback, Return
<1>. QED
  BY <1>1, <1>2, <1>3, <1>4, <1>5, <1>6, <1>7, <1>8, <1>9, <1>10, <1>11, <1>12, <1>13, <1>14, <1>15, <1>16 DEF TaskStep

\* The peer.
LEMMA PeerKeeps ==
  ASSUME IInv, Peer
  PROVE  IInv'
<1>. USE DEF IInv, TypeOK, Opening, Closing, Events,
     NoTaskYet, TaskOnceStarted, CallbackPlace, QuietAfterClose, OneCloser,
     TaskTearsDown, TaskIsOver, FreedOnce, Destroyed
<1>1. CASE Meet
  BY <1>1 DEF Meet, TaskGoes
<1>2. CASE PeerSends
  BY <1>2 DEF PeerSends
<1>3. CASE PeerEnds
  BY <1>3 DEF PeerEnds
<1>. QED BY <1>1, <1>2, <1>3 DEF Peer

LEMMA StepInv == EarlyClose = FALSE /\ IInv /\ [Next]_vars => IInv'
<1>. SUFFICES ASSUME EarlyClose = FALSE, IInv, [Next]_vars
              PROVE  IInv'
  OBVIOUS
<1>1. CASE UNCHANGED vars
  BY <1>1 DEF vars, IInv, TypeOK, Opening, Closing, Events,
     NoTaskYet, TaskOnceStarted, CallbackPlace, QuietAfterClose, OneCloser,
     TaskTearsDown, TaskIsOver, FreedOnce, Destroyed
<1>. QED BY <1>1, AppKeeps, TaskKeeps, PeerKeeps DEF Next

\* The parts hold of every session whose application does not close it before
\* dokan_open has returned.
THEOREM LifecycleInvariant == EarlyClose = FALSE => (Spec => []IInv)
<1>. SUFFICES ASSUME EarlyClose = FALSE PROVE Spec => []IInv
  OBVIOUS
<1>1. IInv /\ [Next]_vars => IInv'
  BY StepInv
<1>. QED BY <1>1, InitInv, PTL DEF Spec

\* dokan_session_destroy is called at most once, and each flag and each of the two
\* threads stays within its states.
THEOREM LifecycleTypeCorrect == EarlyClose = FALSE => (Spec => []TypeOK)
<1>1. IInv => TypeOK
  BY DEF IInv
<1>. QED BY <1>1, LifecycleInvariant, PTL

\* Neither thread uses the session once either of them has destroyed it, whenever
\* and wherever it was closed (dokan_close, sim_task, wifi_task).
THEOREM DestroyedIsLeftAlone == EarlyClose = FALSE => (Spec => []NoUseAfterFree)
<1>1. IInv => NoUseAfterFree
  BY DEF IInv, TypeOK, Opening, Closing, NoUseAfterFree,
     NoTaskYet, TaskOnceStarted, CallbackPlace, QuietAfterClose, OneCloser,
     TaskTearsDown, TaskIsOver, FreedOnce, Destroyed
<1>. QED BY <1>1, LifecycleInvariant, PTL

\* No callback runs once dokan_close has marked the session: here an application
\* may close as early as it likes.
THEOREM CloseSilences == Spec => []QuietAfterClose
<1>. DEFINE Flags == [closing : BOOLEAN, error : BOOLEAN, deferred : BOOLEAN]
            Quiet == ses \in Flags /\ QuietAfterClose
<1>1. Init => Quiet
  BY DEF Init, QuietAfterClose
<1>2. Quiet /\ [Next]_vars => Quiet'
  <2>. SUFFICES ASSUME Quiet, [Next]_vars
                PROVE  Quiet'
    OBVIOUS
  <2>. USE DEF QuietAfterClose
  <2>1. CASE Opens \/ Close \/ Closes \/ UNCHANGED vars
    BY <2>1 DEF Opens, Open, StartFails, Spawn, Opened, Close, Closes, Stop, Wake, Join,
       Free, vars
  <2>2. CASE Bind \/ LinkUp \/ GiveUp \/ StopSeen \/ Lost \/ Select \/ CheckStop
    BY <2>2 DEF Bind, LinkUp, GiveUp, StopSeen, Lost, Select, CheckStop
  <2>3. CASE Report \/ OnConnected \/ ServeBytes \/ ServeFin
    <3>1. (ses' = [ses EXCEPT !.error = TRUE] \/ ses' = ses) /\ cb = "none"
      BY <2>3 DEF Report, OnConnected, ServeBytes, ServeFin, Fail, TaskGoes
    <3>2. ses'.closing = ses.closing /\ ses' \in Flags
      BY <3>1
    <3>3. ses.closing => cb' = "none"
      BY <2>3, <3>1 DEF Report, OnConnected, ServeBytes, ServeFin, Fail, Listens
    <3>. QED BY <3>2, <3>3
  <2>4. CASE ServeNothing \/ PollClose \/ End \/ Destroy \/ Callback \/ Peer
    BY <2>4 DEF ServeNothing, PollClose, End, Destroy, Callback, Return, Peer, Meet,
       PeerSends, PeerEnds
  <2>. QED BY <2>1, <2>2, <2>3, <2>4 DEF Next, TaskStep
<1>3. Quiet => QuietAfterClose
  OBVIOUS
<1>. QED BY <1>1, <1>2, <1>3, PTL DEF Spec
=============================================================================
