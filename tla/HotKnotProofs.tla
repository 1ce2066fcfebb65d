---------------------------- MODULE HotKnotProofs ---------------------------
(***************************************************************************)
(* Proofs about HotKnot, for either role, with power by battery or USB.    *)
(*                                                                         *)
(* The screen learns of the driver by way of hk_state_, which it polls:    *)
(* what it has seen is behind what it has loaded, that is behind what is   *)
(* stored there, and that behind the driver.  The parts below carry a fact *)
(* from the driver to the screen along these stages.                       *)
(***************************************************************************)
EXTENDS HotKnot, TLAPS

Early == {"Idle", "Approaching"}

\* While pollHotKnot is at work it has something to work on.
PollHasState ==
  /\ active => seen # "Idle" /\ state # "Idle"
  /\ pc \in {"replay", "pairing"} => active /\ loaded # "Idle"

\* Each stage is past the approach only if the one before it is.
PastApproach ==
  /\ seen \notin Early => loaded \notin Early /\ state \notin Early
  /\ loaded \notin Early => state \notin Early
  /\ state = "Idle" => loaded = "Idle" /\ seen = "Idle"

\* Once the driver has been ready the panel is dead.
ReadyIsDead ==
  /\ driver \in {"paired", "ready"} => ~touch
  /\ {seen, loaded, state} \cap {"Ready", "Done"} # {} =>
       ~touch /\ driver \in {"ready", "over", "off"}

\* Once Ready is seen, or found, nothing earlier comes any more.
SeenReady ==
  /\ seen = "Ready" => loaded \in {"Ready", "Done", "Failed"}
  /\ {seen, loaded} \cap {"Ready", "Done"} # {} => state \in {"Ready", "Done", "Failed"}

\* The send task is the MASTER's, and runs once it is ready.
SendAfterReady ==
  send # "none" => role = "MASTER" /\ seen \notin Early \cup {"Paired"} /\ ~touch
                   /\ pc \notin {"build", "begun", "backing", "popping", "popped"}

\* Done is only stored, and so only seen, when the descriptor has been passed.
DoneIsPassed ==
  /\ send \in {"sent", "late_done"} => passed
  /\ "Done" \in {seen, loaded, state} => passed
  /\ "Done" \in {loaded, state} /\ role = "MASTER" =>
       send = "none" /\ seen \notin Early \cup {"Paired"}
  /\ pc \in {"leaving", "transfer"} => seen = "Done" /\ send = "none"

\* The session screen replaces the slots once the worker has stopped.
SlotsAreCleared ==
  /\ seen \notin Early /\ pc # "pairing" => worker # "running" /\ ~slots
  /\ pc \in {"pairing", "leaving", "failing"} => seen \notin Early
  /\ pc \in {"popping", "ending"} => worker # "running"

\* endHotKnot has nothing to do for a screen that has no session.
NoSession ==
  /\ pc \notin {"build", "begun"} /\ ~active => driver = "off" /\ ~Busy
  /\ pc \in {"build", "begun"} => ~active /\ seen = "Idle" /\ loaded = "Idle"
                                  /\ send = "none"
  /\ pc = "begun" \/ (active /\ pc # "gone") => driver # "off"
  /\ pc = "build" => driver = "off"
  /\ pc \in Left => driver = "off"

IInv ==
  /\ TypeOK
  /\ PollHasState /\ PastApproach /\ ReadyIsDead /\ SeenReady
  /\ SendAfterReady /\ DoneIsPassed
  /\ WorkerHasSlots /\ SlotsAreCleared
  /\ NoSession /\ SessionOutlivesSend
-----------------------------------------------------------------------------
LEMMA InitInv == Init => IInv
  BY DEF Init, IInv, TypeOK, PollHasState, PastApproach, ReadyIsDead, SeenReady, SendAfterReady,
     DoneIsPassed, WorkerHasSlots, SlotsAreCleared, NoSession, SessionOutlivesSend,
     HkState, Left, Early, Busy

LEMMA TypeStep == TypeOK /\ [Next]_vars => TypeOK'
<1>. SUFFICES ASSUME TypeOK, [Next]_vars
              PROVE  TypeOK'
  OBVIOUS
<1>. USE DEF TypeOK, HkState, Left
<1>1. CASE Driver
  BY <1>1 DEF Driver, Paired, Ready, Received, DriverFails, Event, lvgl
<1>2. CASE SendTask \/ WorkerExits
  BY <1>2 DEF SendTask, SendReturns, SendClears, SendStores, Outcome, WorkerExits, lvgl
<1>3. CASE Poll \/ ReplayPaired \/ SessionUi \/ ReplayReady
  BY <1>3 DEF Poll, ReplayPaired, SessionUi, ReplayReady, Goes
<1>4. CASE ReplayDone \/ ReplayFailed \/ Replayed
  BY <1>4 DEF ReplayDone, ReplayFailed, Replayed, Goes
<1>5. CASE WatchdogFires \/ WatchdogWaits
  BY <1>5 DEF WatchdogFires, WatchdogWaits, Goes
<1>6. CASE Begin \/ BeginFails \/ Approach \/ Back \/ Away
  BY <1>6 DEF Begin, BeginFails, Approach, Back, Away, Goes
<1>7. CASE StopWorker \/ Reboot \/ StaysOn
  BY <1>7 DEF StopWorker, Reboot, StaysOn, Goes
<1>8. CASE EndHotKnot
  <2>1. pc' \in Left
    BY <1>8 DEF EndHotKnot, Goes
  <2>2. driver' \in {driver, "off"}
    BY <1>8 DEF EndHotKnot
  <2>3. active' \in BOOLEAN /\ slots' \in BOOLEAN
    BY <1>8 DEF EndHotKnot
  <2>4. UNCHANGED <<role, seen, loaded, state, touch, send, worker, passed>>
    BY <1>8 DEF EndHotKnot
  <2>. QED BY <2>1, <2>2, <2>3, <2>4
<1>9. CASE UNCHANGED vars
  BY <1>9 DEF vars, lvgl
<1>. QED
  BY <1>1, <1>2, <1>3, <1>4, <1>5, <1>6, <1>7, <1>8, <1>9 DEF Next, Lvgl

\* The driver's events.
LEMMA DriverKeeps ==
  ASSUME IInv, Driver, TypeOK'
  PROVE  IInv'
<1>. USE DEF IInv, TypeOK,
     PollHasState, PastApproach, ReadyIsDead, SeenReady, SendAfterReady,
     DoneIsPassed, WorkerHasSlots, SlotsAreCleared, NoSession, SessionOutlivesSend,
     HkState, Left, Early, Busy
<1>1. CASE Paired
  <2>. USE <1>1 DEF Paired, Event, lvgl
  <2>1. PollHasState' /\ PastApproach' /\ SeenReady'
    OBVIOUS
  <2>2. ReadyIsDead'
    OBVIOUS
  <2>3. SendAfterReady'
    OBVIOUS
  <2>4. DoneIsPassed'
    OBVIOUS
  <2>5. WorkerHasSlots' /\ SlotsAreCleared'
    OBVIOUS
  <2>6. NoSession' /\ SessionOutlivesSend'
    OBVIOUS
  <2>. QED
    BY <2>1, <2>2, <2>3, <2>4, <2>5, <2>6
<1>2. CASE Ready
  BY <1>2 DEF Ready, Event, lvgl
<1>3. CASE Received
  BY <1>3 DEF Received, Event, lvgl
<1>4. CASE DriverFails
  BY <1>4 DEF DriverFails, Event, lvgl
<1>. QED
  BY <1>1, <1>2, <1>3, <1>4 DEF Driver

\* The send task and the worker.
LEMMA SendKeeps ==
  ASSUME IInv, SendTask \/ WorkerExits, TypeOK'
  PROVE  IInv'
<1>. USE DEF IInv, TypeOK,
     PollHasState, PastApproach, ReadyIsDead, SeenReady, SendAfterReady,
     DoneIsPassed, WorkerHasSlots, SlotsAreCleared, NoSession, SessionOutlivesSend,
     HkState, Left, Early, Busy
<1>1. CASE SendReturns
  <2>. USE <1>1 DEF SendReturns, lvgl
  <2>1. PollHasState' /\ PastApproach' /\ SeenReady'
    OBVIOUS
  <2>2. ReadyIsDead'
    OBVIOUS
  <2>3. SendAfterReady'
    OBVIOUS
  <2>4. DoneIsPassed'
    OBVIOUS
  <2>5. WorkerHasSlots' /\ SlotsAreCleared'
    OBVIOUS
  <2>6. NoSession' /\ SessionOutlivesSend'
    OBVIOUS
  <2>. QED
    BY <2>1, <2>2, <2>3, <2>4, <2>5, <2>6
<1>2. CASE SendClears
  BY <1>2 DEF SendClears, lvgl
<1>3. CASE SendStores
  BY <1>3 DEF SendStores, Outcome, lvgl
<1>4. CASE WorkerExits
  BY <1>4 DEF WorkerExits, lvgl
<1>. QED
  BY <1>1, <1>2, <1>3, <1>4 DEF SendTask

\* pollHotKnot.
LEMMA PollKeeps ==
  ASSUME IInv, Poll \/ ReplayPaired \/ SessionUi \/ ReplayReady \/ ReplayDone \/ ReplayFailed
         \/ Replayed \/ WatchdogFires \/ WatchdogWaits, TypeOK'
  PROVE  IInv'
<1>. USE DEF IInv, TypeOK,
     PollHasState, PastApproach, ReadyIsDead, SeenReady, SendAfterReady,
     DoneIsPassed, WorkerHasSlots, SlotsAreCleared, NoSession, SessionOutlivesSend,
     HkState, Left, Early, Busy
<1>1. CASE Poll
  BY <1>1 DEF Poll, Goes
<1>2. CASE ReplayPaired
  BY <1>2 DEF ReplayPaired, Goes
<1>3. CASE SessionUi
  <2>. USE <1>3 DEF SessionUi, Goes, WorkerStopped
  <2>1. PollHasState' /\ PastApproach' /\ SeenReady'
    OBVIOUS
  <2>2. ReadyIsDead'
    OBVIOUS
  <2>3. SendAfterReady'
    OBVIOUS
  <2>4. DoneIsPassed'
    OBVIOUS
  <2>5. WorkerHasSlots' /\ SlotsAreCleared'
    OBVIOUS
  <2>6. NoSession' /\ SessionOutlivesSend'
    OBVIOUS
  <2>. QED
    BY <2>1, <2>2, <2>3, <2>4, <2>5, <2>6
<1>4. CASE ReplayReady
  <2>. USE <1>4 DEF ReplayReady, Goes
  <2>1. PollHasState' /\ PastApproach' /\ SeenReady'
    OBVIOUS
  <2>2. ReadyIsDead'
    OBVIOUS
  <2>3. SendAfterReady'
    OBVIOUS
  <2>4. DoneIsPassed'
    OBVIOUS
  <2>5. WorkerHasSlots' /\ SlotsAreCleared'
    OBVIOUS
  <2>6. NoSession' /\ SessionOutlivesSend'
    OBVIOUS
  <2>. QED
    BY <2>1, <2>2, <2>3, <2>4, <2>5, <2>6
<1>5. CASE ReplayDone
  BY <1>5 DEF ReplayDone, Goes
<1>6. CASE ReplayFailed
  BY <1>6 DEF ReplayFailed, Goes
<1>7. CASE Replayed
  BY <1>7 DEF Replayed, Goes
<1>8. CASE WatchdogFires
  BY <1>8 DEF WatchdogFires, Goes, Watched
<1>9. CASE WatchdogWaits
  BY <1>9 DEF WatchdogWaits, Goes
<1>. QED
  BY <1>1, <1>2, <1>3, <1>4, <1>5, <1>6, <1>7, <1>8, <1>9

\* The screen's beginning and its ends.
LEMMA ScreenKeeps ==
  ASSUME IInv, Begin \/ BeginFails \/ Approach \/ Back \/ Away \/ StopWorker \/ EndHotKnot
         \/ Reboot \/ StaysOn, TypeOK'
  PROVE  IInv'
<1>. USE DEF IInv, TypeOK,
     PollHasState, PastApproach, ReadyIsDead, SeenReady, SendAfterReady,
     DoneIsPassed, WorkerHasSlots, SlotsAreCleared, NoSession, SessionOutlivesSend,
     HkState, Left, Early, Busy
<1>1. CASE Begin
  BY <1>1 DEF Begin, Goes
<1>2. CASE BeginFails
  BY <1>2 DEF BeginFails, Goes
<1>3. CASE Approach
  BY <1>3 DEF Approach, Goes
<1>4. CASE Back
  BY <1>4 DEF Back, Goes
<1>5. CASE StopWorker
  BY <1>5 DEF StopWorker, Goes, WorkerStopped
<1>6. CASE EndHotKnot
  <2>. USE <1>6 DEF EndHotKnot, Goes, Idle
  <2>1. PollHasState' /\ PastApproach' /\ SeenReady'
    OBVIOUS
  <2>2. ReadyIsDead'
    OBVIOUS
  <2>3. SendAfterReady'
    OBVIOUS
  <2>4. DoneIsPassed'
    OBVIOUS
  <2>5. WorkerHasSlots' /\ SlotsAreCleared'
    OBVIOUS
  <2>6. NoSession' /\ SessionOutlivesSend'
    OBVIOUS
  <2>. QED
    BY <2>1, <2>2, <2>3, <2>4, <2>5, <2>6
<1>7. CASE Reboot
  BY <1>7 DEF Reboot, Goes
<1>8. CASE StaysOn
  BY <1>8 DEF StaysOn, Goes
<1>9. CASE Away
  BY <1>9 DEF Away, Goes
<1>. QED
  BY <1>1, <1>2, <1>3, <1>4, <1>5, <1>6, <1>7, <1>8, <1>9

LEMMA StepInv == IInv /\ [Next]_vars => IInv'
<1>. SUFFICES ASSUME IInv, [Next]_vars
              PROVE  IInv'
  OBVIOUS
<1>0. TypeOK'
  BY TypeStep DEF IInv
<1>1. CASE UNCHANGED vars
  BY <1>1 DEF vars, lvgl, IInv, TypeOK,
     PollHasState, PastApproach, ReadyIsDead, SeenReady, SendAfterReady,
     DoneIsPassed, WorkerHasSlots, SlotsAreCleared, NoSession, SessionOutlivesSend,
     HkState, Left, Early, Busy
<1>. QED BY <1>0, <1>1, DriverKeeps, SendKeeps, PollKeeps, ScreenKeeps DEF Next, Lvgl

\* The news of the driver, the state, the screen and the send task follow each other in
\* order: IInv is inductive.
THEOREM HotKnotInvariant == Spec => []IInv
  BY InitInv, StepInv, PTL DEF Spec

\* The result a send task stores, like every event of the driver, is a state of the
\* screen, and the screen and its tasks stay within theirs.
THEOREM HotKnotTypeCorrect == Spec => []TypeOK
<1>1. IInv => TypeOK
  BY DEF IInv
<1>. QED BY <1>1, HotKnotInvariant, PTL

\* Every way that clears the worker's slots has waited for the worker (stopWorker).
THEOREM WorkerKeepsSlots == Spec => []WorkerHasSlots
<1>1. IInv => WorkerHasSlots
  BY DEF IInv
<1>. QED BY <1>1, HotKnotInvariant, PTL

\* endHotKnot waits for the send task before it ends the driver's session, on every
\* way off the screen; where Back or the transfer is that way the task is quite gone.
THEOREM SendEndsFirst == Spec => []SessionOutlivesSend
<1>1. IInv => SessionOutlivesSend
  BY DEF IInv
<1>. QED BY <1>1, HotKnotInvariant, PTL

\* However many events a poll has missed, and whichever task stored them, the screen
\* goes on to the transfer only with a descriptor that was passed.
THEOREM TransferIsAgreed == Spec => []TransferHasDescriptor
<1>1. IInv => TransferHasDescriptor
  BY DEF IInv, DoneIsPassed, SlotsAreCleared, TransferHasDescriptor, Early
<1>. QED BY <1>1, HotKnotInvariant, PTL
=============================================================================
