------------------------------- MODULE HotKnot -------------------------------
(***************************************************************************)
(* The screen on which two devices pair by HotKnot and pass the descriptor *)
(* of a dokan session from MASTER to SLAVE (app/screens/HotKnotScreen.cpp, *)
(* ShareScreen.cpp, ReceiveScreen.cpp), as one device sees it.             *)
(*                                                                         *)
(* Four tasks meet in it: the LVGL thread polls hk_state_ and replays what *)
(* it missed; the driver's dispatch task stores an event there; a send     *)
(* task stores the outcome of its send; a worker decodes images into the   *)
(* slots of the screen.  From PAIRED on the touch panel is dead            *)
(* (docs/gotchas.md:166-169): the ways off the screen are then its own,    *)
(* the device's button and the sleep after minutes without a touch.        *)
(***************************************************************************)
EXTENDS Naturals

CONSTANTS
  UsbPower,   \* a power-cycle may return, because USB keeps the device on
  EarlyPaired \* PAIRED may come before startHotKnot stores Approaching

ASSUME HotKnotAssumption == UsbPower \in BOOLEAN /\ EarlyPaired \in BOOLEAN

VARIABLES
  role,    \* MASTER sends the descriptor, SLAVE receives it
  pc,      \* where the LVGL thread is in the screen's code
  seen,    \* hk_seen_: the last state that was acted on
  loaded,  \* the value of hk_state_ this poll has loaded
  state,   \* hk_state_
  active,  \* hk_active_
  driver,  \* state of the driver's session
  touch,   \* the touch panel works
  send,    \* the send task and its result
  worker,  \* the decoding worker
  slots,   \* slots_ holds what the worker decodes into
  passed   \* the descriptor has been sent, or received

lvgl == <<pc, seen, loaded, active>>
vars == <<role, lvgl, state, driver, touch, send, worker, slots, passed>>

HkState == {"Idle", "Approaching", "Paired", "Ready", "Done", "Failed"}
\* hk_send_busy_
Busy == send \in {"sending", "sent", "unsent"}

\* The ends of a screen; "gone" is a power cycle, the others destroy it.
Left == {"gone", "popped", "transfer", "destroyed"}

TypeOK ==
  /\ role \in {"MASTER", "SLAVE"}
  /\ pc \in {"build", "begun", "idle", "replay", "pairing", "watch", "backing",
             "popping", "leaving", "failing", "killed", "ending"} \cup Left
  /\ seen \in HkState /\ loaded \in HkState /\ state \in HkState
  /\ active \in BOOLEAN /\ touch \in BOOLEAN /\ slots \in BOOLEAN
  /\ driver \in {"off", "approach", "paired", "ready", "over"}
  /\ send \in {"none", "sending", "sent", "unsent", "late_done", "late_failed"}
  /\ worker \in {"none", "running", "exited"}
  /\ passed \in BOOLEAN

Init ==
  /\ role \in {"MASTER", "SLAVE"}
  /\ pc = "build" /\ seen = "Idle" /\ loaded = "Idle" /\ state = "Idle"
  /\ active = FALSE /\ driver = "off" /\ touch = TRUE
  /\ send = "none" /\ worker \in {"none", "running"} /\ slots = TRUE
  /\ passed = FALSE

Goes(from, to) == pc = from /\ pc' = to

-----------------------------------------------------------------------------
(***************************************************************************)
(* startHotKnot and the driver's events.                                   *)
(***************************************************************************)
Begin ==
  /\ Goes("build", "begun")
  /\ driver' = "approach"
  /\ UNCHANGED <<role, seen, loaded, state, active, touch, send, worker, slots, passed>>

\* Without HotKnot the screen is there, and nothing happens on it.
BeginFails ==
  /\ Goes("build", "idle")
  /\ UNCHANGED <<role, seen, loaded, state, active, driver, touch, send, worker, slots, passed>>

Approach ==
  /\ Goes("begun", "idle")
  /\ seen' = "Approaching" /\ state' = "Approaching" /\ active' = TRUE
  /\ UNCHANGED <<role, loaded, driver, touch, send, worker, slots, passed>>

Event(from, to, s) ==
  /\ driver = from /\ driver' = to
  /\ state' = s
  /\ UNCHANGED <<role, lvgl, send, worker, slots>>

\* The firmware for the exchange is loaded after this; what follows takes long.
Paired ==
  /\ pc = "begun" => EarlyPaired
  /\ Event("approach", "paired", "Paired")
  /\ touch' = FALSE
  /\ UNCHANGED passed

Ready ==
  /\ pc # "begun"
  /\ Event("paired", "ready", "Ready")
  /\ UNCHANGED <<touch, passed>>

Received ==
  /\ role = "SLAVE"
  /\ Event("ready", "over", "Done")
  /\ passed' = TRUE
  /\ UNCHANGED touch

DriverFails ==
  /\ pc # "begun"
  /\ \E from \in {"approach", "paired", "ready"} : Event(from, "over", "Failed")
  /\ UNCHANGED <<touch, passed>>

-----------------------------------------------------------------------------
(***************************************************************************)
(* The send task: the busy flag is cleared before the outcome is stored.   *)
(***************************************************************************)
SendReturns ==
  /\ send = "sending"
  /\ \/ send' = "sent" /\ driver = "ready" /\ passed' = TRUE
     \/ send' = "unsent" /\ UNCHANGED passed
  /\ UNCHANGED <<role, lvgl, state, driver, touch, worker, slots>>

SendClears ==
  /\ \/ send = "sent" /\ send' = "late_done"
     \/ send = "unsent" /\ send' = "late_failed"
  /\ UNCHANGED <<role, lvgl, state, driver, touch, worker, slots, passed>>

\* Mutants of Outcome: a send that failed counts; the error code itself is stored.
AlwaysDone(result) == "Done"
RawResult(result) == result

Outcome(result) == IF result = "late_done" THEN "Done" ELSE "Failed"

SendStores ==
  /\ send \in {"late_done", "late_failed"} /\ send' = "none"
  /\ state' = Outcome(send)
  /\ UNCHANGED <<role, lvgl, driver, touch, worker, slots, passed>>

WorkerExits ==
  /\ worker = "running" /\ worker' = "exited"
  /\ UNCHANGED <<role, lvgl, state, driver, touch, send, slots, passed>>

-----------------------------------------------------------------------------
(***************************************************************************)
(* pollHotKnot, every 100 ms.                                              *)
(***************************************************************************)
Poll ==
  /\ active /\ Goes("idle", "replay")
  /\ loaded' = state
  /\ UNCHANGED <<role, seen, state, active, driver, touch, send, worker, slots, passed>>

\* onHotKnotPaired begins: the worker is told to stop ...
ReplayPaired ==
  /\ seen \in {"Idle", "Approaching"} /\ loaded # seen
  /\ Goes("replay", "pairing")
  /\ seen' = "Paired"
  /\ UNCHANGED <<role, loaded, state, active, driver, touch, send, worker, slots, passed>>

\* Mutant of WorkerStopped: nobody waits for the worker.
NotWaited == TRUE

WorkerStopped == worker # "running"

\* ... waited for, and its slots are cleared with the rest of the screen.
SessionUi ==
  /\ Goes("pairing", "replay")
  /\ WorkerStopped
  /\ slots' = FALSE
  /\ UNCHANGED <<role, seen, loaded, state, active, driver, touch, send, worker, passed>>

\* The MASTER makes a descriptor and starts to send it; either may fail at once.
ReplayReady ==
  /\ seen = "Paired" /\ loaded \notin {seen, "Failed"}
  /\ Goes("replay", "replay")
  /\ seen' = "Ready"
  /\ \/ role = "SLAVE" /\ UNCHANGED <<send, state>>
     \/ role = "MASTER" /\ send' = "sending" /\ UNCHANGED state
     \/ role = "MASTER" /\ state' = "Failed" /\ UNCHANGED send
  /\ UNCHANGED <<role, loaded, active, driver, touch, worker, slots, passed>>

\* A SLAVE that received something else than a descriptor gives up.
ReplayDone ==
  /\ seen = "Ready" /\ loaded \notin {seen, "Failed"}
  /\ seen' = "Done"
  /\ \/ Goes("replay", "leaving")
     \/ Goes("replay", "failing") /\ role = "SLAVE"
  /\ UNCHANGED <<role, loaded, state, active, driver, touch, send, worker, slots, passed>>

ReplayFailed ==
  /\ seen \in {"Paired", "Ready"} /\ loaded = "Failed"
  /\ Goes("replay", "failing")
  /\ seen' = "Failed"
  /\ UNCHANGED <<role, loaded, state, active, driver, touch, send, worker, slots, passed>>

Replayed ==
  /\ seen = loaded
  /\ Goes("replay", "watch")
  /\ UNCHANGED <<role, seen, loaded, state, active, driver, touch, send, worker, slots, passed>>

\* Mutant of Watched: the watchdog is left to the MASTER, which has its own.
MasterWatched == seen = "Ready" /\ role = "MASTER"

Watched == seen = "Ready" /\ role = "SLAVE"

\* kSlaveReceiveTimeoutMs after Ready, whatever hk_state_ has become since.
WatchdogFires ==
  /\ Goes("watch", "idle") /\ Watched
  /\ state' = "Failed"
  /\ UNCHANGED <<role, seen, loaded, active, driver, touch, send, worker, slots, passed>>

WatchdogWaits ==
  /\ Goes("watch", "idle")
  /\ UNCHANGED <<role, seen, loaded, state, active, driver, touch, send, worker, slots, passed>>

-----------------------------------------------------------------------------
(***************************************************************************)
(* The ways off the screen.                                                *)
(***************************************************************************)

\* The back button, while the panel works: stopWorker, then endHotKnot.
Back ==
  /\ touch /\ Goes("idle", "backing")
  /\ UNCHANGED <<role, seen, loaded, state, active, driver, touch, send, worker, slots, passed>>

\* The device's button (power::wake) loads Home, the sleep (go_to_sleep) the sleep
\* screen or the card: both destroy this screen, whatever goes on in it.
Away ==
  /\ Goes("idle", "killed")
  /\ UNCHANGED <<role, seen, loaded, state, active, driver, touch, send, worker, slots, passed>>

StopWorker ==
  /\ Goes("backing", "popping") \/ Goes("killed", "ending")
  /\ WorkerStopped
  /\ UNCHANGED <<role, seen, loaded, state, active, driver, touch, send, worker, slots, passed>>

\* Mutant of Idle: the driver's session is ended under a send.
NeverBusy == TRUE

Idle == ~Busy

\* endHotKnot: without a session it does nothing, else it waits for the send.
EndHotKnot ==
  /\ \/ Goes("popping", "popped") \/ Goes("leaving", "transfer")
     \/ Goes("ending", "destroyed")
  /\ active => Idle
  /\ driver' = IF active THEN "off" ELSE driver
  /\ active' = FALSE
  /\ slots' = FALSE
  /\ UNCHANGED <<role, seen, loaded, state, touch, send, worker, passed>>

\* failAndReboot; on USB the destructor of the screen runs instead.
Reboot ==
  /\ Goes("failing", "gone")
  /\ driver' = "off" /\ send' = "none" /\ worker' = "none"
  /\ UNCHANGED <<role, seen, loaded, state, active, touch, slots, passed>>

StaysOn ==
  /\ UsbPower /\ Goes("failing", "killed")
  /\ UNCHANGED <<role, seen, loaded, state, active, driver, touch, send, worker, slots, passed>>

Driver == Paired \/ Ready \/ Received \/ DriverFails
SendTask == SendReturns \/ SendClears \/ SendStores
Lvgl ==
  \/ Begin \/ BeginFails \/ Approach
  \/ Poll \/ ReplayPaired \/ SessionUi \/ ReplayReady \/ ReplayDone \/ ReplayFailed
  \/ Replayed \/ WatchdogFires \/ WatchdogWaits
  \/ StopWorker \/ EndHotKnot \/ Reboot \/ StaysOn

Next == Driver \/ SendTask \/ WorkerExits \/ Lvgl \/ Back \/ Away

(***************************************************************************)
(* The tasks run; a send and a decode end; after PAIRED the driver gets    *)
(* ready or reports an error; the ten seconds of the watchdog pass.        *)
(***************************************************************************)
Fairness ==
  /\ WF_vars(Lvgl) /\ WF_vars(SendTask) /\ WF_vars(WorkerExits)
  /\ WF_vars(driver = "paired" /\ (Ready \/ DriverFails))
  /\ SF_vars(WatchdogFires)

Spec == Init /\ [][Next]_vars
FairSpec == Spec /\ Fairness

-----------------------------------------------------------------------------
(***************************************************************************)
(* Properties.                                                             *)
(***************************************************************************)

\* The worker never decodes into slots that were cleared or went with the screen.
WorkerHasSlots == worker = "running" => slots

\* The driver's session is never ended while the send task is in it, and always with
\* the screen, whichever way that ends, by the button, the sleep or a failure too; the
\* screen's own ways out leave no send task behind.  (Where the destructor ended the
\* screen the task may still have its last store to make, into memory that is gone.)
SessionOutlivesSend ==
  /\ Busy => driver # "off"
  /\ pc \in Left => driver = "off"
  /\ pc \in {"popped", "transfer", "gone"} => send = "none"

\* A device goes on to the transfer only when the descriptor has been passed, its
\* screen having been through every state up to there, however many a poll missed.
TransferHasDescriptor ==
  pc \in {"leaving", "transfer"} => passed /\ seen = "Done" /\ ~slots

\* Once the panel is dead the screen always comes to its end.  (A Back that was
\* tapped just before PAIRED may be that end, and leaves a dead panel behind.)
DeadPanelEnds == []<>(touch \/ pc \in Left)
=============================================================================
