--------------------------- MODULE DokanLifecycle ---------------------------
(***************************************************************************)
(* The life of one dokan session: dokan_open, the I/O task of its          *)
(* transport, and dokan_close from the application's thread or from a      *)
(* callback (dokan_runtime.c, dokan_sim.c, dokan_wifi.c, dokan_session.c). *)
(*                                                                         *)
(* What the engine does with bytes is module DokanSession; here a frame    *)
(* is an event whose callback may close.  An event callback runs under the *)
(* session lock on the I/O task, so a close by the other thread waits for  *)
(* it; everything the two share outside the lock is a step of its own.     *)
(***************************************************************************)
EXTENDS Naturals

CONSTANTS
  Transports,  \* the transports to look at
  EarlyClose   \* a callback may close before dokan_open has returned

ASSUME LifecycleAssumption ==
  Transports \subseteq {"sim", "wifi"} /\ EarlyClose \in BOOLEAN

VARIABLES
  conf,  \* transport and role of the session
  app,   \* where the application's thread is in dokan_open and dokan_close
  task,  \* where the I/O task is
  cb,    \* the event whose callback is running
  ses,   \* flags of the session, under its lock
  tr,    \* state of the transport, without a lock
  peer,  \* what the socket has for us
  freed  \* calls of dokan_session_destroy

vars == <<conf, app, task, cb, ses, tr, peer, freed>>

Opening == {"idle", "starting", "started"}
Closing == {"stopping", "waking", "joining", "freeing"}
Events == {"CONNECTED", "DATA", "ERROR"}

TypeOK ==
  /\ conf \in [kind : Transports, role : {"HOST", "CLIENT"}]
  /\ app \in Opening \cup {"open"} \cup Closing \cup {"closed", "failed"}
  /\ task \in {"none", "bind", "link", "rendezvous", "lost", "report", "connected",
               "select", "woken", "serve", "poll", "ending", "destroy", "ended"}
  /\ cb \in Events \cup {"none"}
  /\ ses \in [closing : BOOLEAN, error : BOOLEAN, deferred : BOOLEAN]
  /\ tr \in [stop : BOOLEAN, wake : BOOLEAN, met : BOOLEAN, gone : BOOLEAN,
             deferred : BOOLEAN, done : BOOLEAN]
  /\ peer \in {"quiet", "bytes", "fin"}
  /\ freed \in 0 .. 1

Init ==
  /\ conf \in [kind : Transports, role : {"HOST", "CLIENT"}]
  /\ app = "idle" /\ task = "none" /\ cb = "none"
  /\ ses = [closing |-> FALSE, error |-> FALSE, deferred |-> FALSE]
  /\ tr = [stop |-> FALSE, wake |-> FALSE, met |-> FALSE, gone |-> FALSE,
           deferred |-> FALSE, done |-> FALSE]
  /\ peer = "quiet"
  /\ freed = 0

Sim == conf.kind = "sim"

-----------------------------------------------------------------------------
(***************************************************************************)
(* The application's thread.                                               *)
(***************************************************************************)
AppGoes(from, to) == app = from /\ app' = to

Open ==
  /\ AppGoes("idle", "starting")
  /\ UNCHANGED <<conf, task, cb, ses, tr, peer, freed>>

\* No socket, no radio or no task: dokan_open destroys what it made.
StartFails ==
  /\ AppGoes("starting", "failed")
  /\ freed' = freed + 1
  /\ UNCHANGED <<conf, task, cb, ses, tr, peer>>

\* The task runs from here on, before start() has noted it and *out is set.
Spawn ==
  /\ AppGoes("starting", "started")
  /\ task' = "bind"
  /\ UNCHANGED <<conf, cb, ses, tr, peer, freed>>

Opened ==
  /\ AppGoes("started", "open")
  /\ UNCHANGED <<conf, task, cb, ses, tr, peer, freed>>

\* dokan_close on the application's thread.  An application closes once.
Close ==
  /\ AppGoes("open", "stopping")
  /\ cb = "none" /\ ~ses.closing
  /\ ses' = [ses EXCEPT !.closing = TRUE]
  /\ UNCHANGED <<conf, task, cb, tr, peer, freed>>

\* stop() of the transport ...
Stop ==
  /\ AppGoes("stopping", "waking")
  /\ tr' = [tr EXCEPT !.stop = TRUE]
  /\ UNCHANGED <<conf, task, cb, ses, peer, freed>>

\* Mutant of Wakes: the flag alone is to end the task.
NeverWakes == FALSE

\* A byte into the pipe, while it is open; or BIT_STOP.
Wakes == Sim => task \notin {"destroy", "ended"}

Wake ==
  /\ AppGoes("waking", "joining")
  /\ tr' = [tr EXCEPT !.wake = @ \/ Wakes]
  /\ UNCHANGED <<conf, task, cb, ses, peer, freed>>

\* Mutant of Joined: stop() does not wait.
NotJoined == TRUE

\* pthread_join, or the semaphore the task gives at its end
Joined == IF Sim THEN task = "ended" ELSE tr.done

Join ==
  /\ AppGoes("joining", "freeing")
  /\ Joined
  /\ UNCHANGED <<conf, task, cb, ses, tr, peer, freed>>

Free ==
  /\ AppGoes("freeing", "closed")
  /\ freed' = freed + 1
  /\ UNCHANGED <<conf, task, cb, ses, tr, peer>>

-----------------------------------------------------------------------------
(***************************************************************************)
(* The I/O task, up to the connection.                                     *)
(***************************************************************************)
TaskGoes(from, to) == cb = "none" /\ task = from /\ task' = to

\* bind_task; over WiFi the task then waits for its radio link.
Bind ==
  /\ TaskGoes("bind", IF Sim THEN "rendezvous" ELSE "link")
  /\ UNCHANGED <<conf, app, cb, ses, tr, peer, freed>>

LinkUp ==
  /\ TaskGoes("link", "rendezvous")
  /\ UNCHANGED <<conf, app, cb, ses, tr, peer, freed>>

Meet ==
  /\ TaskGoes("rendezvous", "connected")
  /\ tr' = [tr EXCEPT !.met = TRUE]
  /\ UNCHANGED <<conf, app, cb, ses, peer, freed>>

\* A HOST that has its access point up waits for its client without a limit.
GiveUp ==
  /\ \/ TaskGoes("link", "lost")
     \/ TaskGoes("rendezvous", "lost") /\ (Sim \/ conf.role = "CLIENT")
  /\ UNCHANGED <<conf, app, cb, ses, tr, peer, freed>>

\* A link wait ends by its bit, the accept of the simulator by its pipe, the
\* other waits look at the flag now and then.
StopSeen ==
  /\ \/ TaskGoes("link", "lost") /\ tr.wake
     \/ TaskGoes("rendezvous", "lost") /\ tr.stop
          /\ (Sim /\ conf.role = "HOST" => tr.wake)
  /\ tr' = [tr EXCEPT !.wake = @ /\ ~Sim]
  /\ UNCHANGED <<conf, app, cb, ses, peer, freed>>

\* "if (!s->stop_requested) h->on_error(...)"
Lost ==
  /\ TaskGoes("lost", IF tr.stop THEN "ending" ELSE "report")
  /\ UNCHANGED <<conf, app, cb, ses, tr, peer, freed>>

\* Mutant of Listens: a session that is being closed still reports events.
AlwaysListens == TRUE

\* The guard of the host_on_ functions, under the lock
Listens == ~ses.closing

\* protocol_error
Fail ==
  IF Listens /\ ~ses.error
  THEN ses' = [ses EXCEPT !.error = TRUE] /\ cb' = "ERROR"
  ELSE UNCHANGED <<ses, cb>>

Report ==
  /\ TaskGoes("report", "ending")
  /\ Fail
  /\ UNCHANGED <<conf, app, tr, peer, freed>>

OnConnected ==
  /\ TaskGoes("connected", "select")
  /\ cb' = IF Listens /\ ~ses.error THEN "CONNECTED" ELSE "none"
  /\ UNCHANGED <<conf, app, ses, tr, peer, freed>>

-----------------------------------------------------------------------------
(***************************************************************************)
(* Its loop, and its end.                                                  *)
(***************************************************************************)
Readable == ~tr.gone /\ peer # "quiet"

\* The simulator sleeps until there is something; WiFi looks every 20 ms.
Select ==
  /\ TaskGoes("select", "woken")
  /\ Sim => tr.wake \/ Readable
  /\ tr' = [tr EXCEPT !.wake = @ /\ ~Sim]
  /\ UNCHANGED <<conf, app, cb, ses, peer, freed>>

CheckStop ==
  /\ TaskGoes("woken", IF tr.stop THEN "ending" ELSE "serve")
  /\ UNCHANGED <<conf, app, cb, ses, tr, peer, freed>>

ServeBytes ==
  /\ TaskGoes("serve", "poll")
  /\ Readable /\ peer = "bytes"
  /\ peer' = "quiet"
  /\ \/ /\ cb' = IF Listens /\ ~ses.error THEN "DATA" ELSE "none"
        /\ UNCHANGED ses
     \/ Fail
  /\ UNCHANGED <<conf, app, tr, freed>>

ServeFin ==
  /\ TaskGoes("serve", "poll")
  /\ Readable /\ peer = "fin"
  /\ Fail
  /\ tr' = [tr EXCEPT !.gone = TRUE]
  /\ UNCHANGED <<conf, app, peer, freed>>

ServeNothing ==
  /\ TaskGoes("serve", "poll")
  /\ ~Readable
  /\ UNCHANGED <<conf, app, cb, ses, tr, peer, freed>>

\* Mutant of CloseWanted: only a session without an error is asked.
HealthyCloseWanted == ses.deferred /\ ~ses.error

\* poll_close
CloseWanted == ses.deferred

PollClose ==
  /\ TaskGoes("poll", IF CloseWanted THEN "ending" ELSE "select")
  /\ tr' = [tr EXCEPT !.deferred = CloseWanted]
  /\ UNCHANGED <<conf, app, cb, ses, peer, freed>>

\* Mutant of TearsDown: the task destroys the session whoever ended it.
AlwaysTearsDown == TRUE

TearsDown == tr.deferred

\* The sockets are closed; a waiting stop() is let go unless there is none.
End ==
  /\ TaskGoes("ending", IF TearsDown THEN "destroy" ELSE "ended")
  /\ tr' = [tr EXCEPT !.done = ~Sim /\ ~TearsDown]
  /\ UNCHANGED <<conf, app, cb, ses, peer, freed>>

\* on_closed
Destroy ==
  /\ TaskGoes("destroy", "ended")
  /\ freed' = freed + 1
  /\ UNCHANGED <<conf, app, cb, ses, tr, peer>>

\* The callback returns; it may have closed the session, for later.
Return(closes) ==
  /\ cb # "none" /\ cb' = "none"
  /\ closes => EarlyClose \/ app \notin Opening
  /\ ses' = [ses EXCEPT !.closing = @ \/ closes, !.deferred = @ \/ closes]
  /\ UNCHANGED <<conf, app, task, tr, peer, freed>>

-----------------------------------------------------------------------------
\* The other end of the connection.
PeerSends ==
  /\ tr.met /\ peer = "quiet" /\ ~tr.gone
  /\ peer' = "bytes"
  /\ UNCHANGED <<conf, app, task, cb, ses, tr, freed>>

PeerEnds ==
  /\ tr.met /\ peer = "quiet" /\ ~tr.gone
  /\ peer' = "fin"
  /\ UNCHANGED <<conf, app, task, cb, ses, tr, freed>>

Opens == Open \/ StartFails \/ Spawn \/ Opened
Closes == Stop \/ Wake \/ Join \/ Free
TaskStep ==
  \/ Bind \/ LinkUp \/ GiveUp \/ StopSeen \/ Lost \/ Report \/ OnConnected
  \/ Select \/ CheckStop \/ ServeBytes \/ ServeFin \/ ServeNothing \/ PollClose
  \/ End \/ Destroy
Callback == \E closes \in BOOLEAN : Return(closes)

Peer == Meet \/ PeerSends \/ PeerEnds

Next == Opens \/ Close \/ Closes \/ TaskStep \/ Callback \/ Peer

(***************************************************************************)
(* Both threads run, callbacks return, limited waits end, and a peer that  *)
(* is told GOAWAY closes its end.  Nobody has to come to a rendezvous.     *)
(***************************************************************************)
Fairness ==
  /\ WF_vars(Closes) /\ WF_vars(TaskStep) /\ WF_vars(Callback)
  /\ WF_vars(ses.closing /\ ~ses.error /\ PeerEnds)

Spec == Init /\ [][Next]_vars
FairSpec == Spec /\ Fairness

-----------------------------------------------------------------------------
(***************************************************************************)
(* Properties.                                                             *)
(***************************************************************************)

\* Once the session is destroyed, by either thread, neither is in a place where
\* it goes on to use it, and no callback is running.
NoUseAfterFree ==
  freed > 0 =>
    /\ task \in {"none", "ended"} /\ cb = "none"
    /\ app \in {"open", "closed", "failed"}

\* A close, from either side, is the end of the callbacks: what the application
\* frees next is not touched (docs/dokan.md:327-328).
QuietAfterClose == ses.closing => cb = "none"

\* A close on the application's thread returns, whatever the I/O task waits for.
CloseReturns == app = "stopping" ~> app = "closed"

\* A session that was connected and that a callback has closed is torn down.
DeferredCloseEnds == ses.deferred /\ tr.met ~> freed = 1
=============================================================================
