------------------------------ MODULE Transfer ------------------------------
(***************************************************************************)
(* Two devices exchange cards (app/screens/TransferScreen.cpp).            *)
(*                                                                         *)
(* On each device the I/O task of its dokan session runs the event         *)
(* handlers, and the LVGL thread runs poll() every 100 ms, finalizes what  *)
(* was received and closes the session.  The two meet in atomics only, so  *)
(* a poll is split wherever it reads an atomic after a decision on another *)
(* one.  A device may lose power between any two writes to its card or NVS.*)
(*                                                                         *)
(* Streams are pipes (module DokanPipe), several in one connection whose   *)
(* frames arrive in order: HELLO and ACK are one frame each, a card is     *)
(* CARD, DATA per piece, EOF, and WINDOW returns the credit of one piece.  *)
(***************************************************************************)
EXTENDS Integers, Sequences

CONSTANTS
  Chunks,  \* pieces of kChunk bytes in a card
  Window,  \* pieces a stream may have under way (stream_window)
  Faults   \* Faults[d]: what may go wrong at d, see FaultNames

FaultNames == {"timeout",  \* a connection attempt
               "early",    \* CONNECTED is reported before dokan_open has returned
               "cut",      \* the connection breaks, at the side of d
               "power",    \* the device loses power
               "button",   \* its button is pressed
               "share",    \* the stream that makes the card for the peer fails to open
               "read",     \* ... or cannot be read to its end
               "open",     \* the receiver's temporary file cannot be opened
               "write",    \* ... or not be written
               "rename",   \* ... or not be renamed
               "nvs"}      \* a write or an erase in the NVS

Device == {"HOST", "CLIENT"}
Peer(d) == IF d = "HOST" THEN "CLIENT" ELSE "HOST"

ASSUME TransferAssumption ==
  /\ Chunks \in Nat \ {0} /\ Window \in Nat \ {0}
  /\ Faults \in [Device -> SUBSET FaultNames]

VARIABLES
  start,    \* TransferStart: what the device offers and accepts
  session,  \* life of the device's dokan session
  opened,   \* dokan_open has returned: session_ is set and the timer runs
  link,     \* the connection between the two
  wire,     \* wire[d]: frames of d that its peer has not handled, in order
  io,       \* state of the I/O task
  pub,      \* the atomics
  ui,       \* state of the LVGL thread
  disk,     \* the temporary file and the received card
  nvs       \* bootmsg and the rcvpath record

netVars == <<session, link, wire>>
vars == <<start, session, opened, link, wire, io, pub, ui, disk, nvs>>

Frames == {"HELLO", "CARD", "DATA", "EOF", "WINDOW", "ACK", "GOAWAY"}

\* win: send_window of the card's stream; sent, got: pieces written and handed
\* over; file: recv_file_ is open; bad: the share stream had an error.
IoState == [win : 0 .. Window, sent : 0 .. Chunks, got : 0 .. Chunks,
            file : BOOLEAN, acked : BOOLEAN, bad : BOOLEAN]

Atomics == [connected : BOOLEAN, hello_ready : BOOLEAN,
            will_send : BOOLEAN, will_recv : BOOLEAN,
            send_done : BOOLEAN, inbound_complete : BOOLEAN,
            got_peer_ack : BOOLEAN, peer_left : BOOLEAN, failed : BOOLEAN]

\* The points of poll() and terminate() at which something else can happen; a device
\* is "off" the exchange when it has ended, by its outcome, the power or the button.
Polling == {"build", "poll", "handshake", "record", "judge"}
Ending == {"close", "take", "message", "off", "booted"}
UiState == [pc : Polling \cup Ending, finalized : BOOLEAN, recv_ok : BOOLEAN,
            marked : BOOLEAN, ok : BOOLEAN]

\* What a file holds: nothing, a part or all of the peer's card, or a torn copy.
Content == {"none", "part", "whole", "torn"}

TypeOK ==
  /\ start \in [Device -> [offer : BOOLEAN, accept : BOOLEAN]]
  /\ session \in [Device -> {"none", "wait", "up", "error", "closed", "dead"}]
  /\ opened \in [Device -> BOOLEAN]
  /\ link \in {"none", "up", "cut"}
  /\ wire \in [Device -> Seq(Frames)]
  /\ io \in [Device -> IoState]
  /\ pub \in [Device -> Atomics]
  /\ ui \in [Device -> UiState]
  /\ disk \in [Device -> [temp : Content, card : Content]]
  /\ nvs \in [Device -> [msg : {"none", "complete", "failed"}, record : BOOLEAN]]

\* ShareScreen, the HOST, offers a card and lets the user choose to accept one
\* in return; ReceiveScreen accepts and lets the user choose to offer.
Init ==
  /\ start \in {s \in [Device -> [offer : BOOLEAN, accept : BOOLEAN]] :
                  s["HOST"].offer /\ s["CLIENT"].accept}
  /\ session = [d \in Device |-> "none"]
  /\ opened = [d \in Device |-> FALSE]
  /\ link = "none"
  /\ wire = [d \in Device |-> <<>>]
  /\ io = [d \in Device |-> [win |-> Window, sent |-> 0, got |-> 0,
                             file |-> FALSE, acked |-> FALSE, bad |-> FALSE]]
  /\ pub = [d \in Device |->
       [connected |-> FALSE, hello_ready |-> FALSE, will_send |-> FALSE,
        will_recv |-> FALSE, send_done |-> FALSE, inbound_complete |-> FALSE,
        got_peer_ack |-> FALSE, peer_left |-> FALSE, failed |-> FALSE]]
  /\ ui = [d \in Device |-> [pc |-> "build", finalized |-> FALSE, recv_ok |-> TRUE,
                             marked |-> FALSE, ok |-> FALSE]]
  /\ disk = [d \in Device |-> [temp |-> "none", card |-> "none"]]
  /\ nvs = [d \in Device |-> [msg |-> "none", record |-> FALSE]]

-----------------------------------------------------------------------------
(***************************************************************************)
(* The connection.                                                         *)
(***************************************************************************)
Reached(d) == link = "up" /\ session[Peer(d)] \notin {"closed", "dead"}

\* What of the frames fs sent by d now can still arrive.
Out(d, fs) == IF Reached(d) THEN fs ELSE <<>>

Send(d, fs) == wire' = [wire EXCEPT ![d] = @ \o Out(d, fs)]
Answer(d, fs) ==
  wire' = [wire EXCEPT ![Peer(d)] = Tail(@), ![d] = @ \o Out(d, fs)]

\* What a connection that ends may still carry of a queue: any part of it.
Prefixes(q) == {SubSeq(q, 1, n) : n \in 0 .. Len(q)}

\* dokan_open starts the I/O task ...
Open(d) ==
  /\ session[d] = "none" /\ ui[d].pc = "build"
  /\ session' = [session EXCEPT ![d] = "wait"]
  /\ UNCHANGED <<start, opened, link, wire, io, pub, ui, disk, nvs>>

\* ... and returns the session; build() then starts the timer.
Opened(d) ==
  /\ session[d] # "none" /\ ui[d].pc = "build"
  /\ opened' = [opened EXCEPT ![d] = TRUE]
  /\ ui' = [ui EXCEPT ![d].pc = "poll"]
  /\ UNCHANGED <<start, netVars, io, pub, disk, nvs>>

\* The rendezvous of two devices that wait for each other.
Link ==
  /\ link = "none" /\ \A d \in Device : session[d] = "wait"
  /\ link' = "up"
  /\ UNCHANGED <<start, session, opened, wire, io, pub, ui, disk, nvs>>

\* Only the CLIENT gives up: the HOST has no limit once its access point is up.
ConnectTimeout(d) ==
  /\ "timeout" \in Faults[d] /\ d = "CLIENT"
  /\ session[d] = "wait" /\ link = "none"
  /\ session' = [session EXCEPT ![d] = "error"]
  /\ pub' = [pub EXCEPT ![d].failed = TRUE]
  /\ UNCHANGED <<start, opened, link, wire, io, ui, disk, nvs>>

Cut(d) ==
  /\ "cut" \in Faults[d] /\ link = "up"
  /\ link' = "cut"
  /\ \E h \in Prefixes(wire["HOST"]), c \in Prefixes(wire["CLIENT"]) :
       wire' = [e \in Device |-> IF e = "HOST" THEN h ELSE c]
  /\ UNCHANGED <<start, session, opened, io, pub, ui, disk, nvs>>

\* A peer that lost power does not end the connection: it falls silent, which a
\* device finds out late (when it has something to send) or never.
Silent(d) == link = "up" /\ session[Peer(d)] = "dead"

\* The end of the connection is an error event once everything before it is read.
NoticeLoss(d) ==
  /\ session[d] = "up" /\ ~Reached(d) /\ wire[Peer(d)] = <<>>
  /\ session' = [session EXCEPT ![d] = "error"]
  /\ pub' = [pub EXCEPT ![d].failed = TRUE]
  /\ UNCHANGED <<start, opened, link, wire, io, ui, disk, nvs>>

-----------------------------------------------------------------------------
(***************************************************************************)
(* The event handlers, on the I/O task.                                    *)
(***************************************************************************)

\* onConnected and sendHello; with session_ not set yet there is no stream to open.
OnConnected(d) ==
  /\ session[d] = "wait" /\ link # "none"
  /\ opened[d] \/ "early" \in Faults[d]
  /\ session' = [session EXCEPT ![d] = "up"]
  /\ \/ /\ opened[d]
        /\ pub' = [pub EXCEPT ![d].connected = TRUE]
        /\ Send(d, <<"HELLO">>)
     \/ /\ ~opened[d]
        /\ pub' = [pub EXCEPT ![d].connected = TRUE, ![d].failed = TRUE]
        /\ UNCHANGED wire
  /\ UNCHANGED <<start, opened, link, io, ui, disk, nvs>>

\* Bound: only CONNECTED may come before dokan_open has returned.
Receives(d, f) ==
  /\ session[d] = "up" /\ opened[d] /\ wire[Peer(d)] # <<>>
  /\ Head(wire[Peer(d)]) = f

\* Mutant of Upto: the pump does not stop when the window is full.
WholeCard(i) == Chunks

(***************************************************************************)
(* pumpSend: pieces are read and written until the window is full, the     *)
(* card is out, or a read fails.  A piece that did not fit is kept, so a   *)
(* later pump starts with it.                                              *)
(***************************************************************************)
Upto(i) == IF i.sent + i.win < Chunks THEN i.sent + i.win ELSE Chunks

PumpEnds(d, i, held) ==
  LET all == [to |-> Upto(i), bad |-> FALSE]
      stops == {[to |-> n, bad |-> TRUE] :
                  n \in (IF held THEN i.sent + 1 ELSE i.sent) .. Upto(i)}
  IN
  IF i.bad THEN {[to |-> i.sent, bad |-> TRUE]}
  ELSE {all} \cup {s \in stops : "read" \in Faults[d] /\ s.to < Chunks}

Pumped(i, e) == [i EXCEPT !.sent = e.to, !.win = @ - (e.to - i.sent), !.bad = e.bad]
AllOut(e) == ~e.bad /\ e.to = Chunks
PumpFrames(i, e) ==
  [n \in 1 .. e.to - i.sent |-> "DATA"] \o (IF AllOut(e) THEN <<"EOF">> ELSE <<>>)
PumpPublished(p, e) ==
  [p EXCEPT !.send_done = @ \/ AllOut(e), !.failed = @ \/ e.bad]

\* Mutant of AckDue: the ack does not wait for the card.
AckAtHello(i, p) == ~i.acked /\ p.hello_ready

\* maybeSendAck
AckDue(i, p) ==
  ~i.acked /\ p.hello_ready /\ (p.will_recv => p.inbound_complete)
AckFrames(i, p) == IF AckDue(i, p) THEN <<"ACK">> ELSE <<>>
Acked(i, p) == [i EXCEPT !.acked = @ \/ AckDue(i, p)]

\* Mutant of WillReceive: a card is expected whether or not the peer offers one.
ExpectsAlways(d) == start[d].accept

\* parsePeerHello: what both intents allow.
WantsToSend(d) == start[d].offer /\ start[Peer(d)].accept
WillReceive(d) == start[Peer(d)].offer /\ start[d].accept

OnHello(d) ==
  LET will == {s \in BOOLEAN :
                 IF WantsToSend(d) THEN s \/ "share" \in Faults[d] ELSE ~s}
      p(s) == [pub[d] EXCEPT !.will_send = s, !.will_recv = WillReceive(d),
                             !.hello_ready = TRUE]
  IN
  /\ Receives(d, "HELLO")
  /\ \/ \E e \in PumpEnds(d, io[d], FALSE) :
          LET q == PumpPublished(p(TRUE), e) IN
          /\ TRUE \in will
          /\ pub' = [pub EXCEPT ![d] = q]
          /\ io' = [io EXCEPT ![d] = Acked(Pumped(@, e), q)]
          /\ Answer(d, <<"CARD">> \o PumpFrames(io[d], e) \o AckFrames(io[d], q))
     \/ /\ FALSE \in will
        /\ pub' = [pub EXCEPT ![d] = p(FALSE)]
        /\ io' = [io EXCEPT ![d] = Acked(@, p(FALSE))]
        /\ Answer(d, AckFrames(io[d], p(FALSE)))
  /\ UNCHANGED <<start, session, opened, link, ui, disk, nvs>>

\* onStreamOpened of a card truncates the temporary file.
OnCard(d) ==
  /\ Receives(d, "CARD")
  /\ Answer(d, <<>>)
  /\ \/ /\ io' = [io EXCEPT ![d].file = TRUE]
        /\ disk' = [disk EXCEPT ![d].temp = "part"]
        /\ UNCHANGED pub
     \/ /\ "open" \in Faults[d]
        /\ pub' = [pub EXCEPT ![d].failed = TRUE]
        /\ UNCHANGED <<io, disk>>
  /\ UNCHANGED <<start, session, opened, link, ui, nvs>>

\* onStreamData: a short write is flagged, and the stream goes on.
OnData(d) ==
  LET n == io[d].got + 1
      grown == IF n = Chunks THEN "whole" ELSE "part"
  IN
  /\ Receives(d, "DATA")
  /\ Answer(d, <<"WINDOW">>)
  /\ io' = [io EXCEPT ![d].got = n]
  /\ \/ /\ io[d].file
        /\ disk' = [disk EXCEPT ![d].temp = IF @ = "torn" THEN "torn" ELSE grown]
        /\ UNCHANGED pub
     \/ /\ io[d].file /\ "write" \in Faults[d]
        /\ disk' = [disk EXCEPT ![d].temp = "torn"]
        /\ pub' = [pub EXCEPT ![d].failed = TRUE]
     \/ /\ ~io[d].file
        /\ UNCHANGED <<disk, pub>>
  /\ UNCHANGED <<start, session, opened, link, ui, nvs>>

\* onStreamFinished of a card: nobody looks at what fclose returns, which is
\* where the last buffered bytes may fail to be written.
OnEof(d) ==
  LET p == [pub[d] EXCEPT !.inbound_complete = TRUE] IN
  /\ Receives(d, "EOF")
  /\ pub' = [pub EXCEPT ![d] = p]
  /\ io' = [io EXCEPT ![d] = [Acked(@, p) EXCEPT !.file = FALSE]]
  /\ \/ UNCHANGED disk
     \/ /\ "write" \in Faults[d] /\ io[d].file
        /\ disk' = [disk EXCEPT ![d].temp = "torn"]
  /\ Answer(d, AckFrames(io[d], p))
  /\ UNCHANGED <<start, session, opened, link, ui, nvs>>

\* onStreamOpened of an ack
OnAck(d) ==
  /\ Receives(d, "ACK")
  /\ pub' = [pub EXCEPT ![d].got_peer_ack = TRUE]
  /\ Answer(d, <<>>)
  /\ UNCHANGED <<start, session, opened, link, io, ui, disk, nvs>>

\* The engine raises WRITABLE when a window that was full opens again.
OnWindow(d) ==
  LET i == [io[d] EXCEPT !.win = @ + 1] IN
  /\ Receives(d, "WINDOW")
  /\ \/ /\ io[d].win = 0 /\ ~pub[d].send_done
        /\ \E e \in PumpEnds(d, i, TRUE) :
             /\ io' = [io EXCEPT ![d] = Pumped(i, e)]
             /\ pub' = [pub EXCEPT ![d] = PumpPublished(@, e)]
             /\ Answer(d, PumpFrames(i, e))
     \/ /\ io[d].win # 0 \/ pub[d].send_done
        /\ io' = [io EXCEPT ![d] = i]
        /\ Answer(d, <<>>)
        /\ UNCHANGED pub
  /\ UNCHANGED <<start, session, opened, link, ui, disk, nvs>>

OnGoaway(d) ==
  /\ Receives(d, "GOAWAY")
  /\ pub' = [pub EXCEPT ![d].peer_left = TRUE]
  /\ Answer(d, <<>>)
  /\ UNCHANGED <<start, session, opened, link, io, ui, disk, nvs>>

IoStep(d) ==
  \/ OnConnected(d) \/ OnHello(d) \/ OnCard(d) \/ OnData(d) \/ OnEof(d)
  \/ OnAck(d) \/ OnWindow(d) \/ OnGoaway(d)

-----------------------------------------------------------------------------
(***************************************************************************)
(* poll(), on the LVGL thread.  Each step is one early return of it, or    *)
(* what it does up to the next atomic it reads.                            *)
(***************************************************************************)
At(d, pc) == ui[d].pc = pc
Goto(d, pc) == ui' = [ui EXCEPT ![d].pc = pc]
Terminate(d, ok) == ui' = [ui EXCEPT ![d].pc = "close", ![d].ok = ok]

PollConnecting(d) ==
  /\ At(d, "poll") /\ ~pub[d].connected /\ pub[d].failed
  /\ Terminate(d, FALSE)
  /\ UNCHANGED <<start, netVars, opened, io, pub, disk, nvs>>

PollHandshake(d) ==
  /\ At(d, "poll") /\ pub[d].connected /\ ~pub[d].hello_ready
  /\ Goto(d, "handshake")
  /\ UNCHANGED <<start, netVars, opened, io, pub, disk, nvs>>

\* The error and the departure are read after hello_ready.
JudgeHandshake(d) ==
  /\ At(d, "handshake")
  /\ \/ /\ pub[d].failed \/ pub[d].peer_left
        /\ Terminate(d, FALSE)
     \/ /\ ~pub[d].failed /\ ~pub[d].peer_left
        /\ Goto(d, "poll")
  /\ UNCHANGED <<start, netVars, opened, io, pub, disk, nvs>>

\* Mutant of Unfinalized: the card is put in place while it still arrives.
PutsEarly(d) == pub[d].will_recv /\ ~ui[d].finalized

Unfinalized(d) ==
  pub[d].will_recv /\ pub[d].inbound_complete /\ ~ui[d].finalized

\* finalizeReceived moves the temporary file into place, whatever it holds.
Finalize(d) ==
  LET u == [ui[d] EXCEPT !.finalized = TRUE] IN
  /\ At(d, "poll") /\ pub[d].hello_ready /\ Unfinalized(d)
  /\ \/ /\ disk[d].temp # "none"
        /\ disk' = [disk EXCEPT ![d] = [temp |-> "none", card |-> @.temp]]
        /\ ui' = [ui EXCEPT ![d] = [u EXCEPT !.pc = "record"]]
     \/ /\ disk[d].temp = "none" \/ "rename" \in Faults[d]
        /\ disk' = [disk EXCEPT ![d].temp = "none"]
        /\ ui' = [ui EXCEPT ![d] = [u EXCEPT !.recv_ok = FALSE]]
  /\ UNCHANGED <<start, netVars, opened, io, pub, nvs>>

\* What a write or an erase of the NVS leaves, whose result nobody looks at.
Stored(d, old, new) == IF "nvs" \in Faults[d] THEN {old, new} ELSE {new}

\* lastcard::save_received
Record(d) ==
  /\ At(d, "record")
  /\ \E r \in Stored(d, nvs[d].record, TRUE) : nvs' = [nvs EXCEPT ![d].record = r]
  /\ Goto(d, "poll")
  /\ UNCHANGED <<start, netVars, opened, io, pub, disk>>

SendDone(d) == pub[d].will_send => pub[d].send_done
ReceiveDone(d) == pub[d].will_recv => ui[d].finalized

Settled(d) ==
  At(d, "poll") /\ pub[d].hello_ready /\ ~Unfinalized(d)

PeerHasOurCard(d) == pub[d].will_send => pub[d].got_peer_ack

\* Everything moved: close once the peer has said so or cannot say so any more.
PollDone(d) ==
  /\ Settled(d) /\ SendDone(d) /\ ReceiveDone(d)
  /\ IF PeerHasOurCard(d) \/ pub[d].peer_left \/ pub[d].failed
     THEN ui' = [ui EXCEPT ![d].marked = TRUE, ![d].pc = "close",
                           ![d].ok = ui[d].recv_ok]
     ELSE ~ui[d].marked /\ ui' = [ui EXCEPT ![d].marked = TRUE]
  /\ UNCHANGED <<start, netVars, opened, io, pub, disk, nvs>>

\* kAckTimeoutMs after everything moved.
AckTimeout(d) ==
  /\ Settled(d) /\ SendDone(d) /\ ReceiveDone(d) /\ ui[d].marked
  /\ Terminate(d, ui[d].recv_ok)
  /\ UNCHANGED <<start, netVars, opened, io, pub, disk, nvs>>

\* Mutant of Short: only what is still to be received counts.
InboundShort(d) == pub[d].will_recv /\ ~pub[d].inbound_complete

\* inbound_short or outbound_short
Short(d) ==
  \/ pub[d].will_recv /\ ~pub[d].inbound_complete
  \/ pub[d].will_send /\ ~pub[d].send_done

\* Something is still to move; the error and the departure are read after that.
PollMoving(d) ==
  /\ Settled(d) /\ Short(d)
  /\ Goto(d, "judge")
  /\ UNCHANGED <<start, netVars, opened, io, pub, disk, nvs>>

Judge(d) ==
  /\ At(d, "judge")
  /\ \/ /\ pub[d].failed \/ pub[d].peer_left
        /\ Terminate(d, FALSE)
     \/ /\ ~pub[d].failed /\ ~pub[d].peer_left
        /\ Goto(d, "poll")
  /\ UNCHANGED <<start, netVars, opened, io, pub, disk, nvs>>

-----------------------------------------------------------------------------
(***************************************************************************)
(* terminate(), power and boot.                                            *)
(***************************************************************************)

\* Mutant of Removes: what was received in part stays.
RemovesNothing(d) == FALSE

\* A failed exchange drops what is not in place yet.
Removes(d) == ~ui[d].ok

\* dokan_close joins the I/O task; its GOAWAY and all that was not carried yet
\* may be lost.  Then the file is closed.
Closes(d) ==
  /\ session' = [session EXCEPT ![d] = "closed"]
  /\ LET bye == IF session[d] = "error" THEN <<>> ELSE <<"GOAWAY">>
         q == wire[d] \o Out(d, bye)
     IN  \E k \in Prefixes(q) : wire' = [wire EXCEPT ![d] = k, ![Peer(d)] = <<>>]
  /\ io' = [io EXCEPT ![d].file = FALSE]

\* After a failure the file is also removed.
Close(d) ==
  /\ At(d, "close") /\ Closes(d)
  /\ disk' = [disk EXCEPT ![d].temp = IF Removes(d) THEN "none" ELSE @]
  /\ Goto(d, "take")
  /\ UNCHANGED <<start, opened, link, pub, nvs>>

\* The device's button (power::wake) puts Home in the place of the screen, at any
\* time between two polls: the destructor closes the session and the file, and there
\* is no outcome.
Wake(d) ==
  /\ "button" \in Faults[d]
  /\ At(d, "poll") /\ Closes(d)
  /\ Goto(d, "off")
  /\ UNCHANGED <<start, opened, link, pub, disk, nvs>>

\* Mutant of Withdraws: the record of the card outlives the failure.
NeverWithdraws(d) == FALSE

\* "Overall failure: the card stays in the gallery but must not auto-open".
Withdraws(d) == ~ui[d].ok /\ ui[d].finalized /\ ui[d].recv_ok

TakeRecord(d) ==
  /\ At(d, "take")
  /\ IF Withdraws(d)
     THEN \E r \in Stored(d, nvs[d].record, FALSE) : nvs' = [nvs EXCEPT ![d].record = r]
     ELSE UNCHANGED nvs
  /\ Goto(d, "message")
  /\ UNCHANGED <<start, netVars, opened, io, pub, disk>>

Outcome(d) == IF ui[d].ok THEN "complete" ELSE "failed"

\* bootmsg::save, after which the device goes down by bsp_power_hw_reset ...
SaveMessage(d) ==
  /\ At(d, "message")
  /\ \E m \in Stored(d, nvs[d].msg, Outcome(d)) : nvs' = [nvs EXCEPT ![d].msg = m]
  /\ Goto(d, "off")
  /\ UNCHANGED <<start, netVars, opened, io, pub, disk>>

\* ... which returns on USB power: the message is shown here and now, and the
\* user has to reset the device.
ShowMessage(d) ==
  /\ At(d, "off") /\ nvs[d].msg # "none"
  /\ \E m \in Stored(d, nvs[d].msg, "none") : nvs' = [nvs EXCEPT ![d].msg = m]
  /\ UNCHANGED <<start, netVars, opened, io, pub, ui, disk>>

PowerLoss(d) ==
  /\ "power" \in Faults[d]
  /\ ui[d].pc \notin {"build", "off", "booted"}
  /\ Goto(d, "off")
  /\ session' = [session EXCEPT ![d] = IF @ = "closed" THEN "closed" ELSE "dead"]
  /\ \E k \in Prefixes(wire[d]) :
       wire' = [wire EXCEPT ![d] = k, ![Peer(d)] = <<>>]
  /\ io' = [io EXCEPT ![d].file = FALSE]
  /\ UNCHANGED <<start, opened, link, pub, disk, nvs>>

\* boot_continue and BootMessageScreen: a message is shown once, and the record
\* is used up unless the message is one of a failure.
Boot(d) ==
  /\ At(d, "off")
  /\ \E m \in Stored(d, nvs[d].msg, "none"), r \in Stored(d, nvs[d].record, FALSE) :
       nvs' = [nvs EXCEPT ![d] =
                 [msg |-> m, record |-> IF @.msg = "failed" THEN @.record ELSE r]]
  /\ Goto(d, "booted")
  /\ UNCHANGED <<start, netVars, opened, io, pub, disk>>

LvglStep(d) ==
  \/ Opened(d)
  \/ PollConnecting(d) \/ PollHandshake(d) \/ JudgeHandshake(d) \/ Finalize(d)
  \/ Record(d) \/ PollDone(d) \/ PollMoving(d) \/ Judge(d)
  \/ Close(d) \/ TakeRecord(d) \/ SaveMessage(d) \/ ShowMessage(d) \/ Boot(d)

(***************************************************************************)
(* The I/O task and the LVGL thread of a device run as long as they have   *)
(* something to do: the one reports a connection that was closed or cut,   *)
(* the other waits five seconds for an ack.  A device is not told of a     *)
(* peer that fell silent.  The I/O task leaves the screen alone, the LVGL  *)
(* thread the connection.                                                  *)
(***************************************************************************)
IoTask(d) == UNCHANGED ui /\ (IoStep(d) \/ (~Silent(d) /\ NoticeLoss(d)))
LvglThread(d) == UNCHANGED link /\ (LvglStep(d) \/ AckTimeout(d))

Next ==
  \/ Link
  \/ \E d \in Device :
       \/ Cut(d) \/ Open(d) \/ ConnectTimeout(d) \/ Wake(d) \/ PowerLoss(d)
       \/ IoStep(d) \/ NoticeLoss(d) \/ LvglStep(d) \/ AckTimeout(d)

Fairness == \A d \in Device : WF_vars(IoTask(d)) /\ WF_vars(LvglThread(d))

Spec == Init /\ [][Next]_vars
FairSpec == Spec /\ Fairness

-----------------------------------------------------------------------------
(***************************************************************************)
(* Properties.                                                             *)
(***************************************************************************)

\* An ack means that the peer's handlers have been given the whole card: a sender
\* that waits for it and closes cuts nothing off (TransferScreen.hpp:43-45).
AckMeansReceived ==
  \A d \in Device :
    pub[d].will_send /\ pub[d].got_peer_ack => io[Peer(d)].got = Chunks

\* No part of a card reaches the gallery, whatever is cut off or lost and when
\* (docs/dokan.md:448-451).  A card can only be torn there by the SD card it was
\* written to: finalizeReceived validates nothing, and no write error stops it.
GalleryIsWhole == \A d \in Device : disk[d].card # "part"

\* A device that reports a completed exchange has the peer's card in its gallery
\* (as its SD card wrote it) if it was to receive one, and no temporary file is
\* left by either outcome.
OutcomeIsTrue ==
  \A d \in Device :
    /\ nvs[d].msg = "complete" /\ pub[d].will_recv =>
         disk[d].card \in {"whole", "torn"}
    /\ nvs[d].msg # "none" => disk[d].temp = "none"

\* When a device reports a failure, to the next boot or on the spot, no boot opens the
\* card that came with it (unless the NVS failed), and what a boot opens was put into
\* the gallery.  An exchange that power or the button ended before its failure was
\* reported is another matter: the next boot opens the card that it placed.
FailureNeverOpens ==
  \A d \in Device :
    /\ nvs[d].msg = "failed" \/ (At(d, "message") /\ ~ui[d].ok) =>
         ~nvs[d].record \/ "nvs" \in Faults[d]
    /\ nvs[d].record => disk[d].card \in {"whole", "torn"}

\* A device that was connected always ends the exchange, unless its peer has fallen
\* silent (an exchange that has ended stays so, which makes this a leads-to).
ConnectedTerminates ==
  \A d \in Device : []<>(pub[d].connected /\ ~Silent(d) => ui[d].pc \notin Polling)
=============================================================================
