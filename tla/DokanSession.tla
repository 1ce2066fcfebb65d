---------------------------- MODULE DokanSession ----------------------------
(***************************************************************************)
(* The data plane of dokan (components/dokan/src/dokan_session.c): two     *)
(* session engines joined by a byte pipe multiplex unidirectional streams  *)
(* with per-stream credit flow control.                                    *)
(*                                                                         *)
(* The two ends are the HOST and the CLIENT.  The opener of a stream       *)
(* writes it and the peer reads it, and the parity of a stream's id says   *)
(* who opened it, so a stream has one record at its opener (tx) and one at *)
(* its reader (rx).  Payload bytes are abstracted to their offset in the   *)
(* stream: a DATA frame carries the range off .. off + n - 1.              *)
(*                                                                         *)
(* A step is what one thread does between two points where another thread  *)
(* or the application can act.  The engine's recursive mutex serialises    *)
(* the I/O task and the application's threads; it is held while the stack  *)
(* cb[e] is not empty.  An event callback runs inline under the lock and   *)
(* may call the stream API again, so the code that follows a DATA event    *)
(* (and the chunk loop of a write) is a continuation on that stack.        *)
(***************************************************************************)
EXTENDS Integers, Sequences, FiniteSets

CONSTANTS
  MaxId,        \* bound: stream ids are 1 .. MaxId (the code: 16 bits)
  MaxBytes,     \* bound: bytes the application writes to one stream
  MaxStreams,   \* DOKAN_MAX_STREAMS
  MaxChunk,     \* DOKAN_MAX_CHUNK
  Window,       \* Window[e]: stream_window of end e's dokan_config_t
  Word,         \* 2^32 in the code: the range of the uint32_t counters
  Ops,          \* what the applications and the link may do, see OpNames
  FreeResume    \* FALSE: no application resumes a stream that was reset, or from
                \* inside the DATA callback of a resume of the same stream

End == {"HOST", "CLIENT"}

OpNames == {"write", "finish", "reset", "pause", "release", "close", "drop"}

ASSUME SessionAssumption ==
  /\ MaxId \in Nat /\ MaxBytes \in Nat
  /\ MaxStreams \in Nat
  /\ MaxChunk \in Nat \ {0}
  /\ Window \in [End -> Nat \ {0}]
  /\ Word \in Nat /\ \A e \in End : 2 * Window[e] < Word
  /\ Ops \subseteq OpNames
  /\ FreeResume \in BOOLEAN

Ids == 1 .. MaxId

Peer(e) == IF e = "HOST" THEN "CLIENT" ELSE "HOST"

\* next_tx_id starts at 2 for the host and at 1 for the client, in steps of 2.
Opener(id) == IF id % 2 = 0 THEN "HOST" ELSE "CLIENT"
Reader(id) == Peer(Opener(id))

\* Arithmetic of uint32_t.
Add32(a, b) == IF a + b < Word THEN a + b ELSE a + b - Word
Sub32(a, b) == IF a >= b THEN a - b ELSE a - b + Word

(***************************************************************************)
(* A frame.  off is the offset of the payload's first byte in the stream   *)
(* (DATA) or the credit granted before this frame (WINDOW); only n, the    *)
(* payload length or the credit, is on the wire.                           *)
(***************************************************************************)
FrameTypes == {"OPEN", "DATA", "EOF", "RESET", "WINDOW", "GOAWAY"}
Frame == [t : FrameTypes, id : Nat, off : Nat, n : Nat]
Mk(t, id, off, n) == [t |-> t, id |-> id, off |-> off, n |-> n]

VARIABLES
  chan,     \* chan[e]: frames e enqueued and its peer has not processed, in order
  acc,      \* acc[e]: how many of them have left out_buf for the transport
  tx,       \* tx[id]: the dokan_stream of the opener
  rx,       \* rx[id]: the dokan_stream of the reader
  cb,       \* cb[e]: continuations of the calls in progress at e, innermost last
  nextId,   \* next_tx_id
  err,      \* error, with its cause
  closing,  \* closing
  goaway,   \* goaway_received
  hist      \* hist[id]: what happened so far, for the properties only

vars == <<chan, acc, tx, rx, cb, nextId, err, closing, goaway, hist>>

(***************************************************************************)
(* st: "none" before the stream exists here, "live" while it is in the     *)
(* stream table, "gone" once released (or refused).                        *)
(***************************************************************************)
Life == {"none", "live", "gone"}
TxStream == [st : Life, win : Nat, fin : BOOLEAN, rst : BOOLEAN]
RxStream == [st : Life, paused : BOOLEAN, fin : BOOLEAN, rst : BOOLEAN,
             outst : Nat, pend : Nat, rxlen : Nat]

NoTx == [st |-> "none", win |-> 0, fin |-> FALSE, rst |-> FALSE]
NoRx == [st |-> "none", paused |-> FALSE, fin |-> FALSE, rst |-> FALSE,
         outst |-> 0, pend |-> 0, rxlen |-> 0]

(***************************************************************************)
(* sent: bytes enqueued by the writer; rcvd: bytes the reader's engine     *)
(* accepted; granted / credited: credit sent by the reader / received by   *)
(* the writer; got: bytes given to the reading application by DATA events, *)
(* the last of which carried the bytes from at on, last of them;           *)
(* fins: FINISHED events, saturating at 2.                                 *)
(***************************************************************************)
History == [sent : Nat, rcvd : Nat, granted : Nat, credited : Nat,
            got : Nat, at : Nat, last : Nat, fins : 0 .. 2]
NoHistory == [sent |-> 0, rcvd |-> 0, granted |-> 0, credited |-> 0,
              got |-> 0, at |-> 0, last |-> 0, fins |-> 0]

Continuation == [k : {"write", "data", "resume"}, id : Ids, n : Nat, a : Nat]

Init ==
  /\ chan = [e \in End |-> <<>>]
  /\ acc = [e \in End |-> 0]
  /\ tx = [id \in Ids |-> NoTx]
  /\ rx = [id \in Ids |-> NoRx]
  /\ cb = [e \in End |-> <<>>]
  /\ nextId = [e \in End |-> IF e = "HOST" THEN 2 ELSE 1]
  /\ err = [e \in End |-> "none"]
  /\ closing = [e \in End |-> FALSE]
  /\ goaway = [e \in End |-> FALSE]
  /\ hist = [id \in Ids |-> NoHistory]

-----------------------------------------------------------------------------
(***************************************************************************)
(* Helpers of the engine.                                                  *)
(***************************************************************************)
Top(e) == cb[e][Len(cb[e])]
Idle(e) == cb[e] = <<>>
Push(e, k, id, n, a) ==
  cb' = [cb EXCEPT ![e] = Append(@, [k |-> k, id |-> id, n |-> n, a |-> a])]
Pop(e) == cb' = [cb EXCEPT ![e] = SubSeq(@, 1, Len(@) - 1)]

\* find_stream: the stream table of end e, and its stream_count.
Live(e, id) == IF Opener(id) = e THEN tx[id].st = "live" ELSE rx[id].st = "live"
WasReset(e, id) == IF Opener(id) = e THEN tx[id].rst ELSE rx[id].rst
StreamCount(e) == Cardinality({id \in Ids : Live(e, id)})

\* enqueue: append the frame and flush whatever the transport takes just now.
Enqueue(e, f) ==
  /\ chan' = [chan EXCEPT ![e] = Append(@, f)]
  /\ \E k \in acc[e] .. Len(chan[e]) + 1 : acc' = [acc EXCEPT ![e] = k]

\* A handler that runs on the frame at the head of the peer's queue ...
Consume(e) ==
  /\ chan' = [chan EXCEPT ![Peer(e)] = Tail(@)]
  /\ acc' = [acc EXCEPT ![Peer(e)] = @ - 1]

\* ... and one that also enqueues a frame of its own.
ConsumeEnqueue(e, f) ==
  /\ chan' = [chan EXCEPT ![Peer(e)] = Tail(@), ![e] = Append(@, f)]
  /\ \E k \in acc[e] .. Len(chan[e]) + 1 :
       acc' = [acc EXCEPT ![Peer(e)] = @ - 1, ![e] = k]

ProtocolError(e) ==
  /\ err' = [err EXCEPT ![e] = "protocol"]
  /\ Consume(e)
  /\ UNCHANGED <<tx, rx, cb, nextId, closing, goaway, hist>>

Drop(e) ==
  /\ Consume(e)
  /\ UNCHANGED <<tx, rx, cb, nextId, err, closing, goaway, hist>>

\* Mutant of Threshold: credit is due only past a whole window.
LateThreshold(e) == Window[e] + 1

\* credit_consume: the threshold at which consumed bytes are credited back.
Threshold(e) == IF Window[e] \div 2 = 0 THEN 1 ELSE Window[e] \div 2

\* Mutant of Credited: the pending credit is not reset.
KeepsPending(s, n) == [s EXCEPT !.outst = Sub32(@, n)]

\* flush_credit: the WINDOW frame and what it does to the stream.
CreditFrame(id, n) == Mk("WINDOW", id, hist[id].granted, n)
Credited(s, n) == [s EXCEPT !.outst = Sub32(@, n), !.pend = 0]

\* The history of a DATA event for n bytes from off on, and of a FINISHED event.
Delivered(h, off, n) == [h EXCEPT !.got = @ + n, !.at = off, !.last = n]
Finished(h) == [h EXCEPT !.fins = IF @ < 2 THEN @ + 1 ELSE 2]

-----------------------------------------------------------------------------
(***************************************************************************)
(* Inbound frames (process_frame): the I/O task of e, holding the lock,    *)
(* handles the oldest frame the transport has carried.  feed stops at an   *)
(* error and when the session is closing.                                  *)
(***************************************************************************)
Receives(e, t) ==
  /\ Idle(e) /\ ~closing[e] /\ err[e] = "none"
  /\ acc[Peer(e)] > 0
  /\ Head(chan[Peer(e)]).t = t

HandleOpen(e) ==
  LET id == Head(chan[Peer(e)]).id IN
  /\ Receives(e, "OPEN")
  /\ \/ /\ Opener(id) = e \/ Live(e, id)
        /\ ProtocolError(e)
     \/ /\ Opener(id) # e /\ ~Live(e, id)
        /\ StreamCount(e) >= MaxStreams
        /\ ConsumeEnqueue(e, Mk("RESET", id, 0, 0))
        /\ rx' = [rx EXCEPT ![id].st = "gone"]
        /\ UNCHANGED <<tx, cb, nextId, err, closing, goaway, hist>>
     \/ /\ Opener(id) # e /\ ~Live(e, id)
        /\ StreamCount(e) < MaxStreams
        /\ Consume(e)
        /\ rx' = [rx EXCEPT ![id].st = "live"]
        /\ UNCHANGED <<tx, cb, nextId, err, closing, goaway, hist>>

\* Mutant of ExceedsWindow: a frame that fills the window to the last byte is refused.
FillsWindow(e, s, n) == s.outst + n >= Window[e]

\* The reader's stream once n more bytes are received.
Received(s, n) == [s EXCEPT !.outst = Add32(@, n)]
ExceedsWindow(e, s, n) == s.outst + n > Window[e]

HandleData(e) ==
  LET f == Head(chan[Peer(e)])
      id == f.id
      s == rx[id]
      h == [hist[id] EXCEPT !.rcvd = @ + f.n]
      ok == Opener(id) # e /\ ~s.fin /\ ~ExceedsWindow(e, s, f.n)
  IN
  /\ Receives(e, "DATA")
  /\ \/ /\ ~Live(e, id) \/ WasReset(e, id)
        /\ Drop(e)
     \/ /\ Live(e, id) /\ ~WasReset(e, id) /\ ~ok
        /\ ProtocolError(e)
     \/ /\ Live(e, id) /\ ~WasReset(e, id) /\ ok /\ s.paused
        /\ rx' = [rx EXCEPT ![id] = [Received(s, f.n) EXCEPT !.rxlen = @ + f.n]]
        /\ hist' = [hist EXCEPT ![id] = h]
        /\ Consume(e)
        /\ UNCHANGED <<tx, cb, nextId, err, closing, goaway>>
     \/ /\ Live(e, id) /\ ~WasReset(e, id) /\ ok /\ ~s.paused
        /\ rx' = [rx EXCEPT ![id] = Received(s, f.n)]
        /\ hist' = [hist EXCEPT ![id] = Delivered(h, f.off, f.n)]
        /\ Consume(e)
        /\ Push(e, "data", id, f.n, 0)
        /\ UNCHANGED <<tx, nextId, err, closing, goaway>>

HandleEof(e) ==
  LET id == Head(chan[Peer(e)]).id
      s == rx[id]
      h == hist[id]
      ok == Opener(id) # e /\ ~s.fin
      eof == [s EXCEPT !.fin = TRUE]
      now == ~s.paused /\ s.rxlen = 0
  IN
  /\ Receives(e, "EOF")
  /\ \/ /\ ~Live(e, id) \/ WasReset(e, id)
        /\ Drop(e)
     \/ /\ Live(e, id) /\ ~WasReset(e, id) /\ ~ok
        /\ ProtocolError(e)
     \/ /\ Live(e, id) /\ ~WasReset(e, id) /\ ok /\ ~now
        /\ rx' = [rx EXCEPT ![id] = eof]
        /\ Consume(e)
        /\ UNCHANGED <<tx, cb, nextId, err, closing, goaway, hist>>
     \/ /\ Live(e, id) /\ ~WasReset(e, id) /\ ok /\ now
        /\ \/ /\ s.pend > 0
              /\ rx' = [rx EXCEPT ![id] = Credited(eof, s.pend)]
              /\ hist' = [hist EXCEPT ![id] = Finished([h EXCEPT !.granted = @ + s.pend])]
              /\ ConsumeEnqueue(e, CreditFrame(id, s.pend))
           \/ /\ s.pend = 0
              /\ rx' = [rx EXCEPT ![id] = eof]
              /\ hist' = [hist EXCEPT ![id] = Finished(h)]
              /\ Consume(e)
        /\ UNCHANGED <<tx, cb, nextId, err, closing, goaway>>

HandleReset(e) ==
  LET id == Head(chan[Peer(e)]).id IN
  /\ Receives(e, "RESET")
  /\ Consume(e)
  /\ \/ /\ Opener(id) = e /\ Live(e, id)
        /\ tx' = [tx EXCEPT ![id].rst = TRUE]
        /\ UNCHANGED rx
     \/ /\ Opener(id) # e /\ Live(e, id)
        /\ rx' = [rx EXCEPT ![id].rst = TRUE]
        /\ UNCHANGED tx
     \/ /\ ~Live(e, id)
        /\ UNCHANGED <<tx, rx>>
  /\ UNCHANGED <<cb, nextId, err, closing, goaway, hist>>

HandleWindow(e) ==
  LET f == Head(chan[Peer(e)])
      id == f.id
  IN
  /\ Receives(e, "WINDOW")
  /\ \/ /\ ~Live(e, id) \/ WasReset(e, id)
        /\ Drop(e)
     \/ /\ Live(e, id) /\ ~WasReset(e, id) /\ Opener(id) # e
        /\ ProtocolError(e)
     \/ /\ Live(e, id) /\ ~WasReset(e, id) /\ Opener(id) = e
        /\ tx' = [tx EXCEPT ![id].win = Add32(@, f.n)]
        /\ hist' = [hist EXCEPT ![id].credited = @ + f.n]
        /\ Consume(e)
        /\ UNCHANGED <<rx, cb, nextId, err, closing, goaway>>

HandleGoaway(e) ==
  /\ Receives(e, "GOAWAY")
  /\ Consume(e)
  /\ goaway' = [goaway EXCEPT ![e] = TRUE]
  /\ UNCHANGED <<tx, rx, cb, nextId, err, closing, hist>>

ProcessFrame(e) ==
  \/ HandleOpen(e)
  \/ HandleData(e)
  \/ HandleEof(e)
  \/ HandleReset(e)
  \/ HandleWindow(e)
  \/ HandleGoaway(e)

-----------------------------------------------------------------------------
(***************************************************************************)
(* What runs when a DATA callback returns.                                 *)
(***************************************************************************)

\* handle_data after its DATA event: credit the bytes unless the callback
\* released or reset the stream.
DataReturn(e) ==
  LET id == Top(e).id
      n == rx[id].pend + Top(e).n
  IN
  /\ ~Idle(e) /\ Top(e).k = "data"
  /\ Pop(e)
  /\ \/ /\ rx[id].st # "live" \/ rx[id].rst
        /\ UNCHANGED <<rx, hist, chan, acc>>
     \/ /\ rx[id].st = "live" /\ ~rx[id].rst /\ n < Threshold(e)
        /\ rx' = [rx EXCEPT ![id].pend = n]
        /\ UNCHANGED <<hist, chan, acc>>
     \/ /\ rx[id].st = "live" /\ ~rx[id].rst /\ n >= Threshold(e)
        /\ rx' = [rx EXCEPT ![id] = Credited(@, n)]
        /\ hist' = [hist EXCEPT ![id].granted = @ + n]
        /\ Enqueue(e, CreditFrame(id, n))
  /\ UNCHANGED <<tx, nextId, err, closing, goaway>>

\* Mutant of ResumeReturn: an EOF held back by the pause is forgotten.
ForgetsEof(e) ==
  LET id == Top(e).id
      n == rx[id].pend + Top(e).n
      s == [rx[id] EXCEPT !.rxlen = 0]
  IN
  /\ ~Idle(e) /\ Top(e).k = "resume"
  /\ Pop(e)
  /\ \/ n < Threshold(e) /\ rx' = [rx EXCEPT ![id] = [s EXCEPT !.pend = n]]
        /\ UNCHANGED <<hist, chan, acc>>
     \/ /\ n >= Threshold(e) /\ rx' = [rx EXCEPT ![id] = Credited(s, n)]
        /\ hist' = [hist EXCEPT ![id].granted = @ + n]
        /\ Enqueue(e, CreditFrame(id, n))
  /\ UNCHANGED <<tx, nextId, err, closing, goaway>>

\* stream_resume_locked after its DATA event: the held bytes are dropped from
\* rx_buf and credited, and an EOF that was held back is delivered.
ResumeReturn(e) ==
  LET id == Top(e).id
      n == rx[id].pend + Top(e).n
      s == [rx[id] EXCEPT !.rxlen = 0]
      h == IF s.fin THEN Finished(hist[id]) ELSE hist[id]
  IN
  /\ ~Idle(e) /\ Top(e).k = "resume"
  /\ Pop(e)
  /\ \/ /\ rx[id].st # "live" \/ rx[id].rst
        /\ UNCHANGED <<rx, hist, chan, acc>>
     \/ /\ rx[id].st = "live" /\ ~rx[id].rst /\ n < Threshold(e) /\ ~s.fin
        /\ rx' = [rx EXCEPT ![id] = [s EXCEPT !.pend = n]]
        /\ UNCHANGED <<hist, chan, acc>>
     \/ /\ rx[id].st = "live" /\ ~rx[id].rst /\ (n >= Threshold(e) \/ s.fin)
        /\ rx' = [rx EXCEPT ![id] = Credited(s, n)]
        /\ hist' = [hist EXCEPT ![id] = [h EXCEPT !.granted = @ + n]]
        /\ Enqueue(e, CreditFrame(id, n))
  /\ UNCHANGED <<tx, nextId, err, closing, goaway>>

-----------------------------------------------------------------------------
(***************************************************************************)
(* The stream API.  The application calls it from its own threads, which   *)
(* wait for the lock, or from inside a callback, and not after it closed   *)
(* the session.  A call the code answers with an error changes nothing.    *)
(***************************************************************************)
Writing(e) == ~Idle(e) /\ Top(e).k = "write"
AppMay(e) == ~closing[e] /\ ~Writing(e)

StreamOpen(e) ==
  LET id == nextId[e] IN
  /\ AppMay(e) /\ err[e] = "none"
  /\ id <= MaxId
  /\ StreamCount(e) < MaxStreams
  /\ nextId' = [nextId EXCEPT ![e] = @ + 2]
  /\ tx' = [tx EXCEPT ![id] = [NoTx EXCEPT !.st = "live", !.win = Window[e]]]
  /\ Enqueue(e, Mk("OPEN", id, 0, 0))
  /\ UNCHANGED <<rx, cb, err, closing, goaway, hist>>

\* Mutant of StreamWrite: finished_sent is not looked at.
WriteFinished(e, id, len) ==
  LET accept == IF len < tx[id].win THEN len ELSE tx[id].win IN
  /\ "write" \in Ops /\ AppMay(e)
  /\ Opener(id) = e /\ tx[id].st = "live" /\ ~tx[id].rst
  /\ hist[id].sent + len <= MaxBytes /\ accept > 0
  /\ Push(e, "write", id, accept, accept)
  /\ UNCHANGED <<chan, acc, tx, rx, nextId, err, closing, goaway, hist>>

\* stream_write_locked accepts a bytes, at most the send window ...
StreamWrite(e, id, len) ==
  LET accept == IF len < tx[id].win THEN len ELSE tx[id].win IN
  /\ "write" \in Ops /\ AppMay(e)
  /\ Opener(id) = e /\ tx[id].st = "live" /\ ~tx[id].fin /\ ~tx[id].rst
  /\ hist[id].sent + len <= MaxBytes
  /\ accept > 0
  /\ Push(e, "write", id, accept, accept)
  /\ UNCHANGED <<chan, acc, tx, rx, nextId, err, closing, goaway, hist>>

\* Mutant of WriteChunk: the last chunk is not cut to what is left.
WholeChunk(e) ==
  /\ ~Idle(e) /\ Top(e).k = "write" /\ Top(e).n > 0
  /\ Enqueue(e, Mk("DATA", Top(e).id, hist[Top(e).id].sent, MaxChunk))
  /\ hist' = [hist EXCEPT ![Top(e).id].sent = @ + MaxChunk]
  /\ cb' = [cb EXCEPT ![e][Len(cb[e])].n = @ - MaxChunk]
  /\ UNCHANGED <<tx, rx, nextId, err, closing, goaway>>

\* Mutant of WriteChunk: frames go out under the stream that was opened last.
LastOpened(e) ==
  LET c == Top(e)
      chunk == IF c.n > MaxChunk THEN MaxChunk ELSE c.n
  IN
  /\ ~Idle(e) /\ c.k = "write" /\ c.n > 0
  /\ Enqueue(e, Mk("DATA", nextId[e] - 2, hist[c.id].sent, chunk))
  /\ hist' = [hist EXCEPT ![c.id].sent = @ + chunk]
  /\ cb' = [cb EXCEPT ![e][Len(cb[e])].n = @ - chunk]
  /\ UNCHANGED <<tx, rx, nextId, err, closing, goaway>>

\* ... enqueues them in chunks without giving up the lock, and then takes them
\* off the send window.
WriteChunk(e) ==
  LET c == Top(e)
      chunk == IF c.n > MaxChunk THEN MaxChunk ELSE c.n
  IN
  /\ ~Idle(e) /\ c.k = "write" /\ c.n > 0
  /\ Enqueue(e, Mk("DATA", c.id, hist[c.id].sent, chunk))
  /\ hist' = [hist EXCEPT ![c.id].sent = @ + chunk]
  /\ cb' = [cb EXCEPT ![e][Len(cb[e])].n = @ - chunk]
  /\ UNCHANGED <<tx, rx, nextId, err, closing, goaway>>

\* Mutant of WriteReturn: the send window is not debited.
UndebitedReturn(e) ==
  /\ ~Idle(e) /\ Top(e).k = "write" /\ Top(e).n = 0
  /\ Pop(e)
  /\ UNCHANGED <<chan, acc, tx, rx, nextId, err, closing, goaway, hist>>

WriteReturn(e) ==
  /\ ~Idle(e) /\ Top(e).k = "write" /\ Top(e).n = 0
  /\ tx' = [tx EXCEPT ![Top(e).id].win = Sub32(@, Top(e).a)]
  /\ Pop(e)
  /\ UNCHANGED <<chan, acc, rx, nextId, err, closing, goaway, hist>>

StreamFinish(e, id) ==
  /\ "finish" \in Ops /\ AppMay(e)
  /\ Opener(id) = e /\ tx[id].st = "live" /\ ~tx[id].fin /\ ~tx[id].rst
  /\ tx' = [tx EXCEPT ![id].fin = TRUE]
  /\ Enqueue(e, Mk("EOF", id, 0, 0))
  /\ UNCHANGED <<rx, cb, nextId, err, closing, goaway, hist>>

StreamReset(e, id) ==
  /\ "reset" \in Ops /\ AppMay(e)
  /\ Live(e, id) /\ ~WasReset(e, id)
  /\ \/ Opener(id) = e /\ tx' = [tx EXCEPT ![id].rst = TRUE] /\ UNCHANGED rx
     \/ Opener(id) # e /\ rx' = [rx EXCEPT ![id].rst = TRUE] /\ UNCHANGED tx
  /\ Enqueue(e, Mk("RESET", id, 0, 0))
  /\ UNCHANGED <<cb, nextId, err, closing, goaway, hist>>

\* Mutant of StreamPause: pausing again drops what the pause already holds.
PauseDropsHeld(e, id) ==
  /\ "pause" \in Ops /\ AppMay(e)
  /\ Opener(id) # e /\ rx[id].st = "live"
  /\ rx' = [rx EXCEPT ![id].paused = TRUE, ![id].rxlen = 0]
  /\ UNCHANGED <<chan, acc, tx, cb, nextId, err, closing, goaway, hist>>

StreamPause(e, id) ==
  /\ "pause" \in Ops /\ AppMay(e)
  /\ Opener(id) # e /\ rx[id].st = "live"
  /\ rx' = [rx EXCEPT ![id].paused = TRUE]
  /\ UNCHANGED <<chan, acc, tx, cb, nextId, err, closing, goaway, hist>>

\* A resume of this stream is in progress at e: its DATA callback is running.
InCall(e, k, id) == \E i \in 1 .. Len(cb[e]) : cb[e][i].k = k /\ cb[e][i].id = id
Resuming(e, id) == InCall(e, "resume", id)

StreamResume(e, id) ==
  LET s == [rx[id] EXCEPT !.paused = FALSE]
      h == hist[id]
  IN
  /\ AppMay(e)
  /\ Opener(id) # e /\ rx[id].st = "live" /\ rx[id].paused
  /\ FreeResume \/ (~Resuming(e, id) /\ ~rx[id].rst)
  /\ \/ /\ s.rxlen > 0
        /\ rx' = [rx EXCEPT ![id] = s]
        /\ hist' = [hist EXCEPT ![id] = Delivered(@, h.rcvd - s.rxlen, s.rxlen)]
        /\ Push(e, "resume", id, s.rxlen, 0)
        /\ UNCHANGED <<chan, acc>>
     \/ /\ s.rxlen = 0 /\ s.fin /\ s.pend > 0
        /\ rx' = [rx EXCEPT ![id] = Credited(s, s.pend)]
        /\ hist' = [hist EXCEPT ![id] = Finished([h EXCEPT !.granted = @ + s.pend])]
        /\ Enqueue(e, CreditFrame(id, s.pend))
        /\ UNCHANGED cb
     \/ /\ s.rxlen = 0 /\ (s.fin => s.pend = 0)
        /\ rx' = [rx EXCEPT ![id] = s]
        /\ hist' = [hist EXCEPT ![id] = IF s.fin THEN Finished(@) ELSE @]
        /\ UNCHANGED <<chan, acc, cb>>
  /\ UNCHANGED <<tx, nextId, err, closing, goaway>>

\* stream_release_locked tells the peer when the stream was still open.
StreamRelease(e, id) ==
  LET open == ~WasReset(e, id) /\ IF Opener(id) = e THEN ~tx[id].fin ELSE ~rx[id].fin
  IN
  /\ "release" \in Ops /\ AppMay(e)
  /\ Live(e, id)
  /\ \/ Opener(id) = e /\ tx' = [tx EXCEPT ![id].st = "gone"] /\ UNCHANGED rx
     \/ Opener(id) # e /\ rx' = [rx EXCEPT ![id].st = "gone"] /\ UNCHANGED tx
  /\ \/ open /\ err[e] = "none" /\ Enqueue(e, Mk("RESET", id, 0, 0))
     \/ ~(open /\ err[e] = "none") /\ UNCHANGED <<chan, acc>>
  /\ UNCHANGED <<cb, nextId, err, closing, goaway, hist>>

\* dokan_close: say goodbye unless the session failed, and stop processing.
Close(e) ==
  /\ "close" \in Ops /\ AppMay(e)
  /\ closing' = [closing EXCEPT ![e] = TRUE]
  /\ \/ err[e] = "none" /\ Enqueue(e, Mk("GOAWAY", 0, 0, 0))
     \/ err[e] # "none" /\ UNCHANGED <<chan, acc>>
  /\ UNCHANGED <<tx, rx, cb, nextId, err, goaway, hist>>

-----------------------------------------------------------------------------
(***************************************************************************)
(* The transport.  host_on_writable flushes more of out_buf, not any more  *)
(* once the session is closing; host_on_error reports a broken link, after *)
(* which the frames still under way are lost.                              *)
(***************************************************************************)
OnWritable(e) ==
  /\ Idle(e) /\ ~closing[e]
  /\ acc[e] < Len(chan[e])
  /\ \E k \in acc[e] + 1 .. Len(chan[e]) : acc' = [acc EXCEPT ![e] = k]
  /\ UNCHANGED <<chan, tx, rx, cb, nextId, err, closing, goaway, hist>>

OnError(e) ==
  /\ "drop" \in Ops
  /\ Idle(e) /\ ~closing[e] /\ err[e] = "none"
  /\ err' = [err EXCEPT ![e] = "transport"]
  /\ UNCHANGED <<chan, acc, tx, rx, cb, nextId, closing, goaway, hist>>

-----------------------------------------------------------------------------
Return(e) == DataReturn(e) \/ ResumeReturn(e) \/ WriteChunk(e) \/ WriteReturn(e)

App(e) ==
  \/ StreamOpen(e)
  \/ \E id \in Ids :
       \/ \E len \in 1 .. MaxBytes : StreamWrite(e, id, len)
       \/ StreamFinish(e, id)
       \/ StreamReset(e, id)
       \/ StreamPause(e, id)
       \/ StreamResume(e, id)
       \/ StreamRelease(e, id)
  \/ Close(e)

Next == \E e \in End : ProcessFrame(e) \/ Return(e) \/ App(e) \/ OnWritable(e) \/ OnError(e)

Spec == Init /\ [][Next]_vars

(***************************************************************************)
(* Fairness.  The I/O task loops for as long as the session lives: each    *)
(* turn it reads what has come and flushes what can go, waiting for the    *)
(* lock if it must.  A call or callback in progress runs to its end.  And  *)
(* a reader that pauses a stream resumes it some day.                      *)
(***************************************************************************)
Fairness ==
  \A e \in End :
    /\ WF_vars(ProcessFrame(e))
    /\ WF_vars(OnWritable(e))
    /\ WF_vars(Return(e))
    /\ \A id \in Ids : WF_vars(StreamResume(e, id))

FairSpec == Spec /\ Fairness

-----------------------------------------------------------------------------
(***************************************************************************)
(* Properties.                                                             *)
(***************************************************************************)

\* Every variable has its type, and a write in progress has never sent more than it
\* took (that no uint32_t counter wraps follows from WriterInv and ReaderInv, which give
\* their values).
TypeOK ==
  /\ chan \in [End -> Seq(Frame)]
  /\ acc \in [End -> Nat] /\ \A e \in End : acc[e] <= Len(chan[e])
  /\ tx \in [Ids -> TxStream]
  /\ rx \in [Ids -> RxStream]
  /\ cb \in [End -> Seq(Continuation)]
  /\ nextId \in [End -> Nat]
  /\ err \in [End -> {"none", "protocol", "transport"}]
  /\ closing \in [End -> BOOLEAN]
  /\ goaway \in [End -> BOOLEAN]
  /\ hist \in [Ids -> History]

\* Two engines built from this code never find fault with each other's frames:
\* no interleaving of writes, resets, releases, pauses and credits makes
\* protocol_error fire (frames after EOF, a window overrun, a reused id ...).
NoProtocolError == \A e \in End : err[e] # "protocol"

\* The bytes a reader holds or has not credited fit its window: rx_len and the
\* pending credit never exceed recv_outstanding, and that never exceeds the window
\* (the comment on recv_outstanding says <= window).
WindowRespected ==
  \A id \in Ids : rx[id].st = "live" =>
    /\ rx[id].outst <= Window[Reader(id)]
    /\ rx[id].pend + rx[id].rxlen <= rx[id].outst

\* DATA events hand the reading application the bytes of the stream in order,
\* each once, and never a byte the writer has not written.
DeliveredInOrder ==
  \A id \in Ids : hist[id].at + hist[id].last = hist[id].got /\ hist[id].got <= hist[id].sent

\* FINISHED comes only after the writer finished and every byte it wrote was
\* delivered, however pause, resume and the held-back EOF interleave.
FinishedIsComplete ==
  \A id \in Ids : hist[id].fins > 0 => tx[id].fin /\ hist[id].got = hist[id].sent

\* What is written arrives, also while the reader pauses and resumes at will and the
\* writer runs into the window again and again (no reset, release, close or drop).
EveryByteArrives ==
  \A id \in Ids : \A n \in 1 .. MaxBytes : hist[id].sent >= n ~> hist[id].got >= n

\* A finished stream is reported to the reader.
FinishArrives == \A id \in Ids : tx[id].fin ~> hist[id].fins > 0

\* A full window opens again: consumed bytes are not kept below the credit threshold
\* while the writer waits for them.
WindowReopens == \A id \in Ids : tx[id].st = "live" /\ tx[id].win = 0 ~> tx[id].win > 0
=============================================================================
