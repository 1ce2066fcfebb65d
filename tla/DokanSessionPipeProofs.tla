----------------------- MODULE DokanSessionPipeProofs -----------------------
(***************************************************************************)
(* Proof that DokanSession implements DokanPipe, for every number of       *)
(* streams, every window and every bound.                                  *)
(***************************************************************************)
EXTENDS DokanSessionProofs, DokanSessionPipe

\* Stream x is the same to the pipe, but for what the step says it does.
SameSent(x) == hist'[x].sent = hist[x].sent
SameGot(x) == hist'[x].got = hist[x].got
SameEof(x) == hist'[x].fins > 0 <=> hist[x].fins > 0
SameEnd(x) == tx'[x].fin = tx[x].fin
Quiet(x) == SameSent(x) /\ SameGot(x) /\ SameEof(x) /\ SameEnd(x)

\* A step that the pipe does not see.
LEMMA QuietPipe ==
  ASSUME \A x \in Ids : Quiet(x)
  PROVE  UNCHANGED <<Sent, Got, Ended, Eof>>
  BY DEF Quiet, SameSent, SameGot, SameEof, SameEnd, Sent, Got, Ended, Eof

\* A step that the pipe sees at stream id only.
LEMMA WritePipe ==
  ASSUME NEW id \in Ids, \A x \in Ids \ {id} : Quiet(x), SameGot(id), SameEof(id), SameEnd(id),
         ~tx[id].fin, hist'[id].sent \in Nat, hist'[id].sent > hist[id].sent
  PROVE  Pipe!Next
<1>1. UNCHANGED <<Got, Ended, Eof>>
  BY DEF Quiet, SameGot, SameEof, SameEnd, Got, Ended, Eof
<1>2. Sent' = [Sent EXCEPT ![id] = Sent'[id]]
  BY DEF Quiet, SameSent, Sent
<1>3. Sent'[id] = hist'[id].sent /\ Sent[id] = hist[id].sent /\ ~Ended[id]
  BY DEF Sent, Ended
<1>. QED BY <1>1, <1>2, <1>3 DEF Pipe!Next, Pipe!Write, Pipe!Grows

LEMMA DeliverPipe ==
  ASSUME NEW id \in Ids, \A x \in Ids \ {id} : Quiet(x), SameSent(id), SameEof(id), SameEnd(id),
         ~(hist[id].fins > 0), hist'[id].got \in Nat, hist'[id].got > hist[id].got,
         hist'[id].got <= hist[id].sent
  PROVE  Pipe!Next
<1>1. UNCHANGED <<Sent, Ended, Eof>>
  BY DEF Quiet, SameSent, SameEof, SameEnd, Sent, Ended, Eof
<1>2. Got' = [Got EXCEPT ![id] = Got'[id]]
  BY DEF Quiet, SameGot, Got
<1>3. Got'[id] = hist'[id].got /\ Got[id] = hist[id].got /\ Sent[id] = hist[id].sent /\ ~Eof[id]
  BY DEF Sent, Got, Eof
<1>. QED BY <1>1, <1>2, <1>3 DEF Pipe!Next, Pipe!Deliver, Pipe!Grows

LEMMA FinishPipe ==
  ASSUME NEW id \in Ids, \A x \in Ids \ {id} : Quiet(x), SameSent(id), SameGot(id), SameEof(id),
         ~tx[id].fin, tx'[id].fin = TRUE
  PROVE  Pipe!Next
<1>1. UNCHANGED <<Sent, Got, Eof>>
  BY DEF Quiet, SameSent, SameGot, SameEof, Sent, Got, Eof
<1>2. Ended' = [Ended EXCEPT ![id] = TRUE] /\ ~Ended[id]
  BY DEF Quiet, SameEnd, Ended
<1>. QED BY <1>1, <1>2 DEF Pipe!Next, Pipe!Finish

LEMMA CompletePipe ==
  ASSUME NEW id \in Ids, \A x \in Ids \ {id} : Quiet(x), SameSent(id), SameGot(id), SameEnd(id),
         tx[id].fin = TRUE, hist[id].got = hist[id].sent, hist'[id].fins > 0
  PROVE  Pipe!Next
<1>1. UNCHANGED <<Sent, Got, Ended>>
  BY DEF Quiet, SameSent, SameGot, SameEnd, Sent, Got, Ended
<1>2. Eof' = [Eof EXCEPT ![id] = TRUE]
  <2>1. \A x \in Ids : Eof'[x] = [Eof EXCEPT ![id] = TRUE][x]
    <3>1. \A x \in Ids \ {id} : (hist'[x].fins > 0) = (hist[x].fins > 0)
      BY DEF Quiet, SameEof
    <3>2. (hist'[id].fins > 0) = TRUE
      OBVIOUS
    <3>. QED BY <3>1, <3>2 DEF Eof
  <2>2. Eof' = [x \in Ids |-> Eof'[x]] /\ [Eof EXCEPT ![id] = TRUE] = [x \in Ids |-> [Eof EXCEPT ![id] = TRUE][x]]
    BY DEF Eof
  <2>. QED BY <2>1, <2>2
<1>3. Ended[id] /\ Got[id] = Sent[id]
  BY DEF Ended, Got, Sent
<1>. QED BY <1>1, <1>2, <1>3 DEF Pipe!Next, Pipe!Complete

\* What the actions do to the ghosts of a history leaves the rest of it alone.
LEMMA HistoryFields ==
  ASSUME NEW h \in History, NEW n \in Nat, NEW off \in Nat
  PROVE  /\ Finished(h) \in History /\ Finished(h).sent = h.sent /\ Finished(h).got = h.got
         /\ Finished(h).fins > 0
         /\ Finished([h EXCEPT !.granted = @ + n]).sent = h.sent
         /\ Finished([h EXCEPT !.granted = @ + n]).got = h.got
         /\ Finished([h EXCEPT !.granted = @ + n]).fins > 0
         /\ [h EXCEPT !.granted = @ + n].sent = h.sent
         /\ [h EXCEPT !.granted = @ + n].got = h.got
         /\ [h EXCEPT !.granted = @ + n].fins = h.fins
         /\ [Finished(h) EXCEPT !.granted = @ + n].sent = h.sent
         /\ [Finished(h) EXCEPT !.granted = @ + n].got = h.got
         /\ [Finished(h) EXCEPT !.granted = @ + n].fins > 0
         /\ [h EXCEPT !.rcvd = @ + n].sent = h.sent
         /\ [h EXCEPT !.rcvd = @ + n].got = h.got
         /\ [h EXCEPT !.rcvd = @ + n].fins = h.fins
         /\ Delivered(h, off, n).sent = h.sent
         /\ Delivered(h, off, n).got = h.got + n
         /\ Delivered(h, off, n).fins = h.fins
         /\ Delivered([h EXCEPT !.rcvd = @ + n], off, n).sent = h.sent
         /\ Delivered([h EXCEPT !.rcvd = @ + n], off, n).got = h.got + n
         /\ Delivered([h EXCEPT !.rcvd = @ + n], off, n).fins = h.fins
<1>1. PICK q \in 0 .. 2 : q = (IF h.fins < 2 THEN h.fins + 1 ELSE 2) /\ q > 0
  BY DEF History
<1>2. Finished(h) = [h EXCEPT !.fins = q]
  BY <1>1 DEF Finished
<1>3. PICK g : g = [h EXCEPT !.granted = @ + n]
  OBVIOUS
<1>4. g.fins = h.fins /\ g.sent = h.sent /\ g.got = h.got /\ g \in History
  <2>1. h.granted + n \in Nat
    BY DEF History
  <2>. QED BY <1>3, <2>1 DEF History
<1>5. Finished(g) = [g EXCEPT !.fins = q]
  BY <1>1, <1>4 DEF Finished
<1>6. Finished(g).sent = h.sent /\ Finished(g).got = h.got /\ Finished(g).fins > 0
  BY <1>1, <1>4, <1>5 DEF History
<1>7. /\ Finished(h) \in History /\ Finished(h).sent = h.sent /\ Finished(h).got = h.got
      /\ Finished(h).fins > 0
  BY <1>1, <1>2 DEF History
<1>8. PICK f : f = Finished(h)
  OBVIOUS
<1>9. /\ [f EXCEPT !.granted = @ + n].sent = f.sent /\ [f EXCEPT !.granted = @ + n].got = f.got
      /\ [f EXCEPT !.granted = @ + n].fins = f.fins
  BY <1>7, <1>8 DEF History
<1>10. PICK r : r = [h EXCEPT !.rcvd = @ + n]
  OBVIOUS
<1>11. r.sent = h.sent /\ r.got = h.got /\ r.fins = h.fins /\ DOMAIN r = DOMAIN h
  BY <1>10 DEF History
<1>12. /\ Delivered(h, off, n).sent = h.sent /\ Delivered(h, off, n).got = h.got + n
       /\ Delivered(h, off, n).fins = h.fins
  BY DEF Delivered, History
<1>13. /\ Delivered(r, off, n).sent = h.sent /\ Delivered(r, off, n).got = h.got + n
       /\ Delivered(r, off, n).fins = h.fins
  BY <1>11 DEF Delivered, History
<1>14. /\ Finished([h EXCEPT !.granted = @ + n]).sent = h.sent
       /\ Finished([h EXCEPT !.granted = @ + n]).got = h.got
       /\ Finished([h EXCEPT !.granted = @ + n]).fins > 0
       /\ [h EXCEPT !.granted = @ + n].sent = h.sent
       /\ [h EXCEPT !.granted = @ + n].got = h.got
       /\ [h EXCEPT !.granted = @ + n].fins = h.fins
  BY <1>3, <1>4, <1>6
<1>15. /\ [Finished(h) EXCEPT !.granted = @ + n].sent = h.sent
       /\ [Finished(h) EXCEPT !.granted = @ + n].got = h.got
       /\ [Finished(h) EXCEPT !.granted = @ + n].fins > 0
  BY <1>7, <1>8, <1>9
<1>16. /\ [h EXCEPT !.rcvd = @ + n].sent = h.sent
       /\ [h EXCEPT !.rcvd = @ + n].got = h.got
       /\ [h EXCEPT !.rcvd = @ + n].fins = h.fins
       /\ Delivered([h EXCEPT !.rcvd = @ + n], off, n).sent = h.sent
       /\ Delivered([h EXCEPT !.rcvd = @ + n], off, n).got = h.got + n
       /\ Delivered([h EXCEPT !.rcvd = @ + n], off, n).fins = h.fins
  BY <1>10, <1>11, <1>13
<1>. QED BY <1>7, <1>12, <1>14, <1>15, <1>16

\* The history of one stream changes, to h.
LEMMA OthersQuiet ==
  ASSUME TypeOK, NEW id \in Ids, NEW h, hist' = [hist EXCEPT ![id] = h],
         \A x \in Ids : tx'[x].fin = tx[x].fin
  PROVE  hist'[id] = h /\ SameEnd(id) /\ \A x \in Ids \ {id} : Quiet(x)
  BY DEF TypeOK, Quiet, SameSent, SameGot, SameEof, SameEnd

\* DATA: the pipe delivers, unless the stream is paused or shut.
LEMMA PipeData ==
  ASSUME IInv, IInv', NEW e \in End, HandleData(e)
  PROVE  Pipe!Next \/ UNCHANGED <<Sent, Got, Ended, Eof>>
<1>1. TypeOK /\ CountInv /\ CountInv' /\ TypeOK' /\ tx' = tx
  BY DEF IInv, HandleData, ProtocolError, Drop
<1>2. CASE hist' = hist
  BY <1>1, <1>2, QuietPipe DEF Quiet, SameSent, SameGot, SameEof, SameEnd
<1>3. CASE hist' # hist
  <2>1. Receives(e, "DATA")
    BY DEF HandleData
  <2>2. /\ FrameOK(Peer(e), Head(chan[Peer(e)])) /\ Head(chan[Peer(e)]).n \in Nat
        /\ Head(chan[Peer(e)]).off \in Nat /\ Head(chan[Peer(e)]).t = "DATA"
    BY <2>1, Received1 DEF FrameTypes
  <2>3. PICK id \in Ids : id = Head(chan[Peer(e)]).id
    BY <2>2 DEF FrameOK
  <2>4. PICK n \in Nat, off \in Nat : n = Head(chan[Peer(e)]).n /\ off = Head(chan[Peer(e)]).off /\ n > 0
    BY <2>2 DEF FrameOK
  <2>5. \/ hist' = [hist EXCEPT ![id] = [hist[id] EXCEPT !.rcvd = @ + n]]
        \/ hist' = [hist EXCEPT ![id] = Delivered([hist[id] EXCEPT !.rcvd = @ + n], off, n)]
    BY <1>3, <2>3, <2>4 DEF HandleData, ProtocolError, Drop
  <2>6. ~rx[id].fin /\ ~(hist[id].fins > 0)
    <3>1. ~rx[id].fin
      BY <1>3, <2>3 DEF HandleData, ProtocolError, Drop
    <3>. QED BY <3>1, <1>1 DEF CountInv
  <2>7. PICK h : h = [hist[id] EXCEPT !.rcvd = @ + n]
    OBVIOUS
  <2>8. PICK d : d = Delivered([hist[id] EXCEPT !.rcvd = @ + n], off, n)
    OBVIOUS
  <2>9. /\ h.sent = hist[id].sent /\ h.got = hist[id].got /\ h.fins = hist[id].fins
        /\ d.sent = hist[id].sent /\ d.got = hist[id].got + n /\ d.fins = hist[id].fins
        /\ hist[id].got \in Nat
    <3>1. hist[id] \in History /\ hist[id].got \in Nat
      BY <1>1, StreamTypes
    <3>2. /\ [hist[id] EXCEPT !.rcvd = @ + n].sent = hist[id].sent
          /\ [hist[id] EXCEPT !.rcvd = @ + n].got = hist[id].got
          /\ [hist[id] EXCEPT !.rcvd = @ + n].fins = hist[id].fins
      BY <3>1, HistoryFields
    <3>3. /\ Delivered([hist[id] EXCEPT !.rcvd = @ + n], off, n).sent = hist[id].sent
          /\ Delivered([hist[id] EXCEPT !.rcvd = @ + n], off, n).got = hist[id].got + n
          /\ Delivered([hist[id] EXCEPT !.rcvd = @ + n], off, n).fins = hist[id].fins
      BY <3>1, HistoryFields
    <3>. QED BY <2>7, <2>8, <3>1, <3>2, <3>3
  <2>10. CASE hist' = [hist EXCEPT ![id] = h]
    <3>1. hist'[id] = h /\ SameEnd(id) /\ \A x \in Ids \ {id} : Quiet(x)
      BY <1>1, <2>10, OthersQuiet
    <3>2. Quiet(id)
      BY <2>9, <3>1 DEF Quiet, SameSent, SameGot, SameEof
    <3>. QED BY <3>1, <3>2, QuietPipe
  <2>11. CASE hist' = [hist EXCEPT ![id] = d]
    <3>1. hist'[id] = d /\ SameEnd(id) /\ \A x \in Ids \ {id} : Quiet(x)
      BY <1>1, <2>11, OthersQuiet
    <3>2. hist'[id].got <= hist'[id].rcvd /\ hist'[id].rcvd <= hist'[id].sent
      BY <1>1 DEF CountInv
    <3>3. hist'[id].got \in Nat /\ hist'[id].rcvd \in Nat /\ hist'[id].sent \in Nat
      BY <1>1 DEF TypeOK, History
    <3>4. hist'[id].got > hist[id].got /\ hist'[id].got <= hist[id].sent
      BY <2>4, <2>9, <3>1, <3>2, <3>3
    <3>5. SameSent(id) /\ SameEof(id)
      BY <2>9, <3>1 DEF SameSent, SameEof
    <3>. QED BY <2>6, <3>1, <3>3, <3>4, <3>5, DeliverPipe
  <2>. QED BY <2>5, <2>7, <2>8, <2>10, <2>11
<1>. QED BY <1>2, <1>3

\* A step that credits bytes or reports FINISHED: the pipe completes, or nothing.
LEMMA PipeSettle ==
  ASSUME IInv, IInv', NEW id \in Ids, NEW h, hist' = [hist EXCEPT ![id] = h],
         \A x \in Ids : tx'[x].fin = tx[x].fin,
         h.sent = hist[id].sent, h.got = hist[id].got,
         h.fins > 0 \/ h.fins = hist[id].fins
  PROVE  Pipe!Next \/ UNCHANGED <<Sent, Got, Ended, Eof>>
<1>1. TypeOK /\ CountInv' /\ EofInv'
  BY DEF IInv
<1>2. hist'[id] = h /\ SameEnd(id) /\ \A x \in Ids \ {id} : Quiet(x)
  BY <1>1, OthersQuiet
<1>3. SameSent(id) /\ SameGot(id)
  BY <1>2 DEF SameSent, SameGot
<1>4. CASE h.fins > 0
  <2>1. rx'[id].fin /\ hist'[id].got = hist'[id].sent
    BY <1>1, <1>2, <1>4 DEF CountInv
  <2>2. tx'[id].fin
    BY <1>1, <2>1 DEF EofInv
  <2>3. tx[id].fin = TRUE
    BY <1>1, <1>2, <2>2, StreamTypes DEF SameEnd, TxStream
  <2>4. hist[id].got = hist[id].sent /\ hist'[id].fins > 0
    BY <1>2, <1>4, <2>1
  <2>. QED BY <1>2, <1>3, <2>3, <2>4, CompletePipe
<1>5. CASE ~(h.fins > 0)
  <2>1. Quiet(id)
    BY <1>2, <1>3, <1>5 DEF Quiet, SameEof
  <2>. QED BY <2>1, <1>2, QuietPipe
<1>. QED BY <1>4, <1>5

\* EOF: the pipe completes, unless the EOF is held back.
LEMMA PipeEof ==
  ASSUME IInv, IInv', NEW e \in End, HandleEof(e)
  PROVE  Pipe!Next \/ UNCHANGED <<Sent, Got, Ended, Eof>>
<1>1. TypeOK /\ tx' = tx
  BY DEF IInv, HandleEof, ProtocolError, Drop
<1>2. CASE hist' = hist
  BY <1>1, <1>2, QuietPipe DEF Quiet, SameSent, SameGot, SameEof, SameEnd
<1>3. CASE hist' # hist
  <2>1. Receives(e, "EOF")
    BY DEF HandleEof
  <2>2. FrameOK(Peer(e), Head(chan[Peer(e)])) /\ Head(chan[Peer(e)]).t = "EOF"
    BY <2>1, Received1 DEF FrameTypes
  <2>3. PICK id \in Ids : id = Head(chan[Peer(e)]).id
    BY <2>2 DEF FrameOK
  <2>4. PICK n \in Nat : n = rx[id].pend
    BY <1>1, StreamTypes
  <2>5. \/ hist' = [hist EXCEPT ![id] = Finished(hist[id])]
        \/ hist' = [hist EXCEPT ![id] = Finished([hist[id] EXCEPT !.granted = @ + n])]
    BY <1>3, <2>3, <2>4 DEF HandleEof, ProtocolError, Drop
  <2>6. hist[id] \in History /\ 0 \in Nat
    BY <1>1, StreamTypes
  <2>7. PICK h : hist' = [hist EXCEPT ![id] = h]
                 /\ h.sent = hist[id].sent /\ h.got = hist[id].got /\ h.fins > 0
    <3>1. /\ Finished(hist[id]).sent = hist[id].sent /\ Finished(hist[id]).got = hist[id].got
          /\ Finished(hist[id]).fins > 0
      BY <2>6, HistoryFields
    <3>2. /\ Finished([hist[id] EXCEPT !.granted = @ + n]).sent = hist[id].sent
          /\ Finished([hist[id] EXCEPT !.granted = @ + n]).got = hist[id].got
          /\ Finished([hist[id] EXCEPT !.granted = @ + n]).fins > 0
      BY <2>6, HistoryFields
    <3>. QED BY <2>5, <3>1, <3>2
  <2>. QED BY <1>1, <2>7, PipeSettle
<1>. QED BY <1>2, <1>3

\* A callback returns: the pipe completes when an EOF waited for a resume.
LEMMA PipeReturn ==
  ASSUME IInv, IInv', NEW e \in End, DataReturn(e) \/ ResumeReturn(e)
  PROVE  Pipe!Next \/ UNCHANGED <<Sent, Got, Ended, Eof>>
<1>1. TypeOK /\ tx' = tx /\ ~Idle(e)
  BY DEF IInv, DataReturn, ResumeReturn
<1>2. CASE hist' = hist
  BY <1>1, <1>2, QuietPipe DEF Quiet, SameSent, SameGot, SameEof, SameEnd
<1>3. CASE hist' # hist
  <2>1. PICK id \in Ids : id = Top(e).id
    BY <1>1, CallTypes DEF Top, Idle
  <2>2. hist[id] \in History /\ Top(e).n \in Nat /\ rx[id].pend \in Nat /\ 0 \in Nat
    BY <1>1, StreamTypes, CallTypes DEF Top, Idle
  <2>3. PICK n \in Nat : n = rx[id].pend + Top(e).n
    BY <2>2
  <2>4. \/ hist' = [hist EXCEPT ![id] = [hist[id] EXCEPT !.granted = @ + n]]
        \/ hist' = [hist EXCEPT ![id] = [Finished(hist[id]) EXCEPT !.granted = @ + n]]
    <3>1. CASE DataReturn(e)
      BY <1>3, <2>1, <2>3, <3>1 DEF DataReturn
    <3>2. CASE ResumeReturn(e)
      <4>1. PICK h : h = IF [rx[id] EXCEPT !.rxlen = 0].fin THEN Finished(hist[id]) ELSE hist[id]
        OBVIOUS
      <4>2. hist' = [hist EXCEPT ![id] = [h EXCEPT !.granted = @ + n]]
        BY <1>3, <2>1, <2>3, <3>2, <4>1 DEF ResumeReturn
      <4>. QED BY <4>1, <4>2
    <3>. QED BY <3>1, <3>2
  <2>5. PICK h : /\ hist' = [hist EXCEPT ![id] = h]
                 /\ h.sent = hist[id].sent /\ h.got = hist[id].got
                 /\ h.fins > 0 \/ h.fins = hist[id].fins
    <3>1. /\ [hist[id] EXCEPT !.granted = @ + n].sent = hist[id].sent
          /\ [hist[id] EXCEPT !.granted = @ + n].got = hist[id].got
          /\ [hist[id] EXCEPT !.granted = @ + n].fins = hist[id].fins
      BY <2>2, HistoryFields
    <3>2. /\ [Finished(hist[id]) EXCEPT !.granted = @ + n].sent = hist[id].sent
          /\ [Finished(hist[id]) EXCEPT !.granted = @ + n].got = hist[id].got
          /\ [Finished(hist[id]) EXCEPT !.granted = @ + n].fins > 0
      BY <2>2, HistoryFields
    <3>. QED BY <2>4, <3>1, <3>2
  <2>. QED BY <1>1, <2>5, PipeSettle
<1>. QED BY <1>2, <1>3

\* Resume: the pipe delivers what was held back, or completes.
LEMMA PipeResume ==
  ASSUME IInv, IInv', Contract, NEW e \in End, NEW id \in Ids, StreamResume(e, id)
  PROVE  Pipe!Next \/ UNCHANGED <<Sent, Got, Ended, Eof>>
<1>1. /\ TypeOK /\ TypeOK' /\ CountInv /\ CountInv' /\ ReaderInv /\ tx' = tx
      /\ \A x \in Ids : tx'[x].fin = tx[x].fin
  BY DEF IInv, StreamResume
<1>2. PICK s : s = [rx[id] EXCEPT !.paused = FALSE]
  OBVIOUS
<1>3. PICK n \in Nat, m \in Nat : n = rx[id].pend /\ m = rx[id].rxlen
  BY <1>1, StreamTypes
<1>4. s.rxlen = m /\ s.pend = n
  BY <1>1, <1>2, <1>3, StreamTypes DEF RxStream
<1>5. PICK o \in Nat : o = hist[id].rcvd - m
  <2>1. ~InCall(Reader(id), "resume", id) /\ rx[id].st = "live" /\ ~rx[id].rst
    BY <1>1, StreamTypes, Ends DEF StreamResume, Contract, Resuming, Ids
  <2>2. hist[id].got = hist[id].rcvd - m
    BY <1>1, <1>3, <2>1 DEF ReaderInv
  <2>. QED BY <1>1, <2>2, StreamTypes
<1>6. hist[id] \in History /\ hist[id].got \in Nat /\ 0 \in Nat
  BY <1>1, StreamTypes
<1>7. \/ m > 0 /\ hist' = [hist EXCEPT ![id] = Delivered(hist[id], o, m)]
      \/ hist' = [hist EXCEPT ![id] = Finished([hist[id] EXCEPT !.granted = @ + n])]
      \/ hist' = [hist EXCEPT ![id] = Finished(hist[id])]
      \/ hist' = [hist EXCEPT ![id] = hist[id]]
  BY <1>2, <1>4, <1>5 DEF StreamResume
<1>8. CASE m > 0 /\ hist' = [hist EXCEPT ![id] = Delivered(hist[id], o, m)]
  <2>1. PICK d : d = Delivered(hist[id], o, m)
    OBVIOUS
  <2>2. d.sent = hist[id].sent /\ d.got = hist[id].got + m /\ d.fins = hist[id].fins
    BY <1>6, <2>1, HistoryFields
  <2>3. hist'[id] = d /\ SameEnd(id) /\ \A x \in Ids \ {id} : Quiet(x)
    BY <1>1, <1>8, <2>1, OthersQuiet
  <2>4. hist'[id].got <= hist'[id].rcvd /\ hist'[id].rcvd <= hist'[id].sent
    BY <1>1 DEF CountInv
  <2>5. hist'[id].got \in Nat /\ hist'[id].rcvd \in Nat /\ hist'[id].sent \in Nat
    BY <1>1 DEF TypeOK, History
  <2>6. hist'[id].got > hist[id].got /\ hist'[id].got <= hist[id].sent
    BY <1>6, <1>8, <2>2, <2>3, <2>4, <2>5
  <2>7. SameSent(id) /\ SameEof(id)
    BY <2>2, <2>3 DEF SameSent, SameEof
  <2>8. ~(hist[id].fins > 0)
    <3>1. hist[id].fins > 0 => hist[id].got = hist[id].sent
      BY <1>1 DEF CountInv
    <3>2. hist[id].sent = hist'[id].sent
      BY <2>2, <2>3
    <3>. QED BY <3>1, <3>2, <1>6, <2>5, <2>6
  <2>. QED BY <2>3, <2>5, <2>6, <2>7, <2>8, DeliverPipe
<1>9. CASE \/ hist' = [hist EXCEPT ![id] = Finished([hist[id] EXCEPT !.granted = @ + n])]
           \/ hist' = [hist EXCEPT ![id] = Finished(hist[id])]
           \/ hist' = [hist EXCEPT ![id] = hist[id]]
  <2>1. PICK h : /\ hist' = [hist EXCEPT ![id] = h]
                 /\ h.sent = hist[id].sent /\ h.got = hist[id].got
                 /\ h.fins > 0 \/ h.fins = hist[id].fins
    <3>1. /\ Finished(hist[id]).sent = hist[id].sent /\ Finished(hist[id]).got = hist[id].got
          /\ Finished(hist[id]).fins > 0
      BY <1>6, HistoryFields
    <3>2. /\ Finished([hist[id] EXCEPT !.granted = @ + n]).sent = hist[id].sent
          /\ Finished([hist[id] EXCEPT !.granted = @ + n]).got = hist[id].got
          /\ Finished([hist[id] EXCEPT !.granted = @ + n]).fins > 0
      BY <1>6, HistoryFields
    <3>. QED BY <1>9, <3>1, <3>2
  <2>. QED BY <1>1, <2>1, PipeSettle
<1>. QED BY <1>7, <1>8, <1>9

\* A chunk of a write: the pipe takes it.
LEMMA PipeWrite ==
  ASSUME IInv, IInv', NEW e \in End, WriteChunk(e)
  PROVE  Pipe!Next
<1>1. TypeOK /\ TypeOK' /\ CallInv /\ tx' = tx /\ \A x \in Ids : tx'[x].fin = tx[x].fin
  BY DEF IInv, WriteChunk
<1>2. ~Idle(e) /\ Top(e).k = "write" /\ Top(e).n > 0
  BY DEF WriteChunk
<1>3. /\ Len(cb[e]) \in 1 .. Len(cb[e]) /\ Top(e) = cb[e][Len(cb[e])]
      /\ Top(e).id \in Ids /\ Top(e).n \in Nat
  <2>1. Len(cb[e]) \in 1 .. Len(cb[e])
    BY <1>1, <1>2, CallTypes DEF Idle
  <2>. QED BY <2>1, <1>1, CallTypes DEF Top
<1>4. PICK id \in Ids : id = Top(e).id
  BY <1>3
<1>5. ~tx[id].fin
  BY <1>1, <1>2, <1>3, <1>4 DEF CallInv
<1>6. PICK chunk \in Nat : chunk = (IF Top(e).n > MaxChunk THEN MaxChunk ELSE Top(e).n) /\ chunk > 0
  BY <1>2, <1>3, SessionAssumption
<1>7. hist' = [hist EXCEPT ![id].sent = @ + chunk]
  BY <1>4, <1>6 DEF WriteChunk
<1>8. PICK h : h = [hist[id] EXCEPT !.sent = @ + chunk]
  OBVIOUS
<1>9. h.sent = hist[id].sent + chunk /\ h.got = hist[id].got /\ h.fins = hist[id].fins
      /\ hist[id].sent \in Nat
  BY <1>1, <1>8, StreamTypes DEF History
<1>10. hist' = [hist EXCEPT ![id] = h]
  BY <1>7, <1>8
<1>11. hist'[id] = h /\ SameEnd(id) /\ \A x \in Ids \ {id} : Quiet(x)
  BY <1>1, <1>10, OthersQuiet
<1>12. SameGot(id) /\ SameEof(id) /\ hist'[id].sent \in Nat /\ hist'[id].sent > hist[id].sent
  BY <1>6, <1>9, <1>11 DEF SameGot, SameEof
<1>. QED BY <1>5, <1>11, <1>12, WritePipe

\* finish ends the pipe.
LEMMA PipeFinish ==
  ASSUME IInv, NEW e \in End, NEW id \in Ids, StreamFinish(e, id)
  PROVE  Pipe!Next
<1>1. TypeOK /\ ~tx[id].fin /\ hist' = hist /\ tx' = [tx EXCEPT ![id].fin = TRUE]
  BY DEF IInv, StreamFinish
<1>2. tx'[id].fin = TRUE /\ \A x \in Ids \ {id} : tx'[x] = tx[x]
  BY <1>1 DEF TypeOK, TxStream
<1>. QED BY <1>1, <1>2, FinishPipe DEF Quiet, SameSent, SameGot, SameEof, SameEnd

\* Nothing else shows at the pipe: first what leaves the histories and fin alone ...
LEMMA PipeSame ==
  ASSUME hist' = hist, \A x \in Ids : tx'[x].fin = tx[x].fin
  PROVE  UNCHANGED <<Sent, Got, Ended, Eof>>
  BY QuietPipe DEF Quiet, SameSent, SameGot, SameEof, SameEnd

\* ... and a change to one field of one tx record other than fin.
LEMMA FinKept ==
  ASSUME TypeOK, NEW x, NEW b,
         \/ tx' = [tx EXCEPT ![x].rst = b]
         \/ tx' = [tx EXCEPT ![x].st = b]
         \/ tx' = [tx EXCEPT ![x].win = b]
  PROVE  \A y \in Ids : tx'[y].fin = tx[y].fin
<1> SUFFICES ASSUME NEW y \in Ids PROVE tx'[y].fin = tx[y].fin
  OBVIOUS
<1>1. DOMAIN tx = Ids /\ tx[y] \in TxStream
  BY DEF TypeOK
<1>2. CASE x = y
  BY <1>1, <1>2 DEF TxStream
<1>3. CASE x # y
  BY <1>1, <1>3
<1>. QED BY <1>2, <1>3

LEMMA PipeOpen ==
  ASSUME IInv, NEW e \in End, StreamOpen(e)
  PROVE  UNCHANGED <<Sent, Got, Ended, Eof>>
<1>1. /\ TypeOK /\ IdsInv /\ FreshInv /\ nextId[e] \in Nat /\ nextId[e] > 0
      /\ Opener(nextId[e]) = e /\ nextId[e] <= MaxId
  BY DEF IInv, IdsInv, TypeOK, StreamOpen
<1>2. PICK x \in Ids : x = nextId[e]
  BY <1>1, SessionAssumption DEF Ids
<1>3. tx[x] = NoTx
  <2>1. x >= nextId[Opener(x)]
    BY <1>1, <1>2
  <2>2. tx[x].st = "none"
    BY <1>1, <2>1 DEF IdsInv
  <2>. QED BY <1>1, <2>2 DEF FreshInv
<1>4. hist' = hist /\ tx' = [tx EXCEPT ![x] = [NoTx EXCEPT !.st = "live", !.win = Window[e]]]
  BY <1>2 DEF StreamOpen
<1>5. [NoTx EXCEPT !.st = "live", !.win = Window[e]].fin = NoTx.fin
  BY DEF NoTx
<1>6. \A y \in Ids : tx'[y].fin = tx[y].fin
  BY <1>1, <1>3, <1>4, <1>5 DEF TypeOK
<1>. QED BY <1>4, <1>6, PipeSame

\* A credit changes the window of the writer, which the pipe does not show.
LEMMA PipeCredit ==
  ASSUME IInv, NEW e \in End, HandleWindow(e)
  PROVE  UNCHANGED <<Sent, Got, Ended, Eof>>
<1>1. TypeOK
  BY DEF IInv
<1>2. CASE hist' = hist /\ tx' = tx
  BY <1>2, PipeSame
<1>3. CASE ~(hist' = hist /\ tx' = tx)
  <2>1. PICK x, n, b : /\ hist' = [hist EXCEPT ![x].credited = @ + n]
                       /\ tx' = [tx EXCEPT ![x].win = b]
    <3>1. PICK x, n : x = Head(chan[Peer(e)]).id /\ n = Head(chan[Peer(e)]).n
      OBVIOUS
    <3>2. /\ hist' = [hist EXCEPT ![x].credited = @ + n]
          /\ tx' = [tx EXCEPT ![x].win = Add32(tx[x].win, n)]
      BY <1>3, <3>1 DEF HandleWindow, ProtocolError, Drop
    <3>. QED BY <3>2
  <2>2. \A y \in Ids : tx'[y].fin = tx[y].fin
    BY <1>1, <2>1, FinKept
  <2>3. \A y \in Ids : SameSent(y) /\ SameGot(y) /\ SameEof(y)
    <3> SUFFICES ASSUME NEW y \in Ids
                 PROVE  hist'[y].sent = hist[y].sent /\ hist'[y].got = hist[y].got
                        /\ hist'[y].fins = hist[y].fins
      BY DEF SameSent, SameGot, SameEof
    <3>1. DOMAIN hist = Ids /\ hist[y] \in History
      BY <1>1 DEF TypeOK
    <3>2. CASE x = y
      BY <2>1, <3>1, <3>2 DEF History
    <3>3. CASE x # y
      BY <2>1, <3>1, <3>3
    <3>. QED BY <3>2, <3>3
  <2>. QED BY <2>2, <2>3, QuietPipe DEF Quiet, SameEnd
<1>. QED BY <1>2, <1>3

\* The other steps of an end.
LEMMA PipeQuiet ==
  ASSUME IInv, NEW e \in End,
         \/ HandleOpen(e) \/ HandleReset(e) \/ HandleGoaway(e)
         \/ WriteReturn(e) \/ Close(e) \/ OnWritable(e) \/ OnError(e)
  PROVE  UNCHANGED <<Sent, Got, Ended, Eof>>
<1>1. TypeOK
  BY DEF IInv
<1>2. CASE HandleOpen(e) \/ HandleGoaway(e) \/ Close(e) \/ OnWritable(e) \/ OnError(e)
  <2>1. hist' = hist /\ tx' = tx
    BY <1>2 DEF HandleOpen, HandleGoaway, Close, OnWritable, OnError, ProtocolError
  <2>. QED BY <2>1, PipeSame
<1>3. CASE HandleReset(e)
  <2>1. hist' = hist
    BY <1>3 DEF HandleReset
  <2>2. PICK x : x = Head(chan[Peer(e)]).id
    OBVIOUS
  <2>3. tx' = tx \/ tx' = [tx EXCEPT ![x].rst = TRUE]
    BY <1>3, <2>2 DEF HandleReset
  <2>4. \A y \in Ids : tx'[y].fin = tx[y].fin
    BY <1>1, <2>3, FinKept
  <2>. QED BY <2>1, <2>4, PipeSame
<1>4. CASE WriteReturn(e)
  <2>1. hist' = hist
    BY <1>4 DEF WriteReturn
  <2>2. PICK x, b : x = Top(e).id /\ b = Sub32(tx[x].win, Top(e).a)
    OBVIOUS
  <2>3. tx' = [tx EXCEPT ![x].win = b]
    BY <1>4, <2>2 DEF WriteReturn
  <2>4. \A y \in Ids : tx'[y].fin = tx[y].fin
    BY <1>1, <2>3, FinKept
  <2>. QED BY <2>1, <2>4, PipeSame
<1>. QED BY <1>2, <1>3, <1>4

\* The other calls on a stream.
LEMMA PipeCall ==
  ASSUME IInv, NEW e \in End, NEW id \in Ids,
         \/ \E len \in 1 .. MaxBytes : StreamWrite(e, id, len)
         \/ StreamReset(e, id) \/ StreamPause(e, id) \/ StreamRelease(e, id)
  PROVE  UNCHANGED <<Sent, Got, Ended, Eof>>
<1>1. TypeOK
  BY DEF IInv
<1>2. hist' = hist
  BY DEF StreamWrite, StreamReset, StreamPause, StreamRelease
<1>3. tx' = tx \/ tx' = [tx EXCEPT ![id].rst = TRUE] \/ tx' = [tx EXCEPT ![id].st = "gone"]
  BY DEF StreamWrite, StreamReset, StreamPause, StreamRelease
<1>4. \A y \in Ids : tx'[y].fin = tx[y].fin
  BY <1>1, <1>3, FinKept
<1>. QED BY <1>2, <1>4, PipeSame

-----------------------------------------------------------------------------
\* Every behaviour of the two engines is, for each stream, one of the pipe.
THEOREM EnginesImplementPipe == Contract => (Spec => ImplementsPipe)
<1> SUFFICES ASSUME Contract PROVE Spec => ImplementsPipe
  OBVIOUS
<1>1. ASSUME Init PROVE Pipe!Init
  <2>1. \A id \in Ids : hist[id] = NoHistory /\ tx[id] = NoTx
    BY <1>1 DEF Init
  <2>2. NoHistory.sent = 0 /\ NoHistory.got = 0 /\ ~(NoHistory.fins > 0) /\ NoTx.fin = FALSE
    BY DEF NoHistory, NoTx
  <2>3. Sent = [id \in Ids |-> 0] /\ Got = [id \in Ids |-> 0]
    BY <2>1, <2>2 DEF Sent, Got
  <2>4. Ended = [id \in Ids |-> FALSE]
    BY <2>1, <2>2 DEF Ended
  <2>5. Eof = [id \in Ids |-> FALSE]
    <3>1. \A id \in Ids : (hist[id].fins > 0) = FALSE
      BY <2>1, <2>2
    <3>. QED BY <3>1 DEF Eof
  <2>. QED BY <2>3, <2>4, <2>5 DEF Pipe!Init
<1>2. ASSUME IInv, IInv', [Next]_vars
      PROVE  Pipe!Next \/ UNCHANGED <<Sent, Got, Ended, Eof>>
  <2>1. CASE UNCHANGED vars
    BY <2>1 DEF vars, Sent, Got, Ended, Eof
  <2>2. CASE Next
    <3>1. PICK e \in End : ProcessFrame(e) \/ Return(e) \/ App(e) \/ OnWritable(e) \/ OnError(e)
      BY <2>2 DEF Next
    <3>2. CASE ProcessFrame(e)
      BY <1>2, <3>2, PipeData, PipeEof, PipeCredit, PipeQuiet DEF ProcessFrame
    <3>3. CASE Return(e)
      BY <1>2, <3>3, PipeReturn, PipeWrite, PipeQuiet DEF Return
    <3>4. CASE App(e)
      <4>1. CASE StreamOpen(e) \/ Close(e)
        BY <1>2, <4>1, PipeOpen, PipeQuiet
      <4>2. ASSUME NEW id \in Ids,
                   \/ \E len \in 1 .. MaxBytes : StreamWrite(e, id, len)
                   \/ StreamFinish(e, id) \/ StreamReset(e, id) \/ StreamPause(e, id)
                   \/ StreamResume(e, id) \/ StreamRelease(e, id)
            PROVE  Pipe!Next \/ UNCHANGED <<Sent, Got, Ended, Eof>>
        <5>1. CASE StreamFinish(e, id)
          BY <1>2, <5>1, PipeFinish
        <5>2. CASE StreamResume(e, id)
          BY <1>2, <5>2, PipeResume
        <5>3. CASE ~StreamFinish(e, id) /\ ~StreamResume(e, id)
          BY <1>2, <4>2, <5>3, PipeCall
        <5>. QED BY <5>1, <5>2, <5>3
      <4>. QED BY <3>4, <4>1, <4>2 DEF App
    <3>5. CASE OnWritable(e) \/ OnError(e)
      BY <1>2, <3>5, PipeQuiet
    <3>. QED BY <3>1, <3>2, <3>3, <3>4, <3>5
  <2>. QED BY <1>2, <2>1, <2>2
<1>3. IInv /\ IInv' /\ [Next]_vars => [Pipe!Next]_(Pipe!pipeVars)
  BY <1>2 DEF Pipe!pipeVars
<1>. QED BY <1>1, <1>3, InvariantHolds, PTL DEF Spec, ImplementsPipe, Pipe!Spec
=============================================================================
