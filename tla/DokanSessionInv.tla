-------------------------- MODULE DokanSessionInv ---------------------------
(***************************************************************************)
(* The inductive invariant of DokanSession, in named parts.  It holds for  *)
(* applications that keep to the resume contract (FreeResume is FALSE).    *)
(***************************************************************************)
EXTENDS DokanSession

\* The i-th element of w is a frame of type t about stream id.
Is(w, i, t, id) == w[i].t = t /\ w[i].id = id
Has(w, t, id) == \E i \in 1 .. Len(w) : Is(w, i, t, id)

(***************************************************************************)
(* The frames of type t about id in w carry the range lo .. hi - 1 of      *)
(* bytes (or of credit) without gap or overlap: they are ordered, and each *)
(* of them, like the end hi, starts at lo or where an earlier one ends.    *)
(***************************************************************************)
Chain(w, t, id, lo, hi) ==
  /\ lo <= hi
  /\ \A i \in 1 .. Len(w) : Is(w, i, t, id) =>
       /\ w[i].n > 0
       /\ lo <= w[i].off
       /\ w[i].off + w[i].n <= hi
       /\ \A j \in 1 .. Len(w) : j > i /\ Is(w, j, t, id) =>
            w[i].off + w[i].n <= w[j].off
       /\ \/ w[i].off = lo
          \/ \E h \in 1 .. Len(w) : /\ h < i /\ Is(w, h, t, id)
                                    /\ w[h].off + w[h].n = w[i].off
  /\ \/ lo = hi
     \/ \E h \in 1 .. Len(w) : Is(w, h, t, id) /\ w[h].off + w[h].n = hi


\* An OPEN of id comes before everything else its opener sends about id ...
OpenFirst(w, id) ==
  \A i, j \in 1 .. Len(w) : i < j /\ Is(w, j, "OPEN", id) =>
    ~Is(w, i, "OPEN", id) /\ ~Is(w, i, "DATA", id) /\ ~Is(w, i, "EOF", id)

\* ... and an EOF after all of it.
EofLast(w, id) ==
  \A i, j \in 1 .. Len(w) : i < j /\ Is(w, i, "EOF", id) =>
    ~Is(w, j, "DATA", id) /\ ~Is(w, j, "EOF", id)

\* Frames about a stream travel once it exists, in the direction of their type.
FrameOK(e, f) ==
  f.t # "GOAWAY" =>
    /\ f.id \in Ids /\ tx[f.id].st # "none"
    /\ f.t \in {"OPEN", "DATA", "EOF"} => Opener(f.id) = e
    /\ f.t = "WINDOW" => Opener(f.id) # e
    /\ f.t \in {"DATA", "WINDOW"} => f.n > 0

-----------------------------------------------------------------------------
\* Ids are handed out in order, each parity by its own end.
IdsInv ==
  /\ \A e \in End : nextId[e] > 0 /\ Opener(nextId[e]) = e
  /\ \A id \in Ids : tx[id].st = "none" <=> id >= nextId[Opener(id)]

FramesInv == \A e \in End : \A i \in 1 .. Len(chan[e]) : FrameOK(e, chan[e][i])

\* A stream the reader has not seen is announced, and was opened.
OpenInv ==
  \A id \in Ids :
    /\ tx[id].st = "none" => rx[id].st = "none"
    /\ Has(chan[Opener(id)], "OPEN", id) <=> tx[id].st # "none" /\ rx[id].st = "none"
    /\ OpenFirst(chan[Opener(id)], id)

\* Before a stream exists at an end, nothing has happened to it there.
FreshInv ==
  \A id \in Ids :
    /\ tx[id].st = "none" => tx[id] = NoTx /\ hist[id] = NoHistory
    /\ rx[id].st = "none" =>
         /\ rx[id] = NoRx
         /\ hist[id].rcvd = 0 /\ hist[id].got = 0
         /\ hist[id].granted = 0 /\ hist[id].fins = 0

\* The writer finishes before the reader sees it, and EOF ends what it sends.
EofInv ==
  \A id \in Ids :
    LET w == chan[Opener(id)] IN
    /\ ~tx[id].fin => ~rx[id].fin /\ ~Has(w, "EOF", id)
    /\ rx[id].fin => ~Has(w, "EOF", id) /\ ~Has(w, "DATA", id)
    /\ EofLast(w, id)

\* Data and credit under way fill the gap between what the two ends count.
DataInv ==
  \A id \in Ids : rx[id].st # "gone" /\ ~rx[id].rst =>
    Chain(chan[Opener(id)], "DATA", id, hist[id].rcvd, hist[id].sent)

CreditInv ==
  \A id \in Ids : tx[id].st # "gone" /\ ~tx[id].rst =>
    Chain(chan[Reader(id)], "WINDOW", id, hist[id].credited, hist[id].granted)

\* The order of the counts, and what of the window is left.
CountInv ==
  \A id \in Ids :
    LET h == hist[id] IN
    /\ h.credited <= h.granted /\ h.granted <= h.rcvd
    /\ h.got <= h.rcvd /\ h.rcvd <= h.sent
    /\ h.at + h.last = h.got
    /\ h.sent <= Window[Opener(id)] + h.credited
    /\ h.fins > 0 => rx[id].fin /\ h.got = h.sent

\* The calls in progress: a write is the innermost call of its end, a DATA
\* callback runs for a stream of the peer and only one for each stream.
CallInv ==
  \A e \in End :
    /\ \A i \in 1 .. Len(cb[e]) :
         LET c == cb[e][i] IN
         IF c.k = "write"
         THEN /\ i = Len(cb[e]) /\ Opener(c.id) = e
              /\ tx[c.id].st = "live" /\ ~tx[c.id].fin /\ ~tx[c.id].rst
              /\ c.n <= c.a /\ c.a <= tx[c.id].win
         ELSE Opener(c.id) # e /\ rx[c.id].st # "none" /\ c.n > 0
    /\ \A i, j \in 1 .. Len(cb[e]) :
         i # j /\ cb[e][i].k # "write" /\ cb[e][j].k # "write" => cb[e][i].id # cb[e][j].id

\* The writer's window, settled or with a write in progress.
WriterInv ==
  \A id \in Ids : tx[id].st = "live" /\ ~tx[id].rst =>
    LET h == hist[id]
        o == Opener(id)
        left == Window[o] + h.credited - h.sent IN
    tx[id].win = IF Writing(o) /\ Top(o).id = id THEN left + Top(o).a - Top(o).n ELSE left

\* The reader's counters, settled or with a DATA callback in progress.
ReaderInv ==
  \A id \in Ids : rx[id].st = "live" /\ ~rx[id].rst =>
    LET h == hist[id]
        s == rx[id]
        r == Reader(id) IN
    /\ s.outst = h.rcvd - h.granted
    /\ ~InCall(r, "data", id) => s.outst = s.pend + s.rxlen
    /\ ~InCall(r, "resume", id) => h.got = h.rcvd - s.rxlen /\ (s.rxlen > 0 => s.paused)
    /\ \A i \in 1 .. Len(cb[r]) : cb[r][i].id = id =>
         /\ cb[r][i].k = "data" => s.rxlen = 0 /\ s.outst = s.pend + cb[r][i].n
         /\ cb[r][i].k = "resume" => h.got = h.rcvd /\ s.rxlen = cb[r][i].n

IInv ==
  /\ TypeOK
  /\ NoProtocolError
  /\ IdsInv
  /\ FramesInv
  /\ OpenInv
  /\ FreshInv
  /\ EofInv
  /\ DataInv
  /\ CreditInv
  /\ CountInv
  /\ CallInv
  /\ WriterInv
  /\ ReaderInv

-----------------------------------------------------------------------------
\* Bytes (credit) in the frames of type t about id in w.
Carried(w, t, id) ==
  LET upTo[k \in 0 .. Len(w)] ==
        IF k = 0 THEN 0 ELSE upTo[k - 1] + IF Is(w, k, t, id) THEN w[k].n ELSE 0
  IN  upTo[Len(w)]

\* Credit is neither lost nor made: what the writer may still send, what is under
\* way to the reader, what the reader owes and what is under way back add up to the
\* window, between calls, on every stream open at both ends.
CreditConserved ==
  \A id \in Ids :
    LET w == Opener(id)
        r == Reader(id) IN
    tx[id].st = "live" /\ rx[id].st = "live" /\ ~tx[id].rst /\ ~rx[id].rst /\ ~Writing(w) =>
      tx[id].win + Carried(chan[w], "DATA", id)
        + rx[id].outst + Carried(chan[r], "WINDOW", id) = Window[w]
=============================================================================
