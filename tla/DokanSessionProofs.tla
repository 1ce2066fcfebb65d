------------------------- MODULE DokanSessionProofs -------------------------
(***************************************************************************)
(* Proofs about DokanSession for every number of streams, every window and *)
(* every bound: the inductive invariant of DokanSessionInv and the safety  *)
(* properties that follow from it.                                         *)
(***************************************************************************)
EXTENDS DokanSessionInv, WellFoundedInduction, NaturalsInduction, TLAPS

\* The contract under which the two engines understand each other: the ends use
\* the same stream_window, and resume is used as FreeResume = FALSE allows.
Contract == /\ Window["HOST"] = Window["CLIENT"]
            /\ FreeResume = FALSE

-----------------------------------------------------------------------------
(***************************************************************************)
(* Queues of frames.                                                       *)
(***************************************************************************)

\* What enqueue does to a queue, element by element.
LEMMA AppendFrame ==
  ASSUME NEW w \in Seq(Frame), NEW f \in Frame
  PROVE  /\ Append(w, f) \in Seq(Frame)
         /\ Len(Append(w, f)) = Len(w) + 1
         /\ \A i \in 1 .. Len(w) : Append(w, f)[i] = w[i]
         /\ Append(w, f)[Len(w) + 1] = f
  OBVIOUS

\* What processing the oldest frame does to a queue, element by element.
LEMMA TailFrame ==
  ASSUME NEW w \in Seq(Frame), Len(w) > 0
  PROVE  /\ Head(w) \in Frame /\ Head(w) = w[1]
         /\ Tail(w) \in Seq(Frame)
         /\ Len(Tail(w)) = Len(w) - 1
         /\ \A i \in 1 .. Len(w) - 1 : Tail(w)[i] = w[i + 1]
  OBVIOUS

\* The fields of a frame are numbers.
LEMMA FrameFields ==
  ASSUME NEW w \in Seq(Frame)
  PROVE  \A i \in 1 .. Len(w) : w[i] \in Frame /\ w[i].off \in Nat /\ w[i].n \in Nat
<1>1. \A i \in 1 .. Len(w) : w[i] \in Frame
  OBVIOUS
<1>2. \A f \in Frame : f.off \in Nat /\ f.n \in Nat
  BY DEF Frame
<1>. QED BY <1>1, <1>2

\* A frame is in the longer queue if it is the new one or was in the old one.
LEMMA HasAppend ==
  ASSUME NEW w \in Seq(Frame), NEW f \in Frame, NEW t, NEW id
  PROVE  Has(Append(w, f), t, id) <=> Has(w, t, id) \/ (f.t = t /\ f.id = id)
  BY AppendFrame DEF Has, Is

\* A frame is in a queue if it is the oldest one or in the rest.
LEMMA HasTail ==
  ASSUME NEW w \in Seq(Frame), Len(w) > 0, NEW t, NEW id
  PROVE  Has(w, t, id) <=> Has(Tail(w), t, id) \/ (Head(w).t = t /\ Head(w).id = id)
<1>1. Has(Tail(w), t, id) => Has(w, t, id)
  BY TailFrame DEF Has, Is
<1>2. Head(w).t = t /\ Head(w).id = id => Has(w, t, id)
  BY TailFrame DEF Has, Is
<1>3. ASSUME Has(w, t, id), ~(Head(w).t = t /\ Head(w).id = id)
      PROVE  Has(Tail(w), t, id)
  <2>1. PICK i \in 1 .. Len(w) : Is(w, i, t, id)
    BY <1>3 DEF Has
  <2>2. i # 1
    BY <2>1, <1>3, TailFrame DEF Is
  <2>3. i - 1 \in 1 .. Len(Tail(w)) /\ Tail(w)[i - 1] = w[i]
    BY <2>2, TailFrame
  <2>. QED BY <2>1, <2>3 DEF Has, Is
<1>. QED BY <1>1, <1>2, <1>3

\* A frame of another kind or stream leaves a chain as it is.
LEMMA ChainAppendOther ==
  ASSUME NEW w \in Seq(Frame), NEW f \in Frame, NEW t, NEW id,
         NEW lo \in Nat, NEW hi \in Nat,
         Chain(w, t, id, lo, hi), ~(f.t = t /\ f.id = id)
  PROVE  Chain(Append(w, f), t, id, lo, hi)
<1>1. \A i \in 1 .. Len(w) + 1 : Is(Append(w, f), i, t, id) <=> i \in 1 .. Len(w) /\ Is(w, i, t, id)
  BY AppendFrame DEF Is
<1>. QED BY <1>1, AppendFrame DEF Chain

\* The frame that continues a chain makes it longer.
LEMMA ChainAppendSame ==
  ASSUME NEW w \in Seq(Frame), NEW f \in Frame, NEW t, NEW id,
         NEW lo \in Nat, NEW hi \in Nat,
         Chain(w, t, id, lo, hi),
         f.t = t, f.id = id, f.off = hi, f.n > 0
  PROVE  Chain(Append(w, f), t, id, lo, hi + f.n)
<1> DEFINE v == Append(w, f)
<1>1. \A i \in 1 .. Len(w) : Is(v, i, t, id) <=> Is(w, i, t, id)
  BY AppendFrame DEF Is
<1>2. Is(v, Len(v), t, id) /\ Len(v) = Len(w) + 1 /\ v[Len(v)] = f
  BY AppendFrame DEF Is
<1>3. f.n \in Nat /\ f.off \in Nat
  BY DEF Frame
<1>4. \A i \in 1 .. Len(w) : v[i] = w[i] /\ w[i].n \in Nat /\ w[i].off \in Nat
  BY AppendFrame, FrameFields
<1> HIDE DEF v
<1>5. ASSUME NEW i \in 1 .. Len(v), Is(v, i, t, id)
      PROVE  /\ v[i].n > 0 /\ lo <= v[i].off /\ v[i].off + v[i].n <= hi + f.n
             /\ \A j \in 1 .. Len(v) : j > i /\ Is(v, j, t, id) => v[i].off + v[i].n <= v[j].off
             /\ \/ v[i].off = lo
                \/ \E h \in 1 .. Len(v) : h < i /\ Is(v, h, t, id) /\ v[h].off + v[h].n = v[i].off
  <2>1. CASE i = Len(v)
    <3>1. v[i] = f /\ v[i].n > 0 /\ lo <= v[i].off /\ v[i].off + v[i].n <= hi + f.n
      BY <2>1, <1>2, <1>3 DEF Chain
    <3>2. hi = lo \/ \E h \in 1 .. Len(w) : Is(w, h, t, id) /\ w[h].off + w[h].n = hi
      BY DEF Chain
    <3>3. \/ v[i].off = lo
          \/ \E h \in 1 .. Len(v) : h < i /\ Is(v, h, t, id) /\ v[h].off + v[h].n = v[i].off
      BY <3>1, <3>2, <2>1, <1>1, <1>2, <1>4
    <3>. QED BY <3>1, <3>3, <2>1
  <2>2. CASE i \in 1 .. Len(w)
    <3>1. Is(w, i, t, id) /\ v[i] = w[i] /\ w[i].n \in Nat /\ w[i].off \in Nat
      BY <2>2, <1>1, <1>4, <1>5
    <3>2. /\ w[i].n > 0 /\ lo <= w[i].off /\ w[i].off + w[i].n <= hi
          /\ \A j \in 1 .. Len(w) : j > i /\ Is(w, j, t, id) => w[i].off + w[i].n <= w[j].off
          /\ \/ w[i].off = lo
             \/ \E h \in 1 .. Len(w) : h < i /\ Is(w, h, t, id) /\ w[h].off + w[h].n = w[i].off
      BY <2>2, <3>1 DEF Chain
    <3>3. \A j \in 1 .. Len(v) : j > i /\ Is(v, j, t, id) => v[i].off + v[i].n <= v[j].off
      BY <3>1, <3>2, <1>1, <1>2, <1>4
    <3>4. \/ v[i].off = lo
          \/ \E h \in 1 .. Len(v) : h < i /\ Is(v, h, t, id) /\ v[h].off + v[h].n = v[i].off
      BY <3>1, <3>2, <1>1, <1>2, <1>4
    <3>5. w[i].n > 0 /\ lo <= w[i].off /\ w[i].off + w[i].n <= hi
      BY <3>2
    <3>6. v[i].n > 0 /\ lo <= v[i].off /\ v[i].off + v[i].n <= hi + f.n
      BY <3>1, <3>5, <1>3
    <3>. QED BY <3>3, <3>4, <3>6
  <2>. QED BY <2>1, <2>2, <1>2
<1>6. lo <= hi + f.n /\ v[Len(v)].off + v[Len(v)].n = hi + f.n
  BY <1>2, <1>3 DEF Chain
<1>7. Len(v) \in 1 .. Len(v)
  BY <1>2
<1>8. Chain(v, t, id, lo, hi + f.n)
  BY <1>5, <1>2, <1>6, <1>7 DEF Chain
<1>. QED BY <1>8 DEF v

\* The oldest frame, when it is of another kind or stream, leaves a chain as it is.
LEMMA ChainTailOther ==
  ASSUME NEW w \in Seq(Frame), Len(w) > 0, NEW t, NEW id,
         NEW lo \in Nat, NEW hi \in Nat,
         Chain(w, t, id, lo, hi), ~(Head(w).t = t /\ Head(w).id = id)
  PROVE  Chain(Tail(w), t, id, lo, hi)
<1> DEFINE v == Tail(w)
<1>1. Len(v) \in Nat /\ Len(v) = Len(w) - 1 /\ \A i \in 1 .. Len(v) : v[i] = w[i + 1]
  BY TailFrame
<1>2. ~Is(w, 1, t, id)
  BY TailFrame DEF Is
<1>3. \A i \in 1 .. Len(v) : i + 1 \in 1 .. Len(w) /\ (Is(v, i, t, id) <=> Is(w, i + 1, t, id))
  BY <1>1 DEF Is
<1>4. \A h \in 1 .. Len(w) : Is(w, h, t, id) =>
         h - 1 \in 1 .. Len(v) /\ v[h - 1] = w[h] /\ Is(v, h - 1, t, id)
  BY <1>1, <1>2 DEF Is
<1> HIDE DEF v
<1>5. ASSUME NEW i \in 1 .. Len(v), Is(v, i, t, id)
      PROVE  /\ v[i].n > 0 /\ lo <= v[i].off /\ v[i].off + v[i].n <= hi
             /\ \A j \in 1 .. Len(v) : j > i /\ Is(v, j, t, id) => v[i].off + v[i].n <= v[j].off
             /\ \/ v[i].off = lo
                \/ \E h \in 1 .. Len(v) : h < i /\ Is(v, h, t, id) /\ v[h].off + v[h].n = v[i].off
  <2>1. i + 1 \in 1 .. Len(w) /\ Is(w, i + 1, t, id) /\ v[i] = w[i + 1]
    BY <1>1, <1>3, <1>5
  <2>2. v[i].n > 0 /\ lo <= v[i].off /\ v[i].off + v[i].n <= hi
    BY <2>1 DEF Chain
  <2>3. \A j \in 1 .. Len(w) : j > i + 1 /\ Is(w, j, t, id) => w[i + 1].off + w[i + 1].n <= w[j].off
    BY <2>1 DEF Chain
  <2>4. \A j \in 1 .. Len(v) : j > i /\ Is(v, j, t, id) => v[i].off + v[i].n <= v[j].off
    <3> SUFFICES ASSUME NEW j \in 1 .. Len(v), j > i, Is(v, j, t, id)
                 PROVE  v[i].off + v[i].n <= v[j].off
      OBVIOUS
    <3>1. j + 1 \in 1 .. Len(w) /\ j + 1 > i + 1 /\ Is(w, j + 1, t, id) /\ v[j] = w[j + 1]
      BY <1>1, <1>3
    <3>. QED BY <3>1, <2>1, <2>3
  <2>5. CASE w[i + 1].off = lo
    BY <2>1, <2>2, <2>4, <2>5
  <2>6. CASE \E h \in 1 .. Len(w) : h < i + 1 /\ Is(w, h, t, id) /\ w[h].off + w[h].n = w[i + 1].off
    <3>1. PICK h \in 1 .. Len(w) : h < i + 1 /\ Is(w, h, t, id) /\ w[h].off + w[h].n = w[i + 1].off
      BY <2>6
    <3>2. h - 1 \in 1 .. Len(v) /\ v[h - 1] = w[h] /\ Is(v, h - 1, t, id) /\ h - 1 < i
      BY <3>1, <1>4
    <3>. QED BY <3>1, <3>2, <2>1, <2>2, <2>4
  <2>. QED BY <2>1, <2>5, <2>6 DEF Chain
<1>6. lo = hi \/ \E h \in 1 .. Len(v) : Is(v, h, t, id) /\ v[h].off + v[h].n = hi
  <2>1. CASE \E h \in 1 .. Len(w) : Is(w, h, t, id) /\ w[h].off + w[h].n = hi
    BY <2>1, <1>4
  <2>. QED BY <2>1 DEF Chain
<1>7. Chain(v, t, id, lo, hi)
  BY <1>5, <1>6 DEF Chain
<1>. QED BY <1>7 DEF v

\* The oldest frame of a chain starts at its low end; without it the chain is shorter.
LEMMA ChainTailSame ==
  ASSUME NEW w \in Seq(Frame), Len(w) > 0, NEW t, NEW id,
         NEW lo \in Nat, NEW hi \in Nat,
         Chain(w, t, id, lo, hi), Head(w).t = t, Head(w).id = id
  PROVE  /\ Head(w).off = lo /\ Head(w).n > 0 /\ lo + Head(w).n <= hi
         /\ Chain(Tail(w), t, id, lo + Head(w).n, hi)
<1> DEFINE v == Tail(w)
           m == lo + Head(w).n
<1>1. Len(v) = Len(w) - 1 /\ \A i \in 1 .. Len(v) : v[i] = w[i + 1]
  BY TailFrame
<1>2. Is(w, 1, t, id) /\ w[1] = Head(w)
  BY TailFrame DEF Is
<1>3. w[1].off = lo /\ w[1].n > 0 /\ w[1].off + w[1].n <= hi
  BY <1>2 DEF Chain
<1>4. \A i \in 1 .. Len(v) : Is(v, i, t, id) <=> Is(w, i + 1, t, id)
  BY <1>1 DEF Is
<1>5. \A h \in 1 .. Len(w) : Is(w, h, t, id) /\ h > 1 =>
         h - 1 \in 1 .. Len(v) /\ v[h - 1] = w[h] /\ Is(v, h - 1, t, id)
  BY <1>1 DEF Is
<1>6. \A i \in 1 .. Len(w) : w[i].n \in Nat /\ w[i].off \in Nat
  BY FrameFields
<1>7. m = w[1].off + w[1].n /\ m \in Nat /\ m > lo
  BY <1>2, <1>3, <1>6
<1>8. \A i \in 1 .. Len(w) : i > 1 /\ Is(w, i, t, id) => m <= w[i].off
  BY <1>2, <1>7 DEF Chain
<1> HIDE DEF v, m
<1>9. ASSUME NEW i \in 1 .. Len(v), Is(v, i, t, id)
      PROVE  /\ v[i].n > 0 /\ m <= v[i].off /\ v[i].off + v[i].n <= hi
             /\ \A j \in 1 .. Len(v) : j > i /\ Is(v, j, t, id) => v[i].off + v[i].n <= v[j].off
             /\ \/ v[i].off = m
                \/ \E h \in 1 .. Len(v) : h < i /\ Is(v, h, t, id) /\ v[h].off + v[h].n = v[i].off
  <2>1. i + 1 \in 1 .. Len(w) /\ Is(w, i + 1, t, id) /\ v[i] = w[i + 1]
    BY <1>1, <1>4, <1>9
  <2>2. v[i].n > 0 /\ m <= v[i].off /\ v[i].off + v[i].n <= hi
    BY <2>1, <1>8 DEF Chain
  <2>3. \A j \in 1 .. Len(v) : j > i /\ Is(v, j, t, id) => v[i].off + v[i].n <= v[j].off
    BY <2>1, <1>1, <1>4 DEF Chain
  <2>4. w[i + 1].off # lo
    BY <2>1, <1>8, <1>7
  <2>5. PICK h \in 1 .. Len(w) : h < i + 1 /\ Is(w, h, t, id) /\ w[h].off + w[h].n = w[i + 1].off
    BY <2>1, <2>4 DEF Chain
  <2>6. \/ v[i].off = m
        \/ \E g \in 1 .. Len(v) : g < i /\ Is(v, g, t, id) /\ v[g].off + v[g].n = v[i].off
    <3>1. CASE h = 1
      BY <3>1, <2>5, <2>1, <1>7
    <3>2. CASE h > 1
      <4>1. h - 1 \in 1 .. Len(v) /\ v[h - 1] = w[h] /\ Is(v, h - 1, t, id) /\ h - 1 < i
        BY <3>2, <2>5, <1>5
      <4>. QED BY <4>1, <2>1, <2>5
    <3>. QED BY <3>1, <3>2
  <2>. QED BY <2>2, <2>3, <2>6
<1>10. m = hi \/ \E h \in 1 .. Len(v) : Is(v, h, t, id) /\ v[h].off + v[h].n = hi
  <2>1. lo # hi
    BY <1>3, <1>6, <1>2
  <2>2. PICK h \in 1 .. Len(w) : Is(w, h, t, id) /\ w[h].off + w[h].n = hi
    BY <2>1 DEF Chain
  <2>. QED BY <2>2, <1>5, <1>7
<1>11. Chain(v, t, id, m, hi)
  BY <1>9, <1>10, <1>3, <1>7 DEF Chain
<1>. QED BY <1>11, <1>2, <1>3, <1>7 DEF v, m

\* With none of its frames left, a chain is empty.
LEMMA ChainNone ==
  ASSUME NEW w \in Seq(Frame), NEW t, NEW id, NEW lo \in Nat, NEW hi \in Nat,
         Chain(w, t, id, lo, hi), ~Has(w, t, id)
  PROVE  lo = hi
  BY DEF Chain, Has

\* What OPEN and EOF order: append.
LEMMA OrderAppend ==
  ASSUME NEW w \in Seq(Frame), NEW f \in Frame, NEW id
  PROVE  /\ OpenFirst(w, id) /\ ~(f.t = "OPEN" /\ f.id = id) => OpenFirst(Append(w, f), id)
         /\ ~Has(w, "OPEN", id) /\ ~Has(w, "DATA", id) /\ ~Has(w, "EOF", id)
              => OpenFirst(Append(w, f), id)
         /\ EofLast(w, id) /\ ~(f.id = id /\ f.t \in {"DATA", "EOF"}) => EofLast(Append(w, f), id)
         /\ EofLast(w, id) /\ ~Has(w, "EOF", id) => EofLast(Append(w, f), id)
<1> DEFINE v == Append(w, f)
<1>1. Len(v) = Len(w) + 1 /\ v[Len(v)] = f /\ \A i \in 1 .. Len(w) : v[i] = w[i]
  BY AppendFrame
<1>2. \A i \in 1 .. Len(v), t \in FrameTypes :
        Is(v, i, t, id) <=> (i \in 1 .. Len(w) /\ Is(w, i, t, id)) \/ (i = Len(v) /\ f.t = t /\ f.id = id)
  BY <1>1 DEF Is
<1> HIDE DEF v
<1>3. OpenFirst(w, id) /\ ~(f.t = "OPEN" /\ f.id = id) => OpenFirst(v, id)
  BY <1>1, <1>2 DEF OpenFirst, FrameTypes
<1>4. ~Has(w, "OPEN", id) /\ ~Has(w, "DATA", id) /\ ~Has(w, "EOF", id) => OpenFirst(v, id)
  BY <1>1, <1>2 DEF OpenFirst, Has, FrameTypes
<1>5. EofLast(w, id) /\ ~(f.id = id /\ f.t \in {"DATA", "EOF"}) => EofLast(v, id)
  BY <1>1, <1>2 DEF EofLast, FrameTypes
<1>6. EofLast(w, id) /\ ~Has(w, "EOF", id) => EofLast(v, id)
  BY <1>1, <1>2 DEF EofLast, Has, FrameTypes
<1>. QED BY <1>3, <1>4, <1>5, <1>6 DEF v

\* What OPEN and EOF order: the oldest frame leaves.
LEMMA OrderTail ==
  ASSUME NEW w \in Seq(Frame), Len(w) > 0, NEW id
  PROVE  /\ OpenFirst(w, id) => OpenFirst(Tail(w), id)
         /\ OpenFirst(w, id) /\ Head(w).id = id /\ Head(w).t \in {"OPEN", "DATA", "EOF"}
              => ~Has(Tail(w), "OPEN", id)
         /\ EofLast(w, id) => EofLast(Tail(w), id)
         /\ EofLast(w, id) /\ Head(w).id = id /\ Head(w).t = "EOF"
              => ~Has(Tail(w), "DATA", id) /\ ~Has(Tail(w), "EOF", id)
<1> DEFINE v == Tail(w)
<1>1. Len(v) = Len(w) - 1 /\ Len(w) \in Nat /\ \A i \in 1 .. Len(v) : v[i] = w[i + 1] /\ i + 1 \in 1 .. Len(w)
  BY TailFrame
<1>2. \A i \in 1 .. Len(v) : \A t : Is(v, i, t, id) <=> Is(w, i + 1, t, id)
  BY <1>1 DEF Is
<1>3. \A t : Is(w, 1, t, id) <=> Head(w).t = t /\ Head(w).id = id
  BY TailFrame DEF Is
<1>4. 1 \in 1 .. Len(w) /\ \A i \in 1 .. Len(v) : 1 < i + 1
  BY <1>1
<1> HIDE DEF v
<1>5. OpenFirst(w, id) => OpenFirst(v, id)
  BY <1>1, <1>2 DEF OpenFirst
<1>6. OpenFirst(w, id) /\ Head(w).id = id /\ Head(w).t \in {"OPEN", "DATA", "EOF"}
        => ~Has(v, "OPEN", id)
  BY <1>1, <1>2, <1>3, <1>4 DEF OpenFirst, Has
<1>7. EofLast(w, id) => EofLast(v, id)
  BY <1>1, <1>2 DEF EofLast
<1>8. EofLast(w, id) /\ Head(w).id = id /\ Head(w).t = "EOF"
        => ~Has(v, "DATA", id) /\ ~Has(v, "EOF", id)
  BY <1>1, <1>2, <1>3, <1>4 DEF EofLast, Has
<1>. QED BY <1>5, <1>6, <1>7, <1>8 DEF v

-----------------------------------------------------------------------------
(***************************************************************************)
(* What the steps do to the queues.                                        *)
(***************************************************************************)

\* Each end has one peer, and the parity of an id tells its opener and reader.
LEMMA Ends ==
  /\ \A e \in End : Peer(e) \in End /\ Peer(e) # e /\ Peer(Peer(e)) = e
  /\ \A e, x \in End : x = e \/ x = Peer(e)
  /\ \A id \in Nat : Opener(id) \in End /\ Reader(id) = Peer(Opener(id)) /\ Reader(id) # Opener(id)
  /\ \A id \in Nat : \A e \in End : Reader(id) = e <=> Opener(id) # e
  /\ \A id \in Nat : Opener(id + 2) = Opener(id)
  BY DEF End, Peer, Opener, Reader

\* End e appends at most the frame f to its queue and takes at most the oldest
\* frame from its peer's.
ChanStep(e, f) ==
  /\ chan' \in [End -> Seq(Frame)]
  /\ chan'[e] = chan[e] \/ chan'[e] = Append(chan[e], f)
  /\ \/ chan'[Peer(e)] = chan[Peer(e)]
     \/ Len(chan[Peer(e)]) > 0 /\ chan'[Peer(e)] = Tail(chan[Peer(e)])

AccOK == acc \in [End -> Nat] /\ \A e \in End : acc[e] <= Len(chan[e])

LEMMA EnqueueStep ==
  ASSUME TypeOK, NEW e \in End, NEW f \in Frame, Enqueue(e, f)
  PROVE  /\ ChanStep(e, f) /\ AccOK'
         /\ chan'[e] = Append(chan[e], f) /\ chan'[Peer(e)] = chan[Peer(e)]
<1>1. chan[e] \in Seq(Frame) /\ Len(chan[e]) \in Nat /\ Len(Append(chan[e], f)) = Len(chan[e]) + 1
  BY AppendFrame DEF TypeOK
<1>2. chan' = [chan EXCEPT ![e] = Append(@, f)]
  BY DEF Enqueue
<1>3. chan' \in [End -> Seq(Frame)] /\ chan'[e] = Append(chan[e], f)
      /\ \A x \in End \ {e} : chan'[x] = chan[x]
  BY <1>1, <1>2, AppendFrame DEF TypeOK
<1>4. PICK k \in acc[e] .. Len(chan[e]) + 1 : acc' = [acc EXCEPT ![e] = k]
  BY DEF Enqueue
<1>5. AccOK'
  BY <1>1, <1>3, <1>4 DEF TypeOK, AccOK
<1>. QED BY <1>3, <1>5, Ends DEF ChanStep

LEMMA ConsumeStep ==
  ASSUME TypeOK, NEW e \in End, acc[Peer(e)] > 0, NEW f, Consume(e)
  PROVE  /\ ChanStep(e, f) /\ AccOK'
         /\ chan'[e] = chan[e] /\ chan'[Peer(e)] = Tail(chan[Peer(e)])
         /\ Len(chan[Peer(e)]) > 0
<1> DEFINE p == Peer(e)
<1>1. p \in End /\ p # e
  BY Ends
<1>2. chan[p] \in Seq(Frame) /\ Len(chan[p]) \in Nat /\ acc[p] \in Nat /\ acc[p] > 0 /\ Len(chan[p]) > 0
  BY <1>1 DEF TypeOK
<1>3. Tail(chan[p]) \in Seq(Frame) /\ Len(Tail(chan[p])) = Len(chan[p]) - 1
  BY <1>2, TailFrame
<1>4. chan' = [chan EXCEPT ![p] = Tail(@)] /\ acc' = [acc EXCEPT ![p] = @ - 1]
  BY DEF Consume
<1> HIDE DEF p
<1>5. chan' \in [End -> Seq(Frame)] /\ chan'[p] = Tail(chan[p])
      /\ \A x \in End \ {p} : chan'[x] = chan[x]
  BY <1>1, <1>3, <1>4 DEF TypeOK
<1>6. AccOK'
  <2>1. acc' \in [End -> Nat] /\ acc'[p] = acc[p] - 1 /\ \A x \in End \ {p} : acc'[x] = acc[x]
    BY <1>1, <1>2, <1>4 DEF TypeOK
  <2>2. \A x \in End : acc[x] <= Len(chan[x]) /\ acc[x] \in Nat /\ Len(chan[x]) \in Nat
    BY DEF TypeOK
  <2>3. acc'[p] <= Len(chan'[p])
    BY <2>1, <2>2, <1>1, <1>3, <1>5
  <2>4. \A x \in End \ {p} : acc'[x] <= Len(chan'[x])
    BY <2>1, <2>2, <1>5
  <2>. QED BY <2>1, <2>3, <2>4, <1>1 DEF AccOK
<1>. QED BY <1>1, <1>2, <1>5, <1>6 DEF ChanStep, p

LEMMA ConsumeEnqueueStep ==
  ASSUME TypeOK, NEW e \in End, acc[Peer(e)] > 0, NEW f \in Frame, ConsumeEnqueue(e, f)
  PROVE  /\ ChanStep(e, f) /\ AccOK'
         /\ chan'[e] = Append(chan[e], f) /\ chan'[Peer(e)] = Tail(chan[Peer(e)])
         /\ Len(chan[Peer(e)]) > 0
<1> DEFINE p == Peer(e)
<1>1. p \in End /\ p # e
  BY Ends
<1>2. chan[p] \in Seq(Frame) /\ Len(chan[p]) \in Nat /\ acc[p] \in Nat /\ acc[p] > 0 /\ Len(chan[p]) > 0
  BY <1>1 DEF TypeOK
<1>3. Tail(chan[p]) \in Seq(Frame) /\ Len(Tail(chan[p])) = Len(chan[p]) - 1
  BY <1>2, TailFrame
<1>4. chan[e] \in Seq(Frame) /\ Append(chan[e], f) \in Seq(Frame)
      /\ Len(chan[e]) \in Nat /\ Len(Append(chan[e], f)) = Len(chan[e]) + 1
  BY AppendFrame DEF TypeOK
<1>5. chan' = [chan EXCEPT ![p] = Tail(@), ![e] = Append(@, f)]
  BY DEF ConsumeEnqueue
<1>6. PICK k \in acc[e] .. Len(chan[e]) + 1 : acc' = [acc EXCEPT ![p] = @ - 1, ![e] = k]
  BY DEF ConsumeEnqueue
<1> HIDE DEF p
<1>7. chan' \in [End -> Seq(Frame)] /\ chan'[p] = Tail(chan[p]) /\ chan'[e] = Append(chan[e], f)
  BY <1>1, <1>3, <1>4, <1>5 DEF TypeOK
<1>8. AccOK'
  <2>1. acc \in [End -> Nat] /\ acc[e] \in Nat /\ acc[p] <= Len(chan[p])
    BY <1>1 DEF TypeOK
  <2>2. k \in Nat /\ k <= Len(chan[e]) + 1
    BY <2>1, <1>4
  <2>3. acc' \in [End -> Nat] /\ acc'[p] = acc[p] - 1 /\ acc'[e] = k
    BY <2>1, <2>2, <1>1, <1>2, <1>6
  <2>4. \A x \in End : x = e \/ x = p
    BY Ends DEF p
  <2>5. acc'[p] <= Len(chan'[p])
    BY <2>1, <2>3, <1>1, <1>2, <1>3, <1>7
  <2>6. acc'[e] <= Len(chan'[e])
    BY <2>2, <2>3, <1>4, <1>7
  <2>. QED BY <2>3, <2>4, <2>5, <2>6 DEF AccOK
<1>. QED BY <1>1, <1>2, <1>7, <1>8 DEF ChanStep, p

-----------------------------------------------------------------------------
(***************************************************************************)
(* A step that does not concern a part of the invariant keeps it.          *)
(***************************************************************************)

\* The frames in the queues after a step are old ones or the new one.
LEMMA FramesKeep ==
  ASSUME TypeOK, FramesInv, NEW e \in End, NEW f \in Frame, ChanStep(e, f),
         chan'[e] = chan[e] \/ FrameOK(e, f)',
         \A id \in Ids : tx[id].st # "none" => tx'[id].st # "none"
  PROVE  FramesInv'
<1>1. \A y \in End : chan[y] \in Seq(Frame)
  BY DEF TypeOK
<1>2. \A y \in End : \A g : FrameOK(y, g) => FrameOK(y, g)'
  BY DEF FrameOK
<1>3. ASSUME NEW x \in End, NEW i \in 1 .. Len(chan'[x])
      PROVE  FrameOK(x, chan[x][i])'
  <2>1. CASE chan'[x] = chan[x]
    BY <2>1, <1>2, <1>3 DEF FramesInv
  <2>2. CASE x = e /\ chan'[x] = Append(chan[x], f) /\ chan'[x] # chan[x]
    <3>1. Len(chan'[x]) = Len(chan[x]) + 1 /\ chan'[x][Len(chan[x]) + 1] = f
          /\ (\A j \in 1 .. Len(chan[x]) : chan'[x][j] = chan[x][j]) /\ Len(chan[x]) \in Nat
      BY <2>2, <1>1, AppendFrame
    <3>2. i \in 1 .. Len(chan[x]) \/ i = Len(chan[x]) + 1
      BY <3>1, <1>3
    <3>3. CASE i \in 1 .. Len(chan[x])
      BY <3>1, <3>3, <1>2 DEF FramesInv
    <3>4. CASE i = Len(chan[x]) + 1
      BY <2>2, <3>1, <3>4
    <3>. QED BY <3>2, <3>3, <3>4
  <2>3. CASE x = Peer(e) /\ Len(chan[x]) > 0 /\ chan'[x] = Tail(chan[x])
    <3>1. Len(chan'[x]) = Len(chan[x]) - 1 /\ chan'[x][i] = chan[x][i + 1] /\ Len(chan[x]) \in Nat
      BY <2>3, <1>1, <1>3, TailFrame
    <3>2. i + 1 \in 1 .. Len(chan[x])
      BY <3>1, <1>3
    <3>. QED BY <3>1, <3>2, <1>2 DEF FramesInv
  <2>. QED BY <2>1, <2>2, <2>3, Ends DEF ChanStep
<1>. QED BY <1>3 DEF FramesInv

\* The head of a queue satisfies what holds of every frame in it.
LEMMA HeadOK ==
  ASSUME TypeOK, FramesInv, NEW e \in End, Len(chan[e]) > 0
  PROVE  Head(chan[e]) \in Frame /\ FrameOK(e, Head(chan[e]))
<1>1. chan[e] \in Seq(Frame)
  BY DEF TypeOK
<1>. QED BY <1>1, TailFrame DEF FramesInv

\* A queue of frames about a stream's opener or reader, before and after.
LEMMA QueueStep ==
  ASSUME TypeOK, NEW e \in End, NEW f \in Frame, ChanStep(e, f), NEW x \in End
  PROVE  /\ chan[x] \in Seq(Frame)
         /\ \/ chan'[x] = chan[x]
            \/ x = e /\ chan'[x] = Append(chan[x], f)
            \/ x = Peer(e) /\ Len(chan[x]) > 0 /\ chan'[x] = Tail(chan[x])
  BY Ends DEF ChanStep, TypeOK

\* The counts of a stream are numbers, and its ends are ends.
LEMMA StreamTypes ==
  ASSUME TypeOK, NEW id \in Ids
  PROVE  /\ id \in Nat /\ id > 0 /\ Opener(id) \in End /\ Reader(id) \in End
         /\ hist[id] \in History /\ tx[id] \in TxStream /\ rx[id] \in RxStream
         /\ hist[id].sent \in Nat /\ hist[id].rcvd \in Nat /\ hist[id].granted \in Nat
         /\ hist[id].credited \in Nat /\ hist[id].got \in Nat /\ hist[id].at \in Nat
         /\ hist[id].last \in Nat
         /\ rx[id].outst \in Nat /\ rx[id].pend \in Nat /\ rx[id].rxlen \in Nat
         /\ tx[id].win \in Nat
<1>1. id \in Nat /\ id > 0
  BY DEF Ids
<1>2. hist[id] \in History /\ tx[id] \in TxStream /\ rx[id] \in RxStream
  BY DEF TypeOK
<1>3. \A h \in History : /\ h.sent \in Nat /\ h.rcvd \in Nat /\ h.granted \in Nat
                         /\ h.credited \in Nat /\ h.got \in Nat /\ h.at \in Nat /\ h.last \in Nat
  BY DEF History
<1>4. \A s \in RxStream : s.outst \in Nat /\ s.pend \in Nat /\ s.rxlen \in Nat
  BY DEF RxStream
<1>5. \A s \in TxStream : s.win \in Nat
  BY DEF TxStream
<1>. QED BY <1>1, <1>2, <1>3, <1>4, <1>5, Ends

\* The calls in progress are about streams and numbers of bytes.
LEMMA CallTypes ==
  ASSUME TypeOK, NEW e \in End
  PROVE  /\ cb[e] \in Seq(Continuation) /\ Len(cb[e]) \in Nat
         /\ \A i \in 1 .. Len(cb[e]) :
              /\ cb[e][i] \in Continuation /\ cb[e][i].k \in {"write", "data", "resume"}
              /\ cb[e][i].id \in Ids /\ cb[e][i].n \in Nat /\ cb[e][i].a \in Nat
<1>1. cb[e] \in Seq(Continuation)
  BY DEF TypeOK
<1>2. Len(cb[e]) \in Nat /\ \A i \in 1 .. Len(cb[e]) : cb[e][i] \in Continuation
  BY <1>1
<1>3. \A c \in Continuation : /\ c.k \in {"write", "data", "resume"} /\ c.id \in Ids
                              /\ c.n \in Nat /\ c.a \in Nat
  BY DEF Continuation
<1>. QED BY <1>1, <1>2, <1>3

LEMMA OpenKeep ==
  ASSUME TypeOK, OpenInv, NEW e \in End, NEW f \in Frame, ChanStep(e, f),
         chan'[e] = chan[e] \/ f.t # "OPEN",
         chan'[Peer(e)] = chan[Peer(e)] \/ Head(chan[Peer(e)]).t # "OPEN",
         \A id \in Ids : /\ tx'[id].st = "none" <=> tx[id].st = "none"
                         /\ rx'[id].st = "none" <=> rx[id].st = "none"
  PROVE  OpenInv'
<1> SUFFICES ASSUME NEW id \in Ids
             PROVE  /\ Has(chan'[Opener(id)], "OPEN", id) <=> Has(chan[Opener(id)], "OPEN", id)
                    /\ OpenFirst(chan'[Opener(id)], id)
  BY DEF OpenInv
<1> DEFINE w == chan[Opener(id)]
           v == chan'[Opener(id)]
<1>1. Opener(id) \in End /\ OpenFirst(w, id)
  BY Ends DEF OpenInv, Ids
<1>2. /\ w \in Seq(Frame)
      /\ \/ v = w
         \/ v = Append(w, f) /\ f.t # "OPEN"
         \/ Len(w) > 0 /\ v = Tail(w) /\ Head(w).t # "OPEN"
  <2>1. CASE v = w
    BY <2>1, <1>1, QueueStep
  <2>2. CASE v # w
    BY <2>2, <1>1, QueueStep
  <2>. QED BY <2>1, <2>2
<1> HIDE DEF w, v
<1>3. CASE v = w
  BY <1>3, <1>1 DEF v, w
<1>4. CASE v = Append(w, f) /\ f.t # "OPEN"
  BY <1>4, <1>1, <1>2, HasAppend, OrderAppend DEF v, w
<1>5. CASE Len(w) > 0 /\ v = Tail(w) /\ Head(w).t # "OPEN"
  BY <1>5, <1>1, <1>2, HasTail, OrderTail DEF v, w
<1>. QED BY <1>2, <1>3, <1>4, <1>5

LEMMA EofKeep ==
  ASSUME TypeOK, EofInv, NEW e \in End, NEW f \in Frame, ChanStep(e, f),
         \/ chan'[e] = chan[e]
         \/ /\ f.t # "EOF"
            /\ f.t = "DATA" => f.id \in Ids /\ ~tx[f.id].fin,
         \A id \in Ids : tx'[id].fin = tx[id].fin /\ rx'[id].fin = rx[id].fin
  PROVE  EofInv'
<1> SUFFICES ASSUME NEW id \in Ids
             PROVE  /\ Has(chan'[Opener(id)], "EOF", id) => Has(chan[Opener(id)], "EOF", id)
                    /\ rx[id].fin /\ Has(chan'[Opener(id)], "DATA", id) =>
                         Has(chan[Opener(id)], "DATA", id)
                    /\ EofLast(chan'[Opener(id)], id)
  BY DEF EofInv
<1> DEFINE w == chan[Opener(id)]
           v == chan'[Opener(id)]
<1>1. /\ Opener(id) \in End /\ EofLast(w, id)
      /\ ~tx[id].fin => ~rx[id].fin /\ ~Has(w, "EOF", id)
  BY Ends DEF EofInv, Ids
<1>2. /\ w \in Seq(Frame)
      /\ \/ v = w
         \/ v = Append(w, f) /\ f.t # "EOF" /\ (f.t = "DATA" => f.id \in Ids /\ ~tx[f.id].fin)
         \/ Len(w) > 0 /\ v = Tail(w)
  <2>1. CASE v = w
    BY <2>1, <1>1, QueueStep
  <2>2. CASE v # w
    BY <2>2, <1>1, QueueStep
  <2>. QED BY <2>1, <2>2
<1> HIDE DEF w, v
<1>3. CASE v = w
  BY <1>3, <1>1 DEF v, w
<1>4. CASE v = Append(w, f) /\ f.t # "EOF" /\ (f.t = "DATA" => f.id \in Ids /\ ~tx[f.id].fin)
  BY <1>4, <1>1, <1>2, HasAppend, OrderAppend DEF v, w
<1>5. CASE Len(w) > 0 /\ v = Tail(w)
  BY <1>5, <1>1, <1>2, HasTail, OrderTail DEF v, w
<1>. QED BY <1>2, <1>3, <1>4, <1>5

LEMMA DataKeep ==
  ASSUME TypeOK, DataInv, NEW e \in End, NEW f \in Frame, ChanStep(e, f),
         chan'[e] = chan[e] \/ f.t # "DATA",
         \/ chan'[Peer(e)] = chan[Peer(e)]
         \/ Head(chan[Peer(e)]).t # "DATA"
         \/ \E id \in Ids : id = Head(chan[Peer(e)]).id /\ (rx[id].st = "gone" \/ rx[id].rst),
         \A id \in Ids :
           /\ hist'[id].rcvd = hist[id].rcvd /\ hist'[id].sent = hist[id].sent
           /\ rx'[id].st # "gone" /\ ~rx'[id].rst => rx[id].st # "gone" /\ ~rx[id].rst
  PROVE  DataInv'
<1> SUFFICES ASSUME NEW id \in Ids, rx'[id].st # "gone", ~rx'[id].rst
             PROVE  Chain(chan'[Opener(id)], "DATA", id, hist'[id].rcvd, hist'[id].sent)
  BY DEF DataInv
<1>a. /\ rx[id].st # "gone" /\ ~rx[id].rst
      /\ hist'[id].rcvd = hist[id].rcvd /\ hist'[id].sent = hist[id].sent
  OBVIOUS
<1> DEFINE w == chan[Opener(id)]
           v == chan'[Opener(id)]
           lo == hist[id].rcvd
           hi == hist[id].sent
<1>1. Opener(id) \in End /\ Chain(w, "DATA", id, lo, hi) /\ lo \in Nat /\ hi \in Nat
  BY <1>a, StreamTypes DEF DataInv
<1>2. /\ w \in Seq(Frame)
      /\ \/ v = w
         \/ v = Append(w, f) /\ f.t # "DATA"
         \/ Len(w) > 0 /\ v = Tail(w) /\ ~(Head(w).t = "DATA" /\ Head(w).id = id)
  <2>1. CASE v = w
    BY <2>1, <1>1, QueueStep
  <2>2. CASE v # w
    BY <2>2, <1>1, QueueStep
  <2>. QED BY <2>1, <2>2
<1> HIDE DEF w, v, lo, hi
<1>3. CASE v = w
  BY <1>a, <1>3, <1>1 DEF v, w, lo, hi
<1>4. CASE v = Append(w, f) /\ f.t # "DATA"
  BY <1>a, <1>4, <1>1, <1>2, ChainAppendOther DEF v, lo, hi
<1>5. CASE Len(w) > 0 /\ v = Tail(w) /\ ~(Head(w).t = "DATA" /\ Head(w).id = id)
  BY <1>a, <1>5, <1>1, <1>2, ChainTailOther DEF v, lo, hi
<1>. QED BY <1>2, <1>3, <1>4, <1>5

LEMMA CreditKeep ==
  ASSUME TypeOK, CreditInv, NEW e \in End, NEW f \in Frame, ChanStep(e, f),
         chan'[e] = chan[e] \/ f.t # "WINDOW",
         \/ chan'[Peer(e)] = chan[Peer(e)]
         \/ Head(chan[Peer(e)]).t # "WINDOW"
         \/ \E id \in Ids : id = Head(chan[Peer(e)]).id /\ (tx[id].st = "gone" \/ tx[id].rst),
         \A id \in Ids :
           /\ hist'[id].credited = hist[id].credited /\ hist'[id].granted = hist[id].granted
           /\ tx'[id].st # "gone" /\ ~tx'[id].rst => tx[id].st # "gone" /\ ~tx[id].rst
  PROVE  CreditInv'
<1> SUFFICES ASSUME NEW id \in Ids, tx'[id].st # "gone", ~tx'[id].rst
             PROVE  Chain(chan'[Reader(id)], "WINDOW", id, hist'[id].credited, hist'[id].granted)
  BY DEF CreditInv
<1>a. /\ tx[id].st # "gone" /\ ~tx[id].rst
      /\ hist'[id].credited = hist[id].credited /\ hist'[id].granted = hist[id].granted
  OBVIOUS
<1> DEFINE w == chan[Reader(id)]
           v == chan'[Reader(id)]
           lo == hist[id].credited
           hi == hist[id].granted
<1>1. Reader(id) \in End /\ Chain(w, "WINDOW", id, lo, hi) /\ lo \in Nat /\ hi \in Nat
  BY <1>a, StreamTypes DEF CreditInv
<1>2. /\ w \in Seq(Frame)
      /\ \/ v = w
         \/ v = Append(w, f) /\ f.t # "WINDOW"
         \/ Len(w) > 0 /\ v = Tail(w) /\ ~(Head(w).t = "WINDOW" /\ Head(w).id = id)
  <2>1. CASE v = w
    BY <2>1, <1>1, QueueStep
  <2>2. CASE v # w
    BY <2>2, <1>1, QueueStep
  <2>. QED BY <2>1, <2>2
<1> HIDE DEF w, v, lo, hi
<1>3. CASE v = w
  BY <1>a, <1>3, <1>1 DEF v, w, lo, hi
<1>4. CASE v = Append(w, f) /\ f.t # "WINDOW"
  BY <1>a, <1>4, <1>1, <1>2, ChainAppendOther DEF v, lo, hi
<1>5. CASE Len(w) > 0 /\ v = Tail(w) /\ ~(Head(w).t = "WINDOW" /\ Head(w).id = id)
  BY <1>a, <1>5, <1>1, <1>2, ChainTailOther DEF v, lo, hi
<1>. QED BY <1>2, <1>3, <1>4, <1>5

\* A WINDOW frame sent lengthens the chain of credit under way.
LEMMA CreditGrow ==
  ASSUME TypeOK, CreditInv, NEW e \in End, NEW f \in Frame, ChanStep(e, f),
         chan'[e] = Append(chan[e], f),
         f.t = "WINDOW", f.id \in Ids, Opener(f.id) # e, f.off = hist[f.id].granted, f.n > 0,
         chan'[Peer(e)] = chan[Peer(e)] \/ Head(chan[Peer(e)]).t # "WINDOW",
         hist'[f.id].granted = hist[f.id].granted + f.n,
         \A id \in Ids : hist'[id].credited = hist[id].credited,
         \A id \in Ids \ {f.id} : hist'[id].granted = hist[id].granted,
         \A id \in Ids : tx'[id].st = tx[id].st /\ tx'[id].rst = tx[id].rst
  PROVE  CreditInv'
<1> SUFFICES ASSUME NEW id \in Ids, tx'[id].st # "gone", ~tx'[id].rst
             PROVE  Chain(chan'[Reader(id)], "WINDOW", id, hist'[id].credited, hist'[id].granted)
  BY DEF CreditInv
<1>a. /\ tx[id].st # "gone" /\ ~tx[id].rst
      /\ hist'[id].credited = hist[id].credited
      /\ id # f.id => hist'[id].granted = hist[id].granted
  OBVIOUS
<1> DEFINE w == chan[Reader(id)]
           v == chan'[Reader(id)]
           lo == hist[id].credited
           hi == hist[id].granted
<1>1. Reader(id) \in End /\ Chain(w, "WINDOW", id, lo, hi) /\ lo \in Nat /\ hi \in Nat
  BY <1>a, StreamTypes DEF CreditInv
<1>2. /\ w \in Seq(Frame)
      /\ \/ v = w /\ Reader(id) # e
         \/ v = Append(w, f) /\ Reader(id) = e
         \/ Len(w) > 0 /\ v = Tail(w) /\ Head(w).t # "WINDOW" /\ Reader(id) # e
  <2>1. CASE Reader(id) = e
    BY <2>1, <1>1, QueueStep
  <2>2. ASSUME Reader(id) = Peer(e)
        PROVE  /\ w \in Seq(Frame) /\ Reader(id) # e
               /\ \/ v = w
                  \/ Len(w) > 0 /\ v = Tail(w) /\ Head(w).t # "WINDOW"
    <3>1. Reader(id) # e /\ w \in Seq(Frame)
      BY <2>2, <1>1, Ends DEF TypeOK
    <3>2. v = w \/ (Len(w) > 0 /\ v = Tail(w))
      BY <2>2, <1>1, <3>1 DEF ChanStep
    <3>. QED BY <2>2, <3>1, <3>2
  <2>. QED BY <2>1, <2>2, <1>1, Ends
<1>3. Reader(f.id) = e
  BY StreamTypes, Ends
<1> HIDE DEF w, v, lo, hi
<1>4. CASE v = w /\ Reader(id) # e
  BY <1>a, <1>4, <1>1, <1>3 DEF v, w, lo, hi
<1>5. CASE v = Append(w, f) /\ id # f.id
  BY <1>a, <1>5, <1>1, <1>2, ChainAppendOther DEF v, lo, hi
<1>6. CASE v = Append(w, f) /\ id = f.id
  BY <1>a, <1>6, <1>1, <1>2, ChainAppendSame DEF v, lo, hi
<1>7. CASE Len(w) > 0 /\ v = Tail(w) /\ Head(w).t # "WINDOW" /\ Reader(id) # e
  <2>1. id # f.id
    BY <1>7, <1>3
  <2>. QED BY <1>a, <1>7, <2>1, <1>1, <1>2, ChainTailOther DEF v, lo, hi
<1>. QED BY <1>2, <1>4, <1>5, <1>6, <1>7

\* A write in progress is the innermost call of its end.
LEMMA WriteOnTop ==
  ASSUME TypeOK, CallInv, NEW e \in End, NEW id, InCall(e, "write", id)
  PROVE  Writing(e) /\ Top(e).id = id
<1>1. PICK i \in 1 .. Len(cb[e]) : cb[e][i].k = "write" /\ cb[e][i].id = id
  BY DEF InCall
<1>2. i = Len(cb[e])
  BY <1>1 DEF CallInv
<1>3. cb[e] # <<>>
  BY <1>2 DEF TypeOK
<1>. QED BY <1>1, <1>2, <1>3 DEF Writing, Top, Idle

\* What a step that starts and ends no call may do to the streams without
\* disturbing the counts: shut a stream, finish it, pause it.
MayChange(id) ==
  /\ \/ tx'[id] = tx[id]
     \/ /\ tx[id].st # "none" /\ tx'[id].st # "none"
        /\ ~InCall(Opener(id), "write", id)
        /\ \/ tx'[id].st = "gone" \/ tx'[id].rst
           \/ tx'[id].win = tx[id].win /\ tx[id].st = "live" /\ ~tx[id].rst
  /\ \/ rx'[id] = rx[id]
     \/ /\ tx[id].st # "none"
        /\ rx'[id].st # "none"
        /\ rx[id].fin => rx'[id].fin
        /\ \/ rx'[id].st = "gone" \/ rx'[id].rst
           \/ /\ rx'[id].st = rx[id].st /\ rx'[id].rst = rx[id].rst
              /\ rx'[id].outst = rx[id].outst /\ rx'[id].pend = rx[id].pend
              /\ rx'[id].rxlen = rx[id].rxlen
              /\ rx[id].paused => rx'[id].paused

LocalInv == IdsInv /\ FreshInv /\ CountInv /\ CallInv /\ WriterInv /\ ReaderInv

LEMMA LocalKeep ==
  ASSUME TypeOK, LocalInv, nextId' = nextId, cb' = cb, hist' = hist,
         \A id \in Ids : MayChange(id)
  PROVE  LocalInv'
<1>1. IdsInv'
  BY DEF LocalInv, IdsInv, MayChange
<1>2. FreshInv'
  BY DEF LocalInv, FreshInv, MayChange
<1>3. CountInv'
  BY DEF LocalInv, CountInv, MayChange
<1>4. CallInv'
  <2>1. ASSUME NEW e \in End, NEW i \in 1 .. Len(cb[e])
        PROVE  LET c == cb[e][i] IN
               IF c.k = "write"
               THEN /\ i = Len(cb[e]) /\ Opener(c.id) = e
                    /\ tx'[c.id].st = "live" /\ ~tx'[c.id].fin /\ ~tx'[c.id].rst
                    /\ c.n <= c.a /\ c.a <= tx'[c.id].win
               ELSE Opener(c.id) # e /\ rx'[c.id].st # "none" /\ c.n > 0
    <3>1. cb[e][i] \in Continuation /\ cb[e][i].id \in Ids
      BY CallTypes
    <3>2. CASE cb[e][i].k = "write"
      <4>1. InCall(Opener(cb[e][i].id), "write", cb[e][i].id)
        <5>1. Opener(cb[e][i].id) = e
          BY <3>2 DEF LocalInv, CallInv
        <5>2. InCall(e, "write", cb[e][i].id)
          BY <3>2 DEF InCall
        <5>. QED BY <5>1, <5>2
      <4>2. tx'[cb[e][i].id] = tx[cb[e][i].id]
        BY <4>1, <3>1 DEF MayChange
      <4>. QED BY <3>2, <4>2 DEF LocalInv, CallInv
    <3>3. CASE cb[e][i].k # "write"
      BY <3>1, <3>3 DEF LocalInv, CallInv, MayChange
    <3>. QED BY <3>2, <3>3
  <2>. QED BY <2>1 DEF LocalInv, CallInv
<1>5. WriterInv'
  BY DEF LocalInv, WriterInv, MayChange, Writing, Top, Idle
<1>6. ReaderInv'
  BY DEF LocalInv, ReaderInv, MayChange, InCall
<1>. QED BY <1>1, <1>2, <1>3, <1>4, <1>5, <1>6 DEF LocalInv

ChanInv == FramesInv /\ OpenInv /\ EofInv /\ DataInv /\ CreditInv

\* IInv, regrouped.
LEMMA Parts == IInv <=> TypeOK /\ NoProtocolError /\ ChanInv /\ LocalInv
  BY DEF IInv, ChanInv, LocalInv

\* A frame is not wanted any more: its stream was shut at the end that gets it.
Stale(g) ==
  /\ g.t = "DATA" => \E id \in Ids : id = g.id /\ (rx[id].st = "gone" \/ rx[id].rst)
  /\ g.t = "WINDOW" => \E id \in Ids : id = g.id /\ (tx[id].st = "gone" \/ tx[id].rst)

\* What a step that moves no bytes and no credit may do to the streams.
QuietChange(id) ==
  /\ MayChange(id)
  /\ tx'[id].fin = tx[id].fin /\ rx'[id].fin = rx[id].fin
  /\ tx'[id].st = "none" <=> tx[id].st = "none"
  /\ rx'[id].st = "none" <=> rx[id].st = "none"
  /\ tx'[id].st # "gone" /\ ~tx'[id].rst => tx[id].st # "gone" /\ ~tx[id].rst
  /\ rx'[id].st # "gone" /\ ~rx'[id].rst => rx[id].st # "gone" /\ ~rx[id].rst

QuietTypes ==
  /\ tx' \in [Ids -> TxStream] /\ rx' \in [Ids -> RxStream]
  /\ err' \in [End -> {"none", "protocol", "transport"}]
  /\ \A e \in End : err'[e] # "protocol"
  /\ closing' \in [End -> BOOLEAN] /\ goaway' \in [End -> BOOLEAN]
  /\ AccOK'

LEMMA QuietStep ==
  ASSUME IInv, NEW e \in End, NEW f \in Frame, ChanStep(e, f), QuietTypes,
         chan'[e] = chan[e] \/ (f.t \in {"RESET", "GOAWAY"} /\ FrameOK(e, f)),
         \/ chan'[Peer(e)] = chan[Peer(e)]
         \/ Head(chan[Peer(e)]).t # "OPEN" /\ Stale(Head(chan[Peer(e)])),
         nextId' = nextId, cb' = cb, hist' = hist,
         \A id \in Ids : QuietChange(id)
  PROVE  IInv'
<1>1. TypeOK /\ ChanInv /\ LocalInv
  BY Parts
<1>2. TypeOK'
  BY <1>1 DEF TypeOK, QuietTypes, AccOK, ChanStep
<1>3. NoProtocolError'
  BY DEF NoProtocolError, QuietTypes
<1>4. LocalInv'
  BY <1>1, LocalKeep DEF QuietChange
<1>5. FramesInv'
  <2>1. \A id \in Ids : tx[id].st # "none" => tx'[id].st # "none"
    BY DEF QuietChange
  <2>2. chan'[e] = chan[e] \/ FrameOK(e, f)'
    BY <2>1 DEF FrameOK
  <2>. QED BY <1>1, <2>1, <2>2, FramesKeep DEF ChanInv
<1>6. OpenInv'
  <2>1. \A id \in Ids : /\ tx'[id].st = "none" <=> tx[id].st = "none"
                        /\ rx'[id].st = "none" <=> rx[id].st = "none"
    BY DEF QuietChange
  <2>2. chan'[e] = chan[e] \/ f.t # "OPEN"
    OBVIOUS
  <2>3. chan'[Peer(e)] = chan[Peer(e)] \/ Head(chan[Peer(e)]).t # "OPEN"
    OBVIOUS
  <2>. QED BY <1>1, <2>1, <2>2, <2>3, OpenKeep DEF ChanInv
<1>7. EofInv'
  <2>1. \A id \in Ids : tx'[id].fin = tx[id].fin /\ rx'[id].fin = rx[id].fin
    BY DEF QuietChange
  <2>2. chan'[e] = chan[e] \/ (f.t # "EOF" /\ (f.t = "DATA" => f.id \in Ids /\ ~tx[f.id].fin))
    OBVIOUS
  <2>. QED BY <1>1, <2>1, <2>2, EofKeep DEF ChanInv
<1>8. DataInv'
  <2>1. \A id \in Ids :
          /\ hist'[id].rcvd = hist[id].rcvd /\ hist'[id].sent = hist[id].sent
          /\ rx'[id].st # "gone" /\ ~rx'[id].rst => rx[id].st # "gone" /\ ~rx[id].rst
    BY DEF QuietChange
  <2>2. chan'[e] = chan[e] \/ f.t # "DATA"
    OBVIOUS
  <2>3. \/ chan'[Peer(e)] = chan[Peer(e)]
        \/ Head(chan[Peer(e)]).t # "DATA"
        \/ \E id \in Ids : id = Head(chan[Peer(e)]).id /\ (rx[id].st = "gone" \/ rx[id].rst)
    BY DEF Stale
  <2>. QED BY <1>1, <2>1, <2>2, <2>3, DataKeep DEF ChanInv
<1>9. CreditInv'
  <2>1. \A id \in Ids :
          /\ hist'[id].credited = hist[id].credited /\ hist'[id].granted = hist[id].granted
          /\ tx'[id].st # "gone" /\ ~tx'[id].rst => tx[id].st # "gone" /\ ~tx[id].rst
    BY DEF QuietChange
  <2>2. chan'[e] = chan[e] \/ f.t # "WINDOW"
    OBVIOUS
  <2>3. \/ chan'[Peer(e)] = chan[Peer(e)]
        \/ Head(chan[Peer(e)]).t # "WINDOW"
        \/ \E id \in Ids : id = Head(chan[Peer(e)]).id /\ (tx[id].st = "gone" \/ tx[id].rst)
    BY DEF Stale
  <2>. QED BY <1>1, <2>1, <2>2, <2>3, CreditKeep DEF ChanInv
<1>. QED BY <1>2, <1>3, <1>4, <1>5, <1>6, <1>7, <1>8, <1>9, Parts DEF IInv, LocalInv

-----------------------------------------------------------------------------
(***************************************************************************)
(* The actions that move no bytes and no credit.                           *)
(***************************************************************************)

\* The frames the engine makes are frames.
LEMMA MkFrame ==
  ASSUME NEW t \in FrameTypes, NEW id \in Nat, NEW off \in Nat, NEW n \in Nat
  PROVE  /\ Mk(t, id, off, n) \in Frame
         /\ Mk(t, id, off, n).t = t /\ Mk(t, id, off, n).id = id
         /\ Mk(t, id, off, n).off = off /\ Mk(t, id, off, n).n = n
  BY DEF Mk, Frame

\* A step that leaves the streams alone.
LEMMA QuietSame ==
  ASSUME tx' = tx, rx' = rx
  PROVE  \A id \in Ids : QuietChange(id)
  BY DEF QuietChange, MayChange

\* A call of the application finds no write in progress at its end.
LEMMA NotWriting ==
  ASSUME TypeOK, CallInv, NEW e \in End, AppMay(e), NEW id
  PROVE  ~InCall(e, "write", id)
  BY WriteOnTop DEF AppMay

\* Neither does the I/O task.
LEMMA IdleNotWriting ==
  ASSUME TypeOK, NEW e \in End, Idle(e), NEW k, NEW id
  PROVE  ~InCall(e, k, id)
  BY DEF Idle, InCall

LEMMA StreamResetStep ==
  ASSUME IInv, NEW e \in End, NEW id \in Ids, StreamReset(e, id)
  PROVE  IInv'
<1> DEFINE f == Mk("RESET", id, 0, 0)
<1>1. TypeOK /\ CallInv /\ id \in Nat /\ FreshInv /\ NoProtocolError
  BY DEF IInv, Ids
<1>2. f \in Frame /\ f.t = "RESET" /\ f.id = id
  BY <1>1, MkFrame DEF FrameTypes
<1>3. Enqueue(e, f) /\ AppMay(e)
  BY DEF StreamReset
<1> HIDE DEF f
<1>4. ChanStep(e, f) /\ AccOK' /\ chan'[Peer(e)] = chan[Peer(e)]
  BY <1>1, <1>2, <1>3, EnqueueStep
<1>5. UNCHANGED <<cb, nextId, err, closing, goaway, hist>>
  BY DEF StreamReset
<1>6. tx[id].st # "none"
  BY <1>1 DEF StreamReset, Live, FreshInv, IInv, OpenInv
<1>7. FrameOK(e, f)
  BY <1>2, <1>6 DEF FrameOK
<1>8. ~InCall(e, "write", id)
  BY <1>1, <1>3, NotWriting
<1>9. (\A x \in Ids : QuietChange(x)) /\ tx' \in [Ids -> TxStream] /\ rx' \in [Ids -> RxStream]
  <2>1. CASE Opener(id) = e
    <3>1. tx' = [tx EXCEPT ![id].rst = TRUE] /\ rx' = rx /\ tx[id].st = "live"
      BY <2>1 DEF StreamReset, Live
    <3>2. /\ tx' \in [Ids -> TxStream] /\ \A x \in Ids \ {id} : tx'[x] = tx[x]
          /\ tx'[id].st = tx[id].st /\ tx'[id].rst /\ tx'[id].fin = tx[id].fin
      BY <1>1, <3>1 DEF TypeOK, TxStream
    <3>. QED BY <1>1, <1>8, <2>1, <3>1, <3>2 DEF QuietChange, MayChange, TypeOK
  <2>2. CASE Opener(id) # e
    <3>1. rx' = [rx EXCEPT ![id].rst = TRUE] /\ tx' = tx /\ rx[id].st = "live"
      BY <2>2 DEF StreamReset, Live
    <3>2. /\ rx' \in [Ids -> RxStream] /\ \A x \in Ids \ {id} : rx'[x] = rx[x]
          /\ rx'[id].st = rx[id].st /\ rx'[id].rst /\ rx'[id].fin = rx[id].fin
      BY <1>1, <3>1 DEF TypeOK, RxStream
    <3>. QED BY <1>1, <1>6, <2>2, <3>1, <3>2 DEF QuietChange, MayChange, TypeOK
  <2>. QED BY <2>1, <2>2
<1>10. QuietTypes
  BY <1>1, <1>4, <1>5, <1>9 DEF QuietTypes, TypeOK, NoProtocolError
<1>. QED BY <1>2, <1>4, <1>5, <1>7, <1>9, <1>10, QuietStep

LEMMA StreamReleaseStep ==
  ASSUME IInv, NEW e \in End, NEW id \in Ids, StreamRelease(e, id)
  PROVE  IInv'
<1> DEFINE f == Mk("RESET", id, 0, 0)
<1>1. TypeOK /\ CallInv /\ id \in Nat /\ FreshInv /\ NoProtocolError
  BY DEF IInv, Ids
<1>2. f \in Frame /\ f.t = "RESET" /\ f.id = id
  BY <1>1, MkFrame DEF FrameTypes
<1>3. (Enqueue(e, f) \/ UNCHANGED <<chan, acc>>) /\ AppMay(e)
  BY DEF StreamRelease
<1> HIDE DEF f
<1>4. ChanStep(e, f) /\ AccOK' /\ chan'[Peer(e)] = chan[Peer(e)]
  BY <1>1, <1>2, <1>3, EnqueueStep DEF ChanStep, AccOK, TypeOK
<1>5. UNCHANGED <<cb, nextId, err, closing, goaway, hist>>
  BY DEF StreamRelease
<1>6. tx[id].st # "none"
  BY <1>1 DEF StreamRelease, Live, FreshInv, IInv, OpenInv
<1>7. FrameOK(e, f)
  BY <1>2, <1>6 DEF FrameOK
<1>8. ~InCall(e, "write", id)
  BY <1>1, <1>3, NotWriting
<1>9. (\A x \in Ids : QuietChange(x)) /\ tx' \in [Ids -> TxStream] /\ rx' \in [Ids -> RxStream]
  <2>1. CASE Opener(id) = e
    <3>1. tx' = [tx EXCEPT ![id].st = "gone"] /\ rx' = rx /\ tx[id].st = "live"
      BY <2>1 DEF StreamRelease, Live
    <3>2. /\ tx' \in [Ids -> TxStream] /\ \A x \in Ids \ {id} : tx'[x] = tx[x]
          /\ tx'[id].st = "gone" /\ tx'[id].rst = tx[id].rst /\ tx'[id].fin = tx[id].fin
      BY <1>1, <3>1 DEF TypeOK, TxStream, Life
    <3>. QED BY <1>1, <1>8, <2>1, <3>1, <3>2 DEF QuietChange, MayChange, TypeOK
  <2>2. CASE Opener(id) # e
    <3>1. rx' = [rx EXCEPT ![id].st = "gone"] /\ tx' = tx /\ rx[id].st = "live"
      BY <2>2 DEF StreamRelease, Live
    <3>2. /\ rx' \in [Ids -> RxStream] /\ \A x \in Ids \ {id} : rx'[x] = rx[x]
          /\ rx'[id].st = "gone" /\ rx'[id].rst = rx[id].rst /\ rx'[id].fin = rx[id].fin
      BY <1>1, <3>1 DEF TypeOK, RxStream, Life
    <3>. QED BY <1>1, <1>6, <2>2, <3>1, <3>2 DEF QuietChange, MayChange, TypeOK
  <2>. QED BY <2>1, <2>2
<1>10. QuietTypes
  BY <1>1, <1>4, <1>5, <1>9 DEF QuietTypes, TypeOK, NoProtocolError
<1>. QED BY <1>2, <1>4, <1>5, <1>7, <1>9, <1>10, QuietStep

LEMMA StreamPauseStep ==
  ASSUME IInv, NEW e \in End, NEW id \in Ids, StreamPause(e, id)
  PROVE  IInv'
<1> DEFINE f == Mk("GOAWAY", 0, 0, 0)
<1>1. TypeOK /\ NoProtocolError /\ OpenInv
  BY DEF IInv
<1>2. f \in Frame
  BY MkFrame DEF FrameTypes
<1> HIDE DEF f
<1>3. UNCHANGED <<chan, acc, tx, cb, nextId, err, closing, goaway, hist>>
      /\ rx' = [rx EXCEPT ![id].paused = TRUE] /\ rx[id].st = "live"
  BY DEF StreamPause
<1>4. ChanStep(e, f) /\ AccOK'
  BY <1>1, <1>3 DEF ChanStep, AccOK, TypeOK
<1>5. /\ rx' \in [Ids -> RxStream] /\ \A x \in Ids \ {id} : rx'[x] = rx[x]
      /\ rx'[id].st = "live" /\ rx'[id].rst = rx[id].rst /\ rx'[id].fin = rx[id].fin /\ rx'[id].paused
      /\ rx'[id].outst = rx[id].outst /\ rx'[id].pend = rx[id].pend /\ rx'[id].rxlen = rx[id].rxlen
  BY <1>1, <1>3 DEF TypeOK, RxStream
<1>6. tx[id].st # "none"
  BY <1>1, <1>3 DEF OpenInv
<1>7. \A x \in Ids : QuietChange(x)
  BY <1>3, <1>5, <1>6 DEF QuietChange, MayChange
<1>8. QuietTypes
  BY <1>1, <1>3, <1>4, <1>5 DEF QuietTypes, TypeOK, NoProtocolError
<1>. QED BY <1>2, <1>3, <1>4, <1>7, <1>8, QuietStep

LEMMA CloseStep ==
  ASSUME IInv, NEW e \in End, Close(e)
  PROVE  IInv'
<1> DEFINE f == Mk("GOAWAY", 0, 0, 0)
<1>1. TypeOK /\ NoProtocolError
  BY DEF IInv
<1>2. f \in Frame /\ f.t = "GOAWAY"
  BY MkFrame DEF FrameTypes
<1>3. Enqueue(e, f) \/ UNCHANGED <<chan, acc>>
  BY DEF Close
<1> HIDE DEF f
<1>4. ChanStep(e, f) /\ AccOK' /\ chan'[Peer(e)] = chan[Peer(e)]
  BY <1>1, <1>2, <1>3, EnqueueStep DEF ChanStep, AccOK, TypeOK
<1>5. /\ UNCHANGED <<tx, rx, cb, nextId, err, goaway, hist>>
      /\ closing' = [closing EXCEPT ![e] = TRUE]
  BY DEF Close
<1>6. FrameOK(e, f)
  BY <1>2 DEF FrameOK
<1>7. QuietTypes
  BY <1>1, <1>4, <1>5 DEF QuietTypes, TypeOK, NoProtocolError
<1>8. \A x \in Ids : QuietChange(x)
  BY <1>5, QuietSame
<1>. QED BY <1>2, <1>4, <1>5, <1>6, <1>7, <1>8, QuietStep

LEMMA LinkStep ==
  ASSUME IInv, NEW e \in End, OnWritable(e) \/ OnError(e)
  PROVE  IInv'
<1> DEFINE f == Mk("GOAWAY", 0, 0, 0)
<1>1. TypeOK /\ NoProtocolError
  BY DEF IInv
<1>2. f \in Frame
  BY MkFrame DEF FrameTypes
<1> HIDE DEF f
<1>3. UNCHANGED <<chan, tx, rx, cb, nextId, closing, goaway, hist>>
  BY DEF OnWritable, OnError
<1>4. chan \in [End -> Seq(Frame)] /\ acc \in [End -> Nat] /\ \A x \in End : Len(chan[x]) \in Nat /\ acc[x] <= Len(chan[x])
  BY <1>1 DEF TypeOK
<1>5. AccOK'
  <2>1. CASE OnWritable(e)
    <3>1. PICK k \in acc[e] + 1 .. Len(chan[e]) : acc' = [acc EXCEPT ![e] = k]
      BY <2>1 DEF OnWritable
    <3>. QED BY <1>3, <1>4, <3>1 DEF AccOK
  <2>2. CASE OnError(e)
    BY <1>3, <1>4, <2>2 DEF AccOK, OnError
  <2>. QED BY <2>1, <2>2
<1>6. ChanStep(e, f)
  BY <1>3, <1>4 DEF ChanStep
<1>7. QuietTypes
  BY <1>1, <1>3, <1>5 DEF QuietTypes, TypeOK, NoProtocolError, OnWritable, OnError
<1>8. \A x \in Ids : QuietChange(x)
  BY <1>3, QuietSame
<1>. QED BY <1>2, <1>3, <1>6, <1>7, <1>8, QuietStep

\* What a handler of a frame of type t knows about the frame it handles.
LEMMA Received1 ==
  ASSUME IInv, NEW e \in End, NEW t \in FrameTypes, Receives(e, t)
  PROVE  LET p == Peer(e)
             g == Head(chan[p]) IN
         /\ p \in End /\ p # e /\ acc[p] > 0 /\ Len(chan[p]) > 0
         /\ chan[p] \in Seq(Frame) /\ g \in Frame /\ g.t = t /\ FrameOK(p, g)
         /\ g.id \in Nat /\ g.off \in Nat /\ g.n \in Nat
         /\ Idle(e) /\ err[e] = "none"
<1>1. TypeOK /\ FramesInv
  BY DEF IInv
<1>2. Peer(e) \in End /\ Peer(e) # e
  BY Ends
<1>3. acc[Peer(e)] > 0 /\ Head(chan[Peer(e)]).t = t /\ Idle(e) /\ err[e] = "none"
  BY DEF Receives
<1>4. chan[Peer(e)] \in Seq(Frame) /\ Len(chan[Peer(e)]) > 0
  BY <1>1, <1>2, <1>3 DEF TypeOK
<1>5. Head(chan[Peer(e)]) \in Frame /\ FrameOK(Peer(e), Head(chan[Peer(e)]))
  BY <1>1, <1>2, <1>4, HeadOK
<1>6. \A g \in Frame : g.id \in Nat /\ g.off \in Nat /\ g.n \in Nat
  BY DEF Frame
<1>. QED BY <1>2, <1>3, <1>4, <1>5, <1>6

\* A frame of a shut stream is dropped.
LEMMA DropStep ==
  ASSUME IInv, NEW e \in End, NEW t \in {"DATA", "EOF", "WINDOW"}, Receives(e, t), Drop(e),
         ~Live(e, Head(chan[Peer(e)]).id) \/ WasReset(e, Head(chan[Peer(e)]).id)
  PROVE  IInv'
<1> DEFINE f == Mk("GOAWAY", 0, 0, 0)
           p == Peer(e)
           g == Head(chan[p])
<1>1. TypeOK /\ NoProtocolError /\ OpenInv /\ FreshInv
  BY DEF IInv
<1>2. f \in Frame
  BY MkFrame DEF FrameTypes
<1>3. Consume(e) /\ UNCHANGED <<tx, rx, cb, nextId, err, closing, goaway, hist>>
  BY DEF Drop
<1>4. /\ p \in End /\ p # e /\ acc[p] > 0 /\ Len(chan[p]) > 0
      /\ chan[p] \in Seq(Frame) /\ g \in Frame /\ g.t = t /\ FrameOK(p, g)
  BY Received1 DEF FrameTypes
<1>5. ChanStep(e, f) /\ AccOK' /\ chan'[e] = chan[e]
  BY <1>1, <1>3, <1>4, ConsumeStep
<1>6. g.id \in Ids /\ tx[g.id].st # "none"
      /\ (t \in {"DATA", "EOF"} => Opener(g.id) = p) /\ (t = "WINDOW" => Opener(g.id) # p)
  BY <1>4 DEF FrameOK
<1>7. ~Live(e, g.id) \/ WasReset(e, g.id)
  OBVIOUS
<1>8. \A x \in End : x = e \/ x = p
  BY Ends
<1>9. Opener(g.id) \in End
  BY <1>1, <1>6, StreamTypes
<1> HIDE DEF f, g, p
<1>10. Stale(g)
  <2>1. CASE t = "DATA"
    <3>1. Opener(g.id) # e /\ (rx[g.id].st # "live" \/ rx[g.id].rst)
      BY <2>1, <1>4, <1>6, <1>7 DEF Live, WasReset
    <3>2. Has(chan[p], "DATA", g.id) /\ Is(chan[p], 1, "DATA", g.id)
      BY <2>1, <1>4, TailFrame DEF Has, Is, g
    <3>3. rx[g.id].st # "none"
      <4>1. SUFFICES ASSUME rx[g.id].st = "none" PROVE FALSE
        OBVIOUS
      <4>2. Has(chan[p], "OPEN", g.id) /\ OpenFirst(chan[p], g.id)
        BY <4>1, <2>1, <1>1, <1>6 DEF OpenInv
      <4>3. PICK j \in 1 .. Len(chan[p]) : Is(chan[p], j, "OPEN", g.id)
        BY <4>2 DEF Has
      <4>4. j # 1
        BY <4>3, <3>2 DEF Is
      <4>. QED BY <4>2, <4>3, <4>4, <3>2, <1>4 DEF OpenFirst
    <3>4. rx[g.id].st = "gone" \/ rx[g.id].rst
      BY <3>1, <3>3, <1>1, <1>6 DEF TypeOK, RxStream, Life
    <3>. QED BY <3>4, <2>1, <1>4, <1>6 DEF Stale
  <2>2. CASE t = "WINDOW"
    <3>1. Opener(g.id) = e
      BY <2>2, <1>6, <1>8, <1>9
    <3>2. tx[g.id].st = "gone" \/ tx[g.id].rst
      BY <3>1, <1>1, <1>6, <1>7 DEF Live, WasReset, TypeOK, TxStream, Life
    <3>. QED BY <3>2, <2>2, <1>4, <1>6 DEF Stale
  <2>3. CASE t = "EOF"
    BY <2>3, <1>4 DEF Stale
  <2>. QED BY <2>1, <2>2, <2>3
<1>11. QuietTypes
  BY <1>1, <1>3, <1>5 DEF QuietTypes, TypeOK, NoProtocolError
<1>12. \A x \in Ids : QuietChange(x)
  BY <1>3, QuietSame
<1>13. Head(chan[Peer(e)]).t # "OPEN" /\ Stale(Head(chan[Peer(e)]))
  BY <1>4, <1>10 DEF g, p
<1>. QED BY <1>2, <1>3, <1>5, <1>11, <1>12, <1>13, QuietStep

LEMMA HandleGoawayStep ==
  ASSUME IInv, NEW e \in End, HandleGoaway(e)
  PROVE  IInv'
<1> DEFINE f == Mk("GOAWAY", 0, 0, 0)
<1>1. TypeOK /\ NoProtocolError
  BY DEF IInv
<1>2. f \in Frame
  BY MkFrame DEF FrameTypes
<1>3. Consume(e) /\ Receives(e, "GOAWAY") /\ goaway' = [goaway EXCEPT ![e] = TRUE]
      /\ UNCHANGED <<tx, rx, cb, nextId, err, closing, hist>>
  BY DEF HandleGoaway
<1>4. acc[Peer(e)] > 0 /\ Head(chan[Peer(e)]).t = "GOAWAY"
  BY <1>3 DEF Receives
<1> HIDE DEF f
<1>5. ChanStep(e, f) /\ AccOK' /\ chan'[e] = chan[e]
  BY <1>1, <1>3, <1>4, ConsumeStep
<1>6. QuietTypes
  BY <1>1, <1>3, <1>5 DEF QuietTypes, TypeOK, NoProtocolError
<1>7. \A x \in Ids : QuietChange(x)
  BY <1>3, QuietSame
<1>8. Head(chan[Peer(e)]).t # "OPEN" /\ Stale(Head(chan[Peer(e)]))
  BY <1>4 DEF Stale
<1>. QED BY <1>2, <1>3, <1>5, <1>6, <1>7, <1>8, QuietStep

LEMMA HandleResetStep ==
  ASSUME IInv, NEW e \in End, HandleReset(e)
  PROVE  IInv'
<1> DEFINE f == Mk("GOAWAY", 0, 0, 0)
           g == Head(chan[Peer(e)])
<1>1. TypeOK /\ NoProtocolError /\ OpenInv
  BY DEF IInv
<1>2. f \in Frame
  BY MkFrame DEF FrameTypes
<1>3. Consume(e) /\ Receives(e, "RESET") /\ UNCHANGED <<cb, nextId, err, closing, goaway, hist>>
  BY DEF HandleReset
<1>4. acc[Peer(e)] > 0 /\ g.t = "RESET" /\ Idle(e)
  BY <1>3 DEF Receives
<1>5. g.id \in Ids /\ tx[g.id].st # "none"
  BY <1>3, Received1 DEF FrameOK, FrameTypes
<1>6. ~InCall(e, "write", g.id)
  BY <1>1, <1>4, IdleNotWriting
<1>7. \/ Opener(g.id) = e /\ Live(e, g.id) /\ tx' = [tx EXCEPT ![g.id].rst = TRUE] /\ rx' = rx
      \/ Opener(g.id) # e /\ Live(e, g.id) /\ rx' = [rx EXCEPT ![g.id].rst = TRUE] /\ tx' = tx
      \/ UNCHANGED <<tx, rx>>
  BY DEF HandleReset
<1>8. Head(chan[Peer(e)]).t # "OPEN" /\ Stale(Head(chan[Peer(e)]))
  BY <1>4 DEF Stale
<1> HIDE DEF f, g
<1>9. ChanStep(e, f) /\ AccOK' /\ chan'[e] = chan[e]
  BY <1>1, <1>3, <1>4, ConsumeStep
<1>10. (\A x \in Ids : QuietChange(x)) /\ tx' \in [Ids -> TxStream] /\ rx' \in [Ids -> RxStream]
  <2>1. CASE Opener(g.id) = e /\ Live(e, g.id) /\ tx' = [tx EXCEPT ![g.id].rst = TRUE] /\ rx' = rx
    <3>1. /\ tx' \in [Ids -> TxStream] /\ \A x \in Ids \ {g.id} : tx'[x] = tx[x]
          /\ tx'[g.id].st = tx[g.id].st /\ tx'[g.id].rst /\ tx'[g.id].fin = tx[g.id].fin
      BY <1>1, <1>5, <2>1 DEF TypeOK, TxStream
    <3>. QED BY <1>1, <1>5, <1>6, <2>1, <3>1 DEF QuietChange, MayChange, TypeOK
  <2>2. CASE Opener(g.id) # e /\ Live(e, g.id) /\ rx' = [rx EXCEPT ![g.id].rst = TRUE] /\ tx' = tx
    <3>1. /\ rx' \in [Ids -> RxStream] /\ \A x \in Ids \ {g.id} : rx'[x] = rx[x]
          /\ rx'[g.id].st = rx[g.id].st /\ rx'[g.id].rst /\ rx'[g.id].fin = rx[g.id].fin
      BY <1>1, <1>5, <2>2 DEF TypeOK, RxStream
    <3>2. rx[g.id].st # "none"
      BY <2>2 DEF Live
    <3>. QED BY <1>1, <1>5, <2>2, <3>1, <3>2 DEF QuietChange, MayChange, TypeOK
  <2>3. CASE UNCHANGED <<tx, rx>>
    BY <1>1, <2>3, QuietSame DEF TypeOK
  <2>. QED BY <1>7, <2>1, <2>2, <2>3
<1>11. QuietTypes
  BY <1>1, <1>3, <1>9, <1>10 DEF QuietTypes, TypeOK, NoProtocolError
<1>. QED BY <1>2, <1>3, <1>8, <1>9, <1>10, <1>11, QuietStep

-----------------------------------------------------------------------------
(***************************************************************************)
(* The actions that begin and end a stream.                                *)
(***************************************************************************)
LEMMA StreamFinishStep ==
  ASSUME IInv, NEW e \in End, NEW id \in Ids, StreamFinish(e, id)
  PROVE  IInv'
<1> DEFINE f == Mk("EOF", id, 0, 0)
<1>1. TypeOK /\ CallInv /\ id \in Nat /\ NoProtocolError /\ ChanInv /\ LocalInv
  BY Parts DEF IInv, Ids
<1>2. f \in Frame /\ f.t = "EOF" /\ f.id = id
  BY <1>1, MkFrame DEF FrameTypes
<1>3. Enqueue(e, f) /\ AppMay(e) /\ Opener(id) = e
      /\ tx[id].st = "live" /\ ~tx[id].fin /\ ~tx[id].rst
      /\ tx' = [tx EXCEPT ![id].fin = TRUE]
      /\ UNCHANGED <<rx, cb, nextId, err, closing, goaway, hist>>
  BY DEF StreamFinish
<1> HIDE DEF f
<1>4. ChanStep(e, f) /\ AccOK' /\ chan'[e] = Append(chan[e], f) /\ chan'[Peer(e)] = chan[Peer(e)]
  BY <1>1, <1>2, <1>3, EnqueueStep
<1>5. /\ tx' \in [Ids -> TxStream] /\ \A x \in Ids \ {id} : tx'[x] = tx[x]
      /\ tx'[id].st = "live" /\ ~tx'[id].rst /\ tx'[id].fin /\ tx'[id].win = tx[id].win
  BY <1>1, <1>3 DEF TypeOK, TxStream
<1>6. ~InCall(e, "write", id)
  BY <1>1, <1>3, NotWriting
<1>7. LocalInv'
  <2>1. \A x \in Ids : MayChange(x)
    BY <1>3, <1>5, <1>6 DEF MayChange
  <2>. QED BY <1>1, <1>3, <2>1, LocalKeep
<1>8. FramesInv'
  <2>1. FrameOK(e, f)'
    BY <1>2, <1>3, <1>5 DEF FrameOK
  <2>2. \A x \in Ids : tx[x].st # "none" => tx'[x].st # "none"
    BY <1>5
  <2>. QED BY <1>1, <1>2, <1>4, <2>1, <2>2, FramesKeep DEF ChanInv
<1>9. OpenInv'
  <2>1. \A x \in Ids : /\ tx'[x].st = "none" <=> tx[x].st = "none"
                       /\ rx'[x].st = "none" <=> rx[x].st = "none"
    BY <1>3, <1>5
  <2>. QED BY <1>1, <1>2, <1>4, <2>1, OpenKeep DEF ChanInv
<1>10. DataInv'
  <2>1. \A x \in Ids :
          /\ hist'[x].rcvd = hist[x].rcvd /\ hist'[x].sent = hist[x].sent
          /\ rx'[x].st # "gone" /\ ~rx'[x].rst => rx[x].st # "gone" /\ ~rx[x].rst
    BY <1>3
  <2>. QED BY <1>1, <1>2, <1>4, <2>1, DataKeep DEF ChanInv
<1>11. CreditInv'
  <2>1. \A x \in Ids :
          /\ hist'[x].credited = hist[x].credited /\ hist'[x].granted = hist[x].granted
          /\ tx'[x].st # "gone" /\ ~tx'[x].rst => tx[x].st # "gone" /\ ~tx[x].rst
    BY <1>3, <1>5
  <2>. QED BY <1>1, <1>2, <1>4, <2>1, CreditKeep DEF ChanInv
<1>12. EofInv'
  <2> SUFFICES ASSUME NEW x \in Ids
               PROVE  /\ ~tx'[x].fin => ~rx'[x].fin /\ ~Has(chan'[Opener(x)], "EOF", x)
                      /\ rx'[x].fin => /\ ~Has(chan'[Opener(x)], "EOF", x)
                                       /\ ~Has(chan'[Opener(x)], "DATA", x)
                      /\ EofLast(chan'[Opener(x)], x)
    BY DEF EofInv
  <2>1. /\ ~tx[x].fin => ~rx[x].fin /\ ~Has(chan[Opener(x)], "EOF", x)
        /\ rx[x].fin => ~Has(chan[Opener(x)], "EOF", x) /\ ~Has(chan[Opener(x)], "DATA", x)
        /\ EofLast(chan[Opener(x)], x)
    BY <1>1 DEF EofInv, ChanInv
  <2>2. Opener(x) \in End /\ chan[Opener(x)] \in Seq(Frame) /\ chan[e] \in Seq(Frame)
    BY <1>1, StreamTypes DEF TypeOK
  <2>3. CASE Opener(x) # e
    <3>1. chan'[Opener(x)] = chan[Opener(x)] /\ x # id
      BY <2>2, <2>3, <1>3, <1>4, Ends
    <3>. QED BY <2>1, <3>1, <1>3, <1>5
  <2>4. CASE Opener(x) = e /\ x # id
    <3>1. Has(Append(chan[e], f), "EOF", x) => Has(chan[e], "EOF", x)
      BY <1>2, <2>2, <2>4, HasAppend
    <3>2. Has(Append(chan[e], f), "DATA", x) => Has(chan[e], "DATA", x)
      BY <1>2, <2>2, <2>4, HasAppend
    <3>3. EofLast(Append(chan[e], f), x)
      BY <1>2, <2>1, <2>2, <2>4, OrderAppend
    <3>. QED BY <2>1, <2>4, <3>1, <3>2, <3>3, <1>3, <1>4, <1>5
  <2>5. CASE x = id
    <3>1. EofLast(Append(chan[e], f), id)
      BY <1>2, <1>3, <2>1, <2>2, <2>5, OrderAppend
    <3>. QED BY <2>1, <2>5, <3>1, <1>3, <1>4, <1>5
  <2>. QED BY <2>3, <2>4, <2>5
<1>13. TypeOK' /\ NoProtocolError'
  BY <1>1, <1>3, <1>4, <1>5 DEF TypeOK, AccOK, ChanStep, NoProtocolError
<1>. QED BY <1>7, <1>8, <1>9, <1>10, <1>11, <1>12, <1>13 DEF IInv, LocalInv

\* What the OPEN invariant says of one stream.
OpenOf(id) ==
  /\ tx[id].st = "none" => rx[id].st = "none"
  /\ Has(chan[Opener(id)], "OPEN", id) <=> tx[id].st # "none" /\ rx[id].st = "none"
  /\ OpenFirst(chan[Opener(id)], id)

LEMMA OpenAll == OpenInv <=> \A id \in Ids : OpenOf(id)
  BY DEF OpenInv, OpenOf

\* An id not yet used occurs in no queue.
LEMMA Unused ==
  ASSUME TypeOK, FramesInv, NEW id \in Ids, tx[id].st = "none", NEW x \in End, NEW t \in FrameTypes \ {"GOAWAY"}
  PROVE  ~Has(chan[x], t, id)
  BY DEF Has, Is, FramesInv, FrameOK

\* The reader learns of a stream, to take it or to refuse it.
LEMMA HandleOpenStep ==
  ASSUME IInv, NEW e \in End, HandleOpen(e)
  PROVE  IInv'
<1>1. TypeOK /\ NoProtocolError /\ ChanInv /\ LocalInv /\ OpenInv /\ FramesInv
  BY Parts DEF IInv
<1> DEFINE p == Peer(e)
           g == Head(chan[p])
<1>2. Receives(e, "OPEN")
  BY DEF HandleOpen
<1>3. /\ p \in End /\ p # e /\ acc[p] > 0 /\ Len(chan[p]) > 0
      /\ chan[p] \in Seq(Frame) /\ g \in Frame /\ g.t = "OPEN" /\ FrameOK(p, g)
  BY <1>2, Received1 DEF FrameTypes
<1>4. PICK id \in Ids : id = g.id
  BY <1>3 DEF FrameOK
<1>5. Opener(id) = p /\ Reader(id) = e /\ Opener(id) # e /\ id \in Nat /\ tx[id].st # "none"
  BY <1>1, <1>3, <1>4, Ends, StreamTypes DEF FrameOK
<1>6. Is(chan[p], 1, "OPEN", id) /\ Has(chan[p], "OPEN", id)
  BY <1>3, <1>4, TailFrame DEF Has, Is
<1>7. rx[id].st = "none" /\ rx[id] = NoRx /\ hist[id].rcvd = 0 /\ hist[id].got = 0
      /\ hist[id].granted = 0 /\ hist[id].fins = 0
  BY <1>1, <1>5, <1>6 DEF OpenInv, LocalInv, FreshInv
<1>8. ~Live(e, id)
  BY <1>5, <1>7 DEF Live
<1> DEFINE f == Mk("RESET", id, 0, 0)
<1>9. f \in Frame /\ f.t = "RESET" /\ f.id = id
  BY <1>5, MkFrame DEF FrameTypes
<1>10. PICK v \in {"live", "gone"} :
         /\ Consume(e) \/ ConsumeEnqueue(e, f)
         /\ rx' = [rx EXCEPT ![id].st = v]
         /\ UNCHANGED <<tx, cb, nextId, err, closing, goaway, hist>>
  BY <1>4, <1>5, <1>8 DEF HandleOpen
<1> HIDE DEF f
<1>11. ChanStep(e, f) /\ AccOK' /\ chan'[p] = Tail(chan[p])
       /\ (chan'[e] = chan[e] \/ chan'[e] = Append(chan[e], f))
  BY <1>1, <1>3, <1>9, <1>10, ConsumeStep, ConsumeEnqueueStep
<1>12. FrameOK(e, f)
  BY <1>5, <1>9 DEF FrameOK
<1>13. /\ rx' \in [Ids -> RxStream] /\ \A x \in Ids \ {id} : rx'[x] = rx[x]
       /\ rx'[id] = [NoRx EXCEPT !.st = v]
  BY <1>1, <1>7, <1>10 DEF TypeOK, RxStream, Life
<1>14. TypeOK' /\ NoProtocolError'
  BY <1>1, <1>10, <1>11, <1>13 DEF TypeOK, AccOK, ChanStep, NoProtocolError
<1>15. \A x \in End : \A i \in 1 .. Len(cb[x]) : cb[x][i].id = id => cb[x][i].k = "write"
  BY <1>1, <1>7 DEF LocalInv, CallInv
<1>16. LocalInv'
  <2>1. IdsInv' /\ WriterInv'
    BY <1>1, <1>10 DEF LocalInv, IdsInv, WriterInv, Writing, Top, Idle
  <2>2. FreshInv'
    BY <1>1, <1>5, <1>7, <1>10, <1>13 DEF LocalInv, FreshInv
  <2>3. CountInv'
    BY <1>1, <1>7, <1>10, <1>13 DEF LocalInv, CountInv, NoRx
  <2>4. CallInv'
    BY <1>1, <1>10, <1>13 DEF LocalInv, CallInv, NoRx
  <2>5. ReaderInv'
    <3> SUFFICES ASSUME NEW x \in Ids, rx'[x].st = "live", ~rx'[x].rst
                 PROVE  LET r == Reader(x) IN
                        /\ rx'[x].outst = hist[x].rcvd - hist[x].granted
                        /\ ~InCall(r, "data", x) => rx'[x].outst = rx'[x].pend + rx'[x].rxlen
                        /\ ~InCall(r, "resume", x) => /\ hist[x].got = hist[x].rcvd - rx'[x].rxlen
                                                      /\ rx'[x].rxlen > 0 => rx'[x].paused
                        /\ \A i \in 1 .. Len(cb[r]) : cb[r][i].id = x =>
                             /\ cb[r][i].k = "data" => rx'[x].rxlen = 0 /\ rx'[x].outst = rx'[x].pend + cb[r][i].n
                             /\ cb[r][i].k = "resume" => hist[x].got = hist[x].rcvd /\ rx'[x].rxlen = cb[r][i].n
      BY <1>10 DEF ReaderInv, InCall
    <3>1. CASE x # id
      BY <3>1, <1>1, <1>13 DEF LocalInv, ReaderInv
    <3>2. CASE x = id
      BY <3>2, <1>5, <1>7, <1>13, <1>15 DEF NoRx
    <3>. QED BY <3>1, <3>2
  <2>. QED BY <2>1, <2>2, <2>3, <2>4, <2>5 DEF LocalInv
<1>17. FramesInv'
  <2>1. FrameOK(e, f)'
    BY <1>12, <1>10 DEF FrameOK
  <2>. QED BY <1>1, <1>9, <1>10, <1>11, <2>1, FramesKeep DEF ChanInv
<1>18. EofInv'
  <2>1. \A x \in Ids : tx'[x].fin = tx[x].fin /\ rx'[x].fin = rx[x].fin
    BY <1>7, <1>10, <1>13 DEF NoRx
  <2>. QED BY <1>1, <1>9, <1>11, <2>1, EofKeep DEF ChanInv
<1>19. DataInv'
  <2>1. \A x \in Ids :
          /\ hist'[x].rcvd = hist[x].rcvd /\ hist'[x].sent = hist[x].sent
          /\ rx'[x].st # "gone" /\ ~rx'[x].rst => rx[x].st # "gone" /\ ~rx[x].rst
    BY <1>7, <1>10, <1>13 DEF NoRx
  <2>2. Head(chan[Peer(e)]).t # "DATA"
    BY <1>3
  <2>. QED BY <1>1, <1>9, <1>11, <2>1, <2>2, DataKeep DEF ChanInv
<1>20. CreditInv'
  <2>1. \A x \in Ids :
          /\ hist'[x].credited = hist[x].credited /\ hist'[x].granted = hist[x].granted
          /\ tx'[x].st # "gone" /\ ~tx'[x].rst => tx[x].st # "gone" /\ ~tx[x].rst
    BY <1>10
  <2>2. Head(chan[Peer(e)]).t # "WINDOW"
    BY <1>3
  <2>. QED BY <1>1, <1>9, <1>11, <2>1, <2>2, CreditKeep DEF ChanInv
<1>21. OpenInv'
  <2> SUFFICES ASSUME NEW x \in Ids PROVE OpenOf(x)'
    BY OpenAll DEF OpenOf, OpenInv
  <2>1. OpenOf(x)
    BY <1>1, OpenAll
  <2>2. Opener(x) \in End /\ chan[Opener(x)] \in Seq(Frame) /\ chan[e] \in Seq(Frame)
    BY <1>1, StreamTypes DEF TypeOK
  <2>3. CASE Opener(x) = e
    <3>a. x # id
      BY <2>3, <1>5
    <3>b. Has(Append(chan[e], f), "OPEN", x) <=> Has(chan[e], "OPEN", x)
      BY <2>2, <1>9, <3>a, HasAppend
    <3>1. x # id /\ (Has(chan'[e], "OPEN", x) <=> Has(chan[e], "OPEN", x))
      BY <1>11, <3>a, <3>b
    <3>2. OpenFirst(chan'[e], x)
      BY <2>1, <2>2, <2>3, <1>9, <1>11, OrderAppend DEF OpenOf
    <3>. QED BY <2>1, <2>3, <3>1, <3>2, <1>10, <1>13 DEF OpenOf
  <2>4. CASE Opener(x) = p
    <3>1. OpenFirst(Tail(chan[p]), x)
      BY <2>1, <2>4, <1>3, OrderTail DEF OpenOf
    <3>2. CASE x = id
      <4>1. ~Has(Tail(chan[p]), "OPEN", id)
        BY <2>1, <2>4, <3>2, <1>3, <1>4, OrderTail DEF OpenOf
      <4>. QED BY <2>1, <2>4, <3>1, <3>2, <4>1, <1>5, <1>10, <1>11, <1>13 DEF OpenOf, NoRx
    <3>3. CASE x # id
      <4>1. Has(Tail(chan[p]), "OPEN", x) <=> Has(chan[p], "OPEN", x)
        BY <3>3, <1>3, <1>4, HasTail
      <4>. QED BY <2>1, <2>4, <3>1, <3>3, <4>1, <1>10, <1>11, <1>13 DEF OpenOf
    <3>. QED BY <3>2, <3>3
  <2>. QED BY <2>2, <2>3, <2>4, Ends
<1>. QED BY <1>14, <1>16, <1>17, <1>18, <1>19, <1>20, <1>21 DEF IInv, LocalInv

\* The ids of one end are two apart.
LEMMA NextOpener ==
  ASSUME NEW n \in Nat
  PROVE  Opener(n + 2) = Opener(n) /\ Opener(n + 1) # Opener(n)
  BY DEF Opener

LEMMA StreamOpenStep ==
  ASSUME IInv, NEW e \in End, StreamOpen(e)
  PROVE  IInv'
<1>1. TypeOK /\ NoProtocolError /\ ChanInv /\ LocalInv /\ OpenInv /\ FramesInv /\ IdsInv /\ FreshInv /\ CallInv
  BY Parts DEF IInv
<1>2. nextId[e] \in Ids
  <2>1. nextId[e] \in Nat /\ nextId[e] > 0 /\ MaxId \in Nat /\ nextId[e] <= MaxId
    BY <1>1, SessionAssumption DEF StreamOpen, TypeOK, IdsInv
  <2>. QED BY <2>1 DEF Ids
<1>3. PICK id \in Ids : id = nextId[e]
  BY <1>2
<1>4. Opener(id) = e /\ id \in Nat /\ Reader(id) # e /\ tx[id].st = "none" /\ rx[id].st = "none"
  BY <1>1, <1>3, Ends, StreamTypes DEF IdsInv, OpenInv
<1>5. tx[id] = NoTx /\ rx[id] = NoRx /\ hist[id] = NoHistory
  BY <1>1, <1>4 DEF FreshInv
<1> DEFINE f == Mk("OPEN", id, 0, 0)
           s == [NoTx EXCEPT !.st = "live", !.win = Window[e]]
<1>6. f \in Frame /\ f.t = "OPEN" /\ f.id = id
  BY <1>4, MkFrame DEF FrameTypes
<1>7. /\ AppMay(e) /\ Enqueue(e, f)
      /\ nextId' = [nextId EXCEPT ![e] = @ + 2]
      /\ tx' = [tx EXCEPT ![id] = s]
      /\ UNCHANGED <<rx, cb, err, closing, goaway, hist>>
  BY <1>3 DEF StreamOpen
<1>8. /\ s \in TxStream /\ s.st = "live" /\ s.win = Window[e] /\ s.fin = FALSE /\ s.rst = FALSE
      /\ Window[e] \in Nat
  BY SessionAssumption DEF NoTx, TxStream, Life
<1> HIDE DEF f, s
<1>9. ChanStep(e, f) /\ AccOK' /\ chan'[e] = Append(chan[e], f) /\ chan'[Peer(e)] = chan[Peer(e)]
  BY <1>1, <1>6, <1>7, EnqueueStep
<1>10. tx' \in [Ids -> TxStream] /\ tx'[id] = s /\ \A x \in Ids \ {id} : tx'[x] = tx[x]
  BY <1>1, <1>7, <1>8 DEF TypeOK
<1>11. nextId' \in [End -> Nat] /\ nextId'[e] = id + 2 /\ \A y \in End \ {e} : nextId'[y] = nextId[y]
  BY <1>1, <1>3, <1>4, <1>7 DEF TypeOK
<1>12. TypeOK' /\ NoProtocolError'
  BY <1>1, <1>7, <1>9, <1>10, <1>11 DEF TypeOK, AccOK, ChanStep, NoProtocolError
<1>13. IdsInv'
  <2>1. \A y \in End : nextId'[y] > 0 /\ Opener(nextId'[y]) = y
    BY <1>1, <1>4, <1>11, NextOpener DEF IdsInv
  <2>2. ASSUME NEW x \in Ids
        PROVE  tx'[x].st = "none" <=> x >= nextId'[Opener(x)]
    <3>1. (tx[x].st = "none" <=> x >= nextId[Opener(x)]) /\ x \in Nat /\ Opener(x) \in End
      BY <1>1, StreamTypes DEF IdsInv
    <3>2. CASE Opener(x) # e
      BY <3>1, <3>2, <1>4, <1>10, <1>11
    <3>3. CASE x = id
      BY <3>1, <3>3, <1>4, <1>8, <1>10, <1>11
    <3>4. CASE Opener(x) = e /\ x # id
      <4>1. x # id + 1
        BY <3>4, <1>4, NextOpener
      <4>2. x >= id <=> x >= id + 2
        BY <4>1, <3>1, <3>4, <1>4
      <4>. QED BY <4>2, <3>1, <3>4, <1>3, <1>10, <1>11
    <3>. QED BY <3>2, <3>3, <3>4
  <2>. QED BY <2>1, <2>2 DEF IdsInv
<1>14. FreshInv'
  BY <1>1, <1>5, <1>7, <1>8, <1>10 DEF FreshInv
<1>15. CountInv' /\ ReaderInv'
  BY <1>1, <1>7 DEF LocalInv, CountInv, ReaderInv, InCall
<1>16. CallInv'
  <2>1. \A y \in End : \A i \in 1 .. Len(cb[y]) : cb[y][i].k = "write" => cb[y][i].id \in Ids \ {id}
    BY <1>1, <1>4, CallTypes DEF CallInv
  <2>2. \A y \in End : \A i \in 1 .. Len(cb[y]) : cb[y][i].k = "write" => tx'[cb[y][i].id] = tx[cb[y][i].id]
    BY <2>1, <1>10
  <2>. QED BY <2>2, <1>1, <1>7 DEF CallInv
<1>17. WriterInv'
  <2>1. cb' = cb /\ hist' = hist /\ ~Writing(e)
    BY <1>7 DEF AppMay
  <2>2. ASSUME NEW x \in Ids, tx'[x].st = "live", ~tx'[x].rst
        PROVE  tx'[x].win = LET h == hist[x]
                                o == Opener(x)
                                left == Window[o] + h.credited - h.sent IN
                            IF Writing(o) /\ Top(o).id = x THEN left + Top(o).a - Top(o).n ELSE left
    <3>1. CASE x = id
      BY <3>1, <2>1, <1>4, <1>5, <1>8, <1>10 DEF NoHistory
    <3>2. CASE x # id
      BY <3>2, <2>2, <1>1, <1>10 DEF LocalInv, WriterInv
    <3>. QED BY <3>1, <3>2
  <2>. QED BY <2>1, <2>2 DEF WriterInv, Writing, Top, Idle
<1>18. FramesInv'
  <2>1. FrameOK(e, f)'
    BY <1>4, <1>6, <1>8, <1>10 DEF FrameOK
  <2>2. \A x \in Ids : tx[x].st # "none" => tx'[x].st # "none"
    BY <1>8, <1>10
  <2>. QED BY <1>1, <1>6, <1>9, <2>1, <2>2, FramesKeep DEF ChanInv
<1>19. EofInv'
  <2>1. \A x \in Ids : tx'[x].fin = tx[x].fin /\ rx'[x].fin = rx[x].fin
    <3>1. tx[id].fin = FALSE
      BY <1>5 DEF NoTx
    <3>2. tx'[id].fin = FALSE
      BY <1>8, <1>10
    <3>. QED BY <3>1, <3>2, <1>7, <1>10
  <2>. QED BY <1>1, <1>6, <1>9, <2>1, EofKeep DEF ChanInv
<1>20. DataInv'
  <2>1. \A x \in Ids :
          /\ hist'[x].rcvd = hist[x].rcvd /\ hist'[x].sent = hist[x].sent
          /\ rx'[x].st # "gone" /\ ~rx'[x].rst => rx[x].st # "gone" /\ ~rx[x].rst
    BY <1>7
  <2>. QED BY <1>1, <1>6, <1>9, <2>1, DataKeep DEF ChanInv
<1>21. CreditInv'
  <2>1. \A x \in Ids :
          /\ hist'[x].credited = hist[x].credited /\ hist'[x].granted = hist[x].granted
          /\ tx'[x].st # "gone" /\ ~tx'[x].rst => tx[x].st # "gone" /\ ~tx[x].rst
    BY <1>5, <1>7, <1>10 DEF NoTx
  <2>. QED BY <1>1, <1>6, <1>9, <2>1, CreditKeep DEF ChanInv
<1>22. OpenInv'
  <2> SUFFICES ASSUME NEW x \in Ids PROVE OpenOf(x)'
    BY OpenAll DEF OpenOf, OpenInv
  <2>1. OpenOf(x)
    BY <1>1, OpenAll
  <2>2. Opener(x) \in End /\ chan[Opener(x)] \in Seq(Frame) /\ chan[e] \in Seq(Frame)
    BY <1>1, StreamTypes DEF TypeOK
  <2>3. CASE Opener(x) # e
    <3>1. chan'[Opener(x)] = chan[Opener(x)] /\ x # id
      BY <2>2, <2>3, <1>4, <1>9, Ends
    <3>. QED BY <2>1, <3>1, <1>7, <1>10 DEF OpenOf
  <2>4. CASE Opener(x) = e /\ x # id
    <3>1. Has(Append(chan[e], f), "OPEN", x) <=> Has(chan[e], "OPEN", x)
      BY <2>2, <2>4, <1>6, HasAppend
    <3>2. OpenFirst(Append(chan[e], f), x)
      BY <2>1, <2>2, <2>4, <1>6, OrderAppend DEF OpenOf
    <3>. QED BY <2>1, <2>4, <3>1, <3>2, <1>7, <1>9, <1>10 DEF OpenOf
  <2>5. CASE x = id
    <3>1. ~Has(chan[e], "OPEN", id) /\ ~Has(chan[e], "DATA", id) /\ ~Has(chan[e], "EOF", id)
      BY <1>1, <1>4, Unused DEF FrameTypes
    <3>2. OpenFirst(Append(chan[e], f), id)
      BY <2>2, <3>1, <1>6, OrderAppend
    <3>3. Has(Append(chan[e], f), "OPEN", id)
      BY <2>2, <1>6, HasAppend
    <3>. QED BY <2>5, <3>2, <3>3, <1>4, <1>7, <1>8, <1>9, <1>10 DEF OpenOf
  <2>. QED BY <2>3, <2>4, <2>5
<1>. QED BY <1>1, <1>12, <1>13, <1>14, <1>15, <1>16, <1>17, <1>18, <1>19, <1>20, <1>21, <1>22 DEF IInv, LocalInv

-----------------------------------------------------------------------------
(***************************************************************************)
(* Data and credit that enter and leave the queues.                        *)
(***************************************************************************)

\* A DATA frame sent lengthens the chain of data under way.
LEMMA DataGrow ==
  ASSUME TypeOK, DataInv, NEW e \in End, NEW f \in Frame, ChanStep(e, f),
         chan'[e] = Append(chan[e], f), chan'[Peer(e)] = chan[Peer(e)],
         f.t = "DATA", f.id \in Ids, Opener(f.id) = e, f.off = hist[f.id].sent, f.n > 0,
         hist'[f.id].sent = hist[f.id].sent + f.n,
         \A id \in Ids : hist'[id].rcvd = hist[id].rcvd,
         \A id \in Ids \ {f.id} : hist'[id].sent = hist[id].sent,
         rx' = rx
  PROVE  DataInv'
<1> SUFFICES ASSUME NEW id \in Ids, rx'[id].st # "gone", ~rx'[id].rst
             PROVE  Chain(chan'[Opener(id)], "DATA", id, hist'[id].rcvd, hist'[id].sent)
  BY DEF DataInv
<1> DEFINE w == chan[Opener(id)]
           v == chan'[Opener(id)]
           lo == hist[id].rcvd
           hi == hist[id].sent
<1>1. Opener(id) \in End /\ Chain(w, "DATA", id, lo, hi) /\ lo \in Nat /\ hi \in Nat
  BY StreamTypes DEF DataInv
<1>2. w \in Seq(Frame) /\ hist'[id].rcvd = lo
  BY <1>1 DEF TypeOK
<1>3. (Opener(id) # e => v = w) /\ (Opener(id) = e => v = Append(w, f))
  BY <1>1, Ends
<1> HIDE DEF w, v, lo, hi
<1>4. CASE Opener(id) # e
  <2>1. id # f.id
    BY <1>4
  <2>. QED BY <1>1, <1>2, <1>3, <1>4, <2>1 DEF v, w, hi
<1>5. CASE Opener(id) = e /\ id # f.id
  BY <1>1, <1>2, <1>3, <1>5, ChainAppendOther DEF v, hi
<1>6. CASE id = f.id
  <2>1. Chain(Append(w, f), "DATA", id, lo, hi + f.n)
    BY <1>1, <1>2, <1>6, ChainAppendSame DEF hi
  <2>. QED BY <1>2, <1>3, <1>6, <2>1 DEF v, hi
<1>. QED BY <1>4, <1>5, <1>6

\* A DATA frame received is the next one of its stream, and shortens the chain.
LEMMA DataShrink ==
  ASSUME TypeOK, DataInv, NEW e \in End, NEW f \in Frame, NEW k \in Ids, ChanStep(e, f),
         chan'[e] = chan[e], chan'[Peer(e)] = Tail(chan[Peer(e)]), Len(chan[Peer(e)]) > 0,
         Head(chan[Peer(e)]).t = "DATA", Head(chan[Peer(e)]).id = k, Opener(k) # e,
         rx[k].st # "gone", ~rx[k].rst,
         hist'[k].rcvd = hist[k].rcvd + Head(chan[Peer(e)]).n,
         \A id \in Ids : hist'[id].sent = hist[id].sent,
         \A id \in Ids \ {k} : hist'[id].rcvd = hist[id].rcvd,
         \A id \in Ids : rx'[id].st = rx[id].st /\ rx'[id].rst = rx[id].rst
  PROVE  DataInv'
<1> SUFFICES ASSUME NEW id \in Ids, rx'[id].st # "gone", ~rx'[id].rst
             PROVE  Chain(chan'[Opener(id)], "DATA", id, hist'[id].rcvd, hist'[id].sent)
  BY DEF DataInv
<1> DEFINE p == Peer(e)
           w == chan[Opener(id)]
           v == chan'[Opener(id)]
           lo == hist[id].rcvd
           hi == hist[id].sent
<1>1. Opener(id) \in End /\ Chain(w, "DATA", id, lo, hi) /\ lo \in Nat /\ hi \in Nat
  BY StreamTypes DEF DataInv
<1>2. w \in Seq(Frame) /\ hist'[id].sent = hi
  BY <1>1 DEF TypeOK
<1>3. (Opener(id) = e => v = w) /\ (Opener(id) # e => v = Tail(w) /\ w = chan[p] /\ Len(w) > 0)
  BY <1>1, Ends
<1> HIDE DEF w, v, lo, hi, p
<1>4. CASE Opener(id) = e
  <2>1. id # k
    BY <1>4
  <2>. QED BY <1>1, <1>2, <1>3, <1>4, <2>1 DEF v, w, lo
<1>5. CASE Opener(id) # e /\ id # k
  <2>1. ~(Head(w).t = "DATA" /\ Head(w).id = id)
    BY <1>3, <1>5 DEF p
  <2>. QED BY <1>1, <1>2, <1>3, <1>5, <2>1, ChainTailOther DEF v, lo
<1>6. CASE id = k
  <2>1. Opener(id) # e /\ Head(w).t = "DATA" /\ Head(w).id = id /\ hist'[id].rcvd = lo + Head(w).n
    BY <1>3, <1>6 DEF p, lo
  <2>2. Chain(Tail(w), "DATA", id, lo + Head(w).n, hi)
    BY <1>1, <1>2, <1>3, <2>1, ChainTailSame
  <2>. QED BY <1>2, <1>3, <2>1, <2>2 DEF v
<1>. QED BY <1>4, <1>5, <1>6

\* A WINDOW frame received is the next one of its stream, and shortens the chain.
LEMMA CreditShrink ==
  ASSUME TypeOK, CreditInv, NEW e \in End, NEW f \in Frame, NEW k \in Ids, ChanStep(e, f),
         chan'[e] = chan[e], chan'[Peer(e)] = Tail(chan[Peer(e)]), Len(chan[Peer(e)]) > 0,
         Head(chan[Peer(e)]).t = "WINDOW", Head(chan[Peer(e)]).id = k, Opener(k) = e,
         tx[k].st # "gone", ~tx[k].rst,
         hist'[k].credited = hist[k].credited + Head(chan[Peer(e)]).n,
         \A id \in Ids : hist'[id].granted = hist[id].granted,
         \A id \in Ids \ {k} : hist'[id].credited = hist[id].credited,
         \A id \in Ids : tx'[id].st = tx[id].st /\ tx'[id].rst = tx[id].rst
  PROVE  CreditInv'
<1> SUFFICES ASSUME NEW id \in Ids, tx'[id].st # "gone", ~tx'[id].rst
             PROVE  Chain(chan'[Reader(id)], "WINDOW", id, hist'[id].credited, hist'[id].granted)
  BY DEF CreditInv
<1> DEFINE p == Peer(e)
           w == chan[Reader(id)]
           v == chan'[Reader(id)]
           lo == hist[id].credited
           hi == hist[id].granted
<1>1. Reader(id) \in End /\ Chain(w, "WINDOW", id, lo, hi) /\ lo \in Nat /\ hi \in Nat
  BY StreamTypes DEF CreditInv
<1>2. w \in Seq(Frame) /\ hist'[id].granted = hi
  BY <1>1 DEF TypeOK
<1>3. (Reader(id) = e => v = w) /\ (Reader(id) # e => v = Tail(w) /\ w = chan[p] /\ Len(w) > 0)
  BY <1>1, Ends
<1>a. Reader(k) # e
  BY StreamTypes, Ends
<1> HIDE DEF w, v, lo, hi, p
<1>4. CASE Reader(id) = e
  <2>1. id # k
    BY <1>4, <1>a
  <2>. QED BY <1>1, <1>2, <1>3, <1>4, <2>1 DEF v, w, lo
<1>5. CASE Reader(id) # e /\ id # k
  <2>1. ~(Head(w).t = "WINDOW" /\ Head(w).id = id)
    BY <1>3, <1>5 DEF p
  <2>. QED BY <1>1, <1>2, <1>3, <1>5, <2>1, ChainTailOther DEF v, lo
<1>6. CASE id = k
  <2>1. Reader(id) # e /\ Head(w).t = "WINDOW" /\ Head(w).id = id /\ hist'[id].credited = lo + Head(w).n
    BY <1>3, <1>6, <1>a DEF p, lo
  <2>2. Chain(Tail(w), "WINDOW", id, lo + Head(w).n, hi)
    BY <1>1, <1>2, <1>3, <2>1, ChainTailSame
  <2>. QED BY <1>2, <1>3, <2>1, <2>2 DEF v
<1>. QED BY <1>4, <1>5, <1>6

\* The calls in progress after a call begins ...
LEMMA PushStep ==
  ASSUME TypeOK, NEW e \in End, NEW k \in {"write", "data", "resume"}, NEW id \in Ids,
         NEW n \in Nat, NEW a \in Nat, Push(e, k, id, n, a)
  PROVE  /\ cb' \in [End -> Seq(Continuation)]
         /\ Len(cb'[e]) = Len(cb[e]) + 1
         /\ \A i \in 1 .. Len(cb[e]) : cb'[e][i] = cb[e][i]
         /\ cb'[e][Len(cb'[e])] = [k |-> k, id |-> id, n |-> n, a |-> a]
         /\ \A x \in End \ {e} : cb'[x] = cb[x]
<1> DEFINE c == [k |-> k, id |-> id, n |-> n, a |-> a]
<1>1. c \in Continuation
  BY DEF Continuation
<1>2. cb[e] \in Seq(Continuation) /\ Append(cb[e], c) \in Seq(Continuation)
  BY <1>1 DEF TypeOK
<1>3. cb' = [cb EXCEPT ![e] = Append(@, c)]
  BY DEF Push
<1> HIDE DEF c
<1>4. cb' \in [End -> Seq(Continuation)] /\ cb'[e] = Append(cb[e], c) /\ \A x \in End \ {e} : cb'[x] = cb[x]
  BY <1>2, <1>3 DEF TypeOK
<1>5. Len(cb'[e]) = Len(cb[e]) + 1 /\ cb'[e][Len(cb'[e])] = c /\ \A i \in 1 .. Len(cb[e]) : cb'[e][i] = cb[e][i]
  BY <1>1, <1>2, <1>4
<1>. QED BY <1>4, <1>5 DEF c

\* ... and after it returns.
LEMMA PopStep ==
  ASSUME TypeOK, NEW e \in End, ~Idle(e), Pop(e)
  PROVE  /\ cb' \in [End -> Seq(Continuation)]
         /\ Len(cb[e]) \in Nat /\ Len(cb[e]) > 0 /\ Len(cb'[e]) = Len(cb[e]) - 1
         /\ \A i \in 1 .. Len(cb[e]) - 1 : cb'[e][i] = cb[e][i]
         /\ \A x \in End \ {e} : cb'[x] = cb[x]
<1>1. cb[e] \in Seq(Continuation) /\ Len(cb[e]) \in Nat /\ Len(cb[e]) > 0
  BY DEF TypeOK, Idle
<1> DEFINE d == SubSeq(cb[e], 1, Len(cb[e]) - 1)
<1>2. d \in Seq(Continuation) /\ Len(d) = Len(cb[e]) - 1 /\ \A i \in 1 .. Len(cb[e]) - 1 : d[i] = cb[e][i]
  BY <1>1
<1>3. cb' = [cb EXCEPT ![e] = d]
  BY DEF Pop
<1> HIDE DEF d
<1>4. cb' \in [End -> Seq(Continuation)] /\ cb'[e] = d /\ \A x \in End \ {e} : cb'[x] = cb[x]
  BY <1>2, <1>3 DEF TypeOK
<1>. QED BY <1>1, <1>2, <1>4

\* The calls about a stream, after a call begins ...
LEMMA InCallPush ==
  ASSUME TypeOK, NEW e \in End, NEW k \in {"write", "data", "resume"}, NEW id \in Ids,
         NEW n \in Nat, NEW a \in Nat, Push(e, k, id, n, a), NEW x \in End, NEW q, NEW y
  PROVE  InCall(x, q, y)' <=> InCall(x, q, y) \/ (x = e /\ q = k /\ y = id)
<1>1. /\ Len(cb'[e]) = Len(cb[e]) + 1 /\ Len(cb[e]) \in Nat
      /\ \A i \in 1 .. Len(cb[e]) : cb'[e][i] = cb[e][i]
      /\ cb'[e][Len(cb'[e])] = [k |-> k, id |-> id, n |-> n, a |-> a]
      /\ \A z \in End \ {e} : cb'[z] = cb[z]
  BY PushStep, CallTypes
<1>2. cb'[e][Len(cb'[e])].k = k /\ cb'[e][Len(cb'[e])].id = id /\ Len(cb'[e]) \in 1 .. Len(cb'[e])
  BY <1>1
<1>3. CASE x # e
  BY <1>1, <1>3 DEF InCall
<1>4. CASE x = e
  <2>1. ASSUME NEW i \in 1 .. Len(cb'[e]), cb'[e][i].k = q /\ cb'[e][i].id = y
        PROVE  InCall(e, q, y) \/ (q = k /\ y = id)
    <3>1. CASE i = Len(cb'[e])
      BY <3>1, <2>1, <1>2
    <3>2. CASE i \in 1 .. Len(cb[e])
      BY <3>2, <2>1, <1>1 DEF InCall
    <3>. QED BY <3>1, <3>2, <1>1
  <2>2. InCall(e, q, y) => \E i \in 1 .. Len(cb'[e]) : cb'[e][i].k = q /\ cb'[e][i].id = y
    BY <1>1 DEF InCall
  <2>3. InCall(e, q, y)' <=> \E i \in 1 .. Len(cb'[e]) : cb'[e][i].k = q /\ cb'[e][i].id = y
    BY DEF InCall
  <2>4. q = k /\ y = id => \E i \in 1 .. Len(cb'[e]) : cb'[e][i].k = q /\ cb'[e][i].id = y
    BY <1>2
  <2>. QED BY <1>4, <2>1, <2>2, <2>3, <2>4
<1>. QED BY <1>3, <1>4

\* What ReaderInv says of one stream, and a step that is none of its business.
ReaderOf(id) ==
  rx[id].st = "live" /\ ~rx[id].rst =>
    LET h == hist[id]
        s == rx[id]
        r == Reader(id) IN
    /\ s.outst = h.rcvd - h.granted
    /\ ~InCall(r, "data", id) => s.outst = s.pend + s.rxlen
    /\ ~InCall(r, "resume", id) => h.got = h.rcvd - s.rxlen /\ (s.rxlen > 0 => s.paused)
    /\ \A i \in 1 .. Len(cb[r]) : cb[r][i].id = id =>
         /\ cb[r][i].k = "data" => s.rxlen = 0 /\ s.outst = s.pend + cb[r][i].n
         /\ cb[r][i].k = "resume" => h.got = h.rcvd /\ s.rxlen = cb[r][i].n

LEMMA ReaderAll == ReaderInv <=> \A id \in Ids : ReaderOf(id)
  BY DEF ReaderInv, ReaderOf

\* The calls about stream id at end r are as before.
CallsSame(r, id) ==
  /\ InCall(r, "data", id)' <=> InCall(r, "data", id)
  /\ InCall(r, "resume", id)' <=> InCall(r, "resume", id)
  /\ \A i \in 1 .. Len(cb'[r]) : cb'[r][i].id = id /\ cb'[r][i].k # "write" =>
       i \in 1 .. Len(cb[r]) /\ cb[r][i] = cb'[r][i]

LEMMA ReaderKeep ==
  ASSUME NEW id \in Ids, ReaderOf(id), CallsSame(Reader(id), id), rx'[id] = rx[id],
         hist'[id].rcvd = hist[id].rcvd, hist'[id].granted = hist[id].granted,
         hist'[id].got = hist[id].got
  PROVE  ReaderOf(id)'
<1>1. CASE ~(rx[id].st = "live" /\ ~rx[id].rst)
  BY <1>1 DEF ReaderOf
<1>2. CASE rx[id].st = "live" /\ ~rx[id].rst
  <2>1. /\ rx'[id].outst = hist'[id].rcvd - hist'[id].granted
        /\ ~InCall(Reader(id), "data", id)' => rx'[id].outst = rx'[id].pend + rx'[id].rxlen
        /\ ~InCall(Reader(id), "resume", id)' =>
              hist'[id].got = hist'[id].rcvd - rx'[id].rxlen /\ (rx'[id].rxlen > 0 => rx'[id].paused)
    BY <1>2 DEF ReaderOf, CallsSame
  <2>2. ASSUME NEW i \in 1 .. Len(cb'[Reader(id)]), cb'[Reader(id)][i].id = id
        PROVE  /\ cb'[Reader(id)][i].k = "data" =>
                    rx'[id].rxlen = 0 /\ rx'[id].outst = rx'[id].pend + cb'[Reader(id)][i].n
               /\ cb'[Reader(id)][i].k = "resume" =>
                    hist'[id].got = hist'[id].rcvd /\ rx'[id].rxlen = cb'[Reader(id)][i].n
    BY <1>2, <2>2 DEF ReaderOf, CallsSame
  <2>. QED BY <2>1, <2>2 DEF ReaderOf
<1>. QED BY <1>1, <1>2

\* A call about another stream, or a write, is none of the reader's business.
LEMMA CallsPush ==
  ASSUME TypeOK, NEW e \in End, NEW k \in {"write", "data", "resume"}, NEW id \in Ids,
         NEW n \in Nat, NEW a \in Nat, Push(e, k, id, n, a), NEW x \in End, NEW y \in Ids,
         k = "write" \/ x # e \/ y # id
  PROVE  CallsSame(x, y)
<1>1. InCall(x, "data", y)' <=> InCall(x, "data", y)
  BY InCallPush
<1>2. InCall(x, "resume", y)' <=> InCall(x, "resume", y)
  BY InCallPush
<1>3. /\ Len(cb'[e]) = Len(cb[e]) + 1 /\ Len(cb[e]) \in Nat
      /\ \A i \in 1 .. Len(cb[e]) : cb'[e][i] = cb[e][i]
      /\ cb'[e][Len(cb'[e])] = [k |-> k, id |-> id, n |-> n, a |-> a]
      /\ \A z \in End \ {e} : cb'[z] = cb[z]
  BY PushStep, CallTypes
<1>4. ASSUME NEW i \in 1 .. Len(cb'[x]), cb'[x][i].id = y, cb'[x][i].k # "write"
      PROVE  i \in 1 .. Len(cb[x]) /\ cb[x][i] = cb'[x][i]
  <2>1. CASE x # e
    BY <2>1, <1>3, <1>4
  <2>2. CASE x = e
    <3>1. i # Len(cb'[e])
      BY <2>2, <1>3, <1>4
    <3>. QED BY <2>2, <3>1, <1>3, <1>4
  <2>. QED BY <2>1, <2>2
<1>. QED BY <1>1, <1>2, <1>4 DEF CallsSame

-----------------------------------------------------------------------------
(***************************************************************************)
(* The writer.                                                             *)
(***************************************************************************)

\* A step that touches neither the queues nor the streams.
LEMMA ChanSame ==
  ASSUME ChanInv, chan' = chan, tx' = tx, rx' = rx, hist' = hist
  PROVE  ChanInv'
  BY DEF ChanInv, FramesInv, FrameOK, OpenInv, EofInv, DataInv, CreditInv

LEMMA StreamWriteStep ==
  ASSUME IInv, NEW e \in End, NEW id \in Ids, NEW len \in 1 .. MaxBytes, StreamWrite(e, id, len)
  PROVE  IInv'
<1>1. TypeOK /\ NoProtocolError /\ ChanInv /\ LocalInv /\ CallInv
  BY Parts DEF IInv
<1>2. tx[id].win \in Nat /\ len \in Nat /\ Opener(id) = e
  BY <1>1, StreamTypes DEF StreamWrite
<1>3. PICK n \in Nat : n > 0 /\ n <= tx[id].win /\ Push(e, "write", id, n, n)
  <2>1. CASE len < tx[id].win
    BY <2>1, <1>2 DEF StreamWrite
  <2>2. CASE ~(len < tx[id].win)
    BY <2>2, <1>2 DEF StreamWrite
  <2>. QED BY <2>1, <2>2
<1>4. /\ UNCHANGED <<chan, acc, tx, rx, nextId, err, closing, goaway, hist>>
      /\ ~Writing(e) /\ tx[id].st = "live" /\ ~tx[id].fin /\ ~tx[id].rst
  BY DEF StreamWrite, AppMay
<1>5. /\ cb' \in [End -> Seq(Continuation)]
      /\ Len(cb'[e]) = Len(cb[e]) + 1 /\ Len(cb[e]) \in Nat
      /\ \A i \in 1 .. Len(cb[e]) : cb'[e][i] = cb[e][i]
      /\ cb'[e][Len(cb'[e])] = [k |-> "write", id |-> id, n |-> n, a |-> n]
      /\ \A x \in End \ {e} : cb'[x] = cb[x]
  <2>1. "write" \in {"write", "data", "resume"} /\ TypeOK
    BY <1>1
  <2>2. Len(cb[e]) \in Nat
    BY <2>1, CallTypes
  <2>. QED BY <2>1, <2>2, <1>3, PushStep
<1>6. \A i \in 1 .. Len(cb[e]) : cb[e][i].k # "write"
  BY <1>1, <1>4, WriteOnTop, CallTypes DEF InCall
<1>7. TypeOK' /\ NoProtocolError' /\ ChanInv'
  BY <1>1, <1>4, <1>5, ChanSame DEF TypeOK, NoProtocolError
<1>8. IdsInv' /\ FreshInv' /\ CountInv'
  BY <1>1, <1>4 DEF LocalInv, IdsInv, FreshInv, CountInv
<1>9. CallInv'
  <2>1. \A x \in End \ {e} : cb'[x] = cb[x]
    BY <1>5
  <2>2. \A i \in 1 .. Len(cb'[e]) : i \in 1 .. Len(cb[e]) \/ i = Len(cb'[e])
    BY <1>5
  <2>3. /\ cb'[e][Len(cb'[e])].k = "write" /\ cb'[e][Len(cb'[e])].id = id
        /\ cb'[e][Len(cb'[e])].n = n /\ cb'[e][Len(cb'[e])].a = n
    BY <1>5
  <2>4. ASSUME NEW x \in End, NEW i \in 1 .. Len(cb'[x])
        PROVE  LET c == cb'[x][i] IN
               IF c.k = "write"
               THEN /\ i = Len(cb'[x]) /\ Opener(c.id) = x
                    /\ tx[c.id].st = "live" /\ ~tx[c.id].fin /\ ~tx[c.id].rst
                    /\ c.n <= c.a /\ c.a <= tx[c.id].win
               ELSE Opener(c.id) # x /\ rx[c.id].st # "none" /\ c.n > 0
    <3>1. CASE x # e
      BY <3>1, <2>1, <2>4, <1>1 DEF CallInv
    <3>2. CASE x = e /\ i \in 1 .. Len(cb[e])
      BY <3>2, <1>1, <1>5, <1>6 DEF CallInv
    <3>3. CASE x = e /\ i = Len(cb'[e])
      BY <3>3, <2>3, <1>2, <1>3, <1>4
    <3>. QED BY <3>1, <3>2, <3>3, <2>2, <2>4
  <2>5. ASSUME NEW x \in End, NEW i \in 1 .. Len(cb'[x]), NEW j \in 1 .. Len(cb'[x]),
               i # j, cb'[x][i].k # "write", cb'[x][j].k # "write"
        PROVE  cb'[x][i].id # cb'[x][j].id
    <3>1. CASE x # e
      BY <3>1, <2>1, <2>5, <1>1 DEF CallInv
    <3>2. CASE x = e
      <4>1. i \in 1 .. Len(cb[e]) /\ j \in 1 .. Len(cb[e])
        BY <3>2, <2>2, <2>3, <2>5
      <4>. QED BY <4>1, <3>2, <2>5, <1>1, <1>5 DEF CallInv
    <3>. QED BY <3>1, <3>2
  <2>. QED BY <2>4, <2>5, <1>4 DEF CallInv
<1>10. WriterInv'
  <2> SUFFICES ASSUME NEW x \in Ids, tx'[x].st = "live", ~tx'[x].rst
               PROVE  tx'[x].win = LET h == hist'[x]
                                       o == Opener(x)
                                       left == Window[o] + h.credited - h.sent IN
                                   IF Writing(o)' /\ Top(o)'.id = x
                                   THEN left + Top(o)'.a - Top(o)'.n ELSE left
    BY DEF WriterInv
  <2>1. tx[x].win = LET h == hist[x]
                        o == Opener(x)
                        left == Window[o] + h.credited - h.sent IN
                    IF Writing(o) /\ Top(o).id = x THEN left + Top(o).a - Top(o).n ELSE left
    BY <1>1, <1>4 DEF LocalInv, WriterInv
  <2>2. Opener(x) \in End /\ hist[x].credited \in Nat /\ hist[x].sent \in Nat /\ Window[Opener(x)] \in Nat
    BY <1>1, StreamTypes, SessionAssumption
  <2>3. CASE Opener(x) # e
    <3>1. cb'[Opener(x)] = cb[Opener(x)]
      BY <2>2, <2>3, <1>5
    <3>. QED BY <3>1, <2>1, <1>4 DEF Writing, Top, Idle
  <2>4. CASE Opener(x) = e
    <3>1. ~Writing(Opener(x)) /\ Top(e)'.id = id /\ Top(e)'.a = n /\ Top(e)'.n = n
      BY <2>4, <1>4, <1>5 DEF Top
    <3>. QED BY <2>1, <2>2, <2>4, <3>1, <1>3, <1>4
  <2>. QED BY <2>3, <2>4
<1>11. ReaderInv'
  <2> SUFFICES ASSUME NEW x \in Ids PROVE ReaderOf(x)'
    BY ReaderAll DEF ReaderOf, ReaderInv
  <2>1. Reader(x) \in End /\ ReaderOf(x)
    BY <1>1, StreamTypes, ReaderAll DEF LocalInv
  <2>2. CallsSame(Reader(x), x)
    BY <2>1, <1>1, <1>3, CallsPush
  <2>3. rx'[x] = rx[x] /\ hist'[x] = hist[x]
    BY <1>4
  <2>. QED BY <2>1, <2>2, <2>3, ReaderKeep
<1>. QED BY <1>7, <1>8, <1>9, <1>10, <1>11 DEF IInv, ChanInv

\* The write at the top of the stack, and the stream it writes.
LEMMA WriteTop ==
  ASSUME TypeOK, CallInv, NEW e \in End, Writing(e)
  PROVE  LET c == Top(e) IN
         /\ Len(cb[e]) \in Nat /\ Len(cb[e]) > 0 /\ c = cb[e][Len(cb[e])]
         /\ c \in Continuation /\ c.id \in Ids /\ c.n \in Nat /\ c.a \in Nat /\ c.k = "write"
         /\ Opener(c.id) = e /\ tx[c.id].st = "live" /\ ~tx[c.id].fin /\ ~tx[c.id].rst
         /\ c.n <= c.a /\ c.a <= tx[c.id].win
         /\ \A i \in 1 .. Len(cb[e]) - 1 : cb[e][i].k # "write"
<1>1. cb[e] \in Seq(Continuation) /\ Len(cb[e]) \in Nat /\ cb[e] # <<>> /\ Top(e).k = "write"
  BY CallTypes DEF Writing, Idle
<1>2. Len(cb[e]) > 0
  BY <1>1
<1>3. Len(cb[e]) \in 1 .. Len(cb[e]) /\ Top(e) = cb[e][Len(cb[e])]
  BY <1>1, <1>2 DEF Top
<1>4. Top(e) \in Continuation /\ Top(e).id \in Ids /\ Top(e).n \in Nat /\ Top(e).a \in Nat
  BY <1>3, CallTypes
<1>5. /\ Opener(Top(e).id) = e /\ tx[Top(e).id].st = "live" /\ ~tx[Top(e).id].fin /\ ~tx[Top(e).id].rst
      /\ Top(e).n <= Top(e).a /\ Top(e).a <= tx[Top(e).id].win
  BY <1>1, <1>3 DEF CallInv
<1>6. \A i \in 1 .. Len(cb[e]) : cb[e][i].k = "write" => i = Len(cb[e])
  BY DEF CallInv
<1>. QED BY <1>1, <1>2, <1>3, <1>4, <1>5, <1>6

\* What WriterInv says of one stream.
WriterOf(id) ==
  tx[id].st = "live" /\ ~tx[id].rst =>
    LET h == hist[id]
        o == Opener(id)
        left == Window[o] + h.credited - h.sent IN
    tx[id].win = IF Writing(o) /\ Top(o).id = id THEN left + Top(o).a - Top(o).n ELSE left

LEMMA WriterAll == WriterInv <=> \A id \in Ids : WriterOf(id)
  BY DEF WriterInv, WriterOf

\* The send window never lets a write run past the peer's window.
LEMMA WriteArith ==
  ASSUME NEW W \in Nat, NEW cr \in Nat, NEW sent \in Nat, NEW a \in Nat, NEW n \in Nat,
         NEW k \in Nat, NEW win \in Nat,
         k <= n, n <= a, a <= win, win = W + cr - sent + a - n
  PROVE  sent + k <= W + cr /\ win = W + cr - (sent + k) + a - (n - k)
  OBVIOUS

LEMMA WriteChunkStep ==
  ASSUME IInv, NEW e \in End, WriteChunk(e)
  PROVE  IInv'
<1>1. TypeOK /\ NoProtocolError /\ ChanInv /\ LocalInv /\ CallInv /\ CountInv /\ WriterInv /\ EofInv
      /\ FramesInv /\ OpenInv /\ DataInv /\ CreditInv /\ ReaderInv
  BY Parts DEF IInv
<1>2. Writing(e) /\ Top(e).n > 0
  BY DEF WriteChunk, Writing
<1>a. PICK c \in Continuation : c = Top(e)
  BY <1>1, <1>2, WriteTop
<1>3. /\ Len(cb[e]) \in Nat /\ Len(cb[e]) > 0 /\ c = cb[e][Len(cb[e])]
      /\ c \in Continuation /\ c.n \in Nat /\ c.a \in Nat /\ c.k = "write"
      /\ c.n <= c.a
      /\ \A i \in 1 .. Len(cb[e]) - 1 : cb[e][i].k # "write"
  BY <1>1, <1>2, <1>a, WriteTop
<1>4. PICK id \in Ids :
         /\ id = c.id /\ Opener(id) = e /\ tx[id].st = "live" /\ ~tx[id].fin /\ ~tx[id].rst
         /\ c.a <= tx[id].win
  BY <1>1, <1>2, <1>a, WriteTop
<1>5. /\ id \in Nat /\ hist[id].sent \in Nat /\ hist[id].credited \in Nat /\ tx[id].win \in Nat
      /\ Window[e] \in Nat
  BY <1>1, StreamTypes, SessionAssumption
<1>6. MaxChunk \in Nat /\ MaxChunk > 0
  BY SessionAssumption
<1>7. PICK k \in Nat :
         /\ k > 0 /\ k <= c.n
         /\ Enqueue(e, Mk("DATA", id, hist[id].sent, k))
         /\ hist' = [hist EXCEPT ![id].sent = @ + k]
         /\ cb' = [cb EXCEPT ![e][Len(cb[e])].n = @ - k]
  <2> DEFINE m == IF c.n > MaxChunk THEN MaxChunk ELSE c.n
  <2>1. m \in Nat /\ m > 0 /\ m <= c.n
    BY <1>2, <1>3, <1>6, <1>a
  <2>2. /\ Enqueue(e, Mk("DATA", id, hist[id].sent, m))
        /\ hist' = [hist EXCEPT ![id].sent = @ + m]
        /\ cb' = [cb EXCEPT ![e][Len(cb[e])].n = @ - m]
    BY <1>4, <1>a DEF WriteChunk
  <2> HIDE DEF m
  <2>. QED BY <2>1, <2>2
<1>8. UNCHANGED <<tx, rx, nextId, err, closing, goaway>>
  BY DEF WriteChunk
<1>9. PICK f : f = Mk("DATA", id, hist[id].sent, k)
  OBVIOUS
<1>10. f \in Frame /\ f.t = "DATA" /\ f.id = id /\ f.off = hist[id].sent /\ f.n = k
  BY <1>5, <1>9 DEF Mk, Frame, FrameTypes
<1>11. ChanStep(e, f) /\ AccOK' /\ chan'[e] = Append(chan[e], f) /\ chan'[Peer(e)] = chan[Peer(e)]
  BY <1>1, <1>7, <1>9, <1>10, EnqueueStep
<1>12. /\ hist' \in [Ids -> History] /\ hist'[id] = [hist[id] EXCEPT !.sent = @ + k]
       /\ \A x \in Ids \ {id} : hist'[x] = hist[x]
  <2>1. [hist[id] EXCEPT !.sent = @ + k] \in History
    BY <1>1, <1>5, StreamTypes DEF History
  <2>. QED BY <2>1, <1>1, <1>7 DEF TypeOK
<1>13. /\ hist'[id].sent = hist[id].sent + k
       /\ hist'[id].rcvd = hist[id].rcvd /\ hist'[id].granted = hist[id].granted
       /\ hist'[id].credited = hist[id].credited /\ hist'[id].got = hist[id].got
       /\ hist'[id].at = hist[id].at /\ hist'[id].last = hist[id].last /\ hist'[id].fins = hist[id].fins
  BY <1>12, <1>1 DEF TypeOK, History
<1>14. /\ cb' \in [End -> Seq(Continuation)] /\ Len(cb'[e]) = Len(cb[e])
       /\ \A i \in 1 .. Len(cb[e]) - 1 : cb'[e][i] = cb[e][i]
       /\ cb'[e][Len(cb[e])].k = "write" /\ cb'[e][Len(cb[e])].id = id
       /\ cb'[e][Len(cb[e])].n = c.n - k /\ cb'[e][Len(cb[e])].a = c.a
       /\ \A x \in End \ {e} : cb'[x] = cb[x]
  <2> DEFINE d == [c EXCEPT !.n = @ - k]
             q == [cb[e] EXCEPT ![Len(cb[e])] = d]
  <2>1. d \in Continuation /\ d.k = "write" /\ d.id = id /\ d.n = c.n - k /\ d.a = c.a
    BY <1>3, <1>4, <1>7 DEF Continuation
  <2> HIDE DEF d
  <2>2. cb[e] \in Seq(Continuation)
    BY <1>1, CallTypes
  <2>3. /\ q \in Seq(Continuation) /\ Len(q) = Len(cb[e]) /\ q[Len(cb[e])] = d
        /\ \A i \in 1 .. Len(cb[e]) - 1 : q[i] = cb[e][i]
    BY <2>1, <2>2, <1>3
  <2>4. cb' = [cb EXCEPT ![e] = q]
    BY <1>3, <1>7, <1>a DEF d
  <2> HIDE DEF q
  <2>5. cb' \in [End -> Seq(Continuation)] /\ cb'[e] = q /\ \A x \in End \ {e} : cb'[x] = cb[x]
    BY <2>3, <2>4, <1>1 DEF TypeOK
  <2>. QED BY <2>1, <2>3, <2>5
<1>15. TypeOK' /\ NoProtocolError'
  BY <1>1, <1>8, <1>11, <1>12, <1>14 DEF TypeOK, AccOK, ChanStep, NoProtocolError
<1>16. \A x \in Ids : /\ hist'[x].rcvd = hist[x].rcvd /\ hist'[x].credited = hist[x].credited
                      /\ hist'[x].granted = hist[x].granted /\ hist'[x].got = hist[x].got
  BY <1>12, <1>13
<1>17. IdsInv' /\ FreshInv'
  <2>1. IdsInv'
    BY <1>1, <1>8 DEF LocalInv, IdsInv
  <2>2. ASSUME NEW x \in Ids
        PROVE  /\ tx'[x].st = "none" => tx'[x] = NoTx /\ hist'[x] = NoHistory
               /\ rx'[x].st = "none" => /\ rx'[x] = NoRx /\ hist'[x].rcvd = 0 /\ hist'[x].got = 0
                                        /\ hist'[x].granted = 0 /\ hist'[x].fins = 0
    <3>1. CASE x = id
      BY <3>1, <1>1, <1>4, <1>8, <1>13 DEF LocalInv, FreshInv
    <3>2. CASE x # id
      BY <3>2, <1>1, <1>8, <1>12 DEF LocalInv, FreshInv
    <3>. QED BY <3>1, <3>2
  <2>. QED BY <2>1, <2>2 DEF FreshInv
<1>18. tx[id].win = Window[e] + hist[id].credited - hist[id].sent + c.a - c.n
  BY <1>1, <1>2, <1>4, <1>a DEF WriterInv
<1>19. CountInv'
  <2>1. ~rx[id].fin
    BY <1>1, <1>4 DEF EofInv
  <2>2. hist[id].fins = 0
    <3>1. hist[id].fins \in 0 .. 2
      BY <1>1, StreamTypes DEF History
    <3>2. ~(hist[id].fins > 0)
      BY <2>1, <1>1 DEF CountInv
    <3>. QED BY <3>1, <3>2
  <2>3. hist[id].sent + k <= Window[e] + hist[id].credited
    BY <1>3, <1>4, <1>5, <1>7, <1>18, WriteArith
  <2>4. ASSUME NEW x \in Ids
        PROVE  /\ hist'[x].credited <= hist'[x].granted /\ hist'[x].granted <= hist'[x].rcvd
               /\ hist'[x].got <= hist'[x].rcvd /\ hist'[x].rcvd <= hist'[x].sent
               /\ hist'[x].at + hist'[x].last = hist'[x].got
               /\ hist'[x].sent <= Window[Opener(x)] + hist'[x].credited
               /\ hist'[x].fins > 0 => rx'[x].fin /\ hist'[x].got = hist'[x].sent
    <3>1. CASE x = id
      <4>1. hist[id].rcvd \in Nat /\ hist[id].rcvd <= hist[id].sent
        BY <1>1, StreamTypes DEF CountInv
      <4>2. hist[id].rcvd <= hist[id].sent + k
        BY <4>1, <1>5
      <4>3. /\ hist[id].credited <= hist[id].granted /\ hist[id].granted <= hist[id].rcvd
            /\ hist[id].got <= hist[id].rcvd /\ hist[id].at + hist[id].last = hist[id].got
        BY <1>1 DEF CountInv
      <4>. QED BY <3>1, <4>2, <4>3, <2>2, <2>3, <1>4, <1>13
    <3>2. CASE x # id
      BY <3>2, <1>1, <1>8, <1>12 DEF CountInv
    <3>. QED BY <3>1, <3>2
  <2>. QED BY <2>4 DEF CountInv
<1>20. CallInv'
  <2>1. \A i \in 1 .. Len(cb[e]) : i \in 1 .. Len(cb[e]) - 1 \/ i = Len(cb[e])
    BY <1>3
  <2>2. c.n - k <= c.a
    BY <1>3, <1>7
  <2>3. ASSUME NEW x \in End, NEW i \in 1 .. Len(cb'[x])
        PROVE  LET d == cb'[x][i] IN
               IF d.k = "write"
               THEN /\ i = Len(cb'[x]) /\ Opener(d.id) = x
                    /\ tx[d.id].st = "live" /\ ~tx[d.id].fin /\ ~tx[d.id].rst
                    /\ d.n <= d.a /\ d.a <= tx[d.id].win
               ELSE Opener(d.id) # x /\ rx[d.id].st # "none" /\ d.n > 0
    <3>1. CASE x # e
      BY <3>1, <2>3, <1>1, <1>14 DEF CallInv
    <3>2. CASE x = e /\ i \in 1 .. Len(cb[e]) - 1
      BY <3>2, <1>1, <1>3, <1>14 DEF CallInv
    <3>3. CASE x = e /\ i = Len(cb[e])
      BY <3>3, <2>2, <1>4, <1>14
    <3>. QED BY <3>1, <3>2, <3>3, <2>1, <2>3, <1>14
  <2>4. ASSUME NEW x \in End, NEW i \in 1 .. Len(cb'[x]), NEW j \in 1 .. Len(cb'[x]),
               i # j, cb'[x][i].k # "write", cb'[x][j].k # "write"
        PROVE  cb'[x][i].id # cb'[x][j].id
    <3>1. CASE x # e
      BY <3>1, <2>4, <1>1, <1>14 DEF CallInv
    <3>2. CASE x = e
      <4>1. i \in 1 .. Len(cb[e]) - 1 /\ j \in 1 .. Len(cb[e]) - 1
        BY <3>2, <2>1, <2>4, <1>14
      <4>2. i \in 1 .. Len(cb[e]) /\ j \in 1 .. Len(cb[e])
        BY <4>1, <1>3
      <4>. QED BY <4>1, <4>2, <3>2, <2>4, <1>1, <1>14 DEF CallInv
    <3>. QED BY <3>1, <3>2
  <2>. QED BY <2>3, <2>4, <1>8 DEF CallInv
<1>21. WriterInv'
  <2> SUFFICES ASSUME NEW x \in Ids PROVE WriterOf(x)'
    BY WriterAll DEF WriterOf, WriterInv
  <2>1. Opener(x) \in End /\ WriterOf(x)
    BY <1>1, StreamTypes, WriterAll
  <2>2. CASE Opener(x) # e
    <3>1. cb'[Opener(x)] = cb[Opener(x)] /\ hist'[x] = hist[x] /\ tx' = tx
      BY <2>1, <2>2, <1>4, <1>8, <1>12, <1>14
    <3>. QED BY <3>1, <2>1 DEF WriterOf, Writing, Top, Idle
  <2>3. CASE Opener(x) = e /\ x # id
    <3>1. hist'[x] = hist[x] /\ tx' = tx /\ Top(e)'.id = id /\ Top(e).id = id
      BY <2>3, <1>4, <1>8, <1>12, <1>14, <1>a DEF Top
    <3>. QED BY <3>1, <2>1, <2>3 DEF WriterOf
  <2>4. CASE x = id
    <3>1. Writing(e)' /\ Top(e)'.id = id /\ Top(e)'.n = c.n - k /\ Top(e)'.a = c.a
      BY <1>3, <1>14 DEF Writing, Top, Idle
    <3>2. tx'[id].win = Window[e] + hist'[id].credited - hist'[id].sent + c.a - (c.n - k)
      <4> DEFINE W == Window[e]
                 cr == hist[id].credited
                 sent == hist[id].sent
                 a == c.a
                 n == c.n
                 win == tx[id].win
      <4>1. /\ W \in Nat /\ cr \in Nat /\ sent \in Nat /\ a \in Nat /\ n \in Nat /\ win \in Nat
            /\ k <= n /\ n <= a /\ a <= win /\ win = W + cr - sent + a - n
        BY <1>3, <1>4, <1>5, <1>7, <1>18
      <4> HIDE DEF W, cr, sent, a, n, win
      <4>2. win = W + cr - (sent + k) + a - (n - k)
        BY <4>1
      <4>. QED BY <4>2, <1>8, <1>13 DEF W, cr, sent, a, n, win
    <3>. QED BY <2>4, <3>1, <3>2, <1>4 DEF WriterOf
  <2>. QED BY <2>2, <2>3, <2>4
<1>22. ReaderInv'
  <2> SUFFICES ASSUME NEW x \in Ids PROVE ReaderOf(x)'
    BY ReaderAll DEF ReaderOf, ReaderInv
  <2>1. Reader(x) \in End /\ ReaderOf(x)
    BY <1>1, StreamTypes, ReaderAll
  <2>2. \A y \in End : \A i \in 1 .. Len(cb'[y]) :
           /\ i \in 1 .. Len(cb[y]) /\ cb'[y][i].k = cb[y][i].k /\ cb'[y][i].id = cb[y][i].id
           /\ cb'[y][i].k # "write" => cb[y][i] = cb'[y][i]
    BY <1>3, <1>4, <1>14
  <2>3. \A y \in End : Len(cb'[y]) = Len(cb[y])
    BY <1>14
  <2>4. CallsSame(Reader(x), x)
    BY <2>1, <2>2, <2>3 DEF CallsSame, InCall
  <2>. QED BY <2>1, <2>4, <1>8, <1>16, ReaderKeep
<1>23. FramesInv'
  <2>1. FrameOK(e, f)'
    BY <1>4, <1>7, <1>8, <1>10 DEF FrameOK
  <2>. QED BY <1>1, <1>8, <1>10, <1>11, <2>1, FramesKeep
<1>24. OpenInv'
  BY <1>1, <1>8, <1>10, <1>11, OpenKeep
<1>25. EofInv'
  BY <1>1, <1>4, <1>8, <1>10, <1>11, EofKeep
<1>26. CreditInv'
  BY <1>1, <1>8, <1>10, <1>11, <1>16, CreditKeep
<1>27. DataInv'
  BY <1>1, <1>4, <1>7, <1>8, <1>10, <1>11, <1>12, <1>13, <1>16, DataGrow
<1>. QED BY <1>15, <1>17, <1>19, <1>20, <1>21, <1>22, <1>23, <1>24, <1>25, <1>26, <1>27 DEF IInv

\* A call that returns is none of the business of other streams.
LEMMA CallsPop ==
  ASSUME TypeOK, NEW e \in End, ~Idle(e), Pop(e), NEW x \in End, NEW y \in Ids,
         Top(e).k = "write" \/ x # e \/ y # Top(e).id
  PROVE  CallsSame(x, y)
<1>1. /\ Len(cb[e]) \in Nat /\ Len(cb[e]) > 0 /\ Len(cb'[e]) = Len(cb[e]) - 1
      /\ \A i \in 1 .. Len(cb[e]) - 1 : cb'[e][i] = cb[e][i]
      /\ \A z \in End \ {e} : cb'[z] = cb[z]
  BY PopStep
<1>2. CASE x # e
  BY <1>1, <1>2 DEF CallsSame, InCall
<1>3. CASE x = e
  <2>1. \A i \in 1 .. Len(cb'[e]) : i \in 1 .. Len(cb[e]) /\ cb[e][i] = cb'[e][i]
    BY <1>1
  <2>2. \A i \in 1 .. Len(cb[e]) : cb[e][i].id = y /\ cb[e][i].k # "write" => i # Len(cb[e])
    BY <1>3 DEF Top
  <2>3. \A i \in 1 .. Len(cb[e]) : cb[e][i].id = y /\ cb[e][i].k # "write" =>
           i \in 1 .. Len(cb'[e]) /\ cb[e][i] = cb'[e][i]
    BY <1>1, <2>2
  <2>4. InCall(e, "data", y)' <=> InCall(e, "data", y)
    BY <2>1, <2>3 DEF InCall
  <2>5. InCall(e, "resume", y)' <=> InCall(e, "resume", y)
    BY <2>1, <2>3 DEF InCall
  <2>. QED BY <1>3, <2>1, <2>4, <2>5 DEF CallsSame
<1>. QED BY <1>2, <1>3

\* What CallInv says of one call.
CallOf(x, i) ==
  LET c == cb[x][i] IN
  IF c.k = "write"
  THEN /\ i = Len(cb[x]) /\ Opener(c.id) = x
       /\ tx[c.id].st = "live" /\ ~tx[c.id].fin /\ ~tx[c.id].rst
       /\ c.n <= c.a /\ c.a <= tx[c.id].win
  ELSE Opener(c.id) # x /\ rx[c.id].st # "none" /\ c.n > 0

\* The calls that go on after one has returned, when the streams they are about
\* are still there.
LEMMA CallPop ==
  ASSUME TypeOK, CallInv, NEW e \in End, ~Idle(e), Pop(e),
         \A id \in Ids : rx[id].st # "none" => rx'[id].st # "none",
         \A id \in Ids : tx'[id] = tx[id] \/ (Opener(id) = e /\ Writing(e))
  PROVE  CallInv'
<1>1. /\ Len(cb[e]) \in Nat /\ Len(cb[e]) > 0 /\ Len(cb'[e]) = Len(cb[e]) - 1
      /\ \A i \in 1 .. Len(cb[e]) - 1 : cb'[e][i] = cb[e][i]
      /\ \A z \in End \ {e} : cb'[z] = cb[z]
  BY PopStep
<1>2. \A i \in 1 .. Len(cb'[e]) : cb[e][i].k # "write" /\ i \in 1 .. Len(cb[e]) /\ cb'[e][i] = cb[e][i]
  BY <1>1 DEF CallInv
<1>3. ASSUME NEW x \in End, NEW i \in 1 .. Len(cb'[x])
      PROVE  /\ i \in 1 .. Len(cb[x]) /\ cb'[x][i] = cb[x][i] /\ cb[x][i].id \in Ids
             /\ cb[x][i].k = "write" => x # e
  <2>1. i \in 1 .. Len(cb[x]) /\ cb'[x][i] = cb[x][i] /\ (cb[x][i].k = "write" => x # e)
    BY <1>1, <1>2, <1>3
  <2>. QED BY <2>1, CallTypes
<1>4. ASSUME NEW x \in End, NEW i \in 1 .. Len(cb'[x])
      PROVE  CallOf(x, i)'
  <2>1. i \in 1 .. Len(cb[x]) /\ cb'[x][i] = cb[x][i] /\ cb[x][i].id \in Ids /\ (cb[x][i].k = "write" => x # e)
    BY <1>3
  <2>2. CallOf(x, i)
    BY <2>1 DEF CallInv, CallOf
  <2>3. CASE cb[x][i].k = "write"
    <3>1. Opener(cb[x][i].id) = x /\ x # e /\ cb'[x] = cb[x]
      BY <2>1, <2>2, <2>3, <1>1 DEF CallOf
    <3>2. tx'[cb[x][i].id] = tx[cb[x][i].id]
      BY <2>1, <3>1
    <3>. QED BY <2>1, <2>2, <2>3, <3>1, <3>2 DEF CallOf
  <2>4. CASE cb[x][i].k # "write"
    BY <2>1, <2>2, <2>4 DEF CallOf
  <2>. QED BY <2>3, <2>4
<1>5. ASSUME NEW x \in End, NEW i \in 1 .. Len(cb'[x]), NEW j \in 1 .. Len(cb'[x]),
             i # j, cb'[x][i].k # "write", cb'[x][j].k # "write"
      PROVE  cb'[x][i].id # cb'[x][j].id
  <2>1. i \in 1 .. Len(cb[x]) /\ cb'[x][i] = cb[x][i] /\ j \in 1 .. Len(cb[x]) /\ cb'[x][j] = cb[x][j]
    BY <1>3
  <2>. QED BY <2>1, <1>5 DEF CallInv
<1>. QED BY <1>4, <1>5 DEF CallInv, CallOf

LEMMA WriteReturnStep ==
  ASSUME IInv, NEW e \in End, WriteReturn(e)
  PROVE  IInv'
<1>1. TypeOK /\ NoProtocolError /\ ChanInv /\ LocalInv /\ CallInv /\ CountInv /\ WriterInv
      /\ FramesInv /\ OpenInv /\ EofInv /\ DataInv /\ CreditInv /\ ReaderInv
  BY Parts DEF IInv
<1>2. Writing(e) /\ ~Idle(e) /\ Top(e).n = 0 /\ Pop(e)
      /\ tx' = [tx EXCEPT ![Top(e).id].win = Sub32(@, Top(e).a)]
      /\ UNCHANGED <<chan, acc, rx, nextId, err, closing, goaway, hist>>
  BY DEF WriteReturn, Writing
<1>3. PICK id \in Ids :
         /\ id = Top(e).id /\ Opener(id) = e /\ tx[id].st = "live" /\ ~tx[id].fin /\ ~tx[id].rst
         /\ Top(e).a <= tx[id].win /\ Top(e).a \in Nat /\ Top(e).k = "write"
  BY <1>1, <1>2, WriteTop
<1>4. /\ hist[id].sent \in Nat /\ hist[id].credited \in Nat /\ tx[id].win \in Nat
      /\ Window[e] \in Nat /\ tx[id] \in TxStream
  BY <1>1, StreamTypes, SessionAssumption
<1>5. Sub32(tx[id].win, Top(e).a) = tx[id].win - Top(e).a /\ tx[id].win - Top(e).a \in Nat
  BY <1>3, <1>4 DEF Sub32
<1>6. /\ tx' \in [Ids -> TxStream] /\ \A x \in Ids \ {id} : tx'[x] = tx[x]
      /\ tx'[id].win = tx[id].win - Top(e).a
      /\ tx'[id].st = "live" /\ tx'[id].fin = tx[id].fin /\ tx'[id].rst = tx[id].rst
  <2> DEFINE s == [tx[id] EXCEPT !.win = Sub32(@, Top(e).a)]
  <2>1. /\ s \in TxStream /\ s.win = tx[id].win - Top(e).a /\ s.st = "live"
        /\ s.fin = tx[id].fin /\ s.rst = tx[id].rst
    BY <1>3, <1>4, <1>5 DEF TxStream
  <2>2. tx' = [tx EXCEPT ![id] = s]
    BY <1>2, <1>3
  <2> HIDE DEF s
  <2>3. tx' \in [Ids -> TxStream] /\ tx'[id] = s /\ \A x \in Ids \ {id} : tx'[x] = tx[x]
    BY <2>1, <2>2, <1>1 DEF TypeOK
  <2>. QED BY <2>1, <2>3
<1>7. /\ cb' \in [End -> Seq(Continuation)]
      /\ Len(cb[e]) \in Nat /\ Len(cb[e]) > 0 /\ Len(cb'[e]) = Len(cb[e]) - 1
      /\ \A i \in 1 .. Len(cb[e]) - 1 : cb'[e][i] = cb[e][i]
      /\ \A x \in End \ {e} : cb'[x] = cb[x]
  BY <1>1, <1>2, PopStep
<1>8. TypeOK' /\ NoProtocolError'
  BY <1>1, <1>2, <1>6, <1>7 DEF TypeOK, NoProtocolError
<1>9. \A x \in Ids : tx'[x].st = tx[x].st /\ tx'[x].fin = tx[x].fin /\ tx'[x].rst = tx[x].rst
  BY <1>3, <1>6
<1>10. IdsInv' /\ FreshInv' /\ CountInv'
  <2>1. IdsInv' /\ CountInv'
    BY <1>1, <1>2, <1>9 DEF LocalInv, IdsInv, CountInv
  <2>2. \A x \in Ids : tx'[x].st = "none" => tx'[x] = tx[x] /\ tx[x].st = "none"
    BY <1>3, <1>6
  <2>. QED BY <2>1, <2>2, <1>1, <1>2 DEF LocalInv, FreshInv
<1>11. CallInv'
  <2>1. \A x \in Ids : tx'[x] = tx[x] \/ (Opener(x) = e /\ Writing(e))
    BY <1>2, <1>3, <1>6
  <2>. QED BY <2>1, <1>1, <1>2, CallPop
<1>12. WriterInv'
  <2> SUFFICES ASSUME NEW x \in Ids PROVE WriterOf(x)'
    BY WriterAll DEF WriterOf, WriterInv
  <2>1. Opener(x) \in End /\ WriterOf(x)
    BY <1>1, StreamTypes, WriterAll
  <2>2. CASE Opener(x) # e
    <3>1. cb'[Opener(x)] = cb[Opener(x)] /\ hist'[x] = hist[x] /\ tx'[x] = tx[x]
      BY <2>1, <2>2, <1>2, <1>3, <1>6, <1>7
    <3>. QED BY <3>1, <2>1 DEF WriterOf, Writing, Top, Idle
  <2>3. ~Writing(e)'
    BY <1>1, <1>7 DEF Writing, Top, Idle, CallInv
  <2>4. CASE Opener(x) = e /\ x # id
    BY <2>1, <2>3, <2>4, <1>2, <1>3, <1>6 DEF WriterOf
  <2>5. CASE x = id
    <3>1. tx[id].win = Window[e] + hist[id].credited - hist[id].sent + Top(e).a - 0
      BY <2>1, <2>5, <1>2, <1>3 DEF WriterOf
    <3>2. tx'[id].win = Window[e] + hist[id].credited - hist[id].sent
      BY <3>1, <1>3, <1>4, <1>6
    <3>. QED BY <2>3, <2>5, <3>2, <1>2, <1>3 DEF WriterOf
  <2>. QED BY <2>2, <2>4, <2>5
<1>13. ReaderInv'
  <2> SUFFICES ASSUME NEW x \in Ids PROVE ReaderOf(x)'
    BY ReaderAll DEF ReaderOf, ReaderInv
  <2>1. Reader(x) \in End /\ ReaderOf(x)
    BY <1>1, StreamTypes, ReaderAll
  <2>2. CallsSame(Reader(x), x)
    BY <2>1, <1>1, <1>2, <1>3, CallsPop
  <2>3. rx'[x] = rx[x] /\ hist'[x] = hist[x]
    BY <1>2
  <2>. QED BY <2>1, <2>2, <2>3, ReaderKeep
<1>14. FramesInv' /\ OpenInv' /\ EofInv' /\ DataInv' /\ CreditInv'
  BY <1>1, <1>2, <1>9 DEF FramesInv, FrameOK, OpenInv, EofInv, DataInv, CreditInv
<1>. QED BY <1>8, <1>10, <1>11, <1>12, <1>13, <1>14 DEF IInv

\* Credit received never makes the send window wrap: it stays within Window.
LEMMA HandleWindowStep ==
  ASSUME IInv, NEW e \in End, HandleWindow(e)
  PROVE  IInv'
<1>1. TypeOK /\ NoProtocolError /\ ChanInv /\ LocalInv /\ CallInv /\ CountInv /\ WriterInv
      /\ FramesInv /\ OpenInv /\ EofInv /\ DataInv /\ CreditInv /\ ReaderInv /\ FreshInv
  BY Parts DEF IInv
<1> DEFINE p == Peer(e)
           g == Head(chan[p])
<1>2. Receives(e, "WINDOW")
  BY DEF HandleWindow
<1>3. /\ p \in End /\ p # e /\ acc[p] > 0 /\ Len(chan[p]) > 0
      /\ chan[p] \in Seq(Frame) /\ g \in Frame /\ g.t = "WINDOW" /\ FrameOK(p, g)
      /\ g.n \in Nat /\ Idle(e)
  BY <1>2, Received1 DEF FrameTypes
<1>4. PICK id \in Ids : id = g.id
  BY <1>3 DEF FrameOK
<1>5. Opener(id) = e /\ Reader(id) = p /\ g.n > 0
  <2>1. Opener(id) # p /\ g.n > 0
    BY <1>3, <1>4 DEF FrameOK
  <2>2. Opener(id) \in End /\ Reader(id) = Peer(Opener(id))
    BY <1>1, StreamTypes DEF Reader
  <2>. QED BY <2>1, <2>2, Ends
<1>6. CASE ~Live(e, id) \/ WasReset(e, id)
  <2>1. Drop(e)
    BY <1>4, <1>6 DEF HandleWindow
  <2>. QED BY <1>2, <1>4, <1>6, <2>1, DropStep
<1>7. CASE Live(e, id) /\ ~WasReset(e, id)
  <2>1. tx[id].st = "live" /\ ~tx[id].rst
    BY <1>5, <1>7 DEF Live, WasReset
  <2>2. PICK n \in Nat : n = g.n /\ n > 0
    BY <1>3, <1>5
  <2>3. /\ tx' = [tx EXCEPT ![id].win = Add32(@, n)]
        /\ hist' = [hist EXCEPT ![id].credited = @ + n]
        /\ Consume(e)
        /\ UNCHANGED <<rx, cb, nextId, err, closing, goaway>>
    BY <1>4, <1>5, <1>7, <2>2 DEF HandleWindow
  <2> DEFINE f == Mk("GOAWAY", 0, 0, 0)
  <2>4. f \in Frame
    BY MkFrame DEF FrameTypes
  <2> HIDE DEF f
  <2>5. /\ ChanStep(e, f) /\ AccOK' /\ chan'[e] = chan[e] /\ chan'[p] = Tail(chan[p])
        /\ Len(chan[p]) > 0
    BY <1>1, <1>3, <2>3, <2>4, ConsumeStep
  <2>6. /\ hist[id].sent \in Nat /\ hist[id].credited \in Nat /\ tx[id].win \in Nat
        /\ hist[id].granted \in Nat /\ hist[id].rcvd \in Nat
        /\ Window[e] \in Nat /\ tx[id] \in TxStream /\ hist[id] \in History
        /\ Word \in Nat /\ 2 * Window[e] < Word
    BY <1>1, StreamTypes, SessionAssumption
  <2>7. hist[id].credited + n <= hist[id].granted
    <3>1. Chain(chan[p], "WINDOW", id, hist[id].credited, hist[id].granted)
      BY <1>1, <1>5, <2>1 DEF CreditInv
    <3>2. Head(chan[p]).t = "WINDOW" /\ Head(chan[p]).id = id /\ Head(chan[p]).n = n
      BY <1>3, <1>4, <2>2
    <3>3. hist[id].credited \in Nat /\ hist[id].granted \in Nat /\ chan[p] \in Seq(Frame) /\ Len(chan[p]) > 0
      BY <1>3, <2>6
    <3> HIDE DEF p
    <3>. QED BY <3>1, <3>2, <3>3, ChainTailSame
  <2>8. tx[id].win = Window[e] + hist[id].credited - hist[id].sent
    BY <1>1, <1>3, <1>5, <2>1 DEF WriterInv, Writing
  <2>9. hist[id].granted <= hist[id].rcvd /\ hist[id].rcvd <= hist[id].sent
    BY <1>1 DEF CountInv
  <2>10. tx[id].win + n < Word /\ tx[id].win + n \in Nat
    <3>1. tx[id].win + n <= Window[e]
      BY <2>6, <2>7, <2>8, <2>9
    <3>2. Window[e] < Word
      BY <2>6
    <3>. QED BY <3>1, <3>2, <2>6
  <2>11. Add32(tx[id].win, n) = tx[id].win + n
    BY <2>10 DEF Add32
  <2>12. /\ tx' \in [Ids -> TxStream] /\ \A x \in Ids \ {id} : tx'[x] = tx[x]
         /\ tx'[id].win = tx[id].win + n
         /\ tx'[id].st = tx[id].st /\ tx'[id].fin = tx[id].fin /\ tx'[id].rst = tx[id].rst
    <3> DEFINE s == [tx[id] EXCEPT !.win = Add32(@, n)]
    <3>1. /\ s \in TxStream /\ s.win = tx[id].win + n /\ s.st = tx[id].st
          /\ s.fin = tx[id].fin /\ s.rst = tx[id].rst
      BY <2>6, <2>10, <2>11 DEF TxStream
    <3>2. tx' = [tx EXCEPT ![id] = s]
      BY <2>3
    <3> HIDE DEF s
    <3>3. tx' \in [Ids -> TxStream] /\ tx'[id] = s /\ \A x \in Ids \ {id} : tx'[x] = tx[x]
      BY <3>1, <3>2, <1>1 DEF TypeOK
    <3>. QED BY <3>1, <3>3
  <2>13. /\ hist' \in [Ids -> History] /\ \A x \in Ids \ {id} : hist'[x] = hist[x]
         /\ hist'[id].credited = hist[id].credited + n
         /\ hist'[id].sent = hist[id].sent /\ hist'[id].rcvd = hist[id].rcvd
         /\ hist'[id].granted = hist[id].granted /\ hist'[id].got = hist[id].got
         /\ hist'[id].at = hist[id].at /\ hist'[id].last = hist[id].last /\ hist'[id].fins = hist[id].fins
    <3> DEFINE h == [hist[id] EXCEPT !.credited = @ + n]
    <3>1. /\ h \in History /\ h.credited = hist[id].credited + n
          /\ h.sent = hist[id].sent /\ h.rcvd = hist[id].rcvd
          /\ h.granted = hist[id].granted /\ h.got = hist[id].got
          /\ h.at = hist[id].at /\ h.last = hist[id].last /\ h.fins = hist[id].fins
      BY <2>6 DEF History
    <3>2. hist' = [hist EXCEPT ![id] = h]
      BY <2>3
    <3> HIDE DEF h
    <3>3. hist' \in [Ids -> History] /\ hist'[id] = h /\ \A x \in Ids \ {id} : hist'[x] = hist[x]
      BY <3>1, <3>2, <1>1 DEF TypeOK
    <3>. QED BY <3>1, <3>3
  <2>14. TypeOK' /\ NoProtocolError'
    BY <1>1, <2>3, <2>5, <2>12, <2>13 DEF TypeOK, AccOK, ChanStep, NoProtocolError
  <2>15. \A x \in Ids : tx'[x].st = tx[x].st /\ tx'[x].fin = tx[x].fin /\ tx'[x].rst = tx[x].rst
    BY <2>12
  <2>16. \A x \in Ids : /\ hist'[x].sent = hist[x].sent /\ hist'[x].rcvd = hist[x].rcvd
                        /\ hist'[x].granted = hist[x].granted /\ hist'[x].got = hist[x].got
    BY <2>13
  <2>17. IdsInv'
    BY <1>1, <2>3, <2>15 DEF LocalInv, IdsInv
  <2>18. FreshInv'
    <3>1. ASSUME NEW x \in Ids
          PROVE  /\ tx'[x].st = "none" => tx'[x] = NoTx /\ hist'[x] = NoHistory
                 /\ rx'[x].st = "none" => /\ rx'[x] = NoRx /\ hist'[x].rcvd = 0 /\ hist'[x].got = 0
                                          /\ hist'[x].granted = 0 /\ hist'[x].fins = 0
      <4>1. CASE x = id
        BY <4>1, <1>1, <2>1, <2>3, <2>12, <2>13 DEF FreshInv
      <4>2. CASE x # id
        BY <4>2, <1>1, <2>3, <2>12, <2>13 DEF FreshInv
      <4>. QED BY <4>1, <4>2
    <3>. QED BY <3>1 DEF FreshInv
  <2>19. CountInv'
    <3>1. ASSUME NEW x \in Ids
          PROVE  /\ hist'[x].credited <= hist'[x].granted /\ hist'[x].granted <= hist'[x].rcvd
                 /\ hist'[x].got <= hist'[x].rcvd /\ hist'[x].rcvd <= hist'[x].sent
                 /\ hist'[x].at + hist'[x].last = hist'[x].got
                 /\ hist'[x].sent <= Window[Opener(x)] + hist'[x].credited
                 /\ hist'[x].fins > 0 => rx'[x].fin /\ hist'[x].got = hist'[x].sent
      <4>1. CASE x = id
        <5>1. hist[id].sent <= Window[e] + (hist[id].credited + n)
          BY <1>1, <1>5, <2>6 DEF CountInv
        <5>. QED BY <4>1, <5>1, <1>1, <1>5, <2>3, <2>7, <2>13 DEF CountInv
      <4>2. CASE x # id
        BY <4>2, <1>1, <2>3, <2>13 DEF CountInv
      <4>. QED BY <4>1, <4>2
    <3>. QED BY <3>1 DEF CountInv
  <2>20. CallInv'
    <3>1. cb[e] = <<>>
      BY <1>3 DEF Idle
    <3>2. ASSUME NEW y \in End, NEW i \in 1 .. Len(cb[y])
          PROVE  CallOf(y, i)'
      <4>1. y # e /\ CallOf(y, i) /\ cb[y][i].id \in Ids
        BY <3>1, <3>2, <1>1, CallTypes DEF CallInv, CallOf
      <4>2. cb[y][i].k = "write" => tx'[cb[y][i].id] = tx[cb[y][i].id]
        BY <4>1, <1>5, <2>12 DEF CallOf
      <4>. QED BY <4>1, <4>2, <2>3 DEF CallOf
    <3>3. cb' = cb
      BY <2>3
    <3>. QED BY <3>2, <3>3, <1>1 DEF CallInv, CallOf
  <2>21. WriterInv'
    <3> SUFFICES ASSUME NEW x \in Ids PROVE WriterOf(x)'
      BY WriterAll DEF WriterOf, WriterInv
    <3>1. WriterOf(x) /\ cb' = cb
      BY <1>1, <2>3, WriterAll
    <3>2. CASE x # id
      BY <3>1, <3>2, <2>12, <2>13 DEF WriterOf, Writing, Top, Idle
    <3>3. CASE x = id
      <4>1. tx'[id].win = Window[e] + hist'[id].credited - hist'[id].sent
        BY <2>6, <2>8, <2>12, <2>13
      <4>2. ~Writing(e)'
        BY <3>1, <1>3 DEF Writing, Idle
      <4>. QED BY <3>3, <4>1, <4>2, <1>5 DEF WriterOf
    <3>. QED BY <3>2, <3>3
  <2>22. ReaderInv'
    <3> SUFFICES ASSUME NEW x \in Ids PROVE ReaderOf(x)'
      BY ReaderAll DEF ReaderOf, ReaderInv
    <3>1. ReaderOf(x) /\ CallsSame(Reader(x), x)
      BY <1>1, <2>3, ReaderAll DEF CallsSame, InCall
    <3>. QED BY <3>1, <2>3, <2>16, ReaderKeep
  <2>23. FramesInv'
    BY <1>1, <2>4, <2>5, <2>15, FramesKeep
  <2>24. OpenInv'
    BY <1>1, <1>3, <2>3, <2>4, <2>5, <2>15, OpenKeep
  <2>25. EofInv'
    BY <1>1, <2>3, <2>4, <2>5, <2>15, EofKeep
  <2>26. DataInv'
    BY <1>1, <1>3, <2>3, <2>4, <2>5, <2>16, DataKeep
  <2>27. CreditInv'
    <3>1. Head(chan[Peer(e)]).t = "WINDOW" /\ Head(chan[Peer(e)]).id = id /\ Head(chan[Peer(e)]).n = n
      BY <1>3, <1>4, <2>2
    <3>. QED BY <3>1, <1>1, <1>5, <2>1, <2>4, <2>5, <2>13, <2>15, <2>16, CreditShrink
  <2>. QED BY <2>14, <2>17, <2>18, <2>19, <2>20, <2>21, <2>22, <2>23, <2>24, <2>25, <2>26, <2>27 DEF IInv
<1>. QED BY <1>6, <1>7

-----------------------------------------------------------------------------
(***************************************************************************)
(* The reader.                                                             *)
(***************************************************************************)

\* What CountInv says of one stream.
CountOf(id) ==
  LET h == hist[id] IN
  /\ h.credited <= h.granted /\ h.granted <= h.rcvd
  /\ h.got <= h.rcvd /\ h.rcvd <= h.sent
  /\ h.at + h.last = h.got
  /\ h.sent <= Window[Opener(id)] + h.credited
  /\ h.fins > 0 => rx[id].fin /\ h.got = h.sent

\* A step of the reader of stream id touches its record, its history and the calls
\* of its end, and none of them is the business of the writers.
ReaderStep(e, id) ==
  /\ Opener(id) # e /\ tx[id].st # "none" /\ rx[id].st = "live"
  /\ UNCHANGED <<tx, nextId, err, closing, goaway>>
  /\ rx' \in [Ids -> RxStream] /\ rx'[id].st = "live" /\ rx'[id].rst = rx[id].rst
  /\ \A x \in Ids \ {id} : rx'[x] = rx[x]
  /\ hist' \in [Ids -> History] /\ \A x \in Ids \ {id} : hist'[x] = hist[x]
  /\ hist'[id].sent = hist[id].sent /\ hist'[id].credited = hist[id].credited
  /\ ~Writing(e) /\ ~Writing(e)'
  /\ \A y \in End \ {e} : cb'[y] = cb[y]

LEMMA ReaderLocal ==
  ASSUME TypeOK, LocalInv, NEW e \in End, NEW id \in Ids, ReaderStep(e, id),
         CountOf(id)', ReaderOf(id)', CallInv',
         \A x \in Ids \ {id} : CallsSame(Reader(x), x)
  PROVE  LocalInv'
<1>1. IdsInv /\ FreshInv /\ CountInv /\ CallInv /\ WriterInv /\ ReaderInv
  BY DEF LocalInv
<1>2. IdsInv'
  BY <1>1 DEF IdsInv, ReaderStep
<1>3. FreshInv'
  <2>1. ASSUME NEW x \in Ids
        PROVE  /\ tx'[x].st = "none" => tx'[x] = NoTx /\ hist'[x] = NoHistory
               /\ rx'[x].st = "none" => /\ rx'[x] = NoRx /\ hist'[x].rcvd = 0 /\ hist'[x].got = 0
                                        /\ hist'[x].granted = 0 /\ hist'[x].fins = 0
    <3>1. CASE x = id
      BY <3>1 DEF ReaderStep
    <3>2. CASE x # id
      BY <3>2, <1>1 DEF ReaderStep, FreshInv
    <3>. QED BY <3>1, <3>2
  <2>. QED BY <2>1 DEF FreshInv
<1>4. CountInv'
  <2> SUFFICES ASSUME NEW x \in Ids PROVE CountOf(x)'
    BY DEF CountInv, CountOf
  <2>1. CASE x = id
    BY <2>1
  <2>2. CASE x # id
    BY <2>2, <1>1 DEF CountInv, CountOf, ReaderStep
  <2>. QED BY <2>1, <2>2
<1>5. WriterInv'
  <2> SUFFICES ASSUME NEW x \in Ids PROVE WriterOf(x)'
    BY WriterAll DEF WriterOf, WriterInv
  <2>1. Opener(x) \in End /\ WriterOf(x)
    BY <1>1, StreamTypes, WriterAll
  <2>2. hist'[x].sent = hist[x].sent /\ hist'[x].credited = hist[x].credited /\ tx' = tx
    BY DEF ReaderStep
  <2>3. CASE Opener(x) = e
    BY <2>1, <2>2, <2>3 DEF WriterOf, ReaderStep
  <2>4. CASE Opener(x) # e
    <3>1. cb'[Opener(x)] = cb[Opener(x)]
      BY <2>1, <2>4 DEF ReaderStep
    <3>. QED BY <3>1, <2>1, <2>2 DEF WriterOf, Writing, Top, Idle
  <2>. QED BY <2>3, <2>4
<1>6. ReaderInv'
  <2> SUFFICES ASSUME NEW x \in Ids PROVE ReaderOf(x)'
    BY ReaderAll DEF ReaderOf, ReaderInv
  <2>1. CASE x = id
    BY <2>1
  <2>2. CASE x # id
    <3>1. ReaderOf(x) /\ CallsSame(Reader(x), x) /\ rx'[x] = rx[x] /\ hist'[x] = hist[x]
      BY <2>2, <1>1, ReaderAll DEF ReaderStep
    <3>. QED BY <3>1, ReaderKeep
  <2>. QED BY <2>1, <2>2
<1>. QED BY <1>2, <1>3, <1>4, <1>5, <1>6 DEF LocalInv

\* The calls of an end after a DATA callback begins.
LEMMA CallPush ==
  ASSUME TypeOK, CallInv, NEW e \in End, NEW k \in {"data", "resume"}, NEW id \in Ids,
         NEW n \in Nat, Push(e, k, id, n, 0), n > 0, Opener(id) # e, rx[id].st # "none",
         ~Writing(e), ~InCall(e, "data", id), ~InCall(e, "resume", id),
         tx' = tx, \A x \in Ids : rx[x].st # "none" => rx'[x].st # "none"
  PROVE  CallInv' /\ ~Writing(e)'
<1>1. /\ cb' \in [End -> Seq(Continuation)]
      /\ Len(cb'[e]) = Len(cb[e]) + 1
      /\ \A i \in 1 .. Len(cb[e]) : cb'[e][i] = cb[e][i]
      /\ cb'[e][Len(cb'[e])] = [k |-> k, id |-> id, n |-> n, a |-> 0]
      /\ \A x \in End \ {e} : cb'[x] = cb[x]
  BY PushStep
<1>2. Len(cb[e]) \in Nat /\ \A i \in 1 .. Len(cb[e]) : cb[e][i].k \in {"write", "data", "resume"}
  BY CallTypes
<1>3. cb'[e][Len(cb'[e])].k = k /\ cb'[e][Len(cb'[e])].id = id /\ cb'[e][Len(cb'[e])].n = n
  BY <1>1
<1>4. \A i \in 1 .. Len(cb[e]) : cb[e][i].k # "write" /\ cb[e][i].id # id
  <2>1. ASSUME NEW i \in 1 .. Len(cb[e]) PROVE cb[e][i].k # "write"
    BY <2>1, WriteOnTop, CallTypes DEF InCall
  <2>. QED BY <2>1, <1>2 DEF InCall
<1>5. \A i \in 1 .. Len(cb'[e]) : i \in 1 .. Len(cb[e]) \/ i = Len(cb'[e])
  BY <1>1, <1>2
<1>6. ASSUME NEW x \in End, NEW i \in 1 .. Len(cb'[x])
      PROVE  CallOf(x, i)'
  <2>1. CASE x # e
    <3>1. cb'[x] = cb[x]
      BY <2>1, <1>1
    <3>2. CallOf(x, i) /\ cb[x][i].id \in Ids
      BY <3>1, <1>6, CallTypes DEF CallInv, CallOf
    <3>. QED BY <3>1, <3>2 DEF CallOf
  <2>2. CASE x = e /\ i = Len(cb'[e])
    BY <2>2, <1>3 DEF CallOf
  <2>3. CASE x = e /\ i \in 1 .. Len(cb[e])
    <3>1. CallOf(e, i) /\ cb[e][i].id \in Ids /\ cb'[e][i] = cb[e][i] /\ cb[e][i].k # "write"
      BY <2>3, <1>1, <1>4, CallTypes DEF CallInv, CallOf
    <3>. QED BY <3>1, <2>3 DEF CallOf
  <2>. QED BY <2>1, <2>2, <2>3, <1>5, <1>6
<1>7. ASSUME NEW x \in End, NEW i \in 1 .. Len(cb'[x]), NEW j \in 1 .. Len(cb'[x]),
             i # j, cb'[x][i].k # "write", cb'[x][j].k # "write"
      PROVE  cb'[x][i].id # cb'[x][j].id
  <2>1. CASE x # e
    <3>1. cb'[x] = cb[x]
      BY <2>1, <1>1
    <3>. QED BY <3>1, <1>7 DEF CallInv
  <2>2. CASE x = e /\ i \in 1 .. Len(cb[e]) /\ j \in 1 .. Len(cb[e])
    BY <2>2, <1>1, <1>4, <1>7 DEF CallInv
  <2>3. CASE x = e /\ (i = Len(cb'[e]) \/ j = Len(cb'[e]))
    BY <2>3, <1>1, <1>3, <1>4, <1>5, <1>7
  <2>. QED BY <2>1, <2>2, <2>3, <1>5, <1>7
<1>8. ~Writing(e)'
  BY <1>3 DEF Writing, Top
<1>. QED BY <1>6, <1>7, <1>8 DEF CallInv, CallOf

\* DATA received is the next of its stream and fits the window: no protocol error.
LEMMA HandleDataStep ==
  ASSUME IInv, Contract, NEW e \in End, HandleData(e)
  PROVE  IInv'
<1>1. TypeOK /\ NoProtocolError /\ ChanInv /\ LocalInv /\ CallInv /\ CountInv /\ WriterInv
      /\ FramesInv /\ OpenInv /\ EofInv /\ DataInv /\ CreditInv /\ ReaderInv /\ FreshInv
  BY Parts DEF IInv
<1> DEFINE p == Peer(e)
           g == Head(chan[p])
<1>2. Receives(e, "DATA")
  BY DEF HandleData
<1>3. /\ p \in End /\ p # e /\ acc[p] > 0 /\ Len(chan[p]) > 0
      /\ chan[p] \in Seq(Frame) /\ g \in Frame /\ g.t = "DATA" /\ FrameOK(p, g)
      /\ g.n \in Nat /\ g.off \in Nat /\ Idle(e)
  BY <1>2, Received1 DEF FrameTypes
<1>4. PICK id \in Ids : id = g.id
  BY <1>3 DEF FrameOK
<1>5. Opener(id) = p /\ Opener(id) # e /\ Reader(id) = e /\ g.n > 0 /\ tx[id].st # "none"
  <2>1. Opener(id) = p /\ g.n > 0 /\ tx[id].st # "none"
    BY <1>3, <1>4 DEF FrameOK
  <2>2. Reader(id) = Peer(Opener(id))
    BY DEF Reader
  <2>. QED BY <2>1, <2>2, <1>3, Ends
<1>6. CASE ~Live(e, id) \/ WasReset(e, id)
  <2>1. Drop(e)
    BY <1>4, <1>5, <1>6 DEF HandleData, Live, WasReset
  <2>. QED BY <1>2, <1>4, <1>6, <2>1, DropStep
<1>7. CASE Live(e, id) /\ ~WasReset(e, id)
  <2>1. rx[id].st = "live" /\ ~rx[id].rst
    BY <1>5, <1>7 DEF Live, WasReset
  <2>2. PICK n \in Nat, off \in Nat : n = g.n /\ off = g.off /\ n > 0
    BY <1>3, <1>5
  <2> DEFINE s == rx[id]
             h == hist[id]
  <2>3. /\ h.sent \in Nat /\ h.credited \in Nat /\ h.granted \in Nat /\ h.rcvd \in Nat
        /\ h.got \in Nat /\ h.at \in Nat /\ h.last \in Nat
        /\ s.outst \in Nat /\ s.pend \in Nat /\ s.rxlen \in Nat
        /\ s \in RxStream /\ h \in History
        /\ Window[e] \in Nat /\ Word \in Nat /\ 2 * Window[e] < Word
    BY <1>1, StreamTypes, SessionAssumption
  <2>4. off = h.rcvd /\ h.rcvd + n <= h.sent
    <3>1. Chain(chan[p], "DATA", id, h.rcvd, h.sent)
      BY <1>1, <1>5, <2>1 DEF DataInv
    <3>2. /\ Head(chan[p]).t = "DATA" /\ Head(chan[p]).id = id
          /\ Head(chan[p]).n = n /\ Head(chan[p]).off = off
      BY <1>3, <1>4, <2>2
    <3>3. h.rcvd \in Nat /\ h.sent \in Nat /\ chan[p] \in Seq(Frame) /\ Len(chan[p]) > 0
      BY <1>3, <2>3
    <3> HIDE DEF p, h
    <3>. QED BY <3>1, <3>2, <3>3, ChainTailSame
  <2>5. /\ h.credited <= h.granted /\ h.granted <= h.rcvd /\ h.got <= h.rcvd
        /\ h.sent <= Window[e] + h.credited
    <3>1. Window[Opener(id)] = Window[e]
      BY <1>5, <1>3 DEF Contract, End
    <3>. QED BY <3>1, <1>1 DEF CountInv
  <2>6. /\ s.outst = h.rcvd - h.granted
        /\ s.outst = s.pend + s.rxlen
        /\ h.got = h.rcvd - s.rxlen /\ (s.rxlen > 0 => s.paused)
    <3>1. ~InCall(e, "data", id) /\ ~InCall(e, "resume", id)
      BY <1>1, <1>3, IdleNotWriting
    <3>. QED BY <3>1, <1>1, <1>5, <2>1 DEF ReaderInv
  <2>7. s.outst + n <= Window[e] /\ s.outst + n < Word
    BY <2>3, <2>4, <2>5, <2>6
  <2>8. Add32(s.outst, n) = s.outst + n
    BY <2>7 DEF Add32
  <2>9. ~s.fin
    <3>1. Is(chan[p], 1, "DATA", id) /\ Has(chan[p], "DATA", id)
      BY <1>3, <1>4, TailFrame DEF Has, Is
    <3>. QED BY <3>1, <1>1, <1>5 DEF EofInv
  <2>10. ~ExceedsWindow(e, s, n)
    BY <2>3, <2>7 DEF ExceedsWindow
  <2>11. PICK r, hh :
          /\ rx' = [rx EXCEPT ![id] = r] /\ hist' = [hist EXCEPT ![id] = hh]
          /\ Consume(e) /\ UNCHANGED <<tx, nextId, err, closing, goaway>>
          /\ \/ /\ s.paused /\ cb' = cb
                /\ r = [s EXCEPT !.outst = Add32(@, n), !.rxlen = @ + n]
                /\ hh = [h EXCEPT !.rcvd = @ + n]
             \/ /\ ~s.paused /\ Push(e, "data", id, n, 0)
                /\ r = [s EXCEPT !.outst = Add32(@, n)]
                /\ hh = [h EXCEPT !.rcvd = @ + n, !.got = @ + n, !.at = off, !.last = n]
    <3>1. CASE s.paused
      <4>1. /\ rx' = [rx EXCEPT ![id] = [[s EXCEPT !.outst = Add32(@, n)] EXCEPT !.rxlen = @ + n]]
            /\ hist' = [hist EXCEPT ![id] = [h EXCEPT !.rcvd = @ + n]]
            /\ Consume(e) /\ UNCHANGED <<tx, cb, nextId, err, closing, goaway>>
        BY <1>4, <1>5, <1>7, <2>2, <2>9, <2>10, <3>1 DEF HandleData, Received
      <4>. QED BY <4>1, <3>1
    <3>2. CASE ~s.paused
      <4>1. /\ rx' = [rx EXCEPT ![id] = [s EXCEPT !.outst = Add32(@, n)]]
            /\ hist' = [hist EXCEPT ![id] =
                          [[h EXCEPT !.rcvd = @ + n] EXCEPT !.got = @ + n, !.at = off, !.last = n]]
            /\ Consume(e) /\ UNCHANGED <<tx, nextId, err, closing, goaway>>
            /\ Push(e, "data", id, n, 0)
        BY <1>4, <1>5, <1>7, <2>2, <2>9, <2>10, <3>2 DEF HandleData, Received, Delivered
      <4>. QED BY <4>1, <3>2
    <3>. QED BY <3>1, <3>2
  <2>12. /\ r \in RxStream /\ r.st = "live" /\ r.rst = s.rst /\ r.fin = s.fin /\ r.paused = s.paused
         /\ r.outst = s.outst + n /\ r.pend = s.pend
         /\ s.paused => r.rxlen = s.rxlen + n
         /\ ~s.paused => r.rxlen = 0
    <3>1. CASE s.paused
      <4>1. r = [s EXCEPT !.outst = Add32(@, n), !.rxlen = @ + n]
        BY <2>11, <3>1
      <4>2. s.outst + n \in Nat /\ s.rxlen + n \in Nat
        BY <2>3
      <4>3. r = [s EXCEPT !.outst = s.outst + n, !.rxlen = s.rxlen + n]
        BY <4>1, <2>8
      <4>4. r \in RxStream
        BY <4>2, <4>3, <2>3 DEF RxStream
      <4>. QED BY <4>3, <4>4, <3>1, <2>1, <2>3 DEF RxStream
    <3>2. CASE ~s.paused
      <4>1. r = [s EXCEPT !.outst = Add32(@, n)]
        BY <2>11, <3>2
      <4>2. s.rxlen = 0
        BY <2>3, <2>6, <3>2
      <4>. QED BY <4>1, <4>2, <3>2, <2>1, <2>3, <2>8 DEF RxStream
    <3>. QED BY <3>1, <3>2
  <2>13. /\ hh \in History /\ hh.sent = h.sent /\ hh.credited = h.credited /\ hh.granted = h.granted
         /\ hh.fins = h.fins /\ hh.rcvd = h.rcvd + n
         /\ s.paused => hh.got = h.got /\ hh.at = h.at /\ hh.last = h.last
         /\ ~s.paused => hh.got = h.got + n /\ hh.at = off /\ hh.last = n
    <3>1. CASE s.paused
      <4>1. hh = [h EXCEPT !.rcvd = @ + n]
        BY <2>11, <3>1
      <4>. QED BY <4>1, <3>1, <2>3 DEF History
    <3>2. CASE ~s.paused
      <4>1. hh = [h EXCEPT !.rcvd = @ + n, !.got = @ + n, !.at = off, !.last = n]
        BY <2>11, <3>2
      <4>2. h.rcvd + n \in Nat /\ h.got + n \in Nat
        BY <2>3
      <4>3. hh \in History
        BY <4>1, <4>2, <2>3 DEF History
      <4>. QED BY <4>1, <4>3, <3>2, <2>3 DEF History
    <3>. QED BY <3>1, <3>2
  <2>14. /\ rx' \in [Ids -> RxStream] /\ rx'[id] = r /\ \A x \in Ids \ {id} : rx'[x] = rx[x]
         /\ hist' \in [Ids -> History] /\ hist'[id] = hh /\ \A x \in Ids \ {id} : hist'[x] = hist[x]
    BY <1>1, <2>11, <2>12, <2>13 DEF TypeOK
  <2>15. Len(cb[e]) = 0 /\ ~Writing(e)
    BY <1>3 DEF Idle, Writing
  <2>16. \A k : ~InCall(e, k, id)
    BY <1>1, <1>3, IdleNotWriting
  <2>17. \A x \in Ids : rx[x].st # "none" => rx'[x].st # "none"
    BY <2>12, <2>14
  <2>18. /\ cb' \in [End -> Seq(Continuation)] /\ CallInv' /\ ~Writing(e)'
         /\ \A y \in End \ {e} : cb'[y] = cb[y]
         /\ \A x \in Ids \ {id} : CallsSame(Reader(x), x)
    <3>1. CASE s.paused
      <4>1. cb' = cb /\ tx' = tx
        BY <2>11, <3>1
      <4>2. \A x \in End : \A i \in 1 .. Len(cb[x]) : cb[x][i].id \in Ids
        BY <1>1, CallTypes
      <4>3. CallInv'
        BY <4>1, <4>2, <1>1, <2>17 DEF CallInv
      <4>. QED BY <4>1, <4>3, <1>1, <2>15 DEF TypeOK, CallsSame, InCall, Writing, Idle, Top
    <3>2. CASE ~s.paused
      <4>1. Push(e, "data", id, n, 0) /\ tx' = tx
        BY <2>11, <3>2
      <4>2. "data" \in {"write", "data", "resume"} /\ "data" \in {"data", "resume"} /\ 0 \in Nat /\ TypeOK /\ CallInv
        BY <1>1
      <4>3. cb' \in [End -> Seq(Continuation)] /\ \A y \in End \ {e} : cb'[y] = cb[y]
        BY <4>1, <4>2, PushStep
      <4>4. CallInv' /\ ~Writing(e)'
        BY <4>1, <4>2, <1>5, <2>1, <2>2, <2>15, <2>16, <2>17, CallPush
      <4>5. ASSUME NEW x \in Ids \ {id} PROVE CallsSame(Reader(x), x)
        <5>1. Reader(x) \in End /\ x \in Ids /\ x # id
          BY <1>1, StreamTypes
        <5>. QED BY <4>1, <4>2, <5>1, CallsPush
      <4>. QED BY <4>3, <4>4, <4>5
    <3>. QED BY <3>1, <3>2
  <2>19. ReaderStep(e, id)
    BY <1>5, <2>1, <2>11, <2>12, <2>13, <2>14, <2>15, <2>18 DEF ReaderStep
  <2>20. CountOf(id)'
    <3>1. hh.at + hh.last = hh.got
      <4>1. CASE s.paused
        BY <4>1, <2>13, <1>1 DEF CountInv
      <4>2. CASE ~s.paused
        BY <4>2, <2>3, <2>4, <2>6, <2>13
      <4>. QED BY <4>1, <4>2
    <3>2. hh.got <= hh.rcvd
      BY <2>2, <2>3, <2>5, <2>6, <2>13
    <3>3. ~(hh.fins > 0)
      BY <1>1, <2>9, <2>13 DEF CountInv
    <3>4. hh.granted <= hh.rcvd /\ hh.rcvd <= hh.sent /\ hh.credited <= hh.granted
      BY <2>2, <2>3, <2>4, <2>5, <2>13
    <3>5. hh.sent <= Window[Opener(id)] + hh.credited
      BY <1>1, <2>13 DEF CountInv
    <3>. QED BY <3>1, <3>2, <3>3, <3>4, <3>5, <2>14 DEF CountOf
  <2>21. ReaderOf(id)'
    <3>1. r.outst = hh.rcvd - hh.granted
      BY <2>3, <2>6, <2>12, <2>13
    <3>2. CASE s.paused
      <4>1. cb' = cb
        BY <3>2, <2>11
      <4>2. r.outst = r.pend + r.rxlen /\ hh.got = hh.rcvd - r.rxlen /\ r.paused
        BY <3>2, <2>3, <2>6, <2>12, <2>13
      <4>3. rx'[id] = r /\ hist'[id] = hh
        BY <2>14
      <4>. QED BY <3>1, <4>1, <4>2, <4>3, <1>5, <2>15 DEF ReaderOf
    <3>3. CASE ~s.paused
      <4>1. r.rxlen = 0 /\ r.outst = r.pend + n /\ hh.got = hh.rcvd
        BY <3>3, <2>3, <2>6, <2>12, <2>13
      <4>2. Push(e, "data", id, n, 0) /\ "data" \in {"write", "data", "resume"} /\ 0 \in Nat /\ TypeOK
        BY <3>3, <1>1, <2>11
      <4>3. /\ Len(cb'[e]) = 1 /\ cb'[e][1] = [k |-> "data", id |-> id, n |-> n, a |-> 0]
        <5>1. /\ Len(cb'[e]) = Len(cb[e]) + 1
              /\ cb'[e][Len(cb'[e])] = [k |-> "data", id |-> id, n |-> n, a |-> 0]
          BY <4>2, PushStep
        <5>2. Len(cb'[e]) = 1
          BY <5>1, <2>15
        <5>. QED BY <5>1, <5>2
      <4>4. InCall(e, "data", id)'
        BY <4>3 DEF InCall
      <4>5. hh.got = hh.rcvd - r.rxlen
        BY <4>1, <2>3, <2>13
      <4>6. rx'[id] = r /\ hist'[id] = hh
        BY <2>14
      <4>7. \A i \in 1 .. Len(cb'[e]) : cb'[e][i].k = "data" /\ cb'[e][i].n = n
        BY <4>3
      <4>8. /\ rx'[id].outst = hist'[id].rcvd - hist'[id].granted
            /\ hist'[id].got = hist'[id].rcvd - rx'[id].rxlen /\ rx'[id].rxlen = 0
            /\ rx'[id].outst = rx'[id].pend + n
        BY <3>1, <4>1, <4>5, <4>6
      <4>9. ~(rx'[id].rxlen > 0)
        BY <4>8
      <4>. QED BY <4>4, <4>7, <4>8, <4>9, <1>5 DEF ReaderOf
    <3>. QED BY <3>2, <3>3
  <2>22. LocalInv'
    BY <1>1, <2>18, <2>19, <2>20, <2>21, ReaderLocal
  <2> DEFINE f == Mk("GOAWAY", 0, 0, 0)
  <2>23. f \in Frame
    BY MkFrame DEF FrameTypes
  <2> HIDE DEF f
  <2>24. /\ ChanStep(e, f) /\ AccOK' /\ chan'[e] = chan[e] /\ chan'[p] = Tail(chan[p])
         /\ Len(chan[p]) > 0
    BY <1>1, <1>3, <2>11, <2>23, ConsumeStep
  <2>25. TypeOK' /\ NoProtocolError'
    BY <1>1, <2>11, <2>14, <2>18, <2>24 DEF TypeOK, AccOK, ChanStep, NoProtocolError
  <2>26. \A x \in Ids : rx'[x].st = rx[x].st /\ rx'[x].fin = rx[x].fin /\ rx'[x].rst = rx[x].rst
    BY <2>1, <2>12, <2>14
  <2>27. \A x \in Ids : /\ hist'[x].sent = hist[x].sent /\ hist'[x].credited = hist[x].credited
                        /\ hist'[x].granted = hist[x].granted
    BY <2>13, <2>14
  <2>28. FramesInv'
    BY <1>1, <2>11, <2>23, <2>24, FramesKeep
  <2>29. OpenInv'
    BY <1>1, <1>3, <2>11, <2>23, <2>24, <2>26, OpenKeep
  <2>30. EofInv'
    BY <1>1, <2>11, <2>23, <2>24, <2>26, EofKeep
  <2>31. CreditInv'
    BY <1>1, <1>3, <2>11, <2>23, <2>24, <2>27, CreditKeep
  <2>32. DataInv'
    <3>1. /\ Head(chan[Peer(e)]).t = "DATA" /\ Head(chan[Peer(e)]).id = id
          /\ hist'[id].rcvd = hist[id].rcvd + Head(chan[Peer(e)]).n
      BY <1>3, <1>4, <2>2, <2>13, <2>14
    <3>2. rx[id].st # "gone" /\ \A x \in Ids \ {id} : hist'[x].rcvd = hist[x].rcvd
      BY <2>1, <2>14
    <3>. QED BY <3>1, <3>2, <1>1, <1>5, <2>1, <2>23, <2>24, <2>26, <2>27, DataShrink
  <2>. QED BY <2>22, <2>25, <2>28, <2>29, <2>30, <2>31, <2>32 DEF IInv, LocalInv
<1>. QED BY <1>6, <1>7

\* A step of the reader that takes no DATA: it may take an EOF from the peer's
\* queue, and may credit bytes with a WINDOW frame f.
GrantStep(e, id, f) ==
  /\ ReaderStep(e, id) /\ ChanStep(e, f) /\ AccOK'
  /\ cb' \in [End -> Seq(Continuation)]
  /\ chan'[Peer(e)] = chan[Peer(e)] \/ Head(chan[Peer(e)]).t = "EOF"
  /\ hist'[id].rcvd = hist[id].rcvd
  /\ \/ chan'[e] = chan[e] /\ hist'[id].granted = hist[id].granted
     \/ /\ chan'[e] = Append(chan[e], f)
        /\ f.t = "WINDOW" /\ f.id = id /\ f.off = hist[id].granted /\ f.n > 0
        /\ hist'[id].granted = hist[id].granted + f.n

LEMMA GrantChan ==
  ASSUME TypeOK, NoProtocolError, ChanInv, NEW e \in End, NEW id \in Ids, NEW f \in Frame, GrantStep(e, id, f)
  PROVE  /\ TypeOK' /\ NoProtocolError' /\ FramesInv' /\ OpenInv' /\ DataInv' /\ CreditInv'
         /\ rx'[id].fin = rx[id].fin => EofInv'
<1>1. /\ FramesInv /\ OpenInv /\ EofInv /\ DataInv /\ CreditInv
      /\ ReaderStep(e, id) /\ ChanStep(e, f) /\ AccOK'
      /\ tx' = tx /\ nextId' = nextId
  BY DEF ChanInv, GrantStep, ReaderStep
<1>2. TypeOK' /\ NoProtocolError'
  BY <1>1 DEF TypeOK, NoProtocolError, GrantStep, ReaderStep, ChanStep, AccOK
<1>3. /\ rx'[id].st = rx[id].st /\ rx'[id].rst = rx[id].rst
      /\ \A x \in Ids \ {id} : rx'[x] = rx[x] /\ hist'[x] = hist[x]
      /\ hist'[id].sent = hist[id].sent /\ hist'[id].credited = hist[id].credited
      /\ hist'[id].rcvd = hist[id].rcvd
      /\ Opener(id) # e /\ tx[id].st # "none"
  BY DEF GrantStep, ReaderStep
<1>4. \A x \in Ids : /\ rx'[x].st = rx[x].st /\ rx'[x].rst = rx[x].rst
                     /\ hist'[x].sent = hist[x].sent /\ hist'[x].credited = hist[x].credited
                     /\ hist'[x].rcvd = hist[x].rcvd
  BY <1>3
<1>5. chan'[Peer(e)] = chan[Peer(e)] \/ Head(chan[Peer(e)]).t = "EOF"
  BY DEF GrantStep
<1>6. CASE chan'[e] = chan[e] /\ hist'[id].granted = hist[id].granted
  <2>1. \A x \in Ids : hist'[x].granted = hist[x].granted
    BY <1>3, <1>6
  <2>2. FramesInv'
    BY <1>1, <1>6, FramesKeep
  <2>3. OpenInv'
    BY <1>1, <1>4, <1>5, <1>6, OpenKeep
  <2>4. DataInv'
    BY <1>1, <1>4, <1>5, <1>6, DataKeep
  <2>5. CreditInv'
    BY <1>1, <1>4, <1>5, <1>6, <2>1, CreditKeep
  <2>6. ASSUME rx'[id].fin = rx[id].fin PROVE EofInv'
    <3>1. \A x \in Ids : tx'[x].fin = tx[x].fin /\ rx'[x].fin = rx[x].fin
      BY <1>1, <1>3, <2>6
    <3>. QED BY <3>1, <1>1, <1>6, EofKeep
  <2>. QED BY <1>2, <2>2, <2>3, <2>4, <2>5, <2>6
<1>7. CASE /\ chan'[e] = Append(chan[e], f)
           /\ f.t = "WINDOW" /\ f.id = id /\ f.off = hist[id].granted /\ f.n > 0
           /\ hist'[id].granted = hist[id].granted + f.n
  <2>1. FrameOK(e, f)'
    BY <1>1, <1>3, <1>7 DEF FrameOK
  <2>2. FramesInv'
    BY <1>1, <2>1, FramesKeep
  <2>3. OpenInv'
    BY <1>1, <1>4, <1>5, <1>7, OpenKeep
  <2>4. DataInv'
    BY <1>1, <1>4, <1>5, <1>7, DataKeep
  <2>5. CreditInv'
    BY <1>1, <1>3, <1>4, <1>5, <1>7, CreditGrow
  <2>6. ASSUME rx'[id].fin = rx[id].fin PROVE EofInv'
    <3>1. \A x \in Ids : tx'[x].fin = tx[x].fin /\ rx'[x].fin = rx[x].fin
      BY <1>1, <1>3, <2>6
    <3>. QED BY <3>1, <1>1, <1>7, EofKeep
  <2>. QED BY <1>2, <2>2, <2>3, <2>4, <2>5, <2>6
<1>. QED BY <1>6, <1>7 DEF GrantStep

\* Such a step in all.
LEMMA GrantAll ==
  ASSUME IInv, NEW e \in End, NEW id \in Ids, NEW f \in Frame, GrantStep(e, id, f),
         rx'[id].fin = rx[id].fin \/ EofInv',
         CountOf(id)', ReaderOf(id)', CallInv',
         \A x \in Ids \ {id} : CallsSame(Reader(x), x)
  PROVE  IInv'
<1>1. TypeOK /\ NoProtocolError /\ ChanInv /\ LocalInv /\ ReaderStep(e, id)
  BY Parts DEF GrantStep
<1>2. LocalInv'
  BY <1>1, ReaderLocal
<1>3. TypeOK' /\ NoProtocolError' /\ FramesInv' /\ OpenInv' /\ DataInv' /\ CreditInv' /\ EofInv'
  BY <1>1, GrantChan
<1>. QED BY <1>2, <1>3 DEF IInv, LocalInv

\* A credit of n bytes out of what is outstanding.
LEMMA CreditArith ==
  ASSUME NEW outst \in Nat, NEW n \in Nat, n <= outst
  PROVE  Sub32(outst, n) = outst - n /\ outst - n \in Nat
  BY DEF Sub32

\* Once EOF is all that is left to come, or has come, every byte has arrived.
LEMMA AllArrived ==
  ASSUME IInv, NEW id \in Ids, rx[id].st = "live", ~rx[id].rst, ~Has(chan[Opener(id)], "DATA", id)
  PROVE  hist[id].rcvd = hist[id].sent
<1>1. TypeOK /\ DataInv
  BY DEF IInv
<1>2. Chain(chan[Opener(id)], "DATA", id, hist[id].rcvd, hist[id].sent)
  BY <1>1 DEF DataInv
<1>3. chan[Opener(id)] \in Seq(Frame) /\ hist[id].rcvd \in Nat /\ hist[id].sent \in Nat
  BY <1>1, StreamTypes DEF TypeOK
<1>. QED BY <1>2, <1>3, ChainNone

\* The frame of a credit.
LEMMA CreditFrameIs ==
  ASSUME TypeOK, NEW id \in Ids, NEW n \in Nat, NEW f, f = CreditFrame(id, n)
  PROVE  f \in Frame /\ f.t = "WINDOW" /\ f.id = id /\ f.off = hist[id].granted /\ f.n = n
<1>1. id \in Nat /\ hist[id].granted \in Nat
  BY StreamTypes
<1>. QED BY <1>1 DEF CreditFrame, Mk, Frame, FrameTypes

\* The DATA callback at the top of the stack is the only call about its stream.
LEMMA CallbackTop ==
  ASSUME TypeOK, CallInv, NEW e \in End, ~Idle(e), Top(e).k \in {"data", "resume"}, Pop(e),
         NEW id \in Ids, id = Top(e).id
  PROVE  /\ Opener(id) # e /\ rx[id].st # "none" /\ Top(e).n \in Nat /\ Top(e).n > 0
         /\ Reader(id) = e
         /\ Len(cb[e]) \in 1 .. Len(cb[e]) /\ Top(e) = cb[e][Len(cb[e])]
         /\ ~Writing(e) /\ ~Writing(e)'
         /\ InCall(e, Top(e).k, id)
         /\ \A k \in {"data", "resume"} : k # Top(e).k => ~InCall(e, k, id)
         /\ \A k : ~InCall(e, k, id)'
         /\ \A i \in 1 .. Len(cb'[e]) : cb'[e][i].id # id
<1>1. /\ cb' \in [End -> Seq(Continuation)]
      /\ Len(cb[e]) \in Nat /\ Len(cb[e]) > 0 /\ Len(cb'[e]) = Len(cb[e]) - 1
      /\ \A i \in 1 .. Len(cb[e]) - 1 : cb'[e][i] = cb[e][i]
  BY PopStep
<1>2. Len(cb[e]) \in 1 .. Len(cb[e]) /\ Top(e) = cb[e][Len(cb[e])]
  BY <1>1 DEF Top
<1>3. Top(e).n \in Nat /\ Top(e).k # "write"
  BY <1>2, CallTypes
<1>4. Opener(id) # e /\ rx[id].st # "none" /\ Top(e).n > 0
  BY <1>2, <1>3 DEF CallInv
<1>5. Reader(id) = e
  BY <1>4, StreamTypes, Ends
<1>6. \A i \in 1 .. Len(cb[e]) : cb[e][i].k = "write" => i = Len(cb[e])
  BY DEF CallInv
<1>7. \A i \in 1 .. Len(cb[e]) : i # Len(cb[e]) => cb[e][i].id # id
  BY <1>2, <1>3, <1>6 DEF CallInv
<1>8. \A i \in 1 .. Len(cb'[e]) : cb'[e][i].id # id /\ cb'[e][i].k # "write"
  BY <1>1, <1>3, <1>6, <1>7
<1>9. \A k : ~InCall(e, k, id)'
  BY <1>8 DEF InCall
<1>10. InCall(e, Top(e).k, id)
  BY <1>2 DEF InCall
<1>11. ASSUME NEW k \in {"data", "resume"}, k # Top(e).k PROVE ~InCall(e, k, id)
  BY <1>2, <1>7, <1>11 DEF InCall
<1>12. ~Writing(e)
  BY <1>3 DEF Writing
<1>13. ~Writing(e)'
  <2>1. SUFFICES ASSUME Writing(e)' PROVE FALSE
    OBVIOUS
  <2>2. Len(cb'[e]) \in 1 .. Len(cb'[e]) /\ cb'[e][Len(cb'[e])].k = "write"
    BY <2>1, <1>1 DEF Writing, Idle, Top
  <2>. QED BY <2>2, <1>8
<1>. QED BY <1>2, <1>3, <1>4, <1>5, <1>8, <1>9, <1>10, <1>11, <1>12, <1>13

\* The callback of a stream that was shut meanwhile returns, and nothing else happens.
LEMMA DeadReturn ==
  ASSUME IInv, NEW e \in End, ~Idle(e), Top(e).k \in {"data", "resume"}, Pop(e),
         rx[Top(e).id].st # "live" \/ rx[Top(e).id].rst,
         UNCHANGED <<chan, acc, tx, rx, nextId, err, closing, goaway, hist>>
  PROVE  IInv'
<1>1. TypeOK /\ NoProtocolError /\ ChanInv /\ LocalInv /\ CallInv /\ WriterInv /\ ReaderInv
  BY Parts DEF IInv
<1>2. PICK id \in Ids : id = Top(e).id
  <2>1. Len(cb[e]) \in 1 .. Len(cb[e]) /\ Top(e) = cb[e][Len(cb[e])]
    BY <1>1, PopStep DEF Top
  <2>. QED BY <2>1, <1>1, CallTypes
<1>3. /\ ~Writing(e) /\ ~Writing(e)' /\ Reader(id) = e
  BY <1>1, <1>2, CallbackTop
<1>4. cb' \in [End -> Seq(Continuation)] /\ \A x \in End \ {e} : cb'[x] = cb[x]
  BY <1>1, PopStep
<1>5. TypeOK' /\ NoProtocolError' /\ ChanInv'
  BY <1>1, <1>4, ChanSame DEF TypeOK, NoProtocolError
<1>6. IdsInv' /\ FreshInv' /\ CountInv'
  BY <1>1 DEF LocalInv, IdsInv, FreshInv, CountInv
<1>7. CallInv'
  BY <1>1, CallPop
<1>8. WriterInv'
  <2> SUFFICES ASSUME NEW x \in Ids PROVE WriterOf(x)'
    BY WriterAll DEF WriterOf, WriterInv
  <2>1. Opener(x) \in End /\ WriterOf(x)
    BY <1>1, StreamTypes, WriterAll
  <2>2. CASE Opener(x) = e
    BY <2>1, <2>2, <1>3 DEF WriterOf
  <2>3. CASE Opener(x) # e
    <3>1. cb'[Opener(x)] = cb[Opener(x)]
      BY <2>1, <2>3, <1>4
    <3>. QED BY <3>1, <2>1 DEF WriterOf, Writing, Top, Idle
  <2>. QED BY <2>2, <2>3
<1>9. ReaderInv'
  <2> SUFFICES ASSUME NEW x \in Ids PROVE ReaderOf(x)'
    BY ReaderAll DEF ReaderOf, ReaderInv
  <2>1. CASE x = id
    BY <2>1, <1>2 DEF ReaderOf
  <2>2. CASE x # id
    <3>1. Reader(x) \in End /\ ReaderOf(x)
      BY <1>1, StreamTypes, ReaderAll
    <3>2. CallsSame(Reader(x), x)
      BY <2>2, <3>1, <1>1, <1>2, CallsPop
    <3>. QED BY <3>1, <3>2, ReaderKeep
  <2>. QED BY <2>1, <2>2
<1>. QED BY <1>5, <1>6, <1>7, <1>8, <1>9 DEF IInv, ChanInv

\* What is left of ReaderOf when no call about the stream is in progress.
LEMMA ReaderSettled ==
  ASSUME NEW id \in Ids, NEW r, NEW h, rx'[id] = r, hist'[id] = h,
         \A k : ~InCall(Reader(id), k, id)',
         \A i \in 1 .. Len(cb'[Reader(id)]) : cb'[Reader(id)][i].id # id,
         r.outst = h.rcvd - h.granted, r.outst = r.pend + r.rxlen,
         h.got = h.rcvd - r.rxlen, r.rxlen > 0 => r.paused
  PROVE  ReaderOf(id)'
  BY DEF ReaderOf

\* The channels of a step that enqueues nothing, or a credit.
GrantChannels(e, id, h, f) ==
  \/ UNCHANGED <<chan, acc>> /\ h.granted = hist[id].granted
  \/ /\ Enqueue(e, f)
     /\ f.t = "WINDOW" /\ f.id = id /\ f.off = hist[id].granted /\ f.n > 0
     /\ h.granted = hist[id].granted + f.n

LEMMA GrantChannelStep ==
  ASSUME TypeOK, NEW e \in End, NEW id \in Ids, NEW h, NEW f \in Frame, GrantChannels(e, id, h, f)
  PROVE  /\ ChanStep(e, f) /\ AccOK' /\ chan'[Peer(e)] = chan[Peer(e)]
         /\ \/ chan'[e] = chan[e] /\ h.granted = hist[id].granted
            \/ /\ chan'[e] = Append(chan[e], f)
               /\ f.t = "WINDOW" /\ f.id = id /\ f.off = hist[id].granted /\ f.n > 0
               /\ h.granted = hist[id].granted + f.n
<1>1. CASE UNCHANGED <<chan, acc>> /\ h.granted = hist[id].granted
  BY <1>1 DEF TypeOK, ChanStep, AccOK
<1>2. CASE ~(UNCHANGED <<chan, acc>> /\ h.granted = hist[id].granted)
  <2>1. /\ Enqueue(e, f)
        /\ f.t = "WINDOW" /\ f.id = id /\ f.off = hist[id].granted /\ f.n > 0
        /\ h.granted = hist[id].granted + f.n
    BY <1>2 DEF GrantChannels
  <2>2. /\ ChanStep(e, f) /\ AccOK'
        /\ chan'[e] = Append(chan[e], f) /\ chan'[Peer(e)] = chan[Peer(e)]
    BY <2>1, EnqueueStep
  <2>. QED BY <2>1, <2>2
<1>. QED BY <1>1, <1>2

\* The new record and history of a stream that was read or credited.
Settles(e, id, r, h) ==
  /\ Opener(id) # e /\ Reader(id) = e /\ rx[id].st = "live" /\ ~rx[id].rst
  /\ rx' = [rx EXCEPT ![id] = r] /\ hist' = [hist EXCEPT ![id] = h]
  /\ UNCHANGED <<tx, nextId, err, closing, goaway>>
  /\ r.st = "live" /\ ~r.rst
  /\ h.sent = hist[id].sent /\ h.rcvd = hist[id].rcvd /\ h.credited = hist[id].credited
  /\ h.at + h.last = h.got /\ h.got <= h.rcvd
  /\ h.granted >= hist[id].granted /\ h.granted <= h.rcvd
  /\ h.fins > 0 => r.fin /\ h.got = h.sent

\* The calls of a step about stream id.
CallsAbout(e, id) ==
  /\ cb' \in [End -> Seq(Continuation)] /\ CallInv'
  /\ ~Writing(e) /\ ~Writing(e)'
  /\ \A y \in End \ {e} : cb'[y] = cb[y]
  /\ \A x \in Ids \ {id} : CallsSame(Reader(x), x)

LEMMA Settle ==
  ASSUME IInv, NEW e \in End, NEW id \in Ids, NEW r \in RxStream, NEW h \in History,
         NEW f \in Frame, Settles(e, id, r, h), CallsAbout(e, id), ReaderOf(id)',
         ChanStep(e, f), AccOK',
         chan'[Peer(e)] = chan[Peer(e)] \/ Head(chan[Peer(e)]).t = "EOF",
         \/ chan'[e] = chan[e] /\ h.granted = hist[id].granted
         \/ /\ chan'[e] = Append(chan[e], f)
            /\ f.t = "WINDOW" /\ f.id = id /\ f.off = hist[id].granted /\ f.n > 0
            /\ h.granted = hist[id].granted + f.n,
         r.fin = rx[id].fin \/ EofInv'
  PROVE  IInv'
<1>1. TypeOK /\ CountInv /\ OpenInv
  BY DEF IInv
<1>2. /\ Opener(id) # e /\ rx[id].st = "live" /\ ~rx[id].rst
      /\ rx' = [rx EXCEPT ![id] = r] /\ hist' = [hist EXCEPT ![id] = h]
      /\ UNCHANGED <<tx, nextId, err, closing, goaway>>
      /\ r.st = "live" /\ ~r.rst
      /\ h.sent = hist[id].sent /\ h.rcvd = hist[id].rcvd /\ h.credited = hist[id].credited
      /\ h.at + h.last = h.got /\ h.got <= h.rcvd
      /\ h.granted >= hist[id].granted /\ h.granted <= h.rcvd
      /\ h.fins > 0 => r.fin /\ h.got = h.sent
  BY DEF Settles
<1>3. /\ rx' \in [Ids -> RxStream] /\ rx'[id] = r /\ \A x \in Ids \ {id} : rx'[x] = rx[x]
      /\ hist' \in [Ids -> History] /\ hist'[id] = h /\ \A x \in Ids \ {id} : hist'[x] = hist[x]
  BY <1>1, <1>2 DEF TypeOK
<1>4. r.rst = rx[id].rst
  BY <1>1, <1>2, StreamTypes DEF RxStream
<1>5. tx[id].st # "none"
  BY <1>1, <1>2 DEF OpenInv
<1>6. /\ cb' \in [End -> Seq(Continuation)] /\ CallInv'
      /\ ~Writing(e) /\ ~Writing(e)'
      /\ \A y \in End \ {e} : cb'[y] = cb[y]
      /\ \A x \in Ids \ {id} : CallsSame(Reader(x), x)
  BY DEF CallsAbout
<1>7. ReaderStep(e, id)
  BY <1>2, <1>3, <1>4, <1>5, <1>6 DEF ReaderStep
<1>8. GrantStep(e, id, f)
  BY <1>2, <1>3, <1>6, <1>7 DEF GrantStep
<1>9. CountOf(id)'
  <2>1. h.credited <= h.granted
    <3>1. hist[id].credited <= hist[id].granted /\ hist[id].credited \in Nat
          /\ hist[id].granted \in Nat /\ h.granted \in Nat
      BY <1>1, StreamTypes DEF CountInv, History
    <3>. QED BY <3>1, <1>2
  <2>2. h.rcvd <= h.sent /\ h.sent <= Window[Opener(id)] + h.credited
    BY <1>1, <1>2 DEF CountInv
  <2>. QED BY <2>1, <2>2, <1>2, <1>3 DEF CountOf
<1>10. rx'[id].fin = rx[id].fin \/ EofInv'
  BY <1>3
<1>. QED BY <1>6, <1>8, <1>9, <1>10, GrantAll

\* A DATA callback about stream id returns.
LEMMA CallbackReturns ==
  ASSUME TypeOK, CallInv, NEW e \in End, ~Idle(e), Top(e).k \in {"data", "resume"}, Pop(e),
         NEW id \in Ids, id = Top(e).id, tx' = tx,
         \A x \in Ids : rx[x].st # "none" => rx'[x].st # "none"
  PROVE  CallsAbout(e, id)
<1>1. CallInv'
  BY CallPop
<1>2. ~Writing(e) /\ ~Writing(e)'
  BY CallbackTop
<1>3. cb' \in [End -> Seq(Continuation)] /\ \A y \in End \ {e} : cb'[y] = cb[y]
  BY PopStep
<1>4. ASSUME NEW x \in Ids \ {id} PROVE CallsSame(Reader(x), x)
  <2>1. Reader(x) \in End /\ x \in Ids /\ x # Top(e).id
    BY StreamTypes
  <2>. QED BY <2>1, CallsPop
<1>. QED BY <1>1, <1>2, <1>3, <1>4 DEF CallsAbout

\* The credit threshold is a number.
LEMMA ThresholdNat ==
  ASSUME NEW e \in End
  PROVE  Threshold(e) \in Nat
  BY SessionAssumption DEF Threshold

\* A DATA callback returned: its bytes are consumed, and credited past the threshold.
LEMMA DataReturnStep ==
  ASSUME IInv, NEW e \in End, DataReturn(e)
  PROVE  IInv'
<1>1. TypeOK /\ CallInv /\ CountInv /\ ReaderInv /\ OpenInv
  BY DEF IInv
<1>2. /\ ~Idle(e) /\ Top(e).k = "data" /\ Pop(e)
      /\ UNCHANGED <<tx, nextId, err, closing, goaway>>
  BY DEF DataReturn
<1>3. PICK id \in Ids : id = Top(e).id
  <2>1. Len(cb[e]) \in 1 .. Len(cb[e]) /\ Top(e) = cb[e][Len(cb[e])]
    BY <1>1, <1>2, PopStep DEF Top
  <2>. QED BY <2>1, <1>1, CallTypes
<1>4. CASE rx[id].st # "live" \/ rx[id].rst
  <2>1. UNCHANGED <<rx, hist, chan, acc>>
    BY <1>3, <1>4 DEF DataReturn
  <2>2. Top(e).k \in {"data", "resume"}
    BY <1>2
  <2>3. rx[Top(e).id].st # "live" \/ rx[Top(e).id].rst
    BY <1>3, <1>4
  <2>. QED BY <2>1, <2>2, <2>3, <1>2, DeadReturn
<1>5. CASE rx[id].st = "live" /\ ~rx[id].rst
  <2>1. /\ Opener(id) # e /\ Top(e).n \in Nat /\ Top(e).n > 0 /\ Reader(id) = e
        /\ Len(cb[e]) \in 1 .. Len(cb[e]) /\ Top(e) = cb[e][Len(cb[e])]
        /\ ~Writing(e) /\ ~Writing(e)'
        /\ ~InCall(e, "resume", id) /\ (\A k : ~InCall(e, k, id)')
        /\ (\A i \in 1 .. Len(cb'[e]) : cb'[e][i].id # id)
    <3>1. Top(e).k \in {"data", "resume"} /\ "resume" \in {"data", "resume"} /\ "resume" # Top(e).k
      BY <1>2
    <3>. QED BY <3>1, <1>1, <1>2, <1>3, CallbackTop
  <2>2. PICK m \in Nat : m = Top(e).n /\ m > 0
    BY <2>1
  <2>3. /\ rx[id].outst = hist[id].rcvd - hist[id].granted
        /\ rx[id].rxlen = 0 /\ rx[id].outst = rx[id].pend + m
        /\ hist[id].got = hist[id].rcvd
    <3>1. rx[id].rxlen = 0 /\ rx[id].outst = rx[id].pend + m
      BY <1>1, <1>2, <1>3, <1>5, <2>1, <2>2 DEF ReaderInv
    <3>2. hist[id].got = hist[id].rcvd - rx[id].rxlen /\ rx[id].outst = hist[id].rcvd - hist[id].granted
      BY <1>1, <1>5, <2>1 DEF ReaderInv
    <3>3. hist[id].rcvd \in Nat
      BY <1>1, StreamTypes
    <3>. QED BY <3>1, <3>2, <3>3
  <2>4. /\ hist[id].sent \in Nat /\ hist[id].credited \in Nat /\ hist[id].granted \in Nat
        /\ hist[id].rcvd \in Nat /\ hist[id].got \in Nat
        /\ rx[id].outst \in Nat /\ rx[id].pend \in Nat
        /\ rx[id] \in RxStream /\ hist[id] \in History
    BY <1>1, StreamTypes
  <2>5. PICK n \in Nat : n = rx[id].pend + Top(e).n
    BY <2>1, <2>4
  <2>6. n > 0 /\ n = rx[id].outst
    BY <2>2, <2>3, <2>4, <2>5
  <2>7. Sub32(rx[id].outst, n) = 0
    BY <2>4, <2>6 DEF Sub32
  <2>8. PICK f : f = CreditFrame(id, n)
    OBVIOUS
  <2>9. f \in Frame /\ f.t = "WINDOW" /\ f.id = id /\ f.off = hist[id].granted /\ f.n = n
    BY <1>1, <2>8, CreditFrameIs
  <2>10. PICK r, h :
          /\ rx' = [rx EXCEPT ![id] = r] /\ hist' = [hist EXCEPT ![id] = h]
          /\ \/ /\ r = [rx[id] EXCEPT !.pend = n] /\ h = hist[id] /\ UNCHANGED <<chan, acc>>
             \/ /\ r = [rx[id] EXCEPT !.outst = Sub32(@, n), !.pend = 0]
                /\ h = [hist[id] EXCEPT !.granted = @ + n]
                /\ Enqueue(e, f)
    <3>0. Threshold(e) \in Nat
      BY ThresholdNat
    <3>1. CASE n < Threshold(e)
      <4>1. rx' = [rx EXCEPT ![id].pend = n] /\ UNCHANGED <<hist, chan, acc>>
        BY <3>0, <3>1, <1>3, <1>5, <2>4, <2>5 DEF DataReturn
      <4>2. hist' = [hist EXCEPT ![id] = hist[id]]
        BY <4>1, <1>1 DEF TypeOK
      <4>3. rx' = [rx EXCEPT ![id] = [rx[id] EXCEPT !.pend = n]]
        BY <4>1
      <4>. QED BY <4>1, <4>2, <4>3
    <3>2. CASE ~(n < Threshold(e))
      <4>1. /\ rx' = [rx EXCEPT ![id] = Credited(@, n)]
            /\ hist' = [hist EXCEPT ![id].granted = @ + n]
            /\ Enqueue(e, CreditFrame(id, n))
        BY <3>2, <1>3, <1>5, <2>4, <2>5 DEF DataReturn
      <4>2. rx' = [rx EXCEPT ![id] = [rx[id] EXCEPT !.outst = Sub32(@, n), !.pend = 0]]
        BY <4>1 DEF Credited
      <4>. QED BY <4>1, <4>2, <2>8
    <3>. QED BY <3>1, <3>2
  <2>11. hist[id].granted + n = hist[id].rcvd
    BY <2>3, <2>4, <2>6
  <2>12. hist[id].granted <= hist[id].rcvd /\ hist[id].got <= hist[id].rcvd
         /\ hist[id].at + hist[id].last = hist[id].got
         /\ (hist[id].fins > 0 => rx[id].fin /\ hist[id].got = hist[id].sent)
    BY <1>1 DEF CountInv
  <2>13. /\ r \in RxStream /\ h \in History /\ r.st = "live" /\ ~r.rst /\ r.fin = rx[id].fin
         /\ r.rxlen = 0 /\ r.outst = h.rcvd - h.granted /\ r.outst = r.pend
         /\ h.sent = hist[id].sent /\ h.rcvd = hist[id].rcvd /\ h.credited = hist[id].credited
         /\ h.got = hist[id].got /\ h.at = hist[id].at /\ h.last = hist[id].last /\ h.fins = hist[id].fins
         /\ h.granted >= hist[id].granted /\ h.granted <= h.rcvd
         /\ GrantChannels(e, id, h, f)
    <3>1. CASE r = [rx[id] EXCEPT !.pend = n] /\ h = hist[id] /\ UNCHANGED <<chan, acc>>
      <4>1. /\ r \in RxStream /\ r.st = rx[id].st /\ r.rst = rx[id].rst /\ r.fin = rx[id].fin
            /\ r.rxlen = rx[id].rxlen /\ r.outst = rx[id].outst /\ r.pend = n
        BY <3>1, <2>4 DEF RxStream
      <4>2. h \in History /\ h = hist[id] /\ hist[id].granted >= hist[id].granted
        BY <3>1, <2>4
      <4>3. GrantChannels(e, id, h, f)
        BY <3>1, <4>2 DEF GrantChannels
      <4>. QED BY <4>1, <4>2, <4>3, <1>5, <2>3, <2>6, <2>12
    <3>2. CASE /\ r = [rx[id] EXCEPT !.outst = Sub32(@, n), !.pend = 0]
               /\ h = [hist[id] EXCEPT !.granted = @ + n]
               /\ Enqueue(e, f)
      <4>1. r = [rx[id] EXCEPT !.outst = 0, !.pend = 0]
        BY <3>2, <2>7
      <4>2. /\ r \in RxStream /\ r.st = rx[id].st /\ r.rst = rx[id].rst /\ r.fin = rx[id].fin
            /\ r.rxlen = rx[id].rxlen /\ r.outst = 0 /\ r.pend = 0
        BY <4>1, <2>4 DEF RxStream
      <4>3. h = [hist[id] EXCEPT !.granted = hist[id].rcvd]
        BY <3>2, <2>11
      <4>4. /\ h \in History /\ h.granted = hist[id].rcvd
            /\ h.sent = hist[id].sent /\ h.rcvd = hist[id].rcvd /\ h.credited = hist[id].credited
            /\ h.got = hist[id].got /\ h.at = hist[id].at /\ h.last = hist[id].last /\ h.fins = hist[id].fins
        BY <4>3, <2>4 DEF History
      <4>5. GrantChannels(e, id, h, f)
        BY <3>2, <4>4, <2>6, <2>9, <2>11 DEF GrantChannels
      <4>6. 0 = h.rcvd - h.granted /\ h.granted >= hist[id].granted /\ h.granted <= h.rcvd
        BY <4>4, <2>4, <2>12
      <4>. QED BY <4>2, <4>4, <4>5, <4>6, <1>5, <2>3
    <3>. QED BY <3>1, <3>2, <2>10
  <2>14. Settles(e, id, r, h)
    BY <1>2, <1>5, <2>1, <2>10, <2>12, <2>13 DEF Settles
  <2>15. rx'[id] = r /\ hist'[id] = h /\ \A x \in Ids : rx[x].st # "none" => rx'[x].st # "none"
    BY <1>1, <2>10, <2>13 DEF TypeOK
  <2>16. CallsAbout(e, id)
    <3>1. Top(e).k \in {"data", "resume"}
      BY <1>2
    <3>. QED BY <3>1, <1>1, <1>2, <1>3, <2>15, CallbackReturns
  <2>17. ReaderOf(id)'
    <3>1. h.rcvd \in Nat /\ h.got = h.rcvd /\ r.pend \in Nat /\ r.rxlen = 0
      BY <2>3, <2>4, <2>13 DEF RxStream
    <3>2. r.outst = r.pend + r.rxlen /\ h.got = h.rcvd - r.rxlen /\ ~(r.rxlen > 0)
      BY <3>1, <2>13
    <3>. QED BY <3>2, <2>1, <2>13, <2>15, ReaderSettled
  <2>18. /\ ChanStep(e, f) /\ AccOK' /\ chan'[Peer(e)] = chan[Peer(e)]
         /\ \/ chan'[e] = chan[e] /\ h.granted = hist[id].granted
            \/ /\ chan'[e] = Append(chan[e], f)
               /\ f.t = "WINDOW" /\ f.id = id /\ f.off = hist[id].granted /\ f.n > 0
               /\ h.granted = hist[id].granted + f.n
    BY <1>1, <2>9, <2>13, GrantChannelStep
  <2>. QED BY <2>9, <2>13, <2>14, <2>16, <2>17, <2>18, Settle
<1>. QED BY <1>4, <1>5

\* The DATA callback of a resume returned: the held bytes are consumed, and an EOF
\* that waited behind them is delivered.
LEMMA ResumeReturnStep ==
  ASSUME IInv, NEW e \in End, ResumeReturn(e)
  PROVE  IInv'
<1>1. TypeOK /\ CallInv /\ CountInv /\ ReaderInv /\ OpenInv /\ EofInv
  BY DEF IInv
<1>2. /\ ~Idle(e) /\ Top(e).k = "resume" /\ Pop(e)
      /\ UNCHANGED <<tx, nextId, err, closing, goaway>>
  BY DEF ResumeReturn
<1>3. PICK id \in Ids : id = Top(e).id
  <2>1. Len(cb[e]) \in 1 .. Len(cb[e]) /\ Top(e) = cb[e][Len(cb[e])]
    BY <1>1, <1>2, PopStep DEF Top
  <2>. QED BY <2>1, <1>1, CallTypes
<1>4. CASE rx[id].st # "live" \/ rx[id].rst
  <2>1. UNCHANGED <<rx, hist, chan, acc>>
    BY <1>3, <1>4 DEF ResumeReturn
  <2>2. Top(e).k \in {"data", "resume"}
    BY <1>2
  <2>3. rx[Top(e).id].st # "live" \/ rx[Top(e).id].rst
    BY <1>3, <1>4
  <2>. QED BY <2>1, <2>2, <2>3, <1>2, DeadReturn
<1>5. CASE rx[id].st = "live" /\ ~rx[id].rst
  <2>1. /\ Opener(id) # e /\ Top(e).n \in Nat /\ Top(e).n > 0 /\ Reader(id) = e
        /\ Len(cb[e]) \in 1 .. Len(cb[e]) /\ Top(e) = cb[e][Len(cb[e])]
        /\ ~Writing(e) /\ ~Writing(e)'
        /\ ~InCall(e, "data", id) /\ (\A k : ~InCall(e, k, id)')
        /\ (\A i \in 1 .. Len(cb'[e]) : cb'[e][i].id # id)
    <3>1. Top(e).k \in {"data", "resume"} /\ "data" \in {"data", "resume"} /\ "data" # Top(e).k
      BY <1>2
    <3>. QED BY <3>1, <1>1, <1>2, <1>3, CallbackTop
  <2>2. PICK m \in Nat : m = Top(e).n /\ m > 0
    BY <2>1
  <2>3. /\ rx[id].outst = hist[id].rcvd - hist[id].granted
        /\ rx[id].rxlen = m /\ rx[id].outst = rx[id].pend + m
        /\ hist[id].got = hist[id].rcvd
    <3>1. rx[id].rxlen = m /\ hist[id].got = hist[id].rcvd
      BY <1>1, <1>2, <1>3, <1>5, <2>1, <2>2 DEF ReaderInv
    <3>2. rx[id].outst = rx[id].pend + rx[id].rxlen /\ rx[id].outst = hist[id].rcvd - hist[id].granted
      BY <1>1, <1>5, <2>1 DEF ReaderInv
    <3>. QED BY <3>1, <3>2
  <2>4. /\ hist[id].sent \in Nat /\ hist[id].credited \in Nat /\ hist[id].granted \in Nat
        /\ hist[id].rcvd \in Nat /\ hist[id].got \in Nat
        /\ rx[id].outst \in Nat /\ rx[id].pend \in Nat
        /\ rx[id] \in RxStream /\ hist[id] \in History /\ hist[id].fins \in 0 .. 2
    BY <1>1, StreamTypes DEF History
  <2>5. PICK n \in Nat : n = rx[id].pend + Top(e).n
    BY <2>1, <2>4
  <2>6. n > 0 /\ n = rx[id].outst
    BY <2>2, <2>3, <2>4, <2>5
  <2>7. Sub32(rx[id].outst, n) = 0
    BY <2>4, <2>6 DEF Sub32
  <2>8. PICK f : f = CreditFrame(id, n)
    OBVIOUS
  <2>9. f \in Frame /\ f.t = "WINDOW" /\ f.id = id /\ f.off = hist[id].granted /\ f.n = n
    BY <1>1, <2>8, CreditFrameIs
  <2>10. PICK q \in 0 .. 2 : q = IF hist[id].fins < 2 THEN hist[id].fins + 1 ELSE 2
    BY <2>4
  <2>11. Finished(hist[id]) = [hist[id] EXCEPT !.fins = q]
    BY <2>10 DEF Finished
  <2>12. rx[id].fin => hist[id].rcvd = hist[id].sent
    BY <1>1, <1>5, AllArrived DEF EofInv
  <2>13. PICK r, h :
          /\ rx' = [rx EXCEPT ![id] = r] /\ hist' = [hist EXCEPT ![id] = h]
          /\ \/ /\ r = [rx[id] EXCEPT !.rxlen = 0, !.pend = n]
                /\ h = hist[id] /\ UNCHANGED <<chan, acc>>
             \/ /\ r = [rx[id] EXCEPT !.rxlen = 0, !.outst = Sub32(@, n), !.pend = 0]
                /\ \/ ~rx[id].fin /\ h = [hist[id] EXCEPT !.granted = @ + n]
                   \/ rx[id].fin /\ h = [hist[id] EXCEPT !.fins = q, !.granted = @ + n]
                /\ Enqueue(e, f)
    <3>0. Threshold(e) \in Nat
      BY ThresholdNat
    <3>1. [rx[id] EXCEPT !.rxlen = 0].fin = rx[id].fin /\ rx[id].fin \in BOOLEAN
      BY <2>4 DEF RxStream
    <3>2. CASE n < Threshold(e) /\ ~rx[id].fin
      <4>1. rx' = [rx EXCEPT ![id] = [[rx[id] EXCEPT !.rxlen = 0] EXCEPT !.pend = n]]
            /\ UNCHANGED <<hist, chan, acc>>
        BY <3>0, <3>1, <3>2, <1>3, <1>5, <2>4, <2>5 DEF ResumeReturn
      <4>2. hist' = [hist EXCEPT ![id] = hist[id]]
        BY <4>1, <1>1 DEF TypeOK
      <4>. QED BY <4>1, <4>2
    <3>3. CASE ~(n < Threshold(e) /\ ~rx[id].fin)
      <4>0. PICK hh : hh = IF rx[id].fin THEN Finished(hist[id]) ELSE hist[id]
        OBVIOUS
      <4>1. /\ rx' = [rx EXCEPT ![id] = Credited([rx[id] EXCEPT !.rxlen = 0], n)]
            /\ hist' = [hist EXCEPT ![id] = [hh EXCEPT !.granted = @ + n]]
            /\ Enqueue(e, CreditFrame(id, n))
        BY <3>0, <3>1, <3>3, <1>3, <1>5, <2>4, <2>5, <4>0 DEF ResumeReturn
      <4>2. rx' = [rx EXCEPT ![id] = [rx[id] EXCEPT !.rxlen = 0, !.outst = Sub32(@, n), !.pend = 0]]
        BY <4>1 DEF Credited
      <4>3. CASE rx[id].fin
        <5>0. hh = [hist[id] EXCEPT !.fins = q]
          BY <4>0, <4>3, <2>11
        <5>1. hist' = [hist EXCEPT ![id] = [hist[id] EXCEPT !.fins = q, !.granted = @ + n]]
          BY <4>1, <5>0
        <5>. QED BY <5>1, <4>1, <4>2, <4>3, <2>8
      <4>4. CASE ~rx[id].fin
        <5>1. hist' = [hist EXCEPT ![id] = [hist[id] EXCEPT !.granted = @ + n]]
          BY <4>0, <4>1, <4>4
        <5>. QED BY <5>1, <4>1, <4>2, <4>4, <2>8
      <4>. QED BY <4>3, <4>4
    <3>. QED BY <3>2, <3>3
  <2>14. hist[id].granted + n = hist[id].rcvd
    BY <2>3, <2>4, <2>6
  <2>15. hist[id].granted <= hist[id].rcvd /\ hist[id].got <= hist[id].rcvd
         /\ hist[id].at + hist[id].last = hist[id].got
         /\ (hist[id].fins > 0 => rx[id].fin /\ hist[id].got = hist[id].sent)
    BY <1>1 DEF CountInv
  <2>16. /\ r \in RxStream /\ h \in History /\ r.st = "live" /\ ~r.rst /\ r.fin = rx[id].fin
         /\ r.rxlen = 0 /\ r.outst = h.rcvd - h.granted /\ r.outst = r.pend
         /\ h.sent = hist[id].sent /\ h.rcvd = hist[id].rcvd /\ h.credited = hist[id].credited
         /\ h.got = hist[id].got /\ h.at = hist[id].at /\ h.last = hist[id].last
         /\ (h.fins > 0 => r.fin /\ h.got = h.sent)
         /\ h.granted >= hist[id].granted /\ h.granted <= h.rcvd
         /\ GrantChannels(e, id, h, f)
    <3>1. CASE r = [rx[id] EXCEPT !.rxlen = 0, !.pend = n] /\ h = hist[id] /\ UNCHANGED <<chan, acc>>
      <4>1. /\ r \in RxStream /\ r.st = rx[id].st /\ r.rst = rx[id].rst /\ r.fin = rx[id].fin
            /\ r.rxlen = 0 /\ r.outst = rx[id].outst /\ r.pend = n
        BY <3>1, <2>4 DEF RxStream
      <4>2. h \in History /\ h = hist[id] /\ hist[id].granted >= hist[id].granted
        BY <3>1, <2>4
      <4>3. GrantChannels(e, id, h, f)
        BY <3>1, <4>2 DEF GrantChannels
      <4>. QED BY <4>1, <4>2, <4>3, <1>5, <2>3, <2>6, <2>15
    <3>2. CASE /\ r = [rx[id] EXCEPT !.rxlen = 0, !.outst = Sub32(@, n), !.pend = 0]
               /\ \/ ~rx[id].fin /\ h = [hist[id] EXCEPT !.granted = @ + n]
                  \/ rx[id].fin /\ h = [hist[id] EXCEPT !.fins = q, !.granted = @ + n]
               /\ Enqueue(e, f)
      <4>1. r = [rx[id] EXCEPT !.rxlen = 0, !.outst = 0, !.pend = 0]
        BY <3>2, <2>7
      <4>2. /\ r \in RxStream /\ r.st = rx[id].st /\ r.rst = rx[id].rst /\ r.fin = rx[id].fin
            /\ r.rxlen = 0 /\ r.outst = 0 /\ r.pend = 0
        BY <4>1, <2>4 DEF RxStream
      <4>3. /\ h \in History /\ h.granted = hist[id].rcvd
            /\ h.sent = hist[id].sent /\ h.rcvd = hist[id].rcvd /\ h.credited = hist[id].credited
            /\ h.got = hist[id].got /\ h.at = hist[id].at /\ h.last = hist[id].last
            /\ (h.fins = hist[id].fins \/ rx[id].fin)
        <5>1. CASE h = [hist[id] EXCEPT !.granted = @ + n]
          <6>1. h = [hist[id] EXCEPT !.granted = hist[id].rcvd]
            BY <5>1, <2>14
          <6>. QED BY <6>1, <2>4 DEF History
        <5>2. CASE rx[id].fin /\ h = [hist[id] EXCEPT !.fins = q, !.granted = @ + n]
          <6>1. h = [hist[id] EXCEPT !.fins = q, !.granted = hist[id].rcvd]
            BY <5>2, <2>14
          <6>. QED BY <6>1, <5>2, <2>4, <2>10 DEF History
        <5>. QED BY <5>1, <5>2, <3>2
      <4>4. GrantChannels(e, id, h, f)
        BY <3>2, <4>3, <2>6, <2>9, <2>14 DEF GrantChannels
      <4>5. 0 = h.rcvd - h.granted /\ h.granted >= hist[id].granted /\ h.granted <= h.rcvd
        BY <4>3, <2>4, <2>15
      <4>6. h.fins > 0 => r.fin /\ h.got = h.sent
        BY <4>2, <4>3, <2>3, <2>12, <2>15
      <4>. QED BY <4>2, <4>3, <4>4, <4>5, <4>6, <1>5, <2>3
    <3>. QED BY <3>1, <3>2, <2>13
  <2>17. Settles(e, id, r, h)
    BY <1>2, <1>5, <2>1, <2>13, <2>15, <2>16 DEF Settles
  <2>18. rx'[id] = r /\ hist'[id] = h /\ \A x \in Ids : rx[x].st # "none" => rx'[x].st # "none"
    BY <1>1, <2>13, <2>16 DEF TypeOK
  <2>19. CallsAbout(e, id)
    <3>1. Top(e).k \in {"data", "resume"}
      BY <1>2
    <3>. QED BY <3>1, <1>1, <1>2, <1>3, <2>18, CallbackReturns
  <2>20. ReaderOf(id)'
    <3>1. h.rcvd \in Nat /\ h.got = h.rcvd /\ r.pend \in Nat /\ r.rxlen = 0
      BY <2>3, <2>4, <2>16 DEF RxStream
    <3>2. r.outst = r.pend + r.rxlen /\ h.got = h.rcvd - r.rxlen /\ ~(r.rxlen > 0)
      BY <3>1, <2>16
    <3>. QED BY <3>2, <2>1, <2>16, <2>18, ReaderSettled
  <2>21. /\ ChanStep(e, f) /\ AccOK' /\ chan'[Peer(e)] = chan[Peer(e)]
         /\ \/ chan'[e] = chan[e] /\ h.granted = hist[id].granted
            \/ /\ chan'[e] = Append(chan[e], f)
               /\ f.t = "WINDOW" /\ f.id = id /\ f.off = hist[id].granted /\ f.n > 0
               /\ h.granted = hist[id].granted + f.n
    BY <1>1, <2>9, <2>16, GrantChannelStep
  <2>. QED BY <2>9, <2>16, <2>17, <2>19, <2>20, <2>21, Settle
<1>. QED BY <1>4, <1>5

\* The reader takes the EOF of stream id off the queue.
LEMMA EofTaken ==
  ASSUME TypeOK, EofInv, NEW e \in End, NEW id \in Ids, NEW f \in Frame, ChanStep(e, f),
         Opener(id) = Peer(e), Len(chan[Peer(e)]) > 0, chan'[Peer(e)] = Tail(chan[Peer(e)]),
         Head(chan[Peer(e)]).t = "EOF", Head(chan[Peer(e)]).id = id,
         chan'[e] = chan[e] \/ (chan'[e] = Append(chan[e], f) /\ f.t = "WINDOW"),
         tx' = tx, \A x \in Ids \ {id} : rx'[x] = rx[x]
  PROVE  EofInv'
<1> DEFINE p == Peer(e)
<1>1. /\ p \in End /\ p # e /\ chan[p] \in Seq(Frame) /\ chan[e] \in Seq(Frame)
  BY Ends DEF TypeOK
<1>2. Has(chan[p], "EOF", id) /\ ~Has(chan'[p], "EOF", id) /\ ~Has(chan'[p], "DATA", id)
  BY <1>1, HasTail, OrderTail DEF EofInv
<1>3. tx[id].fin
  BY <1>2 DEF EofInv
<1> SUFFICES ASSUME NEW x \in Ids
             PROVE  /\ ~tx'[x].fin => ~rx'[x].fin /\ ~Has(chan'[Opener(x)], "EOF", x)
                    /\ rx'[x].fin => /\ ~Has(chan'[Opener(x)], "EOF", x)
                                     /\ ~Has(chan'[Opener(x)], "DATA", x)
                    /\ EofLast(chan'[Opener(x)], x)
  BY DEF EofInv
<1>4. /\ ~tx[x].fin => ~rx[x].fin /\ ~Has(chan[Opener(x)], "EOF", x)
      /\ rx[x].fin => ~Has(chan[Opener(x)], "EOF", x) /\ ~Has(chan[Opener(x)], "DATA", x)
      /\ EofLast(chan[Opener(x)], x)
      /\ (Opener(x) = p \/ Opener(x) = e)
  BY Ends DEF EofInv, Ids
<1>5. CASE x = id
  <2>1. EofLast(chan'[p], id)
    BY <1>1, <1>4, <1>5, OrderTail
  <2>. QED BY <2>1, <1>2, <1>3, <1>5
<1>6. CASE x # id /\ Opener(x) = p
  <2>1. /\ Has(chan'[p], "EOF", x) => Has(chan[p], "EOF", x)
        /\ Has(chan'[p], "DATA", x) => Has(chan[p], "DATA", x)
        /\ EofLast(chan'[p], x)
    BY <1>1, <1>4, <1>6, HasTail, OrderTail
  <2>. QED BY <2>1, <1>4, <1>6
<1>7. CASE x # id /\ Opener(x) = e
  <2>1. /\ Has(chan'[e], "EOF", x) => Has(chan[e], "EOF", x)
        /\ Has(chan'[e], "DATA", x) => Has(chan[e], "DATA", x)
        /\ EofLast(chan'[e], x)
    <3>1. EofLast(chan[e], x)
      BY <1>4, <1>7
    <3>2. CASE chan'[e] = chan[e]
      BY <3>1, <3>2
    <3>3. CASE chan'[e] = Append(chan[e], f) /\ f.t = "WINDOW"
      BY <1>1, <3>1, <3>3, HasAppend, OrderAppend
    <3>. QED BY <3>2, <3>3
  <2>. QED BY <2>1, <1>4, <1>7
<1>. QED BY <1>4, <1>5, <1>6, <1>7

\* EOF comes after all the data of its stream: no protocol error, and FINISHED only
\* when nothing is held back.
LEMMA HandleEofStep ==
  ASSUME IInv, NEW e \in End, HandleEof(e)
  PROVE  IInv'
<1>1. TypeOK /\ CallInv /\ CountInv /\ ReaderInv /\ OpenInv /\ EofInv
  BY DEF IInv
<1> DEFINE p == Peer(e)
           g == Head(chan[p])
<1>2. Receives(e, "EOF")
  BY DEF HandleEof
<1>3. /\ p \in End /\ p # e /\ acc[p] > 0 /\ Len(chan[p]) > 0
      /\ chan[p] \in Seq(Frame) /\ g \in Frame /\ g.t = "EOF" /\ FrameOK(p, g) /\ Idle(e)
  BY <1>2, Received1 DEF FrameTypes
<1>4. PICK id \in Ids : id = g.id
  BY <1>3 DEF FrameOK
<1>5. Opener(id) = p /\ Opener(id) # e /\ Reader(id) = e
  <2>1. Opener(id) = p
    BY <1>3, <1>4 DEF FrameOK
  <2>2. Reader(id) = Peer(Opener(id))
    BY DEF Reader
  <2>. QED BY <2>1, <2>2, <1>3, Ends
<1>6. CASE ~Live(e, id) \/ WasReset(e, id)
  <2>1. Drop(e)
    BY <1>4, <1>5, <1>6 DEF HandleEof, Live, WasReset
  <2>. QED BY <1>2, <1>4, <1>6, <2>1, DropStep
<1>7. CASE Live(e, id) /\ ~WasReset(e, id)
  <2>1. rx[id].st = "live" /\ ~rx[id].rst
    BY <1>5, <1>7 DEF Live, WasReset
  <2>2. Has(chan[p], "EOF", id) /\ ~Has(chan[p], "DATA", id)
    BY <1>1, <1>3, <1>4, <1>5, HasTail, OrderTail DEF EofInv
  <2>3. ~rx[id].fin
    BY <2>2, <1>1, <1>5 DEF EofInv
  <2>4. hist[id].rcvd = hist[id].sent
    BY <2>1, <2>2, <1>5, AllArrived
  <2>5. /\ rx[id].outst = hist[id].rcvd - hist[id].granted
        /\ rx[id].outst = rx[id].pend + rx[id].rxlen
        /\ hist[id].got = hist[id].rcvd - rx[id].rxlen /\ (rx[id].rxlen > 0 => rx[id].paused)
    <3>1. ~InCall(e, "data", id) /\ ~InCall(e, "resume", id)
      BY <1>1, <1>3, IdleNotWriting
    <3>. QED BY <3>1, <1>1, <1>5, <2>1 DEF ReaderInv
  <2>6. /\ hist[id].sent \in Nat /\ hist[id].credited \in Nat /\ hist[id].granted \in Nat
        /\ hist[id].rcvd \in Nat /\ hist[id].got \in Nat
        /\ rx[id].outst \in Nat /\ rx[id].rxlen \in Nat
        /\ rx[id] \in RxStream /\ hist[id] \in History /\ hist[id].fins \in 0 .. 2
    BY <1>1, StreamTypes DEF History
  <2>7. PICK n \in Nat : n = rx[id].pend
    BY <1>1, StreamTypes
  <2>8. PICK f : f = CreditFrame(id, n)
    OBVIOUS
  <2>9. f \in Frame /\ f.t = "WINDOW" /\ f.id = id /\ f.off = hist[id].granted /\ f.n = n
    BY <1>1, <2>8, CreditFrameIs
  <2>10. PICK q \in 0 .. 2 : q = IF hist[id].fins < 2 THEN hist[id].fins + 1 ELSE 2
    BY <2>6
  <2>11. Finished(hist[id]) = [hist[id] EXCEPT !.fins = q]
    BY <2>10 DEF Finished
  <2>12. PICK r, h :
          /\ rx' = [rx EXCEPT ![id] = r] /\ hist' = [hist EXCEPT ![id] = h]
          /\ UNCHANGED <<tx, cb, nextId, err, closing, goaway>>
          /\ \/ /\ rx[id].paused \/ rx[id].rxlen # 0
                /\ r = [rx[id] EXCEPT !.fin = TRUE] /\ h = hist[id] /\ Consume(e)
             \/ /\ rx[id].rxlen = 0 /\ n = 0
                /\ r = [rx[id] EXCEPT !.fin = TRUE]
                /\ h = [hist[id] EXCEPT !.fins = q] /\ Consume(e)
             \/ /\ rx[id].rxlen = 0 /\ n > 0
                /\ r = [rx[id] EXCEPT !.fin = TRUE, !.outst = Sub32(@, n), !.pend = 0]
                /\ h = [hist[id] EXCEPT !.granted = @ + n, !.fins = q] /\ ConsumeEnqueue(e, f)
    <3>1. CASE rx[id].paused \/ rx[id].rxlen # 0
      <4>1. /\ rx' = [rx EXCEPT ![id] = [rx[id] EXCEPT !.fin = TRUE]]
            /\ Consume(e) /\ UNCHANGED <<tx, cb, nextId, err, closing, goaway, hist>>
        BY <3>1, <1>4, <1>5, <1>7, <2>3 DEF HandleEof
      <4>2. hist' = [hist EXCEPT ![id] = hist[id]]
        BY <4>1, <1>1 DEF TypeOK
      <4>. QED BY <4>1, <4>2, <3>1
    <3>5. ASSUME ~rx[id].paused, rx[id].rxlen = 0
          PROVE  /\ UNCHANGED <<tx, cb, nextId, err, closing, goaway>>
                 /\ \/ /\ rx[id].pend > 0
                       /\ rx' = [rx EXCEPT ![id] = Credited([rx[id] EXCEPT !.fin = TRUE], rx[id].pend)]
                       /\ hist' = [hist EXCEPT ![id] = Finished([hist[id] EXCEPT !.granted = @ + rx[id].pend])]
                       /\ ConsumeEnqueue(e, CreditFrame(id, rx[id].pend))
                    \/ /\ rx[id].pend = 0
                       /\ rx' = [rx EXCEPT ![id] = [rx[id] EXCEPT !.fin = TRUE]]
                       /\ hist' = [hist EXCEPT ![id] = Finished(hist[id])]
                       /\ Consume(e)
      BY <3>5, <1>4, <1>5, <1>7, <2>3 DEF HandleEof
    <3>2. CASE ~rx[id].paused /\ rx[id].rxlen = 0 /\ n = 0
      <4>1. /\ rx' = [rx EXCEPT ![id] = [rx[id] EXCEPT !.fin = TRUE]]
            /\ hist' = [hist EXCEPT ![id] = Finished(@)]
            /\ Consume(e) /\ UNCHANGED <<tx, cb, nextId, err, closing, goaway>>
        BY <3>2, <3>5, <2>7
      <4>. QED BY <4>1, <3>2, <2>11
    <3>3. CASE ~rx[id].paused /\ rx[id].rxlen = 0 /\ n > 0
      <4>1. /\ rx' = [rx EXCEPT ![id] = Credited([rx[id] EXCEPT !.fin = TRUE], n)]
            /\ hist' = [hist EXCEPT ![id] = Finished([hist[id] EXCEPT !.granted = @ + n])]
            /\ ConsumeEnqueue(e, CreditFrame(id, n))
            /\ UNCHANGED <<tx, cb, nextId, err, closing, goaway>>
        <5>1. rx[id].pend > 0 /\ rx[id].pend = n
          BY <3>3, <2>7
        <5>. QED BY <5>1, <3>3, <3>5
      <4>2. rx' = [rx EXCEPT ![id] = [rx[id] EXCEPT !.fin = TRUE, !.outst = Sub32(@, n), !.pend = 0]]
        BY <4>1 DEF Credited
      <4>3. PICK hg : hg = [hist[id] EXCEPT !.granted = @ + n]
        OBVIOUS
      <4>4. hg.fins = hist[id].fins
        BY <4>3, <2>6 DEF History
      <4>5. Finished(hg) = [hg EXCEPT !.fins = q]
        BY <4>4, <2>10 DEF Finished
      <4>6. hist' = [hist EXCEPT ![id] = [hist[id] EXCEPT !.granted = @ + n, !.fins = q]]
        BY <4>1, <4>3, <4>5
      <4>. QED BY <4>1, <4>2, <4>6, <3>3, <2>8
    <3>. QED BY <3>1, <3>2, <3>3, <2>7
  <2>13. hist[id].granted <= hist[id].rcvd /\ hist[id].got <= hist[id].rcvd
         /\ hist[id].at + hist[id].last = hist[id].got
         /\ ~(hist[id].fins > 0)
    BY <1>1, <2>3 DEF CountInv
  <2>14. /\ r \in RxStream /\ h \in History /\ r.st = "live" /\ ~r.rst /\ r.fin
         /\ r.outst = h.rcvd - h.granted /\ r.outst = r.pend + r.rxlen
         /\ r.rxlen = rx[id].rxlen /\ r.paused = rx[id].paused
         /\ h.sent = hist[id].sent /\ h.rcvd = hist[id].rcvd /\ h.credited = hist[id].credited
         /\ h.got = hist[id].got /\ h.at = hist[id].at /\ h.last = hist[id].last
         /\ (h.fins > 0 => h.got = h.sent)
         /\ h.granted >= hist[id].granted /\ h.granted <= h.rcvd
    <3>1. CASE r = [rx[id] EXCEPT !.fin = TRUE] /\ h = hist[id]
      <4>1. /\ r \in RxStream /\ r.st = rx[id].st /\ r.rst = rx[id].rst /\ r.fin
            /\ r.rxlen = rx[id].rxlen /\ r.paused = rx[id].paused
            /\ r.outst = rx[id].outst /\ r.pend = rx[id].pend
        BY <3>1, <2>6 DEF RxStream
      <4>2. h \in History /\ h = hist[id] /\ hist[id].granted >= hist[id].granted
        BY <3>1, <2>6
      <4>. QED BY <4>1, <4>2, <2>1, <2>5, <2>13
    <3>2. CASE rx[id].rxlen = 0 /\ r = [rx[id] EXCEPT !.fin = TRUE] /\ h = [hist[id] EXCEPT !.fins = q]
      <4>1. /\ r \in RxStream /\ r.st = rx[id].st /\ r.rst = rx[id].rst /\ r.fin
            /\ r.rxlen = rx[id].rxlen /\ r.paused = rx[id].paused
            /\ r.outst = rx[id].outst /\ r.pend = rx[id].pend
        BY <3>2, <2>6 DEF RxStream
      <4>2. /\ h \in History /\ h.granted = hist[id].granted
            /\ h.sent = hist[id].sent /\ h.rcvd = hist[id].rcvd /\ h.credited = hist[id].credited
            /\ h.got = hist[id].got /\ h.at = hist[id].at /\ h.last = hist[id].last
        BY <3>2, <2>6, <2>10 DEF History
      <4>3. hist[id].got = hist[id].sent /\ hist[id].granted >= hist[id].granted
        BY <3>2, <2>4, <2>5, <2>6
      <4>. QED BY <4>1, <4>2, <4>3, <2>1, <2>5, <2>13
    <3>3. CASE /\ rx[id].rxlen = 0 /\ n > 0
               /\ r = [rx[id] EXCEPT !.fin = TRUE, !.outst = Sub32(@, n), !.pend = 0]
               /\ h = [hist[id] EXCEPT !.granted = @ + n, !.fins = q]
      <4>1. n = rx[id].outst /\ hist[id].granted + n = hist[id].rcvd /\ hist[id].got = hist[id].sent
        BY <3>3, <2>4, <2>5, <2>6, <2>7
      <4>2. Sub32(rx[id].outst, n) = 0
        BY <4>1, <2>6 DEF Sub32
      <4>3. r = [rx[id] EXCEPT !.fin = TRUE, !.outst = 0, !.pend = 0]
        BY <3>3, <4>2
      <4>4. /\ r \in RxStream /\ r.st = rx[id].st /\ r.rst = rx[id].rst /\ r.fin
            /\ r.rxlen = rx[id].rxlen /\ r.paused = rx[id].paused /\ r.outst = 0 /\ r.pend = 0
        BY <4>3, <2>6 DEF RxStream
      <4>5. h = [hist[id] EXCEPT !.granted = hist[id].rcvd, !.fins = q]
        BY <3>3, <4>1
      <4>6. /\ h \in History /\ h.granted = hist[id].rcvd
            /\ h.sent = hist[id].sent /\ h.rcvd = hist[id].rcvd /\ h.credited = hist[id].credited
            /\ h.got = hist[id].got /\ h.at = hist[id].at /\ h.last = hist[id].last
        BY <4>5, <2>6, <2>10 DEF History
      <4>7. 0 = h.rcvd - h.granted /\ h.granted >= hist[id].granted /\ h.granted <= h.rcvd
            /\ r.outst = r.pend + r.rxlen
        BY <4>4, <4>6, <2>6, <2>13, <3>3
      <4>. QED BY <4>1, <4>4, <4>6, <4>7, <2>1
    <3>. QED BY <3>1, <3>2, <3>3, <2>12
  <2>15. /\ ChanStep(e, f) /\ AccOK' /\ chan'[p] = Tail(chan[p]) /\ Len(chan[p]) > 0
         /\ \/ chan'[e] = chan[e] /\ h.granted = hist[id].granted
            \/ /\ chan'[e] = Append(chan[e], f)
               /\ f.t = "WINDOW" /\ f.id = id /\ f.off = hist[id].granted /\ f.n > 0
               /\ h.granted = hist[id].granted + f.n
    <3>1. CASE Consume(e) /\ (h = hist[id] \/ h = [hist[id] EXCEPT !.fins = q])
      <4>1. h.granted = hist[id].granted
        BY <3>1, <2>6, <2>10 DEF History
      <4>2. /\ ChanStep(e, f) /\ AccOK' /\ chan'[e] = chan[e] /\ chan'[p] = Tail(chan[p])
            /\ Len(chan[p]) > 0
        BY <1>1, <1>3, <3>1, ConsumeStep
      <4>. QED BY <4>1, <4>2
    <3>2. CASE /\ n > 0 /\ h = [hist[id] EXCEPT !.granted = @ + n, !.fins = q] /\ ConsumeEnqueue(e, f)
      <4>1. h.granted = hist[id].granted + n
        BY <3>2, <2>6, <2>7, <2>10 DEF History
      <4>2. /\ ChanStep(e, f) /\ AccOK' /\ chan'[e] = Append(chan[e], f)
            /\ chan'[p] = Tail(chan[p]) /\ Len(chan[p]) > 0
        BY <1>1, <1>3, <2>9, <3>2, ConsumeEnqueueStep
      <4>. QED BY <4>1, <4>2, <2>9, <3>2
    <3>. QED BY <3>1, <3>2, <2>12
  <2>16. Settles(e, id, r, h)
    BY <1>5, <2>1, <2>12, <2>13, <2>14 DEF Settles
  <2>17. /\ rx'[id] = r /\ hist'[id] = h /\ tx' = tx /\ cb' = cb
         /\ \A x \in Ids \ {id} : rx'[x] = rx[x]
    BY <1>1, <2>12, <2>14 DEF TypeOK
  <2>18. EofInv'
    BY <1>1, <1>3, <1>4, <1>5, <2>9, <2>15, <2>17, EofTaken
  <2>19. \A x \in Ids : rx[x].st # "none" => rx'[x].st # "none"
    BY <2>14, <2>17
  <2>20. CallsAbout(e, id)
    <3>1. CallInv'
      <4>1. \A x \in End : \A i \in 1 .. Len(cb[x]) : cb[x][i].id \in Ids
        BY <1>1, CallTypes
      <4>. QED BY <4>1, <1>1, <2>17, <2>19 DEF CallInv
    <3>2. \A x \in Ids \ {id} : CallsSame(Reader(x), x)
      BY <2>17 DEF CallsSame, InCall
    <3>. QED BY <3>1, <3>2, <1>1, <1>3, <2>17 DEF CallsAbout, TypeOK, Writing, Idle
  <2>21. ReaderOf(id)'
    <3>1. Len(cb'[e]) = 0
      BY <1>3, <2>17 DEF Idle
    <3>2. (\A k : ~InCall(e, k, id)') /\ \A i \in 1 .. Len(cb'[e]) : cb'[e][i].id # id
      BY <3>1 DEF InCall
    <3>3. h.got = h.rcvd - r.rxlen /\ (r.rxlen > 0 => r.paused)
      BY <2>5, <2>14
    <3>. QED BY <3>2, <3>3, <1>5, <2>14, <2>17, ReaderSettled
  <2>. QED BY <1>3, <2>9, <2>14, <2>15, <2>16, <2>18, <2>20, <2>21, Settle
<1>. QED BY <1>6, <1>7

\* Credit of d bytes for a stream with nothing held, in or out of a DATA callback.
LEMMA ReaderCredited ==
  ASSUME IInv, NEW id \in Ids, rx[id].st = "live", ~rx[id].rst,
         ~InCall(Reader(id), "resume", id), rx[id].rxlen = 0,
         NEW r, NEW h, rx'[id] = r, hist'[id] = h, cb' = cb,
         NEW d \in Nat, d <= rx[id].pend,
         r.outst = rx[id].outst - d, r.pend = rx[id].pend - d, r.rxlen = 0,
         h.granted = hist[id].granted + d, h.rcvd = hist[id].rcvd, h.got = hist[id].got
  PROVE  ReaderOf(id)'
<1>1. TypeOK /\ ReaderOf(id)
  BY ReaderAll DEF IInv
<1>2. /\ hist[id].granted \in Nat /\ hist[id].rcvd \in Nat /\ hist[id].got \in Nat
      /\ rx[id].outst \in Nat /\ rx[id].pend \in Nat
  BY <1>1, StreamTypes
<1> DEFINE e == Reader(id)
<1>3. \A i \in 1 .. Len(cb[e]) : cb[e][i].n \in Nat
  BY <1>1, StreamTypes, CallTypes
<1>4. r.outst = h.rcvd - h.granted
  <2>1. rx[id].outst = hist[id].rcvd - hist[id].granted
    BY <1>1 DEF ReaderOf
  <2>. QED BY <2>1, <1>2
<1>5. ~InCall(e, "data", id) => r.outst = r.pend + r.rxlen
  <2>1. ~InCall(e, "data", id) => rx[id].outst = rx[id].pend + rx[id].rxlen
    BY <1>1 DEF ReaderOf
  <2>. QED BY <2>1, <1>2
<1>6. h.got = h.rcvd - r.rxlen /\ ~(r.rxlen > 0)
  <2>1. hist[id].got = hist[id].rcvd - rx[id].rxlen
    BY <1>1 DEF ReaderOf
  <2>. QED BY <2>1, <1>2
<1>7. ASSUME NEW i \in 1 .. Len(cb[e]), cb[e][i].id = id
      PROVE  /\ cb[e][i].k = "data" => r.rxlen = 0 /\ r.outst = r.pend + cb[e][i].n
             /\ cb[e][i].k # "resume"
  <2>1. cb[e][i].k = "data" => rx[id].outst = rx[id].pend + cb[e][i].n
    BY <1>1, <1>7 DEF ReaderOf
  <2>2. cb[e][i].k # "resume"
    BY <1>7 DEF InCall
  <2>. QED BY <2>1, <2>2, <1>2, <1>3
<1>. QED BY <1>4, <1>5, <1>6, <1>7 DEF ReaderOf, InCall

\* A resume hands over what was held back, or what waited for it.
LEMMA StreamResumeStep ==
  ASSUME IInv, Contract, NEW e \in End, NEW id \in Ids, StreamResume(e, id)
  PROVE  IInv'
<1>1. TypeOK /\ CallInv /\ CountInv /\ ReaderInv /\ OpenInv /\ EofInv
  BY DEF IInv
<1>2. /\ AppMay(e) /\ ~Writing(e) /\ Opener(id) # e /\ rx[id].st = "live" /\ rx[id].paused
      /\ ~InCall(e, "resume", id) /\ ~rx[id].rst
      /\ UNCHANGED <<tx, nextId, err, closing, goaway>>
  BY DEF StreamResume, AppMay, Contract, Resuming
<1>3. Reader(id) = e
  BY <1>1, <1>2, StreamTypes, Ends
<1>4. /\ hist[id].sent \in Nat /\ hist[id].credited \in Nat /\ hist[id].granted \in Nat
      /\ hist[id].rcvd \in Nat /\ hist[id].got \in Nat
      /\ rx[id].outst \in Nat /\ rx[id].rxlen \in Nat
      /\ rx[id] \in RxStream /\ hist[id] \in History /\ hist[id].fins \in 0 .. 2
  BY <1>1, StreamTypes DEF History
<1>5. PICK n \in Nat : n = rx[id].pend
  BY <1>1, StreamTypes
<1>6. PICK m \in Nat : m = rx[id].rxlen
  BY <1>4
<1>7. /\ rx[id].outst = hist[id].rcvd - hist[id].granted
      /\ hist[id].got = hist[id].rcvd - m
      /\ ~InCall(e, "data", id) => rx[id].outst = n + m
      /\ InCall(e, "data", id) => m = 0 /\ n <= rx[id].outst
  <2>1. /\ rx[id].outst = hist[id].rcvd - hist[id].granted
        /\ hist[id].got = hist[id].rcvd - m
        /\ ~InCall(e, "data", id) => rx[id].outst = n + m
    BY <1>1, <1>2, <1>3, <1>5, <1>6 DEF ReaderInv
  <2>2. ASSUME InCall(e, "data", id) PROVE m = 0 /\ n <= rx[id].outst
    <3>1. PICK i \in 1 .. Len(cb[e]) : cb[e][i].k = "data" /\ cb[e][i].id = id
      BY <2>2 DEF InCall
    <3>2. rx[id].rxlen = 0 /\ rx[id].outst = rx[id].pend + cb[e][i].n
      BY <3>1, <1>1, <1>2, <1>3 DEF ReaderInv
    <3>3. cb[e][i].n \in Nat
      BY <1>1, CallTypes
    <3>. QED BY <3>2, <3>3, <1>5, <1>6
  <2>. QED BY <2>1, <2>2
<1>8. hist[id].granted <= hist[id].rcvd /\ hist[id].got <= hist[id].rcvd
      /\ hist[id].rcvd <= hist[id].sent
      /\ hist[id].at + hist[id].last = hist[id].got
      /\ (hist[id].fins > 0 => rx[id].fin /\ hist[id].got = hist[id].sent)
  BY <1>1 DEF CountInv
<1>9. rx[id].fin => hist[id].rcvd = hist[id].sent
  BY <1>1, <1>2, AllArrived DEF EofInv
<1>10. PICK q \in 0 .. 2 : q = IF hist[id].fins < 2 THEN hist[id].fins + 1 ELSE 2
  BY <1>4
<1>11. Finished(hist[id]) = [hist[id] EXCEPT !.fins = q]
  BY <1>10 DEF Finished
<1>12. PICK s : s = [rx[id] EXCEPT !.paused = FALSE]
  OBVIOUS
<1>13. /\ s \in RxStream /\ s.st = "live" /\ ~s.rst /\ s.fin = rx[id].fin /\ s.paused = FALSE
       /\ s.rxlen = m /\ s.pend = n /\ s.outst = rx[id].outst /\ s.fin \in BOOLEAN
  BY <1>2, <1>4, <1>5, <1>6, <1>12 DEF RxStream
<1>14. CASE m > 0
  <2>1. ~InCall(e, "data", id)
    BY <1>7, <1>14
  <2>2. PICK o \in Nat : o = hist[id].rcvd - m
    BY <1>4, <1>7
  <2>3. PICK h : h = [hist[id] EXCEPT !.got = @ + m, !.at = o, !.last = m]
    OBVIOUS
  <2>4. /\ rx' = [rx EXCEPT ![id] = s] /\ hist' = [hist EXCEPT ![id] = h]
        /\ Push(e, "resume", id, m, 0) /\ UNCHANGED <<chan, acc>>
    BY <1>6, <1>12, <1>13, <1>14, <2>2, <2>3 DEF StreamResume, Delivered
  <2>5. /\ h \in History /\ h.got = hist[id].rcvd /\ h.at + h.last = h.got
        /\ h.sent = hist[id].sent /\ h.rcvd = hist[id].rcvd /\ h.credited = hist[id].credited
        /\ h.granted = hist[id].granted /\ h.fins = hist[id].fins
    <3>1. hist[id].got + m \in Nat /\ hist[id].got + m = hist[id].rcvd /\ o + m = hist[id].rcvd
      BY <1>4, <1>7, <2>2
    <3>. QED BY <3>1, <2>3, <1>4 DEF History
  <2>6. ~(h.fins > 0)
    BY <1>4, <1>7, <1>8, <1>14, <2>5
  <2>7. Settles(e, id, s, h)
    <3>1. h.got <= h.rcvd /\ h.granted >= hist[id].granted /\ h.granted <= h.rcvd
      BY <2>5, <1>4, <1>8
    <3>. QED BY <3>1, <1>2, <1>3, <1>13, <2>4, <2>5, <2>6 DEF Settles
  <2>8. rx'[id] = s /\ hist'[id] = h /\ \A x \in Ids : rx[x].st # "none" => rx'[x].st # "none"
    BY <1>1, <1>13, <2>4 DEF TypeOK
  <2>9. "resume" \in {"data", "resume"} /\ "resume" \in {"write", "data", "resume"} /\ 0 \in Nat
    OBVIOUS
  <2>10. CallInv' /\ ~Writing(e)'
    BY <1>1, <1>2, <1>14, <2>1, <2>4, <2>8, <2>9, CallPush
  <2>11. /\ cb' \in [End -> Seq(Continuation)] /\ \A y \in End \ {e} : cb'[y] = cb[y]
         /\ Len(cb'[e]) = Len(cb[e]) + 1
         /\ \A i \in 1 .. Len(cb[e]) : cb'[e][i] = cb[e][i]
         /\ cb'[e][Len(cb'[e])] = [k |-> "resume", id |-> id, n |-> m, a |-> 0]
    BY <1>1, <2>4, <2>9, PushStep
  <2>12. ASSUME NEW x \in Ids \ {id} PROVE CallsSame(Reader(x), x)
    <3>1. Reader(x) \in End /\ x \in Ids /\ x # id
      BY <1>1, StreamTypes
    <3>. QED BY <3>1, <1>1, <2>4, <2>9, CallsPush
  <2>13. CallsAbout(e, id)
    BY <1>2, <2>10, <2>11, <2>12 DEF CallsAbout
  <2>14. ReaderOf(id)'
    <3>1. \A i \in 1 .. Len(cb[e]) : cb[e][i].id = id => cb[e][i].k = "write"
      BY <1>1, <1>2, <2>1, CallTypes DEF InCall
    <3>2. ~InCall(e, "write", id)
      BY <1>1, <1>2, NotWriting
    <3>3. \A i \in 1 .. Len(cb[e]) : cb[e][i].id # id
      BY <3>1, <3>2 DEF InCall
    <3>4. Len(cb[e]) \in Nat
      BY <1>1, CallTypes
    <3>5. \A i \in 1 .. Len(cb'[e]) : cb'[e][i].id = id => cb'[e][i].k = "resume" /\ cb'[e][i].n = m
      BY <2>11, <3>3, <3>4
    <3>6. InCall(e, "resume", id)'
      <4>1. /\ Len(cb'[e]) \in 1 .. Len(cb'[e])
            /\ cb'[e][Len(cb'[e])].k = "resume" /\ cb'[e][Len(cb'[e])].id = id
        BY <2>11, <3>4
      <4>. QED BY <4>1 DEF InCall
    <3>7. s.outst = h.rcvd - h.granted /\ s.outst = s.pend + s.rxlen /\ h.got = h.rcvd
      BY <1>7, <1>13, <2>1, <2>5
    <3>. QED BY <3>5, <3>6, <3>7, <1>3, <1>13, <2>8 DEF ReaderOf
  <2> DEFINE f == Mk("GOAWAY", 0, 0, 0)
  <2>15. f \in Frame
    BY MkFrame DEF FrameTypes
  <2> HIDE DEF f
  <2>16. ChanStep(e, f) /\ AccOK' /\ chan'[Peer(e)] = chan[Peer(e)] /\ chan'[e] = chan[e]
    BY <1>1, <2>4 DEF TypeOK, ChanStep, AccOK
  <2>. QED BY <1>13, <2>5, <2>7, <2>13, <2>14, <2>15, <2>16, Settle
<1>15. CASE m = 0
  <2>1. PICK f : f = CreditFrame(id, n)
    OBVIOUS
  <2>2. f \in Frame /\ f.t = "WINDOW" /\ f.id = id /\ f.off = hist[id].granted /\ f.n = n
    BY <1>1, <2>1, CreditFrameIs
  <2>3. n <= rx[id].outst /\ Sub32(rx[id].outst, n) = rx[id].outst - n /\ rx[id].outst - n \in Nat
    <3>1. n <= rx[id].outst
      BY <1>4, <1>7, <1>15
    <3>. QED BY <3>1, <1>4, CreditArith
  <2>4. PICK r, h :
         /\ rx' = [rx EXCEPT ![id] = r] /\ hist' = [hist EXCEPT ![id] = h] /\ cb' = cb
         /\ \/ /\ s.fin /\ n > 0
               /\ r = [s EXCEPT !.outst = Sub32(@, n), !.pend = 0]
               /\ h = [hist[id] EXCEPT !.granted = @ + n, !.fins = q] /\ Enqueue(e, f)
            \/ s.fin /\ r = s /\ h = [hist[id] EXCEPT !.fins = q] /\ UNCHANGED <<chan, acc>>
            \/ ~s.fin /\ r = s /\ h = hist[id] /\ UNCHANGED <<chan, acc>>
    <3>1. \/ /\ s.fin /\ n > 0
             /\ rx' = [rx EXCEPT ![id] = Credited(s, n)]
             /\ hist' = [hist EXCEPT ![id] = Finished([hist[id] EXCEPT !.granted = @ + n])]
             /\ Enqueue(e, CreditFrame(id, n)) /\ cb' = cb
          \/ /\ rx' = [rx EXCEPT ![id] = s]
             /\ hist' = [hist EXCEPT ![id] = IF s.fin THEN Finished(hist[id]) ELSE hist[id]]
             /\ UNCHANGED <<chan, acc, cb>>
      BY <1>12, <1>13, <1>15 DEF StreamResume
    <3>2. CASE /\ s.fin /\ n > 0
               /\ rx' = [rx EXCEPT ![id] = Credited(s, n)]
               /\ hist' = [hist EXCEPT ![id] = Finished([hist[id] EXCEPT !.granted = @ + n])]
               /\ Enqueue(e, CreditFrame(id, n)) /\ cb' = cb
      <4>1. rx' = [rx EXCEPT ![id] = [s EXCEPT !.outst = Sub32(@, n), !.pend = 0]]
        BY <3>2 DEF Credited
      <4>2. PICK hg : hg = [hist[id] EXCEPT !.granted = @ + n]
        OBVIOUS
      <4>3. hg.fins = hist[id].fins
        BY <4>2, <1>4 DEF History
      <4>4. Finished(hg) = [hg EXCEPT !.fins = q]
        BY <4>3, <1>10 DEF Finished
      <4>5. hist' = [hist EXCEPT ![id] = [hist[id] EXCEPT !.granted = @ + n, !.fins = q]]
        BY <3>2, <4>2, <4>4
      <4>. QED BY <3>2, <4>1, <4>5, <2>1
    <3>3. CASE /\ rx' = [rx EXCEPT ![id] = s]
               /\ hist' = [hist EXCEPT ![id] = IF s.fin THEN Finished(hist[id]) ELSE hist[id]]
               /\ UNCHANGED <<chan, acc, cb>>
      <4>1. CASE s.fin
        <5>1. hist' = [hist EXCEPT ![id] = [hist[id] EXCEPT !.fins = q]]
          BY <3>3, <4>1, <1>11
        <5>. QED BY <5>1, <3>3, <4>1
      <4>2. CASE ~s.fin
        BY <3>3, <4>2
      <4>. QED BY <4>1, <4>2
    <3>. QED BY <3>1, <3>2, <3>3
  <2>5. hist[id].got = hist[id].rcvd /\ (s.fin => hist[id].got = hist[id].sent)
    BY <1>4, <1>7, <1>9, <1>13, <1>15
  <2>6. PICK d \in {0, n} :
         /\ r \in RxStream /\ h \in History /\ r.st = "live" /\ ~r.rst /\ r.fin = rx[id].fin
         /\ r.outst = rx[id].outst - d /\ r.pend = n - d /\ r.rxlen = 0
         /\ h.sent = hist[id].sent /\ h.rcvd = hist[id].rcvd /\ h.credited = hist[id].credited
         /\ h.got = hist[id].got /\ h.at = hist[id].at /\ h.last = hist[id].last
         /\ h.granted = hist[id].granted + d
         /\ (h.fins = hist[id].fins \/ s.fin)
         /\ GrantChannels(e, id, h, f)
    <3>1. CASE /\ s.fin /\ n > 0
               /\ r = [s EXCEPT !.outst = Sub32(@, n), !.pend = 0]
               /\ h = [hist[id] EXCEPT !.granted = @ + n, !.fins = q] /\ Enqueue(e, f)
      <4>1. r = [s EXCEPT !.outst = rx[id].outst - n, !.pend = 0]
        BY <3>1, <1>13, <2>3
      <4>2. /\ r \in RxStream /\ r.st = "live" /\ ~r.rst /\ r.fin = rx[id].fin
            /\ r.outst = rx[id].outst - n /\ r.pend = 0 /\ r.rxlen = 0
        BY <4>1, <1>13, <1>15, <2>3 DEF RxStream
      <4>3. hist[id].granted + n \in Nat
        BY <1>4
      <4>4. /\ h \in History /\ h.granted = hist[id].granted + n
            /\ h.sent = hist[id].sent /\ h.rcvd = hist[id].rcvd /\ h.credited = hist[id].credited
            /\ h.got = hist[id].got /\ h.at = hist[id].at /\ h.last = hist[id].last
        BY <3>1, <4>3, <1>4 DEF History
      <4>5. GrantChannels(e, id, h, f)
        BY <3>1, <4>4, <2>2 DEF GrantChannels
      <4>6. 0 = n - n /\ n \in {0, n}
        OBVIOUS
      <4>. QED BY <4>2, <4>4, <4>5, <4>6, <3>1
    <3>2. CASE /\ r = s /\ UNCHANGED <<chan, acc>>
               /\ (~s.fin /\ h = hist[id]) \/ (s.fin /\ h = [hist[id] EXCEPT !.fins = q])
      <4>1. /\ r \in RxStream /\ r.st = "live" /\ ~r.rst /\ r.fin = rx[id].fin
            /\ r.outst = rx[id].outst - 0 /\ r.pend = n - 0 /\ r.rxlen = 0
        BY <3>2, <1>4, <1>13, <1>15
      <4>2. /\ h \in History /\ h.granted = hist[id].granted
            /\ h.sent = hist[id].sent /\ h.rcvd = hist[id].rcvd /\ h.credited = hist[id].credited
            /\ h.got = hist[id].got /\ h.at = hist[id].at /\ h.last = hist[id].last
            /\ (h.fins = hist[id].fins \/ s.fin)
        BY <3>2, <1>4, <1>10 DEF History
      <4>3. GrantChannels(e, id, h, f)
        BY <3>2, <4>2 DEF GrantChannels
      <4>4. h.granted = hist[id].granted + 0 /\ 0 \in {0, n}
        BY <4>2, <1>4
      <4>. QED BY <4>1, <4>2, <4>3, <4>4
    <3>. QED BY <3>1, <3>2, <2>4
  <2>7. d \in Nat /\ d <= n
    BY <2>6
  <2>8. h.fins > 0 => r.fin /\ h.got = h.sent
    BY <1>8, <1>13, <2>5, <2>6
  <2>9. h.granted >= hist[id].granted /\ h.granted <= h.rcvd
    BY <1>4, <1>7, <2>3, <2>6, <2>7
  <2>10. Settles(e, id, r, h)
    BY <1>2, <1>3, <1>8, <2>4, <2>6, <2>8, <2>9 DEF Settles
  <2>11. rx'[id] = r /\ hist'[id] = h /\ \A x \in Ids : rx[x].st # "none" => rx'[x].st # "none"
    BY <1>1, <2>4, <2>6 DEF TypeOK
  <2>12. CallsAbout(e, id)
    <3>1. CallInv'
      <4>1. \A x \in End : \A i \in 1 .. Len(cb[x]) : cb[x][i].id \in Ids
        BY <1>1, CallTypes
      <4>. QED BY <4>1, <1>1, <1>2, <2>4, <2>11 DEF CallInv
    <3>2. \A x \in Ids \ {id} : CallsSame(Reader(x), x)
      BY <2>4 DEF CallsSame, InCall
    <3>. QED BY <3>1, <3>2, <1>1, <1>2, <2>4 DEF CallsAbout, TypeOK, Writing, Idle, Top
  <2>13. ReaderOf(id)'
    BY <1>2, <1>3, <1>5, <1>6, <1>15, <2>4, <2>6, <2>7, <2>11, ReaderCredited
  <2>14. /\ ChanStep(e, f) /\ AccOK' /\ chan'[Peer(e)] = chan[Peer(e)]
         /\ \/ chan'[e] = chan[e] /\ h.granted = hist[id].granted
            \/ /\ chan'[e] = Append(chan[e], f)
               /\ f.t = "WINDOW" /\ f.id = id /\ f.off = hist[id].granted /\ f.n > 0
               /\ h.granted = hist[id].granted + f.n
    BY <1>1, <2>2, <2>6, GrantChannelStep
  <2>. QED BY <2>2, <2>6, <2>10, <2>12, <2>13, <2>14, Settle
<1>. QED BY <1>6, <1>14, <1>15

-----------------------------------------------------------------------------
(***************************************************************************)
(* The invariant.                                                          *)
(***************************************************************************)

\* It holds before anything has happened.
LEMMA InitInv ==
  ASSUME Init
  PROVE  IInv
<1>1. /\ chan \in [End -> Seq(Frame)] /\ \A e \in End : chan[e] = <<>> /\ acc[e] = 0 /\ cb[e] = <<>>
      /\ acc \in [End -> Nat] /\ cb \in [End -> Seq(Continuation)]
  BY DEF Init
<1>2. /\ tx \in [Ids -> TxStream] /\ rx \in [Ids -> RxStream] /\ hist \in [Ids -> History]
      /\ \A id \in Ids : tx[id] = NoTx /\ rx[id] = NoRx /\ hist[id] = NoHistory
  BY DEF Init, TxStream, RxStream, History, NoTx, NoRx, NoHistory, Life
<1>3. /\ nextId \in [End -> Nat] /\ nextId["HOST"] = 2 /\ nextId["CLIENT"] = 1
      /\ err \in [End -> {"none", "protocol", "transport"}] /\ \A e \in End : err[e] = "none"
      /\ closing \in [End -> BOOLEAN] /\ goaway \in [End -> BOOLEAN]
  BY DEF Init, End
<1>4. \A e \in End : Len(chan[e]) = 0 /\ Len(cb[e]) = 0
  BY <1>1
<1>5. TypeOK /\ NoProtocolError
  BY <1>1, <1>2, <1>3, <1>4 DEF TypeOK, NoProtocolError
<1>6. \A id \in Ids : id \in Nat /\ id > 0 /\ Opener(id) \in End /\ Reader(id) \in End
  BY Ends DEF Ids
<1>7. IdsInv
  <2>1. \A e \in End : nextId[e] > 0 /\ Opener(nextId[e]) = e
    BY <1>3 DEF End, Opener
  <2>2. ASSUME NEW id \in Ids PROVE id >= nextId[Opener(id)]
    <3>1. CASE Opener(id) = "CLIENT"
      BY <3>1, <1>3, <1>6
    <3>2. CASE Opener(id) = "HOST"
      <4>1. id % 2 = 0
        BY <3>2 DEF Opener
      <4>. QED BY <4>1, <3>2, <1>3, <1>6
    <3>. QED BY <3>1, <3>2, <1>6 DEF End
  <2>. QED BY <2>1, <2>2, <1>2 DEF IdsInv, NoTx
<1>8. FramesInv
  BY <1>4 DEF FramesInv
<1>9. \A e \in End : \A t : \A id : ~Has(chan[e], t, id)
  BY <1>4 DEF Has
<1>10. \A e \in End : \A id : OpenFirst(chan[e], id) /\ EofLast(chan[e], id)
  BY <1>4 DEF OpenFirst, EofLast
<1>11. OpenInv
  <2>1. ASSUME NEW id \in Ids
        PROVE  /\ tx[id].st = "none" /\ rx[id].st = "none"
               /\ ~Has(chan[Opener(id)], "OPEN", id) /\ OpenFirst(chan[Opener(id)], id)
    <3>1. tx[id].st = "none" /\ rx[id].st = "none"
      BY <1>2 DEF NoTx, NoRx
    <3>2. Opener(id) \in End
      BY <1>6
    <3>3. ~Has(chan[Opener(id)], "OPEN", id) /\ OpenFirst(chan[Opener(id)], id)
      BY <3>2, <1>9, <1>10
    <3>. QED BY <3>1, <3>3
  <2>. QED BY <2>1 DEF OpenInv
<1>12. FreshInv
  BY <1>2 DEF FreshInv, NoRx, NoHistory
<1>13. EofInv
  BY <1>2, <1>6, <1>9, <1>10 DEF EofInv, NoRx
<1>14. \A e \in End : \A t : \A id : Chain(chan[e], t, id, 0, 0)
  BY <1>4 DEF Chain
<1>15. DataInv /\ CreditInv
  <2>1. ASSUME NEW id \in Ids
        PROVE  /\ hist[id].rcvd = 0 /\ hist[id].sent = 0
               /\ hist[id].credited = 0 /\ hist[id].granted = 0
               /\ Chain(chan[Opener(id)], "DATA", id, 0, 0)
               /\ Chain(chan[Reader(id)], "WINDOW", id, 0, 0)
    BY <1>2, <1>6, <1>14 DEF NoHistory
  <2>2. DataInv
    BY <2>1 DEF DataInv
  <2>3. CreditInv
    BY <2>1 DEF CreditInv
  <2>. QED BY <2>2, <2>3
<1>16. CountInv
  BY <1>2, <1>6, SessionAssumption DEF CountInv, NoHistory
<1>17. CallInv
  BY <1>4 DEF CallInv
<1>18. WriterInv /\ ReaderInv
  BY <1>2 DEF WriterInv, ReaderInv, NoTx, NoRx
<1>. QED BY <1>5, <1>7, <1>8, <1>11, <1>12, <1>13, <1>15, <1>16, <1>17, <1>18 DEF IInv

\* Every step keeps it.
LEMMA NextInv ==
  ASSUME IInv, Contract, [Next]_vars
  PROVE  IInv'
<1>1. CASE Next
  <2>1. PICK e \in End : ProcessFrame(e) \/ Return(e) \/ App(e) \/ OnWritable(e) \/ OnError(e)
    BY <1>1 DEF Next
  <2>2. CASE ProcessFrame(e)
    BY <2>2, HandleOpenStep, HandleDataStep, HandleEofStep, HandleResetStep, HandleWindowStep,
       HandleGoawayStep DEF ProcessFrame
  <2>3. CASE Return(e)
    BY <2>3, DataReturnStep, ResumeReturnStep, WriteChunkStep, WriteReturnStep DEF Return
  <2>4. CASE App(e)
    <3>1. CASE StreamOpen(e)
      BY <3>1, StreamOpenStep
    <3>2. CASE Close(e)
      BY <3>2, CloseStep
    <3>3. ASSUME NEW id \in Ids, NEW len \in 1 .. MaxBytes, StreamWrite(e, id, len) PROVE IInv'
      BY <3>3, StreamWriteStep
    <3>4. ASSUME NEW id \in Ids,
                 \/ StreamFinish(e, id) \/ StreamReset(e, id) \/ StreamPause(e, id)
                 \/ StreamResume(e, id) \/ StreamRelease(e, id)
          PROVE  IInv'
      BY <3>4, StreamFinishStep, StreamResetStep, StreamPauseStep, StreamResumeStep, StreamReleaseStep
    <3>. QED BY <2>4, <3>1, <3>2, <3>3, <3>4 DEF App
  <2>5. CASE OnWritable(e) \/ OnError(e)
    BY <2>5, LinkStep
  <2>. QED BY <2>1, <2>2, <2>3, <2>4, <2>5
<1>2. CASE UNCHANGED vars
  BY <1>2 DEF vars, IInv, TypeOK, NoProtocolError, IdsInv, FramesInv, FrameOK, OpenInv, FreshInv,
     EofInv, DataInv, CreditInv, CountInv, CallInv, WriterInv, ReaderInv, InCall, Writing, Idle, Top
<1>. QED BY <1>1, <1>2

\* The inductive invariant holds in every reachable state, under the contract.
THEOREM InvariantHolds == Contract => (Spec => []IInv)
<1> SUFFICES ASSUME Contract PROVE Spec => []IInv
  OBVIOUS
<1>1. Init => IInv
  BY InitInv
<1>2. IInv /\ [Next]_vars => IInv'
  BY NextInv
<1>. QED BY <1>1, <1>2, PTL DEF Spec

\* Every variable keeps its type: no uint32_t counter of a stream wraps into a
\* number that is not what the engine thinks it counts.
THEOREM TypeCorrect == Contract => (Spec => []TypeOK)
<1>1. IInv => TypeOK
  BY DEF IInv
<1>. QED BY <1>1, InvariantHolds, PTL

\* protocol_error never fires between two ends that run this code with equal
\* windows, whatever their applications do within the resume contract.
THEOREM EnginesAgree == Contract => (Spec => []NoProtocolError)
<1>1. IInv => NoProtocolError
  BY DEF IInv
<1>. QED BY <1>1, InvariantHolds, PTL

\* The reading application gets the bytes of a stream in order, each once.
THEOREM InOrderDelivery == Contract => (Spec => []DeliveredInOrder)
<1>1. ASSUME IInv PROVE DeliveredInOrder
  <2>1. ASSUME NEW id \in Ids
        PROVE  hist[id].at + hist[id].last = hist[id].got /\ hist[id].got <= hist[id].sent
    <3>1. TypeOK /\ CountInv
      BY <1>1 DEF IInv
    <3>2. hist[id].got \in Nat /\ hist[id].rcvd \in Nat /\ hist[id].sent \in Nat
      BY <3>1, StreamTypes
    <3>3. /\ hist[id].at + hist[id].last = hist[id].got
          /\ hist[id].got <= hist[id].rcvd /\ hist[id].rcvd <= hist[id].sent
      BY <3>1 DEF CountInv
    <3>. QED BY <3>2, <3>3
  <2>. QED BY <2>1 DEF DeliveredInOrder
<1>. QED BY <1>1, InvariantHolds, PTL

\* FINISHED means that the writer finished and the reader has every byte.
THEOREM FinishedMeansComplete == Contract => (Spec => []FinishedIsComplete)
<1>1. ASSUME IInv PROVE FinishedIsComplete
  <2>1. EofInv /\ CountInv /\ TypeOK
    BY <1>1 DEF IInv
  <2>. QED BY <2>1 DEF FinishedIsComplete, EofInv, CountInv
<1>. QED BY <1>1, InvariantHolds, PTL

-----------------------------------------------------------------------------
(***************************************************************************)
(* The reader's window, for streams that were reset too.                   *)
(***************************************************************************)
Frozen(id) ==
  rx'[id].st = "live" /\ rx'[id].rst =>
    /\ rx[id].st = "live" /\ rx'[id].outst = rx[id].outst
    /\ rx'[id].pend = rx[id].pend /\ rx'[id].rxlen = rx[id].rxlen

\* A step on a stream that is not reset, or that touches none of its counts.
LEMMA FrozenExcept ==
  ASSUME TypeOK, NEW x \in Ids, NEW r, rx' = [rx EXCEPT ![x] = r],
         \/ r.st # "live" \/ ~r.rst
         \/ /\ rx[x].st = "live" /\ r.outst = rx[x].outst /\ r.pend = rx[x].pend
            /\ r.rxlen = rx[x].rxlen
  PROVE  \A id \in Ids : Frozen(id)
<1> SUFFICES ASSUME NEW id \in Ids PROVE Frozen(id)
  OBVIOUS
<1>1. CASE id = x
  <2>1. rx'[id] = r
    BY <1>1 DEF TypeOK
  <2>. QED BY <2>1, <1>1 DEF Frozen
<1>2. CASE id # x
  <2>1. rx'[id] = rx[id]
    BY <1>2 DEF TypeOK
  <2>. QED BY <2>1 DEF Frozen
<1>. QED BY <1>1, <1>2

\* What the operations do to a record leaves its reset flag alone.
LEMMA FlagKept ==
  ASSUME NEW s \in RxStream, NEW n
  PROVE  /\ Received(s, n).rst = s.rst
         /\ [Received(s, n) EXCEPT !.rxlen = @ + n].rst = s.rst
         /\ [s EXCEPT !.pend = n].rst = s.rst
         /\ Credited(s, n).rst = s.rst
         /\ [[s EXCEPT !.rxlen = 0] EXCEPT !.pend = n].rst = s.rst
         /\ Credited([s EXCEPT !.rxlen = 0], n).rst = s.rst
         /\ [s EXCEPT !.fin = TRUE].rst = s.rst
         /\ Credited([s EXCEPT !.fin = TRUE], n).rst = s.rst
         /\ [s EXCEPT !.paused = FALSE].rst = s.rst
         /\ Credited([s EXCEPT !.paused = FALSE], n).rst = s.rst
<1>1. DOMAIN s = {"st", "paused", "fin", "rst", "outst", "pend", "rxlen"}
  BY DEF RxStream
<1>2. \A v : \A k \in {"pend", "fin", "paused", "rxlen", "outst"} :
        /\ [s EXCEPT ![k] = v].rst = s.rst
        /\ DOMAIN [s EXCEPT ![k] = v] = DOMAIN s
  BY <1>1
<1>. QED BY <1>1 DEF Received, Credited

\* Nothing is received on, held for or credited to a stream that was reset.
LEMMA ResetFrozen ==
  ASSUME IInv, Contract, Next
  PROVE  \A id \in Ids : Frozen(id)
<1>1. TypeOK /\ IInv
  BY DEF IInv
<1>2. PICK e \in End : ProcessFrame(e) \/ Return(e) \/ App(e) \/ OnWritable(e) \/ OnError(e)
  BY DEF Next
<1>3. CASE rx' = rx
  BY <1>3 DEF Frozen
<1>4. ASSUME ProcessFrame(e), rx' # rx
      PROVE  \A id \in Ids : Frozen(id)
  <2> DEFINE g == Head(chan[Peer(e)])
  <2>1. PICK t \in {"OPEN", "DATA", "EOF", "RESET"} : Receives(e, t)
    BY <1>4 DEF ProcessFrame, HandleOpen, HandleData, HandleEof, HandleReset, HandleWindow,
       HandleGoaway, ProtocolError, Drop
  <2>2. g.t = t /\ FrameOK(Peer(e), g) /\ Peer(e) \in End /\ chan[Peer(e)] \in Seq(Frame)
        /\ Len(chan[Peer(e)]) > 0
    BY <1>1, <2>1, Received1 DEF FrameTypes
  <2>3. PICK x \in Ids : x = g.id
    BY <2>2 DEF FrameOK
  <2>4. rx[x] \in RxStream
    BY <1>1, StreamTypes
  <2>5. CASE HandleOpen(e)
    <3>1. t = "OPEN"
      BY <2>2, <2>5 DEF HandleOpen, Receives
    <3>2. PICK st : rx' = [rx EXCEPT ![x].st = st]
      BY <1>4, <2>3, <2>5 DEF HandleOpen, ProtocolError
    <3>3. rx[x] = NoRx
      <4>1. Has(chan[Peer(e)], "OPEN", x) /\ Opener(x) = Peer(e)
        BY <2>2, <2>3, <3>1, HasTail DEF FrameOK
      <4>. QED BY <4>1 DEF IInv, OpenInv, FreshInv
    <3>4. ~[rx[x] EXCEPT !.st = st].rst
      BY <3>3 DEF NoRx
    <3>. QED BY <1>1, <3>2, <3>4, FrozenExcept
  <2>6. CASE HandleReset(e)
    <3>1. rx' = [rx EXCEPT ![x].rst = TRUE] /\ rx[x].st = "live"
      BY <1>4, <2>3, <2>6 DEF HandleReset, Live
    <3>2. PICK r : r = [rx[x] EXCEPT !.rst = TRUE]
      OBVIOUS
    <3>3. r.outst = rx[x].outst /\ r.pend = rx[x].pend /\ r.rxlen = rx[x].rxlen
      BY <2>4, <3>2 DEF RxStream
    <3>4. rx' = [rx EXCEPT ![x] = r]
      BY <3>1, <3>2
    <3>. QED BY <1>1, <3>1, <3>3, <3>4, FrozenExcept
  <2>7. CASE HandleData(e)
    <3>1. PICK r : rx' = [rx EXCEPT ![x] = r] /\ r.rst = rx[x].rst
      <4>1. \/ rx' = [rx EXCEPT ![x] = [Received(rx[x], g.n) EXCEPT !.rxlen = @ + g.n]]
            \/ rx' = [rx EXCEPT ![x] = Received(rx[x], g.n)]
        BY <1>4, <2>3, <2>7 DEF HandleData, ProtocolError, Drop
      <4>2. /\ [Received(rx[x], g.n) EXCEPT !.rxlen = @ + g.n].rst = rx[x].rst
            /\ Received(rx[x], g.n).rst = rx[x].rst
        BY <2>4, FlagKept
      <4>. QED BY <4>1, <4>2
    <3>2. ~rx[x].rst
      <4>1. Opener(x) = Peer(e) /\ Opener(x) # e
        BY <2>1, <2>2, <2>3, <2>7, Ends DEF FrameOK, HandleData, Receives
      <4>. QED BY <4>1, <1>4, <2>3, <2>7 DEF HandleData, ProtocolError, Drop, WasReset
    <3>. QED BY <1>1, <3>1, <3>2, FrozenExcept
  <2>8. CASE HandleEof(e)
    <3>1. PICK r : rx' = [rx EXCEPT ![x] = r] /\ r.rst = rx[x].rst
      <4>1. \/ rx' = [rx EXCEPT ![x] = [rx[x] EXCEPT !.fin = TRUE]]
            \/ rx' = [rx EXCEPT ![x] = Credited([rx[x] EXCEPT !.fin = TRUE], rx[x].pend)]
        BY <1>4, <2>3, <2>8 DEF HandleEof, ProtocolError, Drop
      <4>2. /\ [rx[x] EXCEPT !.fin = TRUE].rst = rx[x].rst
            /\ Credited([rx[x] EXCEPT !.fin = TRUE], rx[x].pend).rst = rx[x].rst
        BY <2>4, FlagKept
      <4>. QED BY <4>1, <4>2
    <3>2. ~rx[x].rst
      <4>1. Opener(x) = Peer(e) /\ Opener(x) # e
        BY <2>1, <2>2, <2>3, <2>8, Ends DEF FrameOK, HandleEof, Receives
      <4>. QED BY <4>1, <1>4, <2>3, <2>8 DEF HandleEof, ProtocolError, Drop, WasReset
    <3>. QED BY <1>1, <3>1, <3>2, FrozenExcept
  <2>. QED BY <1>4, <2>5, <2>6, <2>7, <2>8
       DEF ProcessFrame, HandleWindow, HandleGoaway, ProtocolError, Drop
<1>5. ASSUME DataReturn(e) \/ ResumeReturn(e), rx' # rx
      PROVE  \A id \in Ids : Frozen(id)
  <2>1. ~Idle(e)
    BY <1>5 DEF DataReturn, ResumeReturn
  <2>2. PICK x \in Ids : x = Top(e).id
    BY <1>1, <2>1, CallTypes DEF Top, Idle
  <2>3. rx[x] \in RxStream
    BY <1>1, StreamTypes
  <2>4. ~rx[x].rst
    BY <1>5, <2>2 DEF DataReturn, ResumeReturn
  <2>5. PICK r : rx' = [rx EXCEPT ![x] = r] /\ r.rst = rx[x].rst
    <3>1. CASE DataReturn(e)
      <4>1. PICK n : n = rx[x].pend + Top(e).n
        OBVIOUS
      <4>2. rx' = [rx EXCEPT ![x].pend = n] \/ rx' = [rx EXCEPT ![x] = Credited(@, n)]
        BY <1>5, <2>2, <3>1, <4>1 DEF DataReturn
      <4>3. [rx[x] EXCEPT !.pend = n].rst = rx[x].rst /\ Credited(rx[x], n).rst = rx[x].rst
        BY <2>3, FlagKept
      <4>. QED BY <4>2, <4>3
    <3>2. CASE ResumeReturn(e)
      <4>1. PICK n : n = rx[x].pend + Top(e).n
        OBVIOUS
      <4>2. PICK s : s = [rx[x] EXCEPT !.rxlen = 0]
        OBVIOUS
      <4>3. rx' = [rx EXCEPT ![x] = [s EXCEPT !.pend = n]] \/ rx' = [rx EXCEPT ![x] = Credited(s, n)]
        BY <1>5, <2>2, <3>2, <4>1, <4>2 DEF ResumeReturn
      <4>4. [s EXCEPT !.pend = n].rst = rx[x].rst /\ Credited(s, n).rst = rx[x].rst
        <5>1. /\ [[rx[x] EXCEPT !.rxlen = 0] EXCEPT !.pend = n].rst = rx[x].rst
              /\ Credited([rx[x] EXCEPT !.rxlen = 0], n).rst = rx[x].rst
          BY <2>3, FlagKept
        <5>. QED BY <5>1, <4>2
      <4>. QED BY <4>3, <4>4
    <3>. QED BY <1>5, <3>1, <3>2
  <2>. QED BY <1>1, <2>4, <2>5, FrozenExcept
<1>6. ASSUME NEW x \in Ids, StreamReset(e, x), rx' # rx
      PROVE  \A id \in Ids : Frozen(id)
  <2>1. rx' = [rx EXCEPT ![x].rst = TRUE] /\ rx[x].st = "live"
    BY <1>6 DEF StreamReset, Live
  <2>2. PICK r : r = [rx[x] EXCEPT !.rst = TRUE]
    OBVIOUS
  <2>3. r.outst = rx[x].outst /\ r.pend = rx[x].pend /\ r.rxlen = rx[x].rxlen
    BY <1>1, <2>2, StreamTypes DEF RxStream
  <2>4. rx' = [rx EXCEPT ![x] = r]
    BY <2>1, <2>2
  <2>. QED BY <1>1, <2>1, <2>3, <2>4, FrozenExcept
<1>7. ASSUME NEW x \in Ids, StreamPause(e, x)
      PROVE  \A id \in Ids : Frozen(id)
  <2>1. rx' = [rx EXCEPT ![x].paused = TRUE] /\ rx[x].st = "live"
    BY <1>7 DEF StreamPause
  <2>2. PICK r : r = [rx[x] EXCEPT !.paused = TRUE]
    OBVIOUS
  <2>3. r.outst = rx[x].outst /\ r.pend = rx[x].pend /\ r.rxlen = rx[x].rxlen
    BY <1>1, <2>2, StreamTypes DEF RxStream
  <2>4. rx' = [rx EXCEPT ![x] = r]
    BY <2>1, <2>2
  <2>. QED BY <1>1, <2>1, <2>3, <2>4, FrozenExcept
<1>8. ASSUME NEW x \in Ids, StreamRelease(e, x), rx' # rx
      PROVE  \A id \in Ids : Frozen(id)
  <2>1. rx' = [rx EXCEPT ![x].st = "gone"]
    BY <1>8 DEF StreamRelease
  <2>2. PICK r : r = [rx[x] EXCEPT !.st = "gone"]
    OBVIOUS
  <2>3. r.st # "live"
    BY <1>1, <2>2, StreamTypes DEF RxStream
  <2>4. rx' = [rx EXCEPT ![x] = r]
    BY <2>1, <2>2
  <2>. QED BY <1>1, <2>3, <2>4, FrozenExcept
<1>9. ASSUME NEW x \in Ids, StreamResume(e, x)
      PROVE  \A id \in Ids : Frozen(id)
  <2>1. ~rx[x].rst
    BY <1>9 DEF StreamResume, Contract
  <2>2. rx[x] \in RxStream
    BY <1>1, StreamTypes
  <2>3. PICK r : rx' = [rx EXCEPT ![x] = r] /\ r.rst = rx[x].rst
    <3>1. PICK s : s = [rx[x] EXCEPT !.paused = FALSE]
      OBVIOUS
    <3>2. rx' = [rx EXCEPT ![x] = s] \/ rx' = [rx EXCEPT ![x] = Credited(s, s.pend)]
      BY <1>9, <3>1 DEF StreamResume
    <3>3. s.rst = rx[x].rst /\ Credited(s, s.pend).rst = rx[x].rst
      BY <2>2, <3>1, FlagKept
    <3>. QED BY <3>2, <3>3
  <2>. QED BY <1>1, <2>1, <2>3, FrozenExcept
<1>. QED BY <1>2, <1>3, <1>4, <1>5, <1>6, <1>7, <1>8, <1>9
     DEF Return, App, WriteChunk, WriteReturn, StreamOpen, StreamWrite, StreamFinish, Close,
         OnWritable, OnError

\* The bytes of an open stream in the reader's hands fit its window.
OpenBounds ==
  \A id \in Ids : rx[id].st = "live" /\ ~rx[id].rst =>
    rx[id].outst <= Window[Reader(id)] /\ rx[id].pend + rx[id].rxlen <= rx[id].outst

LEMMA OpenWindow == IInv /\ Contract => OpenBounds
<1> SUFFICES ASSUME IInv, Contract, NEW id \in Ids, rx[id].st = "live", ~rx[id].rst
             PROVE  /\ rx[id].outst <= Window[Reader(id)]
                    /\ rx[id].pend + rx[id].rxlen <= rx[id].outst
  BY DEF OpenBounds
<1>1. TypeOK /\ CountInv /\ ReaderOf(id)
  BY ReaderAll DEF IInv
<1>2. /\ hist[id].sent \in Nat /\ hist[id].credited \in Nat /\ hist[id].granted \in Nat
      /\ hist[id].rcvd \in Nat /\ rx[id].outst \in Nat /\ rx[id].pend \in Nat /\ rx[id].rxlen \in Nat
  BY <1>1, StreamTypes
<1>3. PICK w \in Nat : w = Window[Reader(id)] /\ w = Window[Opener(id)]
  <2>1. Reader(id) \in End /\ Opener(id) \in End
    BY <1>1, StreamTypes
  <2>. QED BY <2>1, SessionAssumption DEF Contract, End
<1>4. /\ hist[id].credited <= hist[id].granted /\ hist[id].rcvd <= hist[id].sent
      /\ hist[id].sent <= w + hist[id].credited
  BY <1>1, <1>3 DEF CountInv
<1>5. rx[id].outst = hist[id].rcvd - hist[id].granted
  BY <1>1 DEF ReaderOf
<1>6. rx[id].pend + rx[id].rxlen <= rx[id].outst
  <2>1. CASE InCall(Reader(id), "data", id)
    <3>1. PICK i \in 1 .. Len(cb[Reader(id)]) :
            cb[Reader(id)][i].k = "data" /\ cb[Reader(id)][i].id = id
      BY <2>1 DEF InCall
    <3>2. rx[id].rxlen = 0 /\ rx[id].outst = rx[id].pend + cb[Reader(id)][i].n
      BY <3>1, <1>1 DEF ReaderOf
    <3>3. cb[Reader(id)][i].n \in Nat
      BY <1>1, StreamTypes, CallTypes
    <3>. QED BY <3>2, <3>3, <1>2
  <2>2. CASE ~InCall(Reader(id), "data", id)
    BY <2>2, <1>1, <1>2 DEF ReaderOf
  <2>. QED BY <2>1, <2>2
<1>. QED BY <1>2, <1>3, <1>4, <1>5, <1>6

\* The reader never holds more than its window, on any stream it has.
THEOREM ReaderWithinWindow == Contract => (Spec => []WindowRespected)
<1> SUFFICES ASSUME Contract PROVE Spec => []WindowRespected
  OBVIOUS
<1>1. Init => IInv /\ WindowRespected
  BY InitInv DEF Init, WindowRespected, NoRx
<1>2. ASSUME IInv, WindowRespected, [Next]_vars PROVE WindowRespected'
  <2>1. IInv'
    BY <1>2, NextInv
  <2>2. CASE UNCHANGED vars
    BY <1>2, <2>2 DEF vars, WindowRespected
  <2>3. CASE Next
    <3> SUFFICES ASSUME NEW id \in Ids, rx'[id].st = "live"
                 PROVE  /\ rx'[id].outst <= Window[Reader(id)]
                        /\ rx'[id].pend + rx'[id].rxlen <= rx'[id].outst
      BY DEF WindowRespected
    <3>1. CASE rx'[id].rst
      <4>1. Frozen(id)
        BY <1>2, <2>3, ResetFrozen
      <4>. QED BY <4>1, <3>1, <1>2 DEF Frozen, WindowRespected
    <3>2. CASE ~rx'[id].rst
      <4>1. OpenBounds'
        BY <2>1, OpenWindow, PTL
      <4>. QED BY <4>1, <3>2 DEF OpenBounds
    <3>. QED BY <3>1, <3>2
  <2>. QED BY <1>2, <2>2, <2>3
<1>3. IInv /\ WindowRespected /\ [Next]_vars => IInv' /\ WindowRespected'
  BY <1>2, NextInv
<1>. QED BY <1>1, <1>3, PTL DEF Spec

-----------------------------------------------------------------------------
(***************************************************************************)
(* The frames of a chain add up to the gap between its ends.               *)
(***************************************************************************)
LEMMA FirstOf ==
  ASSUME NEW S, S \subseteq Nat, S # {}
  PROVE  \E m \in S : \A k \in S : m <= k
<1>. DEFINE R == OpToRel(<, Nat)
<1>1. IsWellFoundedOn(R, Nat)
  BY NatLessThanWellFounded
<1>2. \A k, m \in Nat : k < m => <<k, m>> \in R
  BY DEF OpToRel
<1>. HIDE DEF R
<1>3. PICK m \in S : \A k \in S : ~(<<k, m>> \in R)
  BY <1>1, WFMin
<1>4. \A k \in S : m <= k
  <2>. SUFFICES ASSUME NEW k \in S PROVE m <= k
    OBVIOUS
  <2>1. k \in Nat /\ m \in Nat /\ ~(k < m)
    BY <1>2, <1>3
  <2>. QED BY <2>1
<1>. QED BY <1>4

LEMMA LastOf ==
  ASSUME NEW S, S \subseteq Nat, S # {}, NEW n \in Nat, \A i \in S : i <= n
  PROVE  \E i \in S : \A j \in S : j <= i
<1>. DEFINE T == {m \in Nat : n - m \in S}
<1>1. T # {}
  <2>1. PICK i \in S : TRUE
    OBVIOUS
  <2>2. n - i \in Nat /\ n - (n - i) = i
    BY <2>1
  <2>. QED BY <2>1, <2>2
<1>2. T \subseteq Nat
  OBVIOUS
<1>. HIDE DEF T
<1>3. PICK m \in T : \A k \in T : m <= k
  BY <1>1, <1>2, FirstOf
<1>4. n - m \in S /\ m \in Nat
  BY DEF T
<1>5. \A j \in S : j <= n - m
  <2>. SUFFICES ASSUME NEW j \in S PROVE j <= n - m
    OBVIOUS
  <2>1. j \in Nat /\ n - j \in Nat /\ n - (n - j) = j
    OBVIOUS
  <2>2. n - j \in T
    BY <2>1 DEF T
  <2>3. m <= n - j
    BY <1>3, <2>2
  <2>. QED BY <1>4, <2>1, <2>3
<1>. QED BY <1>4, <1>5

\* A recursion that steps through 0 .. n has at most one solution.
Adds(f, n, a) == f = [k \in 0 .. n |-> IF k = 0 THEN 0 ELSE f[k - 1] + a[k]]

LEMMA OneSum ==
  ASSUME NEW n \in Nat, NEW a, NEW f, NEW g, Adds(f, n, a), Adds(g, n, a)
  PROVE  f[n] = g[n]
<1>. DEFINE S == {k \in 0 .. n : f[k] # g[k]}
<1>. SUFFICES ASSUME S # {} PROVE FALSE
  OBVIOUS
<1>1. S \subseteq Nat
  OBVIOUS
<1>2. PICK m \in S : \A k \in S : m <= k
  BY <1>1, FirstOf
<1>3. m \in 0 .. n /\ f[m] # g[m]
  OBVIOUS
<1>4. \A k \in 0 .. n : f[k] = (IF k = 0 THEN 0 ELSE f[k - 1] + a[k])
  BY DEF Adds
<1>5. \A k \in 0 .. n : g[k] = (IF k = 0 THEN 0 ELSE g[k - 1] + a[k])
  BY DEF Adds
<1>6. m # 0
  BY <1>3, <1>4, <1>5
<1>7. m - 1 \in 0 .. n /\ ~(m <= m - 1)
  BY <1>3, <1>6
<1>8. f[m - 1] = g[m - 1]
  BY <1>2, <1>7
<1>. QED BY <1>3, <1>4, <1>5, <1>6, <1>8

\* What one frame adds.
Amount(w, t, id) == [k \in 1 .. Len(w) |-> IF Is(w, k, t, id) THEN w[k].n ELSE 0]

\* The end of the last of the first k frames that is about it, or lo if there is none.
Reached(w, t, id, lo, k, x) ==
  \/ x = lo /\ \A i \in 1 .. k : ~Is(w, i, t, id)
  \/ \E i \in 1 .. k : /\ Is(w, i, t, id) /\ x = w[i].off + w[i].n
                       /\ \A j \in 1 .. k : Is(w, j, t, id) => j <= i

LEMMA ReachedIs ==
  ASSUME NEW w \in Seq(Frame), NEW t, NEW id, NEW lo \in Nat, NEW k \in 0 .. Len(w)
  PROVE  \E x \in Nat : Reached(w, t, id, lo, k, x)
<1>. DEFINE S == {i \in 1 .. k : Is(w, i, t, id)}
<1>1. S \subseteq Nat /\ k \in Nat /\ \A i \in S : i <= k
  OBVIOUS
<1>2. CASE S = {}
  BY <1>2 DEF Reached
<1>3. CASE S # {}
  <2>1. PICK i \in S : \A j \in S : j <= i
    BY <1>1, <1>3, LastOf
  <2>2. w[i].off + w[i].n \in Nat /\ i \in 1 .. k
    <3>1. i \in 1 .. Len(w)
      OBVIOUS
    <3>2. w[i].off \in Nat /\ w[i].n \in Nat
      BY <3>1, FrameFields
    <3>. QED BY <3>2
  <2>. QED BY <2>1, <2>2 DEF Reached
<1>. QED BY <1>2, <1>3

LEMMA ReachedOnce ==
  ASSUME NEW w \in Seq(Frame), NEW t, NEW id, NEW lo, NEW k \in 0 .. Len(w), NEW x, NEW y,
         Reached(w, t, id, lo, k, x), Reached(w, t, id, lo, k, y)
  PROVE  x = y
<1>1. CASE \A i \in 1 .. k : ~Is(w, i, t, id)
  BY <1>1 DEF Reached
<1>2. CASE \E i \in 1 .. k : Is(w, i, t, id)
  <2>1. PICK i \in 1 .. k : /\ Is(w, i, t, id) /\ x = w[i].off + w[i].n
                            /\ \A j \in 1 .. k : Is(w, j, t, id) => j <= i
    BY <1>2 DEF Reached
  <2>2. PICK j \in 1 .. k : /\ Is(w, j, t, id) /\ y = w[j].off + w[j].n
                            /\ \A h \in 1 .. k : Is(w, h, t, id) => h <= j
    BY <1>2 DEF Reached
  <2>3. i <= j /\ j <= i /\ i \in Nat /\ j \in Nat
    BY <2>1, <2>2
  <2>4. i = j
    BY <2>3
  <2>. QED BY <2>1, <2>2, <2>4
<1>. QED BY <1>1, <1>2

\* Each frame of a chain starts where the one before it ends.
LEMMA ReachedNext ==
  ASSUME NEW w \in Seq(Frame), NEW t, NEW id, NEW lo \in Nat, NEW hi \in Nat,
         Chain(w, t, id, lo, hi),
         NEW k \in 1 .. Len(w), NEW x \in Nat, Reached(w, t, id, lo, k - 1, x)
  PROVE  Reached(w, t, id, lo, k, x + Amount(w, t, id)[k])
<1>1. k - 1 \in 0 .. Len(w) /\ \A i \in 1 .. k : i = k \/ i \in 1 .. k - 1
  OBVIOUS
<1>2. CASE ~Is(w, k, t, id)
  <2>1. Amount(w, t, id)[k] = 0
    BY <1>2 DEF Amount
  <2>2. x + Amount(w, t, id)[k] = x
    BY <2>1
  <2>3. Reached(w, t, id, lo, k, x)
    <3>1. CASE x = lo /\ \A i \in 1 .. k - 1 : ~Is(w, i, t, id)
      BY <1>1, <1>2, <3>1 DEF Reached
    <3>2. CASE \E i \in 1 .. k - 1 : /\ Is(w, i, t, id) /\ x = w[i].off + w[i].n
                                     /\ \A j \in 1 .. k - 1 : Is(w, j, t, id) => j <= i
      <4>1. PICK i \in 1 .. k - 1 : /\ Is(w, i, t, id) /\ x = w[i].off + w[i].n
                                    /\ \A j \in 1 .. k - 1 : Is(w, j, t, id) => j <= i
        BY <3>2
      <4>2. \A j \in 1 .. k : Is(w, j, t, id) => j <= i
        BY <1>1, <1>2, <4>1
      <4>. QED BY <4>1, <4>2 DEF Reached
    <3>. QED BY <3>1, <3>2 DEF Reached
  <2>. QED BY <2>2, <2>3
<1>3. CASE Is(w, k, t, id)
  <2>1. Amount(w, t, id)[k] = w[k].n
    BY <1>3 DEF Amount
  <2>2. \A i \in 1 .. Len(w) : w[i].off \in Nat /\ w[i].n \in Nat
    BY FrameFields
  <2>3. x = w[k].off
    <3>1. CASE x = lo /\ \A i \in 1 .. k - 1 : ~Is(w, i, t, id)
      <4>1. ~\E h \in 1 .. Len(w) : h < k /\ Is(w, h, t, id) /\ w[h].off + w[h].n = w[k].off
        BY <3>1
      <4>. QED BY <1>3, <3>1, <4>1 DEF Chain
    <3>2. CASE \E i \in 1 .. k - 1 : /\ Is(w, i, t, id) /\ x = w[i].off + w[i].n
                                     /\ \A j \in 1 .. k - 1 : Is(w, j, t, id) => j <= i
      <4>1. PICK i \in 1 .. k - 1 : /\ Is(w, i, t, id) /\ x = w[i].off + w[i].n
                                    /\ \A j \in 1 .. k - 1 : Is(w, j, t, id) => j <= i
        BY <3>2
      <4>2. i \in 1 .. Len(w) /\ i < k /\ k \in 1 .. Len(w)
        OBVIOUS
      <4>3. /\ w[i].n > 0 /\ lo <= w[i].off /\ w[i].off + w[i].n <= w[k].off
            /\ \A h \in 1 .. Len(w) : Is(w, h, t, id) /\ h < i => w[h].off + w[h].n <= w[i].off
        BY <1>3, <4>1, <4>2 DEF Chain
      <4>4. w[k].off # lo
        BY <2>2, <4>2, <4>3
      <4>5. PICK h \in 1 .. Len(w) : h < k /\ Is(w, h, t, id) /\ w[h].off + w[h].n = w[k].off
        BY <1>3, <4>4 DEF Chain
      <4>6. h \in 1 .. k - 1
        BY <4>5
      <4>7. h <= i
        BY <4>1, <4>5, <4>6
      <4>8. ~(h < i)
        BY <2>2, <4>2, <4>3, <4>5
      <4>9. h = i
        BY <4>2, <4>7, <4>8
      <4>. QED BY <4>1, <4>5, <4>9
    <3>. QED BY <3>1, <3>2 DEF Reached
  <2>4. \A j \in 1 .. k : j <= k
    OBVIOUS
  <2>5. Reached(w, t, id, lo, k, w[k].off + w[k].n)
    BY <1>3, <2>4 DEF Reached
  <2>. QED BY <2>1, <2>3, <2>5
<1>. QED BY <1>2, <1>3

LEMMA ReachedEnd ==
  ASSUME NEW w \in Seq(Frame), NEW t, NEW id, NEW lo \in Nat, NEW hi \in Nat,
         Chain(w, t, id, lo, hi), NEW x \in Nat, Reached(w, t, id, lo, Len(w), x)
  PROVE  x = hi
<1>1. \A i \in 1 .. Len(w) : w[i].off \in Nat /\ w[i].n \in Nat
  BY FrameFields
<1>2. CASE x = lo /\ \A i \in 1 .. Len(w) : ~Is(w, i, t, id)
  BY <1>2 DEF Chain
<1>3. CASE \E i \in 1 .. Len(w) : /\ Is(w, i, t, id) /\ x = w[i].off + w[i].n
                                  /\ \A j \in 1 .. Len(w) : Is(w, j, t, id) => j <= i
  <2>1. PICK i \in 1 .. Len(w) : /\ Is(w, i, t, id) /\ x = w[i].off + w[i].n
                                 /\ \A j \in 1 .. Len(w) : Is(w, j, t, id) => j <= i
    BY <1>3
  <2>2. /\ w[i].n > 0 /\ lo <= w[i].off /\ x <= hi
        /\ \A h \in 1 .. Len(w) : Is(w, h, t, id) /\ h < i => w[h].off + w[h].n <= w[i].off
    BY <2>1 DEF Chain
  <2>3. lo # hi
    BY <1>1, <2>1, <2>2
  <2>4. PICK h \in 1 .. Len(w) : Is(w, h, t, id) /\ w[h].off + w[h].n = hi
    BY <2>3 DEF Chain
  <2>5. h <= i
    BY <2>1, <2>4
  <2>6. ~(h < i)
    BY <1>1, <2>1, <2>2, <2>4
  <2>7. h = i
    BY <2>5, <2>6
  <2>. QED BY <2>1, <2>4, <2>7
<1>. QED BY <1>2, <1>3 DEF Reached

LEMMA CarriedIs ==
  ASSUME NEW w \in Seq(Frame), NEW t, NEW id, NEW lo \in Nat, NEW hi \in Nat,
         Chain(w, t, id, lo, hi)
  PROVE  Carried(w, t, id) = hi - lo
<1>. DEFINE n == Len(w)
            a == Amount(w, t, id)
            at(k) == CHOOSE x \in Nat : Reached(w, t, id, lo, k, x)
            G == [k \in 0 .. n |-> at(k) - lo]
            f == CHOOSE g : g = [k \in 0 .. n |->
                   IF k = 0 THEN 0 ELSE g[k - 1] + IF Is(w, k, t, id) THEN w[k].n ELSE 0]
<1>1. n \in Nat
  OBVIOUS
<1>2. \A k \in 0 .. n : at(k) \in Nat /\ Reached(w, t, id, lo, k, at(k))
  BY ReachedIs
<1>3. \A k \in 1 .. n : a[k] = (IF Is(w, k, t, id) THEN w[k].n ELSE 0) /\ a[k] \in Nat
  BY FrameFields DEF Amount
<1>4. Carried(w, t, id) = f[n]
  BY DEF Carried
<1>. HIDE DEF n, a, at, f
<1>5. at(0) = lo
  <2>1. 0 \in 0 .. n /\ 1 .. 0 = {}
    BY <1>1
  <2>. QED BY <1>2, <2>1 DEF Reached
<1>6. \A k \in 1 .. n : at(k) = at(k - 1) + a[k]
  <2>. SUFFICES ASSUME NEW k \in 1 .. n PROVE at(k) = at(k - 1) + a[k]
    OBVIOUS
  <2>1. k - 1 \in 0 .. n /\ k \in 0 .. n /\ k \in 1 .. Len(w)
    BY <1>1 DEF n
  <2>2. at(k - 1) \in Nat /\ Reached(w, t, id, lo, k - 1, at(k - 1))
    BY <1>2, <2>1
  <2>3. Reached(w, t, id, lo, k, at(k - 1) + a[k])
    BY <2>1, <2>2, ReachedNext DEF a
  <2>4. k \in 0 .. Len(w) /\ Reached(w, t, id, lo, k, at(k))
    BY <1>2, <2>1 DEF n
  <2>. QED BY <2>3, <2>4, ReachedOnce
<1>7. Adds(G, n, a)
  <2>1. G = [k \in 0 .. n |-> IF k = 0 THEN 0 ELSE G[k - 1] + a[k]]
    <3>. SUFFICES ASSUME NEW k \in 0 .. n
                  PROVE  at(k) - lo = IF k = 0 THEN 0 ELSE G[k - 1] + a[k]
      OBVIOUS
    <3>1. CASE k = 0
      BY <1>5, <3>1
    <3>2. CASE k # 0
      <4>1. k - 1 \in 0 .. n /\ k \in 1 .. n
        BY <1>1, <3>2
      <4>2. G[k - 1] = at(k - 1) - lo
        BY <4>1
      <4>3. at(k) = at(k - 1) + a[k] /\ at(k - 1) \in Nat /\ a[k] \in Nat
        BY <1>2, <1>3, <1>6, <4>1
      <4>. QED BY <3>2, <4>2, <4>3
    <3>. QED BY <3>1, <3>2
  <2>. QED BY <2>1 DEF Adds
<1>8. \A g : Adds(g, n, a) <=>
        g = [k \in 0 .. n |->
              IF k = 0 THEN 0 ELSE g[k - 1] + IF Is(w, k, t, id) THEN w[k].n ELSE 0]
  <2>. SUFFICES ASSUME NEW g
                PROVE  [k \in 0 .. n |-> IF k = 0 THEN 0 ELSE g[k - 1] + a[k]]
                       = [k \in 0 .. n |->
                           IF k = 0 THEN 0
                           ELSE g[k - 1] + IF Is(w, k, t, id) THEN w[k].n ELSE 0]
    BY DEF Adds
  <2>1. \A k \in 0 .. n : k # 0 => k \in 1 .. n
    BY <1>1
  <2>. QED BY <1>3, <2>1
<1>9. Adds(f, n, a)
  <2>1. f = [k \in 0 .. n |->
              IF k = 0 THEN 0 ELSE f[k - 1] + IF Is(w, k, t, id) THEN w[k].n ELSE 0]
    BY <1>7, <1>8 DEF f
  <2>. QED BY <1>8, <2>1
<1>10. f[n] = G[n]
  BY <1>1, <1>7, <1>9, OneSum
<1>11. at(n) = hi
  <2>1. n \in 0 .. n
    BY <1>1
  <2>2. at(n) \in Nat /\ Reached(w, t, id, lo, Len(w), at(n))
    BY <1>2, <2>1 DEF n
  <2>. QED BY <2>2, ReachedEnd
<1>12. G[n] = at(n) - lo
  BY <1>1
<1>. QED BY <1>4, <1>10, <1>11, <1>12

\* Credit is neither lost nor made on a stream open at both ends: stream_write takes
\* it from the window, handle_data puts it on the reader's account, stream_credit
\* sends it back and handle_window returns it to the window.
THEOREM CreditIsConserved == Contract => (Spec => []CreditConserved)
<1>1. ASSUME IInv PROVE CreditConserved
  <2>. SUFFICES ASSUME NEW id \in Ids, tx[id].st = "live", rx[id].st = "live",
                       ~tx[id].rst, ~rx[id].rst, ~Writing(Opener(id))
                PROVE  tx[id].win + Carried(chan[Opener(id)], "DATA", id)
                         + rx[id].outst + Carried(chan[Reader(id)], "WINDOW", id)
                       = Window[Opener(id)]
    BY DEF CreditConserved
  <2>1. TypeOK /\ DataInv /\ CreditInv /\ WriterInv /\ ReaderInv
    BY <1>1 DEF IInv
  <2>2. /\ Opener(id) \in End /\ Reader(id) \in End /\ tx[id].win \in Nat /\ rx[id].outst \in Nat
        /\ hist[id].sent \in Nat /\ hist[id].rcvd \in Nat
        /\ hist[id].granted \in Nat /\ hist[id].credited \in Nat
    BY <2>1, StreamTypes
  <2>3. \A e \in End : chan[e] \in Seq(Frame) /\ Window[e] \in Nat
    BY <2>1, SessionAssumption DEF TypeOK
  <2>4. Carried(chan[Opener(id)], "DATA", id) = hist[id].sent - hist[id].rcvd
    <3>1. Chain(chan[Opener(id)], "DATA", id, hist[id].rcvd, hist[id].sent)
      BY <2>1 DEF DataInv
    <3>. QED BY <2>2, <2>3, <3>1, CarriedIs
  <2>5. Carried(chan[Reader(id)], "WINDOW", id) = hist[id].granted - hist[id].credited
    <3>1. Chain(chan[Reader(id)], "WINDOW", id, hist[id].credited, hist[id].granted)
      BY <2>1 DEF CreditInv
    <3>. QED BY <2>2, <2>3, <3>1, CarriedIs
  <2>6. tx[id].win = Window[Opener(id)] + hist[id].credited - hist[id].sent
    <3>1. WriterOf(id)
      BY <2>1, WriterAll
    <3>. QED BY <3>1 DEF WriterOf
  <2>7. rx[id].outst = hist[id].rcvd - hist[id].granted
    <3>1. ReaderOf(id)
      BY <2>1, ReaderAll
    <3>. QED BY <3>1 DEF ReaderOf
  <2>8. Window[Opener(id)] \in Nat
    BY <2>2, <2>3
  <2>. QED BY <2>2, <2>4, <2>5, <2>6, <2>7, <2>8
<1>. QED BY <1>1, InvariantHolds, PTL
=============================================================================
