--------------------------- MODULE TransferProofs ---------------------------
(***************************************************************************)
(* Proofs about Transfer, for cards of any length, any window and any      *)
(* faults.                                                                 *)
(*                                                                         *)
(* What a device has is told by what is still under way to it: frames      *)
(* arrive in order and only the end of a queue can be lost, so the EOF of  *)
(* a card that is still in the queue has all the pieces before it that     *)
(* were not handed over yet.  Queues are therefore described by the order  *)
(* of their frames and by how many there are of each.                      *)
(***************************************************************************)
EXTENDS TransferExchange, FunctionTheorems, FiniteSetTheorems, SequenceTheorems, TLAPS

\* How many frames f are in the queue q.
Count(q, f) == Cardinality({i \in 1 .. Len(q) : q[i] = f})
N(d, f) == Count(wire[d], f)

\* HELLO comes first; of a card CARD, then the pieces, then EOF.
Before(f, g) ==
  /\ g # "HELLO"
  /\ g = "CARD" => f \notin {"CARD", "DATA", "EOF"}
  /\ g \in {"DATA", "EOF"} => f # "EOF"
Ordered(q) == \A i, j \in 1 .. Len(q) : i < j => Before(q[i], q[j])

Gone == {"closed", "dead"}

\* What d has sent can be told from what has passed between the two.
HelloFirst(d) ==
  /\ Ordered(wire[d])
  /\ N(d, "HELLO") > 0 => ~pub[Peer(d)].hello_ready
  /\ session[d] \in {"none", "wait"} =>
       wire[d] = <<>> /\ ~pub[d].hello_ready /\ ~pub[Peer(d)].hello_ready
  /\ ~pub[d].hello_ready =>
       /\ io[d].sent = 0 /\ N(d, "CARD") = 0 /\ N(d, "DATA") = 0 /\ N(d, "EOF") = 0
       /\ N(Peer(d), "WINDOW") = 0

\* Both hellos say the same of what is to move.
Agreed(d) ==
  /\ pub[d].hello_ready => (pub[d].will_recv <=> WillReceive(d))
  /\ pub[d].will_recv => pub[d].hello_ready
  /\ pub[d].will_send => pub[d].hello_ready /\ WantsToSend(d)

\* The card of d: no piece is lost before the EOF that is still under way.
CardInOrder(d) ==
  /\ N(d, "CARD") > 0 => io[Peer(d)].got = 0 /\ WantsToSend(d)
  /\ io[Peer(d)].got + N(d, "DATA") <= io[d].sent
  /\ Reached(d) /\ session[d] = "up" => io[Peer(d)].got + N(d, "DATA") = io[d].sent
  /\ N(d, "EOF") > 0 => io[Peer(d)].got + N(d, "DATA") = Chunks /\ pub[d].send_done
  /\ pub[Peer(d)].inbound_complete => io[Peer(d)].got = Chunks
  /\ io[d].win + N(d, "DATA") + N(Peer(d), "WINDOW") <= Window

\* d acknowledges what it was given whole.
AckIsTrue(d) ==
  /\ N(d, "ACK") > 0 \/ pub[Peer(d)].got_peer_ack => io[d].acked
  /\ io[d].acked =>
       pub[d].hello_ready /\ (pub[d].will_recv => pub[d].inbound_complete)

\* The temporary file of d.
TempIsPart(d) ==
  /\ session[d] \in {"none", "wait"} => disk[d].temp = "none"
  /\ disk[d].temp = "part" => io[d].got < Chunks /\ (session[d] = "up" => io[d].file)
  /\ io[d].file => ~pub[d].inbound_complete
  /\ io[d].file \/ disk[d].temp # "none" => WillReceive(d)
  /\ ui[d].finalized => disk[d].temp = "none" /\ pub[d].inbound_complete /\ pub[d].will_recv
  /\ ui[d].finalized /\ ui[d].recv_ok => disk[d].card \in {"whole", "torn"}
  /\ disk[d].card # "part"

\* Where the screen of d is.
ScreenIsTrue(d) ==
  /\ ui[d].pc \in {"take", "message", "off", "booted"} <=> session[d] \in Gone
  /\ ui[d].ok => /\ ui[d].pc \in Ending /\ ui[d].recv_ok /\ pub[d].hello_ready
                 /\ pub[d].will_recv => ui[d].finalized
  /\ ui[d].pc = "record" => ui[d].finalized /\ ui[d].recv_ok
  /\ ~ui[d].recv_ok => ui[d].finalized
  /\ ui[d].pc \in {"take", "message"} \/ nvs[d].msg # "none" => disk[d].temp = "none"
  /\ nvs[d].msg # "none" =>
       ui[d].pc \in {"off", "booted"} /\ (nvs[d].msg = "complete" <=> ui[d].ok)

\* The record is that of a card in the gallery, until a failure withdraws it or a
\* boot uses it up, unless the NVS fails.
RecordIsTrue(d) ==
  /\ nvs[d].record => ui[d].finalized /\ ui[d].recv_ok
  /\ nvs[d].record /\ ui[d].pc = "message" => ui[d].ok \/ "nvs" \in Faults[d]
  /\ nvs[d].record => (nvs[d].msg # "failed" /\ ui[d].pc # "booted") \/ "nvs" \in Faults[d]

\* What is under way from d, and what d knows and has done.
PairInv(d) == HelloFirst(d) /\ CardInOrder(d) /\ AckIsTrue(d)
LocalInv(d) == Agreed(d) /\ TempIsPart(d) /\ ScreenIsTrue(d) /\ RecordIsTrue(d)

IInv == TypeOK /\ \A d \in Device : PairInv(d) /\ LocalInv(d)
-----------------------------------------------------------------------------
(***************************************************************************)
(* Queues.                                                                 *)
(***************************************************************************)
LEMMA CountFinite ==
  ASSUME NEW q \in Seq(Frames), NEW f
  PROVE  /\ IsFiniteSet({i \in 1 .. Len(q) : q[i] = f})
         /\ Count(q, f) \in Nat
         /\ Count(q, f) = 0 <=> \A i \in 1 .. Len(q) : q[i] # f
<1>. DEFINE S == {i \in 1 .. Len(q) : q[i] = f}
<1>1. IsFiniteSet(1 .. Len(q))
  BY FS_Interval, LenProperties
<1>2. IsFiniteSet(S)
  <2>1. S \in SUBSET (1 .. Len(q))
    OBVIOUS
  <2>. QED
    BY <1>1, <2>1, FS_Subset
<1>3. Cardinality(S) \in Nat
  BY <1>2, FS_CardinalityType
<1>4. Cardinality(S) = 0 <=> S = {}
  BY <1>2, FS_EmptySet
<1>. QED
  BY <1>2, <1>3, <1>4 DEF Count

LEMMA CountSingle ==
  ASSUME NEW f \in Frames, NEW g
  PROVE  /\ <<f>> \in Seq(Frames) /\ <<>> \in Seq(Frames)
         /\ Count(<<f>>, g) = IF f = g THEN 1 ELSE 0
         /\ Count(<<>>, g) = 0
         /\ Ordered(<<f>>) /\ Ordered(<<>>)
<1>1. Count(<<f>>, g) = IF f = g THEN 1 ELSE 0
  <2>. DEFINE S == {i \in 1 .. Len(<<f>>) : <<f>>[i] = g}
  <2>1. CASE f = g
    <3>1. S = {1}
      BY <2>1
    <3>. QED
      BY <2>1, <3>1, FS_Singleton DEF Count
  <2>2. CASE f # g
    <3>1. S = {}
      BY <2>2
    <3>. QED
      BY <2>2, <3>1, FS_EmptySet DEF Count
  <2>. QED
    BY <2>1, <2>2
<1>2. Count(<<>>, g) = 0
  <2>1. {i \in 1 .. Len(<<>>) : <<>>[i] = g} = {}
    OBVIOUS
  <2>. QED
    BY <2>1, FS_EmptySet DEF Count
<1>3. Ordered(<<f>>) /\ Ordered(<<>>)
  BY DEF Ordered
<1>. QED
  BY <1>1, <1>2, <1>3

\* A queue and what is added to it.
LEMMA CountConcat ==
  ASSUME NEW q \in Seq(Frames), NEW r \in Seq(Frames), NEW f
  PROVE  q \o r \in Seq(Frames) /\ Count(q \o r, f) = Count(q, f) + Count(r, f)
<1>. DEFINE A == {i \in 1 .. Len(q) : q[i] = f}
            B == {i \in 1 .. Len(r) : r[i] = f}
            C == {i \in 1 .. Len(q \o r) : (q \o r)[i] = f}
            D == {i \in C : i > Len(q)}
            m == [i \in B |-> i + Len(q)]
<1>1. /\ Len(q) \in Nat /\ Len(r) \in Nat /\ q \o r \in Seq(Frames)
      /\ Len(q \o r) = Len(q) + Len(r)
      /\ \A i \in 1 .. Len(q) + Len(r) :
           (q \o r)[i] = IF i <= Len(q) THEN q[i] ELSE r[i - Len(q)]
  BY LenProperties, ConcatProperties
<1>. HIDE DEF A, B, C, D, m
<1>2. IsFiniteSet(A) /\ IsFiniteSet(B)
  BY CountFinite DEF A, B
<1>3. m \in Bijection(B, D)
  <2>1. \A i \in B : i + Len(q) \in D
    BY <1>1 DEF B, C, D
  <2>2. m \in [B -> D]
    BY <2>1 DEF m
  <2>3. \A i, j \in B : m[i] = m[j] => i = j
    BY <1>1 DEF m, B
  <2>4. \A k \in D : k - Len(q) \in B /\ m[k - Len(q)] = k
    BY <1>1 DEF m, B, C, D
  <2>. QED
    BY <2>2, <2>3, <2>4, Fun_IsBij
<1>4. IsFiniteSet(D) /\ Cardinality(D) = Cardinality(B)
  BY <1>2, <1>3, FS_Bijection DEF ExistsBijection
<1>5. C = A \cup D /\ A \cap D = {}
  BY <1>1 DEF A, C, D
<1>6. Cardinality(C) = Cardinality(A) + Cardinality(D)
  <2>1. Cardinality(A \cup D) = Cardinality(A) + Cardinality(D) - Cardinality(A \cap D)
    BY <1>2, <1>4, FS_Union
  <2>2. Cardinality(A \cap D) = 0
    BY <1>5, FS_EmptySet
  <2>3. Cardinality(A) \in Nat /\ Cardinality(D) \in Nat
    BY <1>2, <1>4, FS_CardinalityType
  <2>. QED
    BY <1>5, <2>1, <2>2, <2>3
<1>. QED
  BY <1>1, <1>4, <1>6 DEF Count, A, B, C

LEMMA OrderedConcat ==
  ASSUME NEW q \in Seq(Frames), NEW r \in Seq(Frames), Ordered(q), Ordered(r),
         Count(r, "HELLO") > 0 => q = <<>>,
         Count(r, "CARD") > 0 =>
           Count(q, "CARD") = 0 /\ Count(q, "DATA") = 0 /\ Count(q, "EOF") = 0,
         Count(r, "DATA") > 0 \/ Count(r, "EOF") > 0 => Count(q, "EOF") = 0
  PROVE  Ordered(q \o r)
<1>1. /\ Len(q) \in Nat /\ Len(r) \in Nat
      /\ Len(q \o r) = Len(q) + Len(r)
      /\ \A i \in 1 .. Len(q) + Len(r) :
           (q \o r)[i] = IF i <= Len(q) THEN q[i] ELSE r[i - Len(q)]
  BY LenProperties, ConcatProperties
<1>2. \A f : Count(q, f) \in Nat /\ (Count(q, f) = 0 <=> \A i \in 1 .. Len(q) : q[i] # f)
  BY CountFinite
<1>3. \A f : Count(r, f) \in Nat /\ (Count(r, f) = 0 <=> \A i \in 1 .. Len(r) : r[i] # f)
  BY CountFinite
<1>4. \A i \in 1 .. Len(q), j \in 1 .. Len(r) : Before(q[i], r[j])
  <2>. SUFFICES ASSUME NEW i \in 1 .. Len(q), NEW j \in 1 .. Len(r)
                PROVE  Before(q[i], r[j])
    OBVIOUS
  <2>1. r[j] # "HELLO"
    BY <1>1, <1>3
  <2>2. r[j] = "CARD" => q[i] \notin {"CARD", "DATA", "EOF"}
    BY <1>2, <1>3
  <2>3. r[j] \in {"DATA", "EOF"} => q[i] # "EOF"
    BY <1>2, <1>3
  <2>. QED
    BY <2>1, <2>2, <2>3 DEF Before
<1>. SUFFICES ASSUME NEW i \in 1 .. Len(q \o r), NEW j \in 1 .. Len(q \o r), i < j
              PROVE  Before((q \o r)[i], (q \o r)[j])
  BY DEF Ordered
<1>5. CASE j <= Len(q)
  BY <1>1, <1>5 DEF Ordered
<1>6. CASE i > Len(q)
  <2>1. i - Len(q) \in 1 .. Len(r) /\ j - Len(q) \in 1 .. Len(r) /\ i - Len(q) < j - Len(q)
    BY <1>1, <1>6
  <2>2. Before(r[i - Len(q)], r[j - Len(q)])
    BY <2>1 DEF Ordered
  <2>. QED
    BY <1>1, <1>6, <2>2
<1>7. CASE i <= Len(q) /\ j > Len(q)
  <2>1. i \in 1 .. Len(q) /\ j - Len(q) \in 1 .. Len(r)
    BY <1>1, <1>7
  <2>. QED
    BY <1>1, <1>4, <1>7, <2>1
<1>. QED
  BY <1>1, <1>5, <1>6, <1>7

\* What is handed over is the first frame.
LEMMA CountTail ==
  ASSUME NEW q \in Seq(Frames), q # <<>>, NEW f
  PROVE  /\ Head(q) \in Frames /\ Tail(q) \in Seq(Frames)
         /\ Count(q, f) = Count(Tail(q), f) + IF Head(q) = f THEN 1 ELSE 0
<1>1. Head(q) \in Frames /\ Tail(q) \in Seq(Frames) /\ q = <<Head(q)>> \o Tail(q)
  <2>1. Head(q) \in Frames /\ Tail(q) \in Seq(Frames)
    BY HeadTailProperties
  <2>. DEFINE t == <<Head(q)>> \o Tail(q)
  <2>2. <<Head(q)>> \in Seq(Frames) /\ Len(<<Head(q)>>) = 1 /\ <<Head(q)>>[1] = Head(q)
    BY <2>1
  <2>3. t \in Seq(Frames) /\ Len(t) = 1 + Len(Tail(q))
        /\ \A i \in 1 .. 1 + Len(Tail(q)) : t[i] = IF i <= 1 THEN <<Head(q)>>[i] ELSE Tail(q)[i - 1]
    BY <2>1, <2>2, ConcatProperties
  <2>4. Len(Tail(q)) = Len(q) - 1 /\ \A i \in 1 .. Len(Tail(q)) : Tail(q)[i] = q[i + 1]
    BY HeadTailProperties
  <2>5. Len(q) \in Nat /\ Len(q) > 0 /\ Head(q) = q[1]
    BY LenProperties
  <2>6. Len(t) = Len(q) /\ \A i \in 1 .. Len(q) : t[i] = q[i]
    <3>1. Len(t) = Len(q)
      BY <2>3, <2>4, <2>5
    <3>2. ASSUME NEW i \in 1 .. Len(q)
          PROVE  t[i] = q[i]
      <4>1. CASE i = 1
        BY <2>2, <2>3, <2>4, <2>5, <4>1
      <4>2. CASE i > 1
        <5>1. i - 1 \in 1 .. Len(Tail(q)) /\ i \in 1 .. 1 + Len(Tail(q))
          BY <2>4, <2>5, <4>2
        <5>2. t[i] = Tail(q)[i - 1] /\ Tail(q)[i - 1] = q[(i - 1) + 1]
          BY <2>3, <2>4, <4>2, <5>1
        <5>. QED
          BY <5>2
      <4>. QED
        BY <2>5, <4>1, <4>2
    <3>. QED
      BY <3>1, <3>2
  <2>7. t = q
    BY <2>3, <2>6, SeqEqual
  <2>. QED
    BY <2>1, <2>7
<1>2. <<Head(q)>> \in Seq(Frames)
  BY <1>1
<1>3. Count(<<Head(q)>> \o Tail(q), f) = Count(<<Head(q)>>, f) + Count(Tail(q), f)
  BY <1>1, <1>2, CountConcat
<1>4. Count(<<Head(q)>>, f) = IF Head(q) = f THEN 1 ELSE 0
  BY <1>1, CountSingle
<1>5. Count(Tail(q), f) \in Nat
  BY <1>1, CountFinite
<1>6. Count(q, f) = Count(<<Head(q)>>, f) + Count(Tail(q), f)
  BY <1>1, <1>3
<1>. QED
  BY <1>1, <1>4, <1>5, <1>6

LEMMA OrderedTail ==
  ASSUME NEW q \in Seq(Frames), q # <<>>, Ordered(q)
  PROVE  /\ Ordered(Tail(q))
         /\ Count(Tail(q), "HELLO") = 0
         /\ Head(q) \in {"CARD", "DATA", "EOF"} => Count(Tail(q), "CARD") = 0
         /\ Head(q) = "EOF" => Count(Tail(q), "DATA") = 0 /\ Count(Tail(q), "EOF") = 0
<1>1. /\ Len(q) \in Nat /\ Len(q) > 0 /\ Head(q) = q[1] /\ Tail(q) \in Seq(Frames)
      /\ Len(Tail(q)) = Len(q) - 1
      /\ \A i \in 1 .. Len(Tail(q)) : Tail(q)[i] = q[i + 1]
  BY LenProperties, HeadTailProperties
<1>2. Ordered(Tail(q))
  BY <1>1 DEF Ordered
<1>3. \A i \in 1 .. Len(Tail(q)) : Before(Head(q), Tail(q)[i])
  BY <1>1 DEF Ordered
<1>4. \A f : (\A i \in 1 .. Len(Tail(q)) : Tail(q)[i] # f) => Count(Tail(q), f) = 0
  BY <1>1, CountFinite
<1>. QED
  BY <1>2, <1>3, <1>4 DEF Before

\* Of a queue that is cut off the beginning is left.
LEMMA CountPrefix ==
  ASSUME NEW q \in Seq(Frames), NEW k \in Prefixes(q)
  PROVE  /\ k \in Seq(Frames) /\ (q = <<>> => k = <<>>)
         /\ \A f : Count(k, f) <= Count(q, f)
         /\ Ordered(q) =>
              Ordered(k) /\ (Count(k, "EOF") > 0 => Count(k, "DATA") = Count(q, "DATA"))
<1>1. PICK n \in 0 .. Len(q) : k = SubSeq(q, 1, n)
  BY DEF Prefixes
<1>2. /\ Len(q) \in Nat /\ k \in Seq(Frames) /\ Len(k) = n
      /\ \A i \in 1 .. n : k[i] = q[i]
  <2>1. Len(q) \in Nat /\ \A i \in 1 .. Len(q) : q[i] \in Frames
    BY LenProperties
  <2>2. /\ SubSeq(q, 1, n) \in Seq(Frames)
        /\ Len(SubSeq(q, 1, n)) = IF 1 <= n THEN n - 1 + 1 ELSE 0
        /\ \A i \in 1 .. n - 1 + 1 : SubSeq(q, 1, n)[i] = q[1 + i - 1]
    BY <2>1, SubSeqProperties
  <2>. QED
    BY <1>1, <2>1, <2>2
<1>3. q = <<>> => k = <<>>
  BY <1>2
<1>4. \A f : Count(k, f) <= Count(q, f)
  <2>. TAKE f
  <2>. DEFINE A == {i \in 1 .. Len(k) : k[i] = f}
              B == {i \in 1 .. Len(q) : q[i] = f}
  <2>1. A \in SUBSET B
    BY <1>2
  <2>2. IsFiniteSet(B)
    BY CountFinite
  <2>3. Cardinality(A) <= Cardinality(B)
    BY <2>1, <2>2, FS_Subset
  <2>. QED
    BY <2>3 DEF Count
<1>5. ASSUME Ordered(q), Count(k, "EOF") > 0
      PROVE  Count(k, "DATA") = Count(q, "DATA")
  <2>0. Count(k, "EOF") = 0 <=> \A i \in 1 .. Len(k) : k[i] # "EOF"
    BY <1>2, CountFinite
  <2>1. PICK e \in 1 .. Len(k) : k[e] = "EOF"
    BY <1>5, <2>0
  <2>2. \A j \in 1 .. Len(q) : q[j] = "DATA" => j <= Len(k)
    BY <1>2, <2>1, <1>5 DEF Ordered, Before
  <2>3. {i \in 1 .. Len(k) : k[i] = "DATA"} = {i \in 1 .. Len(q) : q[i] = "DATA"}
    BY <1>2, <2>2
  <2>. QED
    BY <2>3 DEF Count
<1>6. Ordered(q) => Ordered(k)
  BY <1>2 DEF Ordered
<1>. QED
  BY <1>2, <1>3, <1>4, <1>5, <1>6

\* What a pump writes.
Writes(i, e) ==
  /\ e.to \in i.sent .. Chunks /\ e.to - i.sent <= i.win /\ e.bad \in BOOLEAN
  /\ Pumped(i, e) \in IoState
  /\ PumpFrames(i, e) \in Seq(Frames) /\ Ordered(PumpFrames(i, e))
  /\ Count(PumpFrames(i, e), "DATA") = e.to - i.sent
  /\ Count(PumpFrames(i, e), "EOF") = IF AllOut(e) THEN 1 ELSE 0
  /\ \A f : f \notin {"DATA", "EOF"} => Count(PumpFrames(i, e), f) = 0

LEMMA Pumps ==
  ASSUME NEW d, NEW i \in IoState, NEW h \in BOOLEAN, NEW e \in PumpEnds(d, i, h)
  PROVE  Writes(i, e)
<1>. USE TransferAssumption
<1>1. Upto(i) \in i.sent .. Chunks /\ Upto(i) - i.sent <= i.win
  BY DEF Upto, IoState
<1>2. e.bad \in BOOLEAN
  <2>1. CASE i.bad
    <3>1. e = [to |-> i.sent, bad |-> TRUE]
      BY <2>1 DEF PumpEnds
    <3>. QED
      BY <3>1
  <2>2. CASE ~i.bad
    <3>1. \/ e = [to |-> Upto(i), bad |-> FALSE]
          \/ \E n \in (IF h THEN i.sent + 1 ELSE i.sent) .. Upto(i) : e = [to |-> n, bad |-> TRUE]
      BY <2>2 DEF PumpEnds
    <3>2. ASSUME NEW n, NEW b \in BOOLEAN, e = [to |-> n, bad |-> b]
          PROVE  e.bad \in BOOLEAN
      BY <3>2
    <3>. QED
      BY <3>1, <3>2, Zenon
  <2>. QED
    BY <2>1, <2>2
<1>3. e.to \in i.sent .. Upto(i)
  <2>1. i.sent \in Nat /\ Upto(i) \in Nat /\ i.sent <= Upto(i)
    BY <1>1 DEF IoState
  <2>2. CASE i.bad
    <3>1. e = [to |-> i.sent, bad |-> TRUE]
      BY <2>2 DEF PumpEnds
    <3>2. e.to = i.sent
      BY <3>1
    <3>. QED
      BY <2>1, <3>2
  <2>3. CASE ~i.bad
    <3>1. \/ e = [to |-> Upto(i), bad |-> FALSE]
          \/ \E n \in (IF h THEN i.sent + 1 ELSE i.sent) .. Upto(i) : e = [to |-> n, bad |-> TRUE]
      BY <2>3 DEF PumpEnds
    <3>2. ASSUME e = [to |-> Upto(i), bad |-> FALSE]
          PROVE  e.to = Upto(i)
      BY <3>2
    <3>3. ASSUME NEW n \in (IF h THEN i.sent + 1 ELSE i.sent) .. Upto(i),
                 e = [to |-> n, bad |-> TRUE]
          PROVE  e.to \in i.sent .. Upto(i)
      <4>1. e.to = n
        BY <3>3
      <4>2. n \in i.sent .. Upto(i)
        BY <2>1
      <4>. QED
        BY <4>1, <4>2
    <3>. QED
      BY <2>1, <3>1, <3>2, <3>3
  <2>. QED
    BY <2>2, <2>3
<1>4. e.to \in i.sent .. Chunks /\ e.to - i.sent <= i.win
  BY <1>1, <1>3 DEF IoState
<1>5. Pumped(i, e) \in IoState
  <2>1. i.win - (e.to - i.sent) \in 0 .. Window /\ e.to \in 0 .. Chunks
    BY <1>4 DEF IoState
  <2>. QED
    BY <1>2, <2>1 DEF Pumped, IoState
<1>. DEFINE m == e.to - i.sent
            p == [n \in 1 .. m |-> "DATA"]
            z == IF AllOut(e) THEN <<"EOF">> ELSE <<>>
<1>6. m \in Nat
  BY <1>4 DEF IoState
<1>7. p \in Seq(Frames) /\ Len(p) = m /\ \A n \in 1 .. m : p[n] = "DATA"
  BY <1>6 DEF Frames
<1>8. \A f : Count(p, f) = IF f = "DATA" THEN m ELSE 0
  <2>. TAKE f
  <2>. DEFINE S == {n \in 1 .. Len(p) : p[n] = f}
  <2>1. CASE f = "DATA"
    <3>1. S = 1 .. m
      BY <1>6, <1>7, <2>1
    <3>2. Cardinality(1 .. m) = m
      BY <1>6, FS_Interval
    <3>3. Count(p, f) = Cardinality(S)
      BY DEF Count
    <3>. QED
      BY <2>1, <3>1, <3>2, <3>3
  <2>2. CASE f # "DATA"
    BY <1>6, <1>7, <2>2, CountFinite
  <2>. QED
    BY <2>1, <2>2
<1>9. Ordered(p)
  BY <1>6, <1>7 DEF Ordered, Before
<1>10. /\ z \in Seq(Frames) /\ Ordered(z)
       /\ \A f : Count(z, f) = IF f = "EOF" /\ AllOut(e) THEN 1 ELSE 0
  BY CountSingle DEF Frames
<1>11. PumpFrames(i, e) = p \o z
  BY DEF PumpFrames
<1>. HIDE DEF p, z, m
<1>12. PumpFrames(i, e) \in Seq(Frames) /\ \A f : Count(PumpFrames(i, e), f) = Count(p, f) + Count(z, f)
  BY <1>7, <1>10, <1>11, CountConcat
<1>13. Ordered(PumpFrames(i, e))
  <2>1. Count(p, "EOF") = 0 /\ ~(Count(z, "HELLO") > 0) /\ ~(Count(z, "CARD") > 0)
    BY <1>8, <1>10
  <2>. QED
    BY <1>7, <1>9, <1>10, <1>11, <2>1, OrderedConcat
<1>. QED
  BY <1>2, <1>3, <1>4, <1>5, <1>6, <1>8, <1>10, <1>12, <1>13 DEF Writes, m
-----------------------------------------------------------------------------
(***************************************************************************)
(* The invariant holds at first ...                                        *)
(***************************************************************************)
LEMMA Two ==
  ASSUME NEW d \in Device
  PROVE  /\ Peer(d) \in Device /\ Peer(d) # d /\ Peer(Peer(d)) = d
         /\ \A e \in Device : e = d \/ e = Peer(d)
  BY DEF Device, Peer

LEMMA InitInv == Init => IInv
<1>. SUFFICES ASSUME Init
              PROVE  IInv
  OBVIOUS
<1>. USE TransferAssumption
<1>1. TypeOK
  BY DEF Init, TypeOK, IoState, Atomics, UiState, Polling, Content
<1>2. ASSUME NEW d \in Device
      PROVE  PairInv(d) /\ LocalInv(d)
  <2>1. Peer(d) \in Device
    BY Two
  <2>2. Ordered(<<>>) /\ \A f : Count(<<>>, f) = 0
    BY CountSingle DEF Frames
  <2>3. wire[d] = <<>> /\ \A f : N(d, f) = 0 /\ N(Peer(d), f) = 0
    BY <2>1, <2>2 DEF Init, N
  <2>4. HelloFirst(d) /\ Agreed(d)
    BY <2>1, <2>2, <2>3 DEF Init, HelloFirst, Agreed
  <2>5. CardInOrder(d) /\ AckIsTrue(d)
    BY <2>1, <2>3 DEF Init, CardInOrder, AckIsTrue
  <2>6. TempIsPart(d) /\ ScreenIsTrue(d) /\ RecordIsTrue(d)
    BY DEF Init, TempIsPart, ScreenIsTrue, RecordIsTrue, Gone, Ending
  <2>. QED
    BY <2>4, <2>5, <2>6 DEF PairInv, LocalInv
<1>. QED
  BY <1>1, <1>2 DEF IInv

\* d may send fs after what it has sent.
Fits(d, fs) ==
  /\ fs \in Seq(Frames) /\ Ordered(fs) /\ Count(fs, "HELLO") = 0
  /\ Count(fs, "CARD") > 0 => N(d, "CARD") = 0 /\ N(d, "DATA") = 0 /\ N(d, "EOF") = 0
  /\ Count(fs, "DATA") > 0 \/ Count(fs, "EOF") > 0 => N(d, "EOF") = 0

LEMMA NothingFits == ASSUME NEW d PROVE Fits(d, <<>>)
  BY CountSingle DEF Frames, Fits

LEMMA OneFits == ASSUME NEW d, NEW f \in {"WINDOW", "ACK"} PROVE Fits(d, <<f>>)
<1>1. f \in Frames
  BY DEF Frames
<1>2. /\ Count(<<f>>, "HELLO") = 0 /\ Count(<<f>>, "CARD") = 0
      /\ Count(<<f>>, "DATA") = 0 /\ Count(<<f>>, "EOF") = 0
  BY <1>1, CountSingle
<1>. QED
  BY <1>1, <1>2, CountSingle DEF Fits

\* What a handler that takes frame f and answers with fs does to the queues.
Handed(d, f, fs) ==
  /\ wire' \in [Device -> Seq(Frames)]
  /\ Ordered(wire'[d]) /\ Ordered(wire'[Peer(d)])
  /\ f \in Frames /\ session[d] = "up" /\ opened[d]
  /\ \A g : N(d, g) \in Nat /\ N(Peer(d), g) \in Nat
  /\ \A g : N(d, g)' \in Nat /\ N(Peer(d), g)' \in Nat
  /\ \A g : N(d, g)' = N(d, g) + IF Reached(d) THEN Count(fs, g) ELSE 0
  /\ \A g : N(Peer(d), g) = N(Peer(d), g)' + IF f = g THEN 1 ELSE 0
  /\ N(Peer(d), "HELLO")' = 0
  /\ f \in {"CARD", "DATA", "EOF"} => N(Peer(d), "CARD")' = 0
  /\ f = "EOF" => N(Peer(d), "DATA")' = 0 /\ N(Peer(d), "EOF")' = 0

LEMMA Answered ==
  ASSUME TypeOK, NEW d \in Device, NEW f, NEW fs, Fits(d, fs),
         Ordered(wire[d]), Ordered(wire[Peer(d)]),
         Receives(d, f), Answer(d, fs)
  PROVE  Handed(d, f, fs)
<1>. DEFINE p == Peer(d)
            q == wire[d]
            o == Out(d, fs)
<1>1. p \in Device /\ p # d
  BY Two
<1>2. q \in Seq(Frames) /\ wire[p] \in Seq(Frames) /\ wire[p] # <<>>
  BY <1>1 DEF TypeOK, Receives
<1>3. o \in Seq(Frames) /\ Ordered(o) /\ \A g : Count(o, g) = IF Reached(d) THEN Count(fs, g) ELSE 0
  BY CountSingle DEF Out, Frames, Fits
<1>4. wire' = [wire EXCEPT ![p] = Tail(@), ![d] = @ \o o]
  BY DEF Answer
<1>5. wire'[d] = q \o o /\ wire'[p] = Tail(wire[p])
  BY <1>1, <1>4 DEF TypeOK
<1>6. Tail(wire[p]) \in Seq(Frames) /\ q \o o \in Seq(Frames)
  BY <1>2, <1>3, CountTail, CountConcat
<1>7. wire' \in [Device -> Seq(Frames)]
  BY <1>1, <1>4, <1>6 DEF TypeOK
<1>8. \A g : Count(q, g) \in Nat /\ Count(wire[p], g) \in Nat /\ Count(o, g) \in Nat
             /\ Count(q \o o, g) \in Nat /\ Count(Tail(wire[p]), g) \in Nat
  BY <1>2, <1>3, <1>6, CountFinite
<1>9. \A g : Count(q \o o, g) = Count(q, g) + Count(o, g)
  BY <1>2, <1>3, CountConcat
<1>10. Head(wire[p]) = f /\ f \in Frames
       /\ \A g : Count(wire[p], g) = Count(Tail(wire[p]), g) + IF f = g THEN 1 ELSE 0
  BY <1>2, CountTail DEF Receives
<1>11. /\ Ordered(Tail(wire[p]))
       /\ Count(Tail(wire[p]), "HELLO") = 0
       /\ f \in {"CARD", "DATA", "EOF"} => Count(Tail(wire[p]), "CARD") = 0
       /\ f = "EOF" => Count(Tail(wire[p]), "DATA") = 0 /\ Count(Tail(wire[p]), "EOF") = 0
  BY <1>2, <1>10, OrderedTail
<1>12. Ordered(q \o o)
  <2>1. Count(o, "HELLO") = 0
    BY <1>3 DEF Fits
  <2>2. Count(o, "CARD") > 0 => Count(q, "CARD") = 0 /\ Count(q, "DATA") = 0 /\ Count(q, "EOF") = 0
    BY <1>3 DEF N, Fits
  <2>3. Count(o, "DATA") > 0 \/ Count(o, "EOF") > 0 => Count(q, "EOF") = 0
    BY <1>3 DEF N, Fits
  <2>. QED
    BY <1>2, <1>3, <2>1, <2>2, <2>3, OrderedConcat
<1>. HIDE DEF q, o
<1>13. \A g : N(d, g) = Count(q, g) /\ N(p, g) = Count(wire[p], g)
  BY DEF N, q
<1>14. \A g : N(d, g)' = Count(q \o o, g) /\ N(p, g)' = Count(Tail(wire[p]), g)
  BY <1>5 DEF N
<1>15. \A g : /\ N(d, g) \in Nat /\ N(p, g) \in Nat
              /\ N(d, g)' \in Nat /\ N(p, g)' \in Nat
              /\ N(d, g)' = N(d, g) + IF Reached(d) THEN Count(fs, g) ELSE 0
              /\ N(p, g) = N(p, g)' + IF f = g THEN 1 ELSE 0
  <2>. TAKE g
  <2>1. N(d, g) = Count(q, g) /\ N(p, g) = Count(wire[p], g)
    BY <1>13
  <2>2. N(d, g)' = Count(q \o o, g) /\ N(p, g)' = Count(Tail(wire[p]), g)
    BY <1>14
  <2>3. Count(q \o o, g) = Count(q, g) + Count(o, g)
    BY <1>9
  <2>4. Count(wire[p], g) = Count(Tail(wire[p]), g) + IF f = g THEN 1 ELSE 0
    BY <1>10
  <2>5. /\ Count(q, g) \in Nat /\ Count(wire[p], g) \in Nat
        /\ Count(q \o o, g) \in Nat /\ Count(Tail(wire[p]), g) \in Nat
    BY <1>8
  <2>6. Count(o, g) = IF Reached(d) THEN Count(fs, g) ELSE 0
    BY <1>3
  <2>. QED
    BY <2>1, <2>2, <2>3, <2>4, <2>5, <2>6
<1>16. /\ N(p, "HELLO")' = 0
       /\ f \in {"CARD", "DATA", "EOF"} => N(p, "CARD")' = 0
       /\ f = "EOF" => N(p, "DATA")' = 0 /\ N(p, "EOF")' = 0
  BY <1>11, <1>14
<1>17. session[d] = "up" /\ opened[d]
  BY DEF Receives
<1>. QED
  BY <1>5, <1>7, <1>10, <1>11, <1>12, <1>15, <1>16, <1>17 DEF Handed

\* What e has moved and has been told, as far as its peer can tell, stays.
MovedStays(e) ==
  /\ io'[e].win = io[e].win /\ io'[e].sent = io[e].sent
  /\ io'[e].got = io[e].got /\ (io'[e].acked <=> io[e].acked)
SaidStays(e) ==
  /\ pub'[e].hello_ready <=> pub[e].hello_ready
  /\ pub'[e].will_send <=> pub[e].will_send
  /\ pub'[e].will_recv <=> pub[e].will_recv
  /\ pub'[e].send_done <=> pub[e].send_done
  /\ pub'[e].inbound_complete <=> pub[e].inbound_complete
  /\ pub'[e].got_peer_ack <=> pub[e].got_peer_ack

LEMMA LocalKept ==
  ASSUME NEW e, LocalInv(e), UNCHANGED start, session'[e] = session[e], io'[e] = io[e],
         pub'[e] = pub[e], ui'[e] = ui[e], disk'[e] = disk[e], nvs'[e] = nvs[e]
  PROVE  LocalInv(e)'
  BY DEF LocalInv, Agreed, TempIsPart, ScreenIsTrue, RecordIsTrue, WillReceive, WantsToSend

LEMMA All ==
  ASSUME TypeOK', NEW d \in Device, PairInv(d)', PairInv(Peer(d))', LocalInv(d)', LocalInv(Peer(d))'
  PROVE  IInv'
  BY Two DEF IInv

(***************************************************************************)
(* What all handlers have in common: they change their own device and take *)
(* a frame from the peer's queue.                                          *)
(***************************************************************************)
Files == [temp : Content, card : Content]

Handler(d, f, fs) ==
  /\ Receives(d, f) /\ Answer(d, fs)
  /\ io' = [io EXCEPT ![d] = io'[d]] /\ io'[d] \in IoState
  /\ pub' = [pub EXCEPT ![d] = pub'[d]] /\ pub'[d] \in Atomics
  /\ disk' = [disk EXCEPT ![d] = disk'[d]] /\ disk'[d] \in Files
  /\ UNCHANGED <<start, session, opened, link, ui, nvs>>

Handled(d, f, fs) ==
  /\ Handed(d, f, fs) /\ TypeOK'
  /\ LocalInv(Peer(d))' /\ RecordIsTrue(d)'
  /\ start' = start /\ session' = session /\ link' = link /\ ui' = ui /\ nvs' = nvs
  /\ io'[Peer(d)] = io[Peer(d)] /\ pub'[Peer(d)] = pub[Peer(d)] /\ disk'[Peer(d)] = disk[Peer(d)]

LEMMA Handles ==
  ASSUME IInv, NEW d \in Device, NEW f, NEW fs, Fits(d, fs),
         Handler(d, f, fs)
  PROVE  Handled(d, f, fs)
<1>. DEFINE p == Peer(d)
<1>1. p \in Device /\ p # d
  BY Two
<1>2. TypeOK /\ Ordered(wire[d]) /\ Ordered(wire[p]) /\ LocalInv(d) /\ LocalInv(p)
  BY <1>1 DEF IInv, PairInv, HelloFirst
<1>3. Receives(d, f) /\ Answer(d, fs)
  BY DEF Handler
<1>4. Handed(d, f, fs)
  BY <1>2, <1>3, Answered
<1>5. start' = start /\ session' = session /\ opened' = opened /\ link' = link
      /\ ui' = ui /\ nvs' = nvs
  BY DEF Handler
<1>6. /\ io' \in [Device -> IoState] /\ io'[p] = io[p]
      /\ pub' \in [Device -> Atomics] /\ pub'[p] = pub[p]
      /\ disk' \in [Device -> Files] /\ disk'[p] = disk[p]
  BY <1>1, <1>2 DEF Handler, TypeOK, Files
<1>7. TypeOK'
  BY <1>2, <1>4, <1>5, <1>6 DEF TypeOK, Handed, Files
<1>8. LocalInv(p)'
  BY <1>2, <1>5, <1>6, LocalKept
<1>9. RecordIsTrue(d)'
  BY <1>2, <1>5 DEF LocalInv, RecordIsTrue
<1>. QED
  BY <1>4, <1>5, <1>6, <1>7, <1>8, <1>9 DEF Handled

\* The queues after a handler that answers nothing.
LEMMA NoAnswer ==
  ASSUME NEW d \in Device, NEW f, Handed(d, f, <<>>)
  PROVE  /\ \A g : N(d, g)' = N(d, g) /\ N(d, g) \in Nat /\ N(Peer(d), g) \in Nat
         /\ \A g : N(Peer(d), g) = N(Peer(d), g)' + IF f = g THEN 1 ELSE 0
         /\ \A g : N(d, g)' \in Nat /\ N(Peer(d), g)' \in Nat
<1>1. \A g : Count(<<>>, g) = 0
  BY CountSingle DEF Frames
<1>2. \A g : N(d, g)' = N(d, g) + IF Reached(d) THEN Count(<<>>, g) ELSE 0
  BY DEF Handed
<1>3. \A g : N(d, g)' \in Nat /\ N(d, g) \in Nat
  BY DEF Handed
<1>4. \A g : N(d, g)' = N(d, g)
  BY <1>1, <1>2, <1>3
<1>. QED
  BY <1>3, <1>4 DEF Handed

LEMMA CardKeeps ==
  ASSUME IInv, NEW d \in Device, OnCard(d)
  PROVE  IInv'
<1>. USE TransferAssumption
<1>1. PICK p \in Device : p = Peer(d) /\ p # d /\ Peer(p) = d
  BY Two
<1>2. TypeOK /\ PairInv(d) /\ PairInv(p) /\ LocalInv(d) /\ LocalInv(p)
  BY <1>1 DEF IInv
<1>3. io[d] \in IoState /\ pub[d] \in Atomics /\ disk[d] \in Files
  BY <1>2 DEF TypeOK, Files
<1>4. \/ /\ io' = [io EXCEPT ![d].file = TRUE] /\ io'[d] = [io[d] EXCEPT !.file = TRUE]
         /\ disk' = [disk EXCEPT ![d].temp = "part"] /\ disk'[d] = [disk[d] EXCEPT !.temp = "part"]
         /\ pub' = pub
      \/ /\ io' = io /\ disk' = disk
         /\ pub' = [pub EXCEPT ![d].failed = TRUE] /\ pub'[d] = [pub[d] EXCEPT !.failed = TRUE]
  BY <1>2 DEF OnCard, TypeOK
<1>5. Handled(d, "CARD", <<>>)
  <2>2. io'[d] \in IoState /\ pub'[d] \in Atomics /\ disk'[d] \in Files
    BY <1>3, <1>4 DEF IoState, Atomics, Content, Files
  <2>3. Handler(d, "CARD", <<>>)
    BY <1>2, <1>4, <2>2 DEF Handler, OnCard, TypeOK
  <2>. QED
    BY <2>3, Handles, NothingFits
<1>6. /\ Ordered(wire'[d]) /\ Ordered(wire'[p]) /\ session[d] = "up" /\ session' = session
      /\ io'[p] = io[p] /\ pub'[p] = pub[p] /\ disk'[p] = disk[p]
      /\ start' = start /\ link' = link /\ ui' = ui /\ nvs' = nvs
  BY <1>1, <1>5 DEF Handled, Handed
<1>7. /\ \A g : N(d, g) \in Nat /\ N(p, g) \in Nat
      /\ N(d, "HELLO")' = N(d, "HELLO") /\ N(d, "CARD")' = N(d, "CARD")
      /\ N(d, "DATA")' = N(d, "DATA") /\ N(d, "EOF")' = N(d, "EOF")
      /\ N(d, "ACK")' = N(d, "ACK") /\ N(d, "WINDOW")' = N(d, "WINDOW")
      /\ N(p, "HELLO")' = N(p, "HELLO") /\ N(p, "CARD") > 0 /\ N(p, "CARD")' = 0
      /\ N(p, "DATA")' = N(p, "DATA") /\ N(p, "EOF")' = N(p, "EOF")
      /\ N(p, "ACK")' = N(p, "ACK") /\ N(p, "WINDOW")' = N(p, "WINDOW")
  <2>1. Handed(d, "CARD", <<>>)
    BY <1>5 DEF Handled
  <2>2. /\ \A g : N(d, g)' = N(d, g) /\ N(d, g) \in Nat /\ N(p, g) \in Nat
        /\ \A g : N(p, g) = N(p, g)' + IF "CARD" = g THEN 1 ELSE 0
        /\ \A g : N(d, g)' \in Nat /\ N(p, g)' \in Nat
    BY <1>1, <2>1, NoAnswer
  <2>3. N(p, "CARD")' = 0
    BY <1>1, <2>1 DEF Handed
  <2>. QED
    BY <2>2, <2>3
<1>8. MovedStays(d) /\ MovedStays(p) /\ SaidStays(d) /\ SaidStays(p)
  BY <1>3, <1>4, <1>6 DEF MovedStays, SaidStays, IoState, Atomics
<1>9. \/ io'[d].file /\ disk'[d].temp = "part" /\ disk'[d].card = disk[d].card
      \/ (io'[d].file <=> io[d].file) /\ disk'[d] = disk[d]
  BY <1>3, <1>4 DEF IoState, Files
<1>10. PairInv(p)'
  BY <1>1, <1>2, <1>6, <1>7, <1>8
     DEF PairInv, HelloFirst, CardInOrder, AckIsTrue, MovedStays, SaidStays, WantsToSend, Reached
<1>11. PairInv(d)'
  BY <1>1, <1>2, <1>6, <1>7, <1>8
     DEF PairInv, HelloFirst, CardInOrder, AckIsTrue, MovedStays, SaidStays, WantsToSend, Reached
<1>12. Agreed(d)'
  BY <1>1, <1>2, <1>6, <1>8 DEF LocalInv, Agreed, SaidStays, WillReceive, WantsToSend
<1>13. io[d].got = 0 /\ WillReceive(d) /\ ~pub[d].inbound_complete
  BY <1>1, <1>2, <1>7 DEF PairInv, CardInOrder, WantsToSend, WillReceive
<1>14. TempIsPart(d)'
  BY <1>2, <1>6, <1>8, <1>9, <1>13
     DEF LocalInv, TempIsPart, SaidStays, MovedStays, WillReceive
<1>15. ScreenIsTrue(d)'
  BY <1>2, <1>6, <1>8, <1>9 DEF LocalInv, ScreenIsTrue, SaidStays, Gone
<1>. QED
  BY <1>1, <1>5, <1>10, <1>11, <1>12, <1>14, <1>15, All DEF LocalInv, Handled

(***************************************************************************)
(* What the steps of the LVGL thread have in common, but for Close: they   *)
(* change the screen of their device, its files and its NVS.               *)
(***************************************************************************)
Nvs == [msg : {"none", "complete", "failed"}, record : BOOLEAN]

OnScreen(d) ==
  /\ ui' = [ui EXCEPT ![d] = ui'[d]] /\ ui'[d] \in UiState
  /\ disk' = [disk EXCEPT ![d] = disk'[d]] /\ disk'[d] \in Files
  /\ nvs' = [nvs EXCEPT ![d] = nvs'[d]] /\ nvs'[d] \in Nvs
  /\ opened' \in [Device -> BOOLEAN]
  /\ UNCHANGED <<start, session, link, wire, io, pub>>

LEMMA ScreenSteps ==
  ASSUME IInv, NEW d \in Device, OnScreen(d),
         TempIsPart(d)', ScreenIsTrue(d)', RecordIsTrue(d)'
  PROVE  IInv'
<1>1. PICK p \in Device : p = Peer(d) /\ p # d /\ Peer(p) = d
  BY Two
<1>2. TypeOK /\ PairInv(d) /\ PairInv(p) /\ LocalInv(d) /\ LocalInv(p)
  BY <1>1 DEF IInv
<1>3. start' = start /\ session' = session /\ link' = link
      /\ wire' = wire /\ io' = io /\ pub' = pub /\ opened' \in [Device -> BOOLEAN]
  BY DEF OnScreen
<1>4. /\ ui' \in [Device -> UiState] /\ ui'[p] = ui[p]
      /\ disk' \in [Device -> Files] /\ disk'[p] = disk[p]
      /\ nvs' \in [Device -> Nvs] /\ nvs'[p] = nvs[p]
  BY <1>1, <1>2 DEF OnScreen, TypeOK, Files, Nvs
<1>5. TypeOK'
  BY <1>2, <1>3, <1>4 DEF TypeOK, Files, Nvs
<1>6. \A e \in Device : PairInv(e) => PairInv(e)'
  BY <1>3 DEF PairInv, HelloFirst, CardInOrder, AckIsTrue, N, Reached, WantsToSend
<1>7. LocalInv(p)'
  BY <1>2, <1>3, <1>4, LocalKept
<1>8. Agreed(d)'
  BY <1>2, <1>3 DEF LocalInv, Agreed, WillReceive, WantsToSend
<1>. QED
  BY <1>1, <1>2, <1>5, <1>6, <1>7, <1>8, All DEF LocalInv

\* Steps of the screen that only decide where it goes.
LEMMA GoesKeeps ==
  ASSUME IInv, NEW d \in Device,
         \/ PollConnecting(d) \/ PollHandshake(d) \/ JudgeHandshake(d)
         \/ PollDone(d) \/ PollMoving(d) \/ Judge(d) \/ AckTimeout(d)
  PROVE  IInv'
<1>1. TypeOK /\ LocalInv(d)
  BY DEF IInv
<1>2. ui[d] \in UiState /\ disk[d] \in Files /\ nvs[d] \in Nvs
  BY <1>1 DEF TypeOK, Files, Nvs
<1>3. /\ ui[d].pc \in Polling
      /\ \/ \E c \in Polling \ {"record", "build"} : ui' = [ui EXCEPT ![d].pc = c]
         \/ ui' = [ui EXCEPT ![d].pc = "close", ![d].ok = FALSE]
         \/ /\ pub[d].hello_ready /\ (pub[d].will_recv => ui[d].finalized)
            /\ \/ ui' = [ui EXCEPT ![d].pc = "close", ![d].ok = ui[d].recv_ok]
               \/ ui' = [ui EXCEPT ![d].marked = TRUE, ![d].pc = "close",
                                   ![d].ok = ui[d].recv_ok]
         \/ ui' = [ui EXCEPT ![d].marked = TRUE]
  <2>. USE DEF At, Goto, Terminate, Polling
  <2>1. CASE PollConnecting(d) \/ PollHandshake(d) \/ PollMoving(d)
    BY <2>1 DEF PollConnecting, PollHandshake, PollMoving, Settled
  <2>2. CASE JudgeHandshake(d) \/ Judge(d)
    BY <2>2 DEF JudgeHandshake, Judge
  <2>3. CASE PollDone(d)
    BY <2>3 DEF PollDone, Settled, ReceiveDone
  <2>4. CASE AckTimeout(d)
    BY <2>4 DEF AckTimeout, Settled, ReceiveDone
  <2>. QED
    BY <2>1, <2>2, <2>3, <2>4
<1>4. UNCHANGED <<start, session, opened, link, wire, io, pub, disk, nvs>>
  BY DEF PollConnecting, PollHandshake, PollMoving, JudgeHandshake, Judge, PollDone, AckTimeout, netVars
<1>4a. \/ \E c \in Polling \ {"record", "build"} : ui'[d] = [ui[d] EXCEPT !.pc = c]
      \/ ui'[d] = [ui[d] EXCEPT !.pc = "close", !.ok = FALSE]
      \/ /\ pub[d].hello_ready /\ (pub[d].will_recv => ui[d].finalized)
         /\ \/ ui'[d] = [ui[d] EXCEPT !.pc = "close", !.ok = ui[d].recv_ok]
            \/ ui'[d] = [ui[d] EXCEPT !.marked = TRUE, !.pc = "close", !.ok = ui[d].recv_ok]
      \/ ui'[d] = [ui[d] EXCEPT !.marked = TRUE]
  BY <1>1, <1>3 DEF TypeOK
<1>5. ui'[d] \in UiState /\ ui' = [ui EXCEPT ![d] = ui'[d]]
  <2>1. ui'[d] \in UiState
    BY <1>2, <1>4a DEF UiState, Polling, Ending
  <2>. QED
    BY <1>1, <1>3, <2>1 DEF TypeOK
<1>6. /\ ui'[d].finalized <=> ui[d].finalized
      /\ ui'[d].recv_ok <=> ui[d].recv_ok
      /\ \/ ui'[d].pc \in Polling \ {"record"} /\ (ui'[d].ok <=> ui[d].ok)
         \/ ui'[d].pc = "record" /\ ui[d].pc = "record" /\ (ui'[d].ok <=> ui[d].ok)
         \/ ui'[d].pc = "close" /\ ~ui'[d].ok
         \/ /\ ui'[d].pc = "close" /\ (ui'[d].ok <=> ui[d].recv_ok) /\ pub[d].hello_ready
            /\ pub[d].will_recv => ui[d].finalized
  <2>1. CASE \E c \in Polling \ {"record", "build"} : ui'[d] = [ui[d] EXCEPT !.pc = c]
    BY <1>2, <2>1 DEF UiState, Polling, Ending
  <2>2. CASE ui'[d] = [ui[d] EXCEPT !.pc = "close", !.ok = FALSE]
    BY <1>2, <2>2 DEF UiState
  <2>3. CASE /\ pub[d].hello_ready /\ (pub[d].will_recv => ui[d].finalized)
             /\ \/ ui'[d] = [ui[d] EXCEPT !.pc = "close", !.ok = ui[d].recv_ok]
                \/ ui'[d] = [ui[d] EXCEPT !.marked = TRUE, !.pc = "close", !.ok = ui[d].recv_ok]
    BY <1>2, <2>3 DEF UiState
  <2>4. CASE ui'[d] = [ui[d] EXCEPT !.marked = TRUE]
    BY <1>2, <1>3, <2>4 DEF UiState, Polling
  <2>. QED
    BY <1>4a, <2>1, <2>2, <2>3, <2>4
<1>7. TempIsPart(d)'
  BY <1>1, <1>4, <1>6 DEF LocalInv, TempIsPart, WillReceive
<1>8. ScreenIsTrue(d)'
  BY <1>1, <1>3, <1>4, <1>6 DEF LocalInv, ScreenIsTrue, Gone, Polling, Ending
<1>9. RecordIsTrue(d)'
  BY <1>1, <1>3, <1>4, <1>6 DEF LocalInv, RecordIsTrue, Polling
<1>10. OnScreen(d)
  BY <1>1, <1>2, <1>4, <1>5 DEF OnScreen, TypeOK
<1>. QED
  BY <1>7, <1>8, <1>9, <1>10, ScreenSteps

\* The card is put in place once all of it has arrived.
LEMMA FinalizeKeeps ==
  ASSUME IInv, NEW d \in Device, Finalize(d)
  PROVE  IInv'
<1>1. PICK p \in Device : p = Peer(d) /\ Peer(p) = d
  BY Two
<1>2. TypeOK /\ LocalInv(d) /\ PairInv(p)
  BY <1>1 DEF IInv
<1>3. ui[d] \in UiState /\ disk[d] \in Files /\ nvs[d] \in Nvs
  BY <1>2 DEF TypeOK, Files, Nvs
<1>4. /\ ui[d].pc = "poll" /\ pub[d].hello_ready
      /\ pub[d].will_recv /\ pub[d].inbound_complete /\ ~ui[d].finalized
      /\ UNCHANGED <<start, session, opened, link, wire, io, pub, nvs>>
  BY DEF Finalize, At, Unfinalized, netVars
<1>5. io[d].got = Chunks
  BY <1>1, <1>2, <1>4 DEF PairInv, CardInOrder
<1>6. disk[d].temp # "part"
  BY <1>2, <1>5, TransferAssumption DEF LocalInv, TempIsPart
<1>7. ASSUME disk[d].temp # "none",
             disk' = [disk EXCEPT ![d] = [temp |-> "none", card |-> disk[d].temp]],
             ui' = [ui EXCEPT ![d] = [[ui[d] EXCEPT !.finalized = TRUE] EXCEPT !.pc = "record"]]
      PROVE  IInv'
  <2>1. ui'[d] = [ui[d] EXCEPT !.finalized = TRUE, !.pc = "record"]
        /\ disk'[d] = [temp |-> "none", card |-> disk[d].temp]
    BY <1>2, <1>7 DEF TypeOK
  <2>2. /\ ui'[d] \in UiState /\ ui'[d].pc = "record" /\ ui'[d].finalized
        /\ (ui'[d].recv_ok <=> ui[d].recv_ok) /\ (ui'[d].ok <=> ui[d].ok)
    BY <1>3, <2>1 DEF UiState, Polling
  <2>3. /\ disk'[d] \in Files /\ disk'[d].temp = "none" /\ disk'[d].card = disk[d].temp
        /\ disk'[d].card \in {"whole", "torn"}
    BY <1>3, <1>6, <1>7, <2>1 DEF Files, Content
  <2>4. OnScreen(d)
    BY <1>2, <1>3, <1>4, <1>7, <2>1, <2>2, <2>3 DEF OnScreen, TypeOK
  <2>5. TempIsPart(d)'
    BY <1>2, <1>4, <2>2, <2>3 DEF LocalInv, TempIsPart, WillReceive
  <2>6. ui[d].recv_ok
    BY <1>2, <1>4 DEF LocalInv, ScreenIsTrue
  <2>7. ScreenIsTrue(d)'
    BY <1>2, <1>4, <2>2, <2>3, <2>6 DEF LocalInv, ScreenIsTrue, Gone, Ending
  <2>8. RecordIsTrue(d)'
    BY <1>2, <1>4, <2>2 DEF LocalInv, RecordIsTrue
  <2>. QED
    BY <2>4, <2>5, <2>7, <2>8, ScreenSteps
<1>8. ASSUME disk' = [disk EXCEPT ![d].temp = "none"],
             ui' = [ui EXCEPT ![d] = [[ui[d] EXCEPT !.finalized = TRUE] EXCEPT !.recv_ok = FALSE]]
      PROVE  IInv'
  <2>1. ui'[d] = [ui[d] EXCEPT !.finalized = TRUE, !.recv_ok = FALSE]
        /\ disk'[d] = [disk[d] EXCEPT !.temp = "none"]
    BY <1>2, <1>8 DEF TypeOK
  <2>2. /\ ui'[d] \in UiState /\ ui'[d].pc = "poll" /\ ui'[d].finalized
        /\ ~ui'[d].recv_ok /\ (ui'[d].ok <=> ui[d].ok)
    BY <1>3, <1>4, <2>1 DEF UiState, Polling
  <2>3. disk'[d] \in Files /\ disk'[d].temp = "none" /\ disk'[d].card = disk[d].card
    BY <1>3, <2>1 DEF Files, Content
  <2>4. OnScreen(d)
    BY <1>2, <1>3, <1>4, <1>8, <2>1, <2>2, <2>3 DEF OnScreen, TypeOK
  <2>5. TempIsPart(d)'
    BY <1>2, <1>4, <2>2, <2>3 DEF LocalInv, TempIsPart, WillReceive
  <2>6. ~ui[d].ok /\ ~nvs[d].record
    BY <1>2, <1>4 DEF LocalInv, ScreenIsTrue, RecordIsTrue, Ending
  <2>7. ScreenIsTrue(d)'
    BY <1>2, <1>4, <2>2, <2>3, <2>6 DEF LocalInv, ScreenIsTrue, Gone, Ending
  <2>8. RecordIsTrue(d)'
    BY <1>2, <1>4, <2>2, <2>6 DEF LocalInv, RecordIsTrue
  <2>. QED
    BY <2>4, <2>5, <2>7, <2>8, ScreenSteps
<1>. QED
  BY <1>7, <1>8 DEF Finalize

\* From the end of the session to the next boot.
LEMMA EndingKeeps ==
  ASSUME IInv, NEW d \in Device,
         \/ Record(d) \/ TakeRecord(d) \/ SaveMessage(d) \/ ShowMessage(d) \/ Boot(d)
  PROVE  IInv'
<1>1. TypeOK /\ LocalInv(d)
  BY DEF IInv
<1>2. ui[d] \in UiState /\ disk[d] \in Files /\ nvs[d] \in Nvs
  BY <1>1 DEF TypeOK, Files, Nvs
<1>3. UNCHANGED <<start, session, opened, link, wire, io, pub, disk>>
  BY DEF Record, TakeRecord, SaveMessage, ShowMessage, Boot, netVars
<1>4. /\ ui' = [ui EXCEPT ![d] = ui'[d]] /\ ui'[d] \in UiState
      /\ nvs' = [nvs EXCEPT ![d] = nvs'[d]] /\ nvs'[d] \in Nvs
      /\ ui'[d].finalized <=> ui[d].finalized
      /\ ui'[d].recv_ok <=> ui[d].recv_ok
      /\ ui'[d].ok <=> ui[d].ok
      /\ \/ ui[d].pc = "record" /\ ui'[d].pc = "poll" /\ nvs'[d].msg = nvs[d].msg
         \/ /\ ui[d].pc = "take" /\ ui'[d].pc = "message" /\ nvs'[d].msg = nvs[d].msg
            /\ nvs'[d].record => nvs[d].record /\ (~Withdraws(d) \/ "nvs" \in Faults[d])
         \/ /\ ui[d].pc = "message" /\ ui'[d].pc = "off" /\ (nvs'[d].record <=> nvs[d].record)
            /\ nvs'[d].msg \in {nvs[d].msg, Outcome(d)}
         \/ /\ ui[d].pc = "off" /\ ui'[d].pc = "off" /\ (nvs'[d].record <=> nvs[d].record)
            /\ nvs'[d].msg \in {nvs[d].msg, "none"}
         \/ /\ ui[d].pc = "off" /\ ui'[d].pc = "booted"
            /\ nvs'[d].msg = "none" \/ (nvs'[d].msg = nvs[d].msg /\ "nvs" \in Faults[d])
            /\ nvs'[d].record => nvs[d].record /\ (nvs[d].msg = "failed" \/ "nvs" \in Faults[d])
  <2>. USE <1>1, <1>2 DEF At, Goto, TypeOK
  <2>1. CASE Record(d)
    <3>1. PICK r \in BOOLEAN : nvs' = [nvs EXCEPT ![d].record = r]
      BY <2>1 DEF Record, Stored, Nvs
    <3>2. /\ ui[d].pc = "record" /\ ui'[d] = [ui[d] EXCEPT !.pc = "poll"]
          /\ nvs'[d] = [nvs[d] EXCEPT !.record = r]
      BY <2>1, <3>1 DEF Record
    <3>3. ui'[d] \in UiState /\ nvs'[d] \in Nvs
      BY <3>2 DEF UiState, Nvs, Polling, Ending
    <3>. QED
      BY <2>1, <3>1, <3>2, <3>3 DEF Record, UiState, Nvs
  <2>2. CASE TakeRecord(d)
    <3>1. PICK r \in BOOLEAN :
            /\ nvs' = [nvs EXCEPT ![d].record = r]
            /\ r => nvs[d].record /\ (~Withdraws(d) \/ "nvs" \in Faults[d])
      <4>1. CASE Withdraws(d)
        BY <2>2, <4>1 DEF TakeRecord, Stored, Nvs
      <4>2. CASE ~Withdraws(d)
        <5>1. nvs' = nvs /\ nvs[d] = [nvs[d] EXCEPT !.record = nvs[d].record]
          BY <2>2, <4>2 DEF TakeRecord, Nvs
        <5>2. nvs' = [nvs EXCEPT ![d].record = nvs[d].record] /\ nvs[d].record \in BOOLEAN
          BY <5>1 DEF Nvs
        <5>. QED BY <4>2, <5>2
      <4>. QED BY <4>1, <4>2
    <3>2. ui[d].pc = "take" /\ ui' = [ui EXCEPT ![d].pc = "message"]
      BY <2>2 DEF TakeRecord
    <3>2a. nvs' = [nvs EXCEPT ![d].record = r]
      BY <3>1
    <3>2b. nvs'[d] = [nvs[d] EXCEPT !.record = r]
      BY <3>2a
    <3>2c. ui'[d] = [ui[d] EXCEPT !.pc = "message"]
      BY <3>2
    <3>3. ui'[d] = [ui[d] EXCEPT !.pc = "message"] /\ nvs'[d] = [nvs[d] EXCEPT !.record = r]
      BY <3>2b, <3>2c
    <3>4. /\ ui'[d] \in UiState /\ ui'[d].pc = "message" /\ (ui'[d].finalized <=> ui[d].finalized)
          /\ (ui'[d].recv_ok <=> ui[d].recv_ok) /\ (ui'[d].ok <=> ui[d].ok)
      BY <3>3 DEF UiState, Ending
    <3>5. nvs'[d] \in Nvs /\ (nvs'[d].record <=> r) /\ nvs'[d].msg = nvs[d].msg
      BY <3>3 DEF Nvs
    <3>6. ui' = [ui EXCEPT ![d] = ui'[d]] /\ nvs' = [nvs EXCEPT ![d] = nvs'[d]]
      BY <3>2, <3>2a, <3>3
    <3>7. nvs'[d].record => nvs[d].record /\ (~Withdraws(d) \/ "nvs" \in Faults[d])
      BY <3>1, <3>5
    <3>. QED
      BY <3>2, <3>4, <3>5, <3>6, <3>7
  <2>3. CASE SaveMessage(d)
    <3>1. PICK m \in {nvs[d].msg, Outcome(d)} : nvs' = [nvs EXCEPT ![d].msg = m]
      BY <2>3 DEF SaveMessage, Stored
    <3>2. /\ ui[d].pc = "message" /\ ui'[d] = [ui[d] EXCEPT !.pc = "off"]
          /\ nvs'[d] = [nvs[d] EXCEPT !.msg = m]
      BY <2>3, <3>1 DEF SaveMessage
    <3>3. ui'[d] \in UiState /\ nvs'[d] \in Nvs
      BY <3>2 DEF UiState, Nvs, Polling, Ending, Outcome
    <3>. QED
      BY <2>3, <3>1, <3>2, <3>3 DEF SaveMessage, UiState, Nvs
  <2>4. CASE ShowMessage(d)
    <3>1. PICK m \in {nvs[d].msg, "none"} : nvs' = [nvs EXCEPT ![d].msg = m]
      BY <2>4 DEF ShowMessage, Stored
    <3>2. /\ ui[d].pc = "off" /\ ui'[d] = ui[d]
          /\ nvs'[d] = [nvs[d] EXCEPT !.msg = m]
      BY <2>4, <3>1 DEF ShowMessage
    <3>3. nvs'[d] \in Nvs
      BY <3>2 DEF Nvs
    <3>. QED
      BY <2>4, <3>1, <3>2, <3>3 DEF ShowMessage, Nvs
  <2>5. CASE Boot(d)
    <3>1. PICK m \in Stored(d, nvs[d].msg, "none"), r \in Stored(d, nvs[d].record, FALSE) :
            nvs' = [nvs EXCEPT ![d] =
                     [msg |-> m, record |-> IF @.msg = "failed" THEN @.record ELSE r]]
      BY <2>5 DEF Boot
    <3>. DEFINE k == IF nvs[d].msg = "failed" THEN nvs[d].record ELSE r
    <3>2. /\ m = "none" \/ (m = nvs[d].msg /\ "nvs" \in Faults[d])
          /\ m \in {"none", "complete", "failed"} /\ k \in BOOLEAN
          /\ k => nvs[d].record /\ (nvs[d].msg = "failed" \/ "nvs" \in Faults[d])
      BY <3>1 DEF Stored, Nvs
    <3>3. nvs' = [nvs EXCEPT ![d] = [msg |-> m, record |-> k]]
      BY <3>1
    <3>. HIDE DEF k
    <3>4. nvs'[d] = [msg |-> m, record |-> k]
      BY <3>3
    <3>5. ui[d].pc = "off" /\ ui'[d] = [ui[d] EXCEPT !.pc = "booted"]
      BY <2>5 DEF Boot
    <3>6. nvs'[d] \in Nvs /\ nvs'[d].msg = m /\ nvs'[d].record = k
      BY <3>2, <3>4 DEF Nvs
    <3>7. ui'[d] \in UiState
      BY <3>5 DEF UiState, Polling, Ending
    <3>. QED
      BY <2>5, <3>2, <3>3, <3>4, <3>5, <3>6, <3>7 DEF Boot, UiState
  <2>. QED
    BY <2>1, <2>2, <2>3, <2>4, <2>5
<1>7. TempIsPart(d)'
  BY <1>1, <1>3, <1>4 DEF LocalInv, TempIsPart, WillReceive
<1>8. ScreenIsTrue(d)'
  BY <1>1, <1>3, <1>4 DEF LocalInv, ScreenIsTrue, Gone, Ending, Outcome
<1>9. RecordIsTrue(d)'
  BY <1>1, <1>3, <1>4 DEF LocalInv, ScreenIsTrue, RecordIsTrue, Withdraws, Outcome
<1>10. OnScreen(d)
  BY <1>1, <1>2, <1>3, <1>4 DEF OnScreen, TypeOK
<1>. QED
  BY <1>7, <1>8, <1>9, <1>10, ScreenSteps

LEMMA OpenedKeeps ==
  ASSUME IInv, NEW d \in Device, Opened(d)
  PROVE  IInv'
<1>1. TypeOK /\ LocalInv(d)
  BY DEF IInv
<1>2. ui[d] \in UiState /\ disk[d] \in Files /\ nvs[d] \in Nvs
  BY <1>1 DEF TypeOK, Files, Nvs
<1>3. /\ ui[d].pc = "build" /\ ui' = [ui EXCEPT ![d].pc = "poll"]
      /\ ui'[d] = [ui[d] EXCEPT !.pc = "poll"] /\ opened' = [opened EXCEPT ![d] = TRUE]
      /\ UNCHANGED <<start, session, link, wire, io, pub, disk, nvs>>
  BY <1>1 DEF Opened, netVars, TypeOK
<1>4. /\ ui'[d] \in UiState /\ ui'[d].pc = "poll"
      /\ (ui'[d].finalized <=> ui[d].finalized)
      /\ (ui'[d].recv_ok <=> ui[d].recv_ok) /\ (ui'[d].ok <=> ui[d].ok)
  BY <1>2, <1>3 DEF UiState, Polling
<1>5. TempIsPart(d)'
  BY <1>1, <1>3, <1>4 DEF LocalInv, TempIsPart, WillReceive
<1>6. ScreenIsTrue(d)' /\ RecordIsTrue(d)'
  BY <1>1, <1>3, <1>4 DEF LocalInv, ScreenIsTrue, RecordIsTrue, Gone, Ending
<1>7. OnScreen(d)
  BY <1>1, <1>2, <1>3, <1>4 DEF OnScreen, TypeOK
<1>. QED
  BY <1>5, <1>6, <1>7, ScreenSteps

\* A session that only gets closer to its end, or waits, takes nothing away.
LinkStep ==
  /\ UNCHANGED <<start, opened, wire, io, ui, disk, nvs>>
  /\ \A e \in Device :
       /\ pub'[e] \in Atomics /\ SaidStays(e)
       /\ session'[e] \in {"none", "wait", "error"} \cup {session[e]}
       /\ session'[e] \in {"none", "wait"} => session[e] \in {"none", "wait"}
       /\ session'[e] \in Gone <=> session[e] \in Gone
       /\ session'[e] = "up" /\ Reached(e)' => Reached(e)
  /\ session' \in [Device -> {session'[e] : e \in Device}]
  /\ pub' \in [Device -> {pub'[e] : e \in Device}]
  /\ link' \in {"up", link}

LEMMA LinkSteps ==
  ASSUME IInv, LinkStep
  PROVE  IInv'
<1>1. TypeOK /\ \A e \in Device : PairInv(e) /\ LocalInv(e) /\ Peer(e) \in Device
  BY Two DEF IInv
<1>2. start' = start /\ wire' = wire /\ io' = io /\ ui' = ui /\ disk' = disk /\ nvs' = nvs
      /\ opened' = opened
  BY DEF LinkStep
<1>3. TypeOK'
  <2>1. \A e \in Device : session'[e] \in {"none", "wait", "up", "error", "closed", "dead"}
    BY <1>1 DEF LinkStep, TypeOK
  <2>2. session' \in [Device -> {"none", "wait", "up", "error", "closed", "dead"}]
    BY <2>1 DEF LinkStep
  <2>3. pub' \in [Device -> Atomics]
    BY DEF LinkStep
  <2>. QED
    BY <1>1, <1>2, <2>2, <2>3 DEF TypeOK, LinkStep
<1>4. ASSUME NEW e \in Device
      PROVE  PairInv(e)' /\ LocalInv(e)'
  <2>1. /\ SaidStays(e) /\ SaidStays(Peer(e))
        /\ session'[e] \in {"none", "wait", "error"} \cup {session[e]}
        /\ session'[e] \in {"none", "wait"} => session[e] \in {"none", "wait"}
        /\ session'[e] \in Gone <=> session[e] \in Gone
        /\ session'[e] = "up" /\ Reached(e)' => Reached(e)
    BY <1>1 DEF LinkStep
  <2>2. \A h, g : N(h, g)' = N(h, g)
    BY <1>2 DEF N
  <2>3. HelloFirst(e)'
    BY <1>1, <1>2, <2>1, <2>2 DEF PairInv, HelloFirst, SaidStays
  <2>4. CardInOrder(e)'
    BY <1>1, <1>2, <2>1, <2>2 DEF PairInv, CardInOrder, SaidStays, WantsToSend
  <2>5. AckIsTrue(e)'
    BY <1>1, <1>2, <2>1, <2>2 DEF PairInv, AckIsTrue, SaidStays
  <2>6. Agreed(e)' /\ TempIsPart(e)'
    BY <1>1, <1>2, <2>1 DEF LocalInv, Agreed, TempIsPart, SaidStays, WillReceive, WantsToSend
  <2>7. ScreenIsTrue(e)' /\ RecordIsTrue(e)'
    BY <1>1, <1>2, <2>1 DEF LocalInv, ScreenIsTrue, RecordIsTrue, SaidStays
  <2>. QED
    BY <2>3, <2>4, <2>5, <2>6, <2>7 DEF PairInv, LocalInv
<1>. QED
  BY <1>3, <1>4 DEF IInv

LEMMA ConnectionKeeps ==
  ASSUME IInv,
         Link \/ \E d \in Device : Open(d) \/ ConnectTimeout(d) \/ NoticeLoss(d)
  PROVE  IInv'
<1>1. TypeOK
  BY DEF IInv
<1>2. \A e \in Device : pub[e] \in Atomics /\ Peer(e) \in Device
  BY <1>1, Two DEF TypeOK
<1>3. CASE Link
  <2>1. LinkStep
    BY <1>1, <1>2, <1>3 DEF Link, LinkStep, SaidStays, TypeOK, Gone
  <2>. QED
    BY <2>1, LinkSteps
<1>4. ASSUME NEW d \in Device, Open(d)
      PROVE  IInv'
  <2>1. /\ session[d] = "none" /\ session' = [session EXCEPT ![d] = "wait"]
        /\ UNCHANGED <<start, opened, link, wire, io, pub, ui, disk, nvs>>
    BY <1>4 DEF Open
  <2>2. LinkStep
    BY <1>1, <1>2, <2>1 DEF LinkStep, SaidStays, TypeOK, Gone, Reached
  <2>. QED
    BY <2>2, LinkSteps
<1>5. ASSUME NEW d \in Device, ConnectTimeout(d) \/ NoticeLoss(d)
      PROVE  IInv'
  <2>1. /\ session[d] \in {"wait", "up"} /\ session' = [session EXCEPT ![d] = "error"]
        /\ pub' = [pub EXCEPT ![d].failed = TRUE]
        /\ UNCHANGED <<start, opened, link, wire, io, ui, disk, nvs>>
    BY <1>5 DEF ConnectTimeout, NoticeLoss
  <2>2. pub'[d] = [pub[d] EXCEPT !.failed = TRUE] /\ \A e \in Device : e # d => pub'[e] = pub[e]
    BY <1>1, <2>1 DEF TypeOK
  <2>3. \A e \in Device : pub'[e] \in Atomics /\ SaidStays(e)
    <3>. TAKE e \in Device
    <3>1. CASE e = d
      BY <1>2, <2>2, <3>1 DEF SaidStays, Atomics
    <3>2. CASE e # d
      BY <1>2, <2>2, <3>2 DEF SaidStays
    <3>. QED
      BY <3>1, <3>2
  <2>4. pub' \in [Device -> {pub'[e] : e \in Device}] /\ session' \in [Device -> {session'[e] : e \in Device}]
    BY <1>1, <2>1 DEF TypeOK
  <2>5. LinkStep
    BY <1>1, <1>2, <2>1, <2>3, <2>4 DEF LinkStep, TypeOK, Gone, Reached
  <2>. QED
    BY <2>5, LinkSteps
<1>. QED
  BY <1>3, <1>4, <1>5

\* d is connected and says hello.
LEMMA ConnectedKeeps ==
  ASSUME IInv, NEW d \in Device, OnConnected(d)
  PROVE  IInv'
<1>1. PICK p \in Device : p = Peer(d) /\ p # d /\ Peer(p) = d
  BY Two
<1>2. TypeOK /\ PairInv(d) /\ PairInv(p) /\ LocalInv(d) /\ LocalInv(p)
  BY <1>1 DEF IInv
<1>3. /\ session[d] = "wait" /\ session' = [session EXCEPT ![d] = "up"]
      /\ UNCHANGED <<start, opened, link, io, ui, disk, nvs>>
      /\ session'[d] = "up" /\ session'[p] = session[p]
  BY <1>1, <1>2 DEF OnConnected, TypeOK
<1>4. /\ wire[d] = <<>> /\ ~pub[d].hello_ready /\ ~pub[p].hello_ready
  BY <1>1, <1>2, <1>3 DEF PairInv, HelloFirst
<1>5. \/ wire' = [wire EXCEPT ![d] = <<>> \o Out(d, <<"HELLO">>)]
      \/ wire' = wire
  BY <1>2, <1>4 DEF OnConnected, Send, TypeOK
<1>6. wire' \in [Device -> Seq(Frames)] /\ wire'[p] = wire[p] /\ wire'[d] \in {<<>>, <<"HELLO">>}
  <2>1. <<>> \in Seq(Frames) /\ <<"HELLO">> \in Seq(Frames)
    BY DEF Frames
  <2>. DEFINE h == <<>> \o Out(d, <<"HELLO">>)
  <2>2. h \in {<<>>, <<"HELLO">>}
    BY <2>1, ConcatEmptySeq DEF Out
  <2>3. wire' = [wire EXCEPT ![d] = h] \/ wire' = wire
    BY <1>5
  <2>4. h \in Seq(Frames)
    BY <2>1, <2>2
  <2>. HIDE DEF h
  <2>5. CASE wire' = [wire EXCEPT ![d] = h]
    <3>1. wire' \in [Device -> Seq(Frames)] /\ wire'[p] = wire[p] /\ wire'[d] = h
      BY <1>1, <1>2, <2>4, <2>5 DEF TypeOK
    <3>. QED
      BY <2>2, <3>1
  <2>6. CASE wire' = wire
    BY <1>2, <1>4, <2>6 DEF TypeOK
  <2>. QED
    BY <2>3, <2>5, <2>6
<1>7. /\ pub'[p] = pub[p] /\ pub' \in [Device -> Atomics]
      /\ SaidStays(d) /\ SaidStays(p)
  <2>1. \/ pub' = [pub EXCEPT ![d].connected = TRUE]
        \/ pub' = [pub EXCEPT ![d].connected = TRUE, ![d].failed = TRUE]
    BY DEF OnConnected
  <2>2. \/ pub'[d] = [pub[d] EXCEPT !.connected = TRUE]
        \/ pub'[d] = [pub[d] EXCEPT !.connected = TRUE, !.failed = TRUE]
    BY <1>2, <2>1 DEF TypeOK
  <2>3. pub[d] \in Atomics /\ pub'[p] = pub[p]
    BY <1>1, <1>2, <2>1 DEF TypeOK
  <2>4. pub'[d] \in Atomics /\ SaidStays(d)
    BY <2>2, <2>3 DEF SaidStays, Atomics
  <2>5. pub' \in [Device -> Atomics]
    BY <1>2, <2>1, <2>2, <2>4 DEF TypeOK
  <2>. QED
    BY <2>3, <2>4, <2>5 DEF SaidStays
<1>8. TypeOK'
  BY <1>2, <1>3, <1>6, <1>7 DEF TypeOK
<1>9. \A g : N(p, g)' = N(p, g)
  BY <1>6 DEF N
<1>10. Ordered(wire'[d]) /\ \A g : N(d, g) = 0 /\ N(d, g)' \in Nat /\ (g # "HELLO" => N(d, g)' = 0)
  <2>1. "HELLO" \in Frames
    BY DEF Frames
  <2>2. \A g : Count(<<"HELLO">>, g) = IF "HELLO" = g THEN 1 ELSE 0
    BY <2>1, CountSingle
  <2>3. \A g : Count(<<>>, g) = 0
    BY <2>1, CountSingle
  <2>4. Ordered(<<>>) /\ Ordered(<<"HELLO">>)
    BY <2>1, CountSingle
  <2>. QED
    BY <1>4, <1>6, <2>2, <2>3, <2>4 DEF N
<1>11. io[d] \in IoState /\ io[p] \in IoState
  BY <1>2 DEF TypeOK
<1>12. PairInv(d)'
  <2>1. HelloFirst(d)'
    BY <1>1, <1>2, <1>3, <1>4, <1>7, <1>9, <1>10 DEF PairInv, HelloFirst, SaidStays
  <2>2. io[d].sent = 0 /\ io[p].got = 0 /\ N(p, "WINDOW") = 0
    BY <1>1, <1>2, <1>4, <1>10, <1>11 DEF PairInv, HelloFirst, CardInOrder, IoState
  <2>3. /\ N(d, "CARD")' = 0 /\ N(d, "DATA")' = 0 /\ N(d, "EOF")' = 0 /\ N(d, "ACK")' = 0
        /\ N(p, "WINDOW")' = N(p, "WINDOW") /\ N(d, "DATA") = 0
    BY <1>9, <1>10
  <2>4. CardInOrder(d)'
    BY <1>1, <1>2, <1>3, <1>7, <1>11, <2>2, <2>3
       DEF PairInv, CardInOrder, SaidStays, WantsToSend, IoState
  <2>5. AckIsTrue(d)'
    BY <1>1, <1>2, <1>3, <1>7, <2>3 DEF PairInv, AckIsTrue, SaidStays
  <2>. QED
    BY <2>1, <2>4, <2>5 DEF PairInv
<1>13. PairInv(p)'
  <2>1. Reached(p)' => Reached(p)
    BY <1>1, <1>3 DEF Reached
  <2>2. HelloFirst(p)'
    BY <1>1, <1>2, <1>3, <1>6, <1>7, <1>9, <1>10 DEF PairInv, HelloFirst, SaidStays
  <2>3. CardInOrder(p)'
    BY <1>1, <1>2, <1>3, <1>7, <1>9, <1>10, <2>1
       DEF PairInv, CardInOrder, SaidStays, WantsToSend
  <2>4. AckIsTrue(p)'
    BY <1>1, <1>2, <1>3, <1>7, <1>9, <1>10 DEF PairInv, AckIsTrue, SaidStays
  <2>. QED
    BY <2>2, <2>3, <2>4 DEF PairInv
<1>14. LocalInv(p)'
  BY <1>2, <1>3, <1>7, LocalKept
<1>15. LocalInv(d)'
  <2>1. Agreed(d)'
    BY <1>2, <1>3, <1>7 DEF LocalInv, Agreed, SaidStays, WillReceive, WantsToSend
  <2>2. TempIsPart(d)'
    BY <1>2, <1>3, <1>7 DEF LocalInv, TempIsPart, SaidStays, WillReceive
  <2>3. ScreenIsTrue(d)' /\ RecordIsTrue(d)'
    BY <1>2, <1>3, <1>7 DEF LocalInv, ScreenIsTrue, RecordIsTrue, SaidStays, Gone
  <2>. QED
    BY <2>1, <2>2, <2>3 DEF LocalInv
<1>. QED
  BY <1>1, <1>8, <1>12, <1>13, <1>14, <1>15, All

\* What is lost of the frames of e is the end.
Less(e) ==
  /\ Ordered(wire'[e]) /\ wire'[e] \in Seq(Frames)
  /\ \A f \in Frames : N(e, f) \in Nat /\ N(e, f)' \in Nat
  /\ \A f \in Frames \ {"GOAWAY"} : N(e, f)' <= N(e, f)
  /\ N(e, "EOF")' > 0 => N(e, "DATA")' = N(e, "DATA")

\* Nothing is sent any more on a connection that has lost something.
LossStep ==
  /\ start' = start /\ pub' = pub
  /\ \A e \in Device :
       /\ Less(e) /\ MovedStays(e)
       /\ session'[e] = session[e] \/ session'[e] \in Gone
       /\ session'[e] = "up" => ~Reached(e)'
       /\ session'[e] \in {"none", "wait"} /\ wire[e] = <<>> => wire'[e] = <<>>

LEMMA LossSteps ==
  ASSUME IInv, LossStep, NEW e \in Device
  PROVE  PairInv(e)'
<1>1. PICK p \in Device : p = Peer(e) /\ p # e /\ Peer(p) = e
  BY Two
<1>2. TypeOK /\ PairInv(e)
  BY DEF IInv
<1>3. /\ start' = start /\ pub' = pub
      /\ Less(e) /\ Less(p) /\ MovedStays(e) /\ MovedStays(p)
      /\ session'[e] = session[e] \/ session'[e] \in Gone
      /\ session'[e] = "up" => ~Reached(e)'
      /\ session'[e] \in {"none", "wait"} /\ wire[e] = <<>> => wire'[e] = <<>>
  BY DEF LossStep
<1>4. /\ N(e, "HELLO")' <= N(e, "HELLO") /\ N(e, "CARD")' <= N(e, "CARD")
      /\ N(e, "DATA")' <= N(e, "DATA") /\ N(e, "EOF")' <= N(e, "EOF")
      /\ N(e, "ACK")' <= N(e, "ACK") /\ N(p, "WINDOW")' <= N(p, "WINDOW")
      /\ \A g \in {"HELLO", "CARD", "DATA", "EOF", "ACK"} : N(e, g) \in Nat /\ N(e, g)' \in Nat
      /\ N(p, "WINDOW") \in Nat /\ N(p, "WINDOW")' \in Nat
  BY <1>3 DEF Less, Frames
<1>5. io[e] \in IoState /\ io[p] \in IoState /\ Window \in Nat /\ Chunks \in Nat
  BY <1>2, TransferAssumption DEF TypeOK
<1>4a. Ordered(wire'[e]) /\ (N(e, "EOF")' > 0 => N(e, "DATA")' = N(e, "DATA"))
  BY <1>3 DEF Less
<1>4b. /\ N(e, "HELLO") \in Nat /\ N(e, "CARD") \in Nat /\ N(e, "DATA") \in Nat
       /\ N(e, "EOF") \in Nat /\ N(e, "HELLO")' \in Nat /\ N(e, "CARD")' \in Nat
       /\ N(e, "DATA")' \in Nat /\ N(e, "EOF")' \in Nat
  BY <1>4
<1>6. HelloFirst(e)'
  <2>1. session'[e] \in {"none", "wait"} => session[e] \in {"none", "wait"}
    BY <1>3 DEF Gone
  <2>2. HelloFirst(e)
    BY <1>2 DEF PairInv
  <2>. QED
    BY <1>1, <1>3, <1>4, <1>4a, <1>4b, <2>1, <2>2 DEF HelloFirst, MovedStays
<1>7. CardInOrder(e)'
  <2>1. CardInOrder(e)
    BY <1>2 DEF PairInv
  <2>2. /\ io'[p].got = io[p].got /\ io'[e].sent = io[e].sent /\ io'[e].win = io[e].win
        /\ io[p].got \in Nat /\ io[e].sent \in Nat /\ io[e].win \in Nat
    BY <1>3, <1>5 DEF MovedStays, IoState
  <2>3. io'[p].got + N(e, "DATA")' <= io'[e].sent
        /\ io'[e].win + N(e, "DATA")' + N(p, "WINDOW")' <= Window
    BY <1>1, <1>4, <1>4b, <1>5, <2>1, <2>2 DEF CardInOrder
  <2>4. N(e, "EOF")' > 0 => io'[p].got + N(e, "DATA")' = Chunks /\ pub'[e].send_done
    BY <1>1, <1>3, <1>4, <1>4a, <1>4b, <2>1, <2>2 DEF CardInOrder
  <2>5. N(e, "CARD")' > 0 => io'[p].got = 0 /\ WantsToSend(e)'
    BY <1>1, <1>3, <1>4, <1>4b, <2>1, <2>2 DEF CardInOrder, WantsToSend
  <2>6. pub'[p].inbound_complete => io'[p].got = Chunks
    BY <1>1, <1>3, <2>1, <2>2 DEF CardInOrder
  <2>. QED
    BY <1>1, <1>3, <2>3, <2>4, <2>5, <2>6 DEF CardInOrder
<1>8. AckIsTrue(e)'
  BY <1>1, <1>2, <1>3, <1>4 DEF PairInv, AckIsTrue, MovedStays
<1>. QED
  BY <1>6, <1>7, <1>8 DEF PairInv

LEMMA PrefixIsLess ==
  ASSUME TypeOK, NEW e \in Device, Ordered(wire[e]), wire'[e] \in Prefixes(wire[e])
  PROVE  Less(e) /\ (wire[e] = <<>> => wire'[e] = <<>>)
<1>1. wire[e] \in Seq(Frames)
  BY DEF TypeOK
<1>2. wire'[e] \in Seq(Frames)
  BY <1>1, CountPrefix
<1>. QED
  BY <1>1, <1>2, CountPrefix, CountFinite DEF Less, N

LEMMA EmptyIsLess ==
  ASSUME TypeOK, NEW e \in Device, wire'[e] = <<>>
  PROVE  Less(e)
<1>1. wire[e] \in Seq(Frames) /\ <<>> \in Seq(Frames) /\ Ordered(<<>>) /\ \A g : Count(<<>>, g) = 0
  BY CountSingle DEF TypeOK, Frames
<1>2. \A g : Count(wire[e], g) \in Nat
  BY <1>1, CountFinite
<1>. QED
  BY <1>1, <1>2 DEF Less, N

LEMMA CutKeeps ==
  ASSUME IInv, NEW d \in Device, Cut(d)
  PROVE  IInv'
<1>1. /\ link' = "cut"
      /\ UNCHANGED <<start, session, opened, io, pub, ui, disk, nvs>>
  BY DEF Cut
<1>2. TypeOK /\ \A e \in Device : PairInv(e) /\ LocalInv(e) /\ Ordered(wire[e])
  BY DEF IInv, PairInv, HelloFirst
<1>3. wire' \in [Device -> {wire'[e] : e \in Device}] /\ \A e \in Device : wire'[e] \in Prefixes(wire[e])
  BY DEF Cut, Device
<1>4. \A e \in Device : Less(e) /\ (wire[e] = <<>> => wire'[e] = <<>>)
  BY <1>2, <1>3, PrefixIsLess
<1>5. LossStep
  BY <1>1, <1>4 DEF LossStep, MovedStays, Reached
<1>6. \A e \in Device : PairInv(e)'
  BY <1>5, LossSteps
<1>7. \A e \in Device : LocalInv(e)'
  BY <1>1, <1>2, LocalKept
<1>8. TypeOK'
  BY <1>1, <1>2, <1>3, <1>4 DEF TypeOK, Less
<1>. QED
  BY <1>6, <1>7, <1>8 DEF IInv

\* The session of d ends: the I/O task is joined, and what is left is dropped.
GoneStep(d) ==
  /\ session' = [session EXCEPT ![d] = session'[d]] /\ session'[d] \in Gone
  /\ wire' = [wire EXCEPT ![d] = wire'[d], ![Peer(d)] = <<>>]
  /\ Less(d)
  /\ io' = [io EXCEPT ![d].file = FALSE]
  /\ ui' = [ui EXCEPT ![d] = ui'[d]] /\ ui'[d] \in UiState
  /\ disk' = [disk EXCEPT ![d] = disk'[d]] /\ disk'[d] \in Files
  /\ UNCHANGED <<start, opened, link, pub, nvs>>

LEMMA GoneSteps ==
  ASSUME IInv, NEW d \in Device, GoneStep(d),
         TempIsPart(d)', ScreenIsTrue(d)', RecordIsTrue(d)'
  PROVE  IInv'
<1>1. PICK p \in Device : p = Peer(d) /\ p # d /\ Peer(p) = d /\ \A e \in Device : e = d \/ e = p
  BY Two
<1>2. TypeOK /\ LocalInv(d) /\ LocalInv(p)
  BY <1>1 DEF IInv
<1>3. /\ session' \in [Device -> {"none", "wait", "up", "error", "closed", "dead"}]
      /\ session'[d] \in Gone /\ session'[p] = session[p]
      /\ ui' \in [Device -> UiState] /\ ui'[p] = ui[p]
      /\ disk' \in [Device -> Files] /\ disk'[p] = disk[p]
      /\ start' = start /\ opened' = opened /\ link' = link /\ pub' = pub /\ nvs' = nvs
  <2>1. start' = start /\ opened' = opened /\ link' = link /\ pub' = pub /\ nvs' = nvs
    BY DEF GoneStep
  <2>2. session' \in [Device -> {"none", "wait", "up", "error", "closed", "dead"}]
        /\ session'[d] \in Gone /\ session'[p] = session[p]
    <3>1. /\ session' = [session EXCEPT ![d] = session'[d]] /\ session'[d] \in Gone
          /\ session'[d] \in {"none", "wait", "up", "error", "closed", "dead"}
      BY DEF GoneStep, Gone
    <3>. QED
      BY <1>1, <1>2, <3>1 DEF TypeOK
  <2>3. /\ ui' \in [Device -> UiState] /\ ui'[p] = ui[p]
        /\ disk' \in [Device -> Files] /\ disk'[p] = disk[p]
    BY <1>1, <1>2 DEF GoneStep, TypeOK, Files
  <2>. QED
    BY <2>1, <2>2, <2>3
<1>4. /\ io' \in [Device -> IoState] /\ io'[p] = io[p]
      /\ MovedStays(d) /\ MovedStays(p)
  <2>1. io'[d] = [io[d] EXCEPT !.file = FALSE] /\ io'[p] = io[p] /\ io[d] \in IoState
    BY <1>1, <1>2 DEF GoneStep, TypeOK
  <2>2. io'[d] \in IoState /\ MovedStays(d)
    BY <2>1 DEF MovedStays, IoState
  <2>3. io' = [io EXCEPT ![d] = io'[d]]
    BY <1>2, <2>1 DEF GoneStep, TypeOK
  <2>4. io' \in [Device -> IoState]
    BY <1>2, <2>2, <2>3 DEF TypeOK
  <2>. QED
    BY <2>1, <2>2, <2>4 DEF MovedStays
<1>5. /\ wire' \in [Device -> Seq(Frames)] /\ wire'[p] = <<>>
      /\ Less(d) /\ Less(p)
  <2>1. Less(d) /\ wire'[d] \in Seq(Frames)
    BY DEF GoneStep, Less
  <2>2. wire'[p] = <<>> /\ <<>> \in Seq(Frames)
    BY <1>1, <1>2 DEF GoneStep, TypeOK
  <2>3. wire' \in [Device -> Seq(Frames)]
    BY <1>1, <1>2, <2>1, <2>2 DEF GoneStep, TypeOK
  <2>. QED
    BY <1>1, <1>2, <2>1, <2>2, <2>3, EmptyIsLess
<1>6. TypeOK'
  BY <1>2, <1>3, <1>4, <1>5 DEF TypeOK, Files
<1>7. LossStep
  BY <1>1, <1>3, <1>4, <1>5 DEF LossStep, Reached, Gone
<1>8. PairInv(d)' /\ PairInv(p)'
  BY <1>7, LossSteps
<1>9. LocalInv(p)'
  BY <1>2, <1>3, <1>4, LocalKept
<1>10. Agreed(d)'
  BY <1>2, <1>3 DEF LocalInv, Agreed, WillReceive, WantsToSend
<1>. QED
  BY <1>1, <1>6, <1>8, <1>9, <1>10, All DEF LocalInv

LEMMA PowerLossKeeps ==
  ASSUME IInv, NEW d \in Device, PowerLoss(d)
  PROVE  IInv'
<1>1. TypeOK /\ LocalInv(d) /\ Ordered(wire[d]) /\ Peer(d) \in Device /\ Peer(d) # d
  BY Two DEF IInv, PairInv, HelloFirst
<1>2. ui[d] \in UiState /\ disk[d] \in Files /\ io[d] \in IoState
  BY <1>1 DEF TypeOK, Files
<1>3. /\ ui[d].pc \notin {"build", "off", "booted"}
      /\ ui' = [ui EXCEPT ![d].pc = "off"] /\ ui'[d] = [ui[d] EXCEPT !.pc = "off"]
      /\ session'[d] \in Gone /\ session' = [session EXCEPT ![d] = session'[d]]
      /\ io' = [io EXCEPT ![d].file = FALSE] /\ io'[d] = [io[d] EXCEPT !.file = FALSE]
      /\ UNCHANGED <<start, opened, link, pub, disk, nvs>>
  BY <1>1 DEF PowerLoss, Goto, TypeOK, Gone
<1>4. wire'[d] \in Prefixes(wire[d]) /\ wire' = [wire EXCEPT ![d] = wire'[d], ![Peer(d)] = <<>>]
  BY <1>1 DEF PowerLoss, TypeOK
<1>5. Less(d)
  BY <1>1, <1>4, PrefixIsLess
<1>6. /\ ui'[d] \in UiState /\ ui'[d].pc = "off" /\ (ui'[d].finalized <=> ui[d].finalized)
      /\ (ui'[d].recv_ok <=> ui[d].recv_ok) /\ (ui'[d].ok <=> ui[d].ok)
      /\ ~io'[d].file /\ io'[d].got = io[d].got
  BY <1>2, <1>3 DEF UiState, Ending, IoState
<1>7. GoneStep(d)
  BY <1>1, <1>2, <1>3, <1>4, <1>5, <1>6 DEF GoneStep, TypeOK
<1>8. TempIsPart(d)'
  BY <1>1, <1>3, <1>6 DEF LocalInv, TempIsPart, Gone, WillReceive
<1>9. ScreenIsTrue(d)'
  BY <1>1, <1>3, <1>6 DEF LocalInv, ScreenIsTrue, Ending
<1>10. RecordIsTrue(d)'
  BY <1>1, <1>3, <1>6 DEF LocalInv, ScreenIsTrue, RecordIsTrue
<1>. QED
  BY <1>7, <1>8, <1>9, <1>10, GoneSteps

\* What a device that closes its session says last takes nothing back.
LEMMA Closed ==
  ASSUME IInv, NEW d \in Device, Closes(d)
  PROVE  /\ session'[d] = "closed" /\ session' = [session EXCEPT ![d] = "closed"]
         /\ io' = [io EXCEPT ![d].file = FALSE] /\ io'[d] = [io[d] EXCEPT !.file = FALSE]
         /\ wire' = [wire EXCEPT ![d] = wire'[d], ![Peer(d)] = <<>>]
         /\ Less(d)
<1>1. TypeOK /\ Ordered(wire[d]) /\ Peer(d) \in Device /\ Peer(d) # d
      /\ wire[d] \in Seq(Frames)
  BY Two DEF IInv, PairInv, HelloFirst, TypeOK
<1>2. /\ session'[d] = "closed" /\ session' = [session EXCEPT ![d] = "closed"]
      /\ io' = [io EXCEPT ![d].file = FALSE] /\ io'[d] = [io[d] EXCEPT !.file = FALSE]
  BY <1>1 DEF Closes, TypeOK
<1>. DEFINE bye == IF session[d] = "error" THEN <<>> ELSE <<"GOAWAY">>
            q == wire[d] \o Out(d, bye)
<1>3. wire'[d] \in Prefixes(q) /\ wire' = [wire EXCEPT ![d] = wire'[d], ![Peer(d)] = <<>>]
  BY <1>1 DEF Closes, TypeOK
<1>4. Less(d)
  <2>1. "GOAWAY" \in Frames
    BY DEF Frames
  <2>2. Out(d, bye) \in {<<>>, <<"GOAWAY">>}
    BY DEF Out
  <2>. DEFINE o == Out(d, bye)
  <2>3. o \in Seq(Frames) /\ Ordered(o) /\ \A f : f # "GOAWAY" => Count(o, f) = 0
    BY <2>1, <2>2, CountSingle
  <2>. HIDE DEF o
  <2>4. q \in Seq(Frames)
    BY <1>1, <2>3, CountConcat DEF o
  <2>5. \A f : f # "GOAWAY" => Count(q, f) = Count(wire[d], f)
    <3>. SUFFICES ASSUME NEW f, f # "GOAWAY"
                  PROVE  Count(q, f) = Count(wire[d], f)
      OBVIOUS
    <3>1. Count(q, f) = Count(wire[d], f) + Count(o, f)
      BY <1>1, <2>3, CountConcat DEF o
    <3>2. Count(o, f) = 0 /\ Count(wire[d], f) \in Nat
      BY <1>1, <2>3, CountFinite
    <3>. QED
      BY <3>1, <3>2
  <2>6. Ordered(q)
    <3>1. /\ ~(Count(o, "HELLO") > 0) /\ ~(Count(o, "CARD") > 0)
          /\ ~(Count(o, "DATA") > 0) /\ ~(Count(o, "EOF") > 0)
      BY <2>3
    <3>. QED
      BY <1>1, <2>3, <3>1, OrderedConcat DEF o
  <2>. HIDE DEF q
  <2>7. /\ wire'[d] \in Seq(Frames) /\ Ordered(wire'[d])
        /\ \A f : Count(wire'[d], f) <= Count(q, f)
        /\ Count(wire'[d], "EOF") > 0 => Count(wire'[d], "DATA") = Count(q, "DATA")
    BY <1>3, <2>4, <2>6, CountPrefix
  <2>8. \A f : Count(wire[d], f) \in Nat /\ Count(wire'[d], f) \in Nat
    BY <1>1, <2>7, CountFinite
  <2>. QED
    BY <2>5, <2>7, <2>8 DEF Less, N
<1>. QED
  BY <1>2, <1>3, <1>4

LEMMA CloseKeeps ==
  ASSUME IInv, NEW d \in Device, Close(d)
  PROVE  IInv'
<1>1. TypeOK /\ LocalInv(d) /\ Peer(d) \in Device /\ Peer(d) # d
  BY Two DEF IInv
<1>2. ui[d] \in UiState /\ disk[d] \in Files /\ io[d] \in IoState
  BY <1>1 DEF TypeOK, Files
<1>3. /\ ui[d].pc = "close"
      /\ ui' = [ui EXCEPT ![d].pc = "take"] /\ ui'[d] = [ui[d] EXCEPT !.pc = "take"]
      /\ disk' = [disk EXCEPT ![d].temp = IF Removes(d) THEN "none" ELSE @]
      /\ disk'[d] = [disk[d] EXCEPT !.temp = IF Removes(d) THEN "none" ELSE @]
      /\ UNCHANGED <<start, opened, link, pub, nvs>>
  BY <1>1 DEF Close, At, Goto, TypeOK
<1>4. /\ session'[d] = "closed" /\ session' = [session EXCEPT ![d] = "closed"]
      /\ io' = [io EXCEPT ![d].file = FALSE] /\ io'[d] = [io[d] EXCEPT !.file = FALSE]
      /\ wire' = [wire EXCEPT ![d] = wire'[d], ![Peer(d)] = <<>>]
      /\ Less(d)
  BY Closed DEF Close
<1>6. /\ ui'[d] \in UiState /\ ui'[d].pc = "take" /\ (ui'[d].finalized <=> ui[d].finalized)
      /\ (ui'[d].recv_ok <=> ui[d].recv_ok) /\ (ui'[d].ok <=> ui[d].ok)
      /\ ~io'[d].file /\ io'[d].got = io[d].got
  BY <1>2, <1>3, <1>4 DEF UiState, Ending, IoState
<1>7. /\ disk'[d] \in Files /\ disk'[d].card = disk[d].card
      /\ disk'[d].temp = IF ui[d].ok THEN disk[d].temp ELSE "none"
  BY <1>2, <1>3 DEF Removes, Files, Content
<1>8. disk'[d].temp = "none"
  BY <1>1, <1>7 DEF LocalInv, Agreed, TempIsPart, ScreenIsTrue
<1>9. GoneStep(d)
  BY <1>1, <1>2, <1>3, <1>4, <1>6, <1>7 DEF GoneStep, TypeOK, Gone
<1>10. TempIsPart(d)'
  BY <1>1, <1>3, <1>4, <1>6, <1>7, <1>8 DEF LocalInv, TempIsPart, WillReceive
<1>11. ScreenIsTrue(d)'
  BY <1>1, <1>3, <1>4, <1>6, <1>8 DEF LocalInv, ScreenIsTrue, Ending, Gone
<1>12. RecordIsTrue(d)'
  BY <1>1, <1>3, <1>6 DEF LocalInv, ScreenIsTrue, RecordIsTrue
<1>. QED
  BY <1>9, <1>10, <1>11, <1>12, GoneSteps

LEMMA WakeKeeps ==
  ASSUME IInv, NEW d \in Device, Wake(d)
  PROVE  IInv'
<1>1. TypeOK /\ LocalInv(d) /\ Peer(d) \in Device /\ Peer(d) # d
  BY Two DEF IInv
<1>2. ui[d] \in UiState /\ disk[d] \in Files /\ io[d] \in IoState
  BY <1>1 DEF TypeOK, Files
<1>3. /\ ui[d].pc = "poll"
      /\ ui' = [ui EXCEPT ![d].pc = "off"] /\ ui'[d] = [ui[d] EXCEPT !.pc = "off"]
      /\ UNCHANGED <<start, opened, link, pub, disk, nvs>>
  BY <1>1 DEF Wake, At, Goto, TypeOK
<1>4. /\ session'[d] = "closed" /\ session' = [session EXCEPT ![d] = "closed"]
      /\ io' = [io EXCEPT ![d].file = FALSE] /\ io'[d] = [io[d] EXCEPT !.file = FALSE]
      /\ wire' = [wire EXCEPT ![d] = wire'[d], ![Peer(d)] = <<>>]
      /\ Less(d)
  BY Closed DEF Wake
<1>5. /\ ui'[d] \in UiState /\ ui'[d].pc = "off" /\ (ui'[d].finalized <=> ui[d].finalized)
      /\ (ui'[d].recv_ok <=> ui[d].recv_ok) /\ (ui'[d].ok <=> ui[d].ok)
      /\ ~io'[d].file /\ io'[d].got = io[d].got
  BY <1>2, <1>3, <1>4 DEF UiState, Ending, IoState
<1>6. GoneStep(d)
  BY <1>1, <1>2, <1>3, <1>4, <1>5 DEF GoneStep, TypeOK, Gone
<1>7. TempIsPart(d)'
  BY <1>1, <1>3, <1>4, <1>5 DEF LocalInv, TempIsPart, WillReceive
<1>8. ScreenIsTrue(d)'
  BY <1>1, <1>3, <1>4, <1>5 DEF LocalInv, ScreenIsTrue, Polling, Ending, Gone
<1>9. RecordIsTrue(d)'
  BY <1>1, <1>3, <1>5 DEF LocalInv, ScreenIsTrue, RecordIsTrue
<1>. QED
  BY <1>6, <1>7, <1>8, <1>9, GoneSteps

\* Handlers that only set a flag.
LEMMA FlagKeeps ==
  ASSUME IInv, NEW d \in Device, OnAck(d) \/ OnGoaway(d)
  PROVE  IInv'
<1>. USE TransferAssumption
<1>1. PICK p \in Device : p = Peer(d) /\ p # d /\ Peer(p) = d
  BY Two
<1>2. TypeOK /\ PairInv(d) /\ PairInv(p) /\ LocalInv(d) /\ LocalInv(p)
  BY <1>1 DEF IInv
<1>3. pub[d] \in Atomics /\ io[d] \in IoState /\ disk[d] \in Files
  BY <1>2 DEF TypeOK, Files
<1>4. io' = io /\ disk' = disk
  BY DEF OnAck, OnGoaway
<1>5. PICK f \in {"ACK", "GOAWAY"} :
        /\ Receives(d, f)
        /\ \/ f = "ACK" /\ pub' = [pub EXCEPT ![d].got_peer_ack = TRUE]
           \/ f = "GOAWAY" /\ pub' = [pub EXCEPT ![d].peer_left = TRUE]
  BY DEF OnAck, OnGoaway
<1>6. \/ f = "ACK" /\ pub'[d] = [pub[d] EXCEPT !.got_peer_ack = TRUE]
      \/ f = "GOAWAY" /\ pub'[d] = [pub[d] EXCEPT !.peer_left = TRUE]
  BY <1>2, <1>5 DEF TypeOK
<1>7. /\ pub'[d] \in Atomics
      /\ pub'[d].hello_ready <=> pub[d].hello_ready
      /\ pub'[d].will_send <=> pub[d].will_send
      /\ pub'[d].will_recv <=> pub[d].will_recv
      /\ pub'[d].send_done <=> pub[d].send_done
      /\ pub'[d].inbound_complete <=> pub[d].inbound_complete
      /\ f # "ACK" => (pub'[d].got_peer_ack <=> pub[d].got_peer_ack)
  BY <1>3, <1>6 DEF Atomics
<1>8. Handled(d, f, <<>>)
  <2>1. Handler(d, f, <<>>)
    BY <1>2, <1>3, <1>4, <1>5, <1>7 DEF Handler, OnAck, OnGoaway, TypeOK, Files
  <2>. QED
    BY <2>1, Handles, NothingFits
<1>9. /\ Ordered(wire'[d]) /\ Ordered(wire'[p]) /\ session[d] = "up" /\ session' = session
      /\ io'[p] = io[p] /\ pub'[p] = pub[p] /\ disk'[p] = disk[p]
      /\ start' = start /\ link' = link /\ ui' = ui /\ nvs' = nvs
  BY <1>1, <1>8 DEF Handled, Handed
<1>10. /\ \A g : N(d, g) \in Nat /\ N(p, g) \in Nat
       /\ N(d, "HELLO")' = N(d, "HELLO") /\ N(d, "CARD")' = N(d, "CARD")
       /\ N(d, "DATA")' = N(d, "DATA") /\ N(d, "EOF")' = N(d, "EOF")
       /\ N(d, "ACK")' = N(d, "ACK") /\ N(d, "WINDOW")' = N(d, "WINDOW")
       /\ N(p, "HELLO")' = N(p, "HELLO") /\ N(p, "CARD")' = N(p, "CARD")
       /\ N(p, "DATA")' = N(p, "DATA") /\ N(p, "EOF")' = N(p, "EOF")
       /\ N(p, "WINDOW")' = N(p, "WINDOW") /\ N(p, "ACK")' <= N(p, "ACK")
       /\ f = "ACK" => N(p, "ACK") > 0
  <2>1. Handed(d, f, <<>>)
    BY <1>8 DEF Handled
  <2>2. /\ \A g : N(d, g)' = N(d, g) /\ N(d, g) \in Nat /\ N(p, g) \in Nat
        /\ \A g : N(p, g) = N(p, g)' + IF f = g THEN 1 ELSE 0
        /\ \A g : N(d, g)' \in Nat /\ N(p, g)' \in Nat
    BY <1>1, <2>1, NoAnswer
  <2>3. /\ N(p, "HELLO")' = N(p, "HELLO") /\ N(p, "CARD")' = N(p, "CARD")
        /\ N(p, "DATA")' = N(p, "DATA") /\ N(p, "EOF")' = N(p, "EOF")
        /\ N(p, "WINDOW")' = N(p, "WINDOW")
    BY <1>5, <2>2
  <2>4. N(p, "ACK")' <= N(p, "ACK") /\ (f = "ACK" => N(p, "ACK") > 0)
    BY <2>2
  <2>. QED
    BY <2>2, <2>3, <2>4
<1>11. HelloFirst(d)' /\ HelloFirst(p)'
  <2>1. HelloFirst(d) /\ HelloFirst(p)
    BY <1>2 DEF PairInv
  <2>2. HelloFirst(d)'
    BY <1>1, <1>4, <1>7, <1>9, <1>10, <2>1 DEF HelloFirst
  <2>3. session[p] \notin {"none", "wait"}
    BY <1>1, <1>5, <2>1 DEF HelloFirst, Receives
  <2>4. HelloFirst(p)'
    BY <1>1, <1>4, <1>7, <1>9, <1>10, <2>1, <2>3 DEF HelloFirst
  <2>. QED
    BY <2>2, <2>4
<1>12. CardInOrder(d)' /\ CardInOrder(p)'
  BY <1>1, <1>2, <1>4, <1>7, <1>9, <1>10 DEF PairInv, CardInOrder, WantsToSend, Reached
<1>13. AckIsTrue(d)'
  BY <1>1, <1>2, <1>4, <1>7, <1>9, <1>10 DEF PairInv, AckIsTrue
<1>14. AckIsTrue(p)'
  <2>1. AckIsTrue(p) /\ io'[p].acked = io[p].acked
    BY <1>2, <1>9 DEF PairInv
  <2>2. N(p, "ACK")' > 0 \/ pub'[d].got_peer_ack => N(p, "ACK") > 0 \/ pub[d].got_peer_ack
    <3>1. N(p, "ACK") \in Nat /\ (N(p, "ACK")' > 0 => N(p, "ACK") > 0)
      <4>1. N(p, "ACK")' \in Nat /\ N(p, "ACK") \in Nat
        BY <1>1, <1>8 DEF Handled, Handed
      <4>. QED
        BY <1>10, <4>1
    <3>. QED
      BY <1>7, <1>10, <3>1
  <2>. QED
    BY <1>1, <1>9, <2>1, <2>2 DEF AckIsTrue
<1>15. Agreed(d)' /\ TempIsPart(d)'
  BY <1>2, <1>4, <1>7, <1>9 DEF LocalInv, Agreed, TempIsPart, WillReceive, WantsToSend
<1>16. ScreenIsTrue(d)'
  BY <1>2, <1>4, <1>7, <1>9 DEF LocalInv, ScreenIsTrue
<1>. QED
  BY <1>1, <1>8, <1>11, <1>12, <1>13, <1>14, <1>15, <1>16, All DEF PairInv, LocalInv, Handled

\* A piece is written to the file, or lost to it, and its credit goes back.
LEMMA DataKeeps ==
  ASSUME IInv, NEW d \in Device, OnData(d)
  PROVE  IInv'
<1>. USE TransferAssumption
<1>1. PICK p \in Device : p = Peer(d) /\ p # d /\ Peer(p) = d
  BY Two
<1>2. TypeOK /\ PairInv(d) /\ PairInv(p) /\ LocalInv(d) /\ LocalInv(p)
  BY <1>1 DEF IInv
<1>3. pub[d] \in Atomics /\ io[d] \in IoState /\ disk[d] \in Files
  BY <1>2 DEF TypeOK, Files
<1>. DEFINE n == io[d].got + 1
            grown == IF n = Chunks THEN "whole" ELSE "part"
<1>4. /\ Receives(d, "DATA") /\ Answer(d, <<"WINDOW">>)
      /\ io' = [io EXCEPT ![d].got = n] /\ io'[d] = [io[d] EXCEPT !.got = n]
      /\ UNCHANGED <<start, session, opened, link, ui, nvs>>
  BY <1>2 DEF OnData, TypeOK
<1>5. /\ \/ disk' = disk \/ \E t \in {"torn", "part", "whole"} : disk' = [disk EXCEPT ![d].temp = t]
      /\ disk'[d].card = disk[d].card /\ disk'[d] \in Files
      /\ \/ io[d].file /\ disk[d].temp # "torn" /\ disk'[d].temp = grown
         \/ io[d].file /\ disk'[d].temp = "torn"
         \/ ~io[d].file /\ disk'[d].temp = disk[d].temp
  <2>1. CASE io[d].file /\ disk' = [disk EXCEPT ![d].temp = IF @ = "torn" THEN "torn" ELSE grown]
    <3>1. disk'[d] = [disk[d] EXCEPT !.temp = IF @ = "torn" THEN "torn" ELSE grown]
      BY <1>2, <2>1 DEF TypeOK
    <3>. QED
      BY <1>2, <1>3, <2>1, <3>1 DEF Files, Content, TypeOK
  <2>2. CASE io[d].file /\ disk' = [disk EXCEPT ![d].temp = "torn"]
    <3>1. disk'[d] = [disk[d] EXCEPT !.temp = "torn"]
      BY <1>2, <2>2 DEF TypeOK
    <3>. QED
      BY <1>3, <2>2, <3>1 DEF Files, Content
  <2>3. CASE ~io[d].file /\ disk' = disk
    BY <1>3, <2>3 DEF Files
  <2>. QED
    BY <2>1, <2>2, <2>3 DEF OnData
<1>6. /\ pub' = pub \/ pub' = [pub EXCEPT ![d].failed = TRUE]
      /\ pub'[d] = pub[d] \/ pub'[d] = [pub[d] EXCEPT !.failed = TRUE]
  BY <1>2 DEF OnData, TypeOK
<1>7. pub'[d] \in Atomics /\ SaidStays(d)
  BY <1>3, <1>6 DEF SaidStays, Atomics
<1>8. N(p, "DATA") > 0 /\ n \in 1 .. Chunks
  <2>1. wire[p] \in Seq(Frames) /\ wire[p] # <<>> /\ Head(wire[p]) = "DATA"
    BY <1>1, <1>2, <1>4 DEF TypeOK, Receives
  <2>2. Count(wire[p], "DATA") = Count(Tail(wire[p]), "DATA") + 1 /\ Tail(wire[p]) \in Seq(Frames)
    BY <2>1, CountTail
  <2>3. N(p, "DATA") \in Nat /\ N(p, "DATA") > 0
    <3>1. Count(Tail(wire[p]), "DATA") \in Nat
      BY <2>2, CountFinite
    <3>. QED
      BY <2>2, <3>1 DEF N
  <2>4. io[d].got + N(p, "DATA") <= io[p].sent /\ io[p] \in IoState
    BY <1>1, <1>2 DEF PairInv, CardInOrder, TypeOK
  <2>. QED
    BY <1>3, <2>3, <2>4 DEF IoState
<1>9. /\ io'[d] \in IoState /\ io'[d].got = n /\ (io'[d].file <=> io[d].file)
      /\ io'[d].win = io[d].win /\ io'[d].sent = io[d].sent /\ (io'[d].acked <=> io[d].acked)
  BY <1>3, <1>4, <1>8 DEF IoState
<1>10. Handled(d, "DATA", <<"WINDOW">>)
  <2>1. disk' = [disk EXCEPT ![d] = disk'[d]]
    BY <1>2, <1>5 DEF TypeOK
  <2>2. pub' = [pub EXCEPT ![d] = pub'[d]] /\ io' = [io EXCEPT ![d] = io'[d]]
    BY <1>2, <1>4, <1>6 DEF TypeOK
  <2>3. Handler(d, "DATA", <<"WINDOW">>)
    BY <1>4, <1>5, <1>7, <1>9, <2>1, <2>2 DEF Handler
  <2>. QED
    BY <2>3, Handles, OneFits
<1>11. /\ Ordered(wire'[d]) /\ Ordered(wire'[p]) /\ session[d] = "up" /\ session' = session
       /\ io'[p] = io[p] /\ pub'[p] = pub[p] /\ disk'[p] = disk[p]
       /\ start' = start /\ link' = link /\ ui' = ui /\ nvs' = nvs
  BY <1>1, <1>10 DEF Handled, Handed
<1>12. /\ \A g : N(d, g) \in Nat /\ N(p, g) \in Nat /\ N(d, g)' \in Nat /\ N(p, g)' \in Nat
       /\ \A g : g # "WINDOW" => N(d, g)' = N(d, g)
       /\ N(d, "WINDOW")' <= N(d, "WINDOW") + 1
       /\ \A g : g # "DATA" => N(p, g)' = N(p, g)
       /\ N(p, "DATA") = N(p, "DATA")' + 1
       /\ N(p, "CARD")' = 0
  <2>1. Handed(d, "DATA", <<"WINDOW">>)
    BY <1>10 DEF Handled
  <2>2. /\ \A g : N(d, g) \in Nat /\ N(p, g) \in Nat
        /\ \A g : N(d, g)' \in Nat /\ N(p, g)' \in Nat
        /\ \A g : N(d, g)' = N(d, g) + IF Reached(d) THEN Count(<<"WINDOW">>, g) ELSE 0
        /\ \A g : N(p, g) = N(p, g)' + IF "DATA" = g THEN 1 ELSE 0
        /\ N(p, "CARD")' = 0
    BY <1>1, <2>1 DEF Handed
  <2>3. \A g : Count(<<"WINDOW">>, g) = IF "WINDOW" = g THEN 1 ELSE 0
    BY CountSingle DEF Frames
  <2>4. \A g : g # "WINDOW" => N(d, g)' = N(d, g)
    BY <2>2, <2>3
  <2>5. N(d, "WINDOW")' <= N(d, "WINDOW") + 1
    BY <2>2, <2>3
  <2>. QED
    BY <2>2, <2>4, <2>5
<1>13. /\ N(d, "HELLO")' = N(d, "HELLO") /\ N(d, "CARD")' = N(d, "CARD")
       /\ N(d, "DATA")' = N(d, "DATA") /\ N(d, "EOF")' = N(d, "EOF") /\ N(d, "ACK")' = N(d, "ACK")
       /\ N(p, "HELLO")' = N(p, "HELLO") /\ N(p, "CARD")' = N(p, "CARD")
       /\ N(p, "EOF")' = N(p, "EOF") /\ N(p, "ACK")' = N(p, "ACK")
       /\ N(p, "WINDOW")' = N(p, "WINDOW")
  BY <1>12
<1>. HIDE DEF n, grown
<1>14. n = io[d].got + 1 /\ io[d].got \in Nat /\ io[p].got \in Nat /\ io[d].win \in Nat /\ io[p].win \in Nat
  BY <1>2, <1>3 DEF n, IoState, TypeOK
<1>15. pub[p].hello_ready
  BY <1>1, <1>2, <1>8 DEF PairInv, HelloFirst
<1>16. HelloFirst(d)' /\ HelloFirst(p)'
  BY <1>1, <1>2, <1>7, <1>9, <1>11, <1>13, <1>15 DEF PairInv, HelloFirst, SaidStays
<1>17. CardInOrder(d)'
  BY <1>1, <1>2, <1>7, <1>9, <1>11, <1>12, <1>13, <1>14
     DEF PairInv, CardInOrder, SaidStays, WantsToSend, Reached
<1>18. ~pub[d].inbound_complete
  BY <1>1, <1>2, <1>8, <1>14 DEF PairInv, CardInOrder
<1>19. CardInOrder(p)'
  BY <1>1, <1>2, <1>7, <1>9, <1>11, <1>12, <1>13, <1>14, <1>18
     DEF PairInv, CardInOrder, SaidStays, WantsToSend, Reached
<1>20. AckIsTrue(d)' /\ AckIsTrue(p)'
  BY <1>1, <1>2, <1>7, <1>9, <1>11, <1>13 DEF PairInv, AckIsTrue, SaidStays
<1>21. Agreed(d)'
  BY <1>2, <1>7, <1>11 DEF LocalInv, Agreed, SaidStays, WillReceive, WantsToSend
<1>22. grown = "part" => n < Chunks
  BY <1>8 DEF grown
<1>23. TempIsPart(d)'
  BY <1>2, <1>5, <1>7, <1>9, <1>11, <1>18, <1>22 DEF LocalInv, TempIsPart, SaidStays, WillReceive, grown
<1>24. ScreenIsTrue(d)'
  BY <1>2, <1>5, <1>7, <1>9, <1>11 DEF LocalInv, ScreenIsTrue, SaidStays, Gone
<1>. QED
  BY <1>1, <1>10, <1>16, <1>17, <1>19, <1>20, <1>21, <1>23, <1>24, All DEF PairInv, LocalInv, Handled

\* The card is complete, and may be what the ack waited for.
LEMMA EofKeeps ==
  ASSUME IInv, NEW d \in Device, OnEof(d)
  PROVE  IInv'
<1>. USE TransferAssumption
<1>1. PICK p \in Device : p = Peer(d) /\ p # d /\ Peer(p) = d
  BY Two
<1>2. TypeOK /\ PairInv(d) /\ PairInv(p) /\ LocalInv(d) /\ LocalInv(p)
  BY <1>1 DEF IInv
<1>3. pub[d] \in Atomics /\ io[d] \in IoState /\ disk[d] \in Files
  BY <1>2 DEF TypeOK, Files
<1>. DEFINE q == [pub[d] EXCEPT !.inbound_complete = TRUE]
            due == AckDue(io[d], q)
<1>4. /\ Receives(d, "EOF") /\ Answer(d, AckFrames(io[d], q))
      /\ pub' = [pub EXCEPT ![d] = q] /\ pub'[d] = q
      /\ io' = [io EXCEPT ![d] = [Acked(@, q) EXCEPT !.file = FALSE]]
      /\ io'[d] = [Acked(io[d], q) EXCEPT !.file = FALSE]
      /\ UNCHANGED <<start, session, opened, link, ui, nvs>>
  BY <1>2 DEF OnEof, TypeOK
<1>5. /\ q \in Atomics /\ q.inbound_complete
      /\ q.hello_ready <=> pub[d].hello_ready
      /\ q.will_send <=> pub[d].will_send
      /\ q.will_recv <=> pub[d].will_recv
      /\ q.send_done <=> pub[d].send_done
      /\ q.got_peer_ack <=> pub[d].got_peer_ack
  BY <1>3 DEF Atomics
<1>6. due <=> ~io[d].acked /\ pub[d].hello_ready
  BY <1>5 DEF AckDue
<1>7. due \in BOOLEAN
  BY DEF AckDue
<1>8. Acked(io[d], q) = [io[d] EXCEPT !.acked = @ \/ due]
  BY DEF Acked
<1>. HIDE DEF q, due
<1>9. /\ io'[d] \in IoState /\ io'[d].got = io[d].got /\ ~io'[d].file
      /\ io'[d].win = io[d].win /\ io'[d].sent = io[d].sent
      /\ io'[d].acked <=> io[d].acked \/ due
  <2>. DEFINE a == io[d].acked \/ due
  <2>1. a \in BOOLEAN
    BY <1>3, <1>7, Zenon DEF IoState
  <2>2. io'[d] = [io[d] EXCEPT !.acked = a, !.file = FALSE]
    BY <1>3, <1>4, <1>8 DEF IoState
  <2>. HIDE DEF a
  <2>3. /\ io'[d] \in IoState /\ io'[d].got = io[d].got /\ ~io'[d].file
        /\ io'[d].win = io[d].win /\ io'[d].sent = io[d].sent /\ io'[d].acked = a
    BY <1>3, <2>1, <2>2 DEF IoState
  <2>. QED
    BY <2>3 DEF a
<1>10. /\ disk'[d] \in Files /\ disk'[d].card = disk[d].card
       /\ disk' = [disk EXCEPT ![d] = disk'[d]]
       /\ \/ disk'[d] = disk[d]
          \/ io[d].file /\ disk'[d].temp = "torn"
  <2>1. CASE disk' = disk
    <3>1. disk = [disk EXCEPT ![d] = disk[d]]
      BY <1>2 DEF TypeOK
    <3>2. disk'[d] = disk[d]
      BY <2>1
    <3>3. disk' = [disk EXCEPT ![d] = disk'[d]]
      BY <2>1, <3>1, <3>2
    <3>. QED
      BY <1>3, <3>2, <3>3
  <2>2. CASE io[d].file /\ disk' = [disk EXCEPT ![d].temp = "torn"]
    <3>1. disk'[d] = [disk[d] EXCEPT !.temp = "torn"]
      BY <1>2, <2>2 DEF TypeOK
    <3>2. disk'[d] \in Files /\ disk'[d].card = disk[d].card /\ disk'[d].temp = "torn"
      BY <1>3, <3>1 DEF Files, Content
    <3>3. disk' = [disk EXCEPT ![d] = disk'[d]]
      BY <1>2, <2>2, <3>1 DEF TypeOK
    <3>. QED
      BY <2>2, <3>2, <3>3
  <2>. QED
    BY <2>1, <2>2 DEF OnEof
<1>. DEFINE fs == AckFrames(io[d], q)
<1>11. fs = IF due THEN <<"ACK">> ELSE <<>>
  BY DEF AckFrames, due
<1>. HIDE DEF fs
<1>12. /\ \A g : g # "ACK" => Count(fs, g) = 0
       /\ Count(fs, "ACK") = IF due THEN 1 ELSE 0
       /\ Fits(d, fs)
  BY <1>11, CountSingle, NothingFits, OneFits DEF Frames
<1>13. Handled(d, "EOF", fs)
  <2>1. Receives(d, "EOF") /\ Answer(d, fs)
    BY <1>4 DEF fs
  <2>2. pub' = [pub EXCEPT ![d] = pub'[d]] /\ io' = [io EXCEPT ![d] = io'[d]]
    BY <1>2, <1>4 DEF TypeOK
  <2>3. Handler(d, "EOF", fs)
    BY <1>4, <1>5, <1>9, <1>10, <2>1, <2>2 DEF Handler
  <2>. QED
    BY <1>12, <2>3, Handles
<1>14. /\ Ordered(wire'[d]) /\ Ordered(wire'[p]) /\ session[d] = "up" /\ session' = session
       /\ io'[p] = io[p] /\ pub'[p] = pub[p] /\ disk'[p] = disk[p]
       /\ start' = start /\ link' = link /\ ui' = ui /\ nvs' = nvs
  BY <1>1, <1>13 DEF Handled, Handed
<1>15. /\ \A g : N(d, g) \in Nat /\ N(p, g) \in Nat /\ N(d, g)' \in Nat /\ N(p, g)' \in Nat
       /\ \A g : g # "ACK" => N(d, g)' = N(d, g)
       /\ ~due => N(d, "ACK")' = N(d, "ACK")
       /\ \A g : g # "EOF" => N(p, g)' = N(p, g)
       /\ N(p, "EOF") > 0 /\ N(p, "EOF")' = 0 /\ N(p, "DATA") = 0 /\ N(p, "CARD")' = 0
  <2>1. Handed(d, "EOF", fs)
    BY <1>13 DEF Handled
  <2>2. /\ \A g : N(d, g) \in Nat /\ N(p, g) \in Nat
        /\ \A g : N(d, g)' \in Nat /\ N(p, g)' \in Nat
        /\ \A g : N(d, g)' = N(d, g) + IF Reached(d) THEN Count(fs, g) ELSE 0
        /\ \A g : N(p, g) = N(p, g)' + IF "EOF" = g THEN 1 ELSE 0
        /\ N(p, "CARD")' = 0 /\ N(p, "DATA")' = 0 /\ N(p, "EOF")' = 0
    BY <1>1, <2>1 DEF Handed
  <2>3. \A g : g # "ACK" => N(d, g)' = N(d, g)
    BY <1>12, <2>2
  <2>4. ~due => N(d, "ACK")' = N(d, "ACK")
    BY <1>12, <2>2
  <2>5. \A g : g # "EOF" => N(p, g)' = N(p, g)
    BY <2>2
  <2>6. N(p, "EOF") = 1 /\ N(p, "DATA") = 0
    BY <2>2, <2>5
  <2>. QED
    BY <2>2, <2>3, <2>4, <2>5, <2>6
<1>16. /\ N(d, "HELLO")' = N(d, "HELLO") /\ N(d, "CARD")' = N(d, "CARD")
       /\ N(d, "DATA")' = N(d, "DATA") /\ N(d, "EOF")' = N(d, "EOF")
       /\ N(d, "WINDOW")' = N(d, "WINDOW")
       /\ N(p, "HELLO")' = N(p, "HELLO") /\ N(p, "CARD")' = N(p, "CARD")
       /\ N(p, "DATA")' = N(p, "DATA") /\ N(p, "ACK")' = N(p, "ACK")
       /\ N(p, "WINDOW")' = N(p, "WINDOW")
  BY <1>15
<1>17. io[d].got = Chunks
  <2>1. io[d].got + N(p, "DATA") = Chunks
    BY <1>1, <1>2, <1>15 DEF PairInv, CardInOrder
  <2>. QED
    BY <1>3, <1>15, <2>1 DEF IoState
<1>18. session[p] \notin {"none", "wait"}
  BY <1>1, <1>2, <1>4 DEF PairInv, HelloFirst, Receives
<1>19. HelloFirst(d)' /\ HelloFirst(p)'
  <2>1. HelloFirst(d) /\ HelloFirst(p)
    BY <1>2 DEF PairInv
  <2>2. HelloFirst(d)'
    BY <1>1, <1>4, <1>5, <1>9, <1>14, <1>16, <2>1 DEF HelloFirst
  <2>3. HelloFirst(p)'
    BY <1>1, <1>4, <1>5, <1>9, <1>14, <1>15, <1>16, <1>18, <2>1 DEF HelloFirst
  <2>. QED
    BY <2>2, <2>3
<1>20. CardInOrder(d)'
  BY <1>1, <1>2, <1>4, <1>5, <1>9, <1>14, <1>16 DEF PairInv, CardInOrder, WantsToSend, Reached
<1>21. CardInOrder(p)'
  BY <1>1, <1>2, <1>4, <1>5, <1>9, <1>14, <1>15, <1>16, <1>17
     DEF PairInv, CardInOrder, WantsToSend, Reached
<1>22. AckIsTrue(d)'
  BY <1>1, <1>2, <1>4, <1>5, <1>6, <1>9, <1>14, <1>15 DEF PairInv, AckIsTrue
<1>23. AckIsTrue(p)'
  BY <1>1, <1>2, <1>4, <1>5, <1>14, <1>16 DEF PairInv, AckIsTrue
<1>24. Agreed(d)'
  BY <1>2, <1>4, <1>5, <1>14 DEF LocalInv, Agreed, WillReceive, WantsToSend
<1>25. disk'[d].temp # "part"
  BY <1>2, <1>10, <1>17 DEF LocalInv, TempIsPart
<1>26. TempIsPart(d)'
  BY <1>2, <1>4, <1>5, <1>9, <1>10, <1>14, <1>25 DEF LocalInv, TempIsPart, WillReceive
<1>27. ScreenIsTrue(d)'
  BY <1>2, <1>4, <1>5, <1>10, <1>14 DEF LocalInv, ScreenIsTrue, Gone
<1>. QED
  BY <1>1, <1>13, <1>19, <1>20, <1>21, <1>22, <1>23, <1>24, <1>26, <1>27, All
     DEF PairInv, LocalInv, Handled

(***************************************************************************)
(* The pump: what it sends is what it counts as sent, and the EOF follows  *)
(* the last piece.                                                         *)
(***************************************************************************)
\* The pump of d writes m pieces, and the end of the card if z is 1, as fs.
Sends(d, m, z, fs) ==
  /\ Answer(d, fs) /\ Fits(d, fs)
  /\ m \in Nat /\ z \in {0, 1} /\ Count(fs, "DATA") = m /\ Count(fs, "EOF") = z
  /\ \A f : f \notin {"DATA", "EOF"} => Count(fs, f) = 0
  /\ m > 0 \/ z > 0 => ~pub[d].send_done
  /\ io' = [io EXCEPT ![d] = io'[d]] /\ io'[d] \in IoState
  /\ io'[d].sent = io[d].sent + m /\ io'[d].win = io[d].win + 1 - m
  /\ io'[d].got = io[d].got
  /\ io'[d].acked <=> io[d].acked
  /\ io'[d].file <=> io[d].file
  /\ z > 0 => io'[d].sent = Chunks /\ pub'[d].send_done
  /\ pub' = [pub EXCEPT ![d] = pub'[d]] /\ pub'[d] \in Atomics
  /\ pub'[d].hello_ready <=> pub[d].hello_ready
  /\ pub'[d].will_send <=> pub[d].will_send
  /\ pub'[d].will_recv <=> pub[d].will_recv
  /\ pub[d].send_done => pub'[d].send_done
  /\ pub'[d].inbound_complete <=> pub[d].inbound_complete
  /\ pub'[d].got_peer_ack <=> pub[d].got_peer_ack

\* A credit returns, and lets the pump go on if it had none left.
LEMMA CreditReturns ==
  ASSUME IInv, NEW d \in Device, OnWindow(d)
  PROVE  /\ N(Peer(d), "WINDOW") > 0
         /\ \E m, z, fs : Sends(d, m, z, fs)
<1>. USE TransferAssumption
<1>1. PICK p \in Device : p = Peer(d) /\ p # d /\ Peer(p) = d
  BY Two
<1>2. TypeOK /\ PairInv(d) /\ PairInv(p) /\ LocalInv(d) /\ LocalInv(p)
  BY <1>1 DEF IInv
<1>3. pub[d] \in Atomics /\ io[d] \in IoState
  BY <1>2 DEF TypeOK
<1>. DEFINE i == [io[d] EXCEPT !.win = @ + 1]
<1>4. Receives(d, "WINDOW")
  BY DEF OnWindow
<1>5. N(p, "WINDOW") > 0 /\ io[d].win + 1 \in 0 .. Window
  <2>1. wire[p] \in Seq(Frames) /\ wire[p] # <<>> /\ Head(wire[p]) = "WINDOW"
    BY <1>1, <1>2, <1>4 DEF TypeOK, Receives
  <2>2. Count(wire[p], "WINDOW") = Count(Tail(wire[p]), "WINDOW") + 1 /\ Tail(wire[p]) \in Seq(Frames)
    BY <2>1, CountTail
  <2>3. N(p, "WINDOW") \in Nat /\ N(p, "WINDOW") > 0
    <3>1. Count(Tail(wire[p]), "WINDOW") \in Nat
      BY <2>2, CountFinite
    <3>. QED
      BY <2>2, <3>1 DEF N
  <2>4. io[d].win + N(d, "DATA") + N(p, "WINDOW") <= Window
    BY <1>1, <1>2 DEF PairInv, CardInOrder
  <2>5. N(d, "DATA") \in Nat
    BY <1>2, CountFinite DEF N, TypeOK
  <2>. QED
    BY <1>3, <2>3, <2>4, <2>5 DEF IoState
<1>6. /\ i \in IoState /\ i.win = io[d].win + 1 /\ i.sent = io[d].sent /\ i.got = io[d].got
      /\ i.acked <=> io[d].acked
      /\ i.file <=> io[d].file
  BY <1>3, <1>5 DEF IoState
<1>. HIDE DEF i
<1>7. CASE io' = [io EXCEPT ![d] = i] /\ Answer(d, <<>>) /\ pub' = pub
  <2>1. Fits(d, <<>>) /\ \A f : Count(<<>>, f) = 0
    BY NothingFits, CountSingle DEF Frames
  <2>2. io'[d] = i /\ pub = [pub EXCEPT ![d] = pub[d]]
    BY <1>2, <1>7 DEF TypeOK
  <2>3. io'[d].sent = io[d].sent + 0 /\ io'[d].win = io[d].win + 1 - 0
    BY <1>3, <1>6, <2>2 DEF IoState
  <2>4. io' = [io EXCEPT ![d] = io'[d]] /\ io'[d] \in IoState
        /\ io'[d].got = io[d].got /\ (io'[d].acked <=> io[d].acked) /\ (io'[d].file <=> io[d].file)
    BY <1>6, <1>7, <2>2
  <2>5. Sends(d, 0, 0, <<>>)
    BY <1>3, <1>7, <2>1, <2>2, <2>3, <2>4 DEF Sends
  <2>. QED
    BY <1>1, <1>5, <2>5
<1>8. ASSUME ~pub[d].send_done, NEW e \in PumpEnds(d, i, TRUE),
             io' = [io EXCEPT ![d] = Pumped(i, e)],
             pub' = [pub EXCEPT ![d] = PumpPublished(@, e)],
             Answer(d, PumpFrames(i, e))
      PROVE  \E m, z, fs : Sends(d, m, z, fs)
  <2>. DEFINE fs == PumpFrames(i, e)
              m == e.to - i.sent
              z == IF AllOut(e) THEN 1 ELSE 0
  <2>. HIDE DEF fs, m, z
  <2>1. /\ e.to \in i.sent .. Chunks /\ e.to - i.sent <= i.win /\ e.bad \in BOOLEAN
        /\ Pumped(i, e) = [i EXCEPT !.sent = e.to, !.win = @ - (e.to - i.sent), !.bad = e.bad]
        /\ Pumped(i, e) \in IoState
        /\ fs \in Seq(Frames) /\ Ordered(fs)
        /\ Count(fs, "DATA") = m /\ Count(fs, "EOF") = z
        /\ \A f : f \notin {"DATA", "EOF"} => Count(fs, f) = 0
    <3>1. PICK h \in BOOLEAN : e \in PumpEnds(d, i, h)
      BY <1>8, Zenon
    <3>2. Writes(i, e)
      BY <1>6, <3>1, Pumps
    <3>. QED
      BY <3>2 DEF Writes, Pumped, fs, m, z
  <2>2. m \in Nat /\ z \in {0, 1} /\ AllOut(e) \in BOOLEAN
    BY <1>6, <2>1 DEF IoState, AllOut, m, z
  <2>3. io'[d] = Pumped(i, e) /\ pub'[d] = PumpPublished(pub[d], e)
    BY <1>2, <1>8 DEF TypeOK
  <2>4. /\ io'[d].sent = e.to /\ io'[d].win = i.win - m /\ io'[d].got = i.got
        /\ io'[d].acked <=> i.acked
        /\ io'[d].file <=> i.file
    BY <1>6, <2>1, <2>3 DEF IoState, m
  <2>5. io'[d].sent = io[d].sent + m /\ io'[d].win = io[d].win + 1 - m
    <3>1. io[d].sent \in Nat /\ io[d].win \in Nat /\ e.to \in Int
      BY <1>3, <2>1 DEF IoState
    <3>. QED
      BY <1>6, <2>4, <3>1 DEF m
  <2>6. /\ pub'[d] \in Atomics
        /\ pub'[d].hello_ready <=> pub[d].hello_ready
        /\ pub'[d].will_send <=> pub[d].will_send
        /\ pub'[d].will_recv <=> pub[d].will_recv
        /\ pub'[d].send_done <=> pub[d].send_done \/ AllOut(e)
        /\ pub'[d].inbound_complete <=> pub[d].inbound_complete
        /\ pub'[d].got_peer_ack <=> pub[d].got_peer_ack
    <3>. DEFINE s == pub[d].send_done \/ AllOut(e)
                b == pub[d].failed \/ e.bad
    <3>1. s \in BOOLEAN /\ b \in BOOLEAN
      BY <1>3, <2>1, <2>2, Zenon DEF Atomics
    <3>2. pub'[d] = [pub[d] EXCEPT !.send_done = s, !.failed = b]
      BY <1>3, <2>3 DEF PumpPublished, Atomics
    <3>. HIDE DEF s, b
    <3>3. /\ pub'[d] \in Atomics
          /\ pub'[d].hello_ready <=> pub[d].hello_ready
          /\ pub'[d].will_send <=> pub[d].will_send
          /\ pub'[d].will_recv <=> pub[d].will_recv
          /\ pub'[d].send_done = s
          /\ pub'[d].inbound_complete <=> pub[d].inbound_complete
          /\ pub'[d].got_peer_ack <=> pub[d].got_peer_ack
      BY <1>3, <3>1, <3>2 DEF Atomics
    <3>. QED
      BY <3>3 DEF s
  <2>7. z > 0 => AllOut(e) /\ e.to = Chunks
    BY DEF AllOut, z
  <2>8. Fits(d, fs)
    <3>1. N(d, "EOF") \in Nat /\ ~(N(d, "EOF") > 0)
      <4>1. N(d, "EOF") \in Nat
        BY <1>2, CountFinite DEF N, TypeOK
      <4>. QED
        BY <1>2, <1>8, <4>1 DEF PairInv, CardInOrder
    <3>2. N(d, "EOF") = 0
      BY <3>1
    <3>3. Count(fs, "HELLO") = 0 /\ ~(Count(fs, "CARD") > 0)
      BY <2>1
    <3>. QED
      BY <2>1, <3>2, <3>3 DEF Fits
  <2>9. io' = [io EXCEPT ![d] = io'[d]] /\ pub' = [pub EXCEPT ![d] = pub'[d]]
    BY <1>2, <1>8, <2>3 DEF TypeOK
  <2>10. Answer(d, fs)
    BY <1>8 DEF fs
  <2>11. Sends(d, m, z, fs)
    BY <1>6, <1>8, <2>1, <2>2, <2>3, <2>4, <2>5, <2>6, <2>7, <2>8, <2>9, <2>10 DEF Sends
  <2>. QED
    BY <2>11
<1>. QED
  BY <1>1, <1>5, <1>7, <1>8 DEF OnWindow, i

LEMMA WindowKeeps ==
  ASSUME IInv, NEW d \in Device, OnWindow(d)
  PROVE  IInv'
<1>. USE TransferAssumption
<1>1. PICK p \in Device : p = Peer(d) /\ p # d /\ Peer(p) = d
  BY Two
<1>2. TypeOK /\ PairInv(d) /\ PairInv(p) /\ LocalInv(d) /\ LocalInv(p)
  BY <1>1 DEF IInv
<1>3. pub[d] \in Atomics /\ io[d] \in IoState /\ disk[d] \in Files /\ io[p] \in IoState
  BY <1>2 DEF TypeOK, Files
<1>4. /\ Receives(d, "WINDOW")
      /\ UNCHANGED <<start, session, opened, link, ui, disk, nvs>>
  BY DEF OnWindow
<1>5. N(p, "WINDOW") > 0
  BY <1>1, CreditReturns
<1>6. pub[d].hello_ready /\ session[p] \notin {"none", "wait"}
  BY <1>1, <1>2, <1>4, <1>5 DEF PairInv, HelloFirst, Receives
<1>7. PICK m, z, fs : Sends(d, m, z, fs)
  BY CreditReturns
<1>8. Handled(d, "WINDOW", fs)
  <2>1. disk = [disk EXCEPT ![d] = disk[d]]
    BY <1>2 DEF TypeOK
  <2>2. Handler(d, "WINDOW", fs)
    BY <1>3, <1>4, <1>7, <2>1 DEF Handler, Sends
  <2>. QED
    BY <1>7, <2>2, Handles DEF Sends
<1>9. /\ Ordered(wire'[d]) /\ Ordered(wire'[p]) /\ session[d] = "up" /\ session' = session
      /\ io'[p] = io[p] /\ pub'[p] = pub[p] /\ disk' = disk
      /\ start' = start /\ link' = link /\ ui' = ui /\ nvs' = nvs
  BY <1>1, <1>4, <1>8 DEF Handled, Handed
<1>10. /\ m \in Nat /\ z \in {0, 1}
       /\ m > 0 \/ z > 0 => ~pub[d].send_done
       /\ io'[d].sent = io[d].sent + m /\ io'[d].win = io[d].win + 1 - m
       /\ io'[d].got = io[d].got
       /\ io'[d].acked <=> io[d].acked
       /\ io'[d].file <=> io[d].file
       /\ z > 0 => io'[d].sent = Chunks /\ pub'[d].send_done
       /\ pub'[d].hello_ready <=> pub[d].hello_ready
       /\ pub'[d].will_send <=> pub[d].will_send
       /\ pub'[d].will_recv <=> pub[d].will_recv
       /\ pub[d].send_done => pub'[d].send_done
       /\ pub'[d].inbound_complete <=> pub[d].inbound_complete
       /\ pub'[d].got_peer_ack <=> pub[d].got_peer_ack
  BY <1>7 DEF Sends
<1>11. /\ \A g : N(d, g) \in Nat /\ N(p, g) \in Nat /\ N(d, g)' \in Nat /\ N(p, g)' \in Nat
       /\ N(d, "DATA")' = N(d, "DATA") + IF Reached(d) THEN m ELSE 0
       /\ N(d, "EOF")' = N(d, "EOF") + IF Reached(d) THEN z ELSE 0
       /\ \A g : g \notin {"DATA", "EOF"} => N(d, g)' = N(d, g)
       /\ \A g : g # "WINDOW" => N(p, g)' = N(p, g)
       /\ N(p, "WINDOW") = N(p, "WINDOW")' + 1
  <2>1. Handed(d, "WINDOW", fs)
    BY <1>8 DEF Handled
  <2>2. /\ \A g : N(d, g) \in Nat /\ N(p, g) \in Nat
        /\ \A g : N(d, g)' \in Nat /\ N(p, g)' \in Nat
        /\ \A g : N(d, g)' = N(d, g) + IF Reached(d) THEN Count(fs, g) ELSE 0
        /\ \A g : N(p, g) = N(p, g)' + IF "WINDOW" = g THEN 1 ELSE 0
    BY <1>1, <2>1 DEF Handed
  <2>3. /\ Count(fs, "DATA") = m /\ Count(fs, "EOF") = z
        /\ \A f : f \notin {"DATA", "EOF"} => Count(fs, f) = 0
    BY <1>7 DEF Sends
  <2>4. /\ N(d, "DATA")' = N(d, "DATA") + IF Reached(d) THEN m ELSE 0
        /\ N(d, "EOF")' = N(d, "EOF") + IF Reached(d) THEN z ELSE 0
    BY <2>2, <2>3
  <2>5. \A g : g \notin {"DATA", "EOF"} => N(d, g)' = N(d, g)
    BY <2>2, <2>3
  <2>6. \A g : g # "WINDOW" => N(p, g)' = N(p, g)
    BY <2>2
  <2>. QED
    BY <2>2, <2>4, <2>5, <2>6
<1>12. /\ N(d, "HELLO")' = N(d, "HELLO") /\ N(d, "CARD")' = N(d, "CARD")
       /\ N(d, "ACK")' = N(d, "ACK") /\ N(d, "WINDOW")' = N(d, "WINDOW")
       /\ N(p, "HELLO")' = N(p, "HELLO") /\ N(p, "CARD")' = N(p, "CARD")
       /\ N(p, "DATA")' = N(p, "DATA") /\ N(p, "EOF")' = N(p, "EOF") /\ N(p, "ACK")' = N(p, "ACK")
  BY <1>11
<1>13. N(d, "DATA") \in Nat /\ N(d, "EOF") \in Nat /\ N(p, "WINDOW") \in Nat /\ N(p, "WINDOW")' \in Nat
       /\ N(p, "DATA") \in Nat /\ N(d, "WINDOW") \in Nat
  BY <1>11
<1>14. io[d].sent \in Nat /\ io[d].win \in Nat /\ io[d].got \in Nat /\ io[p].got \in Nat
       /\ io[p].sent \in Nat /\ io[p].win \in Nat
  BY <1>3 DEF IoState
<1>15. HelloFirst(d)' /\ HelloFirst(p)'
  <2>1. HelloFirst(d) /\ HelloFirst(p)
    BY <1>2 DEF PairInv
  <2>2. HelloFirst(d)'
    BY <1>1, <1>6, <1>9, <1>10, <1>12, <2>1 DEF HelloFirst
  <2>3. HelloFirst(p)'
    BY <1>1, <1>6, <1>9, <1>10, <1>12, <2>1 DEF HelloFirst
  <2>. QED
    BY <2>2, <2>3
<1>16. CardInOrder(d)'
  <2>1. CardInOrder(d)
    BY <1>2 DEF PairInv
  <2>2. Reached(d)' <=> Reached(d)
    BY <1>9 DEF Reached
  <2>3. /\ io[p].got + N(d, "DATA")' <= io'[d].sent
        /\ Reached(d) => io[p].got + N(d, "DATA")' = io'[d].sent
    BY <1>1, <1>9, <1>10, <1>11, <1>13, <1>14, <2>1 DEF CardInOrder
  <2>4. N(d, "EOF")' > 0 => io[p].got + N(d, "DATA")' = Chunks /\ pub'[d].send_done
    <3>1. CASE N(d, "EOF") > 0
      <4>1. m = 0 /\ z = 0
        BY <1>10, <2>1, <3>1 DEF CardInOrder
      <4>. QED
        BY <1>1, <1>10, <1>11, <1>13, <2>1, <3>1, <4>1 DEF CardInOrder
    <3>2. CASE ~(N(d, "EOF") > 0)
      BY <1>10, <1>11, <1>13, <2>3, <3>2
    <3>. QED
      BY <3>1, <3>2
  <2>5. io'[d].win + N(d, "DATA")' + N(p, "WINDOW")' <= Window
    BY <1>1, <1>10, <1>11, <1>13, <1>14, <2>1 DEF CardInOrder
  <2>6. WantsToSend(d)' <=> WantsToSend(d)
    BY <1>9 DEF WantsToSend
  <2>. QED
    BY <1>1, <1>9, <1>12, <2>1, <2>2, <2>3, <2>4, <2>5, <2>6 DEF CardInOrder
<1>17. CardInOrder(p)'
  BY <1>1, <1>2, <1>9, <1>10, <1>12 DEF PairInv, CardInOrder, WantsToSend, Reached
<1>18. AckIsTrue(d)' /\ AckIsTrue(p)'
  BY <1>1, <1>2, <1>9, <1>10, <1>12 DEF PairInv, AckIsTrue
<1>19. Agreed(d)'
  BY <1>2, <1>9, <1>10 DEF LocalInv, Agreed, WillReceive, WantsToSend
<1>20. TempIsPart(d)'
  BY <1>2, <1>9, <1>10 DEF LocalInv, TempIsPart, WillReceive
<1>21. ScreenIsTrue(d)'
  BY <1>2, <1>9, <1>10 DEF LocalInv, ScreenIsTrue, Gone
<1>. QED
  BY <1>1, <1>8, <1>15, <1>16, <1>17, <1>18, <1>19, <1>20, <1>21, All
     DEF PairInv, LocalInv, Handled

\* The first of the frames under way to d counts as one of them.
LEMMA Taken ==
  ASSUME TypeOK, NEW d \in Device, NEW f, Receives(d, f)
  PROVE  N(Peer(d), f) > 0
<1>1. wire[Peer(d)] \in Seq(Frames) /\ wire[Peer(d)] # <<>> /\ Head(wire[Peer(d)]) = f
  BY Two DEF TypeOK, Receives
<1>2. Count(wire[Peer(d)], f) = Count(Tail(wire[Peer(d)]), f) + 1 /\ Tail(wire[Peer(d)]) \in Seq(Frames)
  BY <1>1, CountTail
<1>3. Count(Tail(wire[Peer(d)]), f) \in Nat
  BY <1>2, CountFinite
<1>. QED
  BY <1>2, <1>3 DEF N

\* A card, as much of it as the pump wrote, and an ack.
Pieces(r, m, z) ==
  /\ r \in Seq(Frames) /\ Ordered(r)
  /\ m \in Nat /\ z \in {0, 1} /\ Count(r, "DATA") = m /\ Count(r, "EOF") = z
  /\ \A f : f \notin {"DATA", "EOF"} => Count(r, f) = 0

AckOf(k, a) ==
  /\ k \in Seq(Frames) /\ Ordered(k) /\ a \in {0, 1} /\ Count(k, "ACK") = a
  /\ \A f : f # "ACK" => Count(k, f) = 0

LEMMA CardAndAck ==
  ASSUME NEW r, NEW m, NEW z, Pieces(r, m, z), NEW k, NEW a, AckOf(k, a)
  PROVE  LET fs == <<"CARD">> \o r \o k IN
         /\ fs \in Seq(Frames) /\ Ordered(fs)
         /\ Count(fs, "CARD") = 1 /\ Count(fs, "DATA") = m /\ Count(fs, "EOF") = z
         /\ Count(fs, "ACK") = a
         /\ \A f : f \notin {"CARD", "DATA", "EOF", "ACK"} => Count(fs, f) = 0
<1>. DEFINE c == <<"CARD">>
            x == c \o r
<1>1. /\ c \in Seq(Frames) /\ Ordered(c)
      /\ \A f : Count(c, f) = IF f = "CARD" THEN 1 ELSE 0
  BY CountSingle DEF Frames
<1>2. r \in Seq(Frames) /\ Ordered(r) /\ k \in Seq(Frames) /\ Ordered(k)
  BY DEF Pieces, AckOf
<1>. HIDE DEF c
<1>3. x \in Seq(Frames) /\ \A f : Count(x, f) = Count(c, f) + Count(r, f)
  BY <1>1, <1>2, CountConcat
<1>4. Ordered(x)
  <2>1. ~(Count(r, "HELLO") > 0) /\ ~(Count(r, "CARD") > 0) /\ Count(c, "EOF") = 0
    BY <1>1 DEF Pieces
  <2>. QED
    BY <1>1, <1>2, <2>1, OrderedConcat
<1>. HIDE DEF x
<1>5. x \o k \in Seq(Frames) /\ \A f : Count(x \o k, f) = Count(x, f) + Count(k, f)
  BY <1>2, <1>3, CountConcat
<1>6. Ordered(x \o k)
  <2>1. /\ ~(Count(k, "HELLO") > 0) /\ ~(Count(k, "CARD") > 0)
        /\ ~(Count(k, "DATA") > 0) /\ ~(Count(k, "EOF") > 0)
    BY DEF AckOf
  <2>. QED
    BY <1>2, <1>3, <1>4, <2>1, OrderedConcat
<1>7. \A f : Count(x \o k, f) = Count(c, f) + Count(r, f) + Count(k, f)
  BY <1>3, <1>5
<1>8. \A f : Count(x \o k, f) = (IF f = "CARD" THEN 1 ELSE 0) + Count(r, f) + Count(k, f)
  BY <1>1, <1>7
<1>9. m \in Nat /\ z \in {0, 1} /\ a \in {0, 1}
  BY DEF Pieces, AckOf
<1>10. /\ Count(x \o k, "CARD") = 1 /\ Count(x \o k, "DATA") = m /\ Count(x \o k, "EOF") = z
       /\ Count(x \o k, "ACK") = a
  BY <1>8, <1>9 DEF Pieces, AckOf
<1>11. ASSUME NEW f, f \notin {"CARD", "DATA", "EOF", "ACK"}
       PROVE  Count(x \o k, f) = 0
  <2>1. Count(r, f) = 0 /\ Count(k, f) = 0
    BY <1>11 DEF Pieces, AckOf
  <2>. QED
    BY <1>8, <1>11, <2>1
<1>. QED
  BY <1>5, <1>6, <1>10, <1>11 DEF x, c

\* d answers the peer's hello with fs: c cards, m pieces, z ends and a acks.
Greets(d, c, m, z, a, fs) ==
  /\ Answer(d, fs) /\ Fits(d, fs)
  /\ c \in {0, 1} /\ m \in Nat /\ z \in {0, 1} /\ a \in {0, 1}
  /\ Count(fs, "CARD") = c /\ Count(fs, "DATA") = m /\ Count(fs, "EOF") = z /\ Count(fs, "ACK") = a
  /\ \A f : f \notin {"CARD", "DATA", "EOF", "ACK"} => Count(fs, f) = 0
  /\ c > 0 => WantsToSend(d)
  /\ io' = [io EXCEPT ![d] = io'[d]] /\ io'[d] \in IoState
  /\ io'[d].sent = io[d].sent + m /\ io'[d].win = io[d].win - m
  /\ io'[d].got = io[d].got
  /\ io'[d].file <=> io[d].file
  /\ io'[d].acked <=> io[d].acked \/ a = 1
  /\ z > 0 => io'[d].sent = Chunks /\ pub'[d].send_done
  /\ a > 0 => (pub'[d].will_recv => pub'[d].inbound_complete)
  /\ pub' = [pub EXCEPT ![d] = pub'[d]] /\ pub'[d] \in Atomics
  /\ pub'[d].hello_ready
  /\ pub'[d].will_recv <=> WillReceive(d)
  /\ pub'[d].will_send => WantsToSend(d)
  /\ pub'[d].inbound_complete <=> pub[d].inbound_complete
  /\ pub'[d].got_peer_ack <=> pub[d].got_peer_ack

\* What parsePeerHello and maybeSendAck publish and remember.
LEMMA AckIsSent ==
  ASSUME NEW i \in IoState, NEW q \in Atomics
  PROVE  \E a \in {0, 1} :
           /\ AckOf(AckFrames(i, q), a)
           /\ Acked(i, q) \in IoState
           /\ Acked(i, q).sent = i.sent /\ Acked(i, q).win = i.win /\ Acked(i, q).got = i.got
           /\ Acked(i, q).file <=> i.file
           /\ Acked(i, q).acked <=> i.acked \/ a = 1
           /\ a > 0 => (q.will_recv => q.inbound_complete)
<1>. DEFINE due == AckDue(i, q)
            s == i.acked \/ due
<1>1. s \in BOOLEAN
  BY Zenon DEF IoState, AckDue
<1>2. Acked(i, q) = [i EXCEPT !.acked = s]
  BY DEF Acked
<1>3. due => (q.will_recv => q.inbound_complete)
  BY DEF AckDue
<1>. HIDE DEF s
<1>4. /\ Acked(i, q) \in IoState
      /\ Acked(i, q).sent = i.sent /\ Acked(i, q).win = i.win /\ Acked(i, q).got = i.got
      /\ Acked(i, q).file <=> i.file
      /\ Acked(i, q).acked = s
  BY <1>1, <1>2 DEF IoState
<1>5. CASE due
  <2>1. AckFrames(i, q) = <<"ACK">>
    BY <1>5 DEF AckFrames
  <2>2. AckOf(AckFrames(i, q), 1)
    BY <2>1, CountSingle DEF AckOf, Frames
  <2>3. Acked(i, q).acked <=> i.acked \/ 1 = 1
    BY <1>4, <1>5 DEF s
  <2>. QED
    BY <1>3, <1>4, <1>5, <2>2, <2>3
<1>6. CASE ~due
  <2>1. AckFrames(i, q) = <<>>
    BY <1>6 DEF AckFrames
  <2>2. AckOf(AckFrames(i, q), 0)
    BY <2>1, CountSingle DEF AckOf, Frames
  <2>3. Acked(i, q).acked <=> i.acked \/ 0 = 1
    <3>1. Acked(i, q).acked <=> s
      BY <1>4
    <3>2. s <=> i.acked
      BY <1>6, Zenon DEF s
    <3>. QED
      BY <3>1, <3>2
  <2>. QED
    BY <1>4, <2>2, <2>3
<1>. QED
  BY <1>5, <1>6

LEMMA HelloAnswered ==
  ASSUME IInv, NEW d \in Device, OnHello(d)
  PROVE  /\ ~pub[d].hello_ready
         /\ \E c, m, z, a, fs : Greets(d, c, m, z, a, fs)
<1>. USE TransferAssumption
<1>1. PICK p \in Device : p = Peer(d) /\ p # d /\ Peer(p) = d
  BY Two
<1>2. TypeOK /\ PairInv(d) /\ PairInv(p)
  BY <1>1 DEF IInv
<1>3. pub[d] \in Atomics /\ io[d] \in IoState
  BY <1>2 DEF TypeOK
<1>4. Receives(d, "HELLO")
  BY DEF OnHello
<1>5. ~pub[d].hello_ready
  BY <1>1, <1>2, <1>4, Taken DEF PairInv, HelloFirst
<1>6. N(d, "CARD") = 0 /\ N(d, "DATA") = 0 /\ N(d, "EOF") = 0
  BY <1>2, <1>5 DEF PairInv, HelloFirst
<1>. DEFINE p0(s) == [pub[d] EXCEPT !.will_send = s, !.will_recv = WillReceive(d),
                                    !.hello_ready = TRUE]
<1>7. ASSUME NEW s \in BOOLEAN
      PROVE  /\ p0(s) \in Atomics /\ p0(s).hello_ready
             /\ p0(s).will_recv <=> WillReceive(d)
             /\ p0(s).will_send <=> s
             /\ p0(s).send_done <=> pub[d].send_done
             /\ p0(s).inbound_complete <=> pub[d].inbound_complete
             /\ p0(s).got_peer_ack <=> pub[d].got_peer_ack
             /\ p0(s).failed \in BOOLEAN
  <2>. DEFINE w == WillReceive(d)
  <2>1. w \in BOOLEAN
    BY <1>1, <1>2 DEF WillReceive, TypeOK
  <2>2. p0(s) = [pub[d] EXCEPT !.will_send = s, !.will_recv = w, !.hello_ready = TRUE]
    OBVIOUS
  <2>. HIDE DEF w, p0
  <2>3. /\ p0(s) \in Atomics /\ p0(s).hello_ready
        /\ p0(s).will_recv = w
        /\ p0(s).will_send = s
        /\ p0(s).send_done <=> pub[d].send_done
        /\ p0(s).inbound_complete <=> pub[d].inbound_complete
        /\ p0(s).got_peer_ack <=> pub[d].got_peer_ack
        /\ p0(s).failed \in BOOLEAN
    BY <1>3, <1>7, <2>1, <2>2 DEF Atomics
  <2>. QED
    BY <2>3 DEF w
<1>8. ASSUME pub' = [pub EXCEPT ![d] = p0(FALSE)],
             io' = [io EXCEPT ![d] = Acked(@, p0(FALSE))],
             Answer(d, AckFrames(io[d], p0(FALSE)))
      PROVE  \E c, m, z, a, fs : Greets(d, c, m, z, a, fs)
  <2>. DEFINE q == p0(FALSE)
              k == AckFrames(io[d], q)
  <2>1. /\ q \in Atomics /\ q.hello_ready
        /\ q.will_recv <=> WillReceive(d)
        /\ ~q.will_send
        /\ q.inbound_complete <=> pub[d].inbound_complete
        /\ q.got_peer_ack <=> pub[d].got_peer_ack
    BY <1>7
  <2>2. pub'[d] = q /\ pub' = [pub EXCEPT ![d] = pub'[d]]
    BY <1>2, <1>8 DEF TypeOK
  <2>3. io'[d] = Acked(io[d], q) /\ io' = [io EXCEPT ![d] = io'[d]]
    BY <1>2, <1>8 DEF TypeOK
  <2>. HIDE DEF p0
  <2>4. PICK a \in {0, 1} :
          /\ AckOf(k, a)
          /\ Acked(io[d], q) \in IoState
          /\ Acked(io[d], q).sent = io[d].sent /\ Acked(io[d], q).win = io[d].win
          /\ Acked(io[d], q).got = io[d].got
          /\ Acked(io[d], q).file <=> io[d].file
          /\ Acked(io[d], q).acked <=> io[d].acked \/ a = 1
          /\ a > 0 => (q.will_recv => q.inbound_complete)
    BY <1>3, <2>1, AckIsSent
  <2>5. Answer(d, k)
    BY <1>8
  <2>. HIDE DEF q, k
  <2>6. /\ io'[d].sent = io[d].sent + 0 /\ io'[d].win = io[d].win - 0 /\ io'[d].got = io[d].got
        /\ io'[d].file <=> io[d].file
        /\ io'[d].acked <=> io[d].acked \/ a = 1
        /\ io'[d] \in IoState
    BY <1>3, <2>3, <2>4 DEF IoState
  <2>7. /\ Count(k, "CARD") = 0 /\ Count(k, "DATA") = 0 /\ Count(k, "EOF") = 0 /\ Count(k, "ACK") = a
        /\ Count(k, "HELLO") = 0
        /\ \A f : f \notin {"CARD", "DATA", "EOF", "ACK"} => Count(k, f) = 0
    BY <2>4 DEF AckOf
  <2>8. Fits(d, k)
    BY <2>4, <2>7 DEF AckOf, Fits
  <2>9. Greets(d, 0, 0, 0, a, k)
    BY <2>1, <2>2, <2>3, <2>4, <2>5, <2>6, <2>7, <2>8 DEF Greets
  <2>. QED
    BY <2>9
<1>9. ASSUME NEW e \in PumpEnds(d, io[d], FALSE), WantsToSend(d),
             pub' = [pub EXCEPT ![d] = PumpPublished(p0(TRUE), e)],
             io' = [io EXCEPT ![d] = Acked(Pumped(@, e), PumpPublished(p0(TRUE), e))],
             Answer(d, <<"CARD">> \o PumpFrames(io[d], e)
                                  \o AckFrames(io[d], PumpPublished(p0(TRUE), e)))
      PROVE  \E c, m, z, a, fs : Greets(d, c, m, z, a, fs)
  <2>. DEFINE i == Pumped(io[d], e)
              q == PumpPublished(p0(TRUE), e)
              r == PumpFrames(io[d], e)
              k == AckFrames(i, q)
              m == e.to - io[d].sent
              z == IF AllOut(e) THEN 1 ELSE 0
              fs == <<"CARD">> \o r \o k
  <2>1. /\ p0(TRUE) \in Atomics /\ p0(TRUE).hello_ready
        /\ p0(TRUE).will_recv <=> WillReceive(d)
        /\ p0(TRUE).will_send
        /\ p0(TRUE).inbound_complete <=> pub[d].inbound_complete
        /\ p0(TRUE).got_peer_ack <=> pub[d].got_peer_ack
        /\ p0(TRUE).send_done \in BOOLEAN /\ p0(TRUE).failed \in BOOLEAN
    <3>1. TRUE \in BOOLEAN
      OBVIOUS
    <3>. QED
      BY <1>3, <1>7, <3>1 DEF Atomics
  <2>. HIDE DEF p0
  <2>2. pub'[d] = q /\ pub' = [pub EXCEPT ![d] = pub'[d]]
    BY <1>2, <1>9 DEF TypeOK
  <2>3. io'[d] = Acked(i, q) /\ io' = [io EXCEPT ![d] = io'[d]]
    BY <1>2, <1>9 DEF TypeOK
  <2>4. Writes(io[d], e)
    <3>1. PICK h \in BOOLEAN : e \in PumpEnds(d, io[d], h)
      BY <1>9, Zenon
    <3>. QED
      BY <1>3, <3>1, Pumps
  <2>5. /\ i.sent = e.to /\ i.win = io[d].win - m /\ i.got = io[d].got
        /\ i.acked <=> io[d].acked
        /\ i.file <=> io[d].file
        /\ i \in IoState
    BY <1>3, <2>4 DEF IoState, Pumped, Writes
  <2>6. i.sent = io[d].sent + m
    BY <1>3, <2>4, <2>5 DEF IoState, Writes
  <2>7. m \in Nat /\ z \in {0, 1} /\ AllOut(e) \in BOOLEAN
    BY <1>3, <2>4 DEF IoState, AllOut, Writes
  <2>8. Pieces(r, m, z)
    BY <2>4, <2>7 DEF Pieces, Writes
  <2>9. /\ q \in Atomics /\ q.hello_ready
        /\ q.will_recv <=> WillReceive(d)
        /\ q.inbound_complete <=> pub[d].inbound_complete
        /\ q.got_peer_ack <=> pub[d].got_peer_ack
        /\ z > 0 => q.send_done
    <3>. DEFINE s == p0(TRUE).send_done \/ AllOut(e)
                b == p0(TRUE).failed \/ e.bad
    <3>1. s \in BOOLEAN /\ b \in BOOLEAN
      BY <2>1, <2>4, <2>7, Zenon DEF Writes
    <3>2. q = [p0(TRUE) EXCEPT !.send_done = s, !.failed = b]
      BY DEF PumpPublished
    <3>3. z > 0 => AllOut(e)
      BY DEF AllOut
    <3>. HIDE DEF s, b, q, z
    <3>4. /\ q \in Atomics /\ q.hello_ready
          /\ q.will_recv <=> p0(TRUE).will_recv
          /\ q.inbound_complete <=> p0(TRUE).inbound_complete
          /\ q.got_peer_ack <=> p0(TRUE).got_peer_ack
          /\ q.send_done = s
      BY <2>1, <3>1, <3>2 DEF Atomics
    <3>5. AllOut(e) => s
      BY Zenon DEF s
    <3>. QED
      BY <2>1, <3>3, <3>4, <3>5
  <2>10. z > 0 => e.to = Chunks
    BY DEF AllOut
  <2>11. AckFrames(io[d], q) = k
    BY <1>3, <2>5 DEF AckFrames, AckDue
  <2>12. Answer(d, fs)
    BY <1>9, <2>11
  <2>. HIDE DEF i, q, r, k, m, z, fs
  <2>13. PICK a \in {0, 1} :
           /\ AckOf(k, a)
           /\ Acked(i, q) \in IoState
           /\ Acked(i, q).sent = i.sent /\ Acked(i, q).win = i.win /\ Acked(i, q).got = i.got
           /\ Acked(i, q).file <=> i.file
           /\ Acked(i, q).acked <=> i.acked \/ a = 1
           /\ a > 0 => (q.will_recv => q.inbound_complete)
    BY <2>5, <2>9, AckIsSent DEF k
  <2>14. /\ fs \in Seq(Frames) /\ Ordered(fs)
         /\ Count(fs, "CARD") = 1 /\ Count(fs, "DATA") = m /\ Count(fs, "EOF") = z
         /\ Count(fs, "ACK") = a
         /\ \A f : f \notin {"CARD", "DATA", "EOF", "ACK"} => Count(fs, f) = 0
    BY <2>8, <2>13, CardAndAck DEF fs
  <2>15. /\ io'[d] \in IoState
         /\ io'[d].sent = io[d].sent + m /\ io'[d].win = io[d].win - m
         /\ io'[d].got = io[d].got
         /\ io'[d].file <=> io[d].file
         /\ io'[d].acked <=> io[d].acked \/ a = 1
    BY <2>3, <2>5, <2>6, <2>13
  <2>16. z > 0 => io'[d].sent = Chunks
    BY <2>3, <2>5, <2>10, <2>13
  <2>17. Count(fs, "HELLO") = 0
    BY <2>14
  <2>18. Fits(d, fs)
    BY <1>6, <2>14, <2>17 DEF Fits
  <2>19. Greets(d, 1, m, z, a, fs)
    BY <1>9, <2>2, <2>3, <2>7, <2>9, <2>12, <2>13, <2>14, <2>15, <2>16, <2>18 DEF Greets
  <2>. QED
    BY <2>19
<1>10. WantsToSend(d) \in BOOLEAN
  BY <1>1, <1>2 DEF WantsToSend, TypeOK
<1>. QED
  BY <1>5, <1>8, <1>9, <1>10 DEF OnHello

\* The hello tells d what to send, and the card starts.
LEMMA HelloKeeps ==
  ASSUME IInv, NEW d \in Device, OnHello(d)
  PROVE  IInv'
<1>. USE TransferAssumption
<1>1. PICK p \in Device : p = Peer(d) /\ p # d /\ Peer(p) = d
  BY Two
<1>2. TypeOK /\ PairInv(d) /\ PairInv(p) /\ LocalInv(d) /\ LocalInv(p)
  BY <1>1 DEF IInv
<1>3. pub[d] \in Atomics /\ io[d] \in IoState /\ disk[d] \in Files /\ io[p] \in IoState
  BY <1>2 DEF TypeOK, Files
<1>4. /\ Receives(d, "HELLO")
      /\ UNCHANGED <<start, session, opened, link, ui, disk, nvs>>
  BY DEF OnHello
<1>5. ~pub[d].hello_ready
  BY HelloAnswered
<1>6. session[p] \notin {"none", "wait"}
  BY <1>1, <1>2, <1>4 DEF PairInv, HelloFirst, Receives
<1>7. PICK c, m, z, a, fs : Greets(d, c, m, z, a, fs)
  BY HelloAnswered
<1>8. Handled(d, "HELLO", fs)
  <2>1. disk = [disk EXCEPT ![d] = disk[d]]
    BY <1>2 DEF TypeOK
  <2>2. Handler(d, "HELLO", fs)
    BY <1>3, <1>4, <1>7, <2>1 DEF Handler, Greets
  <2>. QED
    BY <1>7, <2>2, Handles DEF Greets
<1>9. /\ Ordered(wire'[d]) /\ Ordered(wire'[p]) /\ session[d] = "up" /\ session' = session
      /\ io'[p] = io[p] /\ pub'[p] = pub[p] /\ disk' = disk
      /\ start' = start /\ link' = link /\ ui' = ui /\ nvs' = nvs
  BY <1>1, <1>4, <1>8 DEF Handled, Handed
<1>10. /\ c \in {0, 1} /\ m \in Nat /\ z \in {0, 1} /\ a \in {0, 1}
       /\ c > 0 => WantsToSend(d)
       /\ io'[d].sent = io[d].sent + m /\ io'[d].win = io[d].win - m
       /\ io'[d].got = io[d].got
       /\ io'[d].file <=> io[d].file
       /\ io'[d].acked <=> io[d].acked \/ a = 1
       /\ z > 0 => io'[d].sent = Chunks /\ pub'[d].send_done
       /\ a > 0 => (pub'[d].will_recv => pub'[d].inbound_complete)
       /\ pub'[d].hello_ready
       /\ pub'[d].will_recv <=> WillReceive(d)
       /\ pub'[d].will_send => WantsToSend(d)
       /\ pub'[d].inbound_complete <=> pub[d].inbound_complete
       /\ pub'[d].got_peer_ack <=> pub[d].got_peer_ack
  BY <1>7 DEF Greets
<1>11. /\ \A g : N(d, g) \in Nat /\ N(p, g) \in Nat /\ N(d, g)' \in Nat /\ N(p, g)' \in Nat
       /\ N(d, "CARD")' = N(d, "CARD") + IF Reached(d) THEN c ELSE 0
       /\ N(d, "DATA")' = N(d, "DATA") + IF Reached(d) THEN m ELSE 0
       /\ N(d, "EOF")' = N(d, "EOF") + IF Reached(d) THEN z ELSE 0
       /\ N(d, "ACK")' = N(d, "ACK") + IF Reached(d) THEN a ELSE 0
       /\ \A g : g \notin {"CARD", "DATA", "EOF", "ACK"} => N(d, g)' = N(d, g)
       /\ \A g : g # "HELLO" => N(p, g)' = N(p, g)
       /\ N(p, "HELLO")' = 0
  <2>1. Handed(d, "HELLO", fs)
    BY <1>8 DEF Handled
  <2>2. /\ \A g : N(d, g) \in Nat /\ N(p, g) \in Nat
        /\ \A g : N(d, g)' \in Nat /\ N(p, g)' \in Nat
        /\ \A g : N(d, g)' = N(d, g) + IF Reached(d) THEN Count(fs, g) ELSE 0
        /\ \A g : N(p, g) = N(p, g)' + IF "HELLO" = g THEN 1 ELSE 0
        /\ N(p, "HELLO")' = 0
    BY <1>1, <2>1 DEF Handed
  <2>3. /\ Count(fs, "CARD") = c /\ Count(fs, "DATA") = m /\ Count(fs, "EOF") = z
        /\ Count(fs, "ACK") = a
        /\ \A f : f \notin {"CARD", "DATA", "EOF", "ACK"} => Count(fs, f) = 0
    BY <1>7 DEF Greets
  <2>4. /\ N(d, "CARD")' = N(d, "CARD") + IF Reached(d) THEN c ELSE 0
        /\ N(d, "DATA")' = N(d, "DATA") + IF Reached(d) THEN m ELSE 0
        /\ N(d, "EOF")' = N(d, "EOF") + IF Reached(d) THEN z ELSE 0
        /\ N(d, "ACK")' = N(d, "ACK") + IF Reached(d) THEN a ELSE 0
    BY <2>2, <2>3
  <2>5. \A g : g \notin {"CARD", "DATA", "EOF", "ACK"} => N(d, g)' = N(d, g)
    BY <2>2, <2>3
  <2>6. \A g : g # "HELLO" => N(p, g)' = N(p, g)
    BY <2>2
  <2>. QED
    BY <2>2, <2>4, <2>5, <2>6
<1>12. /\ N(d, "HELLO")' = N(d, "HELLO") /\ N(d, "WINDOW")' = N(d, "WINDOW")
       /\ N(p, "CARD")' = N(p, "CARD") /\ N(p, "DATA")' = N(p, "DATA")
       /\ N(p, "EOF")' = N(p, "EOF") /\ N(p, "ACK")' = N(p, "ACK")
       /\ N(p, "WINDOW")' = N(p, "WINDOW")
  BY <1>11
<1>13. /\ N(d, "CARD") = 0 /\ N(d, "DATA") = 0 /\ N(d, "EOF") = 0 /\ io[d].sent = 0
       /\ N(p, "WINDOW") = 0
  BY <1>1, <1>2, <1>5 DEF PairInv, HelloFirst
<1>14. /\ io[d].win \in Nat /\ io[p].got \in Nat /\ io[d].win <= Window
       /\ io[p].got = 0
  <2>1. io[d].win \in Nat /\ io[p].got \in Nat /\ io[d].win <= Window
    BY <1>3 DEF IoState
  <2>2. io[p].got + N(d, "DATA") <= io[d].sent
    BY <1>1, <1>2 DEF PairInv, CardInOrder
  <2>. QED
    BY <1>13, <2>1, <2>2
<1>15. HelloFirst(d)' /\ HelloFirst(p)'
  <2>1. HelloFirst(d) /\ HelloFirst(p)
    BY <1>2 DEF PairInv
  <2>2. HelloFirst(d)'
    BY <1>1, <1>9, <1>10, <1>12, <2>1 DEF HelloFirst
  <2>3. HelloFirst(p)'
    BY <1>1, <1>6, <1>9, <1>11, <1>12, <2>1 DEF HelloFirst
  <2>. QED
    BY <2>2, <2>3
<1>16. CardInOrder(d)'
  <2>1. CardInOrder(d)
    BY <1>2 DEF PairInv
  <2>2. /\ Reached(d)' <=> Reached(d)
        /\ WantsToSend(d)' <=> WantsToSend(d)
    BY <1>9 DEF Reached, WantsToSend
  <2>3. /\ N(d, "CARD")' = IF Reached(d) THEN c ELSE 0
        /\ N(d, "DATA")' = IF Reached(d) THEN m ELSE 0
        /\ N(d, "EOF")' = IF Reached(d) THEN z ELSE 0
        /\ io'[d].sent = m
    BY <1>10, <1>11, <1>13
  <2>4. N(d, "CARD")' > 0 => io'[p].got = 0 /\ WantsToSend(d)'
    BY <1>9, <1>10, <1>14, <2>2, <2>3
  <2>5. /\ io'[p].got + N(d, "DATA")' <= io'[d].sent
        /\ Reached(d) => io'[p].got + N(d, "DATA")' = io'[d].sent
        /\ N(d, "EOF")' > 0 => io'[p].got + N(d, "DATA")' = Chunks /\ pub'[d].send_done
    BY <1>9, <1>10, <1>14, <2>3
  <2>6. io'[d].win + N(d, "DATA")' + N(p, "WINDOW")' <= Window
    BY <1>10, <1>12, <1>13, <1>14, <2>3
  <2>. QED
    BY <1>1, <1>9, <2>1, <2>2, <2>4, <2>5, <2>6 DEF CardInOrder
<1>17. CardInOrder(p)'
  BY <1>1, <1>2, <1>9, <1>10, <1>12 DEF PairInv, CardInOrder, WantsToSend, Reached
<1>18. AckIsTrue(d)'
  <2>1. AckIsTrue(d)
    BY <1>2 DEF PairInv
  <2>2. ~io[d].acked
    BY <1>5, <2>1 DEF AckIsTrue
  <2>3. N(d, "ACK")' > 0 => io'[d].acked
    <3>1. N(d, "ACK") \in Nat /\ ~(N(d, "ACK") > 0)
      BY <1>11, <2>1, <2>2 DEF AckIsTrue
    <3>. QED
      BY <1>10, <1>11, <3>1
  <2>4. ~pub'[p].got_peer_ack
    BY <1>1, <1>9, <2>1, <2>2 DEF AckIsTrue
  <2>5. io'[d].acked => pub'[d].hello_ready /\ (pub'[d].will_recv => pub'[d].inbound_complete)
    BY <1>10, <2>2
  <2>. QED
    BY <1>1, <2>3, <2>4, <2>5 DEF AckIsTrue
<1>19. AckIsTrue(p)'
  BY <1>1, <1>2, <1>9, <1>10, <1>12 DEF PairInv, AckIsTrue
<1>20. Agreed(d)'
  BY <1>9, <1>10 DEF Agreed, WillReceive, WantsToSend
<1>21. ~ui[d].finalized /\ ~ui[d].ok
  BY <1>2, <1>5 DEF LocalInv, Agreed, TempIsPart, ScreenIsTrue
<1>22. TempIsPart(d)'
  BY <1>2, <1>9, <1>10, <1>21 DEF LocalInv, TempIsPart, WillReceive
<1>23. ScreenIsTrue(d)'
  BY <1>2, <1>9, <1>21 DEF LocalInv, ScreenIsTrue, Gone
<1>. QED
  BY <1>1, <1>8, <1>15, <1>16, <1>17, <1>18, <1>19, <1>20, <1>22, <1>23, All
     DEF PairInv, LocalInv, Handled
-----------------------------------------------------------------------------
(***************************************************************************)
(* Every step keeps the invariant, which says what the runs check.         *)
(***************************************************************************)
LEMMA StepInv == IInv /\ [Next]_vars => IInv'
<1>. SUFFICES ASSUME IInv, [Next]_vars
              PROVE  IInv'
  OBVIOUS
<1>1. CASE UNCHANGED vars
  <2>1. TypeOK'
    BY <1>1 DEF IInv, TypeOK, vars
  <2>2. ASSUME NEW d \in Device
        PROVE  PairInv(d)' /\ LocalInv(d)'
    <3>1. PairInv(d) /\ LocalInv(d)
      BY DEF IInv
    <3>2. PairInv(d)'
      BY <1>1, <3>1 DEF vars, PairInv, HelloFirst, CardInOrder, AckIsTrue, N, Reached, WantsToSend
    <3>3. LocalInv(d)'
      BY <1>1, <3>1, LocalKept DEF vars
    <3>. QED
      BY <3>2, <3>3
  <2>. QED
    BY <2>1, <2>2 DEF IInv
<1>2. CASE Link
  BY <1>2, ConnectionKeeps
<1>3. ASSUME NEW d \in Device,
             Cut(d) \/ Open(d) \/ ConnectTimeout(d) \/ PowerLoss(d) \/ NoticeLoss(d)
      PROVE  IInv'
  BY <1>3, CutKeeps, ConnectionKeeps, PowerLossKeeps
<1>4. ASSUME NEW d \in Device, IoStep(d)
      PROVE  IInv'
  BY <1>4, ConnectedKeeps, HelloKeeps, CardKeeps, DataKeeps, EofKeeps, FlagKeeps, WindowKeeps
     DEF IoStep
<1>5. ASSUME NEW d \in Device, LvglStep(d) \/ AckTimeout(d) \/ Wake(d)
      PROVE  IInv'
  BY <1>5, WakeKeeps, OpenedKeeps, GoesKeeps, FinalizeKeeps, EndingKeeps, CloseKeeps DEF LvglStep
<1>. QED
  BY <1>1, <1>2, <1>3, <1>4, <1>5 DEF Next

\* Whatever is cut, late or lost, the two devices, the frames between them and what each has
\* on its SD card and in NVS go together: IInv is inductive.
THEOREM TransferInvariant == Spec => []IInv
<1>1. Init => IInv
  BY InitInv
<1>2. IInv /\ [Next]_vars => IInv'
  BY StepInv
<1>. QED
  BY <1>1, <1>2, PTL DEF Spec

\* The types: no pump sends more than the card or the window holds, and no
\* device is handed more pieces than a card has.
THEOREM TransferTypeOK == Spec => []TypeOK
<1>1. IInv => TypeOK
  BY DEF IInv
<1>. QED
  BY <1>1, TransferInvariant, PTL

\* An ack that has arrived means that the peer was handed the whole card
\* (maybeSendAck, onStreamFinished).
THEOREM AckMeansReceivedHolds == Spec => []AckMeansReceived
<1>1. IInv => AckMeansReceived
  <2>. SUFFICES ASSUME IInv, NEW d \in Device, pub[d].will_send, pub[d].got_peer_ack
                PROVE  io[Peer(d)].got = Chunks
    BY DEF AckMeansReceived
  <2>1. PICK p \in Device : p = Peer(d) /\ Peer(p) = d
    BY Two
  <2>2. PairInv(d) /\ PairInv(p) /\ LocalInv(d) /\ LocalInv(p)
    BY <2>1 DEF IInv
  <2>3. WantsToSend(d)
    BY <2>2 DEF LocalInv, Agreed
  <2>4. pub[p].hello_ready /\ (pub[p].will_recv => pub[p].inbound_complete)
    BY <2>1, <2>2 DEF PairInv, AckIsTrue
  <2>5. pub[p].will_recv
    BY <2>1, <2>2, <2>3, <2>4 DEF LocalInv, Agreed, WantsToSend, WillReceive
  <2>. QED
    BY <2>1, <2>2, <2>4, <2>5 DEF PairInv, CardInOrder
<1>. QED
  BY <1>1, TransferInvariant, PTL

\* Whatever is cut off or lost, and when, no part of a card is moved into the
\* gallery (finalizeReceived).
THEOREM GalleryIsWholeHolds == Spec => []GalleryIsWhole
<1>1. IInv => GalleryIsWhole
  BY DEF IInv, LocalInv, TempIsPart, GalleryIsWhole
<1>. QED
  BY <1>1, TransferInvariant, PTL

\* The message that is saved for the next boot tells what became of the card
\* (terminate, bootmsg::save).
THEOREM OutcomeIsTrueHolds == Spec => []OutcomeIsTrue
<1>1. IInv => OutcomeIsTrue
  <2>. SUFFICES ASSUME IInv, NEW d \in Device
                PROVE  /\ nvs[d].msg = "complete" /\ pub[d].will_recv =>
                            disk[d].card \in {"whole", "torn"}
                       /\ nvs[d].msg # "none" => disk[d].temp = "none"
    BY DEF OutcomeIsTrue
  <2>1. TempIsPart(d) /\ ScreenIsTrue(d)
    BY DEF IInv, LocalInv
  <2>. QED
    BY <2>1 DEF TempIsPart, ScreenIsTrue
<1>. QED
  BY <1>1, TransferInvariant, PTL

\* A failure that the device has reported leaves no record that a boot could open a card
\* from, but for a failing NVS, and a record is one of a card that is in the gallery
\* (terminate, boot_continue).
THEOREM FailureNeverOpensHolds == Spec => []FailureNeverOpens
<1>1. IInv => FailureNeverOpens
  <2>. SUFFICES ASSUME IInv, NEW d \in Device
                PROVE  /\ nvs[d].msg = "failed" \/ (At(d, "message") /\ ~ui[d].ok) =>
                            ~nvs[d].record \/ "nvs" \in Faults[d]
                       /\ nvs[d].record => disk[d].card \in {"whole", "torn"}
    BY DEF FailureNeverOpens
  <2>1. TempIsPart(d) /\ RecordIsTrue(d)
    BY DEF IInv, LocalInv
  <2>. QED
    BY <2>1 DEF TempIsPart, RecordIsTrue, At
<1>. QED
  BY <1>1, TransferInvariant, PTL

-----------------------------------------------------------------------------
(***************************************************************************)
(* The two devices carry out the exchange of CardExchange.                 *)
(***************************************************************************)

\* A card in the gallery was put there by finalizeReceived, and one that it saved is
\* recorded until a failure withdraws the record or the exchange ends, unless the NVS fails.
Due(d) == ui[d].pc \notin {"record", "off", "booted"} /\ (ui[d].pc = "message" => ui[d].ok)
Placed(d) ==
  /\ disk[d].card # "none" => ui[d].finalized
  /\ ui[d].finalized /\ ui[d].recv_ok /\ Due(d) => nvs[d].record \/ "nvs" \in Faults[d]

EInv == IInv /\ \A d \in Device : Placed(d)

\* What the users can tell of d stays.
Unseen(d) ==
  /\ pub'[d].inbound_complete = pub[d].inbound_complete
  /\ pub'[d].got_peer_ack = pub[d].got_peer_ack
  /\ disk'[d].card = disk[d].card /\ nvs'[d] = nvs[d]
  /\ ui'[d].pc = ui[d].pc \/ {ui[d].pc, ui'[d].pc} \cap {"off", "booted"} = {}

LEMMA UnseenStep ==
  ASSUME UNCHANGED start, \A e \in Device : Unseen(e)
  PROVE  UNCHANGED <<Wants, Has, Knows, Card, Opens, Phase, Said>>
  BY DEF Unseen, Wants, WillReceive, Has, Knows, Card, Opens, Phase, Said

\* The I/O task shows the users only that a card or an ack has arrived.
LEMMA QuietHandlers ==
  ASSUME TypeOK, NEW d \in Device,
         \/ OnConnected(d) \/ OnHello(d) \/ OnCard(d) \/ OnData(d) \/ OnWindow(d)
         \/ OnGoaway(d) \/ NoticeLoss(d) \/ ConnectTimeout(d)
  PROVE  /\ \A e \in Device : /\ pub'[e].inbound_complete = pub[e].inbound_complete
                              /\ pub'[e].got_peer_ack = pub[e].got_peer_ack
                              /\ disk'[e].card = disk[e].card
         /\ start' = start /\ ui' = ui /\ nvs' = nvs
<1>1. pub[d] \in Atomics /\ disk[d] \in Files /\ pub \in [Device -> Atomics] /\ disk \in [Device -> Files]
  BY DEF TypeOK, Files
<1>2. start' = start /\ ui' = ui /\ nvs' = nvs
  BY DEF OnConnected, OnHello, OnCard, OnData, OnWindow, OnGoaway, NoticeLoss, ConnectTimeout
<1>3. \E q : /\ pub' = [pub EXCEPT ![d] = q]
             /\ q.inbound_complete = pub[d].inbound_complete /\ q.got_peer_ack = pub[d].got_peer_ack
  <2>1. CASE OnConnected(d)
    <3>1. \/ pub' = [pub EXCEPT ![d] = [pub[d] EXCEPT !.connected = TRUE]]
          \/ pub' = [pub EXCEPT ![d] = [pub[d] EXCEPT !.connected = TRUE, !.failed = TRUE]]
      BY <1>1, <2>1 DEF OnConnected
    <3>. QED BY <1>1, <3>1 DEF Atomics
  <2>2. CASE OnHello(d)
    <3>1. \E s \in BOOLEAN :
            LET r == [pub[d] EXCEPT !.will_send = s, !.will_recv = WillReceive(d),
                                    !.hello_ready = TRUE] IN
            \/ pub' = [pub EXCEPT ![d] = r]
            \/ \E e : pub' = [pub EXCEPT ![d] = PumpPublished(r, e)]
      BY <2>2 DEF OnHello
    <3>. QED BY <1>1, <3>1 DEF Atomics, PumpPublished
  <2>3. CASE OnWindow(d)
    <3>1. pub' = [pub EXCEPT ![d] = pub[d]] \/ \E e : pub' = [pub EXCEPT ![d] = PumpPublished(pub[d], e)]
      BY <1>1, <2>3 DEF OnWindow
    <3>. QED BY <1>1, <3>1 DEF Atomics, PumpPublished
  <2>4. CASE OnCard(d) \/ OnData(d) \/ NoticeLoss(d) \/ ConnectTimeout(d)
    <3>1. \/ pub' = [pub EXCEPT ![d] = pub[d]]
          \/ pub' = [pub EXCEPT ![d] = [pub[d] EXCEPT !.failed = TRUE]]
      BY <1>1, <2>4 DEF OnCard, OnData, NoticeLoss, ConnectTimeout
    <3>. QED BY <1>1, <3>1 DEF Atomics
  <2>5. CASE OnGoaway(d)
    <3>. DEFINE q == [pub[d] EXCEPT !.peer_left = TRUE]
    <3>1. pub' = [pub EXCEPT ![d] = q]
      BY <1>1, <2>5 DEF OnGoaway
    <3>2. q.inbound_complete = pub[d].inbound_complete /\ q.got_peer_ack = pub[d].got_peer_ack
      BY <1>1 DEF Atomics
    <3>. QED BY <3>1, <3>2
  <2>. QED BY <2>1, <2>2, <2>3, <2>4, <2>5
<1>4. \E t : disk' = [disk EXCEPT ![d] = [disk[d] EXCEPT !.temp = t]]
  <2>1. CASE OnConnected(d) \/ OnHello(d) \/ OnWindow(d) \/ OnGoaway(d) \/ NoticeLoss(d) \/ ConnectTimeout(d)
    <3>1. disk' = disk
      BY <2>1 DEF OnConnected, OnHello, OnWindow, OnGoaway, NoticeLoss, ConnectTimeout
    <3>2. disk[d] = [disk[d] EXCEPT !.temp = disk[d].temp]
      BY <1>1 DEF Files
    <3>3. disk' = [disk EXCEPT ![d] = disk[d]]
      BY <1>1, <3>1
    <3>. QED BY <3>2, <3>3
  <2>2. CASE OnCard(d)
    <3>1. disk' = disk \/ disk' = [disk EXCEPT ![d] = [disk[d] EXCEPT !.temp = "part"]]
      BY <1>1, <2>2 DEF OnCard
    <3>2. disk[d] = [disk[d] EXCEPT !.temp = disk[d].temp] /\ disk = [disk EXCEPT ![d] = disk[d]]
      BY <1>1 DEF Files
    <3>. QED BY <3>1, <3>2
  <2>3. CASE OnData(d)
    <3>1. \/ disk' = disk
          \/ disk' = [disk EXCEPT ![d] = [disk[d] EXCEPT !.temp =
                        IF disk[d].temp = "torn" THEN "torn"
                        ELSE IF io[d].got + 1 = Chunks THEN "whole" ELSE "part"]]
          \/ disk' = [disk EXCEPT ![d] = [disk[d] EXCEPT !.temp = "torn"]]
      BY <1>1, <2>3 DEF OnData
    <3>2. disk[d] = [disk[d] EXCEPT !.temp = disk[d].temp] /\ disk = [disk EXCEPT ![d] = disk[d]]
      BY <1>1 DEF Files
    <3>. QED BY <3>1, <3>2
  <2>. QED BY <2>1, <2>2, <2>3
<1>5. \A e \in Device : disk'[e].card = disk[e].card
  BY <1>1, <1>4 DEF Files
<1>6. \A e \in Device : /\ pub'[e].inbound_complete = pub[e].inbound_complete
                        /\ pub'[e].got_peer_ack = pub[e].got_peer_ack
  BY <1>1, <1>3
<1>. QED BY <1>2, <1>5, <1>6

\* A step on the screen of d is one of these, and changes nothing of its peer.
LEMMA OneScreen ==
  ASSUME TypeOK, NEW d \in Device, LvglStep(d) \/ AckTimeout(d) \/ Wake(d) \/ PowerLoss(d)
  PROVE  /\ start' = start /\ pub' = pub
         /\ \A e \in Device \ {d} : ui'[e] = ui[e] /\ disk'[e] = disk[e] /\ nvs'[e] = nvs[e]
<1>1. start' = start /\ pub' = pub
  BY DEF LvglStep, AckTimeout, Wake, PowerLoss, Opened, PollConnecting, PollHandshake, JudgeHandshake,
     Finalize, Record, PollDone, PollMoving, Judge, Close, TakeRecord, SaveMessage,
     ShowMessage, Boot
<1>2. \A e \in Device \ {d} : ui'[e] = ui[e]
  <2>1. ui' = ui \/ \E u : ui' = [ui EXCEPT ![d] = u]
    BY DEF LvglStep, AckTimeout, Wake, PowerLoss, Opened, PollConnecting, PollHandshake, JudgeHandshake,
       Finalize, Record, PollDone, PollMoving, Judge, Close, TakeRecord, SaveMessage,
       ShowMessage, Boot, Goto, Terminate
  <2>. QED BY <2>1 DEF TypeOK
<1>3. \A e \in Device \ {d} : disk'[e] = disk[e]
  <2>1. disk' = disk \/ \E u : disk' = [disk EXCEPT ![d] = u]
    BY DEF LvglStep, AckTimeout, Wake, PowerLoss, Opened, PollConnecting, PollHandshake, JudgeHandshake,
       Finalize, Record, PollDone, PollMoving, Judge, Close, TakeRecord, SaveMessage,
       ShowMessage, Boot
  <2>. QED BY <2>1 DEF TypeOK
<1>4. \A e \in Device \ {d} : nvs'[e] = nvs[e]
  <2>1. nvs' = nvs \/ \E u : nvs' = [nvs EXCEPT ![d] = u]
    BY DEF LvglStep, AckTimeout, Wake, PowerLoss, Opened, PollConnecting, PollHandshake, JudgeHandshake,
       Finalize, Record, PollDone, PollMoving, Judge, Close, TakeRecord, SaveMessage,
       ShowMessage, Boot
  <2>. QED BY <2>1 DEF TypeOK
<1>. QED BY <1>1, <1>2, <1>3, <1>4

\* What each of them does to d, as far as its users and Placed can tell.
Goes(d) ==
  /\ ui[d].pc \notin {"record", "message", "off", "booted"}
  /\ ui'[d].pc \notin {"record", "message", "off", "booted"}
  /\ ui'[d].finalized = ui[d].finalized /\ ui'[d].recv_ok = ui[d].recv_ok
  /\ disk'[d].card = disk[d].card /\ nvs'[d] = nvs[d]

LEMMA ScreenGoes ==
  ASSUME TypeOK, NEW d \in Device,
         \/ Opened(d) \/ PollConnecting(d) \/ PollHandshake(d) \/ JudgeHandshake(d)
         \/ PollDone(d) \/ PollMoving(d) \/ Judge(d) \/ AckTimeout(d) \/ Close(d)
  PROVE  Goes(d)
<1>1. ui[d] \in UiState /\ disk[d] \in Files
  BY DEF TypeOK, Files
<1>2. nvs' = nvs /\ disk'[d].card = disk[d].card
  <2>1. CASE Close(d)
    <3>1. \E t : disk' = [disk EXCEPT ![d] = [disk[d] EXCEPT !.temp = t]]
      BY <2>1 DEF Close, TypeOK
    <3>. QED BY <1>1, <2>1, <3>1 DEF Files, Close, TypeOK
  <2>2. CASE ~Close(d)
    BY <2>2 DEF Opened, PollConnecting, PollHandshake, JudgeHandshake, PollDone, PollMoving, Judge,
       AckTimeout
  <2>. QED BY <2>1, <2>2
<1>3. ui[d].pc \in {"build", "poll", "handshake", "judge", "close"}
  BY DEF Opened, PollConnecting, PollHandshake, JudgeHandshake, PollDone, PollMoving, Judge,
     AckTimeout, Close, At, Settled
<1>4. \E c \in {"poll", "handshake", "judge", "close", "take"}, m \in BOOLEAN, k \in BOOLEAN :
        ui'[d] = [ui[d] EXCEPT !.pc = c, !.marked = m, !.ok = k]
  <2>1. ASSUME NEW c, ui' = [ui EXCEPT ![d].pc = c]
        PROVE  ui'[d] = [ui[d] EXCEPT !.pc = c, !.marked = ui[d].marked, !.ok = ui[d].ok]
    BY <1>1, <2>1 DEF TypeOK, UiState
  <2>2. ASSUME NEW k, ui' = [ui EXCEPT ![d].pc = "close", ![d].ok = k]
        PROVE  ui'[d] = [ui[d] EXCEPT !.pc = "close", !.marked = ui[d].marked, !.ok = k]
    BY <1>1, <2>2 DEF TypeOK, UiState
  <2>3. ui[d].marked \in BOOLEAN /\ ui[d].ok \in BOOLEAN /\ ui[d].recv_ok \in BOOLEAN
    BY <1>1 DEF UiState
  <2>4. CASE Opened(d) \/ PollHandshake(d) \/ PollMoving(d) \/ Close(d)
    <3>1. \E c \in {"poll", "handshake", "judge", "take"} : ui' = [ui EXCEPT ![d].pc = c]
      BY <2>4 DEF Opened, PollHandshake, PollMoving, Close, Goto
    <3>. QED BY <2>1, <2>3, <3>1
  <2>5. CASE PollConnecting(d) \/ AckTimeout(d)
    <3>1. \E k \in BOOLEAN : ui' = [ui EXCEPT ![d].pc = "close", ![d].ok = k]
      BY <2>3, <2>5 DEF PollConnecting, AckTimeout, Terminate
    <3>. QED BY <2>2, <2>3, <3>1
  <2>6. CASE JudgeHandshake(d) \/ Judge(d)
    <3>1. \/ ui' = [ui EXCEPT ![d].pc = "close", ![d].ok = FALSE]
          \/ ui' = [ui EXCEPT ![d].pc = "poll"]
      BY <2>6 DEF JudgeHandshake, Judge, Terminate, Goto
    <3>. QED BY <2>1, <2>2, <2>3, <3>1
  <2>7. CASE PollDone(d)
    <3>1. \/ ui' = [ui EXCEPT ![d].marked = TRUE, ![d].pc = "close", ![d].ok = ui[d].recv_ok]
          \/ ui' = [ui EXCEPT ![d].marked = TRUE]
      BY <2>7 DEF PollDone
    <3>2. CASE ui' = [ui EXCEPT ![d].marked = TRUE, ![d].pc = "close", ![d].ok = ui[d].recv_ok]
      <4>1. ui'[d] = [ui[d] EXCEPT !.pc = "close", !.marked = TRUE, !.ok = ui[d].recv_ok]
        BY <1>1, <3>2 DEF TypeOK, UiState
      <4>. QED BY <2>3, <4>1
    <3>3. CASE ui' = [ui EXCEPT ![d].marked = TRUE]
      <4>1. ui[d].pc = "poll"
        BY <2>7 DEF PollDone, Settled, At
      <4>2. ui'[d] = [ui[d] EXCEPT !.pc = "poll", !.marked = TRUE, !.ok = ui[d].ok]
        BY <1>1, <3>3, <4>1 DEF TypeOK, UiState
      <4>. QED BY <2>3, <4>2
    <3>. QED BY <3>1, <3>2, <3>3
  <2>. QED BY <2>4, <2>5, <2>6, <2>7
<1>5. /\ ui'[d].pc \in {"poll", "handshake", "judge", "close", "take"}
      /\ ui'[d].finalized = ui[d].finalized /\ ui'[d].recv_ok = ui[d].recv_ok
  BY <1>1, <1>4 DEF UiState
<1>. QED BY <1>2, <1>3, <1>5 DEF Goes

\* ui'[d] is ui[d] at another place, which leaves the rest.
LEMMA GotoIs ==
  ASSUME TypeOK, NEW d \in Device, NEW c, Goto(d, c)
  PROVE  /\ ui'[d].pc = c /\ ui'[d].finalized = ui[d].finalized
         /\ ui'[d].recv_ok = ui[d].recv_ok /\ ui'[d].ok = ui[d].ok
<1>1. ui[d] \in UiState /\ ui'[d] = [ui[d] EXCEPT !.pc = c]
  BY DEF TypeOK, Goto
<1>. QED BY <1>1 DEF UiState

\* Every step keeps Placed.
LEMMA PlacedKept ==
  ASSUME EInv, [Next]_vars, NEW e \in Device
  PROVE  Placed(e)'
<1>1. TypeOK /\ Placed(e) /\ LocalInv(e)
  BY DEF EInv, IInv
<1>2. ASSUME ui'[e] = ui[e], disk'[e].card = disk[e].card, nvs'[e] = nvs[e]
      PROVE  Placed(e)'
  BY <1>1, <1>2 DEF Placed, Due
<1>3. CASE UNCHANGED vars
  BY <1>2, <1>3 DEF vars
<1>4. CASE Link \/ \E d \in Device : Cut(d) \/ Open(d)
  BY <1>2, <1>4 DEF Link, Cut, Open
<1>5. ASSUME NEW d \in Device, NoticeLoss(d) \/ ConnectTimeout(d) \/ (IoStep(d) /\ ~OnEof(d) /\ ~OnAck(d))
      PROVE  Placed(e)'
  BY <1>1, <1>2, <1>5, QuietHandlers DEF IoStep
<1>6. ASSUME NEW d \in Device, OnAck(d) PROVE Placed(e)'
  BY <1>2, <1>6 DEF OnAck
<1>7. ASSUME NEW d \in Device, OnEof(d) PROVE Placed(e)'
  <2>1. disk' = disk \/ disk' = [disk EXCEPT ![d].temp = "torn"]
    BY <1>7 DEF OnEof
  <2>2. disk \in [Device -> Files]
    BY <1>1 DEF TypeOK, Files
  <2>3. disk'[e].card = disk[e].card
    BY <2>1, <2>2 DEF Files
  <2>. QED BY <1>2, <1>7, <2>3 DEF OnEof
<1>8. ASSUME NEW d \in Device, LvglStep(d) \/ AckTimeout(d) \/ Wake(d) \/ PowerLoss(d), e # d
      PROVE  Placed(e)'
  BY <1>1, <1>2, <1>8, OneScreen
<1>9. CASE LvglStep(e) \/ AckTimeout(e) \/ Wake(e) \/ PowerLoss(e)
  <2>1. ui[e] \in UiState /\ disk[e] \in Files /\ nvs[e] \in Nvs
    BY <1>1 DEF TypeOK, Files, Nvs
  <2>2. ASSUME Goes(e) PROVE Placed(e)'
    BY <1>1, <2>2 DEF Goes, Placed, Due
  <2>3. CASE Finalize(e)
    <3>1. nvs' = nvs /\ ui[e].pc = "poll"
      BY <2>3 DEF Finalize, At
    <3>2. /\ ui'[e].finalized
          /\ ui'[e].pc = "record" \/ ~ui'[e].recv_ok
      <4>1. \/ ui'[e] = [ui[e] EXCEPT !.finalized = TRUE, !.pc = "record"]
            \/ ui'[e] = [ui[e] EXCEPT !.finalized = TRUE, !.recv_ok = FALSE]
        BY <1>1, <2>1, <2>3 DEF Finalize, TypeOK, UiState
      <4>. QED BY <2>1, <4>1 DEF UiState
    <3>. QED BY <3>1, <3>2 DEF Placed, Due
  <2>4. CASE Record(e)
    <3>1. disk' = disk /\ Goto(e, "poll")
      BY <2>4 DEF Record
    <3>2. nvs'[e].record = TRUE \/ "nvs" \in Faults[e]
      <4>1. \E r \in Stored(e, nvs[e].record, TRUE) : nvs'[e] = [nvs[e] EXCEPT !.record = r]
        BY <1>1, <2>4 DEF Record, TypeOK
      <4>2. \E r \in Stored(e, nvs[e].record, TRUE) : nvs'[e].record = r
        BY <2>1, <4>1 DEF Nvs
      <4>. QED BY <4>2 DEF Stored
    <3>. QED BY <1>1, <3>1, <3>2, GotoIs DEF Placed
  <2>5. CASE TakeRecord(e)
    <3>1. /\ disk' = disk /\ Goto(e, "message") /\ ui[e].pc = "take"
          /\ ~Withdraws(e) => nvs' = nvs
      BY <2>5 DEF TakeRecord, At
    <3>. QED BY <1>1, <3>1, GotoIs DEF Placed, Due, Withdraws
  <2>6. CASE SaveMessage(e) \/ Boot(e) \/ Wake(e) \/ PowerLoss(e)
    <3>1. disk' = disk /\ \E c \in {"off", "booted"} : Goto(e, c)
      BY <2>6 DEF SaveMessage, Boot, Wake, PowerLoss
    <3>. QED BY <1>1, <3>1, GotoIs DEF Placed, Due
  <2>7. CASE ShowMessage(e)
    <3>1. ui' = ui /\ disk' = disk /\ ui[e].pc = "off"
      BY <2>7 DEF ShowMessage, At
    <3>. QED BY <1>1, <3>1 DEF Placed, Due
  <2>. QED BY <1>1, <1>9, <2>2, <2>3, <2>4, <2>5, <2>6, <2>7, ScreenGoes DEF LvglStep
<1>. QED BY <1>3, <1>4, <1>5, <1>6, <1>7, <1>8, <1>9 DEF Next

\* The handlers that show something.
LEMMA AckIsLearnt ==
  ASSUME IInv, IInv', NEW d \in Device, OnAck(d)
  PROVE  Exchange!Learn(d)
<1>1. PICK p \in Device : p = Peer(d) /\ p # d /\ Peer(p) = d /\ Device \ {d} = {p}
  BY Two
<1>2. TypeOK /\ ScreenIsTrue(d) /\ pub \in [Device -> Atomics]
  BY DEF IInv, LocalInv, TypeOK
<1>3. /\ pub' = [pub EXCEPT ![d] = [pub[d] EXCEPT !.got_peer_ack = TRUE]]
      /\ session[d] = "up"
      /\ UNCHANGED <<start, io, ui, disk, nvs>>
  BY <1>2 DEF OnAck, Receives
<1>4. /\ pub'[d].got_peer_ack = TRUE /\ pub'[d].inbound_complete = pub[d].inbound_complete
      /\ pub'[p] = pub[p]
  BY <1>1, <1>2, <1>3 DEF Atomics
<1>5. pub[p].hello_ready /\ (pub[p].will_recv => pub[p].inbound_complete)
  BY <1>1, <1>3, <1>4 DEF IInv, PairInv, AckIsTrue
<1>6. Wants[p] => Has[p]
  BY <1>1, <1>5 DEF IInv, LocalInv, Agreed, Wants, Has
<1>7. Phase[d] = "on"
  BY <1>2, <1>3 DEF ScreenIsTrue, Gone, Phase
<1>8. Knows' = [Knows EXCEPT ![d] = TRUE]
  BY <1>1, <1>4, Two DEF Knows
<1>9. Has' = Has
  BY <1>1, <1>4, Two DEF Has
<1>10. UNCHANGED <<Wants, Card, Opens, Phase, Said>>
  BY <1>3 DEF Wants, WillReceive, Card, Opens, Phase, Said
<1>. QED BY <1>1, <1>6, <1>7, <1>8, <1>9, <1>10 DEF Exchange!Learn

LEMMA EofIsReceived ==
  ASSUME IInv, NEW d \in Device, OnEof(d)
  PROVE  Exchange!Receive(d)
<1>1. TypeOK /\ ScreenIsTrue(d) /\ pub \in [Device -> Atomics] /\ disk \in [Device -> Files]
  BY DEF IInv, LocalInv, TypeOK, Files
<1>2. /\ pub' = [pub EXCEPT ![d] = [pub[d] EXCEPT !.inbound_complete = TRUE]]
      /\ session[d] = "up"
      /\ UNCHANGED <<start, ui, nvs>>
      /\ disk' = disk \/ disk' = [disk EXCEPT ![d].temp = "torn"]
  BY DEF OnEof, Receives
<1>3. /\ pub'[d].inbound_complete = TRUE /\ pub'[d].got_peer_ack = pub[d].got_peer_ack
      /\ \A e \in Device \ {d} : pub'[e] = pub[e]
  BY <1>1, <1>2 DEF Atomics
<1>4. \A e \in Device : disk'[e].card = disk[e].card
  BY <1>1, <1>2 DEF Files
<1>5. Phase[d] = "on"
  BY <1>1, <1>2 DEF ScreenIsTrue, Gone, Phase
<1>6. Has' = [Has EXCEPT ![d] = TRUE]
  BY <1>3 DEF Has
<1>7. Knows' = Knows
  BY <1>3 DEF Knows
<1>8. UNCHANGED <<Wants, Card, Opens, Phase, Said>>
  BY <1>2, <1>4 DEF Wants, WillReceive, Card, Opens, Phase, Said
<1>. QED BY <1>5, <1>6, <1>7, <1>8 DEF Exchange!Receive

\* A step on the screen of d is seen on d only.
LEMMA SeenOnOne ==
  ASSUME TypeOK, NEW d \in Device, LvglStep(d) \/ AckTimeout(d) \/ Wake(d) \/ PowerLoss(d)
  PROVE  /\ UNCHANGED <<Wants, Has, Knows>>
         /\ Card' = [Card EXCEPT ![d] = disk'[d].card]
         /\ Opens' = [Opens EXCEPT ![d] = nvs'[d].record]
         /\ Said' = [Said EXCEPT ![d] = nvs'[d].msg]
         /\ Phase' = [Phase EXCEPT ![d] =
              IF ui'[d].pc \in {"off", "booted"} THEN ui'[d].pc ELSE "on"]
         /\ disk'[d].card = disk[d].card => Card' = Card
         /\ nvs'[d].record = nvs[d].record => Opens' = Opens
         /\ nvs'[d].msg = nvs[d].msg => Said' = Said
         /\ {ui[d].pc, ui'[d].pc} \cap {"off", "booted"} = {} => Phase' = Phase
<1>1. /\ start' = start /\ pub' = pub
      /\ \A e \in Device \ {d} : ui'[e] = ui[e] /\ disk'[e] = disk[e] /\ nvs'[e] = nvs[e]
  BY OneScreen
<1>2. UNCHANGED <<Wants, Has, Knows>>
  BY <1>1 DEF Wants, WillReceive, Has, Knows
<1>3. Card' = [Card EXCEPT ![d] = disk'[d].card] /\ (disk'[d].card = disk[d].card => Card' = Card)
  BY <1>1 DEF Card
<1>4. /\ Opens' = [Opens EXCEPT ![d] = nvs'[d].record]
      /\ nvs'[d].record = nvs[d].record => Opens' = Opens
  BY <1>1 DEF Opens
<1>5. Said' = [Said EXCEPT ![d] = nvs'[d].msg] /\ (nvs'[d].msg = nvs[d].msg => Said' = Said)
  BY <1>1 DEF Said
<1>6. /\ Phase' = [Phase EXCEPT ![d] = IF ui'[d].pc \in {"off", "booted"} THEN ui'[d].pc ELSE "on"]
      /\ {ui[d].pc, ui'[d].pc} \cap {"off", "booted"} = {} => Phase' = Phase
  BY <1>1 DEF Phase
<1>. QED BY <1>2, <1>3, <1>4, <1>5, <1>6

LEMMA CardIsPlaced ==
  ASSUME EInv, IInv', NEW d \in Device, Finalize(d)
  PROVE  Exchange!Place(d) \/ UNCHANGED Exchange!exchangeVars
<1>1. /\ TypeOK /\ Placed(d) /\ Agreed(d) /\ ui[d] \in UiState /\ disk[d] \in Files
      /\ ui \in [Device -> UiState] /\ disk \in [Device -> Files]
  BY DEF EInv, IInv, LocalInv, TypeOK, Files
<1>2. LvglStep(d)
  BY DEF LvglStep
<1>3. /\ nvs' = nvs /\ ui[d].pc = "poll" /\ ~ui[d].finalized
      /\ pub[d].will_recv /\ pub[d].inbound_complete
  BY DEF Finalize, At, Unfinalized
<1>4. ui'[d].pc \in {"poll", "record"}
  <2>1. \/ ui'[d] = [ui[d] EXCEPT !.finalized = TRUE, !.pc = "record"]
        \/ ui'[d] = [ui[d] EXCEPT !.finalized = TRUE, !.recv_ok = FALSE]
    BY <1>1 DEF Finalize
  <2>. QED BY <1>1, <1>3, <2>1 DEF UiState
<1>5. \/ disk'[d].card = disk[d].temp /\ disk[d].temp # "none"
      \/ disk'[d].card = disk[d].card
  <2>1. \/ disk[d].temp # "none" /\ disk'[d] = [temp |-> "none", card |-> disk[d].temp]
        \/ disk'[d] = [disk[d] EXCEPT !.temp = "none"]
    BY <1>1 DEF Finalize
  <2>. QED BY <1>1, <2>1 DEF Files
<1>6. UNCHANGED <<Wants, Has, Knows, Opens, Phase, Said>>
  BY <1>1, <1>2, <1>3, <1>4, SeenOnOne
<1>7. CASE disk'[d].card = disk[d].card
  BY <1>1, <1>2, <1>6, <1>7, SeenOnOne DEF Exchange!exchangeVars
<1>8. CASE disk'[d].card = disk[d].temp /\ disk[d].temp # "none"
  <2>1. disk'[d].card \in {"whole", "torn"}
    <3>1. disk'[d].card # "part"
      BY DEF IInv, LocalInv, TempIsPart
    <3>. QED BY <1>1, <1>8, <3>1 DEF Files, Content
  <2>2. Card' = [Card EXCEPT ![d] = disk'[d].card]
    BY <1>1, <1>2, SeenOnOne
  <2>3. Wants[d] /\ Has[d] /\ Card[d] = "none" /\ Phase[d] = "on"
    BY <1>1, <1>3 DEF Agreed, Placed, Wants, Has, Card, Phase
  <2>. QED BY <1>6, <2>1, <2>2, <2>3 DEF Exchange!Place
<1>. QED BY <1>5, <1>7, <1>8

LEMMA CardIsRemembered ==
  ASSUME EInv, NEW d \in Device, Record(d)
  PROVE  Exchange!Remember(d) \/ UNCHANGED Exchange!exchangeVars
<1>1. TypeOK /\ TempIsPart(d) /\ ScreenIsTrue(d) /\ nvs[d] \in Nvs
  BY DEF EInv, IInv, LocalInv, TypeOK, Nvs
<1>2. LvglStep(d)
  BY DEF LvglStep
<1>3. disk' = disk /\ ui[d].pc = "record" /\ Goto(d, "poll")
  BY DEF Record, At
<1>4. nvs'[d].record \in {nvs[d].record, TRUE} /\ nvs'[d].msg = nvs[d].msg
  <2>1. \E r \in {nvs[d].record, TRUE} : nvs'[d] = [nvs[d] EXCEPT !.record = r]
    BY <1>1 DEF Record, Stored, TypeOK
  <2>. QED BY <1>1, <2>1 DEF Nvs
<1>5. ui'[d].pc = "poll"
  BY <1>1, <1>3, GotoIs
<1>6. Card[d] # "none" /\ Phase[d] = "on"
  BY <1>1, <1>3 DEF ScreenIsTrue, TempIsPart, Card, Phase
<1>7. UNCHANGED <<Wants, Has, Knows, Card, Phase, Said>>
  BY <1>1, <1>2, <1>3, <1>4, <1>5, SeenOnOne
<1>8. CASE nvs'[d].record = nvs[d].record
  BY <1>1, <1>2, <1>7, <1>8, SeenOnOne DEF Exchange!exchangeVars
<1>9. CASE nvs'[d].record = TRUE
  <2>1. Opens' = [Opens EXCEPT ![d] = TRUE]
    BY <1>1, <1>2, <1>9, SeenOnOne
  <2>. QED BY <1>6, <1>7, <2>1 DEF Exchange!Remember
<1>. QED BY <1>4, <1>8, <1>9

LEMMA RecordIsWithdrawn ==
  ASSUME EInv, NEW d \in Device, TakeRecord(d)
  PROVE  Exchange!Withdraw(d) \/ UNCHANGED Exchange!exchangeVars
<1>1. TypeOK /\ nvs[d] \in Nvs
  BY DEF EInv, IInv, TypeOK, Nvs
<1>2. LvglStep(d)
  BY DEF LvglStep
<1>3. disk' = disk /\ ui[d].pc = "take" /\ Goto(d, "message")
  BY DEF TakeRecord, At
<1>4. nvs'[d].record \in {FALSE, nvs[d].record} /\ nvs'[d].msg = nvs[d].msg
  <2>1. nvs' = nvs \/ \E r \in {nvs[d].record, FALSE} : nvs'[d] = [nvs[d] EXCEPT !.record = r]
    BY <1>1 DEF TakeRecord, Stored, TypeOK
  <2>. QED BY <1>1, <2>1 DEF Nvs
<1>5. ui'[d].pc = "message"
  BY <1>1, <1>3, GotoIs
<1>6. UNCHANGED <<Wants, Has, Knows, Card, Phase, Said>>
  BY <1>1, <1>2, <1>3, <1>4, <1>5, SeenOnOne
<1>7. CASE nvs'[d].record = nvs[d].record
  BY <1>1, <1>2, <1>6, <1>7, SeenOnOne DEF Exchange!exchangeVars
<1>8. CASE nvs'[d].record = FALSE
  <2>1. Opens' = [Opens EXCEPT ![d] = FALSE]
    BY <1>1, <1>2, <1>8, SeenOnOne
  <2>2. Phase[d] = "on"
    BY <1>3 DEF Phase
  <2>. QED BY <1>6, <2>1, <2>2 DEF Exchange!Withdraw
<1>. QED BY <1>4, <1>7, <1>8

LEMMA OutcomeIsSaid ==
  ASSUME EInv, NEW d \in Device, SaveMessage(d)
  PROVE  Exchange!Succeed(d) \/ Exchange!Fail(d) \/ Exchange!Stop(d)
<1>1. /\ TypeOK /\ Agreed(d) /\ TempIsPart(d) /\ ScreenIsTrue(d) /\ RecordIsTrue(d) /\ Placed(d)
      /\ nvs[d] \in Nvs
  BY DEF EInv, IInv, LocalInv, TypeOK, Nvs
<1>2. LvglStep(d)
  BY DEF LvglStep
<1>3. disk' = disk /\ ui[d].pc = "message" /\ Goto(d, "off")
  BY DEF SaveMessage, At
<1>4. /\ nvs'[d].record = nvs[d].record
      /\ nvs'[d].msg \in {"none", Outcome(d)}
  <2>1. \E m \in {nvs[d].msg, Outcome(d)} : nvs'[d] = [nvs[d] EXCEPT !.msg = m]
    BY <1>1 DEF SaveMessage, Stored, TypeOK
  <2>2. nvs[d].msg = "none"
    BY <1>1, <1>3 DEF ScreenIsTrue
  <2>. QED BY <1>1, <2>1, <2>2 DEF Nvs
<1>5. ui'[d].pc = "off"
  BY <1>1, <1>3, GotoIs
<1>6. UNCHANGED <<Wants, Has, Knows, Card, Opens>>
  BY <1>1, <1>2, <1>3, <1>4, SeenOnOne
<1>7. Phase[d] = "on" /\ Phase' = [Phase EXCEPT ![d] = "off"]
  BY <1>1, <1>2, <1>3, <1>5, SeenOnOne DEF Phase
<1>8. Said' = [Said EXCEPT ![d] = nvs'[d].msg]
  BY <1>1, <1>2, SeenOnOne
<1>9. CASE nvs'[d].msg = Outcome(d) /\ ui[d].ok
  <2>1. Wants[d] => Card[d] # "none" /\ (Opens[d] \/ "nvs" \in Faults[d])
    BY <1>1, <1>3, <1>9 DEF ScreenIsTrue, Agreed, TempIsPart, Placed, Due, Wants, Card, Opens
  <2>. QED BY <1>6, <1>7, <1>8, <1>9, <2>1 DEF Exchange!Succeed, Exchange!Ends, Outcome
<1>10. CASE nvs'[d].msg = Outcome(d) /\ ~ui[d].ok
  <2>1. Opens[d] => "nvs" \in Faults[d]
    BY <1>1, <1>3, <1>10 DEF RecordIsTrue, Opens
  <2>. QED BY <1>6, <1>7, <1>8, <1>10, <2>1 DEF Exchange!Fail, Exchange!Ends, Outcome
<1>11. CASE nvs'[d].msg = "none"
  BY <1>6, <1>7, <1>8, <1>11 DEF Exchange!Stop, Exchange!Ends
<1>. QED BY <1>4, <1>9, <1>10, <1>11

LEMMA DeviceGoesDown ==
  ASSUME EInv, NEW d \in Device, Wake(d) \/ PowerLoss(d)
  PROVE  Exchange!Stop(d)
<1>1. TypeOK /\ ScreenIsTrue(d)
  BY DEF EInv, IInv, LocalInv
<1>2. disk' = disk /\ nvs' = nvs /\ ui[d].pc \notin {"off", "booted"} /\ Goto(d, "off")
  BY DEF Wake, At, PowerLoss
<1>3. ui'[d].pc = "off"
  BY <1>1, <1>2, GotoIs
<1>4. UNCHANGED <<Wants, Has, Knows, Card, Opens>>
  BY <1>1, <1>2, SeenOnOne
<1>5. Phase[d] = "on" /\ Phase' = [Phase EXCEPT ![d] = "off"]
  BY <1>1, <1>2, <1>3, SeenOnOne DEF Phase
<1>6. nvs'[d].msg = "none" /\ Said' = [Said EXCEPT ![d] = nvs'[d].msg]
  BY <1>1, <1>2, SeenOnOne DEF ScreenIsTrue
<1>. QED BY <1>4, <1>5, <1>6 DEF Exchange!Stop, Exchange!Ends

LEMMA OutcomeIsShown ==
  ASSUME EInv, NEW d \in Device
  PROVE  ShowMessage(d) => Exchange!Tell(d) \/ UNCHANGED Exchange!exchangeVars
<1>. SUFFICES ASSUME ShowMessage(d)
              PROVE  Exchange!Tell(d) \/ UNCHANGED Exchange!exchangeVars
  OBVIOUS
<1>1. TypeOK /\ nvs[d] \in Nvs
  BY DEF EInv, IInv, TypeOK, Nvs
<1>2. LvglStep(d)
  BY DEF LvglStep
<1>3. disk' = disk /\ ui' = ui /\ ui[d].pc = "off"
  BY DEF ShowMessage, At
<1>4. nvs'[d].record = nvs[d].record /\ nvs'[d].msg \in {nvs[d].msg, "none"}
  <2>1. \E m \in {nvs[d].msg, "none"} : nvs'[d] = [nvs[d] EXCEPT !.msg = m]
    BY <1>1 DEF ShowMessage, Stored, TypeOK
  <2>. QED BY <1>1, <2>1 DEF Nvs
<1>5. UNCHANGED <<Wants, Has, Knows, Card, Opens>>
  BY <1>1, <1>2, <1>3, <1>4, SeenOnOne
<1>6. Phase' = Phase /\ Phase[d] = "off"
  BY <1>3 DEF Phase
<1>7. Said' = [Said EXCEPT ![d] = nvs'[d].msg]
  BY <1>1, <1>2, SeenOnOne
<1>8. CASE nvs'[d].msg = nvs[d].msg
  BY <1>1, <1>2, <1>5, <1>6, <1>8, SeenOnOne DEF Exchange!exchangeVars
<1>9. CASE nvs'[d].msg = "none"
  BY <1>5, <1>6, <1>7, <1>9 DEF Exchange!Tell
<1>. QED BY <1>4, <1>8, <1>9

LEMMA DeviceBoots ==
  ASSUME EInv, IInv', NEW d \in Device, Boot(d)
  PROVE  Exchange!Boot(d)
<1>1. TypeOK /\ RecordIsTrue(d)' /\ nvs[d] \in Nvs /\ nvs'[d] \in Nvs
  BY DEF EInv, IInv, LocalInv, TypeOK, Nvs
<1>2. LvglStep(d)
  BY DEF LvglStep
<1>3. disk' = disk /\ ui[d].pc = "off" /\ Goto(d, "booted")
  BY DEF Boot, At
<1>4. ui'[d].pc = "booted"
  BY <1>1, <1>3, GotoIs
<1>5. nvs'[d].record = FALSE \/ (nvs'[d].record = nvs[d].record /\ "nvs" \in Faults[d])
  <2>1. nvs'[d].record \in BOOLEAN /\ nvs[d].record \in BOOLEAN
    BY <1>1 DEF TypeOK, Nvs
  <2>2. nvs'[d].record => "nvs" \in Faults[d]
    BY <1>1, <1>4 DEF RecordIsTrue
  <2>3. nvs'[d].record => nvs[d].record
    <3>1. PICK m \in Stored(d, nvs[d].msg, "none"), r \in Stored(d, nvs[d].record, FALSE) :
            nvs' = [nvs EXCEPT ![d] =
                     [msg |-> m, record |-> IF @.msg = "failed" THEN @.record ELSE r]]
      BY DEF Boot
    <3>2. nvs'[d].record = IF nvs[d].msg = "failed" THEN nvs[d].record ELSE r
      BY <1>1, <3>1 DEF TypeOK
    <3>. QED BY <2>1, <3>2 DEF Stored
  <2>. QED BY <2>1, <2>2, <2>3
<1>6. nvs'[d].msg = "none" \/ (nvs'[d].msg = nvs[d].msg /\ "nvs" \in Faults[d])
  <2>1. \E m \in Stored(d, nvs[d].msg, "none") : \E r :
          nvs'[d] = [msg |-> m, record |-> r]
    BY <1>1 DEF Boot, TypeOK
  <2>. QED BY <2>1 DEF Stored
<1>7. UNCHANGED <<Wants, Has, Knows, Card>>
  BY <1>1, <1>2, <1>3, SeenOnOne
<1>8. Phase[d] = "off" /\ Phase' = [Phase EXCEPT ![d] = "booted"]
  BY <1>1, <1>2, <1>3, <1>4, SeenOnOne DEF Phase
<1>9. Opens' = [Opens EXCEPT ![d] = FALSE] \/ ("nvs" \in Faults[d] /\ Opens' = Opens)
  BY <1>1, <1>2, <1>5, SeenOnOne
<1>10. Said' = [Said EXCEPT ![d] = "none"] \/ ("nvs" \in Faults[d] /\ Said' = Said)
  BY <1>1, <1>2, <1>6, SeenOnOne
<1>. QED BY <1>7, <1>8, <1>9, <1>10 DEF Exchange!Boot

LEMMA ExchangeInit == Init => Exchange!Init /\ EInv
<1>. SUFFICES ASSUME Init PROVE Exchange!Init /\ EInv
  OBVIOUS
<1>1. Wants \in [Device -> BOOLEAN]
  BY DEF Init, Wants, WillReceive
<1>2. /\ Has = [d \in Device |-> FALSE] /\ Knows = [d \in Device |-> FALSE]
      /\ Card = [d \in Device |-> "none"] /\ Opens = [d \in Device |-> FALSE]
      /\ Phase = [d \in Device |-> "on"] /\ Said = [d \in Device |-> "none"]
  BY DEF Init, Has, Knows, Card, Opens, Phase, Said
<1>3. \A d \in Device : Placed(d)
  BY DEF Init, Placed
<1>. QED BY <1>1, <1>2, <1>3, InitInv DEF Exchange!Init, EInv

LEMMA ExchangeStep == EInv /\ [Next]_vars => EInv' /\ [Exchange!Next]_(Exchange!exchangeVars)
<1>. SUFFICES ASSUME EInv, [Next]_vars PROVE EInv' /\ [Exchange!Next]_(Exchange!exchangeVars)
  OBVIOUS
<1>1. IInv /\ IInv' /\ TypeOK
  BY StepInv DEF EInv, IInv
<1>2. EInv'
  BY <1>1, PlacedKept DEF EInv
<1>3. ASSUME UNCHANGED start, \A e \in Device : Unseen(e)
      PROVE  UNCHANGED Exchange!exchangeVars
  BY <1>3, UnseenStep DEF Exchange!exchangeVars
<1>4. CASE UNCHANGED vars
  <2>1. start' = start /\ pub' = pub /\ disk' = disk /\ ui' = ui /\ nvs' = nvs
    BY <1>4 DEF vars
  <2>2. \A e \in Device : Unseen(e)
    BY <2>1 DEF Unseen
  <2>. QED BY <1>2, <1>3, <2>1, <2>2
<1>5. CASE Link \/ \E d \in Device : Cut(d) \/ Open(d)
  <2>1. start' = start /\ pub' = pub /\ disk' = disk /\ ui' = ui /\ nvs' = nvs
    BY <1>5 DEF Link, Cut, Open
  <2>2. \A e \in Device : Unseen(e)
    BY <2>1 DEF Unseen
  <2>. QED BY <1>2, <1>3, <2>1, <2>2
<1>6. ASSUME NEW d \in Device,
             NoticeLoss(d) \/ ConnectTimeout(d) \/ (IoStep(d) /\ ~OnEof(d) /\ ~OnAck(d))
      PROVE  UNCHANGED Exchange!exchangeVars
  BY <1>1, <1>3, <1>6, QuietHandlers DEF IoStep, Unseen
<1>7. ASSUME NEW d \in Device, OnEof(d) \/ OnAck(d)
      PROVE  Exchange!Next
  BY <1>1, <1>7, EofIsReceived, AckIsLearnt DEF Exchange!Next
<1>8. ASSUME NEW d \in Device, LvglStep(d) \/ AckTimeout(d), Goes(d)
      PROVE  UNCHANGED Exchange!exchangeVars
  <2>1. \A e \in Device : Unseen(e)
    BY <1>1, <1>8, OneScreen DEF Goes, Unseen
  <2>. QED BY <1>1, <1>3, <1>8, <2>1, OneScreen
<1>9. ASSUME NEW d \in Device, LvglStep(d) \/ AckTimeout(d) \/ Wake(d) \/ PowerLoss(d)
      PROVE  [Exchange!Next]_(Exchange!exchangeVars)
  <2>1. CASE \/ Opened(d) \/ PollConnecting(d) \/ PollHandshake(d) \/ JudgeHandshake(d)
             \/ PollDone(d) \/ PollMoving(d) \/ Judge(d) \/ AckTimeout(d) \/ Close(d)
    <3>1. Goes(d) /\ (LvglStep(d) \/ AckTimeout(d))
      BY <1>1, <2>1, ScreenGoes DEF LvglStep
    <3>. QED BY <1>8, <3>1
  <2>2. CASE Finalize(d) \/ Record(d) \/ TakeRecord(d)
    BY <1>1, <2>2, CardIsPlaced, CardIsRemembered, RecordIsWithdrawn DEF Exchange!Next
  <2>3. CASE SaveMessage(d) \/ ShowMessage(d) \/ Boot(d) \/ Wake(d) \/ PowerLoss(d)
    BY <1>1, <2>3, OutcomeIsSaid, OutcomeIsShown, DeviceBoots, DeviceGoesDown DEF Exchange!Next
  <2>. QED BY <1>9, <2>1, <2>2, <2>3 DEF LvglStep
<1>10. [Exchange!Next]_(Exchange!exchangeVars)
  BY <1>4, <1>5, <1>6, <1>7, <1>9 DEF Next
<1>. QED BY <1>2, <1>10

\* Two devices that run TransferScreen carry out the exchange their users were promised,
\* whatever is cut, late, lost or fails: every step of theirs is a step of CardExchange or
\* one that the users do not see.
THEOREM DevicesImplementExchange == Spec => ImplementsExchange
<1>1. Init => Exchange!Init /\ EInv
  BY ExchangeInit
<1>2. EInv /\ [Next]_vars => EInv' /\ [Exchange!Next]_(Exchange!exchangeVars)
  BY ExchangeStep
<1>. QED BY <1>1, <1>2, PTL DEF Spec, ImplementsExchange, Exchange!Spec
=============================================================================
