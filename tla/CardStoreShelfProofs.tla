------------------------ MODULE CardStoreShelfProofs ------------------------
(***************************************************************************)
(* Proof that CardStore implements the shelf of CardShelf: every step of   *)
(* the slots and sectors is a step of the shelf or leaves it as it is.     *)
(***************************************************************************)
EXTENDS CardStoreShelf, CardStoreProofs

\* The slots with a valid header, and the last of them.
Valid(s) == {i \in Slots : s[i] \in Header}
LastOf(S) == CHOOSE i \in S : \A j \in S : j <= i
Remaining(s) == IF Valid(s) = {} THEN None ELSE s[LastOf(Valid(s))]

\* The last of some slots exists, and is the only one.
LEMMA LastOfIs ==
  ASSUME NEW S, S \subseteq Slots
  PROVE  /\ S # {} => LastOf(S) \in S /\ \A j \in S : j <= LastOf(S)
         /\ \A i \in S : (\A j \in S : j <= i) => LastOf(S) = i
<1>1. S \subseteq Nat /\ \A i \in S : i <= SlotCount
  BY StoreAssumption DEF Slots
<1>2. S # {} => \E i \in S : \A j \in S : j <= i
  BY <1>1, LastSlot, StoreAssumption
<1>3. S # {} => LastOf(S) \in S /\ \A j \in S : j <= LastOf(S)
  BY <1>2 DEF LastOf
<1>4. ASSUME NEW i \in S, \A j \in S : j <= i PROVE LastOf(S) = i
  <2>1. i <= LastOf(S) /\ LastOf(S) <= i /\ i \in Nat /\ LastOf(S) \in Nat
    BY <1>1, <1>3, <1>4
  <2>. QED BY <2>1
<1>. QED BY <1>3, <1>4

\* The last valid slot lists what is left.
LEMMA LeftIsListed == StoreInv => Left = Listed(Remaining(slot))
<1>. SUFFICES ASSUME StoreInv PROVE Left = Listed(Remaining(slot))
  OBVIOUS
<1>1. Left = Content(Remaining(slot))
  BY DEF Left, Remaining, Valid, LastOf
<1>2. CASE Valid(slot) = {}
  BY <1>1, <1>2, WholeIsListed DEF Remaining
<1>3. CASE Valid(slot) # {}
  <2>1. LastOf(Valid(slot)) \in Valid(slot)
    BY <1>3, LastOfIs DEF Valid
  <2>2. Remaining(slot) \in Header /\ Whole(Remaining(slot))
    BY <1>3, <2>1 DEF Remaining, Valid, StoreInv, SlotsAreWhole
  <2>. QED BY <1>1, <2>2, WholeIsListed
<1>. QED BY <1>2, <1>3

LEMMA NextLeftIsListed == StoreInv' => Left' = Listed(Remaining(slot'))
<1>1. StoreInv' => (Left = Listed(Remaining(slot)))'
  BY LeftIsListed, PTL
<1>. QED BY <1>1 DEF Listed, Remaining, Valid, LastOf

\* The shelf when no slot is valid.
LEMMA BareIsListed ==
  /\ Listed(None) = Shelf!Bare
  /\ \A s : Valid(s) = {} => Remaining(s) = None /\ Reload(s, SlotCount) = None
<1>1. Listed(None) = Shelf!Bare
  BY DEF Listed, Shelf!Bare
<1>2. ASSUME NEW s, Valid(s) = {} PROVE Remaining(s) = None /\ Reload(s, SlotCount) = None
  <2>1. Scanned(s, SlotCount) = {}
    BY <1>2 DEF Valid, Scanned, Slots
  <2>. QED BY <1>2, <2>1, ReloadAll DEF Remaining
<1>. QED BY <1>1, <1>2

\* A header that lists part of another lists each of its blobs or none.
LEMMA RestIsListed ==
  ASSUME NEW h \in Header, NEW g \in Header, Within(h, g)
  PROVE  Listed(h) \in Shelf!Rest(Listed(g)) /\ Listed(None) \in Shelf!Rest(Listed(g))
<1>1. h # None /\ g # None
  BY HeaderFacts
<1>2. \A b \in BlobId : Listed(h)[b] \in {Listed(g)[b], None}
  BY <1>1, HeaderFacts DEF Listed, Within
<1>3. Listed(h) \in [BlobId -> Cards \cup {None}]
  BY <1>1, HeaderFacts DEF Listed
<1>. QED BY <1>2, <1>3 DEF Shelf!Rest, Listed

\* Nothing is a rest of anything.
LEMMA NothingRemains == \A g : Listed(None) \in Shelf!Rest(Listed(g))
BY DEF Shelf!Rest, Listed

-----------------------------------------------------------------------------
(***************************************************************************)
(* The steps.                                                              *)
(***************************************************************************)

\* Steps that leave the slots alone leave the shelf alone.
LEMMA SameShelf ==
  ASSUME StoreInv, StoreInv', slot' = slot
  PROVE  Held' = Held /\ Left' = Left
BY SameHeld, LeftIsListed, NextLeftIsListed

\* The draft follows the index of the writer.
LEMMA DraftFacts ==
  /\ ~wr.active /\ StoreInv => Drafted = Shelf!Bare
  /\ wr'.blobs = wr.blobs => Drafted' = Drafted
  /\ wr'.blobs = EmptyHeader => Drafted' = Shelf!Bare
  /\ StoreInv => Drafted = Listed(wr.blobs)
<1>1. \A b \in BlobId : EmptyHeader[b].crc = None
  BY DEF EmptyHeader, NoBlob
<1>2. StoreInv => Drafted = Listed(wr.blobs)
  <2>. SUFFICES ASSUME StoreInv PROVE Drafted = Listed(wr.blobs)
    OBVIOUS
  <2>1. wr.blobs \in Header /\ wr.blobs # None
    BY HeaderFacts DEF StoreInv, TypeOK, WriterType
  <2>2. \A b \in BlobId : wr.blobs[b].n = 0 => wr.blobs[b].crc = None
    BY DEF StoreInv, WriterInv, Index, NoBlob
  <2>. QED BY <2>1, <2>2 DEF Drafted, Listed
<1>3. ~wr.active /\ StoreInv => Drafted = Shelf!Bare
  BY <1>1 DEF StoreInv, WriterInv, Drafted, Shelf!Bare
<1>4. wr'.blobs = EmptyHeader => Drafted' = Shelf!Bare
  BY <1>1 DEF Drafted, Shelf!Bare
<1>. QED BY <1>2, <1>3, <1>4 DEF Drafted

LEMMA ShelfInit == Init => Shelf!Init
<1>. SUFFICES ASSUME Init PROVE Shelf!Init
  OBVIOUS
<1>1. StoreInv
  BY InitInv
<1>2. Valid(slot) = {}
  BY HeaderFacts DEF Init, Valid
<1>3. Held = Shelf!Bare /\ Left = Shelf!Bare
  BY <1>1, <1>2, BareIsListed, HeldIsListed, LeftIsListed
<1>4. wr.active = FALSE /\ Drafted = Shelf!Bare
  BY <1>1, DraftFacts DEF Init, NoWriter
<1>. QED BY <1>3, <1>4 DEF Shelf!Init

LEMMA ShelfBegin == StoreInv /\ StoreInv' /\ Begin => Shelf!Clear
<1>. SUFFICES ASSUME StoreInv, StoreInv', Begin PROVE Shelf!Clear
  OBVIOUS
<1>1. Valid(slot') = {}
  BY HeaderFacts DEF Begin, Valid
<1>2. Held' = Shelf!Bare /\ Left' = Shelf!Bare
  BY <1>1, BareIsListed, NextHeldIsListed, NextLeftIsListed
<1>3. wr'.active = TRUE /\ wr'.blobs = EmptyHeader
  BY DEF Begin, NewWriter, NoWriter
<1>. QED BY <1>2, <1>3, DraftFacts DEF Shelf!Clear, Begin

LEMMA ShelfWrite ==
  ASSUME StoreInv, StoreInv', NEW c \in Cards, NEW b \in BlobId, wr.blobs[b].n = 0,
         WriteBlob(c, b)
  PROVE  Shelf!Put
<1>1. Held' = Held /\ Left' = Left
  BY SameShelf DEF WriteBlob
<1>2. wr.active /\ wr'.active = wr.active
  BY DEF StoreInv, TypeOK, WriterType, WriteBlob
<1>3. Drafted[b] = None
  BY DEF StoreInv, WriterInv, Index, NoBlob, Drafted
<1>4. Drafted' = [Drafted EXCEPT ![b] = c]
  <2>. DEFINE x == [at |-> wr.cursor, n |-> Size[c][b], crc |-> c]
  <2>1. x.crc = c
    OBVIOUS
  <2>2. wr'.blobs = [wr.blobs EXCEPT ![b] = x]
    BY DEF StoreInv, TypeOK, WriterType, WriteBlob
  <2>. HIDE DEF x
  <2>3. wr.blobs \in [BlobId -> Blob]
    BY DEF StoreInv, TypeOK, WriterType, Header
  <2>. QED BY <2>1, <2>2, <2>3 DEF Drafted
<1>. QED BY <1>1, <1>2, <1>3, <1>4 DEF Shelf!Put

LEMMA ShelfEnd ==
  ASSUME StoreInv, StoreInv', Abort \/ Destroy \/ PowerLoss
  PROVE  Shelf!Stop \/ UNCHANGED <<Held, Left, Drafted, wr.active>>
<1>1. slot' = slot /\ wr'.active = FALSE /\ wr'.blobs = EmptyHeader
  BY DEF Abort, Destroy, PowerLoss, NoWriter
<1>2. Held' = Held /\ Left' = Left /\ Drafted' = Shelf!Bare
  BY <1>1, SameShelf, DraftFacts
<1>3. CASE wr.active
  BY <1>1, <1>2, <1>3 DEF Shelf!Stop
<1>4. CASE ~wr.active
  <2>1. wr.active = FALSE
    BY <1>4 DEF StoreInv, TypeOK, WriterType
  <2>. QED BY <1>1, <1>2, <2>1, <1>4, DraftFacts
<1>. QED BY <1>3, <1>4
\* What a store holds once mounted is some of what is left in it.
LEMMA HeldIsRest == StoreInv => Held \in Shelf!Rest(Left)
<1>. SUFFICES ASSUME StoreInv PROVE Held \in Shelf!Rest(Left)
  OBVIOUS
<1>1. CASE Scanned(slot, SlotCount) = {}
  BY <1>1, ReloadAll, HeldIsListed, LeftIsListed, NothingRemains
<1>2. CASE Scanned(slot, SlotCount) # {}
  <2>1. PICK i \in Slots : /\ IsLast(slot, i) /\ Reload(slot, SlotCount) = slot[i]
                           /\ slot[i] \in Header
    BY <1>2, ReloadAll
  <2>. DEFINE l == LastOf(Valid(slot))
  <2>2. i \in Valid(slot) /\ l \in Valid(slot) /\ i <= l
    BY <2>1, LastOfIs DEF Valid
  <2>3. Within(slot[i], slot[l])
    BY <2>2 DEF Valid, StoreInv, SlotsGrow, Within, Slots
  <2>4. Remaining(slot) = slot[l]
    BY <2>2 DEF Remaining
  <2>. QED BY <2>1, <2>2, <2>3, <2>4, RestIsListed, HeldIsListed, LeftIsListed DEF Valid
<1>. QED BY <1>1, <1>2

LEMMA NextHeldIsRest == StoreInv' => Held' \in Shelf!Rest(Left')
<1>1. StoreInv' => (Held \in Shelf!Rest(Left))'
  BY HeldIsRest, PTL
<1>. QED BY <1>1 DEF Shelf!Rest

LEMMA ShelfBeginFails == StoreInv /\ StoreInv' /\ BeginFails => Shelf!ClearFails
<1>. SUFFICES ASSUME StoreInv, StoreInv', BeginFails PROVE Shelf!ClearFails
  OBVIOUS
<1>1. Left' \in Shelf!Rest(Left)
  <2>1. CASE Valid(slot') = {}
    BY <2>1, BareIsListed, LeftIsListed, NextLeftIsListed, NothingRemains
  <2>2. CASE Valid(slot') # {}
    <3>. DEFINE i == LastOf(Valid(slot'))
                l == LastOf(Valid(slot))
    <3>1. i \in Valid(slot') /\ Remaining(slot') = slot'[i]
      BY <2>2, LastOfIs DEF Valid, Remaining
    <3>2. i \in Valid(slot) /\ slot'[i] = slot[i]
      BY <3>1, BeginFailsSlots DEF Valid
    <3>3. l \in Valid(slot) /\ i <= l
      BY <3>2, LastOfIs DEF Valid
    <3>. HIDE DEF i, l
    <3>4. Within(slot[i], slot[l])
      BY <3>2, <3>3 DEF Valid, StoreInv, SlotsGrow, Within, Slots
    <3>5. Remaining(slot) = slot[l]
      BY <3>3 DEF Remaining, l
    <3>. QED BY <3>1, <3>2, <3>3, <3>4, <3>5, RestIsListed, LeftIsListed, NextLeftIsListed DEF Valid
  <2>. QED BY <2>1, <2>2
<1>2. ~wr.active /\ wr'.active = wr.active /\ Drafted' = Drafted
  BY DraftFacts DEF BeginFails
<1>. QED BY <1>1, <1>2, NextHeldIsRest DEF Shelf!ClearFails

LEMMA ShelfCommit ==
  ASSUME StoreInv, StoreInv', wr.ok, Commit \/ CommitFails
  PROVE  Shelf!Publish \/ UNCHANGED <<Held, Left, Drafted, wr.active>>
<1>. DEFINE k == wr.slot
<1>1. /\ k \in Slots /\ k \in Nat /\ wr.active /\ slot \in [Slots -> SlotState]
      /\ \A i \in Slots : i \in Nat
      /\ \A i \in Slots : i >= k => slot[i] = Erased
      /\ \A i \in Slots : i < k => slot[i] \in Header
  BY StoreAssumption DEF StoreInv, TypeOK, WriterType, WriterInv, SlotState, Commit, CommitFails, Slots
<1>2. PICK s \in {Erased, Junk, wr.blobs} : slot' = [slot EXCEPT ![k] = s]
  BY DEF Commit, CommitFails
<1>3. wr'.active = wr.active /\ Drafted' = Drafted
  BY DraftFacts DEF StoreInv, TypeOK, WriterType, Commit, CommitFails
<1>. HIDE DEF k
<1>4. slot'[k] = s /\ \A i \in Slots : i # k => slot'[i] = slot[i]
  BY <1>1, <1>2
<1>5. CASE s = Erased
  <2>1. slot' = slot
    BY <1>1, <1>2, <1>5 DEF SlotState
  <2>. QED BY <1>3, <2>1, SameShelf
<1>6. CASE s = Junk
  <2>1. Valid(slot') = Valid(slot)
    <3>1. slot[k] \notin Header /\ slot'[k] \notin Header
      BY <1>1, <1>4, <1>6, HeaderFacts
    <3>2. \A i \in Slots : slot'[i] \in Header <=> slot[i] \in Header
      BY <1>4, <3>1
    <3>. QED BY <3>2 DEF Valid
  <2>2. Scanned(slot', SlotCount) = Scanned(slot, SlotCount)
    <3>1. \A i \in Slots : i > k => slot[i] \notin Header /\ slot'[i] \notin Header
      BY <1>1, <1>4, HeaderFacts
    <3>2. slot[k] \notin Header /\ slot'[k] \notin Header
      BY <1>1, <1>4, <1>6, HeaderFacts
    <3>3. ASSUME NEW i \in Slots, i < k
          PROVE  i \in Scanned(slot', SlotCount) /\ i \in Scanned(slot, SlotCount)
      <4>1. \A j \in 1 .. i : j \in Slots /\ j < k /\ j # k
        BY <1>1, <3>3, StoreAssumption DEF Slots
      <4>2. slot'[i] = slot[i] /\ slot[i] \in Header /\ i \in 1 .. SlotCount
        BY <1>1, <1>4, <3>3 DEF Slots
      <4>. QED BY <1>1, <1>4, <4>1, <4>2, HeaderFacts DEF Scanned
    <3>4. \A i \in Slots : i < k \/ i = k \/ i > k
      BY <1>1
    <3>5. \A i : i \in Scanned(slot, SlotCount) => i \in Slots /\ slot[i] \in Header
      BY DEF Scanned, Slots
    <3>6. \A i : i \in Scanned(slot', SlotCount) => i \in Slots /\ slot'[i] \in Header
      BY DEF Scanned, Slots
    <3>. QED BY <3>1, <3>2, <3>3, <3>4, <3>5, <3>6
  <2>3. Remaining(slot') = Remaining(slot)
    <3>1. Valid(slot) # {} => LastOf(Valid(slot)) \in Valid(slot)
      BY LastOfIs DEF Valid
    <3>2. \A i \in Valid(slot) : slot'[i] = slot[i]
      BY <1>1, <1>4, HeaderFacts DEF Valid
    <3>. QED BY <2>1, <3>1, <3>2 DEF Remaining
  <2>4. Reload(slot', SlotCount) = Reload(slot, SlotCount)
    <3>1. CASE Scanned(slot, SlotCount) = {}
      BY <2>2, <3>1, ReloadAll
    <3>2. CASE Scanned(slot, SlotCount) # {}
      <4>1. PICK i \in Slots : IsLast(slot, i) /\ Reload(slot, SlotCount) = slot[i] /\ slot[i] \in Header
        BY <3>2, ReloadAll
      <4>2. IsLast(slot', i) /\ slot'[i] = slot[i]
        BY <1>1, <1>4, <2>2, <4>1, HeaderFacts DEF IsLast
      <4>. QED BY <4>1, <4>2, LastIsOne
    <3>. QED BY <3>1, <3>2
  <2>. QED BY <1>3, <2>3, <2>4, HeldIsListed, NextHeldIsListed, LeftIsListed, NextLeftIsListed
<1>7. CASE s = wr.blobs
  <2>1. wr.blobs \in Header
    BY DEF StoreInv, TypeOK, WriterType
  <2>2. k \in Valid(slot') /\ \A i \in Valid(slot') : i <= k
    BY <1>1, <1>4, <1>7, <2>1, HeaderFacts DEF Valid
  <2>3. IsLast(slot', k)
    <3>1. \A j \in 1 .. k : slot'[j] # Erased /\ j \in Slots
      <4>1. \A j \in 1 .. k : j \in Slots /\ (j = k \/ j < k)
        BY <1>1, StoreAssumption DEF Slots
      <4>. QED BY <1>1, <1>4, <1>7, <2>1, <4>1, HeaderFacts
    <3>2. \A j \in Scanned(slot', SlotCount) : j \in Valid(slot')
      BY DEF Scanned, Valid, Slots
    <3>. QED BY <1>1, <2>2, <3>1, <3>2 DEF IsLast, Scanned, Valid, Slots
  <2>4. Reload(slot', SlotCount) = wr.blobs
    BY <1>1, <1>4, <1>7, <2>3, LastIsOne
  <2>5. Remaining(slot') = wr.blobs
    BY <1>1, <1>4, <1>7, <2>2, LastOfIs DEF Remaining, Valid
  <2>6. Held' = Drafted /\ Left' = Drafted
    BY <2>4, <2>5, NextHeldIsListed, NextLeftIsListed, DraftFacts
  <2>. QED BY <1>1, <1>3, <2>6 DEF Shelf!Publish
<1>. QED BY <1>2, <1>5, <1>6, <1>7

-----------------------------------------------------------------------------
LEMMA ShelfStep == StoreInv /\ StoreInv' /\ [Next]_storeVars => [Shelf!Next]_(Shelf!shelfVars)
<1>. SUFFICES ASSUME StoreInv, StoreInv', [Next]_storeVars
              PROVE  Shelf!Next \/ UNCHANGED <<Held, Left, Drafted, wr.active>>
  BY DEF Shelf!shelfVars
<1>1. CASE Write
  <2>1. PICK c \in Cards, b \in BlobId :
          wr.blobs[b].n = 0 /\ (WriteBlob(c, b) \/ WriteFails(c, b))
    BY <1>1 DEF Write
  <2>2. CASE WriteBlob(c, b)
    BY <2>1, <2>2, ShelfWrite DEF Shelf!Next
  <2>3. CASE WriteFails(c, b)
    <3>1. slot' = slot /\ wr'.blobs = wr.blobs /\ wr'.active = wr.active
      BY <2>3 DEF WriteFails, StoreInv, TypeOK, WriterType
    <3>. QED BY <3>1, SameShelf, DraftFacts
  <2>. QED BY <2>1, <2>2, <2>3
<1>2. CASE Mount \/ UNCHANGED storeVars
  <2>1. slot' = slot /\ wr' = wr
    BY <1>2 DEF Mount, storeVars
  <2>. QED BY <2>1, SameShelf, DraftFacts
<1>3. CASE Begin \/ BeginFails
  BY <1>3, ShelfBegin, ShelfBeginFails DEF Shelf!Next
<1>4. CASE wr.ok /\ (Commit \/ CommitFails)
  BY <1>4, ShelfCommit DEF Shelf!Next
<1>5. CASE Abort \/ Destroy \/ PowerLoss
  BY <1>5, ShelfEnd DEF Shelf!Next
<1>. QED BY <1>1, <1>2, <1>3, <1>4, <1>5 DEF Next

\* Replacing a card never shows a reader a mixture, a half written blob or an older
\* state than the last one published, whatever fails and whenever the power goes.
THEOREM StoreImplementsShelf == Spec => ImplementsShelf
<1>1. Spec => [][Shelf!Next]_(Shelf!shelfVars)
  BY ShelfStep, StoreInvariant, PTL DEF Spec
<1>2. Spec => Shelf!Init
  BY ShelfInit DEF Spec
<1>. QED BY <1>1, <1>2, PTL DEF ImplementsShelf, Shelf!Spec

=============================================================================
