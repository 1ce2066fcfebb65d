-------------------------- MODULE CardStoreProofs ---------------------------
(***************************************************************************)
(* Proofs about CardStore, for every partition, every set of cards and     *)
(* every number of header slots: StoreInv is inductive, and the properties *)
(* of the store follow from it.                                            *)
(***************************************************************************)
EXTENDS CardStore, WellFoundedInduction, TLAPS

SlotState == Header \cup {Erased, Junk}

-----------------------------------------------------------------------------
(***************************************************************************)
(* What a reader takes.                                                    *)
(***************************************************************************)

\* A non-empty set of slot numbers has a last one.
LEMMA LastSlot ==
  ASSUME NEW S, S \subseteq Nat, S # {}, NEW n \in Nat, \A i \in S : i <= n
  PROVE  \E i \in S : \A j \in S : j <= i
<1>. DEFINE R == OpToRel(<, Nat)
            T == {m \in Nat : n - m \in S}
<1>1. T # {}
  <2>1. PICK i \in S : TRUE
    OBVIOUS
  <2>2. n - i \in Nat /\ n - (n - i) = i
    BY <2>1
  <2>. QED BY <2>1, <2>2
<1>2. IsWellFoundedOn(R, Nat)
  BY NatLessThanWellFounded
<1>3. \A k, m \in Nat : k < m => <<k, m>> \in R
  BY DEF OpToRel
<1>. HIDE DEF R
<1>4. PICK m \in T : \A k \in T : ~(<<k, m>> \in R)
  BY <1>1, <1>2, WFMin
<1>5. \A k \in T : m <= k
  <2>1. TAKE k \in T
  <2>2. k \in Nat /\ m \in Nat
    BY <1>4
  <2>3. ~(k < m)
    <3>1. <<k, m>> \notin R
      BY <1>4
    <3>. QED BY <1>3, <2>2, <3>1
  <2>. QED BY <2>2, <2>3
<1>6. \A j \in S : j <= n - m
  <2>1. TAKE j \in S
  <2>2. j \in Nat /\ n - j \in Nat /\ n - (n - j) = j
    OBVIOUS
  <2>3. m <= n - j
    BY <1>5, <2>2
  <2>. QED BY <2>2, <2>3, <1>4
<1>. QED BY <1>4, <1>6

\* The header a reader takes is that of some slot.
LEMMA ReloadTakesSlot ==
  ASSUME NEW s \in [Slots -> SlotState], NEW r \in Reloads(s)
  PROVE  r # None => r \in Header /\ \E i \in Slots : s[i] = r
<1>1. PICK k \in 0 .. SlotCount : r = Reload(s, k)
  BY DEF Reloads
<1>2. CASE Scanned(s, k) = {}
  BY <1>1, <1>2 DEF Reload
<1>3. CASE Scanned(s, k) # {}
  <2>1. Scanned(s, k) \subseteq 1 .. k /\ k \in Nat /\ k <= SlotCount
    BY StoreAssumption DEF Scanned
  <2>2. \E i \in Scanned(s, k) : \A j \in Scanned(s, k) : j <= i
    BY <2>1, <1>3, LastSlot
  <2>3. LastValid(s, k) \in Scanned(s, k)
    BY <2>2 DEF LastValid
  <2>4. LastValid(s, k) \in Slots /\ s[LastValid(s, k)] \in Header
    BY <2>1, <2>3, StoreAssumption DEF Scanned, Slots
  <2>. QED BY <1>1, <1>3, <2>4 DEF Reload
<1>. QED BY <1>2, <1>3

\* What Partly leaves at each place.
LEMMA PartlyIs ==
  ASSUME NEW D, NEW V, NEW old \in [D -> V], NEW new, NEW S, NEW x \in Partly(old, new, S)
  PROVE  /\ DOMAIN x = D
         /\ x = [i \in D |-> x[i]]
         /\ \A i \in D : x[i] \in {old[i], new[i], Junk}
         /\ \A i \in D : i \notin S => x[i] = old[i]
  BY DEF Partly
-----------------------------------------------------------------------------
(***************************************************************************)
(* Blobs in the flash.                                                     *)
(***************************************************************************)

\* Stands and Whole over any contents of the data area.
StandsIn(c, x, b) ==
  /\ x.crc \in Cards /\ x.n = Size[x.crc][b]
  /\ x.at > 0 /\ x.at + x.n - 1 <= Sectors
  /\ \A i \in Extent(x) : c[i] = <<x.crc, b, i - x.at>>

WholeIn(c, h) == \A b \in BlobId : h[b].n > 0 => StandsIn(c, h[b], b)

\* The invariants that speak of blobs, over what the flash holds before and after.
LEMMA WholeIsIn ==
  /\ SlotsAreWhole <=> \A i \in Slots : slot[i] \in Header => WholeIn(cell, slot[i])
  /\ SlotsAreWhole' <=> \A i \in Slots : slot'[i] \in Header => WholeIn(cell', slot'[i])
  /\ CacheIsWhole <=> (hdr # None => WholeIn(cell, hdr) /\ \E i \in Slots : slot[i] = hdr)
  /\ CacheIsWhole' <=> (hdr' # None => WholeIn(cell', hdr') /\ \E i \in Slots : slot'[i] = hdr')
  /\ Whole(wr.blobs) <=> WholeIn(cell, wr.blobs)
  /\ Whole(wr.blobs)' <=> WholeIn(cell', wr'.blobs)
  BY DEF SlotsAreWhole, CacheIsWhole, Whole, Stands, WholeIn, StandsIn

\* A blob stays when none of its sectors is written.
LEMMA StandsFrame ==
  ASSUME NEW c, NEW d, NEW x, NEW b, StandsIn(c, x, b), \A i \in Extent(x) : d[i] = c[i]
  PROVE  StandsIn(d, x, b)
  BY DEF StandsIn

\* The values of the data type of a header.
LEMMA HeaderFacts ==
  /\ EmptyHeader \in Header
  /\ \A h \in Header, b \in BlobId :
       /\ h[b] \in Blob
       /\ h[b].at \in Nat /\ h[b].n \in Nat /\ h[b].crc \in Cards \cup {None}
  /\ \A b \in BlobId : EmptyHeader[b] = NoBlob /\ NoBlob.n = 0
  /\ Erased \notin Header /\ Junk \notin Header /\ None \notin Header
  BY MarkAssumption DEF EmptyHeader, Header, Blob, NoBlob

\* A header cache read from slots that list whole blobs only is whole.
LEMMA CacheReloaded ==
  ASSUME slot' \in [Slots -> SlotState], SlotsAreWhole', hdr' \in Reloads(slot')
  PROVE  hdr' \in Header \cup {None} /\ CacheIsWhole'
<1>1. hdr' # None => hdr' \in Header /\ \E i \in Slots : slot'[i] = hdr'
  BY ReloadTakesSlot
<1>. QED BY <1>1, WholeIsIn

\* Nothing was written: only the writer and the cache may have changed.
LEMMA SameFlash ==
  ASSUME StoreInv, UNCHANGED <<slot, cell>>
  PROVE  /\ slot' \in [Slots -> SlotState]
         /\ SlotsAreWhole' /\ SlotsAreIndexed' /\ SlotsGrow'
<1>1. SlotsAreWhole'
  BY WholeIsIn DEF StoreInv
<1>2. SlotsAreIndexed' /\ SlotsGrow'
  BY DEF StoreInv, SlotsAreIndexed, SlotsGrow, Index, Within
<1>. QED BY <1>1, <1>2 DEF StoreInv, TypeOK, WriterType, SlotState
-----------------------------------------------------------------------------
(***************************************************************************)
(* StoreInv is inductive: one lemma for each kind of step.                 *)
(***************************************************************************)

LEMMA InitInv == Init => StoreInv
<1>. SUFFICES ASSUME Init PROVE StoreInv
  OBVIOUS
<1>1. TypeOK
  BY HeaderFacts DEF Init, TypeOK, WriterType, NoWriter
<1>2. SlotsAreWhole /\ SlotsAreIndexed /\ SlotsGrow
  BY HeaderFacts DEF Init, SlotsAreWhole, SlotsAreIndexed, SlotsGrow
<1>3. CacheIsWhole
  BY DEF Init, CacheIsWhole
<1>4. WriterInv
  BY HeaderFacts DEF Init, WriterInv, NoWriter, Index
<1>. QED BY <1>1, <1>2, <1>3, <1>4 DEF StoreInv

LEMMA MountInv == StoreInv /\ Mount => StoreInv'
<1>. SUFFICES ASSUME StoreInv, Mount PROVE StoreInv'
  OBVIOUS
<1>1. SlotsAreWhole' /\ SlotsAreIndexed' /\ SlotsGrow' /\ slot' \in [Slots -> SlotState]
  BY SameFlash DEF Mount
<1>2. hdr' \in Header \cup {None} /\ CacheIsWhole'
  BY <1>1, CacheReloaded DEF Mount
<1>3. TypeOK'
  BY <1>2 DEF StoreInv, TypeOK, WriterType, Mount
<1>4. WriterInv'
  BY DEF StoreInv, WriterInv, Mount, Index, Within, Whole, Stands
<1>. QED BY <1>1, <1>2, <1>3, <1>4 DEF StoreInv

LEMMA BeginInv == StoreInv /\ Begin => StoreInv'
<1>. SUFFICES ASSUME StoreInv, Begin PROVE StoreInv'
  OBVIOUS
<1>1. \A i \in Slots : slot'[i] = Erased /\ slot'[i] \notin Header
  BY HeaderFacts DEF Begin
<1>2. TypeOK'
  BY HeaderFacts DEF StoreInv, TypeOK, WriterType, Begin, NewWriter, NoWriter
<1>3. SlotsAreWhole' /\ SlotsAreIndexed' /\ SlotsGrow' /\ CacheIsWhole'
  BY <1>1 DEF SlotsAreWhole, SlotsAreIndexed, SlotsGrow, CacheIsWhole, Begin
<1>4. /\ wr'.blobs = EmptyHeader /\ wr'.cursor = 1 /\ wr'.slot = 1
  BY DEF Begin, NewWriter, NoWriter
<1>5. WriterInv'
  <2>1. Whole(wr.blobs)'
    BY <1>4, HeaderFacts, WholeIsIn DEF WholeIn
  <2>2. Index(wr.blobs)' /\ wr'.active
    BY <1>4, HeaderFacts DEF Index, Begin, NewWriter, NoWriter
  <2>3. \A i \in Slots : ~(i < 1)
    BY DEF Slots
  <2>. QED BY <1>1, <1>4, <2>1, <2>2, <2>3, HeaderFacts DEF WriterInv
<1>. QED BY <1>2, <1>3, <1>5 DEF StoreInv

\* An erase of the header sector that fails leaves, of each slot, nothing new.
LEMMA BeginFailsSlots ==
  ASSUME StoreInv, BeginFails
  PROVE  /\ slot' \in [Slots -> SlotState]
         /\ \A i \in Slots : slot'[i] \in Header => slot'[i] = slot[i]
<1>1. slot \in [Slots -> SlotState]
  BY DEF StoreInv, TypeOK, WriterType, SlotState
<1>. DEFINE e == [i \in Slots |-> Erased]
<1>2. \A i \in Slots : e[i] = Erased
  OBVIOUS
<1>3. slot' \in Partly(slot, e, Slots)
  BY DEF BeginFails
<1>. HIDE DEF e
<1>4. /\ slot' = [i \in Slots |-> slot'[i]]
      /\ \A i \in Slots : slot'[i] \in {slot[i], e[i], Junk}
  BY <1>1, <1>3, PartlyIs
<1>5. \A i \in Slots : slot'[i] \in {slot[i], Erased, Junk}
  BY <1>2, <1>4
<1>. QED BY <1>1, <1>4, <1>5, HeaderFacts DEF SlotState

LEMMA BeginFailsInv == StoreInv /\ BeginFails => StoreInv'
<1>. SUFFICES ASSUME StoreInv, BeginFails PROVE StoreInv'
  OBVIOUS
<1>1. /\ slot' \in [Slots -> SlotState]
      /\ \A i \in Slots : slot'[i] \in Header => slot'[i] = slot[i]
  BY BeginFailsSlots
<1>2. TypeOK'
  BY <1>1 DEF StoreInv, TypeOK, WriterType, BeginFails, SlotState
<1>3. SlotsAreWhole' /\ CacheIsWhole'
  BY <1>1, WholeIsIn DEF StoreInv, BeginFails
<1>4. SlotsAreIndexed' /\ SlotsGrow'
  BY <1>1 DEF StoreInv, SlotsAreIndexed, SlotsGrow, Index, Within
<1>5. WriterInv'
  BY DEF StoreInv, WriterInv, BeginFails, Index
<1>. QED BY <1>2, <1>3, <1>4, <1>5 DEF StoreInv

LEMMA EndInv == StoreInv /\ (Abort \/ Destroy \/ PowerLoss) => StoreInv'
<1>. SUFFICES ASSUME StoreInv, Abort \/ Destroy \/ PowerLoss PROVE StoreInv'
  OBVIOUS
<1>1. SlotsAreWhole' /\ SlotsAreIndexed' /\ SlotsGrow' /\ slot' \in [Slots -> SlotState]
  BY SameFlash DEF Abort, Destroy, PowerLoss
<1>2. hdr' \in Header \cup {None} /\ CacheIsWhole'
  <2>1. CASE Abort
    BY <1>1, <2>1, CacheReloaded DEF Abort
  <2>2. CASE Destroy
    BY <2>2, WholeIsIn DEF StoreInv, TypeOK, WriterType, Destroy
  <2>3. CASE PowerLoss
    BY <2>3 DEF CacheIsWhole, PowerLoss
  <2>. QED BY <2>1, <2>2, <2>3
<1>3. wr' = NoWriter /\ UNCHANGED <<slot, cell>>
  BY DEF Abort, Destroy, PowerLoss
<1>4. TypeOK'
  BY <1>2, <1>3, HeaderFacts DEF StoreInv, TypeOK, WriterType, NoWriter
<1>5. WriterInv'
  BY <1>3, HeaderFacts DEF WriterInv, NoWriter, Index
<1>. QED BY <1>1, <1>2, <1>4, <1>5 DEF StoreInv

\* A sector below the cursor is left alone, whatever becomes of those above.
Below(c, d, n) == \A i \in DataArea : i < n => d[i] = c[i]

\* What a slot lists, or the writer wrote, lies below the cursor of an active writer.
LEMMA BlobsBelow ==
  ASSUME StoreInv, wr.active, NEW h \in Header, Within(h, wr.blobs), NEW b \in BlobId, h[b].n > 0
  PROVE  h[b].at + h[b].n <= wr.cursor /\ h[b].at \in Nat /\ h[b].n \in Nat /\ wr.cursor \in Nat
<1>1. h[b] = wr.blobs[b]
  BY DEF Within
<1>2. wr.cursor \in Nat /\ wr.blobs \in Header
  BY DEF StoreInv, TypeOK, WriterType
<1>3. wr.blobs[b].at + wr.blobs[b].n <= wr.cursor
  BY <1>1 DEF StoreInv, WriterInv
<1>. QED BY <1>1, <1>2, <1>3, HeaderFacts

\* A write at the cursor leaves the slots, the cache and the blobs of the writer whole.
LEMMA WriteKeepsWhole ==
  ASSUME StoreInv, wr.active, UNCHANGED <<slot, hdr>>, Below(cell, cell', wr.cursor)
  PROVE  /\ SlotsAreWhole' /\ SlotsAreIndexed' /\ SlotsGrow' /\ CacheIsWhole'
         /\ WholeIn(cell', wr.blobs)
<1>1. \A h \in Header : Within(h, wr.blobs) /\ WholeIn(cell, h) => WholeIn(cell', h)
  <2>. SUFFICES ASSUME NEW h \in Header, Within(h, wr.blobs), WholeIn(cell, h),
                       NEW b \in BlobId, h[b].n > 0
                PROVE  StandsIn(cell', h[b], b)
    BY DEF WholeIn
  <2>1. StandsIn(cell, h[b], b)
    BY DEF WholeIn
  <2>2. \A i \in Extent(h[b]) : i \in DataArea /\ i < wr.cursor
    BY <2>1, BlobsBelow, StoreAssumption DEF Extent, DataArea, StandsIn
  <2>3. \A i \in Extent(h[b]) : cell'[i] = cell[i]
    BY <2>2 DEF Below
  <2>. QED BY <2>1, <2>3, StandsFrame
<1>2. \A i \in Slots : slot[i] \in Header => Within(slot[i], wr.blobs) /\ WholeIn(cell, slot[i])
  BY WholeIsIn DEF StoreInv, WriterInv
<1>3. SlotsAreWhole' /\ CacheIsWhole'
  <2>1. hdr # None => \E i \in Slots : slot[i] = hdr /\ slot[i] \in Header
    BY WholeIsIn DEF StoreInv, TypeOK, WriterType
  <2>. QED BY <1>1, <1>2, <2>1, WholeIsIn
<1>4. SlotsAreIndexed' /\ SlotsGrow'
  BY DEF StoreInv, SlotsAreIndexed, SlotsGrow, Index, Within
<1>5. WholeIn(cell', wr.blobs)
  <2>1. wr.blobs \in Header /\ Within(wr.blobs, wr.blobs) /\ WholeIn(cell, wr.blobs)
    BY WholeIsIn DEF StoreInv, TypeOK, WriterType, WriterInv, Within
  <2>. QED BY <1>1, <2>1
<1>. QED BY <1>3, <1>4, <1>5

\* The writers that a blob written and a commit make of a writer.
LEMMA WriterUpdates ==
  ASSUME NEW w \in WriterType, NEW h \in Header, NEW n \in Nat
  PROVE  /\ [w EXCEPT !.blobs = h, !.cursor = n] \in WriterType
         /\ [w EXCEPT !.slot = n] \in WriterType
         /\ [w EXCEPT !.slot = n, !.ok = FALSE] \in WriterType
  BY DEF WriterType

LEMMA WriteBlobInv ==
  ASSUME StoreInv, NEW c \in Cards, NEW b \in BlobId, wr.blobs[b].n = 0, WriteBlob(c, b)
  PROVE  StoreInv'
<1>. DEFINE n == Size[c][b]
            x == [at |-> wr.cursor, n |-> n, crc |-> c]
<1>1. /\ wr.cursor \in Nat /\ wr.cursor > 0 /\ wr.blobs \in Header /\ wr.slot \in Nat
      /\ wr.active \in BOOLEAN /\ wr.ok \in BOOLEAN
      /\ n \in Nat /\ n > 0 /\ wr.cursor + n - 1 <= Sectors /\ Sectors \in Nat
  BY StoreAssumption DEF StoreInv, TypeOK, WriterType, WriterInv, WriteBlob
<1>2. x \in Blob /\ x.at = wr.cursor /\ x.n = n /\ x.crc = c
  BY <1>1 DEF Blob
<1>3. /\ wr' = [wr EXCEPT !.blobs[b] = x, !.cursor = @ + n]
      /\ cell' = Stored(c, b, wr.cursor)
      /\ wr.active /\ UNCHANGED <<slot, hdr>>
  BY DEF WriteBlob
<1>4. \A i \in DataArea : /\ i < wr.cursor => cell'[i] = cell[i]
                          /\ i \in wr.cursor .. wr.cursor + n - 1 => cell'[i] = <<c, b, i - wr.cursor>>
  BY <1>1, <1>3 DEF Stored, DataArea
<1>. HIDE DEF n, x
<1>5. /\ wr'.blobs = [wr.blobs EXCEPT ![b] = x] /\ wr'.cursor = wr.cursor + n
      /\ wr'.active = wr.active /\ wr'.ok = wr.ok /\ wr'.slot = wr.slot
      /\ wr' \in WriterType
  <2>1. wr \in WriterType
    BY DEF StoreInv, TypeOK
  <2>2. [wr.blobs EXCEPT ![b] = x] \in Header
    BY <1>1, <1>2 DEF Header
  <2>3. /\ wr'.blobs = [wr.blobs EXCEPT ![b] = x] /\ wr'.cursor = wr.cursor + n
        /\ wr'.active = wr.active /\ wr'.ok = wr.ok /\ wr'.slot = wr.slot
        /\ wr' = [wr EXCEPT !.blobs = [wr.blobs EXCEPT ![b] = x], !.cursor = wr.cursor + n]
    BY <1>3, <2>1 DEF WriterType
  <2>4. wr.cursor + n \in Nat
    BY <1>1
  <2>5. wr' \in WriterType
    BY <2>1, <2>2, <2>3, <2>4, WriterUpdates
  <2>. QED BY <2>3, <2>5
<1>6. wr'.blobs[b] = x /\ \A d \in BlobId : d # b => wr'.blobs[d] = wr.blobs[d]
  BY <1>1, <1>5 DEF Header
<1>7. TypeOK'
  <2>1. cell' \in [DataArea -> (Cards \X BlobId \X Nat) \cup {Junk}]
    BY <1>1, <1>3 DEF StoreInv, TypeOK, WriterType, Stored, DataArea, n
  <2>. QED BY <1>3, <1>5, <2>1 DEF StoreInv, TypeOK, WriterType
<1>8. /\ SlotsAreWhole' /\ SlotsAreIndexed' /\ SlotsGrow' /\ CacheIsWhole'
      /\ WholeIn(cell', wr.blobs)
  BY <1>3, <1>4, WriteKeepsWhole DEF Below
<1>9. WholeIn(cell', wr'.blobs)
  <2>1. StandsIn(cell', x, b)
    BY <1>1, <1>2, <1>4 DEF StandsIn, Extent, DataArea, n
  <2>. QED BY <1>6, <1>8, <2>1 DEF WholeIn
<1>10. WriterInv'
  <2>1. Index(wr.blobs)'
    BY <1>1, <1>2, <1>6 DEF Index, StoreInv, WriterInv
  <2>2. ASSUME NEW d \in BlobId, wr'.blobs[d].n > 0
        PROVE  wr'.blobs[d].at + wr'.blobs[d].n <= wr'.cursor
    <3>1. CASE d = b
      BY <1>1, <1>2, <1>5, <1>6, <3>1
    <3>2. CASE d # b
      <4>1. wr.blobs[d].at \in Nat /\ wr.blobs[d].n \in Nat
        BY <1>1, HeaderFacts
      <4>2. wr.blobs[d].at + wr.blobs[d].n <= wr.cursor
        BY <1>3, <1>6, <2>2, <3>2 DEF StoreInv, WriterInv
      <4>. QED BY <1>1, <1>5, <1>6, <3>2, <4>1, <4>2
    <3>. QED BY <3>1, <3>2
  <2>3. \A i \in Slots : slot'[i] \in Header => Within(slot'[i], wr'.blobs)
    <3>. SUFFICES ASSUME NEW i \in Slots, slot[i] \in Header, NEW d \in BlobId, slot[i][d].n > 0
                  PROVE  slot[i][d] = wr'.blobs[d]
      BY <1>3 DEF Within
    <3>1. slot[i][d] = wr.blobs[d]
      BY <1>3 DEF StoreInv, WriterInv, Within
    <3>2. d # b
      BY <3>1
    <3>. QED BY <3>1, <3>2, <1>6
  <2>4. /\ \A i \in Slots : i >= wr'.slot => slot'[i] = Erased
        /\ wr'.ok => \A i \in Slots : i < wr'.slot => slot'[i] \in Header
        /\ wr'.cursor > 0 /\ wr'.slot > 0
    BY <1>1, <1>3, <1>5 DEF StoreInv, WriterInv
  <2>. QED BY <1>3, <1>5, <1>9, <2>1, <2>2, <2>3, <2>4, WholeIsIn DEF WriterInv
<1>. QED BY <1>7, <1>8, <1>10 DEF StoreInv

LEMMA WriteFailsInv ==
  ASSUME StoreInv, NEW c \in Cards, NEW b \in BlobId, WriteFails(c, b)
  PROVE  StoreInv'
<1>. DEFINE n == Size[c][b]
            S == wr.cursor .. wr.cursor + n - 1
<1>1. /\ wr.cursor \in Nat /\ wr.cursor > 0 /\ wr.blobs \in Header /\ wr.slot \in Nat
      /\ wr.active /\ wr.active \in BOOLEAN /\ n \in Nat /\ Sectors \in Nat
  BY StoreAssumption DEF StoreInv, TypeOK, WriterType, WriterInv, WriteFails
<1>2. /\ wr'.blobs = wr.blobs /\ wr'.cursor = wr.cursor /\ wr'.slot = wr.slot
      /\ wr'.active = wr.active /\ wr'.ok = FALSE
      /\ wr' \in WriterType
      /\ UNCHANGED <<slot, hdr>>
  BY DEF StoreInv, TypeOK, WriterType, WriteFails
<1>3. /\ cell' \in [DataArea -> (Cards \X BlobId \X Nat) \cup {Junk}]
      /\ Below(cell, cell', wr.cursor)
  <2>1. CASE cell' = cell
    BY <2>1 DEF StoreInv, TypeOK, WriterType, Below
  <2>2. CASE /\ wr.cursor + n - 1 <= Sectors
             /\ cell' \in Partly(cell, Stored(c, b, wr.cursor), S)
    <3>. DEFINE V == (Cards \X BlobId \X Nat) \cup {Junk}
                e == Stored(c, b, wr.cursor)
    <3>1. e \in [DataArea -> V] /\ cell \in [DataArea -> V] /\ Junk \in V
      BY <1>1 DEF StoreInv, TypeOK, WriterType, Stored, DataArea
    <3>6. cell' \in Partly(cell, e, S)
      BY <2>2
    <3>. HIDE DEF V, e, S
    <3>2. /\ cell' = [i \in DataArea |-> cell'[i]]
          /\ \A i \in DataArea : cell'[i] \in {cell[i], e[i], Junk}
          /\ \A i \in DataArea : i \notin S => cell'[i] = cell[i]
      <4>1. PICK kept \in SUBSET S, done \in SUBSET S :
              cell' = [i \in DOMAIN cell |->
                         IF i \in S \ kept THEN (IF i \in done THEN e[i] ELSE Junk) ELSE cell[i]]
        BY <3>6 DEF Partly
      <4>2. DOMAIN cell = DataArea
        BY <3>1
      <4>. QED BY <4>1, <4>2
    <3>3. \A i \in DataArea : cell'[i] \in V
      BY <3>1, <3>2
    <3>4. cell' \in [DataArea -> V]
      BY <3>2, <3>3
    <3>5. \A i \in DataArea : i < wr.cursor => i \notin S
      BY <1>1 DEF S, DataArea
    <3>. QED BY <3>2, <3>4, <3>5 DEF Below, V
  <2>. QED BY <2>1, <2>2 DEF WriteFails
<1>4. TypeOK'
  BY <1>2, <1>3 DEF StoreInv, TypeOK, WriterType
<1>5. /\ SlotsAreWhole' /\ SlotsAreIndexed' /\ SlotsGrow' /\ CacheIsWhole'
      /\ WholeIn(cell', wr.blobs)
  BY <1>1, <1>2, <1>3, WriteKeepsWhole
<1>6. WriterInv'
  <2>1. /\ Index(wr.blobs)' /\ Whole(wr.blobs)'
        /\ \A i \in Slots : slot'[i] \in Header => Within(slot'[i], wr'.blobs)
    BY <1>1, <1>2, <1>5, WholeIsIn DEF StoreInv, WriterInv, Index, Within
  <2>. QED BY <1>1, <1>2, <2>1 DEF StoreInv, WriterInv
<1>. QED BY <1>4, <1>5, <1>6 DEF StoreInv

\* What a commit, that succeeds or fails, makes of the flash and of the slots.
LEMMA CommitInv == StoreInv /\ (Commit \/ CommitFails) => StoreInv'
<1>. SUFFICES ASSUME StoreInv, Commit \/ CommitFails PROVE StoreInv'
  OBVIOUS
<1>. DEFINE k == wr.slot
<1>1. /\ wr.active /\ wr.active \in BOOLEAN /\ wr.cursor \in Nat /\ wr.blobs \in Header
      /\ k \in Slots /\ k \in Nat /\ slot \in [Slots -> SlotState]
  BY StoreAssumption DEF StoreInv, TypeOK, WriterType, WriterInv, Commit, CommitFails, Slots, SlotState
<1>2. PICK s \in {Erased, Junk, wr.blobs} :
        /\ slot' = [slot EXCEPT ![k] = s]
        /\ wr'.ok => wr.ok /\ s = wr.blobs
  BY DEF Commit, CommitFails, StoreInv, TypeOK, WriterType
<1>3. /\ wr'.blobs = wr.blobs /\ wr'.cursor = wr.cursor /\ wr'.slot = k + 1
      /\ wr'.active = wr.active
      /\ wr' \in WriterType
      /\ cell' = cell /\ hdr' \in Reloads(slot')
  <2>1. wr \in WriterType
    BY DEF StoreInv, TypeOK
  <2>2. k + 1 \in Nat /\ cell' = cell /\ hdr' \in Reloads(slot')
    BY <1>1 DEF Commit, CommitFails
  <2>3. wr' = [wr EXCEPT !.slot = k + 1] \/ wr' = [wr EXCEPT !.slot = k + 1, !.ok = FALSE]
    BY DEF Commit, CommitFails
  <2>. HIDE DEF k
  <2>4. wr' \in WriterType
    BY <1>1, <2>1, <2>2, <2>3, WriterUpdates
  <2>5. /\ wr'.blobs = wr.blobs /\ wr'.cursor = wr.cursor /\ wr'.slot = k + 1
        /\ wr'.active = wr.active
    BY <2>1, <2>3 DEF WriterType
  <2>. QED BY <2>2, <2>4, <2>5
<1>. HIDE DEF k
<1>4. /\ slot' \in [Slots -> SlotState] /\ slot'[k] = s
      /\ \A i \in Slots : i # k => slot'[i] = slot[i]
      /\ \A i \in Slots : i > k => slot'[i] = Erased
      /\ \A i \in Slots : i \in Nat
  <2>1. \A i \in Slots : i >= k => slot[i] = Erased
    BY <1>1 DEF StoreInv, WriterInv, k
  <2>2. \A i \in Slots : i \in Nat
    BY DEF Slots
  <2>3. /\ slot' \in [Slots -> SlotState] /\ slot'[k] = s
        /\ \A i \in Slots : i # k => slot'[i] = slot[i]
    BY <1>1, <1>2 DEF SlotState
  <2>. QED BY <1>1, <2>1, <2>2, <2>3
<1>5. \A i \in Slots : slot'[i] \in Header =>
        \/ i = k /\ slot'[i] = wr.blobs
        \/ i < k /\ slot'[i] = slot[i]
  <2>. SUFFICES ASSUME NEW i \in Slots, slot'[i] \in Header
                PROVE  \/ i = k /\ slot'[i] = wr.blobs
                       \/ i < k /\ slot'[i] = slot[i]
    OBVIOUS
  <2>1. i = k => s = wr.blobs
    BY <1>2, <1>4, HeaderFacts
  <2>2. ~(i > k)
    BY <1>4, HeaderFacts
  <2>3. i \in Nat /\ (i # k => slot'[i] = slot[i]) /\ slot'[k] = s
    BY <1>4
  <2>4. i = k => slot'[i] = wr.blobs
    BY <2>1, <2>3
  <2>5. i < k => slot'[i] = slot[i]
    BY <1>1, <2>3
  <2>6. i = k \/ i < k
    BY <1>1, <2>2, <2>3
  <2>. QED BY <2>4, <2>5, <2>6
<1>6. /\ Index(wr.blobs) /\ WholeIn(cell, wr.blobs) /\ Within(wr.blobs, wr.blobs)
      /\ \A i \in Slots : slot[i] \in Header =>
           Index(slot[i]) /\ WholeIn(cell, slot[i]) /\ Within(slot[i], wr.blobs)
  BY <1>1, WholeIsIn DEF StoreInv, WriterInv, SlotsAreIndexed, Within
<1>7. SlotsAreWhole' /\ SlotsAreIndexed'
  BY <1>3, <1>5, <1>6, WholeIsIn DEF SlotsAreIndexed, Index
<1>8. SlotsGrow'
  <2>. SUFFICES ASSUME NEW i \in Slots, NEW j \in Slots, i < j,
                       slot'[i] \in Header, slot'[j] \in Header
                PROVE  Within(slot'[i], slot'[j])
    BY DEF SlotsGrow, Within
  <2>1. i < k /\ slot'[i] = slot[i]
    BY <1>1, <1>4, <1>5
  <2>. QED BY <1>5, <1>6, <2>1 DEF StoreInv, SlotsGrow
<1>9. hdr' \in Header \cup {None} /\ CacheIsWhole'
  BY <1>3, <1>4, <1>7, CacheReloaded
<1>10. TypeOK'
  BY <1>3, <1>4, <1>9 DEF StoreInv, TypeOK, WriterType, SlotState
<1>11. WriterInv'
  <2>1. /\ Index(wr.blobs)' /\ Whole(wr.blobs)'
        /\ \A i \in Slots : slot'[i] \in Header => Within(slot'[i], wr'.blobs)
    BY <1>3, <1>5, <1>6, WholeIsIn DEF Index, Within
  <2>2. /\ \A i \in Slots : i >= wr'.slot => slot'[i] = Erased
        /\ wr'.cursor > 0 /\ wr'.slot > 0
    BY <1>1, <1>3, <1>4 DEF StoreInv, WriterInv
  <2>3. wr'.ok => \A i \in Slots : i < wr'.slot => slot'[i] \in Header
    BY <1>1, <1>2, <1>3, <1>4 DEF StoreInv, WriterInv, k
  <2>4. \A b \in BlobId : wr'.blobs[b].n > 0 => wr'.blobs[b].at + wr'.blobs[b].n <= wr'.cursor
    BY <1>1, <1>3 DEF StoreInv, WriterInv
  <2>. QED BY <1>1, <1>3, <2>1, <2>2, <2>3, <2>4 DEF WriterInv
<1>. QED BY <1>7, <1>8, <1>9, <1>10, <1>11 DEF StoreInv

LEMMA StepInv == StoreInv /\ [Next]_storeVars => StoreInv'
<1>. SUFFICES ASSUME StoreInv, [Next]_storeVars PROVE StoreInv'
  OBVIOUS
<1>1. CASE Write
  BY <1>1, WriteBlobInv, WriteFailsInv DEF Write
<1>2. CASE UNCHANGED storeVars
  BY <1>2 DEF storeVars, StoreInv, TypeOK, WriterType, SlotsAreWhole, CacheIsWhole, SlotsAreIndexed, SlotsGrow,
              WriterInv, Index, Within, Whole, Stands
<1>. QED BY <1>1, <1>2, MountInv, BeginInv, BeginFailsInv, CommitInv, EndInv DEF Next

-----------------------------------------------------------------------------
(***************************************************************************)
(* The theorems.                                                           *)
(***************************************************************************)

\* The inductive invariant of the store holds in every reachable state.
THEOREM StoreInvariant == Spec => []StoreInv
BY InitInv, StepInv, PTL DEF Spec

\* No failed write, failed erase or loss of power leaves a half written blob under a
\* header that a reader may take (CardStore.cpp, Writer and reload_header).
THEOREM SlotsStayWhole == Spec => []SlotsAreWhole
<1>1. StoreInv => SlotsAreWhole
  BY DEF StoreInv
<1>. QED BY <1>1, StoreInvariant, PTL

\* The header cache in RAM never outlives the blobs it lists.
THEOREM CacheStaysWhole == Spec => []CacheIsWhole
<1>1. StoreInv => CacheIsWhole
  BY DEF StoreInv
<1>. QED BY <1>1, StoreInvariant, PTL

-----------------------------------------------------------------------------
(***************************************************************************)
(* What a mounted store holds.                                             *)
(***************************************************************************)

\* What header h lists: the card of each blob that it has.
Listed(h) == [b \in BlobId |-> IF h = None \/ h[b].n = 0 THEN None ELSE h[b].crc]

\* i is the last of the slots that a reader of all slots s could take.
IsLast(s, i) == i \in Scanned(s, SlotCount) /\ \A j \in Scanned(s, SlotCount) : j <= i

\* A reader of all slots takes the last of those it scans.
LEMMA ReloadAll ==
  ASSUME NEW s
  PROVE  /\ Scanned(s, SlotCount) = {} => Reload(s, SlotCount) = None
         /\ Scanned(s, SlotCount) # {} =>
              \E i \in Slots : IsLast(s, i) /\ Reload(s, SlotCount) = s[i] /\ s[i] \in Header
<1>1. CASE Scanned(s, SlotCount) = {}
  BY <1>1 DEF Reload
<1>2. CASE Scanned(s, SlotCount) # {}
  <2>1. Scanned(s, SlotCount) \subseteq Nat /\ \A i \in Scanned(s, SlotCount) : i <= SlotCount
    BY StoreAssumption DEF Scanned
  <2>2. \E i \in Scanned(s, SlotCount) : \A j \in Scanned(s, SlotCount) : j <= i
    BY <1>2, <2>1, LastSlot, StoreAssumption
  <2>3. IsLast(s, LastValid(s, SlotCount))
    BY <2>2 DEF LastValid, IsLast
  <2>. QED BY <1>2, <2>3 DEF Reload, IsLast, Scanned, Slots
<1>. QED BY <1>1, <1>2

\* There is one last slot.
LEMMA LastIsOne ==
  ASSUME NEW s, NEW i \in Slots, IsLast(s, i)
  PROVE  Reload(s, SlotCount) = s[i]
<1>1. PICK j \in Slots : IsLast(s, j) /\ Reload(s, SlotCount) = s[j]
  BY ReloadAll DEF IsLast
<1>2. i = j
  <2>1. i <= j /\ j <= i /\ i \in Nat /\ j \in Nat
    BY <1>1 DEF IsLast, Slots
  <2>. QED BY <2>1
<1>. QED BY <1>1, <1>2

\* Slots list whole blobs, so that a reader finds what they list.
LEMMA WholeIsListed ==
  /\ \A h \in Header : Whole(h) => Content(h) = Listed(h)
  /\ Content(None) = Listed(None)
  /\ SlotsAreWhole => Held = Listed(Reload(slot, SlotCount))
<1>1. ASSUME NEW h \in Header, Whole(h) PROVE Content(h) = Listed(h)
  <2>1. \A b \in BlobId : h[b].n = 0 \/ Stands(h[b], b)
    BY <1>1, HeaderFacts DEF Whole
  <2>2. h # None
    BY HeaderFacts
  <2>. QED BY <2>1, <2>2 DEF Content, Listed
<1>2. Content(None) = Listed(None)
  BY DEF Content, Listed
<1>3. SlotsAreWhole => LET h == Reload(slot, SlotCount) IN h = None \/ (h \in Header /\ Whole(h))
  BY ReloadAll DEF SlotsAreWhole
<1>. QED BY <1>1, <1>2, <1>3 DEF Held

LEMMA HeldIsListed == StoreInv => Held = Listed(Reload(slot, SlotCount))
BY WholeIsListed DEF StoreInv

\* The same of the next state.
LEMMA NextHeldIsListed == StoreInv' => Held' = Listed(Reload(slot', SlotCount))
<1>1. StoreInv' => (Held = Listed(Reload(slot, SlotCount)))'
  BY HeldIsListed, PTL
<1>. QED BY <1>1 DEF Listed, Reload, LastValid, Scanned

\* A step that leaves the slots alone leaves what a store holds.
LEMMA SameHeld == StoreInv /\ StoreInv' /\ slot' = slot => Held' = Held
BY HeldIsListed, NextHeldIsListed

\* A commit keeps what the slots listed.
LEMMA CommitStays ==
  ASSUME StoreInv, StoreInv', Commit \/ CommitFails, NEW b \in BlobId, Held[b] # None
  PROVE  Held'[b] = Held[b]
<1>. DEFINE k == wr.slot
<1>1. /\ k \in Slots /\ wr.active
      /\ \A i \in Slots : i \in Nat
      /\ \A i \in Slots : i # k => slot'[i] = slot[i]
      /\ slot[k] = Erased /\ \A i \in Slots : i > k => slot[i] = Erased
  BY StoreAssumption DEF StoreInv, TypeOK, WriterType, WriterInv, Commit, CommitFails, Slots
<1>2. slot'[k] \in {Erased, Junk, wr.blobs}
  BY <1>1 DEF StoreInv, TypeOK, Commit, CommitFails
<1>. HIDE DEF k
<1>3. PICK i \in Slots : /\ IsLast(slot, i) /\ Reload(slot, SlotCount) = slot[i]
                         /\ slot[i] \in Header /\ slot[i][b].n # 0
  <2>1. Scanned(slot, SlotCount) # {}
    BY HeldIsListed, ReloadAll DEF Listed
  <2>. QED BY <2>1, HeldIsListed, ReloadAll DEF Listed
<1>4. i < k
  <2>1. slot[i] # Erased
    BY <1>3, HeaderFacts
  <2>. QED BY <1>1, <2>1
<1>5. i \in Scanned(slot', SlotCount)
  <2>1. i \in Scanned(slot, SlotCount)
    BY <1>3 DEF IsLast
  <2>2. \A j \in 1 .. i : j \in Slots /\ slot'[j] = slot[j]
    BY <1>1, <1>4, StoreAssumption DEF Slots
  <2>3. slot'[i] = slot[i]
    BY <1>1, <1>4
  <2>. QED BY <2>1, <2>2, <2>3 DEF Scanned
<1>6. PICK l \in Slots : /\ IsLast(slot', l) /\ Reload(slot', SlotCount) = slot'[l]
                         /\ slot'[l] \in Header
  BY <1>5, ReloadAll
<1>7. slot'[l][b] = slot[i][b]
  <2>1. CASE l = k
    <3>1. slot'[l] = wr.blobs
      BY <1>2, <1>6, <2>1, HeaderFacts
    <3>2. Within(slot[i], wr.blobs)
      BY <1>1, <1>3 DEF StoreInv, WriterInv
    <3>3. slot[i][b].n > 0
      BY <1>3, HeaderFacts
    <3>. QED BY <3>1, <3>2, <3>3 DEF Within
  <2>2. CASE l # k
    <3>1. slot'[l] = slot[l] /\ l < k
      BY <1>1, <1>6, <2>2, HeaderFacts
    <3>2. \A j \in 1 .. l : j \in Slots /\ slot'[j] = slot[j]
      BY <1>1, <3>1, StoreAssumption DEF Slots
    <3>3. l \in Scanned(slot, SlotCount)
      BY <1>6, <3>1, <3>2 DEF IsLast, Scanned
    <3>4. l = i
      BY <1>1, <1>3, <1>5, <1>6, <3>3 DEF IsLast
    <3>. QED BY <3>1, <3>4
  <2>. QED BY <2>1, <2>2
<1>8. slot[i] # None /\ slot'[l] # None
  BY <1>3, <1>6, HeaderFacts
<1>. QED BY <1>3, <1>6, <1>7, <1>8, HeldIsListed, NextHeldIsListed DEF Listed

\* An interrupted write keeps every previously committed blob readable (the comment of
\* CardStore.hpp): nothing a Writer at work does, or suffers, takes one away.
THEOREM CommittedBlobsStay == Spec => CommittedStays
<1>. DEFINE Stays == wr.active => \A b \in BlobId : Held[b] # None => Held'[b] = Held[b]
<1>1. StoreInv /\ StoreInv' /\ [Next]_storeVars => [Stays]_storeVars
  <2>. SUFFICES ASSUME StoreInv, StoreInv', Next, wr.active, NEW b \in BlobId, Held[b] # None
                PROVE  Held'[b] = Held[b]
    OBVIOUS
  <2>1. CASE Commit \/ CommitFails
    BY <2>1, CommitStays
  <2>2. CASE Mount \/ Write \/ Abort \/ Destroy \/ PowerLoss
    <3>1. slot' = slot
      BY <2>2 DEF Mount, Write, WriteBlob, WriteFails, Abort, Destroy, PowerLoss
    <3>. QED BY <3>1, SameHeld
  <2>3. ~Begin /\ ~BeginFails
    BY DEF Begin, BeginFails
  <2>. QED BY <2>1, <2>2, <2>3 DEF Next
<1>2. Spec => [][Stays]_storeVars
  <2>. HIDE DEF Stays
  <2>. QED BY <1>1, StoreInvariant, PTL DEF Spec
<1>. QED BY <1>2 DEF CommittedStays
-----------------------------------------------------------------------------
(***************************************************************************)
(* What a caller may count on.                                             *)
(***************************************************************************)

\* While a Writer is at work, what is held was written by it.
LEMMA WriterHolds ==
  ASSUME StoreInv, wr.active, NEW b \in BlobId, Held[b] # None
  PROVE  wr.blobs[b].n > 0 /\ Held[b] = wr.blobs[b].crc
<1>1. Held[b] = Listed(Reload(slot, SlotCount))[b]
  BY HeldIsListed
<1>2. Scanned(slot, SlotCount) # {}
  BY <1>1, ReloadAll DEF Listed
<1>3. PICK i \in Slots : Reload(slot, SlotCount) = slot[i] /\ slot[i] \in Header
  BY <1>2, ReloadAll
<1>4. Within(slot[i], wr.blobs)
  BY <1>3 DEF StoreInv, WriterInv
<1>5. slot[i][b].n # 0 /\ Held[b] = slot[i][b].crc
  BY <1>1, <1>3 DEF Listed
<1>6. slot[i][b].n > 0
  BY <1>3, <1>5, HeaderFacts
<1>. QED
  BY <1>4, <1>5, <1>6 DEF Within

\* A commit publishes everything that was written.
LEMMA CommitHolds ==
  ASSUME StoreInv, StoreInv', wr.ok, Commit, NEW b \in BlobId, wr.blobs[b].n > 0
  PROVE  Held'[b] # None /\ Held'[b] = wr.blobs[b].crc
<1>. DEFINE k == wr.slot
<1>1. /\ k \in Slots /\ slot' = [slot EXCEPT ![k] = wr.blobs] /\ slot \in [Slots -> SlotState]
      /\ \A i \in Slots : i < k => slot[i] \in Header
      /\ \A i \in Slots : i >= k => slot[i] = Erased
      /\ wr.blobs \in Header
  BY StoreAssumption DEF StoreInv, TypeOK, WriterType, WriterInv, Commit, Slots, SlotState
<1>. HIDE DEF k
<1>2. slot'[k] = wr.blobs /\ \A i \in Slots : i # k => slot'[i] = slot[i]
  BY <1>1
<1>3. k \in 1 .. SlotCount /\ SlotCount \in Nat
  BY <1>1, StoreAssumption DEF Slots
<1>4. \A j \in 1 .. k : slot'[j] \in Header
  BY <1>1, <1>2, <1>3 DEF Slots
<1>5. k \in Scanned(slot', SlotCount)
  BY <1>3, <1>4, HeaderFacts DEF Scanned
<1>6. \A j \in Scanned(slot', SlotCount) : j <= k
  <2>. SUFFICES ASSUME NEW j \in Scanned(slot', SlotCount), ~(j <= k)
                PROVE  FALSE
    OBVIOUS
  <2>1. j \in 1 .. SlotCount /\ slot'[j] \in Header
    BY DEF Scanned
  <2>2. j \in Slots /\ j # k /\ j >= k
    BY <1>3, <2>1 DEF Slots
  <2>3. slot'[j] = Erased
    BY <1>1, <1>2, <2>2
  <2>. QED
    BY <2>1, <2>3, HeaderFacts
<1>7. Reload(slot', SlotCount) = wr.blobs
  BY <1>1, <1>2, <1>5, <1>6, LastIsOne DEF IsLast
<1>8. Held'[b] = Listed(wr.blobs)[b]
  BY <1>7, NextHeldIsListed
<1>9. wr.blobs # None /\ wr.blobs[b].n # 0 /\ wr.blobs[b].crc # None
  <2>1. wr.blobs # None /\ wr.blobs[b].n # 0
    BY <1>1, HeaderFacts
  <2>2. wr.blobs[b].crc \in Cards
    BY DEF StoreInv, WriterInv, Whole, Stands, Commit
  <2>. QED
    BY <2>1, <2>2, StoreAssumption
<1>. QED
  BY <1>8, <1>9 DEF Listed

\* A reader that fails at some slot finds some of what is held.
LEMMA ReaderWithin ==
  ASSUME StoreInv, NEW h \in Reloads(slot), h # None
  PROVE  /\ h \in Header /\ Whole(h)
         /\ Reload(slot, SlotCount) \in Header /\ Within(h, Reload(slot, SlotCount))
<1>1. slot \in [Slots -> SlotState]
  BY DEF StoreInv, TypeOK, SlotState
<1>2. PICK k \in 0 .. SlotCount : h = Reload(slot, k)
  BY DEF Reloads
<1>3. Scanned(slot, k) # {}
  BY <1>2 DEF Reload
<1>4. LastValid(slot, k) \in Scanned(slot, k)
  <2>1. Scanned(slot, k) \subseteq 1 .. k /\ k \in Nat
    BY <1>2, StoreAssumption DEF Scanned
  <2>2. \E i \in Scanned(slot, k) : \A j \in Scanned(slot, k) : j <= i
    BY <1>3, <2>1, LastSlot
  <2>. QED
    BY <2>2 DEF LastValid
<1>5. PICK i \in Scanned(slot, k) : h = slot[i]
  BY <1>2, <1>3, <1>4 DEF Reload
<1>6. i \in Slots /\ slot[i] \in Header /\ i \in Scanned(slot, SlotCount)
  BY <1>2, <1>5, StoreAssumption DEF Scanned, Slots
<1>7. PICK l \in Slots : IsLast(slot, l) /\ Reload(slot, SlotCount) = slot[l] /\ slot[l] \in Header
  BY <1>6, ReloadAll
<1>8. i = l \/ i < l
  BY <1>6, <1>7 DEF IsLast, Slots
<1>9. Within(slot[i], slot[l])
  <2>1. CASE i = l
    BY <2>1 DEF Within
  <2>2. CASE i < l
    BY <1>6, <1>7, <2>2 DEF StoreInv, SlotsGrow
  <2>. QED
    BY <1>8, <2>1, <2>2
<1>10. Whole(slot[i])
  BY <1>6 DEF StoreInv, SlotsAreWhole
<1>. QED
  BY <1>5, <1>6, <1>7, <1>9, <1>10

\* What is held is in the flash, whole.
LEMMA HeldStands ==
  ASSUME StoreInv, NEW b \in BlobId, Reload(slot, SlotCount) # None,
         Reload(slot, SlotCount)[b].n > 0
  PROVE  /\ Stands(Reload(slot, SlotCount)[b], b)
         /\ Held[b] = Reload(slot, SlotCount)[b].crc /\ Held[b] \in Cards
<1>1. PICK i \in Slots : Reload(slot, SlotCount) = slot[i] /\ slot[i] \in Header
  BY ReloadAll
<1>2. Stands(slot[i][b], b)
  BY <1>1 DEF StoreInv, SlotsAreWhole, Whole
<1>3. Held[b] = slot[i][b].crc
  <2>1. slot[i][b].n # 0
    BY <1>1, HeaderFacts
  <2>. QED
    BY <1>1, <2>1, HeldIsListed DEF Listed
<1>. QED
  BY <1>1, <1>2, <1>3 DEF Stands
=============================================================================
