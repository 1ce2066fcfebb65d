----------------------------- MODULE CardStore ------------------------------
(***************************************************************************)
(* A card kept in a flash partition without a file system                  *)
(* (app/CardStore.cpp): one header sector of slots, and blobs from the     *)
(* next sector on.  A Writer erases the header sector, writes blobs one    *)
(* after the other and publishes them with commit(), which programs the    *)
(* next free slot; the reader takes the last valid slot.                   *)
(*                                                                         *)
(* Every flash operation may fail, and the power may go, half way.  A      *)
(* failed operation has done any part of its work; a loss of power in the  *)
(* middle of one is that failure followed by PowerLoss.                    *)
(***************************************************************************)
EXTENDS Integers, FiniteSets

CONSTANTS
  Cards,      \* what may be stored: one card each
  BlobId,     \* the blobs of a card
  Size,       \* Size[c][b]: the sectors that blob b of card c takes
  Sectors,    \* sectors of the partition after the header sector
  SlotCount,  \* kSlotCount: header slots
  Erased,     \* a header slot that reads 0xFF
  Junk,       \* a slot or a sector that holds neither that nor what was written
  None        \* no card, no header

ASSUME StoreAssumption ==
  /\ Size \in [Cards -> [BlobId -> Nat \ {0}]]
  /\ Sectors \in Nat /\ SlotCount \in Nat
  /\ None \notin Cards

Slots == 1 .. SlotCount
DataArea == 1 .. Sectors

(***************************************************************************)
(* The index entry of a blob: its first sector, its length in sectors (0   *)
(* when there is none) and its crc, which identifies what was written.     *)
(***************************************************************************)
Blob == [at : Nat, n : Nat, crc : Cards \cup {None}]
NoBlob == [at |-> 0, n |-> 0, crc |-> None]
Header == [BlobId -> Blob]
EmptyHeader == [b \in BlobId |-> NoBlob]

ASSUME MarkAssumption ==
  /\ Erased \notin Header /\ Junk \notin Header /\ None \notin Header
  /\ Erased # Junk
  /\ Junk \notin Cards \X BlobId \X Nat

VARIABLES
  slot,   \* slot[i]: header slot i
  cell,   \* cell[i]: sector i of the data area, the k-th of blob b of card c or junk
  hdr,    \* the header cache in RAM (hdr_ when hdr_valid_)
  wr      \* the Writer

storeVars == <<slot, cell, hdr, wr>>

\* ok: no call on this Writer has failed yet (then its owner gives it up).
WriterType == [active : BOOLEAN, ok : BOOLEAN, cursor : Nat, slot : Nat, blobs : Header]
NoWriter == [active |-> FALSE, ok |-> TRUE, cursor |-> 0, slot |-> 0, blobs |-> EmptyHeader]
NewWriter == [NoWriter EXCEPT !.active = TRUE, !.cursor = 1, !.slot = 1]

Init ==
  /\ slot = [i \in Slots |-> Erased]
  /\ cell = [i \in DataArea |-> Junk]
  /\ hdr = None
  /\ wr = NoWriter

-----------------------------------------------------------------------------
\* reload_header: slots are read up to the first erased one, or the first that the
\* flash fails to read (k is how many it reads), and the last valid one wins.
Scanned(s, k) == {i \in 1 .. k : s[i] \in Header /\ \A j \in 1 .. i : s[j] # Erased}
LastValid(s, k) == CHOOSE i \in Scanned(s, k) : \A j \in Scanned(s, k) : j <= i
Reload(s, k) == IF Scanned(s, k) = {} THEN None ELSE s[LastValid(s, k)]
Reloads(s) == {Reload(s, k) : k \in 0 .. SlotCount}

Extent(blob) == blob.at .. blob.at + blob.n - 1

\* Part of the sectors (slots) S of old were brought to new, the rest is junk or left.
Partly(old, new, S) ==
  {[i \in DOMAIN old |-> IF i \in S \ kept THEN (IF i \in done THEN new[i] ELSE Junk)
                         ELSE old[i]] : kept \in SUBSET S, done \in SUBSET S}

-----------------------------------------------------------------------------
Mount ==
  /\ hdr' \in Reloads(slot)
  /\ UNCHANGED <<slot, cell, wr>>

\* Mutant of Begin: the header sector is left as it is.
KeepsHeader ==
  /\ ~wr.active
  /\ hdr' = None
  /\ wr' = NewWriter
  /\ UNCHANGED <<slot, cell>>

\* Mutant of Begin: the header cache in RAM stays.
KeepsCache ==
  /\ ~wr.active
  /\ slot' = [i \in Slots |-> Erased]
  /\ wr' = NewWriter
  /\ UNCHANGED <<cell, hdr>>

Begin ==
  /\ ~wr.active
  /\ hdr' = None
  /\ slot' = [i \in Slots |-> Erased]
  /\ wr' = NewWriter
  /\ UNCHANGED cell

BeginFails ==
  /\ ~wr.active
  /\ hdr' = None
  /\ slot' \in Partly(slot, [i \in Slots |-> Erased], Slots)
  /\ UNCHANGED <<cell, wr>>

\* The sectors once blob b of card c is at sector at.
Stored(c, b, at) ==
  [i \in DataArea |-> IF i \in at .. at + Size[c][b] - 1 THEN <<c, b, i - at>> ELSE cell[i]]

\* Mutant of WriteBlob: the cursor stays where the blob begins.
StuckCursor(c, b) ==
  /\ wr.active /\ wr.cursor + Size[c][b] - 1 <= Sectors
  /\ cell' = Stored(c, b, wr.cursor)
  /\ wr' = [wr EXCEPT !.blobs[b] = [at |-> wr.cursor, n |-> Size[c][b], crc |-> c]]
  /\ UNCHANGED <<slot, hdr>>

WriteBlob(c, b) ==
  /\ wr.active
  /\ wr.cursor + Size[c][b] - 1 <= Sectors
  /\ cell' = Stored(c, b, wr.cursor)
  /\ wr' = [wr EXCEPT !.blobs[b] = [at |-> wr.cursor, n |-> Size[c][b], crc |-> c],
                      !.cursor = @ + Size[c][b]]
  /\ UNCHANGED <<slot, hdr>>

\* A blob that does not fit is refused untouched, one that fits may fail half way;
\* either way the index and the cursor stay.
WriteFails(c, b) ==
  /\ wr.active
  /\ \/ wr.cursor + Size[c][b] - 1 > Sectors /\ UNCHANGED cell
     \/ /\ wr.cursor + Size[c][b] - 1 <= Sectors
        /\ cell' \in Partly(cell, Stored(c, b, wr.cursor),
                            wr.cursor .. wr.cursor + Size[c][b] - 1)
  /\ wr' = [wr EXCEPT !.ok = FALSE]
  /\ UNCHANGED <<slot, hdr>>

\* Mutant of Commit: the next commit goes to the same slot.
SameSlot ==
  /\ wr.active /\ wr.slot <= SlotCount
  /\ slot' = [slot EXCEPT ![wr.slot] = wr.blobs]
  /\ hdr' \in Reloads(slot')
  /\ UNCHANGED <<cell, wr>>

Commit ==
  /\ wr.active /\ wr.slot <= SlotCount
  /\ slot' = [slot EXCEPT ![wr.slot] = wr.blobs]
  /\ wr' = [wr EXCEPT !.slot = @ + 1]
  /\ hdr' \in Reloads(slot')
  /\ UNCHANGED cell

CommitFails ==
  /\ wr.active /\ wr.slot <= SlotCount
  /\ \E s \in {Erased, Junk, wr.blobs} : slot' = [slot EXCEPT ![wr.slot] = s]
  /\ wr' = [wr EXCEPT !.slot = @ + 1, !.ok = FALSE]
  /\ hdr' \in Reloads(slot')
  /\ UNCHANGED cell

\* abort() before the first commit; later it does nothing.
Abort ==
  /\ wr.active /\ wr.slot = 1
  /\ wr' = NoWriter
  /\ hdr' \in Reloads(slot)
  /\ UNCHANGED <<slot, cell>>

\* The Writer goes out of scope after a commit.
Destroy ==
  /\ wr.active /\ wr.slot > 1
  /\ wr' = NoWriter
  /\ UNCHANGED <<slot, cell, hdr>>

PowerLoss ==
  /\ hdr' = None
  /\ wr' = NoWriter
  /\ UNCHANGED <<slot, cell>>

\* The callers (ImportJob::run, lastcard::save_cache) write each blob once and give
\* up after a call that failed.
Write ==
  \E c \in Cards, b \in BlobId :
    wr.ok /\ wr.blobs[b].n = 0 /\ (WriteBlob(c, b) \/ WriteFails(c, b))

Next ==
  \/ Mount
  \/ Begin \/ BeginFails
  \/ Write
  \/ wr.ok /\ (Commit \/ CommitFails)
  \/ Abort \/ Destroy
  \/ PowerLoss

Spec == Init /\ [][Next]_storeVars

-----------------------------------------------------------------------------
(***************************************************************************)
(* Properties.                                                             *)
(***************************************************************************)
TypeOK ==
  /\ slot \in [Slots -> Header \cup {Erased, Junk}]
  /\ cell \in [DataArea -> (Cards \X BlobId \X Nat) \cup {Junk}]
  /\ hdr \in Header \cup {None}
  /\ wr \in WriterType

\* Blob b is in the flash, whole, where its entry says.
Stands(blob, b) ==
  /\ blob.crc \in Cards /\ blob.n = Size[blob.crc][b]
  /\ blob.at > 0 /\ blob.at + blob.n - 1 <= Sectors
  /\ \A i \in Extent(blob) : cell[i] = <<blob.crc, b, i - blob.at>>

Whole(h) == \A b \in BlobId : h[b].n > 0 => Stands(h[b], b)

\* A slot a reader could take, also the earlier one it falls back to when a read or
\* an erase fails half way, lists whole blobs only: no crash and no failed write ever
\* leaves a half written blob under a valid header (blobs are never checked against
\* their crc on reading).
SlotsAreWhole == \A i \in Slots : slot[i] \in Header => Whole(slot[i])

\* The header cache in RAM never outlives what it describes.
CacheIsWhole == hdr # None => Whole(hdr) /\ \E i \in Slots : slot[i] = hdr

\* What a reader of header h finds for each blob: a card, none, or junk.
Content(h) ==
  [b \in BlobId |-> IF h = None \/ h[b].n = 0 THEN None
                    ELSE IF Stands(h[b], b) THEN h[b].crc ELSE Junk]

\* What a reader finds once the store is mounted.
Held == Content(Reload(slot, SlotCount))

\* An interrupted write keeps every previously committed blob readable: while a Writer
\* is at work no write, commit, failure or loss of power takes a published blob away.
CommittedStays ==
  [][wr.active => \A b \in BlobId : Held[b] # None => Held'[b] = Held[b]]_storeVars

\* The index of a header is well formed: a blob it does not list has no entry.
Index(h) == \A b \in BlobId : h[b].n = 0 => h[b] = NoBlob

\* h lists some of the blobs g lists, at the same place.
Within(h, g) == \A b \in BlobId : h[b].n > 0 => h[b] = g[b]

(***************************************************************************)
(* What makes it so, and is inductive: a Writer programs erased slots and  *)
(* writes at its cursor, beyond every blob that any slot lists; later      *)
(* slots list more.                                                        *)
(***************************************************************************)
SlotsAreIndexed == \A i \in Slots : slot[i] \in Header => Index(slot[i])

SlotsGrow ==
  \A i, j \in Slots : i < j /\ slot[i] \in Header /\ slot[j] \in Header =>
    Within(slot[i], slot[j])

WriterInv ==
  /\ Index(wr.blobs)
  /\ ~wr.active => wr.blobs = EmptyHeader
  /\ wr.active =>
       /\ wr.cursor > 0 /\ wr.slot > 0
       /\ Whole(wr.blobs)
       /\ \A b \in BlobId : wr.blobs[b].n > 0 => wr.blobs[b].at + wr.blobs[b].n <= wr.cursor
       /\ \A i \in Slots : i >= wr.slot => slot[i] = Erased
       /\ \A i \in Slots : slot[i] \in Header => Within(slot[i], wr.blobs)
       /\ wr.ok => \A i \in Slots : i < wr.slot => slot[i] \in Header

StoreInv ==
  TypeOK /\ SlotsAreWhole /\ CacheIsWhole /\ SlotsAreIndexed /\ SlotsGrow /\ WriterInv
=============================================================================
