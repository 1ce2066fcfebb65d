--------------------------- MODULE LastCardProofs ---------------------------
(***************************************************************************)
(* Proofs about LastCard, for any files on the SD card and any layout of   *)
(* the partition.  What CardStoreProofs shows of a partition is used here  *)
(* of the lastcard partition, as P.                                        *)
(***************************************************************************)
EXTENDS LastCard, SequenceTheorems, TLAPS

P == INSTANCE CardStoreProofs

\* What of NVS changes is always nvs and stuck together.
USE DEF nvsVars

\* The points of go_to_sleep at which the Writer is at work, and all of them.
Working == {"pdf", "commitPdf", "setPath", "display", "commitDisplay", "close"}
Points == Working \cup {"ui", "check", "uncache", "begin", "off", "pending"}

ScreenType ==
  [src : {"none", "my", "sd"}, path : Paths \cup {None},
   state : {"none", "ok", "loading", "failed"}, view : Cards \cup {My, None},
   card : BOOLEAN, map : P!Blob, cover : {"menu", "no", "modal", "screen"},
   stray : BOOLEAN, clean : BOOLEAN, painted : BOOLEAN, adopt : BOOLEAN]

\* The NVS writes of a call.
Entries ==
  [key : {"src"}, val : {"none", "my", "sd"}]
    \cup [key : {"path"}, val : Paths \cup {None}] \cup [key : {"clean"}, val : BOOLEAN]

Types ==
  TypeOK /\ due \in Seq(Entries) /\ shown \in ScreenType /\ pc \in Points

\* The writes q set the key k to v, if they set it.
Only(q, k, v) == \A i \in 1 .. Len(q) : q[i].key = k => q[i].val = v

\* A key k that is x in NVS is v once the writes q are made, or blank when one failed.
Ends(q, k, x, v) ==
  Only(q, k, v) /\ ((\A i \in 1 .. Len(q) : q[i].key # k) => x \in {v, Blank[k]})

\* Where the task is, and whether it has a Writer at work.
Control ==
  /\ ~on => pc = "ui" /\ due = <<>> /\ shown = NoScreen
  /\ pc \notin {"ui", "check", "pending"} => due = <<>>
  /\ wr.active <=> pc \in Working
  /\ pc \in Working \ {"close"} => wr.ok
  /\ pc \in Working \cup {"uncache", "begin"} =>
       shown.src = "sd" /\ shown.state = "ok" /\ shown.map.n = 0

\* What save_cache has written, and when cpath says so.
Writing ==
  /\ pc = "pdf" => wr.blobs["PDF"].n = 0
  /\ pc \in {"pdf", "commitPdf"} => shown.card
  /\ pc \in {"pdf", "commitPdf", "display"} \/ (pc = "setPath" /\ shown.card) =>
       wr.blobs["DISPLAY"].n = 0
  /\ pc = "commitPdf" => wr.blobs["PDF"].n > 0
  /\ pc = "commitDisplay" => wr.blobs["DISPLAY"].n > 0
  /\ pc = "setPath" => \E b \in BlobId : P!Held[b] # None
  /\ "cpath" \notin stuck =>
       /\ pc \in Working =>
            \A b \in BlobId : wr.blobs[b].n > 0 => wr.blobs[b].crc[1] = shown.path
       /\ pc \in {"begin", "pdf", "commitPdf", "setPath"} => nvs.cpath = None
       /\ pc \in {"display", "commitDisplay"} =>
            nvs.cpath = None \/ (shown.card /\ nvs.cpath = shown.path)
       /\ pc = "close" => nvs.cpath \in {None, shown.path}

\* A card screen, with contents that go with its source and its path (the path, unless
\* the cache it was restored from has an old name).
Sound(s) ==
  /\ s.src = "none" => s = NoScreen
  /\ s.src = "my" => s.path = None /\ s.state = "ok" /\ s.view = My
  /\ s.src = "sd" => s.path \in Paths /\ s.state # "none"
  /\ s.src = "sd" /\ s.state = "ok" =>
       s.view \in Cards /\ ("cpath" \notin stuck => s.view[1] = s.path)
  /\ s.state # "ok" => s.view = None

\* The card screen, and what NVS will say of it.
ScreenIs ==
  /\ Sound(shown)
  /\ shown.src # "none" =>
       /\ Only(due, "path", shown.path)
       /\ "src" \notin stuck => Ends(due, "src", nvs.src, shown.src)
       /\ "path" \notin stuck => Ends(due, "path", nvs.path, shown.path)

\* A blob shown from the flash is the one a reader finds: save_cache takes the card
\* for cached and leaves the partition alone.
Mapped ==
  shown.map.n > 0 =>
    /\ shown.src = "sd" /\ shown.state = "ok" /\ shown.map.crc = shown.view
    /\ nvs.cpath = shown.path
    /\ LET h == P!Reload(slot, SlotCount) IN h # None /\ h["DISPLAY"] = shown.map

\* CacheIsOfPath
Cached ==
  nvs.cpath # None /\ "cpath" \notin stuck =>
    /\ \E b \in BlobId : P!Held[b] # None
    /\ \A b \in BlobId : P!Held[b] # None => P!Held[b] \in Cards /\ P!Held[b][1] = nvs.cpath

IInv == Types /\ P!StoreInv /\ Control /\ Writing /\ ScreenIs /\ Mapped /\ Cached

(***************************************************************************)
(* When no file is replaced by another of its name.                        *)
(***************************************************************************)
\* The card c is the one in its file.
Genuine(c) == c[2] = file[c[1]]

StoreGenuine ==
  /\ \A i \in P!Slots : slot[i] \in P!Header =>
       \A b \in BlobId : slot[i][b].n > 0 => Genuine(slot[i][b].crc)
  /\ \A b \in BlobId : wr.blobs[b].n > 0 => Genuine(wr.blobs[b].crc)

ShownGenuine == shown.src = "sd" /\ shown.state = "ok" => Genuine(shown.view)

\* What is seen of a card that NVS names.
Picture(src, path) == IF src = "my" THEN My ELSE <<path, file[path]>>

\* What the glass shows, and whether a boot may take it for the card that NVS names, if
\* NVS names one.
Names == nvs.src = "my" \/ (nvs.src = "sd" /\ nvs.path # None)

OffGlass ==
  ~on /\ slept = "card" =>
    /\ stuck = {} /\ Names /\ nvs.clean => glass = Picture(nvs.src, nvs.path)
    /\ glass \in Cards /\ "cpath" \notin stuck /\ nvs.path # None /\ nvs.cpath = nvs.path =>
         glass = <<nvs.path, file[nvs.path]>>

OnGlass ==
  /\ on /\ slept = "card" /\ stuck = {} /\ (shown.clean \/ shown.adopt) =>
       shown.src # "none" /\ glass = Picture(shown.src, shown.path)
  /\ shown.adopt => shown.cover = "menu" \/ (shown.cover = "no" /\ shown.painted)
  /\ on /\ shown.painted /\ shown.cover = "no" => glass = shown.view

\* The sleep sequence has taken away what covered the card.
Bared ==
  pc # "ui" => \/ shown = NoScreen /\ glass = None
               \/ shown.src # "none" /\ shown.cover = "no"

\* A card that is still being loaded is not one for the next boot to find on the glass.
LoadsDirty ==
  shown.state = "loading" /\ "clean" \notin stuck => Ends(due, "clean", nvs.clean, FALSE)

\* A card that the boot is still loading is the one NVS names, whatever of NVS is stuck;
\* when save_cache is over, that one or the one that cpath names is on screen.
Reopened ==
  /\ shown.state = "loading" => nvs.path = shown.path
  /\ pc \in {"off", "pending"} /\ shown.src = "sd" /\ shown.state = "ok" /\ "cpath" \notin stuck =>
       nvs.path = shown.path \/ nvs.cpath \in {None, shown.path}

GlassIs == OffGlass /\ OnGlass /\ LoadsDirty

FixedInv == IInv /\ StoreGenuine /\ ShownGenuine /\ GlassIs /\ Bared /\ Reopened
-----------------------------------------------------------------------------
(***************************************************************************)
(* The definitions of P are those of Store.                                *)
(***************************************************************************)
LEMMA StoreFits == P!StoreAssumption /\ P!MarkAssumption
  BY PartitionAssumption
     DEF P!StoreAssumption, P!MarkAssumption, Store!StoreAssumption, Store!MarkAssumption,
         P!Header, P!Blob, Store!Header, Store!Blob

LEMMA SameData ==
  /\ Store!NoBlob = P!NoBlob /\ Store!Header = P!Header /\ Store!EmptyHeader = P!EmptyHeader
  /\ Store!NoWriter = P!NoWriter /\ Store!NewWriter = P!NewWriter
  /\ Store!Slots = P!Slots /\ Store!DataArea = P!DataArea
  BY DEF P!NoBlob, Store!NoBlob, P!Header, Store!Header, P!Blob, Store!Blob,
         P!EmptyHeader, Store!EmptyHeader, P!NoWriter, Store!NoWriter,
         P!NewWriter, Store!NewWriter, P!Slots, Store!Slots, P!DataArea, Store!DataArea

LEMMA SameReload ==
  /\ \A s, k : Store!Reload(s, k) = P!Reload(s, k)
  /\ \A s : Store!Reloads(s) = P!Reloads(s)
<1>1. \A s, k : Store!Scanned(s, k) = P!Scanned(s, k)
  BY SameData DEF P!Scanned, Store!Scanned
<1>2. \A s, k : Store!LastValid(s, k) = P!LastValid(s, k)
  BY <1>1 DEF P!LastValid, Store!LastValid
<1>3. \A s, k : Store!Reload(s, k) = P!Reload(s, k)
  BY <1>1, <1>2 DEF P!Reload, Store!Reload
<1>. QED
  BY <1>3 DEF P!Reloads, Store!Reloads

LEMMA SameContent ==
  /\ \A x, b : Store!Stands(x, b) <=> P!Stands(x, b)
  /\ \A h : Store!Content(h) = P!Content(h)
  /\ Store!Held = P!Held
<1>1. \A x, b : Store!Stands(x, b) <=> P!Stands(x, b)
  BY DEF P!Stands, Store!Stands, P!Extent, Store!Extent
<1>2. \A h : Store!Content(h) = P!Content(h)
  BY <1>1 DEF P!Content, Store!Content
<1>. QED
  BY <1>1, <1>2, SameReload DEF P!Held, Store!Held

LEMMA SameInit == Store!Init <=> P!Init
  BY SameData DEF P!Init, Store!Init

LEMMA SameSteps ==
  /\ Store!Begin <=> P!Begin
  /\ Store!BeginFails <=> P!BeginFails
  /\ \A c, b : Store!WriteBlob(c, b) <=> P!WriteBlob(c, b)
  /\ \A c, b : Store!WriteFails(c, b) <=> P!WriteFails(c, b)
  /\ Store!Commit <=> P!Commit
  /\ Store!CommitFails <=> P!CommitFails
  /\ Store!Abort <=> P!Abort
  /\ Store!Destroy <=> P!Destroy
  /\ Store!PowerLoss <=> P!PowerLoss
  /\ Store!Mount <=> P!Mount
<1>1. Store!Begin <=> P!Begin
  BY SameData DEF P!Begin, Store!Begin
<1>2. \A x, y, S : Store!Partly(x, y, S) = P!Partly(x, y, S)
  BY DEF P!Partly, Store!Partly
<1>3. Store!BeginFails <=> P!BeginFails
  BY <1>2, SameData DEF P!BeginFails, Store!BeginFails
<1>4. \A c, b, x : Store!Stored(c, b, x) = P!Stored(c, b, x)
  BY SameData DEF P!Stored, Store!Stored
<1>5. \A c, b : Store!WriteBlob(c, b) <=> P!WriteBlob(c, b)
  BY <1>4 DEF P!WriteBlob, Store!WriteBlob
<1>6. \A c, b : Store!WriteFails(c, b) <=> P!WriteFails(c, b)
  BY <1>2, <1>4 DEF P!WriteFails, Store!WriteFails
<1>7. Store!Commit <=> P!Commit
  BY SameReload DEF P!Commit, Store!Commit
<1>8. Store!CommitFails <=> P!CommitFails
  BY SameReload DEF P!CommitFails, Store!CommitFails
<1>9. Store!Abort <=> P!Abort
  BY SameData, SameReload DEF P!Abort, Store!Abort
<1>10. Store!Destroy <=> P!Destroy
  BY SameData DEF P!Destroy, Store!Destroy
<1>11. Store!PowerLoss <=> P!PowerLoss
  BY SameData DEF P!PowerLoss, Store!PowerLoss
<1>12. Store!Mount <=> P!Mount
  BY SameReload DEF P!Mount, Store!Mount
<1>. QED
  BY <1>1, <1>3, <1>5, <1>6, <1>7, <1>8, <1>9, <1>10, <1>11, <1>12

LEMMA SameNext == [Store!Next]_storeVars <=> [P!Next]_storeVars
<1>1. Store!Write <=> P!Write
  BY SameSteps DEF P!Write, Store!Write
<1>. QED
  BY <1>1, SameSteps DEF P!Next, Store!Next
-----------------------------------------------------------------------------
(***************************************************************************)
(* Every step of the partition is one of CardStore.                        *)
(***************************************************************************)
\* The SD card's file of a card that is shown is a card too.
LEMMA FileIsCard == ASSUME TypeOK, NEW p \in Paths PROVE <<p, file[p]>> \in Cards
  BY LastCardAssumption DEF TypeOK

LEMMA ReloadIsMount ==
  /\ P!Reload(slot, SlotCount) \in P!Reloads(slot)
  /\ hdr' \in P!Reloads(slot) /\ UNCHANGED <<slot, cell, wr>> => P!Mount
<1>1. SlotCount \in Nat
  BY StoreFits DEF P!StoreAssumption
<1>. QED
  BY <1>1 DEF P!Reloads, P!Mount

LEMMA SaveSteps ==
  ASSUME IInv,
         \/ SaveCheck \/ SaveBegin \/ SavePdf \/ CommitPdf
         \/ SaveDisplay \/ CommitDisplay \/ SaveClose
  PROVE  [P!Next]_storeVars
<1>. USE LastCardAssumption DEF At, Goto
<1>1. CASE SaveCheck
  <2>1. CASE UNCHANGED hdr
    BY <1>1, <2>1 DEF SaveCheck, storeVars
  <2>2. CASE hdr' = Store!Reload(slot, SlotCount)
    BY <1>1, <2>2, SameReload, ReloadIsMount DEF SaveCheck, P!Next
  <2>. QED
    BY <1>1, <2>1, <2>2 DEF SaveCheck
<1>2. CASE SaveBegin
  BY <1>2, SameSteps DEF SaveBegin, P!Next
<1>3. CASE SavePdf
  <2>1. wr.ok /\ wr.blobs["PDF"].n = 0
    BY <1>3 DEF SavePdf, IInv, Control, Writing, Working
  <2>2. shown.path \in Paths
    BY <1>3 DEF SavePdf, IInv, Control, ScreenIs, Sound, Working
  <2>3. <<shown.path, file[shown.path]>> \in Cards
    BY <2>2, FileIsCard DEF IInv, Types
  <2>. DEFINE c == <<shown.path, file[shown.path]>>
  <2>4. P!WriteBlob(c, "PDF") \/ P!WriteFails(c, "PDF") \/ UNCHANGED storeVars
    BY <1>3, SameSteps DEF SavePdf
  <2>. HIDE DEF c
  <2>5. P!Write \/ UNCHANGED storeVars
    BY <2>1, <2>3, <2>4 DEF P!Write, c
  <2>. QED
    BY <2>5 DEF P!Next
<1>4. CASE CommitPdf \/ CommitDisplay
  <2>1. wr.ok
    BY <1>4 DEF CommitPdf, CommitDisplay, IInv, Control, Working
  <2>2. P!Commit \/ P!CommitFails
    BY <1>4, SameSteps DEF CommitPdf, CommitDisplay
  <2>. QED
    BY <2>1, <2>2 DEF P!Next
<1>5. CASE SaveDisplay
  <2>1. wr.ok /\ wr.blobs["DISPLAY"].n = 0
    BY <1>5 DEF SaveDisplay, IInv, Control, Writing, Working
  <2>2. shown.view \in Cards
    BY <1>5 DEF SaveDisplay, IInv, Control, ScreenIs, Sound, Working
  <2>3. P!WriteBlob(shown.view, "DISPLAY") \/ P!WriteFails(shown.view, "DISPLAY")
    BY <1>5, SameSteps DEF SaveDisplay
  <2>4. P!Write
    BY <2>1, <2>2, <2>3 DEF P!Write
  <2>. QED
    BY <2>4 DEF P!Next
<1>6. CASE SaveClose
  BY <1>6, SameSteps DEF SaveClose, P!Next
<1>. QED
  BY <1>1, <1>2, <1>3, <1>4, <1>5, <1>6

LEMMA StoreSteps == IInv /\ [Next]_vars => [P!Next]_storeVars
<1>. SUFFICES ASSUME IInv, [Next]_vars
              PROVE  [P!Next]_storeVars
  OBVIOUS
<1>1. CASE UNCHANGED vars
  BY <1>1 DEF vars, storeVars
<1>2. CASE NvsWrite \/ Ui \/ SdCard
  <2>1. UNCHANGED storeVars
    BY <1>2 DEF NvsWrite, Ui, SdCard, OpenSd, OpenMy, Leave, Paint, Poll, CloseMenu, OpenMenu,
                Cover, CloseModal, Uncover
  <2>. QED
    BY <2>1
<1>3. CASE PowerLoss \/ PowerOff
  <2>1. P!PowerLoss \/ UNCHANGED storeVars
    BY <1>3, SameSteps DEF PowerLoss, PowerOff, Dark
  <2>. QED
    BY <2>1 DEF P!Next
<1>4. CASE Boot
  <2>1. CASE BootCache
    BY <1>4, <2>1, SameReload, ReloadIsMount DEF Boot, BootCache, P!Next
  <2>2. CASE BootMy \/ BootSd \/ BootHome
    BY <1>4, <2>2 DEF Boot, BootMy, BootSd, BootHome, storeVars
  <2>. QED
    BY <1>4, <2>1, <2>2 DEF Boot
<1>5. CASE Sleep \/ Uncache \/ SetPath \/ Wake
  BY <1>5 DEF Sleep, Uncache, SetPath, Wake, storeVars
<1>. QED
  BY <1>1, <1>2, <1>3, <1>4, <1>5, SaveSteps DEF Next, GoToSleep

LEMMA StoreKept == IInv /\ [Next]_vars => P!StoreInv'
<1>1. P!StoreInv /\ [P!Next]_storeVars => P!StoreInv'
  BY StoreFits, P!StepInv DEF storeVars, P!storeVars
<1>. QED
  BY <1>1, StoreSteps DEF IInv
-----------------------------------------------------------------------------
(***************************************************************************)
(* What the steps have in common.                                          *)
(***************************************************************************)
\* What is held changes with the slots only.
LEMMA HeldKept ==
  ASSUME IInv, P!StoreInv', slot' = slot
  PROVE  P!Held' = P!Held
  BY StoreFits, P!SameHeld DEF IInv

LEMMA TwoAndOne ==
  ASSUME NEW S, NEW x \in S, NEW y \in S, NEW z \in S
  PROVE  /\ <<x, y>> \o <<z>> \in Seq(S) /\ Len(<<x, y>> \o <<z>>) = 3
         /\ (<<x, y>> \o <<z>>)[1] = x /\ (<<x, y>> \o <<z>>)[2] = y /\ (<<x, y>> \o <<z>>)[3] = z
<1>. DEFINE q == <<x, y>>
            r == <<z>>
<1>1. q \in Seq(S) /\ Len(q) = 2 /\ q[1] = x /\ q[2] = y
  OBVIOUS
<1>2. r \in Seq(S) /\ Len(r) = 1 /\ r[1] = z
  OBVIOUS
<1>. HIDE DEF q, r
<1>3. q \o r \in Seq(S) /\ Len(q \o r) = 3
  <2>1. q \o r \in Seq(S)
    BY <1>1, <1>2, ConcatProperties
  <2>2. Len(q \o r) = Len(q) + Len(r)
    BY <1>1, <1>2, ConcatProperties
  <2>. QED
    BY <1>1, <1>2, <2>1, <2>2
<1>4. (q \o r)[1] = q[1] /\ (q \o r)[2] = q[2] /\ (q \o r)[3] = r[1]
  BY <1>1, <1>2, ConcatProperties
<1>. QED
  BY <1>1, <1>2, <1>3, <1>4 DEF q, r

\* The NVS writes of onAppear, of leave() and of set_clean_resume.
LEMMA Queued ==
  ASSUME NEW s \in ScreenType, NEW c \in BOOLEAN
  PROVE  LET q == Save(s) \o Clean(c) IN
         /\ q \in Seq(Entries) /\ Len(q) = 3
         /\ \A x : Ends(q, "src", x, s.src) /\ Ends(q, "path", x, s.path) /\ Ends(q, "clean", x, c)
<1>. DEFINE q == Save(s) \o Clean(c)
<1>1. q = <<Set("src", s.src), Set("path", s.path)>> \o <<Set("clean", c)>>
  BY DEF Save, Clean
<1>2. /\ Set("src", s.src) \in Entries /\ Set("path", s.path) \in Entries
      /\ Set("clean", c) \in Entries
  BY DEF Set, Entries, ScreenType
<1>3. q \in Seq(Entries) /\ Len(q) = 3
  BY <1>1, <1>2, TwoAndOne
<1>4. /\ q[1] = Set("src", s.src) /\ q[2] = Set("path", s.path) /\ q[3] = Set("clean", c)
  BY <1>1, <1>2, TwoAndOne
<1>. HIDE DEF q
<1>5. \A i \in 1 .. Len(q) : i = 1 \/ i = 2 \/ i = 3
  BY <1>3
<1>6. /\ q[1].key = "src" /\ q[2].key = "path" /\ q[3].key = "clean"
      /\ q[1].val = s.src /\ q[2].val = s.path /\ q[3].val = c
  BY <1>4 DEF Set
<1>7. 1 \in 1 .. Len(q) /\ 2 \in 1 .. Len(q) /\ 3 \in 1 .. Len(q)
  BY <1>3
<1>8. \A x : Ends(q, "src", x, s.src)
  BY <1>5, <1>6, <1>7 DEF Ends, Only
<1>9. \A x : Ends(q, "path", x, s.path)
  BY <1>5, <1>6, <1>7 DEF Ends, Only
<1>10. \A x : Ends(q, "clean", x, c)
  BY <1>5, <1>6, <1>7 DEF Ends, Only
<1>. QED
  BY <1>3, <1>8, <1>9, <1>10 DEF q

LEMMA QueuedClear ==
  ASSUME NEW c \in BOOLEAN
  PROVE  /\ Clear \o Clean(c) \in Seq(Entries) /\ Len(Clear \o Clean(c)) = 3
         /\ Clear \in Seq(Entries) /\ Len(Clear) = 2
<1>1. Clear \o Clean(c) = <<Set("src", "none"), Set("path", None)>> \o <<Set("clean", c)>>
  BY DEF Clear, Clean
<1>2. Clear = <<Set("src", "none"), Set("path", None)>>
  BY DEF Clear
<1>3. /\ Set("src", "none") \in Entries /\ Set("path", None) \in Entries /\ Set("clean", c) \in Entries
  BY DEF Set, Entries
<1>. QED
  BY <1>1, <1>2, <1>3, TwoAndOne

LEMMA QueuedClean ==
  ASSUME NEW c \in BOOLEAN
  PROVE  /\ Clean(c) \in Seq(Entries) /\ Len(Clean(c)) = 1
         /\ \A x, v : Ends(Clean(c), "src", x, v) <=> x \in {v, "none"}
         /\ \A x, v : Ends(Clean(c), "path", x, v) <=> x \in {v, None}
         /\ \A x : Ends(Clean(c), "clean", x, c)
         /\ \A v : Only(Clean(c), "path", v)
<1>. DEFINE q == Clean(c)
<1>1. q = <<Set("clean", c)>>
  BY DEF Clean
<1>2. Set("clean", c) \in Entries
  BY DEF Set, Entries
<1>3. q \in Seq(Entries) /\ Len(q) = 1 /\ q[1] = Set("clean", c)
  BY <1>1, <1>2
<1>. HIDE DEF q
<1>4. \A i \in 1 .. Len(q) : i = 1
  BY <1>3
<1>5. q[1].key = "clean" /\ q[1].val = c /\ 1 \in 1 .. Len(q)
  BY <1>3 DEF Set
<1>6. \A x, v : Ends(q, "src", x, v) <=> x \in {v, "none"}
  BY <1>4, <1>5 DEF Ends, Only, Blank
<1>7. \A x, v : Ends(q, "path", x, v) <=> x \in {v, None}
  BY <1>4, <1>5 DEF Ends, Only, Blank
<1>8. \A x : Ends(q, "clean", x, c)
  BY <1>4, <1>5 DEF Ends, Only
<1>9. \A v : Only(q, "path", v)
  BY <1>4, <1>5 DEF Only
<1>. QED
  BY <1>3, <1>6, <1>7, <1>8, <1>9 DEF q

LEMMA QueuedNothing ==
  /\ <<>> \in Seq(Entries) /\ Len(<<>>) = 0
  /\ \A x, v : Ends(<<>>, "src", x, v) <=> x \in {v, "none"}
  /\ \A x, v : Ends(<<>>, "path", x, v) <=> x \in {v, None}
  /\ \A x, v : Ends(<<>>, "clean", x, v) <=> x \in {v, FALSE}
  /\ \A k, v : Only(<<>>, k, v)
  BY DEF Ends, Only, Blank

\* A write that is made is one less to make.
LEMMA EndsOfTail ==
  ASSUME NEW q \in Seq(Entries), q # <<>>, NEW k, NEW x, NEW y, NEW v, Ends(q, k, x, v),
         y \in IF Head(q).key = k THEN {Head(q).val, Blank[k]} ELSE {x}
  PROVE  Ends(Tail(q), k, y, v)
<1>1. /\ Len(q) \in Nat /\ Len(q) > 0 /\ Head(q) = q[1]
      /\ Len(Tail(q)) = Len(q) - 1
      /\ \A i \in 1 .. Len(q) - 1 : Tail(q)[i] = q[i + 1]
  BY HeadTailProperties, EmptySeq, LenProperties
<1>2. \A i \in 1 .. Len(Tail(q)) : Tail(q)[i] = q[i + 1] /\ i + 1 \in 1 .. Len(q)
  BY <1>1
<1>3. \A i \in 1 .. Len(Tail(q)) : Tail(q)[i].key = k => Tail(q)[i].val = v
  BY <1>2 DEF Ends, Only
<1>4. ASSUME \A i \in 1 .. Len(Tail(q)) : Tail(q)[i].key # k
      PROVE  y \in {v, Blank[k]}
  <2>1. CASE Head(q).key = k
    BY <1>1, <2>1 DEF Ends, Only
  <2>2. CASE Head(q).key # k
    <3>1. \A i \in 1 .. Len(q) : q[i].key # k
      <4>. TAKE i \in 1 .. Len(q)
      <4>1. CASE i = 1
        BY <1>1, <2>2, <4>1
      <4>2. CASE i # 1
        <5>1. i - 1 \in 1 .. Len(Tail(q)) /\ (i - 1) + 1 = i
          BY <1>1, <4>2
        <5>. QED
          BY <1>2, <1>4, <5>1
      <4>. QED
        BY <4>1, <4>2
    <3>. QED
      BY <2>2, <3>1 DEF Ends
  <2>. QED
    BY <2>1, <2>2
<1>. QED
  BY <1>3, <1>4 DEF Ends, Only

LEMMA OnlyOfTail ==
  ASSUME NEW q \in Seq(Entries), q # <<>>, NEW k, NEW v, Only(q, k, v)
  PROVE  Only(Tail(q), k, v)
<1>1. /\ Len(q) \in Nat /\ Len(Tail(q)) = Len(q) - 1
      /\ \A i \in 1 .. Len(q) - 1 : Tail(q)[i] = q[i + 1]
  BY HeadTailProperties, EmptySeq, LenProperties
<1>. QED
  BY <1>1 DEF Only

\* A write that fails leaves the value as it is: a blank one, or else the key is stuck.
LEMMA PutEntry ==
  ASSUME Types, NEW e \in Entries, Put(e.key, e.val)
  PROVE  /\ nvs' \in [src : {"none", "my", "sd"}, path : Paths \cup {None},
                     cpath : Paths \cup {None}, clean : BOOLEAN]
         /\ nvs'.cpath = nvs.cpath /\ stuck \subseteq stuck' /\ stuck' \subseteq Unreliable
         /\ \A k \in {"src", "path", "clean"} : k \notin stuck' =>
              nvs'[k] \in IF e.key = k THEN {e.val, Blank[k]} ELSE {nvs[k]}
<1>1. /\ nvs \in [src : {"none", "my", "sd"}, path : Paths \cup {None},
                  cpath : Paths \cup {None}, clean : BOOLEAN]
      /\ stuck \subseteq Unreliable
  BY DEF Types, TypeOK
<1>2. CASE nvs' = [nvs EXCEPT ![e.key] = e.val] /\ stuck' = stuck
  BY <1>1, <1>2 DEF Entries
<1>3. CASE /\ e.key \in Unreliable /\ nvs' = nvs
           /\ stuck' = IF nvs[e.key] = Blank[e.key] THEN stuck ELSE stuck \cup {e.key}
  BY <1>1, <1>3
<1>. QED
  BY <1>2, <1>3 DEF Put

\* The same of cpath, which only save_cache writes.
LEMMA PutPath ==
  ASSUME Types, NEW p \in Paths \cup {None}, Put("cpath", p)
  PROVE  /\ nvs' = nvs \/ \E x \in Paths \cup {None} : nvs' = [nvs EXCEPT !.cpath = x]
         /\ stuck' \in {stuck, stuck \cup {"cpath"}} /\ stuck' \subseteq Unreliable
         /\ "cpath" \notin stuck' => nvs'.cpath = p \/ (nvs'.cpath = None /\ nvs.cpath = None)
<1>1. /\ nvs \in [src : {"none", "my", "sd"}, path : Paths \cup {None},
                  cpath : Paths \cup {None}, clean : BOOLEAN]
      /\ stuck \subseteq Unreliable
  BY DEF Types, TypeOK
<1>2. Blank.cpath = None
  BY DEF Blank
<1>. QED
  BY <1>1, <1>2 DEF Put
-----------------------------------------------------------------------------
(***************************************************************************)
(* The initial states.                                                     *)
(***************************************************************************)
LEMMA NoScreenFacts ==
  /\ NoScreen \in ScreenType /\ Sound(NoScreen)
  /\ NoScreen.src = "none" /\ NoScreen.path = None /\ NoScreen.state = "none"
  /\ NoScreen.view = None /\ NoScreen.map.n = 0 /\ NoScreen.map = P!NoBlob
  /\ NoScreen.cover = "menu" /\ NoScreen.painted /\ ~NoScreen.clean /\ ~NoScreen.adopt
<1>1. P!NoBlob \in P!Blob /\ P!NoBlob.n = 0
  BY DEF P!NoBlob, P!Blob
<1>2. NoScreen.map = P!NoBlob
  BY SameData DEF NoScreen
<1>3. NoScreen \in ScreenType
  BY <1>1, SameData DEF NoScreen, ScreenType
<1>. QED
  BY <1>1, <1>2, <1>3 DEF NoScreen, Sound

LEMMA InitInv == Init => IInv
<1>. SUFFICES ASSUME Init PROVE IInv
  OBVIOUS
<1>1. P!StoreInv
  BY StoreFits, SameInit, P!InitInv DEF Init
<1>2. Types
  <2>1. due \in Seq(Entries) /\ Len(due) <= 3
    BY QueuedNothing DEF Init
  <2>2. shown \in ScreenType /\ shown.view = None /\ pc \in Points
    BY NoScreenFacts DEF Init, Points
  <2>3. TypeOK
    BY <2>1, <2>2 DEF Init, TypeOK, Blank
  <2>. QED
    BY <2>1, <2>2, <2>3 DEF Types
<1>3. ~wr.active
  BY SameData DEF Init, Store!Init, P!NoWriter
<1>4. Control /\ Writing
  BY <1>3 DEF Init, Control, Writing, Working
<1>5. ScreenIs /\ Mapped
  BY NoScreenFacts DEF Init, ScreenIs, Mapped, Sound
<1>6. Cached
  BY DEF Init, Cached, Blank
<1>. QED
  BY <1>1, <1>2, <1>4, <1>5, <1>6 DEF IInv
-----------------------------------------------------------------------------
(***************************************************************************)
(* The steps of the user interface and of a boot leave the slots and cpath *)
(* alone; what they do to the screen and to NVS goes together.             *)
(***************************************************************************)
SameCard == shown'.src = shown.src /\ shown'.path = shown.path

\* The NVS writes of a call that has just begun, or none.
DueNow ==
  \/ SameCard /\ due' = due
  \/ SameCard /\ due = <<>> /\ \E c \in BOOLEAN : due' = Clean(c)
  \/ \E c \in BOOLEAN : due' = Save(shown') \o Clean(c)
  \/ shown'.src = "none" /\ due' \in {<<>>, Clear, Clear \o Clean(FALSE)}

LEMMA ScreenKept ==
  ASSUME IInv, shown' \in ScreenType, Sound(shown'), DueNow, nvs' = nvs, stuck' = stuck
  PROVE  ScreenIs' /\ due' \in Seq(Entries) /\ Len(due') <= 3
<1>1. CASE SameCard /\ due' = due
  BY <1>1 DEF IInv, Types, TypeOK, ScreenIs, SameCard, Sound
<1>2. CASE SameCard /\ due = <<>> /\ \E c \in BOOLEAN : due' = Clean(c)
  <2>1. PICK c \in BOOLEAN : due' = Clean(c)
    BY <1>2, Zenon
  <2>2. shown.src # "none" =>
          /\ "src" \notin stuck => nvs.src \in {shown.src, "none"}
          /\ "path" \notin stuck => nvs.path \in {shown.path, None}
    BY <1>2, QueuedNothing DEF IInv, ScreenIs
  <2>3. /\ Clean(c) \in Seq(Entries) /\ Len(Clean(c)) = 1
        /\ \A x, v : Ends(Clean(c), "src", x, v) <=> x \in {v, "none"}
        /\ \A x, v : Ends(Clean(c), "path", x, v) <=> x \in {v, None}
        /\ \A v : Only(Clean(c), "path", v)
    BY QueuedClean
  <2>4. shown'.src # "none" =>
          /\ Only(due', "path", shown'.path)
          /\ "src" \notin stuck' => Ends(due', "src", nvs'.src, shown'.src)
          /\ "path" \notin stuck' => Ends(due', "path", nvs'.path, shown'.path)
    BY <1>2, <2>1, <2>2, <2>3 DEF SameCard
  <2>. QED
    BY <2>1, <2>3, <2>4 DEF ScreenIs, Sound
<1>3. CASE \E c \in BOOLEAN : due' = Save(shown') \o Clean(c)
  <2>1. PICK c \in BOOLEAN : due' = Save(shown') \o Clean(c)
    BY <1>3, Zenon
  <2>. DEFINE s == shown'
  <2>2. s \in ScreenType
    OBVIOUS
  <2>. HIDE DEF s
  <2>3. LET q == Save(s) \o Clean(c) IN
         /\ q \in Seq(Entries) /\ Len(q) = 3
         /\ \A x : Ends(q, "src", x, s.src) /\ Ends(q, "path", x, s.path) /\ Ends(q, "clean", x, c)
    BY <2>2, Queued
  <2>4. \A q : Ends(q, "path", nvs.path, s.path) => Only(q, "path", s.path)
    BY DEF Ends
  <2>. QED
    BY <2>1, <2>3, <2>4 DEF ScreenIs, s, Sound
<1>4. CASE shown'.src = "none" /\ due' \in {<<>>, Clear, Clear \o Clean(FALSE)}
  <2>1. due' \in Seq(Entries) /\ Len(due') <= 3
    <3>1. FALSE \in BOOLEAN
      OBVIOUS
    <3>2. /\ Clear \o Clean(FALSE) \in Seq(Entries) /\ Len(Clear \o Clean(FALSE)) = 3
          /\ Clear \in Seq(Entries) /\ Len(Clear) = 2
      BY <3>1, QueuedClear
    <3>3. CASE due' = <<>>
      BY <3>3, QueuedNothing
    <3>4. CASE due' = Clear
      <4>1. Len(due') = 2 /\ due' \in Seq(Entries)
        BY <3>2, <3>4
      <4>. QED
        BY <4>1
    <3>5. CASE due' = Clear \o Clean(FALSE)
      <4>1. Len(due') = 3 /\ due' \in Seq(Entries)
        BY <3>2, <3>5
      <4>. QED
        BY <4>1
    <3>. QED
      BY <1>4, <3>3, <3>4, <3>5
  <2>. QED
    BY <1>4, <2>1 DEF ScreenIs, Sound
<1>. QED
  BY <1>1, <1>2, <1>3, <1>4 DEF DueNow

\* A blob on screen from the flash stays the same, or there is none.
MapNow ==
  \/ shown'.map.n = 0
  \/ SameCard /\ shown'.state = shown.state /\ shown'.view = shown.view /\ shown'.map = shown.map
  \/ Mapped'

LEMMA Keeps ==
  ASSUME IInv, P!StoreInv', slot' = slot, wr' = wr, nvs'.cpath = nvs.cpath, stuck \subseteq stuck', on',
         pc \notin Working, pc' \in {"ui", "check", "off", "pending"},
         pc' = "off" => due' = <<>>,
         Types', ScreenIs', MapNow
  PROVE  IInv'
<1>1. Cached'
  BY HeldKept DEF IInv, Cached
<1>2. Mapped'
  BY DEF MapNow, SameCard, IInv, Mapped
<1>3. Writing'
  BY DEF Writing, Working
<1>4. Control'
  BY DEF IInv, Control, Working
<1>. QED
  BY <1>1, <1>2, <1>3, <1>4 DEF IInv

LEMMA UiKeeps ==
  ASSUME IInv, P!StoreInv', slot' = slot, wr' = wr, nvs' = nvs, stuck' = stuck, on',
         on' \in BOOLEAN, pc \notin Working, pc' \in {"ui", "check", "pending"},
         slept' \in {"no", slept}, glass' \in Cards \cup {My, None},
         file' = file, sdIn' = sdIn, mounted' \in BOOLEAN,
         shown' \in ScreenType, Sound(shown'), DueNow, MapNow
  PROVE  IInv'
<1>1. ScreenIs' /\ due' \in Seq(Entries) /\ Len(due') <= 3
  BY ScreenKept
<1>2. shown'.view \in Cards \cup {My, None}
  BY DEF ScreenType
<1>3. TypeOK'
  BY <1>1, <1>2 DEF IInv, Types, TypeOK
<1>4. Types'
  BY <1>1, <1>3 DEF Types, Points
<1>. QED
  BY <1>1, <1>4, Keeps

\* s and t show the same, wherever the menu is and whatever is painted.
Alike(s, t) ==
  /\ s.src = t.src /\ s.path = t.path /\ s.state = t.state /\ s.view = t.view
  /\ s.map = t.map

LEMMA SoundAlike ==
  ASSUME NEW s, NEW t, Sound(s), s.src # "none", Alike(s, t)
  PROVE  Sound(t)
  BY DEF Sound, Alike

\* The screen is the same, behind or before something else.
LEMMA SameScreen ==
  ASSUME IInv, P!StoreInv', UNCHANGED <<storeVars, nvs, stuck, file, sdIn, mounted>>,
         on, on' = on, due = <<>>, pc \notin Working, pc' \in {"ui", "check", "pending"},
         slept' \in {"no", slept}, glass' \in Cards \cup {My, None},
         shown.src # "none", shown' \in ScreenType, Alike(shown, shown'),
         \/ due' = due
         \/ \E c \in BOOLEAN : due' = Clean(c)
         \/ \E c \in BOOLEAN : due' = Save(shown') \o Clean(c)
  PROVE  IInv'
<1>1. Sound(shown')
  BY SoundAlike DEF IInv, ScreenIs
<1>2. DueNow
  BY DEF DueNow, SameCard, Alike
<1>3. MapNow
  BY DEF MapNow, SameCard, Alike
<1>4. on' /\ on' \in BOOLEAN /\ mounted' \in BOOLEAN
  BY DEF IInv, Types, TypeOK
<1>. QED
  BY <1>1, <1>2, <1>3, <1>4, UiKeeps DEF storeVars

LEMMA CoverSteps ==
  ASSUME IInv, P!StoreInv',
         Paint \/ CloseMenu \/ OpenMenu \/ Cover \/ CloseModal \/ Uncover \/ Sleep,
         shown.src # "none"
  PROVE  IInv'
<1>. USE DEF AtRest, Running, Draw
<1>1. /\ on /\ due = <<>> /\ pc \notin Working /\ (pc = "ui" \/ (Paint /\ pc = "pending"))
      /\ shown \in ScreenType /\ shown.view \in Cards \cup {My, None}
      /\ glass \in Cards \cup {My, None} /\ shown.card \in BOOLEAN /\ shown.clean \in BOOLEAN
  BY DEF IInv, Types, TypeOK, ScreenType, Paint, CloseMenu, OpenMenu, Cover, CloseModal,
         Uncover, Sleep, Working
<1>2. \A s : CleanResumable(s) \in BOOLEAN
  BY DEF CleanResumable
<1>3. CASE Paint
  <2>1. shown' \in ScreenType /\ Alike(shown, shown')
    BY <1>1, <1>3 DEF Paint, ScreenType, Alike
  <2>. QED
    BY <1>1, <1>3, <2>1, SameScreen DEF Paint, sdVars
<1>4. CASE CloseMenu
  <2>1. shown' \in ScreenType /\ Alike(shown, shown')
    BY <1>1, <1>4 DEF CloseMenu, ScreenType, Alike
  <2>. QED
    BY <1>1, <1>4, <2>1, SameScreen DEF CloseMenu, sdVars
<1>5. CASE OpenMenu
  <2>1. shown' \in ScreenType /\ Alike(shown, shown')
    BY <1>1, <1>5 DEF OpenMenu, ScreenType, Alike
  <2>. QED
    BY <1>1, <1>5, <2>1, SameScreen DEF OpenMenu, sdVars
<1>6. CASE Cover
  <2>1. shown' \in ScreenType /\ Alike(shown, shown')
    <3>1. PICK c \in {"modal", "screen"} :
            shown' = [shown EXCEPT !.cover = c, !.adopt = FALSE, !.painted = TRUE,
                                   !.stray = shown.stray /\ c = "screen",
                                   !.clean = shown.clean /\ c = "modal"]
      BY <1>6 DEF Cover
    <3>2. (shown.clean /\ c = "modal") \in BOOLEAN /\ (shown.stray /\ c = "screen") \in BOOLEAN
      OBVIOUS
    <3>. QED
      BY <1>1, <3>1, <3>2 DEF ScreenType, Alike
  <2>2. \E c \in BOOLEAN : due' = Clean(c)
    BY <1>6 DEF Cover
  <2>. QED
    BY <1>1, <1>6, <2>1, <2>2, SameScreen DEF Cover, sdVars
<1>7. CASE CloseModal
  <2>1. shown' \in ScreenType /\ Alike(shown, shown')
    BY <1>1, <1>7 DEF CloseModal, ScreenType, Alike
  <2>2. \E c \in BOOLEAN : due' = Clean(c)
    BY <1>2, <1>7 DEF CloseModal
  <2>. QED
    BY <1>1, <1>7, <2>1, <2>2, SameScreen DEF CloseModal, sdVars
<1>8. CASE Uncover
  <2>1. shown' \in ScreenType /\ Alike(shown, shown')
    BY <1>1, <1>8 DEF Uncover, Appear, ScreenType, Alike
  <2>2. \E c \in BOOLEAN : due' = Save(shown') \o Clean(c)
    BY <1>2, <1>8 DEF Uncover, Appear
  <2>. QED
    BY <1>1, <1>8, <2>1, <2>2, SameScreen DEF Uncover, sdVars
<1>9. CASE Sleep
  <2>1. shown' \in ScreenType /\ Alike(shown, shown')
    <3>1. shown' = shown
            \/ shown' = [shown EXCEPT !.cover = "no", !.stray = FALSE, !.painted = TRUE]
      BY <1>9 DEF Sleep
    <3>. QED
      BY <1>1, <3>1 DEF ScreenType, Alike
  <2>2. due' = due \/ \E c \in BOOLEAN : due' = Save(shown') \o Clean(c)
    <3>1. Save(shown') = Save(shown)
      BY <2>1 DEF Save, Alike
    <3>. QED
      BY <1>2, <1>9, <3>1 DEF Sleep
  <2>. QED
    BY <1>1, <1>9, <2>1, <2>2, SameScreen DEF Sleep, Goto, sdVars
<1>. QED
  BY <1>3, <1>4, <1>5, <1>6, <1>7, <1>8, <1>9

LEMMA Appears ==
  ASSUME NEW s \in ScreenType, Sound(s), Appear(s)
  PROVE  shown' \in ScreenType /\ Sound(shown') /\ DueNow
<1>1. CleanResumable(s) \in BOOLEAN
  BY DEF CleanResumable
<1>. QED
  BY <1>1 DEF Appear, DueNow

LEMMA Resumes ==
  ASSUME IInv, NEW s \in ScreenType, Sound(s), s.src # "none", Resume(s)
  PROVE  shown' \in ScreenType /\ Sound(shown') /\ DueNow /\ Alike(s, shown')
<1>1. PICK c \in {nvs.clean, FALSE} : Appear([s EXCEPT !.adopt = c, !.clean = c])
  BY DEF Resume
<1>2. c \in BOOLEAN
  BY DEF IInv, Types, TypeOK
<1>. DEFINE t == [s EXCEPT !.adopt = c, !.clean = c]
<1>3. t \in ScreenType
  BY <1>2 DEF ScreenType
<1>4. Alike(s, t)
  BY DEF ScreenType, Alike
<1>5. Sound(t)
  BY <1>4, SoundAlike
<1>. HIDE DEF t
<1>6. shown' \in ScreenType /\ Sound(shown') /\ DueNow
  BY <1>1, <1>3, <1>5, Appears DEF t
<1>7. shown' = t
  BY <1>1 DEF Appear, t
<1>. QED
  BY <1>4, <1>6, <1>7

\* The screen of My Card.
LEMMA MyScreenFacts ==
  MyScreen \in ScreenType /\ Sound(MyScreen) /\ MyScreen.src = "my" /\ MyScreen.map.n = 0
<1>1. Store!NoBlob \in P!Blob /\ Store!NoBlob.n = 0
  BY SameData DEF P!NoBlob, P!Blob
<1>. QED
  BY <1>1 DEF MyScreen, Screen, NoScreen, ScreenType, Sound

\* The screens of a card from the SD card: loaded, being loaded, or failed to load.
LEMMA SdScreenFacts ==
  ASSUME NEW p \in Paths, NEW k \in BOOLEAN, NEW st \in {"ok", "loading", "failed"},
         NEW c \in Cards \cup {None},
         IF st = "ok" THEN c \in Cards /\ ("cpath" \notin stuck => c[1] = p) ELSE c = None
  PROVE  LET s == Screen("sd", p, st, c, k) IN
         s \in ScreenType /\ Sound(s) /\ s.src = "sd" /\ s.map.n = 0 /\ s.view = c
           /\ s.path = p /\ s.state = st
<1>1. Store!NoBlob \in P!Blob /\ Store!NoBlob.n = 0
  BY SameData DEF P!NoBlob, P!Blob
<1>. QED
  BY <1>1 DEF Screen, NoScreen, ScreenType, Sound

LEMMA OpenSteps ==
  ASSUME IInv, P!StoreInv', OpenMy \/ \E p \in Paths : OpenSd(p)
  PROVE  IInv'
<1>1. /\ on /\ pc = "ui" /\ slept' = slept /\ glass' = glass /\ file' = file /\ sdIn' = sdIn
      /\ on' = on /\ pc' = pc /\ UNCHANGED storeVars /\ nvs' = nvs /\ stuck' = stuck
      /\ mounted' \in {TRUE, mounted} /\ pc \notin Working
  BY DEF Working, OpenMy, OpenSd, AtRest, sdVars
<1>2. shown' \in ScreenType /\ Sound(shown') /\ DueNow /\ shown'.map.n = 0
  <2>1. CASE OpenMy
    <3>1. Appear(MyScreen)
      BY <2>1 DEF OpenMy
    <3>. QED
      BY <3>1, MyScreenFacts, Appears DEF Appear
  <2>2. CASE \E p \in Paths : OpenSd(p)
    <3>1. PICK p \in Paths : OpenSd(p)
      BY <2>2
    <3>. DEFINE c == <<p, file[p]>>
                k == p \in CardPaths
                s == Screen("sd", p, "ok", c, k)
    <3>2. c \in Cards /\ c[1] = p /\ k \in BOOLEAN
      BY FileIsCard DEF IInv, Types
    <3>3. Appear(s)
      BY <3>1 DEF OpenSd
    <3>. HIDE DEF c, k
    <3>4. s \in ScreenType /\ Sound(s) /\ s.map.n = 0
      BY <3>2, SdScreenFacts
    <3>. HIDE DEF s
    <3>. QED
      BY <3>3, <3>4, Appears DEF Appear
  <2>. QED
    BY <2>1, <2>2
<1>3. MapNow
  BY <1>2 DEF MapNow
<1>4. on' \in BOOLEAN /\ on' /\ glass' \in Cards \cup {My, None} /\ mounted' \in BOOLEAN
  BY <1>1 DEF IInv, Types, TypeOK
<1>. QED
  BY <1>1, <1>2, <1>3, <1>4, UiKeeps DEF storeVars

LEMMA LeaveSteps ==
  ASSUME IInv, P!StoreInv', Leave \/ Poll \/ (Sleep /\ shown.src = "none")
  PROVE  IInv'
<1>1. /\ on /\ pc \notin Working /\ file' = file /\ sdIn' = sdIn
      /\ pc' \in {"ui", "check", "pending"}
      /\ on' = on /\ UNCHANGED storeVars /\ nvs' = nvs /\ stuck' = stuck /\ mounted' = mounted
  BY DEF Leave, Poll, Sleep, AtRest, Running, Goto, sdVars, Working
<1>2. /\ shown' \in ScreenType /\ Sound(shown') /\ DueNow /\ MapNow
      /\ slept' \in {"no", slept} /\ glass' \in Cards \cup {My, None}
  <2>1. CASE shown' = NoScreen /\ due' = Clear \o Clean(FALSE) /\ Draw(None)
    BY <2>1, NoScreenFacts DEF DueNow, MapNow, Draw
  <2>2. CASE Leave
    BY <2>1, <2>2 DEF Leave
  <2>3. CASE Poll /\ ~(shown' = NoScreen /\ due' = Clear \o Clean(FALSE) /\ Draw(None))
    <3>1. /\ shown.state = "loading"
          /\ shown' = [shown EXCEPT !.state = "ok", !.view = <<shown.path, file[shown.path]>>,
                                    !.painted = shown.cover \in {"modal", "screen"},
                                    !.adopt = shown.clean /\ shown.cover = "menu"]
          /\ due' = Clean(CleanResumable(shown')) /\ due = <<>>
          /\ UNCHANGED <<glass, slept>>
      BY <2>3 DEF Poll, Running
    <3>2. shown \in ScreenType /\ shown.src = "sd" /\ shown.path \in Paths
      BY <3>1, NoScreenFacts DEF IInv, Types, ScreenIs, Sound, ScreenType
    <3>3. shown.map.n = 0
      BY <3>1, <3>2 DEF IInv, Mapped, ScreenType, P!Blob
    <3>. DEFINE c == <<shown.path, file[shown.path]>>
                x == shown.cover \in {"modal", "screen"}
                y == (shown.clean /\ shown.cover = "menu")
    <3>4. c \in Cards /\ c[1] = shown.path /\ x \in BOOLEAN /\ y \in BOOLEAN
      BY <3>2, FileIsCard DEF IInv, Types
    <3>5. shown' = [shown EXCEPT !.state = "ok", !.view = c, !.painted = x, !.adopt = y]
      BY <3>1
    <3>. HIDE DEF c, x, y
    <3>6. shown' \in ScreenType
      BY <3>2, <3>4, <3>5 DEF ScreenType
    <3>7. /\ shown'.src = "sd" /\ shown'.path = shown.path /\ shown'.state = "ok"
          /\ shown'.view = c /\ shown'.map = shown.map
      BY <3>2, <3>5 DEF ScreenType
    <3>8. Sound(shown')
      BY <3>2, <3>4, <3>7 DEF Sound
    <3>9. \E k \in BOOLEAN : due' = Clean(k)
      BY <3>1 DEF CleanResumable
    <3>10. DueNow
      BY <3>1, <3>2, <3>7, <3>9 DEF DueNow, SameCard
    <3>11. MapNow
      BY <3>3, <3>7 DEF MapNow
    <3>12. slept' = slept /\ glass' \in Cards \cup {My, None}
      BY <3>1 DEF IInv, Types, TypeOK
    <3>. QED
      BY <3>6, <3>8, <3>10, <3>11, <3>12
  <2>4. CASE Sleep /\ shown.src = "none"
    <3>1. shown = NoScreen
      BY <2>4 DEF IInv, ScreenIs, Sound
    <3>2. shown' = NoScreen /\ due' = <<>> /\ Draw(None)
      BY <2>4, <3>1, NoScreenFacts DEF Sleep
    <3>. QED
      BY <3>2, NoScreenFacts DEF DueNow, MapNow, Draw
  <2>. QED
    BY <2>1, <2>2, <2>3, <2>4
<1>3. on' \in BOOLEAN /\ on' /\ mounted' \in BOOLEAN
  BY <1>1 DEF IInv, Types, TypeOK
<1>. QED
  BY <1>1, <1>2, <1>3, UiKeeps DEF storeVars

\* What a reader of the cache finds, whichever header it takes: one card of the path
\* that cpath says.
LEMMA ReadsCard ==
  ASSUME IInv, nvs.cpath # None, NEW h \in Store!Reloads(slot), h # None,
         NEW b \in BlobId, h[b].n > 0
  PROVE  LET r == P!Reload(slot, SlotCount) IN
         /\ r # None /\ r[b] = h[b] /\ h[b] \in P!Blob
         /\ Store!Content(h)[b] = h[b].crc /\ P!Held[b] = h[b].crc
         /\ h[b].crc \in Cards /\ ("cpath" \notin stuck => h[b].crc[1] = nvs.cpath)
<1>. DEFINE r == P!Reload(slot, SlotCount)
<1>1. h \in P!Reloads(slot)
  BY SameReload
<1>2. h \in P!Header /\ P!Whole(h) /\ r \in P!Header /\ P!Within(h, r)
  BY <1>1, StoreFits, P!ReaderWithin DEF IInv
<1>3. r # None
  BY <1>2, StoreFits DEF P!MarkAssumption
<1>4. r[b] = h[b] /\ h[b] \in P!Blob
  BY <1>2 DEF P!Within, P!Header
<1>5. P!Held[b] = r[b].crc /\ P!Held[b] \in Cards
  BY <1>3, <1>4, StoreFits, P!HeldStands DEF IInv
<1>6. P!Content(h)[b] = h[b].crc
  BY <1>2 DEF P!Content, P!Whole
<1>7. P!Held[b] # None
  BY <1>5, StoreFits DEF P!StoreAssumption
<1>8. "cpath" \notin stuck => P!Held[b][1] = nvs.cpath
  BY <1>7 DEF IInv, Cached
<1>. QED
  BY <1>3, <1>4, <1>5, <1>6, <1>8, SameContent

\* t is a screen of what the cache holds.
OfCache(t) ==
  /\ t.src = "sd" /\ t.path = nvs.path /\ t.state = "ok"
  /\ t.view \in Cards /\ ("cpath" \notin stuck => t.view[1] = nvs.path)
  /\ \E b \in BlobId : t.view = P!Held[b]
  /\ ~t.painted /\ t.cover = "menu"
  /\ \/ t.map.n = 0
     \/ /\ P!Reload(slot, SlotCount) # None
        /\ P!Reload(slot, SlotCount)["DISPLAY"] = t.map /\ t.map.crc = t.view

LEMMA CacheScreen ==
  ASSUME IInv, BootCache
  PROVE  \E t \in ScreenType : Resume(t) /\ OfCache(t)
<1>1. /\ nvs.src = "sd" /\ nvs.path # None /\ nvs.cpath = nvs.path /\ nvs.path \in Paths
      /\ hdr' \in Store!Reloads(slot) /\ hdr' # None
  BY DEF BootCache, IInv, Types, TypeOK
<1>. DEFINE h == hdr'
            r == P!Reload(slot, SlotCount)
            s == Screen("sd", nvs.path, "ok", None, TRUE)
            k == h["PDF"].n > 0
<1>2. ASSUME NEW b \in BlobId, h[b].n > 0
      PROVE  /\ r # None /\ r[b] = h[b] /\ h[b] \in P!Blob /\ Store!Content(h)[b] = h[b].crc
             /\ h[b].crc \in Cards /\ ("cpath" \notin stuck => h[b].crc[1] = nvs.path)
             /\ P!Held[b] = h[b].crc
  BY <1>1, <1>2, ReadsCard
<1>3. k \in BOOLEAN
  OBVIOUS
<1>4. \/ h["DISPLAY"].n > 0 /\ Resume([s EXCEPT !.view = Store!Content(h)["DISPLAY"],
                                                !.card = k, !.map = h["DISPLAY"]])
      \/ k /\ Resume([s EXCEPT !.view = Store!Content(h)["PDF"], !.card = k])
  <2>1. [[s EXCEPT !.view = Store!Content(h)["DISPLAY"], !.card = k] EXCEPT !.map = h["DISPLAY"]]
        = [s EXCEPT !.view = Store!Content(h)["DISPLAY"], !.card = k, !.map = h["DISPLAY"]]
    OBVIOUS
  <2>. QED
    BY <2>1 DEF BootCache
<1>5. /\ Store!NoBlob \in P!Blob /\ Store!NoBlob.n = 0
  BY SameData DEF P!NoBlob, P!Blob
<1>6. CASE h["DISPLAY"].n > 0 /\ Resume([s EXCEPT !.view = Store!Content(h)["DISPLAY"],
                                                    !.card = k, !.map = h["DISPLAY"]])
  <2>. DEFINE c == h["DISPLAY"].crc
              m == h["DISPLAY"]
              t == [s EXCEPT !.view = c, !.card = k, !.map = m]
  <2>1. /\ r # None /\ r["DISPLAY"] = m /\ m \in P!Blob /\ m.crc = c /\ P!Held["DISPLAY"] = c
        /\ Store!Content(h)["DISPLAY"] = c /\ c \in Cards
        /\ ("cpath" \notin stuck => c[1] = nvs.path)
    BY <1>2, <1>6, LastCardAssumption
  <2>2. Resume(t)
    BY <1>6, <2>1
  <2>. HIDE DEF k, c, m
  <2>3. /\ t \in ScreenType /\ t.src = "sd" /\ t.path = nvs.path /\ t.state = "ok"
        /\ t.view = c /\ t.map = m /\ ~t.painted /\ t.cover = "menu"
    BY <1>1, <1>3, <1>5, <2>1 DEF Screen, NoScreen, ScreenType
  <2>. HIDE DEF t
  <2>4. \E b \in BlobId : t.view = P!Held[b]
    BY <2>1, <2>3, LastCardAssumption
  <2>. QED
    BY <2>1, <2>2, <2>3, <2>4 DEF OfCache
<1>7. CASE k /\ Resume([s EXCEPT !.view = Store!Content(h)["PDF"], !.card = k])
  <2>. DEFINE c == h["PDF"].crc
              t == [s EXCEPT !.view = c, !.card = k]
  <2>1. /\ Store!Content(h)["PDF"] = c /\ c \in Cards /\ P!Held["PDF"] = c
        /\ ("cpath" \notin stuck => c[1] = nvs.path)
    BY <1>2, <1>7, LastCardAssumption
  <2>2. Resume(t)
    BY <1>7, <2>1
  <2>. HIDE DEF k, c
  <2>3. /\ t \in ScreenType /\ t.src = "sd" /\ t.path = nvs.path /\ t.state = "ok"
        /\ t.view = c /\ t.map.n = 0 /\ ~t.painted /\ t.cover = "menu"
    BY <1>1, <1>3, <1>5, <2>1 DEF Screen, NoScreen, ScreenType
  <2>. HIDE DEF t
  <2>4. \E b \in BlobId : t.view = P!Held[b]
    BY <2>1, <2>3, LastCardAssumption
  <2>. QED
    BY <2>1, <2>2, <2>3, <2>4 DEF OfCache
<1>. QED
  BY <1>4, <1>6, <1>7

LEMMA BootCacheShows ==
  ASSUME IInv, slot' = slot, nvs' = nvs, stuck' = stuck, BootCache
  PROVE  shown' \in ScreenType /\ Sound(shown') /\ DueNow /\ MapNow
<1>. DEFINE r == P!Reload(slot, SlotCount)
<1>1. nvs.path \in Paths /\ nvs.cpath = nvs.path
  BY DEF BootCache, IInv, Types, TypeOK
<1>2. PICK t \in ScreenType : Resume(t) /\ OfCache(t)
  BY CacheScreen
<1>3. Sound(t) /\ t.src # "none"
  BY <1>1, <1>2 DEF Sound, OfCache
<1>4. shown' \in ScreenType /\ Sound(shown') /\ DueNow /\ Alike(t, shown')
  BY <1>2, <1>3, Resumes
<1>5. MapNow
  <2>1. CASE r # None /\ r["DISPLAY"] = t.map /\ t.map.crc = t.view
    <3>1. /\ shown'.src = "sd" /\ shown'.state = "ok" /\ shown'.map.crc = shown'.view
          /\ nvs'.cpath = shown'.path
      BY <1>1, <1>2, <1>4, <2>1 DEF Alike, OfCache
    <3>2. r # None /\ r["DISPLAY"] = shown'.map
      BY <1>4, <2>1 DEF Alike
    <3>3. P!Reload(slot', SlotCount) = r
      OBVIOUS
    <3>. QED
      BY <3>1, <3>2, <3>3 DEF MapNow, Mapped
  <2>2. CASE t.map.n = 0
    BY <1>4, <2>2 DEF MapNow, Alike
  <2>. QED
    BY <1>2, <2>1, <2>2 DEF OfCache
<1>. QED
  BY <1>4, <1>5

LEMMA BootSteps ==
  ASSUME IInv, P!StoreInv', Boot
  PROVE  IInv'
<1>1. /\ ~on /\ on' = TRUE /\ slot' = slot /\ wr' = wr /\ nvs' = nvs /\ stuck' = stuck
      /\ pc' = pc /\ file' = file /\ sdIn' = sdIn
  BY DEF Boot
<1>2. pc = "ui" /\ due = <<>> /\ shown = NoScreen
  BY <1>1 DEF IInv, Control
<1>3. /\ slept' \in {"no", slept} /\ glass' \in Cards \cup {My, None}
      /\ mounted' \in BOOLEAN
  BY DEF Boot, BootMy, BootCache, BootSd, BootHome, Draw, IInv, Types, TypeOK
<1>4. shown' \in ScreenType /\ Sound(shown') /\ DueNow /\ MapNow
  <2>1. CASE shown' = NoScreen /\ due' \in {<<>>, Clear}
    BY <2>1, NoScreenFacts DEF DueNow, MapNow
  <2>2. CASE BootMy
    <3>1. CASE Resume(MyScreen)
      BY <3>1, MyScreenFacts, Resumes DEF Alike, MapNow
    <3>. QED
      BY <2>1, <2>2, <3>1 DEF BootMy
  <2>3. CASE BootCache
    BY <1>1, <2>3, BootCacheShows
  <2>4. CASE BootSd
    <3>. DEFINE p == nvs.path
                k == p \in CardPaths
                s == Screen("sd", p, "loading", None, k)
                t == Screen("sd", p, "failed", None, FALSE)
    <3>1. p \in Paths /\ k \in BOOLEAN
      BY <2>4 DEF BootSd, IInv, Types, TypeOK
    <3>2. Resume(s) \/ Resume(t)
      BY <2>4 DEF BootSd
    <3>. HIDE DEF p, k
    <3>3. /\ s \in ScreenType /\ Sound(s) /\ s.src = "sd" /\ s.map.n = 0
          /\ t \in ScreenType /\ Sound(t) /\ t.src = "sd" /\ t.map.n = 0
      <4>1. /\ FALSE \in BOOLEAN /\ None \in Cards \cup {None}
            /\ "loading" \in {"ok", "loading", "failed"} /\ "failed" \in {"ok", "loading", "failed"}
            /\ IF "loading" = "ok" THEN None \in Cards /\ ("cpath" \notin stuck => None[1] = p)
                                   ELSE None = None
            /\ IF "failed" = "ok" THEN None \in Cards /\ ("cpath" \notin stuck => None[1] = p)
                                  ELSE None = None
        OBVIOUS
      <4>2. s \in ScreenType /\ Sound(s) /\ s.src = "sd" /\ s.map.n = 0
        BY <3>1, <4>1, SdScreenFacts
      <4>3. ASSUME NEW no \in BOOLEAN
            PROVE  LET x == Screen("sd", p, "failed", None, no) IN
                   x \in ScreenType /\ Sound(x) /\ x.src = "sd" /\ x.map.n = 0
        BY <3>1, <4>1, SdScreenFacts
      <4>4. t \in ScreenType /\ Sound(t) /\ t.src = "sd" /\ t.map.n = 0
        BY <4>1, <4>3, Zenon
      <4>. QED
        BY <4>2, <4>4
    <3>. HIDE DEF s, t
    <3>. QED
      BY <3>2, <3>3, Resumes DEF Alike, MapNow
  <2>5. CASE BootHome
    BY <2>1, <2>5 DEF BootHome
  <2>. QED
    BY <2>2, <2>3, <2>4, <2>5 DEF Boot
<1>. QED
  BY <1>1, <1>2, <1>3, <1>4, UiKeeps DEF Working

LEMMA NvsSteps ==
  ASSUME IInv, P!StoreInv', NvsWrite
  PROVE  IInv'
<1>. DEFINE e == Head(due)
<1>1. /\ on /\ due # <<>> /\ Put(e.key, e.val) /\ due' = Tail(due)
      /\ UNCHANGED <<storeVars, uiVars, pc, sdVars>> /\ due \in Seq(Entries) /\ Len(due) <= 3
  BY DEF NvsWrite, IInv, Types, TypeOK
<1>2. e \in Entries /\ due' \in Seq(Entries) /\ Len(due') <= 3
  <2>1. e \in Entries /\ Tail(due) \in Seq(Entries) /\ Len(Tail(due)) = Len(due) - 1
    BY <1>1, HeadTailProperties, EmptySeq
  <2>2. Len(due) \in Nat
    BY <1>1, LenProperties
  <2>. QED
    BY <1>1, <2>1, <2>2
<1>3. pc \in {"ui", "check", "pending"}
  BY <1>1 DEF IInv, Control
<1>. HIDE DEF e
<1>4. /\ nvs' \in [src : {"none", "my", "sd"}, path : Paths \cup {None},
                   cpath : Paths \cup {None}, clean : BOOLEAN]
      /\ nvs'.cpath = nvs.cpath /\ stuck \subseteq stuck' /\ stuck' \subseteq Unreliable
      /\ \A k \in {"src", "path", "clean"} : k \notin stuck' =>
           nvs'[k] \in IF e.key = k THEN {e.val, Blank[k]} ELSE {nvs[k]}
  BY <1>1, <1>2, PutEntry DEF IInv
<1>5. ScreenIs'
  <2>1. ASSUME shown.src # "none"
        PROVE  /\ Only(due', "path", shown.path)
               /\ "src" \notin stuck' => Ends(due', "src", nvs'.src, shown.src)
               /\ "path" \notin stuck' => Ends(due', "path", nvs'.path, shown.path)
    <3>1. /\ Only(due, "path", shown.path)
          /\ "src" \notin stuck => Ends(due, "src", nvs.src, shown.src)
          /\ "path" \notin stuck => Ends(due, "path", nvs.path, shown.path)
      BY <2>1 DEF IInv, ScreenIs
    <3>2. Only(due', "path", shown.path)
      BY <1>1, <3>1, OnlyOfTail
    <3>3. ASSUME "src" \notin stuck'
          PROVE  Ends(due', "src", nvs'.src, shown.src)
      BY <1>1, <1>4, <3>1, <3>3, EndsOfTail DEF e
    <3>4. ASSUME "path" \notin stuck'
          PROVE  Ends(due', "path", nvs'.path, shown.path)
      BY <1>1, <1>4, <3>1, <3>4, EndsOfTail DEF e
    <3>. QED
      BY <3>2, <3>3, <3>4
  <2>2. shown' = shown
    BY <1>1 DEF uiVars
  <2>. QED
    BY <1>4, <2>1, <2>2 DEF IInv, ScreenIs, Sound
<1>6. Types'
  <2>1. /\ UNCHANGED <<on, slept, shown, glass, pc, file, sdIn, mounted>>
    BY <1>1 DEF uiVars, sdVars
  <2>2. TypeOK'
    BY <1>2, <1>4, <2>1 DEF IInv, Types, TypeOK
  <2>. QED
    BY <1>2, <2>1, <2>2 DEF IInv, Types
<1>7. MapNow
  BY <1>1 DEF uiVars, MapNow, SameCard
<1>. QED
  BY <1>1, <1>3, <1>4, <1>5, <1>6, <1>7, Keeps DEF storeVars, uiVars, Working

LEMMA SdCardSteps ==
  ASSUME IInv, P!StoreInv', SdCard
  PROVE  IInv'
<1>1. /\ UNCHANGED <<slot, cell, hdr, wr, nvs, stuck, due, on, slept, shown, glass, pc, mounted>>
      /\ sdIn' = ~sdIn /\ file' \in [Paths -> Versions]
  BY DEF SdCard, storeVars, uiVars, IInv, Types, TypeOK
<1>2. Types'
  <2>1. sdIn' \in BOOLEAN
    BY <1>1
  <2>2. TypeOK'
    BY <1>1, <2>1 DEF IInv, Types, TypeOK
  <2>. QED
    BY <1>1, <2>2 DEF IInv, Types
<1>3. P!Held' = P!Held
  BY <1>1, HeldKept
<1>4. Control' /\ ScreenIs' /\ Mapped'
  BY <1>1 DEF IInv, Control, ScreenIs, Sound, Mapped, P!Reload, P!LastValid, P!Scanned
<1>5. Writing' /\ Cached'
  BY <1>1, <1>3 DEF IInv, Writing, Cached
<1>. QED
  BY <1>2, <1>4, <1>5 DEF IInv

-----------------------------------------------------------------------------
(***************************************************************************)
(* The steps of go_to_sleep.                                               *)
(***************************************************************************)
LEMMA SaveFrame ==
  ASSUME IInv, due = <<>>, due' = due, UNCHANGED <<uiVars, file, sdIn>>, pc' \in Points,
         mounted' \in BOOLEAN,
         nvs' = nvs \/ \E x \in Paths \cup {None} : nvs' = [nvs EXCEPT !.cpath = x],
         stuck' \in {stuck, stuck \cup {"cpath"}}, stuck' \subseteq Unreliable
  PROVE  Types' /\ ScreenIs' /\ shown' = shown /\ on' = on /\ nvs'.src = nvs.src /\ nvs'.path = nvs.path
<1>1. nvs \in [src : {"none", "my", "sd"}, path : Paths \cup {None},
               cpath : Paths \cup {None}, clean : BOOLEAN]
  BY DEF IInv, Types, TypeOK
<1>2. /\ nvs' \in [src : {"none", "my", "sd"}, path : Paths \cup {None},
                   cpath : Paths \cup {None}, clean : BOOLEAN]
      /\ nvs'.src = nvs.src /\ nvs'.path = nvs.path
  BY <1>1
<1>3. TypeOK'
  BY <1>2 DEF IInv, Types, TypeOK, uiVars
<1>. QED
  BY <1>2, <1>3 DEF IInv, Types, ScreenIs, Sound, uiVars

LEMMA WakeSteps ==
  ASSUME IInv, P!StoreInv',
         Wake \/ (SaveCheck /\ pc' = "off") \/ (PowerOff /\ on')
  PROVE  IInv'
<1>1. /\ on /\ due = <<>> /\ due' = due /\ nvs' = nvs /\ stuck' = stuck
      /\ slot' = slot /\ wr' = wr /\ stuck' \subseteq Unreliable /\ UNCHANGED <<uiVars, file, sdIn>>
      /\ mounted' \in BOOLEAN /\ pc \in {"check", "off", "pending"}
      /\ pc' \in {"ui", "off", "pending"}
  BY DEF Wake, SaveCheck, PowerOff, Dark, At, Goto, sdVars, storeVars, IInv, Types, TypeOK
<1>2. pc \notin Working /\ pc' \in Points
  BY <1>1 DEF Working, Points
<1>3. Types' /\ ScreenIs' /\ shown' = shown /\ on' = on
  BY <1>1, <1>2, SaveFrame
<1>4. MapNow
  BY <1>3 DEF MapNow, SameCard
<1>. QED
  BY <1>1, <1>2, <1>3, <1>4, Keeps

LEMMA DarkSteps ==
  ASSUME IInv, P!StoreInv', PowerLoss \/ (PowerOff /\ ~on')
  PROVE  IInv'
<1>1. Dark /\ slept' \in {"no", "other", "card", "undrawn"} /\ glass' \in {glass, None}
  BY DEF PowerLoss, PowerOff, Goto, uiVars, At
<1>2. /\ on' = FALSE /\ pc' = "ui" /\ due' = <<>> /\ shown' = NoScreen /\ P!PowerLoss
      /\ mounted' = FALSE /\ UNCHANGED <<nvs, stuck, file, sdIn>>
  BY <1>1, SameSteps DEF Dark
<1>3. slot' = slot /\ ~wr'.active
  BY <1>2 DEF P!PowerLoss, P!NoWriter
<1>4. Types'
  <2>1. due' \in Seq(Entries) /\ Len(due') <= 3
    BY <1>2, QueuedNothing
  <2>2. shown' \in ScreenType /\ shown'.view = None /\ pc' \in Points
    BY <1>2, NoScreenFacts DEF Points
  <2>3. on' \in BOOLEAN /\ mounted' \in BOOLEAN
    BY <1>2
  <2>4. TypeOK'
    BY <1>1, <1>2, <2>1, <2>2, <2>3 DEF IInv, Types, TypeOK
  <2>. QED
    BY <2>1, <2>2, <2>4 DEF Types
<1>5. Control' /\ Writing'
  BY <1>2, <1>3 DEF Control, Writing, Working
<1>6. ScreenIs' /\ Mapped'
  BY <1>2, NoScreenFacts DEF ScreenIs, Sound, Mapped
<1>7. Cached'
  BY <1>2, <1>3, HeldKept DEF IInv, Cached
<1>. QED
  BY <1>4, <1>5, <1>6, <1>7 DEF IInv

\* What the Writer at work has published is what it wrote.
Published == wr.active =>
  \A b \in BlobId : P!Held[b] # None => wr.blobs[b].n > 0 /\ P!Held[b] = wr.blobs[b].crc

LEMMA WriterPublishes == P!StoreInv => Published
  BY StoreFits, P!WriterHolds DEF Published

LEMMA NextPublished == P!StoreInv' => Published'
<1>1. P!StoreInv => Published
  BY WriterPublishes
<1>. QED
  BY <1>1, PTL

LEMMA WriterFacts ==
  ASSUME IInv
  PROVE  /\ wr.active \in BOOLEAN /\ wr.ok \in BOOLEAN /\ wr.blobs \in P!Header
         /\ \A b \in BlobId :
              wr.blobs[b] \in P!Blob /\ wr.blobs[b].n \in Nat
              /\ wr.blobs[b].crc \in Cards \cup {None}
  BY DEF IInv, P!StoreInv, P!TypeOK, P!WriterType, P!Header, P!Blob

LEMMA UncacheSteps ==
  ASSUME IInv, P!StoreInv', (SaveCheck /\ pc' # "off") \/ Uncache
  PROVE  IInv'
<1>1. /\ on /\ due = <<>> /\ due' = due /\ slot' = slot /\ wr' = wr
      /\ UNCHANGED <<uiVars, file, sdIn>> /\ mounted' = mounted
      /\ pc \in {"check", "uncache"} /\ pc' \in {"uncache", "begin"}
      /\ (nvs' = nvs /\ stuck' = stuck) \/ Put("cpath", None)
  BY DEF SaveCheck, Uncache, At, Goto, sdVars, storeVars
<1>2. Types' /\ ScreenIs' /\ shown' = shown /\ on' = on
  <2>1. /\ nvs' = nvs \/ \E x \in Paths \cup {None} : nvs' = [nvs EXCEPT !.cpath = x]
        /\ stuck' \in {stuck, stuck \cup {"cpath"}} /\ stuck' \subseteq Unreliable
    BY <1>1, PutPath DEF IInv, Types, TypeOK
  <2>2. pc' \in Points /\ mounted' \in BOOLEAN
    BY <1>1 DEF Points, IInv, Types, TypeOK
  <2>. QED
    BY <1>1, <2>1, <2>2, SaveFrame
<1>3. ~wr.active
  BY <1>1 DEF IInv, Control, Working
<1>4. CASE SaveCheck /\ pc' # "off"
  <2>1. /\ nvs' = nvs /\ stuck' = stuck /\ pc' = "uncache" /\ shown.src = "sd" /\ shown.state = "ok"
        /\ ~FullyCached(P!Reload(slot, SlotCount))
    BY <1>4, SameReload DEF SaveCheck, Goto
  <2>2. shown.map.n = 0
    <3>1. shown.map.n \in Nat
      BY DEF IInv, Types, ScreenType, P!Blob
    <3>2. shown.map.n > 0 => FullyCached(P!Reload(slot, SlotCount))
      BY DEF IInv, Mapped, FullyCached
    <3>. QED
      BY <2>1, <3>1, <3>2
  <2>3. Control'
    BY <1>1, <1>2, <1>3, <2>1, <2>2 DEF Control, Working
  <2>4. Writing'
    BY <2>1 DEF Writing, Working
  <2>5. Cached'
    BY <1>1, <2>1, HeldKept DEF IInv, Cached
  <2>6. Mapped'
    BY <1>2, <2>2 DEF Mapped
  <2>. QED
    BY <1>2, <2>3, <2>4, <2>5, <2>6 DEF IInv
<1>5. CASE Uncache
  <2>1. /\ Put("cpath", None) /\ pc' = "begin" /\ pc = "uncache"
    BY <1>5 DEF Uncache, At, Goto
  <2>2. "cpath" \notin stuck' => nvs'.cpath = None
    BY <2>1, PutPath DEF IInv
  <2>3. shown.src = "sd" /\ shown.state = "ok" /\ shown.map.n = 0
    BY <2>1 DEF IInv, Control
  <2>4. Control'
    BY <1>1, <1>2, <1>3, <2>1, <2>3 DEF Control, Working
  <2>5. Writing'
    BY <2>1, <2>2 DEF Writing, Working
  <2>6. Cached' /\ Mapped'
    BY <1>2, <2>2, <2>3 DEF Cached, Mapped
  <2>. QED
    BY <1>2, <2>4, <2>5, <2>6 DEF IInv
<1>. QED
  BY <1>4, <1>5

LEMMA SaveBeginSteps ==
  ASSUME IInv, P!StoreInv', SaveBegin
  PROVE  IInv'
<1>1. /\ on /\ due = <<>> /\ due' = due /\ pc = "begin"
      /\ UNCHANGED <<uiVars, file, sdIn>> /\ mounted' = mounted /\ nvs' = nvs /\ stuck' = stuck
      /\ \/ P!Begin /\ pc' = (IF shown.card THEN "pdf" ELSE "display")
         \/ P!BeginFails /\ pc' = "off"
  BY SameSteps DEF SaveBegin, At, Goto, sdVars
<1>2. Types' /\ ScreenIs' /\ shown' = shown /\ on' = on
  BY <1>1, SaveFrame DEF Points, Working, IInv, Types, TypeOK
<1>3. /\ "cpath" \notin stuck => nvs.cpath = None
      /\ shown.src = "sd" /\ shown.state = "ok" /\ shown.map.n = 0
      /\ ~wr.active
  BY <1>1 DEF IInv, Control, Writing, Working
<1>4. Cached' /\ Mapped'
  BY <1>1, <1>2, <1>3 DEF Cached, Mapped
<1>5. CASE P!Begin /\ pc' = (IF shown.card THEN "pdf" ELSE "display")
  <2>1. wr'.active /\ wr'.ok /\ wr'.blobs = P!EmptyHeader
    BY <1>5 DEF P!Begin, P!NewWriter, P!NoWriter
  <2>2. \A b \in BlobId : wr'.blobs[b].n = 0
    BY <2>1 DEF P!EmptyHeader, P!NoBlob
  <2>3. Control'
    BY <1>1, <1>2, <1>3, <1>5, <2>1 DEF Control, Working
  <2>4. Writing'
    BY <1>1, <1>2, <1>3, <1>5, <2>2, LastCardAssumption DEF Writing, Working
  <2>. QED
    BY <1>2, <1>4, <2>3, <2>4 DEF IInv
<1>6. CASE P!BeginFails /\ pc' = "off"
  <2>1. Control'
    BY <1>1, <1>2, <1>3, <1>6 DEF Control, Working, P!BeginFails
  <2>2. Writing'
    BY <1>6 DEF Writing, Working
  <2>. QED
    BY <1>2, <1>4, <2>1, <2>2 DEF IInv
<1>. QED
  BY <1>1, <1>5, <1>6

\* What a write of blob b of card c does to the Writer.
LEMMA WriteFacts ==
  ASSUME IInv, NEW c \in Cards, NEW b \in BlobId
  PROVE  /\ P!WriteBlob(c, b) =>
              /\ slot' = slot /\ wr'.active = wr.active /\ wr'.ok = wr.ok
              /\ wr'.blobs[b].n > 0 /\ wr'.blobs[b].crc = c
              /\ \A d \in BlobId : d # b => wr'.blobs[d] = wr.blobs[d]
         /\ P!WriteFails(c, b) =>
              slot' = slot /\ wr'.active = wr.active /\ wr'.blobs = wr.blobs
<1>. DEFINE n == Size[c][b]
            x == [at |-> wr.cursor, n |-> n, crc |-> c]
<1>1. n \in Nat \ {0}
  BY StoreFits DEF P!StoreAssumption
<1>2. wr \in P!WriterType /\ wr.blobs \in P!Header
  BY DEF IInv, P!StoreInv, P!TypeOK, P!WriterType
<1>3. ASSUME P!WriteBlob(c, b)
      PROVE  /\ slot' = slot /\ wr'.active = wr.active /\ wr'.ok = wr.ok
             /\ wr'.blobs[b].n > 0 /\ wr'.blobs[b].crc = c
             /\ \A d \in BlobId : d # b => wr'.blobs[d] = wr.blobs[d]
  <2>1. slot' = slot /\ wr' = [wr EXCEPT !.blobs[b] = x, !.cursor = @ + n]
    BY <1>3 DEF P!WriteBlob
  <2>2. x.n = n /\ x.crc = c
    OBVIOUS
  <2>. HIDE DEF n, x
  <2>3. wr'.active = wr.active /\ wr'.ok = wr.ok /\ wr'.blobs = [wr.blobs EXCEPT ![b] = x]
    BY <1>2, <2>1 DEF P!WriterType
  <2>4. wr'.blobs[b] = x /\ \A d \in BlobId : d # b => wr'.blobs[d] = wr.blobs[d]
    BY <1>2, <2>3 DEF P!Header
  <2>. QED
    BY <1>1, <2>1, <2>2, <2>3, <2>4
<1>4. ASSUME P!WriteFails(c, b)
      PROVE  slot' = slot /\ wr'.active = wr.active /\ wr'.blobs = wr.blobs
  BY <1>2, <1>4 DEF P!WriteFails, P!WriterType
<1>. QED
  BY <1>3, <1>4

LEMMA SavePdfSteps ==
  ASSUME IInv, P!StoreInv', SavePdf
  PROVE  IInv'
<1>. DEFINE c == <<shown.path, file[shown.path]>>
<1>1. /\ on /\ due = <<>> /\ due' = due /\ pc = "pdf"
      /\ UNCHANGED <<uiVars, file, sdIn>> /\ mounted' = mounted /\ nvs' = nvs /\ stuck' = stuck
      /\ \/ P!WriteBlob(c, "PDF") /\ pc' = "commitPdf"
         \/ P!WriteFails(c, "PDF") /\ pc' = "close"
         \/ UNCHANGED storeVars /\ pc' = "close"
  BY SameSteps DEF SavePdf, At, Goto, sdVars
<1>2. Types' /\ ScreenIs' /\ shown' = shown /\ on' = on
  BY <1>1, SaveFrame DEF Points, Working, IInv, Types, TypeOK
<1>3. /\ "cpath" \notin stuck => nvs.cpath = None
      /\ shown.src = "sd" /\ shown.state = "ok" /\ shown.map.n = 0
      /\ wr.active /\ wr.ok /\ shown.card /\ wr.blobs["DISPLAY"].n = 0 /\ wr.blobs["PDF"].n = 0
      /\ "cpath" \notin stuck =>
           \A b \in BlobId : wr.blobs[b].n > 0 => wr.blobs[b].crc[1] = shown.path
  BY <1>1 DEF IInv, Control, Writing, Working
<1>4. Cached' /\ Mapped'
  BY <1>1, <1>2, <1>3 DEF Cached, Mapped
<1>5. shown.path \in Paths
  BY <1>3 DEF IInv, ScreenIs, Sound
<1>6. c \in Cards /\ c[1] = shown.path
  BY <1>5, FileIsCard DEF IInv, Types
<1>. HIDE DEF c
<1>7. CASE P!WriteBlob(c, "PDF") /\ pc' = "commitPdf"
  <2>1. /\ wr'.active = wr.active /\ wr'.ok = wr.ok
        /\ wr'.blobs["PDF"].n > 0 /\ wr'.blobs["PDF"].crc = c
        /\ wr'.blobs["DISPLAY"] = wr.blobs["DISPLAY"]
    BY <1>6, <1>7, WriteFacts, LastCardAssumption
  <2>2. Control'
    BY <1>1, <1>2, <1>3, <1>7, <2>1 DEF Control, Working
  <2>3. "cpath" \notin stuck =>
          \A b \in BlobId : wr'.blobs[b].n > 0 => wr'.blobs[b].crc[1] = shown.path
    BY <1>3, <1>6, <2>1, LastCardAssumption
  <2>4. Writing'
    BY <1>1, <1>2, <1>3, <1>7, <2>1, <2>3 DEF Writing, Working
  <2>. QED
    BY <1>2, <1>4, <2>2, <2>4 DEF IInv
<1>8. CASE (P!WriteFails(c, "PDF") \/ UNCHANGED storeVars) /\ pc' = "close"
  <2>1. wr'.active = wr.active /\ wr'.blobs = wr.blobs
    BY <1>6, <1>8, WriteFacts, LastCardAssumption DEF storeVars
  <2>2. Control'
    BY <1>1, <1>2, <1>3, <1>8, <2>1 DEF Control, Working
  <2>3. Writing'
    BY <1>1, <1>2, <1>3, <1>8, <2>1 DEF Writing, Working
  <2>. QED
    BY <1>2, <1>4, <2>2, <2>3 DEF IInv
<1>. QED
  BY <1>1, <1>7, <1>8

LEMMA SaveDisplaySteps ==
  ASSUME IInv, P!StoreInv', SaveDisplay
  PROVE  IInv'
<1>. DEFINE c == shown.view
<1>1. /\ on /\ due = <<>> /\ due' = due /\ pc = "display"
      /\ UNCHANGED <<uiVars, file, sdIn>> /\ mounted' = mounted /\ nvs' = nvs /\ stuck' = stuck
      /\ \/ P!WriteBlob(c, "DISPLAY") /\ pc' = "commitDisplay"
         \/ P!WriteFails(c, "DISPLAY") /\ pc' = "close"
  BY SameSteps DEF SaveDisplay, At, Goto, sdVars
<1>2. Types' /\ ScreenIs' /\ shown' = shown /\ on' = on
  BY <1>1, SaveFrame DEF Points, Working, IInv, Types, TypeOK
<1>3. /\ shown.src = "sd" /\ shown.state = "ok" /\ shown.map.n = 0
      /\ "cpath" \notin stuck => nvs.cpath = None \/ (shown.card /\ nvs.cpath = shown.path)
      /\ wr.active /\ wr.ok /\ wr.blobs["DISPLAY"].n = 0
      /\ "cpath" \notin stuck =>
           \A b \in BlobId : wr.blobs[b].n > 0 => wr.blobs[b].crc[1] = shown.path
  BY <1>1 DEF IInv, Control, Writing, Working
<1>4. c \in Cards /\ ("cpath" \notin stuck => c[1] = shown.path)
  BY <1>3 DEF IInv, ScreenIs, Sound
<1>. HIDE DEF c
<1>5. slot' = slot
  BY <1>1, <1>4, WriteFacts, LastCardAssumption
<1>6. Cached' /\ Mapped'
  BY <1>1, <1>2, <1>3, <1>5, HeldKept DEF IInv, Cached, Mapped
<1>7. CASE P!WriteBlob(c, "DISPLAY") /\ pc' = "commitDisplay"
  <2>1. /\ wr'.active = wr.active /\ wr'.ok = wr.ok
        /\ wr'.blobs["DISPLAY"].n > 0 /\ wr'.blobs["DISPLAY"].crc = c
        /\ wr'.blobs["PDF"] = wr.blobs["PDF"]
    BY <1>4, <1>7, WriteFacts, LastCardAssumption
  <2>2. Control'
    BY <1>1, <1>2, <1>3, <1>7, <2>1 DEF Control, Working
  <2>3. "cpath" \notin stuck =>
          \A b \in BlobId : wr'.blobs[b].n > 0 => wr'.blobs[b].crc[1] = shown.path
    BY <1>3, <1>4, <2>1, LastCardAssumption
  <2>4. Writing'
    BY <1>1, <1>2, <1>3, <1>7, <2>1, <2>3 DEF Writing, Working
  <2>. QED
    BY <1>2, <1>6, <2>2, <2>4 DEF IInv
<1>8. CASE P!WriteFails(c, "DISPLAY") /\ pc' = "close"
  <2>1. wr'.active = wr.active /\ wr'.blobs = wr.blobs
    BY <1>4, <1>8, WriteFacts, LastCardAssumption
  <2>2. Control'
    BY <1>1, <1>2, <1>3, <1>8, <2>1 DEF Control, Working
  <2>3. Writing'
    BY <1>1, <1>2, <1>3, <1>8, <2>1 DEF Writing, Working
  <2>. QED
    BY <1>2, <1>6, <2>2, <2>3 DEF IInv
<1>. QED
  BY <1>1, <1>7, <1>8

LEMMA CommitFacts ==
  ASSUME IInv, P!StoreInv', P!Commit \/ P!CommitFails
  PROVE  /\ wr'.active = wr.active /\ wr.active /\ wr'.blobs = wr.blobs
         /\ P!Commit => wr'.ok = wr.ok
         /\ \A b \in BlobId : P!Held[b] # None => P!Held'[b] # None
         /\ \A b \in BlobId :
              P!Held'[b] # None => wr.blobs[b].n > 0 /\ P!Held'[b] = wr.blobs[b].crc
<1>1. wr \in P!WriterType
  BY DEF IInv, P!StoreInv, P!TypeOK
<1>2. wr.active /\ wr'.active = wr.active /\ wr'.blobs = wr.blobs /\ (P!Commit => wr'.ok = wr.ok)
  BY <1>1 DEF P!Commit, P!CommitFails, P!WriterType
<1>3. \A b \in BlobId : P!Held[b] # None => P!Held'[b] = P!Held[b]
  BY StoreFits, P!CommitStays DEF IInv
<1>4. \A b \in BlobId :
        P!Held'[b] # None => wr'.blobs[b].n > 0 /\ P!Held'[b] = wr'.blobs[b].crc
  BY <1>2, NextPublished DEF Published
<1>. QED
  BY <1>2, <1>3, <1>4

LEMMA CommitSteps ==
  ASSUME IInv, P!StoreInv', CommitPdf \/ CommitDisplay
  PROVE  IInv'
<1>1. /\ on /\ due = <<>> /\ due' = due /\ pc \in {"commitPdf", "commitDisplay"}
      /\ UNCHANGED <<uiVars, file, sdIn>> /\ mounted' = mounted /\ nvs' = nvs /\ stuck' = stuck
      /\ \/ pc = "commitPdf" /\ P!Commit /\ pc' = "setPath"
         \/ pc = "commitDisplay" /\ P!Commit /\ pc' = (IF shown.card THEN "close" ELSE "setPath")
         \/ P!CommitFails /\ pc' = "close"
  BY SameSteps DEF CommitPdf, CommitDisplay, At, Goto, sdVars
<1>2. Types' /\ ScreenIs' /\ shown' = shown /\ on' = on
  BY <1>1, SaveFrame DEF Points, Working, IInv, Types, TypeOK
<1>3. /\ shown.src = "sd" /\ shown.state = "ok" /\ shown.map.n = 0 /\ wr.active /\ wr.ok
      /\ "cpath" \notin stuck =>
           \A b \in BlobId : wr.blobs[b].n > 0 => wr.blobs[b].crc[1] = shown.path
  BY <1>1 DEF IInv, Control, Writing, Working
<1>4. /\ pc = "commitPdf" =>
           /\ shown.card /\ ("cpath" \notin stuck => nvs.cpath = None)
           /\ wr.blobs["PDF"].n > 0 /\ wr.blobs["DISPLAY"].n = 0
      /\ pc = "commitDisplay" =>
           /\ wr.blobs["DISPLAY"].n > 0
           /\ "cpath" \notin stuck => nvs.cpath = None \/ (shown.card /\ nvs.cpath = shown.path)
  BY DEF IInv, Writing
<1>5. /\ wr'.active = wr.active /\ wr'.blobs = wr.blobs
      /\ P!Commit => wr'.ok = wr.ok
      /\ \A b \in BlobId : P!Held[b] # None => P!Held'[b] # None
      /\ \A b \in BlobId :
           P!Held'[b] # None => wr.blobs[b].n > 0 /\ P!Held'[b] = wr.blobs[b].crc
  BY <1>1, CommitFacts
<1>6. Cached'
  <2>1. ASSUME nvs.cpath # None, "cpath" \notin stuck
        PROVE  /\ nvs.cpath = shown.path
               /\ \E b \in BlobId : P!Held'[b] # None
               /\ \A b \in BlobId :
                    P!Held'[b] # None => P!Held'[b] \in Cards /\ P!Held'[b][1] = shown.path
    <3>1. nvs.cpath = shown.path
      BY <1>1, <1>4, <2>1
    <3>2. \E b \in BlobId : P!Held'[b] # None
      BY <1>5, <2>1 DEF IInv, Cached
    <3>3. \A b \in BlobId :
            P!Held'[b] # None => P!Held'[b] \in Cards /\ P!Held'[b][1] = shown.path
      BY <1>3, <1>5, <2>1, WriterFacts
    <3>. QED
      BY <3>1, <3>2, <3>3
  <2>. QED
    BY <1>1, <2>1 DEF Cached
<1>7. Mapped'
  BY <1>2, <1>3 DEF Mapped
<1>8. Control'
  BY <1>1, <1>2, <1>3, <1>5 DEF Control, Working
<1>9. pc' = "setPath" => \E b \in BlobId : P!Held'[b] # None
  <2>1. pc' = "setPath" => P!Commit /\ \E b \in BlobId : wr.blobs[b].n > 0
    BY <1>1, <1>4, LastCardAssumption
  <2>2. ASSUME P!Commit, NEW b \in BlobId, wr.blobs[b].n > 0
        PROVE  P!Held'[b] # None
    BY <1>3, <2>2, StoreFits, P!CommitHolds DEF IInv
  <2>. QED
    BY <2>1, <2>2
<1>10. Writing'
  BY <1>1, <1>2, <1>3, <1>4, <1>5, <1>9 DEF Writing, Working
<1>. QED
  BY <1>2, <1>6, <1>7, <1>8, <1>10 DEF IInv

LEMMA SetPathSteps ==
  ASSUME IInv, P!StoreInv', SetPath
  PROVE  IInv'
<1>1. /\ on /\ due = <<>> /\ due' = due /\ pc = "setPath" /\ slot' = slot /\ wr' = wr
      /\ UNCHANGED <<uiVars, file, sdIn>> /\ mounted' = mounted
      /\ pc' = (IF shown.card THEN "display" ELSE "close")
      /\ Put("cpath", shown.path)
  BY DEF SetPath, At, Goto, storeVars, sdVars
<1>2. /\ nvs' = nvs \/ \E x \in Paths \cup {None} : nvs' = [nvs EXCEPT !.cpath = x]
      /\ stuck' \in {stuck, stuck \cup {"cpath"}} /\ stuck' \subseteq Unreliable
      /\ "cpath" \notin stuck' => nvs'.cpath \in {None, shown.path}
  BY <1>1, PutPath DEF IInv, Types, TypeOK, ScreenType
<1>3. Types' /\ ScreenIs' /\ shown' = shown /\ on' = on
  <2>1. pc' \in Points /\ mounted' \in BOOLEAN
    BY <1>1 DEF Points, Working, IInv, Types, TypeOK
  <2>. QED
    BY <1>1, <1>2, <2>1, SaveFrame
<1>4. /\ shown.src = "sd" /\ shown.state = "ok" /\ shown.map.n = 0 /\ wr.active /\ wr.ok
      /\ "cpath" \notin stuck =>
           \A b \in BlobId : wr.blobs[b].n > 0 => wr.blobs[b].crc[1] = shown.path
      /\ \E b \in BlobId : P!Held[b] # None
      /\ shown.card => wr.blobs["DISPLAY"].n = 0
  BY <1>1 DEF IInv, Control, Writing, Working
<1>5. "cpath" \notin stuck => \A b \in BlobId :
        P!Held[b] # None => P!Held[b] \in Cards /\ P!Held[b][1] = shown.path
  <2>1. \A b \in BlobId : P!Held[b] # None => wr.blobs[b].n > 0 /\ P!Held[b] = wr.blobs[b].crc
    BY <1>4, WriterPublishes DEF Published, IInv
  <2>. QED
    BY <1>4, <2>1, WriterFacts
<1>6. Cached'
  BY <1>1, <1>2, <1>4, <1>5, HeldKept DEF Cached
<1>7. Mapped'
  BY <1>3, <1>4 DEF Mapped
<1>8. Control'
  BY <1>1, <1>3, <1>4 DEF Control, Working
<1>9. Writing'
  BY <1>1, <1>2, <1>3, <1>4 DEF Writing, Working
<1>. QED
  BY <1>3, <1>6, <1>7, <1>8, <1>9 DEF IInv

LEMMA SaveCloseSteps ==
  ASSUME IInv, P!StoreInv', SaveClose
  PROVE  IInv'
<1>1. /\ on /\ due = <<>> /\ due' = due /\ pc = "close" /\ pc' = "off"
      /\ UNCHANGED <<uiVars, file, sdIn>> /\ mounted' = mounted /\ nvs' = nvs /\ stuck' = stuck
      /\ P!Abort \/ P!Destroy
  BY SameSteps DEF SaveClose, At, Goto, sdVars
<1>2. Types' /\ ScreenIs' /\ shown' = shown /\ on' = on
  BY <1>1, SaveFrame DEF Points, IInv, Types, TypeOK
<1>3. slot' = slot /\ ~wr'.active
  BY <1>1 DEF P!Abort, P!Destroy, P!NoWriter
<1>4. shown.map.n = 0
  BY <1>1 DEF IInv, Control, Working
<1>5. Cached'
  BY <1>1, <1>3, HeldKept DEF IInv, Cached
<1>6. Mapped'
  BY <1>2, <1>4 DEF Mapped
<1>7. Control' /\ Writing'
  BY <1>1, <1>2, <1>3 DEF Control, Writing, Working
<1>. QED
  BY <1>2, <1>5, <1>6, <1>7 DEF IInv

-----------------------------------------------------------------------------
(***************************************************************************)
(* The inductive invariant, and what follows from it.                      *)
(***************************************************************************)
LEMMA StepInv == IInv /\ [Next]_vars => IInv'
<1>. SUFFICES ASSUME IInv, [Next]_vars PROVE IInv'
  OBVIOUS
<1>1. P!StoreInv'
  BY StoreKept
<1>2. CASE UNCHANGED vars
  <2>1. UNCHANGED <<slot, cell, hdr, wr, nvs, stuck, due, on, slept, shown, glass, pc, file, sdIn, mounted>>
    BY <1>2 DEF vars, storeVars, uiVars, sdVars
  <2>2. Types' /\ Control' /\ ScreenIs' /\ Mapped'
    BY <2>1 DEF IInv, Types, TypeOK, Control, ScreenIs, Sound, Mapped, P!Reload, P!LastValid, P!Scanned
  <2>3. Writing' /\ Cached'
    BY <1>1, <2>1, HeldKept DEF IInv, Writing, Cached
  <2>. QED
    BY <1>1, <2>2, <2>3 DEF IInv
<1>3. CASE NvsWrite
  BY <1>1, <1>3, NvsSteps
<1>4. CASE Ui \/ Sleep
  <2>1. CASE shown.src = "none"
    <3>1. shown.painted /\ shown.cover = "menu" /\ shown.state # "loading"
      BY <2>1, NoScreenFacts DEF IInv, ScreenIs, Sound
    <3>2. ~(Paint \/ Poll \/ CloseMenu \/ OpenMenu \/ Cover \/ CloseModal \/ Uncover \/ Leave)
      BY <2>1, <3>1 DEF Paint, Poll, CloseMenu, OpenMenu, Cover, CloseModal, Uncover, Leave
    <3>. QED
      BY <1>1, <1>4, <2>1, <3>2, OpenSteps, LeaveSteps DEF Ui
  <2>2. CASE shown.src # "none"
    BY <1>1, <1>4, <2>2, OpenSteps, LeaveSteps, CoverSteps DEF Ui
  <2>. QED
    BY <2>1, <2>2
<1>5. CASE SaveCheck \/ Uncache \/ Wake
  BY <1>1, <1>5, WakeSteps, UncacheSteps
<1>6. CASE SaveBegin \/ SavePdf \/ CommitPdf \/ SetPath \/ SaveDisplay \/ CommitDisplay \/ SaveClose
  BY <1>1, <1>6, SaveBeginSteps, SavePdfSteps, CommitSteps, SetPathSteps, SaveDisplaySteps,
     SaveCloseSteps
<1>7. CASE PowerOff \/ PowerLoss
  BY <1>1, <1>7, WakeSteps, DarkSteps
<1>8. CASE Boot
  BY <1>1, <1>8, BootSteps
<1>9. CASE SdCard
  BY <1>1, <1>9, SdCardSteps
<1>. QED
  BY <1>2, <1>3, <1>4, <1>5, <1>6, <1>7, <1>8, <1>9 DEF Next, GoToSleep

\* Whatever is written, fails or is cut short, NVS, the partition and the screen go
\* together: IInv is inductive.
THEOREM LastCardInvariant == Spec => []IInv
  BY InitInv, StepInv, PTL DEF Spec

\* NVS, the screen and the glass hold what their types allow.
THEOREM LastCardTypeOK == Spec => []TypeOK
<1>1. IInv => TypeOK
  BY DEF IInv, Types
<1>. QED
  BY <1>1, LastCardInvariant, PTL

\* Whenever cpath is set there is a card to restore, and all that the partition holds is
\* of that path, whatever flash operation was interrupted by a reset or failed and whatever
\* key of the NVS could not be written, as long as no failure left an old cpath (Nvs.cpp,
\* save_cache).
THEOREM CacheIsOfPathHolds == Spec => []CacheIsOfPath
<1>1. IInv => CacheIsOfPath
  BY SameContent DEF IInv, Cached, CacheIsOfPath
<1>. QED
  BY <1>1, LastCardInvariant, PTL

\* A display blob shown straight from the flash stands there as long as it is on screen:
\* save_cache takes the card for cached and leaves the partition alone.
THEOREM MappedBlobStays == Spec => []MappedStays
<1>1. IInv => MappedStays
  <2>. SUFFICES ASSUME IInv, shown.map.n > 0
                PROVE  P!Stands(shown.map, "DISPLAY") /\ shown.map.crc = shown.view
    BY SameContent DEF MappedStays
  <2>1. /\ shown.map.crc = shown.view /\ P!Reload(slot, SlotCount) # None
        /\ P!Reload(slot, SlotCount)["DISPLAY"] = shown.map
    BY DEF IInv, Mapped
  <2>. QED
    BY <2>1, StoreFits, P!HeldStands, LastCardAssumption DEF IInv
<1>. QED
  BY <1>1, LastCardInvariant, PTL

\* save_cache keeps to the rules of a Writer's callers, and nothing else writes the
\* lastcard partition: it behaves as CardStore says.
THEOREM StoreIsUsed == Spec => UsesStore
<1>1. Init => Store!Init
  BY DEF Init
<1>2. IInv /\ [Next]_vars => [Store!Next]_storeVars
  BY StoreSteps, SameNext
<1>. QED
  BY <1>1, <1>2, LastCardInvariant, PTL DEF Spec, UsesStore, Store!Spec, storeVars, Store!storeVars
-----------------------------------------------------------------------------
(***************************************************************************)
(* The files are not replaced: what is stored and shown is what is in them.*)
(***************************************************************************)
LEMMA FileStays == ~Replace /\ [Next]_vars => file' = file
<1>. SUFFICES ASSUME ~Replace, [Next]_vars PROVE file' = file
  OBVIOUS
<1>1. CASE UNCHANGED vars
  BY <1>1 DEF vars, sdVars
<1>2. CASE SdCard
  BY <1>2 DEF SdCard
<1>3. CASE NvsWrite \/ Ui \/ PowerLoss \/ Boot
  BY <1>3 DEF NvsWrite, Ui, PowerLoss, Boot, OpenSd, OpenMy, Leave, Paint, Poll, CloseMenu,
              OpenMenu, Cover, CloseModal, Uncover, Dark, sdVars
<1>4. CASE GoToSleep
  BY <1>4 DEF GoToSleep, Sleep, SaveCheck, Uncache, SaveBegin, SavePdf, CommitPdf, SetPath,
              SaveDisplay, CommitDisplay, SaveClose, PowerOff, Wake, Dark, sdVars
<1>. QED
  BY <1>1, <1>2, <1>3, <1>4 DEF Next

\* Of what a Writer lists nothing is false.
BlobsGenuine(h) == \A b \in BlobId : h[b].n > 0 => Genuine(h[b].crc)

LEMMA StoreGenuineIs ==
  /\ StoreGenuine <=>
       /\ \A i \in P!Slots : slot[i] \in P!Header => BlobsGenuine(slot[i])
       /\ BlobsGenuine(wr.blobs)
  /\ file' = file =>
       (StoreGenuine' <=>
          /\ \A i \in P!Slots : slot'[i] \in P!Header => BlobsGenuine(slot'[i])
          /\ BlobsGenuine(wr'.blobs))
  BY DEF StoreGenuine, BlobsGenuine, Genuine, P!Slots, P!Header, P!Blob

LEMMA NothingIsGenuine == BlobsGenuine(P!EmptyHeader)
  BY DEF BlobsGenuine, P!EmptyHeader, P!NoBlob

LEMMA StoreGenuineSteps ==
  ASSUME IInv, P!StoreInv', StoreGenuine, ShownGenuine, [Next]_vars, file' = file
  PROVE  StoreGenuine'
<1>. DEFINE SlotsGenuine == \A i \in P!Slots : slot'[i] \in P!Header => BlobsGenuine(slot'[i])
<1>1. /\ \A i \in P!Slots : slot[i] \in P!Header => BlobsGenuine(slot[i])
      /\ BlobsGenuine(wr.blobs)
  BY StoreGenuineIs
<1>. SUFFICES SlotsGenuine /\ BlobsGenuine(wr'.blobs)
  BY StoreGenuineIs
<1>2. CASE slot' = slot /\ (wr'.blobs = wr.blobs \/ wr'.blobs = P!EmptyHeader)
  BY <1>1, <1>2, NothingIsGenuine
<1>3. CASE P!Mount \/ P!PowerLoss \/ P!Abort \/ P!Destroy \/ UNCHANGED storeVars
  BY <1>2, <1>3 DEF P!Mount, P!PowerLoss, P!Abort, P!Destroy, P!NoWriter, storeVars
<1>4. CASE SaveBegin
  <2>1. CASE P!Begin
    <3>1. \A i \in P!Slots : slot'[i] = Erased
      BY <2>1 DEF P!Begin
    <3>2. wr'.blobs = P!EmptyHeader
      BY <2>1 DEF P!Begin, P!NewWriter, P!NoWriter
    <3>3. Erased \notin P!Header
      BY StoreFits DEF P!MarkAssumption
    <3>. QED
      BY <3>1, <3>2, <3>3, NothingIsGenuine
  <2>2. CASE P!BeginFails
    <3>1. \A i \in P!Slots : slot'[i] \in P!Header => slot'[i] = slot[i]
      BY <2>2, StoreFits, P!BeginFailsSlots DEF IInv
    <3>2. wr' = wr
      BY <2>2 DEF P!BeginFails
    <3>. QED
      BY <1>1, <3>1, <3>2
  <2>. QED
    BY <1>4, <2>1, <2>2, SameSteps DEF SaveBegin
<1>5. ASSUME NEW c \in Cards, NEW b \in BlobId, Genuine(c),
             P!WriteBlob(c, b) \/ P!WriteFails(c, b)
      PROVE  SlotsGenuine /\ BlobsGenuine(wr'.blobs)
  <2>1. CASE P!WriteBlob(c, b)
    <3>1. /\ slot' = slot /\ wr'.blobs[b].crc = c
          /\ \A d \in BlobId : d # b => wr'.blobs[d] = wr.blobs[d]
      BY <2>1, WriteFacts
    <3>2. BlobsGenuine(wr'.blobs)
      BY <1>1, <1>5, <3>1 DEF BlobsGenuine
    <3>. QED
      BY <1>1, <3>1, <3>2
  <2>2. CASE P!WriteFails(c, b)
    BY <1>2, <2>2, WriteFacts
  <2>. QED
    BY <1>5, <2>1, <2>2
<1>6. CASE SavePdf
  <2>. DEFINE c == <<shown.path, file[shown.path]>>
  <2>1. shown.path \in Paths
    BY <1>6 DEF SavePdf, At, IInv, Control, ScreenIs, Sound, Working
  <2>2. c \in Cards /\ Genuine(c)
    BY <2>1, FileIsCard DEF IInv, Types, Genuine
  <2>3. P!WriteBlob(c, "PDF") \/ P!WriteFails(c, "PDF") \/ UNCHANGED storeVars
    BY <1>6, SameSteps DEF SavePdf
  <2>. HIDE DEF c
  <2>. QED
    BY <1>3, <1>5, <2>2, <2>3, LastCardAssumption
<1>7. CASE SaveDisplay
  <2>1. shown.view \in Cards /\ Genuine(shown.view)
    BY <1>7 DEF SaveDisplay, At, IInv, Control, ScreenIs, Sound, Working, ShownGenuine
  <2>2. P!WriteBlob(shown.view, "DISPLAY") \/ P!WriteFails(shown.view, "DISPLAY")
    BY <1>7, SameSteps DEF SaveDisplay
  <2>. QED
    BY <1>5, <2>1, <2>2, LastCardAssumption
<1>8. CASE CommitPdf \/ CommitDisplay
  <2>1. P!Commit \/ P!CommitFails
    BY <1>8, SameSteps DEF CommitPdf, CommitDisplay
  <2>2. \E s \in {Erased, Junk, wr.blobs} : slot' = [slot EXCEPT ![wr.slot] = s]
    BY <2>1 DEF P!Commit, P!CommitFails
  <2>3. wr'.blobs = wr.blobs
    BY <2>1, CommitFacts
  <2>4. Erased \notin P!Header /\ Junk \notin P!Header
    BY StoreFits DEF P!MarkAssumption
  <2>5. DOMAIN slot = P!Slots
    BY DEF IInv, P!StoreInv, P!TypeOK
  <2>6. SlotsGenuine
    BY <1>1, <2>2, <2>4, <2>5
  <2>. QED
    BY <1>1, <2>3, <2>6
<1>9. CASE SaveCheck \/ SaveClose
  <2>1. hdr' = Store!Reload(slot, SlotCount) => hdr' \in P!Reloads(slot)
    BY SameReload, ReloadIsMount
  <2>2. CASE SaveCheck
    BY <1>2, <2>2 DEF SaveCheck
  <2>3. CASE SaveClose
    BY <1>3, <2>3, SameSteps DEF SaveClose
  <2>. QED
    BY <1>9, <2>2, <2>3
<1>10. CASE Boot
  BY <1>2, <1>10 DEF Boot
<1>11. CASE PowerOff \/ PowerLoss
  BY <1>3, <1>11, SameSteps DEF PowerOff, PowerLoss, Dark
<1>12. CASE NvsWrite \/ Ui \/ SdCard \/ UNCHANGED vars
  BY <1>3, <1>12 DEF NvsWrite, Ui, SdCard, OpenSd, OpenMy, Leave, Paint, Poll, CloseMenu, OpenMenu,
                     Cover, CloseModal, Uncover, vars
<1>13. CASE Sleep \/ Uncache \/ SetPath \/ Wake
  BY <1>3, <1>13 DEF Sleep, Uncache, SetPath, Wake
<1>. QED
  BY <1>4, <1>6, <1>7, <1>8, <1>9, <1>10, <1>11, <1>12, <1>13 DEF Next, GoToSleep

\* What the partition holds of a card is what is in its file.
LEMMA HeldIsGenuine ==
  ASSUME IInv, StoreGenuine, NEW b \in BlobId, P!Held[b] # None
  PROVE  Genuine(P!Held[b])
<1>. DEFINE r == P!Reload(slot, SlotCount)
<1>1. P!Held[b] = P!Listed(r)[b]
  BY StoreFits, P!HeldIsListed DEF IInv
<1>2. r # None /\ r[b].n # 0 /\ P!Held[b] = r[b].crc
  BY <1>1 DEF P!Listed
<1>3. PICK i \in P!Slots : r = slot[i] /\ slot[i] \in P!Header
  BY <1>2, StoreFits, P!ReloadAll
<1>4. slot[i][b].n \in Nat
  BY <1>3 DEF P!Header, P!Blob
<1>. QED
  BY <1>2, <1>3, <1>4 DEF StoreGenuine

\* What is shown is what NVS names, once it is on screen.
LEMMA ShownIsPicture ==
  ASSUME IInv, ShownGenuine, shown.src # "none", shown.view # None, "cpath" \notin stuck
  PROVE  shown.view = Picture(shown.src, shown.path)
<1>1. CASE shown.src = "my"
  BY <1>1 DEF IInv, ScreenIs, Sound, Picture
<1>2. CASE shown.src = "sd"
  <2>1. /\ shown.view \in Cards /\ shown.view[1] = shown.path
        /\ shown.view[2] = file[shown.view[1]]
    BY <1>2 DEF IInv, ScreenIs, Sound, ShownGenuine, Genuine
  <2>2. shown.view = <<shown.view[1], shown.view[2]>>
    BY <2>1, LastCardAssumption
  <2>. QED
    BY <1>2, <2>1, <2>2 DEF Picture
<1>. QED
  BY <1>1, <1>2 DEF IInv, Types, ScreenType

\* Nothing is drawn and the screen stays.
LEMMA SameGlass ==
  ASSUME FixedInv, UNCHANGED <<shown, glass, on, slept, due, file>>,
         stuck \subseteq stuck', nvs' = nvs \/ (on /\ nvs'.clean = nvs.clean)
  PROVE  ShownGenuine' /\ GlassIs'
<1>1. ShownGenuine' /\ LoadsDirty'
  BY DEF FixedInv, ShownGenuine, Genuine, GlassIs, LoadsDirty
<1>2. OffGlass' /\ OnGlass'
  BY DEF FixedInv, GlassIs, OffGlass, OnGlass, Picture, Names
<1>. QED
  BY <1>1, <1>2 DEF GlassIs

LEMMA StillSteps ==
  ASSUME FixedInv, file' = file,
         \/ UNCHANGED vars \/ SdCard \/ SaveCheck \/ Uncache \/ SaveBegin \/ SavePdf \/ CommitPdf
         \/ SetPath \/ SaveDisplay \/ CommitDisplay \/ SaveClose \/ Wake \/ (PowerOff /\ on')
  PROVE  ShownGenuine' /\ GlassIs'
<1>1. CASE UNCHANGED vars \/ SdCard
  BY <1>1, SameGlass DEF vars, SdCard, uiVars
<1>2. CASE ~(UNCHANGED vars \/ SdCard)
  <2>1. /\ UNCHANGED <<shown, glass, on, slept, due, file>> /\ on /\ pc # "ui"
        /\ UNCHANGED nvsVars \/ \E p \in {None, shown.path} : Put("cpath", p)
    BY <1>2 DEF SaveCheck, Uncache, SaveBegin, SavePdf, CommitPdf, SetPath, SaveDisplay,
                CommitDisplay, SaveClose, Wake, PowerOff, Dark, At, Goto, uiVars
  <2>2. nvs'.clean = nvs.clean /\ stuck \subseteq stuck'
    <3>1. {None, shown.path} \subseteq Paths \cup {None}
      BY DEF FixedInv, IInv, Types, ScreenType
    <3>2. CASE \E p \in {None, shown.path} : Put("cpath", p)
      <4>1. /\ nvs' = nvs \/ \E x \in Paths \cup {None} : nvs' = [nvs EXCEPT !.cpath = x]
            /\ stuck' \in {stuck, stuck \cup {"cpath"}}
        BY <3>1, <3>2, PutPath DEF FixedInv, IInv
      <4>. QED
        BY <4>1 DEF FixedInv, IInv, Types, TypeOK
    <3>. QED
      BY <2>1, <3>2
  <2>. QED
    BY <2>1, <2>2, SameGlass
<1>. QED
  BY <1>1, <1>2

LEMMA NvsGlass ==
  ASSUME FixedInv, NvsWrite
  PROVE  ShownGenuine' /\ GlassIs'
<1>. DEFINE e == Head(due)
<1>1. /\ on /\ due # <<>> /\ Put(e.key, e.val) /\ due' = Tail(due)
      /\ UNCHANGED <<shown, glass, on, slept, pc, file>> /\ due \in Seq(Entries)
  BY DEF NvsWrite, uiVars, sdVars, FixedInv, IInv, Types
<1>2. e \in Entries
  BY <1>1, HeadTailProperties, EmptySeq
<1>. HIDE DEF e
<1>3. /\ stuck \subseteq stuck'
      /\ "clean" \notin stuck' =>
           nvs'.clean \in IF e.key = "clean" THEN {e.val, Blank["clean"]} ELSE {nvs.clean}
  BY <1>1, <1>2, PutEntry DEF FixedInv, IInv
<1>4. LoadsDirty'
  <2>1. ASSUME Ends(due, "clean", nvs.clean, FALSE), "clean" \notin stuck'
        PROVE  Ends(due', "clean", nvs'.clean, FALSE)
    BY <1>1, <1>3, <2>1, EndsOfTail DEF e
  <2>. QED
    BY <1>1, <1>3, <2>1 DEF FixedInv, GlassIs, LoadsDirty
<1>5. ShownGenuine' /\ OffGlass' /\ OnGlass'
  BY <1>1, <1>3 DEF FixedInv, GlassIs, ShownGenuine, Genuine, OffGlass, OnGlass, Picture
<1>. QED
  BY <1>4, <1>5 DEF GlassIs

LEMMA DarkGlass ==
  ASSUME FixedInv, PowerLoss \/ (PowerOff /\ ~on')
  PROVE  ShownGenuine' /\ GlassIs'
<1>1. on' = FALSE /\ pc' = "ui" /\ shown' = NoScreen /\ UNCHANGED <<nvs, stuck, file>>
  BY DEF PowerLoss, PowerOff, Dark, Goto, uiVars, At
<1>2. ShownGenuine' /\ OnGlass' /\ LoadsDirty'
  BY <1>1, NoScreenFacts DEF ShownGenuine, OnGlass, LoadsDirty
<1>3. OffGlass'
  <2>1. CASE PowerLoss
    BY <2>1 DEF PowerLoss, OffGlass
  <2>2. CASE PowerOff /\ ~on'
    <3>1. /\ slept' = "card" => shown.state \in {"ok", "loading"} /\ shown.painted
          /\ glass' = glass /\ due = <<>> /\ pc \in {"off", "pending"} /\ on
      BY <2>2 DEF PowerOff, Goto, uiVars, At
    <3>. SUFFICES ASSUME shown.state \in {"ok", "loading"}, shown.painted
                  PROVE  /\ stuck = {} /\ Names /\ nvs.clean => glass = Picture(nvs.src, nvs.path)
                         /\ /\ glass \in Cards /\ "cpath" \notin stuck
                            /\ nvs.path # None /\ nvs.cpath = nvs.path
                            => glass = <<nvs.path, file[nvs.path]>>
      BY <1>1, <3>1 DEF OffGlass, Picture, Names
    <3>2. /\ shown.src \in {"my", "sd"} /\ glass = shown.view
          /\ Sound(shown)
      BY <3>1, NoScreenFacts DEF FixedInv, IInv, Types, ScreenType, ScreenIs, Sound, Bared,
                                 GlassIs, OnGlass
    <3>3. None \notin Cards /\ My \notin Cards
      BY StoreFits, LastCardAssumption DEF P!StoreAssumption
    <3>4. ASSUME stuck = {}, Names, nvs.clean
          PROVE  glass = Picture(nvs.src, nvs.path)
      <4>1. /\ nvs.src \in {shown.src, "none"} /\ nvs.path \in {shown.path, None}
        BY <3>1, <3>2, <3>4, QueuedNothing DEF FixedInv, IInv, ScreenIs
      <4>2. nvs.src = shown.src /\ (nvs.src = "sd" => nvs.path = shown.path)
        BY <3>2, <3>4, <4>1 DEF Names
      <4>3. shown.state = "ok"
        BY <3>1, <3>4, QueuedNothing DEF FixedInv, GlassIs, LoadsDirty
      <4>4. CASE shown.src = "my"
        BY <3>2, <4>2, <4>3, <4>4 DEF Sound, Picture
      <4>5. CASE shown.src = "sd"
        <5>1. shown.view # None
          BY <3>2, <3>3, <4>3, <4>5 DEF Sound
        <5>. QED
          BY <3>2, <3>4, <4>2, <4>5, <5>1, ShownIsPicture DEF FixedInv
      <4>. QED
        BY <3>2, <4>4, <4>5
    <3>5. ASSUME glass \in Cards, "cpath" \notin stuck, nvs.path # None, nvs.cpath = nvs.path
          PROVE  glass = <<nvs.path, file[nvs.path]>>
      <4>1. shown.src = "sd" /\ shown.state = "ok" /\ shown.view # None
        BY <3>2, <3>3, <3>5 DEF Sound
      <4>2. nvs.path = shown.path
        BY <3>1, <3>5, <4>1 DEF FixedInv, Reopened
      <4>. QED
        BY <3>2, <3>5, <4>1, <4>2, ShownIsPicture DEF FixedInv, Picture
    <3>. QED
      BY <3>4, <3>5
  <2>. QED
    BY <2>1, <2>2
<1>. QED
  BY <1>2, <1>3 DEF GlassIs

\* The card stays what it was.
LEMMA SameShown ==
  ASSUME FixedInv, file' = file, Alike(shown, shown')
  PROVE  ShownGenuine'
  BY DEF FixedInv, ShownGenuine, Genuine, Alike

\* set_clean_resume says what there is to say of the screen that is shown next.
LEMMA SaysDirty ==
  ASSUME shown' \in ScreenType, nvs' = nvs, stuck' = stuck, NEW c \in BOOLEAN, c => shown'.state # "loading",
         due' = Clean(c) \/ due' = Save(shown') \o Clean(c)
  PROVE  LoadsDirty'
<1>. DEFINE s == shown'
<1>. SUFFICES ASSUME s.state = "loading"
              PROVE  Ends(due', "clean", nvs.clean, FALSE)
  BY DEF LoadsDirty
<1>1. c = FALSE
  OBVIOUS
<1>2. s \in ScreenType
  OBVIOUS
<1>. HIDE DEF s
<1>3. \A x : Ends(Clean(c), "clean", x, c)
  BY QueuedClean
<1>4. \A x : Ends(Save(s) \o Clean(c), "clean", x, c)
  BY <1>2, Queued
<1>. QED
  BY <1>1, <1>3, <1>4 DEF s

LEMMA CoverGlass ==
  ASSUME FixedInv, file' = file, shown.src # "none",
         Paint \/ CloseMenu \/ OpenMenu \/ Cover \/ CloseModal \/ Uncover \/ Sleep
  PROVE  ShownGenuine' /\ GlassIs'
<1>. USE DEF AtRest, Running, Draw
<1>1. /\ shown \in ScreenType /\ on /\ on' = on /\ nvs' = nvs /\ stuck' = stuck /\ due = <<>>
  BY DEF FixedInv, IInv, Types, Paint, CloseMenu, OpenMenu, Cover, CloseModal, Uncover, Sleep
<1>2. /\ slept = "card" /\ stuck = {} /\ (shown.clean \/ shown.adopt) =>
           glass = Picture(shown.src, shown.path)
      /\ shown.adopt => shown.cover = "menu" \/ (shown.cover = "no" /\ shown.painted)
      /\ shown.painted /\ shown.cover = "no" => glass = shown.view
  BY <1>1 DEF FixedInv, GlassIs, OnGlass
<1>3. OffGlass'
  BY <1>1 DEF OffGlass
<1>4. ASSUME Alike(shown, shown'), shown' \in ScreenType,
             \/ due' = due
             \/ \E c \in BOOLEAN : (c => shown'.state # "loading") /\ due' = Clean(c)
             \/ \E c \in BOOLEAN :
                  (c => shown'.state # "loading") /\ due' = Save(shown') \o Clean(c)
      PROVE  ShownGenuine' /\ LoadsDirty'
  <2>1. CASE due' = due
    BY <1>1, <1>4, <2>1, SameShown DEF FixedInv, GlassIs, LoadsDirty, Alike
  <2>2. CASE due' # due
    <3>1. PICK c \in BOOLEAN :
            /\ c => shown'.state # "loading"
            /\ due' = Clean(c) \/ due' = Save(shown') \o Clean(c)
      BY <1>4, <2>2, Zenon
    <3>. QED
      BY <1>1, <1>4, <3>1, SameShown, SaysDirty
  <2>. QED
    BY <2>1, <2>2
<1>5. \A s : CleanResumable(s) \in BOOLEAN /\ (CleanResumable(s) => s.state # "loading")
  BY DEF CleanResumable
<1>6. CASE Paint
  <2>1. shown' = [shown EXCEPT !.painted = TRUE] /\ ~shown.painted /\ due' = due /\ pc' = pc
    BY <1>6 DEF Paint
  <2>2. Alike(shown, shown') /\ shown' \in ScreenType
    BY <1>1, <2>1 DEF ScreenType, Alike
  <2>3. shown'.cover = shown.cover /\ shown'.adopt = shown.adopt /\ shown'.clean = shown.clean
    BY <1>1, <2>1 DEF ScreenType
  <2>4. OnGlass'
    <3>1. CASE shown.adopt
      <4>1. glass' = glass /\ slept' = slept /\ shown.cover = "menu"
        BY <1>2, <1>6, <2>1, <3>1 DEF Paint
      <4>. QED
        BY <1>1, <1>2, <2>1, <2>2, <2>3, <3>1, <4>1 DEF OnGlass, Alike, Picture
    <3>2. CASE ~shown.adopt
      <4>1. glass' = shown.view /\ slept' = "no"
        BY <1>6, <3>2 DEF Paint
      <4>. QED
        BY <1>1, <2>1, <2>2, <2>3, <3>2, <4>1 DEF OnGlass, Alike
    <3>. QED
      BY <3>1, <3>2
  <2>. QED
    BY <1>3, <1>4, <2>1, <2>2, <2>4 DEF GlassIs
<1>7. CASE CloseMenu
  <2>1. /\ shown' = [shown EXCEPT !.cover = "no", !.painted = FALSE, !.adopt = FALSE]
        /\ due' = due /\ pc' = pc /\ slept' = "no"
    BY <1>7 DEF CloseMenu
  <2>2. Alike(shown, shown') /\ shown' \in ScreenType /\ ~shown'.adopt /\ ~shown'.painted
    BY <1>1, <2>1 DEF ScreenType, Alike
  <2>3. OnGlass'
    BY <1>1, <2>1, <2>2 DEF OnGlass
  <2>. QED
    BY <1>3, <1>4, <2>1, <2>2, <2>3 DEF GlassIs
<1>8. CASE OpenMenu
  <2>1. /\ \E st, pt \in BOOLEAN :
             /\ pt => shown.painted
             /\ shown' = [shown EXCEPT !.cover = "menu", !.stray = st, !.painted = pt]
        /\ UNCHANGED <<due, pc, glass, slept>>
    <3>. DEFINE st == shown.stray \/ shown.cover = "modal"
                pt == shown.painted /\ ~(shown.cover = "modal")
    <3>1. /\ shown' = [shown EXCEPT !.cover = "menu", !.stray = st, !.painted = pt]
          /\ UNCHANGED <<due, pc, glass, slept>>
      BY <1>8 DEF OpenMenu
    <3>2. st \in BOOLEAN /\ pt \in BOOLEAN /\ (pt => shown.painted)
      BY <1>1 DEF ScreenType
    <3>. HIDE DEF st, pt
    <3>. QED
      BY <3>1, <3>2
  <2>2. /\ Alike(shown, shown') /\ shown' \in ScreenType /\ shown'.cover = "menu"
        /\ shown'.adopt = shown.adopt /\ shown'.clean = shown.clean
    BY <1>1, <2>1 DEF ScreenType, Alike
  <2>3. OnGlass'
    BY <1>1, <1>2, <2>1, <2>2 DEF OnGlass, Picture, Alike
  <2>. QED
    BY <1>3, <1>4, <2>1, <2>2, <2>3 DEF GlassIs
<1>9. CASE Cover
  <2>1. PICK c \in {"modal", "screen"} :
          shown' = [shown EXCEPT !.cover = c, !.adopt = FALSE, !.painted = TRUE,
                                 !.stray = shown.stray /\ c = "screen",
                                 !.clean = shown.clean /\ c = "modal"]
    BY <1>9 DEF Cover
  <2>2. due' = Clean(FALSE) /\ pc' = pc /\ slept' = "no"
    BY <1>9 DEF Cover
  <2>3. (shown.clean /\ c = "modal") \in BOOLEAN /\ (shown.stray /\ c = "screen") \in BOOLEAN
    OBVIOUS
  <2>4. Alike(shown, shown') /\ shown' \in ScreenType /\ ~shown'.adopt /\ shown'.cover # "no"
    BY <1>1, <2>1, <2>3 DEF ScreenType, Alike
  <2>5. OnGlass'
    BY <1>1, <2>2, <2>4 DEF OnGlass
  <2>6. \E d \in BOOLEAN : (d => shown'.state # "loading") /\ due' = Clean(d)
    BY <2>2, Zenon
  <2>. QED
    BY <1>3, <1>4, <2>4, <2>5, <2>6 DEF GlassIs
<1>10. CASE CloseModal
  <2>1. /\ shown' = [shown EXCEPT !.cover = "no", !.painted = FALSE]
        /\ shown.cover = "modal" /\ due' = Clean(CleanResumable(shown'))
        /\ UNCHANGED <<pc, glass, slept>>
    BY <1>10 DEF CloseModal
  <2>2. /\ Alike(shown, shown') /\ shown' \in ScreenType /\ ~shown'.painted
        /\ shown'.adopt = shown.adopt /\ shown'.clean = shown.clean
    BY <1>1, <2>1 DEF ScreenType, Alike
  <2>3. OnGlass'
    BY <1>1, <1>2, <2>1, <2>2 DEF OnGlass, Picture, Alike
  <2>. QED
    BY <1>3, <1>4, <1>5, <2>1, <2>2, <2>3 DEF GlassIs
<1>11. CASE Uncover
  <2>1. /\ shown' = [shown EXCEPT !.cover = "menu", !.painted = FALSE]
        /\ due' = Save(shown') \o Clean(CleanResumable(shown'))
        /\ UNCHANGED <<pc, glass, slept>>
    BY <1>11 DEF Uncover, Appear
  <2>2. /\ Alike(shown, shown') /\ shown' \in ScreenType /\ ~shown'.painted
        /\ shown'.adopt = shown.adopt /\ shown'.clean = shown.clean /\ shown'.cover = "menu"
    BY <1>1, <2>1 DEF ScreenType, Alike
  <2>3. OnGlass'
    BY <1>1, <1>2, <2>1, <2>2 DEF OnGlass, Picture, Alike
  <2>. QED
    BY <1>3, <1>4, <1>5, <2>1, <2>2, <2>3 DEF GlassIs
<1>12. CASE Sleep
  <2>1. /\ \/ shown' = shown /\ shown.cover = "no" /\ UNCHANGED <<glass, slept>>
           \/ /\ shown' = [shown EXCEPT !.cover = "no", !.stray = FALSE, !.painted = TRUE]
              /\ glass' = shown.view /\ slept' = "no"
        /\ due' = (IF shown.cover = "screen" THEN Save(shown) \o Clean(CleanResumable(shown))
                   ELSE <<>>)
    BY <1>12 DEF Sleep
  <2>2. /\ Alike(shown, shown') /\ shown' \in ScreenType
        /\ shown'.adopt = shown.adopt /\ shown'.clean = shown.clean
    BY <1>1, <2>1 DEF ScreenType, Alike
  <2>3. OnGlass'
    <3>1. CASE shown' = shown /\ UNCHANGED <<glass, slept>>
      BY <1>1, <1>2, <3>1 DEF OnGlass, Picture, FixedInv, GlassIs
    <3>2. CASE /\ shown' = [shown EXCEPT !.cover = "no", !.stray = FALSE, !.painted = TRUE]
               /\ glass' = shown.view /\ slept' = "no"
      <4>1. shown'.cover = "no" /\ shown'.painted /\ shown'.view = shown.view
        BY <1>1, <3>2 DEF ScreenType
      <4>. QED
        BY <3>2, <4>1 DEF OnGlass
    <3>. QED
      BY <2>1, <3>1, <3>2
  <2>4. \/ due' = due
        \/ \E c \in BOOLEAN : (c => shown'.state # "loading") /\ due' = Save(shown') \o Clean(c)
    <3>1. Save(shown') = Save(shown) /\ shown'.state = shown.state
      BY <2>2 DEF Save, Alike
    <3>. QED
      BY <1>1, <1>5, <2>1, <3>1
  <2>. QED
    BY <1>3, <1>4, <2>2, <2>3, <2>4 DEF GlassIs
<1>. QED
  BY <1>6, <1>7, <1>8, <1>9, <1>10, <1>11, <1>12

\* Home, or another screen that is not of a card: the glass is drawn on.
LEMMA HomeGlass ==
  ASSUME shown' = NoScreen, on' = TRUE, slept' = "no"
  PROVE  ShownGenuine' /\ GlassIs'
<1>1. ShownGenuine' /\ OffGlass' /\ LoadsDirty'
  BY NoScreenFacts DEF ShownGenuine, OffGlass, LoadsDirty
<1>2. OnGlass'
  BY NoScreenFacts DEF OnGlass
<1>. QED
  BY <1>1, <1>2 DEF GlassIs

LEMMA OpenGlass ==
  ASSUME FixedInv, file' = file, OpenMy \/ \E p \in Paths : OpenSd(p)
  PROVE  ShownGenuine' /\ GlassIs'
<1>1. on' = TRUE /\ pc' = "ui"
  BY DEF OpenMy, OpenSd, AtRest, FixedInv, IInv, Types, TypeOK
<1>2. /\ ~shown'.adopt /\ ~shown'.clean /\ ~shown'.painted /\ shown'.state = "ok"
      /\ shown'.src = "sd" => Genuine(shown'.view)
  <2>1. CASE OpenMy
    BY <2>1 DEF OpenMy, Appear, MyScreen, Screen, NoScreen
  <2>2. CASE \E p \in Paths : OpenSd(p)
    <3>1. PICK p \in Paths : OpenSd(p)
      BY <2>2
    <3>. DEFINE c == <<p, file[p]>>
                k == p \in CardPaths
    <3>2. shown' = Screen("sd", p, "ok", c, k) /\ Genuine(c)
      BY <3>1 DEF OpenSd, Appear, Genuine
    <3>. HIDE DEF c, k
    <3>. QED
      BY <3>2 DEF Screen, NoScreen
  <2>. QED
    BY <2>1, <2>2
<1>3. ShownGenuine'
  BY <1>2 DEF ShownGenuine, Genuine
<1>4. OffGlass' /\ OnGlass' /\ LoadsDirty'
  BY <1>1, <1>2 DEF OffGlass, OnGlass, LoadsDirty
<1>. QED
  BY <1>3, <1>4 DEF GlassIs

LEMMA LeaveGlass ==
  ASSUME FixedInv, file' = file, Leave \/ Poll \/ (Sleep /\ shown.src = "none")
  PROVE  ShownGenuine' /\ GlassIs'
<1>1. on = TRUE /\ on' = TRUE /\ due = <<>>
  BY DEF Leave, Poll, Sleep, AtRest, Running, FixedInv, IInv, Types, TypeOK
<1>2. CASE shown' = NoScreen /\ Draw(None)
  BY <1>1, <1>2, HomeGlass DEF Draw
<1>3. CASE Sleep /\ shown.src = "none"
  <2>1. shown = NoScreen
    BY <1>3 DEF FixedInv, IInv, ScreenIs, Sound
  <2>2. shown' = NoScreen /\ Draw(None)
    BY <1>3, <2>1, NoScreenFacts DEF Sleep
  <2>. QED
    BY <1>2, <2>2
<1>4. CASE Poll /\ ~(shown' = NoScreen /\ Draw(None))
  <2>1. /\ shown.state = "loading" /\ nvs' = nvs /\ stuck' = stuck
        /\ shown' = [shown EXCEPT !.state = "ok", !.view = <<shown.path, file[shown.path]>>,
                                  !.painted = shown.cover \in {"modal", "screen"},
                                  !.adopt = shown.clean /\ shown.cover = "menu"]
        /\ UNCHANGED <<glass, slept>>
    BY <1>1, <1>4 DEF Poll
  <2>2. shown \in ScreenType /\ shown.src = "sd"
    BY <2>1, NoScreenFacts DEF FixedInv, IInv, Types, ScreenIs, Sound, ScreenType
  <2>. DEFINE c == <<shown.path, file[shown.path]>>
              x == shown.cover \in {"modal", "screen"}
              y == (shown.clean /\ shown.cover = "menu")
  <2>3. /\ Genuine(c) /\ c = Picture("sd", shown.path)
        /\ x \in BOOLEAN /\ y \in BOOLEAN
        /\ x <=> shown.cover \in {"modal", "screen"}
        /\ y <=> (shown.clean /\ shown.cover = "menu")
    BY DEF Genuine, Picture
  <2>4. shown' = [shown EXCEPT !.state = "ok", !.view = c, !.painted = x, !.adopt = y]
    BY <2>1
  <2>. HIDE DEF c, x, y
  <2>5. /\ shown'.src = "sd" /\ shown'.path = shown.path /\ shown'.state = "ok"
        /\ shown'.view = c /\ shown'.painted = x /\ shown'.adopt = y
        /\ shown'.clean = shown.clean /\ shown'.cover = shown.cover
    BY <2>2, <2>4 DEF ScreenType
  <2>6. ShownGenuine'
    BY <2>3, <2>5 DEF ShownGenuine, Genuine
  <2>7. LoadsDirty' /\ OffGlass'
    BY <1>1, <2>5 DEF LoadsDirty, OffGlass
  <2>8. slept = "card" /\ stuck = {} /\ shown.clean => glass = Picture("sd", shown.path)
    BY <1>1, <2>2 DEF FixedInv, GlassIs, OnGlass
  <2>9. OnGlass'
    BY <1>1, <2>1, <2>3, <2>5, <2>8 DEF OnGlass, Picture
  <2>. QED
    BY <2>6, <2>7, <2>9 DEF GlassIs
<1>. QED
  BY <1>2, <1>3, <1>4 DEF Leave

\* A boot onto a card: the glass may be taken for it only if clean_resume says so.
LEMMA ResumesGlass ==
  ASSUME FixedInv, file' = file, ~on, on' = TRUE, nvs' = nvs, stuck' = stuck, Names,
         UNCHANGED <<glass, slept>>,
         NEW s \in ScreenType, s.src # "none", ~s.painted, s.cover = "menu", Resume(s),
         slept = "card" => Picture(s.src, s.path) = Picture(nvs.src, nvs.path),
         s.src = "sd" /\ s.state = "ok" => Genuine(s.view)
  PROVE  ShownGenuine' /\ GlassIs'
<1>1. PICK c \in {nvs.clean, FALSE} : Appear([s EXCEPT !.adopt = c, !.clean = c])
  BY DEF Resume
<1>2. c \in BOOLEAN /\ (c => nvs.clean)
  BY DEF FixedInv, IInv, Types, TypeOK
<1>3. /\ shown' = [s EXCEPT !.adopt = c, !.clean = c]
      /\ due' = Save(shown') \o Clean(CleanResumable(shown'))
  BY <1>1 DEF Appear
<1>4. /\ shown' \in ScreenType /\ shown'.adopt = c /\ shown'.clean = c /\ Alike(s, shown')
      /\ ~shown'.painted /\ shown'.cover = "menu"
  BY <1>2, <1>3 DEF ScreenType, Alike
<1>5. ShownGenuine'
  BY <1>4 DEF ShownGenuine, Genuine, Alike
<1>6. OffGlass'
  BY DEF OffGlass
<1>7. slept = "card" /\ stuck = {} /\ nvs.clean => glass = Picture(nvs.src, nvs.path)
  BY DEF FixedInv, GlassIs, OffGlass
<1>8. OnGlass'
  BY <1>2, <1>4, <1>7 DEF OnGlass, Alike, Picture
<1>9. LoadsDirty'
  <2>1. \E k \in BOOLEAN : (k => shown'.state # "loading") /\ due' = Save(shown') \o Clean(k)
    BY <1>3 DEF CleanResumable
  <2>. QED
    BY <1>4, <2>1, SaysDirty
<1>. QED
  BY <1>5, <1>6, <1>8, <1>9 DEF GlassIs

LEMMA BootGlass ==
  ASSUME FixedInv, file' = file, Boot
  PROVE  ShownGenuine' /\ GlassIs'
<1>1. /\ ~on /\ on' = TRUE /\ nvs' = nvs /\ stuck' = stuck /\ slot' = slot
      /\ BootMy \/ BootSd \/ BootCache => Names
  BY DEF Names, BootMy, BootSd, BootCache, Boot, FixedInv, IInv, Control
<1>2. CASE shown' = NoScreen /\ Draw(None)
  BY <1>1, <1>2, HomeGlass DEF Draw
<1>3. CASE BootMy
  <2>1. CASE Resume(MyScreen) /\ UNCHANGED <<glass, slept>>
    <3>1. MyScreen.src = "my" /\ ~MyScreen.painted /\ MyScreen.cover = "menu" /\ nvs.src = "my"
      BY <1>3 DEF MyScreen, Screen, NoScreen, BootMy
    <3>2. Picture(MyScreen.src, MyScreen.path) = Picture(nvs.src, nvs.path)
      BY <3>1 DEF Picture
    <3>. QED
      BY <1>1, <1>3, <2>1, <3>1, <3>2, MyScreenFacts, ResumesGlass
  <2>. QED
    BY <1>2, <1>3, <2>1 DEF BootMy
<1>4. CASE BootSd
  <2>. DEFINE p == nvs.path
              k == p \in CardPaths
  <2>1. p \in Paths /\ nvs.src = "sd" /\ UNCHANGED <<glass, slept>>
    BY <1>4 DEF BootSd, FixedInv, IInv, Types, TypeOK
  <2>2. PICK st \in {"loading", "failed"}, j \in BOOLEAN : Resume(Screen("sd", p, st, None, j))
    <3>1. k \in BOOLEAN /\ FALSE \in BOOLEAN
      OBVIOUS
    <3>2. Resume(Screen("sd", p, "loading", None, k)) \/ Resume(Screen("sd", p, "failed", None, FALSE))
      BY <1>4 DEF BootSd
    <3>. HIDE DEF p, k
    <3>. QED
      BY <3>1, <3>2, Zenon
  <2>. DEFINE s == Screen("sd", p, st, None, j)
  <2>. HIDE DEF p
  <2>3. s \in ScreenType /\ s.src = "sd" /\ s.path = p /\ s.state = st
    BY <2>1, <2>2, SdScreenFacts
  <2>4. ~s.painted /\ s.cover = "menu"
    BY DEF Screen, NoScreen
  <2>. HIDE DEF s
  <2>5. Picture(s.src, s.path) = Picture(nvs.src, nvs.path)
    BY <2>1, <2>3 DEF p
  <2>. QED
    BY <1>1, <1>4, <2>1, <2>2, <2>3, <2>4, <2>5, ResumesGlass DEF s
<1>5. CASE BootCache
  <2>1. nvs.src = "sd" /\ UNCHANGED <<glass, slept>>
    BY <1>5 DEF BootCache
  <2>2. PICK t \in ScreenType : Resume(t) /\ OfCache(t)
    BY <1>5, CacheScreen DEF FixedInv
  <2>3. PICK b \in BlobId : t.view = P!Held[b]
    BY <2>2 DEF OfCache
  <2>4. t.view # None
    BY <2>2, StoreFits DEF OfCache, P!StoreAssumption
  <2>5. Genuine(t.view)
    BY <2>3, <2>4, HeldIsGenuine DEF FixedInv
  <2>6. t.src = "sd" /\ t.path = nvs.path /\ ~t.painted /\ t.cover = "menu"
    BY <2>2 DEF OfCache
  <2>7. Picture(t.src, t.path) = Picture(nvs.src, nvs.path)
    BY <2>1, <2>6
  <2>. QED
    BY <1>1, <1>5, <2>1, <2>2, <2>5, <2>6, <2>7, ResumesGlass
<1>6. CASE BootHome
  BY <1>2, <1>6 DEF BootHome
<1>. QED
  BY <1>3, <1>4, <1>5, <1>6 DEF Boot

LEMMA FixedInit == Init => FixedInv
<1>. SUFFICES ASSUME Init PROVE FixedInv
  OBVIOUS
<1>1. IInv
  BY InitInv
<1>2. StoreGenuine
  <2>1. slot = [i \in P!Slots |-> Erased] /\ wr.blobs = P!EmptyHeader
    BY SameInit DEF Init, P!Init, P!NoWriter
  <2>2. Erased \notin P!Header
    BY StoreFits DEF P!MarkAssumption
  <2>. QED
    BY <2>1, <2>2, NothingIsGenuine, StoreGenuineIs
<1>3. ShownGenuine /\ GlassIs /\ Bared /\ Reopened
  BY NoScreenFacts DEF Init, ShownGenuine, GlassIs, OffGlass, OnGlass, LoadsDirty, Bared, Reopened
<1>. QED
  BY <1>1, <1>2, <1>3 DEF FixedInv

LEMMA BaredSteps == IInv /\ Bared /\ [Next]_vars => Bared'
<1>. SUFFICES ASSUME IInv, Bared, [Next]_vars, pc' # "ui"
              PROVE  \/ shown' = NoScreen /\ glass' = None
                     \/ shown'.src # "none" /\ shown'.cover = "no"
  BY DEF Bared
<1>1. shown \in ScreenType /\ (shown.src = "none" => shown = NoScreen)
  BY DEF IInv, Types, ScreenIs, Sound
<1>2. CASE UNCHANGED <<shown, glass>> /\ pc # "ui"
  BY <1>2 DEF Bared
<1>3. CASE UNCHANGED vars \/ SdCard \/ NvsWrite
  BY <1>2, <1>3 DEF vars, SdCard, NvsWrite, uiVars
<1>4. CASE Paint \/ Poll
  <2>1. pc = "pending"
    BY <1>4 DEF Paint, Poll, Running
  <2>2. shown # NoScreen
    BY <1>4, NoScreenFacts DEF Paint, Poll
  <2>3. shown.src # "none" /\ shown.cover = "no"
    BY <1>1, <2>1, <2>2 DEF Bared
  <2>4. CASE Paint
    BY <1>1, <2>3, <2>4 DEF Paint, ScreenType
  <2>5. CASE Poll
    <3>1. CASE shown' = NoScreen /\ Draw(None)
      BY <3>1 DEF Draw
    <3>2. CASE shown' = [shown EXCEPT !.state = "ok", !.view = <<shown.path, file[shown.path]>>,
                                      !.painted = shown.cover \in {"modal", "screen"},
                                      !.adopt = shown.clean /\ shown.cover = "menu"]
      BY <1>1, <2>3, <3>2 DEF ScreenType
    <3>. QED
      BY <2>5, <3>1, <3>2 DEF Poll
  <2>. QED
    BY <1>4, <2>4, <2>5
<1>5. CASE Sleep
  <2>1. CASE shown.src = "none"
    BY <1>1, <1>5, <2>1, NoScreenFacts DEF Sleep, Draw
  <2>2. CASE shown.src # "none"
    BY <1>1, <1>5, <2>2 DEF Sleep, ScreenType
  <2>. QED
    BY <2>1, <2>2
<1>6. CASE (\E p \in Paths : OpenSd(p)) \/ OpenMy \/ Leave \/ CloseMenu \/ OpenMenu \/ Cover
           \/ CloseModal \/ Uncover \/ Wake \/ PowerLoss
  BY <1>6 DEF OpenSd, OpenMy, Leave, CloseMenu, OpenMenu, Cover, CloseModal, Uncover, Wake,
              PowerLoss, Dark, AtRest, Goto
<1>7. CASE Boot
  BY <1>7 DEF Boot, IInv, Control
<1>8. CASE SaveCheck \/ Uncache \/ SaveBegin \/ SavePdf \/ CommitPdf \/ SetPath \/ SaveDisplay
           \/ CommitDisplay \/ SaveClose \/ PowerOff
  BY <1>2, <1>8 DEF SaveCheck, Uncache, SaveBegin, SavePdf, CommitPdf, SetPath, SaveDisplay,
                    CommitDisplay, SaveClose, PowerOff, Dark, At, Goto, uiVars
<1>. QED
  BY <1>3, <1>4, <1>5, <1>6, <1>7, <1>8 DEF Next, Ui, GoToSleep

LEMMA ReopenedSteps == IInv /\ Reopened /\ [Next]_vars => Reopened'
<1>. SUFFICES ASSUME IInv, Reopened, [Next]_vars
              PROVE  Reopened'
  OBVIOUS
<1>1. shown \in ScreenType /\ (shown.src = "none" => shown = NoScreen)
  BY DEF IInv, Types, ScreenIs, Sound
<1>2. CASE UNCHANGED <<shown, nvs, stuck>> /\ (pc' \in {"off", "pending"} => pc \in {"off", "pending"})
  BY <1>2 DEF Reopened
<1>3. CASE UNCHANGED vars \/ SdCard
  BY <1>2, <1>3 DEF vars, SdCard, uiVars
<1>4. CASE NvsWrite
  <2>. DEFINE e == Head(due)
  <2>1. /\ Put(e.key, e.val) /\ UNCHANGED <<shown, pc>> /\ due \in Seq(Entries) /\ due # <<>>
    BY <1>4 DEF NvsWrite, uiVars, IInv, Types
  <2>2. e \in Entries /\ e = due[1] /\ 1 \in 1 .. Len(due)
    BY <2>1, HeadTailProperties, EmptySeq, LenProperties
  <2>3. shown.src # "none" /\ e.key = "path" => e.val = shown.path
    BY <2>2 DEF IInv, ScreenIs, Only
  <2>. HIDE DEF e
  <2>4. nvs'.cpath = nvs.cpath /\ stuck \subseteq stuck'
    BY <2>1, <2>2, PutEntry DEF IInv
  <2>5. shown.src # "none" => nvs'.path \in {nvs.path, shown.path}
    BY <2>1, <2>2, <2>3 DEF Put, IInv, Types, TypeOK
  <2>6. shown.state = "loading" => shown.src # "none"
    BY <1>1, NoScreenFacts
  <2>. QED
    BY <2>1, <2>4, <2>5, <2>6 DEF Reopened
<1>5. CASE /\ nvs' = nvs /\ stuck' = stuck /\ Alike(shown, shown')
           /\ pc' \in {"off", "pending"} => pc \in {"off", "pending"}
  BY <1>5 DEF Reopened, Alike
<1>6. CASE shown' = NoScreen
  BY <1>6, NoScreenFacts DEF Reopened
<1>7. CASE Paint \/ CloseMenu \/ OpenMenu \/ Cover \/ CloseModal \/ Uncover
  <2>1. nvs' = nvs /\ stuck' = stuck /\ pc' = pc
    BY <1>7 DEF Paint, CloseMenu, OpenMenu, Cover, CloseModal, Uncover
  <2>2. Alike(shown, shown')
    BY <1>1, <1>7 DEF Paint, CloseMenu, OpenMenu, Cover, CloseModal, Uncover, Appear, Alike,
                      ScreenType
  <2>. QED
    BY <1>5, <2>1, <2>2
<1>8. CASE Sleep
  <2>1. nvs' = nvs /\ stuck' = stuck /\ pc' = "check"
    BY <1>8 DEF Sleep, Goto
  <2>2. \/ shown' = shown
        \/ shown' = [shown EXCEPT !.cover = "no", !.stray = FALSE, !.painted = TRUE]
    BY <1>8 DEF Sleep
  <2>3. Alike(shown, shown')
    BY <1>1, <2>2 DEF Alike, ScreenType
  <2>. QED
    BY <1>5, <2>1, <2>3
<1>9. CASE Poll
  <2>1. nvs' = nvs /\ pc' = pc /\ shown.state = "loading"
    BY <1>9 DEF Poll
  <2>2. nvs.path = shown.path
    BY <2>1 DEF Reopened
  <2>3. CASE shown' = [shown EXCEPT !.state = "ok", !.view = <<shown.path, file[shown.path]>>,
                                    !.painted = shown.cover \in {"modal", "screen"},
                                    !.adopt = shown.clean /\ shown.cover = "menu"]
    <3>1. shown'.state = "ok" /\ shown'.path = shown.path
      BY <1>1, <2>3 DEF ScreenType
    <3>. QED
      BY <2>1, <2>2, <3>1 DEF Reopened
  <2>. QED
    BY <1>6, <1>9, <2>3 DEF Poll
<1>10. CASE (\E p \in Paths : OpenSd(p)) \/ OpenMy
  <2>1. pc' = "ui" /\ shown'.state = "ok"
    BY <1>10 DEF OpenSd, OpenMy, Appear, AtRest, MyScreen, Screen, NoScreen
  <2>. QED
    BY <2>1 DEF Reopened
<1>11. CASE Leave \/ PowerLoss \/ (PowerOff /\ ~on')
  <2>1. shown' = NoScreen
    BY <1>11 DEF Leave, PowerLoss, PowerOff, Dark, uiVars, At
  <2>. QED
    BY <1>6, <2>1
<1>12. CASE Boot
  <2>1. pc' = "ui" /\ nvs' = nvs
    BY <1>12 DEF Boot, IInv, Control
  <2>2. ASSUME NEW s, Resume(s), s.path = nvs.path \/ s.state # "loading",
               DOMAIN s = DOMAIN NoScreen
        PROVE  shown'.state = "loading" => nvs'.path = shown'.path
    <3>1. PICK c : shown' = [s EXCEPT !.adopt = c, !.clean = c]
      BY <2>2 DEF Resume, Appear
    <3>2. shown'.state = s.state /\ shown'.path = s.path
      BY <2>2, <3>1 DEF NoScreen
    <3>. QED
      BY <2>1, <2>2, <3>2
  <2>3. shown'.state = "loading" => nvs'.path = shown'.path
    <3>1. CASE BootMy
      <4>1. MyScreen.state = "ok" /\ DOMAIN MyScreen = DOMAIN NoScreen
        BY DEF MyScreen, Screen, NoScreen
      <4>. QED
        BY <2>2, <3>1, <4>1, NoScreenFacts DEF BootMy
    <3>2. CASE BootCache
      <4>1. PICK t \in ScreenType : Resume(t) /\ OfCache(t)
        BY <3>2, CacheScreen
      <4>2. t.state = "ok" /\ DOMAIN t = DOMAIN NoScreen
        BY <4>1 DEF OfCache, ScreenType, NoScreen
      <4>. QED
        BY <2>2, <4>1, <4>2
    <3>3. CASE BootSd
      <4>1. \A st, k : LET s == Screen("sd", nvs.path, st, None, k) IN
              s.path = nvs.path /\ DOMAIN s = DOMAIN NoScreen
        BY DEF Screen, NoScreen
      <4>2. \E st, k : Resume(Screen("sd", nvs.path, st, None, k))
        BY <3>3 DEF BootSd
      <4>. QED
        BY <2>2, <4>1, <4>2
    <3>4. CASE BootHome
      BY <3>4, NoScreenFacts DEF BootHome
    <3>. QED
      BY <1>12, <3>1, <3>2, <3>3, <3>4 DEF Boot
  <2>. QED
    BY <2>1, <2>3 DEF Reopened
<1>13. CASE /\ UNCHANGED <<shown, nvs, stuck>> /\ pc' = "off"
            /\ \/ shown.state # "ok" \/ shown.src # "sd"
               \/ "cpath" \notin stuck => nvs.cpath \in {None, shown.path}
  BY <1>13 DEF Reopened
<1>14. CASE SaveCheck
  <2>1. UNCHANGED <<shown, nvs, stuck>> /\ pc' \in {"off", "uncache"}
    BY <1>14 DEF SaveCheck, Goto, uiVars
  <2>2. pc' = "off" => \/ shown.state # "ok" \/ shown.src # "sd"
                       \/ nvs.cpath = shown.path
    BY <1>14 DEF SaveCheck, Goto, FullyCached
  <2>. QED
    BY <1>2, <1>13, <2>1, <2>2
<1>15. CASE SaveBegin \/ SavePdf \/ CommitPdf \/ SaveDisplay \/ CommitDisplay \/ SaveClose
  <2>1. UNCHANGED <<shown, nvs, stuck>> /\ (pc' \in {"off", "pending"} => pc' = "off" /\ pc \in {"begin", "close"})
    BY <1>15 DEF SaveBegin, SavePdf, CommitPdf, SaveDisplay, CommitDisplay, SaveClose, At, Goto, uiVars
  <2>2. pc \in {"begin", "close"} /\ "cpath" \notin stuck => nvs.cpath \in {None, shown.path}
    BY DEF IInv, Writing
  <2>. QED
    BY <1>2, <1>13, <2>1, <2>2
<1>16. CASE Uncache \/ SetPath
  <2>1. /\ shown' = shown /\ pc' \notin {"off", "pending"}
        /\ \E p \in {None, shown.path} : Put("cpath", p)
    BY <1>16 DEF Uncache, SetPath, Goto, uiVars
  <2>2. {None, shown.path} \subseteq Paths \cup {None}
    BY <1>1 DEF ScreenType
  <2>3. nvs' = nvs \/ \E x \in Paths \cup {None} : nvs' = [nvs EXCEPT !.cpath = x]
    BY <2>1, <2>2, PutPath DEF IInv
  <2>4. nvs'.path = nvs.path
    BY <2>3 DEF IInv, Types, TypeOK
  <2>. QED
    BY <2>1, <2>4 DEF Reopened
<1>17. CASE Wake \/ (PowerOff /\ on')
  BY <1>2, <1>17 DEF Wake, PowerOff, Dark, At, Goto, uiVars
<1>. QED
  BY <1>3, <1>4, <1>7, <1>8, <1>9, <1>10, <1>11, <1>12, <1>14, <1>15, <1>16, <1>17
  DEF Next, Ui, GoToSleep

LEMMA FixedStep == ~Replace /\ FixedInv /\ [Next]_vars => FixedInv'
<1>. SUFFICES ASSUME ~Replace, FixedInv, [Next]_vars PROVE FixedInv'
  OBVIOUS
<1>1. file' = file
  BY FileStays
<1>2. IInv' /\ P!StoreInv'
  BY StepInv, StoreKept DEF FixedInv
<1>3. StoreGenuine'
  BY <1>1, <1>2, StoreGenuineSteps DEF FixedInv
<1>4. ShownGenuine' /\ GlassIs'
  <2>1. CASE NvsWrite \/ Boot
    BY <1>1, <2>1, NvsGlass, BootGlass
  <2>2. CASE Ui \/ Sleep
    <3>1. CASE shown.src = "none"
      <4>1. shown.painted /\ shown.cover = "menu" /\ shown.state # "loading"
        BY <3>1, NoScreenFacts DEF FixedInv, IInv, ScreenIs, Sound
      <4>2. ~(Paint \/ Poll \/ CloseMenu \/ OpenMenu \/ Cover \/ CloseModal \/ Uncover \/ Leave)
        BY <3>1, <4>1 DEF Paint, Poll, CloseMenu, OpenMenu, Cover, CloseModal, Uncover, Leave
      <4>. QED
        BY <1>1, <2>2, <3>1, <4>2, OpenGlass, LeaveGlass DEF Ui
    <3>2. CASE shown.src # "none"
      BY <1>1, <2>2, <3>2, OpenGlass, LeaveGlass, CoverGlass DEF Ui
    <3>. QED
      BY <3>1, <3>2
  <2>3. CASE PowerOff \/ PowerLoss
    BY <1>1, <2>3, StillSteps, DarkGlass
  <2>4. CASE ~(NvsWrite \/ Boot \/ Ui \/ Sleep \/ PowerOff \/ PowerLoss)
    BY <1>1, <2>4, StillSteps DEF Next, GoToSleep
  <2>. QED
    BY <2>1, <2>2, <2>3, <2>4
<1>5. Bared' /\ Reopened'
  BY BaredSteps, ReopenedSteps DEF FixedInv
<1>. QED
  BY <1>2, <1>3, <1>4, <1>5 DEF FixedInv

\* With files that keep their contents, what is stored, shown and on the glass are pictures
\* of the card that NVS names: FixedInv is inductive.
THEOREM FixedInvariant == ASSUME ~Replace PROVE Spec => []FixedInv
<1>1. FixedInv /\ [Next]_vars => FixedInv'
  BY FixedStep
<1>. QED
  BY <1>1, FixedInit, PTL DEF Spec

\* Switched off by the sleep sequence on a card, the device restores that card from its
\* cache, if it restores one from there (go_to_sleep, save_cache), unless a file of the
\* SD card was replaced by another of its name or a failure of the NVS left an old cpath.
THEOREM ResumesWhatWasShownHolds == ASSUME ~Replace PROVE Spec => []ResumesWhatWasShown
<1>1. FixedInv => ResumesWhatWasShown
  <2>. SUFFICES ASSUME FixedInv, ~on, slept = "card", glass \in Cards, nvs.src = "sd",
                       nvs.path # None, nvs.cpath = nvs.path, "cpath" \notin stuck,
                       NEW b \in BlobId, P!Held[b] # None
                PROVE  P!Held[b] = glass
    BY SameContent DEF ResumesWhatWasShown
  <2>1. glass = <<nvs.path, file[nvs.path]>>
    BY DEF FixedInv, GlassIs, OffGlass
  <2>2. P!Held[b] \in Cards /\ P!Held[b][1] = nvs.path
    BY DEF FixedInv, IInv, Cached
  <2>3. P!Held[b][2] = file[nvs.path]
    BY <2>2, HeldIsGenuine DEF FixedInv, Genuine
  <2>4. P!Held[b] = <<P!Held[b][1], P!Held[b][2]>>
    BY <2>2, LastCardAssumption
  <2>. QED
    BY <2>1, <2>2, <2>3, <2>4
<1>. QED
  BY <1>1, FixedInvariant, PTL

\* After the sleep sequence on a card that was painted, a boot that leaves the glass as it
\* is and has a card has the one that is on it (clean_resume), unless a file was replaced
\* or a failure of the NVS left an old value in it.
THEOREM AdoptsWhatSleptHolds == ASSUME ~Replace PROVE Spec => []AdoptsWhatSlept
<1>1. FixedInv => AdoptsWhatSlept
  <2>. SUFFICES ASSUME FixedInv, shown.adopt, slept = "card", shown.view # None, stuck = {}
                PROVE  glass = shown.view
    BY DEF AdoptsWhatSlept
  <2>1. on
    BY NoScreenFacts DEF FixedInv, IInv, Control
  <2>2. shown.src # "none" /\ glass = Picture(shown.src, shown.path)
    BY <2>1 DEF FixedInv, GlassIs, OnGlass
  <2>. QED
    BY <2>2, ShownIsPicture DEF FixedInv
<1>. QED
  BY <1>1, FixedInvariant, PTL
=============================================================================
