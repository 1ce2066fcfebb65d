------------------------------ MODULE LastCard ------------------------------
(***************************************************************************)
(* The card on screen survives power-off: NVS names it (app/Nvs.cpp,       *)
(* lastcard), the lastcard partition caches it (a CardStore), and boot     *)
(* reopens it (NameCardKnot.cpp, NameCardData.cpp), from the cache or from *)
(* the SD card.                                                            *)
(*                                                                         *)
(* One task does all of it.  A step is what it does between two writes to  *)
(* NVS or to the flash, because the power may go between any two.  The SD  *)
(* card may be pulled out at any time, and changed meanwhile.  A           *)
(* card is the pair of a path and the version of the file found there.     *)
(***************************************************************************)
EXTENDS Integers, Sequences, FiniteSets

CONSTANTS
  Paths,      \* files on the SD card
  Versions,   \* what a file may contain
  CardPaths,  \* those of Paths that are .mnc.pdf cards; the others are plain images
  Replace,    \* TRUE: the files may be replaced by others of the same names
  Unreliable, \* keys of the NVS that a write or an erase may fail to change
  My,         \* what My Card shows (kept in its own partition, never cached)
  Cards, BlobId, Size, Sectors, SlotCount, Erased, Junk, None   \* of CardStore

ASSUME LastCardAssumption ==
  /\ Cards = Paths \X Versions
  /\ BlobId = {"PDF", "DISPLAY"}
  /\ CardPaths \subseteq Paths /\ None \notin Paths /\ My \notin Cards
  /\ Replace \in BOOLEAN
  /\ Unreliable \subseteq {"src", "path", "cpath", "clean"}

VARIABLES
  slot, cell, hdr, wr,   \* the lastcard partition, see CardStore
  nvs,      \* the keys src, path, cpath and clean
  stuck,    \* for the properties: the keys of which a failed write ever left an old
            \* value in the NVS
  due,      \* NVS writes of the call in progress still to be made, in order
  on,       \* the device is powered
  slept,    \* for the properties: the glass is as the sleep sequence left it when it
            \* switched the device off on a card ("card"), on one that was yet to be
            \* painted ("undrawn") or on anything else ("other")
  shown,    \* the NameCardScreen and its NameCardData
  pc,       \* where go_to_sleep is
  glass,    \* what the e-paper shows: a card, My or None (anything else)
  file,     \* file[p]: version of the file on the SD card
  sdIn,     \* the SD card is in the slot
  mounted   \* bsp_sd_is_mounted

Store == INSTANCE CardStore

ASSUME PartitionAssumption == Store!StoreAssumption /\ Store!MarkAssumption

storeVars == <<slot, cell, hdr, wr>>
sdVars == <<file, sdIn, mounted>>
nvsVars == <<nvs, stuck>>
uiVars == <<on, slept, shown, glass>>
vars == <<storeVars, nvsVars, due, uiVars, pc, sdVars>>

(***************************************************************************)
(* state and view: NameCardData; map: the entry of the blob it shows from  *)
(* the flash, if it does; cover: what is on top of the card (the menu, at  *)
(* first, the Info modal, another screen); stray: modal_ is that of a      *)
(* modal which is gone; clean: clean_resume_; painted: the panel has been  *)
(* driven; adopt: the next paint leaves the glass as it is.                *)
(***************************************************************************)
NoScreen == [src |-> "none", path |-> None, state |-> "none", view |-> None,
             card |-> FALSE, map |-> Store!NoBlob, cover |-> "menu",
             stray |-> FALSE, clean |-> FALSE, painted |-> TRUE, adopt |-> FALSE]

\* What an erased key, or one never written, is read as.
Blank == [src |-> "none", path |-> None, cpath |-> None, clean |-> FALSE]

Init ==
  /\ Store!Init
  /\ nvs = Blank
  /\ stuck = {}
  /\ due = <<>>
  /\ on = TRUE /\ slept = "no"
  /\ shown = NoScreen
  /\ pc = "ui"
  /\ glass = None
  /\ file \in [Paths -> Versions]
  /\ sdIn = TRUE /\ mounted = FALSE

-----------------------------------------------------------------------------
\* The task is at rest: no call is in progress.
AtRest == on /\ pc = "ui" /\ due = <<>>

Set(k, v) == [key |-> k, val |-> v]

\* save_mycard, save_sd_file, clear and set_clean_resume write one key after the other.
Save(s) == <<Set("src", s.src), Set("path", s.path)>>
Clear == <<Set("src", "none"), Set("path", None)>>
Clean(c) == <<Set("clean", c)>>

\* A write or an erase; one that fails, which callers ignore, leaves the old value.
Put(key, val) ==
  \/ /\ nvs' = [nvs EXCEPT ![key] = val]
     /\ UNCHANGED stuck
  \/ /\ key \in Unreliable /\ nvs[key] # val
     /\ stuck' = IF nvs[key] = Blank[key] THEN stuck ELSE stuck \cup {key}
     /\ UNCHANGED nvs

NvsWrite ==
  /\ on /\ due # <<>>
  /\ Put(Head(due).key, Head(due).val)
  /\ due' = Tail(due)
  /\ UNCHANGED <<storeVars, uiVars, pc, sdVars>>

\* Mutant of CleanResumable: an image that is still being decoded counts too.
EvenLoading(s) == s.cover # "modal"

\* The screen has contents: the image, or a label in its place when loading failed.
CleanResumable(s) == s.cover # "modal" /\ ~s.stray /\ s.state # "loading"

\* onAppear of the card screen s.
Appear(s) ==
  /\ shown' = s
  /\ due' = Save(s) \o Clean(CleanResumable(s))

Screen(src, p, state, view, card) ==
  [NoScreen EXCEPT !.src = src, !.path = p, !.state = state, !.view = view,
                   !.card = card, !.painted = FALSE]

\* A card is opened from Home or the file browser, which loaded it from the SD card.
OpenSd(p) ==
  /\ AtRest /\ shown.src = "none" /\ sdIn
  /\ mounted' = TRUE
  /\ Appear(Screen("sd", p, "ok", <<p, file[p]>>, p \in CardPaths))
  /\ UNCHANGED <<storeVars, nvsVars, on, slept, glass, pc, file, sdIn>>

\* load_cached: the display image of My Card, which is taken to be mapped.
MyScreen == Screen("my", None, "ok", My, TRUE)

OpenMy ==
  /\ AtRest /\ shown.src = "none"
  /\ Appear(MyScreen)
  /\ UNCHANGED <<storeVars, nvsVars, on, slept, glass, pc, sdVars>>

\* The glass is drawn on.
Draw(g) == glass' = g /\ slept' = "no"

\* LVGL runs: not within go_to_sleep, but while that cannot switch the board off.
Running == on /\ due = <<>> /\ pc \in {"ui", "pending"}

\* LVGL's next refresh.
Paint ==
  /\ Running /\ ~shown.painted
  /\ shown' = [shown EXCEPT !.painted = TRUE]
  /\ IF shown.adopt THEN UNCHANGED <<glass, slept>> ELSE Draw(shown.view)
  /\ UNCHANGED <<storeVars, nvsVars, due, on, pc, sdVars>>

\* poll: the decode of a card reopened from the SD card has ended.
Poll ==
  /\ Running /\ shown.state = "loading"
  /\ \/ /\ sdIn
        /\ shown' = [shown EXCEPT !.state = "ok", !.view = <<shown.path, file[shown.path]>>,
                                  !.painted = shown.cover \in {"modal", "screen"},
                                  !.adopt = shown.clean /\ shown.cover = "menu"]
        /\ due' = Clean(CleanResumable(shown'))
        /\ UNCHANGED <<glass, slept>>
     \/ /\ shown' = NoScreen
        /\ due' = Clear \o Clean(FALSE)
        /\ Draw(None)
  /\ UNCHANGED <<storeVars, nvsVars, on, pc, sdVars>>

\* The menu closes, and the whole card is drawn again.
CloseMenu ==
  /\ AtRest /\ shown.src # "none" /\ shown.cover = "menu"
  /\ shown' = [shown EXCEPT !.cover = "no", !.painted = FALSE, !.adopt = FALSE]
  /\ Draw(None)
  /\ UNCHANGED <<storeVars, nvsVars, due, on, pc, sdVars>>

\* By a tap or the device's button, which also works with the Info modal open: the
\* modal closes, and modal_ is left to point at it.  To close that one again may do
\* nothing or crash (a PowerLoss).
OpenMenu ==
  /\ AtRest /\ shown.cover \in {"no", "modal"}
  /\ LET modal == shown.cover = "modal" IN
     shown' = [shown EXCEPT !.cover = "menu", !.stray = @ \/ modal,
                            !.painted = @ /\ ~modal]
  /\ UNCHANGED <<storeVars, nvsVars, due, on, slept, glass, pc, sdVars>>

\* From the menu: the Info modal, or a screen pushed on the card screen.
Cover ==
  /\ AtRest /\ shown.src # "none" /\ shown.cover = "menu"
  /\ \E c \in {"modal", "screen"} :
       /\ c = "modal" => shown.card
       /\ shown' = [shown EXCEPT !.cover = c, !.adopt = FALSE, !.painted = TRUE,
                                  !.stray = @ /\ c = "screen",
                                  !.clean = @ /\ c = "modal"]
  /\ due' = Clean(FALSE)
  /\ Draw(None)
  /\ UNCHANGED <<storeVars, nvsVars, on, pc, sdVars>>

CloseModal ==
  /\ AtRest /\ shown.cover = "modal"
  /\ shown' = [shown EXCEPT !.cover = "no", !.painted = FALSE]
  /\ due' = Clean(CleanResumable(shown'))
  /\ UNCHANGED <<storeVars, nvsVars, on, slept, glass, pc, sdVars>>

\* The pushed screen is popped: onAppear again.
Uncover ==
  /\ AtRest /\ shown.cover = "screen"
  /\ Appear([shown EXCEPT !.cover = "menu", !.painted = FALSE])
  /\ UNCHANGED <<storeVars, nvsVars, on, slept, glass, pc, sdVars>>

Leave ==
  /\ AtRest /\ shown.src # "none" /\ shown.cover = "menu"
  /\ shown' = NoScreen
  /\ due' = Clear \o Clean(FALSE)
  /\ Draw(None)
  /\ UNCHANGED <<storeVars, nvsVars, on, pc, sdVars>>
-----------------------------------------------------------------------------
(***************************************************************************)
(* go_to_sleep: show the bare card, write the cache (save_cache), unmount  *)
(* the SD card and switch off.                                             *)
(***************************************************************************)
At(l) == on /\ due = <<>> /\ pc = l
Goto(l) == pc' = l

\* Nothing is drawn for a bare card, not even one that LVGL has yet to paint; anything
\* else is drawn now, the card or the SleepScreen.
Sleep ==
  /\ AtRest
  /\ \/ /\ shown.cover = "no" /\ ~shown.stray
        /\ UNCHANGED <<shown, glass, slept>>
     \/ /\ shown.cover # "no" \/ shown.stray
        /\ shown' = IF shown.src = "none" THEN shown
                    ELSE [shown EXCEPT !.cover = "no", !.stray = FALSE, !.painted = TRUE]
        /\ Draw(shown.view)
  /\ due' = IF shown.cover = "screen" THEN Save(shown) \o Clean(CleanResumable(shown))
            ELSE <<>>
  /\ Goto("check")
  /\ UNCHANGED <<storeVars, nvsVars, on, sdVars>>

\* Mutant of FullyCached: the partition is written at every sleep.
NeverCached(h) == h # None /\ h["DISPLAY"].n = 0

\* This card is fully cached already.
FullyCached(h) == h # None /\ nvs.cpath = shown.path /\ h["DISPLAY"].n > 0

\* The flash is taken to read here: with a header it fails to read, save_cache would
\* rewrite the partition that the card on screen is shown from.
SaveCheck ==
  /\ At("check")
  /\ \/ /\ shown.state # "ok" \/ shown.src # "sd"
        /\ Goto("off") /\ UNCHANGED hdr
     \/ /\ shown.state = "ok" /\ shown.src = "sd"
        /\ hdr' = Store!Reload(slot, SlotCount)
        /\ Goto(IF FullyCached(hdr') THEN "off" ELSE "uncache")
  /\ UNCHANGED <<slot, cell, wr, nvsVars, due, uiVars, sdVars>>

\* Mutant of Uncache: cpath stays while the partition is rewritten.
KeepsPath ==
  /\ At("uncache") /\ Goto("begin")
  /\ UNCHANGED <<nvsVars, storeVars, due, uiVars, sdVars>>

\* set_cache_path(nullptr): the partition is about to be rewritten, whatever comes of
\* the erase.
Uncache ==
  /\ At("uncache") /\ Goto("begin")
  /\ Put("cpath", None)
  /\ UNCHANGED <<storeVars, due, uiVars, sdVars>>

SaveBegin ==
  /\ At("begin")
  /\ \/ Store!Begin /\ Goto(IF shown.card THEN "pdf" ELSE "display")
     \/ Store!BeginFails /\ Goto("off")
  /\ UNCHANGED <<nvsVars, due, uiVars, sdVars>>

\* The PDF is read from the SD card again, as it is there now.
SavePdf ==
  LET c == <<shown.path, file[shown.path]>> IN
  /\ At("pdf")
  /\ \/ sdIn /\ mounted /\ Store!WriteBlob(c, "PDF") /\ Goto("commitPdf")
     \/ sdIn /\ mounted /\ Store!WriteFails(c, "PDF") /\ Goto("close")
     \/ UNCHANGED storeVars /\ Goto("close")
  /\ UNCHANGED <<nvsVars, due, uiVars, sdVars>>

\* Mutant of CommitPdf: a commit that failed is taken for one that did not.
IgnoresFailure ==
  /\ At("commitPdf")
  /\ Store!Commit \/ Store!CommitFails
  /\ Goto("setPath")
  /\ UNCHANGED <<nvsVars, due, uiVars, sdVars>>

CommitPdf ==
  /\ At("commitPdf")
  /\ \/ Store!Commit /\ Goto("setPath")
     \/ Store!CommitFails /\ Goto("close")
  /\ UNCHANGED <<nvsVars, due, uiVars, sdVars>>

\* set_cache_path: after the PDF of a card, after the display blob of an image.
SetPath ==
  /\ At("setPath") /\ Goto(IF shown.card THEN "display" ELSE "close")
  /\ Put("cpath", shown.path)
  /\ UNCHANGED <<storeVars, due, uiVars, sdVars>>

SaveDisplay ==
  /\ At("display")
  /\ \/ Store!WriteBlob(shown.view, "DISPLAY") /\ Goto("commitDisplay")
     \/ Store!WriteFails(shown.view, "DISPLAY") /\ Goto("close")
  /\ UNCHANGED <<nvsVars, due, uiVars, sdVars>>

CommitDisplay ==
  /\ At("commitDisplay")
  /\ \/ Store!Commit /\ Goto(IF shown.card THEN "close" ELSE "setPath")
     \/ Store!CommitFails /\ Goto("close")
  /\ UNCHANGED <<nvsVars, due, uiVars, sdVars>>

\* save_cache returns: abort() and the Writer's destructor.
SaveClose ==
  /\ At("close") /\ Goto("off")
  /\ Store!Abort \/ Store!Destroy
  /\ UNCHANGED <<nvsVars, due, uiVars, sdVars>>

\* The end of everything in RAM.
Dark ==
  /\ on' = FALSE /\ pc' = "ui" /\ due' = <<>>
  /\ shown' = NoScreen
  /\ Store!PowerLoss
  /\ mounted' = FALSE
  /\ UNCHANGED <<nvsVars, file, sdIn>>

\* bsp_power_off returns when USB keeps the board powered (s_off_pending): it is
\* tried again, alone, until the user touches the device.
PowerOff ==
  /\ At("off") \/ At("pending")
  /\ \/ /\ Dark
        /\ slept' = IF shown.state \notin {"ok", "loading"} THEN "other"
                    ELSE IF shown.painted THEN "card" ELSE "undrawn"
        /\ UNCHANGED glass
     \/ /\ Goto("pending") /\ mounted' = FALSE
        /\ UNCHANGED <<storeVars, nvsVars, due, uiVars, file, sdIn>>

Wake ==
  /\ At("pending") /\ Goto("ui")
  /\ UNCHANGED <<storeVars, nvsVars, due, uiVars, sdVars>>

\* The battery runs out, or the reset button: what is being drawn may be lost.
PowerLoss ==
  /\ on
  /\ Dark /\ slept' = "no"
  /\ glass' \in IF shown.painted THEN {glass} ELSE {glass, None}

-----------------------------------------------------------------------------
(***************************************************************************)
(* Boot: make_resumed_card_screen.  clean is whether the first paint may   *)
(* adopt the glass (not after a boot message, which is drawn on it).       *)
(***************************************************************************)
Resume(s) ==
  \E clean \in {nvs.clean, FALSE} : Appear([s EXCEPT !.adopt = clean, !.clean = clean])

BootMy ==
  /\ nvs.src = "my"
  /\ \/ Resume(MyScreen) /\ UNCHANGED <<glass, slept>>
     \/ shown' = NoScreen /\ due' = Clear /\ Draw(None)
  /\ UNCHANGED <<hdr, mounted>>

\* load_lastcard: the display blob is mapped, or else the PDF is decoded.
BootCache ==
  LET Cached(b, s) == [s EXCEPT !.view = Store!Content(hdr')[b], !.card = hdr'["PDF"].n > 0] IN
  /\ nvs.src = "sd" /\ nvs.path # None /\ nvs.cpath = nvs.path
  /\ hdr' \in Store!Reloads(slot) /\ hdr' # None
  /\ LET s == Screen("sd", nvs.path, "ok", None, TRUE) IN
     \/ /\ hdr'["DISPLAY"].n > 0
        /\ Resume([Cached("DISPLAY", s) EXCEPT !.map = hdr'["DISPLAY"]])
     \/ hdr'["PDF"].n > 0 /\ Resume(Cached("PDF", s))
  /\ UNCHANGED <<mounted, glass, slept>>

\* NameCardData::load, when there is no cache of the card or it cannot be read.
BootSd ==
  LET p == nvs.path IN
  /\ nvs.src = "sd" /\ p # None /\ sdIn
  /\ mounted' = TRUE
  /\ \/ Resume(Screen("sd", p, "loading", None, p \in CardPaths))
     \/ Resume(Screen("sd", p, "failed", None, FALSE))
  /\ UNCHANGED <<hdr, glass, slept>>

\* None of these, or a card just received is shown instead (from a screen above the
\* card, so that clean was set off).
BootHome ==
  /\ nvs.src = "my" /\ nvs.clean => "clean" \in stuck
  /\ shown' = NoScreen /\ due' = <<>>
  /\ Draw(None)
  /\ UNCHANGED <<hdr, mounted>>

Boot ==
  /\ ~on /\ on' = TRUE
  /\ BootMy \/ BootCache \/ BootSd \/ BootHome
  /\ UNCHANGED <<slot, cell, wr, nvsVars, pc, file, sdIn>>

-----------------------------------------------------------------------------
\* The SD card is pulled out or put back, with other files in them than when it left
\* if the device was off.
SdCard ==
  /\ sdIn' = ~sdIn
  /\ IF Replace /\ ~on /\ ~sdIn THEN file' \in [Paths -> Versions] ELSE UNCHANGED file
  /\ UNCHANGED <<storeVars, nvsVars, due, uiVars, pc, mounted>>

Ui ==
  \/ (\E p \in Paths : OpenSd(p)) \/ OpenMy \/ Leave
  \/ Paint \/ Poll \/ CloseMenu \/ OpenMenu \/ Cover \/ CloseModal \/ Uncover

GoToSleep ==
  \/ Sleep \/ SaveCheck \/ Uncache \/ SaveBegin
  \/ SavePdf \/ CommitPdf \/ SetPath \/ SaveDisplay \/ CommitDisplay \/ SaveClose
  \/ PowerOff \/ Wake

Next == NvsWrite \/ Ui \/ GoToSleep \/ PowerLoss \/ Boot \/ SdCard

Spec == Init /\ [][Next]_vars

-----------------------------------------------------------------------------
(***************************************************************************)
(* Properties.                                                             *)
(***************************************************************************)
TypeOK ==
  /\ nvs \in [src : {"none", "my", "sd"}, path : Paths \cup {None},
              cpath : Paths \cup {None}, clean : BOOLEAN]
  /\ Len(due) <= 3
  /\ stuck \subseteq Unreliable
  /\ on \in BOOLEAN /\ slept \in {"no", "other", "card", "undrawn"}
  /\ shown.view \in Cards \cup {My, None}
  /\ glass \in Cards \cup {My, None}
  /\ file \in [Paths -> Versions] /\ sdIn \in BOOLEAN /\ mounted \in BOOLEAN

\* cpath names the source the partition contents are valid for (Nvs.hpp): whenever it
\* is set there is a card to restore there, and all of it is of that path, whatever
\* flash operation failed and wherever the power went, as long as no failure of the NVS
\* left an old cpath: save_cache would rewrite the partition under that.
CacheIsOfPath ==
  nvs.cpath # None /\ "cpath" \notin stuck =>
    /\ \E b \in BlobId : Store!Held[b] # None
    /\ \A b \in BlobId : Store!Held[b] # None =>
         Store!Held[b] \in Cards /\ Store!Held[b][1] = nvs.cpath

\* A display blob on screen straight from the flash is never erased or rewritten.
MappedStays ==
  shown.map.n > 0 => Store!Stands(shown.map, "DISPLAY") /\ shown.map.crc = shown.view

\* Switched off by the sleep sequence on a card, the device restores that card from
\* its cache, if it restores one from there (and no old cpath was left in the NVS).
ResumesWhatWasShown ==
  /\ ~on /\ slept = "card" /\ glass \in Cards
  /\ nvs.src = "sd" /\ nvs.path # None /\ nvs.cpath = nvs.path /\ "cpath" \notin stuck
  => \A b \in BlobId : Store!Held[b] \in {None, glass}

\* A boot that leaves the glass as it is, and has a card, has the one on it: after the
\* sleep sequence on a card that was painted (and as long as no failure of the NVS left
\* an old value in it) ...
AdoptsWhatSlept ==
  shown.adopt /\ slept = "card" /\ shown.view # None /\ stuck = {} => glass = shown.view

\* ... and after it on anything: clean_resume means that the glass shows a fully
\* rendered card (Nvs.hpp).
AdoptsWhatIsShown ==
  /\ shown.adopt /\ slept \in {"card", "other"} /\ shown.view # None /\ stuck = {}
  => glass = shown.view

\* save_cache keeps to the rules of a Writer's callers, and nothing else writes.
UsesStore == Store!Spec
=============================================================================
