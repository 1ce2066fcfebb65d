# NameCardKnot: specifications and proofs

NameCardKnot is firmware for e-paper name cards (M5Paper, PaperS3, and a simulator).
This directory holds TLA+ models of its core logic, TLC configurations that check them
on small instances, and theorems about them with proofs for TLAPS. `src/` below is the
repository; `PROJECT.json` maps every definition to the lines it models.

## 1. The system

| Component | Source | State | Operations |
|---|---|---|---|
| dokan session engine | `components/dokan/src/dokan_session.c` | stream table, send window and credit counters per stream, outbound queue, `error`/`closing` flags | frame handlers OPEN, DATA, EOF, RESET, WINDOW, GOAWAY; `dokan_stream_open/write/finish/reset/pause/resume/release`; `dokan_close` |
| dokan transports, runtime | `dokan_runtime.c`, `dokan_sim.c`, `dokan_wifi.c` | an I/O task, a socket, `stop_requested` | rendezvous, read/write loop, deferred close, join |
| dokan codec and parameters | `dokan_codec.c`, `dokan_descriptor.c`, ... | none | pure encoders, SHA-256 |
| card store | `app/CardStore.cpp` | header slots and blobs in a flash partition, header cache in RAM, a Writer | `mount`, `begin`, `write_blob`, `commit`, `abort`, reads and mappings |
| last card | `app/Nvs.cpp` (`lastcard::`), `Power.cpp`, `NameCardKnot.cpp`, `NameCardData.cpp`, `NameCardScreen.cpp` | NVS keys `src`, `path`, `cpath`, `clean`; the lastcard partition; the glass | show a card, `go_to_sleep`, `save_cache`, boot |
| My Card import | `app/ImportJob.cpp` | job state, progress, cancel flag | `run`, `cancel` |
| card transfer | `TransferScreen.cpp`, `ShareScreen.cpp`, `ReceiveScreen.cpp` | atomics shared by the I/O task and the UI, a temporary file | HELLO, CARD and ACK streams, poll, finalize, terminate |
| HotKnot pairing | `HotKnotScreen.cpp` | `hk_state_`, worker, send task | pair, send, fail, reboot |
| image processor | `components/image_processor` | a row ring, two tasks, a status | start, cancel, join |
| name card PDF | `components/namecard_pdf` | none | parse footer and assets, write a share PDF |
| screens, settings, strings, fonts | `app/screens`, `app/*.cpp` | presentation | |
| web editor, targets, resources | `editor/`, `simulator/`, `esp32*/`, `app/resources` | | separate program, entry points, generated data |

How they meet: the Transfer screen opens a session through the runtime and speaks to the
peer's Transfer screen over streams; HotKnot hands over the descriptor the session is opened
with. A received file is renamed into place and recorded in NVS for the next boot. A card
is decoded by the image processor and shown; at sleep it is written to the lastcard store,
and at boot NVS decides between that store, the My Card store and the SD card. ImportJob
writes the My Card store with the same Writer.

What is hard in it:

* concurrency: two engines, each with an I/O task and application threads behind one
  recursive mutex, with callbacks that call the API again; frames crossing on the wire;
* loss of power at any flash or NVS write, and writes that fail half way;
* state that outlives its owner: RAM caches of flash, mapped flash, `clean_resume` after
  the glass has changed, `cpath` after the file has changed;
* credit and slots that are limited; waiting writers and held-back EOFs;
* joins, cancellations and timeouts of the I/O, decode, HotKnot and import tasks.

What makes each part correct: streams are pipes (bytes in order, once, FINISHED last), two
equal engines never find fault with each other, and a writer that waits for credit gets it;
a store never shows a half written or a mixed card, nor an old one after a new one was
published; the card shown at sleep is the one shown after boot, and a glass is left alone
only when it already shows the card; a session is destroyed once and used by nobody after
that, and a close comes to its end; a transfer that a device calls complete left the card in
its gallery, and one that failed never opens a card by itself; a device whose touch panel is
dead always gets off the HotKnot screen. For the parts not modelled: every decode is joined
and reports the first error; a footer is only followed within its file.

`PROJECT.json` lists the hazards at their lines, each with the properties that would catch
it or with the reason why none does yet.

## 2. Modules

| Module | What it is |
|---|---|
| `DokanSession` | the two session engines, frame handlers and stream API |
| `DokanSessionInv` | the parts of its inductive invariant, and `CreditConserved` |
| `DokanSessionProofs` | invariance, and the safety properties as theorems |
| `DokanPipe` | what a stream promises: the abstract specification |
| `DokanSessionPipe` | the refinement mapping |
| `DokanSessionPipeProofs` | the implementation proof |
| `CardStore` | the flash store and its Writer, failures included |
| `CardStoreProofs` | its inductive invariant and properties as theorems |
| `CardShelf` | what a store promises: the abstract specification |
| `CardStoreShelf`, `CardStoreShelfProofs` | the refinement mapping and the implementation proof |
| `LastCard` | NVS record, sleep, cache and boot; contains an instance of `CardStore` |
| `LastCardProofs` | its inductive invariants, its properties, and that it uses the store as `CardStore` says |
| `Transfer` | two devices exchange cards over a session: I/O task, LVGL thread, files, NVS |
| `CardExchange` | what a transfer promises the two users: the abstract specification |
| `TransferExchange` | the refinement mapping |
| `TransferProofs` | counts and order of the frames under way, the inductive invariant, the properties, the implementation proof |
| `DokanLifecycle`, `DokanLifecycleProofs` | open, I/O task, close and teardown of one session |
| `HotKnot`, `HotKnotProofs` | the pairing screen: poll, driver events, send task, worker |
| `MCSession`, `MCStore`, `MCLastCard`, `MCTransfer` | instances for TLC |

### DokanSession

One record per stream at its opener (`tx[id]`: `send_window`, `finished_sent`, `reset`) and
one at its reader (`rx[id]`: `paused`, `finished_recv`, `reset`, `recv_outstanding`,
`credit_pending`, `rx_len`). The parity of an id says who opened it. `chan[e]` is what end
`e` enqueued and its peer has not processed yet: the outbound queue, the transport and the
peer's reassembly buffer in one sequence, of which `acc[e]` frames have left the outbound
queue. A frame that is sent in part counts as not sent. Payload bytes are offsets.

`cb[e]` is the stack of calls in progress under the lock of end `e`. A DATA event runs its
callback in the middle of a handler, so the rest of the handler (`DataReturn`,
`ResumeReturn`) is a step of its own, and between them the application may call any of the
API that is allowed (`AppMay`). The other events are the last thing a handler does; what
their callbacks do is the same as a later call by the application. A write enqueues its
chunks one step at a time (`WriteChunk`), because the transport takes part of each and the
peer runs meanwhile; the debit of the window comes last (`WriteReturn`), as in the code.
`hist` records what happened, for the properties; no action of the engine reads it except
for the offset a frame carries.

Not in the model: failing allocations, the wrap of 16 bit ids, the bytes of a frame
(malformed frames cannot come from this code), the CONNECTED event, and
everything after `dokan_close` sent its GOAWAY.

The application of this repository never pauses, resumes or releases a stream; the engine
does offer it, and the docs describe it, so the model lets applications do all of it.

### CardStore

`slot` is the header sector, `cell` the data area in sectors, `hdr` the RAM cache, `wr` the
Writer. Every flash operation has a failing variant that did any part of its work
(`Partly`), and `PowerLoss` forgets what is in RAM; power lost inside an operation is the
failing variant followed by `PowerLoss`. `Reloads` are the outcomes of `reload_header`,
which stops at an erased slot and also at the first slot the flash fails to read. The Writer's
callers (`Write`, `wr.ok`) write each blob once and give up after a failure, as ImportJob
and `save_cache` do; the store alone would not survive one that goes on after a failed
commit, because the scan stops at the slot that was left erased.

`CardShelf` says what is promised: clearing and publishing are atomic, a failure shows the
shelf or a part of it, never a blob that is not whole. Its `left` is what a reader might
find again: an erase that fails a second time can uncover a slot that an earlier
half-erased one had hidden. It is in the abstract specification because the code has it.

### LastCard

A step is what the one task does between two writes to NVS or flash, so that power may go
between any two; a call that writes several keys puts them in `due`. `shown` is the card
screen (state of its loading, what covers it, `clean_resume_`), `glass` the e-paper,
`slept` how the last orderly power-off left it. The sleep sequence (`pc`) runs through
`save_cache` as a Writer of the embedded store. `bsp_power_off` may return on USB power.
The SD card may be pulled out at any time; files change only while the device is off. The
device's button opens the menu as a tap does, and also over the Info modal, whose pointer then
dangles (`stray`).

`Unreliable` names the NVS keys of which a write or an erase may fail; the callers ignore all
but one of these results (`Nvs.cpp:169-172`, `:220`), and the one that is
looked at (`clean_resume`, `:178-181`) only keeps its RAM cache what the NVS is, so that a later
call writes again. `stuck` remembers, for the properties only, the
keys of which a failure ever left an old value in place.

Abstractions: one sector per blob; the header read in `save_cache` succeeds (a failure
there would rewrite the partition that the card on screen is mapped from); mapping My Card
succeeds; a card is opened from the SD card in one step after its load has ended; the
inactivity and battery timers are a `Sleep` that may come whenever the screen is at rest.
Reads of the NVS succeed, and a write that reports a failure took no effect. A refresh handed to
the panel completes before a power-off that is tried again. My Card is not one of the SD cards'
contents.

### Transfer

Two devices; `io`, `pub` and `ui` are the three groups of members of `TransferScreen.hpp`
(I/O task only, atomics, LVGL thread only). `IoStep` are the event handlers, each with the
whole of `pumpSend`, `parsePeerHello` and `maybeSendAck` it runs. `poll` is split where it reads
an atomic after it has decided on another one: `PollMoving` has found bytes missing and
`Judge` reads `failed_` and `peer_left_` after that, with the handlers running in between.
`terminate` is split at its writes (`Close`, `TakeRecord`, `SaveMessage`), and so is
`finalizeReceived` (`Finalize`, `Record`), because the power may go there; a boot then reads
what is left (`Boot`). Each of their NVS writes may fail unnoticed (`Stored`). The device's button
puts Home in the place of the screen between any two polls (`Wake`, by `power::wake`): the
destructor closes the session, and no outcome is reported, no file removed and no record
withdrawn.

The session below is what `DokanPipe` promises, with the frames of its streams in one queue
per direction (`wire`), as the session multiplexes them; a window of pieces stands for the
window of bytes. A close, a cut and a loss of power let any prefix of a queue arrive.
`Faults` says what may go wrong where. A file is empty, a part, whole or torn (a failed
write or `fclose`); names, sizes, progress and what a message says beyond success and
failure are left out. CONNECTED is the only event that may come before `dokan_open` has
returned. Both devices start without a temporary file; one that an earlier loss of power left
behind, met by an `fopen` that fails, is not covered. A connection that was closed or cut is
taken to be noticed (`NoticeLoss`). A peer that lost
power is `Silent`: it may be noticed, and nothing promises that it is (divergence 12), so
`ConnectedTerminates` asks nothing of a device whose peer is.

`CardExchange` is what is left for a user who sees neither frames nor threads: a card is handed
over whole (`Receive`), the other side may learn of it only after that (`Learn`), it is placed
in the gallery once (`Place`), recorded for the next boot (`Remember`) or not after all
(`Withdraw`; both may be forgotten by a failing NVS), and a device ends with success, which
needs the card and the record, with a failure, which needs that there is no record, or without a
word. It has no fault but an end without a word (power, button), an NVS that forgets (`Forgets`)
and a card torn by its SD card; all others must look like one of these ends. `TransferExchange`
maps the atomics, the gallery file, NVS and the screen's way onto it. Every handler, poll step
and fault is one of these actions or shows the users nothing.

### DokanLifecycle

One session over either transport and in either role. `app` is the application's thread in
`dokan_open` and `dokan_close`, `task` the place of the I/O task, `cb` the callback it is in;
`ses` is what the session lock protects, `tr` what the threads share without it
(`stop_requested`, the wake pipe or event bits, the `done` semaphore). A callback runs under
the lock, so `Close` waits for it; it may close the session itself (`Return(TRUE)`), which is
then torn down by the task (`PollClose`, `End`, `Destroy`). The engine's handling of bytes is an
event or an error here, one callback for each receive: `dokan_session_feed` looks at `closing`
between frames, so no further frame is handled after a close. What `stream_resume_locked` still
emits after a close made in its own nested callback (`dokan_session.c:385-395`) is not covered
by `QuietAfterClose`. Left out: the radio, whose events only decide when a link is up,
and partial writes of the socket, which `DokanSession` has as its outbound queue.

`EarlyClose` lets a callback close before `dokan_open` has returned. It is FALSE in the run:
set to TRUE, `NoUseAfterFree` fails, because `start()` is still at work in the transport that
the task destroys.

### HotKnot

One device. `state` is `hk_state_`, written by the driver's dispatch task, the send task, the
watchdog and the LVGL thread; `loaded` is the copy a poll works with and `seen` the state
acted on so far. `pc` is the LVGL thread, which blocks in `SessionUi` and `StopWorker` until
the worker has stopped, and in `EndHotKnot` until the send task is no longer busy. The driver
is not in the repository; its states are those its events imply, and `touch` is FALSE from
PAIRED on (`docs/gotchas.md:148-172`). The firmware load between PAIRED and READY is taken to
be longer than the rest of `startHotKnot`, so only PAIRED can come before `Approaching` is
stored (`EarlyPaired`). `Outcome` keeps the order of the send task: the busy flag is cleared
first. After a failure a power cycle follows, or, on USB power, the destructor of the screen.
`Away` runs that destructor too, between any two polls: the device's button loads Home
(`power::wake`) and the sleep another screen (`go_to_sleep`). The destructor waits for the worker
and then, in `endHotKnot`, for the busy flag.

The three compose by what they hand on: HotKnot ends in "transfer" with the descriptor
passed; that is where both devices of `Transfer` start; the session of `Transfer` opens and
closes as in `DokanLifecycle` and carries frames as in `DokanPipe`; its record is read by
the boot of `LastCard`.

## 3. Runs

| Run | States | Shows |
|---|---|---|
| `session_stream` | 287532 | one stream, every call of writer and reader at every point: `TypeOK`, `NoProtocolError`, `WindowRespected`, `DeliveredInOrder`, `FinishedIsComplete`, `CreditConserved`, and the pipe (`ImplementsPipe`) |
| `session_mux` | 249320 | two streams share the connection, a third OPEN is refused, a broken link, a close: the inductive invariant `IInv`, and the pipes |
| `session_live` | 14847 | under fairness: bytes arrive, FINISHED arrives, a full window reopens |
| `store` | 23680 | all failures and power losses over two cards: the store's invariant, whole slots, whole cache, committed blobs stay, and the shelf |
| `lastcard` | 1106664 | a card and an image, sleep, interruption anywhere, failing NVS writes, boot: the cache is of `cpath` (`CacheIsOfPath`), mapped blobs stay (`MappedStays`), the card is restored (`ResumesWhatWasShown`) or its glass adopted (`AdoptsWhatSlept`), and the store's rules are kept (`UsesStore`) |
| `transfer` | 617537 | two devices, every fault: an ack means received (`AckMeansReceived`), no part of a card in the gallery (`GalleryIsWhole`), outcomes are true (`OutcomeIsTrue`), reported failures never open (`FailureNeverOpens`), a connected device ends (`ConnectedTerminates`), and the two carry out the exchange (`ImplementsExchange`) |
| `lifecycle` | 1274 | both transports and roles, closed anywhere: `NoUseAfterFree`, `QuietAfterClose`, `CloseReturns`, `DeferredCloseEnds` |
| `hotknot` | 1139 | both roles, the screen taken away at any time: `WorkerHasSlots`, `SessionOutlivesSend`, `TransferHasDescriptor`, `DeadPanelEnds` |
| `session_window` | violation | unequal windows end in a protocol error |
| `session_reentry` | violation | pause and resume inside the callback of a resume deliver bytes twice |
| `lastcard_stale` | violation | a file replaced under its old name: the old card is restored |
| `lastcard_adopt` | violation | a glass with the sleep screen on it is adopted as the card |

Bounds. `session_stream`: 5 bytes over a window of 4 in chunks of 2, so that the window fills, a
write is cut short, a write takes two chunks, and the credit threshold (2) falls inside a chunk
sequence; one stream, because streams share only the channel, the table and the lock.
`session_mux` has three ids and a table of two entries for that: two streams, of one end or of
one each, are established and carry data side by side, and a third OPEN is refused while its
opener writes. Its streams have two bytes over a window of one, so that every window closes and
is reopened by credit while the other stream goes on; they are only opened and written, as EOF,
reset, release and pause are the matter of `session_stream`. `session_live`: 8 bytes, twice the
window, with chunks of 3, so that the window fills and reopens repeatedly and a chunk does not
divide it. `Word` is 64, above every reachable sum; the proofs take any `Word` above twice the
window. `store`: cards of three sectors made of blobs of sizes one and two, in three sectors, so
that one card fits exactly and a mixture may not; three slots, one more than the blobs.
`lastcard`: two paths, one a card and one an image, so that `cpath` can name the wrong one and
both branches of `save_cache` are taken; one version of each file, as the next two runs show
what a second version, and a sleep elsewhere, do. Writes of `cpath` and of `path` may fail
there, the two whose old values could make a cache pass for another card's; the proofs take any
set of keys.

`transfer`: cards of two pieces over a window of one, so that the pump stops at a full window
and starts again; the HOST always sends and the CLIENT always receives, both do both when the
users say so. What can go wrong with sending, and a failing NVS, is enabled at the HOST; what
can go wrong with receiving, power and button, at the CLIENT; reading at both. The devices run
the same code and differ in who gives up on the rendezvous only, and the proofs take any
`Faults`. A share stream that fails is enabled at one device, because when both fail both wait
for ever (divergence 6 below). `lifecycle` and `hotknot` have no bounds: their state is finite.

Deadlock is not checked in the session runs, nor in the last three: sessions that are done,
failed or closed, devices that have booted again and screens that were left have nothing
to do. In `store` and `lastcard` it is.

Fairness. `session_live`: the I/O task loops as long as the session lives
(`dokan_sim.c:110-133`) and in each turn processes what arrived and flushes what it can, so
`ProcessFrame` and `OnWritable` are weakly fair; a call in progress ends (`Return`); and
the application resumes what it paused (`StreamResume`), which is an assumption on the
application. No fairness is assumed of writes, finishes or anything else an application
may do, and in that run nobody resets, releases or closes.

`transfer`: the I/O task and the LVGL thread of a device run while they have something to do (a
socket that is readable wakes the task; the timer fires every 100 ms), and `kAckTimeoutMs`
passes, and the transport reports a connection that was closed or cut. Fairness is stated of the
two threads (`IoTask`, `LvglThread`) and not of single handlers: a thread that has something to
do does some of it. Connecting, cutting, timing out and losing power are not fair, so nothing
relies on them. `lifecycle`: both threads run, callbacks return, and a peer that got GOAWAY ends
its connection, which the simulator's task needs to notice a deferred close when it is asleep
with nothing else to wake it; nobody has to come to a rendezvous. `hotknot`: the tasks run, a
decode and a send end (`bsp_hotknot_send` has a timeout), after PAIRED the driver gets ready or
reports an error, and the ten seconds of the watchdog pass: it is strongly fair because every
poll comes back to it.

### What the violations say

1. `stream_window` is not negotiated. `docs/dokan.md:223-224` offers it as a knob; a device
   that turns it down alone kills its sessions. The two devices of this repository use the
   default.
2. `stream_resume_locked` clears `rx_len` after the callback. `docs/dokan.md:322` allows
   calls from callbacks; pause followed by resume in that one is not safe.
3. `save_cache` compares paths only, against `app/Nvs.hpp:57-59`.
4. A boot to Home leaves `clean_resume` set, against `app/Nvs.hpp:63-66`.

### Other divergences met while modelling

These have no run of their own.

5. `docs/dokan.md:448-451` has a received file validated, and an invalid one removed.
   `finalizeReceived` renames whatever is there, a failed write does not stop the transfer
   and `fclose` is not looked at (`TransferScreen.cpp:192-203`, `:381`): a card torn by the SD
   card gets into the gallery, is acked and may be reported as received. `GalleryIsWhole` and
   `OutcomeIsTrue` allow for it ("torn").
6. `docs/dokan.md:442` has both ends reach the same intents. A share stream that does not
   open changes them at one end only (`TransferScreen.cpp:236`); when that happens at both
   ends, each waits for the other's card without a limit.
7. The comment at `TransferScreen.cpp:363-365` has a transfer fail only if bytes are still
   missing. `poll` looks for missing bytes first and for the failure afterwards: the last bytes,
   their ack and the end of the connection in between make it drop a complete, acked card.
8. `docs/dokan.md:245`: a session that is not established within `connect_timeout_ms` gets an
   ERROR. A HOST over WiFi waits for its client for ever (`dokan_wifi.c:153`); only the device's
   button leaves the screen then.
9. `docs/dokan.md:314`: a session can be closed from any state. A close from the ERROR callback
   of a failed rendezvous is never acted on (`dokan_session.c:579`, `dokan_sim.c:104`), hence
   `tr.met` in `DeferredCloseEnds`. A close from a callback during `dokan_open` destroys the
   session under it (`EarlyClose`). And `docs/dokan.md:280` calls `dokan_close` idempotent,
   while a second one uses freed memory; the application closes once, and so does the model.
10. `HotKnotScreen.cpp:264-266`: the watchdog stores Failed without looking at `hk_state_`
    again and may undo a descriptor received just then. A Back tapped just before PAIRED is
    carried out after it and leaves a device with a dead touch panel on its home screen.
11. `sim_stop` tests and writes `wake[1]` while the task may be closing it
    (`dokan_sim.c:89-94`, `:199`); the model takes the two as one step.
12. `docs/dokan.md:178-179` leaves a silent peer to TCP keepalive, which neither transport turns
    on: a receiver whose peer loses power waits for as long as TCP does, which sends nothing
    in that direction and so never finds out.
13. `docs/dokan.md:433`: only a physical reset interrupts a transfer. The device's button does too
    (`Power.cpp:45-50`, `:142-147`): it loads Home, and `~TransferScreen` ends the exchange without
    an outcome.
14. The comment at `TransferScreen.cpp:406` ("must not auto-open at boot") is not kept when the power
    goes between the rename and the withdrawal of a failed exchange, when the button comes there,
    or when the NVS fails to erase the record: the next boot opens the card that was placed.
    `FailureNeverOpens` therefore speaks of failures that were reported.
15. `app/Nvs.hpp:57-59`: the erase of `cpath` may fail, nobody looks at it (`Nvs.cpp:220`,
    `:169-172`), and the partition is rewritten with another card under the old `cpath`. Hence
    `stuck` in `CacheIsOfPath` and in what follows from it.
16. A bare card that has not been painted yet is put to sleep without a refresh
    (`Power.cpp:64-75`) although `clean_resume` is set already: the next boot adopts a glass that
    shows something else. `AdoptsWhatSlept` asks for a painted card; a loss of power between
    the store of `clean_resume` and the refresh (`NameCardScreen.cpp:98`) has the same effect and
    is not covered either.
17. `openMenu` closes the Info modal without clearing `modal_` (`NameCardScreen.cpp:127`); closing
    the overlays later closes a modal that is gone. The model has the pointer as `stray` and the
    crash as a loss of power.
18. `sendTask` stores `hk_state_` after it has cleared the flag that the destructor waits for
    (`HotKnotScreen.cpp:218-219`): when the button, the sleep or a failure on USB destroys the
    screen in between, the store goes to freed memory. The model reaches this, so no property
    excludes it; `SessionOutlivesSend` keeps what the flag does protect, the driver's session.

## 4. Proofs

All theorems hold for every value of the constants that satisfies the ASSUMEs, and every
safety and every action property of the passing runs is one of them. Each module follows
one pattern: lemmas about the operators, one lemma for each action, a step lemma over `Next`,
the invariant, and the properties as consequences of it.

**Session.** `DokanSessionProofs` assumes in each theorem the `Contract`: equal windows at
both ends and `FreeResume = FALSE` (no resume of a stream that was reset, nor from inside
the callback of a resume). The violations above show that each part is needed. The
argument: the bytes, and the credit, between two counters of a stream are exactly the
frames under way, without gap or overlap (`DataInv`, `CreditInv`, by way of `Chain`); the
reader's outstanding bytes are received minus granted (`ReaderInv`), the writer's window is
the initial one plus credited minus sent, corrected for a write in progress (`WriterInv`).
The safety properties alone are not inductive: that an arriving chunk fits the window needs the
whole loop from the writer's counter over the frames in both directions to the reader's
counter. `OpenInv`, `EofInv`, `FreshInv`, `IdsInv` and `CallInv` say what order frames
and calls can be in. Theorems: `InvariantHolds`, `TypeCorrect`, `EnginesAgree`, `InOrderDelivery`,
`FinishedMeansComplete`, `ReaderWithinWindow`, `CreditIsConserved`; and
`EnginesImplementPipe`, step by step over the same invariant. `CreditIsConserved` is about a
sum over a queue of any length. A sum is a recursive function, and nothing can be proved
about one by induction here, so the proof guesses its value: after `k` frames it is the
end of the last of them, minus the start of the chain (`Reached`). That function satisfies the
recursion, and the recursion has one solution (`OneSum`, from the least place where two of
them differ), hence the sum is `hi - lo` (`CarriedIs`).

**Store.** `StoreInv` is inductive without further assumptions. The slots in use list ever
more blobs at the same places (`SlotsGrow`), the Writer writes at a cursor beyond all of
them and programs only erased slots (`WriterInv`); so a failed or torn write touches no
listed sector. Theorems: `StoreInvariant`, `SlotsStayWhole`, `CacheStaysWhole`,
`CommittedBlobsStay`, and `StoreImplementsShelf`. The section "What a caller may count on"
states for `LastCardProofs` what each call of the Writer does to a reader.

**Last card.** `IInv` of `LastCardProofs` joins the store's invariant (taken over from
`CardStoreProofs` by `INSTANCE`, with a step of `LastCard` being a step of the store) with what
NVS, the sequence and the screen say. `CacheIsOfPath` alone is not inductive: at each point of
`save_cache` it matters what the Writer has written and how far `cpath` and the queue of NVS
writes are (`Writing`, `Control`), and whichever header a later boot takes, it must list
blobs of one card (`Cached`). A write that fails either leaves the value it should have
changed, which `stuck` records, or was to write what an erased key is read as anyway; so for every
key the NVS says what the sequence means, unless that key is in `stuck` (`PutEntry`, `PutPath`),
and each part of the invariant that relies on a key is guarded by that key alone. That a mapped blob stays comes from elsewhere: the card it
shows is the cached one, so `save_cache` returns before it writes (`Mapped`, `ScreenIs`).
Theorems: `LastCardInvariant`, `LastCardTypeOK`, `CacheIsOfPathHolds`, `MappedBlobStays`, and
`StoreIsUsed`, by which all that is proved of `CardStore` holds of the lastcard partition.

`ResumesWhatWasShownHolds` and `AdoptsWhatSleptHolds` assume `~Replace`: the files of the SD
card keep their contents. Both are false otherwise; `lastcard_stale` is the counterexample to
the first, and TLC finds one to the second in the same instance (a glass with the old version
of the file is adopted for the new one). Their invariant `FixedInv` adds that what is stored,
shown and on the glass are pictures of what NVS names: a card, unless a write of
`clean_resume` that says otherwise is due or done (`OffGlass`, `OnGlass`, `LoadsDirty`); a screen
restored by a boot and a bare one put to sleep are followed by `Reopened` and `Bared`. Three
ASSUMEs of `LastCard` are there for the proofs: `PartitionAssumption` repeats those of `CardStore`
for the embedded store, no path is `None` (NVS has a path or has none), and `My` is no card.

**Transfer.** `IInv` of `TransferProofs` describes the queues by how many frames of a kind are
in them (`Count`) and by their order (`Ordered`), never by their contents, as every action adds
at one end and takes from the other, and a loss keeps a prefix. The central part is
`CardInOrder`: as long as the EOF of a card is under way or its session is up, the pieces handed
over and those in the queue are all that were sent, so `inbound_complete` means that every
piece was, and an ack, which is sent after it (`AckIsTrue`), means the same at the other end.
`AckMeansReceived` alone is not inductive: an ack may be in the queue or owed, and whether the
peer receives at all is known from its own hello and not from the sender's (`HelloFirst`,
`Agreed`). `TempIsPart`, `ScreenIsTrue` and `RecordIsTrue` follow the file, the screen's way
through `finalizeReceived` and `terminate`, and the record, up to the boot. Theorems:
`TransferInvariant`, `TransferTypeOK`, `AckMeansReceivedHolds`, `GalleryIsWholeHolds`,
`OutcomeIsTrueHolds`, `FailureNeverOpensHolds`, for cards of any length, any window and any
`Faults` at either device. The runs enable the faults of sending and of receiving at one device
each; the theorems do away with that bound. `DevicesImplementExchange` proves
`ImplementsExchange` by the same invariant and one more part (`Placed`): a card in the gallery
was put there by this `finalizeReceived`, so none is placed twice, and one that was saved is
recorded until the record is withdrawn or the device is down, or its NVS forgets, so success finds
both. `FailureNeverOpensHolds` is about failures that were reported: the withdrawal comes before the
report, so whoever reads the report finds no record, and `RecordIsTrue` has every record
belong to a card in the gallery. Between a failure and its report it claims nothing
(divergence 14). That each device
moves alone as far as the users can tell (`Goes`, `CardIsPlaced`, `OutcomeIsSaid`, ...) is
stated once for each action of the exchange and used for every action of `Transfer` that maps to it.

**Lifecycle.** `IInv` of `DokanLifecycleProofs` says who may destroy the session: the opener
before there is a task, the application's thread after the task has ended, or the task after
a callback asked for it (`OneCloser`, `TaskTearsDown`, `TaskIsOver`), and `FreedOnce` that exactly
these have. `NoUseAfterFree` alone is not inductive: that a task about to destroy is the only
thread left needs the flags from the callback on. Theorems: `LifecycleTypeCorrect` and
`DestroyedIsLeftAlone`, both for `EarlyClose = FALSE`, and `CloseSilences` without that.

**HotKnot.** `IInv` of `HotKnotProofs` orders the stages by which news reaches the screen: `seen`
is behind `loaded`, that behind `state`, that behind the driver (`PastApproach`, `ReadyIsDead`,
`SeenReady`); `SendAfterReady` and `DoneIsPassed` tie Done to a descriptor that was passed,
`SlotsAreCleared` and `NoSession` the ends of the screen to the worker and the send task, for the
destructor as for the screen's own ways out. `SendEndsFirst` is about the driver's session; that
the last store of the send task meets a screen still alive is false of the code (divergence 18)
and only proved where Back or the transfer ends the screen. Theorems:
`HotKnotTypeCorrect`, `WorkerKeepsSlots`, `SendEndsFirst`, `TransferIsAgreed`.

**Only model-checked**: liveness, which is out of the prover's reach (`EveryByteArrives`,
`FinishArrives`, `WindowReopens`, `ConnectedTerminates`, `CloseReturns`, `DeferredCloseEnds`,
`DeadPanelEnds`). The inductive invariants of `LastCard` and `Transfer` have no run of their
own; TLC agreed with them on the instances of `lastcard` and `transfer` before they were proved.

## 5. Plan

1. Proofs: `Transfer` over `DokanPipe`, so that its queues are those of the pipes and not of its
   own; what becomes of unequal windows (a reader with the larger one should never find fault).
2. `ImagePipeline`: producer, consumer, ring, abort and join, and the loaders that own them.
3. `ImportJob` over `CardStore`; `DokanFraming` (frames cut into arbitrary pieces and put
   together again, against a reference definition); the bounds of the PDF footer.

## 6. Not modelled

* Generated data: most lines of the repository are fonts and images in
  `app/resources`, and licence texts; nothing there behaves.
* Image processing beyond the plan above: scaling, dithering and decoding are arithmetic
  over data. SHA-256 and the WiFi parameters are pure functions tested with vectors.
* Presentation: screens, strings, labels, the boot messages' wording, settings.
* Of dokan: failing allocations, the wrap of stream ids, the radio. PING and PONG are in the
  docs and not in the code.
* The ESP-IDF, LVGL, FreeRTOS and `bsp_hotknot`: external, modelled where the code calls them.
* The browser editor, a program of its own.
