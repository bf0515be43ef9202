# A TLA+ model of libsingularity

libsingularity is the toolkit behind the Singularity desktop: a Vala and C library
for applications, from asynchronous feeds and account synchronisation to
collaboration, remote desktop, widgets and drawing. Most of it is data and drawing;
what is hard to get right, and hard to test, is the part in which several threads,
processes, machines or callbacks act on one state. These modules model that part,
TLC checks it on small instances, and TLAPS proves what matters for all of them.

Paths below are relative to the repository's root (`src/core/...`, `tests/...`).

## 1. Inventory

`PROJECT.json` lists every part of the library under "components"; this is what the
survey found in those that keep state of their own.

### Async engine and feeds (`src/core/async_engine.c`, `src/core/async.vala`)

- *State.* A stream: its queue of items, `closed`, `error`, the one waiting reader
  (a `GTask`), the id of the idle source that delivers. Per read, a handler connected
  to a shared `GCancellable`.
- *Operations.* `push` and `close` on any thread; `next` and `next_finish` on the main
  loop; `stream_deliver` in an idle source; `stream_waiter_cancelled` on whatever
  thread cancels. `Feed.spawn` runs a producer on a pool thread and closes the feed.
- *Hard.* Every function is split by `stream->lock` into what is atomic and what runs
  afterwards, so a cancellation can fall between connecting the handler and storing
  the waiter, or between stealing a task and completing it.
- *Correct when.* A read completes once; items are neither lost nor reordered, also
  past cancelled reads; no reader sleeps beside queued items; null means that
  everything was read; a spawned feed ends.

### Synced collections (`src/accounts/synced_collection.vala`)

- *State.* A JSON mirror per collection, shared by processes: a tag and items, each
  with address, tag, data and one of CLEAN, NEW, MODIFIED, DELETED. Per process the
  table read from it, timers, and the frame of a running `sync()`.
- *Operations.* `put`, `remove`, `refresh`; `sync` = wait for the lock, push every
  changed item (create, update, remove), pull (tag, index, fetch), store the tag.
- *Interacts with* `MirrorLock` (who syncs, who writes the file), `RemoteCollection`
  (requests), `CollectionSet` (periodic syncs).
- *Hard.* Each request is an await during which users, other processes and other
  devices change the item in question; answers may be lost; processes crash.
- *Correct when.* A local edit gives way only to a version of another device that the
  mirror has not seen; no deletion is forgotten; a text called clean is on record at the
  server; the stored tag never hides a change; in the end the mirror is the server.

### Mirror locks (`src/accounts/mirror_lock.vala`)

- *State.* Per process a static table path -> lock object; per lock a descriptor and
  `depth`; the kernel's flock per inode.
- *Operations.* `for_path`, `try_acquire`, `acquire_async` (polls every 150 ms),
  `release`, `discard`.
- *Hard.* A flock belongs to an inode and a process, so two objects of one process
  need `depth`; the file can be unlinked while others hold it; processes die.
- *Correct when.* One sync at a time; nothing is held that no sync will release; the
  lock is found again.

### Collaborative text and session (`src/collab/*.vala`)

- *State.* `Text`: characters, deleted ones included, named (timestamp, site), and
  deletions seen before their character. `Shared`: a clock, a queue of operations and
  a 40 ms flush timer. `Session`: an id, handlers, people. `Document`: keys with
  last-writer-wins stamps.
- *Operations.* local `insert`/`delete`/`set`, `flush`, `receive`, `snapshot`, `load`;
  `share_with`, `join`, `resume`, `stop`.
- *Interacts with* the service `dev.sinty.Nearby` over D-Bus, which relays posts.
- *Hard.* Concurrent edits at one place, edits while the session is being set up,
  posts delivered again, clocks; `stop` awaits and then acts on what may be another
  session.
- *Correct when.* Everybody ends with the same text, and no edit is lost.

### Sharing the screen (`src/sharing_host/*.c`)

- *State.* `RdScreen`: outputs and their geometries, a capture per output (session, frame
  under way, buffer and its size, pending constraints, damage), a canvas. `RdEncoder`, one
  per viewer: pixel format, compressed pixel, a shadow of what the viewer shows.
  `RdDisplay`: the virtual keyboard's keymap, keys pressed for symbols, codes and buttons
  held; the clipboard's source, offer and content.
- *Operations.* Handlers of Wayland events (outputs, constraints, frame ready and failed,
  stop, data offers, selections, sends, keymaps) and calls of the server (`rd_screen_new`,
  `rd_encoder_encode`, `rd_display_keysym`, `rd_display_set_clipboard_text`, ...).
- *Interacts with* the compositor by requests and events that cross, and with the server
  through callbacks that may free the caller.
- *Hard.* An event may be about an object that was replaced; the shadow is a claim about
  another machine's screen; typing needs a keymap that the session may change meanwhile;
  the clipboard has two owners.
- *Correct when.* The guest sees the screen, and nothing is sent twice; every frame that
  fails is asked for again; a symbol is typed as it was meant and nothing stays pressed;
  both sides agree on the clipboard.

### Surfaces (`src/wayland/*.c`, `src/style/background_effect.vala`, `src/ui/windowing/snap_layouts.vala`)

- *State.* Per widget the effect that was asked for and its blur object; per surface what
  the toolkit was told; per button the address of the surface the pointer entered.
- *Hard.* Effects are asked for at every paint and remembered in two places; surfaces are
  replaced under their windows, and an address comes back; a call of the toolkit may be
  missing or fail.
- *Correct when.* What was asked last is shown, no object outlives its surface, and the
  compositor hears that the pointer left.

### Parts that keep state and are not modelled yet

| part | state and operations | hard | correct when |
|---|---|---|---|
| Dynamic internet (`src/system/dynamic_internet.vala`) | the uplinks seen, the preferred one; `probe`, `choose_preferred`, `switch_to`, `set enabled` | probes and switches are awaits; a cancelled probe's `finally` clears the flags of the next one | one probe at a time, no switch after the feature is disabled, the backend is reset |
| Collection sets (`src/accounts/collections.vala`) | the index of collections, a revision, auto-sync timers | discovery awaits the server while collections are created and removed | a stale listing drops nothing that was made meanwhile |
| Live sessions (`src/share/live_session.vala`) | mode, sockets, peers, presence; `host`, `join`, `leave` | awaits of the connection; sockets close in any order | what a peer is told matches who is there; leaving is final |
| Notes (`src/notes/line_merge.vala`) | none: a three-way merge | - | agrees with a reference merge |
| Tiling (`src/util/tile_tree.vala`) | a tree of windows | long sequences of splits and removals | every window once, no empty split |
| Account manager, cloud drive, updates, system services | D-Bus clients; their state is a service's | late answers | - |

The rest (documents, graphics, media, the remote desktop client, TLS, widgets, parsers) computes data from data or draws it; it is outside what these modules try to
describe, and `PROJECT.json` says so part by part.

## 2. Plan

Built, in this order, because a mistake in them loses users' data or hangs a program:

1. `Feed`, `AsyncStream`, `FeedSpawn`; `AsyncStreamProofs`
2. `SyncedCollection`; `SyncedCollectionProofs`
3. `MirrorLock` (what `SyncedCollection` assumes of `sync_lock`); `MirrorLockProofs`
4. `CollabText`; `CollabTextProofs`
5. `ZrleTile`, `ViewerEncoder`: what a viewer is sent; `ViewerEncoderProofs`
6. `ScreenLayout`, `ScreenArrange`, `ScreenCapture`: what is on the screen;
   `ScreenLayoutProofs`, `ScreenCaptureProofs`
7. `VirtualInput`, `Clipboard`, `SurfaceEffect`, `SnapButton`: what the compositor is asked;
   `CompositorClientsProofs`

Next:

8. `CollabSession` (`Session` and `Shared` around `CollabText`: `stop` against
   `share_with`, `ended` during an await, detach with a queue) and `CollabDocument`
   (last writer wins, `update`, tombstones), with "all replicas agree" as the abstract
   specification of both.
9. `DynamicInternet`: probes and switches with their cancellables.
10. `CollectionSet` over an abstract `SyncedCollection`, for discovery.
11. `LiveSession`.
12. A mirror that cannot be written, uids changed by the server and `forget()` in
   `SyncedCollection`.
13. `LineMerge` as a pure function against a reference merge; `TileTree` likewise.

Proved (section 6): streams and feeds, the mirror's lock, the sync, the shared text, the
screen, and what the compositor is asked for.

The modules are written to be proved about: no RECURSIVE operator where a theorem reaches,
parameters with named assumptions, one action per operation, invariants of named parts.

## 3. Modules

Definitions keep the names of the source where they can; `PROJECT.json` ("map") gives the
lines of each. An operator with an underscore and a suffix (`Push_Closed`,
`Settled_Always`) stands before the definition it is a wrong version of: it says which
mistake the properties would notice, and no specification uses it.

### Feed and AsyncStream

`Feed` is what the API promises: atomic `Push`, `Close`, `Read`, `Answer`, `Cancel`,
`AnswerCancelled`. `AsyncStream` is the GLib fallback of the engine. Each critical section
of `stream->lock` is one action and what follows it outside the lock another:
`Next_Call`, `Next_Connect`, `Next_Lock`, `Next_Check`, `Next_Busy`, `Next_Cancel` are one
call of `singularity_async_stream_next`; `Deliver_Lock`, `Deliver_Return` the idle source;
`Handler_Lock`, `Handler_Return` the cancellation handler; `Next_Finish` the reader's
callback. `main` is the program counter of the main thread, `emitting` and `claimed` that
of the thread inside `g_cancellable_cancel`. GLib is external: `g_cancellable_connect`
runs the handler at once when already cancelled, `g_cancellable_disconnect` waits for a
running emission (`MayDisconnect`), a `GTask`'s callback is dispatched later, in order.
The refinement mapping says that a result belongs to its read from the critical section
that claims the task on (`settled`).

`FeedSpawn` adds the pool thread of `Feed.spawn` and a reader that reads to the end, as
`read_feed` of `tests/async_test.vala` does.

### SyncedCollection

One process's `sync()` is a program counter and its local variables (`Frame`); the code
between two awaits is one action, since a process is single threaded. A request has two
moments: `Serve` (the server acts) and the action that handles the answer. Each
`begin_edit .. end_edit` is `Edit`: load the file again, change it, write it. Objects
matter: an item removed and put anew is another object, which `attached` and `Loaded`
track as `adopt_created` and the pull do by identity. Texts are fresh numbers and the tag
of a version is its text; the collection's tag counts changes. The server refuses a
failed precondition, but it or a middlebox may lose the request or the answer
(`LoseRequest`, `LoseReply`), have no collection tag, and the process may crash.
`Strict` says whether the server refuses an update without any tag: `dav.vala` sends no
`If-Match` then. An update of an item that is gone from the server is answered with not found
(404) or, where the server looks at the condition first, with a conflict (412): both are
modelled, and the code makes different things of them (section 7).

What an edit may give way to is stated with the version that took its place: `rival` is the
server's when it refused an upload, `foreign` are the versions of other devices, `unheard` the
uploads whose answer was lost. `Keeps` lets an edit go only for one of these that the mirror had
not seen, that is, another than the item's own tag.

### MirrorLock

Clients are `SyncedCollection` objects: `Home` maps them to processes. `Opens` says which
inode an `open` yields, so that unlinking the path and creating it anew is told apart from
opening the same file. `Exit` kills a process and closes its descriptors.

### CollabText

Each site has its characters, a clock and a queue. `Insert` and `Delete` are local edits,
`Flush` posts the queue, `Receive` merges the next post of another site, `Resume` merges
the whole log again, `Share`, `Attach` and `Join` set the session up. The order of posts is
the service's: one order for all sites, and it is an assumption (see below).

### ZrleTile and ViewerEncoder

`ZrleTile` writes one rectangle as `zrle_tile`, `put_run`, `put_cpixel` do, byte by byte, and
reads it back as the decoder of `tests/sharing_host_test.c` does (external: it is no part of
the host). Bytes and limits are the code's own: run lengths of 255, palettes of 16 and 127,
depths of 24 bits. `Tile` is the 64 pixels of a tile. `ViewerEncoder` leaves the bytes out:
`rd_encoder_encode` compares
the framebuffer with the shadow, looks for strips that scrolled (`scroll_strip`), moves the
shadow (`apply_copy`), splits the rest into spans (`changed_spans`). `Apply` is the viewer.
`missing` is what changed since it was asked for: the encoder owes the viewer only the rest.
`skipped` remembers that rectangles whose areas add up to the picture, but which overlap and
leave out a part, made the shadow valid. After that a pixel the viewer was never told (`Untold`)
may stay so, though it is asked for; every pixel it was told is right.
`Hash` is a constant, so that rows may collide. Where the code goes through strips, rows of
tiles and bytes of the shadow in a loop, the module says what comes out: `Groups` are the
neighbouring strips that scrolled alike (one copy each), `BlocksOf` the spans that
`changed_spans` has merged. The order of copies of one rectangle, and of its spans, is left to
`SetToSeq`: copies of one rectangle share no column and spans no pixel, so it changes nothing.
`After` is what a message makes of a picture, of the shadow here and of the viewer's in `Apply`.

### ScreenLayout, ScreenArrange and ScreenCapture

`ScreenLayout` has the pure part: pixels and logical geometry of an output, the passes that
place outputs on the canvas, and the way of the pointer back. `ScreenArrange` applies it to
every choice of a few outputs; `ScreenCapture` uses it. In `ScreenCapture` each function of
the code is an operator on the screen `r` (`frame_ready`, `session_done`, `capture_next`, ...)
and `Handle` says which one an event runs; `Take` dispatches the next event. The compositor is
the rest: it paints, changes constraints, answers or refuses frames, stops sessions, announces
and withdraws outputs. A callback of the server may free the screen (`frees`).

### VirtualInput and Clipboard

`d` of `VirtualInput` is the input half of `RdDisplay`, `seat` what the compositor made of
the virtual keyboard's events. xkbcommon's part (levels, masks, the state a key changes) is
external and follows from the keymap. `orphan` are the keys that were held when the session's
keymap changed, which the code forgets. In `Clipboard`, source and offer n are those of the
n-th change of the selection; the compositor cancels a replaced source and then tells the
device. `sources[n].says` is what source n was made to offer.

### SurfaceEffect and SnapButton

`SurfaceEffect` follows one paint through the callers in `background_effect.vala` to the
toolkit's calls and the compositor's protocol, with the two caches (`effect`, `card`).
`SnapButton` has surfaces with an address and an age: the code remembers addresses, and an
address comes back.

### MCRemoteView and MCCompositorClients

Both sum components that share no state: `part` says which one runs while the others keep
still in one of their initial states. A sum explores the disjoint union of their state spaces,
and what a part promises is checked where it runs; nothing is claimed of their interplay.

## 4. Runs

| run | instance | what it shows |
|---|---|---|
| `stream_reads` | 3 reads (2 cancellable), 2 producers, one push each; 100 801 states | the invariants proved in section 6 hold, among them that items reach their readers, in order (`AllReceived`); a read with something to read and a cancelled read return; `AsyncStream` implements `Feed` with its fairness |
| `spawn_reader` | 1 producer, 3 pushes, 4 reads | null means that the producer returned of its own accord and everything was read; the reader comes to its end |
| `collection_shared` | 2 processes, 1 item, another device, 2 texts; 540 477 states | an edit gives way only to a version of the device that the mirror had not seen, or is refused for an item that is gone; no unsent text is called clean, no deletion forgotten |
| `collection_faults` | 1 process, 2 texts, read-only or not, two failures of any kind at any points; 1 024 755 states | the same with lost requests and answers, no tag, crashes; and once the users stop the mirror becomes the server |
| `collection_edits` | 1 process, no failures | **violated**: section 7 |
| `collection_deletions` | 1 process | **violated**: section 7 |
| `lock_syncs` | 2 processes, 3 clients, 3 lock objects, 2 inodes; 265 577 states | mutual exclusion while no lock was discarded and the file opens; nothing leaks whatever is discarded; somebody syncs |
| `text_edits` | 3 sites, 3 edits, runs of 1 or 2 characters, one edit before the session; 528 464 states | the sites converge, never disagree on the order of two characters, and name each alike |
| `text_drift` | 2 sites, 3 edits | **violated**: section 7 |
| `remote_view` | tiles of 17, runs and palettes in 6 formats; 3 outputs to arrange; pictures of 3 by 5 in 7 frames; 2 captured outputs and 2 changes; 55 509 states | tiles are read back and cost what was computed; a viewer shows what it asked for, or was never told, and nothing is sent twice; outputs do not overlap and the pointer follows; damage is enough; a freed screen is silent; every output is seen in the end |
| `compositor_clients` | 2 keymaps of 2 layouts; 4 changes of the clipboard; 2 windows; 3 buttons; 498 585 states | symbols are typed as meant, also across keymap changes, and nothing stays held; both sides agree on the clipboard; the effect asked for is shown; the pointer leaves what it entered, once |
| `capture_stall` | 1 output, 2 changes | **violated**: section 7 |

Why the bounds are enough. *Stream*: the races are between one waiting read, one that is
being set up and one that is refused, so three reads; two producers give batches of two and
orders between threads; the safety invariants do not depend on the bounds at all (section
6). *Collection*: items are handled one after another and do not refer to each other, so
one item carries every race; two texts are one of a user and one of a device, or an upload
and an edit during it; two failures are a lost answer and a crash in the repeated sync; two
processes suffice because only one syncs at a time and all others act through the file.
*Lock*: two objects in one process and one in another are the
two ways to collide; with `OpenFails` the bound on inodes only makes the file fail to open.
*Text*: three insertions at three sites are the smallest instance in which the place of one
depends on those of two others, and in which an order that is not transitive shows; an
insertion, one inside its run and a deletion the smallest that needs the names of a run.
Receiving, joining and resuming are not bounded.
*Tiles*: a tile of 17 has room for runs past 255 pixels and palettes past 127 colours: runs of
1 to 257 pixels, in plain and in palette form; 1 to 5, 15 to 18, 127 and more colours, packed
with 1, 2 and 4 bits up to 16, as palette runs up to 127, raw and plain beyond; pictures of one
tile and of several. *Viewer*: three columns are two strips, and five rows leave a
scroll of one and two rows, one page that collides under the hash and one that is mixed; one of
the requests overlaps itself, adds up to the picture and leaves a part out.
*Arrange*: the placing of one output may depend on two others, so three. *Capture*: two
outputs are needed for a layout that moves one while the other's frame is under way; two
changes for one that overtakes another. *Input*: one free key in a keymap and one more
symbol than it has room for; the run also passes with `MaxExtra` = 2 and with `MaxKeymaps` =
3 (1.3 and 1.7 million states). *Clipboard*: four changes are two copies from each side.
*Surfaces*: a surface, a second for the same window, and two windows.

Deadlock is not checked where the system may stop: everything was pushed and read, all
edits were made.

`collection_shared` uses a VIEW that leaves out the pending timers: for safety a sync may
begin at any moment (`AutoSync`), so states that differ in them only have the same future.
`collection_faults` checks liveness too and keeps them.

## 5. Fairness

- `AsyncStream`: the main loop dispatches what is attached (`Deliver_Lock`, `Next_Finish`)
  and goes on inside a function; the cancelling thread goes on inside the emission. Nobody
  has to push, close, read or cancel.
- `FeedSpawn`: the pool runs its task, the producer returns, and the reader, a loop, reads
  again after each batch.
- `SyncedCollection`: the process runs its callbacks and timers (the periodic timer of
  `CollectionSet.start_auto_sync` too) and the server answers. `Acquire` is strongly fair:
  the lock is polled for ever and is free again and again. Users need not do anything, and
  must stop in the end for `SyncsConverge` (`UsersStop`); devices stop at `MaxData`, failures
  at `MaxFaults`.
- `MirrorLock`: the 150 ms poll goes on and a sync ends.
- `ScreenCapture`: the main loop dispatches what came (`Take`) and the compositor answers a
  frame that was asked for (`Answer`). Nobody has to paint or change anything; `MaxChanges`
  ends the changes.

## 6. Theorems

TLC checks the runs above; TLAPS proves the following for every value of the constants that
meets the assumptions at the end of this section. Safety only: fairness plays no part. The
property a theorem states is the one the run checks, by the same definition.

| module | theorem | property | says |
|---|---|---|---|
| `AsyncStreamProofs` | `TypeCorrect` | `TypeOK` | the type invariant |
| | `ReadsReturnOnce` | `ReturnedOnce` | no read is completed twice |
| | `ItemsConserved` | `Conservation` | what deliveries took, then the queue, is what was pushed |
| | `ItemsReceived` | `AllReceived` | readers are handed what was pushed, in order, past reads cancelled with a batch in hand |
| | `WakeupsKept` | `NoLostWakeup` | a reader with something to read has a delivery scheduled |
| | `EndIsLast` | `EndAfterEverything` | null or the error comes after everything was handed out |
| | `HandlersGoAway` | `HandlersDisconnected` | completed reads keep no handler on a live cancellable |
| | `StreamImplementsFeed` | `feed!Spec` | `AsyncStream`'s safety implements `Feed`'s |
| | `SpawnTypeCorrect` | `TypeOK` | the same types with the pool thread and the reader |
| | `NullIsComplete` | `NullMeansComplete` | a reader that sees null has read everything, and the producer returned by itself |
| `MirrorLockProofs` | `TypeCorrect` | `TypeOK` | the type invariant |
| | `OneSyncAtATime` | `MutualExclusion` | no two clients sync at a time while no lock was discarded |
| | `NobodyKeepsALock` | `NothingLeaked` | no lock is held that no running sync will release |
| `SyncedCollectionProofs` | `TypeCorrect` | `TypeOK` | the type invariant |
| | `MirrorAgrees` | `MirrorIsTrue` | a clean text was the server's, under the tag that is stored |
| | `DeletedOnServer` | `DeletionReachesServer` | an item goes only when the server dropped it, or another device won |
| | `EditsKept` | `HeardSyncKeepsEdits` | whatever fails, an edit gives way only to a version the mirror had not seen, of another device or of an upload nobody heard of, or is refused for an item that is gone |
| | `ConflictsAlone` | `OnlyRivalsWin` | if no answer is lost and no process dies (`AllHeard`), only to another device's, or so refused |
| `CollabTextProofs` | `SharedTextTypeCorrect` | `TypeOK` | the type invariant, however the clocks advance |
| | `SharedTextConverges` | `Converges` | sites that received every post show one text, if the clock stands still during a run |
| | `SharedTextCharactersAgree` | `CharactersAgree` | one order and one name for each character at all sites, at any moment, under the same condition |
| `ScreenLayoutProofs` | `CanvasIsWhole` | `CanvasHolds` | outputs share no pixel of the canvas, and the pointer comes back to the output it was on |
| `ScreenCaptureProofs` | `ScreenTypeCorrect` | part of `ViewTypeOK` | sessions, buffers and frames belong together |
| | `FreedKeepsSilent` | `FreedIsSilent` | a freed screen calls nobody |
| | `DamageSuffices` | `DamageIsEnough` | the reported damage is all that changed |
| `ViewerEncoderProofs` | `ViewerTypeCorrect` | part of `ViewTypeOK` | shadow and viewer have the screen's size, and messages stay on it |
| | `ViewerStaysCurrent` | `ViewerCurrent` | what was asked for since it changed is what the viewer shows, or was never told; the latter only after an update whose areas add up to the picture without covering it |
| | `ViewerNothingTwice` | `NothingTwice` | a copy is right where it lands, unless it moves what was never told, and an unchanged screen costs nothing |
| `CompositorClientsProofs` | `PointerAgrees` | `PointerRests` | the compositor and the buttons agree on where the pointer is |
| | `AskedAgrees` | `EffectShown` | the last effect asked for is the one shown |
| | `BothSidesAgree` | `ClipboardAgrees` | once events are heard, both sides agree on the clipboard |
| | `EachPartRuns` | | the sum of the four is, of each, a behaviour of its own specification |
| | `InputTypeCorrect` | part of `ClientsTypeOK` | what is held is recorded with a key of the keymap in use |
| | `GivenBack` | `KeysGivenBack` | what a guest held is given back |
| | `MeantIsRead` | `SymbolsKept` | a character is read as it was meant |
| | `ClientsTypeCorrect` | `ClientsTypeOK` | the types of all four, by `EachPartRuns` |

None of the invariants is inductive as it stands. What each one needs besides, and why:

- *Stream* (`IInv`). Nothing in `ReturnedOnce` says that the read a delivery is about to
  return has no result. `Places` does: such a read waits, or a handler claimed it, or the main
  thread holds it, never two of them. `Cancelling` says that a claim and a cancellation error
  presuppose the cancellation, `Final` that an end, held or returned, is final, `Completed`
  that only completed tasks are dispatched. The refinement uses `IInv` for the same reason: an
  action returns a read that the feed still has waiting. For `AllReceived`, `InPieces` follows
  the items from the queue through a stolen batch to the reads.
- *Feed* (`SpawnInv`). One read at most is anywhere in the stream (`ReadsInTurn`), the stream is
  closed by the closure alone (`WorkerOK`), so a null means that it ended well (`EndsWell`).
- *Lock* (`IInv`). The kernel's lock keeps apart two processes because all of them opened the
  inode the path names (`OneFile`, before a lock is discarded); the depth keeps apart the
  clients of one process because they share its lock object (`LocksApart`); what is counted or
  locked belongs to a sync (`Kept`).
- *Collection* (`IInv`). What a sync learned before a `yield` still holds behind it: only the
  holder of `sync_lock` changes what the mirror knows of the server (`SameVersions`), hence it
  knows every version but those another device or a lost answer changed (`VersionsKnown`), an
  answer means what it meant when it was given (`Heard`), and what a download read is out of
  date only together with the collection's tag (`Read`). `DeletedOnServer` is about single
  steps from such states. What wins over an edit needs the history as well (`HInv`): every
  version on the server that the mirror does not have is on record as another device's or an
  unheard upload's (`Sources`), and what refused the upload under way, or is about to be fetched
  over an edit, is such a version and not the one the item is based on (`Won`). `ConflictsAlone`
  adds that without lost answers and crashes no upload is unheard (`NothingLost`).
- *Shared text* (`SharedTextInv`). A text is a function of what was inserted and of what was
  deleted, in whatever order a site learned it. Each character is behind the one it was born
  behind, and between the two are only characters with greater names (`Shape`); two texts of
  that shape order alike the characters they share (`OrderAgrees`), and if they hold the same
  facts they are one text. `Texts` says that every text has that shape, with whole runs in it;
  `Informed` that a site has the facts of the posts it received, of its own posts and of its
  own edits, so that sites with every post have the same; `Causal` that an edit refers only to
  what was posted before it, so that nothing is dropped as unknown. By-product: as long as the
  session delivers in one order, `seen_deletes` stays empty.
- *Layout* (`ArrangeInv`). Along each axis every pass brings one more output to rest, so as many
  passes as there are outputs place all (`AllSettled`); outputs at rest that were side by side
  are so on the canvas (`LaidApart`). That a point comes back to its output is arithmetic with
  rounded quotients (`Scaled`, `PointSent`).
- *Screen* (`TypeInv`, `PictureInv`). A frame is answered once, and only while it is waited for
  (`Answered`). A filled buffer holds what the output shows but for what the compositor owes
  (`Filled`); what was seen holds it but for that and the frames on their way (`Current`).
  Frames do not overwrite each other because outputs are side by side now and after every
  event on its way (`OutsClear`), and the canvas is laid out for them (`Sharing`).
- *Viewer* (`EncoderInv`). `ShadowKnown`: a valid shadow, in the viewer's format, is what the
  viewer shows, pixels it was never told aside, and it is the screen where nothing is owed. It
  is kept because encoder and viewer do
  the same to two pictures (`After`, `InFormat`: drawing commutes with the format). A message is
  followed rectangle by rectangle (`Upto`): a copy reads only pixels that no earlier copy
  for the same request wrote, as their columns are apart (`GroupsApart`), and the rows it moves
  were compared, not only their hashes (`Scrolled`, `CopyRects`); so after each step a pixel is as it was or as it
  should be (`AllDrawn`). What differs after the copies is in a changed tile, and every changed
  tile in a span (`SpansCover`). Until the shadow is valid, everything asked for is written.
- *Keyboard* (`InputInv`). What is held is recorded with a key that has its symbol
  (`WorldOK`), all that is down is recorded (`Recorded`), and the compositor has the modifiers of
  the keys held (`Informed`). `LevelRead` says that the level that is borrowed is the one
  that is read.
- *Clipboard, effects, buttons* (`ClipInv`, `EffectInv`, `SnapInv`). A source that lost the
  selection is cancelled by an event on its way, before the device hears of the next
  (`SourceOwns`, `Reporting`); a remembered call is what that call made of the surface
  (`CachesAgree`); a button remembers its own window's surface (`Remembered`).

Where an argument needs induction (over the rectangles of a message, the passes of a layout,
the characters of a text), it is from the least element of a set of naturals (`Inductive`),
which suffices when the property can be written as a set; the folds of these modules are
recursive functions for this reason.

TLC checked each of these before its proof, as an invariant of the run's instance. The run
modules give the constants values; the proofs use only these assumptions, which TLC evaluates
on every run:

- of names that stand for nothing (`NoTask`, `None`, `NoProc`, `NoButton`, `NoAddress`, `Gone`,
  `"none"`, `"unset"`): they are none of the things they are told apart from;
- of bounds and flags (`MaxPush`, `MaxData`, `MaxFaults`, `MaxAge`, `MaxSurfaces`, `MaxCopies`,
  `MaxExtra`, `Layouts`, `MaxEvents`, `MaxChanges`, `Strict`, ...): naturals and booleans, however
  large;
- `FeedSpawn`: the pool thread is a producer; `AsyncStream`: cancellable reads are reads;
  `MirrorLock`: a client has one process; `SyncedCollection`: there is an item;
- `ScreenArrange`, `ScreenCapture`: an output has pixels and a part of the desktop
  (`GeometryOK`), buffers have pixels, formats are the two the code knows, there are finitely
  many outputs, and those at first are side by side;
- `ConflictsAlone` assumes that the faults that may happen are neither lost answers nor crashes;
  with those `EditsKept` is what holds;
- `CollabText`: sites are numbers, as their names are ordered, and bounds are naturals;
  `SharedTextConverges` and `SharedTextCharactersAgree` besides assume `OneMoment`: the wall
  clock does not overtake a run while it is inserted (`Drift` is {0} or empty), or no run has
  two characters. The run `text_drift` shows two sites that differ for good without it
  (section 7), so what is proved is what the code would keep if the receiver knew each
  character's name;
- `ViewerEncoder`: pictures are rectangles with their corner at <<0, 0>>, and an update asks for
  rectangles of whole numbers, which may lie anywhere and overlap;
- `VirtualInput`: a keymap has finitely many keys, and no two levels of a key are chosen by the
  same modifiers, as xkbcommon compiles them.

Only model-checked:

- the liveness of every module and the fairness part of the refinement: fairness and ENABLED
  are out of the prover's reach;
- `TilesHold`: what the recursive encoder and decoder of `ZrleTile` compute for every tile is
  induction over data, and behind a RECURSIVE operator tlapm has no SMT backend. With it stays
  the tile part of `ViewTypeOK`; its encoder and screen parts are proved.

## 7. What the code does differently

| run | the code | says otherwise |
|---|---|---|
| `collection_deletions` | `remove()` during the upload of an edit: the answer's `settle()` looks at the text only and makes the item CLEAN again | `src/accounts/synced_collection.vala:181`, `tests/mirror_lock_test.vala:285` |
| `collection_edits` | the update of an item that another device deleted is refused with a conflict (412) if the server looks at `If-Match` first; `push()` takes it for a change made on both sides, makes the item CLEAN and the next `pull()` drops it: the edit does not create the item again | `src/accounts/synced_collection.vala:62` |
| `text_drift` | each character of an insertion takes its own reading of the clock, the receiver counts on from the first: once the millisecond changes the names differ and later edits are lost | `tests/collab_test.vala:30` |
| `capture_stall` | a frame refused because only the formats changed is not asked for again: `frame_failed()` leaves it to `session_done()`, which asks on a new size or when no frame is under way; `capture_next()` does nothing while the refused one still is | `src/protocols/ext-image-copy-capture-v1.xml:352` |

Read from the code, and kept out of the properties by an exception in each:

- `spawn`: `run_in_thread` returns before it calls the closure when spawn's cancellable is
  already cancelled; only the closure closes the feed (`core/async_engine.c:88`), so a reader
  without a cancellable waits for ever. `ReaderReachesEnd` is stated for a producer that runs.
- `Stranded`: a creation that is refused leaves a CLEAN item without an address; when the other
  device deletes its own before the next download, nothing fetches the item and nothing drops
  it (`pull()` drops items with an address, `synced_collection.vala:475`). It stays in the mirror,
  neither uploaded nor resolved; `SyncsConverge` excludes it.
- A conflict clears the item's tag; an edit before the winning copy is downloaded is sent
  without `If-Match` and replaces it (`synced_collection.vala:409`).
- `discard()` during a sync resets the depth and unlinks the file: another sync starts beside
  it. `MutualExclusion` is stated for locks that were not discarded.
- The tag that is read again after an upload (`synced_collection.vala:292`) may be newer than
  the download it is stored for; `MirrorIsTrue` excludes such tags (`retagged`).
- After an upload whose answer was lost, the next edit of the item conflicts with the user's
  own upload; `HeardSyncKeepsEdits` excludes it where `OnlyRivalsWin` does not.
- `adopt_keymap` forgets the keys that are held without releasing them
  (`rd_wayland.c:1254`); `KeysGivenBack` excludes them (`orphan`).
- The cache on the surface (`surface_effect.c:334`) does not hear of the plain call of
  another caller: `EffectShown` excludes a region asked for again behind it.
- After the clipboard device is gone `set_source` changes what the source in place gives
  (`rd_wayland.c:1698`); `ClipboardAgrees` is stated while there is a device.
- `rd_encoder_encode` adds up the areas of the rectangles to see whether an update was full
  (`rd_encode.c:678`, `701`). Rectangles that overlap may add up to the picture and leave a part out;
  the shadow is called valid and holds there what it held before, or zeros. When the screen shows
  just that, later updates do not send it: the viewer is never told (`Untold` in `ViewerCurrent` and
  `CopyIsFinal`). Nothing keeps rectangles apart: damage is appended as it comes
  (`rd_wayland.c:719`).
- `SymbolsKept`: Caps Lock makes a capital of a character on a key that has no level for one.

## 8. Not modelled

- The native engine behind the weak symbols of `async_engine.c`, priorities, and `Async`
  calls other than streams.
- Requests and answers as text (`dav.vala`, `http.vala`, the API and EWS variants): a request
  succeeds, conflicts, finds nothing or fails.
- A mirror file that cannot be written; a uid the server changes; accounts that disappear
  during a sync; the data lock, whose critical sections are atomic in `SyncedCollection`.
- In `CollabText`, the order of posts and that nobody gets a post twice outside a resumption
  are the service's; the signals a text emits, offsets counted in the visible text, and
  deletions of nothing (they post an empty operation) are left out; the ids a deletion posts are
  a set.
- Open and flock of a lock file are one step; a wait that is cancelled between two polls is
  the same as one cancelled at a poll.
- The screen: outputs that mirror or overlap each other share pixels of the canvas
  (outputs are assumed side by side, `Disjoint`), a buffer that cannot be allocated,
  windows captured by identifier, and zlib, whose stream only carries the bytes.
- The encoder: more than 65535 rectangles in one message, for which the message is dropped.
- Input: pointer axes and Num Lock.
- `rd_tls.c`: key and certificate are renamed into place one after the other, and a crash in
  between leaves a pair that does not match; these are two calls and their order.
- `print/ipp_transport.c` and `pdf/pdf_native.c` send a request and parse an answer, or call a
  library: straight-line code over bytes with nothing concurrent in it.
- `set_corner_radius` of `surface_effect.c`, the popover of snap layouts.
