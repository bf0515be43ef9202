----------------------- MODULE SyncedCollectionProofs -----------------------
(***************************************************************************)
(* The safety of the two-way sync for every number of processes, items,    *)
(* texts and failures.                                                     *)
(*                                                                         *)
(* The invariant IInv says why a step of sync() may rely on what it learned*)
(* before a `yield`.  Only the holder of sync_lock changes what the mirror *)
(* knows of the server (SameVersions): users change texts and states, never*)
(* the tag of an item (begin_edit reads the file first).  So the mirror    *)
(* knows the server's version of every item but those another device or a  *)
(* lost answer changed (VersionsKnown), an answer still means what it meant*)
(* when it was given (Heard), and what a download read is the server's or  *)
(* is out of date together with the collection's tag (Read).  HInv adds    *)
(* where the versions come from: those of another device or of an upload   *)
(* nobody heard of are on record (Sources), and what refuses an upload or  *)
(* is fetched over an edit is one of them that the mirror has not seen     *)
(* (Won).  Each action has a lemma for the types, one for the rest of IInv *)
(* and one for the history.                                                *)
(***************************************************************************)
EXTENDS SyncedCollection, TLAPS

\* The items whose objects push() is to visit are in the table.
TodoPresent == \A p \in Proc : \A u \in sync[p].todo : mem[p].items[u] # Absent

\* A process is within its sync only while it holds sync_lock.
Syncs(p) == sync[p].pc \notin {"idle", "lock"}
OneHolder == \A p \in Proc : Syncs(p) => holder = p

\* What the state of an item says of its address, its tag and its text.
ItemOK(item) ==
  /\ item # Absent => item.data # 0
  /\ item.etag # 0 => item.href
  /\ item.state \in {"modified", "deleted"} => item.href
  /\ item.state = "new" => ~item.href
  /\ item.state = "clean" /\ item.etag # 0 => item.data = item.etag
ItemsOK ==
  \A u \in Uid : ItemOK(file.items[u]) /\ \A p \in Proc : ItemOK(mem[p].items[u])

\* A tag is no newer than the server's.
TagsOfThePast ==
  /\ ctag # 0 /\ file.tag <= ctag
  /\ \A p \in Proc : sync[p].before <= ctag /\ sync[p].tag <= ctag

\* While a process syncs, whatever others do to the mirror, its table and the file
\* agree on the version of each item, and a clean item is the same in both.
SameItem(a, b) ==
  a.href = b.href /\ a.etag = b.etag /\ (b.state = "clean" => a = b)
SameVersions ==
  \A p \in Proc : Syncs(p) =>
    /\ mem[p].tag = file.tag
    /\ \A u \in Uid : SameItem(mem[p].items[u], file.items[u])

\* The mirror knows the server's version of an item, or else another device made
\* it, an upload nobody heard of, or one whose answer is still to be read.
Pushing == {"create", "update", "recreate", "remove"}
Theirs(u) == author[u] \in {"device", "lost"} \/ read_only
InFlight(u) ==
  /\ author[u] = "sync"
  /\ \E p \in Proc : LET f == sync[p] IN f.pc \in Pushing /\ f.uid = u /\ f.reply = "ok"
Knows(u, item) ==
  IF item.href THEN item.etag # 0 /\ server[u] = item.etag ELSE server[u] = 0
VersionsKnown ==
  \A u \in Uid : Knows(u, file.items[u]) \/ Theirs(u) \/ InFlight(u)

\* The items are the server's, but for what is still to be uploaded.
InStep(items) ==
  \A u \in Uid : LET item == items[u] IN
    /\ item.state = "clean" /\ item.etag # 0 => item.data = server[u]
    /\ server[u] # 0 => item.href
TagInStep == file.tag = ctag /\ ~retagged => InStep(file.items)

\* What a sync knows of the item it waits for.
Requested(f) ==
  f.pc \in Pushing =>
    LET item == file.items[f.uid] IN
      /\ f.sent # 0 /\ item.etag = f.etag
      /\ item.href <=> f.pc # "create"
      /\ f.pc # "create" => f.attached
      /\ ~read_only

\* What the server's answer to it means.
Heard(f) ==
  /\ f.pc = "push" => f.reply = "none"
  /\ f.pc \in {"create", "update", "recreate"} /\ f.reply = "ok" =>
       /\ f.sent \in stored /\ file.tag < ctag
       /\ server[f.uid] = f.sent \/ author[f.uid] = "device"
  /\ f.pc = "remove" /\ f.reply = "ok" =>
       server[f.uid] = 0 \/ (author[f.uid] = "device" /\ file.tag < ctag)
  /\ f.pc \in Pushing /\ f.reply = "conflict" => Theirs(f.uid)
  /\ (f.pc = "update" /\ f.reply = "not_found") \/ (f.pc = "recreate" /\ f.reply = "none") =>
       server[f.uid] = 0 \/ author[f.uid] = "device"

\* What a download read is what the server has, or another device changed it since:
\* then the server's tag is a later one too.
Reads(f, u, text) ==
  text = server[u] \/ (author[u] = "device" /\ ctag # f.before /\ ctag # file.tag)
Read(f) ==
  /\ f.pc = "index" /\ f.reply = "ok" => \A u \in Uid : Reads(f, u, f.texts[u])
  /\ f.pc = "fetch" =>
       \A u \in Uid :
         /\ Reads(f, u, f.index[u])
         /\ u \notin f.wanted /\ f.index[u] # 0 =>
              LET item == file.items[u] IN
                item.href /\ (item.state = "clean" => item.etag = f.index[u])
  /\ f.pc = "fetch" /\ f.reply = "ok" =>
       \A u \in Uid : IF u \in f.wanted THEN Reads(f, u, f.texts[u]) ELSE f.texts[u] = 0

\* What the tag a sync is about to store says.
Ending(f) ==
  /\ f.pc \in Pushing \cup {"push", "tag", "index", "fetch"} => ~f.indexed
  /\ f.pc = "retag" => f.pushed /\ f.indexed
  /\ f.pc = "end" /\ f.ok =>
       IF f.indexed THEN f.pushed \/ (f.before = ctag => InStep(file.items))
       ELSE f.before = file.tag

FrameOK(f) == Requested(f) /\ Heard(f) /\ Read(f) /\ Ending(f)
FramesOK == \A p \in Proc : FrameOK(sync[p])

Rest ==
  /\ TodoPresent /\ OneHolder /\ ItemsOK /\ TagsOfThePast /\ SameVersions
  /\ VersionsKnown /\ TagInStep /\ FramesOK

IInv == StateTypeOK /\ Rest

-----------------------------------------------------------------------------
(* Types.                                                                  *)

Entry == Item \cup {Absent}

LEMMA EmptyType == Empty \in Mirror
BY DEF Empty, Mirror, NoTag, Tag

LEMMA ChangedType ==
  ASSUME file \in Mirror, NEW u \in Uid, NEW entry \in Entry
  PROVE  /\ Changed(u, entry) \in Mirror
         /\ Changed(u, entry).tag = file.tag
         /\ Changed(u, entry).items = [file.items EXCEPT ![u] = entry]
BY DEF Changed, With, Mirror, Entry

LEMMA IdleType == Idle \in Frame /\ Idle.todo = {} /\ Idle.pc = "idle"
BY UidAssumption, BoundsAssumption
   DEF Idle, Frame, NoTexts, Texts, Data, NoTag, Tag

LEMMA LoadedType ==
  ASSUME NEW f \in Frame, NEW items
  PROVE  LET g == Loaded(f, items) IN
         /\ g \in Frame
         /\ g.todo = {u \in f.todo : items[u] # Absent}
         /\ g.attached = (f.attached /\ items[f.uid] # Absent)
         /\ g.pc = f.pc /\ g.uid = f.uid /\ g.sent = f.sent /\ g.etag = f.etag
         /\ g.pushed = f.pushed /\ g.before = f.before /\ g.indexed = f.indexed
         /\ g.index = f.index /\ g.wanted = f.wanted /\ g.ok = f.ok
         /\ g.reply = f.reply /\ g.texts = f.texts /\ g.tag = f.tag
BY DEF Loaded, Frame

\* The changes an action makes to an entry of the table.
LEMMA EntryType ==
  ASSUME NEW item \in Entry
  PROVE  \A d, e \in Data, s \in State, h \in BOOLEAN :
           /\ [item EXCEPT !.state = s, !.data = d] \in Item
           /\ [item EXCEPT !.state = s, !.etag = e] \in Item
           /\ [item EXCEPT !.href = h, !.etag = e, !.state = s] \in Item
           /\ [[item EXCEPT !.href = h, !.etag = e] EXCEPT !.state = s] \in Item
           /\ [[item EXCEPT !.href = h, !.etag = e] EXCEPT !.data = d, !.state = s] \in Item
<1>0. item.data \in Data /\ item.etag \in Data
  BY BoundsAssumption DEF Entry, Item, Absent, Data
<1>1. \A d \in Data, s \in State : [item EXCEPT !.state = s, !.data = d] \in Item
  <2>1. CASE item \in Item
    BY <2>1 DEF Item
  <2>2. CASE item = Absent
    BY <1>0, <2>2 DEF Item, Absent
  <2> QED
    BY <2>1, <2>2 DEF Entry
<1>2. \A e \in Data, s \in State : [item EXCEPT !.state = s, !.etag = e] \in Item
  <2>1. CASE item \in Item
    BY <2>1 DEF Item
  <2>2. CASE item = Absent
    BY <1>0, <2>2 DEF Item, Absent
  <2> QED
    BY <2>1, <2>2 DEF Entry
<1>3. \A e \in Data, h \in BOOLEAN, s \in State :
         /\ [item EXCEPT !.href = h, !.etag = e, !.state = s] \in Item
         /\ [[item EXCEPT !.href = h, !.etag = e] EXCEPT !.state = s] \in Item
  BY <1>0 DEF Entry, Item, Absent
<1>4. \A d, e \in Data, s \in State, h \in BOOLEAN :
         [[item EXCEPT !.href = h, !.etag = e] EXCEPT !.data = d, !.state = s] \in Item
  BY DEF Entry, Item, Absent
<1> QED
  BY <1>1, <1>2, <1>3, <1>4

LEMMA FrameTypes ==
  ASSUME StateTypeOK, NEW p \in Proc
  PROVE  /\ \A pc \in Awaiting : Await(p, pc) \in Frame
         /\ NextItem(p) \in Frame
         /\ \A ok \in BOOLEAN : Leave(p, ok) \in Frame
         /\ Pulled(p) \in Frame
<1>1. sync[p] \in Frame
  BY DEF StateTypeOK
<1>2. 0 \in Data /\ NoTexts \in Texts /\ NoTag \in Tag
  BY BoundsAssumption DEF NoTexts, Texts, Data, NoTag, Tag
<1>3. \A pc \in Awaiting : Await(p, pc) \in Frame
  BY <1>1, <1>2 DEF Await, Frame
<1>4. NextItem(p) \in Frame
  BY <1>1, <1>2 DEF NextItem, Frame, Running
<1>5. \A ok \in BOOLEAN : Leave(p, ok) \in Frame
  BY <1>1, IdleType DEF Leave, Frame, Running
<1>6. Pulled(p) \in Frame
  <2>1. [Idle EXCEPT !.pc = "retag", !.pushed = TRUE, !.indexed = TRUE] \in Frame
    BY IdleType DEF Frame, Awaiting
  <2>2. [Leave(p, TRUE) EXCEPT !.indexed = TRUE] \in Frame
    BY <1>5 DEF Frame
  <2> QED
    BY <2>1, <2>2 DEF Pulled
<1> QED
  BY <1>3, <1>4, <1>5, <1>6

LEMMA EditType ==
  ASSUME StateTypeOK, NEW p \in Proc, NEW mirror \in Mirror, NEW frame \in Frame,
         Edit(p, mirror, frame)
  PROVE  file' \in Mirror /\ mem' \in [Proc -> Mirror] /\ sync' \in [Proc -> Frame]
BY LoadedType DEF Edit, StateTypeOK

LEMMA AnsweredType ==
  ASSUME NEW item \in Entry, NEW f \in Frame, f.reply \in {"ok", "conflict"},
         f.pc \in {"create", "update", "recreate", "remove"}, f.attached => item \in Item
  PROVE  Answered(item, f) \in Entry
<1>1. /\ f.sent \in Data /\ f.attached \in BOOLEAN /\ 0 \in Data /\ Absent.data = 0
      /\ Absent.etag = 0 /\ Absent.href = FALSE
  BY BoundsAssumption DEF Frame, Absent, Data
<1>2. \A d, e \in Data, s \in State, h \in BOOLEAN :
         /\ [item EXCEPT !.state = s, !.etag = e] \in Item
         /\ [item EXCEPT !.href = h, !.etag = e, !.state = s] \in Item
         /\ [[item EXCEPT !.href = h, !.etag = e] EXCEPT !.state = s] \in Item
         /\ [[item EXCEPT !.href = h, !.etag = e] EXCEPT !.data = d, !.state = s] \in Item
  BY EntryType
<1>3. \A i : Settled(i, f.sent) = [i EXCEPT !.state = "clean"]
              \/ Settled(i, f.sent) = [i EXCEPT !.state = "modified"]
  BY DEF Settled
<1>4. ASSUME NEW i, i = [item EXCEPT !.href = TRUE, !.etag = f.sent]
      PROVE  Settled(i, f.sent) \in Item
  BY <1>1, <1>2, <1>3, <1>4 DEF State
<1>5. Created(item, f) \in Entry
  BY <1>1, <1>2, <1>4 DEF Created, State, Entry
<1> QED
  BY <1>1, <1>2, <1>4, <1>5 DEF Answered, State, Entry

LEMMA DownloadedType ==
  ASSUME NEW items \in [Uid -> Entry], NEW index \in Texts, NEW texts \in Texts
  PROVE  Downloaded(items, index, texts) \in [Uid -> Entry]
BY DEF Downloaded, Entry, Item, State, Texts

LEMMA InitTypeOK == Init => StateTypeOK
<1> SUFFICES ASSUME Init PROVE StateTypeOK
  OBVIOUS
<1>1. NoTexts \in Texts /\ 0 \in Data /\ 0 \in 0 .. MaxFaults /\ 1 \in Tag
  BY BoundsAssumption DEF NoTexts, Texts, Data, Tag
<1>2. file \in Mirror /\ mem \in [Proc -> Mirror]
  BY EmptyType DEF Init
<1>3. sync \in [Proc -> Frame]
  BY IdleType DEF Init
<1>4. author \in [Uid -> {"none", "sync", "device", "lost"}]
  BY DEF Init
<1> QED
  BY <1>1, <1>2, <1>3, <1>4 DEF Init, StateTypeOK

\* A step that changes one process' frame and nothing else.
LEMMA SyncTypeOK ==
  ASSUME StateTypeOK, NEW p \in Proc, NEW g \in Frame, sync' = [sync EXCEPT ![p] = g],
         UNCHANGED <<file, mem, server, ctag, holder, fresh, read_only, stored, retagged>>,
         faults' \in 0 .. MaxFaults, author' \in [Uid -> {"none", "sync", "device", "lost"}],
         scheduled' \in [Proc -> BOOLEAN], again' \in [Proc -> BOOLEAN]
  PROVE  StateTypeOK'
BY DEF StateTypeOK

\* An edit of the mirror.
LEMMA EditTypeOK ==
  ASSUME StateTypeOK, NEW p \in Proc, NEW mirror \in Mirror, NEW frame \in Frame,
         Edit(p, mirror, frame),
         UNCHANGED <<server, ctag, faults, read_only, author, stored>>,
         fresh' \in Data, retagged' \in BOOLEAN, holder' \in Proc \cup {NoProc},
         scheduled' \in [Proc -> BOOLEAN], again' \in [Proc -> BOOLEAN]
  PROVE  StateTypeOK'
BY EditType DEF StateTypeOK

LEMMA UserTypeOK ==
  ASSUME StateTypeOK, NEW p \in Proc, UserStep(p)
  PROVE  StateTypeOK'
<1>1. file \in Mirror /\ sync[p] \in Frame /\ fresh \in Data /\ fresh \in Nat
  BY BoundsAssumption DEF StateTypeOK, Data
<1>2. file.items \in [Uid -> Entry]
  BY <1>1 DEF Mirror, Entry
<1>3. ASSUME NEW u \in Uid, Put(p, u) PROVE StateTypeOK'
  <2> DEFINE item == file.items[u]
             s == IF item = Absent THEN "new"
                  ELSE IF item.state \notin {"clean", "deleted"} THEN item.state
                  ELSE IF item.href THEN "modified" ELSE "new"
  <2>0. s \in {"new", "modified"}
    BY <1>2 DEF Entry, Item, State
  <2>1. Edit(p, Changed(u, [file.items[u] EXCEPT !.state = s, !.data = fresh']), sync[p])
    BY <1>3 DEF Put
  <2> HIDE DEF s
  <2>2. fresh' \in Data
    BY <1>1, <1>3, BoundsAssumption DEF Put, Data
  <2>3. [file.items[u] EXCEPT !.state = s, !.data = fresh'] \in Entry
    BY <1>2, <2>0, <2>2, EntryType DEF Entry, State
  <2>4. Changed(u, [file.items[u] EXCEPT !.state = s, !.data = fresh']) \in Mirror
    BY <1>1, <2>3, ChangedType
  <2>5. /\ UNCHANGED <<server, ctag, holder, again, faults, read_only, author, stored, retagged>>
        /\ scheduled' \in [Proc -> BOOLEAN]
    BY <1>3 DEF Put, history, StateTypeOK
  <2> QED
    BY <1>1, <2>1, <2>2, <2>4, <2>5, EditTypeOK DEF StateTypeOK
<1>4. ASSUME NEW u \in Uid, Remove(p, u) PROVE StateTypeOK'
  <2>1. PICK entry \in Entry : Edit(p, Changed(u, entry), sync[p])
    BY <1>2, <1>4 DEF Remove, Entry, Item, Absent, State
  <2>2. Changed(u, entry) \in Mirror
    BY <1>1, ChangedType
  <2>3. /\ UNCHANGED <<server, ctag, holder, again, fresh, faults, read_only, author, stored, retagged>>
        /\ scheduled' \in [Proc -> BOOLEAN]
    BY <1>4 DEF Remove, history, StateTypeOK
  <2> QED
    BY <1>1, <2>1, <2>2, <2>3, EditTypeOK DEF StateTypeOK
<1> QED
  BY <1>3, <1>4 DEF UserStep

LEMMA OtherTypeOK ==
  ASSUME StateTypeOK, NEW p \in Proc, Refresh(p) \/ Timer(p) \/ AutoSync(p) \/ Acquire(p)
  PROVE  StateTypeOK'
<1>1. file \in Mirror /\ sync[p] \in Frame
  BY DEF StateTypeOK
<1>2. CASE Refresh(p)
  BY <1>1, <1>2, LoadedType DEF Refresh, history, StateTypeOK
<1>3. CASE Timer(p) \/ AutoSync(p)
  <2>1. [sync[p] EXCEPT !.pc = "lock"] \in Frame
    BY <1>1 DEF Frame
  <2>2. /\ UNCHANGED <<file, mem, server, ctag, holder, fresh, faults, read_only, author, stored, retagged>>
        /\ scheduled' \in [Proc -> BOOLEAN] /\ again' \in [Proc -> BOOLEAN]
        /\ sync' = [sync EXCEPT ![p] = [sync[p] EXCEPT !.pc = "lock"]] \/ sync' = sync
    BY <1>3 DEF Timer, AutoSync, Begin, history, StateTypeOK
  <2> QED
    BY <2>1, <2>2 DEF StateTypeOK
<1>4. CASE Acquire(p)
  <2> DEFINE g == [Idle EXCEPT !.pc = "push", !.todo = {u \in Uid : file.items[u] # Absent}]
  <2>1. g \in Frame
    BY IdleType DEF Frame, Running
  <2> QED
    BY <1>1, <1>4, <2>1 DEF Acquire, history, StateTypeOK
<1> QED
  BY <1>2, <1>3, <1>4

LEMMA DeviceTypeOK ==
  ASSUME StateTypeOK, NEW u \in Uid, DeviceEdit(u) \/ DeviceDelete(u)
  PROVE  StateTypeOK'
<1>1. ctag + 1 \in Tag
  BY DEF StateTypeOK, Tag
<1>2. CASE DeviceEdit(u)
  <2>1. fresh' \in Data
    BY <1>2, BoundsAssumption DEF DeviceEdit, StateTypeOK, Data
  <2> QED
    BY <1>1, <1>2, <2>1 DEF DeviceEdit, clients, StateTypeOK, Texts
<1>3. CASE DeviceDelete(u)
  <2>1. 0 \in Data
    BY BoundsAssumption DEF Data
  <2> QED
    BY <1>1, <1>3, <2>1 DEF DeviceDelete, clients, StateTypeOK, Texts
<1> QED
  BY <1>2, <1>3

\* A step of sync() changes the frame of its process, edits the mirror, or both.
LEMMA SyncStepTypeOK ==
  ASSUME StateTypeOK, TodoPresent, NEW p \in Proc, SyncStep(p)
  PROVE  StateTypeOK'
<1> DEFINE f == sync[p]
<1>1. /\ f \in Frame /\ f.uid \in Uid /\ f.todo \in SUBSET Uid /\ f.tag \in Tag
      /\ f.before \in Tag /\ f.texts \in Texts /\ f.index \in Texts
  BY DEF StateTypeOK, Frame
<1>2. /\ file \in Mirror /\ file.items \in [Uid -> Entry] /\ mem[p] \in Mirror
      /\ mem[p].items \in [Uid -> Entry] /\ mem[p].tag \in Tag /\ file.tag \in Tag
  BY DEF StateTypeOK, Mirror, Entry
<1>3. ASSUME NEW g \in Frame, sync' = [sync EXCEPT ![p] = g],
             UNCHANGED <<file, mem, server, ctag, holder, scheduled, again, fresh, faults,
                         read_only, history>>
      PROVE  StateTypeOK'
  BY <1>3, SyncTypeOK DEF history, StateTypeOK
<1>4. ASSUME NEW mirror \in Mirror, NEW frame \in Frame, Edit(p, mirror, frame),
             UNCHANGED <<server, ctag, holder, scheduled, again, fresh, faults, read_only, history>>
      PROVE  StateTypeOK'
  BY <1>4, EditTypeOK DEF history, StateTypeOK
<1>5. ASSUME NEW u \in Uid, PushItem(p, u) PROVE StateTypeOK'
  <2> DEFINE item == mem[p].items[u]
             rest == [f EXCEPT !.todo = @ \ {u}]
             now == file.items[u]
             reverted == IF now = Absent \/ now.state = "clean" THEN now
                         ELSE IF now.href THEN [now EXCEPT !.state = "clean", !.etag = 0]
                         ELSE Absent
             request == CASE item.state = "new" -> "create"
                          [] item.state = "modified" -> "update"
                          [] item.state = "deleted" -> "remove"
             sending == [rest EXCEPT !.pc = request, !.uid = u, !.attached = TRUE,
                                     !.sent = item.data, !.etag = item.etag]
  <2>1. rest \in Frame
    BY <1>1 DEF Frame
  <2>2. item \in Item
    BY <1>2, <1>5 DEF PushItem, TodoPresent, Entry
  <2>3. CASE item.state = "clean" /\ sync' = [sync EXCEPT ![p] = rest] /\ UNCHANGED <<file, mem>>
    BY <1>5, <2>1, <2>3, <1>3 DEF PushItem
  <2>4. CASE Edit(p, Changed(u, reverted), rest)
    <3>1. 0 \in Data
      BY BoundsAssumption DEF Data
    <3>2. reverted \in Entry
      BY <1>2, <3>1 DEF Entry, Item, State
    <3>3. Changed(u, reverted) \in Mirror
      BY <1>2, <3>2, ChangedType
    <3> QED
      BY <1>4, <1>5, <2>1, <2>4, <3>3 DEF PushItem
  <2>5. CASE item.state # "clean" /\ sync' = [sync EXCEPT ![p] = sending] /\ UNCHANGED <<file, mem>>
    <3>1. request \in Awaiting
      BY <2>2, <2>5 DEF Item, State, Awaiting
    <3>2. item.data \in Data /\ item.etag \in Data
      BY <2>2 DEF Item
    <3> HIDE DEF request
    <3>3. sending \in Frame
      BY <2>1, <3>1, <3>2 DEF Frame
    <3> QED
      BY <1>3, <1>5, <2>5, <3>3 DEF PushItem
  <2> QED
    BY <1>5, <2>3, <2>4, <2>5 DEF PushItem
<1>6. CASE PushDone(p) \/ UpdateNotFound(p) \/ RetagAnswer(p) \/ Failed(p) \/ TagAnswer(p)
  <2>1. /\ Await(p, "tag") \in Frame /\ Await(p, "recreate") \in Frame
        /\ Await(p, "index") \in Frame /\ \A ok \in BOOLEAN : Leave(p, ok) \in Frame
        /\ NoTag \in Tag
    BY FrameTypes DEF Awaiting, NoTag, Tag
  <2>2. CASE PushDone(p)
    BY <1>3, <2>1, <2>2 DEF PushDone
  <2>3. CASE UpdateNotFound(p)
    BY <1>3, <2>1, <2>3 DEF UpdateNotFound
  <2>4. CASE RetagAnswer(p)
    <3>1. \A b \in Tag : [Leave(p, TRUE) EXCEPT !.before = b] \in Frame
      BY <2>1 DEF Frame
    <3>2. (IF f.reply = "ok" THEN f.tag ELSE NoTag) \in Tag
      BY <1>1, <2>1
    <3> QED
      BY <1>3, <2>4, <3>1, <3>2 DEF RetagAnswer
  <2>5. CASE Failed(p)
    BY <1>3, <2>1, <2>5 DEF Failed
  <2>6. CASE TagAnswer(p)
    <3>1. \A g \in Frame : [g EXCEPT !.before = f.tag] \in Frame
      BY <1>1 DEF Frame
    <3>2. PICK g \in Frame : sync' = [sync EXCEPT ![p] = [g EXCEPT !.before = f.tag]]
      BY <2>1, <2>6 DEF TagAnswer
    <3> QED
      BY <1>3, <2>6, <3>1, <3>2 DEF TagAnswer
  <2> QED
    BY <1>6, <2>2, <2>3, <2>4, <2>5, <2>6
<1>7. CASE PushAnswer(p)
  <2> DEFINE g == Loaded(f, file.items)
             entry == Answered(file.items[g.uid], g)
  <2>1. /\ g \in Frame /\ g.uid = f.uid /\ g.pc = f.pc /\ g.reply = f.reply
        /\ g.attached => file.items[g.uid] # Absent
    BY <1>1, LoadedType DEF Frame
  <2>2. entry \in Entry
    BY <1>1, <1>2, <1>7, <2>1, AnsweredType DEF PushAnswer, Entry
  <2>3. Changed(g.uid, entry) \in Mirror
    BY <1>1, <1>2, <2>1, <2>2, ChangedType
  <2>4. NextItem(p) \in Frame
    BY FrameTypes
  <2> QED
    BY <1>4, <1>7, <2>3, <2>4 DEF PushAnswer
<1>8. \A texts \in Texts, index \in Texts :
         [file EXCEPT !.items = Downloaded(@, index, texts)] \in Mirror
  BY <1>2, DownloadedType DEF Mirror, Entry
<1>9. Pulled(p) \in Frame /\ Await(p, "fetch") \in Frame
  BY FrameTypes DEF Awaiting
<1>10. CASE IndexAnswer(p)
  <2>1. NoTexts \in Texts
    BY BoundsAssumption DEF NoTexts, Texts, Data
  <2> DEFINE wanted == {u \in Uid : f.texts[u] # 0 /\ LET item == mem[p].items[u] IN
                          \/ ~item.href
                          \/ item.state = "clean" /\ item.etag # f.texts[u]}
             fetching == [Await(p, "fetch") EXCEPT !.index = f.texts, !.wanted = wanted]
  <2>2. fetching \in Frame
    BY <1>1, <1>9 DEF Frame
  <2>3. CASE sync' = [sync EXCEPT ![p] = fetching] /\ UNCHANGED <<file, mem>>
    BY <1>3, <1>10, <2>2, <2>3 DEF IndexAnswer
  <2>4. CASE Edit(p, [file EXCEPT !.items = Downloaded(@, f.texts, NoTexts)], Pulled(p))
    BY <1>1, <1>4, <1>8, <1>9, <1>10, <2>1, <2>4 DEF IndexAnswer
  <2> QED
    BY <1>10, <2>3, <2>4 DEF IndexAnswer
<1>11. CASE FetchAnswer(p)
  BY <1>1, <1>4, <1>8, <1>9, <1>11 DEF FetchAnswer
<1>12. CASE Finish(p)
  <2>1. [file EXCEPT !.tag = f.before] \in Mirror
    BY <1>1, <1>2 DEF Mirror
  <2>2. PICK mirror \in Mirror : Edit(p, mirror, Idle)
    BY <1>2, <1>12, <2>1 DEF Finish
  <2>3. Idle \in Frame
    BY IdleType
  <2>4. /\ UNCHANGED <<server, ctag, fresh, faults, read_only, author, stored>>
        /\ holder' = NoProc /\ retagged' \in BOOLEAN
        /\ scheduled' \in [Proc -> BOOLEAN] /\ again' \in [Proc -> BOOLEAN]
    BY <1>1, <1>12 DEF Finish, StateTypeOK, Frame
  <2> QED
    BY <2>2, <2>3, <2>4, EditTypeOK DEF StateTypeOK
<1> QED
  BY <1>5, <1>6, <1>7, <1>10, <1>11, <1>12 DEF SyncStep, PushStep, PullStep

Replies == {"none", "ok", "conflict", "not_found", "network", "other"}

LEMMA ReplyType ==
  ASSUME StateTypeOK, NEW p \in Proc
  PROVE  /\ \A k \in Replies : [sync[p] EXCEPT !.reply = k] \in Frame
         /\ \A k \in Replies, n \in Tag : [sync[p] EXCEPT !.reply = k, !.tag = n] \in Frame
         /\ \A k \in Replies, t \in Texts : [sync[p] EXCEPT !.reply = k, !.texts = t] \in Frame
<1>1. sync[p] \in Frame
  BY DEF StateTypeOK
<1> QED
  BY <1>1 DEF Frame, Replies

\* What an answer says, and what it changes on the server.
LEMMA ServeTypeOK == ASSUME StateTypeOK, NEW p \in Proc, Serve(p) PROVE StateTypeOK'
<1> DEFINE f == sync[p]
<1>1. /\ f \in Frame /\ f.uid \in Uid /\ f.sent \in Data /\ server \in Texts /\ 0 \in Data
      /\ ctag \in Tag /\ ctag + 1 \in Tag
  BY BoundsAssumption DEF StateTypeOK, Frame, Data, Tag
<1>2. PICK g \in Frame : sync' = [sync EXCEPT ![p] = g]
  <2> DEFINE fetched == [v \in Uid |-> IF v \in f.wanted THEN server[v] ELSE 0]
  <2>1. fetched \in Texts
    BY <1>1 DEF Texts
  <2>2. \A k : Reply(p, k) => sync' = [sync EXCEPT ![p] = [f EXCEPT !.reply = k]]
    BY DEF Reply
  <2>3. \/ \E k \in Replies : sync' = [sync EXCEPT ![p] = [f EXCEPT !.reply = k]]
        \/ sync' = [sync EXCEPT ![p] = [f EXCEPT !.reply = "ok", !.tag = ctag]]
        \/ sync' = [sync EXCEPT ![p] = [f EXCEPT !.reply = "ok", !.texts = server]]
        \/ sync' = [sync EXCEPT ![p] = [f EXCEPT !.reply = "ok", !.texts = fetched]]
    BY <2>2 DEF Serve, Store, Refused, Answer, Replies
  <2> QED
    BY <1>1, <2>1, <2>3, ReplyType DEF Replies
<1>3. /\ server' \in Texts /\ ctag' \in Tag /\ stored' \subseteq Data
      /\ author' \in [Uid -> {"none", "sync", "device", "lost"}]
  <2>1. \A text \in Data : Store(p, f.uid, text) =>
          /\ server' \in Texts /\ ctag' \in Tag /\ stored' \subseteq Data
          /\ author' \in [Uid -> {"none", "sync", "device", "lost"}]
    BY <1>1 DEF Store, StateTypeOK, Texts
  <2>2. Untouched =>
          /\ server' \in Texts /\ ctag' \in Tag /\ stored' \subseteq Data
          /\ author' \in [Uid -> {"none", "sync", "device", "lost"}]
    BY DEF Untouched, StateTypeOK
  <2> QED
    BY <1>1, <2>1, <2>2 DEF Serve, Refused, Answer
<1>4. UNCHANGED <<file, mem, holder, scheduled, again, fresh, faults, read_only, retagged>>
  BY DEF Serve
<1> QED
  BY <1>2, <1>3, <1>4 DEF StateTypeOK

LEMMA FaultTypeOK ==
  ASSUME StateTypeOK, NEW p \in Proc, NetworkFault(p) \/ Crash(p)
  PROVE  StateTypeOK'
<1>1. sync[p] \in Frame /\ file \in Mirror /\ Idle \in Frame
  BY IdleType DEF StateTypeOK
<1>2. faults' \in 0 .. MaxFaults /\ read_only' = read_only
  BY BoundsAssumption DEF NetworkFault, LoseRequest, LoseReply, NoTagReply, Crash, May, StateTypeOK
<1>3. Unheard(p) => author' \in [Uid -> {"none", "sync", "device", "lost"}]
  BY DEF Unheard, StateTypeOK
<1>4. CASE NetworkFault(p)
  <2>1. /\ UNCHANGED <<file, mem, server, ctag, holder, fresh, read_only, stored, retagged,
                        scheduled, again>>
        /\ author' \in [Uid -> {"none", "sync", "device", "lost"}]
        /\ \E k \in Replies : sync' = [sync EXCEPT ![p] = [sync[p] EXCEPT !.reply = k]]
    BY <1>2, <1>3, <1>4 DEF NetworkFault, LoseRequest, LoseReply, NoTagReply, history, Reply,
       Replies, StateTypeOK
  <2>2. scheduled' \in [Proc -> BOOLEAN] /\ again' \in [Proc -> BOOLEAN]
    BY <2>1 DEF StateTypeOK
  <2> QED
    BY <1>2, <2>1, <2>2, ReplyType, SyncTypeOK
<1>5. CASE Crash(p)
  BY <1>1, <1>2, <1>3, <1>5 DEF Crash, StateTypeOK
<1> QED
  BY <1>4, <1>5

LEMMA NextTypeOK == StateTypeOK /\ TodoPresent /\ [Next]_vars => StateTypeOK'
<1> SUFFICES ASSUME StateTypeOK, TodoPresent, [Next]_vars PROVE StateTypeOK'
  OBVIOUS
<1>1. CASE UNCHANGED vars
  BY <1>1 DEF vars, StateTypeOK
<1> QED
  BY <1>1, UserTypeOK, OtherTypeOK, DeviceTypeOK, SyncStepTypeOK, ServeTypeOK, FaultTypeOK
     DEF Next

-----------------------------------------------------------------------------
(* Kinds of steps, and what they leave of the invariant.                   *)

LEMMA InitRest == Init => Rest
<1> SUFFICES ASSUME Init PROVE Rest
  OBVIOUS
<1>1. \A p \in Proc : /\ sync[p].pc = "idle" /\ sync[p].todo = {}
                      /\ sync[p].before = 0 /\ sync[p].tag = 0
  BY DEF Init, Idle, NoTag
<1>2. \A u \in Uid : file.items[u] = Absent /\ server[u] = 0
                     /\ \A p \in Proc : mem[p].items[u] = Absent
  BY DEF Init, Empty, NoTexts
<1>3. file.tag = 0 /\ ctag = 1
  BY DEF Init, Empty, NoTag
<1>4. Absent.href = FALSE /\ Absent.etag = 0 /\ Absent.state = "absent"
  BY DEF Absent
<1>5. TodoPresent /\ OneHolder /\ SameVersions /\ FramesOK
  BY <1>1 DEF TodoPresent, OneHolder, Syncs, SameVersions, FramesOK, FrameOK, Requested,
     Heard, Read, Ending, Pushing
<1>6. ItemsOK
  BY <1>2, <1>4 DEF ItemsOK, ItemOK
<1>7. TagsOfThePast /\ TagInStep /\ VersionsKnown
  BY <1>1, <1>2, <1>3, <1>4 DEF TagsOfThePast, TagInStep, VersionsKnown, Knows
<1> QED
  BY <1>5, <1>6, <1>7 DEF Rest

LEMMA NoSyncNoClaim ==
  ASSUME NEW f, f.pc \in {"idle", "lock"} PROVE FrameOK(f)
BY DEF FrameOK, Requested, Heard, Read, Ending, Pushing

\* A step that only changes the frame of a process.
LEMMA FrameStep ==
  ASSUME IInv, NEW p \in Proc, NEW g \in Frame, sync' = [sync EXCEPT ![p] = g],
         UNCHANGED <<file, mem, server, ctag, holder, read_only, author, stored, retagged>>,
         g.todo \subseteq sync[p].todo, g.pc = "lock" \/ Syncs(p),
         g.before <= ctag, g.tag <= ctag, FrameOK(g),
         ~(sync[p].pc \in Pushing /\ sync[p].reply = "ok")
  PROVE  Rest'
<1>1. sync'[p] = g /\ \A q \in Proc : q # p => sync'[q] = sync[q]
  BY DEF IInv, StateTypeOK
<1>2. TodoPresent' /\ OneHolder' /\ SameVersions'
  BY <1>1 DEF IInv, Rest, TodoPresent, OneHolder, SameVersions, Syncs
<1>3. ItemsOK' /\ TagInStep' /\ TagsOfThePast'
  BY <1>1 DEF IInv, Rest, ItemsOK, TagInStep, InStep, TagsOfThePast
<1>4. VersionsKnown'
  BY <1>1 DEF IInv, Rest, VersionsKnown, Knows, Theirs, InFlight
<1>5. FramesOK'
  <2>1. ASSUME NEW f, FrameOK(f) PROVE FrameOK(f)'
    BY <2>1 DEF FrameOK, Requested, Heard, Read, Reads, Ending, Theirs, InStep
  <2> QED
    BY <1>1, <2>1 DEF IInv, Rest, FramesOK
<1> QED
  BY <1>2, <1>3, <1>4, <1>5 DEF Rest

LEMMA OthersIdle ==
  ASSUME IInv, NEW p \in Proc, Syncs(p), NEW q \in Proc, q # p
  PROVE  sync[q].pc \in {"idle", "lock"}
BY DEF IInv, Rest, OneHolder, Syncs

\* An edit of the mirror in the course of a sync.
LEMMA EditStep ==
  ASSUME IInv, StateTypeOK', NEW p \in Proc, Syncs(p),
         NEW mirror \in Mirror, NEW frame \in Frame, Edit(p, mirror, frame),
         UNCHANGED <<server, ctag, read_only, author, stored>>,
         \/ frame.pc \in {"push", "retag", "end"} /\ holder' = holder
         \/ frame.pc = "idle",
         frame.before <= ctag, frame.tag <= ctag, mirror.tag <= ctag,
         \A u \in Uid : ItemOK(mirror.items[u]),
         \A u \in Uid : Knows(u, mirror.items[u]) \/ Theirs(u),
         mirror.tag = ctag /\ ~retagged' => InStep(mirror.items),
         frame.pc = "end" /\ frame.ok =>
           IF frame.indexed THEN frame.pushed \/ (frame.before = ctag => InStep(mirror.items))
           ELSE frame.before = mirror.tag,
         frame.pc = "retag" => frame.pushed /\ frame.indexed,
         frame.pc = "push" => frame.reply = "none" /\ ~frame.indexed
  PROVE  Rest'
<1> DEFINE g == Loaded(frame, mirror.items)
<1>1. /\ file' = mirror /\ mem'[p] = mirror /\ sync'[p] = g
      /\ \A q \in Proc : q # p => mem'[q] = mem[q] /\ sync'[q] = sync[q]
  BY DEF Edit, IInv, StateTypeOK
<1>2. /\ g.todo = {u \in frame.todo : mirror.items[u] # Absent}
      /\ g.pc = frame.pc /\ g.before = frame.before /\ g.tag = frame.tag
      /\ g.ok = frame.ok /\ g.indexed = frame.indexed /\ g.pushed = frame.pushed
      /\ g.reply = frame.reply
  BY LoadedType
<1>3. \A q \in Proc : q # p => sync'[q].pc \in {"idle", "lock"}
  BY <1>1, OthersIdle
<1> HIDE DEF g
<1>4. TodoPresent'
  BY <1>1, <1>2 DEF IInv, Rest, TodoPresent
<1>5. OneHolder'
  BY <1>1, <1>2, <1>3 DEF IInv, Rest, OneHolder, Syncs
<1>6. ItemsOK'
  BY <1>1 DEF IInv, Rest, ItemsOK
<1>7. TagsOfThePast'
  BY <1>1, <1>2 DEF IInv, Rest, TagsOfThePast
<1>8. SameVersions'
  BY <1>1, <1>3 DEF SameVersions, SameItem, Syncs
<1>9. VersionsKnown'
  BY <1>1 DEF VersionsKnown, Knows, Theirs
<1>10. TagInStep'
  BY <1>1 DEF TagInStep, InStep
<1>11. FramesOK'
  <2>1. FrameOK(sync[p])'
    <3>1. Ending(sync[p])'
      BY <1>1, <1>2 DEF Ending, InStep, Pushing
    <3> QED
      BY <1>1, <1>2, <3>1 DEF FrameOK, Requested, Heard, Read, Pushing
  <2>2. ASSUME NEW q \in Proc, q # p PROVE FrameOK(sync[q])'
    BY <1>3, <2>2 DEF FrameOK, Requested, Heard, Read, Ending, Pushing
  <2> QED
    BY <2>1, <2>2 DEF FramesOK
<1> QED
  BY <1>4, <1>5, <1>6, <1>7, <1>8, <1>9, <1>10, <1>11 DEF Rest

\* A frame whose process loaded a table that has the items with an address.
LEMMA LoadedKeeps ==
  ASSUME NEW f \in Frame, NEW items, FrameOK(f),
         f.pc \in Pushing /\ f.pc # "create" => items[f.uid] # Absent
  PROVE  FrameOK(Loaded(f, items))
<1> DEFINE g == Loaded(f, items)
<1>0. /\ g.pc = f.pc /\ g.uid = f.uid /\ g.sent = f.sent /\ g.etag = f.etag
      /\ g.attached = (f.attached /\ items[f.uid] # Absent)
  BY LoadedType
<1> HIDE DEF g
<1>1. Requested(g)
  BY <1>0 DEF FrameOK, Requested, Frame
<1> USE DEF g
<1> QED
  BY <1>1, LoadedType DEF FrameOK, Heard, Read, Reads, Ending

\* A put or a remove: the entry keeps its address and its tag and is not clean.
LEMMA UserEditStep ==
  ASSUME IInv, StateTypeOK', NEW p \in Proc, NEW u \in Uid, NEW entry \in Entry,
         Edit(p, Changed(u, entry), sync[p]), ItemOK(entry),
         entry.href = file.items[u].href, entry.etag = file.items[u].etag,
         entry.state # "clean",
         UNCHANGED <<server, ctag, holder, read_only, author, stored, retagged>>
  PROVE  Rest'
<1> DEFINE mirror == Changed(u, entry)
           items == mirror.items
<1>1. /\ file \in Mirror /\ sync \in [Proc -> Frame] /\ mem \in [Proc -> Mirror]
      /\ file.items \in [Uid -> Entry]
  BY DEF IInv, StateTypeOK, Mirror, Entry
<1>2. mirror.tag = file.tag /\ items = [file.items EXCEPT ![u] = entry]
  BY <1>1, ChangedType
<1>3. /\ items[u] = entry
      /\ \A v \in Uid : v # u => items[v] = file.items[v]
      /\ \A v \in Uid : SameItem(file.items[v], items[v])
  BY <1>1, <1>2 DEF SameItem
<1>4. /\ file' = mirror /\ mem'[p] = mirror /\ sync'[p] = Loaded(sync[p], items)
      /\ \A q \in Proc : q # p => mem'[q] = mem[q] /\ sync'[q] = sync[q]
  BY <1>1 DEF Edit
<1>5. /\ sync'[p].todo = {v \in sync[p].todo : items[v] # Absent}
      /\ sync'[p].pc = sync[p].pc /\ sync'[p].before = sync[p].before
      /\ sync'[p].tag = sync[p].tag /\ sync'[p].uid = sync[p].uid
      /\ sync'[p].reply = sync[p].reply
  BY <1>1, <1>4, LoadedType
<1> HIDE DEF mirror, items
<1>6. TodoPresent' /\ OneHolder'
  BY <1>4, <1>5 DEF IInv, Rest, TodoPresent, OneHolder, Syncs, items
<1>7. ItemsOK'
  BY <1>3, <1>4 DEF IInv, Rest, ItemsOK, items
<1>8. TagsOfThePast'
  BY <1>2, <1>4, <1>5 DEF IInv, Rest, TagsOfThePast
<1>9. SameVersions'
  <2>1. file'.items = items /\ file'.tag = file.tag
    BY <1>2, <1>4 DEF items
  <2>2. ASSUME NEW q \in Proc, q # p, Syncs(q), NEW v \in Uid
        PROVE  SameItem(mem[q].items[v], items[v])
    BY <1>3, <2>2 DEF IInv, Rest, SameVersions, SameItem
  <2> QED
    BY <1>4, <2>1, <2>2 DEF IInv, Rest, SameVersions, SameItem, Syncs, items
<1>10. VersionsKnown'
  BY <1>3, <1>4, <1>5 DEF IInv, Rest, VersionsKnown, Knows, Theirs, InFlight, SameItem, items
<1>11. /\ file'.tag = file.tag /\ file'.items[u] = entry
       /\ \A v \in Uid : v # u => file'.items[v] = file.items[v]
       /\ \A v \in Uid : SameItem(file.items[v], file'.items[v])
  BY <1>2, <1>3, <1>4 DEF items
<1>12. InStep(file.items) => InStep(file.items)'
  BY <1>11 DEF InStep, SameItem
<1>13. TagInStep'
  BY <1>11, <1>12 DEF IInv, Rest, TagInStep
<1>14. ASSUME NEW f \in Frame, FrameOK(f) PROVE FrameOK(f)'
  <2>1. Requested(f)'
    BY <1>11, <1>14 DEF FrameOK, Requested, SameItem, Frame
  <2>2. Heard(f)'
    BY <1>11, <1>14 DEF FrameOK, Heard, Theirs
  <2>3. Read(f)'
    BY <1>11, <1>14 DEF FrameOK, Read, Reads, SameItem, Theirs
  <2>4. Ending(f)'
    BY <1>11, <1>12, <1>14 DEF FrameOK, Ending, Pushing
  <2> QED
    BY <2>1, <2>2, <2>3, <2>4 DEF FrameOK
<1>15. FramesOK'
  <2>1. FrameOK(sync[p])
    BY DEF IInv, Rest, FramesOK
  <2>2. sync[p] \in Frame /\ sync[p].uid \in Uid
    BY <1>1 DEF Frame
  <2>3. ASSUME sync[p].pc \in Pushing, sync[p].pc # "create"
        PROVE  items[sync[p].uid] # Absent
    <3>0. ~Absent.href
      BY DEF Absent
    <3>1. file.items[sync[p].uid].href
      BY <2>1, <2>3 DEF FrameOK, Requested
    <3>2. items[sync[p].uid].href = file.items[sync[p].uid].href
      BY <1>3, <2>2 DEF SameItem
    <3> QED
      BY <3>0, <3>1, <3>2
  <2>4. FrameOK(Loaded(sync[p], items)) /\ Loaded(sync[p], items) \in Frame
    BY <2>1, <2>2, <2>3, LoadedKeeps, LoadedType
  <2>5. FrameOK(sync[p])'
    BY <1>4, <1>14, <2>4
  <2> QED
    BY <1>1, <1>4, <1>14, <2>5 DEF IInv, Rest, FramesOK
<1> QED
  BY <1>6, <1>7, <1>8, <1>9, <1>10, <1>13, <1>15 DEF Rest

-----------------------------------------------------------------------------
(* The actions of users, timers and other devices.                         *)

LEMMA UserRest ==
  ASSUME IInv, StateTypeOK', NEW p \in Proc, UserStep(p) PROVE Rest'
<1>1. /\ file.items \in [Uid -> Entry] /\ \A u \in Uid : ItemOK(file.items[u])
      /\ fresh \in Nat
  BY BoundsAssumption DEF IInv, Rest, ItemsOK, StateTypeOK, Mirror, Entry, Data
<1>2. ASSUME NEW u \in Uid, Put(p, u) PROVE Rest'
  <2> DEFINE item == file.items[u]
             s == IF item = Absent THEN "new"
                  ELSE IF item.state \notin {"clean", "deleted"} THEN item.state
                  ELSE IF item.href THEN "modified" ELSE "new"
             entry == [item EXCEPT !.state = s, !.data = fresh']
  <2>1. /\ Edit(p, Changed(u, entry), sync[p]) /\ fresh' = fresh + 1 /\ fresh' # 0
        /\ UNCHANGED <<server, ctag, holder, read_only, author, stored, retagged>>
    BY <1>1, <1>2 DEF Put, history
  <2>2. s \in {"new", "modified"}
    BY <1>1 DEF Entry, Item, State
  <2>3. fresh' \in Data
    BY DEF StateTypeOK
  <2>4. /\ entry \in Item /\ entry.state = s /\ entry.data = fresh'
        /\ entry.href = item.href /\ entry.etag = item.etag
    <3>1. entry \in Item
      BY <1>1, <2>2, <2>3, EntryType DEF State
    <3>2. item \in Entry
      BY <1>1
    <3> HIDE DEF s
    <3> QED
      BY <3>1, <3>2 DEF Entry, Item, Absent
  <2>5. s = "modified" <=> item.href
    BY <1>1 DEF ItemOK, Entry, Item, State, Absent
  <2> HIDE DEF s
  <2>6. ItemOK(entry)
    BY <1>1, <2>1, <2>2, <2>4, <2>5 DEF ItemOK
  <2> HIDE DEF entry
  <2> QED
    BY <2>1, <2>2, <2>4, <2>6, UserEditStep DEF Entry
<1>3. ASSUME NEW u \in Uid, Remove(p, u) PROVE Rest'
  <2> DEFINE item == file.items[u]
             entry == IF item.href THEN [item EXCEPT !.state = "deleted"] ELSE Absent
  <2>1. /\ Edit(p, Changed(u, entry), sync[p])
        /\ UNCHANGED <<server, ctag, holder, read_only, author, stored, retagged>>
    BY <1>3 DEF Remove, history
  <2>2. item \in Entry /\ ItemOK(item)
    BY <1>1
  <2>3. CASE item.href
    <3>1. item \in Item
      BY <2>2, <2>3 DEF Entry, Absent
    <3>2. /\ entry \in Item /\ entry.state = "deleted" /\ entry.data = item.data
          /\ entry.href = item.href /\ entry.etag = item.etag
      BY <2>3, <3>1 DEF Item, State
    <3>3. ItemOK(entry)
      BY <2>2, <2>3, <3>1, <3>2 DEF ItemOK, Absent, Item, State
    <3> HIDE DEF entry
    <3> QED
      BY <2>1, <3>2, <3>3, UserEditStep DEF Entry
  <2>4. CASE ~item.href
    <3>1. entry = Absent /\ item.etag = 0 /\ item.href = FALSE
      BY <2>2, <2>4, BoundsAssumption DEF ItemOK, Entry, Item, Absent, Data
    <3>2. ItemOK(Absent) /\ Absent.href = FALSE /\ Absent.etag = 0 /\ Absent.state # "clean"
      BY DEF ItemOK, Absent
    <3> HIDE DEF entry
    <3> QED
      BY <2>1, <3>1, <3>2, UserEditStep DEF Entry
  <2> QED
    BY <2>3, <2>4
<1> QED
  BY <1>2, <1>3 DEF UserStep

LEMMA RefreshRest ==
  ASSUME IInv, StateTypeOK', NEW p \in Proc, Refresh(p) PROVE Rest'
<1> DEFINE g == Loaded(sync[p], file.items)
<1>1. /\ mem'[p] = file /\ sync'[p] = g
      /\ \A q \in Proc : q # p => mem'[q] = mem[q] /\ sync'[q] = sync[q]
      /\ UNCHANGED <<file, server, ctag, holder, read_only, author, stored, retagged>>
  BY DEF Refresh, history, IInv, StateTypeOK
<1>2. sync[p] \in Frame /\ FrameOK(sync[p]) /\ \A u \in Uid : ItemOK(file.items[u])
  BY DEF IInv, StateTypeOK, Rest, FramesOK, ItemsOK
<1>3. /\ g.todo = {v \in sync[p].todo : file.items[v] # Absent}
      /\ g.pc = sync[p].pc /\ g.before = sync[p].before /\ g.tag = sync[p].tag
      /\ g.uid = sync[p].uid /\ g.reply = sync[p].reply
  BY <1>2, LoadedType
<1>4. FrameOK(g)
  <2>1. sync[p].pc \in Pushing /\ sync[p].pc # "create" => file.items[sync[p].uid] # Absent
    BY <1>2 DEF FrameOK, Requested, Absent
  <2> QED
    BY <1>2, <2>1, LoadedKeeps
<1> HIDE DEF g
<1>5. TodoPresent' /\ OneHolder' /\ ItemsOK' /\ TagsOfThePast'
  BY <1>1, <1>2, <1>3 DEF IInv, Rest, TodoPresent, OneHolder, Syncs, ItemsOK, TagsOfThePast
<1>6. SameVersions'
  BY <1>1, <1>3 DEF IInv, Rest, SameVersions, SameItem, Syncs
<1>7. VersionsKnown' /\ TagInStep'
  BY <1>1, <1>3 DEF IInv, Rest, VersionsKnown, Knows, Theirs, InFlight, TagInStep, InStep
<1>8. FramesOK'
  <2>1. ASSUME NEW f, FrameOK(f) PROVE FrameOK(f)'
    BY <1>1, <2>1 DEF FrameOK, Requested, Heard, Read, Reads, Ending, Theirs, InStep
  <2> QED
    BY <1>1, <1>4, <2>1 DEF IInv, Rest, FramesOK
<1> QED
  BY <1>5, <1>6, <1>7, <1>8 DEF Rest

LEMMA BeginRest ==
  ASSUME IInv, StateTypeOK', NEW p \in Proc, Timer(p) \/ AutoSync(p) PROVE Rest'
<1>1. UNCHANGED <<file, mem, server, ctag, holder, read_only, author, stored, retagged>>
  BY DEF Timer, AutoSync, Begin, history
<1>2. CASE sync' = sync
  BY <1>1, <1>2 DEF IInv, Rest, TodoPresent, OneHolder, Syncs, ItemsOK, TagsOfThePast,
     SameVersions, VersionsKnown, Knows, Theirs, InFlight, TagInStep, InStep,
     FramesOK, FrameOK, Requested, Heard, Read, Reads, Ending
<1>3. CASE sync[p].pc = "idle" /\ sync' = [sync EXCEPT ![p].pc = "lock"]
  <2> DEFINE f == sync[p]
             g == [sync[p] EXCEPT !.pc = "lock"]
  <2>1. f \in Frame /\ f.before <= ctag /\ f.tag <= ctag
    BY DEF IInv, StateTypeOK, Rest, TagsOfThePast
  <2>2. /\ g \in Frame /\ g.todo = f.todo /\ g.pc = "lock" /\ g.before = f.before
        /\ g.tag = f.tag
    BY <2>1 DEF Frame
  <2>3. sync' = [sync EXCEPT ![p] = g]
    BY <1>3
  <2>5. f.pc \notin Pushing
    BY <1>3 DEF Pushing
  <2> HIDE DEF f, g
  <2>4. FrameOK(g)
    BY <2>2, NoSyncNoClaim
  <2> QED
    BY <1>1, <2>1, <2>2, <2>3, <2>4, <2>5, FrameStep DEF f
<1> QED
  BY <1>2, <1>3 DEF Timer, AutoSync, Begin

LEMMA AcquireRest ==
  ASSUME IInv, StateTypeOK', NEW p \in Proc, Acquire(p) PROVE Rest'
<1> DEFINE g == [Idle EXCEPT !.pc = "push", !.todo = {u \in Uid : file.items[u] # Absent}]
<1>1. /\ mem'[p] = file /\ sync'[p] = g /\ holder = NoProc /\ holder' = p
      /\ \A q \in Proc : q # p => mem'[q] = mem[q] /\ sync'[q] = sync[q]
      /\ UNCHANGED <<file, server, ctag, read_only, author, stored, retagged>>
  BY DEF Acquire, history, IInv, StateTypeOK
<1>2. /\ g.pc = "push" /\ g.before = 0 /\ g.tag = 0 /\ g.reply = "none" /\ ~g.indexed
      /\ g.todo = {u \in Uid : file.items[u] # Absent}
  BY DEF Idle, NoTag
<1>3. \A q \in Proc : sync[q].pc \in {"idle", "lock"}
  BY <1>1, NoProcAssumption DEF IInv, Rest, OneHolder, Syncs
<1>4. FrameOK(g)
  BY <1>2 DEF FrameOK, Requested, Heard, Read, Ending, Pushing
<1>5. \A u \in Uid : ItemOK(file.items[u])
  BY DEF IInv, Rest, ItemsOK
<1>6. ctag \in Nat
  BY DEF IInv, StateTypeOK, Tag
<1> HIDE DEF g
<1>7. TodoPresent' /\ OneHolder' /\ ItemsOK'
  BY <1>1, <1>2, <1>3, <1>5 DEF IInv, Rest, TodoPresent, OneHolder, Syncs, ItemsOK
<1>8. TagsOfThePast'
  BY <1>1, <1>2, <1>6 DEF IInv, Rest, TagsOfThePast
<1>9. SameVersions'
  BY <1>1, <1>3 DEF SameVersions, SameItem, Syncs
<1>10. VersionsKnown'
  BY <1>1, <1>2, <1>3 DEF IInv, Rest, VersionsKnown, Knows, Theirs, InFlight, Pushing
<1>11. TagInStep'
  BY <1>1 DEF IInv, Rest, TagInStep, InStep
<1>12. FramesOK'
  <2>1. ASSUME NEW f, FrameOK(f) PROVE FrameOK(f)'
    BY <1>1, <2>1 DEF FrameOK, Requested, Heard, Read, Reads, Ending, Theirs, InStep
  <2> QED
    BY <1>1, <1>4, <2>1 DEF IInv, Rest, FramesOK
<1> QED
  BY <1>7, <1>8, <1>9, <1>10, <1>11, <1>12 DEF Rest

LEMMA DeviceRest ==
  ASSUME IInv, StateTypeOK', NEW u \in Uid, DeviceEdit(u) \/ DeviceDelete(u) PROVE Rest'
<1>1. /\ ctag' = ctag + 1 /\ ctag \in Nat /\ file.tag \in Nat
      /\ author'[u] = "device" /\ \A v \in Uid : v # u => author'[v] = author[v]
      /\ \A v \in Uid : v # u => server'[v] = server[v]
      /\ UNCHANGED <<file, mem, sync, holder, read_only, stored, retagged>>
  BY DEF DeviceEdit, DeviceDelete, clients, IInv, StateTypeOK, Texts, Tag, Mirror
<1>2. \A p \in Proc : /\ sync[p] \in Frame /\ sync[p].uid \in Uid
                      /\ sync[p].before \in Nat /\ sync[p].tag \in Nat
  BY DEF IInv, StateTypeOK, Frame, Tag
<1>3. TodoPresent' /\ OneHolder' /\ ItemsOK' /\ SameVersions'
  BY <1>1 DEF IInv, Rest, TodoPresent, OneHolder, Syncs, ItemsOK, SameVersions
<1>4. TagsOfThePast' /\ TagInStep'
  BY <1>1, <1>2 DEF IInv, Rest, TagsOfThePast, TagInStep
<1>5. VersionsKnown'
  BY <1>1 DEF IInv, Rest, VersionsKnown, Knows, Theirs, InFlight
<1>6. FramesOK'
  <2>1. ASSUME NEW f \in Frame, FrameOK(f), f.before <= ctag, f.uid \in Uid, f.before \in Nat
        PROVE FrameOK(f)'
    <3>1. ctag' # f.before /\ ctag' # file.tag /\ (file.tag < ctag => file'.tag < ctag')
      BY <1>1, <2>1 DEF IInv, Rest, TagsOfThePast
    <3>2. \A v \in Uid : (Theirs(v) => Theirs(v)')
      BY <1>1 DEF Theirs
    <3>3. Requested(f)'
      BY <1>1, <2>1 DEF FrameOK, Requested
    <3>4. Heard(f)'
      BY <1>1, <2>1, <3>1, <3>2 DEF FrameOK, Heard, IInv, Rest, TagsOfThePast
    <3>5. Read(f)'
      BY <1>1, <2>1, <3>1, <3>2 DEF FrameOK, Read, Reads
    <3>6. Ending(f)'
      BY <1>1, <2>1, <3>1 DEF FrameOK, Ending, Pushing
    <3> QED
      BY <3>3, <3>4, <3>5, <3>6 DEF FrameOK
  <2> QED
    BY <1>1, <1>2, <2>1 DEF IInv, Rest, FramesOK, TagsOfThePast
<1> QED
  BY <1>3, <1>4, <1>5, <1>6 DEF Rest

-----------------------------------------------------------------------------
(* The actions of a sync.                                                  *)

LEMMA PushItemRest ==
  ASSUME IInv, StateTypeOK', NEW p \in Proc, NEW u \in Uid, PushItem(p, u) PROVE Rest'
<1> DEFINE f == sync[p]
           item == mem[p].items[u]
           rest == [sync[p] EXCEPT !.todo = @ \ {u}]
           now == file.items[u]
           reverted == IF now = Absent \/ now.state = "clean" THEN now
                       ELSE IF now.href THEN [now EXCEPT !.state = "clean", !.etag = 0]
                       ELSE Absent
           request == CASE item.state = "new" -> "create"
                        [] item.state = "modified" -> "update"
                        [] item.state = "deleted" -> "remove"
           sending == [rest EXCEPT !.pc = request, !.uid = u, !.attached = TRUE,
                                   !.sent = item.data, !.etag = item.etag]
<1>1. /\ f \in Frame /\ f.pc = "push" /\ Syncs(p) /\ u \in f.todo /\ FrameOK(f)
      /\ f.before <= ctag /\ f.tag <= ctag
  BY DEF PushItem, IInv, StateTypeOK, Rest, FramesOK, Syncs, TagsOfThePast
<1>2. /\ f.reply = "none" /\ ~f.indexed
  BY <1>1 DEF FrameOK, Heard, Ending
<1>3. /\ rest \in Frame /\ rest.todo = f.todo \ {u} /\ rest.pc = "push"
      /\ rest.reply = "none" /\ ~rest.indexed /\ rest.before = f.before /\ rest.tag = f.tag
      /\ rest.ok = f.ok
  BY <1>1, <1>2 DEF Frame
<1>4. /\ file \in Mirror /\ file.items \in [Uid -> Entry] /\ mem[p].items \in [Uid -> Entry]
      /\ item \in Item /\ item.data # 0 /\ ItemOK(item)
      /\ item.href = now.href /\ item.etag = now.etag /\ ItemOK(now) /\ now \in Entry
  BY <1>1 DEF IInv, StateTypeOK, Mirror, Entry, Rest, TodoPresent, ItemsOK, ItemOK, SameVersions,
     SameItem
<1>5. FrameOK(rest)
  BY <1>3 DEF FrameOK, Requested, Heard, Read, Ending, Pushing
<1>6. CASE item.state = "clean" /\ sync' = [sync EXCEPT ![p] = rest] /\ UNCHANGED <<file, mem>>
  <2>1. UNCHANGED <<file, mem, server, ctag, holder, read_only, author, stored, retagged>>
    BY <1>6 DEF PushItem, history
  <2> HIDE DEF rest
  <2> QED
    BY <1>1, <1>2, <1>3, <1>5, <1>6, <2>1, FrameStep
<1>7. CASE read_only /\ Edit(p, Changed(u, reverted), rest)
  <2>1. reverted \in Entry /\ ItemOK(reverted)
    <3>1. CASE now = Absent \/ now.state = "clean" \/ ~now.href
      BY <1>4, <3>1 DEF Entry, ItemOK, Absent
    <3>2. CASE now # Absent /\ now.href /\ now.state # "clean"
      <4>1. reverted = [now EXCEPT !.state = "clean", !.etag = 0] /\ 0 \in Data
        BY <3>2, BoundsAssumption DEF Data
      <4>2. /\ reverted \in Item /\ reverted.state = "clean" /\ reverted.etag = 0
            /\ reverted.data = now.data /\ now.data # 0
        BY <1>4, <3>2, <4>1 DEF Entry, Item, State, ItemOK
      <4> QED
        BY <4>2 DEF Entry, ItemOK
    <3> QED
      BY <3>1, <3>2
  <2>2. /\ reverted.href = now.href /\ now.href \in BOOLEAN
        /\ reverted.state = "clean" => reverted = now \/ reverted.etag = 0
    BY <1>4 DEF Entry, Item, Absent
  <2> DEFINE mirror == Changed(u, reverted)
  <2>3. /\ mirror \in Mirror /\ mirror.tag = file.tag
        /\ mirror.items = [file.items EXCEPT ![u] = reverted]
    BY <1>4, <2>1, ChangedType
  <2>4. \A v \in Uid : v # u => mirror.items[v] = file.items[v]
    BY <1>4, <2>3
  <2>5. mirror.items[u] = reverted
    BY <1>4, <2>3
  <2>6. \A v \in Uid : ItemOK(mirror.items[v])
    BY <2>1, <2>4, <2>5 DEF IInv, Rest, ItemsOK
  <2>7. mirror.tag = ctag /\ ~retagged' => InStep(mirror.items)
    <3>1. retagged' = retagged
      BY DEF PushItem, history
    <3> HIDE DEF mirror, reverted
    <3> QED
      BY <2>2, <2>3, <2>4, <2>5, <3>1 DEF IInv, Rest, TagInStep, InStep
  <2>8. \A v \in Uid : Theirs(v)
    BY <1>7 DEF Theirs
  <2>9. UNCHANGED <<server, ctag, holder, read_only, author, stored>> /\ file.tag <= ctag
    BY DEF PushItem, history, IInv, Rest, TagsOfThePast
  <2> HIDE DEF rest, mirror
  <2> QED
    BY <1>1, <1>3, <1>7, <2>3, <2>6, <2>7, <2>8, <2>9, EditStep DEF mirror
<1>8. CASE /\ item.state # "clean" /\ ~read_only
           /\ sync' = [sync EXCEPT ![p] = sending] /\ UNCHANGED <<file, mem>>
  <2>1. /\ request \in Pushing /\ request # "recreate"
        /\ item.href <=> request # "create"
    BY <1>4, <1>8 DEF Item, State, Pushing, ItemOK
  <2> HIDE DEF request
  <2>2. /\ sending \in Frame /\ sending.pc = request /\ sending.uid = u /\ sending.attached
        /\ sending.sent = item.data /\ sending.etag = item.etag /\ sending.reply = "none"
        /\ sending.todo = f.todo \ {u} /\ sending.before = f.before /\ sending.tag = f.tag
        /\ ~sending.indexed
    <3>1. sending \in Frame
      BY <1>3, <1>4, <2>1 DEF Frame, Item, Pushing, Awaiting
    <3>2. /\ sending.pc = request /\ sending.uid = u /\ sending.attached
          /\ sending.sent = item.data /\ sending.etag = item.etag
      BY <1>3 DEF Frame
    <3>3. /\ sending.reply = "none" /\ sending.todo = f.todo \ {u}
          /\ sending.before = f.before /\ sending.tag = f.tag /\ ~sending.indexed
      BY <1>3 DEF Frame
    <3> QED
      BY <3>1, <3>2, <3>3
  <2> HIDE DEF sending
  <2>3. FrameOK(sending)
    BY <1>4, <1>8, <2>1, <2>2 DEF FrameOK, Requested, Heard, Read, Ending, Pushing
  <2>4. UNCHANGED <<file, mem, server, ctag, holder, read_only, author, stored, retagged>>
    BY <1>8 DEF PushItem, history
  <2> QED
    BY <1>1, <1>2, <1>8, <2>2, <2>3, <2>4, FrameStep
<1> QED
  BY <1>6, <1>7, <1>8 DEF PushItem

\* The steps of a sync that only read an answer or ask for the next one.
LEMMA AskRest ==
  ASSUME IInv, StateTypeOK', NEW p \in Proc,
         PushDone(p) \/ UpdateNotFound(p) \/ TagAnswer(p) \/ RetagAnswer(p) \/ Failed(p)
  PROVE  Rest'
<1> DEFINE f == sync[p]
<1>1. /\ f \in Frame /\ Syncs(p) /\ FrameOK(f) /\ f.before <= ctag /\ f.tag <= ctag
      /\ ctag \in Nat /\ f.tag \in Nat /\ f.before \in Nat
  BY DEF PushDone, UpdateNotFound, TagAnswer, RetagAnswer, Failed, IInv, StateTypeOK, Rest, FramesOK,
     Syncs, TagsOfThePast, Awaiting, Frame, Tag
<1>2. UNCHANGED <<file, mem, server, ctag, holder, read_only, author, stored, retagged>>
  BY DEF PushDone, UpdateNotFound, TagAnswer, RetagAnswer, Failed, history
<1>3. ASSUME NEW g \in Frame, sync' = [sync EXCEPT ![p] = g], FrameOK(g),
             g.todo = f.todo \/ g.todo = {}, g.tag = 0,
             g.before = f.before \/ g.before = f.tag \/ g.before = 0,
             f.pc \notin Pushing \/ f.reply # "ok"
      PROVE  Rest'
  <2>1. g.todo \subseteq f.todo /\ g.before <= ctag /\ g.tag <= ctag
    BY <1>1, <1>3
  <2> QED
    BY <1>1, <1>2, <1>3, <2>1, FrameStep
<1>4. ASSUME NEW pc \in {"tag", "recreate", "index"}
      PROVE  /\ Await(p, pc) \in Frame /\ Await(p, pc).pc = pc /\ Await(p, pc).reply = "none"
             /\ Await(p, pc).todo = f.todo /\ Await(p, pc).tag = 0
             /\ Await(p, pc).before = f.before /\ Await(p, pc).indexed = f.indexed
             /\ Await(p, pc).uid = f.uid /\ Await(p, pc).sent = f.sent
             /\ Await(p, pc).etag = f.etag /\ Await(p, pc).attached = f.attached
  <2>1. Await(p, pc) \in Frame
    BY FrameTypes DEF Awaiting, IInv
  <2> QED
    BY <1>1, <2>1 DEF Await, Frame, NoTag
<1>5. ASSUME NEW ok \in BOOLEAN
      PROVE  /\ Leave(p, ok) \in Frame /\ Leave(p, ok).pc = "end" /\ Leave(p, ok).todo = {}
             /\ Leave(p, ok).before = f.before /\ Leave(p, ok).tag = 0
             /\ Leave(p, ok).pushed = f.pushed /\ Leave(p, ok).indexed = f.indexed
             /\ Leave(p, ok).ok = ok
  <2>1. Leave(p, ok) \in Frame
    BY FrameTypes DEF IInv
  <2>2. /\ Leave(p, ok).pc = "end" /\ Leave(p, ok).todo = {} /\ Leave(p, ok).before = f.before
        /\ Leave(p, ok).tag = 0
    BY DEF Leave, Idle, NoTag
  <2>3. /\ Leave(p, ok).pushed = f.pushed /\ Leave(p, ok).indexed = f.indexed
        /\ Leave(p, ok).ok = ok
    BY DEF Leave, Idle
  <2> QED
    BY <2>1, <2>2, <2>3
<1>6. CASE PushDone(p)
  <2> DEFINE g == Await(p, "tag")
  <2>1. g \in Frame /\ g.pc = "tag" /\ g.todo = f.todo /\ g.before = f.before /\ g.tag = 0
        /\ g.indexed = f.indexed /\ sync' = [sync EXCEPT ![p] = g]
    BY <1>4, <1>6 DEF Awaiting, PushDone
  <2>2. f.pc = "push" /\ ~f.indexed
    BY <1>1, <1>6 DEF PushDone, FrameOK, Ending
  <2> HIDE DEF g
  <2>3. FrameOK(g)
    BY <2>1, <2>2 DEF FrameOK, Requested, Heard, Read, Ending, Pushing
  <2> QED
    BY <1>3, <2>1, <2>2, <2>3 DEF Pushing
<1>7. CASE UpdateNotFound(p)
  <2> DEFINE g == Await(p, "recreate")
  <2>1. /\ g \in Frame /\ g.pc = "recreate" /\ g.todo = f.todo /\ g.before = f.before
        /\ g.tag = 0 /\ g.indexed = f.indexed /\ sync' = [sync EXCEPT ![p] = g]
        /\ g.uid = f.uid /\ g.sent = f.sent /\ g.etag = f.etag /\ g.attached = f.attached
        /\ g.reply = "none"
    BY <1>4, <1>7 DEF Awaiting, UpdateNotFound
  <2>2. f.pc = "update" /\ f.reply = "not_found"
    BY <1>7 DEF UpdateNotFound
  <2> HIDE DEF g
  <2>3. FrameOK(g)
    BY <1>1, <2>1, <2>2 DEF FrameOK, Requested, Heard, Read, Ending, Pushing
  <2> QED
    BY <1>3, <2>1, <2>2, <2>3
<1>8. CASE TagAnswer(p)
  <2>1. f.pc = "tag" /\ ~f.indexed
    BY <1>1, <1>8 DEF TagAnswer, FrameOK, Ending
  <2>2. CASE Downloads(p, f.tag)
    <3> DEFINE g == [Await(p, "index") EXCEPT !.before = f.tag]
    <3>1. /\ g \in Frame /\ g.pc = "index" /\ g.todo = f.todo /\ g.before = f.tag
          /\ g.tag = 0 /\ ~g.indexed /\ g.reply = "none" /\ sync' = [sync EXCEPT ![p] = g]
      BY <1>1, <1>4, <1>8, <2>1, <2>2 DEF Awaiting, TagAnswer, Frame
    <3> HIDE DEF g
    <3>2. FrameOK(g)
      BY <3>1 DEF FrameOK, Requested, Heard, Read, Ending, Pushing
    <3> QED
      BY <1>3, <2>1, <3>1, <3>2 DEF Pushing
  <2>3. CASE ~Downloads(p, f.tag)
    <3> DEFINE g == [Leave(p, TRUE) EXCEPT !.before = f.tag]
    <3>1. /\ g \in Frame /\ g.pc = "end" /\ g.todo = {} /\ g.before = f.tag
          /\ g.tag = 0 /\ ~g.indexed /\ sync' = [sync EXCEPT ![p] = g]
      BY <1>1, <1>5, <1>8, <2>1, <2>3 DEF TagAnswer, Frame
    <3>2. f.tag = file.tag
      BY <1>1, <2>3 DEF Downloads, IInv, Rest, SameVersions
    <3> HIDE DEF g
    <3>3. FrameOK(g)
      BY <3>1, <3>2 DEF FrameOK, Requested, Heard, Read, Ending, Pushing
    <3> QED
      BY <1>3, <2>1, <3>1, <3>3 DEF Pushing
  <2> QED
    BY <2>2, <2>3
<1>9. CASE RetagAnswer(p)
  <2> DEFINE b == IF f.reply = "ok" THEN f.tag ELSE NoTag
             g == [Leave(p, TRUE) EXCEPT !.before = b]
  <2>1. f.pc = "retag" /\ f.pushed /\ f.indexed
    BY <1>1, <1>9 DEF RetagAnswer, FrameOK, Ending
  <2>2. b \in Nat /\ b <= ctag
    BY <1>1 DEF NoTag
  <2>3. /\ g \in Frame /\ g.pc = "end" /\ g.todo = {} /\ g.before = b
        /\ g.tag = 0 /\ g.indexed /\ g.pushed /\ sync' = [sync EXCEPT ![p] = g]
    <3>1. Leave(p, TRUE) \in Frame
      BY <1>5
    <3>2. b \in Tag /\ sync' = [sync EXCEPT ![p] = g]
      BY <1>9, <2>2 DEF RetagAnswer, Tag
    <3> HIDE DEF b
    <3>3. g \in Frame /\ g.before = b
      BY <3>1, <3>2 DEF Frame
    <3>4. /\ g.pc = Leave(p, TRUE).pc /\ g.todo = Leave(p, TRUE).todo /\ g.tag = Leave(p, TRUE).tag
          /\ g.indexed = Leave(p, TRUE).indexed /\ g.pushed = Leave(p, TRUE).pushed
      BY <3>1 DEF Frame
    <3> HIDE DEF g
    <3> QED
      BY <1>5, <2>1, <3>2, <3>3, <3>4
  <2> HIDE DEF g
  <2>4. FrameOK(g)
    BY <2>3 DEF FrameOK, Requested, Heard, Read, Ending, Pushing
  <2> QED
    BY <1>3, <2>1, <2>2, <2>3, <2>4 DEF Pushing, NoTag
<1>10. CASE Failed(p)
  <2> DEFINE g == Leave(p, FALSE)
  <2>1. /\ g \in Frame /\ g.pc = "end" /\ g.todo = {} /\ g.before = f.before
        /\ g.tag = 0 /\ g.ok = FALSE /\ sync' = [sync EXCEPT ![p] = g] /\ f.reply = "network"
    BY <1>5, <1>10 DEF Failed
  <2> HIDE DEF g
  <2>2. FrameOK(g)
    BY <2>1 DEF FrameOK, Requested, Heard, Read, Ending, Pushing
  <2> QED
    BY <1>3, <2>1, <2>2
<1> QED
  BY <1>6, <1>7, <1>8, <1>9, <1>10

\* What push() makes of an item, by the answer.
LEMMA AnswerShape ==
  ASSUME IInv, NEW p \in Proc, sync[p].pc \in Pushing, sync[p].reply \in {"ok", "conflict"},
         NEW f, f = Loaded(sync[p], file.items),
         NEW item, item = file.items[f.uid],
         NEW entry, entry = Answered(item, f)
  PROVE  /\ f.uid \in Uid /\ f.uid = sync[p].uid /\ item \in Entry /\ entry \in Entry
         /\ ItemOK(item) /\ ItemOK(entry)
         /\ f.reply = "conflict" =>
              entry = item \/ (entry.state = "clean" /\ entry.etag = 0 /\ entry.href = item.href)
         /\ f.reply = "ok" /\ f.pc # "remove" =>
              /\ entry.href /\ entry.etag = f.sent
              /\ item.state \in {"new", "modified"} =>
                   /\ entry.data = item.data
                   /\ entry.state = "modified" \/ (entry.state = "clean" /\ item.data = f.sent)
              /\ entry.state \in {"clean", "modified", "deleted"}
         /\ f.reply = "ok" /\ f.pc = "remove" =>
              /\ ~entry.href /\ entry.state # "clean"
              /\ item.state \in {"new", "modified"} =>
                   entry.state = "new" /\ entry.data = item.data
<1>1. /\ sync[p] \in Frame /\ FrameOK(sync[p]) /\ file.items \in [Uid -> Entry]
      /\ \A u \in Uid : ItemOK(file.items[u])
  BY DEF IInv, StateTypeOK, Mirror, Entry, Rest, FramesOK, ItemsOK
<1>2. /\ f \in Frame /\ f.uid = sync[p].uid /\ f.pc = sync[p].pc /\ f.reply = sync[p].reply
      /\ f.sent = sync[p].sent /\ f.uid \in Uid
      /\ f.attached = (sync[p].attached /\ item # Absent)
  <2>1. f \in Frame /\ f.uid = sync[p].uid
    BY <1>1, LoadedType
  <2>2. f.uid \in Uid
    BY <2>1 DEF Frame
  <2> QED
    BY <1>1, <2>1, <2>2, LoadedType
<1>3. /\ item \in Entry /\ ItemOK(item) /\ f.sent # 0 /\ f.sent \in Data
      /\ item.href <=> f.pc # "create"
      /\ f.pc # "create" => sync[p].attached
      /\ f.pc \in Pushing /\ f.reply \in {"ok", "conflict"}
  BY <1>1, <1>2 DEF FrameOK, Requested, Frame
<1>4. f.attached => item \in Item
  BY <1>2, <1>3 DEF Entry
<1>5. f.pc # "create" => f.attached /\ item \in Item
  BY <1>1, <1>2, <1>3 DEF Absent, Frame, Entry
<1>6. entry \in Entry
  BY <1>2, <1>3, <1>4, AnsweredType DEF Pushing
<1>7. CASE f.reply = "conflict"
  <2>1. CASE ~f.attached
    BY <1>2, <1>3, <1>6, <1>7, <2>1 DEF Answered
  <2>2. CASE f.attached
    <3>1. entry = [item EXCEPT !.state = "clean", !.etag = 0]
      BY <1>7, <2>2 DEF Answered
    <3>2. /\ entry.state = "clean" /\ entry.etag = 0 /\ entry.href = item.href
          /\ entry.data = item.data /\ item # Absent
      BY <1>2, <1>4, <2>2, <3>1 DEF Item
    <3> QED
      BY <1>2, <1>3, <1>6, <1>7, <3>2 DEF ItemOK
  <2> QED
    BY <2>1, <2>2
<1>8. CASE f.reply = "ok" /\ f.pc # "remove"
  <2> DEFINE uploaded == [item EXCEPT !.href = TRUE, !.etag = f.sent]
  <2>1. /\ uploaded \in [href : BOOLEAN, etag : Data, data : Data, state : State \cup {"absent"}]
        /\ uploaded.href /\ uploaded.etag = f.sent /\ uploaded.data = item.data
    <3>1. item \in [href : BOOLEAN, etag : Data, data : Data, state : State \cup {"absent"}]
      <4>1. 0 \in Data
        BY BoundsAssumption DEF Data
      <4>2. CASE item \in Item
        BY <4>2 DEF Item
      <4>3. CASE item = Absent
        BY <4>1, <4>3 DEF Absent
      <4> QED
        BY <1>3, <4>2, <4>3 DEF Entry
    <3> QED
      BY <1>3, <3>1
  <2>2. \/ f.attached /\ entry = Settled(uploaded, f.sent)
        \/ /\ ~f.attached /\ item = Absent
           /\ entry = [uploaded EXCEPT !.data = f.sent, !.state = "deleted"]
        \/ ~f.attached /\ item # Absent /\ entry = [uploaded EXCEPT !.state = "modified"]
    BY <1>3, <1>5, <1>8 DEF Answered, Created, Pushing
  <2> HIDE DEF uploaded
  <2>3. CASE f.attached /\ entry = Settled(uploaded, f.sent)
    <3>1. \/ entry = [uploaded EXCEPT !.state = "clean"] /\ item.data = f.sent
          \/ entry = [uploaded EXCEPT !.state = "modified"]
      BY <2>1, <2>3 DEF Settled
    <3>2. item.data # 0
      BY <1>2, <1>3, <2>3 DEF ItemOK
    <3>3. /\ entry.href /\ entry.etag = f.sent /\ entry.data = item.data
          /\ entry.state = "modified" \/ (entry.state = "clean" /\ item.data = f.sent)
      BY <2>1, <3>1
    <3> QED
      BY <1>2, <1>3, <1>6, <1>8, <3>2, <3>3 DEF ItemOK
  <2>4. CASE item = Absent /\ entry = [uploaded EXCEPT !.data = f.sent, !.state = "deleted"]
    <3>1. entry.href /\ entry.etag = f.sent /\ entry.data = f.sent /\ entry.state = "deleted"
      BY <2>1, <2>4
    <3>2. item.state \notin {"new", "modified"}
      BY <2>4 DEF Absent
    <3> QED
      BY <1>2, <1>3, <1>6, <1>8, <3>1, <3>2 DEF ItemOK
  <2>5. CASE item # Absent /\ entry = [uploaded EXCEPT !.state = "modified"]
    <3>1. item.data # 0
      BY <1>3, <2>5 DEF ItemOK
    <3>2. entry.href /\ entry.etag = f.sent /\ entry.data = item.data /\ entry.state = "modified"
      BY <2>1, <2>5
    <3> QED
      BY <1>2, <1>3, <1>6, <1>8, <3>1, <3>2 DEF ItemOK
  <2> QED
    BY <2>2, <2>3, <2>4, <2>5
<1>9. CASE f.reply = "ok" /\ f.pc = "remove"
  <2>1. f.attached /\ item \in Item /\ item.data # 0
    BY <1>2, <1>3, <1>5, <1>9 DEF ItemOK
  <2>2. CASE item.state = "deleted"
    <3>1. entry = Absent
      BY <1>9, <2>1, <2>2 DEF Answered
    <3>2. /\ ItemOK(Absent) /\ ~Absent.href /\ Absent.state # "clean"
          /\ item.state \notin {"new", "modified"}
      BY <2>2 DEF ItemOK, Absent
    <3> QED
      BY <1>2, <1>3, <1>6, <1>9, <3>1, <3>2
  <2>3. CASE item.state # "deleted"
    <3>1. entry = [item EXCEPT !.href = FALSE, !.etag = 0, !.state = "new"]
      BY <1>9, <2>1, <2>3 DEF Answered
    <3>2. entry.href = FALSE /\ entry.etag = 0 /\ entry.state = "new" /\ entry.data = item.data
      BY <2>1, <3>1 DEF Item
    <3> QED
      BY <1>2, <1>3, <1>6, <1>9, <2>1, <3>2 DEF ItemOK
  <2> QED
    BY <2>2, <2>3
<1> QED
  BY <1>3, <1>7, <1>8, <1>9

LEMMA PushAnswerRest ==
  ASSUME IInv, StateTypeOK', NEW p \in Proc, PushAnswer(p) PROVE Rest'
<1> DEFINE f == Loaded(sync[p], file.items)
           item == file.items[f.uid]
           entry == Answered(item, f)
           mirror == Changed(f.uid, entry)
           u == f.uid
<1>1. /\ sync[p].pc \in Pushing /\ sync[p].reply \in {"ok", "conflict"} /\ Syncs(p)
      /\ Edit(p, mirror, NextItem(p))
      /\ UNCHANGED <<server, ctag, holder, read_only, author, stored, retagged>>
  BY DEF PushAnswer, Pushing, Syncs, history
<1>2. /\ sync[p] \in Frame /\ FrameOK(sync[p]) /\ file \in Mirror /\ file.items \in [Uid -> Entry]
      /\ file.tag <= ctag /\ sync[p].before <= ctag /\ sync[p].tag <= ctag
      /\ file.tag \in Nat /\ ctag \in Nat
  BY DEF IInv, StateTypeOK, Mirror, Entry, Rest, FramesOK, TagsOfThePast, Tag
<1>3. /\ f.pc = sync[p].pc /\ f.reply = sync[p].reply /\ f.sent = sync[p].sent
      /\ f.uid = sync[p].uid
  BY <1>2, LoadedType
<1>4. /\ u \in Uid /\ item \in Entry /\ entry \in Entry /\ ItemOK(item) /\ ItemOK(entry)
      /\ f.reply = "conflict" =>
              entry = item \/ (entry.state = "clean" /\ entry.etag = 0 /\ entry.href = item.href)
      /\ f.reply = "ok" /\ f.pc # "remove" => entry.href /\ entry.etag = f.sent
      /\ f.reply = "ok" /\ f.pc = "remove" => ~entry.href /\ entry.state # "clean"
  BY <1>1, AnswerShape
<1>5. /\ f.reply = "ok" /\ f.pc # "remove" =>
           f.sent # 0 /\ file.tag < ctag /\ (server[u] = f.sent \/ author[u] = "device")
      /\ f.reply = "ok" /\ f.pc = "remove" =>
           server[u] = 0 \/ (author[u] = "device" /\ file.tag < ctag)
      /\ f.reply = "conflict" => Theirs(u)
  BY <1>1, <1>2, <1>3 DEF FrameOK, Requested, Heard, Pushing
<1> HIDE DEF f, item, entry
<1>6. /\ mirror \in Mirror /\ mirror.tag = file.tag
      /\ mirror.items = [file.items EXCEPT ![u] = entry]
  BY <1>2, <1>4, ChangedType
<1>7. mirror.items[u] = entry /\ \A v \in Uid : v # u => mirror.items[v] = file.items[v]
  BY <1>2, <1>4, <1>6
<1>8. \A v \in Uid : ItemOK(mirror.items[v])
  BY <1>4, <1>7 DEF IInv, Rest, ItemsOK
<1>9. Knows(u, entry) \/ Theirs(u)
  BY <1>1, <1>3, <1>4, <1>5 DEF Knows, Theirs
<1>10. \A v \in Uid : Knows(v, mirror.items[v]) \/ Theirs(v)
  <2>1. ASSUME NEW v \in Uid, v # u PROVE ~InFlight(v)
    BY <1>1, <1>3, <2>1, OthersIdle DEF InFlight, Pushing
  <2> QED
    BY <1>7, <1>9, <2>1 DEF IInv, Rest, VersionsKnown
<1>11. mirror.tag = ctag /\ ~retagged' => InStep(mirror.items)
  <2> SUFFICES ASSUME file.tag = ctag, ~retagged PROVE InStep(mirror.items)
    BY <1>1, <1>6
  <2>1. InStep(file.items)
    BY DEF IInv, Rest, TagInStep
  <2>2. /\ entry.state = "clean" /\ entry.etag # 0 => entry.data = server[u]
        /\ server[u] # 0 => entry.href
    <3>1. CASE f.reply = "conflict"
      BY <1>4, <2>1, <3>1 DEF InStep, item
    <3>2. CASE f.reply = "ok"
      BY <1>2, <1>4, <1>5, <3>2
    <3> QED
      BY <1>1, <1>3, <3>1, <3>2
  <2> HIDE DEF mirror
  <2> QED
    BY <1>7, <2>1, <2>2 DEF InStep
<1>12. /\ NextItem(p) \in Frame /\ NextItem(p).pc = "push" /\ NextItem(p).reply = "none"
       /\ NextItem(p).before = sync[p].before /\ NextItem(p).tag = sync[p].tag
       /\ ~NextItem(p).indexed
  <2>1. NextItem(p) \in Frame /\ ~sync[p].indexed
    BY <1>1, <1>2, FrameTypes DEF IInv, FrameOK, Ending
  <2> QED
    BY <1>2, <2>1 DEF NextItem, Frame
<1> HIDE DEF mirror
<1> QED
  BY <1>1, <1>2, <1>6, <1>8, <1>10, <1>11, <1>12, EditStep

\* What the download makes of one item.
LEMMA DownloadedItem ==
  ASSUME NEW items \in [Uid -> Entry], NEW index, NEW texts, NEW u \in Uid
  PROVE  LET now == Downloaded(items, index, texts)[u] IN
         \/ /\ items[u].state = "clean" /\ items[u].href /\ index[u] = 0
            /\ texts[u] = 0 /\ now = Absent
         \/ /\ ~(items[u].state = "clean" /\ items[u].href /\ index[u] = 0)
            /\ texts[u] = 0 \/ (items[u].href /\ items[u].state # "clean")
            /\ now = items[u]
         \/ /\ now.href /\ now.etag = texts[u] /\ now.data = texts[u]
            /\ now.state = "clean" /\ texts[u] # 0
<1> DEFINE known == [v \in Uid |->
             IF items[v].state = "clean" /\ items[v].href /\ index[v] = 0 THEN Absent
             ELSE items[v]]
           fetched == [href |-> TRUE, etag |-> texts[u], data |-> texts[u], state |-> "clean"]
<1>1. /\ known[u] = IF items[u].state = "clean" /\ items[u].href /\ index[u] = 0 THEN Absent
                    ELSE items[u]
      /\ ~Absent.href
  BY DEF Absent
<1>2. Downloaded(items, index, texts)[u] =
        IF texts[u] = 0 \/ (known[u].href /\ known[u].state # "clean") THEN known[u] ELSE fetched
  BY DEF Downloaded
<1>3. fetched.href /\ fetched.etag = texts[u] /\ fetched.data = texts[u] /\ fetched.state = "clean"
  OBVIOUS
<1> HIDE DEF known, fetched
<1> QED
  BY <1>1, <1>2, <1>3

LEMMA PulledFrame ==
  ASSUME StateTypeOK, NEW p \in Proc
  PROVE  /\ Pulled(p) \in Frame /\ Pulled(p).pc \in {"retag", "end"} /\ Pulled(p).indexed
         /\ Pulled(p).tag = 0 /\ Pulled(p).before \in {0, sync[p].before}
         /\ Pulled(p).pc = "retag" => Pulled(p).pushed
         /\ Pulled(p).pc = "end" => Pulled(p).before = sync[p].before
<1>1. /\ Pulled(p) \in Frame /\ Leave(p, TRUE) \in Frame
  BY FrameTypes
<1>2. /\ Leave(p, TRUE).pc = "end" /\ Leave(p, TRUE).tag = 0
      /\ Leave(p, TRUE).before = sync[p].before
  BY DEF Leave, Idle, NoTag
<1>3. CASE sync[p].pushed /\ sync[p].before # NoTag
  BY <1>1, <1>3 DEF Pulled, Idle, NoTag
<1>4. CASE ~(sync[p].pushed /\ sync[p].before # NoTag)
  <2>1. Pulled(p) = [Leave(p, TRUE) EXCEPT !.indexed = TRUE]
    BY <1>4 DEF Pulled
  <2> QED
    BY <1>1, <1>2, <2>1 DEF Frame
<1> QED
  BY <1>3, <1>4

\* The end of a download, given what it read.
LEMMA DownloadRest ==
  ASSUME IInv, StateTypeOK', NEW p \in Proc, sync[p].pc \in {"index", "fetch"},
         NEW index \in Texts, NEW texts \in Texts, NEW wanted,
         Edit(p, [file EXCEPT !.items = Downloaded(@, index, texts)], Pulled(p)),
         UNCHANGED <<server, ctag, holder, read_only, author, stored, retagged>>,
         \A u \in Uid : Reads(sync[p], u, index[u]),
         \A u \in Uid : u \in wanted => Reads(sync[p], u, texts[u]),
         \A u \in Uid : u \notin wanted => texts[u] = 0,
         \A u \in Uid : u \notin wanted /\ index[u] # 0 =>
           file.items[u].href /\ (file.items[u].state = "clean" => file.items[u].etag = index[u])
  PROVE  Rest'
<1> DEFINE f == sync[p]
           now == Downloaded(file.items, index, texts)
           mirror == [file EXCEPT !.items = now]
<1>1. /\ f \in Frame /\ FrameOK(f) /\ file \in Mirror /\ file.items \in [Uid -> Entry]
      /\ Syncs(p) /\ file.tag <= ctag /\ f.before <= ctag /\ f.before \in Nat /\ ctag \in Nat
      /\ \A u \in Uid : ItemOK(file.items[u])
  BY DEF IInv, StateTypeOK, Mirror, Entry, Rest, FramesOK, TagsOfThePast, Tag, Frame, Syncs, ItemsOK
<1>2. mirror \in Mirror /\ mirror.tag = file.tag /\ mirror.items = now
  <2>1. now \in [Uid -> Entry]
    BY <1>1, DownloadedType
  <2> QED
    BY <1>1, <2>1 DEF Mirror, Entry
<1>3. ASSUME NEW u \in Uid
      PROVE  \/ /\ file.items[u].state = "clean" /\ file.items[u].href /\ index[u] = 0
                /\ texts[u] = 0 /\ now[u] = Absent
             \/ /\ ~(file.items[u].state = "clean" /\ file.items[u].href /\ index[u] = 0)
                /\ texts[u] = 0 \/ (file.items[u].href /\ file.items[u].state # "clean")
                /\ now[u] = file.items[u]
             \/ /\ now[u].href /\ now[u].etag = texts[u] /\ now[u].data = texts[u]
                /\ now[u].state = "clean" /\ texts[u] # 0
  BY <1>1, DownloadedItem
<1> HIDE DEF now
<1>4. \A u \in Uid : ItemOK(now[u])
  BY <1>1, <1>3 DEF ItemOK, Absent
<1>5. \A u \in Uid : ~InFlight(u)
  <2>1. \A q \in Proc : sync[q].pc \notin Pushing
    BY <1>1, OthersIdle DEF Pushing
  <2> QED
    BY <2>1 DEF InFlight
<1>6. ASSUME NEW u \in Uid PROVE Knows(u, now[u]) \/ Theirs(u)
  <2>1. Knows(u, file.items[u]) \/ Theirs(u)
    BY <1>5 DEF IInv, Rest, VersionsKnown
  <2>2. CASE now[u] = Absent /\ index[u] = 0
    BY <2>2 DEF Reads, Theirs, Knows, Absent
  <2>3. CASE now[u] = file.items[u]
    BY <2>1, <2>3
  <2>4. CASE now[u].href /\ now[u].etag = texts[u] /\ texts[u] # 0
    BY <2>4 DEF Reads, Theirs, Knows
  <2> QED
    BY <1>3, <2>2, <2>3, <2>4
<1>7. ASSUME ctag = f.before \/ ctag = file.tag PROVE InStep(now)
  <2> SUFFICES ASSUME NEW u \in Uid
               PROVE  /\ now[u].state = "clean" /\ now[u].etag # 0 => now[u].data = server[u]
                      /\ server[u] # 0 => now[u].href
    BY DEF InStep
  <2>1. /\ index[u] = server[u]
        /\ texts[u] = IF u \in wanted THEN server[u] ELSE 0
    BY <1>7 DEF Reads
  <2>2. CASE now[u] = Absent /\ index[u] = 0
    BY <2>1, <2>2 DEF Absent
  <2>3. CASE /\ now[u] = file.items[u] /\ texts[u] = 0
             /\ ~(file.items[u].state = "clean" /\ file.items[u].href /\ index[u] = 0)
    BY <1>1, <2>1, <2>3 DEF ItemOK
  <2>4. CASE now[u] = file.items[u] /\ file.items[u].href /\ file.items[u].state # "clean"
    BY <2>4
  <2>5. CASE now[u].href /\ now[u].data = texts[u] /\ texts[u] # 0
    BY <2>1, <2>5
  <2> QED
    BY <1>3, <2>2, <2>3, <2>4, <2>5
<1>8. /\ Pulled(p) \in Frame /\ Pulled(p).pc \in {"retag", "end"} /\ Pulled(p).indexed
      /\ Pulled(p).tag <= ctag /\ Pulled(p).before <= ctag
      /\ Pulled(p).pc = "retag" => Pulled(p).pushed
      /\ Pulled(p).pc = "end" => Pulled(p).before = sync[p].before
  <2>1. /\ Pulled(p) \in Frame /\ Pulled(p).pc \in {"retag", "end"} /\ Pulled(p).indexed
        /\ Pulled(p).tag = 0 /\ Pulled(p).before \in {0, sync[p].before}
        /\ Pulled(p).pc = "retag" => Pulled(p).pushed
        /\ Pulled(p).pc = "end" => Pulled(p).before = sync[p].before
    BY PulledFrame DEF IInv
  <2> QED
    BY <1>1, <2>1
<1>9. Edit(p, mirror, Pulled(p))
  BY DEF now
<1>10. /\ \A u \in Uid : ItemOK(mirror.items[u])
       /\ \A u \in Uid : Knows(u, mirror.items[u]) \/ Theirs(u)
       /\ mirror.tag = ctag => InStep(mirror.items)
       /\ Pulled(p).pc = "end" => (Pulled(p).before = ctag => InStep(mirror.items))
  BY <1>2, <1>4, <1>6, <1>7, <1>8
<1> HIDE DEF mirror
<1> QED
  BY <1>1, <1>2, <1>8, <1>9, <1>10, EditStep

LEMMA IndexAnswerRest ==
  ASSUME IInv, StateTypeOK', NEW p \in Proc, IndexAnswer(p) PROVE Rest'
<1> DEFINE f == sync[p]
           wanted == {u \in Uid : f.texts[u] # 0 /\ LET item == mem[p].items[u] IN
                        \/ ~item.href
                        \/ item.state = "clean" /\ item.etag # f.texts[u]}
           g == [Await(p, "fetch") EXCEPT !.index = f.texts, !.wanted = wanted]
<1>1. /\ f \in Frame /\ FrameOK(f) /\ f.pc = "index" /\ f.reply = "ok" /\ Syncs(p)
      /\ f.texts \in Texts /\ f.before <= ctag /\ ctag \in Nat
  BY DEF IndexAnswer, IInv, StateTypeOK, Rest, FramesOK, Frame, Syncs, TagsOfThePast, Tag
<1>2. \A u \in Uid : SameItem(mem[p].items[u], file.items[u])
  BY <1>1 DEF IInv, Rest, SameVersions
<1>3. ASSUME NEW u \in Uid
      PROVE  /\ Reads(f, u, f.texts[u])
             /\ u \notin wanted /\ f.texts[u] # 0 =>
                  /\ file.items[u].href
                  /\ file.items[u].state = "clean" => file.items[u].etag = f.texts[u]
  BY <1>1, <1>2 DEF FrameOK, Read, SameItem
<1>4. CASE sync' = [sync EXCEPT ![p] = g] /\ UNCHANGED <<file, mem>>
  <2>1. Await(p, "fetch") \in Frame
    BY FrameTypes DEF IInv, Awaiting
  <2>2. /\ g \in Frame /\ g.pc = "fetch" /\ g.reply = "none" /\ g.index = f.texts
        /\ g.wanted = wanted /\ g.before = f.before /\ g.tag = 0 /\ g.todo = f.todo
        /\ g.indexed = f.indexed
    BY <1>1, <2>1 DEF Await, Frame, NoTag
  <2>3. UNCHANGED <<file, mem, server, ctag, holder, read_only, author, stored, retagged>>
    BY <1>4 DEF IndexAnswer, history
  <2> HIDE DEF g, wanted
  <2>4. FrameOK(g)
    BY <1>1, <1>3, <2>2 DEF FrameOK, Requested, Heard, Read, Reads, Ending, Pushing
  <2>5. g.tag <= ctag /\ g.before <= ctag /\ g.todo \subseteq f.todo
    BY <1>1, <2>2
  <2> QED
    BY <1>1, <1>4, <2>2, <2>3, <2>4, <2>5, FrameStep DEF Pushing
<1>5. CASE /\ wanted = {}
           /\ Edit(p, [file EXCEPT !.items = Downloaded(@, f.texts, NoTexts)], Pulled(p))
  <2>1. NoTexts \in Texts /\ \A u \in Uid : NoTexts[u] = 0
    BY BoundsAssumption DEF NoTexts, Texts, Data
  <2>2. UNCHANGED <<server, ctag, holder, read_only, author, stored, retagged>>
    BY DEF IndexAnswer, history
  <2>3. /\ \A u \in Uid : Reads(f, u, f.texts[u])
        /\ \A u \in Uid : u \notin wanted /\ f.texts[u] # 0 =>
              file.items[u].href /\ (file.items[u].state = "clean" => file.items[u].etag = f.texts[u])
    BY <1>3
  <2>4. /\ \A u \in Uid : u \in wanted => Reads(f, u, NoTexts[u])
        /\ \A u \in Uid : u \notin wanted => NoTexts[u] = 0
    BY <1>5, <2>1
  <2>5. Edit(p, [file EXCEPT !.items = Downloaded(@, f.texts, NoTexts)], Pulled(p))
    BY <1>5
  <2> HIDE DEF wanted, f
  <2> QED
    BY <1>1, <2>1, <2>2, <2>3, <2>4, <2>5, DownloadRest DEF f
<1> QED
  BY <1>4, <1>5 DEF IndexAnswer

LEMMA FetchAnswerRest ==
  ASSUME IInv, StateTypeOK', NEW p \in Proc, FetchAnswer(p) PROVE Rest'
<1> DEFINE f == sync[p]
<1>1. /\ f \in Frame /\ FrameOK(f) /\ f.pc = "fetch" /\ f.reply = "ok"
      /\ f.texts \in Texts /\ f.index \in Texts
      /\ Edit(p, [file EXCEPT !.items = Downloaded(@, f.index, f.texts)], Pulled(p))
      /\ UNCHANGED <<server, ctag, holder, read_only, author, stored, retagged>>
  BY DEF FetchAnswer, IInv, StateTypeOK, Rest, FramesOK, Frame, history
<1>2. /\ \A u \in Uid : Reads(f, u, f.index[u])
      /\ \A u \in Uid : u \in f.wanted => Reads(f, u, f.texts[u])
      /\ \A u \in Uid : u \notin f.wanted => f.texts[u] = 0
      /\ \A u \in Uid : u \notin f.wanted /\ f.index[u] # 0 =>
            file.items[u].href /\ (file.items[u].state = "clean" => file.items[u].etag = f.index[u])
  BY <1>1 DEF FrameOK, Read
<1> HIDE DEF f
<1> QED
  BY <1>1, <1>2, DownloadRest DEF f

LEMMA FinishRest ==
  ASSUME IInv, StateTypeOK', NEW p \in Proc, Finish(p) PROVE Rest'
<1> DEFINE f == sync[p]
           mirror == IF f.ok THEN [file EXCEPT !.tag = f.before] ELSE file
<1>1. /\ f \in Frame /\ FrameOK(f) /\ f.pc = "end" /\ Syncs(p) /\ file \in Mirror
      /\ f.before <= ctag /\ f.before \in Tag /\ file.tag <= ctag /\ ctag \in Nat
      /\ f.ok \in BOOLEAN /\ f.indexed \in BOOLEAN
      /\ Edit(p, mirror, Idle) /\ UNCHANGED <<server, ctag, read_only, author, stored>>
      /\ retagged' = IF f.ok /\ f.indexed THEN f.pushed ELSE retagged
  BY DEF Finish, IInv, StateTypeOK, Rest, FramesOK, Frame, Syncs, TagsOfThePast, Tag
<1>2. /\ mirror \in Mirror /\ mirror.items = file.items
      /\ mirror.tag = IF f.ok THEN f.before ELSE file.tag
  BY <1>1 DEF Mirror
<1>3. \A u \in Uid : ItemOK(file.items[u])
  BY DEF IInv, Rest, ItemsOK
<1>4. \A u \in Uid : Knows(u, file.items[u]) \/ Theirs(u)
  <2>1. \A q \in Proc : sync[q].pc \notin Pushing
    BY <1>1, OthersIdle DEF Pushing
  <2> QED
    BY <2>1 DEF IInv, Rest, VersionsKnown, InFlight
<1> HIDE DEF mirror
<1>5. mirror.tag = ctag /\ ~retagged' => InStep(mirror.items)
  BY <1>1, <1>2 DEF IInv, Rest, TagInStep, FrameOK, Ending
<1>6. /\ Idle \in Frame /\ Idle.pc = "idle" /\ Idle.before <= ctag /\ Idle.tag <= ctag
  <2>1. Idle.before = 0 /\ Idle.tag = 0
    BY DEF Idle, NoTag
  <2> QED
    BY <1>1, <2>1, IdleType
<1>7. mirror.tag <= ctag
  BY <1>1, <1>2
<1> QED
  BY <1>1, <1>2, <1>3, <1>4, <1>5, <1>6, <1>7, EditStep

-----------------------------------------------------------------------------
(* The server and the network.                                             *)

\* A request that changes the server is answered to the one who asked.
LEMMA StoreRest ==
  ASSUME IInv, StateTypeOK', NEW p \in Proc, sync[p].pc \in Pushing, sync[p].reply = "none",
         NEW text, Store(p, sync[p].uid, text),
         text = IF sync[p].pc = "remove" THEN 0 ELSE sync[p].sent,
         UNCHANGED <<file, mem, holder, read_only, retagged>>
  PROVE  Rest'
<1> DEFINE f == sync[p]
           g == [f EXCEPT !.reply = "ok"]
           u == f.uid
<1>1. /\ f \in Frame /\ u \in Uid /\ FrameOK(f) /\ Syncs(p) /\ ctag \in Nat /\ file.tag \in Nat
      /\ \A q \in Proc : sync[q].before \in Nat /\ sync[q].tag \in Nat
  BY DEF IInv, StateTypeOK, Frame, Rest, FramesOK, Syncs, Pushing, Tag, Mirror
<1>2. /\ g \in Frame /\ g.reply = "ok" /\ g.pc = f.pc /\ g.uid = u /\ g.sent = f.sent
      /\ g.etag = f.etag /\ g.attached = f.attached /\ g.todo = f.todo /\ g.tag = f.tag
      /\ g.before = f.before /\ g.indexed = f.indexed
  BY <1>1 DEF Frame
<1>3. /\ sync'[p] = g /\ \A q \in Proc : q # p => sync'[q] = sync[q]
      /\ server'[u] = text /\ \A v \in Uid : v # u => server'[v] = server[v]
      /\ author'[u] = "sync" /\ \A v \in Uid : v # u => author'[v] = author[v]
      /\ ctag' = ctag + 1 /\ text \in stored'
  BY <1>1 DEF Store, Reply, IInv, StateTypeOK, Texts
<1>4. \A q \in Proc : q # p => sync'[q].pc \in {"idle", "lock"}
  BY <1>1, <1>3, OthersIdle
<1> HIDE DEF g
<1>5. TodoPresent' /\ OneHolder' /\ ItemsOK' /\ SameVersions'
  BY <1>2, <1>3 DEF IInv, Rest, TodoPresent, OneHolder, Syncs, ItemsOK, SameVersions
<1>6. TagsOfThePast' /\ TagInStep'
  BY <1>1, <1>2, <1>3 DEF IInv, Rest, TagsOfThePast, TagInStep
<1>7. VersionsKnown'
  <2>1. ASSUME NEW v \in Uid, v = u PROVE InFlight(v)'
    BY <1>2, <1>3, <2>1 DEF InFlight
  <2>2. ASSUME NEW v \in Uid, v # u
        PROVE  Knows(v, file.items[v])' \/ Theirs(v)'
    <3>1. ~InFlight(v)
      BY <1>1, <2>2, OthersIdle DEF InFlight, Pushing
    <3> QED
      BY <1>3, <2>2, <3>1 DEF IInv, Rest, VersionsKnown, Knows, Theirs
  <2> QED
    BY <2>1, <2>2 DEF VersionsKnown
<1>8. FramesOK'
  <2>1. FrameOK(sync[p])'
    <3>1. Requested(sync[p])'
      BY <1>1, <1>2, <1>3 DEF FrameOK, Requested
    <3>2. Heard(sync[p])'
      BY <1>1, <1>2, <1>3 DEF Heard, Pushing, IInv, Rest, TagsOfThePast
    <3>3. Read(sync[p])' /\ Ending(sync[p])'
      BY <1>1, <1>2, <1>3 DEF FrameOK, Read, Ending, Pushing
    <3> QED
      BY <3>1, <3>2, <3>3 DEF FrameOK
  <2>2. ASSUME NEW q \in Proc, q # p PROVE FrameOK(sync[q])'
    BY <1>4, <2>2 DEF FrameOK, Requested, Heard, Read, Ending, Pushing
  <2> QED
    BY <2>1, <2>2 DEF FramesOK
<1> QED
  BY <1>5, <1>6, <1>7, <1>8 DEF Rest

\* An answer that changes nothing on the server.
LEMMA ReplyRest ==
  ASSUME IInv, StateTypeOK', NEW p \in Proc, Syncs(p),
         ~(sync[p].pc \in Pushing /\ sync[p].reply = "ok"),
         NEW g \in Frame, sync' = [sync EXCEPT ![p] = g],
         UNCHANGED <<file, mem, server, ctag, holder, read_only, author, stored, retagged>>,
         g.pc = sync[p].pc, g.todo = sync[p].todo, g.uid = sync[p].uid, g.sent = sync[p].sent,
         g.etag = sync[p].etag, g.attached = sync[p].attached, g.before = sync[p].before,
         g.indexed = sync[p].indexed, g.pushed = sync[p].pushed, g.ok = sync[p].ok,
         g.index = sync[p].index, g.wanted = sync[p].wanted,
         g.tag <= ctag, Heard(g), Read(g)
  PROVE  Rest'
<1>1. FrameOK(sync[p]) /\ sync[p].before <= ctag
  BY DEF IInv, Rest, FramesOK, TagsOfThePast
<1>2. Requested(g) /\ Ending(g)
  BY <1>1 DEF FrameOK, Requested, Ending
<1> QED
  BY <1>1, <1>2, FrameStep DEF FrameOK

LEMMA ServeRest ==
  ASSUME IInv, StateTypeOK', NEW p \in Proc, Serve(p) PROVE Rest'
<1> DEFINE f == sync[p]
           u == f.uid
           item == file.items[u]
           fetched == [v \in Uid |-> IF v \in f.wanted THEN server[v] ELSE 0]
           g(k) == [f EXCEPT !.reply = k]
<1>1. /\ f \in Frame /\ u \in Uid /\ FrameOK(f) /\ f.pc \in Awaiting /\ f.reply = "none"
      /\ Syncs(p) /\ ctag \in Nat /\ f.tag <= ctag /\ server \in Texts /\ item \in Entry
  BY DEF Serve, IInv, StateTypeOK, Frame, Rest, FramesOK, Syncs, Awaiting, Tag, TagsOfThePast,
     Mirror, Entry
<1>2. UNCHANGED <<file, mem, holder, read_only, retagged>>
  BY DEF Serve
<1>3. ASSUME f.pc \in Pushing, NEW text, Store(p, u, text),
             text = IF f.pc = "remove" THEN 0 ELSE f.sent
      PROVE  Rest'
  BY <1>1, <1>2, <1>3, StoreRest
<1>4. ASSUME f.pc \in Pushing PROVE Knows(u, item) \/ Theirs(u)
  <2>1. ~InFlight(u)
    BY <1>1, <1>4, OthersIdle DEF InFlight, Pushing
  <2> QED
    BY <1>1, <2>1 DEF IInv, Rest, VersionsKnown
<1>5. ASSUME NEW k \in {"ok", "conflict", "not_found"},
             Answer(p, k) \/ (k = "conflict" /\ Refused(p)),
             f.pc \in Pushing, Heard(g(k))
      PROVE  Rest'
  <2>1. /\ g(k) \in Frame /\ g(k).pc = f.pc /\ g(k).todo = f.todo /\ g(k).uid = f.uid
        /\ g(k).sent = f.sent /\ g(k).etag = f.etag /\ g(k).attached = f.attached
        /\ g(k).before = f.before /\ g(k).indexed = f.indexed /\ g(k).pushed = f.pushed
        /\ g(k).ok = f.ok /\ g(k).index = f.index /\ g(k).wanted = f.wanted
        /\ g(k).tag = f.tag
    BY <1>1, <1>5 DEF Frame
  <2>2. Read(g(k))
    BY <1>5, <2>1 DEF Read, Pushing
  <2>3. sync' = [sync EXCEPT ![p] = g(k)] /\ UNCHANGED <<server, ctag, author, stored>>
    BY <1>5 DEF Refused, Answer, Reply, Untouched
  <2> HIDE DEF g
  <2> QED
    BY <1>1, <1>2, <1>5, <2>1, <2>2, <2>3, ReplyRest
<1>6. ASSUME NEW k \in {"ok", "conflict", "not_found"}
      PROVE  g(k).pc = f.pc /\ g(k).uid = u /\ g(k).reply = k
  BY <1>1 DEF Frame
<1>7. CASE f.pc \in {"create", "recreate"}
  <2>1. CASE server[u] = 0
    BY <1>3, <1>7, <2>1 DEF Serve, Pushing
  <2>2. CASE server[u] # 0
    <3>1. Refused(p)
      BY <1>7, <2>2 DEF Serve
    <3>2. Theirs(u)
      BY <1>1, <1>4, <1>7, <2>2 DEF FrameOK, Requested, Heard, Knows, Theirs, Pushing
    <3>3. Heard(g("conflict"))
      BY <1>6, <1>7, <3>2 DEF Heard
    <3> QED
      BY <1>5, <1>7, <3>1, <3>3 DEF Pushing
  <2> QED
    BY <2>1, <2>2
<1>8. ASSUME f.pc \in {"update", "remove"}, ~Matches(u, f.etag) PROVE Theirs(u)
  BY <1>1, <1>4, <1>8 DEF FrameOK, Requested, Knows, Matches, Pushing
<1>9. CASE f.pc = "update"
  <2>1. CASE Store(p, u, f.sent)
    BY <1>3, <1>9, <2>1 DEF Pushing
  <2>2. CASE ~Matches(u, f.etag) /\ Refused(p)
    <3>1. Heard(g("conflict"))
      BY <1>6, <1>8, <1>9, <2>2 DEF Heard
    <3> QED
      BY <1>5, <1>9, <2>2, <3>1 DEF Pushing
  <2>3. CASE server[u] = 0 /\ Answer(p, "not_found")
    <3>1. Heard(g("not_found"))
      BY <1>6, <1>9, <2>3 DEF Heard
    <3> QED
      BY <1>5, <1>9, <2>3, <3>1 DEF Pushing
  <2> QED
    BY <1>9, <2>1, <2>2, <2>3 DEF Serve
<1>10. CASE f.pc = "remove"
  <2>1. CASE Store(p, u, 0)
    BY <1>3, <1>10, <2>1 DEF Pushing
  <2>2. CASE ~Matches(u, f.etag) /\ Refused(p)
    <3>1. Heard(g("conflict"))
      BY <1>6, <1>8, <1>10, <2>2 DEF Heard
    <3> QED
      BY <1>5, <1>10, <2>2, <3>1 DEF Pushing
  <2>3. CASE server[u] = 0 /\ Answer(p, "ok")
    <3>1. Heard(g("ok"))
      BY <1>6, <1>10, <2>3 DEF Heard
    <3> QED
      BY <1>5, <1>10, <2>3, <3>1 DEF Pushing
  <2> QED
    BY <1>10, <2>1, <2>2, <2>3 DEF Serve
<1>11. ASSUME NEW h \in Frame, sync' = [sync EXCEPT ![p] = h],
              UNCHANGED <<server, ctag, author, stored>>,
              f.pc \notin Pushing, f.pc # "push", h.pc = f.pc, h.todo = f.todo, h.uid = f.uid, h.sent = f.sent,
              h.etag = f.etag, h.attached = f.attached, h.before = f.before,
              h.indexed = f.indexed, h.pushed = f.pushed, h.ok = f.ok, h.index = f.index,
              h.wanted = f.wanted, h.tag <= ctag, Read(h)
       PROVE  Rest'
  <2>1. Heard(h)
    BY <1>11 DEF Heard, Pushing
  <2> QED
    BY <1>1, <1>2, <1>11, <2>1, ReplyRest
<1>12. CASE f.pc \in {"tag", "retag"}
  <2> DEFINE h == [f EXCEPT !.reply = "ok", !.tag = ctag]
  <2>1. sync' = [sync EXCEPT ![p] = h] /\ UNCHANGED <<server, ctag, author, stored>>
    BY <1>12 DEF Serve, Untouched
  <2>2. /\ h \in Frame /\ h.pc = f.pc /\ h.todo = f.todo /\ h.uid = f.uid /\ h.sent = f.sent
        /\ h.etag = f.etag /\ h.attached = f.attached /\ h.before = f.before
        /\ h.indexed = f.indexed /\ h.pushed = f.pushed /\ h.ok = f.ok /\ h.index = f.index
        /\ h.wanted = f.wanted /\ h.tag = ctag
    BY <1>1 DEF Frame, Tag
  <2> HIDE DEF h
  <2>3. Read(h) /\ h.tag <= ctag
    BY <1>1, <1>12, <2>2 DEF Read
  <2> QED
    BY <1>11, <1>12, <2>1, <2>2, <2>3 DEF Pushing
<1>13. CASE f.pc = "index"
  <2> DEFINE h == [f EXCEPT !.reply = "ok", !.texts = server]
  <2>1. sync' = [sync EXCEPT ![p] = h] /\ UNCHANGED <<server, ctag, author, stored>>
    BY <1>13 DEF Serve, Untouched
  <2>2. /\ h \in Frame /\ h.pc = f.pc /\ h.todo = f.todo /\ h.uid = f.uid /\ h.sent = f.sent
        /\ h.etag = f.etag /\ h.attached = f.attached /\ h.before = f.before
        /\ h.indexed = f.indexed /\ h.pushed = f.pushed /\ h.ok = f.ok /\ h.index = f.index
        /\ h.wanted = f.wanted /\ h.tag = f.tag /\ h.texts = server
    BY <1>1 DEF Frame
  <2> HIDE DEF h
  <2>3. Read(h) /\ h.tag <= ctag
    BY <1>1, <1>13, <2>2 DEF Read, Reads
  <2> QED
    BY <1>11, <1>13, <2>1, <2>2, <2>3 DEF Pushing
<1>14. CASE f.pc = "fetch"
  <2> DEFINE h == [f EXCEPT !.reply = "ok", !.texts = fetched]
  <2>1. sync' = [sync EXCEPT ![p] = h] /\ UNCHANGED <<server, ctag, author, stored>>
    BY <1>14 DEF Serve, Untouched
  <2>2. fetched \in Texts /\ \A v \in Uid : fetched[v] = IF v \in f.wanted THEN server[v] ELSE 0
    BY <1>1, BoundsAssumption DEF Texts, Data
  <2> HIDE DEF fetched
  <2>3. /\ h \in Frame /\ h.pc = f.pc /\ h.todo = f.todo /\ h.uid = f.uid /\ h.sent = f.sent
        /\ h.etag = f.etag /\ h.attached = f.attached /\ h.before = f.before
        /\ h.indexed = f.indexed /\ h.pushed = f.pushed /\ h.ok = f.ok /\ h.index = f.index
        /\ h.wanted = f.wanted /\ h.tag = f.tag /\ h.texts = fetched
    BY <1>1, <2>2 DEF Frame
  <2> HIDE DEF h
  <2>4. Read(h) /\ h.tag <= ctag
    BY <1>1, <1>14, <2>2, <2>3 DEF FrameOK, Read, Reads
  <2> QED
    BY <1>11, <1>14, <2>1, <2>3, <2>4 DEF Pushing
<1> QED
  BY <1>1, <1>7, <1>9, <1>10, <1>12, <1>13, <1>14 DEF Awaiting

\* What is forgotten with an answer nobody hears.
LEMMA UnheardEffect ==
  ASSUME IInv, NEW p \in Proc, Unheard(p)
  PROVE  \A u \in Uid :
           /\ author[u] # "sync" => author'[u] = author[u]
           /\ author'[u] \in {author[u], "lost"}
           /\ sync[p].pc \in Pushing /\ sync[p].uid = u /\ sync[p].reply = "ok" => author'[u] # "sync"
           /\ Theirs(u) => author'[u] \in {"device", "lost"} \/ read_only
BY DEF Unheard, IInv, StateTypeOK, Theirs, Pushing

\* An answer is lost, or the process with it: g is the frame afterwards.
LEMMA LostRest ==
  ASSUME IInv, StateTypeOK', NEW p \in Proc, Unheard(p), NEW g \in Frame, sync' = [sync EXCEPT ![p] = g],
         UNCHANGED <<file, server, ctag, read_only, stored, retagged>>,
         g.reply # "ok", g.todo \subseteq sync[p].todo, g.before <= ctag, g.tag <= ctag,
         FrameOK(g),
         \/ Syncs(p) /\ UNCHANGED <<mem, holder>>
         \/ /\ g.pc = "idle" /\ g.todo = {} /\ mem' = [mem EXCEPT ![p] = file]
            /\ holder' = IF holder = p THEN NoProc ELSE holder
  PROVE  Rest'
<1>1. /\ sync'[p] = g /\ \A q \in Proc : q # p => sync'[q] = sync[q]
      /\ \A q \in Proc : q # p => mem'[q] = mem[q]
  BY DEF IInv, StateTypeOK
<1>2. TodoPresent' /\ OneHolder'
  BY <1>1 DEF IInv, Rest, TodoPresent, OneHolder, Syncs
<1>3. ItemsOK' /\ TagsOfThePast' /\ TagInStep'
  BY <1>1 DEF IInv, StateTypeOK, Rest, ItemsOK, TagsOfThePast, TagInStep, InStep
<1>4. SameVersions'
  BY <1>1 DEF IInv, Rest, SameVersions, SameItem, Syncs
<1>5. VersionsKnown'
  <2> SUFFICES ASSUME NEW u \in Uid PROVE Knows(u, file.items[u])' \/ Theirs(u)' \/ InFlight(u)'
    BY DEF VersionsKnown
  <2>1. CASE Knows(u, file.items[u])
    BY <2>1 DEF Knows
  <2>2. CASE Theirs(u)
    BY <2>2, UnheardEffect DEF Theirs
  <2>3. CASE InFlight(u)
    <3>1. PICK q \in Proc : sync[q].pc \in Pushing /\ sync[q].uid = u /\ sync[q].reply = "ok"
      BY <2>3 DEF InFlight
    <3>2. CASE q = p
      BY <2>3, <3>1, <3>2, UnheardEffect DEF InFlight, Theirs
    <3>3. CASE q # p
      BY <1>1, <2>3, <3>1, <3>3, UnheardEffect DEF InFlight, Theirs
    <3> QED
      BY <3>2, <3>3
  <2> QED
    BY <2>1, <2>2, <2>3 DEF IInv, Rest, VersionsKnown
<1>6. FramesOK'
  <2>1. ASSUME NEW f \in Frame, f.uid \in Uid, FrameOK(f) PROVE FrameOK(f)'
    <3>1. \A u \in Uid : (Theirs(u) => Theirs(u)') /\ (author[u] = "device" => author'[u] = "device")
      BY UnheardEffect DEF Theirs
    <3> QED
      BY <2>1, <3>1 DEF FrameOK, Requested, Heard, Read, Reads, Ending, InStep
  <2>2. \A q \in Proc : sync'[q] \in Frame /\ sync'[q].uid \in Uid
    BY DEF StateTypeOK, Frame
  <2> QED
    BY <1>1, <2>1, <2>2 DEF IInv, Rest, FramesOK
<1> QED
  BY <1>2, <1>3, <1>4, <1>5, <1>6 DEF Rest

LEMMA FaultRest ==
  ASSUME IInv, StateTypeOK', NEW p \in Proc, NetworkFault(p) \/ Crash(p) PROVE Rest'
<1> DEFINE f == sync[p]
           g(k) == [f EXCEPT !.reply = k]
<1>1. /\ f \in Frame /\ FrameOK(f) /\ f.before <= ctag /\ f.tag <= ctag /\ ctag \in Nat
  BY DEF IInv, StateTypeOK, Rest, FramesOK, TagsOfThePast, Tag
<1>2. ASSUME NEW k \in {"network", "other"}, f.pc \in Awaiting
      PROVE  /\ g(k) \in Frame /\ g(k).pc = f.pc /\ g(k).todo = f.todo /\ g(k).before = f.before
             /\ g(k).tag = f.tag /\ g(k).reply = k /\ FrameOK(g(k))
  <2>1. /\ g(k) \in Frame /\ g(k).pc = f.pc /\ g(k).todo = f.todo /\ g(k).uid = f.uid
        /\ g(k).sent = f.sent /\ g(k).etag = f.etag /\ g(k).attached = f.attached
        /\ g(k).before = f.before /\ g(k).indexed = f.indexed /\ g(k).pushed = f.pushed
        /\ g(k).ok = f.ok /\ g(k).index = f.index /\ g(k).wanted = f.wanted
        /\ g(k).tag = f.tag /\ g(k).reply = k
    BY <1>1 DEF Frame
  <2> HIDE DEF g
  <2>2. Requested(g(k)) /\ Heard(g(k))
    BY <1>1, <1>2, <2>1 DEF FrameOK, Requested, Heard, Awaiting
  <2>3. Read(g(k)) /\ Ending(g(k))
    BY <1>1, <2>1 DEF FrameOK, Read, Reads, Ending
  <2> QED
    BY <2>1, <2>2, <2>3 DEF FrameOK
<1>3. CASE LoseRequest(p) \/ NoTagReply(p)
  <2>1. /\ f.pc \in Awaiting /\ Syncs(p) /\ f.reply = "none"
        /\ UNCHANGED <<file, mem, server, ctag, holder, read_only, author, stored, retagged>>
    BY <1>3 DEF LoseRequest, NoTagReply, May, Awaiting, Syncs, history
  <2>2. PICK k \in {"network", "other"} : sync' = [sync EXCEPT ![p] = g(k)]
    BY <1>3 DEF LoseRequest, NoTagReply, Reply
  <2> HIDE DEF g
  <2> QED
    BY <1>1, <1>2, <2>1, <2>2, FrameStep
<1>4. CASE LoseReply(p)
  <2>1. /\ f.pc \in Awaiting /\ Syncs(p) /\ Unheard(p)
        /\ UNCHANGED <<file, mem, server, ctag, holder, read_only, stored, retagged>>
    BY <1>4 DEF LoseReply, May, Awaiting, Syncs
  <2>2. sync' = [sync EXCEPT ![p] = g("network")]
    BY <1>4 DEF LoseReply, Reply
  <2> HIDE DEF g
  <2>3. g("network") \in Frame /\ g("network").reply # "ok" /\ g("network").todo \subseteq f.todo
        /\ g("network").before <= ctag /\ g("network").tag <= ctag /\ FrameOK(g("network"))
    BY <1>1, <1>2, <2>1
  <2> QED
    BY <2>1, <2>2, <2>3, LostRest
<1>5. CASE Crash(p)
  <2>1. /\ Idle \in Frame /\ Idle.pc = "idle" /\ Idle.todo = {} /\ Idle.before = 0
        /\ Idle.tag = 0 /\ Idle.reply = "none"
    BY IdleType DEF Idle, NoTag
  <2>2. FrameOK(Idle)
    BY <2>1, NoSyncNoClaim
  <2>3. /\ Unheard(p) /\ sync' = [sync EXCEPT ![p] = Idle] /\ mem' = [mem EXCEPT ![p] = file]
        /\ holder' = IF holder = p THEN NoProc ELSE holder
        /\ UNCHANGED <<file, server, ctag, read_only, stored, retagged>>
    BY <1>5 DEF Crash, May
  <2>4. Idle.reply # "ok" /\ Idle.todo \subseteq f.todo /\ Idle.before <= ctag /\ Idle.tag <= ctag
    BY <1>1, <2>1
  <2> QED
    BY <2>1, <2>2, <2>3, <2>4, LostRest
<1> QED
  BY <1>3, <1>4, <1>5 DEF NetworkFault

-----------------------------------------------------------------------------
(* All steps.                                                              *)

LEMMA InductiveStep == IInv /\ [Next]_vars => IInv'
<1> SUFFICES ASSUME IInv, [Next]_vars PROVE IInv'
  OBVIOUS
<1>1. StateTypeOK'
  BY NextTypeOK DEF IInv, Rest
<1>2. CASE UNCHANGED vars
  <2>1. TodoPresent' /\ OneHolder' /\ ItemsOK' /\ TagsOfThePast' /\ SameVersions'
    BY <1>2 DEF vars, IInv, Rest, TodoPresent, OneHolder, Syncs, ItemsOK, TagsOfThePast,
       SameVersions
  <2>2. VersionsKnown' /\ TagInStep'
    BY <1>2 DEF vars, IInv, Rest, VersionsKnown, Knows, Theirs, InFlight, TagInStep, InStep
  <2>3. FramesOK'
    BY <1>2 DEF vars, IInv, Rest, FramesOK, FrameOK, Requested, Heard, Read, Reads, Ending,
       Theirs, InStep
  <2> QED
    BY <1>1, <2>1, <2>2, <2>3 DEF IInv, Rest
<1>3. ASSUME NEW p \in Proc, SyncStep(p) PROVE Rest'
  BY <1>1, <1>3, PushItemRest, AskRest, PushAnswerRest, IndexAnswerRest, FetchAnswerRest,
     FinishRest DEF SyncStep, PushStep, PullStep
<1>4. Rest' \/ UNCHANGED vars
  BY <1>1, <1>3, UserRest, RefreshRest, BeginRest, AcquireRest, DeviceRest, ServeRest, FaultRest
     DEF Next
<1> QED
  BY <1>1, <1>2, <1>4 DEF IInv

\* What sync() knew at every point of its run.
LEMMA Inductive == Spec => []IInv
<1>1. Init => IInv
  BY InitTypeOK, InitRest DEF IInv
<1> QED
  BY <1>1, InductiveStep, PTL DEF Spec

-----------------------------------------------------------------------------
(* Whose version wins.                                                     *)

\* Every text and tag in use was written before.
Written == 0 .. fresh
Old(item) == item.etag \in Written /\ item.data \in Written
OldFrame(f) == f.sent \in Written /\ \A u \in Uid : f.texts[u] \in Written
Past ==
  /\ \A u \in Uid : server[u] \in Written /\ Old(file.items[u])
  /\ \A p \in Proc : OldFrame(sync[p]) /\ \A u \in Uid : Old(mem[p].items[u])

\* What another device or an upload nobody heard of left on the server is recorded.
Sources ==
  \A u \in Uid :
    /\ author[u] = "device" => server[u] \in foreign \cup {0}
    /\ author[u] = "lost" => server[u] \in unheard \cup {0}

\* A refusal is due to a version the mirror has not seen, or the item is gone;
\* after "not found" the server cannot come back to the version the mirror has;
\* and what a download is about to add is one of the others' versions.
Rivals(f) ==
  f.pc \in Pushing /\ f.reply = "conflict" =>
    rival = 0 \/ rival \in (foreign \cup unheard) \ {f.etag}
Unseen(f) ==
  (f.pc = "update" /\ f.reply = "not_found") \/ (f.pc = "recreate" /\ f.reply = "none") =>
    server[f.uid] = 0 \/ server[f.uid] # f.etag
Taken(f) ==
  f.pc = "fetch" /\ f.reply = "ok" =>
    \A u \in Uid : f.texts[u] # 0 /\ ~file.items[u].href =>
      read_only \/ f.texts[u] \in foreign \cup unheard
Won(f) == Rivals(f) /\ Unseen(f) /\ Taken(f)

HistoryTypeOK == foreign \subseteq Data /\ unheard \subseteq Data /\ rival \in Data
HInv ==
  /\ IInv /\ HistoryTypeOK /\ Past /\ Sources
  /\ \A p \in Proc : Won(sync[p])

LEMMA InitHistory == Init => HistoryTypeOK /\ Past /\ Sources /\ \A p \in Proc : Won(sync[p])
<1> SUFFICES ASSUME Init PROVE HistoryTypeOK /\ Past /\ Sources /\ \A p \in Proc : Won(sync[p])
  OBVIOUS
<1>1. \A p \in Proc : sync[p].pc = "idle" /\ sync[p].sent = 0 /\ \A u \in Uid : sync[p].texts[u] = 0
  BY DEF Init, Idle, NoTexts
<1>2. /\ \A u \in Uid : file.items[u] = Absent /\ server[u] = 0 /\ author[u] = "none"
      /\ \A u \in Uid, p \in Proc : mem[p].items[u] = Absent
      /\ fresh = 0 /\ Absent.etag = 0 /\ Absent.data = 0
  BY DEF Init, Empty, NoTexts, Absent
<1>3. HistoryTypeOK
  BY BoundsAssumption DEF Init, HistoryTypeOK, Data
<1>4. Past /\ Sources
  BY <1>1, <1>2 DEF Past, Old, OldFrame, Written, Sources
<1>5. \A p \in Proc : Won(sync[p])
  BY <1>1 DEF Won, Rivals, Unseen, Taken, Pushing
<1> QED
  BY <1>3, <1>4, <1>5

\* A step that uses texts written before.
LEMMA PastStep ==
  ASSUME IInv, Past, Written \subseteq Written', NEW p \in Proc, NEW g \in Frame,
         sync' = [sync EXCEPT ![p] = g],
         g.sent \in Written', \A u \in Uid : g.texts[u] \in Written',
         mem' = mem \/ mem' = [mem EXCEPT ![p] = file'],
         \A u \in Uid :
           /\ server'[u] \in Written'
           /\ file'.items[u].etag \in Written' /\ file'.items[u].data \in Written'
  PROVE  Past'
<1>1. mem \in [Proc -> Mirror] /\ sync \in [Proc -> Frame]
  BY DEF IInv, StateTypeOK
<1>2. ASSUME NEW q \in Proc PROVE OldFrame(sync[q])' /\ \A u \in Uid : Old(mem[q].items[u])'
  <2>1. OldFrame(sync[q])'
    BY <1>1 DEF Past, OldFrame
  <2>2. \A u \in Uid : Old(mem[q].items[u])'
    BY <1>1 DEF Past, Old
  <2> QED
    BY <2>1, <2>2
<1> QED
  BY <1>2 DEF Past, Old

\* An edit of one item.
LEMMA PastEdit ==
  ASSUME IInv, Past, Written \subseteq Written', server' = server, NEW p \in Proc,
         NEW u \in Uid, NEW entry \in Entry, NEW frame \in Frame,
         Edit(p, Changed(u, entry), frame),
         entry.etag \in Written', entry.data \in Written',
         frame.sent \in Written', \A v \in Uid : frame.texts[v] \in Written'
  PROVE  Past'
<1> DEFINE g == Loaded(frame, Changed(u, entry).items)
<1>1. /\ file \in Mirror /\ file.items \in [Uid -> Entry] /\ mem \in [Proc -> Mirror]
      /\ sync \in [Proc -> Frame]
  BY DEF IInv, StateTypeOK, Mirror, Entry
<1>2. g \in Frame /\ g.sent = frame.sent /\ g.texts = frame.texts
  BY LoadedType
<1>3. /\ sync' = [sync EXCEPT ![p] = g] /\ mem' = [mem EXCEPT ![p] = file']
      /\ file'.items = [file.items EXCEPT ![u] = entry]
  BY <1>1, ChangedType DEF Edit
<1> HIDE DEF g
<1>4. \A v \in Uid : /\ server'[v] \in Written'
                     /\ file'.items[v].etag \in Written' /\ file'.items[v].data \in Written'
  BY <1>1, <1>3 DEF Past, Old
<1> QED
  BY <1>2, <1>3, <1>4, PastStep

\* push() makes up no text and no tag.
LEMMA AnsweredOld ==
  ASSUME NEW item \in Entry, NEW f \in Frame, f.pc \in Pushing, f.reply \in {"ok", "conflict"}
  PROVE  /\ Answered(item, f).etag \in {item.etag, f.sent, 0}
         /\ Answered(item, f).data \in {item.data, f.sent, 0}
<1>1. ASSUME NEW i, i = [item EXCEPT !.href = TRUE, !.etag = f.sent]
      PROVE  Settled(i, f.sent).etag = f.sent /\ Settled(i, f.sent).data = item.data
  BY <1>1 DEF Settled, Entry, Item, Absent
<1>2. Absent.etag = 0 /\ Absent.data = 0
  BY DEF Absent
<1>3. /\ Created(item, f).etag \in {item.etag, f.sent, 0}
      /\ Created(item, f).data \in {item.data, f.sent, 0}
  BY <1>1 DEF Created, Entry, Item, Absent
<1>4. [item EXCEPT !.state = "clean", !.etag = 0].data = item.data
      /\ [item EXCEPT !.state = "clean", !.etag = 0].etag = 0
      /\ [item EXCEPT !.href = FALSE, !.etag = 0, !.state = "new"].data = item.data
      /\ [item EXCEPT !.href = FALSE, !.etag = 0, !.state = "new"].etag = 0
  BY DEF Entry, Item, Absent
<1> QED
  BY <1>1, <1>2, <1>3, <1>4 DEF Answered, Pushing

LEMMA PastUser ==
  ASSUME IInv, StateTypeOK', Past, NEW p \in Proc,
         UserStep(p) \/ Refresh(p) \/ Timer(p) \/ AutoSync(p) \/ Acquire(p)
  PROVE  Past'
<1>1. /\ sync[p] \in Frame /\ file \in Mirror /\ file.items \in [Uid -> Entry]
      /\ fresh \in Nat /\ sync[p].sent \in Written /\ \A u \in Uid : sync[p].texts[u] \in Written
      /\ sync \in [Proc -> Frame] /\ sync = [sync EXCEPT ![p] = sync[p]]
      /\ \A u \in Uid : /\ server[u] \in Written /\ file.items[u].etag \in Written
                        /\ file.items[u].data \in Written
  BY BoundsAssumption DEF IInv, StateTypeOK, Data, Mirror, Entry, Past, Old, OldFrame
<1>2. Absent.etag = 0 /\ Absent.data = 0 /\ Absent \in Entry /\ 0 \in Written
  BY <1>1 DEF Absent, Entry, Written
<1>3. ASSUME NEW u \in Uid, Put(p, u) PROVE Past'
  <2>1. PICK s \in State :
          Edit(p, Changed(u, [file.items[u] EXCEPT !.state = s, !.data = fresh']), sync[p])
    BY <1>1, <1>3 DEF Put, Entry, Item, State
  <2>2. fresh' = fresh + 1 /\ fresh' \in Data /\ server' = server
    BY <1>1, <1>3, BoundsAssumption DEF Put, Data
  <2>3. Written \subseteq Written' /\ fresh' \in Written'
    BY <1>1, <2>2 DEF Written
  <2> DEFINE entry == [file.items[u] EXCEPT !.state = s, !.data = fresh']
  <2>4. entry \in Entry
    BY <1>1, <2>2, EntryType DEF Entry
  <2>5. entry.data = fresh' /\ entry.etag = file.items[u].etag
    BY <1>1 DEF Entry, Item, Absent
  <2>6. Edit(p, Changed(u, entry), sync[p])
    BY <2>1
  <2> HIDE DEF entry
  <2>7. /\ entry.etag \in Written' /\ entry.data \in Written' /\ sync[p].sent \in Written'
        /\ \A v \in Uid : sync[p].texts[v] \in Written'
    BY <1>1, <2>3, <2>5
  <2> QED
    BY <1>1, <2>2, <2>3, <2>4, <2>6, <2>7, PastEdit
<1>4. ASSUME NEW u \in Uid, Remove(p, u) PROVE Past'
  <2> DEFINE entry == IF file.items[u].href THEN [file.items[u] EXCEPT !.state = "deleted"]
                      ELSE Absent
  <2>1. Edit(p, Changed(u, entry), sync[p]) /\ fresh' = fresh /\ server' = server
    BY <1>4 DEF Remove
  <2>2. /\ entry \in Entry /\ entry.etag \in {file.items[u].etag, 0}
        /\ entry.data \in {file.items[u].data, 0}
    BY <1>1, <1>2 DEF Entry, Item, Absent, State
  <2>3. Written' = Written
    BY <2>1 DEF Written
  <2> HIDE DEF entry
  <2> QED
    BY <1>1, <1>2, <2>1, <2>2, <2>3, PastEdit
<1>5. CASE Refresh(p) \/ Timer(p) \/ AutoSync(p) \/ Acquire(p)
  <2>1. /\ UNCHANGED <<file, server, fresh>>
        /\ mem' = mem \/ mem' = [mem EXCEPT ![p] = file']
    BY <1>5 DEF Refresh, Timer, AutoSync, Acquire, Begin
  <2>2. PICK g : /\ sync' = [sync EXCEPT ![p] = g] /\ g \in Frame
                 /\ g.sent \in {sync[p].sent, 0}
                 /\ g.texts = sync[p].texts \/ g.texts = NoTexts
    <3>1. CASE Refresh(p)
      <4> DEFINE g == Loaded(sync[p], file.items)
      <4>1. sync' = [sync EXCEPT ![p] = g]
        BY <3>1 DEF Refresh
      <4>2. g \in Frame /\ g.sent = sync[p].sent /\ g.texts = sync[p].texts
        BY <1>1, LoadedType
      <4> HIDE DEF g
      <4> QED
        BY <4>1, <4>2
    <3>2. CASE Timer(p) \/ AutoSync(p)
      <4>1. sync' = sync \/ sync' = [sync EXCEPT ![p] = [sync[p] EXCEPT !.pc = "lock"]]
        BY <3>2 DEF Timer, AutoSync, Begin
      <4>2. LET g == [sync[p] EXCEPT !.pc = "lock"] IN
              g \in Frame /\ g.sent = sync[p].sent /\ g.texts = sync[p].texts
        BY <1>1 DEF Frame
      <4> QED
        BY <1>1, <4>1, <4>2
    <3>3. CASE Acquire(p)
      <4> DEFINE g == [Idle EXCEPT !.pc = "push", !.todo = {u \in Uid : file.items[u] # Absent}]
      <4>1. sync' = [sync EXCEPT ![p] = g]
        BY <3>3 DEF Acquire
      <4>2. g \in Frame
        BY IdleType DEF Frame, Running
      <4>3. g.sent = 0 /\ g.texts = NoTexts
        BY DEF Idle
      <4> QED
        BY <4>1, <4>2, <4>3
    <3> QED
      BY <1>5, <3>1, <3>2, <3>3
  <2>3. Written' = Written /\ \A u \in Uid : NoTexts[u] = 0
    BY <2>1 DEF Written, NoTexts
  <2>4. g.sent \in Written' /\ \A u \in Uid : g.texts[u] \in Written'
    BY <1>1, <1>2, <2>2, <2>3
  <2>5. \A u \in Uid : /\ server'[u] \in Written'
                       /\ file'.items[u].etag \in Written' /\ file'.items[u].data \in Written'
    BY <1>1, <2>1, <2>3
  <2> QED
    BY <2>1, <2>2, <2>3, <2>4, <2>5, PastStep
<1> QED
  BY <1>3, <1>4, <1>5 DEF UserStep

LEMMA PastDevice ==
  ASSUME IInv, StateTypeOK', Past, NEW u \in Uid, DeviceEdit(u) \/ DeviceDelete(u)
  PROVE  Past' /\ (server'[u] = 0 \/ server'[u] \notin Written)
<1>1. /\ fresh \in Nat /\ server \in Texts /\ UNCHANGED <<file, mem, sync>>
      /\ fresh' \in {fresh, fresh + 1}
      /\ server' = [server EXCEPT ![u] = 0] \/ (fresh' = fresh + 1 /\ server' = [server EXCEPT ![u] = fresh'])
  BY BoundsAssumption DEF IInv, StateTypeOK, Data, DeviceEdit, DeviceDelete, clients
<1>2. Written \subseteq Written' /\ 0 \in Written' /\ fresh' \in Written' /\ fresh + 1 \notin Written
  BY <1>1 DEF Written
<1>3. server'[u] \in {0, fresh'} /\ (server'[u] = 0 \/ server'[u] = fresh + 1)
      /\ \A v \in Uid : v # u => server'[v] = server[v]
  BY <1>1 DEF Texts
<1> QED
  BY <1>1, <1>2, <1>3 DEF Past, Old, OldFrame

\* A step of a sync takes its texts from the mirror, the server and its frame.
LEMMA PastSync ==
  ASSUME IInv, StateTypeOK', Past, NEW p \in Proc, SyncStep(p)
  PROVE  Past'
<1>1. /\ sync[p] \in Frame /\ file \in Mirror /\ file.items \in [Uid -> Entry]
      /\ mem[p] \in Mirror /\ mem[p].items \in [Uid -> Entry]
      /\ fresh \in Nat /\ sync[p].sent \in Written /\ \A u \in Uid : sync[p].texts[u] \in Written
      /\ \A u \in Uid : /\ server[u] \in Written
                        /\ file.items[u].etag \in Written /\ file.items[u].data \in Written
                        /\ mem[p].items[u].etag \in Written /\ mem[p].items[u].data \in Written
  BY BoundsAssumption DEF IInv, StateTypeOK, Data, Mirror, Entry, Past, Old, OldFrame
<1>2. /\ Absent.etag = 0 /\ Absent.data = 0 /\ Absent \in Entry /\ 0 \in Written
      /\ \A u \in Uid : NoTexts[u] = 0
  BY <1>1 DEF Absent, Entry, Written, NoTexts
<1>3. UNCHANGED <<fresh, server>> /\ Written' = Written
  BY DEF SyncStep, PushStep, PullStep, PushItem, PushDone, PushAnswer, UpdateNotFound, TagAnswer,
     IndexAnswer, FetchAnswer, RetagAnswer, Failed, Finish, Written
<1>4. ASSUME UNCHANGED <<file, mem>>, NEW g \in Frame, sync' = [sync EXCEPT ![p] = g],
             g.sent \in Written, \A u \in Uid : g.texts[u] \in Written
      PROVE  Past'
  BY <1>1, <1>3, <1>4, PastStep
<1>5. /\ \A pc \in Awaiting : /\ Await(p, pc) \in Frame /\ Await(p, pc).sent = sync[p].sent
                              /\ Await(p, pc).texts = NoTexts
      /\ \A ok \in BOOLEAN : /\ Leave(p, ok) \in Frame /\ Leave(p, ok).sent = 0
                            /\ Leave(p, ok).texts = NoTexts
      /\ Pulled(p) \in Frame /\ Pulled(p).sent = 0 /\ Pulled(p).texts = NoTexts
      /\ NextItem(p) \in Frame /\ NextItem(p).sent = 0 /\ NextItem(p).texts = sync[p].texts
  <2>1. \A pc \in Awaiting : Await(p, pc).sent = sync[p].sent /\ Await(p, pc).texts = NoTexts
    BY <1>1 DEF Await, Frame
  <2>2. \A ok \in BOOLEAN : Leave(p, ok).sent = 0 /\ Leave(p, ok).texts = NoTexts
    BY DEF Leave, Idle
  <2>3. Pulled(p).sent = 0 /\ Pulled(p).texts = NoTexts
    BY DEF Pulled, Leave, Idle
  <2>4. NextItem(p).sent = 0 /\ NextItem(p).texts = sync[p].texts
    BY <1>1 DEF NextItem, Frame
  <2> QED
    BY <2>1, <2>2, <2>3, <2>4, FrameTypes DEF IInv
<1>6. ASSUME NEW u \in Uid, PushItem(p, u) PROVE Past'
  <2> DEFINE item == mem[p].items[u]
             now == file.items[u]
             rest == [sync[p] EXCEPT !.todo = @ \ {u}]
             reverted == IF now = Absent \/ now.state = "clean" THEN now
                         ELSE IF now.href THEN [now EXCEPT !.state = "clean", !.etag = 0]
                         ELSE Absent
             request == CASE item.state = "new" -> "create"
                          [] item.state = "modified" -> "update"
                          [] item.state = "deleted" -> "remove"
             g == [rest EXCEPT !.pc = request, !.uid = u, !.attached = TRUE,
                               !.sent = item.data, !.etag = item.etag]
  <2>1. rest \in Frame /\ rest.sent = sync[p].sent /\ rest.texts = sync[p].texts
    BY <1>1 DEF Frame
  <2>2. CASE sync' = [sync EXCEPT ![p] = rest] /\ UNCHANGED <<file, mem>>
    BY <1>1, <1>4, <2>1, <2>2
  <2>3. CASE Edit(p, Changed(u, reverted), rest)
    <3>1. /\ reverted \in Entry /\ reverted.etag \in {now.etag, 0}
          /\ reverted.data \in {now.data, 0}
      <4>1. now \in Entry /\ 0 \in Data
        BY <1>1, BoundsAssumption DEF Data
      <4> HIDE DEF now
      <4> QED
        BY <1>2, <4>1 DEF Entry, Item, State, Absent
    <3> HIDE DEF reverted, rest
    <3> QED
      BY <1>1, <1>2, <1>3, <2>1, <2>3, <3>1, PastEdit
  <2>4. CASE /\ sync' = [sync EXCEPT ![p] = g] /\ UNCHANGED <<file, mem>>
             /\ item.state # "clean"
    <3>1. item \in Item
      BY <1>1, <1>6 DEF PushItem, IInv, Rest, TodoPresent, Entry
    <3>2. request \in {"create", "update", "remove"}
      BY <2>4, <3>1 DEF Item, State
    <3>3. g \in Frame /\ g.sent = item.data /\ g.texts = sync[p].texts
      <4> HIDE DEF request, item
      <4> QED
        BY <1>1, <3>1, <3>2 DEF Frame, Item, Awaiting
    <3> HIDE DEF g
    <3> QED
      BY <1>1, <1>4, <2>4, <3>3
  <2> QED
    BY <1>6, <2>2, <2>3, <2>4 DEF PushItem
<1>7. CASE PushAnswer(p)
  <2> DEFINE f == Loaded(sync[p], file.items)
             entry == Answered(file.items[f.uid], f)
  <2>1. /\ f \in Frame /\ f.sent = sync[p].sent /\ f.pc = sync[p].pc /\ f.reply = sync[p].reply
        /\ f.uid \in Uid
    BY <1>1, LoadedType DEF Frame
  <2>2. /\ f.pc \in Pushing /\ f.reply \in {"ok", "conflict"}
        /\ Edit(p, Changed(f.uid, entry), NextItem(p))
        /\ file.items[f.uid] \in Entry
    BY <1>1, <1>7, <2>1 DEF PushAnswer, Pushing
  <2>3. entry \in Entry
    BY <2>1, <2>2, AnswerShape
  <2> HIDE DEF f
  <2>4. /\ entry.etag \in {file.items[f.uid].etag, f.sent, 0}
        /\ entry.data \in {file.items[f.uid].data, f.sent, 0}
    BY <2>1, <2>2, AnsweredOld
  <2> HIDE DEF entry
  <2>5. /\ entry.etag \in Written' /\ entry.data \in Written' /\ NextItem(p).sent \in Written'
        /\ \A v \in Uid : NextItem(p).texts[v] \in Written'
    BY <1>1, <1>2, <1>3, <1>5, <2>1, <2>4
  <2> QED
    BY <1>3, <1>5, <2>1, <2>2, <2>3, <2>5, PastEdit
<1>8. ASSUME NEW index \in Texts, NEW texts \in Texts, \A u \in Uid : texts[u] \in Written,
             Edit(p, [file EXCEPT !.items = Downloaded(@, index, texts)], Pulled(p))
      PROVE  Past'
  <2> DEFINE items == Downloaded(file.items, index, texts)
             g == Loaded(Pulled(p), items)
  <2>1. file'.items = items /\ mem' = [mem EXCEPT ![p] = file'] /\ sync' = [sync EXCEPT ![p] = g]
    BY <1>1, <1>8 DEF Edit, Mirror
  <2>2. g \in Frame /\ g.sent = 0 /\ g.texts = NoTexts
    BY <1>5, LoadedType
  <2>3. \A u \in Uid : items[u].etag \in Written /\ items[u].data \in Written
    BY <1>1, <1>2, <1>8 DEF Downloaded
  <2> HIDE DEF g, items
  <2> QED
    BY <1>1, <1>2, <1>3, <2>1, <2>2, <2>3, PastStep
<1>9. CASE IndexAnswer(p)
  <2> DEFINE wanted == {u \in Uid : sync[p].texts[u] # 0 /\ LET item == mem[p].items[u] IN
                          \/ ~item.href
                          \/ item.state = "clean" /\ item.etag # sync[p].texts[u]}
             g == [Await(p, "fetch") EXCEPT !.index = sync[p].texts, !.wanted = wanted]
  <2>1. sync[p].texts \in Texts /\ NoTexts \in Texts
    BY <1>1, BoundsAssumption DEF Frame, NoTexts, Texts, Data
  <2>2. g \in Frame /\ g.sent = sync[p].sent /\ g.texts = NoTexts
    <3>1. wanted \subseteq Uid
      OBVIOUS
    <3> DEFINE await == Await(p, "fetch")
    <3>2. await \in Frame /\ await.sent = sync[p].sent /\ await.texts = NoTexts
      BY <1>5 DEF Awaiting
    <3> HIDE DEF wanted, await
    <3>3. LET h == [await EXCEPT !.index = sync[p].texts, !.wanted = wanted] IN
            h \in Frame /\ h.sent = await.sent /\ h.texts = await.texts
      BY <2>1, <3>1, <3>2 DEF Frame
    <3> QED
      BY <3>2, <3>3 DEF await
  <2>3. \/ sync' = [sync EXCEPT ![p] = g] /\ UNCHANGED <<file, mem>>
        \/ Edit(p, [file EXCEPT !.items = Downloaded(@, sync[p].texts, NoTexts)], Pulled(p))
    BY <1>9 DEF IndexAnswer
  <2> HIDE DEF g
  <2> QED
    BY <1>1, <1>2, <1>4, <1>8, <2>1, <2>2, <2>3
<1>10. CASE FetchAnswer(p)
  <2>1. sync[p].index \in Texts /\ sync[p].texts \in Texts
    BY <1>1 DEF Frame
  <2> QED
    BY <1>1, <1>8, <1>10, <2>1 DEF FetchAnswer
<1>11. CASE PushDone(p) \/ UpdateNotFound(p) \/ TagAnswer(p) \/ RetagAnswer(p) \/ Failed(p)
  <2>1. UNCHANGED <<file, mem>>
    BY <1>11 DEF PushDone, UpdateNotFound, TagAnswer, RetagAnswer, Failed
  <2>2. PICK g \in Frame : /\ sync' = [sync EXCEPT ![p] = g]
                           /\ g.sent \in {sync[p].sent, 0} /\ g.texts = NoTexts
    <3>1. sync[p].tag \in Tag /\ NoTag \in Tag
      BY <1>1 DEF Frame, NoTag, Tag
    <3>2. ASSUME NEW h \in Frame, NEW t \in Tag
          PROVE  /\ [h EXCEPT !.before = t] \in Frame /\ [h EXCEPT !.before = t].sent = h.sent
                 /\ [h EXCEPT !.before = t].texts = h.texts
      BY DEF Frame
    <3>3. ASSUME NEW h, h = Leave(p, FALSE) \/ h = Leave(p, TRUE)
                        \/ \E pc \in Awaiting : h = Await(p, pc)
          PROVE  h \in Frame /\ h.sent \in {sync[p].sent, 0} /\ h.texts = NoTexts
      BY <1>5, <3>3
    <3>4. CASE TagAnswer(p)
      <4> DEFINE next == IF Downloads(p, sync[p].tag) THEN Await(p, "index") ELSE Leave(p, TRUE)
      <4>1. sync' = [sync EXCEPT ![p] = [next EXCEPT !.before = sync[p].tag]]
        BY <3>4 DEF TagAnswer
      <4>2. next \in Frame /\ next.sent \in {sync[p].sent, 0} /\ next.texts = NoTexts
        BY <3>3 DEF Awaiting
      <4> HIDE DEF next
      <4> QED
        BY <3>1, <3>2, <4>1, <4>2
    <3>6. CASE PushDone(p)
      BY <3>3, <3>6 DEF PushDone, Awaiting
    <3>7. CASE UpdateNotFound(p)
      BY <3>3, <3>7 DEF UpdateNotFound, Awaiting
    <3>8. CASE Failed(p)
      BY <3>3, <3>8 DEF Failed
    <3>5. CASE RetagAnswer(p)
      <4> DEFINE t == IF sync[p].reply = "ok" THEN sync[p].tag ELSE NoTag
      <4>1. sync' = [sync EXCEPT ![p] = [Leave(p, TRUE) EXCEPT !.before = t]] /\ t \in Tag
        BY <3>1, <3>5 DEF RetagAnswer
      <4>2. /\ Leave(p, TRUE) \in Frame /\ Leave(p, TRUE).sent = 0
            /\ Leave(p, TRUE).texts = NoTexts
        BY <1>5
      <4> HIDE DEF t
      <4>3. LET h == [Leave(p, TRUE) EXCEPT !.before = t] IN
              h \in Frame /\ h.sent = 0 /\ h.texts = NoTexts
        BY <3>2, <4>1, <4>2
      <4> QED
        BY <4>1, <4>3
    <3> QED
      BY <1>11, <3>4, <3>5, <3>6, <3>7, <3>8
  <2> QED
    BY <1>1, <1>2, <1>4, <2>1, <2>2
<1>12. CASE Finish(p)
  <2> DEFINE mirror == IF sync[p].ok THEN [file EXCEPT !.tag = sync[p].before] ELSE file
             g == Loaded(Idle, mirror.items)
  <2>1. mirror.items = file.items
    BY <1>1 DEF Mirror
  <2>2. /\ file'.items = file.items /\ mem' = [mem EXCEPT ![p] = file']
        /\ sync' = [sync EXCEPT ![p] = g]
    BY <1>12, <2>1 DEF Finish, Edit
  <2>3. g \in Frame /\ g.sent = 0 /\ g.texts = NoTexts
    BY IdleType, LoadedType DEF Idle
  <2> HIDE DEF g
  <2> QED
    BY <1>1, <1>2, <1>3, <2>2, <2>3, PastStep
<1> QED
  BY <1>6, <1>7, <1>9, <1>10, <1>11, <1>12 DEF SyncStep, PushStep, PullStep

LEMMA PastNetwork ==
  ASSUME IInv, StateTypeOK', Past, NEW p \in Proc, Serve(p) \/ NetworkFault(p) \/ Crash(p)
  PROVE  Past'
<1>1. /\ sync[p] \in Frame /\ sync[p].uid \in Uid /\ fresh \in Nat /\ sync[p].sent \in Written
      /\ \A u \in Uid : sync[p].texts[u] \in Written
      /\ \A u \in Uid : /\ server[u] \in Written
                        /\ file.items[u].etag \in Written /\ file.items[u].data \in Written
      /\ server \in Texts /\ sync \in [Proc -> Frame]
  BY BoundsAssumption DEF IInv, StateTypeOK, Frame, Data, Past, Old, OldFrame
<1>2. 0 \in Written /\ \A u \in Uid : NoTexts[u] = 0
  BY <1>1 DEF Written, NoTexts
<1>3. UNCHANGED <<file, fresh>> /\ Written' = Written
  BY DEF Serve, NetworkFault, LoseRequest, LoseReply, NoTagReply, Crash, Written
<1>4. mem' = mem \/ mem' = [mem EXCEPT ![p] = file']
  BY <1>3 DEF Serve, NetworkFault, LoseRequest, LoseReply, NoTagReply, Crash
<1>5. \A u \in Uid : server'[u] \in Written
  <2>1. CASE Serve(p)
    <3>1. \A text \in Written : Store(p, sync[p].uid, text) => \A u \in Uid : server'[u] \in Written
      BY <1>1 DEF Store, Texts
    <3>2. Untouched => \A u \in Uid : server'[u] \in Written
      BY <1>1 DEF Untouched
    <3> QED
      BY <1>1, <1>2, <2>1, <3>1, <3>2 DEF Serve, Refused, Answer
  <2>2. CASE NetworkFault(p) \/ Crash(p)
    BY <1>1, <2>2 DEF NetworkFault, LoseRequest, LoseReply, NoTagReply, Crash
  <2> QED
    BY <2>1, <2>2
<1>6. PICK g \in Frame : /\ sync' = [sync EXCEPT ![p] = g]
                         /\ g.sent \in Written /\ \A u \in Uid : g.texts[u] \in Written
  <2>1. \A k : /\ [sync[p] EXCEPT !.reply = k].sent = sync[p].sent
               /\ [sync[p] EXCEPT !.reply = k].texts = sync[p].texts
    BY <1>1 DEF Frame
  <2>2. CASE NetworkFault(p)
    <3>1. PICK k \in Replies : sync' = [sync EXCEPT ![p] = [sync[p] EXCEPT !.reply = k]]
      BY <2>2 DEF NetworkFault, LoseRequest, LoseReply, NoTagReply, Reply, Replies
    <3>2. [sync[p] EXCEPT !.reply = k] \in Frame
      BY ReplyType DEF IInv
    <3> QED
      BY <1>1, <2>1, <3>1, <3>2
  <2>3. CASE Crash(p)
    <3>1. Idle.sent = 0 /\ Idle.texts = NoTexts
      BY DEF Idle
    <3> QED
      BY <1>2, <2>3, <3>1, IdleType DEF Crash
  <2>4. CASE Serve(p)
    <3> DEFINE fetched == [v \in Uid |-> IF v \in sync[p].wanted THEN server[v] ELSE 0]
               tagged == [sync[p] EXCEPT !.reply = "ok", !.tag = ctag]
               got(t) == [sync[p] EXCEPT !.reply = "ok", !.texts = t]
    <3>1. fetched \in Texts /\ \A u \in Uid : fetched[u] \in Written
      BY <1>1, <1>2, BoundsAssumption DEF Texts, Data
    <3>2. /\ tagged.sent = sync[p].sent /\ tagged.texts = sync[p].texts
          /\ \A t : got(t).sent = sync[p].sent /\ got(t).texts = t
      BY <1>1 DEF Frame
    <3>3. /\ tagged \in Frame /\ got(server) \in Frame /\ got(fetched) \in Frame
          /\ \A k \in Replies : [sync[p] EXCEPT !.reply = k] \in Frame
      <4>1. ctag \in Tag
        BY DEF IInv, StateTypeOK
      <4> HIDE DEF fetched
      <4> QED
        BY <1>1, <3>1, <4>1, ReplyType DEF IInv, Replies
    <3>4. \/ \E k \in Replies : sync' = [sync EXCEPT ![p] = [sync[p] EXCEPT !.reply = k]]
          \/ sync' = [sync EXCEPT ![p] = tagged]
          \/ sync' = [sync EXCEPT ![p] = got(server)]
          \/ sync' = [sync EXCEPT ![p] = got(fetched)]
      <4>1. \A k : Reply(p, k) => sync' = [sync EXCEPT ![p] = [sync[p] EXCEPT !.reply = k]]
        BY DEF Reply
      <4> QED
        BY <2>4, <4>1 DEF Serve, Store, Refused, Answer, Replies
    <3> HIDE DEF fetched, tagged, got
    <3>5. CASE \E k \in Replies : sync' = [sync EXCEPT ![p] = [sync[p] EXCEPT !.reply = k]]
      <4>1. PICK k \in Replies : sync' = [sync EXCEPT ![p] = [sync[p] EXCEPT !.reply = k]]
        BY <3>5
      <4> QED
        BY <1>1, <2>1, <3>3, <4>1
    <3>6. CASE sync' = [sync EXCEPT ![p] = tagged]
      BY <1>1, <3>2, <3>3, <3>6
    <3>7. CASE sync' = [sync EXCEPT ![p] = got(server)]
      BY <1>1, <3>2, <3>3, <3>7
    <3>8. CASE sync' = [sync EXCEPT ![p] = got(fetched)]
      BY <1>1, <3>1, <3>2, <3>3, <3>8
    <3> QED
      BY <3>4, <3>5, <3>6, <3>7, <3>8
  <2> QED
    BY <2>2, <2>3, <2>4
<1> QED
  BY <1>1, <1>3, <1>4, <1>5, <1>6, PastStep

LEMMA PastNext == IInv /\ StateTypeOK' /\ Past /\ [Next]_vars => Past'
<1> SUFFICES ASSUME IInv, StateTypeOK', Past, [Next]_vars PROVE Past'
  OBVIOUS
<1>1. CASE UNCHANGED vars
  BY <1>1 DEF vars, Past, Old, OldFrame, Written
<1> QED
  BY <1>1, PastUser, PastDevice, PastSync, PastNetwork DEF Next

\* A step that leaves the server and the history as they are: the frame it gives
\* its process claims what holds, and no item loses its address but in a sync,
\* while which no other process waits for a download.
LEMMA WonStep ==
  ASSUME HInv, NEW p \in Proc, NEW g, sync' = [sync EXCEPT ![p] = g],
         UNCHANGED <<server, foreign, unheard, rival, read_only>>,
         Rivals(g), Unseen(g), Taken(g),
         \/ \A u \in Uid : file.items[u].href => file'.items[u].href
         \/ Syncs(p) /\ g.pc # "fetch"
  PROVE  \A q \in Proc : Won(sync[q])'
<1>1. sync'[p] = g /\ \A q \in Proc : q # p => sync'[q] = sync[q]
  BY DEF HInv, IInv, StateTypeOK
<1>2. ASSUME NEW f, Rivals(f), Unseen(f) PROVE Rivals(f)' /\ Unseen(f)'
  BY <1>2 DEF Rivals, Unseen
<1>3. ASSUME NEW f, Taken(f), \A u \in Uid : file.items[u].href => file'.items[u].href
      PROVE  Taken(f)'
  BY <1>3 DEF Taken
<1>4. ASSUME NEW q \in Proc PROVE Taken(sync[q])'
  <2>1. CASE \A u \in Uid : file.items[u].href => file'.items[u].href
    BY <1>1, <1>3, <2>1 DEF HInv, Won
  <2>2. CASE Syncs(p) /\ g.pc # "fetch"
    <3>1. sync'[q].pc # "fetch"
      BY <1>1, <2>2, OthersIdle DEF HInv
    <3> QED
      BY <3>1 DEF Taken
  <2> QED
    BY <2>1, <2>2
<1> QED
  BY <1>1, <1>2, <1>4 DEF HInv, Won

\* A frame that waits for no answer whose meaning depends on the history.
LEMMA NothingWon ==
  ASSUME NEW g,
         \/ g.pc \notin Pushing \cup {"fetch"}
         \/ g.reply \in {"network", "other"}
         \/ g.reply = "none" /\ g.pc # "recreate"
  PROVE  Rivals(g) /\ Unseen(g) /\ Taken(g)
BY DEF Rivals, Unseen, Taken, Pushing

LEMMA UserWon ==
  ASSUME HInv, NEW p \in Proc,
         UserStep(p) \/ Refresh(p) \/ Timer(p) \/ AutoSync(p) \/ Acquire(p)
  PROVE  Sources' /\ HistoryTypeOK' /\ \A q \in Proc : Won(sync[q])'
<1>1. /\ sync[p] \in Frame /\ sync \in [Proc -> Frame] /\ Rivals(sync[p])
      /\ Unseen(sync[p]) /\ Taken(sync[p]) /\ file \in Mirror /\ file.items \in [Uid -> Entry]
  BY DEF HInv, IInv, StateTypeOK, Won, Mirror, Entry
<1>2. UNCHANGED <<server, author, foreign, unheard, rival, read_only>>
  BY DEF UserStep, Put, Remove, Refresh, Timer, AutoSync, Begin, Acquire, history
<1>3. Sources' /\ HistoryTypeOK'
  BY <1>2 DEF HInv, Sources, HistoryTypeOK
<1>4. ASSUME NEW items PROVE LET g == Loaded(sync[p], items) IN Rivals(g) /\ Unseen(g) /\ Taken(g)
  <2> DEFINE g == Loaded(sync[p], items)
  <2>1. /\ g.pc = sync[p].pc /\ g.uid = sync[p].uid /\ g.etag = sync[p].etag
        /\ g.reply = sync[p].reply /\ g.texts = sync[p].texts
    BY <1>1, LoadedType
  <2> HIDE DEF g
  <2>2. Rivals(g) /\ Unseen(g) /\ Taken(g)
    BY <1>1, <2>1 DEF Rivals, Unseen, Taken
  <2> QED
    BY <2>2 DEF g
<1>5. CASE UserStep(p)
  <2>1. PICK u \in Uid, entry \in Entry :
          /\ Edit(p, Changed(u, entry), sync[p])
          /\ file.items[u].href => entry.href
    <3>1. ASSUME NEW u \in Uid, Put(p, u)
          PROVE  \E entry \in Entry : /\ Edit(p, Changed(u, entry), sync[p])
                                      /\ file.items[u].href => entry.href
      <4>1. PICK s \in State :
              Edit(p, Changed(u, [file.items[u] EXCEPT !.state = s, !.data = fresh']), sync[p])
        BY <1>1, <3>1 DEF Put, Entry, Item, State
      <4>2. fresh' \in Data
        BY <3>1, BoundsAssumption DEF Put, HInv, IInv, StateTypeOK, Data
      <4> DEFINE entry == [file.items[u] EXCEPT !.state = s, !.data = fresh']
      <4>3. entry \in Entry
        BY <1>1, <4>2, EntryType DEF Entry
      <4>5. entry.href = file.items[u].href
        BY <1>1 DEF Entry, Item, Absent
      <4>4. Edit(p, Changed(u, entry), sync[p])
        BY <4>1
      <4> HIDE DEF entry
      <4> QED
        BY <4>3, <4>4, <4>5
    <3>2. ASSUME NEW u \in Uid, Remove(p, u)
          PROVE  \E entry \in Entry : /\ Edit(p, Changed(u, entry), sync[p])
                                      /\ file.items[u].href => entry.href
      <4> DEFINE entry == IF file.items[u].href THEN [file.items[u] EXCEPT !.state = "deleted"]
                          ELSE Absent
      <4>1. Edit(p, Changed(u, entry), sync[p])
        BY <3>2 DEF Remove
      <4>2. entry \in Entry /\ (file.items[u].href => entry.href)
        BY <1>1 DEF Entry, Item, State, Absent
      <4> HIDE DEF entry
      <4> QED
        BY <4>1, <4>2
    <3> QED
      BY <1>5, <3>1, <3>2 DEF UserStep
  <2> DEFINE g == Loaded(sync[p], Changed(u, entry).items)
  <2>2. sync' = [sync EXCEPT ![p] = g] /\ file'.items = [file.items EXCEPT ![u] = entry]
    BY <1>1, <2>1, ChangedType DEF Edit
  <2>3. \A v \in Uid : file.items[v].href => file'.items[v].href
    BY <1>1, <2>1, <2>2
  <2>4. Rivals(g) /\ Unseen(g) /\ Taken(g)
    BY <1>4
  <2> HIDE DEF g
  <2> QED
    BY <1>2, <1>3, <2>2, <2>3, <2>4, WonStep
<1>6. CASE Refresh(p)
  <2> DEFINE g == Loaded(sync[p], file.items)
  <2>1. sync' = [sync EXCEPT ![p] = g] /\ file' = file
    BY <1>6 DEF Refresh
  <2>2. Rivals(g) /\ Unseen(g) /\ Taken(g)
    BY <1>4
  <2> HIDE DEF g
  <2> QED
    BY <1>2, <1>3, <2>1, <2>2, WonStep
<1>7. CASE Timer(p) \/ AutoSync(p)
  <2>1. file' = file /\ (sync' = sync \/ sync' = [sync EXCEPT ![p] = [sync[p] EXCEPT !.pc = "lock"]])
    BY <1>7 DEF Timer, AutoSync, Begin
  <2>2. [sync[p] EXCEPT !.pc = "lock"].pc = "lock" /\ sync = [sync EXCEPT ![p] = sync[p]]
    BY <1>1 DEF Frame
  <2>3. PICK g : sync' = [sync EXCEPT ![p] = g] /\ (g = sync[p] \/ g.pc = "lock")
    BY <2>1, <2>2
  <2>4. Rivals(g) /\ Unseen(g) /\ Taken(g)
    BY <1>1, <2>3, NothingWon DEF Pushing
  <2> QED
    BY <1>2, <1>3, <2>1, <2>3, <2>4, WonStep
<1>8. CASE Acquire(p)
  <2> DEFINE g == [Idle EXCEPT !.pc = "push", !.todo = {u \in Uid : file.items[u] # Absent}]
  <2>1. sync' = [sync EXCEPT ![p] = g] /\ file' = file /\ g.pc = "push"
    BY <1>8 DEF Acquire, Idle
  <2> HIDE DEF g
  <2>2. Rivals(g) /\ Unseen(g) /\ Taken(g)
    BY <2>1, NothingWon DEF Pushing
  <2> QED
    BY <1>2, <1>3, <2>1, <2>2, WonStep
<1> QED
  BY <1>5, <1>6, <1>7, <1>8

LEMMA DeviceWon ==
  ASSUME HInv, IInv', NEW u \in Uid, DeviceEdit(u) \/ DeviceDelete(u)
  PROVE  Sources' /\ HistoryTypeOK' /\ \A q \in Proc : Won(sync[q])'
<1>1. /\ server'[u] \in foreign' \cup {0} /\ foreign \subseteq foreign'
      /\ \A v \in Uid : v # u => server'[v] = server[v] /\ author'[v] = author[v]
      /\ author'[u] = "device"
      /\ UNCHANGED <<file, sync, unheard, rival, read_only>>
  BY DEF DeviceEdit, DeviceDelete, clients, HInv, IInv, StateTypeOK, Texts
<1>2. server'[u] = 0 \/ server'[u] \notin Written
  BY PastDevice DEF HInv, IInv
<1>3. Sources'
  BY <1>1 DEF HInv, Sources
<1>4. HistoryTypeOK'
  <2>1. fresh' \in Data
    BY DEF IInv, StateTypeOK
  <2> QED
    BY <2>1 DEF DeviceEdit, DeviceDelete, HInv, HistoryTypeOK
<1>5. ASSUME NEW q \in Proc PROVE Won(sync[q])'
  <2>1. Rivals(sync[q])' /\ Taken(sync[q])'
    BY <1>1 DEF HInv, Won, Rivals, Taken
  <2>2. Unseen(sync[q])'
    <3>1. sync[q].uid \in Uid
      BY DEF HInv, IInv, StateTypeOK, Frame
    <3>2. sync[q].pc \in Pushing => sync[q].etag \in Written
      BY <3>1 DEF HInv, IInv, Rest, FramesOK, FrameOK, Requested, Past, Old
    <3> QED
      BY <1>1, <1>2, <3>1, <3>2 DEF HInv, Won, Unseen, Pushing
  <2> QED
    BY <2>1, <2>2 DEF Won
<1> QED
  BY <1>3, <1>4, <1>5

LEMMA SyncWon ==
  ASSUME HInv, NEW p \in Proc, SyncStep(p)
  PROVE  Sources' /\ HistoryTypeOK' /\ \A q \in Proc : Won(sync[q])'
<1>1. /\ sync[p] \in Frame /\ Rivals(sync[p]) /\ Unseen(sync[p]) /\ FrameOK(sync[p])
  BY DEF HInv, IInv, StateTypeOK, Won, Rest, FramesOK
<1>2. UNCHANGED <<server, author, foreign, unheard, rival, read_only>>
  BY DEF SyncStep, PushStep, PullStep, PushItem, PushDone, PushAnswer, UpdateNotFound, TagAnswer,
     IndexAnswer, FetchAnswer, RetagAnswer, Failed, Finish, history
<1>3. Sources' /\ HistoryTypeOK'
  BY <1>2 DEF HInv, Sources, HistoryTypeOK
<1> SUFFICES \A q \in Proc : Won(sync[q])'
  BY <1>3
<1>4. Syncs(p)
  BY DEF SyncStep, PushStep, PullStep, PushItem, PushDone, PushAnswer, UpdateNotFound, TagAnswer,
     IndexAnswer, FetchAnswer, RetagAnswer, Failed, Finish, Syncs, Awaiting
<1>5. ASSUME NEW g, sync' = [sync EXCEPT ![p] = g],
             \/ g.pc \notin Pushing \cup {"fetch"}
             \/ g.reply = "none" /\ g.pc \notin {"recreate", "fetch"}
             \/ g.reply = "none" /\ g.pc = "fetch" /\ file' = file
      PROVE  \A q \in Proc : Won(sync[q])'
  BY <1>2, <1>4, <1>5, NothingWon, WonStep
<1>6. ASSUME NEW h \in Frame, NEW items
      PROVE  Loaded(h, items).pc = h.pc /\ Loaded(h, items).reply = h.reply
  BY LoadedType
<1>7. /\ \A pc \in Awaiting : Await(p, pc).pc = pc /\ Await(p, pc).reply = "none"
      /\ \A ok \in BOOLEAN : Leave(p, ok).pc = "end" /\ Leave(p, ok) \in Frame
      /\ Pulled(p).pc \in {"retag", "end"} /\ Pulled(p) \in Frame
      /\ NextItem(p).pc = "push" /\ NextItem(p) \in Frame
  <2>1. /\ \A pc \in Awaiting : Await(p, pc).pc = pc /\ Await(p, pc).reply = "none"
        /\ NextItem(p).pc = "push"
    BY <1>1 DEF Await, NextItem, Frame
  <2>2. /\ \A ok \in BOOLEAN : Leave(p, ok).pc = "end"
        /\ Pulled(p).pc \in {"retag", "end"}
    BY DEF Leave, Pulled, Idle
  <2> QED
    BY <2>1, <2>2, FrameTypes DEF HInv, IInv
<1>8. ASSUME NEW u \in Uid, PushItem(p, u) PROVE \A q \in Proc : Won(sync[q])'
  <2> DEFINE item == mem[p].items[u]
             rest == [sync[p] EXCEPT !.todo = @ \ {u}]
             request == CASE item.state = "new" -> "create"
                          [] item.state = "modified" -> "update"
                          [] item.state = "deleted" -> "remove"
             g == [rest EXCEPT !.pc = request, !.uid = u, !.attached = TRUE,
                               !.sent = item.data, !.etag = item.etag]
  <2>1. /\ sync[p].pc = "push" /\ sync[p].reply = "none" /\ rest \in Frame
        /\ rest.pc = "push" /\ rest.reply = "none"
    BY <1>1, <1>8 DEF PushItem, FrameOK, Heard, Frame
  <2>2. CASE sync' = [sync EXCEPT ![p] = rest]
    BY <1>5, <2>1, <2>2 DEF Pushing
  <2>3. CASE \E mirror : Edit(p, mirror, rest)
    <3>1. PICK mirror : sync' = [sync EXCEPT ![p] = Loaded(rest, mirror.items)]
      BY <2>3 DEF Edit
    <3>2. Loaded(rest, mirror.items).pc = "push"
      BY <1>6, <2>1
    <3> HIDE DEF rest
    <3> QED
      BY <1>5, <3>1, <3>2 DEF Pushing
  <2>4. CASE sync' = [sync EXCEPT ![p] = g] /\ item.state # "clean"
    <3>1. item \in Item
      BY <1>8 DEF PushItem, HInv, IInv, Rest, TodoPresent, StateTypeOK, Mirror
    <3>2. request \in {"create", "update", "remove"}
      BY <2>4, <3>1 DEF Item, State
    <3>3. g.pc = request /\ g.reply = "none"
      <4> HIDE DEF request, item
      <4> QED
        BY <2>1 DEF Frame
    <3> HIDE DEF g, request
    <3> QED
      BY <1>5, <2>4, <3>2, <3>3
  <2> QED
    BY <1>8, <2>2, <2>3, <2>4 DEF PushItem
<1>9. CASE PushAnswer(p)
  <2>1. PICK mirror : sync' = [sync EXCEPT ![p] = Loaded(NextItem(p), mirror.items)]
    BY <1>9 DEF PushAnswer, Edit
  <2> DEFINE g == Loaded(NextItem(p), mirror.items)
  <2>2. sync' = [sync EXCEPT ![p] = g] /\ g.pc = "push"
    BY <1>6, <1>7, <2>1
  <2> HIDE DEF g
  <2> QED
    BY <1>5, <2>2 DEF Pushing
<1>10. ASSUME NEW mirror, Edit(p, mirror, Pulled(p)) PROVE \A q \in Proc : Won(sync[q])'
  <2>1. sync' = [sync EXCEPT ![p] = Loaded(Pulled(p), mirror.items)]
    BY <1>10 DEF Edit
  <2> DEFINE g == Loaded(Pulled(p), mirror.items)
  <2>2. sync' = [sync EXCEPT ![p] = g] /\ g.pc \in {"retag", "end"}
    BY <1>6, <1>7, <2>1
  <2> HIDE DEF g
  <2> QED
    BY <1>5, <2>2 DEF Pushing
<1>11. CASE IndexAnswer(p)
  <2> DEFINE wanted == {u \in Uid : sync[p].texts[u] # 0 /\ LET item == mem[p].items[u] IN
                          \/ ~item.href
                          \/ item.state = "clean" /\ item.etag # sync[p].texts[u]}
             g == [Await(p, "fetch") EXCEPT !.index = sync[p].texts, !.wanted = wanted]
  <2>1. CASE sync' = [sync EXCEPT ![p] = g] /\ file' = file
    <3>1. g.pc = "fetch" /\ g.reply = "none"
      BY <1>1 DEF Await, Frame
    <3> HIDE DEF g
    <3>2. PICK h : sync' = [sync EXCEPT ![p] = h] /\ h.pc = "fetch" /\ h.reply = "none"
      BY <2>1, <3>1
    <3> QED
      BY <1>5, <2>1, <3>2
  <2>2. \/ sync' = [sync EXCEPT ![p] = g] /\ file' = file
        \/ \E mirror : Edit(p, mirror, Pulled(p))
    BY <1>11 DEF IndexAnswer
  <2> HIDE DEF g
  <2> QED
    BY <1>10, <2>1, <2>2
<1>12. CASE UpdateNotFound(p)
  <2>1. /\ sync' = [sync EXCEPT ![p] = Await(p, "recreate")] /\ file' = file
        /\ sync[p].pc = "update" /\ sync[p].reply = "not_found"
    BY <1>12 DEF UpdateNotFound
  <2> DEFINE g == Await(p, "recreate")
  <2>2. /\ g.pc = "recreate" /\ g.reply = "none" /\ g.uid = sync[p].uid /\ g.etag = sync[p].etag
    BY <1>1 DEF Await, Frame
  <2>3. sync' = [sync EXCEPT ![p] = g]
    BY <2>1
  <2> HIDE DEF g
  <2>4. Rivals(g) /\ Unseen(g) /\ Taken(g)
    BY <1>1, <2>1, <2>2 DEF Rivals, Unseen, Taken
  <2> QED
    BY <1>2, <2>1, <2>3, <2>4, WonStep
<1>13. ASSUME \E g : sync' = [sync EXCEPT ![p] = g] /\ g.pc \in {"tag", "index", "end", "idle"}
       PROVE  \A q \in Proc : Won(sync[q])'
  <2>1. PICK g : sync' = [sync EXCEPT ![p] = g] /\ g.pc \in {"tag", "index", "end", "idle"}
    BY <1>13
  <2> QED
    BY <1>5, <2>1 DEF Pushing
<1>14. ASSUME NEW h \in Frame, NEW t PROVE [h EXCEPT !.before = t].pc = h.pc
  BY DEF Frame
<1>15. CASE PushDone(p)
  BY <1>7, <1>13, <1>15 DEF PushDone, Awaiting
<1>16. CASE Failed(p)
  BY <1>7, <1>13, <1>16 DEF Failed
<1>17. CASE TagAnswer(p)
  <2> DEFINE next == IF Downloads(p, sync[p].tag) THEN Await(p, "index") ELSE Leave(p, TRUE)
             g == [next EXCEPT !.before = sync[p].tag]
  <2>1. sync' = [sync EXCEPT ![p] = g]
    BY <1>17 DEF TagAnswer
  <2>2. Await(p, "index") \in Frame
    BY FrameTypes DEF HInv, IInv, Awaiting
  <2>3. next.pc \in {"index", "end"} /\ next \in Frame
    BY <1>7, <2>2 DEF Awaiting
  <2> HIDE DEF next
  <2>4. g.pc \in {"index", "end"}
    BY <1>14, <2>3
  <2> HIDE DEF g
  <2> QED
    BY <1>13, <2>1, <2>4
<1>18. CASE RetagAnswer(p)
  <2>1. PICK t : sync' = [sync EXCEPT ![p] = [Leave(p, TRUE) EXCEPT !.before = t]]
    BY <1>18 DEF RetagAnswer
  <2> DEFINE g == [Leave(p, TRUE) EXCEPT !.before = t]
  <2>2. g.pc = "end" /\ sync' = [sync EXCEPT ![p] = g]
    BY <1>7, <1>14, <2>1
  <2> HIDE DEF g
  <2> QED
    BY <1>13, <2>2
<1>19. CASE Finish(p)
  <2>1. PICK mirror : sync' = [sync EXCEPT ![p] = Loaded(Idle, mirror.items)]
    BY <1>19 DEF Finish, Edit
  <2> DEFINE g == Loaded(Idle, mirror.items)
  <2>2. g.pc = "idle" /\ sync' = [sync EXCEPT ![p] = g]
    BY <1>6, <2>1, IdleType
  <2> HIDE DEF g
  <2> QED
    BY <1>13, <2>2
<1> QED
  BY <1>8, <1>9, <1>10, <1>11, <1>12, <1>15, <1>16, <1>17, <1>18,
     <1>19 DEF SyncStep, PushStep, PullStep, FetchAnswer

\* Why a request was refused.
LEMMA RefusedWon ==
  ASSUME HInv, IInv', NEW p \in Proc, sync[p].reply = "none", sync[p].pc \in Pushing,
         Refused(p), UNCHANGED <<file, read_only, foreign, unheard>>,
         \/ sync[p].pc \in {"create", "recreate"} /\ server[sync[p].uid] # 0
         \/ sync[p].pc \in {"update", "remove"} /\ ~Matches(sync[p].uid, sync[p].etag)
  PROVE  Sources' /\ HistoryTypeOK' /\ \A q \in Proc : Won(sync[q])'
<1>0. PICK f, u, g : f = sync[p] /\ u = f.uid /\ g = [f EXCEPT !.reply = "conflict"]
  OBVIOUS
<1>1. /\ f \in Frame /\ u \in Uid /\ FrameOK(f) /\ Syncs(p) /\ Unseen(f) /\ server \in Texts
      /\ ItemOK(file.items[u])
      /\ f.reply = "none" /\ f.pc \in Pushing
  BY <1>0 DEF HInv, IInv, StateTypeOK, Frame, Rest, FramesOK, Syncs, Pushing, Won, ItemsOK
<1>2. /\ sync' = [sync EXCEPT ![p] = g] /\ rival' = server[u]
      /\ UNCHANGED <<server, ctag, author, stored>>
  BY <1>0 DEF Refused, Reply, Untouched
<1>3. /\ g.pc = f.pc /\ g.uid = u /\ g.etag = f.etag /\ g.reply = "conflict"
  BY <1>0, <1>1 DEF Frame
<1>4. /\ sync'[p] = g /\ \A q \in Proc : q # p => sync'[q] = sync[q]
  BY <1>2 DEF HInv, IInv, StateTypeOK
<1>5. Heard(g)' /\ Requested(f)
  BY <1>1, <1>4 DEF IInv, Rest, FramesOK, FrameOK
<1>6. server[u] \in foreign \cup unheard \cup {0}
  <2>1. Theirs(u)' /\ ~read_only
    BY <1>1, <1>3, <1>5 DEF Heard, Requested
  <2> QED
    BY <1>1, <1>2, <2>1 DEF Theirs, HInv, Sources
<1>7. server[u] = 0 \/ server[u] # f.etag
  <2>1. CASE f.pc = "create"
    BY <1>0, <1>1, <1>5, <2>1 DEF Requested, ItemOK, Pushing
  <2>2. CASE f.pc = "recreate"
    BY <1>0, <1>1, <2>2 DEF Unseen
  <2>3. CASE f.pc \in {"update", "remove"}
    BY <1>0, <1>1, <2>3 DEF Matches
  <2> QED
    BY <1>1, <2>1, <2>2, <2>3 DEF Pushing
<1>8. Won(sync[p])'
  BY <1>1, <1>2, <1>3, <1>4, <1>6, <1>7 DEF Won, Rivals, Unseen, Taken, Pushing
<1>9. ASSUME NEW q \in Proc, q # p PROVE Won(sync[q])'
  <2>1. sync[q].pc \in {"idle", "lock"}
    BY <1>1, <1>9, OthersIdle DEF HInv
  <2> QED
    BY <1>4, <1>9, <2>1 DEF Won, Rivals, Unseen, Taken, Pushing
<1>10. Sources'
  BY <1>2 DEF HInv, Sources
<1>11. HistoryTypeOK'
  BY <1>1, <1>2 DEF HInv, HistoryTypeOK, Texts
<1> QED
  BY <1>8, <1>9, <1>10, <1>11

LEMMA ServeWon ==
  ASSUME HInv, IInv', NEW p \in Proc, Serve(p)
  PROVE  Sources' /\ HistoryTypeOK' /\ \A q \in Proc : Won(sync[q])'
<1>0. PICK f, u : f = sync[p] /\ u = f.uid
  OBVIOUS
<1>1. /\ f \in Frame /\ u \in Uid /\ f.pc \in Awaiting /\ f.reply = "none" /\ Syncs(p)
      /\ server \in Texts /\ UNCHANGED <<file, read_only, foreign, unheard>>
  BY <1>0 DEF Serve, HInv, IInv, StateTypeOK, Frame, Syncs, Awaiting
<1>2. ASSUME NEW g, sync' = [sync EXCEPT ![p] = g], Rivals(g)', Unseen(g)', Taken(g)'
      PROVE  \A q \in Proc : Won(sync[q])'
  <2>1. sync'[p] = g /\ \A q \in Proc : q # p => sync'[q] = sync[q]
    BY <1>2 DEF HInv, IInv, StateTypeOK
  <2>2. ASSUME NEW q \in Proc, q # p PROVE Won(sync[q])'
    <3>1. sync'[q].pc \in {"idle", "lock"}
      BY <1>1, <2>1, <2>2, OthersIdle DEF HInv
    <3> QED
      BY <3>1 DEF Won, Rivals, Unseen, Taken, Pushing
  <2> QED
    BY <1>2, <2>1, <2>2 DEF Won
<1>3. ASSUME f.pc \in Pushing, NEW text, Store(p, u, text)
      PROVE  Sources' /\ HistoryTypeOK' /\ \A q \in Proc : Won(sync[q])'
  <2>0. PICK g : g = [f EXCEPT !.reply = "ok"]
    OBVIOUS
  <2>1. /\ sync' = [sync EXCEPT ![p] = g] /\ rival' = rival /\ author'[u] = "sync"
        /\ \A v \in Uid : v # u => author'[v] = author[v] /\ server'[v] = server[v]
    BY <1>0, <1>1, <1>3, <2>0 DEF Store, Reply, HInv, IInv, StateTypeOK, Texts
  <2>2. g.pc = f.pc /\ g.reply = "ok"
    BY <1>1, <2>0 DEF Frame
  <2>3. Sources'
    BY <1>1, <2>1 DEF HInv, Sources
  <2>4. HistoryTypeOK'
    BY <1>1, <2>1 DEF HInv, HistoryTypeOK
  <2>5. Rivals(g)' /\ Unseen(g)' /\ Taken(g)'
    BY <1>3, <2>2 DEF Rivals, Unseen, Taken, Pushing
  <2> QED
    BY <1>2, <2>1, <2>3, <2>4, <2>5
<1>4. ASSUME Untouched, rival' = rival PROVE Sources' /\ HistoryTypeOK'
  BY <1>1, <1>4 DEF Untouched, HInv, Sources, HistoryTypeOK
<1>5. ASSUME NEW k \in {"ok", "not_found"}, Answer(p, k), f.pc \in {"update", "remove"},
             server[u] = 0
      PROVE  Sources' /\ HistoryTypeOK' /\ \A q \in Proc : Won(sync[q])'
  <2>0. PICK g : g = [f EXCEPT !.reply = k]
    OBVIOUS
  <2>1. /\ sync' = [sync EXCEPT ![p] = g] /\ UNCHANGED <<server, rival>> /\ Untouched
    BY <1>0, <1>5, <2>0 DEF Answer, Reply, Untouched
  <2>2. g.pc = f.pc /\ g.reply = k /\ g.uid = u
    <3>1. CASE k = "ok"
      BY <1>0, <1>1, <2>0, <3>1 DEF Frame
    <3>2. CASE k = "not_found"
      BY <1>0, <1>1, <2>0, <3>2 DEF Frame
    <3> QED
      BY <1>5, <3>1, <3>2
  <2>3. g.reply \notin {"conflict", "none"} /\ g.pc # "fetch" /\ server'[g.uid] = 0
    BY <1>5, <2>1, <2>2
  <2>4. Rivals(g)' /\ Unseen(g)' /\ Taken(g)'
    <3>1. Rivals(g)' /\ Taken(g)'
      BY <2>3 DEF Rivals, Taken
    <3>2. Unseen(g)'
      BY <2>3 DEF Unseen
    <3> QED
      BY <3>1, <3>2
  <2> QED
    BY <1>2, <1>4, <2>1, <2>4
<1>6. CASE f.pc \in {"create", "recreate"}
  BY <1>0, <1>1, <1>3, <1>6, RefusedWon DEF Serve, Pushing
<1>7. CASE f.pc = "update"
  BY <1>0, <1>1, <1>3, <1>5, <1>7, RefusedWon DEF Serve, Pushing
<1>8. CASE f.pc = "remove"
  BY <1>0, <1>1, <1>3, <1>5, <1>8, RefusedWon DEF Serve, Pushing
<1>9. CASE f.pc \in {"tag", "retag", "index"}
  <2> DEFINE tagged == [f EXCEPT !.reply = "ok", !.tag = ctag]
             got == [f EXCEPT !.reply = "ok", !.texts = server]
  <2>1. /\ sync' = [sync EXCEPT ![p] = tagged] \/ sync' = [sync EXCEPT ![p] = got]
        /\ Untouched /\ rival' = rival
    BY <1>0, <1>9 DEF Serve
  <2>2. tagged.pc = f.pc /\ got.pc = f.pc
    BY <1>1 DEF Frame
  <2> HIDE DEF tagged, got
  <2>3. PICK g : sync' = [sync EXCEPT ![p] = g] /\ g.pc = f.pc
    BY <2>1, <2>2
  <2>4. Rivals(g)' /\ Unseen(g)' /\ Taken(g)'
    BY <1>9, <2>3 DEF Rivals, Unseen, Taken, Pushing
  <2> QED
    BY <1>2, <1>4, <2>1, <2>3, <2>4
<1>10. CASE f.pc = "fetch"
  <2>0. PICK fetched, g :
          /\ fetched = [v \in Uid |-> IF v \in f.wanted THEN server[v] ELSE 0]
          /\ g = [f EXCEPT !.reply = "ok", !.texts = fetched]
    OBVIOUS
  <2>1. sync' = [sync EXCEPT ![p] = g] /\ Untouched /\ rival' = rival
    BY <1>0, <1>10, <2>0 DEF Serve
  <2>2. g.pc = f.pc /\ g.texts = fetched
    BY <1>1, <2>0 DEF Frame
  <2>3. \A v \in Uid : fetched[v] # 0 => fetched[v] = server[v]
    BY <2>0
  <2>4. ASSUME NEW v \in Uid, server[v] # 0, ~file.items[v].href
        PROVE  read_only \/ server[v] \in foreign \cup unheard
    <3>1. \A q \in Proc : sync[q].pc \notin Pushing
      BY <1>0, <1>1, <1>10, OthersIdle DEF HInv, Pushing
    <3>2. Theirs(v)
      BY <2>4, <3>1 DEF HInv, IInv, Rest, VersionsKnown, Knows, InFlight
    <3> QED
      BY <2>4, <3>2 DEF Theirs, HInv, Sources
  <2>5. Rivals(g)' /\ Unseen(g)' /\ Taken(g)'
    BY <1>1, <1>10, <2>2, <2>3, <2>4 DEF Rivals, Unseen, Taken, Pushing
  <2> QED
    BY <1>2, <1>4, <2>1, <2>5
<1> QED
  BY <1>1, <1>6, <1>7, <1>8, <1>9, <1>10 DEF Awaiting

LEMMA FaultWon ==
  ASSUME HInv, NEW p \in Proc, NetworkFault(p) \/ Crash(p)
  PROVE  Sources' /\ HistoryTypeOK' /\ \A q \in Proc : Won(sync[q])'
<1>1. /\ sync[p] \in Frame /\ sync[p].uid \in Uid /\ FrameOK(sync[p])
      /\ UNCHANGED <<file, server, foreign, rival, read_only>>
  BY DEF NetworkFault, LoseRequest, LoseReply, NoTagReply, Crash, May, history, HInv, IInv,
     StateTypeOK, Frame, Rest, FramesOK
<1>2. UNCHANGED <<author, unheard>> \/ Unheard(p)
  BY DEF NetworkFault, LoseRequest, LoseReply, NoTagReply, Crash, history
<1>3. PICK g : /\ sync' = [sync EXCEPT ![p] = g]
               /\ g.reply \in {"network", "other"} \/ g.pc = "idle"
  <2>1. \A k : [sync[p] EXCEPT !.reply = k].reply = k
    BY <1>1 DEF Frame
  <2> QED
    BY <2>1, IdleType DEF NetworkFault, LoseRequest, LoseReply, NoTagReply, Crash, Reply
<1>4. unheard \subseteq unheard' /\ HistoryTypeOK'
  BY <1>1, <1>2 DEF Unheard, HInv, HistoryTypeOK, Frame
<1>5. Sources'
  <2>1. CASE UNCHANGED <<author, unheard>>
    BY <1>1, <2>1 DEF HInv, Sources
  <2>2. CASE Unheard(p) /\ sync[p].pc \in Pushing /\ sync[p].reply = "ok"
    <3> DEFINE u == sync[p].uid
    <3>1. /\ author' = [author EXCEPT ![u] = IF @ = "sync" THEN "lost" ELSE @]
          /\ unheard' = IF sync[p].pc = "remove" THEN unheard ELSE unheard \cup {sync[p].sent}
      BY <2>2 DEF Unheard, Pushing
    <3>2. /\ author'[u] = IF author[u] = "sync" THEN "lost" ELSE author[u]
          /\ \A v \in Uid : v # u => author'[v] = author[v]
      BY <1>1, <3>1 DEF HInv, IInv, StateTypeOK
    <3>3. author[u] = "sync" => server[u] \in unheard' \cup {0}
      BY <1>1, <2>2, <3>1 DEF FrameOK, Heard, Pushing
    <3> QED
      BY <1>1, <1>4, <3>2, <3>3 DEF HInv, Sources
  <2>3. CASE Unheard(p) /\ ~(sync[p].pc \in Pushing /\ sync[p].reply = "ok")
    BY <2>1, <2>3 DEF Unheard, Pushing
  <2> QED
    BY <1>2, <2>1, <2>2, <2>3
<1>6. ASSUME NEW q \in Proc PROVE Won(sync[q])'
  <2>1. sync'[p] = g /\ \A r \in Proc : r # p => sync'[r] = sync[r]
    BY <1>3 DEF HInv, IInv, StateTypeOK
  <2>2. CASE q = p
    BY <1>3, <2>1, <2>2 DEF Won, Rivals, Unseen, Taken, Pushing
  <2>3. CASE q # p
    BY <1>1, <1>4, <2>1, <2>3 DEF HInv, Won, Rivals, Unseen, Taken
  <2> QED
    BY <2>2, <2>3
<1> QED
  BY <1>4, <1>5, <1>6

LEMMA HistoryStep == HInv /\ [Next]_vars => HInv'
<1> SUFFICES ASSUME HInv, [Next]_vars PROVE HInv'
  OBVIOUS
<1>1. IInv' /\ StateTypeOK'
  BY InductiveStep DEF HInv, IInv
<1>2. Past'
  BY <1>1, PastNext DEF HInv
<1>3. CASE UNCHANGED vars
  <2>1. Sources' /\ HistoryTypeOK'
    BY <1>3 DEF vars, HInv, Sources, HistoryTypeOK
  <2>2. \A q \in Proc : Won(sync[q])'
    BY <1>3 DEF vars, HInv, Won, Rivals, Unseen, Taken
  <2> QED
    BY <1>1, <1>2, <2>1, <2>2 DEF HInv
<1>4. CASE Next
  BY <1>1, <1>2, <1>4, UserWon, DeviceWon, SyncWon, ServeWon, FaultWon DEF Next, HInv
<1> QED
  BY <1>3, <1>4

\* The invariant, and where the versions came from.
LEMMA History == Spec => []HInv
<1>1. Init => HInv
  BY InitTypeOK, InitRest, InitHistory DEF HInv, IInv
<1> QED
  BY <1>1, HistoryStep, PTL DEF Spec

-----------------------------------------------------------------------------
(* What a step of a sync makes of an item.                                 *)

\* What a step of sync() makes of an item: nothing, or it takes an edit back
\* (read-only, the conflict of its own request), or it settles an upload or a
\* deletion, or it takes over the download, never over a change of an item the
\* server knows, and over a new item only what was fetched for it.
ItemStep(p, u, item, now) ==
  \/ now = item
  \/ /\ read_only \/ (sync[p].pc \in Pushing /\ sync[p].reply = "conflict" /\ sync[p].uid = u)
     /\ Theirs(u) /\ (item.href => now # Absent)
  \/ /\ now.href
     /\ item.state \in {"new", "modified"} =>
          \/ now.state = "modified" /\ now.data = item.data
          \/ item.data \in stored
  \/ /\ server[u] = 0 \/ author[u] = "device"
     /\ item.state \in {"new", "modified"} => now.state = "new" /\ now.data = item.data
  \/ /\ item.state \notin {"modified", "deleted"}
     /\ item.state = "new" =>
          /\ sync[p].pc = "fetch" /\ sync[p].reply = "ok" /\ ~item.href
          /\ sync[p].texts[u] # 0 /\ now.etag = sync[p].texts[u]

LEMMA PushedItem ==
  ASSUME IInv, NEW p \in Proc, PushAnswer(p), NEW u \in Uid
  PROVE  ItemStep(p, u, file.items[u], file'.items[u])
<1> DEFINE f == Loaded(sync[p], file.items)
           item == file.items[f.uid]
           entry == Answered(item, f)
<1>1. /\ sync[p].pc \in Pushing /\ sync[p].reply \in {"ok", "conflict"}
      /\ file' = Changed(f.uid, entry)
  BY DEF PushAnswer, Pushing, Edit
<1>2. /\ sync[p] \in Frame /\ FrameOK(sync[p]) /\ file \in Mirror
      /\ file.items \in [Uid -> Entry]
  BY DEF IInv, StateTypeOK, Mirror, Entry, Rest, FramesOK
<1>3. /\ f.pc = sync[p].pc /\ f.reply = sync[p].reply /\ f.sent = sync[p].sent
      /\ f.uid = sync[p].uid
  BY <1>2, LoadedType
<1>4. /\ f.uid \in Uid /\ item \in Entry /\ entry \in Entry
      /\ f.reply = "conflict" =>
           entry = item \/ (entry.state = "clean" /\ entry.etag = 0 /\ entry.href = item.href)
      /\ f.reply = "ok" /\ f.pc # "remove" =>
           /\ entry.href
           /\ item.state \in {"new", "modified"} =>
                /\ entry.data = item.data
                /\ entry.state = "modified" \/ (entry.state = "clean" /\ item.data = f.sent)
      /\ f.reply = "ok" /\ f.pc = "remove" =>
           (item.state \in {"new", "modified"} => entry.state = "new" /\ entry.data = item.data)
  BY <1>1, AnswerShape
<1>5. file'.items = [file.items EXCEPT ![f.uid] = entry]
  BY <1>1, <1>2, <1>4, ChangedType
<1>6. Heard(sync[p])
  BY <1>2 DEF FrameOK
<1> HIDE DEF f, entry
<1>7. CASE u # f.uid
  BY <1>2, <1>4, <1>5, <1>7 DEF ItemStep
<1>8. CASE u = f.uid
  <2>1. file.items[u] = item /\ file'.items[u] = entry
    BY <1>2, <1>4, <1>5, <1>8
  <2>2. CASE f.reply = "conflict"
    <3>1. Theirs(u)
      BY <1>1, <1>3, <1>6, <1>8, <2>2 DEF Heard
    <3> QED
      BY <1>1, <1>3, <1>4, <1>8, <2>1, <2>2, <3>1 DEF ItemStep, Absent
  <2>3. CASE f.reply = "ok" /\ f.pc # "remove"
    <3>1. f.sent \in stored
      BY <1>1, <1>3, <1>6, <2>3 DEF Heard, Pushing
    <3> QED
      BY <1>4, <2>1, <2>3, <3>1 DEF ItemStep
  <2>4. CASE f.reply = "ok" /\ f.pc = "remove"
    <3>1. server[u] = 0 \/ author[u] = "device"
      BY <1>1, <1>3, <1>6, <1>8, <2>4 DEF Heard
    <3> QED
      BY <1>4, <2>1, <2>4, <3>1 DEF ItemStep
  <2> QED
    BY <1>1, <1>3, <2>2, <2>3, <2>4
<1> QED
  BY <1>7, <1>8

\* A download takes over what it fetched, and nothing over a change of an item
\* that has an address.
LEMMA PulledItem ==
  ASSUME IInv, NEW p \in Proc, sync[p].pc \in {"index", "fetch"},
         NEW index, NEW texts, NEW u \in Uid,
         file' = [file EXCEPT !.items = Downloaded(@, index, texts)],
         texts[u] # 0 =>
           sync[p].pc = "fetch" /\ sync[p].reply = "ok" /\ texts[u] = sync[p].texts[u]
  PROVE  ItemStep(p, u, file.items[u], file'.items[u])
<1> DEFINE item == file.items[u]
           now == Downloaded(file.items, index, texts)
<1>1. /\ file \in Mirror /\ file.items \in [Uid -> Entry] /\ ItemOK(item) /\ item \in Entry
  BY DEF IInv, StateTypeOK, Mirror, Entry, Rest, ItemsOK
<1>2. file'.items = now
  BY <1>1 DEF Mirror
<1>3. \/ item.state = "clean" /\ item.href /\ texts[u] = 0
      \/ now[u] = item
      \/ texts[u] # 0 /\ ~(item.href /\ item.state # "clean")
  BY DEF Downloaded
<1>4. CASE texts[u] # 0 /\ item.state = "new"
  <2>1. ~item.href
    BY <1>1, <1>4 DEF ItemOK
  <2>2. now[u].etag = texts[u]
    BY <1>4, <2>1 DEF Downloaded
  <2> HIDE DEF now
  <2> QED
    BY <1>2, <1>4, <2>1, <2>2 DEF ItemStep
<1>5. CASE item.state # "new" \/ texts[u] = 0
  <2>1. item.state \in {"modified", "deleted"} => item.href
    BY <1>1 DEF ItemOK
  <2> HIDE DEF now
  <2> QED
    BY <1>2, <1>3, <1>5, <2>1 DEF ItemStep
<1> QED
  BY <1>4, <1>5

LEMMA SyncedItem ==
  ASSUME IInv, NEW p \in Proc, SyncStep(p), NEW u \in Uid
  PROVE  ItemStep(p, u, file.items[u], file'.items[u])
<1>1. /\ file \in Mirror /\ file.items \in [Uid -> Entry] /\ FrameOK(sync[p])
      /\ sync[p] \in Frame
  BY DEF IInv, StateTypeOK, Mirror, Entry, Rest, FramesOK
<1>2. ASSUME NEW v \in Uid, PushItem(p, v) PROVE ItemStep(p, u, file.items[u], file'.items[u])
  <2> DEFINE now == file.items[v]
             reverted == IF now = Absent \/ now.state = "clean" THEN now
                         ELSE IF now.href THEN [now EXCEPT !.state = "clean", !.etag = 0]
                         ELSE Absent
  <2>1. UNCHANGED file \/ (read_only /\ file' = Changed(v, reverted))
    BY <1>2 DEF PushItem, Edit
  <2>2. reverted \in Entry
    <3>1. now \in Entry /\ Absent \in Entry /\ 0 \in Data
      BY <1>1, BoundsAssumption DEF Entry, Data
    <3>2. now # Absent => [now EXCEPT !.state = "clean", !.etag = 0] \in Item
      BY <3>1 DEF Entry, Item, State
    <3> HIDE DEF now
    <3> QED
      BY <3>1, <3>2 DEF Entry
  <2>3. now.href /\ now # Absent => reverted # Absent
    BY <1>1 DEF Entry, Item, Absent
  <2> HIDE DEF reverted
  <2>4. CASE read_only /\ file' = Changed(v, reverted)
    <3>1. file'.items = [file.items EXCEPT ![v] = reverted]
      BY <1>1, <2>2, <2>4, ChangedType
    <3> QED
      BY <1>1, <2>3, <2>4, <3>1 DEF ItemStep, Theirs, Absent
  <2> QED
    BY <2>1, <2>4 DEF ItemStep
<1>3. CASE PushAnswer(p)
  BY <1>3, PushedItem
<1>4. CASE IndexAnswer(p)
  <2>1. \/ UNCHANGED file
        \/ file' = [file EXCEPT !.items = Downloaded(@, sync[p].texts, NoTexts)]
    BY <1>4 DEF IndexAnswer, Edit
  <2>2. sync[p].pc \in {"index", "fetch"} /\ NoTexts[u] = 0
    BY <1>4 DEF IndexAnswer, NoTexts
  <2> QED
    BY <2>1, <2>2, PulledItem DEF ItemStep
<1>5. CASE FetchAnswer(p)
  <2>1. /\ sync[p].pc = "fetch" /\ sync[p].reply = "ok"
        /\ file' = [file EXCEPT !.items = Downloaded(@, sync[p].index, sync[p].texts)]
    BY <1>5 DEF FetchAnswer, Edit
  <2> QED
    BY <2>1, PulledItem
<1>6. CASE Finish(p)
  <2>1. file'.items = file.items
    BY <1>1, <1>6 DEF Finish, Edit, Mirror
  <2> QED
    BY <2>1 DEF ItemStep
<1>7. CASE PushDone(p) \/ UpdateNotFound(p) \/ TagAnswer(p) \/ RetagAnswer(p) \/ Failed(p)
  BY <1>7 DEF PushDone, UpdateNotFound, TagAnswer, RetagAnswer, Failed, ItemStep
<1> QED
  BY <1>2, <1>3, <1>4, <1>5, <1>6, <1>7 DEF SyncStep, PushStep, PullStep

-----------------------------------------------------------------------------
(* Theorems.                                                               *)

\* The mirror, the tables and the frames of sync() keep their shape: push() meets
\* only states it has a request for, and adopts an answer only into an item that
\* is there (SyncedCollection.sync, push, pull).
THEOREM TypeCorrect == Spec => []TypeOK
<1>1. HInv => TypeOK
  BY DEF HInv, IInv, HistoryTypeOK, TypeOK
<1> QED
  BY <1>1, History, PTL

\* What the mirror says of the server is so: where the stored tag is the server's,
\* skipping the download misses nothing, and no text is called clean that the
\* server never had (the early return of pull(), the tag that sync() stores).
THEOREM MirrorAgrees == Spec => []MirrorIsTrue
<1>1. IInv => MirrorIsTrue
  <2> SUFFICES ASSUME IInv PROVE MirrorIsTrue
    OBVIOUS
  <2>1. CleanIsStored
    BY DEF IInv, Rest, ItemsOK, ItemOK, CleanIsStored
  <2>2. TagIsCurrent
    BY DEF IInv, Rest, TagInStep, InStep, TagIsCurrent, Current, Absent
  <2> QED
    BY <2>1, <2>2 DEF MirrorIsTrue
<1> QED
  BY <1>1, Inductive, PTL

\* The entry of a deleted item leaves the mirror only when the item left the server
\* or another device has a newer one there (the removal in push(), adopt_created).
THEOREM DeletedOnServer == Spec => DeletionReachesServer
<1> DEFINE A == \A p \in Proc : SyncStep(p) => \A u \in Uid :
                  file.items[u].state = "deleted" /\ file'.items[u] = Absent =>
                    server[u] = 0 \/ Foreign(u)
<1>1. IInv => A
  <2> SUFFICES ASSUME IInv, NEW p \in Proc, SyncStep(p), NEW u \in Uid,
                      file.items[u].state = "deleted", file'.items[u] = Absent
               PROVE  server[u] = 0 \/ Foreign(u)
    OBVIOUS
  <2>1. ItemStep(p, u, file.items[u], file'.items[u])
    BY SyncedItem
  <2>2. file.items[u].href
    BY DEF IInv, Rest, ItemsOK, ItemOK
  <2> QED
    BY <2>1, <2>2 DEF ItemStep, Foreign, Absent
<1>2. IInv => [A]_vars
  BY <1>1
<1> QED
  BY <1>2, Inductive, PTL DEF DeletionReachesServer

\* A local edit waits in the mirror until a sync stored it, or a version the mirror
\* had not seen takes its place: another device's, or one of an upload of its own
\* that was never heard of, at the moment the server refused the edit or when the
\* download fetched it; unless the server refused it for an item that is gone.
\* put() may come at any point of the sync (push(), pull(), adopt_created, the
\* read of the file in begin_edit).
THEOREM EditsKept == Spec => HeardSyncKeepsEdits
<1> DEFINE A == \A p \in Proc : ~RefusedGone(p) => Keeps(p, foreign \cup unheard)
<1>1. HInv => A
  <2> SUFFICES ASSUME HInv, NEW p \in Proc, ~RefusedGone(p), SyncStep(p), NEW u \in Uid,
                      file.items[u].state \in {"new", "modified"}
               PROVE  LET item == file.items[u]  now == file'.items[u]
                          winner == IF sync[p].reply = "conflict" THEN rival ELSE now.etag
                      IN  \/ now.state \in {"new", "modified"} /\ now.data = item.data
                          \/ item.data \in stored
                          \/ read_only
                          \/ winner \in (foreign \cup unheard) \ {item.etag}
    BY DEF Keeps
  <2>1. ItemStep(p, u, file.items[u], file'.items[u])
    BY SyncedItem DEF HInv
  <2>2. /\ Rivals(sync[p]) /\ Taken(sync[p]) /\ Requested(sync[p])
        /\ ItemOK(file.items[u])
    BY DEF HInv, IInv, Rest, FramesOK, FrameOK, ItemsOK, Won
  <2>3. CASE /\ sync[p].pc \in Pushing /\ sync[p].reply = "conflict" /\ sync[p].uid = u
    BY <2>2, <2>3 DEF Rivals, Requested, RefusedGone
  <2>4. CASE /\ sync[p].pc = "fetch" /\ sync[p].reply = "ok" /\ ~file.items[u].href
             /\ sync[p].texts[u] # 0 /\ file'.items[u].etag = sync[p].texts[u]
    BY <2>2, <2>4 DEF Taken, ItemOK
  <2> QED
    BY <2>1, <2>3, <2>4 DEF ItemStep
<1>2. HInv => [A]_vars
  BY <1>1
<1> QED
  BY <1>2, History, PTL DEF HeardSyncKeepsEdits

-----------------------------------------------------------------------------
(* Where every answer is heard.                                            *)

AllHeard == "reply" \notin Fault /\ "crash" \notin Fault

NothingLost == unheard = {}

\* Every upload is heard of, unless an answer is lost, or the process that waits
\* for it.
LEMMA NothingGetsLost == AllHeard /\ NothingLost /\ [Next]_vars => NothingLost'
<1> SUFFICES ASSUME AllHeard, [Next]_vars PROVE unheard' = unheard
  BY DEF NothingLost
<1>1. CASE UNCHANGED vars
  BY <1>1 DEF vars
<1>2. CASE \E u \in Uid : DeviceEdit(u) \/ DeviceDelete(u)
  BY <1>2 DEF DeviceEdit, DeviceDelete
<1>3. ASSUME NEW p \in Proc, UserStep(p) \/ Refresh(p) \/ Timer(p) \/ AutoSync(p) \/ Acquire(p)
      PROVE  unheard' = unheard
  BY <1>3 DEF UserStep, Put, Remove, Refresh, Timer, AutoSync, Begin, Acquire, history
<1>4. ASSUME NEW p \in Proc, PushStep(p) PROVE unheard' = unheard
  BY <1>4 DEF PushStep, PushItem, PushDone, PushAnswer, UpdateNotFound, history
<1>5. ASSUME NEW p \in Proc, PullStep(p) \/ Failed(p) \/ Finish(p) PROVE unheard' = unheard
  BY <1>5 DEF PullStep, TagAnswer, IndexAnswer, FetchAnswer, RetagAnswer, Failed, Finish, history
<1>6. ASSUME NEW p \in Proc, Serve(p) PROVE unheard' = unheard
  BY <1>6 DEF Serve
<1>7. ASSUME NEW p \in Proc, NetworkFault(p) PROVE unheard' = unheard
  BY <1>7 DEF NetworkFault, LoseRequest, LoseReply, NoTagReply, May, AllHeard, history
<1>8. ~(\E p \in Proc : Crash(p))
  BY DEF Crash, May, AllHeard
<1> QED
  BY <1>1, <1>2, <1>3, <1>4, <1>5, <1>6, <1>7, <1>8 DEF Next, SyncStep

\* Where every answer is heard and no process dies, a local edit gives way to
\* nothing but a version of another device that the mirror had not seen, unless
\* it was refused for an item that is gone.
THEOREM ConflictsAlone == AllHeard /\ Spec => OnlyRivalsWin
<1> DEFINE A(winners) == \A p \in Proc : ~RefusedGone(p) => Keeps(p, winners)
<1> SUFFICES ASSUME AllHeard
             PROVE  Spec => OnlyRivalsWin
  OBVIOUS
<1>1. Init => NothingLost
  BY DEF Init, NothingLost
<1>2. NothingLost /\ [Next]_vars => NothingLost'
  BY NothingGetsLost
<1>3. NothingLost /\ [A(foreign \cup unheard)]_vars => [A(foreign)]_vars
  BY DEF NothingLost
<1> QED
  BY <1>1, <1>2, <1>3, EditsKept, PTL DEF Spec, HeardSyncKeepsEdits, OnlyRivalsWin
=============================================================================
