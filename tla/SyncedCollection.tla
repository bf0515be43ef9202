-------------------------- MODULE SyncedCollection --------------------------
(***************************************************************************)
(* Two-way sync of one collection (src/accounts/synced_collection.vala):   *)
(* several processes share a JSON mirror, edit it offline, and upload and  *)
(* download through a RemoteCollection that other devices change as well.  *)
(*                                                                         *)
(* A process is single threaded.  sync() runs from one `yield` to the next;*)
(* while it waits for the server the user of the same process may put() and*)
(* remove(), and other processes do what they like with the mirror.  Each  *)
(* begin_edit .. end_edit is one action: it reads the file again, changes  *)
(* it and writes it under data_lock (MirrorLock).  A request to the server *)
(* takes effect and is answered at two different moments.                  *)
(*                                                                         *)
(* Every text written by a user or a device is a fresh number, and the tag *)
(* of a version (etag) is that number: 0 is the empty text and tag.  The   *)
(* collection tag (getctag) counts the changes of the server.              *)
(***************************************************************************)
EXTENDS Naturals, FiniteSets

CONSTANTS
  Proc,      \* processes that opened the collection
  NoProc,
  Uid,       \* items; the address of an item (href) is made of its uid
  MaxData,   \* bound: texts written by users and devices
  Fault,     \* subset of {"request", "reply", "tag", "crash"}: what may fail
  MaxFaults, \* bound: failures
  Strict,    \* does the server refuse an update that carries no tag?
  ReadOnly   \* what remote.read_only may be

ASSUME NoProcAssumption == NoProc \notin Proc
ASSUME UidAssumption == Uid # {}
ASSUME BoundsAssumption == MaxData \in Nat /\ MaxFaults \in Nat
ASSUME FlagsAssumption == Strict \in BOOLEAN /\ ReadOnly \subseteq BOOLEAN

VARIABLES
  file,      \* the JSON mirror: [tag, items]
  mem,       \* per process, its table and tag
  server,    \* what the server holds for each item (0: nothing)
  ctag,      \* the tag of the collection on the server
  holder,    \* the process that holds sync_lock
  sync,      \* per process, where its sync() is and its local variables
  scheduled, \* per process, sync_source # 0
  again,     \* per process, a sync was asked for while one ran
  fresh,     \* texts written so far
  faults,    \* failures so far
  read_only, \* remote.read_only, which the server decides once
  author,    \* history: who changed each item on the server last; "lost" for
             \* a sync that never learned that it did
  stored,    \* history: texts some sync stored on the server
  foreign,   \* history: texts devices wrote
  unheard,   \* history: texts of uploads that were carried out, the answer lost
  rival,     \* history: the version the server last refused an upload for (0: none)
  retagged   \* history: file.tag was read after the download it belongs to

clients == <<mem, holder, sync, scheduled, again>>
history == <<author, stored, foreign, unheard, rival, retagged>>
vars == <<file, mem, server, ctag, holder, sync, scheduled, again, fresh, faults,
          read_only, author, stored, foreign, unheard, rival, retagged>>

-----------------------------------------------------------------------------
Data == 0 .. MaxData
State == {"clean", "new", "modified", "deleted"}
Item == [href : BOOLEAN, etag : Data, data : Data, state : State]
Absent == [href |-> FALSE, etag |-> 0, data |-> 0, state |-> "absent"]
NoTag == 0
Tag == Nat
Texts == [Uid -> Data]
NoTexts == [u \in Uid |-> 0]
Mirror == [tag : Tag, items : [Uid -> Item \cup {Absent}]]
Empty == [tag |-> NoTag, items |-> [u \in Uid |-> Absent]]

Running == {"push", "end"}
Awaiting == {"create", "update", "recreate", "remove", "tag", "index", "fetch", "retag"}

\* sync()'s frame.  todo: the items push() has yet to visit, less those whose
\* object left the table; attached: the object being pushed is in the table.
Frame == [pc : {"idle", "lock"} \cup Running \cup Awaiting,
          todo : SUBSET Uid, uid : Uid, attached : BOOLEAN, sent : Data, etag : Data,
          pushed : BOOLEAN, before : Tag, indexed : BOOLEAN, index : Texts,
          wanted : SUBSET Uid, ok : BOOLEAN,
          reply : {"none", "ok", "conflict", "not_found", "network", "other"},
          texts : Texts, tag : Tag]

Idle == [pc |-> "idle", todo |-> {}, uid |-> CHOOSE u \in Uid : TRUE,
         attached |-> FALSE, sent |-> 0, etag |-> 0, pushed |-> FALSE,
         before |-> NoTag, indexed |-> FALSE, index |-> NoTexts, wanted |-> {},
         ok |-> TRUE, reply |-> "none", texts |-> NoTexts, tag |-> NoTag]

StateTypeOK ==
  /\ file \in Mirror
  /\ mem \in [Proc -> Mirror]
  /\ server \in Texts
  /\ ctag \in Tag
  /\ holder \in Proc \cup {NoProc}
  /\ sync \in [Proc -> Frame]
  /\ scheduled \in [Proc -> BOOLEAN] /\ again \in [Proc -> BOOLEAN]
  /\ fresh \in Data /\ faults \in 0 .. MaxFaults
  /\ read_only \in ReadOnly
  /\ author \in [Uid -> {"none", "sync", "device", "lost"}]
  /\ stored \subseteq Data
  /\ retagged \in BOOLEAN

TypeOK ==
  /\ StateTypeOK
  /\ foreign \subseteq Data /\ unheard \subseteq Data /\ rival \in Data

Init ==
  /\ file = Empty
  /\ mem = [p \in Proc |-> Empty]
  /\ server = NoTexts /\ ctag = 1
  /\ holder = NoProc
  /\ sync = [p \in Proc |-> Idle]
  /\ scheduled = [p \in Proc |-> FALSE] /\ again = [p \in Proc |-> FALSE]
  /\ fresh = 0 /\ faults = 0
  /\ read_only \in ReadOnly
  /\ author = [u \in Uid |-> "none"]
  /\ stored = {} /\ foreign = {} /\ unheard = {} /\ rival = 0
  /\ retagged = FALSE

-----------------------------------------------------------------------------
(* The mirror *)

\* A frame after its process loaded a table: reload() keeps the object of an
\* item that is still there and drops the others.
Loaded(frame, items) ==
  [frame EXCEPT !.todo = {u \in @ : items[u] # Absent},
                !.attached = @ /\ items[frame.uid] # Absent]

\* begin_edit(); <the change of the table>; end_edit() in process p, which goes
\* on as `frame`.  The change is made on what reload() found in the file.
Edit(p, mirror, frame) ==
  /\ file' = mirror
  /\ mem' = [mem EXCEPT ![p] = mirror]
  /\ sync' = [sync EXCEPT ![p] = Loaded(frame, mirror.items)]

With(items, u, entry) == [file EXCEPT !.items = [items EXCEPT ![u] = entry]]
Changed(u, entry) == With(file.items, u, entry)

\* The main loop of p is free for callbacks: no sync, or one that yields.
Free(p) == sync[p].pc \notin Running

-----------------------------------------------------------------------------
(* The user of a process *)

\* A put that sets no state.
Put_Stateless(p, u) ==
  /\ Free(p) /\ fresh < MaxData
  /\ fresh' = fresh + 1
  /\ Edit(p, Changed(u, [file.items[u] EXCEPT !.data = fresh']), sync[p])
  /\ scheduled' = [scheduled EXCEPT ![p] = TRUE]
  /\ UNCHANGED <<server, ctag, holder, again, faults, read_only, history>>

Put(p, u) ==
  /\ Free(p) /\ fresh < MaxData
  /\ fresh' = fresh + 1
  /\ LET item == file.items[u]
         state == IF item = Absent THEN "new"
                  ELSE IF item.state \notin {"clean", "deleted"} THEN item.state
                  ELSE IF item.href THEN "modified" ELSE "new"
     IN  Edit(p, Changed(u, [item EXCEPT !.state = state, !.data = fresh']), sync[p])
  /\ scheduled' = [scheduled EXCEPT ![p] = TRUE]
  /\ UNCHANGED <<server, ctag, holder, again, faults, read_only, history>>

Remove(p, u) ==
  /\ Free(p) /\ mem[p].items[u] # Absent
  /\ LET item == file.items[u]
         entry == IF item.href THEN [item EXCEPT !.state = "deleted"] ELSE Absent
     IN  Edit(p, Changed(u, entry), sync[p])
  /\ scheduled' = [scheduled EXCEPT ![p] = @ \/ file.items[u] # Absent]
  /\ UNCHANGED <<server, ctag, holder, again, fresh, faults, read_only, history>>

\* refresh(), on a change of the file while watch() is on.
Refresh(p) ==
  /\ Free(p) /\ mem[p] # file
  /\ mem' = [mem EXCEPT ![p] = file]
  /\ sync' = [sync EXCEPT ![p] = Loaded(@, file.items)]
  /\ UNCHANGED <<file, server, ctag, holder, scheduled, again, fresh, faults, read_only, history>>

-----------------------------------------------------------------------------
(* Other devices change the server. *)

DeviceEdit(u) ==
  /\ fresh < MaxData
  /\ fresh' = fresh + 1
  /\ server' = [server EXCEPT ![u] = fresh'] /\ ctag' = ctag + 1
  /\ author' = [author EXCEPT ![u] = "device"]
  /\ foreign' = foreign \cup {fresh'}
  /\ UNCHANGED <<file, clients, faults, read_only, stored, unheard, rival, retagged>>

DeviceDelete(u) ==
  /\ server[u] # 0
  /\ server' = [server EXCEPT ![u] = 0] /\ ctag' = ctag + 1
  /\ author' = [author EXCEPT ![u] = "device"]
  /\ UNCHANGED <<file, clients, fresh, faults, read_only, stored, foreign, unheard, rival,
                 retagged>>

-----------------------------------------------------------------------------
(* sync() *)

\* Called by the timer of schedule_sync, or by the periodic timer of the
\* account's collections: a call during a sync is remembered.
Begin(p) ==
  /\ IF sync[p].pc = "idle"
     THEN sync' = [sync EXCEPT ![p].pc = "lock"] /\ UNCHANGED again
     ELSE again' = [again EXCEPT ![p] = TRUE] /\ UNCHANGED sync
  /\ UNCHANGED <<file, mem, server, ctag, holder, fresh, faults, read_only, history>>

Timer(p) ==
  /\ Free(p) /\ scheduled[p]
  /\ scheduled' = [scheduled EXCEPT ![p] = FALSE]
  /\ Begin(p)

AutoSync(p) ==
  /\ Free(p)
  /\ UNCHANGED scheduled
  /\ Begin(p)

\* acquire_async got the lock; refresh(), and push() takes its list of items.
Acquire(p) ==
  /\ sync[p].pc = "lock" /\ holder = NoProc
  /\ holder' = p
  /\ mem' = [mem EXCEPT ![p] = file]
  /\ sync' = [sync EXCEPT ![p] =
       [Idle EXCEPT !.pc = "push", !.todo = {u \in Uid : file.items[u] # Absent}]]
  /\ UNCHANGED <<file, server, ctag, scheduled, again, fresh, faults, read_only, history>>

\* Waiting for the answer to a request.
Await(p, pc) ==
  [sync[p] EXCEPT !.pc = pc, !.reply = "none", !.texts = NoTexts, !.tag = NoTag]

\* A deletion is forgotten when its request is sent.
PushItem_Forgets(p, u) ==
  /\ sync[p].pc = "push" /\ u \in sync[p].todo
  /\ LET item == mem[p].items[u]
         rest == [sync[p] EXCEPT !.todo = @ \ {u}]
         request == CASE item.state = "new" -> "create"
                      [] item.state = "modified" -> "update"
                      [] item.state = "deleted" -> "remove"
         sending == [rest EXCEPT !.pc = request, !.uid = u, !.attached = TRUE,
                                 !.sent = item.data, !.etag = item.etag]
     IN
     \/ /\ item.state = "clean"
        /\ sync' = [sync EXCEPT ![p] = rest]
        /\ UNCHANGED <<file, mem>>
     \/ /\ item.state = "deleted"
        /\ Edit(p, Changed(u, Absent), sending)
     \/ /\ item.state \in {"new", "modified"}
        /\ sync' = [sync EXCEPT ![p] = sending]
        /\ UNCHANGED <<file, mem>>
  /\ UNCHANGED <<server, ctag, holder, scheduled, again, fresh, faults, read_only, history>>

\* One round of push(): the item is looked at as the table has it now.
PushItem(p, u) ==
  /\ sync[p].pc = "push" /\ u \in sync[p].todo
  /\ LET item == mem[p].items[u]
         rest == [sync[p] EXCEPT !.todo = @ \ {u}]
         now == file.items[u]
         reverted == IF now = Absent \/ now.state = "clean" THEN now
                     ELSE IF now.href THEN [now EXCEPT !.state = "clean", !.etag = 0]
                     ELSE Absent
         request == CASE item.state = "new" -> "create"
                      [] item.state = "modified" -> "update"
                      [] item.state = "deleted" -> "remove"
     IN
     \/ /\ item.state = "clean"
        /\ sync' = [sync EXCEPT ![p] = rest]
        /\ UNCHANGED <<file, mem>>
     \/ /\ item.state # "clean" /\ read_only
        /\ Edit(p, Changed(u, reverted), rest)
     \/ /\ item.state # "clean" /\ ~read_only
        /\ sync' = [sync EXCEPT ![p] =
             [rest EXCEPT !.pc = request, !.uid = u, !.attached = TRUE,
                          !.sent = item.data, !.etag = item.etag]]
        /\ UNCHANGED <<file, mem>>
  /\ UNCHANGED <<server, ctag, holder, scheduled, again, fresh, faults, read_only, history>>

\* push() is over: get_tag().
PushDone(p) ==
  /\ sync[p].pc = "push" /\ sync[p].todo = {}
  /\ sync' = [sync EXCEPT ![p] = Await(p, "tag")]
  /\ UNCHANGED <<file, mem, server, ctag, holder, scheduled, again, fresh, faults, read_only, history>>

\* push() goes on after its current item.
NextItem(p) == [sync[p] EXCEPT !.pc = "push", !.reply = "none", !.pushed = TRUE,
                               !.attached = FALSE, !.sent = 0, !.etag = 0]

\* An upload that settles whatever the item has become.
Settled_Always(item, sent) == [item EXCEPT !.state = "clean"]

Settled(item, sent) ==
  [item EXCEPT !.state = IF item.data = sent THEN "clean" ELSE "modified"]

\* adopt_created: what the server made of the item becomes its address and tag.
\* An item removed meanwhile is put back as deleted, one created anew under its
\* uid becomes a change of what was just uploaded.
Created(item, f) ==
  LET uploaded == [item EXCEPT !.href = TRUE, !.etag = f.sent]
  IN  IF f.attached THEN Settled(uploaded, f.sent)
      ELSE IF item = Absent
      THEN [uploaded EXCEPT !.data = f.sent, !.state = "deleted"]
      ELSE IF ~item.href THEN [uploaded EXCEPT !.state = "modified"]
      ELSE item

\* An answered deletion removes the item whatever it has become.
Answered_Removed(item, f) ==
  CASE f.reply = "conflict" ->
         IF f.attached THEN [item EXCEPT !.state = "clean", !.etag = 0] ELSE item
    [] f.reply = "ok" /\ f.pc \in {"create", "recreate"} -> Created(item, f)
    [] f.reply = "ok" /\ f.pc = "update" ->
         IF f.attached THEN Settled([item EXCEPT !.href = TRUE, !.etag = f.sent], f.sent)
         ELSE item
    [] f.reply = "ok" /\ f.pc = "remove" -> IF f.attached THEN Absent ELSE item

\* A conflict that leaves the item as it is.
Answered_Conflict(item, f) ==
  CASE f.reply = "conflict" -> item
    [] f.reply = "ok" /\ f.pc \in {"create", "recreate"} -> Created(item, f)
    [] f.reply = "ok" /\ f.pc = "update" ->
         IF f.attached THEN Settled([item EXCEPT !.href = TRUE, !.etag = f.sent], f.sent)
         ELSE item
    [] f.reply = "ok" /\ f.pc = "remove" -> IF f.attached THEN Absent ELSE item

\* What push() makes of its item when the answer is there.  `attached` is
\* evaluated after begin_edit loaded the file again.
Answered(item, f) ==
  CASE f.reply = "conflict" ->
         IF f.attached THEN [item EXCEPT !.state = "clean", !.etag = 0] ELSE item
    [] f.reply = "ok" /\ f.pc \in {"create", "recreate"} -> Created(item, f)
    [] f.reply = "ok" /\ f.pc = "update" ->
         IF f.attached THEN Settled([item EXCEPT !.href = TRUE, !.etag = f.sent], f.sent)
         ELSE item
    [] f.reply = "ok" /\ f.pc = "remove" ->
         IF ~f.attached THEN item
         ELSE IF item.state = "deleted" THEN Absent
         ELSE [item EXCEPT !.href = FALSE, !.etag = 0, !.state = "new"]

\* The answer to create, update or remove.
PushAnswer(p) ==
  /\ sync[p].pc \in {"create", "update", "recreate", "remove"}
  /\ sync[p].reply \in {"ok", "conflict"}
  /\ LET f == Loaded(sync[p], file.items)
         entry == Answered(file.items[f.uid], f)
     IN  Edit(p, Changed(f.uid, entry), NextItem(p))
  /\ UNCHANGED <<server, ctag, holder, scheduled, again, fresh, faults, read_only, history>>

\* A changed item that is gone from the server is created again.
UpdateNotFound(p) ==
  /\ sync[p].pc = "update" /\ sync[p].reply = "not_found"
  /\ sync' = [sync EXCEPT ![p] = Await(p, "recreate")]
  /\ UNCHANGED <<file, mem, server, ctag, holder, scheduled, again, fresh, faults, read_only, history>>

\* sync() is left with its result.
Leave(p, ok) == [Idle EXCEPT !.pc = "end", !.pushed = sync[p].pushed,
                             !.before = sync[p].before,
                             !.indexed = sync[p].indexed, !.ok = ok]

\* Does a clean item wait to be fetched again?
needs_refetch(p) ==
  \E u \in Uid : LET item == mem[p].items[u] IN item.state = "clean" /\ item.etag = 0

\* Without a change of the tag, an upload or an item to fetch again the download
\* is skipped.
Downloads(p, before) ==
  before = NoTag \/ before # mem[p].tag \/ sync[p].pushed \/ needs_refetch(p)

\* get_tag()
TagAnswer(p) ==
  /\ sync[p].pc = "tag" /\ sync[p].reply \in {"ok", "other"}
  /\ LET before == sync[p].tag
         next == IF Downloads(p, before) THEN Await(p, "index") ELSE Leave(p, TRUE)
     IN  sync' = [sync EXCEPT ![p] = [next EXCEPT !.before = before]]
  /\ UNCHANGED <<file, mem, server, ctag, holder, scheduled, again, fresh, faults, read_only, history>>

\* After the download: the tag is read again if something was uploaded.
Pulled(p) ==
  IF sync[p].pushed /\ sync[p].before # NoTag
  THEN [Idle EXCEPT !.pc = "retag", !.pushed = TRUE, !.indexed = TRUE]
  ELSE [Leave(p, TRUE) EXCEPT !.indexed = TRUE]

\* pull(): the table after the download of `texts`, given the index.
Downloaded(items, index, texts) ==
  LET known == [u \in Uid |->
        IF items[u].state = "clean" /\ items[u].href /\ index[u] = 0 THEN Absent
        ELSE items[u]]
  IN [u \in Uid |->
        IF texts[u] = 0 \/ (known[u].href /\ known[u].state # "clean")
        THEN known[u]
        ELSE [href |-> TRUE, etag |-> texts[u], data |-> texts[u], state |-> "clean"]]

\* list_index(): what is new or has another tag is fetched.
IndexAnswer(p) ==
  /\ sync[p].pc = "index" /\ sync[p].reply = "ok"
  /\ LET index == sync[p].texts
         wanted == {u \in Uid : index[u] # 0 /\ LET item == mem[p].items[u] IN
                      \/ ~item.href
                      \/ item.state = "clean" /\ item.etag # index[u]}
     IN  IF wanted # {}
         THEN /\ sync' = [sync EXCEPT ![p] =
                   [Await(p, "fetch") EXCEPT !.index = index, !.wanted = wanted]]
              /\ UNCHANGED <<file, mem>>
         ELSE Edit(p, [file EXCEPT !.items = Downloaded(@, index, NoTexts)], Pulled(p))
  /\ UNCHANGED <<server, ctag, holder, scheduled, again, fresh, faults, read_only, history>>

\* fetch()
FetchAnswer(p) ==
  /\ sync[p].pc = "fetch" /\ sync[p].reply = "ok"
  /\ Edit(p, [file EXCEPT !.items = Downloaded(@, sync[p].index, sync[p].texts)],
          Pulled(p))
  /\ UNCHANGED <<server, ctag, holder, scheduled, again, fresh, faults, read_only, history>>

RetagAnswer(p) ==
  /\ sync[p].pc = "retag" /\ sync[p].reply # "none"
  /\ sync' = [sync EXCEPT ![p] =
       [Leave(p, TRUE) EXCEPT !.before = IF sync[p].reply = "ok" THEN sync[p].tag
                                         ELSE NoTag]]
  /\ UNCHANGED <<file, mem, server, ctag, holder, scheduled, again, fresh, faults, read_only, history>>

\* The network failed, or the server's error is passed on: the sync is over.
Failed(p) ==
  /\ sync[p].pc \in Awaiting \ {"retag"}
  /\ sync[p].reply = "network"
  /\ sync' = [sync EXCEPT ![p] = Leave(p, FALSE)]
  /\ UNCHANGED <<file, mem, server, ctag, holder, scheduled, again, fresh, faults, read_only, history>>

\* An end that writes the table without loading the file first.
Finish_Stale(p) ==
  /\ sync[p].pc = "end"
  /\ Edit(p, IF sync[p].ok THEN [mem[p] EXCEPT !.tag = sync[p].before] ELSE mem[p], Idle)
  /\ retagged' = IF sync[p].ok /\ sync[p].indexed THEN sync[p].pushed ELSE retagged
  /\ holder' = NoProc
  /\ scheduled' = [scheduled EXCEPT ![p] = @ \/ again[p]]
  /\ again' = [again EXCEPT ![p] = FALSE]
  /\ UNCHANGED <<server, ctag, fresh, faults, read_only, author, stored, foreign, unheard, rival>>

\* A failed sync that stores the tag it read.
Finish_Failed(p) ==
  /\ sync[p].pc = "end"
  /\ Edit(p, [file EXCEPT !.tag = sync[p].before], Idle)
  /\ retagged' = IF sync[p].ok /\ sync[p].indexed THEN sync[p].pushed ELSE retagged
  /\ holder' = NoProc
  /\ scheduled' = [scheduled EXCEPT ![p] = @ \/ again[p]]
  /\ again' = [again EXCEPT ![p] = FALSE]
  /\ UNCHANGED <<server, ctag, fresh, faults, read_only, author, stored, foreign, unheard, rival>>

\* The end of sync(): the new tag is stored, the lock released.
Finish(p) ==
  /\ sync[p].pc = "end"
  /\ Edit(p, IF sync[p].ok THEN [file EXCEPT !.tag = sync[p].before] ELSE file, Idle)
  /\ retagged' = IF sync[p].ok /\ sync[p].indexed THEN sync[p].pushed ELSE retagged
  /\ holder' = NoProc
  /\ scheduled' = [scheduled EXCEPT ![p] = @ \/ again[p]]
  /\ again' = [again EXCEPT ![p] = FALSE]
  /\ UNCHANGED <<server, ctag, fresh, faults, read_only, author, stored, foreign, unheard, rival>>

-----------------------------------------------------------------------------
(* The server and the network *)

Reply(p, kind) == sync' = [sync EXCEPT ![p].reply = kind]

\* The condition on an item's tag holds; an empty tag is no condition for a server
\* that does not insist (dav.vala sends no If-Match then), and no condition on a
\* tag holds of an item that is gone.
Matches(u, etag) == IF etag = 0 THEN ~Strict ELSE server[u] = etag

Store(p, u, text) ==
  /\ server' = [server EXCEPT ![u] = text] /\ ctag' = ctag + 1
  /\ author' = [author EXCEPT ![u] = "sync"]
  /\ stored' = stored \cup {text}
  /\ Reply(p, "ok")
  /\ UNCHANGED rival

Untouched == UNCHANGED <<server, ctag, author, stored>>
Answer(p, kind) == Reply(p, kind) /\ Untouched /\ UNCHANGED rival

\* The server's version stands against the request.
Refused(p) ==
  /\ Reply(p, "conflict") /\ Untouched
  /\ rival' = server[sync[p].uid]

Serve(p) ==
  /\ sync[p].pc \in Awaiting /\ sync[p].reply = "none"
  /\ LET f == sync[p]  u == f.uid IN
     \/ /\ f.pc \in {"create", "recreate"}
        /\ IF server[u] = 0 THEN Store(p, u, f.sent) ELSE Refused(p)
     \/ /\ f.pc = "update"
        /\ \/ Matches(u, f.etag) /\ Store(p, u, f.sent)
           \/ ~Matches(u, f.etag) /\ Refused(p)
           \/ server[u] = 0 /\ Answer(p, "not_found")
     \/ /\ f.pc = "remove"
        /\ \/ Matches(u, f.etag) /\ server[u] # 0 /\ Store(p, u, 0)
           \/ ~Matches(u, f.etag) /\ Refused(p)
           \/ server[u] = 0 /\ Answer(p, "ok")
     \/ /\ f.pc \in {"tag", "retag"}
        /\ sync' = [sync EXCEPT ![p].reply = "ok", ![p].tag = ctag]
        /\ Untouched /\ UNCHANGED rival
     \/ /\ f.pc = "index"
        /\ sync' = [sync EXCEPT ![p].reply = "ok", ![p].texts = server]
        /\ Untouched /\ UNCHANGED rival
     \/ /\ f.pc = "fetch"
        /\ sync' = [sync EXCEPT ![p].reply = "ok",
             ![p].texts = [v \in Uid |-> IF v \in f.wanted THEN server[v] ELSE 0]]
        /\ Untouched /\ UNCHANGED rival
  /\ UNCHANGED <<file, mem, holder, scheduled, again, fresh, faults, read_only, foreign,
                 unheard, retagged>>

\* The process will not learn of a change it made on the server.
Unheard(p) ==
  LET f == sync[p] IN
  IF f.pc \in {"create", "update", "recreate", "remove"} /\ f.reply = "ok"
  THEN /\ author' = [author EXCEPT ![f.uid] = IF @ = "sync" THEN "lost" ELSE @]
       /\ unheard' = IF f.pc = "remove" THEN unheard ELSE unheard \cup {f.sent}
  ELSE UNCHANGED <<author, unheard>>

May(fault) ==
  /\ fault \in Fault /\ faults < MaxFaults
  /\ faults' = faults + 1
  /\ UNCHANGED read_only

\* A request is lost, or the answer to one that was carried out.
LoseRequest(p) ==
  /\ sync[p].pc \in Awaiting /\ sync[p].reply = "none"
  /\ May("request")
  /\ Reply(p, "network")
  /\ UNCHANGED <<file, mem, server, ctag, holder, scheduled, again, fresh, history>>

LoseReply(p) ==
  /\ sync[p].pc \in Awaiting /\ sync[p].reply \notin {"none", "network"}
  /\ May("reply")
  /\ Reply(p, "network")
  /\ Unheard(p)
  /\ UNCHANGED <<file, mem, server, ctag, holder, scheduled, again, fresh, stored, foreign, rival,
                 retagged>>

\* The server has no tag for the collection.
NoTagReply(p) ==
  /\ sync[p].pc \in {"tag", "retag"} /\ sync[p].reply = "none"
  /\ May("tag")
  /\ Reply(p, "other")
  /\ UNCHANGED <<file, mem, server, ctag, holder, scheduled, again, fresh, history>>

\* A process dies and is started again: the kernel drops its locks, the mirror
\* is loaded by the constructor, and nothing is scheduled.
Crash(p) ==
  /\ May("crash")
  /\ mem' = [mem EXCEPT ![p] = file]
  /\ sync' = [sync EXCEPT ![p] = Idle]
  /\ holder' = IF holder = p THEN NoProc ELSE holder
  /\ scheduled' = [scheduled EXCEPT ![p] = FALSE]
  /\ again' = [again EXCEPT ![p] = FALSE]
  /\ Unheard(p)
  /\ UNCHANGED <<file, server, ctag, fresh, stored, foreign, rival, retagged>>

-----------------------------------------------------------------------------
PushStep(p) ==
  \/ \E u \in Uid : PushItem(p, u)
  \/ PushDone(p) \/ PushAnswer(p) \/ UpdateNotFound(p)

PullStep(p) ==
  TagAnswer(p) \/ IndexAnswer(p) \/ FetchAnswer(p) \/ RetagAnswer(p)

SyncStep(p) == PushStep(p) \/ PullStep(p) \/ Failed(p) \/ Finish(p)

UserStep(p) == \E u \in Uid : Put(p, u) \/ Remove(p, u)

NetworkFault(p) == LoseRequest(p) \/ LoseReply(p) \/ NoTagReply(p)

Next ==
  \/ \E p \in Proc :
       \/ UserStep(p) \/ Refresh(p)
       \/ Timer(p) \/ AutoSync(p) \/ Acquire(p) \/ SyncStep(p)
       \/ Serve(p) \/ NetworkFault(p) \/ Crash(p)
  \/ \E u \in Uid : DeviceEdit(u) \/ DeviceDelete(u)

Spec == Init /\ [][Next]_vars

\* A process keeps running its callbacks and its timers (the periodic one of
\* start_auto_sync included), the lock is polled until it is free, and the
\* server answers.
Fairness ==
  \A p \in Proc :
    /\ WF_vars(SyncStep(p)) /\ WF_vars(Serve(p))
    /\ WF_vars(Timer(p)) /\ WF_vars(AutoSync(p))
    /\ SF_vars(Acquire(p))

FairSpec == Spec /\ Fairness

-----------------------------------------------------------------------------
(* Properties *)

\* A text waiting in the mirror to be uploaded goes on waiting through a step of a
\* sync until it was stored on the server, unless a version among `winners` that
\* the mirror had not seen takes its place: the one the server had when it refused
\* the upload, or the one just downloaded.
Keeps(p, winners) ==
  SyncStep(p) => \A u \in Uid :
    LET item == file.items[u]  now == file'.items[u]
        winner == IF sync[p].reply = "conflict" THEN rival ELSE now.etag
    IN  item.state \in {"new", "modified"} =>
          \/ now.state \in {"new", "modified"} /\ now.data = item.data
          \/ item.data \in stored
          \/ read_only
          \/ winner \in winners \ {item.etag}

\* An upload refused for an item that is gone from the server.
RefusedGone(p) == sync[p].reply = "conflict" /\ rival = 0

\* The documented claim: only a change made on both sides drops a local edit, and
\* the edit of an item deleted on the server recreates it.
SyncKeepsEdits == [][\A p \in Proc : Keeps(p, foreign)]_vars

\* The part of it that holds: no sync loses a local edit but to a version of
\* another device that the mirror has not seen yet, unless the server answers
\* that the condition failed (412) when the item is gone.  put() in any process
\* while any process is at any point of its sync included.
OnlyRivalsWin ==
  [][\A p \in Proc : ~RefusedGone(p) => Keeps(p, foreign)]_vars

\* Under failures the sync also takes an upload of this mirror whose answer got
\* lost for a rival's.
HeardSyncKeepsEdits ==
  [][\A p \in Proc : ~RefusedGone(p) => Keeps(p, foreign \cup unheard)]_vars

\* The last change of an item on the server is another device's.
Foreign(u) == author[u] = "device"

\* ... and none loses a local deletion: an item waiting to be deleted goes on
\* waiting until the server has it no more.
SyncKeepsDeletions ==
  [][\A p \in Proc : SyncStep(p) => \A u \in Uid :
       file.items[u].state = "deleted" =>
         \/ file'.items[u].state = "deleted"
         \/ server[u] = 0
         \/ read_only \/ Foreign(u)]_vars

\* The part of it that holds: the entry of a deleted item leaves the mirror only
\* when the item left the server, so the next download cannot bring it back.
DeletionReachesServer ==
  [][\A p \in Proc : SyncStep(p) => \A u \in Uid :
       file.items[u].state = "deleted" /\ file'.items[u] = Absent =>
         server[u] = 0 \/ Foreign(u)]_vars

Current ==
  \A u \in Uid : LET item == file.items[u] IN
    /\ item.state = "clean" /\ item.etag # 0 => item.data = server[u]
    /\ server[u] # 0 => item # Absent

\* What the mirror says of the server is so.  Skipping the download is safe: when
\* the stored tag is the server's, every clean item is the server's and no item
\* of the server is missing, unless the tag was read after the download it is
\* stored for.  And a clean item is a copy of a version of the server: what a
\* user wrote is never called clean before it was stored, unless the server's
\* copy won.
TagIsCurrent == file.tag = ctag /\ ~retagged => Current
CleanIsStored ==
  \A u \in Uid : LET item == file.items[u] IN
    item.state = "clean" /\ item.etag # 0 => item.data = item.etag
MirrorIsTrue == TagIsCurrent /\ CleanIsStored

\* Once the users stop (the devices do, at MaxData), every local change leaves the
\* mirror: it is uploaded or resolved, whatever the syncs, their retries and the
\* calls made during a sync did, and what is left are copies of versions of the
\* server.  And the mirror becomes the server: no download that matters is skipped
\* for ever, unless the tag was read after the download it is stored for.  In a
\* read-only collection, too: what users changed is taken back.  One item may
\* stay behind (Stranded): its creation was refused and the item it was refused
\* for is deleted before the next download, which drops only items with an address.
UsersStop == <>[][~ \E p \in Proc : UserStep(p)]_vars
Copied(item) == item.state = "clean" /\ item.href /\ item.etag # 0 /\ item.data = item.etag
Resolved(u) == file.items[u] = Absent \/ Copied(file.items[u])
CaughtUp(u) == file.items[u].etag = server[u]
Stranded(u) ==
  /\ file.items[u].state = "clean" /\ ~file.items[u].href
  /\ server[u] = 0 /\ author[u] = "device"
SyncsConverge ==
  UsersStop => <>[](\A u \in Uid : Stranded(u) \/ (Resolved(u) /\ (retagged \/ CaughtUp(u))))
=============================================================================
