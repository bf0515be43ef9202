----------------------------- MODULE CollabText -----------------------------
(***************************************************************************)
(* The shared text of a collaboration session (src/collab/text.vala, with  *)
(* the clock and the outgoing queue of Shared in src/collab/client.vala).  *)
(* Every site keeps all characters ever inserted, named by a timestamp and *)
(* a site, some of them deleted.  A local edit is applied at once, queued  *)
(* and posted later; a remote one is applied when the session delivers it. *)
(*                                                                         *)
(* The session is the service dev.sinty.Nearby, which is not in the        *)
(* repository: it is taken to deliver the posts to every site in one order.*)
(* The host shares a snapshot and goes on editing; others join with that   *)
(* snapshot and every post since, and a resumed session delivers posts     *)
(* that were delivered before.                                             *)
(***************************************************************************)
EXTENDS Integers, Sequences, FiniteSets, SequencesExt

CONSTANTS
  Site,      \* numbers above 0: strcmp orders the names of the sites
  Host,
  Initial,   \* length of the text the host starts from
  MaxEdit,   \* bound: insertions and deletions
  MaxRun,    \* bound: characters of one insertion
  MaxEarly,  \* bound: those the host makes before it is attached
  Ahead,     \* how far the wall clock may be ahead of a site's clock ...
  Drift      \* ... and how far it may advance between two characters of a run

ASSUME SiteAssumption == Site \subseteq Nat \ {0} /\ Host \in Site
ASSUME ClockAssumption == Ahead \subseteq Nat /\ Drift \subseteq Nat
ASSUME EditAssumption ==
  /\ Initial \in Nat /\ MaxEdit \in Nat /\ MaxRun \in Nat
  /\ MaxEarly \in 0 .. MaxEdit

VARIABLES
  items,        \* per site, its characters in order
  seen_deletes, \* per site, deleted characters it does not know yet
  clock,
  outgoing,     \* per site, operations it has yet to post
  members,      \* sites attached to the session
  snapshot,     \* what the host shared: <<items>>, or <<>> before
  log,          \* the posts of the session: [from, ops]
  got,          \* per site, posts it received
  edits,        \* insertions and deletions so far
  chars         \* characters inserted so far, which number them

replica == <<items, seen_deletes, clock, outgoing>>
session == <<members, snapshot, log, got>>
bounds == <<edits, chars>>
vars == <<replica, session, bounds>>

-----------------------------------------------------------------------------
NoSite == 0   \* the empty name, of the initial text
Id == Nat \X (Site \cup {NoSite})
Start == <<0, NoSite>>
Char == Int   \* which character it is; below 0 for those of the initial text
Character == [id : Id, ch : Char, deleted : BOOLEAN]
Insertion == [k : {"i"}, after : Id, id : Nat \X Site, c : Seq(Char)]
Deletion == [k : {"d"}, ids : SUBSET Id]

TypeOK ==
  /\ items \in [Site -> Seq(Character)]
  /\ \A s \in Site : seen_deletes[s] \subseteq Id
  /\ clock \in [Site -> Nat]
  /\ outgoing \in [Site -> Seq(Insertion \cup Deletion)]
  /\ members \subseteq Site
  /\ snapshot \in Seq(Seq(Character)) /\ Len(snapshot) <= 1
  /\ log \in Seq([from : Site, ops : Seq(Insertion \cup Deletion)])
  /\ got \in [Site -> 0 .. Len(log)]
  /\ edits \in 0 .. MaxEdit /\ chars \in 0 .. MaxEdit * MaxRun

\* Text(initial): the characters have no site and count from 1, far below the
\* wall clock.
Init ==
  /\ items = [s \in Site |->
       IF s # Host THEN <<>>
       ELSE [i \in 1 .. Initial |-> [id |-> <<i, NoSite>>, ch |-> -i, deleted |-> FALSE]]]
  /\ seen_deletes = [s \in Site |-> {}]
  /\ clock = [s \in Site |-> Initial]
  /\ outgoing = [s \in Site |-> <<>>]
  /\ members = {} /\ snapshot = <<>> /\ log = <<>>
  /\ got = [s \in Site |-> 0]
  /\ edits = 0 /\ chars = 0

-----------------------------------------------------------------------------
\* An order that leaves characters of one moment unordered.
Greater_Time(a, b) == a[1] > b[1]

\* The order of names: the later one, then the site's name.
Greater(a, b) == a[1] > b[1] \/ (a[1] = b[1] /\ a[2] > b[2])

Knows(its, id) == \E i \in DOMAIN its : its[i].id = id
Find(its, id) == CHOOSE i \in DOMAIN its : its[i].id = id

\* The characters `run` come right after the first `at` ones.
Spliced(its, at, run) == SubSeq(its, 1, at) \o run \o SubSeq(its, at + 1, Len(its))

\* The session is open to a site once it is attached; the host edits before.
Edits(s) ==
  \/ s \in members /\ edits < MaxEdit
  \/ s = Host /\ Host \notin members /\ edits < MaxEarly
Visible(its) == {i \in DOMAIN its : ~its[i].deleted}

\* index_of_visible(): the start, behind a visible character, or the very end
\* when the offset is beyond the text.
Places(its) == {0, Len(its)} \cup Visible(its)

-----------------------------------------------------------------------------
(* Local edits *)

\* tick(), for each of n characters: past the clock and the wall clock, which
\* may advance meanwhile.
Ticks(now, n, first, drift) ==
  LET ts[i \in 1 .. n] == IF i = 1 THEN now + 1 + first ELSE ts[i - 1] + 1 + drift[i]
  IN  ts

\* An insertion that does not say who made it.
Insert_Anonymous(s) ==
  /\ Edits(s)
  /\ \E at \in Places(items[s]), n \in 1 .. MaxRun, first \in Ahead,
        drift \in [1 .. MaxRun -> Drift] :
       /\ LET ts == Ticks(clock[s], n, first, drift)
              run == [i \in 1 .. n |->
                        [id |-> <<ts[i], s>>, ch |-> chars + i, deleted |-> FALSE]]
              after == IF at = 0 THEN Start ELSE items[s][at].id
          IN  /\ items' = [items EXCEPT ![s] = Spliced(@, at, run)]
              /\ clock' = [clock EXCEPT ![s] = ts[n]]
              /\ outgoing' = [outgoing EXCEPT ![s] = Append(@,
                   [k |-> "i", after |-> after, id |-> <<ts[1], NoSite>>,
                    c |-> [i \in 1 .. n |-> chars + i]])]
       /\ chars' = chars + n
  /\ edits' = edits + 1
  /\ UNCHANGED <<seen_deletes, session>>

\* insert(): at the start, behind a visible character or at the end.  Each
\* character takes a tick() of its own; the operation names the first one only.
Insert(s) ==
  /\ Edits(s)
  /\ \E at \in Places(items[s]), n \in 1 .. MaxRun, first \in Ahead,
        drift \in [1 .. MaxRun -> Drift] :
       /\ LET ts == Ticks(clock[s], n, first, drift)
              run == [i \in 1 .. n |->
                        [id |-> <<ts[i], s>>, ch |-> chars + i, deleted |-> FALSE]]
              after == IF at = 0 THEN Start ELSE items[s][at].id
          IN  /\ items' = [items EXCEPT ![s] = Spliced(@, at, run)]
              /\ clock' = [clock EXCEPT ![s] = ts[n]]
              /\ outgoing' = [outgoing EXCEPT ![s] = Append(@,
                   [k |-> "i", after |-> after, id |-> run[1].id,
                    c |-> [i \in 1 .. n |-> chars + i]])]
       /\ chars' = chars + n
  /\ edits' = edits + 1
  /\ UNCHANGED <<seen_deletes, session>>

\* delete(): some visible characters in a row.
Delete(s) ==
  /\ Edits(s)
  /\ \E first, last \in Visible(items[s]) :
       /\ first <= last
       /\ LET gone == {i \in Visible(items[s]) : i \in first .. last}
          IN
          /\ items' = [items EXCEPT ![s] =
               [i \in DOMAIN @ |-> IF i \in gone THEN [@[i] EXCEPT !.deleted = TRUE] ELSE @[i]]]
          /\ outgoing' = [outgoing EXCEPT ![s] = Append(@,
               [k |-> "d", ids |-> {items[s][i].id : i \in gone}])]
  /\ edits' = edits + 1
  /\ UNCHANGED <<seen_deletes, clock, session, chars>>

-----------------------------------------------------------------------------
(* Remote edits: what an operation makes of a site's [items, seen, clock] *)

\* The place of an insertion: behind its predecessor, and behind what was
\* inserted there under greater names.
Place(its, prev, id) ==
  CHOOSE p \in prev .. Len(its) :
    /\ \A i \in prev + 1 .. p : Greater(its[i].id, id)
    /\ p = Len(its) \/ ~Greater(its[p + 1].id, id)

\* The receiver counts on from the name of the first character.
Names(op) == [i \in DOMAIN op.c |-> <<op.id[1] + i - 1, op.id[2]>>]

\* A clock that does not notice the names of others.
Observed_Nothing(now, ids) == now

\* observe()
Observed(now, ids) == Max({now} \cup {id[1] : id \in Range(ids)})

\* apply_insert: known characters are left alone, and an insertion behind an
\* unknown one is dropped.
Inserted(text, op) ==
  LET its == text.items
      prev == IF op.after = Start THEN 0 ELSE Find(its, op.after)
      ids == Names(op)
      run == [i \in DOMAIN ids |->
                [id |-> ids[i], ch |-> op.c[i], deleted |-> ids[i] \in text.seen]]
  IN  IF Knows(its, op.id) \/ (op.after # Start /\ ~Knows(its, op.after)) THEN text
      ELSE [items |-> Spliced(its, Place(its, prev, op.id), run),
            seen |-> text.seen \ Range(ids),
            clock |-> Observed(text.clock, ids)]

\* apply_delete: a character that is not known yet is remembered.
Deleted(text, op) ==
  [items |-> [i \in DOMAIN text.items |->
                IF text.items[i].id \in op.ids
                THEN [text.items[i] EXCEPT !.deleted = TRUE] ELSE text.items[i]],
   seen |-> text.seen \cup {id \in op.ids : ~Knows(text.items, id)},
   clock |-> text.clock]

Applied(text, op) == IF op.k = "i" THEN Inserted(text, op) ELSE Deleted(text, op)

\* receive(): all operations of a post.
Merged(text, ops) ==
  LET texts[i \in 0 .. Len(ops)] ==
        IF i = 0 THEN text ELSE Applied(texts[i - 1], ops[i])
  IN  texts[Len(ops)]

Text(s) == [items |-> items[s], seen |-> seen_deletes[s], clock |-> clock[s]]

Apply(s, ops) ==
  LET text == Merged(Text(s), ops)
  IN  /\ items' = [items EXCEPT ![s] = text.items]
      /\ seen_deletes' = [seen_deletes EXCEPT ![s] = text.seen]
      /\ clock' = [clock EXCEPT ![s] = text.clock]

-----------------------------------------------------------------------------
(* The session *)

\* share_with(): the snapshot leaves while the host awaits the session.
Share ==
  /\ snapshot = <<>>
  /\ snapshot' = <<items[Host]>>
  /\ UNCHANGED <<replica, members, log, got, bounds>>

\* ... which it is then attached to, with what it queued before and meanwhile.
Attach ==
  /\ snapshot # <<>> /\ Host \notin members
  /\ members' = members \cup {Host}
  /\ UNCHANGED <<replica, snapshot, log, got, bounds>>

\* Another site loads the snapshot.
Join(s) ==
  /\ Host \in members /\ s \notin members
  /\ members' = members \cup {s}
  /\ items' = [items EXCEPT ![s] = snapshot[1]]
  /\ clock' = [clock EXCEPT ![s] =
       Observed(@, [i \in DOMAIN snapshot[1] |-> snapshot[1][i].id])]
  /\ UNCHANGED <<seen_deletes, outgoing, snapshot, log, got, bounds>>

\* flush(): the queue is one post.
Flush(s) ==
  /\ s \in members /\ outgoing[s] # <<>>
  /\ log' = Append(log, [from |-> s, ops |-> outgoing[s]])
  /\ outgoing' = [outgoing EXCEPT ![s] = <<>>]
  /\ UNCHANGED <<items, seen_deletes, clock, members, snapshot, got, bounds>>

\* The next post of another site: a site's own are not delivered to it.
Coming(s) == {i \in got[s] + 1 .. Len(log) : log[i].from # s}

Receive(s) ==
  /\ s \in members /\ Coming(s) # {}
  /\ got' = [got EXCEPT ![s] = Min(Coming(s))]
  /\ Apply(s, log[got'[s]].ops)
  /\ UNCHANGED <<outgoing, members, snapshot, log, bounds>>

\* resume(): every post of the session is merged, also those that were received
\* before and those of the site itself.
Resume(s) ==
  /\ s \in members
  /\ got' = [got EXCEPT ![s] = Max(Coming(s) \cup {@})]
  /\ Apply(s, FlattenSeq([i \in DOMAIN log |-> log[i].ops]))
  /\ UNCHANGED <<outgoing, members, snapshot, log, bounds>>

-----------------------------------------------------------------------------
Next ==
  \/ \E s \in Site : Insert(s) \/ Delete(s) \/ Join(s) \/ Flush(s) \/ Receive(s) \/ Resume(s)
  \/ Share \/ Attach

Spec == Init /\ [][Next]_vars

-----------------------------------------------------------------------------
(* Properties *)

\* The visible text of a site.
TextOf(s) == LET shown == SelectSeq(items[s], LAMBDA c : ~c.deleted)
             IN [i \in DOMAIN shown |-> shown[i].ch]

Quiet == \A s \in members : outgoing[s] = <<>> /\ Coming(s) = {}

\* Sites that have received every post show the same text, whatever they typed
\* and deleted at the same time, when they joined and what was delivered again.
Converges == Quiet => \A s, t \in members : TextOf(s) = TextOf(t)

Before(s, a, b) ==
  \E i, j \in DOMAIN items[s] : i < j /\ items[s][i].ch = a /\ items[s][j].ch = b

\* No two sites ever order two characters differently, and none holds one
\* twice: not even while edits are on their way.  And every site names a
\* character alike, so that an edit which refers to it finds it everywhere.
OrderAgrees ==
  \A s, t \in Site : \A i, j \in DOMAIN items[s] :
    i < j => ~Before(t, items[s][j].ch, items[s][i].ch)
NamesAgree ==
  \A s, t \in Site : \A i \in DOMAIN items[s], j \in DOMAIN items[t] :
    items[s][i].ch = items[t][j].ch <=> items[s][i].id = items[t][j].id
CharactersAgree == OrderAgrees /\ NamesAgree
=============================================================================
