-------------------------------- MODULE Feed --------------------------------
(***************************************************************************)
(* What Singularity.Async.Feed promises (src/core/async.vala): objects     *)
(* pushed on any thread are read in batches, each read returning everything*)
(* pushed since the previous one, in push order, and null or the error     *)
(* once the feed is closed and empty.  One read waits at a time; a         *)
(* cancelled one returns.  Every operation is atomic here.                 *)
(***************************************************************************)
EXTENDS Naturals, Sequences

CONSTANTS Task, Scoped, Producer, MaxPush, NoReader

VARIABLES
  queue,      \* pushed since the last batch
  closed, error,
  reader,     \* the read that waits
  outcome,    \* per read, what it returned
  cancelled   \* the cancellable of the scoped reads

feedVars == <<queue, closed, error, reader, outcome, cancelled>>

Item == Producer \X (1 .. MaxPush)
Nothing == [kind |-> "none", items |-> <<>>]
Returns(t, kind, its) ==
  outcome' = [outcome EXCEPT ![t] = [kind |-> kind, items |-> its]]

Init ==
  /\ queue = <<>> /\ closed = FALSE /\ error = "none"
  /\ reader = NoReader
  /\ outcome = [t \in Task |-> Nothing]
  /\ cancelled = FALSE

\* Feed.push; on a closed feed it does nothing.
Push(item) ==
  /\ ~closed
  /\ queue' = Append(queue, item)
  /\ UNCHANGED <<closed, error, reader, outcome, cancelled>>

\* Feed.close: the first one counts.
Close(e) ==
  /\ ~closed
  /\ closed' = TRUE /\ error' = e
  /\ UNCHANGED <<queue, reader, outcome, cancelled>>

\* Feed.next
Read(t) ==
  /\ reader = NoReader
  /\ outcome[t] = Nothing
  /\ reader' = t
  /\ UNCHANGED <<queue, closed, error, outcome, cancelled>>

Refuse(t) ==
  /\ reader \notin {NoReader, t}
  /\ outcome[t] = Nothing
  /\ Returns(t, "pending", <<>>)
  /\ UNCHANGED <<queue, closed, error, reader, cancelled>>

Answer ==
  /\ reader # NoReader
  /\ \/ queue # <<>> /\ Returns(reader, "batch", queue)
     \/ /\ queue = <<>> /\ closed
        /\ Returns(reader, IF error = "none" THEN "end" ELSE "error", <<>>)
  /\ queue' = <<>>
  /\ reader' = NoReader
  /\ UNCHANGED <<closed, error, cancelled>>

Cancel ==
  /\ ~cancelled
  /\ cancelled' = TRUE
  /\ UNCHANGED <<queue, closed, error, reader, outcome>>

AnswerCancelled ==
  /\ cancelled
  /\ reader \in Scoped
  /\ Returns(reader, "cancelled", <<>>)
  /\ reader' = NoReader
  /\ UNCHANGED <<queue, closed, error, cancelled>>

Next ==
  \/ \E item \in Item : Push(item)
  \/ \E e \in {"none", "failed", "cancelled"} : Close(e)
  \/ \E t \in Task : Read(t) \/ Refuse(t)
  \/ Answer
  \/ Cancel
  \/ AnswerCancelled

Spec == Init /\ [][Next]_feedVars
FairSpec == Spec /\ WF_feedVars(Answer) /\ WF_feedVars(AnswerCancelled)
=============================================================================
