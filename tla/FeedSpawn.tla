----------------------------- MODULE FeedSpawn -----------------------------
(***************************************************************************)
(* Feed.spawn (src/core/async.vala) over the fallback engine: a producer   *)
(* runs on a pool thread (async_engine.c, run_in_thread), pushes into the  *)
(* stream and closes it when it returns, while a reader on the main thread *)
(* reads batch after batch until the feed ends, as read_feed of            *)
(* tests/async_test.vala does.  spawn's own cancellable, scope_cancelled,  *)
(* may be cancelled at any moment; the reads here pass none unless they    *)
(* are Scoped.                                                             *)
(***************************************************************************)
EXTENDS AsyncStream

CONSTANT Thread  \* the pool thread that runs the producer, the one that pushes

ASSUME ThreadAssumption == Thread \in Producer

VARIABLES
  worker,          \* the task of spawn: where run_in_thread is
  verdict,         \* the error the closure is about to close the feed with
  scope_cancelled, \* spawn's cancellable
  calls,           \* reads started, in order
  finished         \* reads whose callback was dispatched, in order

spawned == <<worker, verdict, scope_cancelled>>
reader  == <<calls, finished>>
spawnVars == <<vars, spawned, reader>>

SpawnInit ==
  /\ Init
  /\ worker = "queued" /\ verdict = "none" /\ scope_cancelled = FALSE
  /\ calls = <<>> /\ finished = <<>>

\* run_in_thread: a task whose cancellable is already cancelled returns at
\* once, without calling the closure.
Worker_Start ==
  /\ worker = "queued"
  /\ worker' = IF scope_cancelled THEN "skipped" ELSE "running"
  /\ UNCHANGED <<vars, verdict, scope_cancelled, reader>>

\* The producer pushes an item ...
Worker_Push ==
  /\ worker = "running"
  /\ Push(Thread)
  /\ UNCHANGED <<spawned, reader>>

\* A producer whose exception skips the close.
Worker_Return_Throws ==
  /\ worker = "running"
  /\ \/ worker' = "closing" /\ verdict' = IF scope_cancelled THEN "cancelled" ELSE "none"
     \/ worker' = "done" /\ verdict' = "failed"
  /\ UNCHANGED <<vars, scope_cancelled, reader>>

\* ... returns, and then the closure looks at the cancellable, or throws.
Worker_Return ==
  /\ worker = "running"
  /\ worker' = "closing"
  /\ verdict' \in {IF scope_cancelled THEN "cancelled" ELSE "none", "failed"}
  /\ UNCHANGED <<vars, scope_cancelled, reader>>

\* A close that forgets the error.
Worker_Close_Plain ==
  /\ worker = "closing"
  /\ Close("none")
  /\ worker' = "done"
  /\ UNCHANGED <<verdict, scope_cancelled, reader>>

\* feed.close
Worker_Close ==
  /\ worker = "closing"
  /\ Close(verdict)
  /\ worker' = "done"
  /\ UNCHANGED <<verdict, scope_cancelled, reader>>

\* spawn's cancellable is cancelled, from any thread.
Scope_Cancel ==
  /\ ~scope_cancelled
  /\ scope_cancelled' = TRUE
  /\ UNCHANGED <<vars, worker, verdict, reader>>

Outcomes == [i \in DOMAIN finished |-> returned[finished[i]][1].kind]

\* The reader's loop: it reads again after each batch.
Reader_Call ==
  /\ calls = finished
  /\ \A i \in DOMAIN Outcomes : Outcomes[i] = "batch"
  /\ \E t \in Task :
       /\ Next_Call(t)
       /\ calls' = Append(calls, t)
  /\ UNCHANGED <<spawned, finished>>

Reader_Main ==
  /\ MainStep
  /\ finished' = IF Len(ready') < Len(ready) THEN Append(finished, Head(ready))
                 ELSE finished
  /\ UNCHANGED <<spawned, calls>>

\* The reads' cancellable.
Reader_Cancel == (Cancel \/ HandlerStep) /\ UNCHANGED <<spawned, reader>>

WorkerStep == Worker_Start \/ Worker_Push \/ Worker_Return \/ Worker_Close

SpawnNext ==
  \/ WorkerStep
  \/ Scope_Cancel
  \/ Reader_Call \/ Reader_Main \/ Reader_Cancel

SpawnSpec == SpawnInit /\ [][SpawnNext]_spawnVars

\* The pool runs the task, the producer returns (it pushes finitely often),
\* the main loop keeps running and the reader keeps reading.
SpawnFairness ==
  /\ WF_spawnVars(Worker_Start)
  /\ WF_spawnVars(Worker_Return)
  /\ WF_spawnVars(Worker_Close)
  /\ WF_spawnVars(Reader_Call)
  /\ WF_spawnVars(Reader_Main)
  /\ WF_spawnVars(Reader_Cancel /\ ~Cancel)

SpawnFairSpec == SpawnSpec /\ SpawnFairness

-----------------------------------------------------------------------------
(* Properties *)

Ended == \E i \in DOMAIN Outcomes : Outcomes[i] \notin {"batch", "pending"}

\* What the reader is told at the end is what happened to the producer: null
\* only if it returned of its own accord, and then every item it pushed has
\* been received.
NullMeansComplete ==
  \A i \in DOMAIN Outcomes :
    Outcomes[i] = "end" => /\ verdict = "none" /\ worker = "done"
                           /\ received = accepted
                           /\ Len(accepted) = pushed[Thread]

\* A reader that keeps reading a feed whose producer ran reaches its end, with
\* everything that was pushed unless its own reads are cancelled.
ReaderReachesEnd ==
  (worker = "running") ~> (Ended /\ (cancelled \/ received = accepted))
=============================================================================
