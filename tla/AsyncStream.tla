---------------------------- MODULE AsyncStream ----------------------------
(***************************************************************************)
(* The stream behind Singularity.Async.Feed (src/core/async_engine.c, the  *)
(* GLib fallback of the engine).  Producers on any thread push items and   *)
(* close the stream; the main loop reads them in batches, one read (a      *)
(* GTask) at a time; a shared GCancellable may be cancelled from any       *)
(* thread while a read is being set up, waits, or is being delivered.      *)
(*                                                                         *)
(* Every critical section of stream->lock is one action.  What a function  *)
(* does outside the lock is a step of its own, so that other threads can   *)
(* act in between: `main` is the program counter of the main thread,       *)
(* `emitting` and `claimed` that of the thread inside g_cancellable_cancel.*)
(***************************************************************************)
EXTENDS Naturals, Sequences

CONSTANTS
  Task,      \* the calls of singularity_async_stream_next (one GTask each)
  Scoped,    \* the calls that pass the (shared) cancellable
  Producer,  \* the threads that push and close
  MaxPush,   \* bound: pushes attempted by each producer
  NoTask     \* stream->waiter == NULL

ASSUME ScopedAssumption == Scoped \subseteq Task
ASSUME NoTaskAssumption == NoTask \notin Task
ASSUME MaxPushAssumption == MaxPush \in Nat

VARIABLES
  items,      \* stream->items: pushed and not handed to a read yet
  closed,     \* stream->closed
  error,      \* stream->error: "none" for NULL
  waiter,     \* stream->waiter
  idle,       \* stream->idle # 0: a stream_deliver source is attached
  main,       \* where the main thread is: [pc, task, out]
  connected,  \* the calls whose handler is connected to the cancellable
  cancelled,  \* g_cancellable_is_cancelled
  emitting,   \* handlers the running emission of "cancelled" has yet to end
  claimed,    \* ... of which the one that found its own task waiting
  returned,   \* per task, the results given to it with g_task_return_*
  ready,      \* tasks whose callback the main context has yet to dispatch
  pushed,     \* per producer, pushes attempted (bounded by MaxPush)
  accepted,   \* history: every item a push appended, in order
  taken,      \* history: every item stream_deliver stole, in order
  received    \* history: every item a reader got from next_finish, in order

stream     == <<items, closed, error, waiter, idle>>
scope      == <<connected, cancelled, emitting, claimed>>
completion == <<returned, ready>>
history    == <<pushed, accepted, taken, received>>
vars == <<stream, main, scope, completion, history>>

-----------------------------------------------------------------------------
Error == {"none", "failed", "cancelled"}
Item  == Producer \X (1 .. MaxPush)

\* What g_task_return_* gives a read.  A batch carries its items.
Batch(s) == [kind |-> "batch", items |-> s]
Plain(k) == [kind |-> k, items |-> <<>>]
Outcome  == [kind : {"batch", "end", "error", "cancelled", "pending"},
             items : Seq(Item)]

Main == [pc : {"loop", "connect", "lock", "busy", "check", "cancel", "deliver"},
         task : Task \cup {NoTask}, out : Outcome]
Loop == [pc |-> "loop", task |-> NoTask, out |-> Plain("end")]
At(pc, t) == [pc |-> pc, task |-> t, out |-> Plain("end")]
Returning(pc, t, o) == [pc |-> pc, task |-> t, out |-> o]

\* A read that was called and not called before.
Fresh(t) == /\ returned[t] = <<>>
            /\ t # waiter
            /\ t \notin claimed
            /\ t # main.task

TypeOK ==
  /\ items \in Seq(Item)
  /\ closed \in BOOLEAN
  /\ error \in Error
  /\ waiter \in Task \cup {NoTask}
  /\ idle \in BOOLEAN
  /\ main \in Main
  /\ connected \subseteq Scoped
  /\ cancelled \in BOOLEAN
  /\ emitting \subseteq Scoped
  /\ claimed \subseteq Scoped
  /\ returned \in [Task -> Seq(Outcome)]
  /\ ready \in Seq(Task)
  /\ pushed \in [Producer -> 0 .. MaxPush]
  /\ accepted \in Seq(Item)
  /\ taken \in Seq(Item)
  /\ received \in Seq(Item)

Init ==
  /\ items = <<>> /\ closed = FALSE /\ error = "none"
  /\ waiter = NoTask /\ idle = FALSE
  /\ main = Loop
  /\ connected = {} /\ cancelled = FALSE /\ emitting = {} /\ claimed = {}
  /\ returned = [t \in Task |-> <<>>]
  /\ ready = <<>>
  /\ pushed = [p \in Producer |-> 0]
  /\ accepted = <<>> /\ taken = <<>> /\ received = <<>>

\* A wakeup that looks at the items only.
Scheduled_ItemsOnly(w, its, cl) == idle \/ (w # NoTask /\ its # <<>>)

\* stream_schedule_locked, with the values its caller has just stored: the
\* idle source is attached when a read waits and there is something for it.
Scheduled(w, its, cl) == idle \/ (w # NoTask /\ (its # <<>> \/ cl))

\* g_task_return_*: the result is kept and the callback is queued in the main
\* context.  GLib dispatches the callbacks of one priority in queueing order.
Return(t, o) ==
  /\ returned' = [returned EXCEPT ![t] = Append(@, o)]
  /\ ready' = Append(ready, t)

-----------------------------------------------------------------------------
(* Producers, on any thread. *)

\* A push that does not look at `closed`.
Push_Closed(p) ==
  /\ pushed[p] < MaxPush
  /\ pushed' = [pushed EXCEPT ![p] = @ + 1]
  /\ items' = Append(items, <<p, pushed'[p]>>)
  /\ accepted' = Append(accepted, <<p, pushed'[p]>>)
  /\ idle' = Scheduled(waiter, items', closed)
  /\ UNCHANGED <<closed, error, waiter, main, scope, completion, taken, received>>

\* singularity_async_stream_push: an item pushed after the close is dropped.
Push(p) ==
  /\ pushed[p] < MaxPush
  /\ pushed' = [pushed EXCEPT ![p] = @ + 1]
  /\ LET item == <<p, pushed[p] + 1>> IN
     IF closed
     THEN UNCHANGED <<items, idle, accepted>>
     ELSE /\ items' = Append(items, item)
          /\ accepted' = Append(accepted, item)
          /\ idle' = Scheduled(waiter, items', closed)
  /\ UNCHANGED <<closed, error, waiter, main, scope, completion, taken, received>>

\* singularity_async_stream_close: the first close decides the error.
Close(e) ==
  /\ ~closed
  /\ closed' = TRUE
  /\ error' = e
  /\ idle' = Scheduled(waiter, items, TRUE)
  /\ UNCHANGED <<items, waiter, main, scope, completion, history>>

-----------------------------------------------------------------------------
(* singularity_async_stream_next, on the main thread. *)

\* A call that connects to a cancellable it was not given.
Next_Call_Connects(t) ==
  /\ main.pc = "loop"
  /\ Fresh(t)
  /\ main' = At("connect", t)
  /\ UNCHANGED <<stream, scope, completion, history>>

\* A task is created for the call.
Next_Call(t) ==
  /\ main.pc = "loop"
  /\ Fresh(t)
  /\ main' = At(IF t \in Scoped THEN "connect" ELSE "lock", t)
  /\ UNCHANGED <<stream, scope, completion, history>>

\* g_cancellable_connect: on a cancellable already cancelled the handler runs
\* at once (it finds another waiter, or none) and nothing is connected.
Next_Connect ==
  /\ main.pc = "connect"
  /\ connected' = IF cancelled THEN connected ELSE connected \cup {main.task}
  /\ main' = At("lock", main.task)
  /\ UNCHANGED <<stream, cancelled, emitting, claimed, completion, history>>

\* The critical section: the task becomes the waiter unless a read waits.
Next_Lock ==
  /\ main.pc = "lock"
  /\ LET t == main.task IN
     IF waiter # NoTask
     THEN /\ main' = Returning("busy", t, Plain("pending"))
          /\ UNCHANGED <<waiter, idle>>
     ELSE /\ waiter' = t
          /\ idle' = Scheduled(t, items, closed)
          /\ main' = IF t \in Scoped THEN At("check", t) ELSE Loop
  /\ UNCHANGED <<items, closed, error, scope, completion, history>>

\* The handler can be disconnected: g_cancellable_disconnect waits for a
\* running emission to end.
MayDisconnect(t) == t \in connected => emitting = {}

\* A second read is refused with G_IO_ERROR_PENDING.
Next_Busy ==
  /\ main.pc = "busy"
  /\ MayDisconnect(main.task)
  /\ connected' = connected \ {main.task}
  /\ Return(main.task, main.out)
  /\ main' = Loop
  /\ UNCHANGED <<stream, cancelled, emitting, claimed, history>>

\* A second look that does not see that the handler has claimed the task.
Next_Check_Unclaimed ==
  /\ main.pc = "check"
  /\ LET t == main.task IN
     /\ waiter' = IF cancelled /\ waiter = t THEN NoTask ELSE waiter
     /\ main' = IF cancelled THEN Returning("cancel", t, Plain("cancelled")) ELSE Loop
  /\ UNCHANGED <<items, closed, error, idle, scope, completion, history>>

\* No second look.
Next_Check_Skipped ==
  /\ main.pc = "check"
  /\ main' = Loop
  /\ UNCHANGED <<stream, scope, completion, history>>

\* The cancellable may have been cancelled before the waiter was stored, when
\* its handler could not find it: next looks again and runs the handler itself.
Next_Check ==
  /\ main.pc = "check"
  /\ LET t == main.task IN
     IF cancelled /\ waiter = t
     THEN /\ waiter' = NoTask
          /\ main' = Returning("cancel", t, Plain("cancelled"))
     ELSE /\ main' = Loop
          /\ UNCHANGED waiter
  /\ UNCHANGED <<items, closed, error, idle, scope, completion, history>>

\* ... and the handler returns the error of the task it claimed.
Next_Cancel ==
  /\ main.pc = "cancel"
  /\ Return(main.task, main.out)
  /\ main' = Loop
  /\ UNCHANGED <<stream, scope, history>>

-----------------------------------------------------------------------------
(* stream_deliver, the idle source, on the main thread. *)

\* A delivery that copies the items and leaves them in the stream.
Deliver_Lock_Copies ==
  /\ main.pc = "loop"
  /\ idle
  /\ idle' = FALSE
  /\ IF waiter # NoTask /\ (items # <<>> \/ closed)
     THEN /\ waiter' = NoTask
          /\ taken' = taken \o items
          /\ main' = Returning("deliver", waiter,
                       IF items # <<>> THEN Batch(items) ELSE Plain("end"))
     ELSE UNCHANGED <<waiter, main, taken>>
  /\ UNCHANGED <<items, closed, error, scope, completion, pushed, accepted, received>>

\* A delivery that looks at `closed` before it looks at the items.
Deliver_Lock_EndFirst ==
  /\ main.pc = "loop"
  /\ idle
  /\ idle' = FALSE
  /\ IF waiter # NoTask /\ (items # <<>> \/ closed)
     THEN /\ waiter' = NoTask
          /\ items' = <<>>
          /\ taken' = taken \o items
          /\ main' = Returning("deliver", waiter,
                       IF closed THEN Plain("end") ELSE Batch(items))
     ELSE UNCHANGED <<waiter, items, main, taken>>
  /\ UNCHANGED <<closed, error, scope, completion, pushed, accepted, received>>

\* The critical section steals the waiter and what there is for it.
Deliver_Lock ==
  /\ main.pc = "loop"
  /\ idle
  /\ idle' = FALSE
  /\ IF waiter # NoTask /\ (items # <<>> \/ closed)
     THEN /\ waiter' = NoTask
          /\ items' = <<>>
          /\ taken' = taken \o items
          /\ main' = Returning("deliver", waiter,
                       IF items # <<>> THEN Batch(items)
                       ELSE Plain(IF error = "none" THEN "end" ELSE "error"))
     ELSE UNCHANGED <<waiter, items, main, taken>>
  /\ UNCHANGED <<closed, error, scope, completion, pushed, accepted, received>>

\* A delivery that leaves the handler connected.
Deliver_Return_Connected ==
  /\ main.pc = "deliver"
  /\ Return(main.task, main.out)
  /\ main' = Loop
  /\ UNCHANGED <<stream, scope, history>>

\* Outside the lock the handler is disconnected and the task completed.
Deliver_Return ==
  /\ main.pc = "deliver"
  /\ MayDisconnect(main.task)
  /\ connected' = connected \ {main.task}
  /\ Return(main.task, main.out)
  /\ main' = Loop
  /\ UNCHANGED <<stream, cancelled, emitting, claimed, history>>

\* GTask's default: a cancelled task propagates the cancellation, not its batch.
Next_Finish_Cancelled ==
  /\ main.pc = "loop"
  /\ ready # <<>>
  /\ LET t == Head(ready) IN
     received' = IF cancelled /\ t \in Scoped THEN received
                 ELSE received \o returned[t][1].items
  /\ ready' = Tail(ready)
  /\ UNCHANGED <<stream, main, scope, returned, pushed, accepted, taken>>

\* The main context dispatches a completed task: singularity_async_stream_-
\* next_finish propagates its result.  The task was created with
\* g_task_set_check_cancellable (task, FALSE), so a batch is not replaced by a
\* cancellation error.
Next_Finish ==
  /\ main.pc = "loop"
  /\ ready # <<>>
  /\ LET t == Head(ready) IN received' = received \o returned[t][1].items
  /\ ready' = Tail(ready)
  /\ UNCHANGED <<stream, main, scope, returned, pushed, accepted, taken>>

-----------------------------------------------------------------------------
(* g_cancellable_cancel, on any thread, and the handlers it runs. *)

Cancel ==
  /\ ~cancelled
  /\ cancelled' = TRUE
  /\ emitting' = connected
  /\ UNCHANGED <<stream, main, connected, claimed, completion, history>>

\* stream_waiter_cancelled: under the lock it claims its task if that waits.
Handler_Lock(t) ==
  /\ t \in emitting
  /\ claimed = {}
  /\ IF waiter = t
     THEN /\ waiter' = NoTask
          /\ claimed' = {t}
          /\ UNCHANGED emitting
     ELSE /\ emitting' = emitting \ {t}
          /\ UNCHANGED <<waiter, claimed>>
  /\ UNCHANGED <<items, closed, error, idle, main, connected, cancelled,
                 completion, history>>

\* ... and returns the cancellation error outside it.  The handler stays
\* connected: nothing disconnects it on this path.
Handler_Return(t) ==
  /\ t \in claimed
  /\ Return(t, Plain("cancelled"))
  /\ claimed' = claimed \ {t}
  /\ emitting' = emitting \ {t}
  /\ UNCHANGED <<stream, main, connected, cancelled, history>>

-----------------------------------------------------------------------------
MainStep ==
  \/ Next_Connect \/ Next_Lock \/ Next_Busy \/ Next_Check \/ Next_Cancel
  \/ Deliver_Lock \/ Deliver_Return \/ Next_Finish

HandlerStep == \E t \in Task : Handler_Lock(t) \/ Handler_Return(t)

Next ==
  \/ \E p \in Producer : Push(p)
  \/ \E e \in {"none", "failed"} : Close(e)
  \/ \E t \in Task : Next_Call(t)
  \/ MainStep
  \/ Cancel
  \/ HandlerStep

Spec == Init /\ [][Next]_vars

\* The main loop keeps dispatching its sources (WF on each kind of dispatch
\* and on the thread's own steps), and the thread inside g_cancellable_cancel
\* keeps running.  Nothing makes producers push or close, or readers read.
Fairness == /\ WF_vars(MainStep /\ main.pc # "loop")
            /\ WF_vars(Deliver_Lock)
            /\ WF_vars(Next_Finish)
            /\ WF_vars(HandlerStep)

FairSpec == Spec /\ Fairness

-----------------------------------------------------------------------------
(* Properties *)

\* No read is completed twice: of the delivery, the handler, the second look
\* in next and the refusal, exactly one hands the task its result, whatever
\* the order in which a cancellation and a delivery reach it.
ReturnedOnce == \A t \in Task : Len(returned[t]) <= 1

\* Nothing is lost, duplicated or reordered on the way to the readers, also
\* when reads are cancelled or refused in between: what deliveries stole
\* followed by what is still queued is what producers pushed.
Conservation == taken \o items = accepted

\* A read that waits with something to read has a delivery scheduled: push,
\* close and next together leave no window in which each relies on another.
NoLostWakeup == waiter # NoTask /\ (items # <<>> \/ closed) => idle

\* A reader is told that the feed ended (null, or the producer's error) only
\* after every accepted item was handed to a read, and none follows.
EndAfterEverything ==
  \A t \in Task : \A i \in DOMAIN returned[t] :
    returned[t][i].kind \in {"end", "error"} => closed /\ taken = accepted

\* A handler outlives its read only on a cancelled cancellable: completing a
\* read normally disconnects it, so a long-lived scope does not collect the
\* tasks of every read that ever used it.
HandlersDisconnected ==
  \A t \in connected : returned[t] # <<>> => cancelled

\* What a read returned reaches its reader: every item stolen for a read whose
\* callback was dispatched has been received, in push order.
AllReceived ==
  /\ \E n \in 0 .. Len(taken) : received = SubSeq(taken, 1, n)
  /\ main.pc # "deliver" /\ ready = <<>> => received = taken

\* A waiting read is answered once there is something to read: a push or a
\* close that finds it waiting, or that it finds, wakes the main loop.  A
\* cancelled read returns even if no producer ever pushes or closes.
ReadsReturn ==
  /\ \A t \in Task :
       (waiter = t /\ (items # <<>> \/ closed)) ~> (returned[t] # <<>>)
  /\ \A t \in Scoped :
       (cancelled /\ (main.task = t \/ waiter = t)) ~> (returned[t] # <<>>)

-----------------------------------------------------------------------------
(* The stream implements the feed: the batch belongs to its read from the    *)
(* critical section that steals or claims the task on.                       *)

Holds(t) == main.task = t /\ main.pc \in {"busy", "cancel", "deliver"}

settled == [t \in Task |->
  IF Holds(t) THEN main.out
  ELSE IF t \in claimed THEN Plain("cancelled")
  ELSE IF returned[t] = <<>> THEN Plain("none") ELSE returned[t][1]]

feed == INSTANCE Feed WITH queue <- items, reader <- waiter, outcome <- settled,
                           NoReader <- NoTask

\* Seen through its critical sections the stream is the feed its callers are
\* promised, with its liveness.
ImplementsFeed == feed!FairSpec
=============================================================================
