------------------------- MODULE AsyncStreamProofs -------------------------
(***************************************************************************)
(* The safety of the stream for every set of reads, cancellable or not,    *)
(* every set of producers and every number of pushes.                      *)
(*                                                                         *)
(* The inductive invariant says where a read that has no result yet is:    *)
(* it waits, or a handler claimed it, or the main thread holds it, and     *)
(* never two of the three.  That is why it is returned once.               *)
(*                                                                         *)
(* What the reader of a spawned producer is told is at the end; only there *)
(* is anything of FeedSpawn used.                                          *)
(***************************************************************************)
EXTENDS FeedSpawn, SequenceTheorems, TLAPS

\* The read the main thread holds, and will return, by itself.
Held == {"connect", "lock", "busy", "cancel", "deliver"}

Places ==
  /\ main.pc = "loop" => main = Loop
  /\ main.pc # "loop" => main.task \in Task
  /\ main.pc \in {"connect", "check"} => main.task \in Scoped
  /\ main.pc \in Held =>
       /\ returned[main.task] = <<>>
       /\ main.task # waiter
       /\ main.task \notin claimed
  /\ waiter # NoTask => returned[waiter] = <<>> /\ waiter \notin claimed
  /\ \A t \in claimed : returned[t] = <<>>

\* A cancellation error is returned only once the cancellable is cancelled.
Cancelling ==
  /\ main.pc = "cancel" => cancelled
  /\ emitting # {} => cancelled
  /\ claimed \subseteq emitting

\* An end held or returned is final.
Final ==
  /\ Holds(main.task) /\ main.out.kind \in {"end", "error"} => closed /\ items = <<>>
  /\ \A t \in Task : \A i \in DOMAIN returned[t] :
       returned[t][i].kind \in {"end", "error"} => closed /\ items = <<>>

\* Only completed tasks are dispatched.
Completed == \A i \in DOMAIN ready : returned[ready[i]] # <<>>

IInv ==
  /\ TypeOK
  /\ Places
  /\ Cancelling
  /\ Final
  /\ Completed
  /\ ReturnedOnce
  /\ Conservation
  /\ NoLostWakeup
  /\ HandlersDisconnected

LEMMA PlainType ==
  ASSUME NEW k \in {"end", "error", "cancelled", "pending"}
  PROVE  Plain(k) \in Outcome
BY DEF Plain, Outcome

LEMMA BatchType == ASSUME NEW s \in Seq(Item) PROVE Batch(s) \in Outcome
BY DEF Batch, Outcome

LEMMA MainType ==
  ASSUME NEW pc \in {"loop", "connect", "lock", "busy", "check", "cancel", "deliver"},
         NEW t \in Task, NEW o \in Outcome
  PROVE  /\ Loop \in Main
         /\ At(pc, t) \in Main
         /\ Returning(pc, t, o) \in Main
BY PlainType DEF Main, Loop, At, Returning

LEMMA OutType == ASSUME main \in Main PROVE main.out \in Outcome
BY DEF Main

LEMMA ReturnType ==
  ASSUME TypeOK, NEW t \in Task, NEW o \in Outcome, Return(t, o)
  PROVE  /\ returned' \in [Task -> Seq(Outcome)]
         /\ ready' \in Seq(Task)
BY DEF TypeOK, Return

\* Returning a read adds one result to it, and its task to the queue.
LEMMA ReturnAdds ==
  ASSUME TypeOK, NEW t \in Task, NEW o \in Outcome, Return(t, o)
  PROVE  /\ \A u \in Task : u # t => returned'[u] = returned[u]
         /\ returned'[t] # <<>>
         /\ \A i \in DOMAIN returned'[t] :
              \/ returned'[t][i] = o
              \/ i \in DOMAIN returned[t] /\ returned'[t][i] = returned[t][i]
         /\ \A i \in DOMAIN ready' :
              \/ ready'[i] = t
              \/ i \in DOMAIN ready /\ ready'[i] = ready[i]
<1>1. returned'[t] = Append(returned[t], o) /\ returned[t] \in Seq(Outcome)
  BY DEF TypeOK, Return
<1>2. \A u \in Task : u # t => returned'[u] = returned[u]
  BY DEF TypeOK, Return
<1>3. ready' = Append(ready, t) /\ ready \in Seq(Task)
  BY DEF TypeOK, Return
<1> QED
  BY <1>1, <1>2, <1>3

\* The first result of a read is the one it was returned.
LEMMA ReturnFirst ==
  ASSUME TypeOK, NEW t \in Task, NEW o \in Outcome, Return(t, o), returned[t] = <<>>
  PROVE  /\ \A u \in Task : u # t => returned'[u] = returned[u]
         /\ returned'[t] # <<>>
         /\ returned'[t][1] = o
<1>1. returned'[t] = <<o>>
  BY DEF TypeOK, Return
<1> QED
  BY <1>1, ReturnAdds

LEMMA ConcatAppend ==
  ASSUME NEW S, NEW a \in Seq(S), NEW b \in Seq(S), NEW x \in S
  PROVE  a \o Append(b, x) = Append(a \o b, x)
OBVIOUS

LEMMA ConcatEmpty ==
  ASSUME NEW S, NEW a \in Seq(S) PROVE a \o <<>> = a
OBVIOUS

LEMMA InitIInv == Init => IInv
<1> SUFFICES ASSUME Init PROVE IInv
  OBVIOUS
<1>1. TypeOK
  <2>1. Loop \in Main
    BY PlainType DEF Main, Loop
  <2>2. returned \in [Task -> Seq(Outcome)] /\ ready \in Seq(Task)
    BY DEF Init
  <2>4. /\ items \in Seq(Item) /\ accepted \in Seq(Item)
        /\ taken \in Seq(Item) /\ received \in Seq(Item)
    BY DEF Init
  <2>5. error \in Error
    BY DEF Init, Error
  <2>3. pushed \in [Producer -> 0 .. MaxPush]
    BY MaxPushAssumption DEF Init
  <2> QED
    BY <2>1, <2>2, <2>3, <2>4, <2>5 DEF TypeOK, Init
<1> USE DEF Init, Loop
<1>2. Places /\ Cancelling /\ Final /\ Completed
  BY DEF Places, Cancelling, Final, Completed, Held, Holds
<1>3. ReturnedOnce /\ Conservation /\ NoLostWakeup /\ HandlersDisconnected
  BY DEF ReturnedOnce, Conservation, NoLostWakeup, HandlersDisconnected
<1> QED
  BY <1>1, <1>2, <1>3 DEF IInv

LEMMA TypeStep == IInv /\ [Next]_vars => TypeOK'
<1> SUFFICES ASSUME IInv, [Next]_vars PROVE TypeOK'
  OBVIOUS
<1> USE ScopedAssumption, NoTaskAssumption, MaxPushAssumption
<1> USE DEF IInv, TypeOK, stream, scope, completion, history
<1>1. ASSUME NEW p \in Producer, Push(p) PROVE TypeOK'
  <2>1. <<p, pushed[p] + 1>> \in Item
    BY <1>1 DEF Push, Item
  <2>2. pushed' \in [Producer -> 0 .. MaxPush]
    BY <1>1 DEF Push
  <2>3. /\ Append(items, <<p, pushed[p] + 1>>) \in Seq(Item)
        /\ Append(accepted, <<p, pushed[p] + 1>>) \in Seq(Item)
    BY <2>1
  <2>5. items' \in Seq(Item) /\ accepted' \in Seq(Item)
    <3>1. CASE closed
      BY <1>1, <3>1 DEF Push
    <3>2. CASE ~closed
      BY <1>1, <2>3, <3>2 DEF Push
    <3> QED
      BY <3>1, <3>2
  <2>4. idle' \in BOOLEAN
    BY <1>1 DEF Push, Scheduled
  <2> QED
    BY <1>1, <2>2, <2>4, <2>5 DEF Push
<1>2. ASSUME NEW e \in {"none", "failed"}, Close(e) PROVE TypeOK'
  BY <1>2 DEF Close, Error, Scheduled
<1>3. ASSUME NEW t \in Task, Next_Call(t) PROVE TypeOK'
  BY <1>3, MainType, PlainType DEF Next_Call, At
<1>4. CASE Next_Connect
  BY <1>4, MainType, PlainType DEF Next_Connect, At, Places
<1>5. CASE Next_Lock
  <2>1. main.task \in Task
    BY <1>5 DEF Next_Lock, Places
  <2>2. main' \in Main
    BY <1>5, <2>1, MainType, PlainType DEF Next_Lock
  <2>3. waiter' \in Task \cup {NoTask} /\ idle' \in BOOLEAN
    BY <1>5, <2>1 DEF Next_Lock, Scheduled
  <2> QED
    BY <1>5, <2>2, <2>3 DEF Next_Lock
<1>6. CASE Next_Busy
  BY <1>6, MainType, OutType, ReturnType DEF Next_Busy, Places, Held
<1>7. CASE Next_Check
  BY <1>7, MainType, PlainType DEF Next_Check, Places
<1>8. CASE Next_Cancel
  BY <1>8, MainType, OutType, ReturnType DEF Next_Cancel, Places, Held
<1>9. CASE Deliver_Lock
  <2> DEFINE out == IF items # <<>> THEN Batch(items)
                    ELSE Plain(IF error = "none" THEN "end" ELSE "error")
  <2>1. out \in Outcome
    BY PlainType, BatchType
  <2>2. waiter \in Task => Returning("deliver", waiter, out) \in Main
    BY <2>1, MainType
  <2>3. taken \o items \in Seq(Item)
    OBVIOUS
  <2>4. main' \in Main
    BY <1>9, <2>2 DEF Deliver_Lock
  <2>5. items' = <<>> \/ items' = items
    BY <1>9 DEF Deliver_Lock
  <2>7. taken' = taken \o items \/ taken' = taken
    BY <1>9 DEF Deliver_Lock
  <2>8. <<>> \in Seq(Item)
    OBVIOUS
  <2>6. items' \in Seq(Item) /\ taken' \in Seq(Item)
    BY <2>3, <2>5, <2>7, <2>8
  <2> QED
    BY <1>9, <2>4, <2>6 DEF Deliver_Lock
<1>10. CASE Deliver_Return
  BY <1>10, MainType, ReturnType, OutType DEF Deliver_Return, Places, Held
<1>11. CASE Next_Finish
  <2>1. Head(ready) \in Task /\ Tail(ready) \in Seq(Task)
    BY <1>11 DEF Next_Finish
  <2>2. returned[Head(ready)] \in Seq(Outcome) /\ returned[Head(ready)] # <<>>
    BY <1>11, <2>1 DEF Next_Finish, Completed
  <2>3. returned[Head(ready)][1] \in Outcome
    BY <2>2
  <2>4. received \o returned[Head(ready)][1].items \in Seq(Item)
    BY <2>3 DEF Outcome
  <2> QED
    BY <1>11, <2>1, <2>4 DEF Next_Finish
<1>12. CASE Cancel
  BY <1>12 DEF Cancel
<1>13. ASSUME NEW t \in Task, Handler_Lock(t) PROVE TypeOK'
  BY <1>13 DEF Handler_Lock
<1>14. ASSUME NEW t \in Task, Handler_Return(t) PROVE TypeOK'
  BY <1>14, PlainType, ReturnType DEF Handler_Return
<1>15. CASE UNCHANGED vars
  BY <1>15 DEF vars
<1> QED
  BY <1>1, <1>2, <1>3, <1>4, <1>5, <1>6, <1>7, <1>8, <1>9, <1>10, <1>11,
     <1>12, <1>13, <1>14, <1>15 DEF Next, MainStep, HandlerStep

LEMMA PlacesStep == IInv /\ [Next]_vars => Places'
<1> SUFFICES ASSUME IInv, [Next]_vars PROVE Places'
  OBVIOUS
<1> USE ScopedAssumption, NoTaskAssumption
<1> USE DEF IInv, TypeOK, Places, Held, Main, Loop, At, Returning, stream, scope,
            completion, history
<1>1. ASSUME NEW p \in Producer, Push(p) PROVE Places'
  BY <1>1 DEF Push
<1>2. ASSUME NEW e \in {"none", "failed"}, Close(e) PROVE Places'
  BY <1>2 DEF Close
<1>3. ASSUME NEW t \in Task, Next_Call(t) PROVE Places'
  BY <1>3 DEF Next_Call, Fresh
<1>4. CASE Next_Connect
  BY <1>4 DEF Next_Connect
<1>5. CASE Next_Lock
  BY <1>5 DEF Next_Lock
<1>6. CASE Next_Busy
  BY <1>6 DEF Next_Busy, Return
<1>7. CASE Next_Check
  BY <1>7 DEF Next_Check
<1>8. CASE Next_Cancel
  BY <1>8 DEF Next_Cancel, Return
<1>9. CASE Deliver_Lock
  BY <1>9 DEF Deliver_Lock
<1>10. CASE Deliver_Return
  BY <1>10 DEF Deliver_Return, Return
<1>11. CASE Next_Finish
  BY <1>11 DEF Next_Finish
<1>12. CASE Cancel
  BY <1>12 DEF Cancel
<1>13. ASSUME NEW t \in Task, Handler_Lock(t) PROVE Places'
  BY <1>13 DEF Handler_Lock
<1>14. ASSUME NEW t \in Task, Handler_Return(t) PROVE Places'
  BY <1>14 DEF Handler_Return, Return
<1>15. CASE UNCHANGED vars
  BY <1>15 DEF vars
<1> QED
  BY <1>1, <1>2, <1>3, <1>4, <1>5, <1>6, <1>7, <1>8, <1>9, <1>10, <1>11,
     <1>12, <1>13, <1>14, <1>15 DEF Next, MainStep, HandlerStep

LEMMA CancellingStep == IInv /\ [Next]_vars => Cancelling'
<1> SUFFICES ASSUME IInv, [Next]_vars PROVE Cancelling'
  OBVIOUS
<1> USE ScopedAssumption, NoTaskAssumption
<1> USE DEF IInv, TypeOK, Cancelling, Loop, At, Returning, stream, scope, completion, history
<1>1. ASSUME NEW p \in Producer, Push(p) PROVE Cancelling'
  BY <1>1 DEF Push
<1>2. ASSUME NEW e \in {"none", "failed"}, Close(e) PROVE Cancelling'
  BY <1>2 DEF Close
<1>3. ASSUME NEW t \in Task, Next_Call(t) PROVE Cancelling'
  BY <1>3 DEF Next_Call
<1>4. CASE Next_Connect
  BY <1>4 DEF Next_Connect
<1>5. CASE Next_Lock
  BY <1>5 DEF Next_Lock
<1>6. CASE Next_Busy
  BY <1>6 DEF Next_Busy, Return
<1>7. CASE Next_Check
  BY <1>7 DEF Next_Check
<1>8. CASE Next_Cancel
  BY <1>8 DEF Next_Cancel, Return
<1>9. CASE Deliver_Lock
  BY <1>9 DEF Deliver_Lock
<1>10. CASE Deliver_Return
  BY <1>10 DEF Deliver_Return, Return
<1>11. CASE Next_Finish
  BY <1>11 DEF Next_Finish
<1>12. CASE Cancel
  BY <1>12 DEF Cancel
<1>13. ASSUME NEW t \in Task, Handler_Lock(t) PROVE Cancelling'
  BY <1>13 DEF Handler_Lock
<1>14. ASSUME NEW t \in Task, Handler_Return(t) PROVE Cancelling'
  BY <1>14 DEF Handler_Return, Return
<1>15. CASE UNCHANGED vars
  BY <1>15 DEF vars
<1> QED
  BY <1>1, <1>2, <1>3, <1>4, <1>5, <1>6, <1>7, <1>8, <1>9, <1>10, <1>11,
     <1>12, <1>13, <1>14, <1>15 DEF Next, MainStep, HandlerStep

LEMMA FinalStep == IInv /\ [Next]_vars => Final'
<1> SUFFICES ASSUME IInv, [Next]_vars PROVE Final'
  OBVIOUS
<1> USE ScopedAssumption, NoTaskAssumption
<1> USE DEF IInv, TypeOK, Final, Holds, Places, Held, Loop, At, Returning, Plain, Batch, stream, scope, completion, history
<1>1. ASSUME NEW p \in Producer, Push(p) PROVE Final'
  BY <1>1 DEF Push
<1>2. ASSUME NEW e \in {"none", "failed"}, Close(e) PROVE Final'
  BY <1>2 DEF Close
<1>3. ASSUME NEW t \in Task, Next_Call(t) PROVE Final'
  BY <1>3 DEF Next_Call
<1>4. CASE Next_Connect
  BY <1>4 DEF Next_Connect
<1>5. CASE Next_Lock
  BY <1>5 DEF Next_Lock
<1>6. CASE Next_Busy
  BY <1>6 DEF Next_Busy, Return
<1>7. CASE Next_Check
  BY <1>7 DEF Next_Check
<1>8. CASE Next_Cancel
  BY <1>8 DEF Next_Cancel, Return
<1>9. CASE Deliver_Lock
  BY <1>9 DEF Deliver_Lock
<1>10. CASE Deliver_Return
  BY <1>10 DEF Deliver_Return, Return
<1>11. CASE Next_Finish
  BY <1>11 DEF Next_Finish
<1>12. CASE Cancel
  BY <1>12 DEF Cancel
<1>13. ASSUME NEW t \in Task, Handler_Lock(t) PROVE Final'
  BY <1>13 DEF Handler_Lock
<1>14. ASSUME NEW t \in Task, Handler_Return(t) PROVE Final'
  <2>1. Return(t, Plain("cancelled")) /\ Plain("cancelled") \in Outcome
    BY <1>14, PlainType DEF Handler_Return
  <2>2. /\ \A u \in Task : u # t => returned'[u] = returned[u]
        /\ \A i \in DOMAIN returned'[t] :
             \/ returned'[t][i] = Plain("cancelled")
             \/ i \in DOMAIN returned[t] /\ returned'[t][i] = returned[t][i]
    BY <2>1, ReturnAdds
  <2>3. UNCHANGED <<main, closed, items>>
    BY <1>14 DEF Handler_Return
  <2>4. ASSUME NEW u \in Task, NEW i \in DOMAIN returned'[u],
               returned'[u][i].kind \in {"end", "error"}
        PROVE  closed /\ items = <<>>
    <3>1. CASE u = t
      <4>1. Plain("cancelled").kind = "cancelled"
        OBVIOUS
      <4>2. returned'[t][i] = returned[t][i] /\ i \in DOMAIN returned[t]
        BY <2>2, <2>4, <3>1, <4>1
      <4> QED
        BY <2>4, <3>1, <4>2
    <3>2. CASE u # t
      BY <2>2, <2>4, <3>2
    <3> QED
      BY <3>1, <3>2
  <2> QED
    BY <2>3, <2>4
<1>15. CASE UNCHANGED vars
  BY <1>15 DEF vars
<1> QED
  BY <1>1, <1>2, <1>3, <1>4, <1>5, <1>6, <1>7, <1>8, <1>9, <1>10, <1>11,
     <1>12, <1>13, <1>14, <1>15 DEF Next, MainStep, HandlerStep

LEMMA CompletedStep == IInv /\ [Next]_vars => Completed'
<1> SUFFICES ASSUME IInv, [Next]_vars PROVE Completed'
  OBVIOUS
<1> USE ScopedAssumption, NoTaskAssumption
<1> USE PlainType, OutType
<1> USE DEF IInv, TypeOK, Completed, stream, scope, completion, history
<1>1. ASSUME NEW p \in Producer, Push(p) PROVE Completed'
  BY <1>1 DEF Push
<1>2. ASSUME NEW e \in {"none", "failed"}, Close(e) PROVE Completed'
  BY <1>2 DEF Close
<1>3. ASSUME NEW t \in Task, Next_Call(t) PROVE Completed'
  BY <1>3 DEF Next_Call
<1>4. CASE Next_Connect
  BY <1>4 DEF Next_Connect
<1>5. CASE Next_Lock
  BY <1>5 DEF Next_Lock
<1>6. CASE Next_Busy
  <2>1. main.task \in Task /\ Return(main.task, main.out) /\ main.out \in Outcome
    BY <1>6 DEF Next_Busy, Places, Held
  <2>2. /\ \A u \in Task : u # main.task => returned'[u] = returned[u]
        /\ returned'[main.task] # <<>>
        /\ \A i \in DOMAIN ready' :
             \/ ready'[i] = main.task
             \/ i \in DOMAIN ready /\ ready'[i] = ready[i]
    BY <2>1, ReturnAdds
  <2> QED
    BY <2>2
<1>7. CASE Next_Check
  BY <1>7 DEF Next_Check
<1>8. CASE Next_Cancel
  <2>1. main.task \in Task /\ Return(main.task, main.out) /\ main.out \in Outcome
    BY <1>8 DEF Next_Cancel, Places, Held
  <2>2. /\ \A u \in Task : u # main.task => returned'[u] = returned[u]
        /\ returned'[main.task] # <<>>
        /\ \A i \in DOMAIN ready' :
             \/ ready'[i] = main.task
             \/ i \in DOMAIN ready /\ ready'[i] = ready[i]
    BY <2>1, ReturnAdds
  <2> QED
    BY <2>2
<1>9. CASE Deliver_Lock
  BY <1>9 DEF Deliver_Lock
<1>10. CASE Deliver_Return
  <2>1. main.task \in Task /\ Return(main.task, main.out) /\ main.out \in Outcome
    BY <1>10 DEF Deliver_Return, Places, Held
  <2>2. /\ \A u \in Task : u # main.task => returned'[u] = returned[u]
        /\ returned'[main.task] # <<>>
        /\ \A i \in DOMAIN ready' :
             \/ ready'[i] = main.task
             \/ i \in DOMAIN ready /\ ready'[i] = ready[i]
    BY <2>1, ReturnAdds
  <2> QED
    BY <2>2
<1>11. CASE Next_Finish
  BY <1>11 DEF Next_Finish
<1>12. CASE Cancel
  BY <1>12 DEF Cancel
<1>13. ASSUME NEW t \in Task, Handler_Lock(t) PROVE Completed'
  BY <1>13 DEF Handler_Lock
<1>14. ASSUME NEW t \in Task, Handler_Return(t) PROVE Completed'
  BY <1>14, ReturnAdds DEF Handler_Return
<1>15. CASE UNCHANGED vars
  BY <1>15 DEF vars
<1> QED
  BY <1>1, <1>2, <1>3, <1>4, <1>5, <1>6, <1>7, <1>8, <1>9, <1>10, <1>11,
     <1>12, <1>13, <1>14, <1>15 DEF Next, MainStep, HandlerStep

LEMMA ReturnedOnceStep == IInv /\ [Next]_vars => ReturnedOnce'
<1> SUFFICES ASSUME IInv, [Next]_vars PROVE ReturnedOnce'
  OBVIOUS
<1> USE ScopedAssumption, NoTaskAssumption
<1> USE DEF IInv, TypeOK, ReturnedOnce, Places, Held, stream, scope, completion, history
<1>1. ASSUME NEW p \in Producer, Push(p) PROVE ReturnedOnce'
  BY <1>1 DEF Push
<1>2. ASSUME NEW e \in {"none", "failed"}, Close(e) PROVE ReturnedOnce'
  BY <1>2 DEF Close
<1>3. ASSUME NEW t \in Task, Next_Call(t) PROVE ReturnedOnce'
  BY <1>3 DEF Next_Call
<1>4. CASE Next_Connect
  BY <1>4 DEF Next_Connect
<1>5. CASE Next_Lock
  BY <1>5 DEF Next_Lock
<1>6. CASE Next_Busy
  BY <1>6 DEF Next_Busy, Return
<1>7. CASE Next_Check
  BY <1>7 DEF Next_Check
<1>8. CASE Next_Cancel
  BY <1>8 DEF Next_Cancel, Return
<1>9. CASE Deliver_Lock
  BY <1>9 DEF Deliver_Lock
<1>10. CASE Deliver_Return
  BY <1>10 DEF Deliver_Return, Return
<1>11. CASE Next_Finish
  BY <1>11 DEF Next_Finish
<1>12. CASE Cancel
  BY <1>12 DEF Cancel
<1>13. ASSUME NEW t \in Task, Handler_Lock(t) PROVE ReturnedOnce'
  BY <1>13 DEF Handler_Lock
<1>14. ASSUME NEW t \in Task, Handler_Return(t) PROVE ReturnedOnce'
  BY <1>14 DEF Handler_Return, Return
<1>15. CASE UNCHANGED vars
  BY <1>15 DEF vars
<1> QED
  BY <1>1, <1>2, <1>3, <1>4, <1>5, <1>6, <1>7, <1>8, <1>9, <1>10, <1>11,
     <1>12, <1>13, <1>14, <1>15 DEF Next, MainStep, HandlerStep

LEMMA ConservationStep == IInv /\ [Next]_vars => Conservation'
<1> SUFFICES ASSUME IInv, [Next]_vars PROVE Conservation'
  OBVIOUS
<1> USE ScopedAssumption, NoTaskAssumption
<1> USE DEF IInv, TypeOK, Conservation, stream, scope, completion, history
<1>1. ASSUME NEW p \in Producer, Push(p) PROVE Conservation'
  <2>1. <<p, pushed[p] + 1>> \in Item
    BY <1>1, MaxPushAssumption DEF Push, Item
  <2>2. taken \o Append(items, <<p, pushed[p] + 1>>)
          = Append(taken \o items, <<p, pushed[p] + 1>>)
    <3>1. taken \in Seq(Item) /\ items \in Seq(Item)
      OBVIOUS
    <3> QED
      BY <2>1, <3>1, ConcatAppend, SMTT(60)
  <2> QED
    BY <1>1, <2>2 DEF Push
<1>2. ASSUME NEW e \in {"none", "failed"}, Close(e) PROVE Conservation'
  BY <1>2 DEF Close
<1>3. ASSUME NEW t \in Task, Next_Call(t) PROVE Conservation'
  BY <1>3 DEF Next_Call
<1>4. CASE Next_Connect
  BY <1>4 DEF Next_Connect
<1>5. CASE Next_Lock
  BY <1>5 DEF Next_Lock
<1>6. CASE Next_Busy
  BY <1>6 DEF Next_Busy, Return
<1>7. CASE Next_Check
  BY <1>7 DEF Next_Check
<1>8. CASE Next_Cancel
  BY <1>8 DEF Next_Cancel, Return
<1>9. CASE Deliver_Lock
  BY <1>9, ConcatEmpty DEF Deliver_Lock
<1>10. CASE Deliver_Return
  BY <1>10 DEF Deliver_Return, Return
<1>11. CASE Next_Finish
  BY <1>11 DEF Next_Finish
<1>12. CASE Cancel
  BY <1>12 DEF Cancel
<1>13. ASSUME NEW t \in Task, Handler_Lock(t) PROVE Conservation'
  BY <1>13 DEF Handler_Lock
<1>14. ASSUME NEW t \in Task, Handler_Return(t) PROVE Conservation'
  BY <1>14 DEF Handler_Return, Return
<1>15. CASE UNCHANGED vars
  BY <1>15 DEF vars
<1> QED
  BY <1>1, <1>2, <1>3, <1>4, <1>5, <1>6, <1>7, <1>8, <1>9, <1>10, <1>11,
     <1>12, <1>13, <1>14, <1>15 DEF Next, MainStep, HandlerStep

LEMMA NoLostWakeupStep == IInv /\ [Next]_vars => NoLostWakeup'
<1> SUFFICES ASSUME IInv, [Next]_vars PROVE NoLostWakeup'
  OBVIOUS
<1> USE ScopedAssumption, NoTaskAssumption
<1> USE DEF IInv, TypeOK, NoLostWakeup, stream, scope, completion, history
<1>1. ASSUME NEW p \in Producer, Push(p) PROVE NoLostWakeup'
  BY <1>1 DEF Push, Scheduled
<1>2. ASSUME NEW e \in {"none", "failed"}, Close(e) PROVE NoLostWakeup'
  BY <1>2 DEF Close, Scheduled
<1>3. ASSUME NEW t \in Task, Next_Call(t) PROVE NoLostWakeup'
  BY <1>3 DEF Next_Call
<1>4. CASE Next_Connect
  BY <1>4 DEF Next_Connect
<1>5. CASE Next_Lock
  BY <1>5 DEF Next_Lock, Scheduled
<1>6. CASE Next_Busy
  BY <1>6 DEF Next_Busy, Return
<1>7. CASE Next_Check
  BY <1>7 DEF Next_Check
<1>8. CASE Next_Cancel
  BY <1>8 DEF Next_Cancel, Return
<1>9. CASE Deliver_Lock
  BY <1>9 DEF Deliver_Lock
<1>10. CASE Deliver_Return
  BY <1>10 DEF Deliver_Return, Return
<1>11. CASE Next_Finish
  BY <1>11 DEF Next_Finish
<1>12. CASE Cancel
  BY <1>12 DEF Cancel
<1>13. ASSUME NEW t \in Task, Handler_Lock(t) PROVE NoLostWakeup'
  BY <1>13 DEF Handler_Lock
<1>14. ASSUME NEW t \in Task, Handler_Return(t) PROVE NoLostWakeup'
  BY <1>14 DEF Handler_Return, Return
<1>15. CASE UNCHANGED vars
  BY <1>15 DEF vars
<1> QED
  BY <1>1, <1>2, <1>3, <1>4, <1>5, <1>6, <1>7, <1>8, <1>9, <1>10, <1>11,
     <1>12, <1>13, <1>14, <1>15 DEF Next, MainStep, HandlerStep

LEMMA HandlersStep == IInv /\ [Next]_vars => HandlersDisconnected'
<1> SUFFICES ASSUME IInv, [Next]_vars PROVE HandlersDisconnected'
  OBVIOUS
<1> USE ScopedAssumption, NoTaskAssumption
<1> USE DEF IInv, TypeOK, HandlersDisconnected, Cancelling, Places, Held, Loop, At, stream, scope, completion, history
<1>1. ASSUME NEW p \in Producer, Push(p) PROVE HandlersDisconnected'
  BY <1>1 DEF Push
<1>2. ASSUME NEW e \in {"none", "failed"}, Close(e) PROVE HandlersDisconnected'
  BY <1>2 DEF Close
<1>3. ASSUME NEW t \in Task, Next_Call(t) PROVE HandlersDisconnected'
  BY <1>3 DEF Next_Call
<1>4. CASE Next_Connect
  BY <1>4 DEF Next_Connect
<1>5. CASE Next_Lock
  BY <1>5 DEF Next_Lock
<1>6. CASE Next_Busy
  BY <1>6 DEF Next_Busy, Return
<1>7. CASE Next_Check
  BY <1>7 DEF Next_Check
<1>8. CASE Next_Cancel
  BY <1>8 DEF Next_Cancel, Return
<1>9. CASE Deliver_Lock
  BY <1>9 DEF Deliver_Lock
<1>10. CASE Deliver_Return
  BY <1>10 DEF Deliver_Return, Return
<1>11. CASE Next_Finish
  BY <1>11 DEF Next_Finish
<1>12. CASE Cancel
  BY <1>12 DEF Cancel
<1>13. ASSUME NEW t \in Task, Handler_Lock(t) PROVE HandlersDisconnected'
  BY <1>13 DEF Handler_Lock
<1>14. ASSUME NEW t \in Task, Handler_Return(t) PROVE HandlersDisconnected'
  BY <1>14 DEF Handler_Return, Return
<1>15. CASE UNCHANGED vars
  BY <1>15 DEF vars
<1> QED
  BY <1>1, <1>2, <1>3, <1>4, <1>5, <1>6, <1>7, <1>8, <1>9, <1>10, <1>11,
     <1>12, <1>13, <1>14, <1>15 DEF Next, MainStep, HandlerStep


-----------------------------------------------------------------------------
LEMMA IInvStep == IInv /\ [Next]_vars => IInv'
BY TypeStep, PlacesStep, CancellingStep, FinalStep, CompletedStep,
   ReturnedOnceStep, ConservationStep, NoLostWakeupStep, HandlersStep DEF IInv

\* In every behaviour of the stream a read that has no result yet is in exactly
\* one place (it waits, is claimed by a handler, or is held by the main thread),
\* and the stream's other invariants hold with it.
THEOREM Inductive == Spec => []IInv
BY InitIInv, IInvStep, PTL DEF Spec

\* The variables of the stream keep their types.
THEOREM TypeCorrect == Spec => []TypeOK
<1>1. IInv => TypeOK
  BY DEF IInv
<1> QED
  BY <1>1, Inductive, PTL

\* Cancellation from any thread, delivery and refusal never complete the same
\* GTask twice, however they interleave.
THEOREM ReadsReturnOnce == Spec => []ReturnedOnce
<1>1. IInv => ReturnedOnce
  BY DEF IInv
<1> QED
  BY <1>1, Inductive, PTL

\* Cancelled and refused reads lose no item, and deliveries neither repeat nor
\* reorder any: stolen batches followed by the queue are the accepted pushes.
THEOREM ItemsConserved == Spec => []Conservation
<1>1. IInv => Conservation
  BY DEF IInv
<1> QED
  BY <1>1, Inductive, PTL

\* Whenever a read waits and there is something to read, a delivery is
\* scheduled: the safety half of "every waiting read is answered".
THEOREM WakeupsKept == Spec => []NoLostWakeup
<1>1. IInv => NoLostWakeup
  BY DEF IInv
<1> QED
  BY <1>1, Inductive, PTL

\* The end of a feed is reported only after everything was handed out, and it
\* stays the end.
THEOREM EndIsLast == Spec => []EndAfterEverything
<1>1. IInv => EndAfterEverything
  <2> SUFFICES ASSUME IInv, NEW t \in Task, NEW i \in DOMAIN returned[t],
                      returned[t][i].kind \in {"end", "error"}
               PROVE  closed /\ taken = accepted
    BY DEF EndAfterEverything
  <2>1. closed /\ items = <<>>
    BY DEF IInv, Final
  <2>2. taken \o <<>> = taken
    BY ConcatEmpty DEF IInv, TypeOK
  <2> QED
    BY <2>1, <2>2 DEF IInv, Conservation
<1> QED
  BY <1>1, Inductive, PTL

\* Only a cancelled cancellable keeps handlers of reads that are over.
THEOREM HandlersGoAway == Spec => []HandlersDisconnected
<1>1. IInv => HandlersDisconnected
  BY DEF IInv
<1> QED
  BY <1>1, Inductive, PTL

-----------------------------------------------------------------------------
(* What was stolen is cut at the places `cut`: the readers received all of it *)
(* up to the first cut, each completed read whose callback is still queued has*)
(* the piece up to the next one, and the delivery that is under way the last. *)

Pieces(cut) ==
  /\ cut \in [0 .. Len(ready) -> 0 .. Len(taken)]
  /\ received = SubSeq(taken, 1, cut[0])
  /\ \A i \in 1 .. Len(ready) :
       /\ cut[i-1] <= cut[i]
       /\ returned[ready[i]][1].items = SubSeq(taken, cut[i-1] + 1, cut[i])
  /\ IF main.pc = "deliver"
     THEN main.out.items = SubSeq(taken, cut[Len(ready)] + 1, Len(taken))
     ELSE cut[Len(ready)] = Len(taken)

InPieces ==
  /\ main.pc \in {"busy", "cancel"} => main.out.items = <<>>
  /\ \E cut \in [0 .. Len(ready) -> 0 .. Len(taken)] : Pieces(cut)

\* Where nothing is returned, received or stolen the pieces stay.
LEMMA PiecesKept ==
  ASSUME InPieces, UNCHANGED <<returned, ready, taken, received>>,
         (main.pc # "deliver" /\ main'.pc # "deliver") \/ UNCHANGED main,
         main'.pc \in {"busy", "cancel"} => main'.out.items = <<>>
  PROVE  InPieces'
BY DEF InPieces, Pieces

\* A read that is returned appends its piece.
LEMMA PieceReturned ==
  ASSUME IInv, NEW cut, Pieces(cut), NEW t \in Task, NEW o \in Outcome, Return(t, o),
         returned[t] = <<>>, UNCHANGED <<taken, received>>,
         NEW n \in cut[Len(ready)] .. Len(taken),
         o.items = SubSeq(taken, cut[Len(ready)] + 1, n),
         IF main'.pc = "deliver" THEN main'.out.items = SubSeq(taken, n + 1, Len(taken))
                                 ELSE n = Len(taken)
  PROVE  \E c \in [0 .. Len(ready') -> 0 .. Len(taken')] : Pieces(c)'
<1>0. PICK k \in Nat : k = Len(ready)
  BY DEF IInv, TypeOK
<1> DEFINE c == [i \in 0 .. k + 1 |-> IF i = k + 1 THEN n ELSE cut[i]]
<1>1. /\ ready \in Seq(Task) /\ ready' \in Seq(Task) /\ k = Len(ready) /\ Len(ready') = k + 1
      /\ taken \in Seq(Item) /\ Len(taken) \in Nat
      /\ ready'[k + 1] = t /\ \A i \in 1 .. k : ready'[i] = ready[i]
  BY <1>0 DEF IInv, TypeOK, Return
<1>2. /\ cut \in [0 .. k -> 0 .. Len(taken)] /\ n \in cut[k] .. Len(taken)
      /\ n \in 0 .. Len(taken)
      /\ received = SubSeq(taken, 1, cut[0])
      /\ \A i \in 1 .. k : /\ cut[i-1] <= cut[i]
                           /\ returned[ready[i]][1].items = SubSeq(taken, cut[i-1] + 1, cut[i])
  <2>1. cut \in [0 .. k -> 0 .. Len(taken)] /\ n \in cut[k] .. Len(taken)
    BY <1>1 DEF Pieces
  <2>2. cut[k] \in 0 .. Len(taken)
    BY <2>1
  <2>3. n \in 0 .. Len(taken)
    BY <1>1, <2>1, <2>2
  <2> QED
    BY <1>1, <2>1, <2>3 DEF Pieces
<1>3. /\ returned'[t] # <<>> /\ returned'[t][1] = o
      /\ \A u \in Task : u # t => returned'[u] = returned[u]
  BY ReturnFirst DEF IInv
<1>4. \A i \in 1 .. k : ready[i] \in Task /\ ready[i] # t
  BY <1>1 DEF IInv, Completed
<1>5. /\ c \in [0 .. k + 1 -> 0 .. Len(taken)] /\ c[k + 1] = n /\ c[k] = cut[k]
      /\ c[0] = cut[0] /\ \A i \in 1 .. k : c[i-1] = cut[i-1] /\ c[i] = cut[i]
  BY <1>1, <1>2
<1> HIDE DEF c
<1>6. ASSUME NEW i \in 1 .. k + 1
      PROVE  /\ c[i-1] <= c[i]
             /\ returned'[ready'[i]][1].items = SubSeq(taken, c[i-1] + 1, c[i])
  <2>1. CASE i = k + 1
    <3>1. c[i-1] = cut[k] /\ c[i] = n /\ ready'[i] = t
      BY <1>1, <1>5, <2>1
    <3> QED
      BY <1>1, <1>2, <1>3, <3>1
  <2>2. CASE i # k + 1
    <3>1. i \in 1 .. k
      BY <2>2
    <3>2. ready'[i] = ready[i]
      BY <1>1, <3>1
    <3> QED
      BY <1>2, <1>3, <1>4, <1>5, <3>1, <3>2
  <2> QED
    BY <2>1, <2>2
<1>7. Pieces(c)'
  BY <1>1, <1>2, <1>5, <1>6 DEF Pieces
<1> QED
  BY <1>1, <1>5, <1>7

\* ... which is empty for a read that is refused or cancelled.
LEMMA NothingReturned ==
  ASSUME IInv, InPieces, NEW t \in Task, NEW o \in Outcome, Return(t, o),
         returned[t] = <<>>, UNCHANGED <<taken, received>>, o.items = <<>>,
         (main.pc # "deliver" /\ main'.pc = "loop") \/ UNCHANGED main
  PROVE  InPieces'
<1>1. PICK cut \in [0 .. Len(ready) -> 0 .. Len(taken)] : Pieces(cut)
  BY DEF InPieces
<1>2. ready \in Seq(Task) /\ taken \in Seq(Item)
  BY DEF IInv, TypeOK
<1>3. Len(ready) \in Nat /\ Len(taken) \in Nat /\ cut[Len(ready)] \in 0 .. Len(taken)
  BY <1>1, <1>2
<1>4. o.items = SubSeq(taken, cut[Len(ready)] + 1, cut[Len(ready)])
  BY <1>3, SubSeqEmpty
<1>5. /\ cut[Len(ready)] \in cut[Len(ready)] .. Len(taken)
      /\ IF main'.pc = "deliver"
         THEN main'.out.items = SubSeq(taken, cut[Len(ready)] + 1, Len(taken))
         ELSE cut[Len(ready)] = Len(taken)
  <2>1. IF main.pc = "deliver"
        THEN main.out.items = SubSeq(taken, cut[Len(ready)] + 1, Len(taken))
        ELSE cut[Len(ready)] = Len(taken)
    BY <1>1 DEF Pieces
  <2> QED
    BY <1>3, <2>1
<1>6. \E c \in [0 .. Len(ready') -> 0 .. Len(taken')] : Pieces(c)'
  <2>1. \A n \in cut[Len(ready)] .. Len(taken) :
          /\ o.items = SubSeq(taken, cut[Len(ready)] + 1, n)
          /\ IF main'.pc = "deliver" THEN main'.out.items = SubSeq(taken, n + 1, Len(taken))
                                     ELSE n = Len(taken)
          => \E c \in [0 .. Len(ready') -> 0 .. Len(taken')] : Pieces(c)'
    BY <1>1, PieceReturned
  <2> QED
    BY <1>4, <1>5, <2>1
<1> QED
  BY <1>6 DEF InPieces

\* A delivery appends what it steals to what was stolen, and holds it.
LEMMA PieceStolen == ASSUME IInv, InPieces, Deliver_Lock PROVE InPieces'
<1>1. PICK cut \in [0 .. Len(ready) -> 0 .. Len(taken)] : Pieces(cut)
  BY DEF InPieces
<1>2. CASE waiter # NoTask /\ (items # <<>> \/ closed)
  <2>0. PICK k, n \in Nat : k = Len(ready) /\ n = Len(taken)
    BY DEF IInv, TypeOK
  <2> DEFINE all == taken \o items
  <2>1. /\ ready \in Seq(Task) /\ taken \in Seq(Item) /\ items \in Seq(Item)
        /\ k = Len(ready) /\ n = Len(taken) /\ Len(items) \in Nat
    BY <2>0 DEF IInv, TypeOK
  <2>2. /\ all \in Seq(Item) /\ Len(all) = n + Len(items)
        /\ \A i \in 1 .. Len(all) : all[i] = IF i <= n THEN taken[i] ELSE items[i - n]
    BY <2>1, ConcatProperties
  <2>3. ASSUME NEW a \in 0 .. n, NEW b \in 0 .. n
        PROVE  SubSeq(all, a + 1, b) = SubSeq(taken, a + 1, b)
    <3>1. CASE a + 1 <= b
      BY <2>1, <3>1, SubSeqOfConcat1
    <3>2. CASE b < a + 1
      BY <2>1, <3>2, SubSeqEmpty
    <3> QED
      BY <2>1, <3>1, <3>2
  <2>4. SubSeq(all, n + 1, Len(all)) = items
    <3>1. CASE items = <<>>
      <4>1. Len(all) < n + 1
        BY <2>1, <2>2, <3>1
      <4> QED
        BY <2>1, <2>2, <3>1, <4>1, SubSeqEmpty
    <3>2. CASE items # <<>>
      <4>1. Len(items) >= 1
        BY <2>1, <3>2
      <4>2. SubSeq(all, n + 1, Len(all)) = SubSeq(items, n + 1 - n, Len(all) - n)
        BY <2>1, <2>2, <4>1, SubSeqOfConcat2
      <4>3. n + 1 - n = 1 /\ Len(all) - n = Len(items)
        BY <2>1, <2>2
      <4> QED
        BY <2>1, <4>2, <4>3, SubSeqFull
    <3> QED
      BY <3>1, <3>2
  <2>5. /\ taken' = all /\ UNCHANGED <<ready, returned, received>>
        /\ main'.pc = "deliver" /\ main'.out.items = items /\ main.pc = "loop"
    BY <1>2 DEF Deliver_Lock, completion, Returning, Batch, Plain
  <2> HIDE DEF all
  <2>6. /\ cut \in [0 .. k -> 0 .. n] /\ cut[k] = n
        /\ received = SubSeq(taken, 1, cut[0])
        /\ \A i \in 1 .. k : /\ cut[i-1] <= cut[i]
                             /\ returned[ready[i]][1].items = SubSeq(taken, cut[i-1] + 1, cut[i])
    BY <1>1, <2>1, <2>5 DEF Pieces
  <2>7. cut \in [0 .. k -> 0 .. Len(all)]
    BY <2>1, <2>2, <2>6
  <2>8. received' = SubSeq(taken', 1, cut[0])
    <3>1. 0 \in 0 .. n /\ cut[0] \in 0 .. n
      <4>1. cut \in [0 .. k -> 0 .. n] /\ k \in Nat /\ n \in Nat
        BY <2>1, <2>6
      <4>2. 0 \in 0 .. n /\ 0 \in 0 .. k
        BY <4>1
      <4> QED
        BY <4>1, <4>2
    <3>2. SubSeq(all, 0 + 1, cut[0]) = SubSeq(taken, 0 + 1, cut[0])
      BY <2>3, <3>1
    <3> QED
      BY <2>5, <2>6, <3>2
  <2>9. ASSUME NEW i \in 1 .. k
        PROVE  returned'[ready'[i]][1].items = SubSeq(taken', cut[i-1] + 1, cut[i])
    <3>1. i - 1 \in 0 .. k /\ i \in 0 .. k
      OBVIOUS
    <3>2. cut[i-1] \in 0 .. n /\ cut[i] \in 0 .. n
      <4>1. cut \in [0 .. k -> 0 .. n]
        BY <2>6
      <4> QED
        BY <3>1, <4>1
    <3> QED
      BY <2>3, <2>5, <2>6, <3>2
  <2>10. Pieces(cut)'
    BY <2>1, <2>4, <2>5, <2>6, <2>7, <2>8, <2>9 DEF Pieces
  <2> QED
    BY <2>5, <2>7, <2>10 DEF InPieces
<1>3. CASE ~(waiter # NoTask /\ (items # <<>> \/ closed))
  BY <1>3, PiecesKept DEF Deliver_Lock, completion, InPieces
<1> QED
  BY <1>2, <1>3

\* A dispatched read hands its piece over.
LEMMA PieceReceived == ASSUME IInv, InPieces, Next_Finish PROVE InPieces'
<1>1. PICK cut \in [0 .. Len(ready) -> 0 .. Len(taken)] : Pieces(cut)
  BY DEF InPieces
<1>0. PICK k, n \in Nat : k = Len(ready) /\ n = Len(taken)
  BY DEF IInv, TypeOK
<1> DEFINE c == [i \in 0 .. k - 1 |-> cut[i + 1]]
<1>2. /\ ready \in Seq(Task) /\ ready # <<>> /\ taken \in Seq(Item) /\ k = Len(ready) /\ k # 0
      /\ n = Len(taken) /\ ready' \in Seq(Task) /\ Len(ready') = k - 1
      /\ \A i \in 1 .. k - 1 : ready'[i] = ready[i + 1]
      /\ main.pc = "loop" /\ UNCHANGED <<main, returned, taken>>
      /\ received' = received \o returned[ready[1]][1].items
  <2>1. /\ ready \in Seq(Task) /\ ready # <<>> /\ taken \in Seq(Item) /\ ready' = Tail(ready)
        /\ main.pc = "loop" /\ UNCHANGED <<main, returned, taken>>
        /\ received' = received \o returned[Head(ready)][1].items
    BY DEF IInv, TypeOK, Next_Finish
  <2>2. /\ Head(ready) = ready[1] /\ Tail(ready) \in Seq(Task) /\ Len(Tail(ready)) = k - 1
        /\ \A i \in 1 .. k - 1 : Tail(ready)[i] = ready[i + 1]
    BY <1>0, <2>1, HeadTailProperties
  <2>3. k # 0
    BY <1>0, <2>1
  <2> QED
    BY <1>0, <2>1, <2>2, <2>3
<1>3. /\ cut \in [0 .. k -> 0 .. n] /\ cut[k] = n
      /\ received = SubSeq(taken, 1, cut[0])
      /\ \A i \in 1 .. k : /\ cut[i-1] <= cut[i]
                           /\ returned[ready[i]][1].items = SubSeq(taken, cut[i-1] + 1, cut[i])
  BY <1>1, <1>2 DEF Pieces
<1>4. /\ cut[0] \in 0 .. n /\ cut[1] \in cut[0] .. n
      /\ returned[ready[1]][1].items = SubSeq(taken, cut[0] + 1, cut[1])
  <2>1. 0 \in 0 .. k /\ 1 \in 1 .. k /\ 1 \in 0 .. k /\ 1 - 1 = 0
    BY <1>2
  <2>3. cut[0] \in 0 .. n /\ cut[1] \in 0 .. n
    <3>1. cut \in [0 .. k -> 0 .. n]
      BY <1>3
    <3> QED
      BY <2>1, <3>1
  <2>2. cut[0] <= cut[1] /\ returned[ready[1]][1].items = SubSeq(taken, cut[0] + 1, cut[1])
    BY <1>3, <2>1
  <2> QED
    BY <2>2, <2>3
<1>5. received' = SubSeq(taken, 1, cut[1])
  <2>1. SubSeq(taken, 1, cut[0]) \o SubSeq(taken, cut[0] + 1, cut[1]) = SubSeq(taken, 1, cut[1])
    <3>1. 1 \in 1 .. n + 1 /\ cut[0] \in 1 - 1 .. n
      BY <1>2, <1>4
    <3> QED
      BY <1>2, <1>4, <3>1, ConcatAdjacentSubSeq
  <2> QED
    BY <1>2, <1>3, <1>4, <2>1
<1>6. /\ c \in [0 .. k - 1 -> 0 .. n] /\ c[0] = cut[1] /\ c[k - 1] = cut[k]
      /\ \A i \in 1 .. k - 1 : c[i-1] = cut[i] /\ c[i] = cut[i + 1]
  BY <1>2, <1>3
<1> HIDE DEF c
<1>7. ASSUME NEW i \in 1 .. k - 1
      PROVE  /\ c[i-1] <= c[i]
             /\ returned'[ready'[i]][1].items = SubSeq(taken', c[i-1] + 1, c[i])
  <2>1. i + 1 \in 1 .. k /\ (i + 1) - 1 = i
    BY <1>2
  <2>2. cut[i] <= cut[i + 1] /\ returned[ready[i + 1]][1].items = SubSeq(taken, cut[i] + 1, cut[i + 1])
    BY <1>3, <2>1
  <2> QED
    BY <1>2, <1>6, <2>2
<1>8. Pieces(c)'
  BY <1>2, <1>3, <1>5, <1>6, <1>7 DEF Pieces
<1> QED
  BY <1>2, <1>6, <1>8 DEF InPieces

LEMMA InPiecesInit == Init => InPieces
<1> SUFFICES ASSUME Init PROVE InPieces
  OBVIOUS
<1> DEFINE c == [i \in 0 .. 0 |-> 0]
<1>1. Len(ready) = 0 /\ Len(taken) = 0 /\ c \in [0 .. 0 -> 0 .. 0] /\ c[0] = 0
  BY DEF Init
<1>2. SubSeq(taken, 1, c[0]) = <<>>
  BY <1>1, SubSeqEmpty
<1>3. Pieces(c)
  BY <1>1, <1>2 DEF Init, Pieces, Loop
<1> QED
  BY <1>1, <1>3 DEF Init, InPieces, Loop

LEMMA InPiecesStep == IInv /\ InPieces /\ [Next]_vars => InPieces'
<1> SUFFICES ASSUME IInv, InPieces, [Next]_vars PROVE InPieces'
  OBVIOUS
<1>1. /\ main \in Main /\ main.out \in Outcome /\ Places /\ claimed \subseteq Task
  BY ScopedAssumption, OutType DEF IInv, TypeOK
<1>2. ASSUME NEW p \in Producer, Push(p) PROVE InPieces'
  BY <1>2, PiecesKept DEF Push, completion, InPieces
<1>3. ASSUME NEW e \in {"none", "failed"}, Close(e) PROVE InPieces'
  BY <1>3, PiecesKept DEF Close, completion, history, InPieces
<1>4. ASSUME NEW t \in Task, Next_Call(t) PROVE InPieces'
  BY <1>4, PiecesKept DEF Next_Call, completion, history, At
<1>5. CASE Next_Connect \/ Next_Lock \/ Next_Check
  BY <1>5, PiecesKept DEF Next_Connect, Next_Lock, Next_Check, completion, history, At,
     Returning, Plain, Loop
<1>6. CASE Next_Busy \/ Next_Cancel
  <2>1. /\ main.pc \in {"busy", "cancel"} /\ Return(main.task, main.out) /\ main'.pc = "loop"
        /\ UNCHANGED <<taken, received>>
    BY <1>6 DEF Next_Busy, Next_Cancel, history, Loop
  <2>2. main.task \in Task /\ returned[main.task] = <<>> /\ main.out.items = <<>>
    BY <1>1, <2>1 DEF Places, Held, InPieces
  <2> QED
    BY <1>1, <2>1, <2>2, NothingReturned
<1>7. CASE Deliver_Lock
  BY <1>7, PieceStolen
<1>8. CASE Deliver_Return
  <2>1. /\ main.pc = "deliver" /\ Return(main.task, main.out) /\ main'.pc = "loop"
        /\ UNCHANGED <<taken, received>>
    BY <1>8 DEF Deliver_Return, history, Loop
  <2>2. main.task \in Task /\ returned[main.task] = <<>>
    BY <1>1, <2>1 DEF Places, Held
  <2>3. PICK cut \in [0 .. Len(ready) -> 0 .. Len(taken)] : Pieces(cut)
    BY DEF InPieces
  <2>4. /\ main.out.items = SubSeq(taken, cut[Len(ready)] + 1, Len(taken))
        /\ Len(taken) \in cut[Len(ready)] .. Len(taken)
    <3>1. ready \in Seq(Task) /\ taken \in Seq(Item)
      BY DEF IInv, TypeOK
    <3>2. cut[Len(ready)] \in 0 .. Len(taken) /\ Len(taken) \in Nat
      BY <2>3, <3>1
    <3> QED
      BY <2>1, <2>3, <3>2 DEF Pieces
  <2>5. \E c \in [0 .. Len(ready') -> 0 .. Len(taken')] : Pieces(c)'
    BY <1>1, <2>1, <2>2, <2>3, <2>4, PieceReturned
  <2> QED
    BY <2>1, <2>5 DEF InPieces
<1>9. CASE Next_Finish
  BY <1>9, PieceReceived
<1>10. CASE Cancel
  BY <1>10, PiecesKept DEF Cancel, completion, history, InPieces
<1>11. ASSUME NEW t \in Task, Handler_Lock(t) PROVE InPieces'
  BY <1>11, PiecesKept DEF Handler_Lock, completion, history, InPieces
<1>12. ASSUME NEW t \in Task, Handler_Return(t) PROVE InPieces'
  <2>1. /\ Return(t, Plain("cancelled")) /\ t \in claimed
        /\ UNCHANGED <<main, taken, received>>
    BY <1>12 DEF Handler_Return, history
  <2>2. returned[t] = <<>> /\ Plain("cancelled") \in Outcome /\ Plain("cancelled").items = <<>>
    BY <1>1, <2>1, PlainType DEF Places, Plain
  <2> QED
    BY <2>1, <2>2, NothingReturned
<1>13. CASE UNCHANGED vars
  BY <1>13, PiecesKept DEF vars, completion, history, InPieces
<1> QED
  BY <1>2, <1>3, <1>4, <1>5, <1>6, <1>7, <1>8, <1>9, <1>10, <1>11, <1>12, <1>13
     DEF Next, MainStep, HandlerStep

\* What deliveries stole reaches the readers in order: nothing is dropped between
\* the critical section of stream_deliver and next_finish, whichever reads are
\* refused or cancelled in between.
LEMMA InductivePieces == Spec => []InPieces
BY InPiecesInit, InPiecesStep, Inductive, PTL DEF Spec

LEMMA PiecesReceived == IInv /\ InPieces => AllReceived
<1> SUFFICES ASSUME IInv, InPieces PROVE AllReceived
  OBVIOUS
<1>1. ready \in Seq(Task) /\ taken \in Seq(Item)
  BY DEF IInv, TypeOK
<1>2. PICK cut \in [0 .. Len(ready) -> 0 .. Len(taken)] : Pieces(cut)
  BY DEF InPieces
<1>3. cut[0] \in 0 .. Len(taken) /\ received = SubSeq(taken, 1, cut[0])
  BY <1>1, <1>2 DEF Pieces
<1>4. CASE main.pc # "deliver" /\ ready = <<>>
  <2>1. cut[0] = Len(taken)
    BY <1>2, <1>4 DEF Pieces
  <2> QED
    BY <1>1, <1>3, <2>1, SubSeqFull DEF AllReceived
<1> QED
  BY <1>3, <1>4 DEF AllReceived

\* Every item of a read whose callback was dispatched was received, in push order.
THEOREM ItemsReceived == Spec => []AllReceived
BY PiecesReceived, Inductive, InductivePieces, PTL

-----------------------------------------------------------------------------
(* The stream implements the feed. *)

LEMMA FeedInit == Init => feed!Init
BY DEF Init, feed!Init, settled, Holds, feed!Nothing, Plain, Loop


\* The cases of the refinement mapping.
LEMMA SettledValue ==
  ASSUME NEW t \in Task
  PROVE  /\ Holds(t) => settled[t] = main.out
         /\ ~Holds(t) /\ t \in claimed => settled[t] = Plain("cancelled")
         /\ ~Holds(t) /\ t \notin claimed /\ returned[t] = <<>> =>
              settled[t] = feed!Nothing
         /\ ~Holds(t) /\ t \notin claimed /\ returned[t] # <<>> =>
              settled[t] = returned[t][1]
BY DEF settled, feed!Nothing, Plain

LEMMA FeedStep == IInv /\ [Next]_vars => [feed!Next]_(feed!feedVars)
<1> SUFFICES ASSUME IInv, [Next]_vars PROVE [feed!Next]_(feed!feedVars)
  OBVIOUS
<1> USE ScopedAssumption, NoTaskAssumption
<1> USE DEF feed!feedVars, Holds, stream, scope, completion, history
<1>1. ASSUME NEW p \in Producer, Push(p) PROVE [feed!Next]_(feed!feedVars)
  <2>1. settled' = settled
    BY <1>1 DEF Push, settled
  <2>2. CASE closed
    BY <1>1, <2>1, <2>2 DEF Push
  <2>3. CASE ~closed
    <3>1. <<p, pushed[p] + 1>> \in feed!Item
      BY <1>1, MaxPushAssumption DEF Push, feed!Item, IInv, TypeOK
    <3>2. feed!Push(<<p, pushed[p] + 1>>)
      BY <1>1, <2>1, <2>3 DEF Push, feed!Push
    <3> QED
      BY <3>1, <3>2 DEF feed!Next
  <2> QED
    BY <2>2, <2>3
<1>2. ASSUME NEW e \in {"none", "failed"}, Close(e) PROVE [feed!Next]_(feed!feedVars)
  <2>1. settled' = settled
    BY <1>2 DEF Close, settled
  <2>2. feed!Close(e)
    BY <1>2, <2>1 DEF Close, feed!Close
  <2> QED
    BY <2>2 DEF feed!Next
<1>3. ASSUME NEW t \in Task, Next_Call(t) PROVE [feed!Next]_(feed!feedVars)
  <2>1. settled' = settled
    BY <1>3 DEF Next_Call, settled, At
  <2> QED
    BY <1>3, <2>1 DEF Next_Call
<1>4. CASE Next_Connect
  <2>1. settled' = settled
    BY <1>4 DEF Next_Connect, settled, At
  <2> QED
    BY <1>4, <2>1 DEF Next_Connect
<1>5. CASE Next_Lock
  <2>1. main.task \in Task /\ main.task # waiter /\ ~Holds(main.task)
        /\ main.task \notin claimed /\ returned[main.task] = <<>>
    BY <1>5 DEF Next_Lock, IInv, Places, Held
  <2>2. settled[main.task] = feed!Nothing
    BY <2>1, SettledValue
  <2>3. CASE waiter # NoTask
    <3>3. /\ main' = Returning("busy", main.task, Plain("pending"))
          /\ UNCHANGED <<claimed, returned>>
      BY <1>5, <2>3 DEF Next_Lock
    <3>4. main.pc = "lock"
      BY <1>5 DEF Next_Lock
    <3>1. settled' = [settled EXCEPT ![main.task] = Plain("pending")]
      BY <2>1, <3>3, <3>4 DEF settled, Returning
    <3>2. feed!Refuse(main.task)
      BY <1>5, <2>1, <2>2, <2>3, <3>1 DEF Next_Lock, feed!Refuse, feed!Returns, Plain
    <3> QED
      BY <2>1, <3>2 DEF feed!Next
  <2>4. CASE waiter = NoTask
    <3>1. settled' = settled
      BY <1>5, <2>4 DEF Next_Lock, settled, At, Loop
    <3>2. feed!Read(main.task)
      BY <1>5, <2>1, <2>2, <2>4, <3>1 DEF Next_Lock, feed!Read
    <3> QED
      BY <2>1, <3>2 DEF feed!Next
  <2> QED
    BY <2>3, <2>4
<1>6. CASE Next_Busy
  <2>2. /\ main.task \in Task /\ main.out \in Outcome
        /\ Return(main.task, main.out) /\ returned[main.task] = <<>>
        /\ main.task \notin claimed
    BY <1>6, OutType DEF Next_Busy, IInv, Places, Held, TypeOK
  <2>3. /\ \A u \in Task : u # main.task => returned'[u] = returned[u]
        /\ returned'[main.task] # <<>> /\ returned'[main.task][1] = main.out
    BY <2>2, ReturnFirst DEF IInv
  <2>1. settled' = settled
    BY <1>6, <2>2, <2>3 DEF Next_Busy, settled, Loop
  <2> QED
    BY <1>6, <2>1 DEF Next_Busy
<1>7. CASE Next_Check
  <2>1. main.task \in Scoped
    BY <1>7 DEF Next_Check, IInv, Places
  <2>2. CASE cancelled /\ waiter = main.task
    <3>3. /\ main' = Returning("cancel", waiter, Plain("cancelled"))
          /\ UNCHANGED <<claimed, returned>>
      BY <1>7, <2>2 DEF Next_Check
    <3>4. main.pc = "check"
      BY <1>7 DEF Next_Check
    <3>1. settled' = [settled EXCEPT ![waiter] = Plain("cancelled")]
      BY <2>1, <2>2, <3>3, <3>4 DEF settled, Returning
    <3>2. feed!AnswerCancelled
      BY <1>7, <2>1, <2>2, <3>1 DEF Next_Check, feed!AnswerCancelled, feed!Returns, Plain
    <3> QED
      BY <3>2 DEF feed!Next
  <2>3. CASE ~(cancelled /\ waiter = main.task)
    <3>1. settled' = settled
      BY <1>7, <2>3 DEF Next_Check, settled, Loop
    <3> QED
      BY <1>7, <2>3, <3>1 DEF Next_Check
  <2> QED
    BY <2>2, <2>3
<1>8. CASE Next_Cancel
  <2>2. /\ main.task \in Task /\ main.out \in Outcome
        /\ Return(main.task, main.out) /\ returned[main.task] = <<>>
        /\ main.task \notin claimed
    BY <1>8, OutType DEF Next_Cancel, IInv, Places, Held, TypeOK
  <2>3. /\ \A u \in Task : u # main.task => returned'[u] = returned[u]
        /\ returned'[main.task] # <<>> /\ returned'[main.task][1] = main.out
    BY <2>2, ReturnFirst DEF IInv
  <2>1. settled' = settled
    BY <1>8, <2>2, <2>3 DEF Next_Cancel, settled, Loop
  <2> QED
    BY <1>8, <2>1 DEF Next_Cancel
<1>9. CASE Deliver_Lock
  <2>1. CASE waiter # NoTask /\ (items # <<>> \/ closed)
    <3>4. /\ main.pc = "loop" /\ main'.task = waiter /\ main'.pc = "deliver"
          /\ UNCHANGED <<claimed, returned>>
      BY <1>9, <2>1 DEF Deliver_Lock, Returning
    <3>1. settled' = [settled EXCEPT ![waiter] = main'.out]
      BY <3>4 DEF settled
    <3>2. waiter \in Task
      BY <2>1 DEF IInv, TypeOK
    <3>5. main'.out = IF items # <<>> THEN Batch(items)
                      ELSE Plain(IF error = "none" THEN "end" ELSE "error")
      BY <1>9, <2>1 DEF Deliver_Lock, Returning
    <3>6. waiter' = NoTask /\ items' = <<>> /\ UNCHANGED <<closed, error, cancelled>>
      BY <1>9, <2>1 DEF Deliver_Lock
    <3>3. feed!Answer
      <4>1. CASE items # <<>>
        BY <2>1, <3>1, <3>2, <3>5, <3>6, <4>1 DEF feed!Answer, feed!Returns, Batch
      <4>2. CASE items = <<>>
        BY <2>1, <3>1, <3>2, <3>5, <3>6, <4>2 DEF feed!Answer, feed!Returns, Plain
      <4> QED
        BY <4>1, <4>2
    <3> QED
      BY <3>3 DEF feed!Next
  <2>2. CASE ~(waiter # NoTask /\ (items # <<>> \/ closed))
    <3>1. settled' = settled
      BY <1>9, <2>2 DEF Deliver_Lock, settled
    <3> QED
      BY <1>9, <2>2, <3>1 DEF Deliver_Lock
  <2> QED
    BY <2>1, <2>2
<1>10. CASE Deliver_Return
  <2>2. /\ main.task \in Task /\ main.out \in Outcome
        /\ Return(main.task, main.out) /\ returned[main.task] = <<>>
        /\ main.task \notin claimed
    BY <1>10, OutType DEF Deliver_Return, IInv, Places, Held, TypeOK
  <2>3. /\ \A u \in Task : u # main.task => returned'[u] = returned[u]
        /\ returned'[main.task] # <<>> /\ returned'[main.task][1] = main.out
    BY <2>2, ReturnFirst DEF IInv
  <2>1. settled' = settled
    BY <1>10, <2>2, <2>3 DEF Deliver_Return, settled, Loop
  <2> QED
    BY <1>10, <2>1 DEF Deliver_Return
<1>11. CASE Next_Finish
  <2>1. settled' = settled
    BY <1>11 DEF Next_Finish, settled
  <2> QED
    BY <1>11, <2>1 DEF Next_Finish
<1>12. CASE Cancel
  <2>1. settled' = settled
    BY <1>12 DEF Cancel, settled
  <2>2. feed!Cancel
    BY <1>12, <2>1 DEF Cancel, feed!Cancel
  <2> QED
    BY <2>2 DEF feed!Next
<1>13. ASSUME NEW t \in Task, Handler_Lock(t) PROVE [feed!Next]_(feed!feedVars)
  <2>1. t \in Scoped /\ cancelled
    BY <1>13 DEF Handler_Lock, IInv, TypeOK, Cancelling
  <2>2. CASE waiter = t
    <3>1. ~Holds(t)
      BY <2>2 DEF IInv, Places, Held
    <3>2. settled' = [settled EXCEPT ![waiter] = Plain("cancelled")]
      BY <1>13, <2>1, <2>2, <3>1 DEF Handler_Lock, settled, Holds
    <3>3. feed!AnswerCancelled
      BY <1>13, <2>1, <2>2, <3>2
         DEF Handler_Lock, feed!AnswerCancelled, feed!Returns, Plain
    <3> QED
      BY <3>3 DEF feed!Next
  <2>3. CASE waiter # t
    <3>1. settled' = settled
      BY <1>13, <2>3 DEF Handler_Lock, settled
    <3> QED
      BY <1>13, <2>3, <3>1 DEF Handler_Lock
  <2> QED
    BY <2>2, <2>3
<1>14. ASSUME NEW t \in Task, Handler_Return(t) PROVE [feed!Next]_(feed!feedVars)
  <2>1. settled' = settled
    BY <1>14 DEF Handler_Return, settled, Return, IInv, Places, Held, TypeOK
  <2> QED
    BY <1>14, <2>1 DEF Handler_Return
<1>15. CASE UNCHANGED vars
  <2>1. settled' = settled
    BY <1>15 DEF vars, settled
  <2> QED
    BY <1>15, <2>1 DEF vars
<1> QED
  BY <1>1, <1>2, <1>3, <1>4, <1>5, <1>6, <1>7, <1>8, <1>9, <1>10, <1>11,
     <1>12, <1>13, <1>14, <1>15 DEF Next, MainStep, HandlerStep

\* Every step of the engine's stream is a step of the feed its callers were
\* promised, or changes nothing they can see.
THEOREM StreamImplementsFeed == Spec => feed!Spec
BY FeedInit, FeedStep, Inductive, PTL DEF Spec, feed!Spec

-----------------------------------------------------------------------------
(***************************************************************************)
(* What a reader of Feed.spawn is told (FeedSpawn), for every set of reads,*)
(* cancellable or not, and every number of pushes.                         *)
(*                                                                         *)
(* The reader starts a read when the last one was dispatched, so at most   *)
(* one read is anywhere in the stream (ReadsInTurn).  The null that ends   *)
(* the feed is returned last, and when it is dispatched nothing stolen is  *)
(* still on its way (InPieces).  The error the stream was closed with is   *)
(* the verdict of the closure (WorkerOK, EndsWell).                        *)
(***************************************************************************)

\* The stream is closed by the closure alone, once it is done pushing.
WorkerOK ==
  /\ worker \in {"queued", "skipped", "running", "closing", "done"}
  /\ verdict \in Error
  /\ closed => worker = "done" /\ error = verdict
  /\ Len(accepted) = pushed[Thread]

\* A null held or returned: the stream was closed without an error.
EndsWell ==
  /\ Holds(main.task) /\ main.out.kind = "end" => error = "none"
  /\ \A t \in Task : \A i \in DOMAIN returned[t] :
       returned[t][i].kind = "end" => error = "none"

\* No read is in the stream, or t alone.
Nowhere == main.pc = "loop" /\ waiter = NoTask /\ claimed = {} /\ ready = <<>>
Alone(t) ==
  /\ ready \in {<<>>, <<t>>}
  /\ waiter \in {NoTask, t}
  /\ claimed \subseteq {t}
  /\ main.pc # "loop" => main.task = t

Batches == \A i \in DOMAIN finished : returned[finished[i]][1].kind = "batch"

ReadsInTurn ==
  /\ finished \in Seq(Task)
  /\ \A i \in DOMAIN finished : returned[finished[i]] # <<>>
  /\ \/ calls = finished /\ Nowhere
     \/ \E t \in Task : calls = Append(finished, t) /\ Alone(t) /\ Batches

SpawnInv == IInv /\ InPieces /\ WorkerOK /\ EndsWell /\ ReadsInTurn

LEMMA SpawnInvInit == SpawnInit => SpawnInv
<1> SUFFICES ASSUME SpawnInit PROVE SpawnInv
  OBVIOUS
<1>1. IInv /\ InPieces
  BY InitIInv, InPiecesInit DEF SpawnInit
<1>2. WorkerOK
  BY ThreadAssumption DEF SpawnInit, Init, WorkerOK, Error
<1>3. EndsWell
  BY DEF SpawnInit, Init, EndsWell
<1>4. ReadsInTurn
  BY DEF SpawnInit, Init, ReadsInTurn, Nowhere, Loop
<1> QED
  BY <1>1, <1>2, <1>3, <1>4 DEF SpawnInv

-----------------------------------------------------------------------------
(* The stream's invariants hold: spawn only adds a close with a cancellation.*)

LEMMA CloseStep ==
  ASSUME IInv, InPieces, NEW e \in Error, Close(e)
  PROVE  IInv' /\ InPieces'
<1> USE DEF Close, completion, history, scope
<1>1. TypeOK'
  <2>1. idle' \in BOOLEAN
    BY DEF IInv, TypeOK, Scheduled
  <2> QED
    BY <2>1 DEF IInv, TypeOK
<1>2. Places' /\ Cancelling' /\ Completed' /\ ReturnedOnce'
  BY DEF IInv, Places, Cancelling, Completed, ReturnedOnce
<1>3. Final' /\ HandlersDisconnected'
  BY DEF IInv, Final, HandlersDisconnected, Holds
<1>4. Conservation' /\ NoLostWakeup'
  BY DEF IInv, Conservation, NoLostWakeup, Scheduled
<1>5. InPieces'
  BY PiecesKept DEF InPieces
<1> QED
  BY <1>1, <1>2, <1>3, <1>4, <1>5 DEF IInv

LEMMA StreamStep ==
  ASSUME SpawnInv, [SpawnNext]_spawnVars
  PROVE  /\ [Next]_vars \/ \E e \in Error : Close(e)
         /\ IInv' /\ InPieces'
<1>1. [Next]_vars \/ \E e \in Error : Close(e)
  <2>1. CASE Worker_Start \/ Worker_Return \/ Scope_Cancel
    BY <2>1 DEF Worker_Start, Worker_Return, Scope_Cancel
  <2>2. CASE Worker_Push
    BY <2>2, ThreadAssumption DEF Worker_Push, Next
  <2>3. CASE Worker_Close
    BY <2>3 DEF Worker_Close, SpawnInv, WorkerOK
  <2>4. CASE Reader_Call
    BY <2>4 DEF Reader_Call, Next
  <2>5. CASE Reader_Main \/ Reader_Cancel
    BY <2>5 DEF Reader_Main, Reader_Cancel, Next
  <2>6. CASE UNCHANGED spawnVars
    BY <2>6 DEF spawnVars
  <2> QED
    BY <2>1, <2>2, <2>3, <2>4, <2>5, <2>6 DEF SpawnNext, WorkerStep
<1> QED
  BY <1>1, CloseStep, IInvStep, InPiecesStep DEF SpawnInv

-----------------------------------------------------------------------------
(* The producer's thread. *)

LEMMA WorkerStepOK ==
  ASSUME SpawnInv, [SpawnNext]_spawnVars
  PROVE  WorkerOK'
<1> USE DEF SpawnInv, WorkerOK
<1>1. CASE Worker_Start \/ Worker_Return
  BY <1>1 DEF Worker_Start, Worker_Return, vars, stream, history, Error
<1>2. CASE Worker_Push
  <2>1. ~closed /\ UNCHANGED <<worker, verdict, closed, error>>
    BY <1>2 DEF Worker_Push, Push, spawned
  <2>2. /\ accepted' = Append(accepted, <<Thread, pushed[Thread] + 1>>)
        /\ pushed'[Thread] = pushed[Thread] + 1 /\ accepted \in Seq(Item)
    BY <1>2, <2>1, ThreadAssumption DEF Worker_Push, Push, IInv, TypeOK
  <2>3. Len(accepted') = Len(accepted) + 1
    BY <2>2
  <2> QED
    BY <1>2, <2>1, <2>2, <2>3 DEF Worker_Push
<1>3. CASE Worker_Close
  BY <1>3 DEF Worker_Close, Close, history
<1>4. CASE Scope_Cancel
  BY <1>4 DEF Scope_Cancel, vars, stream, history
<1>5. CASE Reader_Call
  BY <1>5 DEF Reader_Call, Next_Call, spawned, stream, history
<1>6. CASE Reader_Main \/ Reader_Cancel
  <2>1. UNCHANGED <<closed, error, accepted, pushed>>
    BY <1>6 DEF Reader_Main, Reader_Cancel, MainStep, HandlerStep, Next_Connect, Next_Lock,
       Next_Busy, Next_Check, Next_Cancel, Deliver_Lock, Deliver_Return, Next_Finish, Cancel,
       Handler_Lock, Handler_Return, stream, history
  <2> QED
    BY <1>6, <2>1 DEF Reader_Main, Reader_Cancel, spawned
<1>7. CASE UNCHANGED spawnVars
  BY <1>7 DEF spawnVars, spawned, vars, stream, history
<1> QED
  BY <1>1, <1>2, <1>3, <1>4, <1>5, <1>6, <1>7 DEF SpawnNext, WorkerStep

-----------------------------------------------------------------------------
(* What reads return. *)

\* The result of a read that has one stays its result.
LEMMA ResultStays ==
  ASSUME IInv, [Next]_vars \/ \E e \in Error : Close(e), NEW t \in Task, returned[t] # <<>>
  PROVE  returned'[t] # <<>> /\ returned'[t][1] = returned[t][1]
<1>1. CASE UNCHANGED returned
  BY <1>1
<1>2. ASSUME NEW u, NEW o, Return(u, o) PROVE returned'[t] # <<>> /\ returned'[t][1] = returned[t][1]
  <2>1. returned[t] \in Seq(Outcome) /\ returned'[t] = IF u = t THEN Append(returned[t], o) ELSE returned[t]
    BY <1>2 DEF IInv, TypeOK, Return
  <2>2. Len(returned[t]) > 0
    BY <2>1
  <2> QED
    BY <2>1, <2>2
<1>3. UNCHANGED returned \/ \E u, o : Return(u, o)
  BY DEF Next, MainStep, HandlerStep, Push, Close, Next_Call, Next_Connect, Next_Lock,
     Next_Busy, Next_Check, Next_Cancel, Deliver_Lock, Deliver_Return, Next_Finish, Cancel,
     Handler_Lock, Handler_Return, vars, completion
<1> QED
  BY <1>1, <1>2, <1>3

LEMMA EndsWellStep ==
  ASSUME SpawnInv, [Next]_vars \/ \E e \in Error : Close(e)
  PROVE  EndsWell'
<1> USE DEF SpawnInv
<1>1. ASSUME NEW t \in Task, NEW o \in Outcome, Return(t, o), main'.pc = "loop" \/ UNCHANGED main,
             o.kind = "end" => error = "none", UNCHANGED error
      PROVE  EndsWell'
  <2>1. /\ \A u \in Task : u # t => returned'[u] = returned[u]
        /\ \A i \in DOMAIN returned'[t] :
             \/ returned'[t][i] = o
             \/ i \in DOMAIN returned[t] /\ returned'[t][i] = returned[t][i]
    BY <1>1, ReturnAdds DEF IInv
  <2> QED
    BY <1>1, <2>1 DEF EndsWell, Holds
<1>2. \A p \in Producer : Push(p) => EndsWell'
  BY DEF Push, completion, EndsWell, Holds
<1>3. ASSUME NEW e, Close(e) PROVE EndsWell'
  BY <1>3 DEF Close, completion, EndsWell, Holds, IInv, Final
<1>4. \A t \in Task : Next_Call(t) => EndsWell'
  BY DEF Next_Call, stream, completion, EndsWell, Holds, At
<1>5. CASE Next_Connect \/ Next_Lock \/ Next_Check
  BY <1>5 DEF Next_Connect, Next_Lock, Next_Check, stream, completion, EndsWell, Holds, At,
     Returning, Plain, Loop
<1>6. CASE Next_Busy \/ Next_Cancel \/ Deliver_Return
  <2>1. /\ Return(main.task, main.out) /\ main'.pc = "loop" /\ UNCHANGED error
        /\ main.pc \in {"busy", "cancel", "deliver"}
    BY <1>6 DEF Next_Busy, Next_Cancel, Deliver_Return, stream, Loop
  <2>2. main.task \in Task /\ main.out \in Outcome /\ (main.out.kind = "end" => error = "none")
    BY <2>1, OutType DEF IInv, TypeOK, Places, EndsWell, Holds
  <2> QED
    BY <1>1, <2>1, <2>2
<1>7. CASE Deliver_Lock
  BY <1>7 DEF Deliver_Lock, completion, EndsWell, Holds, Returning, Batch, Plain
<1>8. CASE Next_Finish
  BY <1>8 DEF Next_Finish, stream, EndsWell, Holds
<1>9. CASE Cancel
  BY <1>9 DEF Cancel, stream, completion, EndsWell, Holds
<1>10. \A t \in Task : Handler_Lock(t) => EndsWell'
  BY DEF Handler_Lock, completion, EndsWell, Holds
<1>11. ASSUME NEW t \in Task, Handler_Return(t) PROVE EndsWell'
  <2>1. Return(t, Plain("cancelled")) /\ UNCHANGED <<main, error>> /\ Plain("cancelled") \in Outcome
    BY <1>11, PlainType DEF Handler_Return, stream
  <2>2. Plain("cancelled").kind # "end"
    BY DEF Plain
  <2> QED
    BY <1>1, <2>1, <2>2
<1>12. CASE UNCHANGED vars
  BY <1>12 DEF vars, stream, completion, EndsWell, Holds
<1> QED
  BY <1>2, <1>3, <1>4, <1>5, <1>6, <1>7, <1>8, <1>9, <1>10, <1>11, <1>12
     DEF Next, MainStep, HandlerStep

-----------------------------------------------------------------------------
(* One read at a time. *)

\* Without a read in the stream, the main loop and the handlers find nothing.
LEMMA NowhereStep ==
  ASSUME IInv, Nowhere, MainStep \/ Cancel \/ HandlerStep
  PROVE  Nowhere' /\ UNCHANGED ready
<1>1. main = Loop
  BY DEF Nowhere, IInv, Places
<1>2. CASE Deliver_Lock
  BY <1>2 DEF Deliver_Lock, Nowhere, scope, completion
<1>3. CASE Cancel
  BY <1>3 DEF Cancel, Nowhere, stream, completion
<1>4. ASSUME NEW t \in Task, Handler_Lock(t) PROVE Nowhere' /\ UNCHANGED ready
  BY <1>4, NoTaskAssumption DEF Handler_Lock, Nowhere, completion
<1>5. ASSUME NEW t \in Task, Handler_Return(t) PROVE FALSE
  BY <1>5 DEF Handler_Return, Nowhere
<1>6. ASSUME MainStep PROVE Deliver_Lock
  BY <1>6 DEF MainStep, Next_Connect, Next_Lock, Next_Busy, Next_Check, Next_Cancel,
     Deliver_Return, Next_Finish, Nowhere
<1> QED
  BY <1>2, <1>3, <1>4, <1>5, <1>6 DEF HandlerStep

\* With the read t alone in it, t stays alone until its callback is dispatched.
LEMMA AloneStep ==
  ASSUME IInv, NEW t \in Task, Alone(t), MainStep \/ Cancel \/ HandlerStep
  PROVE  \/ Alone(t)' /\ Len(ready') >= Len(ready)
         \/ ready = <<t>> /\ ready' = <<>> /\ Nowhere' /\ UNCHANGED returned
<1>1. /\ Places /\ Completed /\ ready \in Seq(Task) /\ main.task \in Task \cup {NoTask}
      /\ main.pc = "loop" => main = Loop
  BY DEF IInv, TypeOK, Places, Main
<1>2. ready = <<t>> => returned[t] # <<>>
  <2>1. ready = <<t>> => 1 \in DOMAIN ready /\ ready[1] = t
    OBVIOUS
  <2> QED
    BY <1>1, <2>1 DEF Completed
<1>3. ASSUME NEW o, Return(t, o), returned[t] = <<>>
      PROVE  ready = <<>> /\ ready' = <<t>> /\ Len(ready') >= Len(ready)
  <2>1. ready = <<>>
    BY <1>2, <1>3 DEF Alone
  <2> QED
    BY <1>3, <2>1 DEF Return
<1>4. ASSUME UNCHANGED ready PROVE Len(ready') >= Len(ready)
  BY <1>1, <1>4
<1>5. CASE Next_Connect \/ Next_Lock \/ Next_Check \/ Deliver_Lock
  <2>1. UNCHANGED ready
    BY <1>5 DEF Next_Connect, Next_Lock, Next_Check, Deliver_Lock, completion
  <2>2. Alone(t)'
    BY <1>1, <1>5, <2>1 DEF Next_Connect, Next_Lock, Next_Check, Deliver_Lock, Alone, stream,
       scope, At, Loop, Returning
  <2> QED
    BY <1>4, <2>1, <2>2
<1>6. CASE Next_Busy \/ Next_Cancel \/ Deliver_Return
  <2>1. /\ Return(main.task, main.out) /\ main'.pc = "loop" /\ UNCHANGED <<waiter, claimed>>
        /\ main.pc \in {"busy", "cancel", "deliver"}
    BY <1>6 DEF Next_Busy, Next_Cancel, Deliver_Return, stream, scope, Loop
  <2>2. main.task = t /\ returned[t] = <<>>
    BY <1>1, <2>1 DEF Alone, Places, Held
  <2>3. ready' = <<t>> /\ Len(ready') >= Len(ready)
    BY <1>3, <2>1, <2>2
  <2> QED
    BY <2>1, <2>3 DEF Alone
<1>7. CASE Next_Finish
  <2>1. /\ main.pc = "loop" /\ ready # <<>> /\ ready' = Tail(ready)
        /\ UNCHANGED <<main, waiter, claimed, returned>>
    BY <1>7 DEF Next_Finish, stream, scope
  <2>2. ready = <<t>> /\ ready' = <<>>
    BY <2>1 DEF Alone
  <2>3. waiter = NoTask /\ claimed = {}
    BY <1>1, <1>2, <2>2, NoTaskAssumption DEF Alone, Places
  <2> QED
    BY <2>1, <2>2, <2>3 DEF Nowhere
<1>8. CASE Cancel
  BY <1>4, <1>8 DEF Cancel, Alone, stream, completion
<1>9. ASSUME NEW u \in Task, Handler_Lock(u) PROVE Alone(t)' /\ Len(ready') >= Len(ready)
  BY <1>4, <1>9, NoTaskAssumption DEF Handler_Lock, Alone, completion
<1>10. ASSUME NEW u \in Task, Handler_Return(u) PROVE Alone(t)' /\ Len(ready') >= Len(ready)
  <2>1. u = t /\ returned[t] = <<>> /\ Return(t, Plain("cancelled"))
    BY <1>1, <1>10 DEF Handler_Return, Alone, Places
  <2>2. ready' = <<t>> /\ Len(ready') >= Len(ready)
    BY <1>3, <2>1
  <2> QED
    BY <1>10, <2>2 DEF Handler_Return, Alone, stream
<1> QED
  BY <1>5, <1>6, <1>7, <1>8, <1>9, <1>10 DEF MainStep, HandlerStep

\* Finished reads keep their results.
LEMMA FinishedStay ==
  ASSUME SpawnInv, [SpawnNext]_spawnVars
  PROVE  /\ \A i \in DOMAIN finished : /\ returned'[finished[i]] # <<>>
                                       /\ returned'[finished[i]][1] = returned[finished[i]][1]
<1>1. [Next]_vars \/ \E e \in Error : Close(e)
  BY StreamStep
<1> QED
  BY <1>1, ResultStays DEF SpawnInv, ReadsInTurn

LEMMA ReadsInTurnStep ==
  ASSUME SpawnInv, [SpawnNext]_spawnVars
  PROVE  ReadsInTurn'
<1>1. /\ finished \in Seq(Task) /\ \A i \in DOMAIN finished : returned[finished[i]] # <<>>
      /\ \/ calls = finished /\ Nowhere
         \/ \E t \in Task : calls = Append(finished, t) /\ Alone(t) /\ Batches
  BY DEF SpawnInv, ReadsInTurn
<1>2. \A i \in DOMAIN finished : /\ returned'[finished[i]] # <<>>
                                 /\ returned'[finished[i]][1] = returned[finished[i]][1]
  BY FinishedStay
<1>3. ASSUME UNCHANGED <<calls, finished, main, waiter, claimed, ready>> PROVE ReadsInTurn'
  <2>1. Nowhere => Nowhere'
    BY <1>3 DEF Nowhere
  <2>2. \A t \in Task : Alone(t) => Alone(t)'
    BY <1>3 DEF Alone
  <2>3. Batches => Batches'
    BY <1>2, <1>3 DEF Batches
  <2> QED
    BY <1>1, <1>2, <1>3, <2>1, <2>2, <2>3 DEF ReadsInTurn
<1>4. CASE WorkerStep \/ Scope_Cancel \/ UNCHANGED spawnVars
  BY <1>3, <1>4 DEF WorkerStep, Worker_Start, Worker_Push, Worker_Return, Worker_Close,
     Scope_Cancel, Push, Close, spawnVars, reader, vars, stream, scope, completion
<1>5. CASE Reader_Call
  <2>1. PICK t \in Task : Next_Call(t) /\ calls' = Append(calls, t)
    BY <1>5 DEF Reader_Call
  <2>2. calls = finished /\ UNCHANGED finished /\ Batches
    BY <1>5 DEF Reader_Call, Outcomes, Batches
  <2>3. main.pc = "loop" /\ main'.task = t /\ UNCHANGED <<waiter, claimed, ready>>
    BY <2>1 DEF Next_Call, At, stream, scope, completion
  <2>4. \A u \in Task : Append(finished, u) # finished
    <3>1. \A u \in Task : Len(Append(finished, u)) # Len(finished)
      BY <1>1
    <3> QED
      BY <3>1
  <2>5. Nowhere
    BY <1>1, <2>2, <2>4
  <2>6. Alone(t)' /\ Batches'
    BY <1>2, <2>2, <2>3, <2>5 DEF Nowhere, Alone, Batches
  <2> QED
    BY <1>1, <1>2, <2>1, <2>2, <2>6 DEF ReadsInTurn
<1>6. CASE Reader_Cancel
  <2>1. UNCHANGED <<calls, finished>> /\ (Cancel \/ HandlerStep)
    BY <1>6 DEF Reader_Cancel, reader
  <2>3. Batches => Batches'
    BY <1>2, <2>1 DEF Batches
  <2>4. CASE calls = finished /\ Nowhere
    BY <1>1, <1>2, <2>1, <2>4, NowhereStep DEF SpawnInv, ReadsInTurn
  <2>5. ASSUME NEW t \in Task, calls = Append(finished, t), Alone(t), Batches PROVE ReadsInTurn'
    <3>1. Alone(t)' \/ (ready = <<t>> /\ ready' = <<>>)
      BY <2>1, <2>5, AloneStep DEF SpawnInv
    <3>2. ~(ready = <<t>> /\ ready' = <<>>)
      <4>1. UNCHANGED ready \/ \E u \in Task : ready' = Append(ready, u)
        BY <2>1 DEF Cancel, HandlerStep, Handler_Lock, Handler_Return, Return, completion
      <4>2. \A u \in Task : Append(<<t>>, u) # <<>>
        OBVIOUS
      <4> QED
        BY <4>1, <4>2
    <3> QED
      BY <1>1, <1>2, <2>1, <2>3, <2>5, <3>1, <3>2 DEF ReadsInTurn
  <2> QED
    BY <1>1, <2>4, <2>5
<1>7. CASE Reader_Main
  <2>1. /\ MainStep /\ UNCHANGED calls
        /\ finished' = IF Len(ready') < Len(ready) THEN Append(finished, Head(ready)) ELSE finished
        /\ ready \in Seq(Task) /\ ready' \in Seq(Task)
    <3>1. TypeOK /\ TypeOK'
      BY StreamStep DEF SpawnInv, IInv
    <3> QED
      BY <1>7, <3>1 DEF Reader_Main, TypeOK
  <2>2. CASE calls = finished /\ Nowhere
    <3>1. Nowhere' /\ UNCHANGED ready
      BY <2>1, <2>2, NowhereStep DEF SpawnInv
    <3>2. UNCHANGED finished
      BY <2>1, <3>1
    <3> QED
      BY <1>1, <1>2, <2>1, <2>2, <3>1, <3>2 DEF ReadsInTurn
  <2>3. ASSUME NEW t \in Task, calls = Append(finished, t), Alone(t), Batches PROVE ReadsInTurn'
    <3>1. CASE Alone(t)' /\ Len(ready') >= Len(ready)
      <4>1. UNCHANGED finished
        BY <2>1, <3>1
      <4>2. Batches'
        BY <1>2, <2>3, <4>1 DEF Batches
      <4> QED
        BY <1>1, <1>2, <2>1, <2>3, <3>1, <4>1, <4>2 DEF ReadsInTurn
    <3>2. CASE ready = <<t>> /\ ready' = <<>> /\ Nowhere' /\ UNCHANGED returned
      <4>1. finished' = Append(finished, t) /\ finished' \in Seq(Task)
        BY <1>1, <2>1, <3>2
      <4>2. returned'[t] # <<>>
        <5>1. 1 \in DOMAIN ready /\ ready[1] = t
          BY <3>2
        <5> QED
          BY <3>2, <5>1 DEF SpawnInv, IInv, Completed
      <4>3. \A i \in DOMAIN finished' : finished'[i] = t \/ (i \in DOMAIN finished /\ finished'[i] = finished[i])
        BY <1>1, <4>1
      <4>4. \A i \in DOMAIN finished' : returned'[finished'[i]] # <<>>
        BY <1>2, <4>2, <4>3
      <4> QED
        BY <2>1, <2>3, <3>2, <4>1, <4>4 DEF ReadsInTurn
    <3> QED
      BY <2>1, <2>3, <3>1, <3>2, AloneStep DEF SpawnInv
  <2> QED
    BY <1>1, <2>2, <2>3
<1> QED
  BY <1>4, <1>5, <1>6, <1>7 DEF SpawnNext

-----------------------------------------------------------------------------
(* Theorems. *)

LEMMA SpawnInductive == SpawnSpec => []SpawnInv
<1>1. SpawnInv /\ [SpawnNext]_spawnVars => SpawnInv'
  <2> SUFFICES ASSUME SpawnInv, [SpawnNext]_spawnVars PROVE SpawnInv'
    OBVIOUS
  <2>1. EndsWell'
    BY StreamStep, EndsWellStep
  <2> QED
    BY <2>1, StreamStep, WorkerStepOK, ReadsInTurnStep DEF SpawnInv
<1> QED
  BY <1>1, SpawnInvInit, PTL DEF SpawnSpec

\* Under the producer of spawn the stream keeps its types too: a close with a
\* cancellation, which no other caller makes, is one of them.
THEOREM SpawnTypeCorrect == SpawnSpec => []TypeOK
<1>1. SpawnInv => TypeOK
  BY DEF SpawnInv, IInv
<1> QED
  BY <1>1, SpawnInductive, PTL

\* A reader that gets null has got everything the producer pushed, and the producer
\* returned of its own accord: neither an exception nor a cancellation ends the
\* feed with null (Feed.spawn's closure, run_in_thread, stream_deliver).
THEOREM NullIsComplete == SpawnSpec => []NullMeansComplete
<1>1. SpawnInv => NullMeansComplete
  <2> SUFFICES ASSUME SpawnInv, NEW i \in DOMAIN finished,
                      returned[finished[i]][1].kind = "end"
               PROVE  /\ verdict = "none" /\ worker = "done"
                      /\ received = accepted
                      /\ Len(accepted) = pushed[Thread]
    BY DEF NullMeansComplete, Outcomes
  <2>1. finished[i] \in Task /\ returned[finished[i]] # <<>>
    BY DEF SpawnInv, ReadsInTurn
  <2>2. 1 \in DOMAIN returned[finished[i]]
    BY <2>1 DEF SpawnInv, IInv, TypeOK
  <2>3. error = "none" /\ closed /\ items = <<>>
    BY <2>1, <2>2 DEF SpawnInv, IInv, EndsWell, Final
  <2>4. verdict = "none" /\ worker = "done" /\ Len(accepted) = pushed[Thread]
    BY <2>3 DEF SpawnInv, WorkerOK
  <2>5. Nowhere
    BY DEF SpawnInv, ReadsInTurn, Batches
  <2>6. received = taken
    BY <2>5, PiecesReceived DEF SpawnInv, AllReceived, Nowhere
  <2>7. taken = accepted
    <3>1. taken \o <<>> = taken
      BY ConcatEmpty DEF SpawnInv, IInv, TypeOK
    <3> QED
      BY <2>3, <3>1 DEF SpawnInv, IInv, Conservation
  <2> QED
    BY <2>4, <2>6, <2>7
<1> QED
  BY <1>1, SpawnInductive, PTL
=============================================================================
