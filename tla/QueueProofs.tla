---------------------------- MODULE QueueProofs -----------------------------
(***************************************************************************)
(* Queues keep what they promise, for every number of tasks and slots and  *)
(* every set of items: reservations are counted exactly and are honoured,  *)
(* no wake-up is lost, and the ring of slots is a first-in first-out       *)
(* buffer.                                                                 *)
(***************************************************************************)
EXTENDS Queue, TaskProofs, FiniteSetTheorems, SequenceTheorems

(* What a task waits for in the call op.                                   *)
KindOf(op) == IF op = "send" THEN "QUEUE_SEND" ELSE "QUEUE_RECEIVE"

(* The call c of a task against its place in it and its entry: it goes     *)
(* round with a reservation only to the attempt, and a task BLOCKED on the *)
(* queue is behind the critical section of its own call.                   *)
CallOK(entry, place, c) ==
    /\ place \in {"app", "attempt", "yield", "woken"}
    /\ place = "app" => c.op = "none"
    /\ place # "app" => c.op \in {"send", "receive"} /\ c.object = QueueObject
    /\ place \in {"yield", "woken"} => c.reserved = 0
    /\ entry.state = "BLOCKED"
           /\ entry.wait_kind \in {"QUEUE_SEND", "QUEUE_RECEIVE"} =>
           place \in {"yield", "woken"} /\ entry.wait_kind = KindOf(c.op)

CallsMatchWaits == \A t \in Task : CallOK(tasks[t], pc[t], call[t])

(* The ring: the next free slot is count slots behind the oldest item.     *)
RingOK ==
    Capacity # 0 =>
        /\ queue.head \in Slot /\ queue.tail \in Slot
        /\ queue.head = (queue.tail + queue.count) % Capacity

QueueInv ==
    TaskInv /\ CallsMatchWaits /\ RingOK /\ ReservationsKept /\ NoLostWakeup
LEMMA QueueTypes ==
    ASSUME QueueInv
    PROVE  /\ tasks \in [Task -> TCB]
           /\ pc \in [Task -> {"app", "attempt", "yield", "woken", "callback"}]
           /\ call \in [Task -> Call]
           /\ queue \in [storage : [Slot -> Item],
                         head : 0 .. Capacity, tail : 0 .. Capacity,
                         count : 0 .. Capacity,
                         send_reservations : Nat, receive_reservations : Nat]
           /\ queue.storage \in [Slot -> Item]
           /\ queue.count \in Nat /\ queue.count <= Capacity
           /\ queue.send_reservations \in Nat
           /\ queue.receive_reservations \in Nat
           /\ queue.count + queue.send_reservations <= Capacity
           /\ queue.receive_reservations <= queue.count
           /\ item \in [ApplicationTask -> Item]
           /\ Capacity \in Nat
BY QueueAssumption DEF QueueInv, ReservationsKept, TypeOK, TaskTypeOK

-----------------------------------------------------------------------------
(* Counting the tasks that were promised something.                        *)

LEMMA PromisedFinite ==
    ASSUME NEW op
    PROVE  IsFiniteSet(Promised(op)) /\ Cardinality(Promised(op)) \in Nat
<1>1. IsFiniteSet(Task)
  BY FS_Interval, TaskTableAssumption DEF Task, task_count
<1>2. Promised(op) \subseteq Task
  BY DEF Promised
<1>3. IsFiniteSet(Promised(op))
  BY <1>1, <1>2, FS_Subset
<1> QED
  BY <1>3, FS_CardinalityType

(* A task that attempts with a reservation is one of them.                 *)
LEMMA ReservedIsCounted ==
    ASSUME QueueInv, NEW t \in Task, call[t].reserved = 1
    PROVE  /\ call[t].op = "send" => queue.send_reservations >= 1
           /\ call[t].op = "receive" => queue.receive_reservations >= 1
<1>1. ASSUME NEW op, call[t].op = op
      PROVE  Cardinality(Promised(op)) >= 1
  <2>1. t \in Promised(op)
    BY <1>1 DEF Promised
  <2>2. Promised(op) # {}
    BY <2>1
  <2>3. Cardinality(Promised(op)) # 0
    BY <2>2, PromisedFinite, FS_EmptySet
  <2> QED
    BY <2>3, PromisedFinite
<1> QED
  BY <1>1 DEF QueueInv, ReservationsKept

(* Steps that leave the queue alone, promise nothing and keep every        *)
(* promise.                                                                *)
LEMMA SameBooks ==
    ASSUME QueueInv, TaskInv', CallsMatchWaits', queue' = queue,
           item' \in [ApplicationTask -> Item],
           Promised("send")' = Promised("send"),
           Promised("receive")' = Promised("receive"),
           HasWaiter("QUEUE_SEND")' => ~HasFreeSlot,
           HasWaiter("QUEUE_RECEIVE")' => ~HasFreeItem
    PROVE  QueueInv'
<1>1. ReservationsKept'
  BY DEF QueueInv, ReservationsKept, TypeOK, TaskInv
<1>2. NoLostWakeup'
  BY DEF NoLostWakeup, HasFreeSlot, HasFreeItem
<1>3. RingOK'
  BY DEF QueueInv, RingOK
<1> QED
  BY <1>1, <1>2, <1>3 DEF QueueInv

LEMMA QueueInit == Init => QueueInv
<1> SUFFICES ASSUME Init
             PROVE  QueueInv
  OBVIOUS
<1>1. TaskInv
  BY InitInv DEF Init
<1>2. \A t \in Task : pc[t] = "app" /\ call[t] = NoCall
  BY DEF Init, TaskInit
<1>3. \A t \in Task : tasks[t].wait_kind \in {"NONE", "TIMER_SERVICE"}
  BY DEF Init, TaskInit, JRT_KernelInit, prepare_task,
         prepare_timer_service_task, task_wait_begin, task_wait_begin_until
<1>4. CallsMatchWaits
  BY <1>2, <1>3 DEF CallsMatchWaits, CallOK, NoCall
<1>5. /\ queue.head = 0 /\ queue.tail = 0 /\ queue.count = 0
      /\ queue.send_reservations = 0 /\ queue.receive_reservations = 0
  BY DEF Init
<1>6. RingOK
  <2> SUFFICES ASSUME Capacity # 0
               PROVE  0 \in Slot /\ 0 = (0 + 0) % Capacity
    BY <1>5 DEF RingOK
  <2>1. Capacity \in Nat /\ Capacity > 0
    BY QueueAssumption
  <2> QED
    BY <2>1 DEF Slot
<1>7. NoLostWakeup
  BY <1>3 DEF NoLostWakeup, HasWaiter, Waiters
<1>8. ReservationsKept
  <2>1. Promised("send") = {} /\ Promised("receive") = {}
    BY <1>2 DEF Promised, NoCall
  <2>2. /\ Cardinality(Promised("send")) = 0
        /\ Cardinality(Promised("receive")) = 0
    BY <2>1, FS_EmptySet
  <2>3. TypeOK
    <3>1. PICK i \in Item :
             /\ queue = [storage |-> [k \in Slot |-> i], head |-> 0,
                         tail |-> 0, count |-> 0, send_reservations |-> 0,
                         receive_reservations |-> 0]
             /\ item = [t \in ApplicationTask |-> i]
      BY DEF Init
    <3>2. 0 \in 0 .. Capacity
      BY QueueAssumption
    <3> QED
      BY <1>1, <3>1, <3>2 DEF TypeOK, TaskInv
  <2> QED
    BY <1>5, <2>2, <2>3, QueueAssumption DEF ReservationsKept
<1> QED
  BY <1>1, <1>4, <1>6, <1>7, <1>8 DEF QueueInv

(* Scheduling, the clock and the task services.                            *)
LEMMA QueueKernelStep ==
    ASSUME QueueInv, TaskInv', NoNewWait, UNCHANGED <<pc, call, queue, item>>
    PROVE  QueueInv'
<1>1. CallsMatchWaits'
  BY DEF QueueInv, CallsMatchWaits, CallOK, NoNewWait
<1>2. /\ Promised("send")' = Promised("send")
      /\ Promised("receive")' = Promised("receive")
  BY DEF Promised, NoNewWait
<1>3. /\ HasWaiter("QUEUE_SEND")' => HasWaiter("QUEUE_SEND")
      /\ HasWaiter("QUEUE_RECEIVE")' => HasWaiter("QUEUE_RECEIVE")
  BY DEF HasWaiter, Waiters, NoNewWait
<1> QED
  BY <1>1, <1>2, <1>3, SameBooks, QueueTypes DEF QueueInv, NoLostWakeup
-----------------------------------------------------------------------------
(* Steps of a task that leave the queue alone.                             *)

(* Whether a task with this entry and call was promised something by op.   *)
IsPromised(entry, place, c, op) ==
    /\ c.op = op
    /\ \/ c.reserved = 1
       \/ /\ place \in {"yield", "woken"}
          /\ entry.state # "BLOCKED"
          /\ entry.wait_result = 1

LEMMA PromisedIs ==
    ASSUME NEW op, NEW t \in Task
    PROVE  t \in Promised(op) <=> IsPromised(tasks[t], pc[t], call[t], op)
BY DEF Promised, IsPromised

(* One task moves, its promises stay, and it waits only for what is not    *)
(* there.                                                                  *)
LEMMA CallMoves ==
    ASSUME QueueInv, TaskInv', NEW t \in Task, queue' = queue,
           item' \in [ApplicationTask -> Item],
           \A u \in Task \ {t} : /\ tasks'[u] = tasks[u]
                                 /\ pc'[u] = pc[u] /\ call'[u] = call[u],
           CallOK(tasks'[t], pc'[t], call'[t]),
           \A op \in {"send", "receive"} :
               IsPromised(tasks'[t], pc'[t], call'[t], op) <=>
                   IsPromised(tasks[t], pc[t], call[t], op),
           tasks'[t].state = "BLOCKED" /\ tasks'[t] # tasks[t] =>
               \/ tasks'[t].wait_kind = "QUEUE_SEND" /\ ~HasFreeSlot
               \/ tasks'[t].wait_kind = "QUEUE_RECEIVE" /\ ~HasFreeItem
    PROVE  QueueInv'
<1>1. CallsMatchWaits'
  BY DEF QueueInv, CallsMatchWaits
<1>2. ASSUME NEW op \in {"send", "receive"}
      PROVE  Promised(op)' = Promised(op)
  BY <1>2 DEF Promised, IsPromised
<1>3. /\ HasWaiter("QUEUE_SEND")' => ~HasFreeSlot
      /\ HasWaiter("QUEUE_RECEIVE")' => ~HasFreeItem
  BY DEF HasWaiter, Waiters, QueueInv, NoLostWakeup
<1> QED
  BY <1>1, <1>2, <1>3, SameBooks DEF QueueInv

(* What an attempt knows about its task.                                   *)
LEMMA AttemptTypes ==
    ASSUME QueueInv, NEW t \in ApplicationTask, NEW op, Attempt(t, op)
    PROVE  /\ t \in Task /\ Thread(t) /\ pc[t] = "attempt"
           /\ tasks[t].state = "RUNNING"
           /\ tasks[t] \in TCB /\ call[t] \in Call
           /\ call[t].op = op /\ call[t].object = QueueObject
           /\ call[t].reserved \in {0, 1}
BY TaskIndices, ThreadRuns, QueueTypes
   DEF QueueInv, CallsMatchWaits, CallOK, Attempt, Call

LEMMA QueueEnterInv ==
    ASSUME QueueInv, NEW t \in ApplicationTask, NEW timeout \in Timeout,
           NEW op \in {"send", "receive"},
           Enter(t, op, QueueObject, timeout), UNCHANGED queue,
           item' \in [ApplicationTask -> Item]
    PROVE  QueueInv'
<1>1. t \in Task /\ op \in Operation /\ QueueObject \in Object
  BY TaskIndices, QueueAssumption DEF Operation
<1>2. TaskInv'
  BY <1>1, EnterInv DEF QueueInv
<1>3. /\ Thread(t) /\ pc[t] = "app" /\ pc'[t] = "attempt"
      /\ call'[t].op = op /\ call'[t].object = QueueObject
      /\ call'[t].reserved = 0
      /\ UNCHANGED tasks
      /\ \A u \in Task \ {t} : pc'[u] = pc[u] /\ call'[u] = call[u]
  BY <1>1, QueueTypes DEF Enter, InApp
<1>4. tasks[t].state = "RUNNING" /\ call[t].op = "none"
  BY <1>1, <1>3, ThreadRuns DEF QueueInv, CallsMatchWaits, CallOK
<1>5. CallOK(tasks'[t], pc'[t], call'[t])
  BY <1>3, <1>4 DEF CallOK
<1>6. \A p \in {"send", "receive"} :
         IsPromised(tasks'[t], pc'[t], call'[t], p) <=>
             IsPromised(tasks[t], pc[t], call[t], p)
  BY <1>3, <1>4 DEF IsPromised
<1> QED
  BY <1>1, <1>2, <1>3, <1>5, <1>6, CallMoves

(* A call returns without a promise.                                       *)
LEMMA QueueReturnInv ==
    ASSUME QueueInv, NEW t \in Task, Thread(t), pc[t] # "yield", Return(t),
           \A op \in {"send", "receive"} :
               ~IsPromised(tasks[t], pc[t], call[t], op),
           UNCHANGED <<tasks, queue, item>>
    PROVE  QueueInv'
<1>1. TaskInv'
  BY ReturnInv DEF QueueInv
<1>2. /\ pc'[t] = "app" /\ call'[t] = NoCall
      /\ \A u \in Task \ {t} : pc'[u] = pc[u] /\ call'[u] = call[u]
  BY QueueTypes DEF Return
<1>3. tasks[t].state = "RUNNING"
  BY ThreadRuns DEF QueueInv
<1>4. CallOK(tasks'[t], pc'[t], call'[t])
  BY <1>2, <1>3 DEF CallOK, NoCall
<1>5. \A op \in {"send", "receive"} :
         ~IsPromised(tasks'[t], pc'[t], call'[t], op)
  BY <1>2 DEF IsPromised, NoCall
<1> QED
  BY <1>1, <1>2, <1>4, <1>5, CallMoves, QueueTypes

(* An attempt that cannot proceed holds no reservation.                    *)
LEMMA NoReservation ==
    ASSUME QueueInv, NEW t \in ApplicationTask,
           \/ Attempt(t, "send") /\ ~CanSend(t)
           \/ Attempt(t, "receive") /\ ~CanReceive(t)
    PROVE  /\ call[t].reserved = 0
           /\ call[t].op = "send" => ~HasFreeSlot
           /\ call[t].op = "receive" => ~HasFreeItem
           /\ \A op \in {"send", "receive"} :
                 ~IsPromised(tasks[t], pc[t], call[t], op)
<1>1. /\ t \in Task /\ pc[t] = "attempt" /\ call[t].reserved \in {0, 1}
  BY AttemptTypes
<1>2. CASE Attempt(t, "receive") /\ ~CanReceive(t)
  BY <1>1, <1>2 DEF CanReceive, IsPromised, Attempt
<1>3. CASE Attempt(t, "send") /\ ~CanSend(t)
  <2>1. call[t].op = "send"
    BY <1>3 DEF Attempt
  <2>2. CASE Capacity # 0
    BY <1>1, <1>3, <2>1, <2>2 DEF CanSend, IsPromised, Attempt
  <2>3. CASE Capacity = 0
    <3>1. queue.send_reservations = 0 /\ ~HasFreeSlot
      BY <2>3, QueueTypes DEF HasFreeSlot
    <3>2. call[t].reserved # 1
      BY <1>1, <2>1, <3>1, ReservedIsCounted
    <3> QED
      BY <1>1, <2>1, <3>1, <3>2 DEF IsPromised
  <2> QED
    BY <2>2, <2>3
<1> QED
  BY <1>2, <1>3

LEMMA QueueGiveUpInv ==
    ASSUME QueueInv, NEW t \in ApplicationTask,
           SendGiveUp(t) \/ ReceiveGiveUp(t)
    PROVE  QueueInv'
<1>1. /\ \/ Attempt(t, "send") /\ ~CanSend(t)
         \/ Attempt(t, "receive") /\ ~CanReceive(t)
      /\ Return(t) /\ UNCHANGED <<tasks, queue, item>>
  BY DEF SendGiveUp, ReceiveGiveUp, GiveUp, queueVars
<1>2. t \in Task /\ Thread(t) /\ pc[t] = "attempt"
  BY <1>1, TaskIndices DEF Attempt
<1>3. \A op \in {"send", "receive"} :
         ~IsPromised(tasks[t], pc[t], call[t], op)
  BY <1>1, NoReservation
<1> QED
  BY <1>1, <1>2, <1>3, QueueReturnInv

LEMMA QueueBlockInv ==
    ASSUME QueueInv, NEW t \in ApplicationTask, SendBlock(t) \/ ReceiveBlock(t)
    PROVE  QueueInv'
<1> DEFINE kind == KindOf(call[t].op)
           entry == task_wait_begin_until(tasks[t], call[t].object, kind,
                                          call[t].deadline)
<1>1. /\ \/ Attempt(t, "send") /\ ~CanSend(t)
         \/ Attempt(t, "receive") /\ ~CanReceive(t)
      /\ Block(t, kind, tasks) /\ UNCHANGED <<queue, item>>
  BY DEF SendBlock, ReceiveBlock, queueVars, Attempt, KindOf
<1>2. /\ t \in Task /\ Thread(t) /\ pc[t] = "attempt"
      /\ tasks[t] \in TCB
      /\ call[t].op \in {"send", "receive"} /\ call[t].object = QueueObject
  BY <1>1, AttemptTypes
<1>3. /\ call[t].reserved = 0
      /\ call[t].op = "send" => ~HasFreeSlot
      /\ call[t].op = "receive" => ~HasFreeItem
      /\ \A op \in {"send", "receive"} :
            ~IsPromised(tasks[t], pc[t], call[t], op)
  BY <1>1, NoReservation
<1>4. kind \in WaitKind /\ call[t].object \in Object
  BY <1>2, QueueAssumption DEF KindOf, WaitKind
<1>5. TaskInv'
  BY <1>1, <1>2, <1>4, BlockInv DEF QueueInv
<1>6. /\ tasks'[t] = entry /\ pc'[t] = "yield" /\ call'[t] = call[t]
      /\ \A u \in Task \ {t} : /\ tasks'[u] = tasks[u]
                               /\ pc'[u] = pc[u] /\ call'[u] = call[u]
  BY <1>1, <1>2, QueueTypes DEF Block
<1>7. entry.state = "BLOCKED" /\ entry.wait_kind = kind
  BY <1>2 DEF task_wait_begin_until, TCB
<1> HIDE DEF entry
<1>8. CallOK(tasks'[t], pc'[t], call'[t])
  BY <1>2, <1>3, <1>6, <1>7 DEF CallOK
<1>9. \A op \in {"send", "receive"} :
         ~IsPromised(tasks'[t], pc'[t], call'[t], op)
  BY <1>3, <1>6, <1>7 DEF IsPromised
<1>10. \/ tasks'[t].wait_kind = "QUEUE_SEND" /\ ~HasFreeSlot
       \/ tasks'[t].wait_kind = "QUEUE_RECEIVE" /\ ~HasFreeItem
  BY <1>2, <1>3, <1>6, <1>7 DEF KindOf
<1> HIDE DEF kind
<1> QED
  BY <1>1, <1>2, <1>3, <1>5, <1>6, <1>8, <1>9, <1>10, CallMoves, QueueTypes

LEMMA QueueYieldInv ==
    ASSUME QueueInv, NEW t \in ApplicationTask, ArchYield(t),
           UNCHANGED queueVars
    PROVE  QueueInv'
<1>1. /\ t \in Task /\ pc[t] = "yield" /\ pc'[t] = "woken"
      /\ UNCHANGED <<tasks, call, queue, item>>
      /\ \A u \in Task \ {t} : pc'[u] = pc[u]
  BY TaskIndices, QueueTypes DEF ArchYield, queueVars
<1>2. TaskInv'
  BY <1>1, ArchYieldInv DEF QueueInv
<1>3. CallOK(tasks'[t], pc'[t], call'[t])
  BY <1>1 DEF CallOK, QueueInv, CallsMatchWaits
<1>4. \A op \in {"send", "receive"} :
         IsPromised(tasks'[t], pc'[t], call'[t], op) <=>
             IsPromised(tasks[t], pc[t], call[t], op)
  BY <1>1 DEF IsPromised
<1> QED
  BY <1>1, <1>2, <1>3, <1>4, CallMoves, QueueTypes

LEMMA QueueTimeoutInv ==
    ASSUME QueueInv, NEW t \in ApplicationTask, WokenByTimeout(t)
    PROVE  QueueInv'
<1>1. /\ t \in Task /\ Thread(t) /\ pc[t] = "woken"
      /\ tasks[t].wait_result = 0
      /\ Return(t) /\ UNCHANGED <<tasks, queue, item>>
  BY TaskIndices DEF WokenByTimeout, Woken, queueVars
<1>2. call[t].reserved = 0
  BY <1>1 DEF QueueInv, CallsMatchWaits, CallOK
<1>3. \A op \in {"send", "receive"} :
         ~IsPromised(tasks[t], pc[t], call[t], op)
  BY <1>1, <1>2 DEF IsPromised
<1> QED
  BY <1>1, <1>3, QueueReturnInv

(* The task goes round with the reservation it was woken with.             *)
LEMMA QueueReservedInv ==
    ASSUME QueueInv, NEW t \in ApplicationTask, WokenReserved(t)
    PROVE  QueueInv'
<1> DEFINE c == [call[t] EXCEPT !.reserved = 1]
<1>1. /\ t \in Task /\ Thread(t) /\ pc[t] = "woken"
      /\ tasks[t].wait_result # 0
      /\ pc' = [pc EXCEPT ![t] = "attempt"]
      /\ call' = [call EXCEPT ![t].reserved = 1]
      /\ UNCHANGED <<tasks, current, ticks, pendsv, queue, item>>
  BY TaskIndices DEF WokenReserved, Woken, queueVars
<1>2. tasks[t] \in TCB /\ call[t] \in Call /\ tasks[t].state = "RUNNING"
  BY <1>1, QueueTypes, ThreadRuns DEF QueueInv
<1>3. /\ c \in Call /\ c.op = call[t].op /\ c.object = call[t].object
      /\ c.reserved = 1
  BY <1>2 DEF Call
<1>4. call' = [call EXCEPT ![t] = c]
  BY <1>1, QueueTypes
<1>5. tasks[t].wait_result = 1
  BY <1>1, <1>2 DEF TCB
<1> HIDE DEF c
<1>6. TaskInv'
  <2> DEFINE where == "attempt"
  <2>1. /\ where \in {"app", "attempt", "yield", "woken", "callback"}
        /\ pc' = [pc EXCEPT ![t] = where]
    BY <1>1
  <2> HIDE DEF where
  <2> QED
    BY <1>1, <1>3, <1>4, <2>1, CallStep DEF QueueInv
<1>7. /\ pc'[t] = "attempt" /\ call'[t] = c
      /\ \A u \in Task \ {t} : pc'[u] = pc[u] /\ call'[u] = call[u]
  BY <1>1, <1>4, QueueTypes
<1>8. CallOK(tasks'[t], pc'[t], call'[t])
  BY <1>1, <1>2, <1>3, <1>7 DEF CallOK, QueueInv, CallsMatchWaits
<1>9. \A op \in {"send", "receive"} :
         IsPromised(tasks'[t], pc'[t], call'[t], op) <=>
             IsPromised(tasks[t], pc[t], call[t], op)
  BY <1>1, <1>2, <1>3, <1>5, <1>7 DEF IsPromised
<1> QED
  BY <1>1, <1>6, <1>7, <1>8, <1>9, CallMoves, QueueTypes
-----------------------------------------------------------------------------
(* Inserting and removing.                                                 *)

(* A step of op that wakes a caller of the other side; the tasks in L      *)
(* return from op.  The returning tasks give up their promises, the woken  *)
(* one was not promised anything yet.                                      *)
LEMMA Handover ==
    ASSUME QueueInv, NEW op \in {"send", "receive"},
           NEW other \in {"send", "receive"}, op # other,
           NEW L \in SUBSET Task,
           tasks' = task_wake(tasks, QueueObject, KindOf(other)),
           \A u \in L : /\ tasks[u].state # "BLOCKED" /\ call[u].op = op
                        /\ pc'[u] = "app" /\ call'[u] = NoCall,
           \A u \in Task \ L : pc'[u] = pc[u] /\ call'[u] = call[u]
    PROVE  /\ CallsMatchWaits'
           /\ Promised(op)' = Promised(op) \ L
           /\ HasWaiter(KindOf(op))' => HasWaiter(KindOf(op))
           /\ HasWaiter(KindOf(other))' => HasWaiter(KindOf(other))
           /\ ~HasWaiter(KindOf(other)) => Promised(other)' = Promised(other)
           /\ HasWaiter(KindOf(other)) =>
                 \E w \in Task \ Promised(other) :
                     Promised(other)' = Promised(other) \cup {w}
<1> DEFINE W == Waiters(tasks, QueueObject, KindOf(other))
<1>1. tasks \in [Task -> TCB]
  BY QueueTypes
<1>2. CASE W = {} /\ tasks' = tasks
  <2>1. CallsMatchWaits'
    BY <1>2 DEF QueueInv, CallsMatchWaits, CallOK, NoCall
  <2>2. Promised(op)' = Promised(op) \ L
    BY <1>2 DEF Promised, NoCall
  <2>3. Promised(other)' = Promised(other)
    BY <1>2 DEF Promised, NoCall
  <2>4. \A kind : HasWaiter(kind)' = HasWaiter(kind)
    BY <1>2 DEF HasWaiter
  <2>5. ~HasWaiter(KindOf(other))
    BY <1>2 DEF HasWaiter
  <2> QED
    BY <2>1, <2>2, <2>3, <2>4, <2>5
<1>3. ASSUME NEW w \in W,
             tasks' = [tasks EXCEPT ![w] = task_wait_end(tasks[w], 1)]
      PROVE  /\ CallsMatchWaits'
             /\ Promised(op)' = Promised(op) \ L
             /\ HasWaiter(KindOf(op))' => HasWaiter(KindOf(op))
             /\ HasWaiter(KindOf(other))
             /\ \E x \in Task \ Promised(other) :
                    Promised(other)' = Promised(other) \cup {x}
  <2>1. /\ w \in Task /\ tasks[w] \in TCB /\ tasks[w].state = "BLOCKED"
        /\ tasks[w].wait_kind = KindOf(other)
    BY <1>1 DEF Waiters
  <2>2. /\ tasks'[w].state = "READY" /\ tasks'[w].wait_result = 1
        /\ \A u \in Task \ {w} : tasks'[u] = tasks[u]
    BY <1>1, <1>3, <2>1 DEF task_wait_end, TCB
  <2>3. KindOf(other) \in {"QUEUE_SEND", "QUEUE_RECEIVE"}
    BY DEF KindOf
  <2>4. /\ pc[w] \in {"yield", "woken"} /\ KindOf(call[w].op) = KindOf(other)
        /\ call[w].op \in {"send", "receive"} /\ call[w].reserved = 0
    BY <2>1, <2>3 DEF QueueInv, CallsMatchWaits, CallOK
  <2>5. call[w].op = other
    BY <2>4 DEF KindOf
  <2>6. w \notin L /\ pc'[w] = pc[w] /\ call'[w] = call[w]
    BY <2>1
  <2>7. CallsMatchWaits'
    <3> SUFFICES ASSUME NEW u \in Task
                 PROVE  CallOK(tasks'[u], pc'[u], call'[u])
      BY DEF CallsMatchWaits
    <3>1. CallOK(tasks[u], pc[u], call[u])
      BY DEF QueueInv, CallsMatchWaits
    <3>2. CASE u = w
      BY <2>2, <2>6, <3>1, <3>2 DEF CallOK
    <3>3. CASE u # w /\ u \in L
      BY <2>2, <3>3 DEF CallOK, NoCall
    <3>4. CASE u # w /\ u \notin L
      BY <2>2, <3>1, <3>4
    <3> QED
      BY <3>2, <3>3, <3>4
  <2>8. Promised(op)' = Promised(op) \ L
    BY <2>1, <2>2, <2>5, <2>6 DEF Promised, NoCall
  <2>9. w \notin Promised(other) /\ w \in Promised(other)'
    BY <2>1, <2>2, <2>4, <2>5, <2>6 DEF Promised
  <2>10. Promised(other)' = Promised(other) \cup {w}
    <3> SUFFICES ASSUME NEW u \in Task, u # w
                 PROVE  u \in Promised(other)' <=> u \in Promised(other)
      BY <2>1, <2>9 DEF Promised
    <3>1. CASE u \in L
      BY <3>1 DEF Promised, NoCall
    <3>2. CASE u \notin L
      BY <2>2, <3>2 DEF Promised
    <3> QED
      BY <3>1, <3>2
  <2>11. HasWaiter(KindOf(op))' => HasWaiter(KindOf(op))
    BY <2>1, <2>2 DEF HasWaiter, Waiters
  <2>12. HasWaiter(KindOf(other))
    BY DEF HasWaiter
  <2> QED
    BY <2>1, <2>7, <2>8, <2>9, <2>10, <2>11, <2>12
<1>4. \/ W = {} /\ tasks' = tasks
      \/ \E w \in W : tasks' = [tasks EXCEPT ![w] = task_wait_end(tasks[w], 1)]
  BY <1>1, TaskWake
<1> HIDE DEF W
<1> QED
  BY <1>2, <1>3, <1>4

(* The same in numbers: the reservation of the task that returns is used   *)
(* up, and one is made when a task of the other side is woken.             *)
LEMMA HandoverCount ==
    ASSUME QueueInv, NEW op \in {"send", "receive"},
           NEW other \in {"send", "receive"}, op # other,
           NEW L \in SUBSET Task, NEW reserved \in {0, 1},
           IF reserved = 1 THEN \E t \in Promised(op) : L = {t}
                           ELSE Promised(op) \cap L = {},
           tasks' = task_wake(tasks, QueueObject, KindOf(other)),
           \A u \in L : /\ tasks[u].state # "BLOCKED" /\ call[u].op = op
                        /\ pc'[u] = "app" /\ call'[u] = NoCall,
           \A u \in Task \ L : pc'[u] = pc[u] /\ call'[u] = call[u]
    PROVE  /\ Cardinality(Promised(op)') = Cardinality(Promised(op)) - reserved
           /\ Cardinality(Promised(other)') =
                  IF HasWaiter(KindOf(other))
                  THEN Cardinality(Promised(other)) + 1
                  ELSE Cardinality(Promised(other))
           /\ reserved = 1 => Cardinality(Promised(op)) >= 1
<1>1. /\ Promised(op)' = Promised(op) \ L
      /\ ~HasWaiter(KindOf(other)) => Promised(other)' = Promised(other)
      /\ HasWaiter(KindOf(other)) =>
            \E w \in Task \ Promised(other) :
                Promised(other)' = Promised(other) \cup {w}
  BY Handover
<1>2. /\ IsFiniteSet(Promised(op)) /\ Cardinality(Promised(op)) \in Nat
      /\ IsFiniteSet(Promised(other)) /\ Cardinality(Promised(other)) \in Nat
  BY PromisedFinite
<1>3. /\ Cardinality(Promised(op)') = Cardinality(Promised(op)) - reserved
      /\ reserved = 1 => Cardinality(Promised(op)) >= 1
  <2>1. CASE reserved = 1
    <3>1. PICK t \in Promised(op) : L = {t}
      BY <2>1
    <3>2. Cardinality(Promised(op) \ {t}) = Cardinality(Promised(op)) - 1
      BY <1>2, FS_RemoveElement
    <3>3. Cardinality(Promised(op)) # 0
      BY <1>2, FS_EmptySet
    <3> QED
      BY <1>1, <1>2, <2>1, <3>1, <3>2, <3>3
  <2>2. CASE reserved = 0
    <3>1. Promised(op)' = Promised(op)
      BY <1>1, <2>2
    <3> QED
      BY <1>2, <2>2, <3>1
  <2> QED
    BY <2>1, <2>2
<1>4. CASE HasWaiter(KindOf(other))
  <2>1. PICK w \in Task \ Promised(other) :
                Promised(other)' = Promised(other) \cup {w}
    BY <1>1, <1>4
  <2>2. Cardinality(Promised(other) \cup {w}) = Cardinality(Promised(other)) + 1
    BY <1>2, <2>1, FS_AddElement
  <2> QED
    BY <1>3, <1>4, <2>1, <2>2
<1>5. CASE ~HasWaiter(KindOf(other))
  BY <1>1, <1>3, <1>5
<1> QED
  BY <1>4, <1>5

(* Positions in the ring.                                                  *)
LEMMA RingStep ==
    ASSUME Capacity # 0, NEW x \in Nat, x < 2 * Capacity
    PROVE  /\ x % Capacity = IF x < Capacity THEN x ELSE x - Capacity
           /\ x % Capacity \in Slot
<1>1. Capacity \in Nat /\ Capacity > 0
  BY QueueAssumption
<1>2. CASE x < Capacity
  BY <1>1, <1>2 DEF Slot
<1>3. CASE x >= Capacity
  <2>1. x = Capacity + (x - Capacity) /\ x - Capacity \in 0 .. Capacity - 1
    BY <1>1, <1>3
  <2>2. x % Capacity = (x - Capacity) % Capacity
    BY <1>1, <2>1
  <2> QED
    BY <1>1, <1>3, <2>1, <2>2 DEF Slot
<1> QED
  BY <1>1, <1>2, <1>3
(* The next position behind the oldest x items.                            *)
LEMMA RingNext ==
    ASSUME Capacity # 0, NEW p \in Slot, NEW x \in Nat, x < Capacity
    PROVE  /\ (((p + x) % Capacity) + 1) % Capacity = (p + (x + 1)) % Capacity
           /\ (p + x) % Capacity = (((p + 1) % Capacity) + (x - 1)) % Capacity
           /\ (p + 1) % Capacity \in Slot
<1>1. Capacity \in Nat /\ Capacity > 0 /\ p \in Nat /\ p < Capacity
  BY QueueAssumption DEF Slot
<1>2. ASSUME NEW y \in Nat, y < 2 * Capacity
      PROVE  /\ y % Capacity = IF y < Capacity THEN y ELSE y - Capacity
             /\ y % Capacity \in Slot
  BY <1>2, RingStep
<1> DEFINE a == (p + x) % Capacity
           b == (p + 1) % Capacity
<1>3. /\ a = IF p + x < Capacity THEN p + x ELSE p + x - Capacity
      /\ b = IF p + 1 < Capacity THEN p + 1 ELSE p + 1 - Capacity
      /\ b \in Slot
      /\ (p + (x + 1)) % Capacity =
             IF p + x + 1 < Capacity THEN p + x + 1 ELSE p + x + 1 - Capacity
  BY <1>1, <1>2
<1>4. a \in Nat /\ a < Capacity /\ b \in Nat /\ b < Capacity
  BY <1>1, <1>3
<1> HIDE DEF a, b
<1>5. (a + 1) % Capacity = IF a + 1 < Capacity THEN a + 1 ELSE a + 1 - Capacity
  BY <1>1, <1>2, <1>4
<1>6. (b + (x - 1)) % Capacity = a
  <2>1. CASE x >= 1
    <3>1. x - 1 \in Nat /\ b + (x - 1) \in Nat /\ b + (x - 1) < 2 * Capacity
      BY <1>1, <1>4, <2>1
    <3> DEFINE y == b + (x - 1)
    <3>2. y \in Nat /\ y < 2 * Capacity
      BY <3>1
    <3> HIDE DEF y
    <3>3. y % Capacity = IF y < Capacity THEN y ELSE y - Capacity
      BY <1>2, <3>2
    <3> QED
      BY <1>1, <1>3, <1>4, <2>1, <3>2, <3>3 DEF y
  <2>2. CASE x = 0 /\ b >= 1
    <3>1. b + (x - 1) \in Nat /\ b + (x - 1) < 2 * Capacity
      BY <1>1, <1>4, <2>2
    <3> DEFINE y == b + (x - 1)
    <3>2. y \in Nat /\ y < 2 * Capacity
      BY <3>1
    <3> HIDE DEF y
    <3>3. y % Capacity = IF y < Capacity THEN y ELSE y - Capacity
      BY <1>2, <3>2
    <3> QED
      BY <1>1, <1>3, <1>4, <2>2, <3>2, <3>3 DEF y
  <2>3. CASE x = 0 /\ b = 0
    <3>1. p = Capacity - 1 /\ a = Capacity - 1 /\ b + (x - 1) = 0 - 1
      BY <1>1, <1>3, <2>3
    <3>2. (0 - 1) % Capacity = Capacity - 1
      BY <1>1
    <3> QED
      BY <3>1, <3>2
  <2> QED
    BY <1>4, <2>1, <2>2, <2>3
<1>7. (a + 1) % Capacity = (p + (x + 1)) % Capacity
  BY <1>1, <1>3, <1>4, <1>5
<1> QED
  BY <1>3, <1>6, <1>7 DEF a, b

(* An insertion and a removal keep the books, whoever was woken.           *)
LEMMA InsertInv ==
    ASSUME QueueInv, TaskInv', CallsMatchWaits', Capacity # 0,
           NEW i \in Item, NEW reserved \in {0, 1},
           reserved = 1 \/ HasFreeSlot,
           InsertItem(i, reserved), item' \in [ApplicationTask -> Item],
           Cardinality(Promised("send")') =
               Cardinality(Promised("send")) - reserved,
           Cardinality(Promised("receive")') =
               IF HasWaiter("QUEUE_RECEIVE")
               THEN Cardinality(Promised("receive")) + 1
               ELSE Cardinality(Promised("receive")),
           reserved = 1 => Cardinality(Promised("send")) >= 1,
           HasWaiter("QUEUE_SEND")' => HasWaiter("QUEUE_SEND"),
           HasWaiter("QUEUE_RECEIVE")' => HasWaiter("QUEUE_RECEIVE")
    PROVE  QueueInv'
<1> DEFINE c == queue.count
           s == queue.send_reservations
           r == queue.receive_reservations
           W == HasWaiter("QUEUE_RECEIVE")
<1>1. /\ c \in Nat /\ s \in Nat /\ r \in Nat /\ Capacity \in Nat
      /\ c + s <= Capacity /\ r <= c
      /\ queue.storage \in [Slot -> Item]
      /\ s = Cardinality(Promised("send"))
      /\ r = Cardinality(Promised("receive"))
  BY QueueTypes DEF QueueInv, ReservationsKept
<1>2. /\ queue.head \in Slot /\ queue.tail \in Slot
      /\ queue.head = (queue.tail + c) % Capacity
  BY DEF QueueInv, RingOK
<1>3. /\ queue'.storage = [queue.storage EXCEPT ![queue.head] = i]
      /\ queue'.head = (queue.head + 1) % Capacity
      /\ queue'.tail = queue.tail
      /\ queue'.count = c + 1
      /\ queue'.send_reservations = s - reserved
      /\ queue'.receive_reservations = IF W THEN r + 1 ELSE r
      /\ queue' = [storage |-> queue'.storage, head |-> queue'.head,
                   tail |-> queue'.tail, count |-> queue'.count,
                   send_reservations |-> queue'.send_reservations,
                   receive_reservations |-> queue'.receive_reservations]
  BY QueueTypes DEF InsertItem
<1>4. /\ c < Capacity /\ s >= reserved
      /\ c + 1 + (s - reserved) <= Capacity
      /\ reserved = 0 => c + s < Capacity
  BY <1>1 DEF HasFreeSlot
<1>5. /\ W => c = r
      /\ HasWaiter("QUEUE_SEND") => c + s = Capacity
  BY <1>1 DEF QueueInv, NoLostWakeup, HasFreeItem, HasFreeSlot
<1> HIDE DEF W
<1>6. RingOK'
  <2>1. /\ (queue.head + 1) % Capacity = (queue.tail + (c + 1)) % Capacity
        /\ (queue.head + 1) % Capacity \in Slot
    BY <1>1, <1>2, <1>4, RingNext
  <2> QED
    BY <1>2, <1>3, <2>1 DEF RingOK
<1>7. TypeOK'
  <2>1. queue'.head \in 0 .. Capacity /\ queue'.tail \in 0 .. Capacity
    BY <1>1, <1>6, <1>3 DEF RingOK, Slot
  <2>2. /\ queue'.storage \in [Slot -> Item]
        /\ queue'.count \in 0 .. Capacity
        /\ queue'.send_reservations \in Nat
        /\ queue'.receive_reservations \in Nat
    BY <1>1, <1>2, <1>3, <1>4
  <2>3. queue' \in [storage : [Slot -> Item],
                    head : 0 .. Capacity, tail : 0 .. Capacity,
                    count : 0 .. Capacity,
                    send_reservations : Nat, receive_reservations : Nat]
    BY <1>3, <2>1, <2>2
  <2> QED
    BY <2>3 DEF TypeOK, TaskInv
<1>8. ReservationsKept'
  <2>1. queue'.send_reservations = Cardinality(Promised("send")')
    BY <1>1, <1>3
  <2>2. queue'.receive_reservations = Cardinality(Promised("receive")')
    BY <1>1, <1>3 DEF W
  <2>3. /\ queue'.count + queue'.send_reservations <= Capacity
        /\ queue'.receive_reservations <= queue'.count
    BY <1>1, <1>3, <1>4
  <2> QED
    BY <1>7, <2>1, <2>2, <2>3 DEF ReservationsKept
<1>9. NoLostWakeup'
  <2>1. HasWaiter("QUEUE_RECEIVE")' => ~HasFreeItem'
    BY <1>1, <1>3, <1>5 DEF W, HasFreeItem
  <2>2. HasWaiter("QUEUE_SEND")' => ~HasFreeSlot'
    BY <1>1, <1>3, <1>4, <1>5 DEF HasFreeSlot
  <2> QED
    BY <2>1, <2>2 DEF NoLostWakeup
<1> QED
  BY <1>6, <1>8, <1>9 DEF QueueInv

LEMMA RemoveInv ==
    ASSUME QueueInv, TaskInv', CallsMatchWaits', NEW t \in ApplicationTask,
           NEW reserved \in {0, 1},
           reserved = 1 \/ HasFreeItem,
           RemoveItem(t, reserved),
           Cardinality(Promised("receive")') =
               Cardinality(Promised("receive")) - reserved,
           Cardinality(Promised("send")') =
               IF HasWaiter("QUEUE_SEND")
               THEN Cardinality(Promised("send")) + 1
               ELSE Cardinality(Promised("send")),
           reserved = 1 => Cardinality(Promised("receive")) >= 1,
           HasWaiter("QUEUE_SEND")' => HasWaiter("QUEUE_SEND"),
           HasWaiter("QUEUE_RECEIVE")' => HasWaiter("QUEUE_RECEIVE")
    PROVE  QueueInv'
<1> DEFINE c == queue.count
           s == queue.send_reservations
           r == queue.receive_reservations
           W == HasWaiter("QUEUE_SEND")
<1>1. /\ c \in Nat /\ s \in Nat /\ r \in Nat /\ Capacity \in Nat
      /\ c + s <= Capacity /\ r <= c
      /\ queue.storage \in [Slot -> Item]
      /\ item \in [ApplicationTask -> Item]
      /\ s = Cardinality(Promised("send"))
      /\ r = Cardinality(Promised("receive"))
  BY QueueTypes DEF QueueInv, ReservationsKept
<1>2. /\ item' = [item EXCEPT ![t] = queue.storage[queue.tail]]
      /\ queue'.storage = queue.storage
      /\ queue'.head = queue.head
      /\ queue'.tail = (queue.tail + 1) % Capacity
      /\ queue'.count = c - 1
      /\ queue'.send_reservations = IF W THEN s + 1 ELSE s
      /\ queue'.receive_reservations = r - reserved
      /\ queue' = [storage |-> queue'.storage, head |-> queue'.head,
                   tail |-> queue'.tail, count |-> queue'.count,
                   send_reservations |-> queue'.send_reservations,
                   receive_reservations |-> queue'.receive_reservations]
  BY QueueTypes DEF RemoveItem
<1>3. /\ c > 0 /\ Capacity # 0 /\ r >= reserved
      /\ r - reserved <= c - 1
      /\ reserved = 0 => r < c
  BY <1>1 DEF HasFreeItem
<1>4. /\ queue.head \in Slot /\ queue.tail \in Slot
      /\ queue.head = (queue.tail + c) % Capacity
  BY <1>3 DEF QueueInv, RingOK
<1>5. /\ W => c + s = Capacity
      /\ HasWaiter("QUEUE_RECEIVE") => c = r
  BY <1>1 DEF QueueInv, NoLostWakeup, HasFreeItem, HasFreeSlot
<1> HIDE DEF W
<1>6. RingOK'
  <2> DEFINE x == c - 1
             q == (queue.tail + 1) % Capacity
  <2>1. x \in Nat /\ x < Capacity /\ c = x + 1
    BY <1>1, <1>3
  <2> HIDE DEF x
  <2>2. /\ (((queue.tail + x) % Capacity) + 1) % Capacity =
               (queue.tail + (x + 1)) % Capacity
        /\ (queue.tail + x) % Capacity = (q + (x - 1)) % Capacity
        /\ q \in Slot
    BY <1>3, <1>4, <2>1, RingNext
  <2> HIDE DEF q
  <2>3. (((q + (x - 1)) % Capacity) + 1) % Capacity = (q + x) % Capacity
    <3>1. Capacity \in Nat /\ Capacity > 0 /\ q \in Nat /\ q < Capacity
      BY <1>1, <1>3, <2>2 DEF Slot
    <3>2. CASE x >= 1
      <4>1. x - 1 \in Nat /\ x - 1 < Capacity
        BY <1>1, <2>1, <3>2
      <4>2. (((q + (x - 1)) % Capacity) + 1) % Capacity =
               (q + ((x - 1) + 1)) % Capacity
        BY <1>3, <2>2, <4>1, RingNext
      <4>3. (x - 1) + 1 = x
        BY <2>1
      <4> QED
        BY <4>2, <4>3
    <3>3. CASE x = 0
      <4>1. (q + (x - 1)) % Capacity = IF q = 0 THEN Capacity - 1 ELSE q - 1
        BY <3>1, <3>3
      <4>2. (q + x) % Capacity = q
        BY <3>1, <3>3
      <4>3. CASE q = 0
        <5>1. ((Capacity - 1) + 1) % Capacity = 0
          BY <3>1
        <5> QED
          BY <4>1, <4>2, <4>3, <5>1
      <4>4. CASE q # 0
        <5>1. ((q - 1) + 1) % Capacity = q
          BY <3>1
        <5> QED
          BY <4>1, <4>2, <4>4, <5>1
      <4> QED
        BY <4>3, <4>4
    <3> QED
      BY <2>1, <3>2, <3>3
  <2>4. queue.head = (q + x) % Capacity
    BY <1>4, <2>1, <2>2, <2>3
  <2> QED
    BY <1>2, <1>4, <2>2, <2>4 DEF RingOK, x, q
<1>7. TypeOK'
  <2>1. queue'.head \in 0 .. Capacity /\ queue'.tail \in 0 .. Capacity
    BY <1>1, <1>3, <1>6 DEF RingOK, Slot
  <2>2. /\ queue'.count \in 0 .. Capacity
        /\ queue'.send_reservations \in Nat
        /\ queue'.receive_reservations \in Nat
    BY <1>1, <1>2, <1>3
  <2>3. queue' \in [storage : [Slot -> Item],
                    head : 0 .. Capacity, tail : 0 .. Capacity,
                    count : 0 .. Capacity,
                    send_reservations : Nat, receive_reservations : Nat]
    BY <1>1, <1>2, <2>1, <2>2
  <2>4. item' \in [ApplicationTask -> Item]
    BY <1>1, <1>2, <1>4
  <2> QED
    BY <2>3, <2>4 DEF TypeOK, TaskInv
<1>8. ReservationsKept'
  <2>1. queue'.receive_reservations = Cardinality(Promised("receive")')
    BY <1>1, <1>2
  <2>2. queue'.send_reservations = Cardinality(Promised("send")')
    BY <1>1, <1>2 DEF W
  <2>3. /\ queue'.count + queue'.send_reservations <= Capacity
        /\ queue'.receive_reservations <= queue'.count
    BY <1>1, <1>2, <1>3
  <2> QED
    BY <1>7, <2>1, <2>2, <2>3 DEF ReservationsKept
<1>9. NoLostWakeup'
  <2>1. HasWaiter("QUEUE_RECEIVE")' => ~HasFreeItem'
    BY <1>1, <1>2, <1>3, <1>5 DEF HasFreeItem
  <2>2. HasWaiter("QUEUE_SEND")' => ~HasFreeSlot'
    BY <1>1, <1>2, <1>3, <1>5 DEF W, HasFreeSlot
  <2> QED
    BY <2>1, <2>2 DEF NoLostWakeup
<1> QED
  BY <1>6, <1>8, <1>9 DEF QueueInv
LEMMA SendItemInv ==
    ASSUME QueueInv, NEW t \in ApplicationTask, SendItem(t)
    PROVE  QueueInv'
<1> DEFINE L == {t}
           reserved == call[t].reserved
<1>1. /\ Attempt(t, "send") /\ Capacity # 0 /\ (reserved = 1 \/ HasFreeSlot)
      /\ InsertItem(item[t], reserved) /\ Return(t) /\ UNCHANGED item
  BY DEF SendItem, CanSend
<1>2. /\ t \in Task /\ pc[t] = "attempt" /\ tasks[t].state = "RUNNING"
      /\ call[t].op = "send" /\ reserved \in {0, 1}
  BY <1>1, AttemptTypes
<1>3. /\ tasks' = task_wake(tasks, QueueObject, "QUEUE_RECEIVE")
      /\ item[t] \in Item /\ item' \in [ApplicationTask -> Item]
  BY <1>1, QueueTypes DEF InsertItem
<1>4. TaskInv'
  BY <1>1, <1>2, <1>3, WakeReturnInv DEF QueueInv
<1>5. /\ L \in SUBSET Task
      /\ \A u \in L : /\ tasks[u].state # "BLOCKED" /\ call[u].op = "send"
                      /\ pc'[u] = "app" /\ call'[u] = NoCall
      /\ \A u \in Task \ L : pc'[u] = pc[u] /\ call'[u] = call[u]
  BY <1>1, <1>2, QueueTypes DEF Return
<1>6. IF reserved = 1 THEN \E u \in Promised("send") : L = {u}
                      ELSE Promised("send") \cap L = {}
  BY <1>2 DEF Promised
<1>7. KindOf("send") = "QUEUE_SEND" /\ KindOf("receive") = "QUEUE_RECEIVE"
  BY DEF KindOf
<1> HIDE DEF L, reserved
<1>8. /\ CallsMatchWaits'
      /\ HasWaiter("QUEUE_SEND")' => HasWaiter("QUEUE_SEND")
      /\ HasWaiter("QUEUE_RECEIVE")' => HasWaiter("QUEUE_RECEIVE")
  BY <1>3, <1>5, <1>7, Handover
<1>9. /\ Cardinality(Promised("send")') =
             Cardinality(Promised("send")) - reserved
      /\ Cardinality(Promised("receive")') =
             IF HasWaiter("QUEUE_RECEIVE")
             THEN Cardinality(Promised("receive")) + 1
             ELSE Cardinality(Promised("receive"))
      /\ reserved = 1 => Cardinality(Promised("send")) >= 1
  BY <1>2, <1>3, <1>5, <1>6, <1>7, HandoverCount
<1> QED
  BY <1>1, <1>2, <1>3, <1>4, <1>8, <1>9, InsertInv

LEMMA SendFromISRInv ==
    ASSUME QueueInv, NEW i \in Item, SendFromISR(i)
    PROVE  QueueInv'
<1> DEFINE L == {}
           reserved == 0
<1>1. /\ Capacity # 0 /\ HasFreeSlot /\ InsertItem(i, reserved) /\ pendsv' = 1
      /\ UNCHANGED <<current, ticks, pc, call, item>>
  BY DEF SendFromISR
<1>2. /\ tasks' = task_wake(tasks, QueueObject, "QUEUE_RECEIVE")
      /\ item' \in [ApplicationTask -> Item]
  BY <1>1, QueueTypes DEF InsertItem
<1>3. TaskInv'
  BY <1>1, <1>2, WakeInv DEF QueueInv
<1>4. /\ L \in SUBSET Task /\ reserved \in {0, 1}
      /\ \A u \in L : /\ tasks[u].state # "BLOCKED" /\ call[u].op = "send"
                      /\ pc'[u] = "app" /\ call'[u] = NoCall
      /\ \A u \in Task \ L : pc'[u] = pc[u] /\ call'[u] = call[u]
      /\ IF reserved = 1 THEN \E u \in Promised("send") : L = {u}
                         ELSE Promised("send") \cap L = {}
  BY <1>1
<1>5. KindOf("send") = "QUEUE_SEND" /\ KindOf("receive") = "QUEUE_RECEIVE"
  BY DEF KindOf
<1> HIDE DEF L, reserved
<1>6. /\ CallsMatchWaits'
      /\ HasWaiter("QUEUE_SEND")' => HasWaiter("QUEUE_SEND")
      /\ HasWaiter("QUEUE_RECEIVE")' => HasWaiter("QUEUE_RECEIVE")
  BY <1>2, <1>4, <1>5, Handover
<1>7. /\ Cardinality(Promised("send")') =
             Cardinality(Promised("send")) - reserved
      /\ Cardinality(Promised("receive")') =
             IF HasWaiter("QUEUE_RECEIVE")
             THEN Cardinality(Promised("receive")) + 1
             ELSE Cardinality(Promised("receive"))
      /\ reserved = 1 => Cardinality(Promised("send")) >= 1
  BY <1>2, <1>4, <1>5, HandoverCount
<1> QED
  BY <1>1, <1>2, <1>3, <1>4, <1>6, <1>7, InsertInv

LEMMA ReceiveItemInv ==
    ASSUME QueueInv, NEW t \in ApplicationTask, ReceiveItem(t)
    PROVE  QueueInv'
<1> DEFINE L == {t}
           reserved == call[t].reserved
<1>1. /\ Attempt(t, "receive") /\ (reserved = 1 \/ HasFreeItem)
      /\ RemoveItem(t, reserved) /\ Return(t)
  BY DEF ReceiveItem, CanReceive
<1>2. /\ t \in Task /\ pc[t] = "attempt" /\ tasks[t].state = "RUNNING"
      /\ call[t].op = "receive" /\ reserved \in {0, 1}
  BY <1>1, AttemptTypes
<1>3. tasks' = task_wake(tasks, QueueObject, "QUEUE_SEND")
  BY <1>1 DEF RemoveItem
<1>4. TaskInv'
  BY <1>1, <1>2, <1>3, WakeReturnInv DEF QueueInv
<1>5. /\ L \in SUBSET Task
      /\ \A u \in L : /\ tasks[u].state # "BLOCKED" /\ call[u].op = "receive"
                      /\ pc'[u] = "app" /\ call'[u] = NoCall
      /\ \A u \in Task \ L : pc'[u] = pc[u] /\ call'[u] = call[u]
  BY <1>1, <1>2, QueueTypes DEF Return
<1>6. IF reserved = 1 THEN \E u \in Promised("receive") : L = {u}
                      ELSE Promised("receive") \cap L = {}
  BY <1>2 DEF Promised
<1>7. KindOf("send") = "QUEUE_SEND" /\ KindOf("receive") = "QUEUE_RECEIVE"
  BY DEF KindOf
<1> HIDE DEF L, reserved
<1>8. /\ CallsMatchWaits'
      /\ HasWaiter("QUEUE_SEND")' => HasWaiter("QUEUE_SEND")
      /\ HasWaiter("QUEUE_RECEIVE")' => HasWaiter("QUEUE_RECEIVE")
  BY <1>3, <1>5, <1>7, Handover
<1>9. /\ Cardinality(Promised("receive")') =
             Cardinality(Promised("receive")) - reserved
      /\ Cardinality(Promised("send")') =
             IF HasWaiter("QUEUE_SEND")
             THEN Cardinality(Promised("send")) + 1
             ELSE Cardinality(Promised("send"))
      /\ reserved = 1 => Cardinality(Promised("receive")) >= 1
  BY <1>2, <1>3, <1>5, <1>6, <1>7, HandoverCount
<1> QED
  BY <1>1, <1>2, <1>4, <1>8, <1>9, RemoveInv

LEMMA QueueNextInv == QueueInv /\ [Next]_vars => QueueInv'
<1> SUFFICES ASSUME QueueInv, [Next]_vars
             PROVE  QueueInv'
  OBVIOUS
<1>0. TaskInv
  BY DEF QueueInv
<1>1. CASE UNCHANGED vars
  <2>1. UNCHANGED <<tasks, pc, call, queue, item>>
    BY <1>1 DEF vars
  <2>2. TaskInv'
    BY <1>0, <1>1, SameTableInv DEF vars
  <2>3. CallsMatchWaits' /\ RingOK'
    BY <2>1 DEF QueueInv, CallsMatchWaits, RingOK
  <2>4. /\ Promised("send")' = Promised("send")
        /\ Promised("receive")' = Promised("receive")
        /\ \A kind : HasWaiter(kind)' = HasWaiter(kind)
    BY <2>1 DEF Promised, HasWaiter
  <2> QED
    BY <2>1, <2>2, <2>3, <2>4, SameBooks, QueueTypes DEF QueueInv, NoLostWakeup
<1>2. CASE PendSV /\ UNCHANGED queueVars
  <2>1. UNCHANGED <<pc, call, queue, item>>
    BY <1>2 DEF PendSV, queueVars
  <2> QED
    BY <1>0, <1>2, <2>1, PendSVInv, PendSVNoNewWait, QueueKernelStep
<1>3. CASE SysTick /\ UNCHANGED queueVars
  <2>1. UNCHANGED <<pc, call, queue, item>>
    BY <1>3 DEF SysTick, SysTickClock, queueVars
  <2> QED
    BY <1>0, <1>3, <2>1, SysTickInv, SysTickNoNewWait, QueueKernelStep
<1>4. CASE Services /\ UNCHANGED queueVars
  <2>1. UNCHANGED <<pc, call, queue, item>>
    BY <1>4 DEF Services, TaskYield, TaskDelay, TaskSuspend, TaskResume, Svc,
                queueVars
  <2> QED
    BY <1>0, <1>4, <2>1, ServicesInv, ServicesNoNewWait, QueueKernelStep
<1>5. ASSUME NEW t \in ApplicationTask, NEW i \in Item,
             NEW timeout \in Timeout, SendEnter(t, i, timeout)
      PROVE  QueueInv'
  <2> DEFINE op == "send"
  <2>1. /\ Enter(t, op, QueueObject, timeout) /\ UNCHANGED queue
        /\ op \in {"send", "receive"}
        /\ item' \in [ApplicationTask -> Item]
    BY <1>5, QueueTypes DEF SendEnter
  <2> HIDE DEF op
  <2> QED
    BY <2>1, QueueEnterInv
<1>6. ASSUME NEW t \in ApplicationTask, NEW timeout \in Timeout,
             ReceiveEnter(t, timeout)
      PROVE  QueueInv'
  <2> DEFINE op == "receive"
  <2>1. /\ Enter(t, op, QueueObject, timeout) /\ UNCHANGED queue
        /\ op \in {"send", "receive"}
        /\ item' \in [ApplicationTask -> Item]
    BY <1>6, QueueTypes DEF ReceiveEnter, queueVars
  <2> HIDE DEF op
  <2> QED
    BY <2>1, QueueEnterInv
<1>7. ASSUME NEW t \in ApplicationTask, Continue(t)
      PROVE  QueueInv'
  BY <1>7, SendItemInv, ReceiveItemInv, QueueGiveUpInv, QueueBlockInv,
     QueueYieldInv, QueueTimeoutInv, QueueReservedInv DEF Continue
<1>8. ASSUME NEW i \in Item, SendFromISR(i)
      PROVE  QueueInv'
  BY <1>8, SendFromISRInv
<1> QED
  BY <1>1, <1>2, <1>3, <1>4, <1>5, <1>6, <1>7, <1>8 DEF Next

LEMMA QueueInvariant == Safety => []QueueInv
BY QueueInit, QueueNextInv, PTL DEF Safety

-----------------------------------------------------------------------------
(* Theorems.                                                               *)

(***************************************************************************)
(* The counters of reserved slots and items are exactly the numbers of     *)
(* tasks woken for them, and a woken task always finds its slot or item,   *)
(* for every capacity, a queue without slots included.                     *)
(***************************************************************************)
THEOREM QueueReservationsAreKept == Safety => []ReservationsKept
<1>1. QueueInv => ReservationsKept
  BY DEF QueueInv
<1> QED
  BY <1>1, QueueInvariant, PTL

(***************************************************************************)
(* A receiver stays BLOCKED only while every item is promised to another   *)
(* task, a sender only while every slot is full or promised: no order of   *)
(* calls, timeouts and interrupts loses a wake-up.                         *)
(***************************************************************************)
THEOREM QueueLosesNoWakeup == Safety => []NoLostWakeup
<1>1. QueueInv => NoLostWakeup
  BY DEF QueueInv
<1> QED
  BY <1>1, QueueInvariant, PTL
-----------------------------------------------------------------------------
(* The ring is a first-in first-out buffer.                                *)

(* The n items of the ring whose oldest one is at position p.              *)
ContentsOf(storage, p, n) ==
    [k \in 1 .. n |-> storage[(p + k - 1) % Capacity]]

LEMMA ContentsSeq ==
    ASSUME Capacity # 0, NEW storage \in [Slot -> Item], NEW p \in Slot,
           NEW n \in Nat, n <= Capacity
    PROVE  /\ ContentsOf(storage, p, n) \in Seq(Item)
           /\ Len(ContentsOf(storage, p, n)) = n
           /\ \A k \in 1 .. n :
                 ContentsOf(storage, p, n)[k] = storage[(p + k - 1) % Capacity]
<1>1. ASSUME NEW k \in 1 .. n
      PROVE  storage[(p + k - 1) % Capacity] \in Item
  <2>1. (p + k - 1) \in Nat /\ (p + k - 1) < 2 * Capacity
    BY QueueAssumption DEF Slot
  <2> DEFINE y == p + k - 1
  <2> HIDE DEF y
  <2>2. y \in Nat /\ y < 2 * Capacity
    BY <2>1 DEF y
  <2>3. y % Capacity \in Slot
    BY <2>2, RingStep
  <2>4. storage[y % Capacity] \in Item
    BY <2>3
  <2> QED
    BY <2>4 DEF y
<1> DEFINE s == ContentsOf(storage, p, n)
<1>2. s \in [1 .. n -> Item]
  BY <1>1 DEF ContentsOf
<1>3. \A k \in 1 .. n : s[k] = storage[(p + k - 1) % Capacity]
  BY DEF ContentsOf
<1> HIDE DEF s
<1>4. s \in Seq(Item)
  BY <1>2, SeqDef
<1>5. Len(s) = n
  BY <1>2, <1>4, LenProperties
<1> QED
  BY <1>3, <1>4, <1>5 DEF s

(* A slot that holds an item is not the next free one.                     *)
LEMMA RingDistinct ==
    ASSUME Capacity # 0, NEW p \in Slot, NEW n \in Nat, n < Capacity,
           NEW k \in 1 .. n
    PROVE  /\ (p + k - 1) % Capacity # (p + n) % Capacity
           /\ (p + k - 1) % Capacity \in Slot
<1>1. /\ Capacity \in Nat /\ Capacity > 0 /\ p \in Nat /\ p < Capacity
      /\ k \in Nat /\ 1 <= k /\ k <= n
  BY QueueAssumption DEF Slot
<1> DEFINE y == p + k - 1
           z == p + n
<1>2. /\ y \in Nat /\ y < 2 * Capacity /\ z \in Nat /\ z < 2 * Capacity
      /\ y < z /\ z - y < Capacity
  BY <1>1
<1> HIDE DEF y, z
<1>3. /\ y % Capacity = IF y < Capacity THEN y ELSE y - Capacity
      /\ y % Capacity \in Slot
      /\ z % Capacity = IF z < Capacity THEN z ELSE z - Capacity
  BY <1>2, RingStep
<1>4. y % Capacity # z % Capacity
  BY <1>1, <1>2, <1>3
<1> QED
  BY <1>3, <1>4 DEF y, z

LEMMA ContentsAppend ==
    ASSUME Capacity # 0, NEW storage \in [Slot -> Item], NEW p \in Slot,
           NEW n \in Nat, n < Capacity, NEW i \in Item, NEW h \in Slot,
           h = (p + n) % Capacity
    PROVE  ContentsOf([storage EXCEPT ![h] = i], p, n + 1) =
               Append(ContentsOf(storage, p, n), i)
<1> DEFINE after == [storage EXCEPT ![h] = i]
           s == ContentsOf(storage, p, n)
           m == n + 1
           u == ContentsOf(after, p, m)
<1>1. after \in [Slot -> Item] /\ m \in Nat /\ m <= Capacity
  BY QueueAssumption
<1>2. /\ s \in Seq(Item) /\ Len(s) = n
      /\ \A k \in 1 .. n : s[k] = storage[(p + k - 1) % Capacity]
  <2>1. n <= Capacity
    BY QueueAssumption
  <2> QED
    BY <2>1, ContentsSeq
<1>3. /\ u \in Seq(Item) /\ Len(u) = m
      /\ \A k \in 1 .. m : u[k] = after[(p + k - 1) % Capacity]
  <2> HIDE DEF after, m
  <2> QED
    BY <1>1, ContentsSeq
<1> HIDE DEF s, u
<1>4. /\ Append(s, i) \in Seq(Item) /\ Len(Append(s, i)) = n + 1
      /\ \A k \in 1 .. n : Append(s, i)[k] = s[k]
      /\ Append(s, i)[n + 1] = i
  BY <1>2, AppendProperties
<1>5. ASSUME NEW k \in 1 .. n + 1
      PROVE  u[k] = Append(s, i)[k]
  <2>0. k \in 1 .. n \/ k = n + 1
    OBVIOUS
  <2>1. CASE k \in 1 .. n
    <3>1. /\ (p + k - 1) % Capacity # h /\ (p + k - 1) % Capacity \in Slot
      BY <2>1, RingDistinct
    <3>2. after[(p + k - 1) % Capacity] = storage[(p + k - 1) % Capacity]
      BY <3>1
    <3> QED
      BY <1>2, <1>3, <1>4, <2>1, <3>2
  <2>2. CASE k = n + 1
    <3>1. p + k - 1 = p + n
      BY <2>2 DEF Slot
    <3>2. after[(p + k - 1) % Capacity] = i
      BY <3>1
    <3>3. u[k] = i
      BY <1>1, <1>3, <2>2, <3>2
    <3> QED
      BY <1>4, <2>2, <3>3
  <2> QED
    BY <2>0, <2>1, <2>2
<1>6. u = Append(s, i)
  BY <1>3, <1>4, <1>5, SeqEqual
<1> QED
  BY <1>6 DEF u, s

LEMMA ContentsTail ==
    ASSUME Capacity # 0, NEW storage \in [Slot -> Item], NEW p \in Slot,
           NEW n \in Nat, 0 < n, n <= Capacity
    PROVE  /\ ContentsOf(storage, p, n) # <<>>
           /\ Head(ContentsOf(storage, p, n)) = storage[p]
           /\ ContentsOf(storage, (p + 1) % Capacity, n - 1) =
                  Tail(ContentsOf(storage, p, n))
<1> DEFINE s == ContentsOf(storage, p, n)
           q == (p + 1) % Capacity
           m == n - 1
           u == ContentsOf(storage, q, m)
<1>0. Capacity \in Nat /\ Capacity > 0 /\ p \in Nat /\ p < Capacity
  BY QueueAssumption DEF Slot
<1>1. q \in Slot /\ m \in Nat /\ m <= Capacity
  <2> DEFINE y == p + 1
  <2>1. y \in Nat /\ y < 2 * Capacity
    BY <1>0
  <2> HIDE DEF y
  <2>2. y % Capacity \in Slot
    BY <2>1, RingStep
  <2> QED
    BY <1>0, <2>2 DEF y
<1>2. /\ s \in Seq(Item) /\ Len(s) = n
      /\ \A k \in 1 .. n : s[k] = storage[(p + k - 1) % Capacity]
  BY ContentsSeq
<1>3. /\ u \in Seq(Item) /\ Len(u) = m
      /\ \A k \in 1 .. m : u[k] = storage[(q + k - 1) % Capacity]
  <2> HIDE DEF q, m
  <2> QED
    BY <1>1, ContentsSeq
<1> HIDE DEF s, u
<1>4. s # <<>>
  BY <1>2, EmptySeq
<1>5. Head(s) = storage[p]
  <2>1. Head(s) = s[1]
    BY <1>2, <1>4
  <2>2. (p + 1 - 1) % Capacity = p
    BY <1>0
  <2> QED
    BY <1>2, <2>1, <2>2
<1>6. /\ Tail(s) \in Seq(Item) /\ Len(Tail(s)) = n - 1
      /\ \A k \in 1 .. n - 1 : Tail(s)[k] = s[k + 1]
  BY <1>2, <1>4, HeadTailProperties
<1>7. ASSUME NEW k \in 1 .. n - 1
      PROVE  u[k] = Tail(s)[k]
  <2>1. k \in Nat /\ k < Capacity /\ k + 1 \in 1 .. n
    BY <1>0
  <2>2. (p + k) % Capacity = (q + (k - 1)) % Capacity
    BY <2>1, RingNext
  <2>3. p + (k + 1) - 1 = p + k /\ q + k - 1 = q + (k - 1)
    BY <1>0, <1>1, <2>1 DEF Slot
  <2>4. s[k + 1] = storage[(p + k) % Capacity]
    BY <1>2, <2>1, <2>3
  <2>5. u[k] = storage[(q + (k - 1)) % Capacity]
    BY <1>3, <2>3
  <2> QED
    BY <1>6, <2>2, <2>4, <2>5
<1>8. u = Tail(s)
  BY <1>3, <1>6, <1>7, SeqEqual
<1> QED
  BY <1>4, <1>5, <1>8 DEF u, s
LEMMA ContentsIs == Contents = ContentsOf(queue.storage, queue.tail, queue.count)
BY DEF Contents, ContentsOf

LEMMA InsertRefines ==
    ASSUME QueueInv, Capacity # 0, NEW i \in Item, NEW reserved \in {0, 1},
           \/ HasFreeSlot
           \/ reserved = 1 /\ queue.send_reservations >= 1,
           InsertItem(i, reserved), UNCHANGED item
    PROVE  Abstract!Insert(i)
<1> DEFINE storage == queue.storage
           p == queue.tail
           n == queue.count
           h == queue.head
<1>1. /\ storage \in [Slot -> Item] /\ n \in Nat /\ n < Capacity
      /\ p \in Slot /\ h \in Slot /\ h = (p + n) % Capacity
  BY QueueTypes DEF HasFreeSlot, QueueInv, RingOK
<1>2. /\ queue'.storage = [storage EXCEPT ![h] = i]
      /\ queue'.tail = p /\ queue'.count = n + 1
  BY QueueTypes DEF InsertItem
<1>3. Contents = ContentsOf(storage, p, n)
  BY ContentsIs
<1>4. Contents' = ContentsOf([storage EXCEPT ![h] = i], p, n + 1)
  BY <1>2 DEF Contents, ContentsOf
<1> HIDE DEF storage, p, n, h
<1>5. Contents' = Append(Contents, i)
  BY <1>1, <1>3, <1>4, ContentsAppend
<1>6. n <= Capacity
  BY <1>1, QueueAssumption
<1>7. Len(Contents) = n
  BY <1>1, <1>3, <1>6, ContentsSeq
<1> QED
  BY <1>1, <1>5, <1>7 DEF Abstract!Insert

LEMMA RemoveRefines ==
    ASSUME QueueInv, NEW t \in ApplicationTask, NEW reserved \in {0, 1},
           \/ HasFreeItem
           \/ reserved = 1 /\ queue.receive_reservations >= 1,
           RemoveItem(t, reserved)
    PROVE  Abstract!Remove(t)
<1> DEFINE storage == queue.storage
           p == queue.tail
           n == queue.count
<1>1. /\ storage \in [Slot -> Item] /\ n \in Nat /\ 0 < n /\ n <= Capacity
      /\ Capacity # 0
  BY QueueTypes DEF HasFreeItem
<1>2. p \in Slot
  BY <1>1 DEF QueueInv, RingOK
<1>3. /\ queue'.storage = storage
      /\ queue'.tail = (p + 1) % Capacity /\ queue'.count = n - 1
      /\ item' = [item EXCEPT ![t] = storage[p]]
  BY QueueTypes DEF RemoveItem
<1>4. Contents = ContentsOf(storage, p, n)
  BY ContentsIs
<1>5. Contents' = ContentsOf(storage, (p + 1) % Capacity, n - 1)
  BY <1>3 DEF Contents, ContentsOf
<1> HIDE DEF storage, p, n
<1>6. /\ Contents # <<>> /\ Head(Contents) = storage[p]
      /\ Contents' = Tail(Contents)
  BY <1>1, <1>2, <1>4, <1>5, ContentsTail
<1> QED
  BY <1>3, <1>6 DEF Abstract!Remove

LEMMA QueueStepRefines ==
    QueueInv /\ [Next]_vars => [Abstract!Next]_(Abstract!fifoVars)
<1> SUFFICES ASSUME QueueInv, [Next]_vars
             PROVE  [Abstract!Next]_(Abstract!fifoVars)
  OBVIOUS
<1>1. ASSUME UNCHANGED <<queue, item>>
      PROVE  UNCHANGED Abstract!fifoVars
  BY <1>1 DEF Abstract!fifoVars, Contents
<1>2. CASE UNCHANGED vars
  BY <1>1, <1>2 DEF vars
<1>3. CASE (PendSV \/ SysTick \/ Services) /\ UNCHANGED queueVars
  BY <1>1, <1>3 DEF queueVars
<1>4. ASSUME NEW t \in ApplicationTask, NEW i \in Item,
             NEW timeout \in Timeout, SendEnter(t, i, timeout)
      PROVE  Abstract!Next
  <2>1. item' = [item EXCEPT ![t] = i] /\ UNCHANGED queue
    BY <1>4 DEF SendEnter
  <2>2. UNCHANGED Contents
    BY <2>1 DEF Contents
  <2> QED
    BY <2>1, <2>2 DEF Abstract!Next, Abstract!Fill
<1>5. ASSUME NEW t \in ApplicationTask, NEW timeout \in Timeout,
             ReceiveEnter(t, timeout)
      PROVE  UNCHANGED Abstract!fifoVars
  BY <1>1, <1>5 DEF ReceiveEnter, queueVars
<1>6. ASSUME NEW t \in ApplicationTask, Continue(t)
      PROVE  [Abstract!Next]_(Abstract!fifoVars)
  <2>1. CASE SendItem(t)
    <3> DEFINE reserved == call[t].reserved
               i == item[t]
    <3>1. /\ Attempt(t, "send") /\ Capacity # 0 /\ (reserved = 1 \/ HasFreeSlot)
          /\ InsertItem(i, reserved) /\ UNCHANGED item
      BY <2>1 DEF SendItem, CanSend
    <3>2. t \in Task /\ call[t].op = "send" /\ reserved \in {0, 1} /\ i \in Item
      BY <3>1, AttemptTypes, QueueTypes
    <3>3. reserved = 1 => queue.send_reservations >= 1
      BY <3>2, ReservedIsCounted
    <3> HIDE DEF reserved, i
    <3>4. Abstract!Insert(i)
      BY <3>1, <3>2, <3>3, InsertRefines
    <3> QED
      BY <3>2, <3>4 DEF Abstract!Next
  <2>2. CASE ReceiveItem(t)
    <3> DEFINE reserved == call[t].reserved
    <3>1. /\ Attempt(t, "receive") /\ (reserved = 1 \/ HasFreeItem)
          /\ RemoveItem(t, reserved)
      BY <2>2 DEF ReceiveItem, CanReceive
    <3>2. t \in Task /\ call[t].op = "receive" /\ reserved \in {0, 1}
      BY <3>1, AttemptTypes
    <3>3. reserved = 1 => queue.receive_reservations >= 1
      BY <3>2, ReservedIsCounted
    <3> HIDE DEF reserved
    <3>4. Abstract!Remove(t)
      BY <3>1, <3>2, <3>3, RemoveRefines
    <3> QED
      BY <3>4 DEF Abstract!Next
  <2>3. CASE ~SendItem(t) /\ ~ReceiveItem(t)
    <3>1. UNCHANGED <<queue, item>>
      BY <1>6, <2>3
         DEF Continue, SendGiveUp, SendBlock, ReceiveGiveUp, ReceiveBlock,
             WokenByTimeout, WokenReserved, queueVars
    <3> QED
      BY <1>1, <3>1
  <2> QED
    BY <2>1, <2>2, <2>3
<1>7. ASSUME NEW i \in Item, SendFromISR(i)
      PROVE  Abstract!Next
  <2> DEFINE reserved == 0
  <2>1. /\ Capacity # 0 /\ HasFreeSlot /\ InsertItem(i, reserved)
        /\ reserved \in {0, 1} /\ UNCHANGED item
    BY <1>7 DEF SendFromISR
  <2> HIDE DEF reserved
  <2>2. Abstract!Insert(i)
    BY <2>1, InsertRefines
  <2> QED
    BY <2>2 DEF Abstract!Next
<1> QED
  BY <1>2, <1>3, <1>4, <1>5, <1>6, <1>7 DEF Next

(***************************************************************************)
(* The queue of sync.c implements the abstract bounded FIFO: whatever      *)
(* tasks, interrupt handlers and timeouts do, for every capacity, items    *)
(* come out in the order they went in, none lost, none twice and none      *)
(* overwritten.                                                            *)
(***************************************************************************)
THEOREM QueueIsFifo == Safety => ImplementsFifo
<1>1. Init => Abstract!Init
  <2> SUFFICES ASSUME Init
               PROVE  Abstract!Init
    OBVIOUS
  <2>1. queue.count = 0 /\ item \in [ApplicationTask -> Item]
    BY DEF Init
  <2>2. Contents = [k \in 1 .. 0 |-> queue.storage[(queue.tail + k - 1) % Capacity]]
    BY <2>1 DEF Contents
  <2>3. Contents = <<>>
    BY <2>2
  <2> QED
    BY <2>1, <2>3 DEF Abstract!Init
<1>2. QueueInv /\ [Next]_vars => [Abstract!Next]_(Abstract!fifoVars)
  BY QueueStepRefines
<1> QED
  BY <1>1, <1>2, QueueInvariant, PTL DEF Safety, ImplementsFifo, Abstract!Spec
=============================================================================
