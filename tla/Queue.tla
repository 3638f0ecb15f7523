------------------------------- MODULE Queue --------------------------------
(***************************************************************************)
(* Message queues (kernel/sync.c): a ring of slots, blocking send and      *)
(* receive with timeouts, and send from interrupt handlers.  Waking a      *)
(* blocked receiver reserves an item for it, waking a blocked sender       *)
(* reserves a slot, so that a caller who arrives in between cannot take    *)
(* what the woken task was promised.                                       *)
(***************************************************************************)
EXTENDS Task, Sequences, FiniteSets

CONSTANTS
    QueueObject,  \* the queue
    Item,         \* what is sent
    Capacity      \* number of slots; item_size is positive

ASSUME QueueAssumption ==
    /\ Object = {QueueObject}
    /\ Capacity \in Nat
    /\ Item # {}

VARIABLES
    queue,  \* JRT_Queue_t
    item    \* the buffer each task passes to send or receive

queueVars == <<queue, item>>
vars == <<tasks, current, ticks, pendsv, pc, call, queue, item>>

Slot == 0 .. Capacity - 1

TypeOK ==
    /\ TaskTypeOK
    /\ queue \in [storage : [Slot -> Item],
                  head : 0 .. Capacity, tail : 0 .. Capacity,
                  count : 0 .. Capacity,
                  send_reservations : Nat, receive_reservations : Nat]
    /\ item \in [ApplicationTask -> Item]

\* The storage is static and its first contents are never read.
Init ==
    /\ TaskInit
    /\ \E i \in Item :
          /\ queue = [storage |-> [k \in Slot |-> i], head |-> 0, tail |-> 0,
                      count |-> 0, send_reservations |-> 0,
                      receive_reservations |-> 0]
          /\ item = [t \in ApplicationTask |-> i]

-----------------------------------------------------------------------------
(* The two updates of the ring, with the wake-up of the other side.        *)

HasWaiter(kind) == Waiters(tasks, QueueObject, kind) # {}

(* Mutant: the woken receiver gets no reservation.                         *)
InsertNoReservation(i, reserved) ==
    /\ queue' = [queue EXCEPT
            !.storage[queue.head] = i,
            !.send_reservations = @ - reserved,
            !.head = (@ + 1) % Capacity,
            !.count = @ + 1]
    /\ tasks' = task_wake(tasks, QueueObject, "QUEUE_RECEIVE")

InsertItem(i, reserved) ==
    /\ queue' = [queue EXCEPT
            !.storage[queue.head] = i,
            !.send_reservations = @ - reserved,
            !.head = (@ + 1) % Capacity,
            !.count = @ + 1,
            !.receive_reservations =
                IF HasWaiter("QUEUE_RECEIVE") THEN @ + 1 ELSE @]
    /\ tasks' = task_wake(tasks, QueueObject, "QUEUE_RECEIVE")

RemoveItem(t, reserved) ==
    /\ item' = [item EXCEPT ![t] = queue.storage[queue.tail]]
    /\ queue' = [queue EXCEPT
            !.receive_reservations = @ - reserved,
            !.tail = (@ + 1) % Capacity,
            !.count = @ - 1,
            !.send_reservations =
                IF HasWaiter("QUEUE_SEND") THEN @ + 1 ELSE @]
    /\ tasks' = task_wake(tasks, QueueObject, "QUEUE_SEND")

(* Mutant: a slot promised to a woken sender counts as free.               *)
FreeIgnoresReservations == queue.count < Capacity

HasFreeSlot == queue.count + queue.send_reservations < Capacity

HasFreeItem == queue.count > queue.receive_reservations

-----------------------------------------------------------------------------
(* JRT_QueueSend.                                                          *)

SendEnter(t, i, timeout) ==
    /\ Enter(t, "send", QueueObject, timeout)
    /\ item' = [item EXCEPT ![t] = i]
    /\ UNCHANGED queue

CanSend(t) == Capacity # 0 /\ (call[t].reserved = 1 \/ HasFreeSlot)

SendItem(t) ==
    /\ Attempt(t, "send")
    /\ CanSend(t)
    /\ InsertItem(item[t], call[t].reserved)
    /\ Return(t)
    /\ UNCHANGED item

SendGiveUp(t) ==
    /\ Attempt(t, "send")
    /\ ~CanSend(t)
    /\ GiveUp(t)
    /\ UNCHANGED queueVars

SendBlock(t) ==
    /\ Attempt(t, "send")
    /\ ~CanSend(t)
    /\ call[t].timeout # 0
    /\ Block(t, "QUEUE_SEND", tasks)
    /\ UNCHANGED queueVars

-----------------------------------------------------------------------------
(* JRT_QueueReceive.                                                       *)

ReceiveEnter(t, timeout) ==
    /\ Enter(t, "receive", QueueObject, timeout)
    /\ UNCHANGED queueVars

CanReceive(t) == call[t].reserved = 1 \/ HasFreeItem

ReceiveItem(t) ==
    /\ Attempt(t, "receive")
    /\ CanReceive(t)
    /\ RemoveItem(t, call[t].reserved)
    /\ Return(t)

ReceiveGiveUp(t) ==
    /\ Attempt(t, "receive")
    /\ ~CanReceive(t)
    /\ GiveUp(t)
    /\ UNCHANGED queueVars

(* Mutant: the emptiness test is not repeated inside the critical section. *)
ReceiveBlockUnchecked(t) ==
    /\ Attempt(t, "receive")
    /\ call[t].reserved = 0
    /\ call[t].timeout # 0
    /\ Block(t, "QUEUE_RECEIVE", tasks)
    /\ UNCHANGED queueVars

ReceiveBlock(t) ==
    /\ Attempt(t, "receive")
    /\ ~CanReceive(t)
    /\ call[t].timeout # 0
    /\ Block(t, "QUEUE_RECEIVE", tasks)
    /\ UNCHANGED queueVars

-----------------------------------------------------------------------------
(* Behind arch_yield, in both loops: give up, or go round with a           *)
(* reservation.                                                            *)

WokenByTimeout(t) ==
    /\ Woken(t, "send") \/ Woken(t, "receive")
    /\ tasks[t].wait_result = 0
    /\ Return(t)
    /\ UNCHANGED <<tasks, queueVars>>

WokenReserved(t) ==
    /\ Woken(t, "send") \/ Woken(t, "receive")
    /\ tasks[t].wait_result # 0
    /\ pc' = [pc EXCEPT ![t] = "attempt"]
    /\ call' = [call EXCEPT ![t].reserved = 1]
    /\ UNCHANGED <<tasks, current, ticks, pendsv, queueVars>>

-----------------------------------------------------------------------------
(* JRT_QueueSendFromISR: never blocks; a full queue drops the item and     *)
(* requests no switch.                                                     *)

SendFromISR(i) ==
    /\ Capacity # 0 /\ HasFreeSlot
    /\ InsertItem(i, 0)
    /\ pendsv' = 1
    /\ UNCHANGED <<current, ticks, pc, call, item>>

-----------------------------------------------------------------------------
Continue(t) ==
    \/ SendItem(t)
    \/ SendGiveUp(t)
    \/ SendBlock(t)
    \/ ReceiveItem(t)
    \/ ReceiveGiveUp(t)
    \/ ReceiveBlock(t)
    \/ ArchYield(t) /\ UNCHANGED queueVars
    \/ WokenByTimeout(t)
    \/ WokenReserved(t)

Next ==
    \/ PendSV /\ UNCHANGED queueVars
    \/ SysTick /\ UNCHANGED queueVars
    \/ Services /\ UNCHANGED queueVars
    \/ \E t \in ApplicationTask :
          \/ \E i \in Item, timeout \in Timeout : SendEnter(t, i, timeout)
          \/ \E timeout \in Timeout : ReceiveEnter(t, timeout)
          \/ Continue(t)
    \/ \E i \in Item : SendFromISR(i)

Safety == Init /\ [][Next]_vars

\* As for semaphores: hardware, and tasks that are scheduled again and again.
Fairness ==
    /\ WF_vars(PendSV /\ UNCHANGED queueVars)
    /\ WF_vars(SysTick /\ UNCHANGED queueVars)
    /\ \A t \in ApplicationTask : SF_vars(Continue(t))

Spec == Safety /\ Fairness

-----------------------------------------------------------------------------
(* Properties.                                                             *)

(***************************************************************************)
(* A queue is a bounded FIFO: items come out in the order they went in,    *)
(* none lost, none twice, none overwritten, however sends, receives,       *)
(* timeouts and interrupts interleave.                                     *)
(***************************************************************************)
Contents ==
    [k \in 1 .. queue.count |->
        queue.storage[(queue.tail + k - 1) % Capacity]]

Abstract == INSTANCE Fifo WITH Client <- ApplicationTask,
                               items <- Contents, buf <- item

ImplementsFifo == Abstract!Spec

\* Tasks woken for op that have not used their reservation yet.
Promised(op) ==
    {t \in Task : /\ call[t].op = op
                  /\ \/ call[t].reserved = 1
                     \/ /\ pc[t] \in {"yield", "woken"}
                        /\ tasks[t].state # "BLOCKED"
                        /\ tasks[t].wait_result = 1}

(***************************************************************************)
(* The reservation counters count exactly the tasks that were woken and    *)
(* have not come back for their slot or item, and what they were promised  *)
(* is there: a woken caller never finds the queue full or empty.           *)
(***************************************************************************)
ReservationsKept ==
    /\ TypeOK
    /\ queue.send_reservations = Cardinality(Promised("send"))
    /\ queue.receive_reservations = Cardinality(Promised("receive"))
    /\ queue.count + queue.send_reservations <= Capacity
    /\ queue.receive_reservations <= queue.count

(***************************************************************************)
(* No lost wakeup: a receiver stays blocked only while every item in the   *)
(* queue is promised to another one, a sender only while no slot is free.  *)
(***************************************************************************)
NoLostWakeup ==
    /\ HasWaiter("QUEUE_RECEIVE") => ~HasFreeItem
    /\ HasWaiter("QUEUE_SEND") => ~HasFreeSlot

(***************************************************************************)
(* A promised item or slot reaches its task: the woken task of the highest *)
(* priority completes its call, unless it is suspended.                    *)
(***************************************************************************)
PromiseKept ==
    \A t \in TopTask :
        t \in Promised("send") \cup Promised("receive") ~>
            (pc[t] = "app" \/ tasks[t].state = "SUSPENDED")
=============================================================================
