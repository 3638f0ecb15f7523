-------------------------------- MODULE Fifo --------------------------------
(***************************************************************************)
(* What a queue promises: a bounded first-in first-out buffer between the  *)
(* buffers of its callers.  Reservations, wake-ups and the ring of slots   *)
(* are not visible here.                                                   *)
(***************************************************************************)
EXTENDS Naturals, Sequences

CONSTANTS Client, Item, Capacity

VARIABLES
    items,  \* the items in the queue, oldest first
    buf     \* the buffer each client passes to the queue

fifoVars == <<items, buf>>

Init ==
    /\ items = <<>>
    /\ buf \in [Client -> Item]

\* The application fills its buffer before it sends.
Fill(c, i) ==
    /\ buf' = [buf EXCEPT ![c] = i]
    /\ UNCHANGED items

Insert(i) ==
    /\ Len(items) < Capacity
    /\ items' = Append(items, i)
    /\ UNCHANGED buf

Remove(c) ==
    /\ items # <<>>
    /\ buf' = [buf EXCEPT ![c] = Head(items)]
    /\ items' = Tail(items)

Next ==
    \/ \E c \in Client, i \in Item : Fill(c, i)
    \/ \E i \in Item : Insert(i)
    \/ \E c \in Client : Remove(c)

Spec == Init /\ [][Next]_fifoVars
=============================================================================
