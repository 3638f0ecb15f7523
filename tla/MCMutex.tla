------------------------------ MODULE MCMutex -------------------------------
(***************************************************************************)
(* Application tasks of rising priorities and recursive mutexes.           *)
(***************************************************************************)
EXTENDS Mutex

\* Task i has priority i + 1; the service is above, the idle task below.
MCPriority ==
    [i \in Task |-> IF i = idle_index THEN 0 ELSE i + 1]

CONSTANTS m1, m2

\* Every task makes every call.
MCLockAll == [t \in ApplicationTask |-> Object \X Timeout]

MCRecursion == [m \in Object |-> IF m = m1 THEN 2 ELSE 1]

\* A chain: the last task waits behind the middle one, and that one behind
\* the first; the first two can also deadlock.
MCLockCall ==
    [t \in ApplicationTask |->
        CASE t = 0 -> {<<m1, JRT_WAIT_FOREVER>>, <<m2, JRT_WAIT_FOREVER>>}
          [] t = 1 -> {<<m1, 1>>, <<m2, 0>>}
          [] OTHER -> {<<m2, 1>>}]
=============================================================================
