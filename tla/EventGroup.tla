----------------------------- MODULE EventGroup -----------------------------
(***************************************************************************)
(* Event groups (kernel/task.c): setting bits wakes every waiter whose     *)
(* condition holds then; each of them looks at the bits again when it      *)
(* runs, and clears its own if it asked for that.                          *)
(***************************************************************************)
EXTENDS Task

CONSTANTS
    EventBit,  \* the bits of a group
    SetMask,   \* masks given to JRT_EventGroupSetBits
    Request    \* what a wait asks for: [bits, all, clear]

ASSUME EventGroupAssumption ==
    /\ SetMask \subseteq SUBSET EventBit
    /\ Request \subseteq [bits : (SUBSET EventBit) \ {{}},
                          all : BOOLEAN, clear : BOOLEAN]

VARIABLES
    bits,    \* group->bits, as the set of bits that are 1
    want,    \* task_t.event_wait_bits, event_wait_all, event_clear_on_exit
    result,  \* history: what the last wait that ended returned
    stolen,  \* history: bits of its group cleared since a task was woken
    waited   \* history: ticks since a task blocked (saturating)

eventVars == <<bits, want, result, stolen, waited>>
vars == <<tasks, current, ticks, pendsv, pc, call,
          bits, want, result, stolen, waited>>

\* What task_wait_reset leaves in the table.
NoRequest == [bits |-> {}, all |-> FALSE, clear |-> FALSE]

TypeOK ==
    /\ TaskTypeOK
    /\ bits \in [Object -> SUBSET EventBit]
    /\ want \in [Task -> Request \cup {NoRequest}]
    /\ result \in SUBSET EventBit
    /\ stolen \in [Task -> SUBSET EventBit]
    /\ waited \in [Task -> 0 .. TICK_MOD]

\* JRT_EventGroupCreateStatic runs before the kernel starts.
Init ==
    /\ TaskInit
    /\ bits = [g \in Object |-> {}]
    /\ want = [t \in Task |-> NoRequest]
    /\ result = {}
    /\ stolen = [t \in Task |-> {}]
    /\ waited = [t \in Task |-> 0]

event_condition(now, request) ==
    IF request.all THEN request.bits \subseteq now
                   ELSE request.bits \cap now # {}

-----------------------------------------------------------------------------
(* JRT_EventGroupWaitBits.                                                 *)

\* Between its wake-up and its own look at group g.
OnItsWay(u, g) ==
    pc[u] # "app" /\ tasks[u].state # "BLOCKED" /\ call[u].object = g

Steal(t, g) ==
    stolen' = [u \in Task |->
        IF u = t THEN {}
        ELSE IF OnItsWay(u, g) THEN stolen[u] \cup (bits[g] \ bits'[g])
        ELSE stolen[u]]

(* Mutant: the bits are cleared before they are reported.                  *)
AnswerClearFirst(t, g, request) ==
    /\ bits' = [bits EXCEPT ![g] =
           IF request.clear /\ event_condition(@, request)
           THEN @ \ request.bits ELSE @]
    /\ result' = bits'[g] \cap request.bits
    /\ Steal(t, g)
    /\ waited' = [waited EXCEPT ![t] = 0]

\* Report the requested bits that are set, and clear them if the condition
\* holds and the caller asked for it.
Answer(t, g, request) ==
    /\ result' = bits[g] \cap request.bits
    /\ bits' = [bits EXCEPT ![g] =
           IF request.clear /\ event_condition(@, request)
           THEN @ \ request.bits ELSE @]
    /\ Steal(t, g)
    /\ waited' = [waited EXCEPT ![t] = 0]

WaitNow(t, g, request) ==
    /\ InApp(t)
    /\ event_condition(bits[g], request)
    /\ Answer(t, g, request)
    /\ UNCHANGED <<taskVars, want>>

(* Mutant: blocks although the condition holds already.                    *)
WaitBlockUnchecked(t, g, request, timeout) ==
    /\ InApp(t)
    /\ timeout # 0
    /\ BlockNow(t, "wait_bits", g, "EVENT_GROUP", timeout)
    /\ want' = [want EXCEPT ![t] = request]
    /\ waited' = [waited EXCEPT ![t] = 0]
    /\ UNCHANGED <<bits, result, stolen>>

WaitBlock(t, g, request, timeout) ==
    /\ InApp(t)
    /\ ~event_condition(bits[g], request)
    /\ timeout # 0
    /\ BlockNow(t, "wait_bits", g, "EVENT_GROUP", timeout)
    /\ want' = [want EXCEPT ![t] = request]
    /\ waited' = [waited EXCEPT ![t] = 0]
    /\ UNCHANGED <<bits, result, stolen>>

\* A zero timeout and a condition that does not hold: the call returns 0.
WaitPoll(t, g, request) ==
    /\ InApp(t)
    /\ ~event_condition(bits[g], request)
    /\ result' = {}
    /\ UNCHANGED <<taskVars, bits, want, stolen, waited>>

\* Behind arch_yield: the bits decide, not wait_result.
WaitWoken(t) ==
    /\ Woken(t, "wait_bits")
    /\ Answer(t, call[t].object, want[t])
    /\ Return(t)
    /\ UNCHANGED <<tasks, want>>

-----------------------------------------------------------------------------
(* event_group_set_bits_common: every satisfied waiter is woken, in one    *)
(* critical section, and a switch is requested behind it.                  *)

Satisfied(g, now) ==
    {t \in Task : /\ tasks[t].state = "BLOCKED"
                  /\ tasks[t].wait_kind = "EVENT_GROUP"
                  /\ tasks[t].wait_object = g
                  /\ event_condition(now, want[t])}

(* Mutant: the loop stops at the first satisfied waiter.                   *)
SetOne(g, mask) ==
    LET W == Satisfied(g, bits[g] \cup mask)
    IN  /\ bits' = [bits EXCEPT ![g] = @ \cup mask]
        /\ tasks' = [t \in Task |-> IF t \in W /\ \A u \in W : t <= u
                                    THEN task_wait_end(tasks[t], 1)
                                    ELSE tasks[t]]
        /\ pendsv' = 1
        /\ UNCHANGED <<current, ticks, pc, call, want, result, stolen, waited>>

Set(g, mask) ==
    /\ bits' = [bits EXCEPT ![g] = @ \cup mask]
    /\ tasks' = [t \in Task |-> IF t \in Satisfied(g, bits'[g])
                                THEN task_wait_end(tasks[t], 1)
                                ELSE tasks[t]]
    /\ pendsv' = 1
    /\ UNCHANGED <<current, ticks, pc, call, want, result, stolen, waited>>

EventGroupSetBits(t, g, mask) == InApp(t) /\ Set(g, mask)

EventGroupSetBitsFromISR(g, mask) == Set(g, mask)

-----------------------------------------------------------------------------
ClockTick ==
    /\ SysTick
    /\ waited' = [t \in Task |-> IF pc[t] # "app" /\ waited[t] < TICK_MOD
                                 THEN waited[t] + 1 ELSE waited[t]]
    /\ UNCHANGED <<bits, want, result, stolen>>

Continue(t) ==
    \/ ArchYield(t) /\ UNCHANGED eventVars
    \/ WaitWoken(t)

Next ==
    \/ PendSV /\ UNCHANGED eventVars
    \/ ClockTick
    \/ Services /\ UNCHANGED eventVars
    \/ \E t \in ApplicationTask :
          \/ \E g \in Object, r \in Request :
                \/ WaitNow(t, g, r)
                \/ 0 \in Timeout /\ WaitPoll(t, g, r)
                \/ \E timeout \in Timeout : WaitBlock(t, g, r, timeout)
          \/ Continue(t)
          \/ \E g \in Object, mask \in SetMask : EventGroupSetBits(t, g, mask)
    \/ \E g \in Object, mask \in SetMask : EventGroupSetBitsFromISR(g, mask)

Safety == Init /\ [][Next]_vars

-----------------------------------------------------------------------------
(* Properties.                                                             *)

(***************************************************************************)
(* Nobody sleeps beside its own event: a task BLOCKED on a group waits for *)
(* a condition that does not hold, whatever set bits between its test and  *)
(* its block and however many waiters one set satisfied.                   *)
(***************************************************************************)
NoSatisfiedWaiter ==
    /\ TypeOK
    /\ \A t \in Task :
          (tasks[t].state = "BLOCKED" /\ tasks[t].wait_kind = "EVENT_GROUP")
              => ~event_condition(bits[tasks[t].wait_object], want[t])

(***************************************************************************)
(* Events are consumed by somebody: a bit that is cleared is in the value  *)
(* the clearing wait returns, so that it was reported at least once.       *)
(***************************************************************************)
ClearedIsReported ==
    [][\A g \in Object : bits[g] \ bits'[g] \subseteq result']_vars

\* The step in which task t comes back from a wait that had to block.
Returns(t) == pc[t] # "app" /\ pc'[t] = "app"

(***************************************************************************)
(* A wait comes back with its condition unmet for two reasons only: its    *)
(* finite timeout went by, or it was woken and another task cleared bits   *)
(* of its group that it waits for before it ran.  No deadline fires early  *)
(* across wraparound.                                                      *)
(***************************************************************************)
UnmetWaitExplained ==
    [][\A t \in Task :
        (Returns(t) /\ ~event_condition(result', want[t])) =>
            \/ /\ tasks[t].wait_result = 1
               /\ stolen[t] \cap want[t].bits # {}
            \/ /\ call[t].timeout # JRT_WAIT_FOREVER
               /\ waited[t] >= call[t].timeout]_vars

(***************************************************************************)
(* A wait with JRT_WAIT_FOREVER returns when its condition is met          *)
(* (docs/RTOS.md, "JRT_WAIT_FOREVER selects an infinite wait").  The code  *)
(* violates it: of two waiters that one set woke, the first to run clears  *)
(* the bits the second was woken for.                                      *)
(***************************************************************************)
ForeverWaitIsMet ==
    [][\A t \in Task :
        (Returns(t) /\ call[t].timeout = JRT_WAIT_FOREVER) =>
            event_condition(result', want[t])]_vars
=============================================================================
