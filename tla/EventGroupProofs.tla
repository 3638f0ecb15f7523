-------------------------- MODULE EventGroupProofs --------------------------
(***************************************************************************)
(* Event groups, for every number of tasks, groups and bits and every      *)
(* timeout: nobody sleeps beside its own event, bits are reported before   *)
(* they are cleared, and a wait that comes back with its condition unmet   *)
(* has a reason.                                                           *)
(***************************************************************************)
EXTENDS EventGroup, TaskProofs

(* The wait of one task, from its entry, its place, its call c, its        *)
(* request r, the bits B of the groups and the bits its group lost since   *)
(* its wake-up: a task that was woken was woken by its condition, so that  *)
(* what misses from it now was lost in between.                            *)
EventWait(entry, place, c, r, B, lost) ==
    /\ entry.state = "BLOCKED" /\ entry.wait_kind = "EVENT_GROUP" =>
           place \in {"yield", "woken"}
    /\ place \in {"yield", "woken"} =>
           /\ c.object \in Object
           /\ IF entry.state = "BLOCKED" THEN entry.wait_object = c.object
              ELSE entry.wait_result = 1 =>
                       event_condition(B[c.object] \cup lost, r)

WaitsTimed ==
    \A t \in Task : TimedWait(tasks[t], pc[t], call[t], ticks, waited[t])

WaitsMet ==
    \A t \in Task :
        EventWait(tasks[t], pc[t], call[t], want[t], bits, stolen[t])

EventInv == TaskInv /\ NoSatisfiedWaiter /\ WaitsTimed /\ WaitsMet
LEMMA EventTypes ==
    ASSUME EventInv
    PROVE  /\ tasks \in [Task -> TCB] /\ ticks \in Tick
           /\ pc \in [Task -> {"app", "attempt", "yield", "woken", "callback"}]
           /\ call \in [Task -> Call]
           /\ bits \in [Object -> SUBSET EventBit]
           /\ want \in [Task -> Request \cup {NoRequest}]
           /\ result \in SUBSET EventBit
           /\ stolen \in [Task -> SUBSET EventBit]
           /\ waited \in [Task -> 0 .. TICK_MOD]
           /\ 0 \in 0 .. TICK_MOD
BY TaskTableAssumption DEF EventInv, NoSatisfiedWaiter, TypeOK, TaskTypeOK

(* More bits do not falsify a condition.                                   *)
LEMMA MoreBits ==
    ASSUME NEW A, NEW B, A \subseteq B, NEW r, event_condition(A, r)
    PROVE  event_condition(B, r)
BY DEF event_condition

LEMMA EventInit == Init => EventInv
<1> SUFFICES ASSUME Init
             PROVE  EventInv
  OBVIOUS
<1>1. TaskInv
  BY InitInv DEF Init
<1>2. TypeOK
  BY <1>1, TaskTableAssumption DEF Init, TypeOK, TaskInv
<1>3. \A t \in Task : pc[t] = "app"
  BY DEF Init, TaskInit
<1>4. \A t \in Task : tasks[t].wait_kind # "EVENT_GROUP"
  BY DEF Init, TaskInit, JRT_KernelInit, prepare_task,
         prepare_timer_service_task, task_wait_begin, task_wait_begin_until
<1> QED
  BY <1>1, <1>2, <1>3, <1>4
     DEF EventInv, NoSatisfiedWaiter, WaitsTimed, TimedWait, WaitsMet,
         EventWait

(* Steps of the scheduler and of the task services.                        *)
LEMMA EventKernelStep ==
    ASSUME EventInv, TaskInv', NoNewWait, KeepsWaits,
           UNCHANGED <<ticks, pc, call, bits, want, result, stolen, waited>>
    PROVE  EventInv'
<1>1. ASSUME NEW t \in Task
      PROVE  /\ tasks'[t].state = "BLOCKED" => tasks'[t] = tasks[t]
             /\ tasks[t].state = "BLOCKED" => tasks'[t].state = "BLOCKED"
             /\ tasks[t].state # "BLOCKED" =>
                    tasks'[t].wait_result = tasks[t].wait_result
  BY DEF NoNewWait, KeepsWaits
<1>2. NoSatisfiedWaiter'
  BY <1>1 DEF EventInv, TaskInv, NoSatisfiedWaiter, TypeOK
<1>3. WaitsTimed'
  <2> SUFFICES ASSUME NEW t \in Task
               PROVE  TimedWait(tasks'[t], pc[t], call[t], ticks, waited[t])
    BY DEF WaitsTimed
  <2>1. TimedWait(tasks[t], pc[t], call[t], ticks, waited[t])
    BY DEF EventInv, WaitsTimed
  <2> QED
    BY <1>1, <2>1, TimedStep
<1>4. WaitsMet'
  <2> SUFFICES ASSUME NEW t \in Task
               PROVE  EventWait(tasks'[t], pc[t], call[t], want[t], bits,
                                stolen[t])
    BY DEF WaitsMet
  <2>1. EventWait(tasks[t], pc[t], call[t], want[t], bits, stolen[t])
    BY DEF EventInv, WaitsMet
  <2> QED
    BY <1>1, <2>1 DEF EventWait
<1> QED
  BY <1>2, <1>3, <1>4 DEF EventInv

LEMMA EventTickInv ==
    ASSUME EventInv, ClockTick
    PROVE  EventInv'
<1>1. /\ SysTick /\ ticks' = TickAdd(ticks, 1)
      /\ UNCHANGED <<pc, call, bits, want, result, stolen>>
      /\ waited' = [t \in Task |-> IF pc[t] # "app" /\ waited[t] < TICK_MOD
                                   THEN waited[t] + 1 ELSE waited[t]]
  BY DEF ClockTick, SysTick, SysTickClock
<1>2. TaskInv' /\ NoNewWait
  BY <1>1, SysTickInv, SysTickNoNewWait DEF EventInv
<1>3. waited' \in [Task -> 0 .. TICK_MOD]
  <2>1. waited \in [Task -> 0 .. TICK_MOD] /\ TICK_MOD \in Nat
    BY EventTypes, TaskTableAssumption
  <2> QED
    BY <1>1, <2>1
<1>4. NoSatisfiedWaiter'
  BY <1>1, <1>2, <1>3
     DEF EventInv, TaskInv, NoSatisfiedWaiter, TypeOK, NoNewWait
<1>5. WaitsTimed'
  <2> SUFFICES ASSUME NEW t \in Task
               PROVE  TimedWait(tasks'[t], pc'[t], call'[t], ticks', waited'[t])
    BY DEF WaitsTimed
  <2>1. /\ tasks[t] \in TCB /\ ticks \in Tick /\ call[t].timeout \in Tick
        /\ waited[t] \in 0 .. TICK_MOD
    BY EventTypes DEF Call
  <2>2. TimedWait(tasks[t], pc[t], call[t], ticks, waited[t])
    BY DEF EventInv, WaitsTimed
  <2>3. tasks'[t] = tick_task(tasks[t], TickAdd(ticks, 1))
    BY <1>1 DEF SysTick, tick_tasks
  <2>4. CASE pc[t] = "app"
    BY <1>1, <2>4 DEF TimedWait
  <2>5. CASE pc[t] # "app"
    <3>1. waited'[t] = IF waited[t] < TICK_MOD THEN waited[t] + 1
                       ELSE waited[t]
      BY <1>1, <2>5
    <3> QED
      BY <1>1, <2>1, <2>2, <2>3, <3>1, TimedTick
  <2> QED
    BY <2>4, <2>5
<1>6. WaitsMet'
  <2> SUFFICES ASSUME NEW t \in Task
               PROVE  EventWait(tasks'[t], pc[t], call[t], want[t], bits,
                                stolen[t])
    BY <1>1 DEF WaitsMet
  <2>1. EventWait(tasks[t], pc[t], call[t], want[t], bits, stolen[t])
    BY DEF EventInv, WaitsMet
  <2> QED
    BY <1>2, <2>1 DEF EventWait, NoNewWait
<1> QED
  BY <1>2, <1>4, <1>5, <1>6 DEF EventInv

(* The bits that Answer clears are added to what a task that was woken     *)
(* lost, if it waits for the same group.                                   *)
LEMMA AnswerKeeps ==
    ASSUME EventInv, NEW t \in Task, NEW g \in Object,
           NEW r \in Request \cup {NoRequest}, Answer(t, g, r),
           UNCHANGED want
    PROVE  /\ bits' \in [Object -> SUBSET EventBit]
           /\ result' \in SUBSET EventBit
           /\ stolen' \in [Task -> SUBSET EventBit]
           /\ waited' = [waited EXCEPT ![t] = 0]
           /\ \A h \in Object : bits'[h] \subseteq bits[h]
           /\ \A u \in Task \ {t} : \A h \in Object :
                 (pc[u] # "app" /\ tasks[u].state # "BLOCKED"
                      /\ call[u].object = h) =>
                     bits[h] \cup stolen[u] \subseteq bits'[h] \cup stolen'[u]
<1>1. /\ result' = bits[g] \cap r.bits
      /\ bits' = [bits EXCEPT ![g] =
             IF r.clear /\ event_condition(bits[g], r)
             THEN bits[g] \ r.bits ELSE bits[g]]
      /\ waited' = [waited EXCEPT ![t] = 0]
  BY DEF Answer
<1>2. stolen' = [u \in Task |->
            IF u = t THEN {}
            ELSE IF OnItsWay(u, g) THEN stolen[u] \cup (bits[g] \ bits'[g])
            ELSE stolen[u]]
  BY DEF Answer, Steal
<1>3. bits' \in [Object -> SUBSET EventBit] /\ result' \in SUBSET EventBit
  BY <1>1, EventTypes
<1>4. \A h \in Object : /\ bits'[h] \subseteq bits[h]
                        /\ h # g => bits'[h] = bits[h]
  BY <1>1, EventTypes
<1>5. ASSUME NEW u \in Task
      PROVE  /\ stolen'[u] \in SUBSET EventBit
             /\ u # t => stolen[u] \subseteq stolen'[u]
             /\ u # t /\ pc[u] # "app" /\ tasks[u].state # "BLOCKED"
                    /\ call[u].object = g =>
                   stolen'[u] = stolen[u] \cup (bits[g] \ bits'[g])
  <2>1. /\ stolen[u] \cup (bits[g] \ bits'[g]) \in SUBSET EventBit
        /\ stolen[u] \in SUBSET EventBit
    BY EventTypes
  <2> QED
    BY <1>2, <2>1 DEF OnItsWay
<1>6. stolen' \in [Task -> SUBSET EventBit]
  BY <1>2, <1>5
<1> QED
  BY <1>1, <1>3, <1>4, <1>5, <1>6

(* Fewer bits do not satisfy a waiter.                                     *)
LEMMA FewerBits ==
    ASSUME EventInv, UNCHANGED <<tasks, want>>,
           \A h \in Object : bits'[h] \subseteq bits[h]
    PROVE  \A u \in Task :
              (tasks'[u].state = "BLOCKED"
                   /\ tasks'[u].wait_kind = "EVENT_GROUP") =>
                  ~event_condition(bits'[tasks'[u].wait_object], want'[u])
<1> SUFFICES ASSUME NEW u \in Task, tasks[u].state = "BLOCKED",
                    tasks[u].wait_kind = "EVENT_GROUP"
             PROVE  ~event_condition(bits'[tasks[u].wait_object], want[u])
  OBVIOUS
<1>1. tasks[u].wait_object \in Object
  BY DEF EventInv, WaitsMet, EventWait
<1>2. ~event_condition(bits[tasks[u].wait_object], want[u])
  BY DEF EventInv, NoSatisfiedWaiter
<1> QED
  BY <1>1, <1>2, MoreBits

LEMMA WaitNowInv ==
    ASSUME EventInv, NEW t \in ApplicationTask, NEW g \in Object,
           NEW r \in Request, WaitNow(t, g, r)
    PROVE  EventInv'
<1>1. /\ pc[t] = "app" /\ Answer(t, g, r)
      /\ UNCHANGED <<tasks, current, ticks, pendsv, pc, call, want>>
  BY DEF WaitNow, InApp, taskVars
<1>2. t \in Task
  BY TaskIndices
<1>3. TaskInv'
  BY <1>1, SameTableInv DEF EventInv
<1>4. /\ bits' \in [Object -> SUBSET EventBit] /\ result' \in SUBSET EventBit
      /\ stolen' \in [Task -> SUBSET EventBit]
      /\ waited' = [waited EXCEPT ![t] = 0]
      /\ \A h \in Object : bits'[h] \subseteq bits[h]
      /\ \A u \in Task \ {t} : \A h \in Object :
            (pc[u] # "app" /\ tasks[u].state # "BLOCKED"
                 /\ call[u].object = h) =>
                bits[h] \cup stolen[u] \subseteq bits'[h] \cup stolen'[u]
  BY <1>1, <1>2, AnswerKeeps
<1>5. waited' \in [Task -> 0 .. TICK_MOD]
  BY <1>2, <1>4, EventTypes
<1>6. NoSatisfiedWaiter'
  <2>1. TypeOK'
    BY <1>1, <1>3, <1>4, <1>5
       DEF EventInv, TaskInv, NoSatisfiedWaiter, TypeOK
  <2> QED
    BY <1>1, <1>4, <2>1, FewerBits DEF NoSatisfiedWaiter
<1>7. WaitsTimed'
  <2> SUFFICES ASSUME NEW u \in Task
               PROVE  TimedWait(tasks[u], pc[u], call[u], ticks, waited'[u])
    BY <1>1 DEF WaitsTimed
  <2>1. CASE u = t
    BY <1>1, <2>1 DEF TimedWait
  <2>2. CASE u # t
    <3>1. waited'[u] = waited[u]
      BY <1>2, <1>4, <2>2, EventTypes
    <3> QED
      BY <3>1 DEF EventInv, WaitsTimed
  <2> QED
    BY <2>1, <2>2
<1>8. WaitsMet'
  <2> SUFFICES ASSUME NEW u \in Task
               PROVE  EventWait(tasks[u], pc[u], call[u], want[u], bits',
                                stolen'[u])
    BY <1>1 DEF WaitsMet
  <2>1. EventWait(tasks[u], pc[u], call[u], want[u], bits, stolen[u])
    BY DEF EventInv, WaitsMet
  <2>2. CASE u = t
    BY <1>1, <2>1, <2>2 DEF EventWait
  <2>3. CASE u # t
    BY <1>4, <2>1, <2>3, MoreBits DEF EventWait
  <2> QED
    BY <2>2, <2>3
<1> QED
  BY <1>3, <1>6, <1>7, <1>8 DEF EventInv

LEMMA WaitPollInv ==
    ASSUME EventInv, NEW t, NEW g, NEW r, WaitPoll(t, g, r)
    PROVE  EventInv'
<1>1. /\ result' = {}
      /\ UNCHANGED <<tasks, current, ticks, pendsv, pc, call, bits, want,
                     stolen, waited>>
  BY DEF WaitPoll, taskVars
<1>2. TaskInv'
  BY <1>1, SameTableInv DEF EventInv
<1>3. NoSatisfiedWaiter'
  BY <1>1, <1>2 DEF EventInv, TaskInv, NoSatisfiedWaiter, TypeOK
<1> QED
  BY <1>1, <1>2, <1>3 DEF EventInv, WaitsTimed, WaitsMet
LEMMA WaitBlockInv ==
    ASSUME EventInv, NEW t \in ApplicationTask, NEW g \in Object,
           NEW r \in Request, NEW timeout \in Timeout,
           WaitBlock(t, g, r, timeout)
    PROVE  EventInv'
<1> DEFINE entry == task_wait_begin(tasks[t], g, "EVENT_GROUP", ticks, timeout)
           c == [NoCall EXCEPT !.op = "wait_bits", !.object = g,
                               !.timeout = timeout]
<1>1. /\ Thread(t) /\ ~event_condition(bits[g], r) /\ timeout # 0
      /\ BlockNow(t, "wait_bits", g, "EVENT_GROUP", timeout)
      /\ want' = [want EXCEPT ![t] = r]
      /\ waited' = [waited EXCEPT ![t] = 0]
      /\ UNCHANGED <<bits, result, stolen>>
  BY DEF WaitBlock, InApp
<1>2. t \in Task /\ timeout \in Tick
  BY TaskIndices, TaskAssumption
<1>3. TaskInv'
  <2>1. "wait_bits" \in Operation /\ "EVENT_GROUP" \in WaitKind
    BY DEF Operation, WaitKind
  <2> QED
    BY <1>1, <1>2, <2>1, BlockNowInv DEF EventInv
<1>4. /\ tasks' = [tasks EXCEPT ![t] = entry]
      /\ pc' = [pc EXCEPT ![t] = "yield"]
      /\ call' = [call EXCEPT ![t] = c]
      /\ UNCHANGED ticks
  BY <1>1 DEF BlockNow
<1>5. c.timeout = timeout /\ c.object = g
  BY DEF NoCall
<1>6. TimedWait(entry, "yield", c, ticks, 0)
  BY <1>2, <1>5, EventTypes, TimedBlock
<1>7. entry.state = "BLOCKED" /\ entry.wait_object = g
  <2>1. tasks[t] \in TCB
    BY <1>2, EventTypes
  <2> QED
    BY <2>1 DEF task_wait_begin, task_wait_begin_until, TCB
<1> HIDE DEF entry, c
<1>8. /\ tasks'[t] = entry /\ pc'[t] = "yield" /\ call'[t] = c
      /\ waited'[t] = 0 /\ want'[t] = r
      /\ \A u \in Task \ {t} : /\ tasks'[u] = tasks[u] /\ pc'[u] = pc[u]
                               /\ call'[u] = call[u] /\ waited'[u] = waited[u]
                               /\ want'[u] = want[u]
  BY <1>1, <1>2, <1>4, EventTypes
<1>9. NoSatisfiedWaiter'
  <2>1. /\ waited' \in [Task -> 0 .. TICK_MOD]
        /\ want' \in [Task -> Request \cup {NoRequest}]
    BY <1>1, <1>2, EventTypes
  <2>2. ASSUME NEW u \in Task, tasks'[u].state = "BLOCKED",
               tasks'[u].wait_kind = "EVENT_GROUP"
        PROVE  ~event_condition(bits[tasks'[u].wait_object], want'[u])
    <3>1. CASE u = t
      BY <1>1, <1>7, <1>8, <3>1
    <3>2. CASE u # t
      BY <1>8, <2>2, <3>2 DEF EventInv, NoSatisfiedWaiter
    <3> QED
      BY <3>1, <3>2
  <2> QED
    BY <1>1, <1>3, <2>1, <2>2 DEF EventInv, TaskInv, NoSatisfiedWaiter, TypeOK
<1>10. WaitsTimed'
  <2> SUFFICES ASSUME NEW u \in Task
               PROVE  TimedWait(tasks'[u], pc'[u], call'[u], ticks, waited'[u])
    BY <1>4 DEF WaitsTimed
  <2>1. CASE u = t
    BY <1>6, <1>8, <2>1
  <2>2. CASE u # t
    BY <1>8, <2>2 DEF EventInv, WaitsTimed
  <2> QED
    BY <2>1, <2>2
<1>11. WaitsMet'
  <2> SUFFICES ASSUME NEW u \in Task
               PROVE  EventWait(tasks'[u], pc'[u], call'[u], want'[u], bits,
                                stolen[u])
    BY <1>1 DEF WaitsMet
  <2>1. CASE u = t
    BY <1>5, <1>7, <1>8, <2>1 DEF EventWait
  <2>2. CASE u # t
    BY <1>8, <2>2 DEF EventInv, WaitsMet
  <2> QED
    BY <2>1, <2>2
<1> QED
  BY <1>3, <1>9, <1>10, <1>11 DEF EventInv

LEMMA WaitWokenInv ==
    ASSUME EventInv, NEW t \in ApplicationTask, WaitWoken(t)
    PROVE  EventInv'
<1>1. /\ Thread(t) /\ pc[t] = "woken" /\ Answer(t, call[t].object, want[t])
      /\ Return(t) /\ UNCHANGED <<tasks, ticks, want>>
      /\ pc' = [pc EXCEPT ![t] = "app"]
      /\ call' = [call EXCEPT ![t] = NoCall]
  BY DEF WaitWoken, Woken, Return
<1>2. t \in Task
  BY TaskIndices
<1>3. TaskInv'
  BY <1>1, <1>2, ReturnInv DEF EventInv
<1>4. call[t].object \in Object /\ want[t] \in Request \cup {NoRequest}
  BY <1>1, <1>2, EventTypes DEF EventInv, WaitsMet, EventWait
<1>5. /\ bits' \in [Object -> SUBSET EventBit] /\ result' \in SUBSET EventBit
      /\ stolen' \in [Task -> SUBSET EventBit]
      /\ waited' = [waited EXCEPT ![t] = 0]
      /\ \A h \in Object : bits'[h] \subseteq bits[h]
      /\ \A u \in Task \ {t} : \A h \in Object :
            (pc[u] # "app" /\ tasks[u].state # "BLOCKED"
                 /\ call[u].object = h) =>
                bits[h] \cup stolen[u] \subseteq bits'[h] \cup stolen'[u]
  BY <1>1, <1>2, <1>4, AnswerKeeps
<1>6. /\ waited' \in [Task -> 0 .. TICK_MOD] /\ pc'[t] = "app"
      /\ \A u \in Task \ {t} : /\ pc'[u] = pc[u] /\ call'[u] = call[u]
                               /\ waited'[u] = waited[u]
  BY <1>1, <1>2, <1>5, EventTypes
<1>7. NoSatisfiedWaiter'
  <2>1. TypeOK'
    BY <1>1, <1>3, <1>5, <1>6
       DEF EventInv, TaskInv, NoSatisfiedWaiter, TypeOK
  <2> QED
    BY <1>1, <1>5, <2>1, FewerBits DEF NoSatisfiedWaiter
<1>8. WaitsTimed'
  <2> SUFFICES ASSUME NEW u \in Task
               PROVE  TimedWait(tasks[u], pc'[u], call'[u], ticks, waited'[u])
    BY <1>1 DEF WaitsTimed
  <2>1. CASE u = t
    BY <1>6, <2>1 DEF TimedWait
  <2>2. CASE u # t
    BY <1>6, <2>2 DEF EventInv, WaitsTimed
  <2> QED
    BY <2>1, <2>2
<1>9. WaitsMet'
  <2> SUFFICES ASSUME NEW u \in Task
               PROVE  EventWait(tasks[u], pc'[u], call'[u], want[u], bits',
                                stolen'[u])
    BY <1>1 DEF WaitsMet
  <2>1. CASE u = t
    <3>1. tasks[t].state = "RUNNING"
      BY <1>1, <1>2, ThreadRuns DEF EventInv
    <3> QED
      BY <1>6, <2>1, <3>1 DEF EventWait
  <2>2. CASE u # t
    <3>1. EventWait(tasks[u], pc[u], call[u], want[u], bits, stolen[u])
      BY DEF EventInv, WaitsMet
    <3> QED
      BY <1>5, <1>6, <2>2, <3>1, MoreBits DEF EventWait
  <2> QED
    BY <2>1, <2>2
<1> QED
  BY <1>3, <1>7, <1>8, <1>9 DEF EventInv

LEMMA EventYieldInv ==
    ASSUME EventInv, NEW t \in ApplicationTask, ArchYield(t),
           UNCHANGED eventVars
    PROVE  EventInv'
<1>1. /\ pc[t] = "yield" /\ pc' = [pc EXCEPT ![t] = "woken"]
      /\ UNCHANGED <<tasks, ticks, call, bits, want, result, stolen, waited>>
  BY DEF ArchYield, eventVars
<1>2. t \in Task
  BY TaskIndices
<1>3. TaskInv'
  BY <1>2, ArchYieldInv DEF EventInv
<1>4. NoSatisfiedWaiter'
  BY <1>1, <1>3 DEF EventInv, TaskInv, NoSatisfiedWaiter, TypeOK
<1>5. \A u \in Task : pc'[u] \in {"yield", "woken"} <=>
                         pc[u] \in {"yield", "woken"}
  BY <1>1, <1>2, EventTypes
<1>6. WaitsTimed'
  BY <1>1, <1>5 DEF EventInv, WaitsTimed, TimedWait
<1>7. WaitsMet'
  BY <1>1, <1>5 DEF EventInv, WaitsMet, EventWait
<1> QED
  BY <1>3, <1>4, <1>6, <1>7 DEF EventInv

(* Setting bits ends the wait of every task they satisfy, in the same      *)
(* critical section.                                                       *)
LEMMA SetInv ==
    ASSUME EventInv, NEW g \in Object, NEW mask \in SetMask, Set(g, mask)
    PROVE  EventInv'
<1> DEFINE W == Satisfied(g, bits'[g])
<1>1. /\ bits' = [bits EXCEPT ![g] = bits[g] \cup mask]
      /\ tasks' = [t \in Task |-> IF t \in W THEN task_wait_end(tasks[t], 1)
                                  ELSE tasks[t]]
      /\ pendsv' = 1
      /\ UNCHANGED <<current, ticks, pc, call, want, result, stolen, waited>>
  BY DEF Set
<1>2. /\ W \in SUBSET Task
      /\ \A t \in Task : t \in W <=>
            /\ tasks[t].state = "BLOCKED"
            /\ tasks[t].wait_kind = "EVENT_GROUP"
            /\ tasks[t].wait_object = g
            /\ event_condition(bits'[g], want[t])
  BY DEF Satisfied
<1> HIDE DEF W
<1>3. TaskInv'
  BY <1>1, <1>2, WakeSetInv DEF EventInv
<1>4. /\ bits' \in [Object -> SUBSET EventBit]
      /\ \A h \in Object : /\ bits[h] \subseteq bits'[h]
                           /\ h # g => bits'[h] = bits[h]
  BY <1>1, EventTypes, EventGroupAssumption
<1>5. ASSUME NEW t \in W
      PROVE  tasks'[t].state = "READY" /\ tasks'[t].wait_result = 1
  <2>1. tasks[t] \in TCB /\ tasks'[t] = task_wait_end(tasks[t], 1)
    BY <1>1, <1>2, EventTypes
  <2> QED
    BY <2>1 DEF task_wait_end, TCB
<1>6. \A t \in Task \ W : tasks'[t] = tasks[t]
  BY <1>1
<1>7. NoSatisfiedWaiter'
  <2>1. TypeOK'
    BY <1>1, <1>3, <1>4 DEF EventInv, TaskInv, NoSatisfiedWaiter, TypeOK
  <2>2. ASSUME NEW t \in Task, tasks'[t].state = "BLOCKED",
               tasks'[t].wait_kind = "EVENT_GROUP"
        PROVE  ~event_condition(bits'[tasks'[t].wait_object], want[t])
    <3>1. t \notin W /\ tasks'[t] = tasks[t]
      BY <1>5, <1>6, <2>2
    <3>2. /\ tasks[t].wait_object \in Object
          /\ ~event_condition(bits[tasks[t].wait_object], want[t])
      BY <2>2, <3>1
         DEF EventInv, NoSatisfiedWaiter, WaitsMet, EventWait
    <3> QED
      BY <1>2, <1>4, <2>2, <3>1, <3>2
  <2> QED
    BY <1>1, <2>1, <2>2 DEF NoSatisfiedWaiter
<1>8. WaitsTimed'
  <2> SUFFICES ASSUME NEW t \in Task
               PROVE  TimedWait(tasks'[t], pc[t], call[t], ticks, waited[t])
    BY <1>1 DEF WaitsTimed
  <2>1. TimedWait(tasks[t], pc[t], call[t], ticks, waited[t])
    BY DEF EventInv, WaitsTimed
  <2> QED
    BY <1>2, <1>5, <1>6, <2>1, TimedStep
<1>9. WaitsMet'
  <2> SUFFICES ASSUME NEW t \in Task
               PROVE  EventWait(tasks'[t], pc[t], call[t], want[t], bits',
                                stolen[t])
    BY <1>1 DEF WaitsMet
  <2>1. EventWait(tasks[t], pc[t], call[t], want[t], bits, stolen[t])
    BY DEF EventInv, WaitsMet
  <2>2. CASE t \in W
    <3>1. event_condition(bits'[g] \cup stolen[t], want[t])
      BY <1>2, <2>2, MoreBits
    <3> QED
      BY <1>2, <1>5, <2>1, <2>2, <3>1 DEF EventWait
  <2>3. CASE t \notin W
    <3>1. \A h \in Object :
             bits[h] \cup stolen[t] \subseteq bits'[h] \cup stolen[t]
      BY <1>4
    <3> QED
      BY <1>6, <2>1, <2>3, <3>1, MoreBits DEF EventWait
  <2> QED
    BY <2>2, <2>3
<1> QED
  BY <1>3, <1>7, <1>8, <1>9 DEF EventInv

LEMMA EventNext == EventInv /\ [Next]_vars => EventInv'
<1> SUFFICES ASSUME EventInv, [Next]_vars
             PROVE  EventInv'
  OBVIOUS
<1>1. CASE UNCHANGED vars
  <2>1. TaskInv'
    BY <1>1, SameTableInv DEF EventInv, vars
  <2>2. NoSatisfiedWaiter' /\ WaitsTimed' /\ WaitsMet'
    BY <1>1, <2>1
       DEF vars, EventInv, TaskInv, NoSatisfiedWaiter, TypeOK, WaitsTimed,
           WaitsMet
  <2> QED
    BY <2>1, <2>2 DEF EventInv
<1>2. CASE PendSV /\ UNCHANGED eventVars
  <2>1. UNCHANGED <<ticks, pc, call, bits, want, result, stolen, waited>>
    BY <1>2 DEF PendSV, eventVars
  <2> QED
    BY <1>2, <2>1, PendSVInv, PendSVNoNewWait, PendSVKeepsWaits,
       EventKernelStep DEF EventInv
<1>3. CASE ClockTick
  BY <1>3, EventTickInv
<1>4. CASE Services /\ UNCHANGED eventVars
  <2>1. UNCHANGED <<ticks, pc, call, bits, want, result, stolen, waited>>
    BY <1>4 DEF Services, TaskYield, TaskDelay, TaskSuspend, TaskResume, Svc,
                eventVars
  <2> QED
    BY <1>4, <2>1, ServicesInv, ServicesNoNewWait, ServicesKeepWaits,
       EventKernelStep DEF EventInv
<1>5. ASSUME NEW t \in ApplicationTask, NEW g \in Object, NEW r \in Request,
             \/ WaitNow(t, g, r)
             \/ 0 \in Timeout /\ WaitPoll(t, g, r)
             \/ \E timeout \in Timeout : WaitBlock(t, g, r, timeout)
      PROVE  EventInv'
  BY <1>5, WaitNowInv, WaitPollInv, WaitBlockInv
<1>6. ASSUME NEW t \in ApplicationTask, Continue(t)
      PROVE  EventInv'
  BY <1>6, EventYieldInv, WaitWokenInv DEF Continue
<1>7. ASSUME NEW g \in Object, NEW mask \in SetMask, Set(g, mask)
      PROVE  EventInv'
  BY <1>7, SetInv
<1> QED
  BY <1>1, <1>2, <1>3, <1>4, <1>5, <1>6, <1>7
     DEF Next, EventGroupSetBits, EventGroupSetBitsFromISR

LEMMA EventInvariant == Safety => []EventInv
BY EventInit, EventNext, PTL DEF Safety

-----------------------------------------------------------------------------
(***************************************************************************)
(* event_group_set_bits_common and JRT_EventGroupWaitBits together never   *)
(* leave a task BLOCKED on a group whose bits satisfy its request, however *)
(* many waiters one set satisfies and whatever sets bits from a handler.   *)
(***************************************************************************)
THEOREM NoWaiterIsSatisfied == Safety => []NoSatisfiedWaiter
<1>1. EventInv => NoSatisfiedWaiter
  BY DEF EventInv
<1> QED
  BY <1>1, EventInvariant, PTL

(* A bit that a step clears is in what the wait reports.                   *)
LEMMA AnswerReports ==
    ASSUME EventInv, NEW t, NEW g \in Object, NEW r, Answer(t, g, r)
    PROVE  \A h \in Object : bits[h] \ bits'[h] \subseteq result'
<1>1. /\ result' = bits[g] \cap r.bits
      /\ bits' = [bits EXCEPT ![g] =
             IF r.clear /\ event_condition(bits[g], r)
             THEN bits[g] \ r.bits ELSE bits[g]]
  BY DEF Answer
<1> QED
  BY <1>1, EventTypes

(***************************************************************************)
(* Bits are cleared only by a JRT_EventGroupWaitBits that returns them, so *)
(* that no event vanishes unreported.                                      *)
(***************************************************************************)
THEOREM ClearedBitsAreReported == Safety => ClearedIsReported
<1> DEFINE Reported == \A g \in Object : bits[g] \ bits'[g] \subseteq result'
<1>1. ASSUME EventInv, [Next]_vars
      PROVE  [Reported]_vars
  <2>1. ASSUME NEW t \in ApplicationTask, NEW g \in Object, NEW r \in Request,
               WaitNow(t, g, r)
        PROVE  Reported
    BY <1>1, <2>1, AnswerReports DEF WaitNow
  <2>2. ASSUME NEW t \in ApplicationTask, WaitWoken(t)
        PROVE  Reported
    <3>1. call[t].object \in Object /\ Answer(t, call[t].object, want[t])
      BY <1>1, <2>2, TaskIndices
         DEF WaitWoken, Woken, EventInv, WaitsMet, EventWait
    <3> QED
      BY <1>1, <3>1, AnswerReports
  <2>3. ASSUME NEW g \in Object, NEW mask \in SetMask, Set(g, mask)
        PROVE  Reported
    BY <1>1, <2>3, EventTypes DEF Set
  <2>4. ASSUME UNCHANGED bits
        PROVE  Reported
    BY <2>4
  <2> HIDE DEF Reported
  <2>5. CASE \/ PendSV /\ UNCHANGED eventVars
             \/ ClockTick
             \/ Services /\ UNCHANGED eventVars
    BY <2>4, <2>5 DEF ClockTick, eventVars
  <2>6. ASSUME NEW t \in ApplicationTask, NEW g \in Object, NEW r \in Request,
               \/ WaitPoll(t, g, r)
               \/ \E timeout \in Timeout : WaitBlock(t, g, r, timeout)
        PROVE  Reported
    BY <2>4, <2>6 DEF WaitPoll, WaitBlock
  <2>7. ASSUME NEW t \in ApplicationTask, ArchYield(t), UNCHANGED eventVars
        PROVE  Reported
    BY <2>4, <2>7 DEF eventVars
  <2> QED
    BY <1>1, <2>1, <2>2, <2>3, <2>5, <2>6, <2>7
       DEF Next, Continue, EventGroupSetBits, EventGroupSetBitsFromISR
<1>2. Safety => [][Reported]_vars
  BY <1>1, EventInvariant, PTL DEF Safety
<1> QED
  BY <1>2 DEF ClearedIsReported

(* JRT_EventGroupWaitBits returns from a wait in one place only.           *)
LEMMA ReturnsAreWoken ==
    ASSUME EventInv, Next, NEW u \in Task, Returns(u)
    PROVE  WaitWoken(u)
<1>1. pc \in [Task -> {"app", "attempt", "yield", "woken", "callback"}]
  BY EventTypes
<1>2. ~UNCHANGED pc
  BY DEF Returns
<1>3. ~(PendSV \/ ClockTick \/ Services)
  BY <1>2 DEF PendSV, ClockTick, SysTick, SysTickClock, Services, TaskYield,
              TaskDelay, TaskSuspend, TaskResume, Svc
<1>4. ASSUME NEW g, NEW mask, Set(g, mask)
      PROVE  FALSE
  BY <1>2, <1>4 DEF Set
<1>5. ASSUME NEW t, NEW g, NEW r, WaitNow(t, g, r) \/ WaitPoll(t, g, r)
      PROVE  FALSE
  BY <1>2, <1>5 DEF WaitNow, WaitPoll, taskVars
<1>6. ASSUME NEW t \in ApplicationTask, NEW g, NEW r, NEW timeout,
             WaitBlock(t, g, r, timeout)
      PROVE  FALSE
  BY <1>1, <1>6 DEF WaitBlock, BlockNow, Returns
<1>7. ASSUME NEW t \in ApplicationTask, ArchYield(t)
      PROVE  FALSE
  BY <1>1, <1>7 DEF ArchYield, Returns
<1>8. ASSUME NEW t \in ApplicationTask, WaitWoken(t)
      PROVE  t = u
  BY <1>1, <1>8 DEF WaitWoken, Return, Returns
<1> QED
  BY <1>3, <1>4, <1>5, <1>6, <1>7, <1>8
     DEF Next, Continue, EventGroupSetBits, EventGroupSetBitsFromISR

UnmetExplained(t) ==
    (Returns(t) /\ ~event_condition(result', want[t])) =>
        \/ /\ tasks[t].wait_result = 1
           /\ stolen[t] \cap want[t].bits # {}
        \/ /\ call[t].timeout # JRT_WAIT_FOREVER
           /\ waited[t] >= call[t].timeout

(***************************************************************************)
(* JRT_EventGroupWaitBits comes back with its condition unmet only if its  *)
(* finite timeout has gone by in real ticks, across wraparound of the tick *)
(* counter, or if it was woken and another waiter cleared a bit of its     *)
(* group that it waits for before it ran.                                  *)
(***************************************************************************)
THEOREM UnmetWaitsAreExplained == Safety => UnmetWaitExplained
<1>1. ASSUME EventInv, [Next]_vars
      PROVE  [\A t \in Task : UnmetExplained(t)]_vars
  <2> SUFFICES ASSUME Next, NEW u \in Task, Returns(u),
                      ~event_condition(result', want[u]),
                      tasks[u].wait_result = 1
               PROVE  stolen[u] \cap want[u].bits # {}
    <3>1. ASSUME Next, NEW u \in Task, Returns(u)
          PROVE  \/ tasks[u].wait_result = 1
                 \/ /\ call[u].timeout # JRT_WAIT_FOREVER
                    /\ waited[u] >= call[u].timeout
      <4>1. Thread(u) /\ pc[u] = "woken"
        BY <1>1, <3>1, ReturnsAreWoken DEF WaitWoken, Woken
      <4>2. TimedWait(tasks[u], pc[u], call[u], ticks, waited[u])
        BY <1>1 DEF EventInv, WaitsTimed
      <4> QED
        BY <1>1, <4>1, <4>2, TimedReturn DEF EventInv
    <3> QED
      BY <1>1, <3>1 DEF UnmetExplained
  <2>1. /\ Thread(u) /\ pc[u] = "woken"
        /\ result' = bits[call[u].object] \cap want[u].bits
    BY <1>1, ReturnsAreWoken DEF WaitWoken, Woken, Answer
  <2>2. tasks[u].state = "RUNNING"
    BY <1>1, <2>1, ThreadRuns DEF EventInv
  <2>3. event_condition(bits[call[u].object] \cup stolen[u], want[u])
    BY <1>1, <2>1, <2>2 DEF EventInv, WaitsMet, EventWait
  <2> QED
    BY <2>1, <2>3 DEF event_condition
<1>2. Safety => [][\A t \in Task : UnmetExplained(t)]_vars
  BY <1>1, EventInvariant, PTL DEF Safety
<1> QED
  BY <1>2 DEF UnmetWaitExplained, UnmetExplained
=============================================================================
