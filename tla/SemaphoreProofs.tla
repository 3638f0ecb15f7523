-------------------------- MODULE SemaphoreProofs ---------------------------
(***************************************************************************)
(* Semaphores keep their tokens and lose no wake-up, for every number of   *)
(* tasks and semaphores, every priority assignment, every timeout and      *)
(* every width of the tick counter.                                        *)
(***************************************************************************)
EXTENDS Semaphore, TaskProofs, FiniteSetTheorems

-----------------------------------------------------------------------------
(* Counting.                                                               *)

LEMMA GrantedFinite ==
    ASSUME NEW s
    PROVE  IsFiniteSet(Granted(s)) /\ Cardinality(Granted(s)) \in Nat
<1>1. IsFiniteSet(Task)
  BY FS_Interval, TaskTableAssumption DEF Task, task_count
<1>2. Granted(s) \subseteq Task
  BY DEF Granted
<1>3. IsFiniteSet(Granted(s))
  BY <1>1, <1>2, FS_Subset
<1> QED
  BY <1>3, FS_CardinalityType

(* A step that changes neither tokens nor who was handed one.              *)
LEMMA SameTokens ==
    ASSUME TokenConservation, UNCHANGED <<available, owed>>,
           \A s \in Object : Granted(s)' = Granted(s)
    PROVE  TokenConservation'
BY DEF TokenConservation

-----------------------------------------------------------------------------
(* The invariant is inductive.                                             *)

LEMMA SemaphoreInit == Init => SemaphoreInv
<1> SUFFICES ASSUME Init
             PROVE  SemaphoreInv
  OBVIOUS
<1>1. TaskInv
  BY InitInv DEF Init
<1>2. TypeOK
  BY <1>1, TaskTableAssumption DEF Init, TypeOK, TaskInv, Bit
<1>3. \A t \in Task : pc[t] = "app"
  BY DEF Init, TaskInit
<1>4. \A t \in Task : tasks[t].wait_kind \in {"NONE", "TIMER_SERVICE"}
  BY DEF Init, TaskInit, JRT_KernelInit, prepare_task,
         prepare_timer_service_task, task_wait_begin, task_wait_begin_until
<1>5. CallsMatchWaits /\ NoLostWakeup
  BY <1>3, <1>4 DEF CallsMatchWaits, NoLostWakeup
<1>6. TokenConservation
  <2> SUFFICES ASSUME NEW s \in Object
               PROVE  owed[s] = available[s] + Cardinality(Granted(s))
    BY DEF TokenConservation
  <2>1. Granted(s) = {}
    BY <1>3 DEF Granted
  <2>2. Cardinality(Granted(s)) = 0
    BY <2>1, FS_EmptySet
  <2> QED
    BY <2>2 DEF Init, Bit
<1> QED
  BY <1>1, <1>2, <1>5, <1>6 DEF SemaphoreInv

LEMMA KernelStep ==
    ASSUME SemaphoreInv, TaskInv', NoNewWait,
           UNCHANGED <<pc, call, available, owed>>,
           waited' \in [Task -> 0 .. TICK_MOD]
    PROVE  SemaphoreInv'
<1>1. TypeOK'
  BY DEF SemaphoreInv, TypeOK, TaskInv
<1>2. CallsMatchWaits' /\ NoLostWakeup'
  BY DEF SemaphoreInv, CallsMatchWaits, NoLostWakeup, NoNewWait
<1>3. TokenConservation'
  <2>1. \A s \in Object : Granted(s)' = Granted(s)
    BY DEF Granted, NoNewWait
  <2> QED
    BY <2>1, SameTokens DEF SemaphoreInv
<1> QED
  BY <1>1, <1>2, <1>3 DEF SemaphoreInv

LEMMA TakeEnterInv ==
    ASSUME SemaphoreInv, NEW t \in ApplicationTask, NEW s \in Object,
           NEW timeout \in Timeout, TakeEnter(t, s, timeout)
    PROVE  SemaphoreInv'
<1>1. Enter(t, "take", s, timeout) /\ UNCHANGED semVars
  BY DEF TakeEnter
<1>2. TaskInv'
  BY <1>1, EnterInv, TaskIndices DEF SemaphoreInv, Operation
<1>3. /\ pc[t] = "app" /\ t \in Task
      /\ pc' = [pc EXCEPT ![t] = "attempt"]
      /\ call'[t].op = "take" /\ call'[t].object = s
      /\ \A u \in Task \ {t} : call'[u] = call[u]
      /\ UNCHANGED tasks
  BY <1>1, TaskIndices
     DEF Enter, InApp, SemaphoreInv, TypeOK, TaskTypeOK
<1>4. pc \in [Task -> {"app", "attempt", "yield", "woken", "callback"}]
  BY DEF SemaphoreInv, TypeOK, TaskTypeOK
<1>5. UNCHANGED <<available, owed, waited>>
  BY <1>1 DEF semVars
<1>6. TypeOK'
  BY <1>2, <1>5 DEF SemaphoreInv, TypeOK, TaskInv
<1>7. CallsMatchWaits' /\ NoLostWakeup'
  BY <1>3, <1>4, <1>5 DEF SemaphoreInv, CallsMatchWaits, NoLostWakeup
<1>8. TokenConservation'
  <2>1. \A x \in Object : Granted(x)' = Granted(x)
    BY <1>3, <1>4 DEF Granted
  <2> QED
    BY <1>5, <2>1, SameTokens DEF SemaphoreInv
<1> QED
  BY <1>2, <1>6, <1>7, <1>8 DEF SemaphoreInv

(* The end of a call, by a task that was not handed a token while it       *)
(* waited; the token it may take from available is accounted for.          *)
LEMMA ReturnStep ==
    ASSUME SemaphoreInv, NEW t \in ApplicationTask, Thread(t),
           pc[t] \in {"attempt", "woken"},
           Return(t), UNCHANGED tasks, ResetWaited(t),
           available' \in [Object -> Bit], owed' \in [Object -> Int],
           \A s \in Object : available'[s] <= available[s]
    PROVE  /\ TypeOK' /\ TaskInv' /\ CallsMatchWaits' /\ NoLostWakeup'
           /\ \A s \in Object : Granted(s)' = Granted(s) \ {t}
<1>1. t \in Task
  BY TaskIndices
<1>2. TaskInv'
  BY <1>1, ReturnInv DEF SemaphoreInv
<1>3. /\ pc' = [pc EXCEPT ![t] = "app"]
      /\ call' = [call EXCEPT ![t] = NoCall]
  BY DEF Return
<1>4. tasks[t].state = "RUNNING"
  BY <1>1, ThreadRuns DEF SemaphoreInv
<1>5. /\ pc \in [Task -> {"app", "attempt", "yield", "woken", "callback"}]
      /\ call \in [Task -> Call]
      /\ tasks \in [Task -> TCB]
      /\ available \in [Object -> Bit]
  BY DEF SemaphoreInv, TypeOK, TaskTypeOK
<1>6. TypeOK'
  <2>1. waited \in [Task -> 0 .. TICK_MOD] /\ 0 \in 0 .. TICK_MOD
    BY TaskTableAssumption DEF SemaphoreInv, TypeOK
  <2>2. waited' \in [Task -> 0 .. TICK_MOD]
    BY <2>1 DEF ResetWaited
  <2> QED
    BY <1>2, <2>2 DEF TypeOK, TaskInv
<1>7. CallsMatchWaits'
  <2> SUFFICES ASSUME NEW u \in Task
               PROVE  /\ pc'[u] # "app" =>
                            call'[u].op = "take" /\ call'[u].object \in Object
                      /\ tasks[u].state = "BLOCKED"
                            /\ tasks[u].wait_kind = "SEMAPHORE" =>
                            /\ pc'[u] \in {"yield", "woken"}
                            /\ tasks[u].wait_object = call'[u].object
    BY DEF CallsMatchWaits
  <2>1. CASE u = t
    BY <1>1, <1>3, <1>4, <1>5, <2>1
  <2>2. CASE u # t
    <3>1. pc'[u] = pc[u] /\ call'[u] = call[u]
      BY <1>3, <1>5, <2>2
    <3> QED
      BY <3>1 DEF SemaphoreInv, CallsMatchWaits
  <2> QED
    BY <2>1, <2>2
<1>8. NoLostWakeup'
  <2> SUFFICES ASSUME NEW u \in Task, tasks[u].state = "BLOCKED",
                      tasks[u].wait_kind = "SEMAPHORE"
               PROVE  available'[tasks[u].wait_object] = 0
    BY DEF NoLostWakeup
  <2>1. tasks[u].wait_object \in Object
    BY DEF SemaphoreInv, CallsMatchWaits
  <2>2. available[tasks[u].wait_object] = 0
    BY DEF SemaphoreInv, NoLostWakeup
  <2> QED
    BY <1>5, <2>1, <2>2 DEF Bit
<1>9. \A s \in Object : Granted(s)' = Granted(s) \ {t}
  BY <1>1, <1>3, <1>5 DEF Granted
<1> QED
  BY <1>2, <1>6, <1>7, <1>8, <1>9

LEMMA TakeAvailableInv ==
    ASSUME SemaphoreInv, NEW t \in ApplicationTask, TakeAvailable(t)
    PROVE  SemaphoreInv'
<1> DEFINE s == call[t].object
<1>1. t \in Task
  BY TaskIndices
<1>2. /\ Thread(t) /\ pc[t] = "attempt"
      /\ available[s] = 1
      /\ available' = [available EXCEPT ![s] = 0]
      /\ owed' = [owed EXCEPT ![s] = @ - 1]
      /\ Return(t) /\ ResetWaited(t) /\ UNCHANGED tasks
  BY DEF TakeAvailable, Attempt
<1>3. s \in Object
  BY <1>1, <1>2 DEF SemaphoreInv, CallsMatchWaits
<1>4. available \in [Object -> Bit] /\ owed \in [Object -> Int]
  BY DEF SemaphoreInv, TypeOK
<1>5. /\ available' \in [Object -> Bit] /\ owed' \in [Object -> Int]
      /\ \A x \in Object : available'[x] <= available[x]
  BY <1>2, <1>3, <1>4 DEF Bit
<1>6. /\ TypeOK' /\ TaskInv' /\ CallsMatchWaits' /\ NoLostWakeup'
      /\ \A x \in Object : Granted(x)' = Granted(x) \ {t}
  BY <1>2, <1>5, ReturnStep
<1>7. TokenConservation'
  <2> SUFFICES ASSUME NEW x \in Object
               PROVE  owed'[x] = available'[x] + Cardinality(Granted(x)')
    BY DEF TokenConservation
  <2>1. Granted(x)' = Granted(x)
    BY <1>2, <1>6 DEF Granted
  <2>2. owed[x] = available[x] + Cardinality(Granted(x))
    BY DEF SemaphoreInv, TokenConservation
  <2>3. Cardinality(Granted(x)) \in Nat
    BY GrantedFinite
  <2> QED
    BY <1>2, <1>3, <1>4, <2>1, <2>2, <2>3 DEF Bit
<1> QED
  BY <1>6, <1>7 DEF SemaphoreInv

LEMMA TakeGiveUpInv ==
    ASSUME SemaphoreInv, NEW t \in ApplicationTask, TakeGiveUp(t)
    PROVE  SemaphoreInv'
<1>1. /\ Thread(t) /\ pc[t] = "attempt"
      /\ Return(t) /\ ResetWaited(t) /\ UNCHANGED <<tasks, available, owed>>
  BY DEF TakeGiveUp, Attempt, GiveUp
<1>2. available \in [Object -> Bit] /\ owed \in [Object -> Int]
  BY DEF SemaphoreInv, TypeOK
<1>3. /\ TypeOK' /\ TaskInv' /\ CallsMatchWaits' /\ NoLostWakeup'
      /\ \A s \in Object : Granted(s)' = Granted(s) \ {t}
  <2>1. \A s \in Object : available'[s] <= available[s]
    BY <1>1, <1>2 DEF Bit
  <2> QED
    BY <1>1, <1>2, <2>1, ReturnStep
<1>4. \A s \in Object : Granted(s)' = Granted(s)
  BY <1>1, <1>3 DEF Granted
<1>5. TokenConservation'
  BY <1>1, <1>4, SameTokens DEF SemaphoreInv
<1> QED
  BY <1>3, <1>5 DEF SemaphoreInv

LEMMA TakeReturnInv ==
    ASSUME SemaphoreInv, NEW t \in ApplicationTask, TakeReturn(t)
    PROVE  SemaphoreInv'
<1> DEFINE s == call[t].object
<1>1. t \in Task /\ tasks[t] \in TCB
  BY TaskIndices DEF SemaphoreInv, TypeOK, TaskTypeOK
<1>2. /\ Thread(t) /\ pc[t] = "woken"
      /\ owed' = [owed EXCEPT ![s] = @ - tasks[t].wait_result]
      /\ Return(t) /\ ResetWaited(t) /\ UNCHANGED <<tasks, available>>
  BY DEF TakeReturn, Woken
<1>3. s \in Object
  BY <1>1, <1>2 DEF SemaphoreInv, CallsMatchWaits
<1>4. available \in [Object -> Bit] /\ owed \in [Object -> Int]
  BY DEF SemaphoreInv, TypeOK
<1>5. tasks[t].wait_result \in {0, 1}
  BY <1>1 DEF TCB
<1>6. /\ owed' \in [Object -> Int]
      /\ \A x \in Object : available'[x] <= available[x]
  BY <1>2, <1>3, <1>4, <1>5 DEF Bit
<1>7. /\ TypeOK' /\ TaskInv' /\ CallsMatchWaits' /\ NoLostWakeup'
      /\ \A x \in Object : Granted(x)' = Granted(x) \ {t}
  BY <1>2, <1>4, <1>6, ReturnStep
<1>8. tasks[t].state = "RUNNING"
  BY <1>1, <1>2, ThreadRuns DEF SemaphoreInv
<1>9. TokenConservation'
  <2> SUFFICES ASSUME NEW x \in Object
               PROVE  owed'[x] = available'[x] + Cardinality(Granted(x)')
    BY DEF TokenConservation
  <2>1. /\ owed[x] = available[x] + Cardinality(Granted(x))
        /\ IsFiniteSet(Granted(x)) /\ Cardinality(Granted(x)) \in Nat
    BY GrantedFinite DEF SemaphoreInv, TokenConservation
  <2>2. CASE x = s /\ tasks[t].wait_result = 1
    <3>1. t \in Granted(x)
      BY <1>1, <1>2, <1>8, <2>2 DEF Granted
    <3>2. Cardinality(Granted(x) \ {t}) = Cardinality(Granted(x)) - 1
      BY <2>1, <3>1, FS_RemoveElement
    <3>3. owed'[x] = owed[x] - 1
      BY <1>2, <1>3, <1>4, <2>2
    <3>4. Granted(x)' = Granted(x) \ {t} /\ available'[x] = available[x]
      BY <1>2, <1>7
    <3> QED
      BY <1>4, <2>1, <3>2, <3>3, <3>4 DEF Bit
  <2>3. CASE ~(x = s /\ tasks[t].wait_result = 1)
    <3>1. t \notin Granted(x)
      BY <2>3 DEF Granted
    <3>2. Granted(x)' = Granted(x)
      BY <1>7, <3>1
    <3>3. owed'[x] = owed[x]
      BY <1>2, <1>3, <1>4, <1>5, <2>3
    <3> QED
      BY <1>2, <2>1, <3>2, <3>3
  <2> QED
    BY <2>2, <2>3
<1> QED
  BY <1>7, <1>9 DEF SemaphoreInv

LEMMA TakeBlockInv ==
    ASSUME SemaphoreInv, NEW t \in ApplicationTask, TakeBlock(t)
    PROVE  SemaphoreInv'
<1> DEFINE s == call[t].object
           entry == task_wait_begin_until(tasks[t], s, "SEMAPHORE",
                                          call[t].deadline)
<1>1. /\ Thread(t) /\ pc[t] = "attempt"
      /\ available[s] = 0
      /\ Block(t, "SEMAPHORE", tasks)
      /\ UNCHANGED <<available, owed, waited>>
  BY DEF TakeBlock, Attempt, semVars
<1>2. /\ t \in Task /\ tasks \in [Task -> TCB]
      /\ pc \in [Task -> {"app", "attempt", "yield", "woken", "callback"}]
  BY TaskIndices DEF SemaphoreInv, TypeOK, TaskTypeOK
<1>3. s \in Object
  BY <1>1, <1>2 DEF SemaphoreInv, CallsMatchWaits
<1>4. TaskInv'
  BY <1>1, <1>3, BlockInv DEF SemaphoreInv, WaitKind
<1>5. /\ tasks' = [tasks EXCEPT ![t] = entry]
      /\ pc' = [pc EXCEPT ![t] = "yield"]
      /\ UNCHANGED call
  BY <1>1 DEF Block
<1>6. /\ tasks'[t] = entry /\ pc'[t] = "yield"
      /\ entry.state = "BLOCKED"
      /\ entry.wait_kind = "SEMAPHORE" /\ entry.wait_object = s
  <2>1. tasks[t] \in TCB
    BY <1>2
  <2> QED
    BY <1>2, <1>5, <2>1 DEF task_wait_begin_until, TCB
<1>7. \A u \in Task \ {t} : tasks'[u] = tasks[u] /\ pc'[u] = pc[u]
  BY <1>2, <1>5
<1> HIDE DEF entry
<1>8. TypeOK'
  BY <1>1, <1>4 DEF SemaphoreInv, TypeOK, TaskInv
<1>9. CallsMatchWaits'
  <2> SUFFICES ASSUME NEW u \in Task
               PROVE  /\ pc'[u] # "app" =>
                            call'[u].op = "take" /\ call'[u].object \in Object
                      /\ tasks'[u].state = "BLOCKED"
                            /\ tasks'[u].wait_kind = "SEMAPHORE" =>
                            /\ pc'[u] \in {"yield", "woken"}
                            /\ tasks'[u].wait_object = call'[u].object
    BY DEF CallsMatchWaits
  <2>1. CASE u = t
    BY <1>1, <1>2, <1>5, <1>6, <2>1 DEF SemaphoreInv, CallsMatchWaits
  <2>2. CASE u # t
    BY <1>5, <1>7, <2>2 DEF SemaphoreInv, CallsMatchWaits
  <2> QED
    BY <2>1, <2>2
<1>10. NoLostWakeup'
  BY <1>1, <1>6, <1>7 DEF SemaphoreInv, NoLostWakeup
<1>11. TokenConservation'
  <2>1. \A x \in Object : Granted(x)' = Granted(x)
    BY <1>1, <1>5, <1>6, <1>7 DEF Granted
  <2> QED
    BY <1>1, <2>1, SameTokens DEF SemaphoreInv
<1> QED
  BY <1>4, <1>8, <1>9, <1>10, <1>11 DEF SemaphoreInv

LEMMA YieldInv ==
    ASSUME SemaphoreInv, NEW t \in ApplicationTask, ArchYield(t),
           UNCHANGED semVars
    PROVE  SemaphoreInv'
<1>1. /\ t \in Task
      /\ pc \in [Task -> {"app", "attempt", "yield", "woken", "callback"}]
  BY TaskIndices DEF SemaphoreInv, TypeOK, TaskTypeOK
<1>2. /\ pc[t] = "yield" /\ pc' = [pc EXCEPT ![t] = "woken"]
      /\ UNCHANGED <<tasks, call, available, owed, waited>>
  BY DEF ArchYield, semVars
<1>3. TaskInv'
  BY <1>1, ArchYieldInv DEF SemaphoreInv
<1>4. TypeOK'
  BY <1>2, <1>3 DEF SemaphoreInv, TypeOK, TaskInv
<1>5. CallsMatchWaits' /\ NoLostWakeup'
  BY <1>1, <1>2 DEF SemaphoreInv, CallsMatchWaits, NoLostWakeup
<1>6. \A x \in Object : Granted(x)' = Granted(x)
  BY <1>1, <1>2 DEF Granted
<1>7. TokenConservation'
  BY <1>2, <1>6, SameTokens DEF SemaphoreInv
<1> QED
  BY <1>3, <1>4, <1>5, <1>7 DEF SemaphoreInv

(* A give either hands the token to one waiter, which was not handed one   *)
(* before, or makes it available when nobody waits.                        *)
LEMMA GiveInv ==
    ASSUME SemaphoreInv, NEW s \in Object, Give(s), pendsv' \in {pendsv, 1}
    PROVE  SemaphoreInv'
<1>1. /\ tasks \in [Task -> TCB]
      /\ available \in [Object -> Bit] /\ owed \in [Object -> Int]
      /\ waited \in [Task -> 0 .. TICK_MOD]
  BY DEF SemaphoreInv, TypeOK, TaskTypeOK
<1>2. /\ tasks' = task_wake(tasks, s, "SEMAPHORE")
      /\ available' = IF tasks' = tasks THEN [available EXCEPT ![s] = 1]
                                        ELSE available
      /\ owed' = [owed EXCEPT ![s] = IF available[s] = 1 THEN @ ELSE @ + 1]
      /\ UNCHANGED <<current, ticks, pc, call, waited>>
  BY DEF Give
<1>3. TaskInv'
  BY <1>2, WakeInv DEF SemaphoreInv
<1>4. TypeOK'
  BY <1>1, <1>2, <1>3 DEF TypeOK, TaskInv, Bit
<1>5. CASE Waiters(tasks, s, "SEMAPHORE") = {} /\ tasks' = tasks
  <2>1. available' = [available EXCEPT ![s] = 1]
    BY <1>2, <1>5
  <2>2. CallsMatchWaits'
    BY <1>2, <1>5 DEF SemaphoreInv, CallsMatchWaits
  <2>3. NoLostWakeup'
    <3> SUFFICES ASSUME NEW u \in Task, tasks[u].state = "BLOCKED",
                        tasks[u].wait_kind = "SEMAPHORE"
                 PROVE  available'[tasks[u].wait_object] = 0
      BY <1>5 DEF NoLostWakeup
    <3>1. tasks[u].wait_object # s
      BY <1>5 DEF Waiters
    <3>2. tasks[u].wait_object \in Object
      BY DEF SemaphoreInv, CallsMatchWaits
    <3>3. available[tasks[u].wait_object] = 0
      BY DEF SemaphoreInv, NoLostWakeup
    <3> QED
      BY <1>1, <2>1, <3>1, <3>2, <3>3
  <2>4. TokenConservation'
    <3> SUFFICES ASSUME NEW x \in Object
                 PROVE  owed'[x] = available'[x] + Cardinality(Granted(x)')
      BY DEF TokenConservation
    <3>1. Granted(x)' = Granted(x)
      BY <1>2, <1>5 DEF Granted
    <3>2. /\ owed[x] = available[x] + Cardinality(Granted(x))
          /\ Cardinality(Granted(x)) \in Nat
      BY GrantedFinite DEF SemaphoreInv, TokenConservation
    <3> QED
      BY <1>1, <1>2, <2>1, <3>1, <3>2 DEF Bit
  <2> QED
    BY <1>3, <1>4, <2>2, <2>3, <2>4 DEF SemaphoreInv
<1>6. ASSUME NEW i \in Waiters(tasks, s, "SEMAPHORE"),
             tasks' = [tasks EXCEPT ![i] = task_wait_end(tasks[i], 1)]
      PROVE  SemaphoreInv'
  <2>1. /\ i \in Task /\ tasks[i].state = "BLOCKED"
        /\ tasks[i].wait_object = s /\ tasks[i].wait_kind = "SEMAPHORE"
    BY <1>6 DEF Waiters
  <2>2. /\ available[s] = 0
        /\ pc[i] \in {"yield", "woken"} /\ call[i].object = s
    BY <2>1 DEF SemaphoreInv, NoLostWakeup, CallsMatchWaits
  <2>3. /\ tasks'[i] = task_wait_end(tasks[i], 1)
        /\ \A u \in Task \ {i} : tasks'[u] = tasks[u]
    BY <1>1, <1>6, <2>1
  <2>4. tasks'[i].state = "READY" /\ tasks'[i].wait_result = 1
    <3>1. tasks[i] \in TCB
      BY <1>1, <2>1
    <3> QED
      BY <2>3, <3>1 DEF task_wait_end, TCB
  <2>5. tasks' # tasks
    BY <2>1, <2>4
  <2>6. UNCHANGED available /\ owed' = [owed EXCEPT ![s] = @ + 1]
    BY <1>2, <2>2, <2>5
  <2>7. CallsMatchWaits'
    BY <1>2, <2>3, <2>4 DEF SemaphoreInv, CallsMatchWaits
  <2>8. NoLostWakeup'
    BY <2>3, <2>4, <2>6 DEF SemaphoreInv, NoLostWakeup
  <2>9. TokenConservation'
    <3> SUFFICES ASSUME NEW x \in Object
                 PROVE  owed'[x] = available'[x] + Cardinality(Granted(x)')
      BY DEF TokenConservation
    <3>1. /\ owed[x] = available[x] + Cardinality(Granted(x))
          /\ IsFiniteSet(Granted(x)) /\ Cardinality(Granted(x)) \in Nat
      BY GrantedFinite DEF SemaphoreInv, TokenConservation
    <3>2. CASE x = s
      <4>1. Granted(x)' = Granted(x) \cup {i}
        BY <1>2, <2>1, <2>2, <2>3, <2>4, <3>2 DEF Granted
      <4>2. i \notin Granted(x)
        BY <2>1 DEF Granted
      <4>3. Cardinality(Granted(x) \cup {i}) = Cardinality(Granted(x)) + 1
        BY <3>1, <4>2, FS_AddElement
      <4>4. owed'[x] = owed[x] + 1 /\ available'[x] = available[x]
        BY <1>1, <2>6, <3>2
      <4> QED
        BY <1>1, <3>1, <4>1, <4>3, <4>4 DEF Bit
    <3>3. CASE x # s
      <4>1. Granted(x)' = Granted(x)
        BY <1>2, <2>1, <2>2, <2>3, <3>3 DEF Granted
      <4>2. owed'[x] = owed[x] /\ available'[x] = available[x]
        BY <1>1, <2>6, <3>3
      <4> QED
        BY <3>1, <4>1, <4>2
    <3> QED
      BY <3>2, <3>3
  <2> QED
    BY <1>3, <1>4, <2>7, <2>8, <2>9 DEF SemaphoreInv
<1> QED
  BY <1>1, <1>2, <1>5, <1>6, TaskWake

LEMMA ClockTickInv == SemaphoreInv /\ ClockTick => SemaphoreInv'
<1> SUFFICES ASSUME SemaphoreInv, ClockTick
             PROVE  SemaphoreInv'
  OBVIOUS
<1>1. SysTick /\ CountWaited /\ UNCHANGED <<pc, call, available, owed>>
  BY DEF ClockTick, SysTick, SysTickClock
<1>2. TaskInv' /\ NoNewWait
  BY <1>1, SysTickInv, SysTickNoNewWait DEF SemaphoreInv
<1>3. waited' \in [Task -> 0 .. TICK_MOD]
  <2>1. waited \in [Task -> 0 .. TICK_MOD] /\ TICK_MOD \in Nat
    BY TaskTableAssumption DEF SemaphoreInv, TypeOK
  <2> QED
    BY <1>1, <2>1 DEF CountWaited
<1> QED
  BY <1>1, <1>2, <1>3, KernelStep

LEMMA SemaphoreNext == SemaphoreInv /\ [Next]_vars => SemaphoreInv'
<1> SUFFICES ASSUME SemaphoreInv, [Next]_vars
             PROVE  SemaphoreInv'
  OBVIOUS
<1>1. waited \in [Task -> 0 .. TICK_MOD]
  BY DEF SemaphoreInv, TypeOK
<1>2. CASE UNCHANGED vars
  <2>1. UNCHANGED taskVars /\ UNCHANGED <<pc, call, available, owed, waited>>
    BY <1>2 DEF vars, taskVars
  <2>2. TaskInv'
    BY <2>1, TaskNextInv DEF SemaphoreInv
  <2>3. NoNewWait
    BY <1>2 DEF vars, NoNewWait
  <2> QED
    BY <1>1, <2>1, <2>2, <2>3, KernelStep
<1>3. CASE PendSV /\ UNCHANGED semVars
  <2>1. UNCHANGED <<pc, call, available, owed, waited>>
    BY <1>3 DEF PendSV, semVars
  <2> QED
    BY <1>1, <1>3, <2>1, PendSVInv, PendSVNoNewWait, KernelStep
       DEF SemaphoreInv
<1>4. CASE ClockTick
  BY <1>4, ClockTickInv
<1>5. CASE Services /\ UNCHANGED semVars
  <2>1. UNCHANGED <<pc, call, available, owed, waited>>
    BY <1>5 DEF Services, TaskYield, TaskDelay, TaskSuspend, TaskResume, Svc,
                semVars
  <2> QED
    BY <1>1, <1>5, <2>1, ServicesInv, ServicesNoNewWait, KernelStep
       DEF SemaphoreInv
<1>6. ASSUME NEW t \in ApplicationTask, NEW s \in Object,
             NEW timeout \in Timeout, TakeEnter(t, s, timeout)
      PROVE  SemaphoreInv'
  BY <1>6, TakeEnterInv
<1>7. ASSUME NEW t \in ApplicationTask, Continue(t)
      PROVE  SemaphoreInv'
  BY <1>7, TakeAvailableInv, TakeGiveUpInv, TakeBlockInv, YieldInv,
     TakeReturnInv DEF Continue
<1>8. ASSUME NEW t \in ApplicationTask, NEW s \in Object,
             SemaphoreGive(t, s)
      PROVE  SemaphoreInv'
  BY <1>8, GiveInv DEF SemaphoreGive
<1>9. ASSUME NEW s \in Object, SemaphoreGiveFromISR(s)
      PROVE  SemaphoreInv'
  BY <1>9, GiveInv DEF SemaphoreGiveFromISR
<1> QED
  BY <1>2, <1>3, <1>4, <1>5, <1>6, <1>7, <1>8, <1>9 DEF Next

LEMMA SemaphoreInvariant == Safety => []SemaphoreInv
BY SemaphoreInit, SemaphoreNext, PTL DEF Safety

-----------------------------------------------------------------------------
(***************************************************************************)
(* JRT_SemaphoreTake and JRT_SemaphoreGive lose no wake-up: no interleaving *)
(* of tasks, ticks and interrupts leaves a task BLOCKED on a semaphore     *)
(* whose token is available.                                               *)
(***************************************************************************)
THEOREM SemaphoreLosesNoWakeup == Safety => []NoLostWakeup
<1>1. SemaphoreInv => NoLostWakeup
  BY DEF SemaphoreInv
<1> QED
  BY <1>1, SemaphoreInvariant, PTL

(***************************************************************************)
(* A token given is available or in the hands of exactly one woken task,   *)
(* also when a give races with the tick that ends the wait.                *)
(***************************************************************************)
THEOREM SemaphoreConservesTokens == Safety => []TokenConservation
<1>1. SemaphoreInv => TokenConservation
  BY DEF SemaphoreInv
<1> QED
  BY <1>1, SemaphoreInvariant, PTL

(***************************************************************************)
(* With tasks blocking on semaphores the kernel's own consistency check    *)
(* (kernel_check_invariants_locked) still never fails, so tick_tasks never *)
(* halts the system.                                                       *)
(***************************************************************************)
THEOREM KernelCheckNeverFails == Safety => []KernelInvariantsHold
<1>1. SemaphoreInv => KernelInvariantsHold
  BY DEF SemaphoreInv, TaskInv
<1> QED
  BY <1>1, SemaphoreInvariant, PTL

(***************************************************************************)
(* No finite wait outlives its deadline by even one tick, across           *)
(* wraparound of the tick counter and however late the task blocked.       *)
(***************************************************************************)
THEOREM FiniteWaitsExpire == Safety => []NoOverdueWaiter
<1>1. SemaphoreInv => NoOverdueWaiter
  BY DEF SemaphoreInv, TaskInv
<1> QED
  BY <1>1, SemaphoreInvariant, PTL

-----------------------------------------------------------------------------
(* Waits are measured in real ticks.                                       *)

LEMMA TimedTypes ==
    ASSUME SemaphoreInv, NEW t \in Task
    PROVE  /\ tasks[t] \in TCB /\ call[t] \in Call
           /\ call[t].deadline \in Deadline /\ call[t].timeout \in Tick
           /\ call[t].deadline.start \in Tick
           /\ ticks \in Tick /\ waited[t] \in Nat /\ waited[t] <= TICK_MOD
           /\ TickSub(ticks, call[t].deadline.start) \in Nat
           /\ TickSub(ticks, call[t].deadline.start) < TICK_MOD
<1>1. /\ tasks[t] \in TCB /\ call[t] \in Call /\ ticks \in Tick
      /\ waited[t] \in 0 .. TICK_MOD
  BY DEF SemaphoreInv, TypeOK, TaskTypeOK
<1>2. call[t].deadline \in Deadline /\ call[t].timeout \in Tick
  BY <1>1 DEF Call
<1>3. call[t].deadline.start \in Tick
  BY <1>2 DEF Deadline
<1>4. /\ TickSub(ticks, call[t].deadline.start) \in Nat
      /\ TickSub(ticks, call[t].deadline.start) < TICK_MOD
  BY <1>1, <1>3, DistanceType
<1> QED
  BY <1>1, <1>2, <1>3, <1>4, TaskTableAssumption

(* A task whose entry, call and clock did not change, or whose wait was    *)
(* ended with a token.                                                     *)
LEMMA UntimedTask ==
    ASSUME NEW t \in Task, Measured(t), ticks' = ticks, pc'[t] = pc[t],
           call'[t] = call[t], waited'[t] = waited[t],
           tasks'[t].state = "BLOCKED" => tasks'[t] = tasks[t],
           tasks[t].state # "BLOCKED" =>
               tasks'[t].wait_result = tasks[t].wait_result,
           tasks[t].state = "BLOCKED" /\ tasks'[t].state # "BLOCKED" =>
               tasks'[t].wait_result = 1
    PROVE  Measured(t)'
<1>1. CASE tasks'[t].state = "BLOCKED"
  BY <1>1 DEF Measured
<1>2. CASE tasks'[t].state # "BLOCKED" /\ tasks[t].state # "BLOCKED"
  BY <1>2 DEF Measured
<1>3. CASE tasks'[t].state # "BLOCKED" /\ tasks[t].state = "BLOCKED"
  BY <1>3 DEF Measured
<1> QED
  BY <1>1, <1>2, <1>3

LEMMA UntimedStep ==
    ASSUME WaitsMeasured, NoNewWait, KeepsWaits,
           UNCHANGED <<ticks, pc, call, waited>>
    PROVE  WaitsMeasured'
<1> SUFFICES ASSUME NEW t \in Task
             PROVE  Measured(t)'
  BY DEF WaitsMeasured
<1> QED
  BY UntimedTask DEF WaitsMeasured, NoNewWait, KeepsWaits

LEMMA GiveMeasured ==
    ASSUME SemaphoreInv, WaitsMeasured, NEW s \in Object, Give(s)
    PROVE  WaitsMeasured'
<1> SUFFICES ASSUME NEW t \in Task
             PROVE  Measured(t)'
  BY DEF WaitsMeasured
<1>1. tasks \in [Task -> TCB]
  BY DEF SemaphoreInv, TypeOK, TaskTypeOK
<1>2. /\ tasks' = task_wake(tasks, s, "SEMAPHORE")
      /\ UNCHANGED <<ticks, pc, call, waited>>
  BY DEF Give
<1>3. Measured(t)
  BY DEF WaitsMeasured
<1>4. CASE tasks' = tasks
  BY <1>2, <1>3, <1>4, UntimedTask
<1>5. ASSUME NEW i \in Waiters(tasks, s, "SEMAPHORE"),
             tasks' = [tasks EXCEPT ![i] = task_wait_end(tasks[i], 1)]
      PROVE  Measured(t)'
  <2>1. i \in Task /\ tasks[i].state = "BLOCKED" /\ tasks[i] \in TCB
    BY <1>1, <1>5 DEF Waiters
  <2>2. CASE t = i
    <3>1. tasks'[t].state = "READY" /\ tasks'[t].wait_result = 1
      BY <1>1, <1>5, <2>1, <2>2 DEF task_wait_end, TCB
    <3> QED
      BY <1>2, <1>3, <2>1, <2>2, <3>1, UntimedTask
  <2>3. CASE t # i
    <3>1. tasks'[t] = tasks[t]
      BY <1>1, <1>5, <2>1, <2>3
    <3> QED
      BY <1>2, <1>3, <3>1, UntimedTask
  <2> QED
    BY <2>2, <2>3
<1> QED
  BY <1>1, <1>2, <1>4, <1>5, TaskWake

LEMMA EnterMeasured ==
    ASSUME SemaphoreInv, WaitsMeasured, NEW t \in ApplicationTask,
           NEW s \in Object, NEW timeout \in Timeout, TakeEnter(t, s, timeout)
    PROVE  WaitsMeasured'
<1> DEFINE deadline == task_wait_deadline(ticks, timeout)
<1>1. /\ t \in Task /\ ticks \in Tick
      /\ pc \in [Task -> {"app", "attempt", "yield", "woken", "callback"}]
      /\ call \in [Task -> Call]
  BY TaskIndices DEF SemaphoreInv, TypeOK, TaskTypeOK
<1>2. /\ pc[t] = "app" /\ pc' = [pc EXCEPT ![t] = "attempt"]
      /\ call' = [call EXCEPT ![t] =
                     [op |-> "take", object |-> s, timeout |-> timeout,
                      reserved |-> 0, deadline |-> deadline]]
      /\ UNCHANGED <<tasks, ticks, waited>>
  BY DEF TakeEnter, Enter, InApp, semVars
<1> SUFFICES ASSUME NEW u \in Task
             PROVE  Measured(u)'
  BY DEF WaitsMeasured
<1>3. CASE u # t
  BY <1>1, <1>2, <1>3, UntimedTask DEF WaitsMeasured
<1>4. CASE u = t
  <2>1. /\ pc'[u] = "attempt" /\ call'[u].timeout = timeout
        /\ call'[u].deadline = deadline
    BY <1>1, <1>2, <1>4
  <2>2. deadline.start = ticks
    BY DEF task_wait_deadline
  <2>3. waited'[u] = 0 /\ TickSub(ticks, ticks) = 0
    BY <1>1, <1>2, <1>4, TickDistance DEF WaitsMeasured, Measured
  <2> HIDE DEF deadline
  <2>4. call'[u].deadline = task_wait_deadline(call'[u].deadline.start,
                                               call'[u].timeout)
    BY <2>1, <2>2 DEF deadline
  <2>5. waited'[u] >= TickSub(ticks', call'[u].deadline.start)
    BY <1>2, <2>1, <2>2, <2>3
  <2> QED
    BY <2>1, <2>4, <2>5 DEF Measured
<1> QED
  BY <1>3, <1>4

LEMMA ReturnMeasured ==
    ASSUME SemaphoreInv, WaitsMeasured, NEW t \in ApplicationTask,
           Return(t), ResetWaited(t), UNCHANGED tasks
    PROVE  WaitsMeasured'
<1>1. /\ t \in Task
      /\ pc \in [Task -> {"app", "attempt", "yield", "woken", "callback"}]
      /\ call \in [Task -> Call] /\ waited \in [Task -> 0 .. TICK_MOD]
  BY TaskIndices DEF SemaphoreInv, TypeOK, TaskTypeOK
<1>2. /\ pc' = [pc EXCEPT ![t] = "app"]
      /\ call' = [call EXCEPT ![t] = NoCall]
      /\ waited' = [waited EXCEPT ![t] = 0]
      /\ UNCHANGED <<tasks, ticks>>
  BY DEF Return, ResetWaited
<1> SUFFICES ASSUME NEW u \in Task
             PROVE  Measured(u)'
  BY DEF WaitsMeasured
<1>3. CASE u # t
  BY <1>1, <1>2, <1>3, UntimedTask DEF WaitsMeasured
<1>4. CASE u = t
  <2>1. pc'[u] = "app" /\ waited'[u] = 0
    BY <1>1, <1>2, <1>4
  <2> QED
    BY <2>1 DEF Measured
<1> QED
  BY <1>3, <1>4

LEMMA BlockMeasured ==
    ASSUME SemaphoreInv, WaitsMeasured, NEW t \in ApplicationTask,
           TakeBlock(t)
    PROVE  WaitsMeasured'
<1> DEFINE entry == task_wait_begin_until(tasks[t], call[t].object,
                                          "SEMAPHORE", call[t].deadline)
<1>1. /\ t \in Task /\ tasks \in [Task -> TCB]
      /\ pc \in [Task -> {"app", "attempt", "yield", "woken", "callback"}]
  BY TaskIndices DEF SemaphoreInv, TypeOK, TaskTypeOK
<1>2. /\ pc[t] = "attempt" /\ pc' = [pc EXCEPT ![t] = "yield"]
      /\ tasks' = [tasks EXCEPT ![t] = entry]
      /\ UNCHANGED <<ticks, call, waited>>
  BY DEF TakeBlock, Attempt, Block, semVars
<1> SUFFICES ASSUME NEW u \in Task
             PROVE  Measured(u)'
  BY DEF WaitsMeasured
<1>3. CASE u # t
  BY <1>1, <1>2, <1>3, UntimedTask DEF WaitsMeasured
<1>4. CASE u = t
  <2>1. tasks[t] \in TCB /\ call[t].deadline \in Deadline
    BY <1>1, TimedTypes
  <2>2. /\ entry.state = "BLOCKED"
        /\ entry.wait_start = call[t].deadline.start
        /\ entry.wait_deadline = call[t].deadline.tick
        /\ entry.wait_forever = call[t].deadline.forever
    BY <2>1 DEF task_wait_begin_until, TCB
  <2> HIDE DEF entry
  <2>3. pc'[u] = "yield" /\ tasks'[u] = entry
    BY <1>1, <1>2, <1>4
  <2>4. call[t].deadline = [start   |-> entry.wait_start,
                            tick    |-> entry.wait_deadline,
                            forever |-> entry.wait_forever]
    BY <2>1, <2>2 DEF Deadline
  <2>5. /\ call[t].deadline = task_wait_deadline(call[t].deadline.start,
                                                 call[t].timeout)
        /\ waited[t] >= TickSub(ticks, call[t].deadline.start)
    BY <1>1, <1>2 DEF WaitsMeasured, Measured
  <2> QED
    BY <1>2, <1>4, <2>2, <2>3, <2>4, <2>5 DEF Measured
<1> QED
  BY <1>3, <1>4

LEMMA YieldMeasured ==
    ASSUME SemaphoreInv, WaitsMeasured, NEW t \in ApplicationTask,
           ArchYield(t), UNCHANGED semVars
    PROVE  WaitsMeasured'
<1>1. /\ t \in Task
      /\ pc \in [Task -> {"app", "attempt", "yield", "woken", "callback"}]
  BY TaskIndices DEF SemaphoreInv, TypeOK, TaskTypeOK
<1>2. /\ pc[t] = "yield" /\ pc' = [pc EXCEPT ![t] = "woken"]
      /\ UNCHANGED <<tasks, ticks, call, waited>>
  BY DEF ArchYield, semVars
<1> SUFFICES ASSUME NEW u \in Task
             PROVE  Measured(u)'
  BY DEF WaitsMeasured
<1>3. CASE u # t
  BY <1>1, <1>2, <1>3, UntimedTask DEF WaitsMeasured
<1>4. CASE u = t
  <2>1. pc[u] = "yield" /\ pc'[u] = "woken" /\ Measured(u)
    BY <1>1, <1>2, <1>4 DEF WaitsMeasured
  <2> QED
    BY <1>2, <2>1 DEF Measured
<1> QED
  BY <1>3, <1>4

(* The tick adds one to the ticks a call has waited and at most one to the *)
(* distance from its start, and ends a wait only when its timeout has      *)
(* gone by.                                                                *)
LEMMA TickMeasured ==
    ASSUME SemaphoreInv, WaitsMeasured, ClockTick
    PROVE  WaitsMeasured'
<1>1. /\ SysTick /\ CountWaited /\ ticks' = TickAdd(ticks, 1)
      /\ UNCHANGED <<pc, call>>
  BY DEF ClockTick, SysTick, SysTickClock
<1>2. NoNewWait /\ TaskInv'
  BY <1>1, SysTickNoNewWait, SysTickInv DEF SemaphoreInv
<1>3. ticks' \in Tick
  BY <1>2 DEF TaskInv, TaskTypeOK
<1> SUFFICES ASSUME NEW t \in Task
             PROVE  Measured(t)'
  BY DEF WaitsMeasured
<1> DEFINE start == call[t].deadline.start
<1>4. /\ tasks[t] \in TCB /\ call[t].deadline \in Deadline
      /\ call[t].timeout \in Tick /\ start \in Tick /\ ticks \in Tick
      /\ waited[t] \in Nat /\ waited[t] <= TICK_MOD
      /\ TickSub(ticks, start) \in Nat
  BY TimedTypes
<1>5. waited'[t] = IF pc[t] # "app" /\ waited[t] < TICK_MOD
                   THEN waited[t] + 1 ELSE waited[t]
  BY <1>1 DEF CountWaited
<1>6. /\ TickSub(ticks', start) <= TickSub(ticks, start) + 1
      /\ TickSub(ticks', start) \in Nat
      /\ TickSub(ticks', start) < TICK_MOD
  BY <1>1, <1>3, <1>4, TickDistance, DistanceType
<1>7. Measured(t) /\ TICK_MOD \in Nat
  BY TaskTableAssumption DEF WaitsMeasured
<1>8. pc[t] # "app" => waited'[t] >= TickSub(ticks', start)
  BY <1>4, <1>5, <1>6, <1>7 DEF Measured
<1>9. waited'[t] \in Nat /\ waited'[t] >= waited[t]
  BY <1>4, <1>5
<1>10. CASE pc[t] \notin {"yield", "woken"}
  BY <1>1, <1>5, <1>7, <1>8, <1>10 DEF Measured
<1>11. CASE pc[t] \in {"yield", "woken"} /\ tasks'[t].state = "BLOCKED"
  <2>1. tasks'[t] = tasks[t]
    BY <1>2, <1>11 DEF NoNewWait
  <2> QED
    BY <1>1, <1>7, <1>8, <1>11, <2>1 DEF Measured
<1>12. CASE /\ pc[t] \in {"yield", "woken"}
            /\ tasks'[t].state # "BLOCKED" /\ tasks[t].state # "BLOCKED"
  <2>1. tasks'[t].wait_result = tasks[t].wait_result
    BY <1>2, <1>12 DEF NoNewWait
  <2>2. tasks[t].wait_result = 0 =>
            /\ call[t].timeout # JRT_WAIT_FOREVER
            /\ waited'[t] >= call[t].timeout
    <3>1. call[t].timeout \in Nat
      BY <1>4, TickConstants
    <3> QED
      BY <1>4, <1>7, <1>9, <1>12, <3>1 DEF Measured
  <2> QED
    BY <1>1, <1>7, <1>8, <1>12, <2>1, <2>2 DEF Measured
<1>13. CASE /\ pc[t] \in {"yield", "woken"}
            /\ tasks'[t].state # "BLOCKED" /\ tasks[t].state = "BLOCKED"
  <2>1. WaitExpired(tasks[t], ticks')
    <3>1. tasks'[t] = tick_task(tasks[t], ticks')
      BY <1>1 DEF SysTick, tick_tasks
    <3> QED
      BY <1>13, <3>1 DEF tick_task
  <2>2. call[t].deadline = [start   |-> tasks[t].wait_start,
                            tick    |-> tasks[t].wait_deadline,
                            forever |-> tasks[t].wait_forever]
    BY <1>7, <1>13 DEF Measured
  <2>3. /\ call[t].deadline.forever = 0
        /\ Elapsed(ticks', start, call[t].deadline.tick)
    BY <2>1, <2>2 DEF WaitExpired
  <2>4. call[t].deadline = task_wait_deadline(start, call[t].timeout)
    BY <1>7, <1>13 DEF Measured
  <2>5. call[t].timeout # JRT_WAIT_FOREVER /\ waited'[t] >= call[t].timeout
    BY <1>3, <1>4, <1>8, <1>9, <1>13, <2>3, <2>4, ElapsedMeansWaited
  <2> QED
    BY <1>1, <1>8, <1>13, <2>4, <2>5 DEF Measured
<1> QED
  BY <1>10, <1>11, <1>12, <1>13

LEMMA TimedInit == Init => WaitsMeasured
BY DEF Init, TaskInit, WaitsMeasured, Measured

LEMMA TimedNext == SemaphoreInv /\ WaitsMeasured /\ [Next]_vars => WaitsMeasured'
<1> SUFFICES ASSUME SemaphoreInv, WaitsMeasured, [Next]_vars
             PROVE  WaitsMeasured'
  OBVIOUS
<1>1. CASE UNCHANGED vars
  BY <1>1 DEF vars, WaitsMeasured, Measured
<1>2. CASE PendSV /\ UNCHANGED semVars
  <2>1. UNCHANGED <<ticks, pc, call, waited>>
    BY <1>2 DEF PendSV, semVars
  <2> QED
    BY <1>2, <2>1, PendSVNoNewWait, PendSVKeepsWaits, UntimedStep
       DEF SemaphoreInv
<1>3. CASE ClockTick
  BY <1>3, TickMeasured
<1>4. CASE Services /\ UNCHANGED semVars
  <2>1. UNCHANGED <<ticks, pc, call, waited>>
    BY <1>4 DEF Services, TaskYield, TaskDelay, TaskSuspend, TaskResume, Svc,
                semVars
  <2> QED
    BY <1>4, <2>1, ServicesNoNewWait, ServicesKeepWaits, UntimedStep
       DEF SemaphoreInv
<1>5. ASSUME NEW t \in ApplicationTask, NEW s \in Object,
             NEW timeout \in Timeout, TakeEnter(t, s, timeout)
      PROVE  WaitsMeasured'
  BY <1>5, EnterMeasured
<1>6. ASSUME NEW t \in ApplicationTask, Continue(t)
      PROVE  WaitsMeasured'
  <2>1. CASE TakeAvailable(t)
    BY <2>1, ReturnMeasured DEF TakeAvailable
  <2>2. CASE TakeGiveUp(t)
    BY <2>2, ReturnMeasured DEF TakeGiveUp, GiveUp
  <2>3. CASE TakeReturn(t)
    BY <2>3, ReturnMeasured DEF TakeReturn
  <2> QED
    BY <1>6, <2>1, <2>2, <2>3, BlockMeasured, YieldMeasured DEF Continue
<1>7. ASSUME NEW t \in ApplicationTask, NEW s \in Object,
             SemaphoreGive(t, s)
      PROVE  WaitsMeasured'
  BY <1>7, GiveMeasured DEF SemaphoreGive
<1>8. ASSUME NEW s \in Object, SemaphoreGiveFromISR(s)
      PROVE  WaitsMeasured'
  BY <1>8, GiveMeasured DEF SemaphoreGiveFromISR
<1> QED
  BY <1>1, <1>2, <1>3, <1>4, <1>5, <1>6, <1>7, <1>8 DEF Next

(* What TimeoutNotEarly says of one task and one step.                     *)
NotEarly(t) ==
    (pc[t] # "app" /\ pc'[t] = "app" /\ owed' = owed) =>
        /\ call[t].timeout # JRT_WAIT_FOREVER
        /\ waited[t] >= call[t].timeout

LEMMA ContinueNotEarly ==
    ASSUME SemaphoreInv, WaitsMeasured, NEW t \in ApplicationTask,
           Continue(t), NEW u \in Task
    PROVE  NotEarly(u)
<1>1. /\ t \in Task
      /\ pc \in [Task -> {"app", "attempt", "yield", "woken", "callback"}]
      /\ owed \in [Object -> Int]
  BY TaskIndices DEF SemaphoreInv, TypeOK, TaskTypeOK
<1>2. pc[t] # "app" => call[t].object \in Object
  BY <1>1 DEF SemaphoreInv, CallsMatchWaits
<1>3. /\ tasks[t] \in TCB /\ call[t].deadline \in Deadline
      /\ call[t].timeout \in Tick /\ ticks \in Tick /\ waited[t] \in Nat
  BY <1>1, TimedTypes
<1>4. Measured(t)
  BY <1>1 DEF WaitsMeasured
<1>5. CASE TakeAvailable(t)
  <2>1. pc[t] = "attempt" /\ pc' = [pc EXCEPT ![t] = "app"]
    BY <1>5 DEF TakeAvailable, Attempt, Return
  <2>2. owed' = [owed EXCEPT ![call[t].object] = @ - 1]
    BY <1>5 DEF TakeAvailable
  <2>3. owed' # owed
    BY <1>1, <1>2, <2>1, <2>2
  <2> QED
    BY <2>3 DEF NotEarly
<1>6. CASE TakeGiveUp(t)
  <2>1. /\ pc[t] = "attempt" /\ pc' = [pc EXCEPT ![t] = "app"]
        /\ call[t].timeout = 0 \/ DeadlineElapsed(t)
    BY <1>6 DEF TakeGiveUp, Attempt, GiveUp, Return
  <2>2. CASE u # t
    BY <1>1, <2>1, <2>2 DEF NotEarly
  <2>3. CASE u = t /\ call[t].timeout = 0
    BY <1>3, <2>3, TickConstants DEF NotEarly
  <2>4. CASE u = t /\ DeadlineElapsed(t)
    <3>1. call[t].timeout # JRT_WAIT_FOREVER /\ waited[t] >= call[t].timeout
      BY <1>3, <1>4, <2>1, <2>4, ElapsedMeansWaited
         DEF Measured, DeadlineElapsed
    <3> QED
      BY <2>4, <3>1 DEF NotEarly
  <2> QED
    BY <2>1, <2>2, <2>3, <2>4
<1>7. CASE TakeReturn(t)
  <2>1. /\ Thread(t) /\ pc[t] = "woken" /\ pc' = [pc EXCEPT ![t] = "app"]
        /\ owed' = [owed EXCEPT ![call[t].object] = @ - tasks[t].wait_result]
    BY <1>7 DEF TakeReturn, Woken, Return
  <2>2. CASE u # t
    BY <1>1, <2>1, <2>2 DEF NotEarly
  <2>3. CASE u = t /\ tasks[t].wait_result = 1
    <3>1. owed' # owed
      BY <1>1, <1>2, <2>1, <2>3
    <3> QED
      BY <3>1 DEF NotEarly
  <2>4. CASE u = t /\ tasks[t].wait_result = 0
    <3>1. tasks[t].state = "RUNNING"
      BY <1>1, <2>1, ThreadRuns DEF SemaphoreInv
    <3>2. call[t].timeout # JRT_WAIT_FOREVER /\ waited[t] >= call[t].timeout
      BY <1>4, <2>1, <2>4, <3>1 DEF Measured
    <3> QED
      BY <2>4, <3>2 DEF NotEarly
  <2>5. tasks[t].wait_result \in {0, 1}
    BY <1>3 DEF TCB
  <2> QED
    BY <2>2, <2>3, <2>4, <2>5
<1>8. CASE TakeBlock(t) \/ ArchYield(t)
  <2>1. pc' = [pc EXCEPT ![t] = "yield"] \/ pc' = [pc EXCEPT ![t] = "woken"]
    BY <1>8 DEF TakeBlock, Block, ArchYield
  <2> QED
    BY <1>1, <2>1 DEF NotEarly
<1> QED
  BY <1>5, <1>6, <1>7, <1>8 DEF Continue

(***************************************************************************)
(* JRT_SemaphoreTake never returns empty-handed before its timeout: not by *)
(* giving up at once, not by the tick that ends its wait, not at a         *)
(* wraparound of the tick counter, and never with JRT_WAIT_FOREVER.        *)
(***************************************************************************)
THEOREM TakeIsNotEarly == Safety => TimeoutNotEarly
<1>1. ASSUME SemaphoreInv, WaitsMeasured, [Next]_vars
      PROVE  [\A t \in Task : NotEarly(t)]_vars
  <2> SUFFICES ASSUME Next, NEW u \in Task
               PROVE  NotEarly(u)
    BY <1>1
  <2>1. pc \in [Task -> {"app", "attempt", "yield", "woken", "callback"}]
    BY <1>1 DEF SemaphoreInv, TypeOK, TaskTypeOK
  <2>2. ASSUME NEW t \in ApplicationTask, Continue(t)
        PROVE  NotEarly(u)
    BY <1>1, <2>2, ContinueNotEarly
  <2>3. CASE UNCHANGED pc
    BY <2>3 DEF NotEarly
  <2>4. ASSUME NEW t \in ApplicationTask, NEW s \in Object,
               NEW timeout \in Timeout, TakeEnter(t, s, timeout)
        PROVE  NotEarly(u)
    <3>1. pc' = [pc EXCEPT ![t] = "attempt"]
      BY <2>4 DEF TakeEnter, Enter
    <3> QED
      BY <2>1, <3>1 DEF NotEarly
  <2>5. PendSV \/ ClockTick \/ Services => UNCHANGED pc
    BY DEF PendSV, ClockTick, SysTick, SysTickClock, Services, TaskYield,
           TaskDelay, TaskSuspend, TaskResume, Svc
  <2>6. ASSUME NEW s \in Object, Give(s)
        PROVE  UNCHANGED pc
    BY <2>6 DEF Give
  <2> QED
    BY <2>2, <2>3, <2>4, <2>5, <2>6
       DEF Next, SemaphoreGive, SemaphoreGiveFromISR
<1>2. Safety => []WaitsMeasured
  BY TimedInit, TimedNext, SemaphoreInvariant, PTL DEF Safety
<1>3. [\A t \in Task : NotEarly(t)]_vars =>
      [\A t \in Task :
        (pc[t] # "app" /\ pc'[t] = "app" /\ owed' = owed) =>
            /\ call[t].timeout # JRT_WAIT_FOREVER
            /\ waited[t] >= call[t].timeout]_vars
  BY DEF NotEarly
<1> QED
  BY <1>1, <1>2, <1>3, SemaphoreInvariant, PTL DEF Safety, TimeoutNotEarly
=============================================================================
