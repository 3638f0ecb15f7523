---------------------------- MODULE MutexProofs -----------------------------
(***************************************************************************)
(* Mutexes exclude each other's owners and priority inheritance follows    *)
(* the chains of owners, for every number of tasks and mutexes, chains of  *)
(* any length and deadlocked tasks included.                               *)
(***************************************************************************)
EXTENDS Mutex, TaskProofs, FiniteSetTheorems

-----------------------------------------------------------------------------
(* Tables that differ in priorities only.                                  *)

Unranked(task) == [task EXCEPT !.priority = 0]

SameEntries(T, R) == \A i \in Task : Unranked(R[i]) = Unranked(T[i])

(* sync_invariant_check of one mutex.                                      *)
MutexOK(x) ==
    IF x.locked = 0 THEN x.owner = NoOwner /\ x.recursion = 0
    ELSE x.owner \in Task /\ x.recursion # 0

Mutexes == {M \in [Object -> JRT_Mutex] : \A m \in Object : MutexOK(M[m])}

Waiting(task) == task.state = "BLOCKED" /\ task.wait_kind = "MUTEX"

(* Task i waits, if for a mutex, for one that another task owns.           *)
WaitOK(task, M, i) ==
    Waiting(task) => /\ task.wait_object \in Object
                     /\ M[task.wait_object].locked = 1
                     /\ M[task.wait_object].owner # i

Tables(M) == {T \in [Task -> TCB] : \A i \in Task : WaitOK(T[i], M, i)}

LEMMA UnrankedFields ==
    ASSUME NEW a \in TCB, NEW b \in TCB, Unranked(a) = Unranked(b)
    PROVE  /\ a.state = b.state /\ a.sleep_ticks = b.sleep_ticks
           /\ a.wait_object = b.wait_object /\ a.wait_kind = b.wait_kind
           /\ a.wait_start = b.wait_start /\ a.wait_deadline = b.wait_deadline
           /\ a.wait_forever = b.wait_forever
           /\ a.wait_result = b.wait_result
<1> DEFINE u == Unranked(a)
           v == Unranked(b)
<1>1. /\ u.state = a.state /\ u.sleep_ticks = a.sleep_ticks
      /\ u.wait_object = a.wait_object /\ u.wait_kind = a.wait_kind
      /\ u.wait_start = a.wait_start /\ u.wait_deadline = a.wait_deadline
      /\ u.wait_forever = a.wait_forever /\ u.wait_result = a.wait_result
  BY DEF Unranked, TCB
<1>2. /\ v.state = b.state /\ v.sleep_ticks = b.sleep_ticks
      /\ v.wait_object = b.wait_object /\ v.wait_kind = b.wait_kind
      /\ v.wait_start = b.wait_start /\ v.wait_deadline = b.wait_deadline
      /\ v.wait_forever = b.wait_forever /\ v.wait_result = b.wait_result
  BY DEF Unranked, TCB
<1>3. u = v
  OBVIOUS
<1> HIDE DEF u, v
<1> QED
  BY <1>1, <1>2, <1>3

(* A change of the priority alone.                                         *)
LEMMA Reranked ==
    ASSUME NEW a \in TCB, NEW p \in Priority
    PROVE  LET b == [a EXCEPT !.priority = p]
           IN  b \in TCB /\ b.priority = p /\ Unranked(b) = Unranked(a)
BY DEF Unranked, TCB

(* The checks of the kernel do not look at priorities.                     *)
LEMMA UnrankedChecks ==
    ASSUME NEW a \in TCB, NEW b \in TCB, Unranked(a) = Unranked(b)
    PROVE  /\ check_task(a) <=> check_task(b)
           /\ \A now : WaitExpired(a, now) <=> WaitExpired(b, now)
           /\ Waiting(a) <=> Waiting(b)
           /\ \A M, i : WaitOK(a, M, i) <=> WaitOK(b, M, i)
<1>1. /\ a.state = b.state /\ a.wait_object = b.wait_object
      /\ a.wait_kind = b.wait_kind
      /\ a.wait_start = b.wait_start /\ a.wait_deadline = b.wait_deadline
      /\ a.wait_forever = b.wait_forever
  BY UnrankedFields
<1> QED
  BY <1>1 DEF check_task, WaitExpired, Waiting, WaitOK

-----------------------------------------------------------------------------
(* Who waits behind whom.                                                  *)

LEMMA BehindIs ==
    ASSUME NEW M \in Mutexes, NEW T \in Tables(M), NEW i \in Task
    PROVE  /\ BlockedBehind(T, M, i) \in (Task \ {i}) \cup {NoOwner}
           /\ BlockedBehind(T, M, i) =
                 IF Waiting(T[i]) THEN M[T[i].wait_object].owner ELSE NoOwner
           /\ Waiting(T[i]) <=> BlockedBehind(T, M, i) # NoOwner
<1>1. WaitOK(T[i], M, i)
  BY DEF Tables
<1>2. CASE Waiting(T[i])
  <2> DEFINE m == T[i].wait_object
  <2>1. m \in Object /\ M[m].locked = 1 /\ M[m].owner # i
    BY <1>1, <1>2 DEF WaitOK
  <2>2. M[m].owner \in Task
    BY <2>1 DEF Mutexes, MutexOK
  <2>3. BlockedBehind(T, M, i) = M[m].owner
    BY <1>2, <2>1 DEF BlockedBehind, Waiting
  <2> QED
    BY <1>2, <2>1, <2>2, <2>3, TaskIndices DEF NoOwner
<1>3. CASE ~Waiting(T[i])
  BY <1>3 DEF BlockedBehind, Waiting
<1> QED
  BY <1>2, <1>3

(* It does not depend on priorities.                                       *)
LEMMA BehindSame ==
    ASSUME NEW M \in Mutexes, NEW T \in Tables(M), NEW R \in [Task -> TCB],
           SameEntries(T, R)
    PROVE  /\ R \in Tables(M)
           /\ \A i \in Task : BlockedBehind(R, M, i) = BlockedBehind(T, M, i)
<1>1. ASSUME NEW i \in Task
      PROVE  /\ WaitOK(R[i], M, i)
             /\ Waiting(R[i]) <=> Waiting(T[i])
             /\ R[i].wait_object = T[i].wait_object
  <2>1. T[i] \in TCB /\ R[i] \in TCB /\ Unranked(R[i]) = Unranked(T[i])
    BY DEF Tables, SameEntries
  <2>2. WaitOK(T[i], M, i)
    BY DEF Tables
  <2> QED
    BY <2>1, <2>2, UnrankedFields, UnrankedChecks
<1>2. R \in Tables(M)
  BY <1>1 DEF Tables
<1> QED
  BY <1>1, <1>2, BehindIs

(* No owner runs below a task that waits behind it.                        *)
NoInversion(T, M) ==
    \A w \in Task : BlockedBehind(T, M, w) # NoOwner =>
        T[w].priority <= T[BlockedBehind(T, M, w)].priority

LEMMA WaiterPriorityIs ==
    ASSUME NEW M \in Mutexes, NEW T \in Tables(M), NEW id \in Task
    PROVE  WaiterPriority(T, M, id) =
              {T[w].priority : w \in {w \in Task : BlockedBehind(T, M, w) = id}}
<1> DEFINE A == {w \in Task : /\ T[w].state = "BLOCKED"
                              /\ T[w].wait_kind = "MUTEX"
                              /\ M[T[w].wait_object].locked = 1
                              /\ M[T[w].wait_object].owner = id}
           B == {w \in Task : BlockedBehind(T, M, w) = id}
<1>1. ASSUME NEW w \in Task
      PROVE  w \in A <=> w \in B
  <2>1. WaitOK(T[w], M, w)
    BY DEF Tables
  <2>2. BlockedBehind(T, M, w) =
           IF Waiting(T[w]) THEN M[T[w].wait_object].owner ELSE NoOwner
    BY BehindIs
  <2>3. id # NoOwner
    BY TaskIndices DEF NoOwner
  <2> QED
    BY <2>1, <2>2, <2>3 DEF WaitOK, Waiting
<1>2. A = B
  BY <1>1
<1>3. WaiterPriority(T, M, id) = {T[w].priority : w \in A}
  BY DEF WaiterPriority
<1> QED
  BY <1>2, <1>3
(* The greatest of some priorities.                                        *)
LEMMA GreatestOf ==
    ASSUME NEW S, S \subseteq Priority, S # {}
    PROVE  \E p \in S : \A q \in S : q <= p
<1> DEFINE f == [q \in Priority |-> JRT_MAX_TASK_PRIORITY - q]
<1>1. \A q \in S : f[q] \in Nat
  BY TaskTableAssumption DEF Priority
<1> HIDE DEF f
<1>2. PICK p \in S : \A q \in S : f[p] <= f[q]
  BY <1>1, LeastMeasure
<1>3. ASSUME NEW q \in S
      PROVE  q <= p
  <2>1. f[p] <= f[q] /\ p \in Priority /\ q \in Priority
    BY <1>2
  <2>2. f[p] = JRT_MAX_TASK_PRIORITY - p /\ f[q] = JRT_MAX_TASK_PRIORITY - q
    BY <2>1 DEF f
  <2> QED
    BY <2>1, <2>2, TaskTableAssumption DEF Priority
<1> QED
  BY <1>3

(* The priority a task is left with: its own or that of a task behind it,  *)
(* and below neither.                                                      *)
LEMMA EffectiveIs ==
    ASSUME NEW M \in Mutexes, NEW T \in Tables(M), NEW id \in Task
    PROVE  LET p == EffectivePriority(T, M, id)
           IN  /\ p \in Priority
               /\ base_priority[id] <= p
               /\ \A w \in Task : BlockedBehind(T, M, w) = id =>
                      T[w].priority <= p
               /\ \/ p = base_priority[id]
                  \/ \E w \in Task : /\ BlockedBehind(T, M, w) = id
                                     /\ p = T[w].priority
<1> DEFINE W == {w \in Task : BlockedBehind(T, M, w) = id}
           S == {base_priority[id]} \cup WaiterPriority(T, M, id)
           p == EffectivePriority(T, M, id)
<1>1. WaiterPriority(T, M, id) = {T[w].priority : w \in W}
  BY WaiterPriorityIs
<1>2. \A w \in Task : T[w].priority \in Priority
  BY DEF Tables, TCB
<1>3. S \subseteq Priority /\ S # {}
  BY <1>1, <1>2, TaskTableAssumption
<1>4. p = CHOOSE q \in S : \A r \in S : r <= q
  BY DEF EffectivePriority
<1>5. \E q \in S : \A r \in S : r <= q
  BY <1>3, GreatestOf
<1> HIDE DEF p
<1>6. p \in S /\ \A r \in S : r <= p
  <2> HIDE DEF S
  <2> QED
    BY <1>4, <1>5
<1> QED
  BY <1>1, <1>3, <1>6 DEF p

(* It is the least priority with these bounds, so it depends on nothing    *)
(* but the tasks behind.                                                   *)
LEMMA EffectiveSame ==
    ASSUME NEW M \in Mutexes, NEW T \in Tables(M), NEW N \in Mutexes,
           NEW R \in Tables(N), NEW id \in Task,
           \A w \in Task : BlockedBehind(R, N, w) = id
                               <=> BlockedBehind(T, M, w) = id,
           \A w \in Task : BlockedBehind(T, M, w) = id =>
               R[w].priority = T[w].priority
    PROVE  EffectivePriority(R, N, id) = EffectivePriority(T, M, id)
<1> DEFINE V == {w \in Task : BlockedBehind(T, M, w) = id}
           W == {w \in Task : BlockedBehind(R, N, w) = id}
<1>1. V = W
  OBVIOUS
<1>2. {T[w].priority : w \in V} = {R[w].priority : w \in V}
  OBVIOUS
<1>3. WaiterPriority(T, M, id) = WaiterPriority(R, N, id)
  BY <1>1, <1>2, WaiterPriorityIs
<1> QED
  BY <1>3 DEF EffectivePriority

-----------------------------------------------------------------------------
(* Raising a chain of owners.                                              *)

(* Where a loop along a chain is: a table that differs from T in           *)
(* priorities, and the task it has come to.                                *)
ChainStates(T) ==
    {s \in [T : [Task -> TCB], id : Task \cup {NoOwner}] : SameEntries(T, s.T)}

LEMMA ChainStart ==
    ASSUME NEW T \in [Task -> TCB], NEW owner \in Task
    PROVE  [T |-> T, id |-> owner] \in ChainStates(T)
BY DEF ChainStates, SameEntries

LEMMA ChainTable ==
    ASSUME NEW M \in Mutexes, NEW T \in Tables(M), NEW s \in ChainStates(T)
    PROVE  /\ s.T \in Tables(M) /\ s.T \in [Task -> TCB]
           /\ s.id \in Task \cup {NoOwner}
           /\ SameEntries(T, s.T)
           /\ \A i \in Task : /\ BlockedBehind(s.T, M, i) = BlockedBehind(T, M, i)
                              /\ s.T[i] \in TCB
                              /\ s.T[i].priority \in Priority
<1>1. /\ s.T \in [Task -> TCB] /\ s.id \in Task \cup {NoOwner}
      /\ SameEntries(T, s.T)
  BY DEF ChainStates
<1>2. \A i \in Task : s.T[i] \in TCB /\ s.T[i].priority \in Priority
  BY <1>1 DEF TCB
<1> QED
  BY <1>1, <1>2, BehindSame

(* The entry of one task gets another priority.                            *)
LEMMA RerankOne ==
    ASSUME NEW T, NEW s \in ChainStates(T), NEW i \in Task, NEW p \in Priority
    PROVE  LET R == [s.T EXCEPT ![i].priority = p]
           IN  /\ R \in [Task -> TCB] /\ SameEntries(T, R)
               /\ R[i].priority = p
               /\ \A j \in Task \ {i} : R[j] = s.T[j]
<1> DEFINE e == [s.T[i] EXCEPT !.priority = p]
           R == [s.T EXCEPT ![i].priority = p]
<1>1. s.T \in [Task -> TCB] /\ s.T[i] \in TCB /\ SameEntries(T, s.T)
  BY DEF ChainStates
<1>2. e \in TCB /\ e.priority = p /\ Unranked(e) = Unranked(s.T[i])
  BY <1>1, Reranked
<1>3. R = [s.T EXCEPT ![i] = e]
  OBVIOUS
<1> HIDE DEF e, R
<1>4. R \in [Task -> TCB] /\ R[i] = e /\ \A j \in Task \ {i} : R[j] = s.T[j]
  BY <1>1, <1>2, <1>3
<1>5. SameEntries(T, R)
  BY <1>1, <1>2, <1>4 DEF SameEntries
<1> QED
  BY <1>2, <1>4, <1>5 DEF R

Higher(p, q) == IF p < q THEN q ELSE p

LEMMA RaiseStep ==
    ASSUME NEW M \in Mutexes, NEW T \in Tables(M), NEW p \in Priority,
           NEW s \in ChainStates(T)
    PROVE  LET r == Raise(M, p, s)
           IN  /\ r \in ChainStates(T)
               /\ s.id = NoOwner => r = s
               /\ s.id # NoOwner =>
                     /\ s.id \in Task
                     /\ r.id = BlockedBehind(T, M, s.id)
                     /\ r.T[s.id].priority = Higher(s.T[s.id].priority, p)
                     /\ \A i \in Task \ {s.id} : r.T[i] = s.T[i]
<1> DEFINE r == Raise(M, p, s)
<1>1. CASE s.id = NoOwner
  BY <1>1 DEF Raise
<1>2. CASE s.id # NoOwner
  <2> DEFINE i == s.id
             q == Higher(s.T[i].priority, p)
             R == [s.T EXCEPT ![i].priority = q]
  <2>1. /\ i \in Task /\ s.T[i].priority \in Priority
        /\ BlockedBehind(s.T, M, i) = BlockedBehind(T, M, i)
    BY <1>2, ChainTable
  <2>2. q \in Priority
    BY <2>1 DEF Higher
  <2>3. r = [T |-> R, id |-> BlockedBehind(T, M, i)]
    BY <1>2, <2>1 DEF Raise, Higher
  <2>4. BlockedBehind(T, M, i) \in Task \cup {NoOwner}
    BY <2>1, BehindIs
  <2> HIDE DEF q, i
  <2>5. /\ R \in [Task -> TCB] /\ SameEntries(T, R) /\ R[i].priority = q
        /\ \A j \in Task \ {i} : R[j] = s.T[j]
    BY <2>1, <2>2, RerankOne
  <2> HIDE DEF R, r
  <2>6. /\ r \in ChainStates(T) /\ r.T = R /\ r.id = BlockedBehind(T, M, i)
    BY <2>3, <2>4, <2>5 DEF ChainStates
  <2> QED
    BY <1>2, <2>1, <2>5, <2>6 DEF q, i, r
<1> QED
  BY <1>1, <1>2

(* The loop of task_inherit_priority.                                      *)
LEMMA InheritLoop ==
    ASSUME NEW M \in Mutexes, NEW T \in Tables(M), NEW p \in Priority,
           NEW owner \in Task
    PROVE  \E f \in [0 .. task_count -> ChainStates(T)] :
              /\ f[0] = [T |-> T, id |-> owner]
              /\ \A d \in 1 .. task_count : f[d] = Raise(M, p, f[d - 1])
              /\ task_inherit_priority(T, M, owner, p) = f[task_count].T
<1> DEFINE n == task_count
           S == ChainStates(T)
           s == [T |-> T, id |-> owner]
           step == [d \in 1 .. n |-> [r \in S |-> Raise(M, p, r)]]
           Loop(f) == f = [d \in 0 .. n |->
                              IF d = 0 THEN s ELSE Raise(M, p, f[d - 1])]
           chain == CHOOSE f : Loop(f)
<1>1. n \in Nat
  BY TaskTableAssumption DEF task_count
<1>2. s \in S
  BY ChainStart DEF Tables
<1>3. step \in [1 .. n -> [S -> S]]
  BY RaiseStep
<1> HIDE DEF n, S, s, step
<1>0. PICK f : Iterates(f, n, S, s, step)
  BY <1>1, <1>2, <1>3, IterationExists
<1>4. /\ f \in [0 .. n -> S] /\ f[0] = s
      /\ \A d \in 1 .. n : f[d] = step[d][f[d - 1]]
  BY <1>0 DEF Iterates
<1>5. Loop(f)
  <2>1. ASSUME NEW d \in 0 .. n
        PROVE  f[d] = IF d = 0 THEN s ELSE Raise(M, p, f[d - 1])
    <3>1. CASE d = 0
      BY <1>4, <3>1
    <3>2. CASE d # 0
      <4>1. d \in 1 .. n /\ d - 1 \in 0 .. n
        BY <1>1, <3>2
      <4>2. f[d - 1] \in S
        BY <1>4, <4>1
      <4> QED
        BY <1>4, <3>2, <4>1, <4>2 DEF step
    <3> QED
      BY <3>1, <3>2
  <2> QED
    BY <1>4, <2>1
<1>6. Loop(chain)
  <2> HIDE DEF Loop
  <2> QED
    BY <1>5
<1>7. task_inherit_priority(T, M, owner, p) = chain[n].T
  BY DEF task_inherit_priority, n, s
<1> HIDE DEF chain
<1>8. /\ chain[0] = s
      /\ \A d \in 1 .. n : d \in 0 .. n /\ chain[d] = Raise(M, p, chain[d - 1])
  BY <1>1, <1>6
<1>9. \A d \in 0 .. n : chain[d] \in S
  <2> DEFINE G == {d \in 0 .. n : chain[d] \in S}
  <2>1. 0 \in G
    BY <1>1, <1>2, <1>8
  <2>2. ASSUME NEW d \in 1 .. n, d - 1 \in G
        PROVE  d \in G
    BY <1>8, <2>2, RaiseStep DEF S
  <2> HIDE DEF G
  <2>3. \A d \in 0 .. n : d \in G
    BY <1>1, <2>1, <2>2, UpTo
  <2> QED
    BY <2>3 DEF G
<1>10. chain \in [0 .. n -> S]
  BY <1>6, <1>9
<1> QED
  BY <1>7, <1>8, <1>10 DEF n, S, s
(* After d turns the loop has raised the tasks of V and come to s.id: it   *)
(* has met d tasks, or one of them again, or the end of the chain.         *)
Raised(V, s, d, T, M, p, owner) ==
    /\ V \subseteq Task
    /\ \A v \in V : s.T[v].priority = Higher(T[v].priority, p)
    /\ \A i \in Task \ V : s.T[i] = T[i]
    /\ \A v \in V : BlockedBehind(T, M, v) \in V \cup {NoOwner, s.id}
    /\ \A v \in V \cup ({s.id} \ {NoOwner}) :
          v = owner \/ \E w \in Task : BlockedBehind(T, M, w) = v
    /\ owner \in V \cup {s.id}
    /\ Cardinality(V) = d \/ s.id \in V \cup {NoOwner}

LEMMA TasksFinite ==
    /\ IsFiniteSet(Task) /\ Cardinality(Task) = task_count
    /\ \A V : V \subseteq Task =>
          /\ IsFiniteSet(V) /\ Cardinality(V) \in Nat
          /\ Cardinality(V) = task_count => V = Task
<1>1. task_count \in Nat /\ task_count >= 2
  BY TaskTableAssumption DEF task_count
<1>2. IsFiniteSet(Task) /\ Cardinality(Task) = task_count
  <2>1. 0 \in Int /\ task_count - 1 \in Int
    BY <1>1
  <2>2. Cardinality(0 .. task_count - 1) =
           IF 0 > task_count - 1 THEN 0 ELSE (task_count - 1) - 0 + 1
    BY <2>1, FS_Interval
  <2>3. Cardinality(0 .. task_count - 1) = task_count
    BY <1>1, <2>2
  <2> QED
    BY <2>1, <2>3, FS_Interval DEF Task
<1>3. ASSUME NEW V, V \subseteq Task
      PROVE  /\ IsFiniteSet(V) /\ Cardinality(V) \in Nat
             /\ Cardinality(V) = task_count => V = Task
  <2>1. IsFiniteSet(V)
    BY <1>2, <1>3, FS_Subset
  <2>2. Cardinality(V) \in Nat
    BY <2>1, FS_CardinalityType
  <2>3. Cardinality(V) = task_count => V = Task
    BY <1>2, <1>3, FS_Subset
  <2> QED
    BY <2>1, <2>2, <2>3
<1> QED
  BY <1>2, <1>3

LEMMA HigherIs ==
    ASSUME NEW a \in Priority, NEW p \in Priority
    PROVE  /\ Higher(a, p) \in Priority
           /\ a <= Higher(a, p) /\ p <= Higher(a, p)
           /\ Higher(a, p) \in {a, p}
           /\ Higher(Higher(a, p), p) = Higher(a, p)
BY TaskTableAssumption DEF Higher, Priority

LEMMA RaisedStep ==
    ASSUME NEW M \in Mutexes, NEW T \in Tables(M), NEW p \in Priority,
           NEW owner \in Task, NEW s \in ChainStates(T), NEW d \in Nat,
           NEW V, Raised(V, s, d, T, M, p, owner)
    PROVE  \E W : Raised(W, Raise(M, p, s), d + 1, T, M, p, owner)
<1> DEFINE r == Raise(M, p, s)
           i == s.id
<1>1. /\ r \in ChainStates(T)
      /\ i = NoOwner => r = s
      /\ i # NoOwner => /\ i \in Task
                        /\ r.id = BlockedBehind(T, M, i)
                        /\ r.T[i].priority = Higher(s.T[i].priority, p)
                        /\ \A j \in Task \ {i} : r.T[j] = s.T[j]
  BY RaiseStep
<1>2. /\ V \subseteq Task
      /\ \A v \in V : s.T[v].priority = Higher(T[v].priority, p)
      /\ \A j \in Task \ V : s.T[j] = T[j]
      /\ \A v \in V : BlockedBehind(T, M, v) \in V \cup {NoOwner, i}
      /\ \A v \in V \cup ({i} \ {NoOwner}) :
            v = owner \/ \E w \in Task : BlockedBehind(T, M, w) = v
      /\ owner \in V \cup {i}
      /\ Cardinality(V) = d \/ i \in V \cup {NoOwner}
  BY DEF Raised
<1>3. \A j \in Task : T[j].priority \in Priority
  BY DEF Tables, TCB
<1> HIDE DEF r, i
<1>4. CASE i = NoOwner
  <2>1. Raised(V, r, d + 1, T, M, p, owner)
    BY <1>1, <1>2, <1>4 DEF Raised, i
  <2> QED
    BY <2>1 DEF r
<1>5. CASE i # NoOwner /\ i \in V
  <2>1. \A v \in V : r.T[v].priority = Higher(T[v].priority, p)
    BY <1>1, <1>2, <1>3, <1>5, HigherIs
  <2>2. r.id \in V \cup {NoOwner}
    BY <1>1, <1>2, <1>5
  <2>3. Raised(V, r, d + 1, T, M, p, owner)
    BY <1>1, <1>2, <1>5, <2>1, <2>2 DEF Raised
  <2> QED
    BY <2>3 DEF r
<1>6. CASE i # NoOwner /\ i \notin V
  <2> DEFINE W == V \cup {i}
  <2>1. W \subseteq Task /\ i \in Task
    BY <1>1, <1>2, <1>6
  <2>2. \A v \in W : r.T[v].priority = Higher(T[v].priority, p)
    BY <1>1, <1>2, <1>6, <2>1
  <2>3. \A j \in Task \ W : r.T[j] = T[j]
    BY <1>1, <1>2, <1>6
  <2>4. \A v \in W : BlockedBehind(T, M, v) \in W \cup {NoOwner, r.id}
    BY <1>1, <1>2, <1>6
  <2>5. \A v \in W \cup ({r.id} \ {NoOwner}) :
           v = owner \/ \E w \in Task : BlockedBehind(T, M, w) = v
    BY <1>1, <1>2, <1>6, <2>1
  <2>6. Cardinality(W) = d + 1
    <3>1. IsFiniteSet(V)
      BY <1>2, TasksFinite
    <3> QED
      BY <1>2, <1>6, <3>1, FS_AddElement
  <2>7. Raised(W, r, d + 1, T, M, p, owner)
    <3>1. owner \in W \cup {r.id}
      BY <1>2
    <3> HIDE DEF W
    <3> QED
      BY <2>1, <2>2, <2>3, <2>4, <2>5, <2>6, <3>1 DEF Raised
  <2> QED
    BY <2>7 DEF r
<1> QED
  BY <1>4, <1>5, <1>6

(* task_inherit_priority raises owners only, the first one for certain,    *)
(* and as many behind it as it takes, a cycle of owners included.          *)
LEMMA InheritResult ==
    ASSUME NEW M \in Mutexes, NEW T \in Tables(M), NEW p \in Priority,
           NEW owner \in Task
    PROVE  LET R == task_inherit_priority(T, M, owner, p)
           IN  /\ R \in [Task -> TCB] /\ SameEntries(T, R)
               /\ p <= R[owner].priority
               /\ \A i \in Task : /\ T[i].priority <= R[i].priority
                                  /\ R[i].priority \in {T[i].priority, p}
               /\ \A i \in Task : R[i].priority # T[i].priority =>
                      i = owner \/ \E w \in Task : BlockedBehind(T, M, w) = i
               /\ NoInversion(T, M) => NoInversion(R, M)
<1> DEFINE R == task_inherit_priority(T, M, owner, p)
           n == task_count
<1>1. PICK f \in [0 .. n -> ChainStates(T)] :
         /\ f[0] = [T |-> T, id |-> owner]
         /\ \A d \in 1 .. n : f[d] = Raise(M, p, f[d - 1])
         /\ R = f[n].T
  BY InheritLoop
<1>2. n \in Nat
  BY TaskTableAssumption DEF task_count
<1> HIDE DEF n, R
<1>3. PICK V : Raised(V, f[n], n, T, M, p, owner)
  <2> DEFINE G == {d \in 0 .. n : \E V : Raised(V, f[d], d, T, M, p, owner)}
  <2>1. 0 \in G
    <3>1. Raised({}, f[0], 0, T, M, p, owner)
      BY <1>1, FS_EmptySet DEF Raised
    <3> QED
      BY <1>2, <3>1
  <2>2. ASSUME NEW d \in 1 .. n, d - 1 \in G
        PROVE  d \in G
    <3>1. PICK V : Raised(V, f[d - 1], d - 1, T, M, p, owner)
      BY <2>2
    <3>2. d - 1 \in Nat /\ d - 1 \in 0 .. n /\ (d - 1) + 1 = d /\ d \in 0 .. n
      BY <1>2
    <3>3. \E W : Raised(W, Raise(M, p, f[d - 1]), (d - 1) + 1, T, M, p, owner)
      BY <1>1, <3>1, <3>2, RaisedStep
    <3>4. \E W : Raised(W, f[d], d, T, M, p, owner)
      BY <1>1, <3>2, <3>3
    <3> QED
      BY <3>2, <3>4
  <2> HIDE DEF G
  <2>3. n \in G
    BY <1>2, <2>1, <2>2, UpTo
  <2> QED
    BY <2>3 DEF G
<1> DEFINE s == f[n]
<1>4. s \in ChainStates(T) /\ R = s.T
  BY <1>1, <1>2
<1> HIDE DEF s
<1>5. /\ V \subseteq Task
      /\ \A v \in V : R[v].priority = Higher(T[v].priority, p)
      /\ \A i \in Task \ V : R[i] = T[i]
      /\ \A v \in V : BlockedBehind(T, M, v) \in V \cup {NoOwner, s.id}
      /\ \A v \in V :
            v = owner \/ \E w \in Task : BlockedBehind(T, M, w) = v
      /\ owner \in V \cup {s.id}
      /\ Cardinality(V) = n \/ s.id \in V \cup {NoOwner}
  BY <1>3, <1>4 DEF Raised, s
<1>6. s.id \in V \cup {NoOwner}
  BY <1>4, <1>5, TasksFinite, ChainTable DEF n
<1>7. owner \in V /\ \A v \in V : BlockedBehind(T, M, v) \in V \cup {NoOwner}
  BY <1>5, <1>6, TaskIndices DEF NoOwner
<1>8. \A i \in Task : T[i].priority \in Priority
  BY DEF Tables, TCB
<1>9. R \in [Task -> TCB] /\ SameEntries(T, R)
  BY <1>4, ChainTable
<1>10. ASSUME NEW i \in Task
       PROVE  /\ T[i].priority <= R[i].priority
              /\ R[i].priority \in {T[i].priority, p}
              /\ i \in V => p <= R[i].priority
  <2>1. T[i].priority <= T[i].priority
    BY <1>8, TaskTableAssumption DEF Priority
  <2> QED
    BY <1>5, <1>8, <2>1, HigherIs
<1>11. ASSUME NoInversion(T, M)
       PROVE  NoInversion(R, M)
  <2> SUFFICES ASSUME NEW w \in Task, BlockedBehind(R, M, w) # NoOwner
               PROVE  R[w].priority <= R[BlockedBehind(R, M, w)].priority
    BY DEF NoInversion
  <2> DEFINE o == BlockedBehind(R, M, w)
  <2>1. o = BlockedBehind(T, M, w) /\ o \in Task
    BY <1>9, BehindSame, BehindIs
  <2>2. T[w].priority <= T[o].priority
    BY <1>11, <2>1 DEF NoInversion
  <2>3. w \in V => o \in V
    BY <1>7, <2>1
  <2> HIDE DEF o
  <2>4. /\ T[o].priority <= R[o].priority
        /\ o \in V => p <= R[o].priority
        /\ R[w].priority \in {T[w].priority, p}
        /\ w \notin V => R[w].priority = T[w].priority
    BY <1>5, <1>10, <2>1
  <2>5. /\ T[w].priority \in Int /\ T[o].priority \in Int
        /\ R[o].priority \in Int /\ p \in Int
    <3>1. R[o] \in TCB
      BY <1>9, <2>1
    <3> QED
      BY <1>8, <2>1, <3>1 DEF TCB, Priority
  <2> QED
    BY <2>2, <2>3, <2>4, <2>5 DEF o
<1> QED
  BY <1>5, <1>7, <1>9, <1>10, <1>11 DEF R
-----------------------------------------------------------------------------
(* Restoring a chain of owners.                                            *)

AboveBase(T) == \A i \in Task : base_priority[i] <= T[i].priority

(* The priority of a task is what the tasks behind it justify.             *)
Exact(T, M, id) == T[id].priority = EffectivePriority(T, M, id)

(* The priority of task id is restored.                                    *)
LEMMA RestoreOne ==
    ASSUME NEW M \in Mutexes, NEW T \in Tables(M), NEW id \in Task
    PROVE  LET R == task_restore_priority(T, M, id)
           IN  /\ R \in Tables(M) /\ SameEntries(T, R)
               /\ R[id].priority = EffectivePriority(T, M, id)
               /\ \A i \in Task \ {id} : R[i] = T[i]
               /\ \A o \in Task : /\ o # BlockedBehind(T, M, id)
                                  /\ o = id \/ Exact(T, M, o)
                                  => Exact(R, M, o)
<1> DEFINE p == EffectivePriority(T, M, id)
           R == task_restore_priority(T, M, id)
           s == [T |-> T, id |-> id]
<1>1. p \in Priority
  BY EffectiveIs
<1>2. s \in ChainStates(T) /\ s.T = T
  BY ChainStart DEF Tables
<1>3. R = [s.T EXCEPT ![id].priority = p]
  BY DEF task_restore_priority
<1> HIDE DEF p, s, R
<1>4. /\ R \in [Task -> TCB] /\ SameEntries(T, R) /\ R[id].priority = p
      /\ \A i \in Task \ {id} : R[i] = T[i]
  <2> DEFINE Q == [s.T EXCEPT ![id].priority = p]
  <2>1. /\ Q \in [Task -> TCB] /\ SameEntries(T, Q) /\ Q[id].priority = p
        /\ \A i \in Task \ {id} : Q[i] = s.T[i]
    BY <1>1, <1>2, RerankOne
  <2>2. Q = R
    BY <1>3
  <2> HIDE DEF Q
  <2> QED
    BY <1>2, <2>1, <2>2
<1>5. /\ R \in Tables(M)
      /\ \A i \in Task : BlockedBehind(R, M, i) = BlockedBehind(T, M, i)
  BY <1>4, BehindSame
<1>6. ASSUME NEW o \in Task, o # BlockedBehind(T, M, id),
             o = id \/ Exact(T, M, o)
      PROVE  Exact(R, M, o)
  <2>1. \A w \in Task : BlockedBehind(T, M, w) = o =>
           R[w].priority = T[w].priority
    BY <1>4, <1>6
  <2>2. EffectivePriority(R, M, o) = EffectivePriority(T, M, o)
    BY <1>5, <2>1, EffectiveSame
  <2> QED
    BY <1>4, <1>6, <2>2 DEF Exact, p
<1> QED
  BY <1>4, <1>5, <1>6 DEF p, R

(* One turn of restore_priority_chain lowers a priority or ends the loop.  *)
LEMMA RestoreStep ==
    ASSUME NEW M \in Mutexes, NEW T \in Tables(M), NEW s \in ChainStates(T)
    PROVE  LET r == Restore(M, s)
               i == s.id
           IN  /\ r \in ChainStates(T)
               /\ i = NoOwner => r = s
               /\ i # NoOwner =>
                     /\ i \in Task
                     /\ r.T = task_restore_priority(s.T, M, i)
                     /\ r.T[i].priority = EffectivePriority(s.T, M, i)
                     /\ \A j \in Task \ {i} : r.T[j] = s.T[j]
                     /\ r.T[i].priority = s.T[i].priority =>
                           r.id = NoOwner /\ r.T = s.T
                     /\ r.T[i].priority # s.T[i].priority =>
                           r.id = BlockedBehind(T, M, i)
<1> DEFINE r == Restore(M, s)
           i == s.id
           R == task_restore_priority(s.T, M, i)
<1>1. CASE i = NoOwner
  BY <1>1 DEF Restore
<1>2. CASE i # NoOwner
  <2>1. /\ i \in Task /\ s.T \in Tables(M) /\ s.T \in [Task -> TCB]
        /\ SameEntries(T, s.T)
    BY <1>2, ChainTable
  <2>2. r = [T  |-> R,
             id |-> IF R[i].priority = s.T[i].priority
                    THEN NoOwner ELSE BlockedBehind(R, M, i)]
    BY <1>2 DEF Restore
  <2> HIDE DEF r, i
  <2>3. /\ R \in Tables(M) /\ SameEntries(s.T, R)
        /\ R[i].priority = EffectivePriority(s.T, M, i)
        /\ \A j \in Task \ {i} : R[j] = s.T[j]
    BY <2>1, RestoreOne
  <2> HIDE DEF R
  <2>4. R \in [Task -> TCB] /\ SameEntries(T, R)
    BY <2>1, <2>3 DEF Tables, SameEntries
  <2>5. BlockedBehind(R, M, i) = BlockedBehind(T, M, i)
    BY <2>1, <2>4, BehindSame
  <2>6. BlockedBehind(T, M, i) \in Task \cup {NoOwner}
    BY <2>1, BehindIs
  <2>7. /\ r \in ChainStates(T) /\ r.T = R
        /\ r.id = IF R[i].priority = s.T[i].priority
                  THEN NoOwner ELSE BlockedBehind(T, M, i)
    BY <2>2, <2>4, <2>5, <2>6 DEF ChainStates
  <2>8. R[i].priority = s.T[i].priority => R = s.T
    <3> SUFFICES ASSUME R[i].priority = s.T[i].priority
                 PROVE  R = s.T
      OBVIOUS
    <3>1. R[i] \in TCB /\ s.T[i] \in TCB /\ Unranked(R[i]) = Unranked(s.T[i])
      BY <2>1, <2>3, <2>4 DEF SameEntries
    <3>2. R[i] = s.T[i]
      BY <3>1, UnrankedFields DEF TCB
    <3> QED
      BY <2>1, <2>3, <2>4, <3>2
  <2> QED
    BY <1>2, <2>1, <2>3, <2>7, <2>8 DEF r, i, R
<1> QED
  BY <1>1, <1>2

(* The loop of restore_priority_chain.                                     *)
LEMMA RestoreLoop ==
    ASSUME NEW M \in Mutexes, NEW T \in Tables(M), NEW start \in Task
    PROVE  \E f \in [0 .. task_count -> ChainStates(T)] :
              /\ f[0] = [T |-> T, id |-> start]
              /\ \A d \in 1 .. task_count : f[d] = Restore(M, f[d - 1])
              /\ restore_priority_chain(T, M, start) = f[task_count].T
<1> DEFINE n == task_count
           S == ChainStates(T)
           s == [T |-> T, id |-> start]
           step == [d \in 1 .. n |-> [r \in S |-> Restore(M, r)]]
           Loop(f) == f = [d \in 0 .. n |->
                              IF d = 0 THEN s ELSE Restore(M, f[d - 1])]
           chain == CHOOSE f : Loop(f)
<1>1. n \in Nat
  BY TaskTableAssumption DEF task_count
<1>2. s \in S
  BY ChainStart DEF Tables
<1>3. step \in [1 .. n -> [S -> S]]
  BY RestoreStep
<1> HIDE DEF n, S, s, step
<1>0. PICK f : Iterates(f, n, S, s, step)
  BY <1>1, <1>2, <1>3, IterationExists
<1>4. /\ f \in [0 .. n -> S] /\ f[0] = s
      /\ \A d \in 1 .. n : f[d] = step[d][f[d - 1]]
  BY <1>0 DEF Iterates
<1>5. Loop(f)
  <2>1. ASSUME NEW d \in 0 .. n
        PROVE  f[d] = IF d = 0 THEN s ELSE Restore(M, f[d - 1])
    <3>1. CASE d = 0
      BY <1>4, <3>1
    <3>2. CASE d # 0
      <4>1. d \in 1 .. n /\ d - 1 \in 0 .. n
        BY <1>1, <3>2
      <4>2. f[d - 1] \in S
        BY <1>4, <4>1
      <4> QED
        BY <1>4, <3>2, <4>1, <4>2 DEF step
    <3> QED
      BY <3>1, <3>2
  <2> QED
    BY <1>4, <2>1
<1>6. Loop(chain)
  <2> HIDE DEF Loop
  <2> QED
    BY <1>5
<1>7. restore_priority_chain(T, M, start) = chain[n].T
  BY DEF restore_priority_chain, n, s
<1> HIDE DEF chain
<1>8. /\ chain[0] = s
      /\ \A d \in 1 .. n : d \in 0 .. n /\ chain[d] = Restore(M, chain[d - 1])
  BY <1>1, <1>6
<1>9. \A d \in 0 .. n : chain[d] \in S
  <2> DEFINE G == {d \in 0 .. n : chain[d] \in S}
  <2>1. 0 \in G
    BY <1>1, <1>2, <1>8
  <2>2. ASSUME NEW d \in 1 .. n, d - 1 \in G
        PROVE  d \in G
    BY <1>8, <2>2, RestoreStep DEF S
  <2> HIDE DEF G
  <2>3. \A d \in 0 .. n : d \in G
    BY <1>1, <2>1, <2>2, UpTo
  <2> QED
    BY <2>3 DEF G
<1>10. chain \in [0 .. n -> S]
  BY <1>6, <1>9
<1> QED
  BY <1>7, <1>8, <1>10 DEF n, S, s
(* What holds after every turn of the loop that began with table T at      *)
(* task start.                                                             *)
Restoring(s, T, M, start) ==
    /\ AboveBase(s.T) /\ NoInversion(s.T, M)
    /\ \A i \in Task : s.T[i].priority <= T[i].priority
    /\ \A o \in Task \ {s.id} : o = start \/ Exact(T, M, o) =>
                                    Exact(s.T, M, o)
    /\ s.id # NoOwner => \/ s.id = start
                         \/ \E w \in Task : BlockedBehind(T, M, w) = s.id
    /\ \A i \in Task : s.T[i].priority # T[i].priority =>
           i = start \/ \E w \in Task : BlockedBehind(T, M, w) = i

(* After d turns the loop has lowered the d tasks of V, which are beneath  *)
(* the task it has come to.                                                *)
Lowered(V, s, d, T) ==
    /\ V \subseteq Task /\ Cardinality(V) = d
    /\ s.id \in Task \ V
    /\ \A v \in V : /\ s.T[v].priority < T[v].priority
                    /\ T[v].priority <= T[s.id].priority
    /\ \A i \in Task \ V : s.T[i] = T[i]

(* A restored priority is not raised, and inverts nothing.                 *)
LEMMA RestoredCalm ==
    ASSUME NEW M \in Mutexes, NEW T \in Tables(M), NEW id \in Task,
           AboveBase(T), NoInversion(T, M)
    PROVE  LET R == task_restore_priority(T, M, id)
           IN  /\ R[id].priority <= T[id].priority
               /\ AboveBase(R) /\ NoInversion(R, M)
<1> DEFINE R == task_restore_priority(T, M, id)
<1>1. /\ R \in Tables(M) /\ SameEntries(T, R)
      /\ R[id].priority = EffectivePriority(T, M, id)
      /\ \A i \in Task \ {id} : R[i] = T[i]
  BY RestoreOne
<1> HIDE DEF R
<1>2. R \in [Task -> TCB] /\ T \in [Task -> TCB]
  BY <1>1 DEF Tables
<1>3. \A i \in Task : /\ T[i].priority \in Int /\ R[i].priority \in Int
                      /\ base_priority[i] \in Int
                      /\ BlockedBehind(R, M, i) = BlockedBehind(T, M, i)
                      /\ BlockedBehind(T, M, i) \in (Task \ {i}) \cup {NoOwner}
  <2>1. \A i \in Task : T[i].priority \in Int /\ R[i].priority \in Int
    BY <1>2 DEF TCB, Priority
  <2>2. \A i \in Task : base_priority[i] \in Int
    BY TaskTableAssumption DEF Priority
  <2> QED
    BY <1>1, <1>2, <2>1, <2>2, BehindSame, BehindIs
<1>4. /\ base_priority[id] <= R[id].priority
      /\ \A w \in Task : BlockedBehind(T, M, w) = id =>
             T[w].priority <= R[id].priority
      /\ \/ R[id].priority = base_priority[id]
         \/ \E w \in Task : /\ BlockedBehind(T, M, w) = id
                            /\ R[id].priority = T[w].priority
  BY <1>1, EffectiveIs
<1>5. id # NoOwner
  BY TaskIndices DEF NoOwner
<1>6. R[id].priority <= T[id].priority
  BY <1>4, <1>5 DEF AboveBase, NoInversion
<1>7. AboveBase(R)
  BY <1>1, <1>4 DEF AboveBase
<1>8. NoInversion(R, M)
  <2> SUFFICES ASSUME NEW w \in Task, BlockedBehind(R, M, w) # NoOwner
               PROVE  R[w].priority <= R[BlockedBehind(R, M, w)].priority
    BY DEF NoInversion
  <2> DEFINE o == BlockedBehind(T, M, w)
  <2>1. o = BlockedBehind(R, M, w) /\ o \in Task \ {w}
    BY <1>3
  <2>2. T[w].priority <= T[o].priority
    BY <2>1 DEF NoInversion
  <2>3. o = id => T[w].priority <= R[o].priority
    BY <1>4
  <2> HIDE DEF o
  <2>4. R[w].priority <= T[w].priority
    <3>1. T[w].priority <= T[w].priority
      BY <1>3
    <3> QED
      BY <1>1, <1>6, <3>1
  <2>5. T[w].priority <= R[o].priority
    BY <1>1, <2>1, <2>2, <2>3
  <2>6. R[w].priority <= R[o].priority
    BY <1>3, <2>1, <2>4, <2>5
  <2> QED
    BY <2>1, <2>6
<1> QED
  BY <1>6, <1>7, <1>8 DEF R

LEMMA RestoringStep ==
    ASSUME NEW M \in Mutexes, NEW T \in Tables(M), NEW start \in Task,
           NEW s \in ChainStates(T), Restoring(s, T, M, start),
           NoInversion(T, M), NEW d \in Nat, NEW V,
           s.id = NoOwner \/ Lowered(V, s, d, T)
    PROVE  LET r == Restore(M, s)
           IN  /\ Restoring(r, T, M, start)
               /\ r.id = NoOwner \/ \E W : Lowered(W, r, d + 1, T)
<1> DEFINE r == Restore(M, s)
           i == s.id
<1>1. /\ r \in ChainStates(T)
      /\ i = NoOwner => r = s
      /\ i # NoOwner =>
            /\ i \in Task
            /\ r.T = task_restore_priority(s.T, M, i)
            /\ \A j \in Task \ {i} : r.T[j] = s.T[j]
            /\ r.T[i].priority = s.T[i].priority =>
                  r.id = NoOwner /\ r.T = s.T
            /\ r.T[i].priority # s.T[i].priority =>
                  r.id = BlockedBehind(T, M, i)
  BY RestoreStep
<1> HIDE DEF r
<1>2. CASE i = NoOwner
  <2>1. r = s
    BY <1>1, <1>2
  <2> QED
    BY <1>2, <2>1 DEF r
<1>3. CASE i # NoOwner
  <2>1. /\ s.T \in Tables(M) /\ i \in Task
        /\ \A j \in Task : BlockedBehind(s.T, M, j) = BlockedBehind(T, M, j)
    BY <1>1, <1>3, ChainTable
  <2>2. AboveBase(s.T) /\ NoInversion(s.T, M)
    BY DEF Restoring
  <2>3. /\ r.T[i].priority <= s.T[i].priority
        /\ AboveBase(r.T) /\ NoInversion(r.T, M)
    BY <1>1, <1>3, <2>1, <2>2, RestoredCalm
  <2>4. \A j \in Task : /\ T[j].priority \in Int /\ s.T[j].priority \in Int
                        /\ r.T[j].priority \in Int
    <3>1. \A j \in Task : T[j].priority \in Priority
      BY DEF Tables, TCB
    <3> QED
      BY <1>1, <3>1, ChainTable DEF Priority
  <2>5. \A j \in Task : r.T[j].priority <= T[j].priority
    <3> SUFFICES ASSUME NEW j \in Task
                 PROVE  r.T[j].priority <= T[j].priority
      OBVIOUS
    <3>1. s.T[j].priority <= T[j].priority
      BY DEF Restoring
    <3>2. r.T[j].priority <= s.T[j].priority
      BY <1>1, <1>3, <2>3, <2>4
    <3> QED
      BY <2>4, <3>1, <3>2
  <2>6. ASSUME NEW o \in Task \ {r.id}, o = start \/ Exact(T, M, o)
        PROVE  Exact(r.T, M, o)
    <3>1. o = i \/ Exact(s.T, M, o)
      BY <2>6 DEF Restoring
    <3>2. CASE r.T[i].priority # s.T[i].priority
      <4>1. o # BlockedBehind(s.T, M, i)
        BY <1>1, <1>3, <2>1, <2>6, <3>2
      <4> QED
        BY <1>1, <1>3, <2>1, <3>1, <4>1, RestoreOne
    <3>3. CASE r.T[i].priority = s.T[i].priority
      <4>1. r.T = s.T
        BY <1>1, <1>3, <3>3
      <4>2. i # BlockedBehind(s.T, M, i)
        BY <1>3, <2>1, BehindIs
      <4>3. Exact(r.T, M, i)
        BY <1>1, <1>3, <2>1, <4>2, RestoreOne
      <4> QED
        BY <3>1, <4>1, <4>3
    <3> QED
      BY <3>2, <3>3
  <2>7. r.id # NoOwner => \E w \in Task : BlockedBehind(T, M, w) = r.id
    BY <1>1, <1>3
  <2>8. ASSUME NEW j \in Task, r.T[j].priority # T[j].priority
        PROVE  j = start \/ \E w \in Task : BlockedBehind(T, M, w) = j
    BY <1>1, <1>3, <2>8 DEF Restoring
  <2>9. Restoring(r, T, M, start)
    BY <2>3, <2>5, <2>6, <2>7, <2>8 DEF Restoring
  <2>10. ASSUME r.id # NoOwner
         PROVE  Lowered(V \cup {i}, r, d + 1, T)
    <3> DEFINE o == r.id
               W == V \cup {i}
    <3>1. /\ V \subseteq Task /\ Cardinality(V) = d /\ i \in Task \ V
          /\ \A v \in V : /\ s.T[v].priority < T[v].priority
                          /\ T[v].priority <= T[i].priority
          /\ \A j \in Task \ V : s.T[j] = T[j]
      BY <1>3 DEF Lowered
    <3>2. r.T[i].priority # s.T[i].priority /\ o = BlockedBehind(T, M, i)
      BY <1>1, <1>3, <2>10
    <3>3. o \in Task \ {i}
      BY <2>1, <2>10, <3>2, BehindIs
    <3>4. T[i].priority <= T[o].priority
      BY <2>1, <2>10, <3>2 DEF NoInversion
    <3>5. s.T[i].priority <= s.T[o].priority
      BY <2>1, <2>2, <2>10, <3>2 DEF NoInversion
    <3> HIDE DEF o
    <3>6. o \notin V
      <4> SUFFICES ASSUME o \in V
                   PROVE  FALSE
        OBVIOUS
      <4>1. s.T[o].priority < T[o].priority /\ T[o].priority <= T[i].priority
        BY <3>1
      <4>2. s.T[i] = T[i]
        BY <3>1
      <4> QED
        BY <2>1, <2>4, <3>3, <3>5, <4>1, <4>2
    <3>7. Cardinality(W) = d + 1
      <4>1. IsFiniteSet(V)
        BY <3>1, TasksFinite
      <4> QED
        BY <3>1, <4>1, FS_AddElement
    <3>8. ASSUME NEW v \in W
          PROVE  r.T[v].priority < T[v].priority /\ T[v].priority <= T[o].priority
      <4>1. CASE v = i
        <5>1. s.T[i] = T[i]
          BY <3>1
        <5> QED
          BY <2>1, <2>3, <2>4, <3>2, <3>4, <4>1, <5>1
      <4>2. CASE v \in V /\ v # i
        <5>1. v \in Task /\ r.T[v] = s.T[v]
          BY <1>1, <1>3, <3>1, <4>2
        <5> QED
          BY <2>1, <2>4, <3>1, <3>3, <3>4, <4>2, <5>1
      <4> QED
        BY <4>1, <4>2
    <3>9. \A j \in Task \ W : r.T[j] = T[j]
      BY <1>1, <1>3, <3>1
    <3>10. W \subseteq Task /\ o \in Task \ W
      BY <3>1, <3>3, <3>6
    <3> HIDE DEF W
    <3>11. Lowered(W, r, d + 1, T)
      BY <3>7, <3>8, <3>9, <3>10 DEF Lowered, o
    <3> QED
      BY <3>11 DEF W
  <2> QED
    BY <2>9, <2>10 DEF r
<1> QED
  BY <1>2, <1>3
(* restore_priority_chain lowers owners only, ends within its bound, and   *)
(* leaves the task it began with, and every task that was exact before,    *)
(* with exactly the priority the tasks behind it justify.                  *)
LEMMA RestoreResult ==
    ASSUME NEW M \in Mutexes, NEW T \in Tables(M), NEW start \in Task,
           AboveBase(T), NoInversion(T, M)
    PROVE  LET R == restore_priority_chain(T, M, start)
           IN  /\ R \in Tables(M) /\ SameEntries(T, R)
               /\ AboveBase(R) /\ NoInversion(R, M)
               /\ \A i \in Task : R[i].priority # T[i].priority =>
                      i = start \/ \E w \in Task : BlockedBehind(T, M, w) = i
               /\ \A o \in Task : o = start \/ Exact(T, M, o) => Exact(R, M, o)
<1> DEFINE R == restore_priority_chain(T, M, start)
           n == task_count
           Good(d, s) == /\ Restoring(s, T, M, start)
                         /\ s.id = NoOwner \/ \E V : Lowered(V, s, d, T)
<1>1. PICK f \in [0 .. n -> ChainStates(T)] :
         /\ f[0] = [T |-> T, id |-> start]
         /\ \A d \in 1 .. n : f[d] = Restore(M, f[d - 1])
         /\ R = f[n].T
  BY RestoreLoop
<1>2. n \in Nat
  BY TaskTableAssumption DEF task_count
<1> HIDE DEF n, R
<1>3. Good(n, f[n])
  <2> DEFINE G == {d \in 0 .. n : Good(d, f[d])}
  <2>1. 0 \in G
    <3>1. f[0].T = T /\ f[0].id = start
      BY <1>1
    <3>2. \A i \in Task : T[i].priority <= T[i].priority
      <4>1. \A i \in Task : T[i].priority \in Int
        BY DEF Tables, TCB, Priority
      <4> QED
        BY <4>1
    <3>3. Restoring(f[0], T, M, start)
      BY <3>1, <3>2 DEF Restoring
    <3>4. Lowered({}, f[0], 0, T)
      BY <3>1, FS_EmptySet DEF Lowered
    <3> QED
      BY <1>2, <3>3, <3>4
  <2>2. ASSUME NEW d \in 1 .. n, d - 1 \in G
        PROVE  d \in G
    <3> DEFINE e == d - 1
               s == f[e]
    <3>1. e \in Nat /\ e \in 0 .. n /\ e + 1 = d /\ d \in 0 .. n
      BY <1>2
    <3>2. s \in ChainStates(T) /\ f[d] = Restore(M, s)
      BY <1>1, <3>1
    <3>3. Good(e, s)
      BY <2>2
    <3> HIDE DEF e, s
    <3>4. PICK V : s.id = NoOwner \/ Lowered(V, s, e, T)
      BY <3>3
    <3>5. /\ Restoring(f[d], T, M, start)
          /\ f[d].id = NoOwner \/ \E W : Lowered(W, f[d], e + 1, T)
      BY <3>1, <3>2, <3>3, <3>4, RestoringStep
    <3>6. Good(d, f[d])
      BY <3>1, <3>5
    <3> QED
      BY <3>1, <3>6
  <2> HIDE DEF G, Good
  <2>3. n \in G
    BY <1>2, <2>1, <2>2, UpTo
  <2> QED
    BY <2>3 DEF G
<1> DEFINE s == f[n]
<1>4. s \in ChainStates(T) /\ R = s.T
  BY <1>1, <1>2
<1>5. Restoring(s, T, M, start)
  BY <1>3
<1>6. s.id = NoOwner
  <2> SUFFICES ASSUME NEW V, Lowered(V, s, n, T)
               PROVE  FALSE
    BY <1>3
  <2>1. V \subseteq Task /\ Cardinality(V) = n /\ s.id \in Task \ V
    BY DEF Lowered
  <2> QED
    BY <2>1, TasksFinite DEF n
<1> HIDE DEF s
<1>7. \A o \in Task : o \in Task \ {s.id}
  BY <1>6, TaskIndices DEF NoOwner
<1>8. R \in Tables(M) /\ SameEntries(T, R)
  BY <1>4, ChainTable
<1> QED
  BY <1>4, <1>5, <1>7, <1>8 DEF Restoring, R
-----------------------------------------------------------------------------
(* The tick.                                                               *)

LEMMA UnrankedTick ==
    ASSUME NEW a \in TCB, NEW b \in TCB, Unranked(a) = Unranked(b), NEW now
    PROVE  Unranked(tick_task(a, now)) = Unranked(tick_task(b, now))
<1>1. /\ a.state = b.state /\ a.sleep_ticks = b.sleep_ticks
      /\ a.wait_object = b.wait_object /\ a.wait_kind = b.wait_kind
      /\ a.wait_start = b.wait_start /\ a.wait_deadline = b.wait_deadline
      /\ a.wait_forever = b.wait_forever
      /\ a.wait_result = b.wait_result
  BY UnrankedFields
<1>2. WaitExpired(a, now) <=> WaitExpired(b, now)
  BY UnrankedChecks
<1>3. CASE a.state = "SLEEPING" /\ a.sleep_ticks > 0
  <2>1. /\ tick_task(a, now) = tick_sleeper(a)
        /\ tick_task(b, now) = tick_sleeper(b)
    BY <1>1, <1>3 DEF tick_task, WaitExpired
  <2>2. Unranked(tick_sleeper(a)) = Unranked(tick_sleeper(b))
    BY <1>1 DEF tick_sleeper, Unranked, TCB
  <2> QED
    BY <2>1, <2>2
<1>4. CASE WaitExpired(a, now)
  <2>1. /\ tick_task(a, now) = task_wait_end(a, 0)
        /\ tick_task(b, now) = task_wait_end(b, 0)
    BY <1>1, <1>2, <1>4 DEF tick_task, WaitExpired
  <2>2. Unranked(task_wait_end(a, 0)) = Unranked(task_wait_end(b, 0))
    BY <1>1 DEF task_wait_end, Unranked, TCB
  <2> QED
    BY <2>1, <2>2
<1>5. CASE /\ ~(a.state = "SLEEPING" /\ a.sleep_ticks > 0)
           /\ ~WaitExpired(a, now)
  BY <1>1, <1>2, <1>5 DEF tick_task
<1> QED
  BY <1>3, <1>4, <1>5

(* A tick of one task: its priority stays, and it waits for a mutex        *)
(* afterwards only if nothing happened to it.                              *)
LEMMA TickEntry ==
    ASSUME NEW a \in TCB, NEW now
    PROVE  LET e == tick_task(a, now)
           IN  /\ e \in TCB /\ e.priority = a.priority
               /\ Waiting(e) => e = a
               /\ Waiting(a) /\ ~WaitExpired(a, now) => e = a
               /\ WaitExpired(a, now) => e.state = "READY" /\ e.wait_result = 0
<1> DEFINE e == tick_task(a, now)
<1>1. e \in TCB
  BY TickTaskType
<1>2. Waiting(e) => e = a
  BY TickBlocksNone DEF Waiting
<1>3. Waiting(a) /\ ~WaitExpired(a, now) => e = a
  BY DEF Waiting, tick_task
<1>4. /\ e.priority = a.priority
      /\ WaitExpired(a, now) => e.state = "READY" /\ e.wait_result = 0
  <2>1. CASE a.state = "SLEEPING" /\ a.sleep_ticks > 0
    BY <2>1 DEF tick_task, tick_sleeper, WaitExpired, TCB
  <2>2. CASE WaitExpired(a, now)
    BY <2>2 DEF tick_task, task_wait_end, WaitExpired, TCB
  <2>3. CASE /\ ~(a.state = "SLEEPING" /\ a.sleep_ticks > 0)
             /\ ~WaitExpired(a, now)
    BY <2>3 DEF tick_task
  <2> QED
    BY <2>1, <2>2, <2>3
<1> QED
  BY <1>1, <1>2, <1>3, <1>4

Owns(M, i) == \E m \in Object : M[m].owner = i

(* A task somebody waits behind owns a mutex.                              *)
LEMMA BehindOwns ==
    ASSUME NEW M \in Mutexes, NEW T \in Tables(M), NEW i \in Task,
           \E w \in Task : BlockedBehind(T, M, w) = i
    PROVE  Owns(M, i)
<1>1. PICK w \in Task : BlockedBehind(T, M, w) = i
  OBVIOUS
<1>2. i # NoOwner
  BY TaskIndices DEF NoOwner
<1>3. Waiting(T[w]) /\ M[T[w].wait_object].owner = i
  BY <1>1, <1>2, BehindIs
<1>4. T[w].wait_object \in Object
  BY <1>3 DEF Tables, WaitOK
<1> QED
  BY <1>3, <1>4 DEF Owns

(* Tables between two tasks of a tick.                                     *)
CalmTables(M) == {T \in Tables(M) : AboveBase(T) /\ NoInversion(T, M)}

TimesOut(task, now) == WaitExpired(task, now) /\ Waiting(task)

LEMMA TickOne ==
    ASSUME NEW M \in Mutexes, NEW T \in CalmTables(M), NEW i \in Task, NEW now
    PROVE  LET R == tick_one(T, M, now, i)
           IN  /\ R \in CalmTables(M)
               /\ Unranked(R[i]) = Unranked(tick_task(T[i], now))
               /\ \A j \in Task \ {i} : Unranked(R[j]) = Unranked(T[j])
               /\ \A j \in Task : R[j].priority # T[j].priority => Owns(M, j)
               /\ TimesOut(T[i], now) =>
                     Exact(R, M, M[T[i].wait_object].owner)
               /\ \A o \in Task : Exact(T, M, o) => Exact(R, M, o)
<1> DEFINE e == tick_task(T[i], now)
           E == [T EXCEPT ![i] = e]
           R == tick_one(T, M, now, i)
<1>1. /\ T \in Tables(M) /\ T \in [Task -> TCB]
      /\ AboveBase(T) /\ NoInversion(T, M)
  BY DEF CalmTables, Tables
<1>2. /\ e \in TCB /\ e.priority = T[i].priority
      /\ Waiting(e) => e = T[i]
      /\ Waiting(T[i]) /\ ~WaitExpired(T[i], now) => e = T[i]
      /\ WaitExpired(T[i], now) => e.state = "READY"
  BY <1>1, TickEntry
<1>3. R = IF TimesOut(T[i], now) /\ M[T[i].wait_object].owner # NoOwner
          THEN restore_priority_chain(E, M, M[T[i].wait_object].owner)
          ELSE E
  BY DEF tick_one, TimesOut, Waiting, WaitExpired
<1> HIDE DEF e, R
<1>4. /\ E \in [Task -> TCB] /\ E[i] = e
      /\ \A j \in Task \ {i} : E[j] = T[j]
  BY <1>1, <1>2
<1> HIDE DEF E
<1>5. \A j \in Task : E[j].priority = T[j].priority
  BY <1>2, <1>4
<1>6. E \in Tables(M)
  BY <1>1, <1>2, <1>4 DEF Tables, WaitOK
<1>7. /\ \A j \in Task \ {i} : BlockedBehind(E, M, j) = BlockedBehind(T, M, j)
      /\ BlockedBehind(E, M, i) =
            IF TimesOut(T[i], now) THEN NoOwner ELSE BlockedBehind(T, M, i)
  <2>1. \A j \in Task \ {i} : BlockedBehind(E, M, j) = BlockedBehind(T, M, j)
    BY <1>4 DEF BlockedBehind
  <2>2. CASE TimesOut(T[i], now)
    BY <1>2, <1>4, <2>2 DEF BlockedBehind, TimesOut
  <2>3. CASE ~TimesOut(T[i], now)
    <3>1. Waiting(T[i]) \/ Waiting(e) => e = T[i]
      BY <1>2, <2>3 DEF TimesOut
    <3>2. BlockedBehind(E, M, i) = BlockedBehind(T, M, i)
      BY <1>1, <1>4, <1>6, <3>1, BehindIs
    <3> QED
      BY <2>1, <2>3, <3>2
  <2> QED
    BY <2>1, <2>2, <2>3
<1>8. AboveBase(E)
  BY <1>1, <1>5 DEF AboveBase
<1>9. NoInversion(E, M)
  <2> SUFFICES ASSUME NEW w \in Task, BlockedBehind(E, M, w) # NoOwner
               PROVE  E[w].priority <= E[BlockedBehind(E, M, w)].priority
    BY DEF NoInversion
  <2>1. BlockedBehind(E, M, w) = BlockedBehind(T, M, w)
    BY <1>7
  <2>2. BlockedBehind(T, M, w) \in Task
    BY <1>1, <2>1, BehindIs
  <2> QED
    BY <1>1, <1>5, <2>1, <2>2 DEF NoInversion
<1>10. ASSUME NEW o \in Task, Exact(T, M, o),
              TimesOut(T[i], now) => o # BlockedBehind(T, M, i)
       PROVE  Exact(E, M, o)
  <2>1. o # NoOwner
    BY TaskIndices DEF NoOwner
  <2>2. \A w \in Task : BlockedBehind(E, M, w) = o
                            <=> BlockedBehind(T, M, w) = o
    BY <1>7, <1>10, <2>1
  <2>3. EffectivePriority(E, M, o) = EffectivePriority(T, M, o)
    BY <1>1, <1>5, <1>6, <2>2, EffectiveSame
  <2> QED
    BY <1>5, <1>10, <2>3 DEF Exact
<1>11. CASE ~TimesOut(T[i], now)
  <2>1. R = E
    BY <1>3, <1>11
  <2> QED
    BY <1>4, <1>5, <1>6, <1>8, <1>9, <1>10, <1>11, <2>1
       DEF CalmTables, R, e
<1>12. CASE TimesOut(T[i], now)
  <2> DEFINE start == M[T[i].wait_object].owner
  <2>1. start \in Task /\ start = BlockedBehind(T, M, i) /\ start # NoOwner
    BY <1>1, <1>12, BehindIs DEF TimesOut
  <2>2. R = restore_priority_chain(E, M, start)
    BY <1>3, <1>12, <2>1
  <2>3. Owns(M, start)
    BY <1>1, <2>1, BehindOwns
  <2>4. start = M[T[i].wait_object].owner
    OBVIOUS
  <2> HIDE DEF start
  <2>5. /\ R \in Tables(M) /\ SameEntries(E, R)
        /\ AboveBase(R) /\ NoInversion(R, M)
        /\ \A j \in Task : R[j].priority # E[j].priority =>
               j = start \/ \E w \in Task : BlockedBehind(E, M, w) = j
        /\ \A o \in Task : o = start \/ Exact(E, M, o) => Exact(R, M, o)
    BY <1>6, <1>8, <1>9, <2>1, <2>2, RestoreResult
  <2>6. \A j \in Task : R[j].priority # T[j].priority => Owns(M, j)
    BY <1>5, <1>6, <2>3, <2>5, BehindOwns
  <2>7. \A o \in Task : Exact(T, M, o) => Exact(R, M, o)
    BY <1>10, <2>1, <2>5
  <2>8. /\ Unranked(R[i]) = Unranked(e)
        /\ \A j \in Task \ {i} : Unranked(R[j]) = Unranked(T[j])
    BY <1>4, <2>5 DEF SameEntries
  <2>9. R \in CalmTables(M)
    BY <2>5 DEF CalmTables
  <2>10. Exact(R, M, M[T[i].wait_object].owner)
    BY <2>1, <2>4, <2>5
  <2> QED
    BY <2>6, <2>7, <2>8, <2>9, <2>10 DEF R, e
<1> QED
  BY <1>11, <1>12
-----------------------------------------------------------------------------
(* A tick of all tasks.                                                    *)

LEMMA TickAllLoop ==
    ASSUME NEW M \in Mutexes, NEW T \in CalmTables(M), NEW now
    PROVE  \E f \in [0 .. task_count -> CalmTables(M)] :
              /\ f[0] = T
              /\ \A d \in 1 .. task_count : f[d] = tick_one(f[d - 1], M, now, d - 1)
              /\ tick_all(T, M, now) = f[task_count]
<1> DEFINE n == task_count
           S == CalmTables(M)
           step == [d \in 1 .. n |-> [U \in S |-> tick_one(U, M, now, d - 1)]]
           Loop(f) == f = [i \in 0 .. n |->
                              IF i = 0 THEN T
                              ELSE tick_one(f[i - 1], M, now, i - 1)]
           upto == CHOOSE f : Loop(f)
<1>1. /\ n \in Nat
      /\ \A d \in 1 .. n : d - 1 \in Task
  BY TaskTableAssumption DEF task_count, Task
<1>2. \A d \in 1 .. n, U \in S : tick_one(U, M, now, d - 1) \in S
  BY <1>1, TickOne
<1>3. step \in [1 .. n -> [S -> S]]
  BY <1>2
<1> HIDE DEF n, S, step
<1>4. T \in S
  BY DEF S
<1>0. PICK f : Iterates(f, n, S, T, step)
  BY <1>1, <1>3, <1>4, IterationExists
<1>5. /\ f \in [0 .. n -> S] /\ f[0] = T
      /\ \A d \in 1 .. n : f[d] = step[d][f[d - 1]]
  BY <1>0 DEF Iterates
<1>6. Loop(f)
  <2>1. ASSUME NEW d \in 0 .. n
        PROVE  f[d] = IF d = 0 THEN T ELSE tick_one(f[d - 1], M, now, d - 1)
    <3>1. CASE d = 0
      BY <1>5, <3>1
    <3>2. CASE d # 0
      <4>1. d \in 1 .. n /\ d - 1 \in 0 .. n
        BY <1>1, <3>2
      <4>2. f[d - 1] \in S
        BY <1>5, <4>1
      <4> QED
        BY <1>5, <3>2, <4>1, <4>2 DEF step
    <3> QED
      BY <3>1, <3>2
  <2> QED
    BY <1>5, <2>1
<1>7. Loop(upto)
  <2> HIDE DEF Loop
  <2> QED
    BY <1>6
<1>8. tick_all(T, M, now) = upto[n]
  BY DEF tick_all, n
<1> HIDE DEF upto
<1>9. /\ upto[0] = T
      /\ \A d \in 1 .. n : /\ d \in 0 .. n
                           /\ upto[d] = tick_one(upto[d - 1], M, now, d - 1)
  BY <1>1, <1>7
<1>10. \A d \in 0 .. n : upto[d] \in S
  <2> DEFINE G == {d \in 0 .. n : upto[d] \in S}
  <2>1. 0 \in G
    BY <1>1, <1>4, <1>9
  <2>2. ASSUME NEW d \in 1 .. n, d - 1 \in G
        PROVE  d \in G
    BY <1>2, <1>9, <2>2
  <2> HIDE DEF G
  <2>3. \A d \in 0 .. n : d \in G
    BY <1>1, <2>1, <2>2, UpTo
  <2> QED
    BY <2>3 DEF G
<1>11. upto \in [0 .. n -> S]
  BY <1>7, <1>10
<1> QED
  BY <1>8, <1>9, <1>11 DEF n, S

(* Table U of a tick that began with table T and has visited k tasks.      *)
Ticked(U, k, T, M, now) ==
    /\ U \in CalmTables(M)
    /\ \A j \in Task : Unranked(U[j]) =
           IF j < k THEN Unranked(tick_task(T[j], now)) ELSE Unranked(T[j])
    /\ \A j \in Task : U[j].priority # T[j].priority => Owns(M, j)
    /\ \A w \in Task : w < k /\ TimesOut(T[w], now) =>
           Exact(U, M, M[T[w].wait_object].owner)

LEMMA TickedStep ==
    ASSUME NEW M \in Mutexes, NEW T \in CalmTables(M), NEW i \in Task, NEW now,
           NEW U, Ticked(U, i, T, M, now)
    PROVE  Ticked(tick_one(U, M, now, i), i + 1, T, M, now)
<1> DEFINE R == tick_one(U, M, now, i)
<1>1. /\ U \in CalmTables(M) /\ U \in [Task -> TCB]
      /\ T \in Tables(M) /\ T \in [Task -> TCB]
  BY DEF Ticked, CalmTables, Tables
<1>2. /\ R \in CalmTables(M)
      /\ Unranked(R[i]) = Unranked(tick_task(U[i], now))
      /\ \A j \in Task \ {i} : Unranked(R[j]) = Unranked(U[j])
      /\ \A j \in Task : R[j].priority # U[j].priority => Owns(M, j)
      /\ TimesOut(U[i], now) => Exact(R, M, M[U[i].wait_object].owner)
      /\ \A o \in Task : Exact(U, M, o) => Exact(R, M, o)
  BY <1>1, TickOne
<1> HIDE DEF R
<1>3. /\ i \in Nat /\ ~(i < i)
      /\ \A j \in Task : j < i + 1 <=> j < i \/ j = i
  BY TaskIndices
<1>4. Unranked(U[i]) = Unranked(T[i]) /\ U[i] \in TCB /\ T[i] \in TCB
  BY <1>1, <1>3 DEF Ticked
<1>5. Unranked(tick_task(U[i], now)) = Unranked(tick_task(T[i], now))
  BY <1>4, UnrankedTick
<1>6. \A j \in Task : Unranked(R[j]) =
         IF j < i + 1 THEN Unranked(tick_task(T[j], now)) ELSE Unranked(T[j])
  BY <1>2, <1>3, <1>5 DEF Ticked
<1>7. \A j \in Task : R[j].priority # T[j].priority => Owns(M, j)
  BY <1>2 DEF Ticked
<1>8. ASSUME NEW w \in Task, w < i + 1, TimesOut(T[w], now)
      PROVE  Exact(R, M, M[T[w].wait_object].owner)
  <2> DEFINE o == M[T[w].wait_object].owner
  <2>1. o \in Task
    BY <1>1, <1>8, BehindIs DEF TimesOut, Mutexes, MutexOK, Tables, WaitOK
  <2>2. CASE w = i
    <3>1. TimesOut(U[i], now) /\ U[i].wait_object = T[i].wait_object
      BY <1>4, <1>8, <2>2, UnrankedChecks, UnrankedFields DEF TimesOut
    <3> QED
      BY <1>2, <2>2, <3>1
  <2>3. CASE w < i
    <3>1. Exact(U, M, o)
      BY <1>8, <2>3 DEF Ticked
    <3> HIDE DEF o
    <3>2. Exact(R, M, o)
      BY <1>2, <2>1, <3>1
    <3> QED
      BY <3>2 DEF o
  <2> QED
    BY <1>3, <1>8, <2>2, <2>3
<1>9. Ticked(R, i + 1, T, M, now)
  BY <1>2, <1>6, <1>7, <1>8 DEF Ticked
<1> QED
  BY <1>9 DEF R

LEMMA TickAllResult ==
    ASSUME NEW M \in Mutexes, NEW T \in CalmTables(M), NEW now
    PROVE  LET R == tick_all(T, M, now)
           IN  /\ R \in CalmTables(M)
               /\ \A j \in Task : Unranked(R[j]) = Unranked(tick_task(T[j], now))
               /\ \A j \in Task : R[j].priority # T[j].priority => Owns(M, j)
               /\ \A w \in Task : TimesOut(T[w], now) =>
                      Exact(R, M, M[T[w].wait_object].owner)
<1> DEFINE n == task_count
           R == tick_all(T, M, now)
<1>1. /\ n \in Nat
      /\ \A d \in 1 .. n : d - 1 \in Task /\ (d - 1) + 1 = d
      /\ \A j \in Task : j < n /\ ~(j < 0)
  BY TaskTableAssumption DEF task_count, Task
<1>2. PICK f \in [0 .. n -> CalmTables(M)] :
         /\ f[0] = T
         /\ \A d \in 1 .. n : f[d] = tick_one(f[d - 1], M, now, d - 1)
         /\ R = f[n]
  BY TickAllLoop
<1> DEFINE G == {d \in 0 .. n : Ticked(f[d], d, T, M, now)}
<1> HIDE DEF n, R
<1>3. 0 \in G
  <2>1. Ticked(T, 0, T, M, now)
    BY <1>1 DEF Ticked
  <2> QED
    BY <1>1, <1>2, <2>1
<1>4. ASSUME NEW d \in 1 .. n, d - 1 \in G
      PROVE  d \in G
  <2> DEFINE i == d - 1
  <2>1. i \in Task /\ i + 1 = d /\ Ticked(f[i], i, T, M, now)
    BY <1>1, <1>4
  <2>2. f[d] = tick_one(f[i], M, now, i)
    BY <1>2
  <2> HIDE DEF i
  <2>3. Ticked(tick_one(f[i], M, now, i), i + 1, T, M, now)
    BY <2>1, TickedStep
  <2>4. Ticked(f[d], d, T, M, now) /\ d \in 0 .. n
    BY <1>1, <2>1, <2>2, <2>3
  <2> QED
    BY <2>4
<1> HIDE DEF G
<1>5. \A d \in 0 .. n : d \in G
  BY <1>1, <1>3, <1>4, UpTo
<1>6. Ticked(R, n, T, M, now)
  BY <1>1, <1>2, <1>5 DEF G
<1> QED
  BY <1>1, <1>6 DEF Ticked, R
-----------------------------------------------------------------------------
(* The inductive invariant.                                                *)

(* A priority that is not the task's own needs a mutex.                    *)
Unboosted(T, M) ==
    \A i \in Task : T[i].priority = base_priority[i] \/ Owns(M, i)

(* Task i waits for a mutex only inside its call, for that call's mutex.   *)
CallOK(task, place, c, i) ==
    /\ i \notin ApplicationTask => place = "app" /\ ~Waiting(task)
    /\ place # "app" => c.object \in Object
    /\ Waiting(task) =>
           place \in {"yield", "woken"} /\ task.wait_object = c.object

CallsOK == \A i \in Task : CallOK(tasks[i], pc[i], call[i], i)

MutexInv ==
    /\ TaskInv
    /\ OwnershipAgrees
    /\ mutex \in Mutexes
    /\ tasks \in CalmTables(mutex)
    /\ Unboosted(tasks, mutex)
    /\ CallsOK

(* What a step leaves of the table, if it neither runs nor wakes a task    *)
(* that the invariant of module Task would miss.                           *)
LEMMA EntriesInv ==
    ASSUME TaskInv, TaskTypeOK', current' = current,
           \A i \in Task :
              /\ check_task(tasks'[i]) /\ ~WaitExpired(tasks'[i], ticks')
              /\ tasks'[i].state = "RUNNING" => tasks[i].state = "RUNNING"
              /\ tasks[i].state \in {"READY", "RUNNING"} /\ i = idle_index =>
                     tasks'[i].state \in {"READY", "RUNNING"},
           pendsv' = 0 /\ pc'[current] # "yield" =>
               tasks'[current].state = "RUNNING"
    PROVE  TaskInv'
<1>1. ExecutingIsRunning'
  BY DEF TaskInv, ExecutingIsRunning
<1>2. KernelInvariantsHold' /\ NoOverdueWaiter'
  BY DEF KernelInvariantsHold, kernel_check_invariants, NoOverdueWaiter
<1>3. IdleRunnable'
  BY TaskIndices DEF TaskInv, IdleRunnable
<1> QED
  BY <1>1, <1>2, <1>3 DEF TaskInv

SameHolder(x, y) == x.owner = y.owner /\ x.locked = y.locked

(* Other owners of mutexes nobody waits for.                               *)
LEMMA OtherMutexes ==
    ASSUME NEW M \in Mutexes, NEW T \in CalmTables(M), NEW N \in Mutexes,
           \A i \in Task : Waiting(T[i]) =>
               SameHolder(N[T[i].wait_object], M[T[i].wait_object])
    PROVE  T \in CalmTables(N)
<1>1. T \in Tables(M) /\ T \in [Task -> TCB] /\ AboveBase(T) /\ NoInversion(T, M)
  BY DEF CalmTables, Tables
<1>2. \A i \in Task : WaitOK(T[i], N, i)
  BY <1>1 DEF Tables, WaitOK, SameHolder
<1>3. T \in Tables(N)
  BY <1>1, <1>2 DEF Tables
<1>4. \A i \in Task : BlockedBehind(T, N, i) = BlockedBehind(T, M, i)
  BY <1>1, <1>3, BehindIs DEF SameHolder
<1> QED
  BY <1>1, <1>3, <1>4 DEF CalmTables, NoInversion

(* What a task and a mutex have to agree on: d locks that the task was     *)
(* told of, and one more if the mutex x was handed over to it.             *)
Agrees(d, task, place, object, x, t, m) ==
    d + (IF /\ place \in {"yield", "woken"} /\ object = m
            /\ task.state # "BLOCKED" /\ task.wait_result = 1
         THEN 1 ELSE 0) =
        IF x.locked = 1 /\ x.owner = t THEN x.recursion ELSE 0

LEMMA OwnershipIs ==
    OwnershipAgrees <=>
        /\ TypeOK
        /\ \A t \in Task, m \in Object :
              Agrees(depth[t][m], tasks[t], pc[t], call[t].object, mutex[m],
                     t, m)
BY DEF OwnershipAgrees, HandedOver, Agrees

LEMMA OwnershipIsNext ==
    OwnershipAgrees' <=>
        /\ TypeOK'
        /\ \A t \in Task, m \in Object :
              Agrees(depth'[t][m], tasks'[t], pc'[t], call'[t].object,
                     mutex'[m], t, m)
BY DEF OwnershipAgrees, HandedOver, Agrees

(* Entries of a mutex model's tasks and the facts about them.              *)
LEMMA MutexInvFacts ==
    ASSUME MutexInv
    PROVE  /\ TaskInv /\ TaskTypeOK /\ TypeOK
           /\ tasks \in [Task -> TCB] /\ call \in [Task -> Call]
           /\ mutex \in Mutexes /\ mutex \in [Object -> JRT_Mutex]
           /\ \A m \in Object : MutexOK(mutex[m])
           /\ tasks \in CalmTables(mutex) /\ tasks \in Tables(mutex)
           /\ AboveBase(tasks) /\ NoInversion(tasks, mutex)
           /\ \A i \in Task : WaitOK(tasks[i], mutex, i)
           /\ \A i \in Task : CallOK(tasks[i], pc[i], call[i], i)
           /\ depth \in [Task -> [Object -> Nat]]
BY DEF MutexInv, OwnershipAgrees, TypeOK, TaskTypeOK, Mutexes, CalmTables,
       Tables, CallsOK

LEMMA InitMutexInv == Init => MutexInv
<1> SUFFICES ASSUME Init PROVE MutexInv
  OBVIOUS
<1>1. TaskInv
  BY InitInv DEF Init
<1>2. \A i \in Task : tasks[i] \in TCB /\ ~Waiting(tasks[i])
                      /\ tasks[i].priority = base_priority[i]
  BY <1>1
     DEF Init, TaskInit, TaskInv, TaskTypeOK, JRT_KernelInit, prepare_task,
         prepare_timer_service_task, task_wait_begin, task_wait_begin_until,
         Waiting, TCB
<1>3. mutex \in Mutexes
  BY DEF Init, Mutexes, MutexOK, JRT_Mutex
<1>4. TypeOK
  BY <1>1, <1>3, MutexAssumption DEF Init, TaskInv, TypeOK, Mutexes
<1>5. OwnershipAgrees
  BY <1>4 DEF Init, TaskInit, OwnershipAgrees, HandedOver
<1>6. tasks \in Tables(mutex)
  BY <1>1, <1>2 DEF Tables, WaitOK, TaskInv, TaskTypeOK
<1>7. NoInversion(tasks, mutex)
  BY <1>2, <1>3, <1>6, BehindIs DEF NoInversion
<1>8. AboveBase(tasks) /\ Unboosted(tasks, mutex)
  BY <1>2, TaskTableAssumption DEF AboveBase, Unboosted, Priority
<1>9. CallsOK
  BY <1>2 DEF Init, TaskInit, CallsOK, CallOK
<1> QED
  BY <1>1, <1>3, <1>5, <1>6, <1>7, <1>8, <1>9 DEF MutexInv, CalmTables
-----------------------------------------------------------------------------
(* Scheduling and the task services.                                       *)

(* They leave priorities alone.                                            *)
KeepsPriorities == \A i \in Task : tasks'[i].priority = tasks[i].priority

LEMMA PendSVKeepsPriorities == TaskInv /\ PendSV => KeepsPriorities
<1> SUFFICES ASSUME TaskInv, PendSV, NEW i \in Task
             PROVE  tasks'[i].priority = tasks[i].priority
  BY DEF KeepsPriorities
<1> DEFINE T == Preempted(tasks, current)
           next == next_index(T, current)
<1>1. current \in Task /\ tasks \in [Task -> TCB]
  BY DEF TaskInv, TaskTypeOK
<1>2. T \in [Task -> TCB] /\ T[i].priority = tasks[i].priority
  BY <1>1 DEF Preempted, TCB, State
<1>3. tasks' = [T EXCEPT ![next].state = "RUNNING"]
  BY DEF PendSV
<1> HIDE DEF T, next
<1>4. tasks'[i] = IF i = next THEN [T[i] EXCEPT !.state = "RUNNING"] ELSE T[i]
  BY <1>2, <1>3
<1>5. [T[i] EXCEPT !.state = "RUNNING"].priority = T[i].priority
  BY <1>2 DEF TCB
<1> QED
  BY <1>2, <1>4, <1>5

LEMMA ServicesKeepPriorities == TaskInv /\ Services => KeepsPriorities
<1> SUFFICES ASSUME TaskInv, NEW t \in ApplicationTask,
                    \/ TaskYield(t)
                    \/ \E d \in Delay : TaskDelay(t, d)
                    \/ \E id \in SuspendTarget :
                          TaskSuspend(t, id) \/ TaskResume(t, id)
             PROVE  KeepsPriorities
  BY DEF Services
<1>1. t \in Task /\ tasks \in [Task -> TCB]
  BY TaskIndices DEF TaskInv, TaskTypeOK
<1>2. CASE TaskYield(t)
  BY <1>2 DEF TaskYield, Svc, KeepsPriorities
<1>3. ASSUME NEW d \in Delay, TaskDelay(t, d)
      PROVE  KeepsPriorities
  BY <1>1, <1>3 DEF TaskDelay, Svc, sleep_current, KeepsPriorities, TCB
<1>4. ASSUME NEW id \in SuspendTarget, TaskSuspend(t, id)
      PROVE  KeepsPriorities
  <2> DEFINE i == resolve(id, t)
  <2>1. tasks' = kernel_task_suspend(tasks, t, i)
    BY <1>4 DEF TaskSuspend, Svc
  <2> HIDE DEF i
  <2> QED
    BY <1>1, <2>1 DEF kernel_task_suspend, KeepsPriorities, TCB
<1>5. ASSUME NEW id \in SuspendTarget, TaskResume(t, id)
      PROVE  KeepsPriorities
  BY <1>1, <1>5 DEF TaskResume, Svc, kernel_task_resume, KeepsPriorities, TCB
<1> QED
  BY <1>2, <1>3, <1>4, <1>5

(* A step that starts and ends no wait and changes no priority.            *)
LEMMA SchedulingMutexInv ==
    ASSUME MutexInv, TaskInv', NoNewWait, KeepsWaits, KeepsPriorities,
           UNCHANGED <<mutex, depth, pc, call>>
    PROVE  MutexInv'
<1>1. TypeOK /\ TaskTypeOK /\ tasks' \in [Task -> TCB] /\ TaskTypeOK'
  BY MutexInvFacts DEF TaskInv, TaskTypeOK
<1>2. ASSUME NEW i \in Task
      PROVE  /\ tasks'[i].state = "BLOCKED" <=> tasks[i].state = "BLOCKED"
             /\ tasks[i].state = "BLOCKED" => tasks'[i] = tasks[i]
             /\ tasks[i].state # "BLOCKED" =>
                    tasks'[i].wait_result = tasks[i].wait_result
             /\ tasks'[i].priority = tasks[i].priority
  BY DEF NoNewWait, KeepsWaits, KeepsPriorities
<1>3. \A i \in Task : Waiting(tasks'[i]) => tasks'[i] = tasks[i]
  BY <1>2 DEF Waiting
<1>4. \A i \in Task : Waiting(tasks[i]) => tasks'[i] = tasks[i]
  BY <1>2 DEF Waiting
<1>5. TypeOK'
  BY <1>1 DEF TypeOK
<1>6. OwnershipAgrees'
  <2>1. ASSUME NEW t \in Task, NEW m \in Object
        PROVE  Agrees(depth'[t][m], tasks'[t], pc'[t], call'[t].object,
                      mutex'[m], t, m)
    <3>1. Agrees(depth[t][m], tasks[t], pc[t], call[t].object, mutex[m], t, m)
      BY OwnershipIs DEF MutexInv
    <3> QED
      BY <1>2, <3>1 DEF Agrees
  <2> QED
    BY <1>5, <2>1, OwnershipIsNext
<1>7. tasks' \in Tables(mutex)
  BY <1>1, <1>3, MutexInvFacts DEF Tables, WaitOK
<1>8. \A i \in Task : BlockedBehind(tasks', mutex, i) =
                          BlockedBehind(tasks, mutex, i)
  BY <1>3, <1>4, <1>7, MutexInvFacts, BehindIs
<1>9. NoInversion(tasks', mutex)
  <2> SUFFICES ASSUME NEW w \in Task, BlockedBehind(tasks', mutex, w) # NoOwner
               PROVE  tasks'[w].priority
                          <= tasks'[BlockedBehind(tasks', mutex, w)].priority
    BY DEF NoInversion
  <2> DEFINE o == BlockedBehind(tasks, mutex, w)
  <2>1. o \in Task /\ BlockedBehind(tasks', mutex, w) = o
    BY <1>8, MutexInvFacts, BehindIs
  <2>2. tasks[w].priority <= tasks[o].priority
    BY <1>8, MutexInvFacts DEF NoInversion
  <2> HIDE DEF o
  <2> QED
    BY <1>2, <2>1, <2>2
<1>10. AboveBase(tasks') /\ Unboosted(tasks', mutex)
  BY <1>2 DEF MutexInv, AboveBase, Unboosted, CalmTables
<1>11. CallsOK'
  <2>1. ASSUME NEW i \in Task
        PROVE  CallOK(tasks'[i], pc[i], call[i], i)
    BY <1>3, MutexInvFacts DEF CallOK
  <2> QED
    BY <2>1 DEF CallsOK
<1>12. tasks' \in CalmTables(mutex)
  BY <1>7, <1>9, <1>10 DEF CalmTables
<1>13. /\ (mutex \in Mutexes)' /\ (tasks \in CalmTables(mutex))'
       /\ Unboosted(tasks, mutex)'
  BY <1>10, <1>12, MutexInvFacts
<1> QED
  BY <1>6, <1>11, <1>13 DEF MutexInv

-----------------------------------------------------------------------------
(* Steps of a call that leave the table alone.                             *)

(* Task t goes to another place of its call, and the mutexes may change    *)
(* where nobody waits.                                                     *)
LEMMA CallMutexInv ==
    ASSUME MutexInv, TaskInv', NEW t \in Task, UNCHANGED tasks,
           \A i \in Task \ {t} : pc'[i] = pc[i] /\ call'[i] = call[i],
           CallOK(tasks[t], pc'[t], call'[t], t),
           TypeOK', mutex' \in Mutexes,
           \A i \in Task : Waiting(tasks[i]) =>
               SameHolder(mutex'[tasks[i].wait_object],
                          mutex[tasks[i].wait_object]),
           \A i \in Task : Owns(mutex, i) => Owns(mutex', i),
           \A i \in Task, m \in Object :
               Agrees(depth'[i][m], tasks[i], pc'[i], call'[i].object,
                      mutex'[m], i, m)
    PROVE  MutexInv'
<1>1. OwnershipAgrees'
  BY OwnershipIsNext
<1>2. tasks \in CalmTables(mutex')
  BY MutexInvFacts, OtherMutexes
<1>3. Unboosted(tasks, mutex')
  BY DEF MutexInv, Unboosted
<1>4. CallsOK'
  BY MutexInvFacts DEF CallsOK
<1>5. (tasks \in CalmTables(mutex))' /\ Unboosted(tasks, mutex)'
  BY <1>2, <1>3
<1> QED
  BY <1>1, <1>4, <1>5 DEF MutexInv
(* The lines of Agrees for a task or a mutex the step does not touch.      *)
LEMMA StillAgrees ==
    ASSUME MutexInv, NEW i \in Task, NEW m \in Object
    PROVE  /\ Agrees(depth[i][m], tasks[i], pc[i], call[i].object, mutex[m],
                     i, m)
           /\ pc[i] \notin {"yield", "woken"} =>
                 depth[i][m] = IF mutex[m].locked = 1 /\ mutex[m].owner = i
                               THEN mutex[m].recursion ELSE 0
BY MutexInvFacts, OwnershipIs DEF MutexInv, Agrees

LEMMA NoCallOK == NoCall \in Call
BY TickConstants DEF NoCall, Call, Deadline

(* A task whose instruction is executed waits for nothing, unless it is on *)
(* its way from publishing its wait to the SVC.                            *)
LEMMA ThreadWaitsNot ==
    ASSUME MutexInv, NEW t \in Task, Thread(t), pc[t] # "yield"
    PROVE  tasks[t].state = "RUNNING" /\ ~Waiting(tasks[t])
BY MutexInvFacts, ThreadRuns DEF Waiting

LEMMA LockEnterInv ==
    ASSUME MutexInv, NEW t \in ApplicationTask, NEW m \in Object,
           NEW timeout \in Timeout, LockEnter(t, m, timeout)
    PROVE  MutexInv'
<1>1. t \in Task /\ InApp(t) /\ Enter(t, "lock", m, timeout)
  BY TaskIndices DEF LockEnter, Enter
<1>2. TaskInv'
  BY <1>1, MutexInvFacts, EnterInv DEF Operation
<1>3. /\ pc \in [Task -> {"app", "attempt", "yield", "woken", "callback"}]
      /\ call \in [Task -> Call]
  BY MutexInvFacts DEF TaskTypeOK
<1>4. /\ pc'[t] = "attempt" /\ call'[t].object = m
      /\ \A i \in Task \ {t} : pc'[i] = pc[i] /\ call'[i] = call[i]
      /\ UNCHANGED <<tasks, mutex, depth>>
  BY <1>1, <1>3 DEF LockEnter, mutexVars, Enter
<1>5. pc[t] = "app" /\ ~Waiting(tasks[t])
  BY <1>1, ThreadWaitsNot DEF InApp
<1>6. CallOK(tasks[t], pc'[t], call'[t], t)
  BY <1>4, <1>5 DEF CallOK
<1>7. TypeOK'
  BY <1>2, <1>4, MutexInvFacts DEF TypeOK, TaskInv
<1>8. ASSUME NEW i \in Task, NEW x \in Object
      PROVE  Agrees(depth'[i][x], tasks[i], pc'[i], call'[i].object,
                    mutex'[x], i, x)
  <2>1. Agrees(depth[i][x], tasks[i], pc[i], call[i].object, mutex[x], i, x)
    BY StillAgrees
  <2>2. CASE i = t
    BY <1>4, <1>5, <2>1, <2>2 DEF Agrees
  <2>3. CASE i # t
    BY <1>4, <2>1, <2>3
  <2> QED
    BY <2>2, <2>3
<1>9. /\ mutex' \in Mutexes
      /\ \A i \in Task : Waiting(tasks[i]) =>
            SameHolder(mutex'[tasks[i].wait_object],
                       mutex[tasks[i].wait_object])
      /\ \A i \in Task : Owns(mutex, i) => Owns(mutex', i)
      /\ UNCHANGED tasks
  BY <1>4, MutexInvFacts DEF SameHolder
<1> QED
  BY <1>1, <1>2, <1>4, <1>6, <1>7, <1>8, <1>9, CallMutexInv

(* A lock call that returns: where its task is afterwards.                 *)
LEMMA ReturnPlace ==
    ASSUME MutexInv, NEW t \in Task, Return(t)
    PROVE  /\ pc'[t] = "app" /\ call'[t] = NoCall
           /\ \A i \in Task \ {t} : pc'[i] = pc[i] /\ call'[i] = call[i]
           /\ UNCHANGED <<current, ticks, pendsv>>
<1>1. /\ pc \in [Task -> {"app", "attempt", "yield", "woken", "callback"}]
      /\ call \in [Task -> Call]
  BY MutexInvFacts DEF TaskTypeOK
<1> QED
  BY <1>1 DEF Return

(* A lock call that returns without touching the table.                    *)
LEMMA ReturnMutexInv ==
    ASSUME MutexInv, NEW t \in ApplicationTask, Thread(t), pc[t] # "yield",
           Return(t), UNCHANGED tasks,
           mutex' \in Mutexes,
           \A m \in Object : mutex'[m].recursion <= MaxRecursion[m],
           depth' \in [Task -> [Object -> Nat]],
           \A i \in Task : Waiting(tasks[i]) =>
               SameHolder(mutex'[tasks[i].wait_object],
                          mutex[tasks[i].wait_object]),
           \A i \in Task : Owns(mutex, i) => Owns(mutex', i),
           \A i \in Task \ {t}, m \in Object :
               Agrees(depth'[i][m], tasks[i], pc[i], call[i].object,
                      mutex'[m], i, m),
           \A m \in Object :
               depth'[t][m] = IF mutex'[m].locked = 1 /\ mutex'[m].owner = t
                              THEN mutex'[m].recursion ELSE 0
    PROVE  MutexInv'
<1>1. t \in Task
  BY TaskIndices
<1>2. TaskInv'
  BY <1>1, MutexInvFacts, ReturnInv
<1>3. /\ pc'[t] = "app" /\ call'[t] = NoCall
      /\ \A i \in Task \ {t} : pc'[i] = pc[i] /\ call'[i] = call[i]
  BY <1>1, ReturnPlace
<1>4. ~Waiting(tasks[t])
  BY <1>1, ThreadWaitsNot
<1>5. CallOK(tasks[t], pc'[t], call'[t], t)
  BY <1>3, <1>4 DEF CallOK
<1>6. TypeOK'
  BY <1>2 DEF TypeOK, TaskInv, Mutexes
<1>7. ASSUME NEW i \in Task, NEW m \in Object
      PROVE  Agrees(depth'[i][m], tasks[i], pc'[i], call'[i].object,
                    mutex'[m], i, m)
  <2>1. CASE i = t
    <3>1. depth'[t][m] \in Nat
      BY <1>1
    <3> QED
      BY <1>3, <2>1, <3>1 DEF Agrees
  <2>2. CASE i # t
    BY <1>3, <2>2
  <2> QED
    BY <2>1, <2>2
<1> QED
  BY <1>1, <1>2, <1>3, <1>5, <1>6, <1>7, CallMutexInv
(* Replacing one mutex.                                                    *)
LEMMA MutexUpdate ==
    ASSUME MutexInv, NEW m \in Object, NEW x \in JRT_Mutex, MutexOK(x),
           x.recursion <= MaxRecursion[m], mutex' = [mutex EXCEPT ![m] = x]
    PROVE  /\ mutex' \in Mutexes /\ mutex'[m] = x
           /\ \A n \in Object : mutex'[n].recursion <= MaxRecursion[n]
           /\ \A n \in Object \ {m} : mutex'[n] = mutex[n]
<1>1. mutex' \in [Object -> JRT_Mutex] /\ mutex'[m] = x
      /\ \A n \in Object \ {m} : mutex'[n] = mutex[n]
  BY MutexInvFacts
<1>2. \A n \in Object : MutexOK(mutex'[n])
  BY <1>1, MutexInvFacts
<1> QED
  BY <1>1, <1>2, MutexInvFacts DEF Mutexes, TypeOK

LEMMA LockFreeInv ==
    ASSUME MutexInv, NEW t \in ApplicationTask, LockFree(t)
    PROVE  MutexInv'
<1> DEFINE m == call[t].object
           x == [locked |-> 1, owner |-> t, recursion |-> 1]
<1>1. t \in Task /\ Thread(t) /\ pc[t] = "attempt"
  BY TaskIndices DEF LockFree, Attempt
<1>2. m \in Object /\ mutex[m].locked = 0 /\ mutex[m].owner = NoOwner
  <2>1. m \in Object
    BY <1>1, MutexInvFacts DEF CallOK
  <2> QED
    BY <2>1, MutexInvFacts DEF LockFree, MutexOK
<1>3. /\ mutex' = [mutex EXCEPT ![m] = x]
      /\ depth' = [depth EXCEPT ![t][m] = depth[t][m] + 1]
      /\ Return(t) /\ UNCHANGED tasks
  BY DEF LockFree, Acquired
<1> HIDE DEF m
<1>4. /\ x \in JRT_Mutex /\ MutexOK(x) /\ x.recursion <= MaxRecursion[m]
      /\ x.locked = 1 /\ x.owner = t /\ x.recursion = 1
  BY <1>1, <1>2, MutexAssumption DEF JRT_Mutex, MutexOK
<1> HIDE DEF x
<1>5. /\ mutex' \in Mutexes /\ mutex'[m] = x
      /\ \A n \in Object : mutex'[n].recursion <= MaxRecursion[n]
      /\ \A n \in Object \ {m} : mutex'[n] = mutex[n]
  BY <1>2, <1>3, <1>4, MutexUpdate
<1>6. depth[t][m] = 0
  BY <1>1, <1>2, StillAgrees
<1>7. /\ depth' \in [Task -> [Object -> Nat]] /\ depth'[t][m] = 1
      /\ \A n \in Object \ {m} : depth'[t][n] = depth[t][n]
      /\ \A i \in Task \ {t} : depth'[i] = depth[i]
  BY <1>1, <1>2, <1>3, <1>6, MutexInvFacts
<1>8. \A i \in Task : Waiting(tasks[i]) =>
         SameHolder(mutex'[tasks[i].wait_object], mutex[tasks[i].wait_object])
  BY <1>2, <1>5, MutexInvFacts DEF WaitOK, SameHolder
<1>9. \A i \in Task : Owns(mutex, i) => Owns(mutex', i)
  BY <1>2, <1>5, TaskIndices DEF Owns, NoOwner
<1>10. ASSUME NEW i \in Task \ {t}, NEW n \in Object
       PROVE  Agrees(depth'[i][n], tasks[i], pc[i], call[i].object,
                     mutex'[n], i, n)
  <2>1. Agrees(depth[i][n], tasks[i], pc[i], call[i].object, mutex[n], i, n)
    BY StillAgrees
  <2>2. CASE n = m
    BY <1>2, <1>4, <1>5, <1>7, <2>1, <2>2 DEF Agrees
  <2>3. CASE n # m
    BY <1>5, <1>7, <2>1, <2>3
  <2> QED
    BY <2>2, <2>3
<1>11. ASSUME NEW n \in Object
       PROVE  depth'[t][n] = IF mutex'[n].locked = 1 /\ mutex'[n].owner = t
                             THEN mutex'[n].recursion ELSE 0
  BY <1>1, <1>4, <1>5, <1>7, StillAgrees
<1> QED
  BY <1>1, <1>3, <1>5, <1>7, <1>8, <1>9, <1>10, <1>11, ReturnMutexInv

(* Locking or unlocking an inner level of a mutex the task owns: the facts *)
(* about the mutexes, whichever way the level goes.                        *)
LEMMA LevelChange ==
    ASSUME MutexInv, NEW t \in Task, NEW m \in Object,
           mutex[m].locked = 1, mutex[m].owner = t,
           pc[t] \notin {"yield", "woken"},
           NEW k \in Nat \ {0}, k <= MaxRecursion[m],
           mutex' = [mutex EXCEPT ![m].recursion = k],
           depth' = [depth EXCEPT ![t][m] = k]
    PROVE  /\ mutex' \in Mutexes
           /\ \A n \in Object : mutex'[n].recursion <= MaxRecursion[n]
           /\ depth' \in [Task -> [Object -> Nat]]
           /\ \A i \in Task : Owns(mutex, i) => Owns(mutex', i)
           /\ \A n \in Object : SameHolder(mutex'[n], mutex[n])
           /\ \A i \in Task \ {t}, n \in Object :
                 Agrees(depth'[i][n], tasks[i], pc[i], call[i].object,
                        mutex'[n], i, n)
           /\ \A n \in Object :
                 depth'[t][n] = IF mutex'[n].locked = 1 /\ mutex'[n].owner = t
                                THEN mutex'[n].recursion ELSE 0
<1> DEFINE x == [mutex[m] EXCEPT !.recursion = k]
<1>1. mutex[m] \in JRT_Mutex
  BY MutexInvFacts
<1>2. /\ x \in JRT_Mutex /\ x.locked = 1 /\ x.owner = t /\ x.recursion = k
      /\ mutex' = [mutex EXCEPT ![m] = x]
  BY <1>1 DEF JRT_Mutex
<1> HIDE DEF x
<1>3. MutexOK(x)
  BY <1>2 DEF MutexOK
<1>4. /\ mutex' \in Mutexes /\ mutex'[m] = x
      /\ \A n \in Object : mutex'[n].recursion <= MaxRecursion[n]
      /\ \A n \in Object \ {m} : mutex'[n] = mutex[n]
  BY <1>2, <1>3, MutexUpdate
<1>5. /\ depth' \in [Task -> [Object -> Nat]] /\ depth'[t][m] = k
      /\ \A n \in Object \ {m} : depth'[t][n] = depth[t][n]
      /\ \A i \in Task \ {t} : depth'[i] = depth[i]
  BY MutexInvFacts
<1>6. \A n \in Object : SameHolder(mutex'[n], mutex[n])
  BY <1>2, <1>4 DEF SameHolder
<1>7. ASSUME NEW i \in Task \ {t}, NEW n \in Object
      PROVE  Agrees(depth'[i][n], tasks[i], pc[i], call[i].object,
                    mutex'[n], i, n)
  <2>1. Agrees(depth[i][n], tasks[i], pc[i], call[i].object, mutex[n], i, n)
    BY StillAgrees
  <2>2. CASE n = m
    BY <1>2, <1>4, <1>5, <2>1, <2>2 DEF Agrees
  <2>3. CASE n # m
    BY <1>4, <1>5, <2>1, <2>3
  <2> QED
    BY <2>2, <2>3
<1>8. \A n \in Object :
         depth'[t][n] = IF mutex'[n].locked = 1 /\ mutex'[n].owner = t
                        THEN mutex'[n].recursion ELSE 0
  BY <1>2, <1>4, <1>5, StillAgrees
<1>9. \A i \in Task : Owns(mutex, i) => Owns(mutex', i)
  BY <1>6 DEF Owns, SameHolder
<1> QED
  BY <1>4, <1>5, <1>6, <1>7, <1>8, <1>9
LEMMA LockAgainInv ==
    ASSUME MutexInv, NEW t \in ApplicationTask, LockAgain(t)
    PROVE  MutexInv'
<1> DEFINE m == call[t].object
           k == mutex[m].recursion + 1
<1>1. t \in Task /\ Thread(t) /\ pc[t] = "attempt"
  BY TaskIndices DEF LockAgain, Attempt
<1>2. m \in Object
  BY <1>1, MutexInvFacts DEF CallOK
<1>3. /\ mutex[m].locked = 1 /\ mutex[m].owner = t
      /\ mutex[m].recursion < MaxRecursion[m]
      /\ mutex' = [mutex EXCEPT ![m].recursion = k]
      /\ depth' = [depth EXCEPT ![t][m] = depth[t][m] + 1]
      /\ Return(t) /\ UNCHANGED tasks
  BY DEF LockAgain, Acquired
<1>4. mutex[m].recursion \in Nat /\ MaxRecursion[m] \in Nat
  BY <1>2, MutexInvFacts, MutexAssumption DEF JRT_Mutex
<1>5. k \in Nat \ {0} /\ k <= MaxRecursion[m]
  BY <1>3, <1>4
<1>6. depth[t][m] = mutex[m].recursion
  BY <1>1, <1>2, <1>3, StillAgrees
<1>7. depth' = [depth EXCEPT ![t][m] = k]
  BY <1>3, <1>6
<1> HIDE DEF k, m
<1>8. /\ mutex' \in Mutexes
      /\ \A n \in Object : mutex'[n].recursion <= MaxRecursion[n]
      /\ depth' \in [Task -> [Object -> Nat]]
      /\ \A i \in Task : Owns(mutex, i) => Owns(mutex', i)
      /\ \A n \in Object : SameHolder(mutex'[n], mutex[n])
      /\ \A i \in Task \ {t}, n \in Object :
            Agrees(depth'[i][n], tasks[i], pc[i], call[i].object,
                   mutex'[n], i, n)
      /\ \A n \in Object :
            depth'[t][n] = IF mutex'[n].locked = 1 /\ mutex'[n].owner = t
                           THEN mutex'[n].recursion ELSE 0
  BY <1>1, <1>2, <1>3, <1>5, <1>7, LevelChange
<1>9. \A i \in Task : Waiting(tasks[i]) =>
         SameHolder(mutex'[tasks[i].wait_object], mutex[tasks[i].wait_object])
  BY <1>8, MutexInvFacts DEF WaitOK
<1> QED
  BY <1>1, <1>3, <1>8, <1>9, ReturnMutexInv

LEMMA LockTryInv ==
    ASSUME MutexInv, NEW t \in ApplicationTask, LockTry(t)
    PROVE  MutexInv'
<1>1. /\ t \in Task /\ Thread(t) /\ pc[t] = "attempt"
      /\ Return(t) /\ UNCHANGED <<tasks, mutex, depth>>
  BY TaskIndices DEF LockTry, Contended, Attempt, mutexVars
<1>2. /\ \A m \in Object : mutex'[m].recursion <= MaxRecursion[m]
      /\ \A i \in Task : Waiting(tasks[i]) =>
            SameHolder(mutex'[tasks[i].wait_object],
                       mutex[tasks[i].wait_object])
  BY <1>1, MutexInvFacts DEF SameHolder, TypeOK
<1>3. \A i \in Task \ {t}, m \in Object :
         Agrees(depth'[i][m], tasks[i], pc[i], call[i].object, mutex'[m], i, m)
  BY <1>1, StillAgrees
<1>4. \A m \in Object :
         depth'[t][m] = IF mutex'[m].locked = 1 /\ mutex'[m].owner = t
                        THEN mutex'[m].recursion ELSE 0
  BY <1>1, StillAgrees
<1> QED
  BY <1>1, <1>2, <1>3, <1>4, MutexInvFacts, ReturnMutexInv

(* A woken task learns what it was handed.                                 *)
LEMMA LockReturnInv ==
    ASSUME MutexInv, NEW t \in ApplicationTask, LockReturn(t)
    PROVE  MutexInv'
<1> DEFINE m == call[t].object
           k == depth[t][m] + tasks[t].wait_result
<1>1. /\ t \in Task /\ Thread(t) /\ pc[t] = "woken"
      /\ Return(t) /\ UNCHANGED <<tasks, mutex>>
      /\ depth' = [depth EXCEPT ![t][m] = k]
  BY TaskIndices DEF LockReturn, Woken
<1>2. m \in Object
  BY <1>1, MutexInvFacts DEF CallOK
<1>3. /\ tasks[t].state = "RUNNING" /\ tasks[t].wait_result \in {0, 1}
      /\ depth[t][m] \in Nat
  BY <1>1, <1>2, ThreadWaitsNot, MutexInvFacts DEF TCB
<1>4. k \in Nat
  BY <1>3
<1>5. k = IF mutex[m].locked = 1 /\ mutex[m].owner = t
          THEN mutex[m].recursion ELSE 0
  <2>1. Agrees(depth[t][m], tasks[t], pc[t], call[t].object, mutex[m], t, m)
    BY <1>1, <1>2, StillAgrees
  <2>2. CASE tasks[t].wait_result = 1
    BY <1>1, <1>3, <2>1, <2>2 DEF Agrees
  <2>3. CASE tasks[t].wait_result = 0
    BY <1>1, <1>3, <2>1, <2>3 DEF Agrees
  <2> QED
    BY <1>3, <2>2, <2>3
<1>6. \A n \in Object \ {m} :
         depth[t][n] = IF mutex[n].locked = 1 /\ mutex[n].owner = t
                       THEN mutex[n].recursion ELSE 0
  <2> TAKE n \in Object \ {m}
  <2>1. Agrees(depth[t][n], tasks[t], pc[t], call[t].object, mutex[n], t, n)
    BY <1>1, StillAgrees
  <2>2. depth[t][n] \in Nat
    BY <1>1, MutexInvFacts
  <2> QED
    BY <2>1, <2>2 DEF Agrees
<1> HIDE DEF k, m
<1>7. /\ depth' \in [Task -> [Object -> Nat]] /\ depth'[t][m] = k
      /\ \A n \in Object \ {m} : depth'[t][n] = depth[t][n]
      /\ \A i \in Task \ {t} : depth'[i] = depth[i]
  BY <1>1, <1>2, <1>4, MutexInvFacts
<1>8. /\ \A n \in Object : mutex'[n].recursion <= MaxRecursion[n]
      /\ \A i \in Task : Waiting(tasks[i]) =>
            SameHolder(mutex'[tasks[i].wait_object],
                       mutex[tasks[i].wait_object])
  BY <1>1, MutexInvFacts DEF SameHolder, TypeOK
<1>9. \A i \in Task \ {t}, n \in Object :
         Agrees(depth'[i][n], tasks[i], pc[i], call[i].object, mutex'[n], i, n)
  BY <1>1, <1>7, StillAgrees
<1>10. \A n \in Object :
         depth'[t][n] = IF mutex'[n].locked = 1 /\ mutex'[n].owner = t
                        THEN mutex'[n].recursion ELSE 0
  BY <1>1, <1>5, <1>6, <1>7
<1> QED
  BY <1>1, <1>7, <1>8, <1>9, <1>10, MutexInvFacts, ReturnMutexInv

LEMMA ArchYieldMutexInv ==
    ASSUME MutexInv, NEW t \in ApplicationTask, ArchYield(t),
           UNCHANGED mutexVars
    PROVE  MutexInv'
<1>1. t \in Task /\ UNCHANGED <<tasks, mutex, depth, call>> /\ pc[t] = "yield"
  BY TaskIndices DEF ArchYield, mutexVars
<1>2. TaskInv'
  BY <1>1, MutexInvFacts, ArchYieldInv
<1>3. pc'[t] = "woken" /\ \A i \in Task \ {t} : pc'[i] = pc[i]
  BY <1>1, MutexInvFacts DEF TaskTypeOK, ArchYield
<1>4. CallOK(tasks[t], pc'[t], call'[t], t)
  BY <1>1, <1>3, MutexInvFacts DEF CallOK
<1>5. TypeOK'
  BY <1>1, <1>2, MutexInvFacts DEF TypeOK, TaskInv
<1>6. ASSUME NEW i \in Task, NEW m \in Object
      PROVE  Agrees(depth'[i][m], tasks[i], pc'[i], call'[i].object,
                    mutex'[m], i, m)
  <2>1. Agrees(depth[i][m], tasks[i], pc[i], call[i].object, mutex[m], i, m)
    BY StillAgrees
  <2>2. CASE i = t
    BY <1>1, <1>3, <2>1, <2>2 DEF Agrees
  <2>3. CASE i # t
    BY <1>1, <1>3, <2>1, <2>3
  <2> QED
    BY <2>2, <2>3
<1>7. \A i \in Task : Waiting(tasks[i]) =>
         SameHolder(mutex'[tasks[i].wait_object], mutex[tasks[i].wait_object])
  BY <1>1 DEF SameHolder
<1> QED
  BY <1>1, <1>2, <1>3, <1>4, <1>5, <1>6, <1>7, MutexInvFacts, CallMutexInv

LEMMA UnlockInnerInv ==
    ASSUME MutexInv, NEW t \in ApplicationTask, NEW m \in Object,
           UnlockInner(t, m)
    PROVE  MutexInv'
<1> DEFINE k == mutex[m].recursion - 1
<1>1. /\ t \in Task /\ pc[t] = "app"
      /\ mutex[m].locked = 1 /\ mutex[m].owner = t /\ mutex[m].recursion > 1
      /\ mutex' = [mutex EXCEPT ![m].recursion = k]
      /\ depth' = [depth EXCEPT ![t][m] = depth[t][m] - 1]
      /\ UNCHANGED <<tasks, current, ticks, pendsv, pc, call>>
  BY TaskIndices DEF UnlockInner, InApp, Released, taskVars
<1>2. /\ mutex[m].recursion \in Nat /\ MaxRecursion[m] \in Nat
      /\ mutex[m].recursion <= MaxRecursion[m]
  BY MutexInvFacts, MutexAssumption DEF JRT_Mutex, TypeOK
<1>3. k \in Nat \ {0} /\ k <= MaxRecursion[m]
  BY <1>1, <1>2
<1>4. depth[t][m] = mutex[m].recursion
  BY <1>1, StillAgrees
<1>5. depth' = [depth EXCEPT ![t][m] = k]
  BY <1>1, <1>4
<1> HIDE DEF k
<1>6. /\ mutex' \in Mutexes
      /\ \A n \in Object : mutex'[n].recursion <= MaxRecursion[n]
      /\ depth' \in [Task -> [Object -> Nat]]
      /\ \A i \in Task : Owns(mutex, i) => Owns(mutex', i)
      /\ \A n \in Object : SameHolder(mutex'[n], mutex[n])
      /\ \A i \in Task \ {t}, n \in Object :
            Agrees(depth'[i][n], tasks[i], pc[i], call[i].object,
                   mutex'[n], i, n)
      /\ \A n \in Object :
            depth'[t][n] = IF mutex'[n].locked = 1 /\ mutex'[n].owner = t
                           THEN mutex'[n].recursion ELSE 0
  BY <1>1, <1>3, <1>5, LevelChange
<1>7. \A i \in Task : Waiting(tasks[i]) =>
         SameHolder(mutex'[tasks[i].wait_object], mutex[tasks[i].wait_object])
  BY <1>6, MutexInvFacts DEF WaitOK
<1>8. TaskInv'
  BY <1>1, MutexInvFacts, SameTableInv
<1>9. TypeOK'
  BY <1>6, <1>8 DEF TypeOK, TaskInv, Mutexes
<1>10. ASSUME NEW n \in Object
       PROVE  Agrees(depth'[t][n], tasks[t], pc[t], call[t].object,
                     mutex'[n], t, n)
  <2>1. depth'[t][n] \in Nat
    BY <1>1, <1>6
  <2> QED
    BY <1>1, <1>6, <2>1 DEF Agrees
<1>11. \A i \in Task, n \in Object :
          Agrees(depth'[i][n], tasks[i], pc'[i], call'[i].object,
                 mutex'[n], i, n)
  BY <1>1, <1>6, <1>10
<1>12. CallOK(tasks[t], pc'[t], call'[t], t)
  BY <1>1, MutexInvFacts
<1> QED
  BY <1>1, <1>6, <1>7, <1>8, <1>9, <1>11, <1>12, CallMutexInv
-----------------------------------------------------------------------------
(* A contended lock.                                                       *)

LEMMA BoostedIs ==
    ASSUME MutexInv, NEW t \in ApplicationTask, Contended(t)
    PROVE  LET m == call[t].object
               o == mutex[m].owner
               R == Boosted(t)
           IN  /\ t \in Task /\ Thread(t) /\ pc[t] = "attempt"
               /\ m \in Object /\ o \in Task \ {t} /\ mutex[m].locked = 1
               /\ tasks[t].state = "RUNNING"
               /\ R \in CalmTables(mutex) /\ Unboosted(R, mutex)
               /\ SameEntries(tasks, R)
               /\ R[t].priority <= R[o].priority
<1> DEFINE m == call[t].object
           o == mutex[m].owner
           p == tasks[t].priority
           R == Boosted(t)
<1>1. /\ t \in Task /\ Thread(t) /\ pc[t] = "attempt"
      /\ mutex[m].locked = 1 /\ o # t
  BY TaskIndices DEF Contended, Attempt
<1>2. m \in Object
  BY <1>1, MutexInvFacts DEF CallOK
<1>3. o \in Task
  BY <1>1, <1>2, MutexInvFacts DEF MutexOK
<1>4. tasks[t].state = "RUNNING"
  BY <1>1, ThreadWaitsNot
<1>5. p \in Priority /\ \A i \in Task : tasks[i].priority \in Priority
  BY <1>1, MutexInvFacts DEF TCB
<1>6. R = task_inherit_priority(tasks, mutex, o, p)
  BY DEF Boosted
<1> HIDE DEF R, p, o, m
<1>7. /\ R \in [Task -> TCB] /\ SameEntries(tasks, R)
      /\ p <= R[o].priority
      /\ \A i \in Task : /\ tasks[i].priority <= R[i].priority
                         /\ R[i].priority \in {tasks[i].priority, p}
      /\ \A i \in Task : R[i].priority # tasks[i].priority =>
             i = o \/ \E w \in Task : BlockedBehind(tasks, mutex, w) = i
      /\ NoInversion(tasks, mutex) => NoInversion(R, mutex)
  BY <1>3, <1>5, <1>6, MutexInvFacts, InheritResult
<1>8. R \in Tables(mutex)
  BY <1>7, MutexInvFacts, BehindSame
<1>9. AboveBase(R)
  <2> SUFFICES ASSUME NEW i \in Task
               PROVE  base_priority[i] <= R[i].priority
    BY DEF AboveBase
  <2>1. /\ base_priority[i] <= tasks[i].priority
        /\ tasks[i].priority <= R[i].priority
    BY <1>7, MutexInvFacts DEF AboveBase
  <2>2. /\ base_priority[i] \in Int /\ tasks[i].priority \in Int
        /\ R[i].priority \in Int
    BY <1>5, <1>7, TaskTableAssumption DEF Priority, TCB
  <2> QED
    BY <2>1, <2>2
<1>10. Owns(mutex, o)
  BY <1>2 DEF Owns, o
<1>11. Unboosted(R, mutex)
  <2> SUFFICES ASSUME NEW i \in Task, ~Owns(mutex, i)
               PROVE  R[i].priority = base_priority[i]
    BY DEF Unboosted
  <2>1. i # o /\ ~\E w \in Task : BlockedBehind(tasks, mutex, w) = i
    BY <1>10, MutexInvFacts, BehindOwns
  <2>2. R[i].priority = tasks[i].priority
    BY <1>7, <2>1
  <2> QED
    BY <2>2 DEF MutexInv, Unboosted
<1>12. R[t].priority = p
  BY <1>1, <1>7 DEF p
<1>13. R \in CalmTables(mutex)
  BY <1>7, <1>8, <1>9, MutexInvFacts DEF CalmTables
<1> QED
  BY <1>1, <1>2, <1>3, <1>4, <1>7, <1>11, <1>12, <1>13 DEF R, o, m

(* A step that changes entries and places, not the mutexes' levels.        *)
LEMMA TableMutexInv ==
    ASSUME MutexInv, TaskInv', mutex' \in Mutexes, TypeOK',
           tasks' \in CalmTables(mutex'), Unboosted(tasks', mutex'),
           \A i \in Task : CallOK(tasks'[i], pc'[i], call'[i], i),
           \A i \in Task, m \in Object :
               Agrees(depth'[i][m], tasks'[i], pc'[i], call'[i].object,
                      mutex'[m], i, m)
    PROVE  MutexInv'
<1>1. OwnershipAgrees'
  BY OwnershipIsNext
<1>2. CallsOK'
  BY DEF CallsOK
<1> QED
  BY <1>1, <1>2 DEF MutexInv

LEMMA LockTooLateInv ==
    ASSUME MutexInv, NEW t \in ApplicationTask, LockTooLate(t)
    PROVE  MutexInv'
<1>1. /\ Contended(t) /\ tasks' = Boosted(t) /\ Return(t)
      /\ UNCHANGED <<mutex, depth>>
  BY DEF LockTooLate, mutexVars
<1>2. /\ t \in Task /\ Thread(t) /\ pc[t] = "attempt"
      /\ tasks[t].state = "RUNNING"
      /\ tasks' \in CalmTables(mutex) /\ Unboosted(tasks', mutex)
      /\ SameEntries(tasks, tasks')
  BY <1>1, BoostedIs
<1>3. tasks' \in [Task -> TCB]
  BY <1>2 DEF CalmTables, Tables
<1>4. /\ pc'[t] = "app" /\ call'[t] = NoCall
      /\ \A i \in Task \ {t} : pc'[i] = pc[i] /\ call'[i] = call[i]
      /\ UNCHANGED <<current, ticks, pendsv>>
  BY <1>1, <1>2, ReturnPlace
<1>5. TaskTypeOK'
  BY <1>1, <1>3, <1>4, MutexInvFacts, NoCallOK DEF TaskTypeOK, Return
<1>6. ASSUME NEW i \in Task
      PROVE  /\ tasks'[i] \in TCB /\ tasks[i] \in TCB
             /\ Unranked(tasks'[i]) = Unranked(tasks[i])
             /\ tasks'[i].state = tasks[i].state
             /\ tasks'[i].wait_result = tasks[i].wait_result
             /\ tasks'[i].wait_object = tasks[i].wait_object
             /\ Waiting(tasks'[i]) <=> Waiting(tasks[i])
  BY <1>2, <1>3, MutexInvFacts, UnrankedFields, UnrankedChecks DEF SameEntries
<1>7. \A i \in Task : check_task(tasks[i]) /\ ~WaitExpired(tasks[i], ticks)
  BY MutexInvFacts
     DEF TaskInv, KernelInvariantsHold, kernel_check_invariants,
         NoOverdueWaiter, WaitExpired
<1>8. TaskInv'
  <2>1. \A i \in Task : check_task(tasks'[i]) /\ ~WaitExpired(tasks'[i], ticks')
    BY <1>4, <1>6, <1>7, UnrankedChecks
  <2>2. current = t
    BY <1>2 DEF Thread
  <2> QED
    BY <1>2, <1>4, <1>5, <1>6, <2>1, <2>2, MutexInvFacts, EntriesInv
<1>9. TypeOK'
  BY <1>1, <1>5, MutexInvFacts DEF TypeOK
<1>10. ASSUME NEW i \in Task
       PROVE  CallOK(tasks'[i], pc'[i], call'[i], i)
  <2>1. CASE i = t
    BY <1>2, <1>4, <1>6, <2>1 DEF CallOK, Waiting
  <2>2. CASE i # t
    BY <1>4, <1>6, <2>2, MutexInvFacts DEF CallOK
  <2> QED
    BY <2>1, <2>2
<1>11. ASSUME NEW i \in Task, NEW m \in Object
       PROVE  Agrees(depth'[i][m], tasks'[i], pc'[i], call'[i].object,
                     mutex'[m], i, m)
  <2>1. Agrees(depth[i][m], tasks[i], pc[i], call[i].object, mutex[m], i, m)
    BY StillAgrees
  <2>2. CASE i = t
    BY <1>1, <1>2, <1>4, <2>1, <2>2 DEF Agrees
  <2>3. CASE i # t
    BY <1>1, <1>4, <1>6, <2>1, <2>3 DEF Agrees
  <2> QED
    BY <2>2, <2>3
<1>12. mutex' \in Mutexes /\ tasks' \in CalmTables(mutex')
       /\ Unboosted(tasks', mutex')
  BY <1>1, <1>2, MutexInvFacts
<1> QED
  BY <1>8, <1>9, <1>10, <1>11, <1>12, TableMutexInv
(* A new waiter at a table without inversion.                              *)
LEMMA NewWaiter ==
    ASSUME NEW M \in Mutexes, NEW R \in CalmTables(M), NEW t \in Task,
           NEW m \in Object, M[m].locked = 1, M[m].owner \in Task \ {t},
           ~Waiting(R[t]), R[t].priority <= R[M[m].owner].priority,
           NEW e \in TCB, Waiting(e), e.wait_object = m,
           e.priority = R[t].priority
    PROVE  LET E == [R EXCEPT ![t] = e]
           IN  E \in CalmTables(M)
<1> DEFINE E == [R EXCEPT ![t] = e]
           o == M[m].owner
<1>1. R \in Tables(M) /\ R \in [Task -> TCB] /\ AboveBase(R) /\ NoInversion(R, M)
  BY DEF CalmTables, Tables
<1>2. /\ E \in [Task -> TCB] /\ E[t] = e
      /\ \A i \in Task \ {t} : E[i] = R[i]
  BY <1>1
<1> HIDE DEF E
<1>3. \A i \in Task : E[i].priority = R[i].priority
  BY <1>2
<1>4. \A i \in Task : WaitOK(E[i], M, i)
  BY <1>1, <1>2 DEF Tables, WaitOK
<1>5. E \in Tables(M)
  BY <1>2, <1>4 DEF Tables
<1>6. /\ BlockedBehind(E, M, t) = o
      /\ \A i \in Task \ {t} : BlockedBehind(E, M, i) = BlockedBehind(R, M, i)
  <2>1. BlockedBehind(E, M, t) = o
    BY <1>2, <1>5, BehindIs
  <2>2. \A i \in Task \ {t} : BlockedBehind(E, M, i) = BlockedBehind(R, M, i)
    BY <1>1, <1>2, <1>5, BehindIs
  <2> QED
    BY <2>1, <2>2
<1>7. NoInversion(E, M)
  <2> SUFFICES ASSUME NEW w \in Task, BlockedBehind(E, M, w) # NoOwner
               PROVE  E[w].priority <= E[BlockedBehind(E, M, w)].priority
    BY DEF NoInversion
  <2>1. CASE w = t
    BY <1>3, <1>6, <2>1
  <2>2. CASE w # t
    <3> DEFINE b == BlockedBehind(R, M, w)
    <3>1. BlockedBehind(E, M, w) = b /\ b \in Task
      BY <1>1, <1>6, <2>2, BehindIs
    <3>2. R[w].priority <= R[b].priority
      BY <1>1, <1>6, <2>2 DEF NoInversion
    <3> HIDE DEF b
    <3> QED
      BY <1>3, <3>1, <3>2
  <2> QED
    BY <2>1, <2>2
<1>8. AboveBase(E)
  BY <1>1, <1>3 DEF AboveBase
<1>9. E \in CalmTables(M)
  BY <1>5, <1>7, <1>8 DEF CalmTables
<1> QED
  BY <1>9 DEF E

LEMMA LockBlockInv ==
    ASSUME MutexInv, NEW t \in ApplicationTask, LockBlock(t)
    PROVE  MutexInv'
<1> DEFINE m == call[t].object
           R == Boosted(t)
           dl == call[t].deadline
           e == task_wait_begin_until(R[t], m, "MUTEX", dl)
<1>1. /\ Contended(t) /\ ~DeadlineElapsed(t)
      /\ tasks' = [R EXCEPT ![t] = e]
      /\ pc' = [pc EXCEPT ![t] = "yield"]
      /\ UNCHANGED <<current, ticks, pendsv, call, mutex, depth>>
  BY DEF LockBlock, Block, mutexVars
<1>2. /\ t \in Task /\ Thread(t) /\ pc[t] = "attempt"
      /\ m \in Object /\ mutex[m].owner \in Task \ {t} /\ mutex[m].locked = 1
      /\ tasks[t].state = "RUNNING"
      /\ R \in CalmTables(mutex) /\ Unboosted(R, mutex)
      /\ SameEntries(tasks, R)
      /\ R[t].priority <= R[mutex[m].owner].priority
  BY <1>1, BoostedIs
<1>3. dl \in Deadline
  BY <1>2, MutexInvFacts DEF Call
<1>4. ~(dl.forever = 0 /\ Elapsed(ticks, dl.start, dl.tick))
  BY <1>1 DEF DeadlineElapsed
<1> HIDE DEF m, R, dl
<1>5. R \in [Task -> TCB] /\ R[t] \in TCB
  BY <1>2 DEF CalmTables, Tables
<1>6. e \in TCB
  BY <1>2, <1>3, <1>5, WaitBeginType DEF WaitKind
<1>7. /\ e.state = "BLOCKED" /\ e.wait_object = m /\ e.wait_kind = "MUTEX"
      /\ e.wait_start = dl.start /\ e.wait_deadline = dl.tick
      /\ e.wait_forever = dl.forever /\ e.priority = R[t].priority
  BY <1>5 DEF task_wait_begin_until, TCB
<1> HIDE DEF e
<1>8. check_task(e) /\ ~WaitExpired(e, ticks) /\ Waiting(e)
  <2>1. m # NULL
    BY <1>2, TaskTableAssumption
  <2> QED
    BY <1>4, <1>7, <2>1 DEF check_task, WaitExpired, Waiting
<1>9. ASSUME NEW i \in Task
      PROVE  /\ R[i] \in TCB /\ tasks[i] \in TCB
             /\ Unranked(R[i]) = Unranked(tasks[i])
             /\ R[i].state = tasks[i].state
             /\ R[i].wait_result = tasks[i].wait_result
             /\ R[i].wait_object = tasks[i].wait_object
             /\ Waiting(R[i]) <=> Waiting(tasks[i])
  BY <1>2, <1>5, MutexInvFacts, UnrankedFields, UnrankedChecks DEF SameEntries
<1>10. /\ tasks' \in [Task -> TCB] /\ tasks'[t] = e
       /\ \A i \in Task \ {t} : tasks'[i] = R[i]
  BY <1>1, <1>2, <1>5, <1>6
<1>11. pc'[t] = "yield" /\ \A i \in Task \ {t} : pc'[i] = pc[i]
  BY <1>1, <1>2, MutexInvFacts DEF TaskTypeOK
<1>12. TaskTypeOK'
  BY <1>1, <1>10, MutexInvFacts DEF TaskTypeOK
<1>13. \A i \in Task : check_task(tasks[i]) /\ ~WaitExpired(tasks[i], ticks)
  BY MutexInvFacts
     DEF TaskInv, KernelInvariantsHold, kernel_check_invariants,
         NoOverdueWaiter, WaitExpired
<1>14. TaskInv'
  <2>1. ASSUME NEW i \in Task
        PROVE  /\ check_task(tasks'[i]) /\ ~WaitExpired(tasks'[i], ticks')
               /\ tasks'[i].state = "RUNNING" => tasks[i].state = "RUNNING"
               /\ tasks[i].state \in {"READY", "RUNNING"} /\ i = idle_index =>
                      tasks'[i].state \in {"READY", "RUNNING"}
    <3>1. CASE i = t
      BY <1>1, <1>7, <1>8, <1>10, <3>1, TaskIndices
    <3>2. CASE i # t
      BY <1>1, <1>9, <1>10, <1>13, <3>2, UnrankedChecks
    <3> QED
      BY <3>1, <3>2
  <2>2. current = t
    BY <1>2 DEF Thread
  <2> QED
    BY <1>1, <1>11, <1>12, <2>1, <2>2, MutexInvFacts, EntriesInv
<1>15. TypeOK'
  BY <1>1, <1>12, MutexInvFacts DEF TypeOK
<1>16. tasks' \in CalmTables(mutex)
  <2>1. ~Waiting(R[t])
    BY <1>2, <1>9 DEF Waiting
  <2> QED
    BY <1>1, <1>2, <1>6, <1>7, <1>8, <2>1, MutexInvFacts, NewWaiter
<1>17. Unboosted(tasks', mutex)
  BY <1>2, <1>7, <1>10 DEF Unboosted
<1>18. ASSUME NEW i \in Task
       PROVE  CallOK(tasks'[i], pc'[i], call'[i], i)
  <2>1. CASE i = t
    BY <1>1, <1>2, <1>7, <1>10, <1>11, <2>1 DEF CallOK, m
  <2>2. CASE i # t
    BY <1>1, <1>9, <1>10, <1>11, <2>2, MutexInvFacts DEF CallOK
  <2> QED
    BY <2>1, <2>2
<1>19. ASSUME NEW i \in Task, NEW n \in Object
       PROVE  Agrees(depth'[i][n], tasks'[i], pc'[i], call'[i].object,
                     mutex'[n], i, n)
  <2>1. Agrees(depth[i][n], tasks[i], pc[i], call[i].object, mutex[n], i, n)
    BY StillAgrees
  <2>2. CASE i = t
    BY <1>1, <1>2, <1>7, <1>10, <2>1, <2>2 DEF Agrees
  <2>3. CASE i # t
    BY <1>1, <1>9, <1>10, <1>11, <2>1, <2>3 DEF Agrees
  <2> QED
    BY <2>2, <2>3
<1>20. mutex' \in Mutexes /\ tasks' \in CalmTables(mutex')
       /\ Unboosted(tasks', mutex')
  BY <1>1, <1>16, <1>17, MutexInvFacts
<1> QED
  BY <1>14, <1>15, <1>18, <1>19, <1>20, TableMutexInv
-----------------------------------------------------------------------------
(* The tick.                                                               *)

(* The tick ends waits without a mutex and starts none.                    *)
LEMMA TickResult ==
    ASSUME NEW a \in TCB, NEW now
    PROVE  LET e == tick_task(a, now)
           IN  /\ a.state # "BLOCKED" =>
                     e.state # "BLOCKED" /\ e.wait_result = a.wait_result
               /\ a.state = "BLOCKED" =>
                     e.state = "BLOCKED" \/ e.wait_result = 0
               /\ Waiting(a) /\ e.state # "BLOCKED" => TimesOut(a, now)
<1> DEFINE e == tick_task(a, now)
<1>1. CASE a.state = "SLEEPING" /\ a.sleep_ticks > 0
  BY <1>1 DEF tick_task, tick_sleeper, WaitExpired, Waiting, TCB
<1>2. CASE WaitExpired(a, now)
  BY <1>2 DEF tick_task, task_wait_end, WaitExpired, TimesOut, TCB
<1>3. CASE /\ ~(a.state = "SLEEPING" /\ a.sleep_ticks > 0)
           /\ ~WaitExpired(a, now)
  BY <1>3 DEF tick_task, Waiting
<1> QED
  BY <1>1, <1>2, <1>3

LEMMA MutexSysTickInv ==
    ASSUME MutexInv, MutexSysTick
    PROVE  MutexInv'
<1> DEFINE u(i) == tick_task(tasks[i], ticks')
<1>1. /\ tasks' = tick_all(tasks, mutex, ticks')
      /\ ticks' = TickAdd(ticks, 1) /\ pendsv' = 1
      /\ UNCHANGED <<current, pc, call, mutex, depth>>
  BY DEF MutexSysTick, SysTickClock, mutexVars
<1>2. /\ tasks' \in CalmTables(mutex)
      /\ \A i \in Task : Unranked(tasks'[i]) = Unranked(u(i))
      /\ \A i \in Task : tasks'[i].priority # tasks[i].priority =>
             Owns(mutex, i)
  BY <1>1, MutexInvFacts, TickAllResult
<1>3. tasks' \in [Task -> TCB]
  BY <1>2 DEF CalmTables, Tables
<1>4. ticks' \in Tick
  BY <1>1, MutexInvFacts, TickTypes, TickConstants DEF TaskTypeOK
<1>5. TaskTypeOK'
  BY <1>1, <1>3, <1>4, MutexInvFacts DEF TaskTypeOK
<1>6. \A i \in Task : check_task(tasks[i])
  BY MutexInvFacts DEF TaskInv, KernelInvariantsHold, kernel_check_invariants
<1>7. ASSUME NEW i \in Task
      PROVE  /\ tasks[i] \in TCB /\ tasks'[i] \in TCB /\ u(i) \in TCB
             /\ check_task(tasks'[i]) /\ ~WaitExpired(tasks'[i], ticks')
             /\ tasks'[i].state = u(i).state
             /\ tasks'[i].wait_result = u(i).wait_result
             /\ tasks'[i].wait_object = u(i).wait_object
             /\ Waiting(tasks'[i]) <=> Waiting(u(i))
  <2>1. tasks[i] \in TCB /\ tasks'[i] \in TCB /\ u(i) \in TCB
    BY <1>3, MutexInvFacts, TickTaskType
  <2>2. check_task(u(i)) /\ ~WaitExpired(u(i), ticks')
    BY <1>6, <2>1, TickTask
  <2> HIDE DEF u
  <2> QED
    BY <1>2, <2>1, <2>2, UnrankedFields, UnrankedChecks
<1>8. ASSUME NEW i \in Task
      PROVE  /\ tasks'[i].state = "RUNNING" => tasks[i].state = "RUNNING"
             /\ tasks[i].state \in {"READY", "RUNNING"} =>
                    tasks'[i].state \in {"READY", "RUNNING"}
  <2>1. /\ u(i).state = "RUNNING" <=> tasks[i].state = "RUNNING"
        /\ tasks[i].state \in {"READY", "RUNNING"} => u(i) = tasks[i]
    BY <1>6, <1>7, TickTask
  <2> HIDE DEF u
  <2> QED
    BY <1>7, <2>1
<1>9. TaskInv'
  BY <1>1, <1>5, <1>7, <1>8, MutexInvFacts, EntriesInv
<1>10. TypeOK'
  BY <1>1, <1>5, MutexInvFacts DEF TypeOK
<1>11. Unboosted(tasks', mutex)
  BY <1>2 DEF MutexInv, Unboosted
<1>12. ASSUME NEW i \in Task
       PROVE  CallOK(tasks'[i], pc'[i], call'[i], i)
  <2>1. Waiting(u(i)) => u(i) = tasks[i]
    BY <1>7, TickEntry
  <2> HIDE DEF u
  <2> QED
    BY <1>1, <1>7, <2>1, MutexInvFacts DEF CallOK
<1>13. ASSUME NEW i \in Task, NEW m \in Object
       PROVE  Agrees(depth'[i][m], tasks'[i], pc'[i], call'[i].object,
                     mutex'[m], i, m)
  <2>1. Agrees(depth[i][m], tasks[i], pc[i], call[i].object, mutex[m], i, m)
    BY StillAgrees
  <2>2. /\ tasks[i].state # "BLOCKED" =>
              /\ u(i).state # "BLOCKED"
              /\ u(i).wait_result = tasks[i].wait_result
        /\ tasks[i].state = "BLOCKED" =>
              u(i).state = "BLOCKED" \/ u(i).wait_result = 0
    BY <1>7, TickResult
  <2> HIDE DEF u
  <2> QED
    BY <1>1, <1>7, <2>1, <2>2 DEF Agrees
<1>14. mutex' \in Mutexes /\ tasks' \in CalmTables(mutex')
       /\ Unboosted(tasks', mutex')
  BY <1>1, <1>2, <1>11, MutexInvFacts
<1> QED
  BY <1>9, <1>10, <1>12, <1>13, <1>14, TableMutexInv
-----------------------------------------------------------------------------
(* The last unlock.                                                        *)

(* Nothing is left of the boost of a task without a mutex.                 *)
LEMMA NothingToInherit ==
    ASSUME NEW M \in Mutexes, NEW T \in Tables(M), NEW i \in Task, ~Owns(M, i)
    PROVE  EffectivePriority(T, M, i) = base_priority[i]
<1>1. ~\E w \in Task : BlockedBehind(T, M, w) = i
  BY BehindOwns
<1> QED
  BY <1>1, EffectiveIs

(* Nobody waits: task t gives mutex m back.                                *)
LEMMA FreedTable ==
    ASSUME NEW M \in Mutexes, NEW T \in CalmTables(M), NEW N \in Mutexes,
           NEW t \in Task, NEW m \in Object, Waiters(T, m, "MUTEX") = {},
           \A n \in Object \ {m} : N[n] = M[n]
    PROVE  LET R == task_restore_priority(T, N, t)
           IN  /\ R \in CalmTables(N) /\ SameEntries(T, R)
               /\ \A i \in Task \ {t} : R[i] = T[i]
               /\ Owns(N, t) \/ R[t].priority = base_priority[t]
<1> DEFINE R == task_restore_priority(T, N, t)
<1>1. T \in Tables(M) /\ T \in [Task -> TCB]
  BY DEF CalmTables, Tables
<1>2. \A i \in Task : Waiting(T[i]) =>
         SameHolder(N[T[i].wait_object], M[T[i].wait_object])
  BY <1>1 DEF Tables, WaitOK, Waiters, Waiting, SameHolder
<1>3. T \in CalmTables(N)
  BY <1>2, OtherMutexes
<1>4. T \in Tables(N) /\ AboveBase(T) /\ NoInversion(T, N)
  BY <1>3 DEF CalmTables
<1>5. /\ R \in Tables(N) /\ SameEntries(T, R)
      /\ R[t].priority = EffectivePriority(T, N, t)
      /\ \A i \in Task \ {t} : R[i] = T[i]
  BY <1>4, RestoreOne
<1>6. AboveBase(R) /\ NoInversion(R, N)
  BY <1>4, RestoredCalm
<1>7. ~Owns(N, t) => EffectivePriority(T, N, t) = base_priority[t]
  BY <1>4, NothingToInherit
<1> HIDE DEF R
<1>8. R \in CalmTables(N)
  BY <1>5, <1>6 DEF CalmTables
<1> QED
  BY <1>5, <1>7, <1>8 DEF R

(* Task t passes mutex m to the waiter next, whose entry becomes e: M are  *)
(* the mutexes before, N those after, T and E the tables.                  *)
Passing(M, T, N, t, m, next, e, E) ==
    /\ M \in Mutexes /\ N \in Mutexes /\ T \in CalmTables(M)
    /\ t \in Task /\ m \in Object /\ next \in Task \ {t}
    /\ M[m].owner = t /\ N[m].owner = next /\ N[m].locked = 1
    /\ \A n \in Object \ {m} : N[n] = M[n]
    /\ ~Waiting(T[t]) /\ Waiting(T[next]) /\ T[next].wait_object = m
    /\ e \in TCB /\ ~Waiting(e) /\ e.priority = T[next].priority
    /\ E = [T EXCEPT ![next] = e]

LEMMA PassedTable ==
    ASSUME NEW M, NEW T, NEW N, NEW t, NEW m, NEW next, NEW e, NEW E,
           Passing(M, T, N, t, m, next, e, E)
    PROVE  LET R == task_restore_priority(E, N, t)
               Q == task_restore_priority(R, N, next)
           IN  /\ Q \in CalmTables(N) /\ SameEntries(E, Q)
               /\ \A i \in Task \ {t, next} : Q[i] = T[i]
               /\ Owns(N, t) \/ Q[t].priority = base_priority[t]
<1> DEFINE R == task_restore_priority(E, N, t)
           Q == task_restore_priority(R, N, next)
<1>0. /\ M \in Mutexes /\ N \in Mutexes
      /\ t \in Task /\ m \in Object /\ next \in Task \ {t}
      /\ M[m].owner = t /\ N[m].owner = next /\ N[m].locked = 1
      /\ \A n \in Object \ {m} : N[n] = M[n]
      /\ ~Waiting(T[t]) /\ Waiting(T[next]) /\ T[next].wait_object = m
      /\ e \in TCB /\ ~Waiting(e) /\ e.priority = T[next].priority
  BY DEF Passing
<1> USE <1>0
<1>1. T \in Tables(M) /\ T \in [Task -> TCB] /\ AboveBase(T) /\ NoInversion(T, M)
  BY DEF CalmTables, Tables, Passing
<1>2. /\ E \in [Task -> TCB] /\ E[next] = e
      /\ \A i \in Task \ {next} : E[i] = T[i]
  BY <1>1 DEF Passing
<1>3. \A i \in Task : WaitOK(E[i], N, i)
  <2> TAKE i \in Task
  <2>1. CASE i = next
    BY <1>2, <2>1 DEF WaitOK
  <2>2. CASE i # next
    BY <1>1, <1>2, <2>2 DEF Tables, WaitOK
  <2> QED
    BY <2>1, <2>2
<1>4. E \in Tables(N)
  BY <1>2, <1>3 DEF Tables
<1>5. /\ R \in Tables(N) /\ SameEntries(E, R)
      /\ R[t].priority = EffectivePriority(E, N, t)
      /\ \A i \in Task \ {t} : R[i] = E[i]
  BY <1>4, RestoreOne
<1> HIDE DEF R
<1>6. /\ Q \in Tables(N) /\ SameEntries(R, Q)
      /\ Q[next].priority = EffectivePriority(R, N, next)
      /\ \A i \in Task \ {next} : Q[i] = R[i]
  BY <1>5, RestoreOne
<1> HIDE DEF Q
<1>7. SameEntries(E, Q)
  BY <1>5, <1>6 DEF SameEntries
<1>8. /\ \A i \in Task \ {t, next} : Q[i] = T[i] /\ E[i] = T[i]
      /\ Q[t].priority = EffectivePriority(E, N, t)
  BY <1>2, <1>5, <1>6
<1>9. \A i \in Task : /\ BlockedBehind(Q, N, i) = BlockedBehind(E, N, i)
                      /\ BlockedBehind(R, N, i) = BlockedBehind(E, N, i)
  BY <1>4, <1>5, <1>6, <1>7, BehindSame DEF Tables
<1>10. NoInversion(Q, N)
  <2> SUFFICES ASSUME NEW w \in Task, BlockedBehind(Q, N, w) # NoOwner
               PROVE  Q[w].priority <= Q[BlockedBehind(Q, N, w)].priority
    BY DEF NoInversion
  <2> DEFINE o == BlockedBehind(E, N, w)
  <2>1. /\ BlockedBehind(Q, N, w) = o /\ o \in Task /\ Waiting(E[w])
        /\ o = N[E[w].wait_object].owner
    BY <1>4, <1>9, BehindIs
  <2>2. w # next /\ E[w] = T[w] /\ w # t
    BY <1>2, <2>1
  <2>3. Q[w].priority = T[w].priority /\ R[w] = T[w] /\ E[w] = T[w]
    BY <1>5, <1>8, <2>2
  <2>4. CASE o = next
    <3>1. R[w].priority <= EffectivePriority(R, N, next)
      BY <1>5, <1>9, <2>4, EffectiveIs
    <3> QED
      BY <1>6, <2>1, <2>3, <2>4, <3>1
  <2>5. CASE o = t
    <3>1. E[w].priority <= EffectivePriority(E, N, t)
      BY <1>4, <2>5, EffectiveIs
    <3> QED
      BY <1>8, <2>1, <2>3, <2>5, <3>1
  <2>6. CASE o # next /\ o # t
    <3> DEFINE n == T[w].wait_object
    <3>1. n \in Object /\ Waiting(T[w])
      BY <1>1, <2>1, <2>2 DEF Tables, WaitOK
    <3>2. n # m
      BY <2>1, <2>2, <2>6
    <3>3. M[n].owner = o
      BY <2>1, <2>2, <3>1, <3>2
    <3>4. BlockedBehind(T, M, w) = o /\ o # NoOwner
      BY <1>1, <2>1, <3>1, <3>3, BehindIs, TaskIndices DEF NoOwner
    <3>5. T[w].priority <= T[o].priority
      BY <1>1, <3>4 DEF NoInversion
    <3> HIDE DEF o
    <3>6. Q[o] = T[o]
      BY <1>8, <2>1, <2>6
    <3> QED
      BY <2>1, <2>3, <3>5, <3>6
  <2> QED
    BY <2>4, <2>5, <2>6
<1>11. AboveBase(Q)
  <2> SUFFICES ASSUME NEW i \in Task
               PROVE  base_priority[i] <= Q[i].priority
    BY DEF AboveBase
  <2>1. CASE i = next
    BY <1>5, <1>6, <2>1, EffectiveIs
  <2>2. CASE i = t
    BY <1>4, <1>8, <2>2, EffectiveIs
  <2>3. CASE i \notin {t, next}
    BY <1>1, <1>8, <2>3 DEF AboveBase
  <2> QED
    BY <2>1, <2>2, <2>3
<1>12. Q \in CalmTables(N)
  BY <1>6, <1>10, <1>11 DEF CalmTables
<1>13. Owns(N, t) \/ Q[t].priority = base_priority[t]
  BY <1>4, <1>8, NothingToInherit
<1> QED
  BY <1>7, <1>8, <1>12, <1>13 DEF Q, R
(* Waking the tasks in W and changing priorities.                          *)
LEMMA WakeRankedInv ==
    ASSUME MutexInv, NEW W \in SUBSET Task, tasks' \in [Task -> TCB],
           \A i \in W : tasks[i].state = "BLOCKED" /\ i # idle_index,
           \A i \in Task : Unranked(tasks'[i]) =
               Unranked(IF i \in W THEN task_wait_end(tasks[i], 1)
                        ELSE tasks[i]),
           UNCHANGED <<current, ticks, pendsv, pc, call>>
    PROVE  /\ TaskInv' /\ TaskTypeOK'
           /\ \A i \in W : /\ tasks'[i].state = "READY"
                           /\ tasks'[i].wait_result = 1
           /\ \A i \in Task \ W :
                 /\ tasks'[i].state = tasks[i].state
                 /\ tasks'[i].wait_result = tasks[i].wait_result
                 /\ tasks'[i].wait_object = tasks[i].wait_object
                 /\ Waiting(tasks'[i]) <=> Waiting(tasks[i])
<1>1. TaskTypeOK'
  BY MutexInvFacts DEF TaskTypeOK
<1>2. \A i \in Task : check_task(tasks[i]) /\ ~WaitExpired(tasks[i], ticks)
  BY MutexInvFacts
     DEF TaskInv, KernelInvariantsHold, kernel_check_invariants,
         NoOverdueWaiter, WaitExpired
<1>3. ASSUME NEW i \in W
      PROVE  /\ tasks'[i].state = "READY" /\ tasks'[i].wait_result = 1
             /\ check_task(tasks'[i]) /\ ~WaitExpired(tasks'[i], ticks)
  <2> DEFINE e == task_wait_end(tasks[i], 1)
  <2>1. e \in TCB /\ tasks[i] \in TCB /\ tasks'[i] \in TCB
    BY MutexInvFacts, WaitEndType
  <2>2. /\ e.state = "READY" /\ e.wait_result = 1
        /\ check_task(e) /\ ~WaitExpired(e, ticks)
    BY <2>1 DEF task_wait_end, check_task, WaitExpired, TCB
  <2>3. Unranked(tasks'[i]) = Unranked(e)
    OBVIOUS
  <2> HIDE DEF e
  <2> QED
    BY <2>1, <2>2, <2>3, UnrankedFields, UnrankedChecks
<1>4. ASSUME NEW i \in Task \ W
      PROVE  /\ tasks'[i].state = tasks[i].state
             /\ tasks'[i].wait_result = tasks[i].wait_result
             /\ tasks'[i].wait_object = tasks[i].wait_object
             /\ Waiting(tasks'[i]) <=> Waiting(tasks[i])
             /\ check_task(tasks'[i]) /\ ~WaitExpired(tasks'[i], ticks)
  <2>1. tasks[i] \in TCB /\ tasks'[i] \in TCB
        /\ Unranked(tasks'[i]) = Unranked(tasks[i])
    BY MutexInvFacts
  <2> QED
    BY <1>2, <2>1, UnrankedFields, UnrankedChecks
<1>5. ASSUME NEW i \in Task
      PROVE  /\ check_task(tasks'[i]) /\ ~WaitExpired(tasks'[i], ticks')
             /\ tasks'[i].state = "RUNNING" => tasks[i].state = "RUNNING"
             /\ tasks[i].state \in {"READY", "RUNNING"} /\ i = idle_index =>
                    tasks'[i].state \in {"READY", "RUNNING"}
  BY <1>3, <1>4
<1>6. pendsv' = 0 /\ pc'[current] # "yield" =>
         tasks'[current].state = "RUNNING"
  <2>1. current \in Task /\ (pendsv = 0 /\ pc[current] # "yield" =>
                                tasks[current].state = "RUNNING")
    BY MutexInvFacts DEF TaskTypeOK, TaskInv, ExecutingIsRunning
  <2> QED
    BY <1>4, <2>1
<1>7. TaskInv'
  BY <1>1, <1>5, <1>6, MutexInvFacts, EntriesInv
<1> QED
  BY <1>1, <1>3, <1>4, <1>7

(* What the last unlock does, for the set W of the tasks it wakes.         *)
LEMMA UnlockOuterStep ==
    ASSUME MutexInv, NEW t \in ApplicationTask, NEW m \in Object,
           UnlockOuter(t, m)
    PROVE  \E W \in SUBSET Task :
              /\ tasks' \in CalmTables(mutex')
              /\ mutex' \in Mutexes
              /\ \A n \in Object : mutex'[n].recursion <= MaxRecursion[n]
              /\ \A n \in Object \ {m} : mutex'[n] = mutex[n]
              /\ \A i \in Task : Unranked(tasks'[i]) =
                    Unranked(IF i \in W THEN task_wait_end(tasks[i], 1)
                             ELSE tasks[i])
              /\ \A i \in W : /\ Waiting(tasks[i]) /\ tasks[i].wait_object = m
                              /\ mutex'[m].locked = 1 /\ mutex'[m].owner = i
                              /\ mutex'[m].recursion = 1
              /\ \A i \in Task \ W : mutex'[m].owner # i
              /\ \A i \in Task \ (W \cup {t}) :
                    tasks'[i].priority = tasks[i].priority
              /\ Owns(mutex', t) \/ tasks'[t].priority = base_priority[t]
<1> DEFINE next == task_wake_get_id(tasks, m, "MUTEX")
           T == task_wake(tasks, m, "MUTEX")
           x == IF next = NoTask
                THEN [locked |-> 0, owner |-> NoOwner, recursion |-> 0]
                ELSE [locked |-> 1, owner |-> next, recursion |-> 1]
           R == task_restore_priority(T, mutex', t)
           V == Waiters(tasks, m, "MUTEX")
<1>1. /\ t \in Task /\ Thread(t) /\ pc[t] = "app"
      /\ mutex[m].owner = t /\ mutex[m].locked = 1
      /\ mutex' = [mutex EXCEPT ![m] = x]
      /\ tasks' = IF next = NoTask THEN R
                  ELSE task_restore_priority(R, mutex', next)
  BY TaskIndices DEF UnlockOuter, InApp
<1>2. ~Waiting(tasks[t])
  BY <1>1, ThreadWaitsNot
<1>3. CASE V = {}
  <2>1. next = NoTask
    BY <1>3 DEF task_wake_get_id
  <2>2. T = tasks
    BY <2>1 DEF task_wake
  <2> HIDE DEF next, T
  <2>3. x = [locked |-> 0, owner |-> NoOwner, recursion |-> 0]
    BY <2>1
  <2> HIDE DEF x
  <2>4. /\ x \in JRT_Mutex /\ MutexOK(x) /\ x.recursion <= MaxRecursion[m]
        /\ x.owner = NoOwner
    BY <2>3, MutexAssumption DEF JRT_Mutex, MutexOK
  <2>5. /\ mutex' \in Mutexes /\ mutex'[m] = x
        /\ \A n \in Object : mutex'[n].recursion <= MaxRecursion[n]
        /\ \A n \in Object \ {m} : mutex'[n] = mutex[n]
    BY <1>1, <2>4, MutexUpdate
  <2>6. tasks' = task_restore_priority(tasks, mutex', t)
    BY <1>1, <2>1, <2>2
  <2>7. /\ tasks' \in CalmTables(mutex') /\ SameEntries(tasks, tasks')
        /\ \A i \in Task \ {t} : tasks'[i] = tasks[i]
        /\ Owns(mutex', t) \/ tasks'[t].priority = base_priority[t]
    <3>1. mutex \in Mutexes /\ tasks \in CalmTables(mutex) /\ t \in Task
      BY <1>1, MutexInvFacts
    <3>2. mutex' \in Mutexes /\ \A n \in Object \ {m} : mutex'[n] = mutex[n]
      BY <2>5
    <3>3. LET Q == task_restore_priority(tasks, mutex', t)
          IN  /\ Q \in CalmTables(mutex') /\ SameEntries(tasks, Q)
              /\ \A i \in Task \ {t} : Q[i] = tasks[i]
              /\ Owns(mutex', t) \/ Q[t].priority = base_priority[t]
      BY <1>3, <3>1, <3>2, FreedTable
    <3> QED
      BY <2>6, <3>3
  <2>8. \A i \in Task : mutex'[m].owner # i
    BY <2>4, <2>5, TaskIndices DEF NoOwner
  <2>9. \A i \in Task : Unranked(tasks'[i]) =
           Unranked(IF i \in {} THEN task_wait_end(tasks[i], 1) ELSE tasks[i])
    BY <2>7 DEF SameEntries
  <2> WITNESS {} \in SUBSET Task
  <2> QED
    BY <2>5, <2>7, <2>8, <2>9
<1>4. CASE V # {}
  <2> DEFINE e == task_wait_end(tasks[next], 1)
  <2>1. next \in V
    <3>1. next = Selected(tasks, V)
      BY <1>4 DEF task_wake_get_id
    <3>2. V \subseteq Task
      BY DEF Waiters
    <3>3. tasks \in [Task -> TCB]
      BY MutexInvFacts
    <3> HIDE DEF V, next
    <3> QED
      BY <1>4, <3>1, <3>2, <3>3, SelectedIsWaiter
  <2>2. /\ next \in Task /\ Waiting(tasks[next])
        /\ tasks[next].wait_object = m
    BY <2>1 DEF Waiters, Waiting
  <2>3. next # t /\ next # NoTask
    BY <1>2, <2>2, TaskIndices
  <2>4. T = [tasks EXCEPT ![next] = e]
    BY <2>3 DEF task_wake
  <2>5. x = [locked |-> 1, owner |-> next, recursion |-> 1]
    BY <2>3
  <2>6. tasks' = task_restore_priority(R, mutex', next)
    BY <1>1, <2>3
  <2> HIDE DEF next, T, x
  <2>7. /\ x \in JRT_Mutex /\ MutexOK(x) /\ x.recursion <= MaxRecursion[m]
        /\ x.owner = next /\ x.locked = 1 /\ x.recursion = 1
    BY <2>2, <2>5, MutexAssumption DEF JRT_Mutex, MutexOK
  <2>8. /\ mutex' \in Mutexes /\ mutex'[m] = x
        /\ \A n \in Object : mutex'[n].recursion <= MaxRecursion[n]
        /\ \A n \in Object \ {m} : mutex'[n] = mutex[n]
    BY <1>1, <2>7, MutexUpdate
  <2>9. /\ e \in TCB /\ ~Waiting(e) /\ e.priority = tasks[next].priority
    <3>1. tasks[next] \in TCB
      BY <2>2, MutexInvFacts
    <3> QED
      BY <3>1, WaitEndType DEF task_wait_end, Waiting, TCB
  <2> HIDE DEF e
  <2>10. LET S == task_restore_priority(T, mutex', t)
             Q == task_restore_priority(S, mutex', next)
         IN  /\ Q \in CalmTables(mutex') /\ SameEntries(T, Q)
             /\ \A i \in Task \ {t, next} : Q[i] = tasks[i]
             /\ Owns(mutex', t) \/ Q[t].priority = base_priority[t]
    <3>1. /\ mutex \in Mutexes /\ tasks \in CalmTables(mutex)
          /\ t \in Task /\ next \in Task \ {t} /\ mutex[m].owner = t
      BY <1>1, <2>2, <2>3, MutexInvFacts
    <3>2. /\ mutex' \in Mutexes /\ mutex'[m].owner = next
          /\ mutex'[m].locked = 1
          /\ \A n \in Object \ {m} : mutex'[n] = mutex[n]
      BY <2>7, <2>8
    <3>3. Passing(mutex, tasks, mutex', t, m, next, e, T)
      BY <1>2, <2>2, <2>4, <2>9, <3>1, <3>2 DEF Passing
    <3> QED
      BY <3>3, PassedTable
  <2>11. /\ tasks' \in CalmTables(mutex') /\ SameEntries(T, tasks')
         /\ \A i \in Task \ {t, next} : tasks'[i] = tasks[i]
         /\ Owns(mutex', t) \/ tasks'[t].priority = base_priority[t]
    BY <2>6, <2>10
  <2>12. \A i \in Task : Unranked(tasks'[i]) =
            Unranked(IF i \in {next} THEN task_wait_end(tasks[i], 1)
                     ELSE tasks[i])
    BY <2>2, <2>4, <2>11, MutexInvFacts DEF SameEntries, e
  <2>13. {next} \in SUBSET Task
    BY <2>2
  <2>14. /\ \A i \in {next} :
               /\ Waiting(tasks[i]) /\ tasks[i].wait_object = m
               /\ mutex'[m].locked = 1 /\ mutex'[m].owner = i
               /\ mutex'[m].recursion = 1
         /\ \A i \in Task \ {next} : mutex'[m].owner # i
         /\ \A i \in Task \ ({next} \cup {t}) :
               tasks'[i].priority = tasks[i].priority
    BY <2>2, <2>7, <2>8, <2>11
  <2> DEFINE W == {next}
  <2>15. W \in SUBSET Task
    BY <2>13
  <2> QED
    BY <2>8, <2>11, <2>12, <2>14, <2>15
<1> QED
  BY <1>3, <1>4
LEMMA UnlockOuterInv ==
    ASSUME MutexInv, NEW t \in ApplicationTask, NEW m \in Object,
           UnlockOuter(t, m)
    PROVE  MutexInv'
<1>1. /\ t \in Task /\ Thread(t) /\ pc[t] = "app"
      /\ mutex[m].locked = 1 /\ mutex[m].owner = t /\ mutex[m].recursion = 1
      /\ depth' = [depth EXCEPT ![t][m] = depth[t][m] - 1]
      /\ UNCHANGED <<current, ticks, pendsv, pc, call>>
  BY TaskIndices DEF UnlockOuter, InApp, Released
<1>2. PICK W \in SUBSET Task :
         /\ tasks' \in CalmTables(mutex')
         /\ mutex' \in Mutexes
         /\ \A n \in Object : mutex'[n].recursion <= MaxRecursion[n]
         /\ \A n \in Object \ {m} : mutex'[n] = mutex[n]
         /\ \A i \in Task : Unranked(tasks'[i]) =
               Unranked(IF i \in W THEN task_wait_end(tasks[i], 1)
                        ELSE tasks[i])
         /\ \A i \in W : /\ Waiting(tasks[i]) /\ tasks[i].wait_object = m
                         /\ mutex'[m].locked = 1 /\ mutex'[m].owner = i
                         /\ mutex'[m].recursion = 1
         /\ \A i \in Task \ W : mutex'[m].owner # i
         /\ \A i \in Task \ (W \cup {t}) :
               tasks'[i].priority = tasks[i].priority
         /\ Owns(mutex', t) \/ tasks'[t].priority = base_priority[t]
  BY UnlockOuterStep
<1>3. tasks' \in [Task -> TCB]
  BY <1>2 DEF CalmTables, Tables
<1>4. ~Waiting(tasks[t]) /\ t \notin W
  BY <1>1, <1>2, ThreadWaitsNot
<1>5. \A i \in W : /\ tasks[i].state = "BLOCKED" /\ i # idle_index
                   /\ i \in Task \ {t} /\ pc[i] \in {"yield", "woken"}
                   /\ call[i].object = m
  BY <1>2, <1>4, MutexInvFacts, TaskIndices DEF CallOK, Waiting
<1>6. /\ TaskInv' /\ TaskTypeOK'
      /\ \A i \in W : /\ tasks'[i].state = "READY"
                      /\ tasks'[i].wait_result = 1
      /\ \A i \in Task \ W :
            /\ tasks'[i].state = tasks[i].state
            /\ tasks'[i].wait_result = tasks[i].wait_result
            /\ tasks'[i].wait_object = tasks[i].wait_object
            /\ Waiting(tasks'[i]) <=> Waiting(tasks[i])
  <2>1. \A i \in W : tasks[i].state = "BLOCKED" /\ i # idle_index
    BY <1>5
  <2>2. \A i \in Task : Unranked(tasks'[i]) =
           Unranked(IF i \in W THEN task_wait_end(tasks[i], 1) ELSE tasks[i])
    BY <1>2
  <2> QED
    BY <1>1, <1>3, <2>1, <2>2, WakeRankedInv
<1>7. depth[t][m] = 1
  BY <1>1, StillAgrees
<1>8. /\ depth' \in [Task -> [Object -> Nat]] /\ depth'[t][m] = 0
      /\ \A n \in Object \ {m} : depth'[t][n] = depth[t][n]
      /\ \A i \in Task \ {t} : depth'[i] = depth[i]
  BY <1>1, <1>7, MutexInvFacts
<1>9. TypeOK'
  BY <1>2, <1>6, <1>8 DEF TypeOK, Mutexes
<1>10. Unboosted(tasks', mutex')
  <2> SUFFICES ASSUME NEW i \in Task
               PROVE  tasks'[i].priority = base_priority[i] \/ Owns(mutex', i)
    BY DEF Unboosted
  <2>1. CASE i = t
    BY <1>2, <2>1
  <2>2. CASE i \in W
    BY <1>2, <2>2 DEF Owns
  <2>3. CASE i \notin W \cup {t}
    <3>1. tasks'[i].priority = tasks[i].priority
      BY <1>2, <2>3
    <3>2. Owns(mutex, i) => Owns(mutex', i)
      BY <1>1, <1>2, <2>3 DEF Owns
    <3> QED
      BY <3>1, <3>2 DEF MutexInv, Unboosted
  <2> QED
    BY <2>1, <2>2, <2>3
<1>11. ASSUME NEW i \in Task
       PROVE  CallOK(tasks'[i], pc'[i], call'[i], i)
  <2>1. CASE i \in W
    BY <1>1, <1>6, <2>1, MutexInvFacts DEF CallOK, Waiting
  <2>2. CASE i \notin W
    BY <1>1, <1>6, <2>2, MutexInvFacts DEF CallOK
  <2> QED
    BY <2>1, <2>2
<1>12. ASSUME NEW i \in Task, NEW n \in Object
       PROVE  Agrees(depth'[i][n], tasks'[i], pc'[i], call'[i].object,
                     mutex'[n], i, n)
  <2>1. Agrees(depth[i][n], tasks[i], pc[i], call[i].object, mutex[n], i, n)
    BY StillAgrees
  <2>2. depth[i][n] \in Nat
    BY MutexInvFacts
  <2>3. CASE n # m /\ i \in W
    BY <1>1, <1>2, <1>5, <1>6, <1>8, <2>1, <2>3 DEF Agrees
  <2>4. CASE n # m /\ i \notin W
    BY <1>1, <1>2, <1>6, <1>8, <2>1, <2>4 DEF Agrees
  <2>5. CASE n = m /\ i = t
    BY <1>1, <1>2, <1>4, <1>8, <2>5 DEF Agrees
  <2>6. CASE n = m /\ i \in W
    <3>1. depth[i][m] = 0
      BY <1>1, <1>5, <2>1, <2>2, <2>6 DEF Agrees
    <3> QED
      BY <1>1, <1>2, <1>5, <1>6, <1>8, <2>6, <3>1 DEF Agrees
  <2>7. CASE n = m /\ i \notin W \cup {t}
    BY <1>1, <1>2, <1>6, <1>8, <2>1, <2>7 DEF Agrees
  <2> QED
    BY <2>3, <2>4, <2>5, <2>6, <2>7
<1> QED
  BY <1>2, <1>6, <1>9, <1>10, <1>11, <1>12, TableMutexInv

-----------------------------------------------------------------------------
(* The invariant is kept by every step.                                    *)

LEMMA LockCallIs ==
    ASSUME NEW t \in ApplicationTask, NEW c \in LockCall[t]
    PROVE  c[1] \in Object /\ c[2] \in Timeout
<1>1. LockCall[t] \subseteq Object \X Timeout
  BY MutexAssumption
<1> QED
  BY <1>1

LEMMA NextMutexInv == MutexInv /\ [Next]_vars => MutexInv'
<1> SUFFICES ASSUME MutexInv, [Next]_vars
             PROVE  MutexInv'
  OBVIOUS
<1>1. CASE PendSV /\ UNCHANGED mutexVars
  BY <1>1, MutexInvFacts, PendSVInv, PendSVNoNewWait, PendSVKeepsWaits,
     PendSVKeepsPriorities, SchedulingMutexInv DEF PendSV, mutexVars
<1>2. CASE MutexSysTick
  BY <1>2, MutexSysTickInv
<1>3. CASE Services /\ UNCHANGED mutexVars
  <2>1. UNCHANGED <<pc, call, mutex, depth>>
    BY <1>3 DEF Services, TaskYield, TaskDelay, TaskSuspend, TaskResume, Svc,
                mutexVars
  <2> QED
    BY <1>3, <2>1, MutexInvFacts, ServicesInv, ServicesNoNewWait,
       ServicesKeepWaits, ServicesKeepPriorities, SchedulingMutexInv
<1>4. ASSUME NEW t \in ApplicationTask, NEW c \in LockCall[t],
             LockEnter(t, c[1], c[2])
      PROVE  MutexInv'
  BY <1>4, LockCallIs, LockEnterInv
<1>5. ASSUME NEW t \in ApplicationTask, Continue(t)
      PROVE  MutexInv'
  BY <1>5, LockFreeInv, LockAgainInv, LockTryInv, LockTooLateInv, LockBlockInv,
     ArchYieldMutexInv, LockReturnInv DEF Continue
<1>6. ASSUME NEW t \in ApplicationTask, NEW m \in Object,
             UnlockInner(t, m) \/ UnlockOuter(t, m)
      PROVE  MutexInv'
  BY <1>6, UnlockInnerInv, UnlockOuterInv
<1>7. CASE UNCHANGED vars
  BY <1>7
     DEF vars, MutexInv, OwnershipAgrees, TypeOK, HandedOver, CallsOK, TaskInv,
         TaskTypeOK, ExecutingIsRunning, KernelInvariantsHold,
         NoOverdueWaiter, IdleRunnable
<1> QED
  BY <1>1, <1>2, <1>3, <1>4, <1>5, <1>6, <1>7 DEF Next

LEMMA MutexInvariant == Safety => []MutexInv
<1> QED
  BY InitMutexInv, NextMutexInv, PTL DEF Safety
-----------------------------------------------------------------------------
(* The theorems.                                                           *)

(***************************************************************************)
(* JRT_MutexLock and JRT_MutexUnlock exclude: the successful locks a task  *)
(* has not undone are the recursion count of a mutex it owns, also while   *)
(* an unlock has handed the mutex to a task that does not run yet.         *)
(***************************************************************************)
THEOREM MutexesAreExclusive == Safety => []OwnershipAgrees
<1>1. MutexInv => OwnershipAgrees
  BY DEF MutexInv
<1> QED
  BY <1>1, MutexInvariant, PTL

(***************************************************************************)
(* sync_invariant_check never halts the kernel, and no task waits for a    *)
(* mutex that is free or its own.                                          *)
(***************************************************************************)
THEOREM MutexChecksNeverFail == Safety => []MutexChecksHold
<1>1. MutexInv => MutexChecksHold
  BY MutexInvFacts DEF MutexChecksHold, MutexOK, WaitOK, Waiting
<1> QED
  BY <1>1, MutexInvariant, PTL

(***************************************************************************)
(* task_inherit_priority and the restoring functions leave no priority     *)
(* inversion, however long the chains of owners are and even if they are   *)
(* circular: no owner runs below a task that waits for one of its mutexes. *)
(***************************************************************************)
THEOREM NoOwnerIsOutranked == Safety => []NoPriorityInversion
<1>1. MutexInv => NoPriorityInversion
  <2> SUFFICES ASSUME MutexInv, NEW t \in Task, NEW p \in Boost(t)
               PROVE  p <= tasks[t].priority
    BY DEF NoPriorityInversion
  <2>1. WaiterPriority(tasks, mutex, t) =
           {tasks[w].priority :
               w \in {w \in Task : BlockedBehind(tasks, mutex, w) = t}}
    BY MutexInvFacts, WaiterPriorityIs
  <2>2. PICK w \in Task : /\ BlockedBehind(tasks, mutex, w) = t
                          /\ p = tasks[w].priority
    BY <2>1 DEF Boost
  <2>3. t # NoOwner
    BY TaskIndices DEF NoOwner
  <2> QED
    BY <2>2, <2>3, MutexInvFacts DEF NoInversion
<1> QED
  BY <1>1, MutexInvariant, PTL

(***************************************************************************)
(* A boost ends with the last mutex: task_restore_priority gives a task    *)
(* that owns no mutex its base priority back, and nothing takes a task     *)
(* below it.                                                               *)
(***************************************************************************)
THEOREM BoostsEndWithTheLastMutex == Safety => []BoostNeedsMutex
<1>1. MutexInv => BoostNeedsMutex
  <2> SUFFICES ASSUME MutexInv, NEW t \in Task
               PROVE  /\ tasks[t].priority >= base_priority[t]
                      /\ (\A m \in Object : mutex[m].owner # t) =>
                             tasks[t].priority = base_priority[t]
    BY DEF BoostNeedsMutex
  <2>1. base_priority[t] <= tasks[t].priority
    BY MutexInvFacts DEF AboveBase
  <2>2. base_priority[t] \in Int /\ tasks[t].priority \in Int
    BY MutexInvFacts, TaskTableAssumption DEF Priority, TCB
  <2>3. tasks[t].priority = base_priority[t] \/ Owns(mutex, t)
    BY DEF MutexInv, Unboosted
  <2> QED
    BY <2>1, <2>2, <2>3 DEF Owns
<1> QED
  BY <1>1, MutexInvariant, PTL

(* Only the tick ends a wait without the mutex.                            *)
LEMMA OnlyTickTimesOut ==
    ASSUME MutexInv, Next, ~MutexSysTick
    PROVE  KeepsWaits
<1>1. CASE UNCHANGED tasks
  BY <1>1 DEF KeepsWaits
<1>2. CASE PendSV
  BY <1>2, MutexInvFacts, PendSVKeepsWaits
<1>3. CASE Services
  BY <1>3, MutexInvFacts, ServicesKeepWaits
<1>4. ASSUME NEW t \in ApplicationTask, NEW c \in LockCall[t],
             LockEnter(t, c[1], c[2])
      PROVE  UNCHANGED tasks
  BY <1>4 DEF LockEnter, Enter
<1>5. ASSUME NEW t \in ApplicationTask, NEW R \in [Task -> TCB],
             SameEntries(tasks, R)
      PROVE  \A i \in Task : R[i].state = tasks[i].state
  BY <1>5, MutexInvFacts, UnrankedFields DEF SameEntries
<1>6. ASSUME NEW t \in ApplicationTask, LockTooLate(t) \/ LockBlock(t)
      PROVE  KeepsWaits
  <2> DEFINE R == Boosted(t)
  <2>1. Contended(t)
    BY <1>6 DEF LockTooLate, LockBlock
  <2>2. /\ t \in Task /\ tasks[t].state = "RUNNING"
        /\ R \in CalmTables(mutex) /\ SameEntries(tasks, R)
    BY <2>1, BoostedIs
  <2>3. \/ tasks' = R
        \/ \E e : tasks' = [R EXCEPT ![t] = e]
    BY <1>6 DEF LockTooLate, LockBlock, Block
  <2> HIDE DEF R
  <2>4. R \in [Task -> TCB]
    BY <2>2 DEF CalmTables, Tables
  <2>5. \A i \in Task : R[i].state = tasks[i].state
    BY <1>5, <2>2, <2>4
  <2>6. \A i \in Task \ {t} : tasks'[i].state = tasks[i].state
    BY <2>3, <2>4, <2>5
  <2> QED
    BY <2>2, <2>6 DEF KeepsWaits
<1>7. ASSUME NEW t \in ApplicationTask, Continue(t)
      PROVE  KeepsWaits
  <2>1. \/ UNCHANGED tasks
        \/ LockTooLate(t) \/ LockBlock(t)
    BY <1>7 DEF Continue, LockFree, LockAgain, LockTry, ArchYield, LockReturn
  <2> QED
    BY <1>1, <1>6, <2>1
<1>8. ASSUME NEW t \in ApplicationTask, NEW m \in Object, UnlockInner(t, m)
      PROVE  UNCHANGED tasks
  BY <1>8 DEF UnlockInner, taskVars
<1>9. ASSUME NEW t \in ApplicationTask, NEW m \in Object, UnlockOuter(t, m)
      PROVE  KeepsWaits
  <2>1. UNCHANGED <<current, ticks, pendsv, pc, call>>
    BY <1>9 DEF UnlockOuter
  <2>2. PICK W \in SUBSET Task :
           /\ tasks' \in CalmTables(mutex')
           /\ \A i \in Task : Unranked(tasks'[i]) =
                 Unranked(IF i \in W THEN task_wait_end(tasks[i], 1)
                          ELSE tasks[i])
           /\ \A i \in W : Waiting(tasks[i])
    BY <1>9, UnlockOuterStep
  <2>3. tasks' \in [Task -> TCB]
    BY <2>2 DEF CalmTables, Tables
  <2>4. \A i \in W : tasks[i].state = "BLOCKED" /\ i # idle_index
    BY <2>2, MutexInvFacts, TaskIndices DEF Waiting, CallOK
  <2>5. /\ \A i \in W : tasks'[i].wait_result = 1
        /\ \A i \in Task \ W : tasks'[i].state = tasks[i].state
    BY <2>1, <2>2, <2>3, <2>4, WakeRankedInv
  <2> QED
    BY <2>5 DEF KeepsWaits
<1> QED
  BY <1>1, <1>2, <1>3, <1>4, <1>7, <1>8, <1>9 DEF Next

(***************************************************************************)
(* A waiter that times out in tick_tasks takes its boost along: whichever  *)
(* other waits end in the same tick, and in whatever order of indices, the *)
(* owner is left with exactly the priority its remaining waiters justify.  *)
(***************************************************************************)
THEOREM TimeoutsRestoreExactly == Safety => TimeoutRestores
<1> DEFINE Restored(w) ==
        (/\ tasks[w].state = "BLOCKED" /\ tasks[w].wait_kind = "MUTEX"
         /\ tasks'[w].state # "BLOCKED" /\ tasks'[w].wait_result = 0) =>
            LET owner == mutex[tasks[w].wait_object].owner
            IN  tasks'[owner].priority =
                    EffectivePriority(tasks', mutex', owner)
           Step == \A w \in Task : Restored(w)
<1>1. ASSUME MutexInv, MutexSysTick, NEW w \in Task
      PROVE  Restored(w)
  <2> SUFFICES ASSUME Waiting(tasks[w]), tasks'[w].state # "BLOCKED"
               PROVE  Exact(tasks', mutex', mutex[tasks[w].wait_object].owner)
    BY DEF Waiting, Exact
  <2> DEFINE u == tick_task(tasks[w], ticks')
  <2>1. tasks' = tick_all(tasks, mutex, ticks') /\ mutex' = mutex
    BY <1>1 DEF MutexSysTick, mutexVars
  <2>2. /\ tasks' \in CalmTables(mutex)
        /\ Unranked(tasks'[w]) = Unranked(u)
        /\ TimesOut(tasks[w], ticks') =>
              Exact(tasks', mutex, mutex[tasks[w].wait_object].owner)
    BY <1>1, <2>1, MutexInvFacts, TickAllResult
  <2>3. tasks[w] \in TCB /\ u \in TCB /\ tasks'[w] \in TCB
    BY <1>1, <2>2, MutexInvFacts, TickTaskType DEF CalmTables, Tables
  <2>4. tasks'[w].state = u.state
    <3> HIDE DEF u
    <3> QED
      BY <2>2, <2>3, UnrankedFields
  <2>5. TimesOut(tasks[w], ticks')
    BY <2>3, <2>4, TickResult
  <2> QED
    BY <2>1, <2>2, <2>5
<1>2. ASSUME MutexInv, Next, ~MutexSysTick, NEW w \in Task
      PROVE  Restored(w)
  <2>1. KeepsWaits
    BY <1>2, OnlyTickTimesOut
  <2> QED
    BY <2>1 DEF KeepsWaits
<1>3. MutexInv /\ [Next]_vars => [Step]_vars
  <2> HIDE DEF Restored
  <2> QED
    BY <1>1, <1>2
<1>4. Safety => [][Step]_vars
  <2> HIDE DEF Step
  <2> QED
    BY <1>3, MutexInvariant, PTL DEF Safety
<1> QED
  BY <1>4 DEF TimeoutRestores
=============================================================================
