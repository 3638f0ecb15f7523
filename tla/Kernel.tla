------------------------------- MODULE Kernel -------------------------------
(***************************************************************************)
(* From reset to running tasks: the checks JRT_KernelInit makes on the     *)
(* application's configuration (kernel/task.c), JRT_KernelStart, and the   *)
(* two MPU regions that follow the running task (port_cm7.c), on top of    *)
(* the scheduler and the periodic tasks.                                   *)
(*                                                                         *)
(* Addresses are uintptr_t, so address arithmetic is modulo ADDR_MOD.  A   *)
(* region is a base and a size; the size 0 stands for a cleared RASR.      *)
(***************************************************************************)
EXTENDS Periodic, Conversion, FiniteSets, FiniteSetsExt

CONSTANTS
    ADDR_MOD,                      \* 2^32 in the code
    WORD_BYTES,                    \* sizeof(uint32_t)
    STACK_ALIGN,                   \* 8: alignment of a stack
    MPU_MIN_SIZE,                  \* 32: smallest region, guard alignment
    REGION_SIZES,                  \* 28: number of sizes the MPU encodes
    JRT_TASK_GUARD_WORDS,
    JRT_MINIMUM_TASK_STACK_WORDS,
    JRT_MAX_APPLICATION_TASKS,
    Candidate,                     \* configurations an application may have
    Config,                        \* the ones it gives to JRT_KernelInit
    kernel_storage,                \* guard and stack of the two kernel tasks
    SECTION_ALIGN,                 \* 8192: alignment of the shared section
    task_private_data,             \* section bounds of the linker script
    unprivileged_task_data

GUARD_BYTES == JRT_TASK_GUARD_WORDS * WORD_BYTES
Address == 0 .. ADDR_MOD - 1

\* Powers of two the RASR encodes, from the smallest region upwards.
RegionSize == {MPU_MIN_SIZE * PowerOfTwo(k) : k \in 0 .. REGION_SIZES - 1}

AddrAdd(a, b) == (a + b) % ADDR_MOD
AlignDown(a, size) == a - (a % size)

Disabled == [base |-> 0, size |-> 0]

\* configure_region_range: the smallest window the MPU can represent.
configure_region_range(start, end) ==
    LET size == Min({s \in RegionSize : /\ s >= end - start
                                        /\ AlignDown(start, s) + s >= end})
    IN  IF end <= start THEN Disabled
        ELSE [base |-> AlignDown(start, size), size |-> size]

Bytes(region) == region.base .. region.base + region.size - 1

JRT_TaskDefinition ==
    [entry : {"entry", NULL}, priority : Nat, unprivileged : {0, 1},
     stack_guard : Address, stack_buffer : Address, stack_words : Nat,
     private_data_base : Address, private_data_size : Nat]

\* What the kernel keeps of its own two tasks: a guard below each stack, as in
\* their structures; they are privileged and have no private data.
KernelTaskStorage ==
    [stack_guard : Address \ {0}, stack_buffer : Address, stack_words : Nat,
     private_data_base : {0}, private_data_size : {0}, unprivileged : {0}]

\* A guard fills the smallest region, and the largest one is the address space.
ASSUME MemoryAssumption ==
    /\ {WORD_BYTES, STACK_ALIGN, JRT_TASK_GUARD_WORDS, REGION_SIZES}
           \subseteq Nat \ {0}
    /\ {JRT_MINIMUM_TASK_STACK_WORDS, JRT_MAX_APPLICATION_TASKS} \subseteq Nat
    /\ MPU_MIN_SIZE = GUARD_BYTES
    /\ ADDR_MOD = MPU_MIN_SIZE * PowerOfTwo(REGION_SIZES - 1)
    /\ kernel_storage \in [Task \ ApplicationTask -> KernelTaskStorage]
    /\ \A k \in Task \ ApplicationTask :
          LET s == kernel_storage[k]
          IN  /\ s.stack_buffer = s.stack_guard + GUARD_BYTES
              /\ s.stack_buffer + s.stack_words * WORD_BYTES < ADDR_MOD

\* A configuration that is accepted has the tasks and priorities that module
\* TaskTable speaks of; linker_flash_s32k312.ld rounds both ends of the shared
\* data to SECTION_ALIGN, whatever its size, and puts the private data behind.
ASSUME KernelAssumption ==
    /\ \A c \in (Candidate \cup Config) \ {NULL} :
          /\ IsFiniteSet(DOMAIN c)
          /\ \A i \in DOMAIN c : c[i] \in JRT_TaskDefinition
          /\ Cardinality(DOMAIN c) \in 1 .. JRT_MAX_APPLICATION_TASKS =>
                 /\ DOMAIN c = ApplicationTask
                 /\ \A i \in ApplicationTask :
                       \/ c[i].priority = base_priority[i]
                       \/ c[i].priority > JRT_MAX_TASK_PRIORITY
    /\ {unprivileged_task_data, task_private_data}
           \subseteq [start : Address, end : 0 .. ADDR_MOD]
    /\ task_private_data.end < ADDR_MOD
    /\ SECTION_ALIGN \in RegionSize
    /\ LET d == unprivileged_task_data
       IN  /\ d.start % SECTION_ALIGN = 0 /\ d.end % SECTION_ALIGN = 0
           /\ d.start <= d.end /\ d.end <= task_private_data.start

VARIABLES
    config,   \* the configuration in force; NULL: kernel_initialized = 0
    started,  \* kernel_started
    mpu,      \* the MPU's registers and what the port remembers of them
    control   \* privilege of thread mode, a CONTROL register value

bootVars == <<config, started, mpu, control>>
kernelVars == <<taskVars, periodVars, bootVars>>

ARCH_LAUNCH_PRIVILEGED == 2
ARCH_LAUNCH_UNPRIVILEGED == 3

Region == [base : Address, size : RegionSize \cup {0}]

KernelTypeOK ==
    /\ PeriodicTypeOK
    /\ config \in Config \cup {NULL}
    /\ started \in {0, 1}
    /\ mpu \in [data : Region, private : Region, guard : Region,
                private_data_base : Address, private_data_size : Address,
                stack_guard_base : Address]
    /\ control \in {ARCH_LAUNCH_PRIVILEGED, ARCH_LAUNCH_UNPRIVILEGED}

-----------------------------------------------------------------------------
(* Validation of a configuration.                                          *)

stack_end(d) == AddrAdd(d.stack_buffer, d.stack_words * WORD_BYTES)

(* Mutant: the second range is not looked at from its end.                 *)
RangesOverlapOneSided(a, a_end, b, b_end) == b <= a /\ a < b_end

ranges_overlap(a, a_end, b, b_end) == a < b_end /\ b < a_end

validate_task_stack(c, i) ==
    LET d == c[i]
    IN  /\ d.stack_buffer # 0 /\ d.stack_guard # 0
        /\ d.stack_words >= JRT_MINIMUM_TASK_STACK_WORDS
        /\ d.stack_words % 2 = 0
        /\ d.stack_buffer % STACK_ALIGN = 0
        /\ d.stack_guard % MPU_MIN_SIZE = 0
        /\ AddrAdd(d.stack_guard, GUARD_BYTES) = d.stack_buffer
        /\ d.stack_words <= (ADDR_MOD - 1) \div WORD_BYTES
        /\ stack_end(d) >= d.stack_buffer
        /\ \A j \in 0 .. i - 1 :
              ~ranges_overlap(d.stack_guard, stack_end(d),
                              c[j].stack_guard, stack_end(c[j]))

private_end(d) == AddrAdd(d.private_data_base, d.private_data_size)

HasPrivateData(d) == d.private_data_base # 0 \/ d.private_data_size # 0

validate_private_region(c, i) ==
    LET d == c[i]
        base == d.private_data_base
        size == d.private_data_size
        end == private_end(d)
    IN  HasPrivateData(d) =>
            /\ base # 0
            /\ size \in RegionSize
            /\ base % size = 0
            /\ d.unprivileged = 1
            /\ end >= base
            /\ base >= task_private_data.start /\ end <= task_private_data.end
            /\ \A j \in DOMAIN c :
                  /\ ~ranges_overlap(base, end, c[j].stack_guard,
                                     stack_end(c[j]))
                  /\ (j < i /\ c[j].private_data_base # 0) =>
                        ~ranges_overlap(base, end, c[j].private_data_base,
                                        private_end(c[j]))
            /\ \A k \in DOMAIN kernel_storage :
                  ~ranges_overlap(base, end, kernel_storage[k].stack_guard,
                                  stack_end(kernel_storage[k]))

TaskStatus(c, i) ==
    CASE c[i].entry = NULL -> "INVALID_ENTRY"
      [] c[i].entry # NULL /\ c[i].priority > JRT_MAX_TASK_PRIORITY ->
             "INVALID_PRIORITY"
      [] OTHER -> IF validate_task_stack(c, i) THEN "OK" ELSE "INVALID_STACK"

\* The answer of JRT_KernelInit: the first failing task decides, and the
\* private regions are looked at only when every stack is in order.
KernelInitStatus(c) ==
    IF c = NULL \/ (c # NULL /\ DOMAIN c = {}) THEN "INVALID_CONFIG"
    ELSE IF Cardinality(DOMAIN c) > JRT_MAX_APPLICATION_TASKS
    THEN "TOO_MANY_TASKS"
    ELSE LET Bad == {i \in DOMAIN c : TaskStatus(c, i) # "OK"}
         IN  IF Bad # {} THEN TaskStatus(c, Min(Bad))
             ELSE IF \A i \in DOMAIN c : validate_private_region(c, i)
                  THEN "OK" ELSE "INVALID_MEMORY_REGION"

-----------------------------------------------------------------------------
(* The MPU.                                                                *)

(* Mutant: a task without private data leaves the region as it is.         *)
SetPrivateDataIfAny(m, base, size) ==
    IF size = 0 THEN m
    ELSE [m EXCEPT !.private = [base |-> base,
                                size |-> Min({s \in RegionSize : s >= size})],
                   !.private_data_base = base,
                   !.private_data_size = size]

arch_set_task_private_data(m, base, size) ==
    IF m.private_data_base = base /\ m.private_data_size = size THEN m
    ELSE [m EXCEPT !.private =
                       IF size = 0 THEN Disabled
                       ELSE [base |-> base,
                             size |-> Min({s \in RegionSize : s >= size})],
                   !.private_data_base = base,
                   !.private_data_size = size]

arch_set_task_stack_guard(m, base) ==
    IF m.stack_guard_base = base THEN m
    ELSE [m EXCEPT !.guard = [base |-> base, size |-> MPU_MIN_SIZE],
                   !.stack_guard_base = base]

ClearedMpu == [data |-> Disabled, private |-> Disabled, guard |-> Disabled,
               private_data_base |-> 0, private_data_size |-> 0,
               stack_guard_base |-> 0]

\* Storage of task t under configuration c; kernel tasks have no private data.
Storage(c, t) == IF t \in ApplicationTask THEN c[t] ELSE kernel_storage[t]

\* What pendsv_switch and arch_configure_mpu do for the task they select.
SelectTask(m, c, t) ==
    arch_set_task_stack_guard(
        arch_set_task_private_data(m, Storage(c, t).private_data_base,
                                   Storage(c, t).private_data_size),
        Storage(c, t).stack_guard)

task_current_control(c, t) ==
    IF Storage(c, t).unprivileged = 1 THEN ARCH_LAUNCH_UNPRIVILEGED
    ELSE ARCH_LAUNCH_PRIVILEGED

arch_configure_mpu(c) ==
    SelectTask([ClearedMpu EXCEPT !.data =
                    configure_region_range(unprivileged_task_data.start,
                                           unprivileged_task_data.end)],
               c, 0)

-----------------------------------------------------------------------------
(* Reset, initialisation, start.                                           *)

KernelReset ==
    /\ PeriodicInit
    /\ config = NULL
    /\ started = 0
    /\ mpu = ClearedMpu
    /\ control = ARCH_LAUNCH_PRIVILEGED

\* A configuration that is refused changes nothing, whatever came before.
KernelInit(c) ==
    /\ KernelInitStatus(c) = "OK"
    /\ config' = c
    /\ tasks' = JRT_KernelInit(ticks)
    /\ current' = 0
    /\ mpu' = arch_configure_mpu(c)
    /\ UNCHANGED <<ticks, pendsv, pc, call, periodVars, started, control>>

\* Without an accepted configuration JRT_KernelStart loops for ever.
KernelStart ==
    /\ started = 0
    /\ config # NULL
    /\ started' = 1
    /\ control' = task_current_control(config, current)
    /\ UNCHANGED <<taskVars, periodVars, config, mpu>>

\* pendsv_switch with the regions of the task it selected.
Switch ==
    /\ started = 1
    /\ PendSV
    /\ mpu' = SelectTask(mpu, config, current')
    /\ control' = task_current_control(config, current')
    /\ UNCHANGED <<periodVars, config, started>>

KernelTick == started = 1 /\ ClockTick /\ UNCHANGED bootVars

Initialise == started = 0 /\ \E c \in Config : KernelInit(c)

KernelNext ==
    \/ Initialise
    \/ KernelStart
    \/ Switch
    \/ KernelTick
    \/ started = 1 /\ Services /\ UNCHANGED <<periodVars, bootVars>>
    \/ \E t \in PeriodicTask :
          /\ started = 1
          /\ PeriodicCall(t)
          /\ UNCHANGED bootVars

\* As in module Task, of an application that does start the kernel.
KernelFairness ==
    /\ WF_kernelVars(Initialise)
    /\ WF_kernelVars(KernelStart)
    /\ WF_kernelVars(Switch)
    /\ WF_kernelVars(KernelTick)

KernelSpec == KernelReset /\ [][KernelNext]_kernelVars /\ KernelFairness

-----------------------------------------------------------------------------
(* Properties.                                                             *)

\* Addresses of a stack with its guard, and of a private region.
Footprint(d) ==
    d.stack_guard .. d.stack_buffer + d.stack_words * WORD_BYTES - 1
PrivateBytes(d) ==
    d.private_data_base .. d.private_data_base + d.private_data_size - 1

\* What docs/RTOS.md demands of a stack and of a private region.
SoundStack(d) ==
    /\ d.stack_guard > 0
    /\ d.stack_guard % MPU_MIN_SIZE = 0
    /\ d.stack_buffer = d.stack_guard + GUARD_BYTES
    /\ d.stack_buffer % STACK_ALIGN = 0
    /\ d.stack_words >= JRT_MINIMUM_TASK_STACK_WORDS /\ d.stack_words % 2 = 0
    /\ d.stack_buffer + d.stack_words * WORD_BYTES < ADDR_MOD

SoundRegion(d) ==
    /\ d.private_data_base > 0
    /\ d.private_data_size \in RegionSize
    /\ d.private_data_base % d.private_data_size = 0
    /\ PrivateBytes(d) \subseteq
           task_private_data.start .. task_private_data.end - 1
    /\ d.unprivileged = 1

\* No two tasks share memory they must not share.
SafeConfig(c) ==
    /\ c # NULL
    /\ Cardinality(DOMAIN c) \in 1 .. JRT_MAX_APPLICATION_TASKS
    /\ \A i \in DOMAIN c :
          /\ c[i].entry # NULL /\ c[i].priority <= JRT_MAX_TASK_PRIORITY
          /\ SoundStack(c[i])
          /\ HasPrivateData(c[i]) => SoundRegion(c[i])
          /\ \A j \in DOMAIN c :
                /\ PrivateBytes(c[i]) \cap Footprint(c[j]) = {}
                /\ i # j => /\ Footprint(c[i]) \cap Footprint(c[j]) = {}
                            /\ PrivateBytes(c[i]) \cap PrivateBytes(c[j]) = {}
          /\ \A k \in DOMAIN kernel_storage :
                PrivateBytes(c[i]) \cap Footprint(kernel_storage[k]) = {}

(***************************************************************************)
(* JRT_KernelInit accepts exactly the configurations in which no two tasks *)
(* share memory they must not share: every stack and every private region  *)
(* is sound, stacks with their guards are disjoint, and a private region   *)
(* touches neither a stack, of the kernel's tasks included, nor another    *)
(* private region.  The checks compare each task with the ones before it   *)
(* and compute with addresses that wrap around; this speaks of sets.  It   *)
(* is said of every answer a kernel at reset can give, and of the          *)
(* configuration in force from then on.                                    *)
(***************************************************************************)
InitAcceptsSafe ==
    IF config = NULL
    THEN \A c \in Candidate \cup Config :
             KernelInitStatus(c) = "OK" <=> SafeConfig(c)
    ELSE SafeConfig(config)

(***************************************************************************)
(* The conversions of time are exact over their whole range.  Milliseconds *)
(* become the least number of ticks that is not shorter, or the largest    *)
(* tick count when that does not fit: no intermediate product overflows,   *)
(* and a delay is never shortened.  A period becomes the cycles it         *)
(* contains, or 0 ("no period") when they do not fit.  The rates are fixed *)
(* by the build, so one look at reset is enough.                           *)
(***************************************************************************)
ConversionsExact == config = NULL => MillisecondsExact /\ PeriodsExact

\* An enabled region has its base at a multiple of its size, so the MPU cannot
\* cover the shared data with less than its window.
MpuRegion == {r \in [base : Address, size : RegionSize] : r.base % r.size = 0}
SharedBytes == unprivileged_task_data.start .. unprivileged_task_data.end - 1
SharedWindow ==
    {a \in Address : /\ SharedBytes # {}
                     /\ \A r \in MpuRegion :
                           SharedBytes \subseteq Bytes(r) => a \in Bytes(r)}

\* What unprivileged code can write, and what the running task is due if the
\* bytes "shared" are everybody's.
Writable == (Bytes(mpu.data) \cup Bytes(mpu.private)) \ Bytes(mpu.guard)
Due(shared) ==
    LET d == Storage(config, current)
    IN  (shared \cup PrivateBytes(d)) \
            (d.stack_guard .. d.stack_guard + GUARD_BYTES - 1)

(***************************************************************************)
(* Whenever a task executes, it has the privilege of its definition, and   *)
(* unprivileged code can write the window of the shared data and that      *)
(* task's private region and nothing else, not even that task's stack      *)
(* guard: the window is no larger than the MPU makes it, and no mapping of *)
(* a task that ran before is left, though the port skips the registers it  *)
(* believes to be up to date (docs/RTOS.md, "must not leave a stale        *)
(* private mapping installed").                                            *)
(***************************************************************************)
MemoryIsolated ==
    (started = 1 /\ pendsv = 0) =>
        /\ Writable = Due(SharedWindow)
        /\ control = ARCH_LAUNCH_UNPRIVILEGED
               <=> Storage(config, current).unprivileged = 1
=============================================================================
