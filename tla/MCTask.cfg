SPECIFICATION KernelSpec
CONSTANTS
    application_task_count = 3
    base_priority <- MCPriority
    JRT_MAX_TASK_PRIORITY = 4
    TICK_MOD = 6
    Object = {}
    timer_service_wait_object = timer_service_wait_object
    NULL = NULL
    JRT_TASK_ID_SELF = JRT_TASK_ID_SELF
    Delay = {0, 1, 2}
    Timeout = {}
    SuspendTarget <- MCSuspendTarget
    PeriodicTask = {0}
    Period = {0, 1, 3}
    ADDR_MOD = 256
    WORD_BYTES = 2
    STACK_ALIGN = 4
    MPU_MIN_SIZE = 4
    REGION_SIZES = 7
    JRT_TASK_GUARD_WORDS = 2
    JRT_MINIMUM_TASK_STACK_WORDS = 2
    JRT_MAX_APPLICATION_TASKS = 3
    Candidate <- MCCandidate
    Config <- MCConfig
    kernel_storage <- MCKernelStorage
    SECTION_ALIGN = 16
    task_private_data <- MCPrivateSection
    unprivileged_task_data <- MCSharedSection
    MILLI = 10
    UINT32_MAX = 255
    WIDE_BITS = 16
    TickRate <- MCTickRate
    CoreClock <- MCClock
    Milliseconds <- MCByte
    PeriodTicks <- MCClock
INVARIANTS KernelTypeOK ExecutingIsRunning InitAcceptsSafe MemoryIsolated ConversionsExact
PROPERTIES HighestPriorityRuns DelayUntilPunctual RoundRobin SleepEnds
