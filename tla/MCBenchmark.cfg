SPECIFICATION BenchmarkSpec
CONSTANTS
    application_task_count = 2
    base_priority <- MCPriority
    JRT_MAX_TASK_PRIORITY = 4
    TICK_MOD = 3
    Object = {0, 1}
    timer_service_wait_object = timer_service_wait_object
    NULL = NULL
    JRT_TASK_ID_SELF = JRT_TASK_ID_SELF
    Delay = {1}
    Timeout = {1, 2}
    SuspendTarget = {0, 1}
    NOTIFY_MOD = 3
    NotifyTarget = {0}
    NotifyValue = {0, 1}
    COUNT_MOD = 3
    Watched = {0}
    benchmark_cycle_counter_available = 1
INVARIANTS ActivationsClosed
PROPERTIES BalanceKept MeasuresAreFresh
