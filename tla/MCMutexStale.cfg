SPECIFICATION Safety
CONSTANTS
    application_task_count = 2
    base_priority <- MCPriority
    JRT_MAX_TASK_PRIORITY = 4
    TICK_MOD = 3
    m1 = m1
    m2 = m2
    Object = {m1}
    LockCall <- MCLockAll
    MaxRecursion <- MCRecursion
    timer_service_wait_object = timer_service_wait_object
    NULL = NULL
    JRT_TASK_ID_SELF = JRT_TASK_ID_SELF
    Delay = {1}
    Timeout = {1, 2}
    SuspendTarget = {}
INVARIANT BoostHasWaiter
