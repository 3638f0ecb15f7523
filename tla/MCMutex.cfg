SPECIFICATION Safety
CONSTANTS
    application_task_count = 3
    base_priority <- MCPriority
    JRT_MAX_TASK_PRIORITY = 4
    TICK_MOD = 3
    m1 = m1
    m2 = m2
    Object = {m1, m2}
    LockCall <- MCLockCall
    MaxRecursion <- MCRecursion
    timer_service_wait_object = timer_service_wait_object
    NULL = NULL
    JRT_TASK_ID_SELF = JRT_TASK_ID_SELF
    Delay = {1}
    Timeout = {0, 1, 2}
    SuspendTarget = {0}
INVARIANTS OwnershipAgrees MutexChecksHold NoPriorityInversion BoostNeedsMutex
PROPERTIES TimeoutRestores
