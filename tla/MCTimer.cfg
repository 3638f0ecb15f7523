SPECIFICATION Spec
CONSTANTS
    application_task_count = 1
    base_priority <- MCPriority
    JRT_MAX_TASK_PRIORITY = 4
    TICK_MOD = 4
    Object = {}
    timer_service_wait_object = timer_service_wait_object
    NULL = NULL
    JRT_TASK_ID_SELF = JRT_TASK_ID_SELF
    Delay = {}
    Timeout = {}
    SuspendTarget = {}
    JRT_Timer = {"a", "b"}
    Created <- MCCreated
    TimerDelay <- MCTimerDelay
    EXPIRE_MOD = 2
INVARIANTS ServiceSeesWork NoOverdueTimer TimerChecksHold
PROPERTIES ExpiryIsPunctual PendingIsServed
