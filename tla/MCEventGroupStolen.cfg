SPECIFICATION Safety
CONSTANTS
    application_task_count = 2
    base_priority <- MCPriority
    JRT_MAX_TASK_PRIORITY = 4
    TICK_MOD = 3
    Object = {g1}
    timer_service_wait_object = timer_service_wait_object
    NULL = NULL
    JRT_TASK_ID_SELF = JRT_TASK_ID_SELF
    Delay = {}
    Timeout = {2}
    SuspendTarget = {}
    EventBit = {1, 2}
    SetMask <- MCSetMask
    Request <- MCRequest
PROPERTIES ForeverWaitIsMet
