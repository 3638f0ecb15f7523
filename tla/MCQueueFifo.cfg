SPECIFICATION Safety
CONSTANTS
    application_task_count = 2
    base_priority <- MCPriority
    JRT_MAX_TASK_PRIORITY = 4
    TICK_MOD = 3
    Object = {q}
    QueueObject = q
    Item = {a, b}
    Capacity = 2
    timer_service_wait_object = timer_service_wait_object
    NULL = NULL
    JRT_TASK_ID_SELF = JRT_TASK_ID_SELF
    Delay = {}
    Timeout = {0, 2}
    SuspendTarget = {}
PROPERTIES ImplementsFifo
