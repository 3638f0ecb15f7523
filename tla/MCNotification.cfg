SPECIFICATION Spec
CONSTANTS
    application_task_count = 2
    base_priority <- MCPriority
    JRT_MAX_TASK_PRIORITY = 4
    TICK_MOD = 4
    Object = {0, 1}
    timer_service_wait_object = timer_service_wait_object
    NULL = NULL
    JRT_TASK_ID_SELF = JRT_TASK_ID_SELF
    Delay = {}
    Timeout = {0, 2, 3}
    SuspendTarget = {1}
    NOTIFY_MOD = 3
    NotifyTarget = {0, 1, 9}
    NotifyValue = {1, 2}
INVARIANTS NoLostNotification
PROPERTIES NotificationDelivered EmptyTakeExplained
