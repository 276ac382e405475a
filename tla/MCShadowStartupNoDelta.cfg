CONSTANTS
    ReturnCodes = {0, 1, 2, 3}
    MQTTSuccess = 0
    MaxNotify = 4

SPECIFICATION Spec
INVARIANT LoopHasDeltaCallback
\* vTaskDelete( NULL ) at line 903 ends the task for good.
CHECK_DEADLOCK FALSE
