CONSTANTS
    ReturnCodes = {0, 1, 2, 3, 4, 5, 6}
    MQTTSuccess = 0
    MaxNotify = 4

SPECIFICATION Spec
INVARIANT LoopHasResponseCallbacks
INVARIANT DeltaOnlyAfterSubscribed
\* vTaskDelete( NULL ) at line 903 ends the task for good.
CHECK_DEADLOCK FALSE
