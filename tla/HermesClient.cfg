SPECIFICATION ClientSpec
CONSTANTS
    ConnectDelays <- MCConnectDelays
    TimeoutDelays <- MCTimeoutDelays
    HttpDelays <- MCHttpDelays
    RetryAfters = {0, 1, 60}
    LongestRetryAfter = 60
    Chunks = 2
    ConnectRetries = 3
    TimeoutRetries = 2
INVARIANTS Accounted PausesAreBounded HeartbeatsLoseNothing CompletedStreamsEndWhole NobodyReadsForNobody
PROPERTIES IsBoundedRetry EveryStreamEnds StreamIsBoundedRetry
