\* A submit over HTTP whose branch may be retried while the submit waits and after
\* it is gone: the times are in the order the deployment files give them, retry
\* interval < request timeout < timeout to fail.
SPECIFICATION FairSpec
CONSTANTS
    RequestTimeout = 3
    RetryInterval = 1
    TimeoutToFail = 7
    MaxJitter = 1
    Slack = 1
    Transport = "http"
INVARIANTS
    TypeOK
    DurationBounded
    AttemptsBounded
    HttpHearsOneTimeout
PROPERTIES
    TaskEnds
\* The task and the submit end.
CHECK_DEADLOCK FALSE
