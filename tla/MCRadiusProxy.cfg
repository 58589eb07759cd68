CONSTANTS
    Requests = {r1}
    Slots = {s1, s2}
    Auth = {s1}
    Homes = {s1, s2}
    Workers = {w1, w2}
    reject_delay = 1
    cleanup_delay = 1
    max_request_time = 2
    max_requests = 0
    proxy_requests = TRUE
    proxy_synchronous = FALSE
    proxy_retry_count = 2
    MaxAsked = 3
    None = None
SPECIFICATION LiveSpec
INVARIANT HomeSpared
PROPERTY HomeWaitEnds
CHECK_DEADLOCK FALSE
