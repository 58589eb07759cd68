CONSTANTS
    Requests = {r1}
    Slots = {s1, s2}
    Auth = {s1}
    Homes = {}
    Workers = {w1}
    reject_delay = 1
    cleanup_delay = 1
    max_request_time = 2
    max_requests = 0
    proxy_requests = TRUE
    proxy_synchronous = FALSE
    proxy_retry_count = 1
    MaxAsked = 1
    None = None
SPECIFICATION HungSpec
PROPERTY LateIsRejected
