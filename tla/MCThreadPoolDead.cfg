CONSTANTS
    Threads = {t1, t2, t3, t4}
    Requests = {q1, q2}
    start_threads = 1
    max_threads = 2
    min_spare_threads = 1
    max_spare_threads = 1
    max_requests_per_thread = 1
    MaxPosts = 2
    None = None
SPECIFICATION LiveSpec
PROPERTY ExitedIsDeleted
