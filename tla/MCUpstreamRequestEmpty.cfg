SPECIFICATION Spec
CONSTANTS
    Requests = {r1}
    Targets = {}
    Limit = 1
    Retries = 1
INVARIANTS EmptyUpstreamClassified
CHECK_DEADLOCK FALSE
