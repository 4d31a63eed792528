SPECIFICATION Spec
CONSTANTS
    Pipelines = {p1, p2, p3}
    Names = {n1, n2, n3}
    Secrets = {s1}
    Clients = {c1, c2}
    Limit = 1
    MaxVersions = 3
    MaxRequests = 4
INVARIANTS RunsKeepTheirVersion SecretsCarry
SYMMETRY Symmetric
CHECK_DEADLOCK FALSE
