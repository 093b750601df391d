SPECIFICATION Spec
CONSTANTS
    a = a
    b = b
    c = c
    Endpoint = {a, b, c}
    Listed <- InOrder
    HostOf <- Hosts
    IntervalMs = 25
    Slot = {1, 3}
    Samples = 2
    MaxInflight = 2
    Timeout = 1
    Horizon = 5
    None = None
INVARIANTS LagIsFair FastestByCount
