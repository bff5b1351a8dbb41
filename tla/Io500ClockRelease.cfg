SPECIFICATION Spec
CONSTANTS
    Servers = {"s1", "s2"}
    Clients = {"c0", "c1"}
    Coordinator = "c0"
    MaxFaults = 0
PROPERTY NeverStepAfterRelease
