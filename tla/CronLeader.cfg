\* Two replicas, three connections lost, two processes ended.
SPECIFICATION LeaderSpec
CONSTANTS
    Replicas = {a, b}
    NoOne = NoOne
    Ghost = Ghost
    MaxDrops = 3
    MaxRestarts = 2
PROPERTIES
    KeepsContract
    EventuallyLed
CHECK_DEADLOCK FALSE
