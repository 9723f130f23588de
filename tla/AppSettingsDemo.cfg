SPECIFICATION Spec
CONSTANTS
    Words = {"", "x", "bc1q", "implausible", "secret", "pool", "node", "default", "local", "axe", "nerd"}
    Addresses = {"bc1q"}
    DefaultUrl = "default"
    DefaultRpc = "local"
    DefaultPoll = 5
    NoNumber = NoNumber
    Typed <- MCTyped
    HandWritten <- MCHandWritten
    MaxEdits = 2
    DemoBest = 2
    MaxBest = 1
INVARIANT BestWasFound
