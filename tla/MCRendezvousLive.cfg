CONSTANTS
    Sessions <- MCSession1
    MaxAttempts = 7
    Deadline = 5
    Waits <- MCWaits
    SetupLimit <- MCSetupLimit
    MaxEarly = 3
    MaxPosts = 2
SPECIFICATION LiveSpec
PROPERTY Convergence
CHECK_DEADLOCK FALSE
