CONSTANTS
    s1 = s1
    s2 = s2
    Sessions <- MCSession1
    MaxAttempts = 4
SPECIFICATION Spec
INVARIANT OneAgentPerPeer
