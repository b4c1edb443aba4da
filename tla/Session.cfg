\* Three prompts or queued messages, one turn with tools, one retry of the session
\* and one of the gateway extension, two commands (abort, compact).
CONSTANTS
    p1 = p1
    p2 = p2
    p3 = p3
    Prompts <- MCPrompts
    Troubles <- MCTroubles
    MaxRetries = 1
    GatewayRetries = 1
    StartsAnew = FALSE
    MaxTools = 1
    MaxCommands = 2
SPECIFICATION Spec

    
    
    
PROPERTIES
    
    AbortReturns
CHECK_DEADLOCK FALSE
