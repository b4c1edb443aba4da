\* One run, two messages of any kind, one response with two tool calls, one
\* retry, one crash, and requests to abort at any moment.
CONSTANTS
    Kinds = {"prompt", "steer", "followUp", "nextRun", "write", "note", "hook"}
    OneAtATime = TRUE
    Executions = {"parallel"}
    MaxOps = 1
    MaxMessages = 2
    MaxBatches = 1
    MaxCalls = 2
    MaxAttempts = 2
    MaxCrashes = 1
SPECIFICATION Spec
INVARIANTS
    EveryMessageOnce
    AnsweredCalls
    EffectsBounded
PROPERTIES
    CompletedHasHeard
    CancelStartsNothing
    Implements
\* All messages are said and the run is over.
CHECK_DEADLOCK FALSE
