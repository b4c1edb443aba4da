\* One object and its child, two prompts, pipes of at most three lines.
CONSTANTS
    q1 = q1  q2 = q2
    Procs = {1}
    Requests = {q1, q2}
    MaxPipe = 3
SPECIFICATION RpcSpec
INVARIANTS WaitingIsPending AnsweredIsTaken
PROPERTIES  CallsReturn
CHECK_DEADLOCK FALSE
