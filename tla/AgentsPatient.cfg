\* Two writers, two prompts, one operation, each begun when its agent is quiet;
\* one start of a child fails, and there is one older runtime to fall back to.
CONSTANTS
    w1 = w1  w2 = w2  m1 = m1  m2 = m2  m3 = m3
    None = None  App = App
    Apps = {App}
    Agents = {w1, w2}
    Writers = {w1, w2}
    Procs = {1, 2, 3}
    Requests = {m1, m2}
    Calls <- MCCalls
    MaxPipe = 2
    Faults = {"start"}
    MaxFaults = 1
    MaxOps = 1
    Fallbacks = 1
    Patient = TRUE
    BeatsRace = FALSE
SPECIFICATION Spec
INVARIANTS  QuietLeavesNothing
SYMMETRY Symmetry
CHECK_DEADLOCK FALSE
