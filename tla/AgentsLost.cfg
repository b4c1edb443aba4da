\* One writer, one prompt, one operation at any time; one child dies, fails to
\* start or handles the prompt as a command.
CONSTANTS
    w1 = w1  w2 = w2  m1 = m1  m2 = m2  m3 = m3
    None = None  App = App
    Apps = {App}
    Agents = {w1}
    Writers = {w1}
    Procs = {1, 2, 3}
    Requests = {m1}
    Calls <- MCCalls
    MaxPipe = 2
    Faults = {"die", "start", "handle"}
    MaxFaults = 1
    MaxOps = 1
    Fallbacks = 0
    Patient = FALSE
    BeatsRace = FALSE
SPECIFICATION Spec
INVARIANTS OneChild
 
CHECK_DEADLOCK FALSE
