\* One agent without a lease (requirement-analysis), one prompt; nothing is assumed
\* of Pi.  Three faults: both attempts to recover a lost process may fail.
CONSTANTS
    w1 = w1  w2 = w2  m1 = m1  m2 = m2  m3 = m3
    None = None  App = App
    Apps = {App}
    Agents = {w1}
    Writers = {}
    Procs = {1, 2, 3, 4}
    Requests = {m1}
    Calls <- MCCalls
    MaxPipe = 2
    Faults = {"die", "timeout", "start"}
    MaxFaults = 3
    MaxOps = 0
    Fallbacks = 0
    Patient = FALSE
    BeatsRace = FALSE
SPECIFICATION LoopSpec
PROPERTIES EveryPromptReturns LostProcessIsRecovered
CHECK_DEADLOCK FALSE
