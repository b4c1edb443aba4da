\* Two agents over three lives of the main process, one life at a time; it may
\* die at any step, and one request to clear the lease may follow.  The agent
\* whose life ended is not prompted before the lease is cleared.
CONSTANTS
    a1 = a1  a2 = a2  p1 = p1  p2 = p2  p3 = p3  c1 = c1
    None = None
    Agents = {a1, a2}
    Apps = {p1, p2, p3}
    Clearers = {c1}
    Calls <- MCCalls
    MaxUp = 1
    CanCrash = {p1, p2}
    Resumes = FALSE
SPECIFICATION Spec
INVARIANTS HoldsAlone
PROPERTIES  Implements
