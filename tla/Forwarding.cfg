\* Two subagents ask one parent session, which may open late, refresh its
\* directories once and close; one of them may be killed while it waits.
CONSTANTS
    r1 = r1  r2 = r2  s1 = s1  s2 = s2
    None = None
    Subagents = {r1, r2}
    Mortal = {r2}
    Scans = {s1, s2}
    MaxListens = 2
SPECIFICATION Spec
INVARIANTS TakenIsAnswered OneDialog DoneLeavesNothing
PROPERTIES RequestIsShown
CHECK_DEADLOCK FALSE
