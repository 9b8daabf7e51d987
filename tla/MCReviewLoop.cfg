SPECIFICATION Spec
CONSTANTS
    f1 = f1
    f2 = f2
    Nothing = Nothing
    Absent = Absent
    Findings = {f1}
    ScopeFindings = {}
    Specialists = {"reviewer"}
    Events = {"normalizer", "reviewer", "scope-gate"}
    Modes = {"full"}
    Counting = {0, 1}
    Strikes = 2
    MaxNoGo = 3
    MaxRound = 3
    MaxCycle = 2
INVARIANTS NoQuietStreak GoMeansFixed
CHECK_DEADLOCK FALSE
CONSTRAINT Small
