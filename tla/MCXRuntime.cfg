SPECIFICATION XSpec
CONSTANTS
    codex = codex
    v1 = v1
    Nothing = Nothing
    Runtimes = {codex}
    Versions = {v1}
    Helpers = {h1, h2}
    h1 = h1  h2 = h2
    Sandboxes = {"read-only"}
    MaxLines = 2
    MaxCycle = 2
    MaxRound = 2
PROPERTIES RefusalJustified ArmedStaysArmed ClaimsAreJournaled
CHECK_DEADLOCK FALSE
CONSTRAINT Small
SYMMETRY MCSymmetry
