SPECIFICATION MCSpec
CONSTANTS
    r1 = r1
    r2 = r2
    r3 = r3
    f1 = f1
    f2 = f2
    i1 = i1
    i2 = i2
    c1 = c1
    c2 = c2
    None = None
    Run <- ThreeRuns
    Target = {file}
    PendingStale = 1
    Cooldown = 0
    Finding <- Findings2
    Issue <- Issues2
    Call <- Calls2
SYMMETRY Interchangeable
INVARIANTS OneActiveScan FailedLeavesNoScanner  PromotedOnce
PROPERTIES FirstOutcomeStands CascadeCloseJustified
CHECK_DEADLOCK FALSE
