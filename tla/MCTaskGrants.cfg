SPECIFICATION GrantsSpec
CONSTANTS
    Grants = {g0, g1, g2}
    Root = g0
    Steps = {s1}
    Sessions = {x0, x1}
    Issuers = {i1}
    Loops = {l1, l2}
    Enders = {c1, c2}
    NoLimit = unlimited
    NoGrant = none
    NoStep = nostep
    g0 = g0
    g1 = g1
    g2 = g2
    x0 = x0
    x1 = x1
    SessionOf <- MCSessionOf
    Offers <- MCOffers
    RootLimits <- MCRootLimits
    StepEndings = {"completed"}
    RunEndings = {"cancelled"}
    MaxUse = 3
    MaxCharge = 1
SYMMETRY Symmetry
CONSTRAINT CostInOneRun
CONSTRAINT TurnsBeforeEnd
INVARIANT BudgetsHold
INVARIANT LineageAccounts
INVARIANT DelegationNarrows
INVARIANT CostOvershootIsBounded
INVARIANT ClosedRunHasNoAuthority
CHECK_DEADLOCK FALSE
