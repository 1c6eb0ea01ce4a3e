SPECIFICATION FairApprovalSpec
CONSTANTS
    Jobs = {j1}
    Args = {x, y}
    NoArgs = null
    Requests = {q1, q2}
    DueRun = due
    Attempts = {t1, t2}
INVARIANT ApprovalTypeOK
INVARIANT OneDecision
INVARIANT ExactBinding
INVARIANT TokenIsSingleUse
INVARIANT LapsedAuthorityStopsTheWrite
PROPERTY DecisionIsFinal
PROPERTY OverdueIsResolved
CHECK_DEADLOCK FALSE
