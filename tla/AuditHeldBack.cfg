SPECIFICATION Spec
CONSTANTS
    Names <- MCNames
    Raw <- MCRaw
    Canon <- MCCanon
    AuthLike = {"/login"}
    Endpoints = {"/flags"}
    Sites <- MCSites
    Collected <- MCCollected
    Budgets <- MCBudgets
    Drift <- MCDrift
    Drafts <- MCDrafts
    Plain <- Good
    Leftovers <- MCLeftovers
    Followed <- MCFollowed
    MaxBriefs = 2
    None = None
INVARIANT HeldBackIsShown
CHECK_DEADLOCK FALSE
