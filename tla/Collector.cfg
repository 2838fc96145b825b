SPECIFICATION MCSpec
CONSTANTS
    Shop = Shop
    Blog = Blog
    Team = Team
    Ana = Ana
    Bo = Bo
    Projects = {Shop, Blog}
    Teams = {Team}
    Users = {Ana, Bo}
    Acme = Acme
    Slugs = {Acme}
    AccountOf <- MCAccountOf
    Owner <- MCOwner
    Codes = {"daily_quota_exceeded"}
    None = None
    NQueries = 4
    Concurrency = 2
    MaxCalls = 1
    Window = 1
    Delay <- MCDelay
INVARIANTS ScopeIsOwners DataOrConsent SlotsInUse WindowBound QuotaStopsQueue
PROPERTIES CollectionEnds
CHECK_DEADLOCK FALSE
