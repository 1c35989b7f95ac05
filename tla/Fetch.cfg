SPECIFICATION FairSpec
CONSTANTS
    Names <- SomeNames
    Parents <- SomeParents
    Ports = {"https"}
    Policies <- SomePolicies
    Answers <- SomeAnswers
    Jobs <- SomeJobs
    Apis <- SomeApis
    Targets <- SomeTargets
    TokenHost <- Login
    MaxAttempts = 2
    TransportResends = 1
    DefaultMaxRedirects = 2
    DefaultMaxPages = 2
    HardMaxPages = 3
INVARIANTS
    TypeOK
    RequestsBounded
    ConnectionsVetted
    DialsOnlyVetted
PROPERTIES
    ListingSpec
    FetchAdvances
    FetchEnds
CHECK_DEADLOCK FALSE
