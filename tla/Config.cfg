SPECIFICATION FairSpec
CONSTANTS
    MaxEdits = 2
    Panicky = {2}
INVARIANTS
    OnlyAcceptedInForce
    EditNotLost
    SubscribersInStep
PROPERTIES
    NoRollback
    EventuallyInForce
    SighupRepairs
