\* Two calls of one contact, requested or received, over streams that cannot be changed.
SPECIFICATION FairSpec
CONSTANTS
    Calls = {k1, k2}
    Contacts = {c1}
    MutableContents = FALSE
INVARIANTS
    TypeOK
    ChannelsAreListed
    EndsAreShown
    GoodbyeIsOurs
    GoodbyeFits
    HoldIsShown
    ActiveIsAnswered
PROPERTIES
    InvitesAreSettled
    SessionsEnd
    ImplementsCallService
CHECK_DEADLOCK FALSE
