\* Two contacts; two messages sent and one received, answered late, out of order or after a prompt.
SPECIFICATION FairSpec
CONSTANTS
    Contacts = {c1, c2}
    Sends = {m1, m2}
    Incoming = {i1}
    MaxChallenges = 1
INVARIANTS
    TypeOK
    HandlesAreReferenced
    ReportsAreTrue
    AcceptedMessagesAreKept
    ClientKnowsChannels
PROPERTIES
    MessagesAreSettled
    ImplementsTextService
CHECK_DEADLOCK FALSE
