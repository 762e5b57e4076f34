\* An incoming call with one stream that nobody changes: the client's answers in any order.
SPECIFICATION Spec
CONSTANTS
    CodecLists = {"r1", "l1"}
    Conns <- MCConns
    Lines <- OneLine
    ZeroPort <- MCZeroPort
    LocalCodecs = {"l1"}
    Roles = {TRUE}
    InitialTypes <- OneAudio
    ContentTypes = {"audio"}
    Directions <- JustBidi
    ImmutableStreams = FALSE
    UserMay = {}
    PeerMay = {}
    MaxMedia = 1
    MaxChanges = 0
    MaxOffers = 1
    MaxGlares = 1
    None = None
INVARIANTS
    AcceptedCallIsAnswered
