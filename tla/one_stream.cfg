\* One stream, two of every bound: all interleavings of client, peer and timer.
SPECIFICATION Spec
CONSTANTS
    CodecLists = {"r1", "r2", "l1", "l2"}
    Conns <- MCConns
    Lines <- TwoCodecs
    ZeroPort <- MCZeroPort
    LocalCodecs = {"l1"}
    Roles = {TRUE, FALSE}
    InitialTypes <- OneAudio
    ContentTypes = {"audio"}
    Directions <- BidiOrSend
    ImmutableStreams = FALSE
    UserMay = {"add", "remove", "direct", "hold", "recode"}
    PeerMay = {}
    MaxMedia = 1
    MaxChanges = 2
    MaxOffers = 2
    MaxGlares = 2
    None = None
INVARIANTS
    NoOverlappingOffers
    RequestsAnsweredOnce
    ReadySessionGoesOn
PROPERTIES
    ImplementsOfferAnswer
