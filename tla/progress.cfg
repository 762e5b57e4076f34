\* Requests come to an end, with a peer that keeps its codecs.
SPECIFICATION FairSpec
CONSTANTS
    CodecLists = {"r1", "r2", "l1", "l2"}
    Conns <- MCConns
    Lines <- OneLine
    ZeroPort <- MCZeroPort
    LocalCodecs = {"l1", "l2"}
    Roles = {TRUE, FALSE}
    InitialTypes <- OneAudio
    ContentTypes = {"audio"}
    Directions <- JustBidi
    ImmutableStreams = FALSE
    UserMay = {"recode"}
    PeerMay = {}
    MaxMedia = 2
    MaxChanges = 1
    MaxOffers = 1
    MaxGlares = 1
    None = None
PROPERTIES
    DialledCallIsSettled
    OfferIsSettled
    ReinviteIsAnswered
    GlareIsSettled
