\* Two lines of two types, contents added and removed on both sides; the peer may leave lines out.
SPECIFICATION Spec
CONSTANTS
    CodecLists = {"r1", "r2", "l1", "l2"}
    Conns <- MCConns
    Lines <- AudioVideo
    ZeroPort <- MCZeroPort
    LocalCodecs = {"l1"}
    Roles = {TRUE, FALSE}
    InitialTypes <- OneAudio
    ContentTypes = {"audio"}
    Directions <- JustBidi
    ImmutableStreams = FALSE
    UserMay = {"add", "remove", "hold"}
    PeerMay = {"shrink"}
    MaxMedia = 2
    MaxChanges = 1
    MaxOffers = 1
    MaxGlares = 1
    None = None
INVARIANTS
    AnswersFitOffers
    OffersKeepLines
    UndisturbedChangesAreOffered
