\* A peer that answers early or in an ACK, rejects and adds lines, exceeds offers and holds, while the user holds and resumes.
SPECIFICATION Spec
CONSTANTS
    CodecLists = {"r1", "r2", "l1", "l2"}
    Conns <- MCConns
    Lines <- OddLines
    ZeroPort <- MCZeroPort
    LocalCodecs = {"l1"}
    Roles = {TRUE, FALSE}
    InitialTypes <- OneAudio
    ContentTypes = {"audio"}
    Directions <- JustBidi
    ImmutableStreams = FALSE
    UserMay = {"hold"}
    PeerMay = {"early", "delay", "exceed", "zero"}
    MaxMedia = 2
    MaxChanges = 3
    MaxOffers = 1
    MaxGlares = 0
    None = None
INVARIANTS
    TypeOK
    OneOfferOvertaken
    RemoteHoldIsReal
