\* The re-INVITE after an answer with other codecs.
SPECIFICATION FairSpec
CONSTANTS
    CodecLists = {"r1", "r2", "l1", "l2"}
    Conns <- MCConns
    Lines <- TwoCodecs
    ZeroPort <- MCZeroPort
    LocalCodecs = {"l1"}
    Roles = {TRUE, FALSE}
    InitialTypes <- OneAudio
    ContentTypes = {"audio"}
    Directions <- JustBidi
    ImmutableStreams = FALSE
    UserMay = {"add", "remove", "direct", "hold", "recode"}
    PeerMay = {}
    MaxMedia = 1
    MaxChanges = 0
    MaxOffers = 1
    MaxGlares = 1
    None = None
PROPERTIES
    ReinviteIsAnswered
