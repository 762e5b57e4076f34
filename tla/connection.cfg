\* One account of each kind; the registration and one other request are challenged twice.
SPECIFICATION FairSpec
CONSTANTS
    Targets = {t1}
    Realms = {r1, r2}
    Mechanisms = {"auto", "none", "register", "options", "stun"}
    Intervals = {0, 10, 40, 100}
    SrvAnswers <- MCSrvAnswers
    WeightModulus = 8
    MaxChallenges = 2
INVARIANTS
    TypeOK
    HomeSecretStaysHome
    OnlyStackOutlivesConnection
    KeepaliveIsSane
    StunServerFits
    LoadIsBalanced
PROPERTIES
    StatusOnlyAdvances
    ConnectionSettles
    ConnectionIsReleased
CHECK_DEADLOCK FALSE
