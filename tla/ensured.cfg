\* EnsureChannel for a contact the client already has a call channel with.
SPECIFICATION Spec
CONSTANTS
    Calls = {k1, k2}
    Contacts = {c1}
    MutableContents = FALSE
PROPERTIES
    EnsuredChannelIsReused
CHECK_DEADLOCK FALSE
