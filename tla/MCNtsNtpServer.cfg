CONSTANTS
    PacketRoom = 1024
SPECIFICATION Spec
INVARIANT DuplicateCookieRejected
INVARIANT UniqueIdEchoed
INVARIANT ClientRequestAnswered
