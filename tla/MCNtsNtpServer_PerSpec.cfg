CONSTANTS
    PacketRoom = 1024
SPECIFICATION Spec
INVARIANT NtpServerPerSpec
