\* One journey for every combination of boundary values of Start, Attach and packet.
CONSTANTS
    AddrBits = 20
    Malformed = Malformed
    Requests <- MCRequests
    Attachments <- MCAttachments
    Packets <- MCPackets
    Strays <- MCStrays
SPECIFICATION Spec
INVARIANT AcceptedIsForwarded
INVARIANT ReturnsToSender
INVARIANT ServiceTransparent
INVARIANT EncapFits
INVARIANT MacsNameDevices
INVARIANT StartRepeats
CHECK_DEADLOCK FALSE
