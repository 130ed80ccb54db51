CONSTANTS
  Handlers = {"channel", "server"}
  HeaderSize = 2
  PacketMaxSize = 3
  Sizes = {1, 2, 3}
  MaxPackets = 4
SPECIFICATION Spec
INVARIANTS TypeOK HandledOnce NothingIsHeldBack LongIsRefused
CHECK_DEADLOCK FALSE
