CONSTANTS
  Handlers = {"route"}
  HeaderSize = 2
  PacketMaxSize = 3
  Sizes = {1, 2, 3}
  MaxPackets = 3
SPECIFICATION Spec
INVARIANTS HandledOnce
CHECK_DEADLOCK FALSE
