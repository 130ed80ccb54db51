CONSTANTS
  Sockets = {s1, s2}
  Services = {n1}
  Addrs = {any, a, b}
  AnyAddr = any
  NoSocket = NoSocket
  NoService = NoService
  ServerAddrs = {a}
  ChannelAddrs = {a}
  ManyServices = FALSE
  SharedAddr = FALSE
SPECIFICATION Spec
INVARIANTS ForwardedByName
