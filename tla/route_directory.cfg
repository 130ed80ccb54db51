CONSTANTS
  Sockets = {s1, s2, s3}
  Services = {n1, n2}
  Addrs = {any, a, b}
  AnyAddr = any
  NoSocket = NoSocket
  NoService = NoService
  ServerAddrs = {any, a, b}
  ChannelAddrs = {a, b}
  ManyServices = FALSE
  SharedAddr = FALSE
SPECIFICATION Spec
INVARIANTS TypeOK RegistryAgrees BindingIsOwn
PROPERTIES BoundToOne EqualShare DirectorySpec
SYMMETRY SocketSymmetry
