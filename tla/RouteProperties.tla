-------------------------- MODULE RouteProperties --------------------------
(***************************************************************************)
(* What the route must do with registrations, bindings and requests:       *)
(* properties of Route, and the claims its comments make.                  *)
(***************************************************************************)
EXTENDS Route

RegistryType ==
  /\ sockets \in [Services -> Seq(Sockets)]
  /\ addr_2socket \in [Services -> [Addrs -> Sockets \cup {NoSocket}]]
  /\ cur_send_index \in [Services -> Nat]
  /\ service_socket_2name \in [Sockets -> Services \cup {NoService}]
BindingType ==
  /\ channel_service_register \in [Sockets -> [Services -> Sockets \cup {NoSocket}]]
  /\ bound_at \in [Sockets -> [Services -> 
                  [to : Sockets \cup {NoSocket}, own : BOOLEAN, alive : BOOLEAN]]]
NetworkType ==
  /\ closing \in SUBSET Sockets
  /\ sent \in SUBSET [from : Sockets, service : Services,
                      to : Sockets \cup {NoSocket}, bound : BOOLEAN]
PeerType ==
  /\ role \in [Sockets -> {"closed", "channel", "server"}]
  /\ addr \in [Sockets -> Addrs]
  /\ registered \in [Sockets -> SUBSET Services]
  /\ served \in [Services -> SUBSET Sockets]

TypeOK == RegistryType /\ BindingType /\ NetworkType /\ PeerType
-----------------------------------------------------------------------------
(* When a server registers one service and no two servers share an address, *)
(* the maps of the route agree with each other and with the servers: the    *)
(* sockets of a service are those whose connection was accepted for it and  *)
(* is still there, each once, under its own address and under its own name. *)
RegistryAgrees ==
  \A n \in Services :
    /\ ServersOf(n) = {s \in Sockets : n \in registered[s]}
    /\ IsInjective(sockets[n])
    /\ \A s \in Sockets : /\ n \in registered[s] <=> service_socket_2name[s] = n
                          /\ n \in registered[s] <=> addr_2socket[n][addr[s]] = s
    /\ \A a \in Addrs : addr_2socket[n][a] # NoSocket =>
                           /\ addr_2socket[n][a] \in ServersOf(n)
                           /\ addr[addr_2socket[n][a]] = a

(* Also when servers register several services or share an address, and     *)
(* entries of theirs stay behind: who was accepted for a service, and is    *)
(* there, has its turns and is found by its address: nobody else's leaving  *)
(* takes it out.                                                            *)
RegisteredIsFound ==
  \A s \in Sockets : \A n \in registered[s] :
    s \in ServersOf(n) /\ addr_2socket[n][addr[s]] = s

(* A socket is reused: the bindings found under it were made by the channel *)
(* that owns it now, never inherited from one that left.  This needs        *)
(* servers with addresses of their own: one that was refused for its        *)
(* address leaves its socket among the service sockets, and OnDisconnect    *)
(* then keeps the bindings of a channel that gets it.                       *)
BindingIsOwn ==
  \A s \in Sockets, n \in Services :
    Bound(s, n) => role[s] = "channel" /\ bound_at[s][n].own

(* However servers come and go, a request of a bound channel goes to the    *)
(* very connection it was bound to as long as that is there, and is handed  *)
(* to no other server of the service.                                       *)
BoundToOne ==
  [][\A p \in sent' : 
       (p.bound /\ bound_at[p.from][p.service].alive)
          => p.to = bound_at[p.from][p.service].to]_vars

(* However servers come and go, and also when they leave entries behind, a  *)
(* request of a channel that is not bound is sent to nobody only when no    *)
(* server is registered for its service.                                    *)
DroppedIfNobody ==
  [][\A p \in sent' :
       (~p.bound /\ p.to = NoSocket)
          => \A s \in Sockets : p.service \notin registered[s]]_vars

(* When a server registers one service and no two share an address, only a  *)
(* binding whose server left hands a request to a peer that is no server: a *)
(* request of a channel that is not bound, or that is bound to a connection *)
(* that is still there, goes to a server or to nobody.                      *)
HandedToServers ==
  [][\A p \in sent' :
       (p.to # NoSocket /\ (p.bound => bound_at[p.from][p.service].alive))
          => role[p.to] = "server"]_vars

(* route.h:50: unbound requests are shared equally between the servers of a *)
(* service: none gets a second one before each has had one, as long as the  *)
(* servers stay the same and channels bind to a named address only.         *)
EqualShare ==
  [][\A p \in sent' : (~p.bound /\ p.to # NoSocket) 
                         => p.to \notin served[p.service]]_vars

(* Bindings aside, Route implements ServiceDirectory, where the servers of  *)
(* a service are the connections that were accepted for it: each request    *)
(* of a channel that is not bound goes to one of them, or to nobody exactly *)
(* when there is none.                                                      *)
Unbound(packets) == {p \in packets : ~p.bound}
Directory == INSTANCE ServiceDirectory WITH
               Nobody <- NoSocket,
               serving <- [n \in Services |-> {s \in Sockets : n \in registered[s]}],
               handed <- {[service |-> p.service, to |-> p.to] : p \in Unbound(sent)}
DirectorySpec == Directory!Spec
-----------------------------------------------------------------------------
(* route.h:49: requests are forwarded by the name of the service.  So what  *)
(* reaches a peer is for a service that this peer has registered.           *)
ForwardedByName ==
  \A p \in sent : (p.to # NoSocket /\ Open(p.to)) => p.service \in registered[p.to]
=============================================================================
