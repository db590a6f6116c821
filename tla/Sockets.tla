------------------------------ MODULE Sockets ------------------------------
(***************************************************************************)
(* The descriptors of the process and the adapters that own them: creating *)
(* and adopting sockets, bind, connect, accept, the hand-over of the udp   *)
(* listener's socket, and closing.                                         *)
(***************************************************************************)
EXTENDS Naturals, Sequences

CONSTANTS
  Adapter,  \* the objects there can be
  Caller,   \* the tasks that dial
  Number,   \* the descriptors, numbers of which the kernel gives the least free one
  Here,    \* addresses of this host; None is an address that could not be parsed
  Addr,     \* addresses of peers
  MaxListen,\* bound: how many tasks listen at one listener
  None

VARIABLES
  so,       \* the socket of each open descriptor, None of a closed one
  adapter,  \* the live adapters
  taken,    \* accepted descriptors whose task has yet to run, with their types
  dialer,   \* the tasks that wait in tcp_connect, by adapter, each with its address
  excused   \* what has failed since the adapter was created

kvars == <<so, adapter, taken, dialer, excused>>

Option == {"nonblocking", "nodelay", "reusable", "keepalive"}
Class == {"tcp_connector", "tcp_listener", "uds_connector", "uds_listener", "udp_connector",
          "udp_listener"}
SocketType(class) == CASE class \in {"tcp_connector", "tcp_listener"} -> "tcp"
                       [] class \in {"uds_connector", "uds_listener"} -> "uds"
                       [] OTHER -> "udp"
Socket == [type : {"tcp", "uds", "udp"}, opts : SUBSET Option, addr : Here \cup {None},
           syn : Addr \cup {None}, peer : Addr \cup {None}]
\* listening: how many tasks listen; listened_ of a udp listener says whether one does.
Object == [class : Class, fd : Number \cup {None}, is_connected : BOOLEAN, listening : 0..MaxListen,
           bind_slot : Here \cup {None}, reached : Addr \cup {None}]
\* What can be wrong with the answer of a call of tcp_connect: another call has given up or has
\* asked for another address meanwhile ("unclear"), or the task was told by what an earlier
\* wait has left behind ("misled"); and with a udp listener's socket: there is none, or the
\* kernel did not bind it ("unbound").
Doubt == {"unclear", "misled"}
Excuse == Doubt \cup {"unbound"}

TypeOK ==
  /\ so \in [Number -> Socket \cup {None}] /\ adapter \in [Adapter -> Object \cup {None}]
  /\ taken \in Seq(Number \X {"tcp", "uds"}) /\ dialer \in [Adapter -> SUBSET (Caller \X Addr)]
  /\ excused \in [Adapter -> SUBSET Excuse]

Init ==
  /\ so = [f \in Number |-> None] /\ adapter = [a \in Adapter |-> None] /\ taken = <<>>
  /\ dialer = [a \in Adapter |-> {}] /\ excused = [a \in Adapter |-> {}]

\* ::socket and ::accept
Opened(type, addr, peer) ==
  [type |-> type, opts |-> {}, addr |-> addr, syn |-> None, peer |-> peer]
Free == {f \in Number : so[f] = None}
NextFd == CHOOSE f \in Free : \A g \in Free : f <= g

----------------------------------------------------------------------------
(* net_utils                                                               *)

socktype(s) == s.type
nonblocking(s) == [s EXCEPT !.opts = @ \cup {"nonblocking"}]
nodelay(s) == IF socktype(s) = "tcp" THEN [s EXCEPT !.opts = @ \cup {"nodelay"}] ELSE s
reusable(s) == [s EXCEPT !.opts = @ \cup {"reusable"}]
keepalive(s) == [s EXCEPT !.opts = @ \cup {"keepalive"}]
Tuned(s) == keepalive(reusable(nodelay(nonblocking(s))))

\* The table and the number after a socket is created, None once the process has no more.
create_socket(type) ==
  IF Free = {} THEN <<so, None>>
  ELSE <<[so EXCEPT ![NextFd] = Tuned(Opened(type, None, None))], NextFd>>

socket_peerinfo(fd) == IF fd = None THEN None ELSE so[fd].peer

----------------------------------------------------------------------------
(* Objects are created with a socket of their own, or adopt a descriptor.  *)

inet_adapter(class, fd) ==
  [class |-> class, fd |-> fd, is_connected |-> FALSE, listening |-> 0, bind_slot |-> None,
   reached |-> None]
connector_adapter(class, fd, connected) ==
  [inet_adapter(class, fd) EXCEPT !.is_connected = connected, !.reached = socket_peerinfo(fd)]

Create(a, class) ==
  LET made == create_socket(SocketType(class)) IN
  /\ adapter[a] = None
  /\ so' = IF made[2] = None THEN so ELSE [made[1] EXCEPT ![made[2]] = Tuned(@)]
  /\ adapter' = [adapter EXCEPT ![a] = inet_adapter(class, made[2])]
  /\ UNCHANGED <<taken, dialer, excused>>

\* The default constructors.
tcp_connector(a) == Create(a, "tcp_connector")
tcp_listener(a) == Create(a, "tcp_listener")
uds_connector(a) == Create(a, "uds_connector")
uds_listener(a) == Create(a, "uds_listener")
udp_connector(a) == Create(a, "udp_connector")
udp_listener(a) == Create(a, "udp_listener")

\* Mutant: an accepted descriptor is taken as it is.
MutConnectorOf(fd) == [obj |-> connector_adapter("tcp_connector", fd, TRUE), sock |-> so[fd]]

\* The constructors of connectors for a given descriptor.
tcp_connector_of(fd) == [obj |-> connector_adapter("tcp_connector", fd, TRUE), sock |-> Tuned(so[fd])]
uds_connector_of(fd) == [obj |-> connector_adapter("uds_connector", fd, TRUE), sock |-> Tuned(so[fd])]
udp_connector_of(fd) == [obj |-> connector_adapter("udp_connector", fd, FALSE), sock |-> Tuned(so[fd])]

\* Mutant: the descriptor is not closed.
MutRelease(a) ==
  /\ adapter[a] # None /\ adapter[a].listening = 0 /\ dialer[a] = {}
  /\ adapter' = [adapter EXCEPT ![a] = None] /\ excused' = [excused EXCEPT ![a] = {}]
  /\ UNCHANGED <<so, taken, dialer>>

\* The last reference goes; tasks that listen hold one, as do callers that wait.
Release(a) ==
  /\ adapter[a] # None /\ adapter[a].listening = 0 /\ dialer[a] = {}
  /\ so' = IF adapter[a].fd = None THEN so ELSE [so EXCEPT ![adapter[a].fd] = None]
  /\ adapter' = [adapter EXCEPT ![a] = None] /\ excused' = [excused EXCEPT ![a] = {}]
  /\ UNCHANGED <<taken, dialer>>

----------------------------------------------------------------------------
(* bind                                                                    *)

\* The kernel binds a socket once, if it can (ok).
Bound(sockets, f, addr, ok) == [sockets EXCEPT ![f] =
  IF ok /\ @.addr = None THEN [reusable(@) EXCEPT !.addr = addr] ELSE reusable(@)]
peer_bind(sockets, f, addr, ok) == IF f = None \/ addr = None THEN sockets ELSE Bound(sockets, f, addr, ok)
path_bind(sockets, f, path, ok) == IF f = None THEN sockets ELSE Bound(sockets, f, path, ok)

connector_bind(a, addr) ==
  /\ ~adapter[a].is_connected
  /\ \E ok \in BOOLEAN : so' = peer_bind(so, adapter[a].fd, addr, ok)
  /\ UNCHANGED <<adapter, taken, dialer, excused>>

tcp_connector_bind(a, addr) == adapter[a].class = "tcp_connector" /\ connector_bind(a, addr)
udp_connector_bind(a, addr) == adapter[a].class = "udp_connector" /\ connector_bind(a, addr)

tcp_listener_bind(a, addr) ==
  /\ adapter[a].class = "tcp_listener"
  /\ \E ok \in BOOLEAN : so' = peer_bind(so, adapter[a].fd, addr, ok)
  /\ UNCHANGED <<adapter, taken, dialer, excused>>

uds_listener_bind(a, addr) ==
  /\ adapter[a].class = "uds_listener" /\ addr # None
  /\ \E ok \in BOOLEAN : so' = path_bind(so, adapter[a].fd, addr, ok)
  /\ UNCHANGED <<adapter, taken, dialer, excused>>

\* The kernel could not, or has bound the socket before.
NotBound(f, addr, ok) == IF f # None /\ (~ok \/ so[f].addr \notin {None, addr}) THEN {"unbound"} ELSE {}

\* Whether or not the socket could be bound to it, the next one will be.
udp_listener_bind(a, addr) ==
  /\ adapter[a].class = "udp_listener"
  /\ \E ok \in BOOLEAN :
       /\ so' = peer_bind(so, adapter[a].fd, addr, ok)
       /\ excused' = [excused EXCEPT ![a] = @ \cup NotBound(adapter[a].fd, addr, ok)]
  /\ adapter' = [adapter EXCEPT ![a].bind_slot = addr]
  /\ UNCHANGED <<taken, dialer>>

Bind(a, addr) ==
  /\ adapter[a] # None
  /\ \/ tcp_connector_bind(a, addr) \/ udp_connector_bind(a, addr)
     \/ tcp_listener_bind(a, addr) \/ uds_listener_bind(a, addr) \/ udp_listener_bind(a, addr)

----------------------------------------------------------------------------
(* connect                                                                 *)

\* The kernel takes one address for a socket: a call that finds a handshake under way is
\* refused with an error of the call, not of the socket, and waits, and one that finds a
\* connection waits or is told so at once.  What is tested is is_connected_ alone, so a task
\* may dial a connector that another task waits for.
tcp_connect(a, t, p) ==
  LET c == adapter[a] IN
  /\ c # None /\ c.class = "tcp_connector" /\ c.fd # None /\ ~c.is_connected
  /\ \A b \in Adapter : \A q \in dialer[b] : q[1] # t
  /\ \/ /\ so' = IF so[c.fd].syn = None /\ so[c.fd].peer = None THEN [so EXCEPT ![c.fd].syn = p] ELSE so
        /\ dialer' = [dialer EXCEPT ![a] = @ \cup {<<t, p>>}]
        /\ UNCHANGED adapter
     \/ /\ so[c.fd].peer # None
        /\ adapter' = [adapter EXCEPT ![a].is_connected = TRUE, ![a].reached = p]
        /\ UNCHANGED <<so, dialer>>
  /\ excused' = [excused EXCEPT ![a] = @ \cup IF \E q \in dialer[a] : q[2] # p THEN {"unclear"} ELSE {}]
  /\ UNCHANGED taken

\* The network: the peer answers, or refuses.
Handshake(f) ==
  /\ so[f] # None /\ so[f].syn # None
  /\ so' \in {[so EXCEPT ![f].syn = None, ![f].peer = so[f].syn], [so EXCEPT ![f].syn = None]}
  /\ UNCHANGED <<adapter, taken, dialer, excused>>

\* Mutant: a task that has waited for long enough takes it that it is connected.
MutConnected(a) == \E q \in dialer[a] :
  /\ \/ /\ adapter' = [adapter EXCEPT ![a].is_connected = TRUE, ![a].reached = q[2]]
        /\ excused' = [excused EXCEPT ![a] = @ \cup IF so[adapter[a].fd].peer = None THEN {"misled"} ELSE {}]
     \/ /\ adapter' = [adapter EXCEPT ![a].is_connected = TRUE, ![a].reached = q[2]]
        /\ excused' = [excused EXCEPT ![a] = @ \cup {"unclear"}]
  /\ dialer' = [dialer EXCEPT ![a] = @ \ {q}]
  /\ UNCHANGED <<so, taken>>

\* A task is told that it can write: of this socket, or by what a wait of its own, for any
\* socket, has left in fd_cache_map_ (loopimpl.cpp:278).  Or it is told of an error, or it
\* has waited for long enough.  Its answer becomes is_connected_, whatever another's was.
Connected(a) == \E q \in dialer[a] :
  /\ \/ /\ adapter' = [adapter EXCEPT ![a].is_connected = TRUE, ![a].reached = q[2]]
        /\ excused' = [excused EXCEPT ![a] = @ \cup IF so[adapter[a].fd].peer = None THEN {"misled"} ELSE {}]
     \/ /\ adapter' = [adapter EXCEPT ![a].is_connected = FALSE]
        /\ excused' = [excused EXCEPT ![a] = @ \cup {"unclear"}]
  /\ dialer' = [dialer EXCEPT ![a] = @ \ {q}]
  /\ UNCHANGED <<so, taken>>

\* A udp connector forgets its connection first, and has none if the address is none or
\* the kernel refuses it.
reset_connect_(c) == [c EXCEPT !.is_connected = FALSE, !.reached = None]
UdpConnected(c, p, ok) == IF ok THEN [c EXCEPT !.is_connected = TRUE, !.reached = p] ELSE reset_connect_(c)
udp_connect(a, p) ==
  LET c == adapter[a] IN
  /\ c # None /\ c.class = "udp_connector" /\ c.fd # None
  /\ \E ok \in IF p = None THEN {FALSE} ELSE BOOLEAN :
       /\ so' = IF ok THEN [so EXCEPT ![c.fd].peer = p] ELSE so
       /\ adapter' = [adapter EXCEPT ![a] = UdpConnected(c, p, ok)]
  /\ UNCHANGED <<taken, dialer, excused>>

----------------------------------------------------------------------------
(* listen                                                                  *)

\* A tcp or uds listener starts another task with every call.
Listen(a) ==
  /\ adapter[a] # None /\ adapter[a].class \in {"tcp_listener", "uds_listener", "udp_listener"}
  /\ IF adapter[a].class = "udp_listener" THEN adapter[a].listening = 0 ELSE adapter[a].fd # None
  /\ adapter[a].listening < MaxListen
  /\ adapter' = [adapter EXCEPT ![a].listening = @ + 1]
  /\ UNCHANGED <<so, taken, dialer, excused>>

\* A listening task is cancelled, or cannot read from its udp socket.
ListenEnds(a) ==
  /\ adapter[a] # None /\ adapter[a].listening > 0
  /\ adapter' = [adapter EXCEPT ![a].listening = @ - 1]
  /\ UNCHANGED <<so, taken, dialer, excused>>

\* An accepted descriptor blocks until a connector adopts it.  Without a descriptor to
\* give, accept fails, and the task that called it ends.
Accept(a, p) ==
  LET l == adapter[a] IN
  /\ l # None /\ l.listening > 0 /\ l.class # "udp_listener"
  /\ IF Free = {} THEN adapter' = [adapter EXCEPT ![a].listening = @ - 1] /\ UNCHANGED <<so, taken>>
     ELSE /\ so' = [so EXCEPT ![NextFd] = Opened(so[l.fd].type, so[l.fd].addr, p)]
          /\ taken' = Append(taken, <<NextFd, so[l.fd].type>>)
          /\ UNCHANGED adapter
  /\ UNCHANGED <<dialer, excused>>

AcceptSlot(a) ==
  /\ taken # <<>> /\ adapter[a] = None
  /\ LET fd == taken[1][1]
         made == IF taken[1][2] = "tcp" THEN tcp_connector_of(fd) ELSE uds_connector_of(fd) IN
     /\ adapter' = [adapter EXCEPT ![a] = made.obj]
     /\ so' = [so EXCEPT ![fd] = made.sock]
  /\ taken' = Tail(taken)
  /\ UNCHANGED <<dialer, excused>>

\* Mutant: the new socket of the listener is not bound.
MutBindSlot(sockets, f, slot, ok) == sockets

\* What the listener was bound to is what its next socket is bound to.
bind_slot_(sockets, f, slot, ok) == peer_bind(sockets, f, slot, ok)

\* The listener's socket goes to a connector to the peer of its first datagram; what
\* becomes of the next one is not looked at.
HandOver(a, b, p) ==
  LET l == adapter[a]
      incoming == udp_connector_of(l.fd)
      made == create_socket("udp")
      Given(ok) == LET s == [incoming.sock EXCEPT !.peer = IF ok THEN p ELSE @]
                       given == [so EXCEPT ![l.fd] = s]
                   IN  IF made[2] = None THEN given ELSE [given EXCEPT ![made[2]] = made[1][made[2]]] IN
  /\ l # None /\ l.listening > 0 /\ l.class = "udp_listener" /\ l.fd # None /\ adapter[b] = None
  /\ \E ok, bound \in BOOLEAN :
       /\ adapter' = [adapter EXCEPT ![b] = UdpConnected(incoming.obj, p, ok), ![a].fd = made[2]]
       /\ so' = bind_slot_(Given(ok), made[2], l.bind_slot, bound)
       /\ excused' = [excused EXCEPT ![a] = @ \cup (IF made[2] = None \/ ~bound THEN {"unbound"} ELSE {})]
  /\ UNCHANGED <<taken, dialer>>

Next ==
  \/ \E f \in Number : Handshake(f)
  \/ \E a \in Adapter :
    \/ tcp_connector(a) \/ tcp_listener(a) \/ uds_connector(a) \/ uds_listener(a)
    \/ udp_connector(a) \/ udp_listener(a)
    \/ Release(a) \/ Connected(a) \/ Listen(a) \/ ListenEnds(a) \/ AcceptSlot(a)
    \/ \E p \in Addr, t \in Caller : tcp_connect(a, t, p)
    \/ \E p \in Addr : Accept(a, p) \/ \E b \in Adapter : HandOver(a, b, p)
    \/ \E p \in Here \cup {None} : Bind(a, p)
    \/ \E p \in Addr \cup {None} : udp_connect(a, p)

Spec == Init /\ [][Next]_kvars

----------------------------------------------------------------------------
(* Properties.                                                             *)

Live == {a \in Adapter : adapter[a] # None}
Owned == {a \in Live : adapter[a].fd # None}
InTasks == {taken[i][1] : i \in DOMAIN taken}

\* Every open descriptor has one owner, an adapter or the task of an accepted connection,
\* and an adapter has an open descriptor of its type: none is lost or closed twice when
\* sockets are handed over, adopted and closed.
OneOwner ==
  /\ \A a \in Owned : so[adapter[a].fd] # None /\ adapter[a].fd \notin InTasks
                      /\ so[adapter[a].fd].type = SocketType(adapter[a].class)
  /\ \A a, b \in Owned : adapter[a].fd = adapter[b].fd => a = b
  /\ Number \ Free = {adapter[a].fd : a \in Owned} \cup InTasks

\* No adapter reads or writes a socket that blocks: it would stop the loop of the thread.
NeverBlocks == \A a \in Owned : "nonblocking" \in so[adapter[a].fd].opts

\* A connector that says it is connected is connected, a tcp connector even when tasks have
\* dialed it at once or given up, unless what an earlier wait of the dialing task had left
\* behind has told it so.  It is connected to the address of the call that said so, unless a
\* call has given up (the connection may be that of the earlier call) or two tasks have
\* dialed different addresses at once: one of them is then told of the other's peer.
ReachedIsPeer == \A a \in Owned : adapter[a].is_connected =>
  /\ excused[a] \cap Doubt = {} => so[adapter[a].fd].peer = adapter[a].reached
  /\ "misled" \notin excused[a] => so[adapter[a].fd].peer # None

\* A udp listener that was bound goes on at its address with each new socket, unless there
\* was no socket or the kernel did not bind it.
ListenerStays == \A a \in Owned :
  adapter[a].class = "udp_listener" /\ excused[a] = {} => so[adapter[a].fd].addr = adapter[a].bind_slot
=============================================================================
