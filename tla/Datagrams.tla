----------------------------- MODULE Datagrams -----------------------------
(***************************************************************************)
(* udp_listener: it hands its socket over to a connector for the peer of   *)
(* the next datagram and goes on with a new one, or, in packet mode, gives *)
(* every datagram to its slot.                                             *)
(***************************************************************************)
EXTENDS Naturals, Sequences

CONSTANTS
  Peer,
  None,
  MaxData,  \* datagrams each peer sends
  Packages  \* packages of an answer that is written by the listener

VARIABLES
  udp,       \* the state of the task of the udp listener
  mode,      \* which listen it was
  listened,  \* udp_listener::listened_
  lsock,     \* the datagrams in the listener's socket
  sent,      \* how many each peer has sent
  csock,     \* the datagrams in the socket of the connector of a peer, None without one
  got,       \* what the connector of each peer has read
  writing    \* the packages that writeto has yet to send

dvars == <<udp, mode, listened, lsock, sent, csock, got, writing>>

Datagram == Peer \X (0..MaxData)   \* the datagrams with number 0 are empty

TypeOK ==
  /\ udp \in {"none", "waiting", "woken", "broken", "cancelled"} /\ listened \in BOOLEAN
  /\ mode \in {"connector", "packet"} /\ lsock \in Seq(Datagram) /\ sent \in [Peer -> 0..MaxData]
  /\ csock \in [Peer -> Seq(Datagram) \cup {None}] /\ got \in [Peer -> Seq(Datagram)]
  /\ writing \in 0..Packages

Init ==
  /\ udp = "none" /\ mode = "packet" /\ listened = FALSE /\ lsock = <<>>
  /\ sent = [p \in Peer |-> 0] /\ csock = [p \in Peer |-> None] /\ got = [p \in Peer |-> <<>>]
  /\ writing = 0

\* writeto does not suspend its task: while it runs, nothing else of the loop does.
Free == writing = 0

ListenUdp ==
  /\ Free /\ ~listened /\ udp = "none"
  /\ udp' = "waiting" /\ listened' = TRUE /\ mode' \in {"connector", "packet"}
  /\ UNCHANGED <<lsock, sent, csock, got, writing>>

\* A datagram goes to the socket that is connected to its peer, if there is one.
Send(p, empty) ==
  /\ sent[p] < MaxData /\ sent' = [sent EXCEPT ![p] = @ + 1]
  /\ LET d == <<p, IF empty THEN 0 ELSE sent[p] + 1>> IN
     IF csock[p] = None THEN lsock' = Append(lsock, d) /\ UNCHANGED csock
     ELSE csock' = [csock EXCEPT ![p] = Append(@, d)] /\ UNCHANGED lsock
  /\ UNCHANGED <<udp, mode, listened, got, writing>>

\* The wait ends: something has arrived, or an error came back, or the task was cancelled.
UdpWoken ==
  /\ Free /\ udp = "waiting"
  /\ udp' \in {"broken", "cancelled"} \cup (IF lsock = <<>> THEN {} ELSE {"woken"})
  /\ UNCHANGED <<mode, listened, lsock, sent, csock, got, writing>>

\* The end of the task, with its atexit handler.
UdpEnds == udp' = "none" /\ listened' = FALSE

\* An error ends the packet mode, and is ignored in the other one.
UdpBroken ==
  /\ Free /\ udp \in {"broken", "cancelled"}
  /\ IF udp = "cancelled" \/ mode = "packet" THEN UdpEnds
     ELSE udp' = "waiting" /\ UNCHANGED listened
  /\ UNCHANGED <<mode, lsock, sent, csock, got, writing>>

\* The socket, with all that is in it, is connected to the peer of the first datagram
\* and given to a connector; the listener takes a new one.
HandOver ==
  /\ Free /\ udp = "woken" /\ mode = "connector"
  /\ csock' = [csock EXCEPT ![lsock[1][1]] = lsock] /\ lsock' = <<>>
  /\ got' = [got EXCEPT ![lsock[1][1]] = <<>>]
  /\ udp' = "waiting"
  /\ UNCHANGED <<mode, listened, sent, writing>>

\* The slot is called in the task itself and may answer; an empty datagram reads like
\* the end of a stream, and ends the task.
TakePacket ==
  /\ Free /\ udp = "woken" /\ mode = "packet"
  /\ lsock' = Tail(lsock)
  /\ IF lsock[1][2] = 0 THEN UdpEnds /\ writing' = 0
     ELSE udp' = "waiting" /\ UNCHANGED listened /\ writing' \in {0, Packages}
  /\ UNCHANGED <<mode, sent, csock, got>>

MutPacketWrite == writing' \in {writing - 1, 0} \* Mutant: it goes on when all is sent.

\* udp_packet::write: while the kernel has no room, write returns 0 and is called again.
udp_packet_write == writing > 0 /\ writing' \in {writing - 1, 0}
\* writeto is the same loop on the number of the listener.
WriteTo ==
  /\ udp_packet_write
  /\ UNCHANGED <<udp, mode, listened, lsock, sent, csock, got>>

\* The connector reads one datagram, whoever sent it.
ConnectorReads(p) ==
  /\ Free /\ csock[p] \notin {None, <<>>}
  /\ got' = [got EXCEPT ![p] = Append(@, csock[p][1])]
  /\ csock' = [csock EXCEPT ![p] = Tail(@)]
  /\ UNCHANGED <<udp, mode, listened, lsock, sent, writing>>

ConnectorCloses(p) ==
  /\ Free /\ csock[p] # None /\ csock' = [csock EXCEPT ![p] = None]
  /\ UNCHANGED <<udp, mode, listened, lsock, sent, got, writing>>

Next ==
  \/ ListenUdp \/ UdpWoken \/ UdpBroken \/ HandOver \/ TakePacket \/ WriteTo
  \/ \E p \in Peer : ConnectorReads(p) \/ ConnectorCloses(p) \/ \E empty \in BOOLEAN : Send(p, empty)

Spec == Init /\ [][Next]_dvars

----------------------------------------------------------------------------
(* Properties.                                                             *)

\* What a udp connector reads begins with a datagram of its peer, and those of its peer
\* come in order.  (Datagrams of others that were queued behind the first are read, too.)
FirstIsOwn == \A p \in Peer : LET own == {i \in DOMAIN got[p] : got[p][i][1] = p /\ got[p][i][2] # 0} IN
  /\ got[p] # <<>> => got[p][1][1] = p
  /\ \A i, j \in own : i < j => got[p][i][2] < got[p][j][2]
=============================================================================
