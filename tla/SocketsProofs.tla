--------------------------- MODULE SocketsProofs ---------------------------
(***************************************************************************)
(* Every open descriptor has one owner, through creation, adoption and     *)
(* hand-over, and what an adapter says of its socket is so.                *)
(***************************************************************************)
EXTENDS Sockets, WellFoundedInduction, NaturalsInduction, TLAPS

\* Descriptors are numbers, and None is nothing else.
Distinct == /\ Number \subseteq Nat /\ MaxListen \in Nat /\ None \notin Number
            /\ None \notin Addr /\ None \notin Here /\ None \notin Socket /\ None \notin Object

----------------------------------------------------------------------------
(* Descriptors and sockets.                                                *)

LEMMA NextIsFree ==
  ASSUME Number \subseteq Nat, Free # {}
  PROVE  NextFd \in Number /\ so[NextFd] = None
<1>1. PICK f \in Free : \A g \in Free : ~(<<g, f>> \in OpToRel(<, Nat))
  BY NatLessThanWellFounded, WFMin DEF Free
<1>2. ASSUME NEW g \in Free PROVE f <= g
  <2>1. f \in Nat /\ g \in Nat
    BY DEF Free
  <2>2. ~(g < f)
    BY <1>1, <2>1 DEF OpToRel
  <2> QED BY <2>1, <2>2
<1>3. NextFd \in Free
  BY <1>2 DEF NextFd
<1> QED BY <1>3 DEF Free

\* t is the socket s with more options.
Like(s, t) ==
  /\ t \in Socket /\ t.type = s.type /\ t.addr = s.addr /\ t.syn = s.syn /\ t.peer = s.peer
  /\ s.opts \subseteq t.opts

LEMMA OptionsOnly ==
  ASSUME NEW s \in Socket
  PROVE  /\ Like(s, nonblocking(s)) /\ "nonblocking" \in nonblocking(s).opts
         /\ Like(s, nodelay(s)) /\ Like(s, reusable(s)) /\ Like(s, keepalive(s))
<1>1. \A o \in Option : LET t == [s EXCEPT !.opts = @ \cup {o}] IN Like(s, t) /\ o \in t.opts
  BY DEF Like, Socket
<1>2. Like(s, s)
  BY DEF Like
<1> QED BY <1>1, <1>2 DEF nonblocking, nodelay, reusable, keepalive, Option

LEMMA TunedIs ==
  ASSUME NEW s \in Socket
  PROVE  Like(s, Tuned(s)) /\ "nonblocking" \in Tuned(s).opts
<1> DEFINE a == nonblocking(s)
           b == nodelay(a)
           c == reusable(b)
<1>1. a \in Socket /\ Like(s, a) /\ "nonblocking" \in a.opts
  BY OptionsOnly DEF Like
<1> HIDE DEF a
<1>2. b \in Socket /\ Like(a, b)
  BY <1>1, OptionsOnly DEF Like
<1> HIDE DEF b
<1>3. c \in Socket /\ Like(b, c)
  BY <1>2, OptionsOnly DEF Like
<1> HIDE DEF c
<1>4. Like(c, keepalive(c))
  BY <1>3, OptionsOnly
<1>5. Tuned(s) = keepalive(c)
  BY DEF Tuned, a, b, c
<1> QED BY <1>1, <1>2, <1>3, <1>4, <1>5 DEF Like

LEMMA OpenedIs ==
  ASSUME NEW type \in {"tcp", "uds", "udp"}, NEW addr \in Here \cup {None}, NEW peer \in Addr \cup {None}
  PROVE  /\ Opened(type, addr, peer) \in Socket /\ Opened(type, addr, peer).type = type
         /\ Opened(type, addr, peer).syn = None
         /\ Opened(type, addr, peer).addr = addr /\ Opened(type, addr, peer).peer = peer
BY DEF Opened, Socket

\* The kernel binds the socket, or it does not.
Rebound(s, t) ==
  /\ t \in Socket /\ t.type = s.type /\ t.syn = s.syn /\ t.peer = s.peer /\ s.opts \subseteq t.opts

\* When the kernel can bind the socket s to addr, it has that address then, unless it had another.
Placed(s, t, addr, ok) == ok /\ s.addr \in {None, addr} => t.addr = addr

LEMMA BoundIs ==
  ASSUME NEW sockets \in [Number -> Socket \cup {None}], NEW f \in Number, sockets[f] \in Socket,
         NEW addr \in Here, NEW ok \in BOOLEAN, NEW t, t = Bound(sockets, f, addr, ok)
  PROVE  /\ t \in [Number -> Socket \cup {None}]
         /\ Rebound(sockets[f], t[f]) /\ Placed(sockets[f], t[f], addr, ok)
         /\ \A g \in Number : g # f => t[g] = sockets[g]
<1> DEFINE z == sockets[f]
           s == reusable(z)
           u == [s EXCEPT !.addr = addr]
           w == IF ok /\ z.addr = None THEN u ELSE s
<1>1. s \in Socket /\ Rebound(z, s) /\ s.addr = z.addr
  BY OptionsOnly DEF Like, Rebound
<1>2. t = [sockets EXCEPT ![f] = w]
  BY DEF Bound
<1> HIDE DEF s
<1>3. Rebound(z, u) /\ u.addr = addr
  BY <1>1 DEF Rebound, Socket
<1> HIDE DEF u, z
<1>4. Rebound(z, w) /\ w \in Socket /\ Placed(z, w, addr, ok)
  BY <1>1, <1>3 DEF Rebound, Placed
<1> HIDE DEF w
<1> QED BY <1>2, <1>4 DEF z

LEMMA PeerBoundIs ==
  ASSUME Distinct, NEW sockets \in [Number -> Socket \cup {None}], NEW f \in Number, sockets[f] \in Socket,
         NEW addr \in Here \cup {None}, NEW ok \in BOOLEAN, NEW t, t = peer_bind(sockets, f, addr, ok)
  PROVE  /\ t \in [Number -> Socket \cup {None}]
         /\ Rebound(sockets[f], t[f]) /\ Placed(sockets[f], t[f], addr, ok)
         /\ \A g \in Number : g # f => t[g] = sockets[g]
<1>1. CASE f = None \/ addr = None
  <2>1. t = sockets
    BY <1>1 DEF peer_bind
  <2>2. addr = None
    BY <1>1 DEF Distinct
  <2> QED BY <2>1, <2>2 DEF Rebound, Placed
<1>2. CASE ~(f = None \/ addr = None)
  <2>1. addr \in Here /\ t = Bound(sockets, f, addr, ok)
    BY <1>2 DEF peer_bind
  <2> QED BY <2>1, BoundIs
<1> QED BY <1>1, <1>2

----------------------------------------------------------------------------
(* The invariant.                                                          *)

\* A handshake is of a tcp socket that has no peer.
Sane(s) == s \in Socket /\ (s.syn # None => s.peer = None /\ s.type = "tcp")

\* How far the calls d that wait have come, and what came of the last one.
Dialing(c, s, d) ==
  IF d # {} THEN \A q \in d : s.syn \in {None, q[2]} /\ s.peer \in {None, q[2]}
  ELSE s.syn = None /\ (c.is_connected \/ s.peer = None)

\* The adapter c says that it is connected to what its socket s is connected to, or at least
\* that s is connected, as far as the doubts x allow.
Honest(c, s, x) == c.is_connected => /\ x \cap Doubt = {} => s.peer = c.reached
                                     /\ "misled" \notin x => s.peer # None

\* The adapter c has the socket s, where x has failed.
Good(c, s, d, x) ==
  /\ s.type = SocketType(c.class) /\ "nonblocking" \in s.opts
  /\ Honest(c, s, x)
  /\ c.class = "udp_listener" /\ x = {} => s.addr = c.bind_slot
  /\ c.class # "udp_connector" /\ x \cap Doubt = {} => Dialing(c, s, d)

\* Tasks wait for connectors, and listen to listeners.
Employed(c, d) ==
  /\ c.is_connected => c.class \notin {"tcp_listener", "uds_listener", "udp_listener"}
  /\ d # {} => c.class = "tcp_connector" /\ c.fd # None
  /\ c.listening # 0 => /\ c.class \in {"tcp_listener", "uds_listener", "udp_listener"}
                        /\ c.class # "udp_listener" => c.fd # None

Has(a) == adapter[a] # None /\ adapter[a].fd # None
\* The socket of an accepted descriptor.
Fresh(i) == /\ so[taken[i][1]] # None /\ so[taken[i][1]].type = taken[i][2]
            /\ so[taken[i][1]].syn = None /\ so[taken[i][1]].peer # None

\* Every socket is sane, and every adapter in a state of its own, fitting its socket.
KSane == \A f \in Number : so[f] # None => Sane(so[f])
KJobs == \A a \in Adapter : IF adapter[a] = None THEN dialer[a] = {} /\ excused[a] = {}
                            ELSE Employed(adapter[a], dialer[a])
KGood == \A a \in Adapter : Has(a) => /\ so[adapter[a].fd] # None
                                      /\ Good(adapter[a], so[adapter[a].fd], dialer[a], excused[a])
KFresh == \A i \in DOMAIN taken : Fresh(i)
\* No descriptor is with two adapters, with an adapter and a task, or with two tasks, and
\* each that is open is with one of them.
KOwn == \A a, b \in Adapter : Has(a) /\ Has(b) /\ adapter[a].fd = adapter[b].fd => a = b
KApart == \A a \in Adapter, i \in DOMAIN taken : Has(a) => adapter[a].fd # taken[i][1]
KOnce == \A i, j \in DOMAIN taken : taken[i][1] = taken[j][1] => i = j
KHeld == \A f \in Number : so[f] # None => \/ \E a \in Adapter : Has(a) /\ adapter[a].fd = f
                                           \/ \E i \in DOMAIN taken : taken[i][1] = f
KInv == TypeOK /\ KSane /\ KJobs /\ KGood /\ KFresh /\ KOwn /\ KApart /\ KOnce /\ KHeld

LEMMA Waiting ==
  ASSUME KInv
  PROVE  /\ taken \in Seq(Number \X {"tcp", "uds"}) /\ so \in [Number -> Socket \cup {None}]
         /\ Len(taken) \in Nat /\ DOMAIN taken = 1..Len(taken)
         /\ \A i \in DOMAIN taken : /\ taken[i] \in Number \X {"tcp", "uds"} /\ taken[i][1] \in Number
                                   /\ taken[i][2] \in {"tcp", "uds"}
<1>1. taken \in Seq(Number \X {"tcp", "uds"}) /\ so \in [Number -> Socket \cup {None}]
  BY DEF KInv, TypeOK
<1>2. Len(taken) \in Nat /\ DOMAIN taken = 1..Len(taken)
  BY <1>1
<1>3. \A i \in DOMAIN taken : taken[i] \in Number \X {"tcp", "uds"}
  BY <1>1
<1> QED BY <1>1, <1>2, <1>3

LEMMA Owning ==
  ASSUME Distinct, KInv, NEW a \in Adapter, adapter[a] # None
  PROVE  /\ adapter[a] \in Object /\ adapter[a].fd \in Number \cup {None} /\ Employed(adapter[a], dialer[a])
         /\ dialer[a] \in SUBSET (Caller \X Addr) /\ excused[a] \in SUBSET Excuse
         /\ adapter[a].fd # None =>
              LET f == adapter[a].fd IN
              /\ Has(a) /\ f \in Number /\ so[f] \in Socket /\ so[f] # None /\ Sane(so[f])
              /\ Good(adapter[a], so[f], dialer[a], excused[a])
<1>1. adapter[a] \in Object /\ dialer[a] \in SUBSET (Caller \X Addr) /\ so \in [Number -> Socket \cup {None}]
      /\ excused[a] \in SUBSET Excuse
  BY DEF KInv, TypeOK
<1>2. adapter[a].fd \in Number \cup {None}
  BY <1>1 DEF Object
<1>3. Employed(adapter[a], dialer[a])
  BY DEF KInv, KJobs
<1>4. ASSUME adapter[a].fd # None
      PROVE  /\ Has(a) /\ adapter[a].fd \in Number /\ so[adapter[a].fd] \in Socket /\ so[adapter[a].fd] # None
             /\ Sane(so[adapter[a].fd]) /\ Good(adapter[a], so[adapter[a].fd], dialer[a], excused[a])
  <2>1. Has(a) /\ adapter[a].fd \in Number
    BY <1>2, <1>4 DEF Has
  <2>2. so[adapter[a].fd] # None /\ Good(adapter[a], so[adapter[a].fd], dialer[a], excused[a])
    BY <2>1 DEF KInv, KGood
  <2> QED BY <1>1, <2>1, <2>2 DEF KInv, KSane
<1> QED BY <1>1, <1>2, <1>3, <1>4

----------------------------------------------------------------------------
(* The effects of steps.                                                   *)

\* An adapter, its socket and the call that waits change, and who has what does not.
LEMMA Touched ==
  ASSUME Distinct, KInv, NEW a \in Adapter, adapter[a] # None,
         NEW c \in Object, c.fd = adapter[a].fd, NEW d \in SUBSET (Caller \X Addr),
         NEW x \in SUBSET Excuse,
         adapter' = [adapter EXCEPT ![a] = c], dialer' = [dialer EXCEPT ![a] = d],
         excused' = [excused EXCEPT ![a] = x], taken' = taken,
         so' \in [Number -> Socket \cup {None}], \A f \in Number : f # c.fd => so'[f] = so[f],
         Employed(c, d),
         c.fd # None => so'[c.fd] # None /\ Sane(so'[c.fd]) /\ Good(c, so'[c.fd], d, x)
  PROVE  KInv'
<1>1. /\ adapter'[a] = c /\ c # None /\ dialer'[a] = d /\ excused'[a] = x
      /\ \A b \in Adapter : b # a => adapter'[b] = adapter[b] /\ dialer'[b] = dialer[b] /\ excused'[b] = excused[b]
  BY DEF KInv, TypeOK, Distinct
<1>2. TypeOK'
  <2>1. TypeOK
    BY DEF KInv
  <2> QED BY <2>1 DEF TypeOK
<1>3. \A b \in Adapter : (Has(b)' <=> Has(b)) /\ (Has(b) => adapter'[b].fd = adapter[b].fd)
  <2> SUFFICES ASSUME NEW b \in Adapter
               PROVE  (Has(b)' <=> Has(b)) /\ (Has(b) => adapter'[b].fd = adapter[b].fd)
    OBVIOUS
  <2>1. CASE b = a
    BY <1>1, <2>1 DEF Has
  <2>2. CASE b # a
    BY <1>1, <2>2 DEF Has
  <2> QED BY <2>1, <2>2
<1>4. c.fd \in Number \cup {None} /\ (c.fd # None => Has(a))
  BY DEF Object, Has
<1>5. \A f \in Number : so[f] # None <=> so'[f] # None
  <2>1. c.fd # None => so[c.fd] # None
    BY <1>4 DEF KInv, KGood
  <2> QED BY <2>1 DEF Distinct
<1>6. \A f \in Number : so'[f] # None => Sane(so'[f])
  <2> SUFFICES ASSUME NEW f \in Number, so'[f] # None PROVE Sane(so'[f])
    OBVIOUS
  <2>1. CASE f = c.fd
    BY <2>1 DEF Distinct
  <2>2. CASE f # c.fd
    BY <2>2 DEF KInv, KSane
  <2> QED BY <2>1, <2>2
<1>7. \A b \in Adapter : IF adapter'[b] = None THEN dialer'[b] = {} /\ excused'[b] = {}
                         ELSE Employed(adapter'[b], dialer'[b])
  <2> SUFFICES ASSUME NEW b \in Adapter
               PROVE  IF adapter'[b] = None THEN dialer'[b] = {} /\ excused'[b] = {}
                      ELSE Employed(adapter'[b], dialer'[b])
    OBVIOUS
  <2>1. CASE b = a
    BY <1>1, <2>1
  <2>2. CASE b # a
    <3>1. adapter'[b] = adapter[b] /\ dialer'[b] = dialer[b] /\ excused'[b] = excused[b]
      BY <1>1, <2>2
    <3>2. IF adapter[b] = None THEN dialer[b] = {} /\ excused[b] = {} ELSE Employed(adapter[b], dialer[b])
      BY DEF KInv, KJobs
    <3> QED BY ONLY <3>1, <3>2
  <2> QED BY <2>1, <2>2
<1>8. ASSUME NEW b \in Adapter, Has(b)'
      PROVE  so'[adapter'[b].fd] # None /\ Good(adapter'[b], so'[adapter'[b].fd], dialer'[b], excused'[b])
  <2>1. CASE b = a
    BY <1>1, <1>8, <2>1 DEF Has
  <2>2. CASE b # a
    <3>1. Has(b) /\ adapter[b].fd # c.fd
      <4>1. Has(b)
        BY <1>3, <1>8
      <4>2. ASSUME adapter[b].fd = c.fd PROVE FALSE
        <5>1. Has(a) /\ adapter[a].fd = adapter[b].fd
          BY <1>4, <4>1, <4>2 DEF Has
        <5> QED BY <2>2, <4>1, <5>1 DEF KInv, KOwn
      <4> QED BY <4>1, <4>2
    <3>2. adapter[b].fd \in Number
      BY <3>1, Owning DEF Has
    <3> QED BY <1>1, <2>2, <3>1, <3>2 DEF KInv, KGood
  <2> QED BY <2>1, <2>2
<1>9. \A i \in DOMAIN taken : Fresh(i)'
  <2> SUFFICES ASSUME NEW i \in DOMAIN taken PROVE Fresh(i)'
    OBVIOUS
  <2>1. taken[i][1] \in Number /\ Fresh(i)
    BY Waiting DEF KInv, KFresh
  <2>2. taken[i][1] # c.fd
    <3>1. Has(a) => c.fd # taken[i][1]
      BY DEF KInv, KApart
    <3>2. c.fd # None => Has(a)
      BY <1>4
    <3> QED BY ONLY <2>1, <3>1, <3>2, Distinct DEF Distinct
  <2> QED BY <2>1, <2>2 DEF Fresh
<1>10. \A b1, b2 \in Adapter : Has(b1)' /\ Has(b2)' /\ adapter'[b1].fd = adapter'[b2].fd => b1 = b2
  <2>1. \A b1, b2 \in Adapter : Has(b1) /\ Has(b2) /\ adapter[b1].fd = adapter[b2].fd => b1 = b2
    BY DEF KInv, KOwn
  <2> QED BY ONLY <1>3, <2>1
<1>11. \A b \in Adapter, i \in DOMAIN taken : Has(b)' => adapter'[b].fd # taken[i][1]
  <2>1. \A b \in Adapter : Has(b) => \A i \in DOMAIN taken : adapter[b].fd # taken[i][1]
    BY DEF KInv, KApart
  <2>2. \A b \in Adapter : Has(b)' => \A i \in DOMAIN taken : adapter'[b].fd # taken[i][1]
    BY ONLY <1>3, <2>1
  <2> QED BY <2>2, Zenon
<1>12. \A f \in Number : so'[f] # None => \/ \E b \in Adapter : Has(b)' /\ adapter'[b].fd = f
                                          \/ \E i \in DOMAIN taken : taken[i][1] = f
  <2> SUFFICES ASSUME NEW f \in Number, so'[f] # None, ~\E i \in DOMAIN taken : taken[i][1] = f
               PROVE  \E b \in Adapter : Has(b)' /\ adapter'[b].fd = f
    OBVIOUS
  <2>1. PICK b \in Adapter : Has(b) /\ adapter[b].fd = f
    BY <1>5 DEF KInv, KHeld
  <2> QED BY <1>3, <2>1
<1>13. \A i, j \in DOMAIN taken : taken[i][1] = taken[j][1] => i = j
  BY DEF KInv, KOnce
<1>14. KSane' /\ KJobs' /\ KGood' /\ KOwn'
  BY <1>6, <1>7, <1>8, <1>10, Zenon DEF KSane, KJobs, KGood, KOwn
<1>15. KFresh'
  BY <1>9 DEF KFresh
<1>16. KApart'
  BY <1>11 DEF KApart
<1>17. KOnce'
  BY <1>13 DEF KOnce
<1>18. KHeld'
  BY <1>12 DEF KHeld
<1> QED BY <1>2, <1>14, <1>15, <1>16, <1>17, <1>18 DEF KInv

\* A new adapter has the new descriptor n, or none.
LEMMA Added ==
  ASSUME Distinct, KInv, NEW a \in Adapter, adapter[a] = None,
         NEW c \in Object, adapter' = [adapter EXCEPT ![a] = c], Employed(c, {}),
         taken' = taken, dialer' = dialer, excused' = excused, so' \in [Number -> Socket \cup {None}],
         \A f \in Number : f # c.fd => so'[f] = so[f],
         c.fd # None => /\ so[c.fd] = None /\ so'[c.fd] # None
                        /\ Sane(so'[c.fd]) /\ Good(c, so'[c.fd], {}, {})
  PROVE  KInv'
<1>1. /\ adapter'[a] = c /\ c # None /\ dialer[a] = {} /\ excused[a] = {}
      /\ \A b \in Adapter : b # a => adapter'[b] = adapter[b]
  BY DEF KInv, KJobs, TypeOK, Distinct
<1>2. TypeOK'
  BY DEF KInv, TypeOK
<1>3. \A b \in Adapter : b # a => (Has(b)' <=> Has(b))
  BY <1>1 DEF Has
<1>4. c.fd \in Number \cup {None} /\ ~Has(a) /\ (Has(a)' <=> c.fd # None)
  BY <1>1 DEF Object, Has
<1>5. \A f \in Number : so[f] # None => f # c.fd /\ so'[f] = so[f]
  BY DEF Distinct
<1>6. \A f \in Number : so'[f] # None => Sane(so'[f])
  <2> SUFFICES ASSUME NEW f \in Number, so'[f] # None PROVE Sane(so'[f])
    OBVIOUS
  <2>1. CASE f = c.fd
    BY <2>1 DEF Distinct
  <2>2. CASE f # c.fd
    BY <2>2 DEF KInv, KSane
  <2> QED BY <2>1, <2>2
<1>7. \A b \in Adapter : IF adapter'[b] = None THEN dialer'[b] = {} /\ excused'[b] = {}
                         ELSE Employed(adapter'[b], dialer'[b])
  BY <1>1 DEF KInv, KJobs
<1>8. \A b \in Adapter : Has(b) => adapter[b].fd \in Number /\ so[adapter[b].fd] # None
  BY Owning DEF Has
<1>9. \A i \in DOMAIN taken : taken[i][1] \in Number /\ Fresh(i) /\ taken[i][1] # c.fd
  <2>1. \A i \in DOMAIN taken : taken[i][1] \in Number /\ Fresh(i)
    BY Waiting DEF KInv, KFresh
  <2> QED BY <1>5, <2>1 DEF Fresh
<1>10. ASSUME NEW b \in Adapter, Has(b)'
      PROVE  so'[adapter'[b].fd] # None /\ Good(adapter'[b], so'[adapter'[b].fd], dialer'[b], excused'[b])
  <2>1. CASE b = a
    BY <1>1, <1>4, <1>10, <2>1
  <2>2. CASE b # a
    BY <1>1, <1>3, <1>5, <1>8, <1>10, <2>2 DEF KInv, KGood
  <2> QED BY <2>1, <2>2
<1>11. \A i \in DOMAIN taken : Fresh(i)'
  BY <1>5, <1>9 DEF Fresh
<1>12. \A b1, b2 \in Adapter : Has(b1)' /\ Has(b2)' /\ adapter'[b1].fd = adapter'[b2].fd => b1 = b2
  BY <1>1, <1>3, <1>4, <1>5, <1>8 DEF KInv, KOwn
<1>13. \A b \in Adapter, i \in DOMAIN taken : Has(b)' => adapter'[b].fd # taken[i][1]
  BY <1>1, <1>3, <1>9 DEF KInv, KApart
<1>14. \A f \in Number : so'[f] # None => \/ \E b \in Adapter : Has(b)' /\ adapter'[b].fd = f
                                          \/ \E i \in DOMAIN taken : taken[i][1] = f
  <2> SUFFICES ASSUME NEW f \in Number, so'[f] # None
               PROVE  \/ \E b \in Adapter : Has(b)' /\ adapter'[b].fd = f
                      \/ \E i \in DOMAIN taken : taken[i][1] = f
    OBVIOUS
  <2>1. CASE f = c.fd
    BY <1>1, <1>4, <2>1 DEF Distinct
  <2>2. CASE f # c.fd
    <3>1. so[f] # None
      BY <2>2
    <3>2. (\E b \in Adapter : Has(b) /\ adapter[b].fd = f) \/ (\E i \in DOMAIN taken : taken[i][1] = f)
      BY <3>1 DEF KInv, KHeld
    <3> QED BY <1>1, <1>3, <1>4, <3>2
  <2> QED BY <2>1, <2>2
<1>15. \A i, j \in DOMAIN taken : taken[i][1] = taken[j][1] => i = j
  BY DEF KInv, KOnce
<1>16. KSane' /\ KJobs' /\ KGood' /\ KOwn'
  BY <1>6, <1>7, <1>10, <1>12, Zenon DEF KSane, KJobs, KGood, KOwn
<1>17. KFresh'
  BY <1>11 DEF KFresh
<1>18. KApart'
  BY <1>13 DEF KApart
<1>19. KOnce'
  BY <1>15 DEF KOnce
<1>20. KHeld'
  BY <1>14 DEF KHeld
<1> QED BY <1>2, <1>16, <1>17, <1>18, <1>19, <1>20 DEF KInv

\* The last reference goes.
LEMMA Freed ==
  ASSUME Distinct, KInv, NEW a \in Adapter, Release(a)
  PROVE  KInv'
<1> DEFINE n == adapter[a].fd
<1>1. /\ adapter[a] # None /\ dialer[a] = {} /\ taken' = taken /\ dialer' = dialer
      /\ so' = IF n = None THEN so ELSE [so EXCEPT ![n] = None]
      /\ adapter' = [adapter EXCEPT ![a] = None] /\ excused' = [excused EXCEPT ![a] = {}]
  BY DEF Release
<1>2. n \in Number \cup {None} /\ (n # None => Has(a))
  BY <1>1, Owning
<1>3. n = adapter[a].fd
  OBVIOUS
<1> HIDE DEF n
<1>4. TypeOK'
  BY <1>1, <1>2 DEF KInv, TypeOK
<1>5. /\ adapter'[a] = None /\ excused'[a] = {}
      /\ \A b \in Adapter : b # a => adapter'[b] = adapter[b] /\ excused'[b] = excused[b]
  BY <1>1 DEF KInv, TypeOK
<1>6. \A b \in Adapter : Has(b)' <=> Has(b) /\ b # a
  BY <1>5 DEF Has
<1>7. \A f \in Number : (f # n => so'[f] = so[f]) /\ (f = n => so'[f] = None)
  BY <1>1, <1>2 DEF KInv, TypeOK, Distinct
<1>8. \A b \in Adapter : b # a /\ Has(b) => adapter[b].fd \in Number /\ adapter[b].fd # n
  <2> SUFFICES ASSUME NEW b \in Adapter, b # a, Has(b) PROVE adapter[b].fd \in Number /\ adapter[b].fd # n
    OBVIOUS
  <2>1. adapter[b].fd \in Number
    BY Owning DEF Has
  <2>2. n # None => adapter[b].fd # adapter[a].fd
    BY <1>2 DEF KInv, KOwn
  <2> QED BY <1>3, <2>1, <2>2 DEF Distinct
<1>9. \A i \in DOMAIN taken : taken[i][1] \in Number /\ taken[i][1] # n
  <2> SUFFICES ASSUME NEW i \in DOMAIN taken PROVE taken[i][1] \in Number /\ taken[i][1] # n
    OBVIOUS
  <2>1. taken[i][1] \in Number
    BY Waiting
  <2>2. n # None => taken[i][1] # adapter[a].fd
    BY <1>2 DEF KInv, KApart
  <2> QED BY <1>3, <2>1, <2>2 DEF Distinct
<1>10. \A f \in Number : so'[f] # None => Sane(so'[f])
  BY <1>7 DEF KInv, KSane
<1>11. \A b \in Adapter : IF adapter'[b] = None THEN dialer'[b] = {} /\ excused'[b] = {}
                          ELSE Employed(adapter'[b], dialer'[b])
  BY <1>1, <1>5 DEF KInv, KJobs
<1>12. \A b \in Adapter : Has(b)' => /\ so'[adapter'[b].fd] # None
                                     /\ Good(adapter'[b], so'[adapter'[b].fd], dialer'[b], excused'[b])
  BY <1>1, <1>5, <1>6, <1>7, <1>8 DEF KInv, KGood
<1>13. \A i \in DOMAIN taken : Fresh(i)'
  BY <1>1, <1>7, <1>9 DEF KInv, KFresh, Fresh
<1>14. \A b1, b2 \in Adapter : Has(b1)' /\ Has(b2)' /\ adapter'[b1].fd = adapter'[b2].fd => b1 = b2
  BY <1>5, <1>6 DEF KInv, KOwn
<1>15. \A b \in Adapter, i \in DOMAIN taken : Has(b)' => adapter'[b].fd # taken[i][1]
  BY <1>5, <1>6 DEF KInv, KApart
<1>16. \A i, j \in DOMAIN taken : taken[i][1] = taken[j][1] => i = j
  BY DEF KInv, KOnce
<1>17. \A f \in Number : so'[f] # None => \/ \E b \in Adapter : Has(b)' /\ adapter'[b].fd = f
                                          \/ \E i \in DOMAIN taken : taken[i][1] = f
  <2> SUFFICES ASSUME NEW f \in Number, so'[f] # None
               PROVE  \/ \E b \in Adapter : Has(b)' /\ adapter'[b].fd = f
                      \/ \E i \in DOMAIN taken : taken[i][1] = f
    OBVIOUS
  <2>1. so[f] # None /\ f # n
    BY <1>7
  <2>2. (\E b \in Adapter : Has(b) /\ adapter[b].fd = f) \/ (\E i \in DOMAIN taken : taken[i][1] = f)
    BY <2>1 DEF KInv, KHeld
  <2> QED BY <1>3, <1>5, <1>6, <2>1, <2>2
<1>18. KSane' /\ KJobs' /\ KGood' /\ KOwn'
  BY <1>10, <1>11, <1>12, <1>14, Zenon DEF KSane, KJobs, KGood, KOwn
<1>19. KFresh'
  BY <1>1, <1>13 DEF KFresh
<1>20. KApart'
  BY <1>1, <1>15 DEF KApart
<1>21. KOnce'
  BY <1>1, <1>16 DEF KOnce
<1>22. KHeld'
  BY <1>1, <1>17 DEF KHeld
<1> QED BY <1>4, <1>18, <1>19, <1>20, <1>21, <1>22 DEF KInv

\* A descriptor n is accepted.
LEMMA Took ==
  ASSUME Distinct, KInv, NEW n \in Number, so[n] = None,
         NEW s \in Socket, s.type \in {"tcp", "uds"}, s.syn = None, s.peer # None, so' = [so EXCEPT ![n] = s],
         taken' = Append(taken, <<n, s.type>>), adapter' = adapter, dialer' = dialer, excused' = excused
  PROVE  KInv'
<1>1. /\ taken \in Seq(Number \X {"tcp", "uds"}) /\ so \in [Number -> Socket \cup {None}]
      /\ Len(taken) \in Nat /\ DOMAIN taken = 1..Len(taken)
  BY Waiting
<1> DEFINE e == <<n, s.type>>
<1>2. e \in Number \X {"tcp", "uds"} /\ e[1] = n /\ e[2] = s.type
  OBVIOUS
<1> HIDE DEF e
<1>3. /\ taken' \in Seq(Number \X {"tcp", "uds"}) /\ DOMAIN taken' = 1..(Len(taken) + 1)
      /\ taken'[Len(taken) + 1] = e /\ \A i \in DOMAIN taken : taken'[i] = taken[i]
  BY <1>1, <1>2 DEF e
<1>4. \A i \in DOMAIN taken' : i = Len(taken) + 1 \/ i \in DOMAIN taken
  BY <1>1, <1>3
<1>5. \A i \in DOMAIN taken : i \in DOMAIN taken' /\ i # Len(taken) + 1
  BY <1>1, <1>3
<1>6. Len(taken) + 1 \in DOMAIN taken'
  BY <1>1, <1>3
<1> DEFINE l == Len(taken) + 1
<1> HIDE DEF l
<1>7. /\ \A i \in DOMAIN taken' : i = l \/ i \in DOMAIN taken
      /\ \A i \in DOMAIN taken : i \in DOMAIN taken' /\ taken'[i] = taken[i]
      /\ l \in DOMAIN taken' /\ taken'[l] = e
  BY <1>3, <1>4, <1>5, <1>6 DEF l
<1>8. /\ so' \in [Number -> Socket \cup {None}] /\ so'[n] = s /\ s # None
      /\ \A f \in Number : so[f] # None => f # n /\ so'[f] = so[f]
      /\ \A f \in Number : f # n => so'[f] = so[f]
  BY <1>1 DEF Distinct
<1>9. TypeOK'
  BY <1>3, <1>8 DEF KInv, TypeOK
<1>10. \A b \in Adapter : Has(b) => adapter[b].fd \in Number /\ so[adapter[b].fd] # None
  BY Owning DEF Has
<1>11. \A i \in DOMAIN taken : taken[i][1] \in Number /\ Fresh(i) /\ taken[i][1] # n
  BY <1>1, <1>8 DEF KInv, KFresh, Fresh
<1>12. \A f \in Number : so'[f] # None => Sane(so'[f])
  BY <1>8 DEF KInv, KSane, Sane
<1>13. \A b \in Adapter : IF adapter'[b] = None THEN dialer'[b] = {} /\ excused'[b] = {}
                          ELSE Employed(adapter'[b], dialer'[b])
  BY DEF KInv, KJobs
<1>14. \A b \in Adapter : Has(b)' <=> Has(b)
  BY DEF Has
<1>15. \A b \in Adapter : Has(b)' => /\ so'[adapter'[b].fd] # None
                                     /\ Good(adapter'[b], so'[adapter'[b].fd], dialer'[b], excused'[b])
  BY <1>8, <1>10, <1>14 DEF KInv, KGood
<1>16. \A i \in DOMAIN taken' : Fresh(i)'
  BY <1>2, <1>7, <1>8, <1>11 DEF Fresh
<1>17. \A b1, b2 \in Adapter : Has(b1)' /\ Has(b2)' /\ adapter'[b1].fd = adapter'[b2].fd => b1 = b2
  BY <1>14 DEF KInv, KOwn
<1>18. \A b \in Adapter, i \in DOMAIN taken' : Has(b)' => adapter'[b].fd # taken'[i][1]
  BY <1>2, <1>7, <1>8, <1>10, <1>14 DEF KInv, KApart
<1>19. \A i, j \in DOMAIN taken' : taken'[i][1] = taken'[j][1] => i = j
  BY <1>2, <1>7, <1>11 DEF KInv, KOnce
<1>20. \A f \in Number : so'[f] # None => \/ \E b \in Adapter : Has(b)' /\ adapter'[b].fd = f
                                          \/ \E i \in DOMAIN taken' : taken'[i][1] = f
  <2> SUFFICES ASSUME NEW f \in Number, so'[f] # None
               PROVE  \/ \E b \in Adapter : Has(b)' /\ adapter'[b].fd = f
                      \/ \E i \in DOMAIN taken' : taken'[i][1] = f
    OBVIOUS
  <2>1. CASE f = n
    BY <1>2, <1>7, <2>1
  <2>2. CASE f # n
    <3>1. (\E b \in Adapter : Has(b) /\ adapter[b].fd = f) \/ (\E i \in DOMAIN taken : taken[i][1] = f)
      BY <1>8, <2>2 DEF KInv, KHeld
    <3> QED BY <1>7, <1>14, <3>1
  <2> QED BY <2>1, <2>2
<1> QED BY <1>9, <1>12, <1>13, <1>15, <1>16, <1>17, <1>18, <1>19, <1>20, Zenon DEF KInv, KSane, KJobs, KGood, KFresh, KOwn, KApart, KOnce, KHeld

\* The first accepted descriptor is adopted.
LEMMA Adopted ==
  ASSUME Distinct, KInv, NEW a \in Adapter, adapter[a] = None, taken # <<>>,
         NEW c \in Object, c.fd = taken[1][1], NEW s, so' = [so EXCEPT ![c.fd] = s],
         Sane(s), Good(c, s, {}, {}), Employed(c, {}),
         adapter' = [adapter EXCEPT ![a] = c], taken' = Tail(taken), dialer' = dialer, excused' = excused
  PROVE  KInv'
<1> DEFINE n == c.fd
           up(i) == i + 1
<1>1. /\ taken \in Seq(Number \X {"tcp", "uds"}) /\ so \in [Number -> Socket \cup {None}]
      /\ Len(taken) \in Nat /\ Len(taken) > 0 /\ DOMAIN taken = 1..Len(taken)
  <2>1. taken \in Seq(Number \X {"tcp", "uds"}) /\ so \in [Number -> Socket \cup {None}]
        /\ Len(taken) \in Nat /\ DOMAIN taken = 1..Len(taken)
    BY Waiting
  <2>2. Len(taken) # 0
    BY <2>1
  <2> QED BY <2>1, <2>2
<1>2. /\ taken' \in Seq(Number \X {"tcp", "uds"}) /\ DOMAIN taken' = 1..(Len(taken) - 1)
      /\ \A i \in 1..(Len(taken) - 1) : taken'[i] = taken[i + 1]
  BY <1>1
<1>3. 1 \in DOMAIN taken /\ taken[1][1] \in Number /\ n = taken[1][1]
  BY <1>1
<1>4. \A i \in DOMAIN taken' : up(i) \in DOMAIN taken /\ up(i) # 1 /\ taken'[i] = taken[up(i)]
  BY <1>1, <1>2
<1>5. \A i, j \in DOMAIN taken' : up(i) = up(j) => i = j
  BY <1>1, <1>2
<1>6. ASSUME NEW j \in DOMAIN taken, j # 1 PROVE \E i \in DOMAIN taken' : taken'[i] = taken[j]
  <2>1. j - 1 \in DOMAIN taken' /\ up(j - 1) = j
    BY <1>1, <1>2, <1>6
  <2> QED BY <1>4, <2>1
<1>7. n = c.fd
  OBVIOUS
<1> HIDE DEF n, up
<1>8. /\ adapter'[a] = c /\ c # None /\ dialer[a] = {} /\ excused[a] = {} /\ ~Has(a) /\ n # None
      /\ \A b \in Adapter : b # a => adapter'[b] = adapter[b]
  BY <1>3, <1>7 DEF KInv, KJobs, TypeOK, Distinct, Has
<1>9. s \in Socket /\ s # None
  BY DEF Sane, Distinct
<1>10. /\ so' \in [Number -> Socket \cup {None}] /\ so'[n] = s
       /\ \A f \in Number : f # n => so'[f] = so[f]
  BY <1>1, <1>3, <1>7, <1>9
<1>11. TypeOK'
  BY <1>2, <1>10 DEF KInv, TypeOK
<1>12. \A b \in Adapter : Has(b)' <=> Has(b) \/ b = a
  BY <1>7, <1>8 DEF Has
<1>13. \A b \in Adapter : Has(b) => adapter[b].fd \in Number /\ so[adapter[b].fd] # None
  BY Owning DEF Has
<1>14. \A b \in Adapter : Has(b) => b # a /\ adapter[b].fd # n
  BY <1>3, <1>8 DEF KInv, KApart
<1>15. \A i \in DOMAIN taken : i # 1 => taken[i][1] \in Number /\ Fresh(i) /\ taken[i][1] # n
  BY <1>1, <1>3 DEF KInv, KFresh, KOnce
<1>16. \A f \in Number : so'[f] # None => Sane(so'[f])
  BY <1>10 DEF KInv, KSane
<1>17. \A b \in Adapter : IF adapter'[b] = None THEN dialer'[b] = {} /\ excused'[b] = {}
                          ELSE Employed(adapter'[b], dialer'[b])
  BY <1>8 DEF KInv, KJobs
<1>18. ASSUME NEW b \in Adapter, Has(b)'
       PROVE  so'[adapter'[b].fd] # None /\ Good(adapter'[b], so'[adapter'[b].fd], dialer'[b], excused'[b])
  <2>1. CASE b = a
    BY <1>7, <1>8, <1>9, <1>10, <2>1
  <2>2. CASE b # a
    BY <1>8, <1>10, <1>12, <1>13, <1>14, <1>18, <2>2 DEF KInv, KGood
  <2> QED BY <2>1, <2>2
<1>19. \A i \in DOMAIN taken' : Fresh(i)'
  BY <1>4, <1>10, <1>15 DEF Fresh
<1>20. \A b1, b2 \in Adapter : Has(b1)' /\ Has(b2)' /\ adapter'[b1].fd = adapter'[b2].fd => b1 = b2
  BY <1>7, <1>8, <1>12, <1>14 DEF KInv, KOwn
<1>21. \A b \in Adapter, i \in DOMAIN taken' : Has(b)' => adapter'[b].fd # taken'[i][1]
  BY <1>4, <1>7, <1>8, <1>12, <1>15 DEF KInv, KApart
<1>22. \A i, j \in DOMAIN taken' : taken'[i][1] = taken'[j][1] => i = j
  BY <1>4, <1>5 DEF KInv, KOnce
<1>23. \A f \in Number : so'[f] # None => \/ \E b \in Adapter : Has(b)' /\ adapter'[b].fd = f
                                          \/ \E i \in DOMAIN taken' : taken'[i][1] = f
  <2> SUFFICES ASSUME NEW f \in Number, so'[f] # None
               PROVE  \/ \E b \in Adapter : Has(b)' /\ adapter'[b].fd = f
                      \/ \E i \in DOMAIN taken' : taken'[i][1] = f
    OBVIOUS
  <2>1. CASE f = n
    BY <1>7, <1>8, <1>12, <2>1
  <2>2. CASE f # n
    <3>1. (\E b \in Adapter : Has(b) /\ adapter[b].fd = f) \/ (\E i \in DOMAIN taken : taken[i][1] = f)
      BY <1>10, <2>2 DEF KInv, KHeld
    <3>2. CASE \E b \in Adapter : Has(b) /\ adapter[b].fd = f
      BY <1>8, <1>12, <3>2
    <3>3. CASE \E i \in DOMAIN taken : taken[i][1] = f
      BY <1>3, <1>6, <2>2, <3>3
    <3> QED BY <3>1, <3>2, <3>3
  <2> QED BY <2>1, <2>2
<1> QED BY <1>11, <1>16, <1>17, <1>18, <1>19, <1>20, <1>21, <1>22, <1>23, Zenon DEF KInv, KSane, KJobs, KGood, KFresh, KOwn, KApart, KOnce, KHeld

\* The descriptor of a goes to the new adapter b, and a has a new one, or none.
LEMMA Handed ==
  ASSUME Distinct, KInv, NEW a \in Adapter, NEW b \in Adapter, a # b, adapter[a] # None,
         adapter[b] = None, adapter[a].fd # None,
         NEW c \in Object, NEW l \in Object, NEW x \in SUBSET Excuse,
         c.fd = adapter[a].fd, adapter' \in [Adapter -> Object \cup {None}], adapter'[b] = c, adapter'[a] = l,
         \A o \in Adapter : o # a /\ o # b => adapter'[o] = adapter[o],
         excused' = [excused EXCEPT ![a] = x], taken' = taken, dialer' = dialer,
         so' \in [Number -> Socket \cup {None}],
         \A f \in Number : f # c.fd /\ f # l.fd => so'[f] = so[f],
         so'[c.fd] # None, Sane(so'[c.fd]), Good(c, so'[c.fd], {}, {}), Employed(c, {}),
         Employed(l, dialer[a]),
         l.fd # None => /\ so[l.fd] = None /\ so'[l.fd] # None
                        /\ Sane(so'[l.fd]) /\ Good(l, so'[l.fd], dialer[a], x)
  PROVE  KInv'
<1>1. /\ c # None /\ l # None /\ dialer[b] = {} /\ excused'[b] = {} /\ excused'[a] = x
      /\ \A o \in Adapter : o # a => excused'[o] = excused[o]
  BY DEF KInv, KJobs, TypeOK, Distinct
<1>2. /\ c.fd \in Number /\ so[c.fd] # None /\ Has(a) /\ ~Has(b) /\ c.fd # l.fd
      /\ l.fd \in Number \cup {None}
  <2>1. c.fd \in Number /\ so[c.fd] # None /\ Has(a)
    BY Owning
  <2>2. l.fd \in Number \cup {None} /\ ~Has(b)
    BY DEF Object, Has
  <2> QED BY <2>1, <2>2 DEF Distinct
<1>3. TypeOK'
  BY DEF KInv, TypeOK
<1>4. /\ \A o \in Adapter : o # a /\ o # b => (Has(o)' <=> Has(o))
      /\ Has(b)' /\ (Has(a)' <=> l.fd # None)
  BY <1>1, <1>2 DEF Has, Distinct
<1>5. \A o \in Adapter : Has(o) => adapter[o].fd \in Number /\ so[adapter[o].fd] # None
  BY Owning DEF Has
<1>6. \A o \in Adapter : o # a /\ Has(o) => o # b /\ adapter[o].fd # c.fd /\ adapter[o].fd # l.fd
  <2>1. \A o \in Adapter : Has(o) /\ adapter[o].fd = adapter[a].fd => o = a
    BY <1>2 DEF KInv, KOwn
  <2> SUFFICES ASSUME NEW o \in Adapter, o # a, Has(o)
               PROVE  o # b /\ adapter[o].fd # c.fd /\ adapter[o].fd # l.fd
    OBVIOUS
  <2>2. o # b /\ adapter[o].fd # c.fd
    BY <1>2, <2>1
  <2>3. adapter[o].fd # l.fd
    BY <1>5 DEF Distinct
  <2> QED BY <2>2, <2>3
<1>7. \A i \in DOMAIN taken : taken[i][1] \in Number /\ Fresh(i) /\ taken[i][1] # c.fd
  <2>1. \A i \in DOMAIN taken : taken[i][1] \in Number /\ Fresh(i)
    BY Waiting DEF KInv, KFresh
  <2>2. \A i \in DOMAIN taken : taken[i][1] # c.fd
    BY <1>2 DEF KInv, KApart
  <2> QED BY <2>1, <2>2
<1>8. \A i \in DOMAIN taken : taken[i][1] # l.fd
  BY <1>7 DEF Fresh, Distinct
<1>9. \A f \in Number : so[f] # None => so'[f] # None
  BY <1>2 DEF Distinct
<1>10. \A f \in Number : so'[f] # None => Sane(so'[f])
  <2> SUFFICES ASSUME NEW f \in Number, so'[f] # None PROVE Sane(so'[f])
    OBVIOUS
  <2>1. CASE f = c.fd \/ f = l.fd
    BY <2>1 DEF Distinct
  <2>2. CASE f # c.fd /\ f # l.fd
    BY <2>2 DEF KInv, KSane
  <2> QED BY <2>1, <2>2
<1>11. \A o \in Adapter : IF adapter'[o] = None THEN dialer'[o] = {} /\ excused'[o] = {}
                          ELSE Employed(adapter'[o], dialer'[o])
  <2> SUFFICES ASSUME NEW o \in Adapter
               PROVE  IF adapter'[o] = None THEN dialer'[o] = {} /\ excused'[o] = {}
                      ELSE Employed(adapter'[o], dialer'[o])
    OBVIOUS
  <2>1. CASE o = a \/ o = b
    BY <1>1, <2>1
  <2>2. CASE o # a /\ o # b
    <3>1. adapter'[o] = adapter[o] /\ dialer'[o] = dialer[o] /\ excused'[o] = excused[o]
      BY <1>1, <2>2
    <3>2. IF adapter[o] = None THEN dialer[o] = {} /\ excused[o] = {} ELSE Employed(adapter[o], dialer[o])
      BY DEF KInv, KJobs
    <3> QED BY ONLY <3>1, <3>2
  <2> QED BY <2>1, <2>2
<1>12. ASSUME NEW o \in Adapter, Has(o)'
       PROVE  so'[adapter'[o].fd] # None /\ Good(adapter'[o], so'[adapter'[o].fd], dialer'[o], excused'[o])
  <2>1. CASE o = a \/ o = b
    BY <1>1, <1>4, <1>12, <2>1
  <2>2. CASE o # a /\ o # b
    <3>1. Has(o) /\ adapter[o].fd \in Number /\ so'[adapter[o].fd] = so[adapter[o].fd]
      BY <1>4, <1>5, <1>6, <1>12, <2>2
    <3> QED BY <1>1, <2>2, <3>1 DEF KInv, KGood
  <2> QED BY <2>1, <2>2
<1>13. \A i \in DOMAIN taken : Fresh(i)'
  BY <1>7, <1>8 DEF Fresh
<1>14. \A o1, o2 \in Adapter : Has(o1)' /\ Has(o2)' /\ adapter'[o1].fd = adapter'[o2].fd => o1 = o2
  <2> SUFFICES ASSUME NEW o1 \in Adapter, NEW o2 \in Adapter, Has(o1)', Has(o2)', adapter'[o1].fd = adapter'[o2].fd
               PROVE  o1 = o2
    OBVIOUS
  <2>1. o1 # a /\ o1 # b => Has(o1) /\ adapter'[o1] = adapter[o1] /\ adapter[o1].fd # c.fd /\ adapter[o1].fd # l.fd
    BY <1>4, <1>6
  <2>2. o2 # a /\ o2 # b => Has(o2) /\ adapter'[o2] = adapter[o2] /\ adapter[o2].fd # c.fd /\ adapter[o2].fd # l.fd
    BY <1>4, <1>6
  <2>3. CASE o1 = a
    BY <1>2, <2>2, <2>3
  <2>4. CASE o1 = b
    BY <1>2, <2>2, <2>4
  <2>5. CASE o1 # a /\ o1 # b
    BY <2>1, <2>2, <2>5 DEF KInv, KOwn
  <2> QED BY <2>3, <2>4, <2>5
<1>15. \A o \in Adapter, i \in DOMAIN taken : Has(o)' => adapter'[o].fd # taken[i][1]
  BY <1>2, <1>4, <1>7, <1>8 DEF KInv, KApart
<1>16. \A i, j \in DOMAIN taken : taken[i][1] = taken[j][1] => i = j
  BY DEF KInv, KOnce
<1>17. \A f \in Number : so'[f] # None => \/ \E o \in Adapter : Has(o)' /\ adapter'[o].fd = f
                                          \/ \E i \in DOMAIN taken : taken[i][1] = f
  <2> SUFFICES ASSUME NEW f \in Number, so'[f] # None
               PROVE  \/ \E o \in Adapter : Has(o)' /\ adapter'[o].fd = f
                      \/ \E i \in DOMAIN taken : taken[i][1] = f
    OBVIOUS
  <2>1. CASE f = c.fd
    BY <1>4, <2>1
  <2>2. CASE f = l.fd
    BY <1>4, <2>2 DEF Distinct
  <2>3. CASE f # c.fd /\ f # l.fd
    <3>1. (\E o \in Adapter : Has(o) /\ adapter[o].fd = f) \/ (\E i \in DOMAIN taken : taken[i][1] = f)
      BY <2>3 DEF KInv, KHeld
    <3> QED BY <1>2, <1>4, <2>3, <3>1
  <2> QED BY <2>1, <2>2, <2>3
<1>18. KSane' /\ KJobs' /\ KGood' /\ KOwn'
  BY <1>10, <1>11, <1>12, <1>14, Zenon DEF KSane, KJobs, KGood, KOwn
<1>19. KFresh'
  BY <1>13 DEF KFresh
<1>20. KApart'
  BY <1>15 DEF KApart
<1>21. KOnce'
  BY <1>16 DEF KOnce
<1>22. KHeld'
  BY <1>17 DEF KHeld
<1> QED BY <1>3, <1>18, <1>19, <1>20, <1>21, <1>22 DEF KInv

----------------------------------------------------------------------------
(* The steps.                                                              *)

LEMMA NoChange ==
  ASSUME KInv, NEW a \in Adapter
  PROVE  /\ adapter = [adapter EXCEPT ![a] = adapter[a]] /\ dialer = [dialer EXCEPT ![a] = dialer[a]]
         /\ excused = [excused EXCEPT ![a] = excused[a]]
BY DEF KInv, TypeOK

LEMMA TypesAreKnown == \A class \in Class : SocketType(class) \in {"tcp", "uds", "udp"}
BY DEF SocketType, Class

LEMMA NewAdapter ==
  ASSUME Distinct, NEW class \in Class, NEW f \in Number \cup {None}
  PROVE  LET c == inet_adapter(class, f) IN
         /\ c \in Object /\ c.class = class /\ c.fd = f /\ ~c.is_connected /\ c.listening = 0
         /\ c.bind_slot = None /\ Employed(c, {})
BY DEF inet_adapter, Object, Employed, Distinct

LEMMA CreateStep ==
  ASSUME Distinct, KInv, NEW a \in Adapter, NEW class \in Class, Create(a, class)
  PROVE  KInv'
<1> DEFINE type == SocketType(class)
<1>1. adapter[a] = None /\ taken' = taken /\ dialer' = dialer /\ excused' = excused
  BY DEF Create
<1>2. so \in [Number -> Socket \cup {None}] /\ type \in {"tcp", "uds", "udp"}
  BY TypesAreKnown DEF KInv, TypeOK
<1>3. CASE Free = {}
  <2>1. so' = so /\ adapter' = [adapter EXCEPT ![a] = inet_adapter(class, None)]
    BY <1>3 DEF Create, create_socket
  <2> DEFINE c == inet_adapter(class, None)
  <2>2. c \in Object /\ c.fd = None /\ Employed(c, {})
    BY NewAdapter
  <2>3. adapter' = [adapter EXCEPT ![a] = c]
    BY <2>1
  <2> HIDE DEF c
  <2> QED BY <1>1, <1>2, <2>1, <2>2, <2>3, Added
<1>4. CASE Free # {}
  <2> DEFINE n == NextFd
             o == Opened(type, None, None)
             c == inet_adapter(class, n)
             s == Tuned(Tuned(o))
  <2>1. n \in Number /\ so[n] = None
    BY <1>4, NextIsFree DEF Distinct
  <2>2. n # None
    BY <2>1 DEF Distinct
  <2>3. create_socket(type) = <<[so EXCEPT ![n] = Tuned(o)], n>>
    BY <1>4 DEF create_socket
  <2> HIDE DEF n, type
  <2>4. so' = [[so EXCEPT ![n] = Tuned(o)] EXCEPT ![n] = Tuned(@)] /\ adapter' = [adapter EXCEPT ![a] = c]
    BY <2>2, <2>3 DEF Create, type
  <2>5. o \in Socket /\ o.type = type /\ o.syn = None /\ o.addr = None /\ o.peer = None
    BY <1>2, OpenedIs
  <2> HIDE DEF o
  <2>6. Tuned(o) \in Socket /\ Like(o, Tuned(o))
    BY <2>5, TunedIs DEF Like
  <2>7. Like(Tuned(o), s) /\ "nonblocking" \in s.opts
    BY <2>6, TunedIs
  <2>8. so' = [so EXCEPT ![n] = s]
    BY <1>2, <2>1, <2>4
  <2>9. c \in Object /\ c.class = class /\ c.fd = n /\ ~c.is_connected /\ c.bind_slot = None /\ Employed(c, {})
    BY <2>1, NewAdapter
  <2> HIDE DEF s, c
  <2>10. s \in Socket /\ s.type = type /\ s.syn = None /\ s.addr = None /\ s.peer = None
    BY <2>5, <2>6, <2>7 DEF Like
  <2>11. Sane(s) /\ s # None /\ Good(c, s, {}, {})
    BY <2>7, <2>9, <2>10 DEF Sane, Good, Honest, Dialing, type, Distinct
  <2>12. so' \in [Number -> Socket \cup {None}] /\ so'[n] = s /\ \A f \in Number : f # n => so'[f] = so[f]
    BY <1>2, <2>1, <2>8, <2>10
  <2> QED BY <1>1, <2>1, <2>4, <2>9, <2>11, <2>12, Added
<1> QED BY <1>3, <1>4

\* The socket of a, or none, is bound to addr, or not.
LEMMA Binding ==
  ASSUME Distinct, KInv, NEW a \in Adapter, adapter[a] # None, NEW addr \in Here \cup {None},
         NEW ok \in BOOLEAN,
         \/ so' = peer_bind(so, adapter[a].fd, addr, ok)
         \/ addr # None /\ so' = path_bind(so, adapter[a].fd, addr, ok)
  PROVE  LET f == adapter[a].fd IN
         /\ so' \in [Number -> Socket \cup {None}] /\ \A g \in Number : g # f => so'[g] = so[g]
         /\ f # None => so'[f] # None /\ Rebound(so[f], so'[f]) /\ Placed(so[f], so'[f], addr, ok)
<1> DEFINE f == adapter[a].fd
<1>1. so \in [Number -> Socket \cup {None}]
  BY DEF KInv, TypeOK
<1>2. f # None => f \in Number /\ so[f] \in Socket
  BY Owning
<1> HIDE DEF f
<1>3. CASE f = None
  <2>1. so' = so
    BY <1>3 DEF peer_bind, path_bind, f
  <2> QED BY <1>1, <1>3, <2>1 DEF f
<1>4. CASE f # None
  <2>1. so' = peer_bind(so, f, addr, ok) \/ (addr \in Here /\ so' = Bound(so, f, addr, ok))
    BY <1>4 DEF path_bind, f
  <2>2. /\ so' \in [Number -> Socket \cup {None}] /\ Rebound(so[f], so'[f]) /\ Placed(so[f], so'[f], addr, ok)
        /\ \A g \in Number : g # f => so'[g] = so[g]
    BY <1>1, <1>2, <1>4, <2>1, PeerBoundIs, BoundIs
  <2>3. so'[f] # None
    BY <2>2 DEF Rebound, Distinct
  <2> QED BY <2>2, <2>3 DEF f
<1> QED BY <1>3, <1>4

\* Binding disturbs nothing but the address.
LEMMA StaysGood ==
  ASSUME NEW c, NEW s, NEW t, NEW d, NEW x, Sane(s), Good(c, s, d, x), Rebound(s, t)
  PROVE  Sane(t) /\ (c.class # "udp_listener" => Good(c, t, d, x))
BY DEF Sane, Good, Honest, Dialing, Rebound

LEMMA BindStep ==
  ASSUME Distinct, KInv, NEW a \in Adapter, NEW addr \in Here \cup {None}, Bind(a, addr)
  PROVE  KInv'
<1> DEFINE c == adapter[a]
           f == c.fd
           d == dialer[a]
           x == excused[a]
<1>1. c # None /\ taken' = taken /\ dialer' = dialer
  BY DEF Bind, tcp_connector_bind, udp_connector_bind, connector_bind, tcp_listener_bind,
         uds_listener_bind, udp_listener_bind
<1>7. PICK ok \in BOOLEAN :
        /\ \/ so' = peer_bind(so, f, addr, ok)
           \/ addr # None /\ so' = path_bind(so, f, addr, ok)
        /\ c.class = "udp_listener" => excused' = [excused EXCEPT ![a] = @ \cup NotBound(f, addr, ok)]
  BY DEF Bind, tcp_connector_bind, udp_connector_bind, connector_bind, tcp_listener_bind,
         uds_listener_bind, udp_listener_bind
<1>2. /\ so' \in [Number -> Socket \cup {None}] /\ \A g \in Number : g # f => so'[g] = so[g]
      /\ f # None => so'[f] # None /\ Rebound(so[f], so'[f]) /\ Placed(so[f], so'[f], addr, ok)
  BY <1>1, <1>7, Binding
<1>3. /\ c \in Object /\ f \in Number \cup {None} /\ Employed(c, d) /\ d \in SUBSET (Caller \X Addr)
      /\ x \in SUBSET Excuse
      /\ f # None => Sane(so[f]) /\ Good(c, so[f], d, x)
  BY <1>1, Owning
<1>4. /\ adapter = [adapter EXCEPT ![a] = c] /\ dialer = [dialer EXCEPT ![a] = d]
      /\ excused = [excused EXCEPT ![a] = x]
  BY NoChange
<1>5. CASE c.class # "udp_listener"
  <2>1. adapter' = adapter /\ excused' = excused
    BY <1>5 DEF Bind, tcp_connector_bind, udp_connector_bind, connector_bind, tcp_listener_bind,
           uds_listener_bind, udp_listener_bind
  <2>3. c.fd = f /\ c.fd = adapter[a].fd
    OBVIOUS
  <2> HIDE DEF c, f, d, x
  <2>2. f # None => Sane(so'[f]) /\ Good(c, so'[f], d, x)
    <3> DEFINE s == so[f]
               t == so'[f]
    <3> SUFFICES ASSUME f # None PROVE Sane(t) /\ Good(c, t, d, x)
      OBVIOUS
    <3>1. Sane(s) /\ Good(c, s, d, x) /\ Rebound(s, t)
      BY <1>2, <1>3
    <3> HIDE DEF s, t
    <3>2. Sane(t)
      BY <3>1, StaysGood
    <3>3. Good(c, t, d, x)
      BY <1>5, <3>1, StaysGood
    <3> QED BY <3>2, <3>3
  <2>4. /\ adapter' = [adapter EXCEPT ![a] = c] /\ dialer' = [dialer EXCEPT ![a] = d]
        /\ excused' = [excused EXCEPT ![a] = x]
    BY <1>1, <1>4, <2>1
  <2>5. /\ \A g \in Number : g # c.fd => so'[g] = so[g]
        /\ c.fd # None => so'[c.fd] # None /\ Sane(so'[c.fd]) /\ Good(c, so'[c.fd], d, x)
    BY <1>2, <2>2, <2>3
  <2>6. adapter[a] # None
    BY <1>1 DEF c
  <2> QED BY <1>1, <1>2, <1>3, <2>3, <2>4, <2>5, <2>6, Touched
<1>6. CASE c.class = "udp_listener"
  <2> DEFINE y == x \cup NotBound(f, addr, ok)
             b == [c EXCEPT !.bind_slot = addr]
  <2>1. adapter' = [adapter EXCEPT ![a].bind_slot = addr]
        /\ excused' = [excused EXCEPT ![a] = @ \cup NotBound(f, addr, ok)]
    BY <1>6, <1>7 DEF Bind, tcp_connector_bind, udp_connector_bind, connector_bind, tcp_listener_bind,
           uds_listener_bind, udp_listener_bind
  <2>2. adapter' = [adapter EXCEPT ![a] = b] /\ excused' = [excused EXCEPT ![a] = y]
    BY <2>1 DEF KInv, TypeOK
  <2>3. y \in SUBSET Excuse
    BY <1>3 DEF NotBound, Excuse
  <2>4. /\ b \in Object /\ b.fd = f /\ b.class = c.class /\ b.is_connected = c.is_connected
        /\ b.listening = c.listening /\ b.reached = c.reached /\ b.bind_slot = addr
    BY <1>3 DEF Object
  <2>5. Employed(b, d)
    BY <1>3, <2>4 DEF Employed
  <2>6. ASSUME f # None PROVE Sane(so'[f]) /\ Good(b, so'[f], d, y)
    <3> DEFINE s == so[f]
               t == so'[f]
    <3>1. Sane(s) /\ Rebound(s, t) /\ Good(c, s, d, x)
      BY <1>2, <1>3, <2>6
    <3>2. x \subseteq y /\ (y = {} => t.addr = addr)
      BY <1>2, <2>6 DEF NotBound, Placed
    <3> HIDE DEF c, d, f, x, y, b, s, t
    <3>3. Sane(t)
      BY <3>1 DEF Sane, Rebound
    <3>4. Good(b, t, d, y)
      BY <2>4, <3>1, <3>2 DEF Good, Honest, Dialing, Rebound
    <3> QED BY <3>3, <3>4 DEF t
  <2>7. f = adapter[a].fd
    OBVIOUS
  <2> HIDE DEF c, f, d, x, y, b
  <2> QED BY <1>1, <1>2, <1>3, <1>4, <2>2, <2>3, <2>4, <2>5, <2>6, <2>7, Touched DEF c
<1> QED BY <1>5, <1>6

LEMMA ConnectStep ==
  ASSUME Distinct, KInv, NEW a \in Adapter, NEW t \in Caller, NEW p \in Addr, tcp_connect(a, t, p)
  PROVE  KInv'
<1> DEFINE c == adapter[a]
           f == c.fd
           d == dialer[a]
           x == excused[a]
           s == so[f]
           y == x \cup IF \E q \in d : q[2] # p THEN {"unclear"} ELSE {}
<1>1. c # None /\ c.class = "tcp_connector" /\ f # None /\ ~c.is_connected /\ taken' = taken
  BY DEF tcp_connect
<1>2. \/ /\ so' = IF s.syn = None /\ s.peer = None THEN [so EXCEPT ![f].syn = p] ELSE so
         /\ dialer' = [dialer EXCEPT ![a] = d \cup {<<t, p>>}] /\ adapter' = adapter
      \/ /\ s.peer # None /\ adapter' = [adapter EXCEPT ![a].is_connected = TRUE, ![a].reached = p]
         /\ so' = so /\ dialer' = dialer
  BY DEF tcp_connect
<1>3. /\ c \in Object /\ f \in Number /\ s \in Socket /\ Employed(c, d) /\ Sane(s) /\ Good(c, s, d, x)
      /\ x \in SUBSET Excuse /\ d \in SUBSET (Caller \X Addr)
      /\ so \in [Number -> Socket \cup {None}] /\ adapter \in [Adapter -> Object \cup {None}]
  BY <1>1, Owning DEF KInv, TypeOK
<1>4. adapter = [adapter EXCEPT ![a] = c] /\ dialer = [dialer EXCEPT ![a] = d]
  BY NoChange
<1>5. excused' = [excused EXCEPT ![a] = y] /\ y \in SUBSET Excuse
  BY <1>3 DEF tcp_connect, KInv, TypeOK, Excuse, Doubt
<1>6. /\ x \subseteq y /\ (y \cap Doubt = {} => x \cap Doubt = {} /\ \A q \in d : q[2] = p)
      /\ ("misled" \in x <=> "misled" \in y)
  <2>1. x \subseteq y /\ ("misled" \in x <=> "misled" \in y)
    OBVIOUS
  <2>2. (\E q \in d : q[2] # p) => "unclear" \in y \cap Doubt
    BY DEF Doubt
  <2> QED BY <2>1, <2>2
<1>7. p # None
  BY DEF Distinct
<1>8. c.fd = f /\ c.fd = adapter[a].fd /\ c = adapter[a] /\ s = so[f]
  OBVIOUS
<1> HIDE DEF c, f, d, x, y, s
<1>9. s.type = "tcp"
  BY <1>1, <1>3 DEF Good, SocketType
<1>10. ASSUME y \cap Doubt = {} PROVE (d = {} => s.syn = None /\ s.peer = None) /\ s.syn \in {None, p} /\ s.peer \in {None, p}
  <2>1. Dialing(c, s, d)
    BY <1>1, <1>3, <1>6, <1>10 DEF Good
  <2>2. CASE d = {}
    BY <1>1, <2>1, <2>2 DEF Dialing
  <2>3. CASE d # {}
    <3>1. PICK q \in d : q[2] = p
      BY <1>6, <1>10, <2>3
    <3> QED BY <2>1, <2>3, <3>1 DEF Dialing
  <2> QED BY <2>2, <2>3
<1>11. CASE /\ so' = IF s.syn = None /\ s.peer = None THEN [so EXCEPT ![f].syn = p] ELSE so
            /\ dialer' = [dialer EXCEPT ![a] = d \cup {<<t, p>>}] /\ adapter' = adapter
  <2> DEFINE u == IF s.syn = None /\ s.peer = None THEN [s EXCEPT !.syn = p] ELSE s
             e == d \cup {<<t, p>>}
  <2>1. /\ u \in Socket /\ u.type = s.type /\ u.opts = s.opts /\ u.addr = s.addr /\ u.peer = s.peer
        /\ u.syn \in {s.syn, p} /\ (s.peer # None => u.syn = s.syn)
    BY <1>3 DEF Socket
  <2>2. so' = [so EXCEPT ![f] = u]
    BY <1>3, <1>8, <1>11
  <2>3. /\ e \in SUBSET (Caller \X Addr) /\ e # {} /\ \A q \in e : q \in d \/ q[2] = p
    <3>1. <<t, p>> \in Caller \X Addr /\ (<<t, p>>)[2] = p
      OBVIOUS
    <3> DEFINE w == <<t, p>>
    <3>2. w \in Caller \X Addr /\ w[2] = p /\ e = d \cup {w}
      BY <3>1
    <3> HIDE DEF w, e
    <3> QED BY <1>3, <3>2
  <2>4. dialer' = [dialer EXCEPT ![a] = e] /\ adapter' = [adapter EXCEPT ![a] = c]
    BY <1>4, <1>11
  <2> HIDE DEF u, e
  <2>5. Sane(u)
    BY <1>3, <1>9, <2>1 DEF Sane
  <2>6. y \cap Doubt = {} => Dialing(c, u, e)
    <3> SUFFICES ASSUME y \cap Doubt = {} PROVE Dialing(c, u, e)
      OBVIOUS
    <3>1. u.syn \in {None, p} /\ u.peer \in {None, p}
      BY <1>10, <2>1
    <3>2. \A q \in e : q[2] = p
      BY <1>6, <2>3
    <3> QED BY <2>3, <3>1, <3>2 DEF Dialing
  <2>7. Good(c, u, e, y)
    BY <1>1, <1>3, <2>1, <2>6 DEF Good, Honest
  <2>8. Employed(c, e)
    BY <1>1, <1>3, <1>8 DEF Employed
  <2>9. u # None
    BY <2>1 DEF Distinct
  <2>10. /\ so' \in [Number -> Socket \cup {None}] /\ so'[f] = u
         /\ \A g \in Number : g # f => so'[g] = so[g]
    BY <1>3, <2>1, <2>2
  <2>11. adapter[a] # None /\ \A g \in Number : g # c.fd => so'[g] = so[g]
    BY <1>1, <1>8, <2>10
  <2>12. so'[c.fd] # None /\ Sane(so'[c.fd]) /\ Good(c, so'[c.fd], e, y)
    BY <1>8, <2>5, <2>7, <2>9, <2>10
  <2> QED BY <1>1, <1>3, <1>5, <1>8, <2>3, <2>4, <2>8, <2>10, <2>11, <2>12, Touched
<1>12. CASE /\ s.peer # None /\ adapter' = [adapter EXCEPT ![a].is_connected = TRUE, ![a].reached = p]
            /\ so' = so /\ dialer' = dialer
  <2> DEFINE o == [c EXCEPT !.is_connected = TRUE, !.reached = p]
  <2>1. adapter' = [adapter EXCEPT ![a] = o]
    BY <1>3, <1>8, <1>12
  <2>2. o \in Object /\ o.class = c.class /\ o.fd = f /\ o.is_connected /\ o.reached = p /\ o.listening = c.listening
    BY <1>3, <1>8 DEF Object
  <2> HIDE DEF o
  <2>3. Employed(o, d)
    BY <1>1, <1>3, <1>8, <2>2 DEF Employed
  <2>4. Good(o, s, d, y)
    <3>1. y \cap Doubt = {} => s.peer = p /\ s.syn = None /\ Dialing(c, s, d)
      BY <1>1, <1>3, <1>6, <1>10, <1>12 DEF Sane, Good
    <3>2. y \cap Doubt = {} => Dialing(o, s, d)
      BY <2>2, <3>1 DEF Dialing
    <3>3. s.type = SocketType(o.class) /\ "nonblocking" \in s.opts
      BY <1>3, <2>2 DEF Good
    <3>4. Honest(o, s, y)
      BY <1>12, <2>2, <3>1 DEF Honest
    <3> QED BY <1>1, <2>2, <3>2, <3>3, <3>4 DEF Good
  <2>5. dialer' = [dialer EXCEPT ![a] = d] /\ o.fd = adapter[a].fd /\ adapter[a] # None
    BY <1>1, <1>4, <1>8, <1>12, <2>2
  <2>6. /\ so' \in [Number -> Socket \cup {None}] /\ \A g \in Number : g # o.fd => so'[g] = so[g]
        /\ o.fd # None => so'[o.fd] # None /\ Sane(so'[o.fd]) /\ Good(o, so'[o.fd], d, y)
    <3>1. s # None
      BY <1>3 DEF Distinct
    <3> QED BY <1>3, <1>8, <1>12, <2>2, <2>4, <3>1
  <2> QED BY <1>1, <1>3, <1>5, <2>1, <2>2, <2>3, <2>5, <2>6, Touched
<1> QED BY <1>2, <1>11, <1>12

LEMMA HandshakeStep ==
  ASSUME Distinct, KInv, NEW f \in Number, Handshake(f)
  PROVE  KInv'
<1> DEFINE s == so[f]
           up == [s EXCEPT !.syn = None, !.peer = s.syn]
           refused == [s EXCEPT !.syn = None]
<1>1. /\ s # None /\ s.syn # None /\ adapter' = adapter /\ taken' = taken /\ dialer' = dialer /\ excused' = excused
      /\ so \in [Number -> Socket \cup {None}]
      /\ so' \in {[so EXCEPT ![f].syn = None, ![f].peer = so[f].syn], [so EXCEPT ![f].syn = None]}
  BY DEF Handshake, KInv, TypeOK
<1>2. Sane(s) /\ s \in Socket
  BY <1>1 DEF KInv, KSane, Sane
<1>3. so' = [so EXCEPT ![f] = up] \/ so' = [so EXCEPT ![f] = refused]
  BY <1>1
<1>4. /\ up \in Socket /\ up.type = s.type /\ up.opts = s.opts /\ up.addr = s.addr /\ up.syn = None /\ up.peer = s.syn
      /\ refused \in Socket /\ refused.type = s.type /\ refused.opts = s.opts /\ refused.addr = s.addr
      /\ refused.syn = None /\ refused.peer = s.peer
  BY <1>2 DEF Socket
<1>5. PICK a \in Adapter : Has(a) /\ adapter[a].fd = f
  BY <1>1 DEF KInv, KFresh, KHeld, Fresh
<1> DEFINE c == adapter[a]
           d == dialer[a]
           x == excused[a]
<1>6. /\ c \in Object /\ c # None /\ c.fd = f /\ Employed(c, d) /\ Good(c, s, d, x)
      /\ d \in SUBSET (Caller \X Addr) /\ x \in SUBSET Excuse
  BY <1>5, Owning DEF Has
<1>7. /\ adapter = [adapter EXCEPT ![a] = c] /\ dialer = [dialer EXCEPT ![a] = d]
      /\ excused = [excused EXCEPT ![a] = x]
  BY NoChange
<1>8. c = adapter[a]
  OBVIOUS
<1> HIDE DEF c, d, x, s, up, refused
<1>9. c.class # "udp_connector"
  BY <1>1, <1>2, <1>6 DEF Sane, Good, SocketType
<1>10. s.peer = None /\ ("misled" \notin x => ~c.is_connected)
  <2>1. s.peer = None
    BY <1>1, <1>2 DEF Sane
  <2> QED BY <1>6, <2>1 DEF Good, Honest
<1>11. ASSUME NEW t, t = up \/ t = refused PROVE Sane(t) /\ Good(c, t, d, x) /\ t # None
  <2>1. /\ t \in Socket /\ t.type = s.type /\ t.opts = s.opts /\ t.addr = s.addr /\ t.syn = None
        /\ t.peer = s.syn \/ t.peer = s.peer
    BY <1>4, <1>11
  <2>2. t # None
    BY <2>1 DEF Distinct
  <2>3. Sane(t)
    BY <2>1 DEF Sane
  <2>4. /\ s.type = SocketType(c.class) /\ "nonblocking" \in s.opts
        /\ c.class = "udp_listener" /\ x = {} => s.addr = c.bind_slot
    BY <1>6 DEF Good
  <2>5. x \cap Doubt = {} => ~c.is_connected
    BY <1>10 DEF Doubt
  <2>6. x \cap Doubt = {} => Dialing(c, t, d)
    <3>1. x \cap Doubt = {} => Dialing(c, s, d)
      BY <1>6, <1>9 DEF Good
    <3>2. x \cap Doubt = {} => d # {}
      BY <1>1, <3>1 DEF Dialing
    <3> QED BY <1>10, <2>1, <3>1, <3>2 DEF Dialing
  <2>7. Honest(c, t, x)
    BY <1>10, <2>5 DEF Honest
  <2>8. Good(c, t, d, x)
    BY <2>1, <2>4, <2>6, <2>7 DEF Good
  <2> QED BY <2>2, <2>3, <2>8
<1>12. PICK t : (t = up \/ t = refused) /\ so' = [so EXCEPT ![f] = t]
  BY <1>3
<1>13. t \in Socket
  BY <1>4, <1>12
<1>14. /\ so' \in [Number -> Socket \cup {None}] /\ so'[f] = t
       /\ \A g \in Number : g # f => so'[g] = so[g]
  BY <1>1, <1>12, <1>13
<1>15. /\ adapter' = [adapter EXCEPT ![a] = c] /\ dialer' = [dialer EXCEPT ![a] = d]
       /\ excused' = [excused EXCEPT ![a] = x] /\ taken' = taken
  BY <1>1, <1>7
<1>16. adapter[a] # None /\ c.fd = adapter[a].fd /\ \A g \in Number : g # c.fd => so'[g] = so[g]
  BY <1>6, <1>8, <1>14
<1>17. Sane(t) /\ Good(c, t, d, x) /\ t # None
  BY <1>11, <1>12
<1>18. so'[c.fd] # None /\ Sane(so'[c.fd]) /\ Good(c, so'[c.fd], d, x)
  BY <1>6, <1>14, <1>17
<1>19. so' \in [Number -> Socket \cup {None}]
  BY <1>14
<1> QED BY <1>6, <1>15, <1>16, <1>18, <1>19, Touched

LEMMA ConnectedStep ==
  ASSUME Distinct, KInv, NEW a \in Adapter, Connected(a)
  PROVE  KInv'
<1> DEFINE c == adapter[a]
           f == c.fd
           d == dialer[a]
           x == excused[a]
           s == so[f]
<1>1. PICK q \in d :
        /\ \/ /\ adapter' = [adapter EXCEPT ![a].is_connected = TRUE, ![a].reached = q[2]]
              /\ excused' = [excused EXCEPT ![a] = @ \cup IF s.peer = None THEN {"misled"} ELSE {}]
           \/ /\ adapter' = [adapter EXCEPT ![a].is_connected = FALSE]
              /\ excused' = [excused EXCEPT ![a] = @ \cup {"unclear"}]
        /\ dialer' = [dialer EXCEPT ![a] = @ \ {q}] /\ so' = so /\ taken' = taken
  BY DEF Connected
<1> DEFINE e == d \ {q}
<1>2. c # None
  BY <1>1 DEF KInv, KJobs
<1>3. /\ c \in Object /\ Employed(c, d) /\ d \in SUBSET (Caller \X Addr) /\ e \in SUBSET (Caller \X Addr)
      /\ x \in SUBSET Excuse /\ q[2] \in Addr
  <2>1. c \in Object /\ Employed(c, d) /\ d \in SUBSET (Caller \X Addr) /\ x \in SUBSET Excuse
    BY <1>2, Owning
  <2> QED BY <2>1
<1>4. f # None /\ c.class = "tcp_connector"
  BY <1>1, <1>3 DEF Employed
<1>5. /\ f \in Number /\ s # None /\ Sane(s) /\ Good(c, s, d, x) /\ so \in [Number -> Socket \cup {None}]
  BY <1>2, <1>4, Owning DEF KInv, TypeOK
<1>6. adapter \in [Adapter -> Object \cup {None}] /\ excused \in [Adapter -> SUBSET Excuse]
  BY DEF KInv, TypeOK
<1>7. c = adapter[a] /\ f = c.fd /\ s = so[f] /\ x = excused[a]
  OBVIOUS
<1>8. dialer' = [dialer EXCEPT ![a] = e]
  BY <1>1 DEF KInv, TypeOK
<1>9. CASE /\ adapter' = [adapter EXCEPT ![a].is_connected = TRUE, ![a].reached = q[2]]
           /\ excused' = [excused EXCEPT ![a] = @ \cup IF s.peer = None THEN {"misled"} ELSE {}]
  <2> DEFINE o == [c EXCEPT !.is_connected = TRUE, !.reached = q[2]]
             y == x \cup IF s.peer = None THEN {"misled"} ELSE {}
  <2>1. adapter' = [adapter EXCEPT ![a] = o] /\ excused' = [excused EXCEPT ![a] = y]
    BY <1>6, <1>9
  <2>2. o \in Object /\ o.class = c.class /\ o.fd = f /\ o.is_connected /\ o.reached = q[2] /\ o.listening = c.listening
    BY <1>3 DEF Object
  <2>3. y \in SUBSET Excuse
    BY <1>3 DEF Excuse, Doubt
  <2>4. ("misled" \notin y => s.peer # None) /\ x \subseteq y
    OBVIOUS
  <2>5. \A r \in e : r \in d
    OBVIOUS
  <2> HIDE DEF c, f, d, x, s, o, y, e
  <2>6. Employed(o, e)
    BY <1>3, <1>4, <1>7, <2>2 DEF Employed
  <2>7. y \cap Doubt = {} => s.peer = q[2] /\ s.syn = None /\ Dialing(c, s, d)
    <3> SUFFICES ASSUME y \cap Doubt = {} PROVE s.peer = q[2] /\ s.syn = None /\ Dialing(c, s, d)
      OBVIOUS
    <3>1. s.peer # None
      BY <2>4 DEF Doubt
    <3>2. Dialing(c, s, d)
      BY <1>4, <1>5, <2>4 DEF Good
    <3>3. s.syn = None
      BY <1>5, <3>1 DEF Sane
    <3> QED BY <1>1, <3>1, <3>2, <3>3 DEF Dialing
  <2>8. y \cap Doubt = {} => Dialing(o, s, e)
    BY <1>1, <2>2, <2>5, <2>7 DEF Dialing
  <2>9. Honest(o, s, y)
    BY <2>2, <2>4, <2>7 DEF Honest
  <2>10. s.type = SocketType(o.class) /\ "nonblocking" \in s.opts
    BY <1>5, <2>2 DEF Good
  <2>11. Good(o, s, e, y)
    BY <1>4, <2>2, <2>8, <2>9, <2>10 DEF Good
  <2>12. o.fd = adapter[a].fd /\ adapter[a] # None
    BY <1>2, <1>7, <2>2
  <2>13. /\ so' \in [Number -> Socket \cup {None}] /\ \A g \in Number : g # o.fd => so'[g] = so[g]
         /\ o.fd # None => so'[o.fd] # None /\ Sane(so'[o.fd]) /\ Good(o, so'[o.fd], e, y)
    BY <1>1, <1>5, <1>7, <2>2, <2>11
  <2> QED BY <1>1, <1>3, <1>8, <2>1, <2>2, <2>3, <2>6, <2>12, <2>13, Touched
<1>10. CASE /\ adapter' = [adapter EXCEPT ![a].is_connected = FALSE]
            /\ excused' = [excused EXCEPT ![a] = @ \cup {"unclear"}]
  <2> DEFINE o == [c EXCEPT !.is_connected = FALSE]
             y == x \cup {"unclear"}
  <2>1. adapter' = [adapter EXCEPT ![a] = o] /\ excused' = [excused EXCEPT ![a] = y]
    BY <1>6, <1>10
  <2>2. o \in Object /\ o.class = c.class /\ o.fd = f /\ ~o.is_connected /\ o.listening = c.listening
    BY <1>3 DEF Object
  <2>3. y \in SUBSET Excuse /\ y \cap Doubt # {}
    BY <1>3 DEF Excuse, Doubt
  <2> HIDE DEF c, f, d, x, s, o, y, e
  <2>4. Employed(o, e)
    BY <1>3, <1>4, <1>7, <2>2 DEF Employed
  <2>5. Good(o, s, e, y)
    BY <1>4, <1>5, <2>2, <2>3 DEF Good, Honest
  <2>6. o.fd = adapter[a].fd /\ adapter[a] # None
    BY <1>2, <1>7, <2>2
  <2>7. /\ so' \in [Number -> Socket \cup {None}] /\ \A g \in Number : g # o.fd => so'[g] = so[g]
        /\ o.fd # None => so'[o.fd] # None /\ Sane(so'[o.fd]) /\ Good(o, so'[o.fd], e, y)
    BY <1>1, <1>5, <1>7, <2>2, <2>5
  <2> QED BY <1>1, <1>3, <1>8, <2>1, <2>2, <2>3, <2>4, <2>6, <2>7, Touched
<1> QED BY <1>1, <1>9, <1>10

LEMMA UdpConnectedIs ==
  ASSUME NEW c \in Object, NEW p \in Addr \cup {None}
  PROVE  \A ok \in BOOLEAN :
           LET o == UdpConnected(c, p, ok) IN
           /\ o \in Object /\ o.class = c.class /\ o.fd = c.fd /\ o.listening = c.listening
           /\ o.is_connected = ok /\ (ok => o.reached = p)
BY DEF UdpConnected, reset_connect_, Object

LEMMA UdpConnectStep ==
  ASSUME Distinct, KInv, NEW a \in Adapter, NEW p \in Addr \cup {None}, udp_connect(a, p)
  PROVE  KInv'
<1> DEFINE c == adapter[a]
           f == c.fd
           d == dialer[a]
           x == excused[a]
           s == so[f]
<1>1. /\ c # None /\ c.class = "udp_connector" /\ f # None
      /\ taken' = taken /\ dialer' = dialer /\ excused' = excused
  BY DEF udp_connect
<1>2. PICK ok \in BOOLEAN : /\ so' = IF ok THEN [so EXCEPT ![f].peer = p] ELSE so
                            /\ adapter' = [adapter EXCEPT ![a] = UdpConnected(c, p, ok)]
                            /\ ok => p # None
  BY DEF udp_connect
<1>3. /\ c \in Object /\ f \in Number /\ s \in Socket /\ Employed(c, d) /\ Sane(s) /\ Good(c, s, d, x)
      /\ x \in SUBSET Excuse /\ so \in [Number -> Socket \cup {None}]
      /\ d \in SUBSET (Caller \X Addr)
  BY <1>1, Owning DEF KInv, TypeOK
<1>4. dialer = [dialer EXCEPT ![a] = d] /\ excused = [excused EXCEPT ![a] = x]
  BY NoChange
<1>5. c = adapter[a] /\ f = c.fd /\ s = so[f]
  OBVIOUS
<1> DEFINE o == UdpConnected(c, p, ok)
           t == IF ok THEN [s EXCEPT !.peer = p] ELSE s
<1>6. /\ o \in Object /\ o.class = c.class /\ o.fd = f /\ o.listening = c.listening
      /\ o.is_connected = ok /\ (ok => o.reached = p)
  <2>1. c \in Object
    BY <1>3
  <2> HIDE DEF c
  <2>2. \A on \in BOOLEAN :
          LET e == UdpConnected(c, p, on) IN
          /\ e \in Object /\ e.class = c.class /\ e.fd = c.fd /\ e.listening = c.listening
          /\ e.is_connected = on /\ (on => e.reached = p)
    BY <2>1, UdpConnectedIs
  <2> QED BY <2>2 DEF c
<1>7. adapter' = [adapter EXCEPT ![a] = o] /\ so' = [so EXCEPT ![f] = t]
  BY <1>2, <1>3
<1> HIDE DEF c, f, d, x, s, o
<1>8. t \in Socket /\ t.type = s.type /\ t.opts = s.opts /\ t.addr = s.addr /\ t.syn = s.syn /\ (ok => t.peer = p)
  BY <1>3 DEF Socket
<1>9. s.type = "udp"
  BY <1>1, <1>3 DEF Good, SocketType
<1> HIDE DEF t
<1>10. Sane(t) /\ Good(o, t, d, x) /\ Employed(o, d) /\ t # None
  BY <1>1, <1>2, <1>3, <1>6, <1>8, <1>9 DEF Sane, Good, Honest, Employed, Distinct
<1>11. /\ so' \in [Number -> Socket \cup {None}] /\ so'[f] = t
       /\ \A g \in Number : g # f => so'[g] = so[g]
  BY <1>3, <1>7, <1>8
<1>12. c.fd = adapter[a].fd /\ o.fd = adapter[a].fd
  BY <1>5, <1>6
<1>13. dialer' = [dialer EXCEPT ![a] = d] /\ excused' = [excused EXCEPT ![a] = x] /\ adapter[a] # None
  BY <1>1, <1>4, <1>5
<1>14. /\ \A g \in Number : g # o.fd => so'[g] = so[g]
       /\ o.fd # None => so'[o.fd] # None /\ Sane(so'[o.fd]) /\ Good(o, so'[o.fd], d, x)
  BY <1>6, <1>10, <1>11
<1>15. taken' = taken /\ o \in Object /\ Employed(o, d) /\ adapter' = [adapter EXCEPT ![a] = o]
       /\ so' \in [Number -> Socket \cup {None}]
  BY <1>1, <1>6, <1>7, <1>10, <1>11
<1> QED BY <1>3, <1>12, <1>13, <1>14, <1>15, Touched

\* A task begins to listen, or ends.
LEMMA ListenStep ==
  ASSUME Distinct, KInv, NEW a \in Adapter, adapter[a] # None, NEW on \in 0..MaxListen,
         on # 0 => /\ adapter[a].class \in {"tcp_listener", "uds_listener", "udp_listener"}
                   /\ adapter[a].class # "udp_listener" => adapter[a].fd # None,
         adapter' = [adapter EXCEPT ![a].listening = on],
         so' = so, taken' = taken, dialer' = dialer, excused' = excused
  PROVE  KInv'
<1> DEFINE c == adapter[a]
           f == c.fd
           d == dialer[a]
           x == excused[a]
           o == [c EXCEPT !.listening = on]
<1>1. /\ c \in Object /\ Employed(c, d) /\ d \in SUBSET (Caller \X Addr)
      /\ x \in SUBSET Excuse
      /\ f # None => so[f] # None /\ Sane(so[f]) /\ Good(c, so[f], d, x)
      /\ so \in [Number -> Socket \cup {None}]
  BY Owning DEF KInv, TypeOK
<1>2. dialer = [dialer EXCEPT ![a] = d] /\ excused = [excused EXCEPT ![a] = x]
  BY NoChange
<1>3. adapter' = [adapter EXCEPT ![a] = o]
  BY DEF KInv, TypeOK
<1>4. /\ o \in Object /\ o.class = c.class /\ o.fd = f /\ o.listening = on /\ o.is_connected = c.is_connected
      /\ o.reached = c.reached /\ o.bind_slot = c.bind_slot
  BY <1>1 DEF Object
<1>5. c = adapter[a] /\ f = c.fd
  OBVIOUS
<1> HIDE DEF c, f, d, x, o
<1>6. Employed(o, d) /\ (f # None => Good(o, so[f], d, x))
  BY <1>1, <1>4, <1>5 DEF Employed, Good, Honest, Dialing
<1>7. dialer' = [dialer EXCEPT ![a] = d] /\ excused' = [excused EXCEPT ![a] = x] /\ o.fd = adapter[a].fd
  BY <1>2, <1>4, <1>5
<1>8. /\ so' \in [Number -> Socket \cup {None}] /\ \A g \in Number : g # o.fd => so'[g] = so[g]
      /\ o.fd # None => so'[o.fd] # None /\ Sane(so'[o.fd]) /\ Good(o, so'[o.fd], d, x)
  BY <1>1, <1>4, <1>6
<1> QED BY <1>1, <1>3, <1>4, <1>6, <1>7, <1>8, Touched

LEMMA OneLess ==
  ASSUME Distinct, KInv, NEW a \in Adapter, adapter[a] # None, adapter[a].listening > 0,
         adapter' = [adapter EXCEPT ![a].listening = @ - 1],
         so' = so, taken' = taken, dialer' = dialer, excused' = excused
  PROVE  KInv'
<1> DEFINE n == adapter[a].listening
<1>1. adapter[a] \in Object /\ Employed(adapter[a], dialer[a])
  BY Owning
<1>2. n \in 0..MaxListen /\ n > 0 /\ n - 1 \in 0..MaxListen /\ n # 0
  BY <1>1 DEF Object, Distinct
<1>3. /\ adapter[a].class \in {"tcp_listener", "uds_listener", "udp_listener"}
      /\ adapter[a].class # "udp_listener" => adapter[a].fd # None
  BY <1>1, <1>2 DEF Employed
<1>4. adapter' = [adapter EXCEPT ![a].listening = n - 1]
  OBVIOUS
<1> HIDE DEF n
<1> DEFINE m == n - 1
<1>5. m \in 0..MaxListen /\ adapter' = [adapter EXCEPT ![a].listening = m]
  BY <1>2, <1>4
<1> HIDE DEF m
<1> QED BY <1>3, <1>5, ListenStep

LEMMA AcceptStep ==
  ASSUME Distinct, KInv, NEW a \in Adapter, NEW p \in Addr, Accept(a, p)
  PROVE  KInv'
<1> DEFINE l == adapter[a]
           s == so[l.fd]
           o == Opened(s.type, s.addr, p)
<1>1. l # None /\ l.listening > 0 /\ l.class # "udp_listener" /\ dialer' = dialer /\ excused' = excused
  BY DEF Accept
<1>2. CASE Free = {}
  <2>1. adapter' = [adapter EXCEPT ![a].listening = @ - 1] /\ so' = so /\ taken' = taken
    BY <1>2 DEF Accept
  <2> QED BY <1>1, <2>1, OneLess
<1>3. CASE Free # {}
  <2>1. /\ so' = [so EXCEPT ![NextFd] = o] /\ taken' = Append(taken, <<NextFd, s.type>>) /\ adapter' = adapter
    BY <1>3 DEF Accept
  <2>2. NextFd \in Number /\ so[NextFd] = None
    BY <1>3, NextIsFree DEF Distinct
  <2>3. Employed(l, dialer[a]) /\ l \in Object
    BY <1>1, Owning
  <2>4. l.fd # None /\ l.class \in {"tcp_listener", "uds_listener"}
    <3>1. l.listening # 0
      BY <1>1, <2>3 DEF Object, Distinct
    <3> QED BY <1>1, <2>3, <3>1 DEF Employed
  <2>5. s \in Socket /\ s.type = SocketType(l.class)
    BY <1>1, <2>4, Owning DEF Good
  <2>6. s.type \in {"tcp", "uds"} /\ s.addr \in Here \cup {None}
    BY <2>4, <2>5 DEF SocketType, Socket
  <2>7. o \in Socket /\ o.type = s.type /\ o.syn = None /\ o.peer # None
    BY <2>6, OpenedIs DEF Distinct
  <2> HIDE DEF o, s
  <2> QED BY <1>1, <2>1, <2>2, <2>6, <2>7, Took
<1> QED BY <1>2, <1>3

LEMMA ConnectorIs ==
  ASSUME Distinct, NEW class \in {"tcp_connector", "uds_connector", "udp_connector"}, NEW f \in Number, f # None,
         so[f] \in Socket
  PROVE  \A connected \in BOOLEAN :
           LET c == connector_adapter(class, f, connected) IN
           /\ c \in Object /\ c.class = class /\ c.fd = f /\ c.is_connected = connected
           /\ c.reached = so[f].peer /\ Employed(c, {})
<1> TAKE connected \in BOOLEAN
<1> DEFINE i == inet_adapter(class, f)
           c == connector_adapter(class, f, connected)
           peer == so[f].peer
<1>1. /\ i \in Object /\ i.class = class /\ i.fd = f /\ i.listening = 0
  BY NewAdapter DEF Class
<1>2. c = [i EXCEPT !.is_connected = connected, !.reached = peer] /\ peer \in Addr \cup {None}
  BY DEF connector_adapter, socket_peerinfo, Socket
<1> HIDE DEF i, peer, c
<1>3. /\ c \in Object /\ c.class = class /\ c.fd = f /\ c.is_connected = connected
      /\ c.reached = peer /\ c.listening = 0
  BY <1>1, <1>2 DEF Object
<1>4. Employed(c, {})
  BY <1>3 DEF Employed
<1> QED BY <1>3, <1>4 DEF c, peer

LEMMA SlotStep ==
  ASSUME Distinct, KInv, NEW a \in Adapter, AcceptSlot(a)
  PROVE  KInv'
<1> DEFINE n == taken[1][1]
           s == so[n]
           class == IF taken[1][2] = "tcp" THEN "tcp_connector" ELSE "uds_connector"
           c == connector_adapter(class, n, TRUE)
           t == Tuned(s)
<1>1. /\ taken # <<>> /\ adapter[a] = None /\ taken' = Tail(taken) /\ dialer' = dialer /\ excused' = excused
      /\ adapter' = [adapter EXCEPT ![a] = c] /\ so' = [so EXCEPT ![n] = t]
  BY DEF AcceptSlot, tcp_connector_of, uds_connector_of
<1>2. taken \in Seq(Number \X {"tcp", "uds"}) /\ so \in [Number -> Socket \cup {None}]
  BY DEF KInv, TypeOK
<1>3. 1 \in DOMAIN taken /\ taken[1] \in Number \X {"tcp", "uds"}
  BY <1>1, <1>2
<1>4. n \in Number /\ n # None /\ taken[1][2] \in {"tcp", "uds"}
  BY <1>3 DEF Distinct
<1>5. s # None /\ s.type = taken[1][2] /\ s.syn = None /\ s.peer # None
  BY <1>3 DEF KInv, KFresh, Fresh
<1>6. s \in Socket
  BY <1>2, <1>4, <1>5
<1>7. Like(s, t) /\ "nonblocking" \in t.opts
  BY <1>6, TunedIs
<1>8. class \in {"tcp_connector", "uds_connector"} /\ SocketType(class) = taken[1][2]
  BY <1>4 DEF SocketType
<1> HIDE DEF class
<1>9. c \in Object /\ c.class = class /\ c.fd = n /\ c.is_connected /\ c.reached = s.peer /\ Employed(c, {})
  <2>1. so[n] \in Socket
    BY <1>6
  <2> HIDE DEF n
  <2>2. \A on \in BOOLEAN :
          LET e == connector_adapter(class, n, on) IN
          /\ e \in Object /\ e.class = class /\ e.fd = n /\ e.is_connected = on
          /\ e.reached = so[n].peer /\ Employed(e, {})
    BY <1>4, <1>8, <2>1, ConnectorIs
  <2> QED BY <2>2 DEF n
<1> HIDE DEF n, s, c, t
<1>10. Sane(t) /\ Good(c, t, {}, {})
  BY <1>5, <1>7, <1>8, <1>9 DEF Sane, Good, Honest, Dialing, Like
<1>11. c.fd = taken[1][1]
  BY <1>9 DEF n
<1> QED BY <1>1, <1>9, <1>10, <1>11, Adopted

LEMMA HandOverStep ==
  ASSUME Distinct, KInv, NEW a \in Adapter, NEW b \in Adapter, NEW p \in Addr, HandOver(a, b, p)
  PROVE  KInv'
<1> DEFINE l == adapter[a]
           n == l.fd
           s == so[n]
           made == create_socket("udp")
           m == made[2]
           i == connector_adapter("udp_connector", n, FALSE)
           Moved(ok) == [so EXCEPT ![n] = [Tuned(s) EXCEPT !.peer = IF ok THEN p ELSE @]]
           Given(ok) == IF m = None THEN Moved(ok) ELSE [Moved(ok) EXCEPT ![m] = made[1][m]]
           X(bound) == excused[a] \cup (IF m = None \/ ~bound THEN {"unbound"} ELSE {})
<1>1. /\ l # None /\ l.listening > 0 /\ l.class = "udp_listener" /\ n # None /\ adapter[b] = None /\ a # b
      /\ taken' = taken /\ dialer' = dialer
  BY DEF HandOver
<1>2. PICK ok \in BOOLEAN, bound \in BOOLEAN :
        /\ adapter' = [adapter EXCEPT ![b] = UdpConnected(i, p, ok), ![a].fd = m]
        /\ so' = peer_bind(Given(ok), m, l.bind_slot, bound)
        /\ excused' = [excused EXCEPT ![a] = @ \cup (IF m = None \/ ~bound THEN {"unbound"} ELSE {})]
  BY DEF HandOver, udp_connector_of, bind_slot_
<1> DEFINE x == X(bound)
<1>3. excused' = [excused EXCEPT ![a] = x]
  BY <1>2 DEF KInv, TypeOK
<1>4. /\ l \in Object /\ n \in Number /\ s \in Socket /\ s # None /\ Sane(s) /\ Good(l, s, dialer[a], excused[a])
      /\ Employed(l, dialer[a]) /\ excused[a] \in SUBSET Excuse
      /\ so \in [Number -> Socket \cup {None}] /\ adapter \in [Adapter -> Object \cup {None}]
      /\ l.bind_slot \in Here \cup {None}
  BY <1>1, Owning DEF KInv, TypeOK, Object
<1>5. i \in Object /\ i.class = "udp_connector" /\ i.fd = n /\ Employed(i, {})
  BY <1>1, <1>4, ConnectorIs
<1> DEFINE c == UdpConnected(i, p, ok)
           t == [Tuned(s) EXCEPT !.peer = IF ok THEN p ELSE @]
           o == [l EXCEPT !.fd = m]
<1>6. /\ c \in Object /\ c.class = "udp_connector" /\ c.fd = n /\ c.listening = i.listening
      /\ c.is_connected = ok /\ (ok => c.reached = p)
  <2>1. /\ c \in Object /\ c.class = i.class /\ c.fd = i.fd /\ c.listening = i.listening
        /\ c.is_connected = ok /\ (ok => c.reached = p)
    <3> HIDE DEF i
    <3> QED BY <1>5, UdpConnectedIs
  <2> QED BY <1>5, <2>1
<1>7. s.type = "udp" /\ s.syn = None
  BY <1>1, <1>4 DEF Good, Sane, SocketType
<1>8. /\ t \in Socket /\ t.type = "udp" /\ t.syn = None /\ "nonblocking" \in t.opts /\ (ok => t.peer = p)
  <2>1. Tuned(s) \in Socket /\ Tuned(s).type = "udp" /\ Tuned(s).syn = None /\ "nonblocking" \in Tuned(s).opts
    BY <1>4, <1>7, TunedIs DEF Like
  <2> DEFINE u == Tuned(s)
  <2> HIDE DEF u
  <2>2. t = [u EXCEPT !.peer = IF ok THEN p ELSE @]
    BY DEF u
  <2> QED BY <2>1, <2>2 DEF Socket, u
<1>9. Moved(ok) = [so EXCEPT ![n] = t]
  OBVIOUS
<1>10. \/ m = None
       \/ /\ m \in Number /\ m # None /\ so[m] = None
          /\ made[1][m] \in Socket /\ made[1][m].type = "udp" /\ made[1][m].syn = None
          /\ made[1][m].peer = None /\ made[1][m].addr = None /\ "nonblocking" \in made[1][m].opts
  <2>1. CASE Free = {}
    BY <2>1 DEF create_socket
  <2>2. CASE Free # {}
    <3> DEFINE w == Opened("udp", None, None)
    <3>1. NextFd \in Number /\ so[NextFd] = None
      BY <2>2, NextIsFree DEF Distinct
    <3>2. m = NextFd /\ made[1][NextFd] = Tuned(w)
      BY <1>4, <2>2, <3>1 DEF create_socket
    <3>3. w \in Socket /\ w.type = "udp" /\ w.syn = None /\ w.peer = None /\ w.addr = None
      BY OpenedIs
    <3> HIDE DEF w, made
    <3>4. Like(w, Tuned(w)) /\ "nonblocking" \in Tuned(w).opts
      BY <3>3, TunedIs
    <3> QED BY <3>1, <3>2, <3>3, <3>4 DEF Like, Distinct
  <2> QED BY <2>1, <2>2
<1> HIDE DEF made, m, t, c, i
<1>11. /\ adapter'[b] = c /\ adapter'[a] = o /\ adapter' \in [Adapter -> Object \cup {None}]
       /\ \A e \in Adapter : e # a /\ e # b => adapter'[e] = adapter[e]
       /\ o \in Object /\ o.fd = m /\ o.class = "udp_listener" /\ o.is_connected = l.is_connected
       /\ o.listening = l.listening /\ o.bind_slot = l.bind_slot
  <2>1. o \in Object /\ o.fd = m /\ o.class = "udp_listener" /\ o.is_connected = l.is_connected
        /\ o.listening = l.listening /\ o.bind_slot = l.bind_slot
    BY <1>1, <1>4, <1>10 DEF Object
  <2>2. adapter' = [adapter EXCEPT ![b] = c, ![a].fd = m]
    BY <1>2 DEF c
  <2>3. adapter'[b] = c /\ adapter'[a] = o /\ adapter' = [[adapter EXCEPT ![b] = c] EXCEPT ![a] = o]
    BY <1>1, <1>4, <2>2
  <2> HIDE DEF o
  <2> QED BY <1>1, <1>4, <1>6, <2>1, <2>3
<1>12. /\ so' \in [Number -> Socket \cup {None}] /\ so'[n] = t /\ t # None
       /\ \A f \in Number : f # n /\ f # m => so'[f] = so[f]
       /\ m # None => /\ m # n /\ so'[m] \in Socket /\ so'[m] # None /\ so'[m].type = "udp" /\ so'[m].syn = None
                      /\ so'[m].peer = None /\ "nonblocking" \in so'[m].opts
                      /\ bound => so'[m].addr = l.bind_slot
  <2> DEFINE g == [so EXCEPT ![n] = t]
  <2>1. g \in [Number -> Socket \cup {None}] /\ g[n] = t /\ \A f \in Number : f # n => g[f] = so[f]
    BY <1>4, <1>8
  <2>2. t # None
    BY <1>8 DEF Distinct
  <2> HIDE DEF g
  <2>3. CASE m = None
    <3>1. so' = g
      BY <1>2, <1>9, <2>3 DEF peer_bind, g
    <3> QED BY <2>1, <2>2, <2>3, <3>1
  <2>4. CASE m # None
    <3> DEFINE w == made[1][m]
               h == [g EXCEPT ![m] = w]
    <3>1. so' = peer_bind(h, m, l.bind_slot, bound)
      BY <1>2, <1>9, <2>4 DEF g
    <3>2. /\ m \in Number /\ so[m] = None /\ w \in Socket /\ w.type = "udp" /\ w.syn = None
          /\ w.peer = None /\ w.addr = None /\ "nonblocking" \in w.opts /\ m # n
      BY <1>4, <1>10, <2>4
    <3> HIDE DEF w
    <3>3. h \in [Number -> Socket \cup {None}] /\ h[m] = w /\ \A f \in Number : f # m => h[f] = g[f]
      BY <2>1, <3>2
    <3> HIDE DEF h
    <3>4. /\ so' \in [Number -> Socket \cup {None}] /\ Rebound(h[m], so'[m]) /\ Placed(h[m], so'[m], l.bind_slot, bound)
          /\ \A f \in Number : f # m => so'[f] = h[f]
      <4> DEFINE addr == l.bind_slot
      <4>1. addr \in Here \cup {None} /\ so' = peer_bind(h, m, addr, bound)
        BY <1>4, <3>1
      <4>2. h[m] \in Socket
        BY <3>2, <3>3
      <4>3. m \in Number /\ h \in [Number -> Socket \cup {None}] /\ bound \in BOOLEAN
        BY <1>2, <3>2, <3>3
      <4> HIDE DEF addr
      <4>4. /\ so' \in [Number -> Socket \cup {None}] /\ Rebound(h[m], so'[m]) /\ Placed(h[m], so'[m], addr, bound)
            /\ \A f \in Number : f # m => so'[f] = h[f]
        BY <4>1, <4>2, <4>3, PeerBoundIs
      <4> QED BY <4>4 DEF addr
    <3>5. so'[m] # None
      BY <3>4 DEF Rebound, Distinct
    <3> QED BY <1>4, <2>1, <2>2, <3>2, <3>3, <3>4, <3>5 DEF Rebound, Placed
  <2> QED BY <2>3, <2>4
<1>13. x \in SUBSET Excuse /\ (m # None /\ x = {} => so'[m].addr = l.bind_slot)
  BY <1>4, <1>12 DEF Excuse
<1>14. dialer[a] = {} /\ ~l.is_connected
  BY <1>1, <1>4 DEF Employed
<1> DEFINE d == dialer[a]
<1>15. adapter[a].fd = n /\ l # None /\ c.fd = adapter[a].fd /\ l.class = "udp_listener" /\ l = adapter[a]
  BY <1>1, <1>6
<1> HIDE DEF o, x, n, l, s
<1>16. Sane(t) /\ Good(c, t, {}, {}) /\ Employed(c, {})
  BY <1>5, <1>6, <1>8 DEF Sane, Good, Honest, Employed, SocketType, Distinct
<1>17. Employed(o, d) /\ (m # None => Sane(so'[m]) /\ Good(o, so'[m], d, x))
  BY <1>11, <1>12, <1>13, <1>14 DEF Sane, Good, Honest, Dialing, Employed, SocketType
<1>18. \A f \in Number : f # c.fd /\ f # o.fd => so'[f] = so[f]
  BY <1>6, <1>11, <1>12
<1>19. so'[c.fd] # None /\ Sane(so'[c.fd]) /\ Good(c, so'[c.fd], {}, {})
  BY <1>6, <1>10, <1>12, <1>16
<1>20. o.fd # None => so[o.fd] = None /\ so'[o.fd] # None /\ Sane(so'[o.fd]) /\ Good(o, so'[o.fd], d, x)
  BY <1>6, <1>10, <1>11, <1>12, <1>16, <1>17
<1>21. adapter[a].fd # None /\ adapter[a] # None
  BY <1>1, <1>15
<1>22. c \in Object /\ c.fd = adapter[a].fd /\ Employed(c, {})
  BY <1>6, <1>15, <1>16
<1>23. /\ a # b /\ adapter[b] = None /\ taken' = taken /\ dialer' = dialer
       /\ so' \in [Number -> Socket \cup {None}] /\ x \in SUBSET Excuse
  BY <1>1, <1>12, <1>13
<1>24. /\ o \in Object /\ adapter'[b] = c /\ adapter'[a] = o /\ adapter' \in [Adapter -> Object \cup {None}]
       /\ \A e \in Adapter : e # a /\ e # b => adapter'[e] = adapter[e]
  BY <1>11
<1>25. Employed(o, dialer[a])
  BY <1>17
<1>26. o.fd # None => /\ so[o.fd] = None /\ so'[o.fd] # None
                      /\ Sane(so'[o.fd]) /\ Good(o, so'[o.fd], dialer[a], x)
  BY <1>20
<1> HIDE DEF d
<1> QED BY <1>3, <1>18, <1>19, <1>21, <1>22, <1>23, <1>24, <1>25, <1>26, Handed, ZenonT(60)

LEMMA SocketsStep == Distinct /\ KInv /\ [Next]_kvars => KInv'
<1> SUFFICES ASSUME Distinct, KInv, [Next]_kvars PROVE KInv'
  OBVIOUS
<1>1. ASSUME NEW a \in Adapter, Listen(a) \/ ListenEnds(a) PROVE KInv'
  <2>1. CASE Listen(a)
    <3> DEFINE n == adapter[a].listening + 1
    <3>1. /\ adapter[a] # None /\ adapter[a].class \in {"tcp_listener", "uds_listener", "udp_listener"}
          /\ adapter[a].class # "udp_listener" => adapter[a].fd # None
          /\ adapter[a].listening < MaxListen /\ adapter' = [adapter EXCEPT ![a].listening = n]
          /\ so' = so /\ taken' = taken /\ dialer' = dialer /\ excused' = excused
      BY <2>1 DEF Listen
    <3>2. adapter[a].listening \in 0..MaxListen
      BY <3>1, Owning DEF Object
    <3>3. n \in 0..MaxListen
      BY <3>1, <3>2 DEF Distinct
    <3> HIDE DEF n
    <3> QED BY <3>1, <3>3, ListenStep
  <2>2. CASE ListenEnds(a)
    BY <2>2, OneLess DEF ListenEnds
  <2> QED BY <1>1, <2>1, <2>2
<1>2. ASSUME NEW a \in Adapter,
             \/ tcp_connector(a) \/ tcp_listener(a) \/ uds_connector(a) \/ uds_listener(a)
             \/ udp_connector(a) \/ udp_listener(a)
      PROVE  KInv'
  <2>1. \E class \in Class : Create(a, class)
    BY <1>2 DEF Class, tcp_connector, tcp_listener, uds_connector, uds_listener, udp_connector, udp_listener
  <2> QED BY <2>1, CreateStep
<1>3. CASE UNCHANGED kvars
  BY <1>3 DEF kvars, KInv, KSane, KJobs, KGood, KFresh, KOwn, KApart, KOnce, KHeld, TypeOK, Has, Fresh
<1> QED BY <1>1, <1>2, <1>3, HandshakeStep, Freed, ConnectedStep, SlotStep, ConnectStep, AcceptStep,
           HandOverStep, BindStep, UdpConnectStep
        DEF Next

LEMMA SocketsInit == Distinct /\ Init => KInv
BY DEF Distinct, Init, KInv, KSane, KJobs, KGood, KFresh, KOwn, KApart, KOnce, KHeld, TypeOK, Has, Fresh

LEMMA KInvSuffices ==
  ASSUME Distinct, KInv
  PROVE  OneOwner /\ NeverBlocks /\ ReachedIsPeer /\ ListenerStays
<1>1. \A a \in Adapter : a \in Owned <=> Has(a)
  BY DEF Owned, Live, Has
<1>2. \A a \in Owned : a \in Adapter /\ adapter[a].fd \in Number /\ so[adapter[a].fd] # None
                       /\ Good(adapter[a], so[adapter[a].fd], dialer[a], excused[a])
  BY <1>1, Owning DEF Owned, Live, Has
<1>3. NeverBlocks /\ ReachedIsPeer /\ ListenerStays
  BY <1>2 DEF NeverBlocks, ReachedIsPeer, ListenerStays, Good, Honest
<1>4. OneOwner
  <2>1. \A a \in Owned : so[adapter[a].fd] # None /\ adapter[a].fd \notin InTasks
                         /\ so[adapter[a].fd].type = SocketType(adapter[a].class)
    BY <1>1, <1>2 DEF KInv, KApart, InTasks, Good
  <2>2. \A a, b \in Owned : adapter[a].fd = adapter[b].fd => a = b
    BY <1>1, <1>2 DEF KInv, KOwn
  <2>3. ASSUME NEW f \in Number PROVE f \notin Free <=> f \in {adapter[a].fd : a \in Owned} \cup InTasks
    <3>1. f \notin Free <=> so[f] # None
      BY DEF Free
    <3>2. so[f] # None => (\E a \in Adapter : Has(a) /\ adapter[a].fd = f) \/ (\E i \in DOMAIN taken : taken[i][1] = f)
      BY DEF KInv, KHeld
    <3>3. f \in InTasks => so[f] # None
      BY DEF KInv, KFresh, Fresh, InTasks
    <3>4. f \in InTasks <=> \E i \in DOMAIN taken : taken[i][1] = f
      BY DEF InTasks
    <3>5. f \in {adapter[a].fd : a \in Owned} <=> \E a \in Adapter : Has(a) /\ adapter[a].fd = f
      BY <1>1, <1>2
    <3>6. f \in {adapter[a].fd : a \in Owned} => so[f] # None
      BY <1>2
    <3> QED BY <3>1, <3>2, <3>3, <3>4, <3>5, <3>6
  <2>4. {adapter[a].fd : a \in Owned} \cup InTasks \subseteq Number
    BY <1>2, Waiting DEF InTasks
  <2>5. Number \ Free = {adapter[a].fd : a \in Owned} \cup InTasks
    BY <2>3, <2>4
  <2> QED BY <2>1, <2>2, <2>5 DEF OneOwner
<1> QED BY <1>3, <1>4

\* Sockets: every open descriptor has one owner and every owner an open descriptor of its type,
\* which does not block; connectors are where they say they are, and udp listeners at their
\* address; with the types.
THEOREM SocketsAreOwned ==
  ASSUME Distinct
  PROVE  Spec => [](TypeOK /\ OneOwner /\ NeverBlocks /\ ReachedIsPeer /\ ListenerStays)
<1>1. Init => KInv
  BY SocketsInit
<1>2. KInv /\ [Next]_kvars => KInv'
  BY SocketsStep
<1>3. KInv => TypeOK /\ OneOwner /\ NeverBlocks /\ ReachedIsPeer /\ ListenerStays
  BY KInvSuffices DEF KInv
<1> QED BY <1>1, <1>2, <1>3, PTL DEF Spec
=============================================================================
