--------------------------- MODULE LibraryProofs ---------------------------
(***************************************************************************)
(* What holds of the sequential parts: the theorems are of MCLibrary, for  *)
(* every value of its constants; a behaviour takes the steps of one part.  *)
(***************************************************************************)
EXTENDS MCLibrary, PartsProofs

----------------------------------------------------------------------------
(* Containers, caches and utilities.                                       *)

\* tasklist: while no two tasks have the same next_fire_time and no error of a descriptor finds
\* a task twice, the map stays in strict order of time, has at most one entry of a task, and
\* that under the time the task has now, the turns of on_event_ and on_error_ included.
THEOREM MapStaysSound == ~Ties /\ ~Twice /\ Spec => []MapIsSound
<1>1. Init => MInv
  BY MapInit DEF Init
<1>2. [Next]_all => [M!Next]_mvars
  BY DEF Next, all
<1>3. ~Ties /\ ~Twice /\ MInv /\ [Next]_all => MInv'
  BY <1>2, MapStep
<1>4. MInv => MapIsSound
  BY DEF MInv, MBase, MapIsSound
<1>5. CASE ~Ties /\ ~Twice
  BY <1>1, <1>3, <1>4, <1>5, PTL DEF Spec
<1> QED BY <1>5

\* tasklist is then the queue that the loop expects: entries are added, moved to another time
\* with or without their handler, taken in order of time, and recalled and returned for an
\* error, and no call loses another's.
THEOREM MapIsQueue == ~Ties /\ ~Twice /\ Spec => QueueSpec
<1>1. Init => MInv /\ M!Queue!Init
  BY MapInit DEF Init
<1>2. [Next]_all => [M!Next]_mvars
  BY DEF Next, all
<1>3. ~Ties /\ ~Twice /\ MInv /\ [Next]_all => MInv' /\ (QNext \/ Same)
  BY <1>2, MapStep
<1>4. QNext \/ Same => [M!Queue!Next]_(<<{map[i] : i \in DOMAIN map}, (todo \cup again) \ erasing>>)
  BY DEF QNext, Same, Entries, Recalled
<1>5. CASE ~Ties /\ ~Twice
  BY <1>1, <1>3, <1>4, <1>5, PTL DEF Spec, QueueSpec, M!QueueSpec, M!Queue!Spec
<1> QED BY <1>5

\* filternode: a removal takes the flag of one filter at most, the shortest that matches, and
\* no node goes away that leads to one that stays.
THEOREM RemovalsAreLocal == Spec => RemovalIsLocal
<1>1. Init => TInv
  BY TInit DEF Init
<1>2. [Next]_all => [T!Next]_tvars
  BY DEF Next, all
<1>3. TInv /\ [Next]_all => TInv' /\ (Local \/ UNCHANGED tvars)
  BY <1>2, TreeStep
<1>4. Local \/ UNCHANGED tvars => [Local]_tvars
  OBVIOUS
<1>5. [][Local]_tvars => RemovalIsLocal
  BY PTL DEF RemovalIsLocal, T!RemovalIsLocal, T!ft_vars, tvars, Local
<1> QED BY <1>1, <1>3, <1>4, <1>5, PTL DEF Spec

\* eventtrigger: however the calls of set_value are nested, when none is left every trigger was
\* told of every change that fired it and that was made while it was registered.
THEOREM ChangesAreHeard == Spec => []EveryChangeHeard
<1>1. Init => EInv
  BY DEF Init, E!Init, EInv
<1>2. [Next]_all => [E!Next]_evars
  BY DEF Next, all
<1>3. EInv /\ [Next]_all => EInv'
  BY <1>2, EventStep
<1>4. EInv => EveryChangeHeard
  BY DEF EInv, EveryChangeHeard, E!EveryChangeHeard
<1> QED BY <1>1, <1>3, <1>4, PTL DEF Spec

\* lrucache: whatever is done while a value is fetched, no key is in the pool twice and the index
\* has its keys, as long as no cache in use was assigned to; dep_order: every item that was
\* found is in the result once, and after all that it depends on.
THEOREM ContainersStaySound == Spec => []ContainersAreSound
<1>1. Init => LInv /\ DInv
  <2>1. L!Init => LInv
    BY LruAssumption DEF L!Init, LInv, Once, L!Keys
  <2>2. O!Init => DInv
    BY DependAssumption DEF O!Init, DInv, ItemsOf, O!OrderIsSound
  <2> QED BY <2>1, <2>2 DEF Init
<1>2. [Next]_all => [L!Next]_lvars /\ [O!Next]_ovars
  BY DEF Next, all
<1>3. LInv /\ DInv /\ [Next]_all => LInv' /\ DInv'
  BY <1>2, CacheStep, DependStep
<1>4. LInv /\ DInv => ContainersAreSound
  BY DEF LInv, Once, DInv, ContainersAreSound, L!IndexIsPool
<1> QED BY <1>1, <1>3, <1>4, PTL DEF Spec

LEMMA HandlesStep == [Next]_all => [H!Next]_hvars
BY DEF Next, all

LEMMA StackStep == [Next]_all => [C!Next]_cvars
BY DEF Next, all

\* stack_cache and task: no two tasks have one stack and none has one that is free; what is
\* set of a task through a handle made for it is read of it through any other, unless
\* something was set through the handle of a task that had its address before.
THEOREM StacksAndHandles == Spec => []TasksAreOwn
<1>1. Init => HInv
  BY HInit DEF Init
<1>2. HInv /\ [Next]_all => HInv'
  BY HStep, HandlesStep
<1>3. HInv => H!HandlesAreOwn
  BY HSuffices
<1>4. Init => C!TypeOK /\ Positions
  BY StackAssumption DEF Init, C!Init, C!TypeOK, Positions
<1>5. C!TypeOK /\ Positions /\ [Next]_all => C!TypeOK' /\ Positions'
  BY StackStep, StackTypes, StackPositions
<1>6. C!TypeOK /\ Positions => C!NoSharedStack
  BY PositionsSuffice
<1>7. HInv /\ C!NoSharedStack => TasksAreOwn
  BY <1>3 DEF TasksAreOwn
<1> QED BY <1>1, <1>2, <1>4, <1>5, <1>6, <1>7, PTL DEF Spec

\* argparser: a parser is called with values that its key was given, the last value last, and of
\* the words of the command line every one is a value or an individual argument.  redis_command:
\* a request announces as many arguments as it has, whatever was copied or moved.
THEOREM ParsersAreCalled == Spec => []ArgsAreSet
<1>1. Init => PInv
  BY DEF Init, P!Init, PInv, Done, WasGiven
<1>2. [Next]_all => [P!Next]_pvars
  BY DEF Next, all
<1>3. PInv /\ [Next]_all => PInv'
  BY <1>2, ArgsStep
<1>4. Init => QInv
  BY RequestInit DEF Init
<1>5. [Next]_all => [Q!Next]_qvars
  BY DEF Next, all
<1>6. QInv /\ [Next]_all => QInv'
  BY <1>5, RequestStep
<1>7. PInv /\ QInv => ArgsAreSet
  BY PropertyIsDone, RequestSuffices DEF PInv, ArgsAreSet
<1> QED BY <1>1, <1>3, <1>4, <1>6, <1>7, PTL DEF Spec

----------------------------------------------------------------------------
(* Files.                                                                *)

FP == INSTANCE FilesProofs WITH Letter <- Nat

\* What begins like a path and has length n is its beginning of that length.
LEMMA BeginningIs ==
  ASSUME NEW p \in Seq(Nat), NEW n \in 1..Len(p), NEW q \in Seq(Nat), Len(q) = n, \A i \in 1..n : q[i] = p[i]
  PROVE  SubSeq(p, 1, n) = q
<1>1. /\ SubSeq(p, 1, n) \in Seq(Nat) /\ Len(SubSeq(p, 1, n)) = n
      /\ \A i \in 1..n : SubSeq(p, 1, n)[i] = p[i]
  <2>1. \A i \in 1..n : p[i] \in Nat
    OBVIOUS
  <2>2. /\ SubSeq(p, 1, n) \in Seq(Nat) /\ Len(SubSeq(p, 1, n)) = IF 1 <= n THEN n - 1 + 1 ELSE 0
        /\ \A i \in 1..(n - 1 + 1) : SubSeq(p, 1, n)[i] = p[1 + i - 1]
    BY <2>1, SubSeqProperties
  <2> QED BY <2>2
<1> QED BY <1>1, SeqEqual

\* The paths of this instance are finitely many, and with each the folders it is in.
LEMMA PathsOfInstance == FP!PathsAreClosed
<1>1. IsFiniteSet(Path)
  <2>1. IsFiniteSet({<<1>>})
    BY FS_Singleton
  <2>2. IsFiniteSet({<<1>>} \cup {<<2>>})
    BY <2>1, FS_AddElement
  <2>3. IsFiniteSet(({<<1>>} \cup {<<2>>}) \cup {<<1, 1>>})
    BY <2>2, FS_AddElement
  <2>4. IsFiniteSet((({<<1>>} \cup {<<2>>}) \cup {<<1, 1>>}) \cup {<<1, 2>>})
    BY <2>3, FS_AddElement
  <2>5. IsFiniteSet(((({<<1>>} \cup {<<2>>}) \cup {<<1, 1>>}) \cup {<<1, 2>>}) \cup {<<1, 1, 1>>})
    BY <2>4, FS_AddElement
  <2>6. IsFiniteSet((((({<<1>>} \cup {<<2>>}) \cup {<<1, 1>>}) \cup {<<1, 2>>}) \cup {<<1, 1, 1>>}) \cup {<<1, 1, 2>>})
    BY <2>5, FS_AddElement
  <2>7. Path = (((({<<1>>} \cup {<<2>>}) \cup {<<1, 1>>}) \cup {<<1, 2>>}) \cup {<<1, 1, 1>>}) \cup {<<1, 1, 2>>}
    BY Zenon DEF Path
  <2> QED BY <2>6, <2>7, Zenon
<1>2. ASSUME NEW p \in Path
      PROVE  /\ p \in Seq(Nat) /\ Len(p) \in 1..3
             /\ Len(p) > 1 => p[1] = 1
             /\ Len(p) > 2 => p[2] = 1
  <2>1. \E x \in Nat : p = <<x>> \/ p = <<1, x>> \/ p = <<1, 1, x>>
    <3>1. p \in {<<1>>, <<2>>, <<1, 1>>, <<1, 2>>, <<1, 1, 1>>, <<1, 1, 2>>}
      BY DEF Path
    <3>2. 1 \in Nat /\ 2 \in Nat
      OBVIOUS
    <3> QED BY <3>1, <3>2, Zenon
  <2>2. ASSUME NEW x \in Nat, p = <<x>> PROVE p \in Seq(Nat) /\ Len(p) = 1
    BY <2>2
  <2>3. ASSUME NEW x \in Nat, p = <<1, x>> PROVE p \in Seq(Nat) /\ Len(p) = 2 /\ p[1] = 1
    BY <2>3
  <2>4. ASSUME NEW x \in Nat, p = <<1, 1, x>> PROVE p \in Seq(Nat) /\ Len(p) = 3 /\ p[1] = 1 /\ p[2] = 1
    BY <2>4
  <2>5. /\ p \in Seq(Nat)
        /\ Len(p) = 1 \/ (Len(p) = 2 /\ p[1] = 1) \/ (Len(p) = 3 /\ p[1] = 1 /\ p[2] = 1)
    BY <2>1, <2>2, <2>3, <2>4, Zenon
  <2>6. 1 \in 1..3 /\ 2 \in 1..3 /\ 3 \in 1..3 /\ ~(1 > 1) /\ ~(1 > 2) /\ ~(2 > 2)
    OBVIOUS
  <2> QED BY <2>5, <2>6, Zenon
<1>3. ASSUME NEW p \in Path, NEW n \in 1..Len(p) PROVE SubSeq(p, 1, n) \in Path
  <2>1. p \in Seq(Nat) /\ Len(p) \in 1..3
    BY <1>2
  <2>2. CASE n = Len(p)
    <3>1. SubSeq(p, 1, n) = p
      BY <2>1, <2>2, SubSeqFull
    <3> QED BY <3>1
  <2>3. CASE n = 1 /\ Len(p) > 1
    <3>1. <<1>> \in Seq(Nat) /\ Len(<<1>>) = n /\ \A i \in 1..n : <<1>>[i] = p[i]
      BY <1>2, <2>1, <2>3
    <3>2. SubSeq(p, 1, n) = <<1>>
      BY <2>1, <3>1, BeginningIs
    <3> QED BY <3>2 DEF Path
  <2>4. CASE n = 2 /\ Len(p) > 2
    <3>1. p[1] = 1 /\ p[2] = 1
      BY <1>2, <2>1, <2>4
    <3>2. <<1, 1>> \in Seq(Nat) /\ Len(<<1, 1>>) = n /\ \A i \in 1..n : <<1, 1>>[i] = p[i]
      BY <2>4, <3>1
    <3>3. SubSeq(p, 1, n) = <<1, 1>>
      BY <2>1, <3>2, BeginningIs
    <3> QED BY <3>3 DEF Path
  <2>5. n = Len(p) \/ (n = 1 /\ Len(p) > 1) \/ (n = 2 /\ Len(p) > 2)
    <3>1. \A m \in 1..3 : \A k \in 1..m : k = m \/ (k = 1 /\ m > 1) \/ (k = 2 /\ m > 2)
      OBVIOUS
    <3> QED BY <2>1, <3>1
  <2> QED BY <2>2, <2>3, <2>4, <2>5
<1>4. <<>> \notin Path
  <2>1. Len(<<>>) = 0 /\ 0 \notin 1..3
    OBVIOUS
  <2> QED BY <1>2, <2>1, Zenon
<1> QED BY <1>1, <1>2, <1>3, <1>4 DEF FP!PathsAreClosed, FP!IsFiniteSet, IsFiniteSet

LEMMA SameScan ==
  /\ \A p : F!Below(p) = FP!Below(p)
  /\ \A p : F!rek_scan_dir(p) = FP!rek_scan_dir(p)
  /\ \A f, G : F!Only(f, G) = FP!Only(f, G)
  /\ \A p : F!Parent(p) = FP!Parent(p)
  /\ \A p : F!is_folder_existed(p) = FP!is_folder_existed(p) /\ F!is_file_existed(p) = FP!is_file_existed(p)
  /\ \A p : F!CanMake(p) = FP!CanMake(p)
  /\ \A p : F!Made(p) = FP!Made(p)
  /\ \A p, q : F!IsPrefix(p, q) = FP!IsPrefix(p, q)
<1>1. \A p, q : F!IsPrefix(p, q) = FP!IsPrefix(p, q)
  BY DEF F!IsPrefix, FP!IsPrefix
<1>2. \A p : F!Below(p) = FP!Below(p)
  BY <1>1 DEF F!Below, FP!Below
<1>3. \A p : F!is_folder_existed(p) = FP!is_folder_existed(p) /\ F!is_file_existed(p) = FP!is_file_existed(p)
  BY DEF F!is_folder_existed, FP!is_folder_existed, F!is_file_existed, FP!is_file_existed
<1>4. \A p : F!Made(p) = FP!Made(p)
  BY <1>3 DEF F!Made, FP!Made
<1>5. \A p : F!Parent(p) = FP!Parent(p)
  BY DEF F!Parent, FP!Parent
<1>6. \A p : F!CanMake(p) = FP!CanMake(p)
  BY <1>3, <1>5 DEF F!CanMake, FP!CanMake
<1>7. \A G : F!SetToSeqs(G) = FP!SetToSeqs(G)
  BY DEF F!SetToSeqs, FP!SetToSeqs, F!Cardinality, FP!Cardinality
<1>8. \A p : F!rek_scan_dir(p) = FP!rek_scan_dir(p)
  BY <1>1, <1>2, <1>7 DEF F!rek_scan_dir, FP!rek_scan_dir, F!Found, FP!Found
<1>9. \A f, G : F!Only(f, G) = FP!Only(f, G)
  BY DEF F!Only, FP!Only
<1> QED BY <1>1, <1>2, <1>3, <1>4, <1>5, <1>6, <1>8, <1>9

LEMMA FilesStep == [Next]_all => [FP!Next]_FP!fs_vars
<1>1. [Next]_all => [F!Next]_fvars
  BY DEF Next, all
<1>2. F!RemoveEntry => FP!RemoveEntry
  BY SameScan DEF F!RemoveEntry, FP!RemoveEntry
<1>3. F!RemoveEnds => FP!RemoveEnds
  BY DEF F!RemoveEnds, FP!RemoveEnds
<1>4. \A p \in Path : F!rek_make_dir(p) => FP!rek_make_dir(p)
  BY SameScan DEF F!rek_make_dir, FP!rek_make_dir
<1>5. \A p \in Path : F!path_bind(p) => FP!path_bind(p)
  BY SameScan DEF F!path_bind, FP!path_bind
<1>6. \A p \in Path : F!fs_remove(p) => FP!fs_remove(p)
  BY SameScan DEF F!fs_remove, FP!fs_remove
<1>7. \A p \in Path : F!Other(p) => FP!Other(p)
  BY SameScan DEF F!Other, FP!Other, F!Kind, FP!Kind
<1>8. F!Next => FP!Next
  BY <1>2, <1>3, <1>4, <1>5, <1>6, <1>7 DEF F!Next, FP!Next
<1> QED BY <1>1, <1>8 DEF fvars, FP!fs_vars

LEMMA FilesSpec == Spec => [](FP!TypeOK /\ FP!RemovesBelow)
<1>1. Init => FP!Init
  BY DEF Init, F!Init, FP!Init
<1>2. Spec => FP!Spec
  BY <1>1, FilesStep, PTL DEF Spec, FP!Spec
<1>3. FP!Spec => [](FP!TypeOK /\ FP!RemovesBelow)
  BY FilesAssumption, PathsOfInstance, FP!RemovalStaysBelow
<1> QED BY <1>2, <1>3, PTL

\* filemgr: fs_remove takes what is in the folder, of what readdir knows, and nothing
\* outside of it.
THEOREM RemovalsStayBelow == Spec => []RemovesBelow
<1>1. FP!RemovesBelow => RemovesBelow
  BY SameScan DEF FP!RemovesBelow, F!RemovesBelow, RemovesBelow
<1> QED BY <1>1, FilesSpec, PTL

----------------------------------------------------------------------------
(* Sockets, and waits with kqueue.                                         *)

KP == INSTANCE SocketsProofs

\* The instances of the component and of its theorems have the same operators.
LEMMA SameSockets ==
  /\ K!Socket = KP!Socket /\ K!Object = KP!Object
  /\ \A class : K!SocketType(class) = KP!SocketType(class)
  /\ \A s : K!Tuned(s) = KP!Tuned(s) /\ K!reusable(s) = KP!reusable(s)
  /\ \A type, addr, peer : K!Opened(type, addr, peer) = KP!Opened(type, addr, peer)
  /\ K!Free = KP!Free /\ K!NextFd = KP!NextFd
<1>1. K!Socket = KP!Socket /\ K!Object = KP!Object
  BY DEF K!Socket, KP!Socket, K!Object, KP!Object, K!Option, KP!Option, K!Class, KP!Class
<1>2. \A class : K!SocketType(class) = KP!SocketType(class)
  BY DEF K!SocketType, KP!SocketType
<1>3. \A s : K!Tuned(s) = KP!Tuned(s) /\ K!reusable(s) = KP!reusable(s)
  BY DEF K!Tuned, KP!Tuned, K!keepalive, KP!keepalive, K!reusable, KP!reusable, K!nodelay, KP!nodelay,
         K!nonblocking, KP!nonblocking, K!socktype, KP!socktype
<1>4. \A type, addr, peer : K!Opened(type, addr, peer) = KP!Opened(type, addr, peer)
  BY DEF K!Opened, KP!Opened
<1>5. K!Free = KP!Free /\ K!NextFd = KP!NextFd
  BY DEF K!Free, KP!Free, K!NextFd, KP!NextFd
<1> QED BY <1>1, <1>2, <1>3, <1>4, <1>5

LEMMA SameHelpers ==
  /\ \A type : K!create_socket(type) = KP!create_socket(type)
  /\ \A class, fd, on : K!connector_adapter(class, fd, on) = KP!connector_adapter(class, fd, on)
  /\ \A class, fd : K!inet_adapter(class, fd) = KP!inet_adapter(class, fd)
  /\ \A c, p, ok : K!UdpConnected(c, p, ok) = KP!UdpConnected(c, p, ok)
  /\ \A G, f, addr, ok : K!peer_bind(G, f, addr, ok) = KP!peer_bind(G, f, addr, ok)
  /\ \A G, f, addr, ok : K!path_bind(G, f, addr, ok) = KP!path_bind(G, f, addr, ok)
  /\ \A f, addr, ok : K!NotBound(f, addr, ok) = KP!NotBound(f, addr, ok)
<1>1. \A type : K!create_socket(type) = KP!create_socket(type)
  BY SameSockets DEF K!create_socket, KP!create_socket
<1>2. \A class, fd : K!inet_adapter(class, fd) = KP!inet_adapter(class, fd)
  BY DEF K!inet_adapter, KP!inet_adapter
<1>3. \A class, fd, on : K!connector_adapter(class, fd, on) = KP!connector_adapter(class, fd, on)
  BY <1>2 DEF K!connector_adapter, KP!connector_adapter, K!socket_peerinfo, KP!socket_peerinfo
<1>4. \A c, p, ok : K!UdpConnected(c, p, ok) = KP!UdpConnected(c, p, ok)
  BY DEF K!UdpConnected, KP!UdpConnected, K!reset_connect_, KP!reset_connect_
<1>5. \A G, f, addr, ok : K!Bound(G, f, addr, ok) = KP!Bound(G, f, addr, ok)
  BY SameSockets DEF K!Bound, KP!Bound
<1>6. \A G, f, addr, ok : K!peer_bind(G, f, addr, ok) = KP!peer_bind(G, f, addr, ok)
  BY <1>5 DEF K!peer_bind, KP!peer_bind
<1>7. \A G, f, addr, ok : K!path_bind(G, f, addr, ok) = KP!path_bind(G, f, addr, ok)
  BY <1>5 DEF K!path_bind, KP!path_bind
<1>8. \A f, addr, ok : K!NotBound(f, addr, ok) = KP!NotBound(f, addr, ok)
  BY DEF K!NotBound, KP!NotBound
<1> QED BY <1>1, <1>2, <1>3, <1>4, <1>6, <1>7, <1>8

LEMMA SocketsStep == [Next]_all => [KP!Next]_KP!kvars
<1>1. [Next]_all => [K!Next]_kvars
  BY DEF Next, all
<1>2. \A f \in Number : K!Handshake(f) => KP!Handshake(f)
  BY DEF K!Handshake, KP!Handshake
<1>3. \A class : \A a \in Adapter : K!Create(a, class) => KP!Create(a, class)
  BY SameSockets, SameHelpers DEF K!Create, KP!Create
<1>4. \A a \in Adapter : K!Release(a) => KP!Release(a)
  BY DEF K!Release, KP!Release
<1>5. \A a \in Adapter : K!Connected(a) => KP!Connected(a)
  BY DEF K!Connected, KP!Connected
<1>6. \A a \in Adapter : (K!Listen(a) => KP!Listen(a)) /\ (K!ListenEnds(a) => KP!ListenEnds(a))
  BY DEF K!Listen, KP!Listen, K!ListenEnds, KP!ListenEnds
<1>7. \A a \in Adapter : K!AcceptSlot(a) => KP!AcceptSlot(a)
  BY SameSockets, SameHelpers
     DEF K!AcceptSlot, KP!AcceptSlot, K!tcp_connector_of, KP!tcp_connector_of, K!uds_connector_of, KP!uds_connector_of
<1>8. ASSUME NEW a \in Adapter, NEW t \in Caller, NEW p \in Addr
      PROVE  K!tcp_connect(a, t, p) = KP!tcp_connect(a, t, p)
  BY Zenon DEF K!tcp_connect, KP!tcp_connect
<1>9. \A a \in Adapter, p \in Addr : K!Accept(a, p) => KP!Accept(a, p)
  BY SameSockets DEF K!Accept, KP!Accept
<1>10. ASSUME NEW a \in Adapter, NEW b \in Adapter, NEW p \in Addr, K!HandOver(a, b, p)
       PROVE  KP!HandOver(a, b, p)
  <2> DEFINE l == adapter[a]
             i == K!udp_connector_of(l.fd)
             made == K!create_socket("udp")
             given(ok) == [so EXCEPT ![l.fd] = [i.sock EXCEPT !.peer = IF ok THEN p ELSE @]]
             G(ok) == IF made[2] = None THEN given(ok) ELSE [given(ok) EXCEPT ![made[2]] = made[1][made[2]]]
  <2>1. /\ l # None /\ l.listening > 0 /\ l.class = "udp_listener" /\ l.fd # None /\ adapter[b] = None
        /\ \E ok, bound \in BOOLEAN :
             /\ adapter' = [adapter EXCEPT ![b] = K!UdpConnected(i.obj, p, ok), ![a].fd = made[2]]
             /\ so' = K!peer_bind(G(ok), made[2], l.bind_slot, bound)
             /\ excused' = [excused EXCEPT ![a] = @ \cup (IF made[2] = None \/ ~bound THEN {"unbound"} ELSE {})]
        /\ UNCHANGED <<taken, dialer>>
    BY <1>10 DEF K!HandOver, K!bind_slot_
  <2>2. i = KP!udp_connector_of(l.fd)
    BY SameSockets, SameHelpers DEF K!udp_connector_of, KP!udp_connector_of
  <2>3. made = KP!create_socket("udp")
    BY SameHelpers
  <2> HIDE DEF i, made
  <2>4. PICK ok \in BOOLEAN, bound \in BOOLEAN :
          /\ adapter' = [adapter EXCEPT ![b] = K!UdpConnected(i.obj, p, ok), ![a].fd = made[2]]
          /\ so' = K!peer_bind(G(ok), made[2], l.bind_slot, bound)
          /\ excused' = [excused EXCEPT ![a] = @ \cup (IF made[2] = None \/ ~bound THEN {"unbound"} ELSE {})]
    BY <2>1
  <2>5. /\ K!peer_bind(G(ok), made[2], l.bind_slot, bound) = KP!peer_bind(G(ok), made[2], l.bind_slot, bound)
        /\ K!UdpConnected(i.obj, p, ok) = KP!UdpConnected(i.obj, p, ok)
    BY SameHelpers, Zenon
  <2>6. /\ adapter' = [adapter EXCEPT ![b] = KP!UdpConnected(i.obj, p, ok), ![a].fd = made[2]]
        /\ so' = KP!peer_bind(G(ok), made[2], l.bind_slot, bound)
        /\ excused' = [excused EXCEPT ![a] = @ \cup (IF made[2] = None \/ ~bound THEN {"unbound"} ELSE {})]
    BY <2>4, <2>5, Zenon
  <2> QED BY <2>1, <2>2, <2>3, <2>6, Zenon DEF KP!HandOver, KP!bind_slot_
<1>11. \A a \in Adapter, p \in Here \cup {None} : K!Bind(a, p) => KP!Bind(a, p)
  BY SameHelpers DEF K!Bind, KP!Bind, K!connector_bind, KP!connector_bind,
     K!tcp_connector_bind, KP!tcp_connector_bind, K!udp_connector_bind, KP!udp_connector_bind,
     K!tcp_listener_bind, KP!tcp_listener_bind, K!uds_listener_bind, KP!uds_listener_bind,
     K!udp_listener_bind, KP!udp_listener_bind
<1>12. \A a \in Adapter, p \in Addr \cup {None} : K!udp_connect(a, p) => KP!udp_connect(a, p)
  BY SameHelpers DEF K!udp_connect, KP!udp_connect
<1>13. K!Next => KP!Next
  BY <1>2, <1>3, <1>4, <1>5, <1>6, <1>7, <1>8, <1>9, <1>10, <1>11, <1>12
     DEF K!Next, KP!Next, K!tcp_connector, KP!tcp_connector, K!tcp_listener, KP!tcp_listener,
     K!uds_connector, KP!uds_connector, K!uds_listener, KP!uds_listener,
     K!udp_connector, KP!udp_connector, K!udp_listener, KP!udp_listener
<1> QED BY <1>1, <1>13 DEF kvars, KP!kvars

LEMMA SocketsSpec ==
  Spec => [](KP!TypeOK /\ KP!OneOwner /\ KP!NeverBlocks /\ KP!ReachedIsPeer /\ KP!ListenerStays)
<1>1. Init => KP!Init
  BY DEF Init, K!Init, KP!Init
<1>2. Spec => KP!Spec
  BY <1>1, SocketsStep, PTL DEF Spec, KP!Spec
<1>3. KP!Distinct
  BY SocketsAssumption, SameSockets DEF KP!Distinct
<1>4. KP!Spec => [](KP!TypeOK /\ KP!OneOwner /\ KP!NeverBlocks /\ KP!ReachedIsPeer /\ KP!ListenerStays)
  BY <1>3, KP!SocketsAreOwned
<1> QED BY <1>2, <1>4, PTL

LEMMA KqueueSpec == Spec => []KQ!WaitersAreArmed /\ []KQ!TypeOK
<1>1. Init => KQ!init
  BY DEF Init
<1>2. [Next]_all => [KQ!Next]_KQ!kq_vars
  BY DEF Next, all, wvars, KQ!kq_vars
<1> QED BY <1>1, <1>2, KqueueWaits, WaitsHaveTypes, PTL DEF Spec, KQ!Spec

----------------------------------------------------------------------------
(* Addresses.                                                              *)

LEMMA Powers ==
  /\ A!Pow2 \in [Nat -> Nat] /\ A!Pow2[0] = 1
  /\ \A n \in Nat : A!Pow2[n + 1] = 2 * A!Pow2[n]
<1> DEFINE s == [i \in Nat |-> 2 * i]
           G(p) == [n \in Nat |-> IF n = 0 THEN 1 ELSE 2 * p[n - 1]]
<1>1. s \in [Nat -> Nat] /\ 1 \in Nat
  OBVIOUS
<1> HIDE DEF s
<1>2. PICK f \in [Nat -> Nat] : Iterates(f, 1, s)
  BY <1>1, Recursion
<1>3. \A n \in Nat : f[n + 1] = 2 * f[n]
  BY <1>2 DEF s, Iterates
<1>4. ASSUME NEW n \in Nat PROVE f[n] = IF n = 0 THEN 1 ELSE 2 * f[n - 1]
  <2>1. n # 0 => n - 1 \in Nat /\ (n - 1) + 1 = n
    OBVIOUS
  <2> QED BY <1>2, <1>3, <2>1 DEF Iterates
<1>5. f = G(f)
  BY <1>4
<1>6. A!Pow2 = G(A!Pow2)
  BY <1>5 DEF A!Pow2
<1> DEFINE p == A!Pow2
<1>7. p[0] = 1 /\ \A n \in Nat : n # 0 => p[n] = 2 * p[n - 1]
  BY <1>6
<1> HIDE DEF p, G
<1>8. \A n \in Nat : p[n + 1] = 2 * p[n]
  <2> TAKE n \in Nat
  <2>1. n + 1 \in Nat /\ n + 1 # 0 /\ (n + 1) - 1 = n
    OBVIOUS
  <2> QED BY <1>7, <2>1
<1> DEFINE D == {n \in Nat : p[n] \in Nat}
<1>9. D \subseteq Nat /\ 0 \in D /\ \A n \in D : n + 1 \in D
  BY <1>7, <1>8
<1> HIDE DEF D
<1>10. D = Nat
  BY <1>9, Induction
<1>11. p = [n \in Nat |-> p[n]]
  BY <1>6 DEF p, G
<1>12. p \in [Nat -> Nat]
  BY <1>10, <1>11 DEF D
<1> QED BY <1>7, <1>8, <1>12 DEF p

LEMMA PowersMultiply ==
  /\ \A n \in Nat : A!Pow2[n] \in Nat \ {0}
  /\ \A m, n \in Nat : A!Pow2[m + n] = A!Pow2[m] * A!Pow2[n]
<1> DEFINE p(n) == A!Pow2[n]
<1>1. p(0) = 1 /\ \A n \in Nat : p(n) \in Nat /\ p(n + 1) = 2 * p(n)
  BY Powers
<1> HIDE DEF p
<1> DEFINE D == {n \in Nat : p(n) # 0}
<1>2. D \subseteq Nat /\ 0 \in D /\ \A n \in D : n + 1 \in D
  BY <1>1
<1> HIDE DEF D
<1>3. D = Nat
  BY <1>2, Induction
<1>4. ASSUME NEW m \in Nat PROVE \A n \in Nat : p(m + n) = p(m) * p(n)
  <2> DEFINE G == {n \in Nat : p(m + n) = p(m) * p(n)}
  <2>1. 0 \in G
    BY <1>1
  <2>2. ASSUME NEW n \in G PROVE n + 1 \in G
    <3>1. m + (n + 1) = (m + n) + 1 /\ m + n \in Nat /\ n \in Nat
      OBVIOUS
    <3>2. p(m + (n + 1)) = 2 * (p(m) * p(n)) /\ p(n + 1) = 2 * p(n) /\ p(m) \in Nat /\ p(n) \in Nat
      BY <1>1, <3>1
    <3>3. \A c, d \in Nat : 2 * (c * d) = c * (2 * d)
      OBVIOUS
    <3> QED BY <3>1, <3>2, <3>3
  <2>3. G \subseteq Nat /\ \A n \in G : n + 1 \in G
    BY <2>2
  <2> HIDE DEF G
  <2>4. G = Nat
    BY <2>1, <2>3, Induction
  <2> QED BY <2>4 DEF G
<1> QED BY <1>1, <1>3, <1>4 DEF p, D

\* The last digit of a number in base b, taken away and put back.
LEMMA Take ==
  ASSUME NEW b \in Nat \ {0}, NEW c \in Nat, NEW x \in Nat, x < b * c
  PROVE  x \div b \in Nat /\ x % b \in 0..(b - 1) /\ x = (x % b) + b * (x \div b) /\ x \div b < c
<1>1. x \div b \in Nat /\ x % b \in 0..(b - 1) /\ x = (x % b) + b * (x \div b)
  OBVIOUS
<1>2. x \div b < c
  OBVIOUS
<1> QED BY <1>1, <1>2

LEMMA PutBack ==
  ASSUME NEW b \in Nat \ {0}, NEW c \in Nat, NEW q \in Nat, q < c, NEW r \in 0..(b - 1)
  PROVE  (r + b * q) \div b = q /\ (r + b * q) % b = r /\ r + b * q \in Nat /\ r + b * q < b * c
<1>1. (r + b * q) \div b = q /\ (r + b * q) % b = r
  OBVIOUS
<1>2. b * q + b <= b * c
  OBVIOUS
<1> QED BY <1>1, <1>2

LEMMA OctetType ==
  /\ A!B \in Nat \ {0}
  /\ A!Pow2[A!Width] = A!B * (A!B * (A!B * A!B))
<1>1. A!B \in Nat \ {0}
  BY PowersMultiply, AddressAssumption DEF A!B
<1>2. A!Width = Bits + (Bits + (Bits + Bits))
  BY AddressAssumption DEF A!Width
<1>3. Bits + Bits \in Nat /\ Bits + (Bits + Bits) \in Nat
  BY AddressAssumption
<1>4. A!Pow2[Bits + (Bits + (Bits + Bits))] = A!Pow2[Bits] * A!Pow2[Bits + (Bits + Bits)]
  BY <1>3, PowersMultiply, AddressAssumption
<1>5. A!Pow2[Bits + (Bits + Bits)] = A!Pow2[Bits] * A!Pow2[Bits + Bits]
  BY <1>3, PowersMultiply, AddressAssumption
<1>6. A!Pow2[Bits + Bits] = A!Pow2[Bits] * A!Pow2[Bits]
  BY PowersMultiply, AddressAssumption
<1> QED BY <1>1, <1>2, <1>4, <1>5, <1>6 DEF A!B

\* The numbers an address can be.
Numbers == 0..(A!Pow2[A!Width] - 1)

LEMMA Quads ==
  /\ \A ip \in A!Ip : ip[1] \in A!Octet /\ ip[2] \in A!Octet /\ ip[3] \in A!Octet /\ ip[4] \in A!Octet
  /\ \A w, x, y, z \in A!Octet : <<w, x, y, z>> \in A!Ip
  /\ \A ip \in A!Ip : ip = <<ip[1], ip[2], ip[3], ip[4]>> /\ A!Turned(ip) = <<ip[4], ip[3], ip[2], ip[1]>>
<1>1. \A ip \in A!Ip : ip[1] \in A!Octet /\ ip[2] \in A!Octet /\ ip[3] \in A!Octet /\ ip[4] \in A!Octet
  BY DEF A!Ip
<1>2. \A w, x, y, z \in A!Octet : <<w, x, y, z>> \in A!Ip
  BY DEF A!Ip
<1>3. ASSUME NEW ip \in A!Ip PROVE ip = <<ip[1], ip[2], ip[3], ip[4]>>
  BY DEF A!Ip
<1>4. ASSUME NEW ip \in A!Ip PROVE A!Turned(ip) = <<ip[4], ip[3], ip[2], ip[1]>>
  <2> DEFINE w == ip[1]
             x == ip[2]
             y == ip[3]
             z == ip[4]
  <2>0. ip = <<w, x, y, z>>
    BY <1>3
  <2> HIDE DEF w, x, y, z
  <2>1. Len(ip) = 4 /\ DOMAIN ip = 1..4
    BY <2>0
  <2>2. A!Turned(ip) = [i \in 1..4 |-> ip[5 - i]]
    BY <2>1 DEF A!Turned
  <2> QED BY <2>2
<1> QED BY <1>1, <1>2, <1>3, <1>4

LEMMA AddressOfNumber ==
  ASSUME NEW n \in Numbers
  PROVE  A!ip_of(n) \in A!Ip /\ A!uint32(A!ip_of(n)) = n
<1> DEFINE b == A!B
           b2 == b * b
           b3 == b * b2
           n2 == n \div b
           n3 == n2 \div b
           n4 == n3 \div b
<1>1. b \in Nat \ {0} /\ n \in Nat /\ n < b * b3
  BY OctetType, PowersMultiply, AddressAssumption DEF Numbers, A!Width
<1> HIDE DEF b
<1>2. b \in Nat /\ b2 \in Nat /\ b3 \in Nat
  BY <1>1
<1> HIDE DEF b2, b3
<1>3. n2 \in Nat /\ n % b \in 0..(b - 1) /\ n = (n % b) + b * n2 /\ n2 < b3
  BY <1>1, <1>2, Take
<1> HIDE DEF n2
<1>4. n2 < b * b2
  BY <1>3 DEF b3
<1>5. n3 \in Nat /\ n2 % b \in 0..(b - 1) /\ n2 = (n2 % b) + b * n3 /\ n3 < b2
  BY <1>1, <1>2, <1>3, <1>4, Take
<1> HIDE DEF n3
<1>6. n3 < b * b
  BY <1>5 DEF b2
<1>7. n4 \in Nat /\ n3 % b \in 0..(b - 1) /\ n3 = (n3 % b) + b * n4 /\ n4 < b
  BY <1>1, <1>2, <1>5, <1>6, Take
<1> HIDE DEF n4
<1>8. n4 \in 0..(b - 1) /\ n4 % b = n4
  BY <1>1, <1>7
<1>9. A!ip_of(n) = <<n % b, n2 % b, n3 % b, n4>>
  BY <1>8 DEF A!ip_of, b, n2, n3, n4
<1>10. A!ip_of(n) \in A!Ip
  BY <1>3, <1>5, <1>7, <1>8, <1>9, Quads DEF A!Octet, b
<1>11. A!uint32(A!ip_of(n)) = (n % b) + b * ((n2 % b) + b * ((n3 % b) + b * n4))
  BY <1>9 DEF A!uint32, b
<1> QED BY <1>3, <1>5, <1>7, <1>10, <1>11

LEMMA NumberOfAddress ==
  ASSUME NEW ip \in A!Ip
  PROVE  A!uint32(ip) \in Numbers /\ A!ip_of(A!uint32(ip)) = ip
<1> DEFINE b == A!B
           b2 == b * b
           b3 == b * b2
           n4 == ip[4]
           n3 == ip[3] + b * n4
           n2 == ip[2] + b * n3
           n == ip[1] + b * n2
<1>1. b \in Nat \ {0} /\ A!Pow2[A!Width] = b * b3
  BY OctetType
<1>2. ip[1] \in 0..(b - 1) /\ ip[2] \in 0..(b - 1) /\ ip[3] \in 0..(b - 1) /\ ip[4] \in 0..(b - 1)
  BY Quads DEF A!Octet
<1>3. /\ A!uint32(ip) = n
      /\ A!ip_of(n) = <<n % b, (n \div b) % b, ((n \div b) \div b) % b, (((n \div b) \div b) \div b) % b>>
  BY DEF A!uint32, A!ip_of
<1> HIDE DEF b
<1>4. b \in Nat /\ b2 \in Nat /\ b3 \in Nat
  BY <1>1
<1>5. n4 \in Nat /\ n4 < b /\ n4 % b = n4
  BY <1>1, <1>2
<1> HIDE DEF b2, b3, n4
<1>6. n3 \div b = n4 /\ n3 % b = ip[3] /\ n3 \in Nat /\ n3 < b * b
  BY <1>1, <1>2, <1>4, <1>5, PutBack
<1> HIDE DEF n3
<1>7. n3 < b2
  BY <1>6 DEF b2
<1>8. n2 \div b = n3 /\ n2 % b = ip[2] /\ n2 \in Nat /\ n2 < b * b2
  BY <1>1, <1>2, <1>4, <1>6, <1>7, PutBack
<1> HIDE DEF n2
<1>9. n2 < b3
  BY <1>8 DEF b3
<1>10. n \div b = n2 /\ n % b = ip[1] /\ n \in Nat /\ n < b * b3
  BY <1>1, <1>2, <1>4, <1>8, <1>9, PutBack
<1> HIDE DEF n
<1>11. A!ip_of(n) = <<ip[1], ip[2], ip[3], ip[4]>>
  BY <1>3, <1>5, <1>6, <1>8, <1>10 DEF n4
<1>12. n \in Numbers
  BY <1>1, <1>4, <1>10 DEF Numbers
<1> QED BY <1>3, <1>11, <1>12, Quads

LEMMA Turning ==
  ASSUME NEW ip \in A!Ip
  PROVE  /\ A!Turned(ip) \in A!Ip /\ A!Turned(A!Turned(ip)) = ip
         /\ A!Value(ip) = A!uint32(A!Turned(ip)) /\ A!Value(ip) \in Numbers
         /\ A!uint32(ip) = 0 <=> A!Value(ip) = 0
<1>1. A!Turned(ip) = <<ip[4], ip[3], ip[2], ip[1]>> /\ A!Turned(ip) \in A!Ip
  BY Quads
<1>2. A!Turned(A!Turned(ip)) = ip
  <2> DEFINE t == A!Turned(ip)
  <2>1. t \in A!Ip /\ t[1] = ip[4] /\ t[2] = ip[3] /\ t[3] = ip[2] /\ t[4] = ip[1]
    BY <1>1
  <2> HIDE DEF t
  <2>2. A!Turned(t) = <<t[4], t[3], t[2], t[1]>>
    BY <2>1, Quads
  <2> QED BY <2>1, <2>2, Quads DEF t
<1>3. A!Value(ip) = A!uint32(A!Turned(ip))
  BY NumberOfAddress DEF A!Value, A!ntohl
<1>4. A!Value(ip) \in Numbers
  BY <1>1, <1>3, NumberOfAddress
<1> DEFINE z == <<0, 0, 0, 0>>
<1>5. z \in A!Ip /\ A!uint32(z) = 0 /\ A!Turned(z) = z
  <2>1. A!B \in Nat \ {0} /\ 0 \in A!Octet
    BY OctetType DEF A!Octet
  <2>2. z \in A!Ip
    BY <2>1, Quads
  <2>3. A!Turned(z) = <<z[4], z[3], z[2], z[1]>>
    BY <2>2, Quads
  <2>4. z[4] = 0 /\ z[3] = 0 /\ z[2] = 0 /\ z[1] = 0
    OBVIOUS
  <2> QED BY <2>1, <2>2, <2>3, <2>4 DEF A!uint32
<1> HIDE DEF z
<1>6. A!uint32(ip) = 0 => A!Value(ip) = 0
  <2> SUFFICES ASSUME A!uint32(ip) = 0 PROVE A!Value(ip) = 0
    OBVIOUS
  <2>1. ip = A!ip_of(A!uint32(ip)) /\ z = A!ip_of(A!uint32(z))
    BY <1>5, NumberOfAddress
  <2> QED BY <1>3, <1>5, <2>1
<1>7. A!Value(ip) = 0 => A!uint32(ip) = 0
  <2> SUFFICES ASSUME A!Value(ip) = 0 PROVE A!uint32(ip) = 0
    OBVIOUS
  <2>1. A!Turned(ip) = A!ip_of(A!uint32(A!Turned(ip))) /\ z = A!ip_of(A!uint32(z))
    BY <1>1, <1>5, NumberOfAddress
  <2>2. A!Turned(ip) = z
    BY <1>3, <1>5, <2>1
  <2> QED BY <1>2, <1>5, <2>2
<1> QED BY <1>1, <1>2, <1>3, <1>4, <1>6, <1>7

LEMMA AddressAt ==
  ASSUME NEW n \in Numbers
  PROVE  A!ip_of(A!htonl(n)) \in A!Ip /\ A!Value(A!ip_of(A!htonl(n))) = n
<1> DEFINE ip == A!ip_of(n)
<1>1. ip \in A!Ip /\ A!uint32(ip) = n
  BY AddressOfNumber
<1>2. A!htonl(n) = A!uint32(A!Turned(ip))
  BY DEF A!htonl, A!ntohl
<1> HIDE DEF ip
<1>3. A!Turned(ip) \in A!Ip /\ A!Turned(A!Turned(ip)) = ip
  BY <1>1, Turning
<1>4. A!ip_of(A!htonl(n)) = A!Turned(ip)
  BY <1>2, <1>3, NumberOfAddress
<1>5. A!Value(A!Turned(ip)) = A!uint32(A!Turned(A!Turned(ip)))
  BY <1>3, Turning
<1> QED BY <1>1, <1>3, <1>4, <1>5

\* The numbers that agree in all but the digits below p.
LEMMA Blocks ==
  ASSUME NEW p \in Nat \ {0}, NEW q \in Nat, NEW v \in Nat, v < p * q
  PROVE  /\ (v \div p) * p \in Nat /\ (v \div p) * p <= v
         /\ (v \div p) * p + p - 1 \in Nat /\ (v \div p) * p + p - 1 < p * q
         /\ (((v \div p) * p) \div p) * p = (v \div p) * p
         /\ \A x \in Nat : (v \div p) * p <= x /\ x <= (v \div p) * p + p - 1 <=> x \div p = v \div p
<1> DEFINE k == v \div p
<1>1. k \in Nat /\ k < q /\ v = (v % p) + p * k /\ v % p \in 0..(p - 1)
  BY Take
<1> HIDE DEF k
<1>2. k * p = p * k /\ k * p \in Nat /\ k * p <= v
  BY <1>1
<1>3. p * k + p <= p * q
  BY <1>1
<1>4. 0 \in 0..(p - 1) /\ (0 + p * k) \div p = k
  BY <1>1, PutBack
<1>5. ASSUME NEW x \in Nat PROVE k * p <= x /\ x <= k * p + p - 1 <=> x \div p = k
  <2>1. x \div p \in Nat /\ x = (x % p) + p * (x \div p) /\ x % p \in 0..(p - 1)
    OBVIOUS
  <2>2. x \div p = k => k * p <= x /\ x <= k * p + p - 1
    BY <1>1, <1>2, <2>1
  <2>3. ASSUME k * p <= x, x <= k * p + p - 1 PROVE x \div p = k
    <3>1. x - p * k \in 0..(p - 1) /\ x = (x - p * k) + p * k
      BY <1>1, <1>2, <2>3
    <3>2. \A r \in 0..(p - 1) : (r + p * k) \div p = k
      BY <1>1, PutBack
    <3> QED BY <3>1, <3>2
  <2> QED BY <2>2, <2>3
<1>6. (k * p) \div p = k
  BY <1>2, <1>4
<1> QED BY <1>1, <1>2, <1>3, <1>5, <1>6 DEF k

LEMMA MaskRange ==
  ASSUME NEW ip \in A!Ip, NEW m \in 1..A!Width, A!uint32(ip) # 0,
         NEW r, r = A!parse_mask(ip, m)
  PROVE  /\ r.low \in A!Ip /\ r.high \in A!Ip /\ r.mask = m
         /\ \A i \in A!Ip : A!isIpInRange(r, i) <=>
              A!Value(i) \div A!Pow2[A!Width - m] = A!Value(ip) \div A!Pow2[A!Width - m]
         /\ A!uint32(r.low) # 0 => A!parse_mask(r.low, r.mask) = r
<1> DEFINE p == A!Pow2[A!Width - m]
           q == A!Pow2[m]
           v == A!Value(ip)
           low == (v \div p) * p
           high == low + p - 1
<1>1. A!Width \in Nat /\ m \in Nat /\ A!Width - m \in Nat /\ (A!Width - m) + m = A!Width /\ m # 0 /\ ~(m > A!Width)
  BY AddressAssumption DEF A!Width
<1>2. p \in Nat \ {0} /\ q \in Nat /\ A!Pow2[A!Width] = p * q /\ p * q \in Nat
  <2>1. p \in Nat \ {0} /\ q \in Nat
    BY <1>1, PowersMultiply
  <2>2. A!Pow2[(A!Width - m) + m] = p * q
    BY <1>1, PowersMultiply, Zenon
  <2> HIDE DEF p, q
  <2> QED BY <1>1, <2>1, <2>2
<1>3. v \in Nat /\ v < p * q
  BY <1>2, Turning DEF Numbers
<1>4. \A i \in A!Ip : A!parse_mask(i, m) =
        IF A!uint32(i) = 0 THEN [low |-> A!NoIp, high |-> A!NoIp, mask |-> 0]
        ELSE [low |-> A!ip_of(A!htonl((A!Value(i) \div p) * p)),
              high |-> A!ip_of(A!htonl((A!Value(i) \div p) * p + p - 1)), mask |-> m]
  <2> TAKE i \in A!Ip
  <2>1. (IF m = 0 THEN (IF Undefined THEN A!Width ELSE 0) ELSE A!Width - m) = A!Width - m
    BY <1>1
  <2>2. CASE A!uint32(i) = 0
    BY <2>2 DEF A!parse_mask
  <2>3. CASE A!uint32(i) # 0
    BY <1>1, <2>1, <2>3, Zenon DEF A!parse_mask, A!Value
  <2> QED BY <2>2, <2>3
<1>5. r = [low |-> A!ip_of(A!htonl(low)), high |-> A!ip_of(A!htonl(high)), mask |-> m]
  <2> HIDE DEF p
  <2> QED BY <1>4
<1> HIDE DEF p, q, v
<1>6. /\ low \in Nat /\ low <= v /\ high \in Nat /\ high < p * q /\ (low \div p) * p = low
      /\ \A x \in Nat : low <= x /\ x <= high <=> x \div p = v \div p
  BY <1>2, <1>3, Blocks
<1> HIDE DEF low, high
<1>7. low \in Numbers /\ high \in Numbers
  BY <1>2, <1>3, <1>6 DEF Numbers
<1>8. /\ r.low \in A!Ip /\ r.high \in A!Ip /\ r.mask = m
      /\ A!Value(r.low) = low /\ A!Value(r.high) = high
  BY <1>5, <1>7, AddressAt
<1>9. \A i \in A!Ip : A!isIpInRange(r, i) <=> low <= A!Value(i) /\ A!Value(i) <= high
  BY <1>8 DEF A!isIpInRange, A!at_most, A!Value
<1>10. \A i \in A!Ip : A!Value(i) \in Nat
  BY <1>1, PowersMultiply, Turning DEF Numbers
<1>11. \A i \in A!Ip : A!isIpInRange(r, i) <=> A!Value(i) \div p = v \div p
  BY <1>6, <1>9, <1>10
<1>12. ASSUME A!uint32(r.low) # 0 PROVE A!parse_mask(r.low, m) = r
  <2>1. A!parse_mask(r.low, m) = [low |-> A!ip_of(A!htonl((low \div p) * p)),
                                  high |-> A!ip_of(A!htonl((low \div p) * p + p - 1)), mask |-> m]
    BY <1>4, <1>8, <1>12
  <2>2. (low \div p) * p + p - 1 = high
    BY <1>6 DEF high
  <2> QED BY <1>5, <1>6, <2>1, <2>2
<1> QED BY <1>8, <1>11, <1>12 DEF p, v

LEMMA BetweenRange ==
  ASSUME NEW a \in A!Ip, NEW b \in A!Ip
  PROVE  /\ A!uint32(a) # 0 /\ ~A!less(b, a) =>
              \A ip \in A!Ip : A!isIpInRange(A!parse_upto(a, b), ip) <=> A!Within(ip, a, b)
         /\ \A ip \in A!Ip : A!isIpInRange(A!make_range(a, b), ip) <=> A!Within(ip, a, b) \/ A!Within(ip, b, a)
<1>1. \A ip \in A!Ip : A!Value(ip) \in Nat
  BY AddressAssumption, PowersMultiply, Turning DEF Numbers, A!Width
<1>2. \A c, d \in A!Ip : A!less(c, d) <=> A!Value(c) < A!Value(d)
  BY DEF A!less, A!Value
<1>3. \A r : \A ip \in A!Ip : A!isIpInRange(r, ip) <=> A!Value(r.low) <= A!Value(ip) /\ A!Value(ip) <= A!Value(r.high)
  BY DEF A!isIpInRange, A!at_most, A!Value
<1>4. ASSUME A!uint32(a) # 0, ~A!less(b, a) PROVE A!parse_upto(a, b).low = a /\ A!parse_upto(a, b).high = b
  <2>1. A!Value(a) # 0 /\ A!Value(b) # 0
    BY <1>1, <1>2, <1>4, Turning
  <2>2. A!uint32(b) # 0
    BY <2>1, Turning
  <2> QED BY <1>4, <2>2 DEF A!parse_upto
<1>5. /\ A!make_range(a, b).low = IF A!less(a, b) THEN a ELSE b
      /\ A!make_range(a, b).high = IF A!less(a, b) THEN b ELSE a
  BY DEF A!make_range
<1>6. A!uint32(a) # 0 /\ ~A!less(b, a) =>
        \A ip \in A!Ip : A!isIpInRange(A!parse_upto(a, b), ip) <=> A!Within(ip, a, b)
  BY <1>3, <1>4 DEF A!Within
<1>7. \A ip \in A!Ip : A!isIpInRange(A!make_range(a, b), ip) <=> A!Within(ip, a, b) \/ A!Within(ip, b, a)
  <2> TAKE ip \in A!Ip
  <2>1. CASE A!less(a, b)
    BY <1>1, <1>2, <1>3, <1>5, <2>1 DEF A!Within
  <2>2. CASE ~A!less(a, b)
    BY <1>1, <1>2, <1>3, <1>5, <2>2 DEF A!Within
  <2> QED BY <2>1, <2>2
<1> QED BY <1>6, <1>7

LEMMA PairMask ==
  ASSUME NEW a \in A!Ip, NEW b \in A!Ip, NEW r, r = A!make_range(a, b), r.mask < A!Width
  PROVE  A!Value(r.low) \div A!Pow2[A!Width - r.mask - 1] # A!Value(r.high) \div A!Pow2[A!Width - r.mask - 1]
<1> DEFINE u == A!Value(r.low)
           v == A!Value(r.high)
           n == A!BitCount(v - u)
<1>1. /\ r.low = IF A!less(a, b) THEN a ELSE b
      /\ r.high = IF A!less(a, b) THEN b ELSE a
      /\ r.mask = A!Width - n
  BY DEF A!make_range, A!Value
<1>2. u \in Numbers /\ v \in Numbers
  BY <1>1, Turning
<1>3. A!Width \in Nat /\ A!Pow2[A!Width] \in Nat /\ \A i \in Nat : A!Pow2[i] \in Nat \ {0}
  BY AddressAssumption, PowersMultiply DEF A!Width
<1>4. u <= v
  <2>1. A!Value(a) \in Nat /\ A!Value(b) \in Nat
    BY <1>3, Turning DEF Numbers
  <2>2. A!less(a, b) <=> A!Value(a) < A!Value(b)
    BY DEF A!less, A!Value
  <2> QED BY <1>1, <2>1, <2>2
<1> DEFINE d == v - u
           D == {i \in Nat : d < A!Pow2[i]}
<1>5. d \in Nat /\ d < A!Pow2[A!Width] /\ u \in Nat /\ v \in Nat
  BY <1>2, <1>3, <1>4 DEF Numbers
<1> HIDE DEF u, v
<1>6. PICK i \in D : \A j \in D : i <= j
  <2>1. A!Width \in D /\ D \subseteq Nat
    BY <1>3, <1>5
  <2> HIDE DEF D
  <2> QED BY <2>1, Least
<1>7. i \in 0..A!Width /\ d < A!Pow2[i] /\ (i = 0 \/ d >= A!Pow2[i - 1])
  <2>1. i \in Nat /\ d < A!Pow2[i] /\ i <= A!Width
    BY <1>3, <1>5, <1>6
  <2>2. CASE i # 0
    <3>1. i - 1 \in Nat /\ ~(i <= i - 1)
      BY <2>1, <2>2
    <3>2. ~(d < A!Pow2[i - 1])
      BY <1>6, <3>1
    <3> QED BY <1>3, <1>5, <2>1, <3>1, <3>2
  <2> QED BY <1>3, <2>1, <2>2
<1> HIDE DEF d
<1>8. A!BitCount(d) \in 0..A!Width /\ (A!BitCount(d) = 0 \/ d >= A!Pow2[A!BitCount(d) - 1])
  BY <1>7, Zenon DEF A!BitCount
<1>9. n \in 0..A!Width /\ (n = 0 \/ d >= A!Pow2[n - 1])
  BY <1>8 DEF d
<1> HIDE DEF n
<1>10. n # 0 /\ n - 1 \in Nat /\ A!Width - r.mask - 1 = n - 1
  BY <1>1, <1>3, <1>9
<1> DEFINE p == A!Pow2[n - 1]
<1>11. p \in Nat \ {0} /\ v >= u + p
  BY <1>3, <1>5, <1>9, <1>10 DEF d
<1> HIDE DEF p
<1>12. u \div p # v \div p
  <2>1. /\ u \div p \in Nat /\ u = (u % p) + p * (u \div p) /\ u % p \in 0..(p - 1)
        /\ v \div p \in Nat /\ v = (v % p) + p * (v \div p) /\ v % p \in 0..(p - 1)
    BY <1>5, <1>11
  <2> QED BY <1>5, <1>11, <2>1
<1> QED BY <1>10, <1>12 DEF p, u, v

LEMMA PeerComesBack ==
  ASSUME NEW ip \in A!Ip, NEW n \in Nat
  PROVE  A!peer_of(A!sockaddr_in(A!parse_peer(ip, n))) = A!parse_peer(ip, n)
<1> DEFINE h == A!Pow2[PortBits]
           x == n % A!PortSize
           y == x \div h
<1>1. h \in Nat \ {0} /\ A!PortSize = h * h
  <2>1. 2 * PortBits = PortBits + PortBits
    BY AddressAssumption
  <2> QED BY <2>1, AddressAssumption, PowersMultiply DEF A!PortSize
<1> HIDE DEF h
<1>2. x \in Nat /\ x < h * h
  <2>1. h * h \in Nat \ {0}
    BY <1>1
  <2> QED BY <1>1, <2>1
<1> HIDE DEF x
<1>3. y \in Nat /\ y < h /\ x % h \in 0..(h - 1) /\ x = (x % h) + h * y
  BY <1>1, <1>2, Take
<1> HIDE DEF y
<1>4. A!htons(x) = (x % h) * h + y /\ (x % h) * h + y = y + h * (x % h)
  BY <1>1, <1>3 DEF A!htons, h, y
<1>5. y \in 0..(h - 1) /\ x % h \in Nat /\ x % h < h /\ h \in Nat
  BY <1>1, <1>3
<1> DEFINE r == x % h
           z == y + h * r
<1> HIDE DEF r
<1>6. r \in Nat /\ r < h
  BY <1>5 DEF r
<1>7. z \div h = r /\ z % h = y
  BY <1>1, <1>5, <1>6, PutBack
<1>8. A!htons(z) = (z % h) * h + (z \div h)
  BY DEF A!htons, h
<1> HIDE DEF z
<1>9. A!htons(z) = x
  <2>1. y * h + r = r + h * y
    BY <1>1, <1>3, <1>6
  <2> QED BY <1>3, <1>7, <1>8, <2>1 DEF r
<1>10. A!htons(x) = z
  BY <1>4 DEF z, r
<1>11. A!ip_of(A!uint32(ip)) = ip
  BY NumberOfAddress
<1>12. A!parse_peer(ip, n) = [ip |-> ip, port |-> x]
  BY DEF A!parse_peer, x
<1> QED BY <1>9, <1>10, <1>11, <1>12 DEF A!peer_of, A!sockaddr_in

LEMMA OrdersHold ==
  ASSUME NEW ip \in A!Ip, NEW here \in A!Hosts, NEW there \in A!Hosts
  PROVE  /\ A!n2h(A!h2n(ip, here), there) = IF here = there THEN ip ELSE A!Turned(ip)
         /\ A!be2h(A!h2be(ip, here), there) = IF here = there THEN ip ELSE A!Turned(ip)
         /\ A!le2h(A!h2le(ip, here), there) = IF here = there THEN ip ELSE A!Turned(ip)
         /\ A!h2n(ip, here) = A!h2be(ip, here)
<1>1. A!Turned(A!Turned(ip)) = ip
  BY Turning
<1> QED BY <1>1 DEF A!Hosts, A!n2h, A!h2n, A!be2h, A!h2be, A!le2h, A!h2le

LEMMA RangesHold == A!TypeOK => A!RangesAreExact
<1> SUFFICES ASSUME A!TypeOK PROVE A!RangesAreExact
  OBVIOUS
<1>1. from \in A!Ip /\ to \in A!Ip /\ mask \in 0..A!Width /\ port \in Nat /\ A!Width \in Nat
  BY AddressAssumption, PowersMultiply DEF A!TypeOK, A!Width
<1>2. ASSUME mask > 0, A!uint32(from) # 0, NEW r, r = A!parse_mask(from, mask)
      PROVE  /\ \A ip \in A!Ip : A!isIpInRange(r, ip) <=>
                  A!Value(ip) \div A!Pow2[A!Width - mask] = A!Value(from) \div A!Pow2[A!Width - mask]
             /\ A!uint32(r.low) # 0 => A!parse_mask(A!str(r)[1], A!str(r)[2]) = r
  <2>1. mask \in 1..A!Width
    BY <1>1, <1>2
  <2>2. A!str(r)[1] = r.low /\ A!str(r)[2] = r.mask
    BY DEF A!str
  <2> QED BY <1>1, <1>2, <2>1, <2>2, MaskRange
<1>3. ASSUME A!uint32(from) # 0, ~A!less(to, from)
      PROVE  \A ip \in A!Ip : A!isIpInRange(A!parse_upto(from, to), ip) <=> A!Within(ip, from, to)
  BY <1>1, <1>3, BetweenRange
<1>4. ASSUME NEW r, r = A!make_range(from, to)
      PROVE  /\ \A ip \in A!Ip : A!isIpInRange(r, ip) <=> A!Within(ip, from, to) \/ A!Within(ip, to, from)
             /\ r.mask < A!Width => A!Value(r.low) \div A!Pow2[A!Width - r.mask - 1]
                                      # A!Value(r.high) \div A!Pow2[A!Width - r.mask - 1]
  BY <1>1, <1>4, BetweenRange, PairMask
<1>5. A!peer_of(A!sockaddr_in(A!parse_peer(from, port))) = A!parse_peer(from, port)
  BY <1>1, PeerComesBack
<1> QED BY <1>1, <1>2, <1>3, <1>4, <1>5, OrdersHold DEF A!RangesAreExact

LEMMA TextAndAddresses ==
  /\ Init => S!TypeOK /\ A!TypeOK
  /\ S!TypeOK /\ A!TypeOK /\ [Next]_all => S!TypeOK' /\ A!TypeOK'
<1>1. [Next]_all => [S!Type]_text /\ [A!Next]_avars
  BY DEF Next, all
<1>2. S!Init => S!TypeOK
  BY TextAssumption DEF S!Init, S!TypeOK
<1>3. S!TypeOK /\ [S!Type]_text => S!TypeOK'
  BY TextAssumption DEF S!Type, S!TypeOK
<1>4. A!Init => A!TypeOK
  <2>1. 0 \in A!Octet /\ 0 \in 0..A!Width /\ 0 \in 0..A!Pow2[2 * PortBits + 1]
    <3>1. 2 * PortBits + 1 \in Nat /\ A!Width \in Nat
      BY AddressAssumption DEF A!Width
    <3>2. A!Pow2[2 * PortBits + 1] \in Nat
      BY <3>1, PowersMultiply
    <3>3. 0 \in A!Octet
      BY OctetType DEF A!Octet
    <3> QED BY <3>1, <3>2, <3>3
  <2>2. [i \in 1..4 |-> 0] \in A!Ip
    BY <2>1 DEF A!Ip
  <2> QED BY <2>1, <2>2 DEF A!Init, A!TypeOK
<1>5. A!TypeOK /\ [A!Next]_avars => A!TypeOK'
  <2> SUFFICES ASSUME A!TypeOK, [A!Next]_avars PROVE A!TypeOK'
    OBVIOUS
  <2>1. CASE UNCHANGED avars
    BY <2>1 DEF avars, A!TypeOK
  <2>2. CASE A!Next
    <3>1. \A n \in 1..A!Pow2[2 * PortBits + 1] : n \in 0..A!Pow2[2 * PortBits + 1]
      OBVIOUS
    <3> QED BY <2>2, <3>1 DEF A!Next, A!MakeUpto, A!MakePair, A!MakeMask, A!MakePeer, A!TypeOK
  <2> QED BY <2>1, <2>2
<1> QED BY <1>1, <1>2, <1>3, <1>4, <1>5 DEF Init

\* net and the kqueue backend: every open descriptor has one owner, and every owner an open
\* descriptor of its type that does not block, however they are created, dialed, listened on,
\* adopted, handed over and released; a connector is where the call that connected it was told,
\* unless another had given up or asked for another address, and a udp listener at its address;
\* a task that waits has its filter armed, unless another task left the wait for it; and, for
\* octets of any size, a range has the addresses it names, and socket addresses are read as
\* they were written.
THEOREM NetStaysSound == Spec => []NetIsSound
<1>1. KP!OneOwner /\ KP!NeverBlocks /\ KP!ReachedIsPeer /\ KP!ListenerStays
      => K!OneOwner /\ K!NeverBlocks /\ K!ReachedIsPeer /\ K!ListenerStays
  BY SameSockets DEF KP!OneOwner, KP!NeverBlocks, KP!ReachedIsPeer, KP!ListenerStays, K!OneOwner, K!NeverBlocks,
     K!ReachedIsPeer, K!ListenerStays, K!Owned, KP!Owned, K!Live, KP!Live, K!InTasks, KP!InTasks, K!Doubt, KP!Doubt
<1> QED BY <1>1, SocketsSpec, KqueueSpec, TextAndAddresses, RangesHold, PTL DEF Spec, NetIsSound

----------------------------------------------------------------------------
(* Types.                                                                  *)

\* The invariants of the parts of LibraryParts, with what their types need besides.
PartTypes ==
  /\ LInv /\ LTypes /\ TInv /\ EInv /\ ETypes /\ DInv /\ order \in Seq(Item)
  /\ C!TypeOK /\ QInv /\ PInv /\ HInv

LEMMA PartTypesInit == Init => PartTypes
<1> SUFFICES ASSUME Init PROVE PartTypes
  OBVIOUS
<1>1. LInv /\ LTypes
  <2>1. L!Init => LInv
    BY LruAssumption DEF L!Init, LInv, Once, L!Keys
  <2>2. L!Init => LTypes
    <3>1. MaxSize \in 0..MaxSize
      BY LruAssumption
    <3> QED BY <3>1 DEF L!Init, LTypes
  <2> QED BY <2>1, <2>2 DEF Init
<1>2. TInv /\ QInv /\ HInv
  BY TInit, RequestInit, HInit DEF Init
<1>3. EInv /\ ETypes
  BY EventAssumption DEF Init, E!Init, EInv, ETypes
<1>4. DInv /\ order \in Seq(Item)
  BY DependAssumption DEF Init, O!Init, DInv, ItemsOf, O!OrderIsSound
<1>5. C!TypeOK
  BY StackAssumption DEF Init, C!Init, C!TypeOK
<1>6. PInv
  BY DEF Init, P!Init, PInv, Done, WasGiven
<1> QED BY <1>1, <1>2, <1>3, <1>4, <1>5, <1>6 DEF PartTypes

LEMMA PartTypesStep == PartTypes /\ [Next]_all => PartTypes'
<1>1. [Next]_all => [L!Next]_lvars /\ [T!Next]_tvars /\ [E!Next]_evars /\ [O!Next]_ovars /\ [Q!Next]_qvars /\ [P!Next]_pvars
  BY DEF Next, all
<1> QED BY <1>1, HandlesStep, StackStep, CacheStep, CacheTypesStep, TreeStep, EventStep, EventTypesStep, DependStep, OrderStep,
           StackTypes, RequestStep, ArgsStep, HStep DEF PartTypes

\* Containers, caches, codecs, waits and utilities keep the types they state, whatever the
\* calls and their order.
THEOREM LibraryTypeCorrect == Spec => []TypeOK
<1>1. PartTypes => /\ L!TypeOK /\ T!TypeOK /\ E!TypeOK /\ O!TypeOK /\ C!TypeOK /\ Q!TypeOK /\ P!TypeOK
                   /\ H!TypeOK
  <2>1. TInv => T!TypeOK
    BY DEF TInv, T!TypeOK
  <2>2. DInv /\ order \in Seq(Item) => O!TypeOK
    BY DEF DInv, O!TypeOK
  <2>3. PInv => P!TypeOK
    BY DEF PInv, P!TypeOK, Pair, Value
  <2> QED BY <2>1, <2>2, <2>3, CacheTypes, TriggerTypes DEF PartTypes, QInv, HInv
<1>2. FP!TypeOK => F!TypeOK
  BY SameScan DEF F!TypeOK, FP!TypeOK, F!IsTree, FP!IsTree, F!Kind, FP!Kind
<1>3. KP!TypeOK => K!TypeOK
  BY SameSockets DEF K!TypeOK, KP!TypeOK, K!Excuse, KP!Excuse, K!Doubt, KP!Doubt
<1> QED BY <1>1, <1>2, <1>3, PartTypesInit, PartTypesStep, TextAndAddresses, FilesSpec, SocketsSpec, KqueueSpec,
           PTL DEF Spec, TypeOK
=============================================================================
