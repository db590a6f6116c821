----------------------------- MODULE MCServices -----------------------------
(***************************************************************************)
(* Small instances of the services on top of the loop, for TLC: a          *)
(* behaviour is one of Injector, Redis, Streams, Acceptors or Datagrams,   *)
(* and the variables of the others keep their initial values.              *)
(***************************************************************************)
EXTENDS Naturals, Sequences

CONSTANTS None, Call, Quit, Tasks, Fd, PipeMax,
          Cmd, Keeper, Conn, Greeting, MaxPing, MaxMessage, MaxSubscribe,
          Bytes, SndBuf, BufSize, Package,
          Worker, MaxDial, Peer, MaxData, Packages

ASSUME InjectorAssumption ==
  /\ Quit \in Call /\ Fd \subseteq Nat /\ PipeMax \in Nat
  /\ None \notin Call \cup Fd /\ "ij" \notin Call
ASSUME RedisAssumption ==
  /\ None \notin Conn \cup Keeper /\ Keeper \cap {"user", "inner", "sub"} = {}
  /\ Cmd \cap {"AUTH", "SELECT"} = {}
ASSUME StreamsAssumption ==
  Bytes \in Nat /\ SndBuf \in Nat \ {0} /\ BufSize \in Nat \ {0} /\ Package \in Nat \ {0}
ASSUME AcceptorsAssumption ==
  MaxDial \in Nat /\ None \notin {"tcp", "uds"} \X {"waiting", "woken", "broken", "gone"}
ASSUME DatagramsAssumption ==
  MaxData \in Nat /\ Packages \in Nat /\ None \notin Seq(Peer \X (0..MaxData))

VARIABLES
  part,
  pc, kind, out, late, owner, mail, io, ropen, pipe, ij, ready, work, running, refused,
  conn, link, asked, wire, at, on, woken, cancelled, keeper, subscribe_task, queue, last,
  answer, released, crashed, trouble, counts,
  connected, dialing, peer, inbox, sent, outbox, got, pump, chunk, pumpCancelled, gaveUp,
  backlog, dialed, worker, slots, served,
  udp, mode, listened, lsock, sentTo, csock, gotBy, writing

I == INSTANCE Injector
R == INSTANCE Redis
S == INSTANCE Streams WITH cancelled <- pumpCancelled
A == INSTANCE Acceptors
D == INSTANCE Datagrams WITH sent <- sentTo, got <- gotBy

ivars == <<pc, kind, out, late, owner, mail, io, ropen, pipe, ij, ready, work, running, refused>>
rvars == <<conn, link, asked, wire, at, on, woken, cancelled, keeper, subscribe_task, queue, last,
           answer, released, crashed, trouble, counts>>
svars == <<connected, dialing, peer, inbox, sent, outbox, got, pump, chunk, pumpCancelled, gaveUp>>
avars == <<backlog, dialed, worker, slots, served>>
dvars == <<udp, mode, listened, lsock, sentTo, csock, gotBy, writing>>
all == <<part, ivars, rvars, svars, avars, dvars>>

Init ==
  /\ part \in {"injector", "redis", "streams", "acceptors", "datagrams"}
  /\ I!Init /\ R!Init /\ S!Init /\ A!Init /\ D!Init

\* The part, and that the variables of the others do not change.
InInjector == part = "injector" /\ UNCHANGED <<part, rvars, svars, avars, dvars>>
InRedis == part = "redis" /\ UNCHANGED <<part, ivars, svars, avars, dvars>>
InStreams == part = "streams" /\ UNCHANGED <<part, ivars, rvars, avars, dvars>>
InAcceptors == part = "acceptors" /\ UNCHANGED <<part, ivars, rvars, svars, dvars>>
InDatagrams == part = "datagrams" /\ UNCHANGED <<part, ivars, rvars, svars, avars>>

Next ==
  \/ InInjector /\ I!Next
  \/ InRedis /\ R!Next
  \/ InStreams /\ S!Next
  \/ InAcceptors /\ A!Next
  \/ InDatagrams /\ D!Next

Spec == Init /\ [][Next]_all

\* The fairness of every part; conditions of different parts share a WF, as no behaviour
\* takes steps of two parts.
FairSpec ==
  /\ Spec
  /\ WF_all(\/ InInjector /\ I!LoopStep
            \/ InRedis /\ R!Dialed
            \/ InStreams /\ S!Pump("i")
            \/ InAcceptors /\ A!AcceptSlot)
  /\ WF_all(\/ InRedis /\ R!Greeted
            \/ InStreams /\ S!Pump("o")
            \/ InAcceptors /\ A!Incoming("tcp"))
  /\ WF_all(\/ InRedis /\ R!InnerStarts
            \/ InAcceptors /\ A!Incoming("uds"))
  /\ WF_all(InRedis /\ R!InnerReturns)
  /\ \A c \in Call : /\ WF_all(InInjector /\ I!Write(c)) /\ WF_all(InInjector /\ I!Answered(c))
                     /\ WF_all(InInjector /\ I!TimesOut(c)) /\ WF_all(InInjector /\ I!EndWork(c))
  /\ \A k \in Keeper : WF_all(InRedis /\ R!TestReturns(k))
  /\ \A c \in Conn : WF_all(InRedis /\ R!Answer(c)) /\ WF_all(InRedis /\ R!Event(c))
  /\ \A w \in Worker : WF_all(InAcceptors /\ A!Step(w))

\* Every part has the types it states.
TypeOK == I!TypeOK /\ R!TypeOK /\ S!TypeOK /\ A!TypeOK /\ D!TypeOK

\* A request starts at most once and never after it was refused; descriptors hold their
\* own answers while nobody gives up (Injector).
RequestsAreServed == I!RefusedNeverRuns /\ I!AnswersAreOwn

\* Requests start in the order in which they were written (Injector).
StartsInOrder == I!StartsInOrder

\* Callers that wait return while the loop has its pipe (Injector).
CallersReturn == I!CallersReturn

\* Queries have their own replies, and null or destroyed connectors are met only after
\* something has gone wrong (Redis).
QueriesAreSafe == R!AnswersAreOwn /\ R!CrashNeedsTrouble

\* A query returns (Redis).
QueryReturns == R!QueryReturns

\* What dup copies arrives in order, without a hole and to the end (Streams).
StreamsAreWhole == S!NoHole /\ S!EverythingArrives

\* Both tasks of dup end once a connection is closed or lost (Streams).
DupEnds == S!DupEnds

\* A connection is given to a slot while a task listens (Acceptors).
ConnectionServed == A!ConnectionServed

\* Connections are given to slots once and in order; what a udp connector reads begins
\* with a datagram of its peer (Acceptors, Datagrams).
ListenersKeepOrder == A!AcceptedOnce /\ D!FirstIsOwn
=============================================================================
