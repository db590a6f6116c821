----------------------------- MODULE Acceptors -----------------------------
(***************************************************************************)
(* The stream listeners of one loop: tcp_listener and uds_listener accept  *)
(* connections in a task of the listener and give each to a task that      *)
(* calls the slot.                                                         *)
(***************************************************************************)
EXTENDS Naturals, Sequences

CONSTANTS
  Worker,   \* the listening tasks: listen may be called more than once
  None,
  MaxDial   \* connections made to each listener

VARIABLES
  backlog,   \* the connections not accepted, by listener
  dialed,    \* how many there have been
  worker,    \* the listener and the state of each task
  slots,     \* the accepted connections whose task is due
  served     \* those whose slot has run

avars == <<backlog, dialed, worker, slots, served>>

Listener == {"tcp", "uds"}

TypeOK ==
  /\ backlog \in [Listener -> Seq(1..MaxDial)] /\ dialed \in [Listener -> 0..MaxDial]
  /\ worker \in [Worker -> (Listener \X {"waiting", "woken", "broken", "gone"}) \cup {None}]
  /\ slots \in Seq(Listener \X (1..MaxDial)) /\ served \in Seq(Listener \X (1..MaxDial))

Init ==
  /\ backlog = [l \in Listener |-> <<>>] /\ dialed = [l \in Listener |-> 0]
  /\ worker = [w \in Worker |-> None] /\ slots = <<>> /\ served = <<>>

\* listen: nothing keeps a second call from starting a second task.
Listen(w, l) ==
  /\ worker[w] = None
  /\ worker' = [worker EXCEPT ![w] = <<l, "waiting">>]
  /\ UNCHANGED <<backlog, dialed, slots, served>>

Dial(l) ==
  /\ dialed[l] < MaxDial
  /\ dialed' = [dialed EXCEPT ![l] = @ + 1]
  /\ backlog' = [backlog EXCEPT ![l] = Append(@, dialed[l] + 1)]
  /\ UNCHANGED <<worker, slots, served>>

\* Mutant: only the first connection is an event.
MutIncoming(l) ==
  /\ Len(backlog[l]) = 1 /\ \E w \in Worker : worker[w] = <<l, "waiting">>
  /\ worker' = [w \in Worker |-> IF worker[w] = <<l, "waiting">> THEN <<l, "woken">> ELSE worker[w]]
  /\ UNCHANGED <<backlog, dialed, slots, served>>

\* One event wakes every task that waits for the socket.
Incoming(l) ==
  /\ backlog[l] # <<>> /\ \E w \in Worker : worker[w] = <<l, "waiting">>
  /\ worker' = [w \in Worker |-> IF worker[w] = <<l, "waiting">> THEN <<l, "woken">> ELSE worker[w]]
  /\ UNCHANGED <<backlog, dialed, slots, served>>

\* The task is cancelled.
Cancel(w) ==
  /\ \E l \in Listener : /\ worker[w] = <<l, "waiting">>
                         /\ worker' = [worker EXCEPT ![w] = <<l, "broken">>]
  /\ UNCHANGED <<backlog, dialed, slots, served>>

\* Mutant: the last to come is accepted first.
MutAccept(l, n) ==
  /\ slots' = slots \o [i \in 1..n |-> <<l, backlog[l][n + 1 - i]>>]
  /\ backlog' = [backlog EXCEPT ![l] = SubSeq(@, n + 1, Len(@))]

\* n connections are accepted, each of which gets a task.
Accept(l, n) ==
  /\ slots' = slots \o [i \in 1..n |-> <<l, backlog[l][i]>>]
  /\ backlog' = [backlog EXCEPT ![l] = SubSeq(@, n + 1, Len(@))]

\* Any error of accept but EAGAIN ends the task.
AcceptAll(w, l) ==
  /\ worker[w] = <<l, "woken">>
  /\ \/ /\ Accept(l, Len(backlog[l]))
        /\ worker' = [worker EXCEPT ![w] = <<l, "waiting">>]
     \/ /\ \E n \in 0..Len(backlog[l]) : Accept(l, n)
        /\ worker' = [worker EXCEPT ![w] = <<l, "gone">>]
  /\ UNCHANGED <<dialed, served>>

AcceptBroken(w) ==
  /\ \E l \in Listener : /\ worker[w] = <<l, "broken">>
                         /\ worker' = [worker EXCEPT ![w] = <<l, "gone">>]
  /\ UNCHANGED <<backlog, dialed, slots, served>>

\* accept_slot with tcp_connector::create(fd) or uds_connector::create(fd)
AcceptSlot ==
  /\ slots # <<>>
  /\ served' = Append(served, Head(slots)) /\ slots' = Tail(slots)
  /\ UNCHANGED <<backlog, dialed, worker>>

tcp_accept(w) == AcceptAll(w, "tcp")
uds_accept(w) == AcceptAll(w, "uds")

Step(w) == tcp_accept(w) \/ uds_accept(w) \/ AcceptBroken(w)

Next ==
  \/ AcceptSlot
  \/ \E w \in Worker : \/ Cancel(w) \/ AcceptBroken(w) \/ tcp_accept(w) \/ uds_accept(w)
                       \/ \E l \in Listener : Listen(w, l)
  \/ \E l \in Listener : Dial(l) \/ Incoming(l)

Spec == Init /\ [][Next]_avars
\* The tasks of the loop run.
FairSpec == /\ Spec /\ WF_avars(AcceptSlot)
            /\ \A w \in Worker : WF_avars(Step(w))
            /\ \A l \in Listener : WF_avars(Incoming(l))

----------------------------------------------------------------------------
(* Properties.                                                             *)

\* What has been given to a slot or will be, in this order.
Given == served \o slots

\* However many tasks listen on one socket, every connection is given to one slot, once,
\* and in the order in which they came: the first n have been, the others still wait.
AcceptedOnce == \A l \in Listener : LET n == dialed[l] - Len(backlog[l]) IN
  /\ \A i \in DOMAIN backlog[l] : backlog[l][i] = n + i
  /\ \A c \in 1..n : \E i \in DOMAIN Given : Given[i] = <<l, c>>
  /\ \A i \in DOMAIN Given : Given[i][1] = l => Given[i][2] \in 1..n
  /\ \A i, j \in DOMAIN Given : i < j /\ Given[i][1] = l /\ Given[j][1] = l
                                  => Given[i][2] < Given[j][2]

Listens(w, l) == worker[w] \in {l} \X {"waiting", "woken", "broken"}

\* While a task listens, no connection is kept waiting: again and again, all are accepted
\* and their slots have run.
ConnectionServed == []<>(\A l \in Listener :
  (\E w \in Worker : Listens(w, l)) => backlog[l] = <<>> /\ slots = <<>>)
=============================================================================
