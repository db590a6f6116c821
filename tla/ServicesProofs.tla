--------------------------- MODULE ServicesProofs ---------------------------
(***************************************************************************)
(* What holds of the services on top of the loop: Injector, whose theorems *)
(* are those of InjectorProofs, Acceptors, Datagrams, Streams and Redis.   *)
(* Every theorem is one of MCServices, for every value of its constants: a *)
(* behaviour takes the steps of one service.                               *)
(***************************************************************************)
EXTENDS MCServices, SequenceTheorems, TLAPS

IP == INSTANCE InjectorProofs

----------------------------------------------------------------------------
(* Sequences, and the parts of a step.                                     *)

\* The elements of the first sequence, then those of the second.
LEMMA Joined ==
  ASSUME NEW C, NEW r \in Seq(C), NEW p \in Seq(C)
  PROVE  /\ r \o p \in Seq(C) /\ Len(r) \in Nat /\ Len(p) \in Nat
         /\ Len(r \o p) = Len(r) + Len(p)
         /\ DOMAIN (r \o p) = 1 .. (Len(r) + Len(p))
         /\ DOMAIN r = 1 .. Len(r) /\ DOMAIN p = 1 .. Len(p)
         /\ \A i \in 1 .. Len(r) : (r \o p)[i] = r[i]
         /\ \A i \in 1 .. Len(p) : (r \o p)[Len(r) + i] = p[i]
         /\ \A i \in 1 .. (Len(r) + Len(p)) :
              i \in 1 .. Len(r) \/ \E k \in 1 .. Len(p) : i = Len(r) + k
<1>1. /\ r \o p \in Seq(C) /\ Len(r) \in Nat /\ Len(p) \in Nat
      /\ Len(r \o p) = Len(r) + Len(p)
      /\ DOMAIN (r \o p) = 1 .. (Len(r) + Len(p))
      /\ DOMAIN r = 1 .. Len(r) /\ DOMAIN p = 1 .. Len(p)
      /\ \A i \in 1 .. Len(r) : (r \o p)[i] = r[i]
      /\ \A i \in 1 .. Len(p) : (r \o p)[Len(r) + i] = p[i]
  OBVIOUS
<1>2. ASSUME NEW i \in 1 .. (Len(r) + Len(p)), i \notin 1 .. Len(r)
      PROVE  \E k \in 1 .. Len(p) : i = Len(r) + k
  <2>1. i - Len(r) \in 1 .. Len(p) /\ i = Len(r) + (i - Len(r))
    BY <1>1, <1>2
  <2> QED BY <2>1
<1> QED BY <1>1, <1>2

LEMMA AppendToJoined ==
  ASSUME NEW C, NEW r \in Seq(C), NEW p \in Seq(C), NEW x \in C
  PROVE  r \o Append(p, x) = Append(r \o p, x)
<1>1. <<x>> \in Seq(C) /\ r \o p \in Seq(C)
  BY ConcatProperties
<1>2. Append(p, x) = p \o <<x>> /\ Append(r \o p, x) = (r \o p) \o <<x>>
  BY <1>1, AppendIsConcat
<1>3. (r \o p) \o <<x>> = r \o (p \o <<x>>)
  BY <1>1, ConcatAssociative
<1> QED BY <1>2, <1>3

LEMMA ThreeJoined ==
  \A C : \A p, q, r \in Seq(C) : p \o (q \o r) = (p \o q) \o r
BY ConcatAssociative

LEMMA HeadMoves ==
  ASSUME NEW C, NEW r \in Seq(C), NEW p \in Seq(C), p # <<>>
  PROVE  Append(r, Head(p)) \o Tail(p) = r \o p
<1>1. Head(p) \in C /\ Tail(p) \in Seq(C) /\ <<Head(p)>> \in Seq(C)
  BY HeadTailProperties
<1>2. p = <<Head(p)>> \o Tail(p)
  OBVIOUS
<1>3. Append(r, Head(p)) = r \o <<Head(p)>>
  BY <1>1, AppendIsConcat
<1>4. (r \o <<Head(p)>>) \o Tail(p) = r \o (<<Head(p)>> \o Tail(p))
  BY <1>1, ConcatAssociative
<1> QED BY <1>2, <1>3, <1>4

LEMMA CountedOn ==
  ASSUME NEW k \in Nat
  PROVE  Append([n \in 1..k |-> n], k + 1) = [n \in 1 .. k + 1 |-> n]
<1> DEFINE s == [n \in 1..k |-> n]
           t == [n \in 1 .. k + 1 |-> n]
<1>1. s \in Seq(Nat) /\ Len(s) = k /\ \A n \in 1..k : s[n] = n
  OBVIOUS
<1>2. t \in Seq(Nat) /\ Len(t) = k + 1 /\ \A n \in 1 .. k + 1 : t[n] = n
  OBVIOUS
<1> HIDE DEF s, t
<1>3. /\ Append(s, k + 1) \in Seq(Nat) /\ Len(Append(s, k + 1)) = k + 1
      /\ \A n \in 1..k : Append(s, k + 1)[n] = s[n]
      /\ Append(s, k + 1)[k + 1] = k + 1
  BY <1>1, AppendProperties
<1>4. \A n \in 1 .. k + 1 : Append(s, k + 1)[n] = t[n]
  BY <1>1, <1>2, <1>3
<1>5. Append(s, k + 1) = t
  BY <1>2, <1>3, <1>4, SeqEqual
<1> QED BY <1>5 DEF s, t

\* What follows the first n.
LEMMA Dropped ==
  ASSUME NEW C, NEW s \in Seq(C), NEW n \in 0 .. Len(s)
  PROVE  /\ SubSeq(s, n + 1, Len(s)) \in Seq(C)
         /\ Len(SubSeq(s, n + 1, Len(s))) = Len(s) - n
         /\ \A i \in 1 .. (Len(s) - n) : SubSeq(s, n + 1, Len(s))[i] = s[n + i]
<1>1. Len(s) \in Nat /\ \A i \in 1 .. Len(s) : s[i] \in C
  BY LenProperties, ElementOfSeq
<1>2. n + 1 \in Int /\ Len(s) \in Int /\ \A i \in n + 1 .. Len(s) : s[i] \in C
  BY <1>1
<1> DEFINE t == SubSeq(s, n + 1, Len(s))
<1>3. /\ t \in Seq(C)
      /\ Len(t) = IF n + 1 <= Len(s) THEN Len(s) - (n + 1) + 1 ELSE 0
      /\ \A i \in 1 .. Len(s) - (n + 1) + 1 : t[i] = s[(n + 1) + i - 1]
  <2> HIDE DEF t
  <2> QED BY <1>2, SubSeqProperties DEF t
<1> HIDE DEF t
<1>4. Len(t) = Len(s) - n
  BY <1>1, <1>3
<1>5. ASSUME NEW i \in 1 .. (Len(s) - n) PROVE t[i] = s[n + i]
  <2>1. i \in 1 .. Len(s) - (n + 1) + 1 /\ (n + 1) + i - 1 = n + i
    BY <1>1
  <2> QED BY <1>3, <2>1
<1> QED BY <1>3, <1>4, <1>5 DEF t

\* A step is one of a single part.
LEMMA Parts ==
  ASSUME [Next]_all
  PROVE  [A!Next]_avars /\ [D!Next]_dvars /\ [S!Next]_svars /\ [R!Next]_rvars
BY DEF Next, all, InInjector, InRedis, InStreams, InAcceptors, InDatagrams

----------------------------------------------------------------------------
(* Injector.                                                               *)

LEMMA InjectorDistinct == IP!Distinct
BY InjectorAssumption DEF IP!Distinct, IP!Self

\* The injector of MCServices is the one InjectorProofs is about.
LEMMA InjectorPart == Spec => IP!Spec
<1>1. Init => IP!Init
  BY DEF Init, I!Init, IP!Init
<1>2. I!Next => IP!Next
  BY DEF
      I!Ask, IP!Ask, I!LoopCall, IP!LoopCall, I!TaskCall, IP!TaskCall, I!LoopExit,
      IP!LoopExit, I!Write, IP!Write, I!Leave, IP!Leave, I!Answered, IP!Answered,
      I!Deadline, IP!Deadline, I!TimesOut, IP!TimesOut, I!CallerCancelled,
      IP!CallerCancelled, I!LeastFree, IP!LeastFree, I!Free, IP!Free, I!IsNext, IP!IsNext,
      I!IjWakes, IP!IjWakes, I!IjReads, IP!IjReads, I!CancelAll, IP!CancelAll, I!IjBroken,
      IP!IjBroken, I!DrainSelect, IP!DrainSelect, I!Post, IP!Post, I!Waits, IP!Waits,
      I!DrainOne, IP!DrainOne, I!IjCloses, IP!IjCloses, I!IjAtexit, IP!IjAtexit,
      I!StartWork, IP!StartWork, I!EndWork, IP!EndWork, I!WriteAnswer, IP!WriteAnswer,
      I!LoopStep, IP!LoopStep, I!CallerStep, IP!CallerStep, I!Next, IP!Next, I!callers,
      IP!callers, I!Kind, IP!Kind, I!Self, IP!Self, I!Leaving, IP!Leaving
<1>3. ASSUME [Next]_all PROVE [IP!Next]_(IP!vars)
  <2>1. CASE InInjector /\ I!Next
    BY <1>2, <2>1
  <2>2. CASE UNCHANGED ivars
    BY <2>2 DEF ivars, IP!vars, IP!callers
  <2> QED
    BY <1>3, <2>1, <2>2 DEF Next, all, InRedis, InStreams, InAcceptors, InDatagrams
<1> QED BY <1>1, <1>3, PTL DEF Spec, IP!Spec

\* sync_inject, inject_wait and async_inject: a request starts at most once, and not if
\* its caller was told that it is cancelled; and while nobody has given up, a
\* descriptor holds the answers to the call that has it open.
THEOREM InjectorServes == Spec => []RequestsAreServed
<1>1. IP!Spec => []IP!RefusedNeverRuns
  BY InjectorDistinct, IP!NeverAfterRefusal
<1>2. IP!Spec => []IP!AnswersAreOwn
  BY InjectorDistinct, IP!OwnAnswers
<1>3. IP!RefusedNeverRuns /\ IP!AnswersAreOwn => RequestsAreServed
  BY DEF IP!RefusedNeverRuns, IP!AnswersAreOwn, RequestsAreServed, I!RefusedNeverRuns,
         I!AnswersAreOwn
<1> QED BY <1>1, <1>2, <1>3, InjectorPart, PTL

\* The pipe and the ready list: requests start in the order in which they were written.
THEOREM InjectorKeepsOrder == Spec => StartsInOrder
<1>1. IP!Spec => IP!StartsInOrder
  BY InjectorDistinct, IP!RequestsStartInOrder
<1>2. IP!StartsInOrder => StartsInOrder
  BY DEF IP!StartsInOrder, StartsInOrder, I!StartsInOrder, IP!Before, I!Before, IP!vars, I!vars,
         IP!callers, I!callers
<1> QED BY <1>1, <1>2, InjectorPart, PTL

----------------------------------------------------------------------------
(* Acceptors.                                                              *)

Connection == A!Listener \X (1..MaxDial)

\* AcceptedOnce of the listener l: G has its first f connections, b those that follow.
InTurn(l, G, b, f) ==
  /\ \A i \in DOMAIN b : b[i] = f + i
  /\ \A c \in 1..f : \E i \in DOMAIN G : G[i] = <<l, c>>
  /\ \A i \in DOMAIN G : G[i][1] = l => G[i][2] \in 1..f
  /\ \A i, j \in DOMAIN G : i < j /\ G[i][1] = l /\ G[j][1] = l => G[i][2] < G[j][2]

AInv == A!TypeOK /\ A!AcceptedOnce

LEMMA AOnce ==
  A!AcceptedOnce <=>
    \A l \in A!Listener : InTurn(l, A!Given, backlog[l], dialed[l] - Len(backlog[l]))
BY DEF A!AcceptedOnce, InTurn

LEMMA TurnComes ==
  ASSUME NEW l, NEW G, NEW b \in Seq(Nat), NEW f \in Int, InTurn(l, G, b, f),
         NEW x \in Nat, x = f + (Len(b) + 1)
  PROVE  InTurn(l, G, Append(b, x), f)
<1> DEFINE c == Append(b, x)
<1>1. /\ Len(b) \in Nat /\ DOMAIN b = 1 .. Len(b)
      /\ c \in Seq(Nat) /\ Len(c) = Len(b) + 1
      /\ \A i \in 1 .. Len(b) : c[i] = b[i]
      /\ c[Len(b) + 1] = x
  BY AppendProperties, LenProperties
<1>2. DOMAIN c = 1 .. Len(b) + 1
  BY <1>1, LenProperties
<1> HIDE DEF c
<1>3. \A i \in DOMAIN c : i \in DOMAIN b \/ i = Len(b) + 1
  BY <1>1, <1>2
<1>4. \A i \in DOMAIN c : c[i] = f + i
  BY <1>1, <1>3 DEF InTurn
<1> QED BY <1>4 DEF InTurn, c

LEMMA TurnElsewhere ==
  ASSUME NEW l, NEW m, l # m, NEW C, NEW G \in Seq(C), NEW N \in Seq(C), NEW b, NEW f,
         \A i \in DOMAIN N : N[i][1] = l,
         InTurn(m, G, b, f)
  PROVE  InTurn(m, G \o N, b, f)
<1> DEFINE H == G \o N
<1>1. /\ DOMAIN G = 1 .. Len(G) /\ DOMAIN N = 1 .. Len(N)
      /\ DOMAIN H = 1 .. (Len(G) + Len(N))
      /\ Len(G) \in Nat /\ Len(N) \in Nat
      /\ \A i \in 1 .. Len(G) : H[i] = G[i]
      /\ \A i \in 1 .. Len(N) : H[Len(G) + i] = N[i]
      /\ \A i \in 1 .. (Len(G) + Len(N)) :
           i \in 1 .. Len(G) \/ \E k \in 1 .. Len(N) : i = Len(G) + k
  BY Joined
<1> HIDE DEF H
<1>2. \A i \in DOMAIN H : H[i][1] = m => i \in DOMAIN G /\ H[i] = G[i]
  <2> SUFFICES ASSUME NEW i \in DOMAIN H, H[i][1] = m PROVE i \in DOMAIN G /\ H[i] = G[i]
    OBVIOUS
  <2>1. i \in 1 .. Len(G) \/ \E k \in 1 .. Len(N) : i = Len(G) + k
    BY <1>1
  <2>2. ASSUME NEW k \in 1 .. Len(N) PROVE H[Len(G) + k][1] = l
    <3>1. H[Len(G) + k] = N[k] /\ k \in DOMAIN N
      BY <1>1
    <3> QED BY <3>1
  <2>3. i \in 1 .. Len(G)
    BY <2>1, <2>2
  <2> QED BY <1>1, <2>3
<1>3. \A i \in DOMAIN G : i \in DOMAIN H /\ H[i] = G[i]
  BY <1>1
<1> QED BY <1>2, <1>3 DEF InTurn, H

LEMMA TurnTaken ==
  ASSUME NEW l, NEW C, NEW G \in Seq(C), NEW N \in Seq(C), NEW f \in Nat, NEW b, NEW r,
         \A i \in DOMAIN N : N[i] = <<l, f + i>>,
         \A i \in DOMAIN r : r[i] = (f + Len(N)) + i,
         InTurn(l, G, b, f)
  PROVE  InTurn(l, G \o N, r, f + Len(N))
<1> DEFINE H == G \o N
           n == Len(N)
           g == Len(G)
<1>1. /\ DOMAIN G = 1 .. g /\ DOMAIN N = 1 .. n /\ DOMAIN H = 1 .. (g + n)
      /\ g \in Nat /\ n \in Nat
      /\ \A i \in 1 .. g : H[i] = G[i]
      /\ \A i \in 1 .. n : H[g + i] = N[i]
      /\ \A i \in 1 .. (g + n) : i \in 1 .. g \/ \E k \in 1 .. n : i = g + k
  BY Joined
<1> HIDE DEF H, n, g
<1>2. \A i \in 1 .. n : H[g + i] = <<l, f + i>>
  BY <1>1
<1>3. \A i \in DOMAIN r : r[i] = (f + n) + i
  BY DEF n
<1>4. /\ \A c \in 1..f : \E i \in 1 .. g : G[i] = <<l, c>>
      /\ \A i \in 1 .. g : G[i][1] = l => G[i][2] \in 1..f
      /\ \A i, j \in 1 .. g : i < j /\ G[i][1] = l /\ G[j][1] = l => G[i][2] < G[j][2]
  BY <1>1 DEF InTurn
<1>5. ASSUME NEW c \in 1 .. (f + n) PROVE \E i \in 1 .. (g + n) : H[i] = <<l, c>>
  <2>1. CASE c \in 1 .. f
    <3>1. PICK i \in 1 .. g : G[i] = <<l, c>>
      BY <1>4, <2>1
    <3>2. i \in 1 .. (g + n)
      BY <1>1
    <3> QED BY <1>1, <3>1, <3>2
  <2>2. CASE c \notin 1 .. f
    <3>1. c - f \in 1 .. n /\ f + (c - f) = c /\ g + (c - f) \in 1 .. (g + n)
      BY <1>1, <2>2
    <3>2. H[g + (c - f)] = <<l, f + (c - f)>>
      BY <1>2, <3>1
    <3> QED BY <3>1, <3>2
  <2> QED BY <2>1, <2>2
<1>6. ASSUME NEW i \in 1 .. (g + n), H[i][1] = l PROVE H[i][2] \in 1 .. (f + n)
  <2>1. CASE i \in 1 .. g
    <3>1. H[i][2] \in 1 .. f
      BY <1>1, <1>4, <1>6, <2>1
    <3> QED BY <1>1, <3>1
  <2>2. CASE i \notin 1 .. g
    <3>1. PICK k \in 1 .. n : i = g + k
      BY <1>1, <2>2
    <3>2. H[i] = <<l, f + k>>
      BY <1>2, <3>1
    <3>3. f + k \in 1 .. (f + n)
      BY <1>1
    <3> QED BY <3>2, <3>3
  <2> QED BY <2>1, <2>2
<1>7. ASSUME NEW i \in 1 .. (g + n), NEW j \in 1 .. (g + n), i < j, H[i][1] = l, H[j][1] = l
      PROVE  H[i][2] < H[j][2]
  <2>1. CASE j \in 1 .. g
    <3>1. i \in 1 .. g
      BY <1>1, <1>7, <2>1
    <3> QED BY <1>1, <1>4, <1>7, <2>1, <3>1
  <2>2. CASE j \notin 1 .. g
    <3>1. PICK k \in 1 .. n : j = g + k
      BY <1>1, <2>2
    <3>2. H[j][2] = f + k
      BY <1>2, <3>1
    <3>3. CASE i \in 1 .. g
      <4>1. H[i][2] \in 1 .. f
        BY <1>1, <1>4, <1>7, <3>3
      <4> QED BY <1>1, <3>2, <4>1
    <3>4. CASE i \notin 1 .. g
      <4>1. PICK h \in 1 .. n : i = g + h
        BY <1>1, <3>4
      <4>2. H[i][2] = f + h
        BY <1>2, <4>1
      <4>3. f + h < f + k
        BY <1>1, <1>7, <3>1, <4>1
      <4> QED BY <3>2, <4>2, <4>3
    <3> QED BY <3>3, <3>4
  <2> QED BY <2>1, <2>2
<1>8. InTurn(l, H, r, f + n)
  BY <1>1, <1>3, <1>5, <1>6, <1>7 DEF InTurn
<1> QED BY <1>8 DEF H, n

LEMMA AInit == A!Init => AInv
<1> SUFFICES ASSUME A!Init PROVE AInv
  OBVIOUS
<1>1. A!TypeOK
  BY AcceptorsAssumption DEF A!Init, A!TypeOK
<1>2. A!AcceptedOnce
  BY DEF A!Init, A!AcceptedOnce, A!Given
<1> QED BY <1>1, <1>2 DEF AInv

\* The steps that change no list.
LEMMA AWorkers ==
  ASSUME AInv, UNCHANGED <<backlog, dialed, slots, served>>,
         worker' \in [Worker -> (A!Listener \X {"waiting", "woken", "broken", "gone"}) \cup {None}]
  PROVE  AInv'
BY DEF AInv, A!TypeOK, A!AcceptedOnce, A!Given

\* No listener has accepted more than were made.
LEMMA ATypes ==
  ASSUME AInv, NEW l \in A!Listener
  PROVE  /\ backlog[l] \in Seq(Nat) /\ backlog[l] \in Seq(1..MaxDial)
         /\ Len(backlog[l]) \in Nat /\ DOMAIN backlog[l] = 1 .. Len(backlog[l])
         /\ dialed[l] \in 0..MaxDial /\ dialed[l] \in Nat
         /\ dialed[l] - Len(backlog[l]) \in Nat
         /\ served \in Seq(Connection) /\ slots \in Seq(Connection)
         /\ A!Given \in Seq(Connection)
<1>1. /\ backlog[l] \in Seq(1..MaxDial) /\ dialed[l] \in 0..MaxDial
      /\ served \in Seq(Connection) /\ slots \in Seq(Connection)
  BY DEF AInv, A!TypeOK, Connection
<1>2. 1..MaxDial \subseteq Nat /\ 0..MaxDial \subseteq Nat
  BY AcceptorsAssumption
<1>3. backlog[l] \in Seq(Nat)
  BY <1>1, <1>2, SeqMonotonic
<1>4. Len(backlog[l]) \in Nat /\ DOMAIN backlog[l] = 1 .. Len(backlog[l])
  BY <1>1, LenProperties
<1>5. A!Given \in Seq(Connection)
  BY <1>1, ConcatProperties DEF A!Given
<1>6. dialed[l] - Len(backlog[l]) \in Nat
  <2>1. CASE Len(backlog[l]) = 0
    BY <1>1, <1>2, <2>1
  <2>2. CASE Len(backlog[l]) # 0
    <3>1. 1 \in 1 .. Len(backlog[l])
      BY <1>4, <2>2
    <3>2. backlog[l][1] = (dialed[l] - Len(backlog[l])) + 1
      BY <1>4, <3>1, AOnce DEF AInv, InTurn
    <3>3. backlog[l][1] \in 1..MaxDial
      BY <1>1, <3>1, ElementOfSeq
    <3> QED BY <1>1, <1>2, <1>4, <3>2, <3>3
  <2> QED BY <2>1, <2>2
<1> QED BY <1>1, <1>2, <1>3, <1>4, <1>5, <1>6

LEMMA ADial ==
  ASSUME AInv, NEW l \in A!Listener, A!Dial(l)
  PROVE  AInv'
<1> DEFINE b == backlog[l]
           d == dialed[l]
           c == Append(b, d + 1)
<1>1. /\ b \in Seq(1..MaxDial) /\ b \in Seq(Nat) /\ d \in Nat /\ d - Len(b) \in Nat
      /\ Len(b) \in Nat /\ d < MaxDial
  BY ATypes DEF A!Dial
<1>2. d + 1 \in 1..MaxDial /\ d + 1 \in Nat /\ d + 1 = (d - Len(b)) + (Len(b) + 1)
  BY <1>1, AcceptorsAssumption
<1>3. c \in Seq(1..MaxDial) /\ Len(c) = Len(b) + 1
  BY <1>1, <1>2, AppendProperties
<1>4. InTurn(l, A!Given, c, d - Len(b))
  <2>1. InTurn(l, A!Given, b, d - Len(b))
    BY AOnce DEF AInv
  <2> HIDE DEF b, d
  <2> QED BY <1>1, <1>2, <2>1, TurnComes
<1> HIDE DEF c
<1>5. \A m \in A!Listener : /\ backlog'[m] = IF m = l THEN c ELSE backlog[m]
                            /\ dialed'[m] = IF m = l THEN d + 1 ELSE dialed[m]
  BY DEF A!Dial, AInv, A!TypeOK, c
<1>6. A!TypeOK'
  <2>1. backlog' \in [A!Listener -> Seq(1..MaxDial)]
    BY <1>3 DEF A!Dial, AInv, A!TypeOK, c
  <2>2. dialed' \in [A!Listener -> 0..MaxDial]
    <3>1. d + 1 \in 0..MaxDial
      BY <1>2, AcceptorsAssumption
    <3> QED BY <3>1 DEF A!Dial, AInv, A!TypeOK
  <2> QED BY <2>1, <2>2 DEF A!Dial, AInv, A!TypeOK
<1>7. A!Given' = A!Given
  BY DEF A!Given, A!Dial
<1>8. (d + 1) - Len(c) = d - Len(b)
  BY <1>1, <1>3
<1>9. ASSUME NEW m \in A!Listener
      PROVE  InTurn(m, A!Given, backlog'[m], dialed'[m] - Len(backlog'[m]))
  <2>1. CASE m = l
    BY <1>4, <1>5, <1>8, <2>1
  <2>2. CASE m # l
    BY <1>5, <2>2, AOnce DEF AInv
  <2> QED BY <2>1, <2>2
<1>10. A!AcceptedOnce'
  BY <1>7, <1>9 DEF A!AcceptedOnce, InTurn
<1> QED BY <1>6, <1>10 DEF AInv

\* The first of the accepted connections gets its slot: the order stays.
LEMMA ASlot ==
  ASSUME AInv, A!AcceptSlot
  PROVE  AInv'
<1> A!TypeOK /\ A!AcceptedOnce
  BY DEF AInv
<1>1. /\ slots \in Seq(Connection) /\ served \in Seq(Connection) /\ slots # <<>>
      /\ served' = Append(served, Head(slots)) /\ slots' = Tail(slots)
      /\ UNCHANGED <<backlog, dialed, worker>>
  BY DEF A!TypeOK, A!AcceptSlot, Connection
<1>2. /\ Head(slots) \in Connection /\ Tail(slots) \in Seq(Connection)
      /\ <<Head(slots)>> \in Seq(Connection) /\ Append(served, Head(slots)) \in Seq(Connection)
  BY <1>1, HeadTailProperties, AppendProperties
<1>3. slots = <<Head(slots)>> \o Tail(slots)
  BY <1>1
<1>4. A!Given' = A!Given
  <2>1. served' = served \o <<Head(slots)>>
    BY <1>1, <1>2, AppendIsConcat
  <2>2. (served \o <<Head(slots)>>) \o Tail(slots) = served \o (<<Head(slots)>> \o Tail(slots))
    BY <1>1, <1>2, ConcatAssociative
  <2> QED BY <1>1, <1>3, <2>1, <2>2 DEF A!Given
<1>5. A!TypeOK'
  BY <1>1, <1>2 DEF A!TypeOK, Connection
<1>6. A!AcceptedOnce'
  BY <1>1, <1>4 DEF A!AcceptedOnce
<1> QED BY <1>5, <1>6 DEF AInv

\* The first n of those that wait are accepted, in their order.
LEMMA AAccept ==
  ASSUME AInv, NEW l \in A!Listener, NEW n \in 0 .. Len(backlog[l]), A!Accept(l, n),
         UNCHANGED <<dialed, served>>,
         worker' \in [Worker -> (A!Listener \X {"waiting", "woken", "broken", "gone"}) \cup {None}]
  PROVE  AInv'
<1> DEFINE b == backlog[l]
           N == [i \in 1..n |-> <<l, b[i]>>]
           r == SubSeq(b, n + 1, Len(b))
           f == dialed[l] - Len(b)
<1>1. /\ b \in Seq(1..MaxDial) /\ Len(b) \in Nat /\ DOMAIN b = 1 .. Len(b)
      /\ n \in Nat /\ n <= Len(b) /\ dialed[l] \in Nat /\ f \in Nat
      /\ A!Given \in Seq(Connection) /\ slots \in Seq(Connection) /\ served \in Seq(Connection)
  BY ATypes
<1>2. InTurn(l, A!Given, b, f)
  BY AOnce DEF AInv
<1>3. \A i \in 1..n : i \in 1 .. Len(b) /\ b[i] \in 1..MaxDial /\ b[i] = f + i
  <2>1. \A i \in 1..n : i \in 1 .. Len(b)
    BY <1>1
  <2> QED BY <1>1, <1>2, <2>1, ElementOfSeq DEF InTurn
<1>4. N \in Seq(Connection) /\ Len(N) = n /\ DOMAIN N = 1..n
  <2>1. \A i \in 1..n : <<l, b[i]>> \in Connection
    BY <1>3 DEF Connection
  <2> HIDE DEF b
  <2> QED BY <1>1, <2>1
<1>5. \A i \in DOMAIN N : N[i] = <<l, f + i>> /\ N[i][1] = l
  BY <1>3, <1>4
<1>6. r \in Seq(1..MaxDial) /\ Len(r) = Len(b) - n /\ \A i \in DOMAIN r : r[i] = (f + n) + i
  <2>1. /\ r \in Seq(1..MaxDial) /\ Len(r) = Len(b) - n
        /\ \A i \in 1 .. (Len(b) - n) : r[i] = b[n + i]
    BY <1>1, Dropped
  <2>2. DOMAIN r = 1 .. (Len(b) - n)
    BY <2>1, LenProperties
  <2> HIDE DEF r, b, f
  <2>3. ASSUME NEW i \in 1 .. (Len(b) - n) PROVE r[i] = (f + n) + i
    <3>1. n + i \in 1 .. Len(b)
      BY <1>1
    <3>2. b[n + i] = f + (n + i)
      BY <1>1, <1>2, <3>1 DEF InTurn
    <3> QED BY <1>1, <2>1, <3>2
  <2> QED BY <2>1, <2>2, <2>3
<1>7. slots' = slots \o N /\ backlog' = [backlog EXCEPT ![l] = r] /\ served' = served
  BY DEF A!Accept
<1>7a. /\ f = dialed[l] - Len(b)
       /\ slots \in Seq(Connection) /\ served \in Seq(Connection) /\ N \in Seq(Connection)
  BY <1>1, <1>4
<1> HIDE DEF N, r
<1>8. \A m \in A!Listener : /\ backlog'[m] = IF m = l THEN r ELSE backlog[m]
                            /\ dialed'[m] = dialed[m]
  BY <1>7 DEF AInv, A!TypeOK
<1>9. A!Given' = A!Given \o N
  <2> HIDE DEF b, f
  <2>1. (served \o slots) \o N = served \o (slots \o N)
    BY <1>7a, ConcatAssociative
  <2> QED BY <1>7, <2>1 DEF A!Given
<1>10. A!TypeOK'
  <2>1. slots' \in Seq(Connection)
    BY <1>1, <1>4, <1>7, ConcatProperties
  <2>2. backlog' \in [A!Listener -> Seq(1..MaxDial)]
    BY <1>6, <1>7 DEF AInv, A!TypeOK
  <2> QED BY <2>1, <2>2 DEF AInv, A!TypeOK, Connection
<1>11. dialed[l] - Len(r) = f + n
  <2> HIDE DEF b, f
  <2>1. Len(r) = Len(b) - n
    BY <1>6
  <2> QED BY <1>1, <1>7a, <2>1
<1>12. ASSUME NEW m \in A!Listener
       PROVE  InTurn(m, A!Given \o N, backlog'[m], dialed'[m] - Len(backlog'[m]))
  <2>1. CASE m # l
    <3>1. InTurn(m, A!Given, backlog[m], dialed[m] - Len(backlog[m]))
      BY AOnce DEF AInv
    <3>2. InTurn(m, A!Given \o N, backlog[m], dialed[m] - Len(backlog[m]))
      BY <1>1, <1>4, <1>5, <2>1, <3>1, TurnElsewhere
    <3> QED BY <1>8, <2>1, <3>2
  <2>2. CASE m = l
    <3>1. InTurn(l, A!Given \o N, r, f + n)
      <4> HIDE DEF b, f
      <4> QED BY <1>1, <1>2, <1>4, <1>5, <1>6, TurnTaken
    <3>2. backlog'[l] = r /\ dialed'[l] - Len(backlog'[l]) = f + n
      BY <1>8, <1>11
    <3> QED BY <2>2, <3>1, <3>2
  <2> QED BY <2>1, <2>2
<1>13. A!AcceptedOnce'
  BY <1>9, <1>12 DEF A!AcceptedOnce, InTurn
<1> QED BY <1>10, <1>13 DEF AInv

LEMMA AAll ==
  ASSUME AInv, NEW w \in Worker, NEW l \in A!Listener, A!AcceptAll(w, l)
  PROVE  AInv'
<1>1. /\ UNCHANGED <<dialed, served>>
      /\ \E x \in {"waiting", "gone"} : worker' = [worker EXCEPT ![w] = <<l, x>>]
  BY DEF A!AcceptAll
<1>2. worker' \in [Worker -> (A!Listener \X {"waiting", "woken", "broken", "gone"}) \cup {None}]
  BY <1>1 DEF AInv, A!TypeOK
<1>3. \E n \in 0 .. Len(backlog[l]) : A!Accept(l, n)
  <2>1. Len(backlog[l]) \in Nat
    BY ATypes
  <2> QED BY <2>1 DEF A!AcceptAll
<1> QED BY <1>1, <1>2, <1>3, AAccept

LEMMA ANext == AInv /\ [A!Next]_avars => AInv'
<1> SUFFICES ASSUME AInv, [A!Next]_avars PROVE AInv'
  OBVIOUS
<1>1. CASE A!AcceptSlot
  BY <1>1, ASlot
<1>2. ASSUME NEW w \in Worker, NEW l \in A!Listener,
             NEW x \in {"waiting", "broken", "gone"},
             worker' = [worker EXCEPT ![w] = <<l, x>>],
             UNCHANGED <<backlog, dialed, slots, served>>
      PROVE  AInv'
  <2>1. worker' \in [Worker -> (A!Listener \X {"waiting", "woken", "broken", "gone"}) \cup {None}]
    BY <1>2 DEF AInv, A!TypeOK
  <2> QED BY <1>2, <2>1, AWorkers
<1>3. ASSUME NEW w \in Worker, A!Cancel(w) \/ A!AcceptBroken(w)
      PROVE  AInv'
  BY <1>2, <1>3 DEF A!Cancel, A!AcceptBroken
<1>4. ASSUME NEW w \in Worker, NEW l \in A!Listener, A!Listen(w, l)
      PROVE  AInv'
  BY <1>2, <1>4 DEF A!Listen
<1>5. ASSUME NEW w \in Worker, A!tcp_accept(w) \/ A!uds_accept(w)
      PROVE  AInv'
  BY <1>5, AAll DEF A!tcp_accept, A!uds_accept, A!Listener
<1>6. ASSUME NEW l \in A!Listener, A!Dial(l)
      PROVE  AInv'
  BY <1>6, ADial
<1>7. ASSUME NEW l \in A!Listener, A!Incoming(l)
      PROVE  AInv'
  <2>1. worker' \in [Worker -> (A!Listener \X {"waiting", "woken", "broken", "gone"}) \cup {None}]
    BY <1>7 DEF A!Incoming, AInv, A!TypeOK
  <2> QED BY <1>7, <2>1, AWorkers DEF A!Incoming
<1>8. CASE UNCHANGED avars
  BY <1>8 DEF avars, AInv, A!TypeOK, A!AcceptedOnce, A!Given
<1> QED BY <1>1, <1>3, <1>4, <1>5, <1>6, <1>7, <1>8 DEF A!Next

----------------------------------------------------------------------------
(* Datagrams.                                                              *)

\* Numbers of at most n, which those of the peer p that are not empty have in order.
Orderly(p, s, n) ==
  /\ \A i \in DOMAIN s : s[i][1] = p => s[i][2] \in 0..n
  /\ \A i, j \in {k \in DOMAIN s : s[k][1] = p /\ s[k][2] # 0} : i < j => s[i][2] < s[j][2]

\* What the connector of p has read and has to read.
Queued(p) == IF csock[p] = None THEN <<>> ELSE csock[p]
ReadBy(p) == gotBy[p] \o Queued(p)

DOrder(p) == /\ Orderly(p, lsock, sentTo[p]) /\ Orderly(p, ReadBy(p), sentTo[p])
             /\ ReadBy(p) # <<>> => ReadBy(p)[1][1] = p

DInv == /\ D!TypeOK
        /\ udp = "woken" => lsock # <<>>
        /\ \A p \in Peer : DOrder(p)

\* The next datagram of p, or one of another peer.
LEMMA OrderlyAppend ==
  ASSUME NEW p, NEW C, NEW s \in Seq(C), NEW n \in Nat, NEW m \in Nat, n <= m, NEW d \in C,
         Orderly(p, s, n), d[1] = p => d[2] = 0 \/ (d[2] = n + 1 /\ m = n + 1)
  PROVE  Orderly(p, Append(s, d), m)
<1> DEFINE t == Append(s, d)
<1>1. /\ Len(s) \in Nat /\ DOMAIN s = 1 .. Len(s)
      /\ t \in Seq(C) /\ Len(t) = Len(s) + 1
      /\ \A i \in 1 .. Len(s) : t[i] = s[i]
      /\ t[Len(s) + 1] = d
  BY AppendProperties, LenProperties
<1>2. DOMAIN t = 1 .. Len(s) + 1
  BY <1>1, LenProperties
<1> HIDE DEF t
<1>3. \A i \in DOMAIN t : (i \in DOMAIN s /\ t[i] = s[i]) \/ (i = Len(s) + 1 /\ t[i] = d)
  BY <1>1, <1>2
<1>4. \A i \in DOMAIN t : t[i][1] = p => t[i][2] \in 0..m
  BY <1>3 DEF Orderly
<1>5. ASSUME NEW i \in DOMAIN t, NEW j \in DOMAIN t, i < j, t[i][1] = p, t[j][1] = p,
             t[i][2] # 0, t[j][2] # 0
      PROVE  t[i][2] < t[j][2]
  <2>1. i \in DOMAIN s /\ t[i] = s[i]
    BY <1>1, <1>2, <1>3, <1>5
  <2>2. CASE j \in DOMAIN s /\ t[j] = s[j]
    BY <1>5, <2>1, <2>2 DEF Orderly
  <2>3. CASE t[j] = d
    <3>1. t[i][2] \in 0..n /\ t[j][2] = n + 1
      BY <1>5, <2>1, <2>3 DEF Orderly
    <3> QED BY <3>1
  <2> QED BY <1>3, <2>2, <2>3
<1>6. Orderly(p, t, m)
  BY <1>4, <1>5 DEF Orderly
<1> QED BY <1>6 DEF t

LEMMA OrderlyPrefix ==
  ASSUME NEW p, NEW C, NEW s \in Seq(C), NEW t \in Seq(C), NEW n, Orderly(p, s \o t, n)
  PROVE  /\ Orderly(p, s, n)
         /\ s # <<>> => s \o t # <<>> /\ (s \o t)[1] = s[1]
<1>1. \A i \in DOMAIN s : i \in DOMAIN (s \o t) /\ (s \o t)[i] = s[i]
  <2>1. /\ DOMAIN s = 1 .. Len(s) /\ Len(s) \in Nat /\ Len(t) \in Nat
        /\ DOMAIN (s \o t) = 1 .. (Len(s) + Len(t))
        /\ \A i \in 1 .. Len(s) : (s \o t)[i] = s[i]
    BY Joined
  <2> QED BY <2>1
<1>2. s # <<>> => 1 \in DOMAIN s
  BY EmptySeq, LenProperties
<1>3. s # <<>> => s \o t # <<>>
  BY ConcatEqualIffEmpty
<1> DEFINE u == s \o t
<1>4. /\ \A i \in DOMAIN s : i \in DOMAIN u /\ u[i] = s[i]
      /\ Orderly(p, u, n)
  BY <1>1
<1> HIDE DEF u
<1>5. Orderly(p, s, n)
  BY <1>4 DEF Orderly
<1> QED BY <1>1, <1>2, <1>3, <1>5

LEMMA OrderlyTail ==
  ASSUME NEW p, NEW C, NEW s \in Seq(C), s # <<>>, NEW n, Orderly(p, s, n)
  PROVE  Orderly(p, Tail(s), n)
<1> DEFINE t == Tail(s)
<1>1. /\ t \in Seq(C) /\ Len(t) = Len(s) - 1 /\ Len(s) \in Nat
      /\ \A i \in 1 .. Len(t) : t[i] = s[i + 1]
      /\ DOMAIN s = 1 .. Len(s)
  <2>1. Len(s) \in Nat /\ DOMAIN s = 1 .. Len(s)
    BY LenProperties
  <2> QED BY <2>1, HeadTailProperties
<1>2. DOMAIN t = 1 .. Len(t)
  BY <1>1, LenProperties
<1> HIDE DEF t
<1>3. \A i \in DOMAIN t : i \in Int /\ i + 1 \in DOMAIN s /\ t[i] = s[i + 1]
  BY <1>1, <1>2
<1>4. \A i, j \in DOMAIN t : i < j => i + 1 < j + 1
  BY <1>3
<1>5. Orderly(p, t, n)
  BY <1>3, <1>4 DEF Orderly
<1> QED BY <1>5 DEF t

LEMMA DTypes ==
  ASSUME DInv, NEW p \in Peer
  PROVE  /\ lsock \in Seq(D!Datagram) /\ gotBy[p] \in Seq(D!Datagram)
         /\ Queued(p) \in Seq(D!Datagram) /\ ReadBy(p) \in Seq(D!Datagram)
         /\ csock[p] # None => csock[p] \in Seq(D!Datagram) /\ Queued(p) = csock[p]
         /\ sentTo[p] \in 0..MaxData /\ MaxData \in Nat
         /\ Orderly(p, lsock, sentTo[p]) /\ Orderly(p, ReadBy(p), sentTo[p])
         /\ ReadBy(p) # <<>> => ReadBy(p)[1][1] = p
<1>1. /\ lsock \in Seq(D!Datagram) /\ gotBy[p] \in Seq(D!Datagram)
      /\ csock[p] \in Seq(D!Datagram) \cup {None}
      /\ sentTo[p] \in 0..MaxData
  BY DEF DInv, D!TypeOK
<1>2. Queued(p) \in Seq(D!Datagram)
  BY <1>1, EmptySeq DEF Queued
<1>3. ReadBy(p) \in Seq(D!Datagram)
  BY <1>1, <1>2, ConcatProperties DEF ReadBy
<1> QED BY <1>1, <1>2, <1>3, DatagramsAssumption DEF DInv, DOrder, Queued

LEMMA DInit == D!Init => DInv
<1> SUFFICES ASSUME D!Init PROVE DInv
  OBVIOUS
<1>1. D!TypeOK
  <2>1. /\ lsock \in Seq(D!Datagram) /\ 0 \in 0..MaxData /\ 0 \in 0..Packages
        /\ <<>> \in Seq(D!Datagram)
    BY DatagramsAssumption, EmptySeq DEF D!Init
  <2>2. sentTo \in [Peer -> 0..MaxData] /\ gotBy \in [Peer -> Seq(D!Datagram)]
    BY <2>1 DEF D!Init
  <2> QED BY <2>1, <2>2 DEF D!Init, D!TypeOK
<1>2. ASSUME NEW p \in Peer PROVE DOrder(p)
  <2>1. ReadBy(p) = <<>> \o <<>>
    BY DEF D!Init, ReadBy, Queued
  <2>2. ReadBy(p) = <<>> /\ lsock = <<>> /\ DOMAIN <<>> = {}
    BY <2>1 DEF D!Init
  <2> QED BY <2>2 DEF DOrder, Orderly
<1>3. udp # "woken"
  BY DEF D!Init
<1> QED BY <1>1, <1>2, <1>3 DEF DInv

\* Nothing of the order is about the rest of the state.
LEMMA DSame ==
  ASSUME DInv, D!TypeOK', udp' = "woken" => lsock # <<>>, UNCHANGED <<lsock, sentTo, csock, gotBy>>
  PROVE  DInv'
<1>1. \A p \in Peer : DOrder(p)'
  BY DEF DInv, DOrder, ReadBy, Queued
<1> QED BY <1>1 DEF DInv

LEMMA DSend ==
  ASSUME DInv, NEW q \in Peer, NEW empty \in BOOLEAN, D!Send(q, empty)
  PROVE  DInv'
<1> DEFINE d == <<q, IF empty THEN 0 ELSE sentTo[q] + 1>>
<1>1. /\ sentTo[q] \in 0..MaxData /\ MaxData \in Nat /\ sentTo[q] < MaxData
      /\ sentTo' = [sentTo EXCEPT ![q] = @ + 1]
      /\ sentTo[q] + 1 \in 0..MaxData
      /\ d \in D!Datagram /\ d[1] = q /\ d[2] \in {0, sentTo[q] + 1}
      /\ UNCHANGED <<udp, mode, listened, gotBy, writing>>
  <2>1. sentTo[q] \in 0..MaxData /\ MaxData \in Nat /\ sentTo[q] < MaxData
    BY DTypes DEF D!Send
  <2>2. sentTo[q] + 1 \in 0..MaxData /\ 0 \in 0..MaxData
    BY <2>1
  <2> QED BY <2>1, <2>2 DEF D!Send, D!Datagram
<1>2. \/ csock[q] = None /\ lsock' = Append(lsock, d) /\ csock' = csock
      \/ csock[q] # None /\ csock' = [csock EXCEPT ![q] = Append(@, d)] /\ lsock' = lsock
  BY DEF D!Send
<1> HIDE DEF d
<1>3. D!TypeOK'
  <2>1. lsock' \in Seq(D!Datagram)
    <3>1. lsock \in Seq(D!Datagram)
      BY DTypes
    <3>2. Append(lsock, d) \in Seq(D!Datagram)
      BY <1>1, <3>1, AppendProperties
    <3> QED BY <1>2, <3>1, <3>2
  <2>2. csock' \in [Peer -> Seq(D!Datagram) \cup {None}]
    <3>1. csock[q] # None => Append(csock[q], d) \in Seq(D!Datagram)
      BY <1>1, DTypes, AppendProperties
    <3> QED BY <1>2, <3>1 DEF DInv, D!TypeOK
  <2> QED BY <1>1, <2>1, <2>2 DEF DInv, D!TypeOK
<1>4. ASSUME NEW p \in Peer PROVE DOrder(p)'
  <2>1. /\ sentTo[p] \in Nat /\ sentTo'[p] \in Nat /\ sentTo[p] <= sentTo'[p]
        /\ p = q => sentTo'[p] = sentTo[p] + 1
    BY <1>1, DTypes DEF DInv, D!TypeOK
  <2>2. d[1] = p => d[2] = 0 \/ (d[2] = sentTo[p] + 1 /\ sentTo'[p] = sentTo[p] + 1)
    BY <1>1, <2>1
  <2>3. ASSUME NEW s \in Seq(D!Datagram), Orderly(p, s, sentTo[p])
        PROVE  Orderly(p, s, sentTo'[p]) /\ Orderly(p, Append(s, d), sentTo'[p])
    <3>1. Orderly(p, Append(s, d), sentTo'[p])
      BY <1>1, <2>1, <2>2, <2>3, OrderlyAppend
    <3>2. Orderly(p, s, sentTo'[p])
      BY <2>1, <2>3 DEF Orderly
    <3> QED BY <3>1, <3>2
  <2>4. Orderly(p, lsock', sentTo'[p])
    <3>1. Orderly(p, lsock, sentTo'[p]) /\ Orderly(p, Append(lsock, d), sentTo'[p])
      BY <2>3, DTypes
    <3>2. lsock' = lsock \/ lsock' = Append(lsock, d)
      BY <1>2
    <3> QED BY <3>1, <3>2
  <2>5. ReadBy(p)' = ReadBy(p) \/ (ReadBy(p)' = Append(ReadBy(p), d) /\ p = q)
    <3>1. CASE p = q /\ csock[q] # None
      <4>1. csock'[p] = Append(csock[p], d) /\ Append(csock[p], d) \in Seq(D!Datagram)
        BY <1>1, <1>2, <3>1, DTypes, AppendProperties DEF DInv, D!TypeOK
      <4>2. Queued(p)' = Append(Queued(p), d)
        BY <3>1, <4>1, DatagramsAssumption DEF Queued, D!Datagram
      <4>3. gotBy[p] \o Append(Queued(p), d) = Append(gotBy[p] \o Queued(p), d)
        <5>1. gotBy[p] \in Seq(D!Datagram) /\ Queued(p) \in Seq(D!Datagram)
          BY DTypes
        <5>2. \A r, s \in Seq(D!Datagram) : r \o Append(s, d) = Append(r \o s, d)
          <6>1. d \in D!Datagram
            BY <1>1
          <6> TAKE r, s \in Seq(D!Datagram)
          <6> QED BY <6>1, AppendToJoined
        <5> HIDE DEF Queued
        <5> QED BY <5>1, <5>2, Zenon
      <4>4. ReadBy(p)' = gotBy[p] \o Queued(p)'
        BY <1>1 DEF ReadBy
      <4>5. ReadBy(p)' = Append(gotBy[p] \o Queued(p), d)
        BY <4>2, <4>3, <4>4, Zenon
      <4> QED BY <3>1, <4>5 DEF ReadBy
    <3>2. CASE ~(p = q /\ csock[q] # None)
      <4>1. csock'[p] = csock[p]
        BY <1>2, <3>2 DEF DInv, D!TypeOK
      <4> QED BY <1>1, <4>1 DEF ReadBy, Queued
    <3> QED BY <3>1, <3>2
  <2>6. Orderly(p, ReadBy(p)', sentTo'[p])
    BY <2>3, <2>5, DTypes
  <2>7. ReadBy(p)' # <<>> => ReadBy(p)'[1][1] = p
    <3>1. CASE ReadBy(p)' = Append(ReadBy(p), d) /\ p = q
      <4> DEFINE r == ReadBy(p)
      <4>2. /\ r \in Seq(D!Datagram) /\ Len(r) \in Nat
            /\ \A i \in 1 .. Len(r) : Append(r, d)[i] = r[i]
            /\ Append(r, d)[Len(r) + 1] = d
        BY <1>1, DTypes, AppendProperties, LenProperties
      <4>3. r # <<>> => r[1][1] = p /\ Len(r) \in Nat \ {0}
        BY DTypes, EmptySeq
      <4>4. r = <<>> => Len(r) = 0
        BY EmptySeq
      <4> HIDE DEF r
      <4>5. Append(r, d)[1][1] = p
        BY <1>1, <3>1, <4>2, <4>3, <4>4
      <4> QED BY <3>1, <4>5 DEF r
    <3>2. CASE ReadBy(p)' = ReadBy(p)
      BY <3>2, DTypes
    <3> QED BY <2>5, <3>1, <3>2
  <2> QED BY <2>4, <2>6, <2>7 DEF DOrder
<1>5. udp' = "woken" => lsock' # <<>>
  <2>1. Append(lsock, d) # <<>>
    BY <1>1, AppendProperties, DTypes
  <2> QED BY <1>1, <1>2, <2>1 DEF DInv
<1> QED BY <1>3, <1>4, <1>5 DEF DInv

\* The socket of the listener becomes that of the connector: what was in it is in order.
LEMMA DHandOver ==
  ASSUME DInv, D!HandOver
  PROVE  DInv'
<1> DEFINE q == lsock[1][1]
<1>1. /\ lsock \in Seq(D!Datagram) /\ lsock # <<>> /\ lsock[1] \in D!Datagram /\ q \in Peer
      /\ <<>> \in Seq(D!Datagram)
  <2>1. lsock \in Seq(D!Datagram) /\ lsock # <<>>
    BY DEF DInv, D!TypeOK, D!HandOver
  <2>2. lsock[1] \in D!Datagram
    BY <2>1, EmptySeq, ElementOfSeq
  <2> QED BY <2>1, <2>2, EmptySeq DEF D!Datagram
<1>2. /\ csock' = [csock EXCEPT ![q] = lsock] /\ gotBy' = [gotBy EXCEPT ![q] = <<>>]
      /\ lsock' = <<>> /\ udp' = "waiting" /\ UNCHANGED <<mode, listened, sentTo, writing>>
  BY DEF D!HandOver
<1> HIDE DEF q
<1>3. D!TypeOK'
  BY <1>1, <1>2 DEF DInv, D!TypeOK
<1>4. ASSUME NEW p \in Peer PROVE DOrder(p)'
  <2>1. Orderly(p, <<>>, sentTo[p])
    BY DEF Orderly
  <2>2. CASE p # q
    <3>1. ReadBy(p)' = ReadBy(p)
      BY <1>1, <1>2, <2>2 DEF DInv, D!TypeOK, ReadBy, Queued
    <3> QED BY <1>2, <2>1, <3>1, DTypes DEF DOrder
  <2>3. CASE p = q
    <3>1. gotBy'[p] = <<>> /\ csock'[p] = lsock
      BY <1>1, <1>2, <2>3 DEF DInv, D!TypeOK
    <3>2. Queued(p)' = lsock
      BY <1>1, <3>1, DatagramsAssumption DEF Queued, D!Datagram
    <3>3. ReadBy(p)' = lsock
      BY <1>1, <3>1, <3>2, ConcatEmptySeq DEF ReadBy
    <3>4. lsock[1][1] = p
      BY <2>3 DEF q
    <3> QED BY <1>2, <2>1, <3>3, <3>4, DTypes DEF DOrder
  <2> QED BY <2>2, <2>3
<1> QED BY <1>2, <1>3, <1>4 DEF DInv

\* The connector takes one of those queued: it is the next of what it reads.
LEMMA DReads ==
  ASSUME DInv, NEW q \in Peer, D!ConnectorReads(q)
  PROVE  DInv'
<1> DEFINE g == gotBy[q]
           c == csock[q]
<1>1. /\ g \in Seq(D!Datagram) /\ c \in Seq(D!Datagram) /\ c # <<>>
      /\ Head(c) \in D!Datagram /\ Tail(c) \in Seq(D!Datagram)
      /\ Append(g, Head(c)) \in Seq(D!Datagram)
  <2>1. g \in Seq(D!Datagram) /\ c \in Seq(D!Datagram) /\ c # <<>>
    BY DTypes DEF D!ConnectorReads
  <2> HIDE DEF g, c
  <2>2. Head(c) \in D!Datagram /\ Tail(c) \in Seq(D!Datagram)
    BY <2>1, HeadTailProperties
  <2> QED BY <2>1, <2>2, AppendProperties
<1>2. /\ gotBy' = [gotBy EXCEPT ![q] = Append(g, Head(c))]
      /\ csock' = [csock EXCEPT ![q] = Tail(c)]
      /\ UNCHANGED <<udp, mode, listened, lsock, sentTo, writing>>
  BY <1>1 DEF D!ConnectorReads
<1>3. Queued(q) = c
  BY DTypes DEF D!ConnectorReads
<1>4. ReadBy(q) = g \o c
  BY <1>3 DEF ReadBy
<1> HIDE DEF g, c
<1>5. D!TypeOK'
  BY <1>1, <1>2 DEF DInv, D!TypeOK
<1>6. Append(g, Head(c)) \o Tail(c) = g \o c
  BY <1>1, HeadMoves
<1>7. ASSUME NEW p \in Peer PROVE ReadBy(p)' = ReadBy(p)
  <2>1. CASE p # q
    BY <1>2, <2>1 DEF DInv, D!TypeOK, ReadBy, Queued
  <2>2. CASE p = q
    <3>1. gotBy'[p] = Append(g, Head(c)) /\ csock'[p] = Tail(c)
      BY <1>2, <2>2 DEF DInv, D!TypeOK
    <3>2. Queued(p)' = Tail(c)
      BY <1>1, <3>1, DatagramsAssumption DEF Queued, D!Datagram
    <3> QED BY <1>4, <1>6, <2>2, <3>1, <3>2, Zenon DEF ReadBy
  <2> QED BY <2>1, <2>2
<1>8. \A p \in Peer : DOrder(p)'
  BY <1>2, <1>7 DEF DInv, DOrder
<1> QED BY <1>2, <1>5, <1>8 DEF DInv

LEMMA DCloses ==
  ASSUME DInv, NEW q \in Peer, D!ConnectorCloses(q)
  PROVE  DInv'
<1>1. csock' = [csock EXCEPT ![q] = None] /\ UNCHANGED <<udp, mode, listened, lsock, sentTo, gotBy, writing>>
  BY DEF D!ConnectorCloses
<1>2. D!TypeOK'
  BY <1>1 DEF DInv, D!TypeOK
<1>3. ASSUME NEW p \in Peer PROVE DOrder(p)'
  <2>1. CASE p # q
    <3>1. ReadBy(p)' = ReadBy(p)
      BY <1>1, <2>1 DEF DInv, D!TypeOK, ReadBy, Queued
    <3> QED BY <1>1, <3>1 DEF DInv, DOrder
  <2>2. CASE p = q
    <3>1. gotBy[p] \in Seq(D!Datagram) /\ Queued(p) \in Seq(D!Datagram)
      BY DTypes
    <3>2. Queued(p)' = <<>>
      BY <1>1, <2>2 DEF DInv, D!TypeOK, Queued
    <3>3. ReadBy(p)' = gotBy[p]
      BY <1>1, <3>1, <3>2, ConcatEmptySeq DEF ReadBy
    <3>4. Orderly(p, gotBy[p] \o Queued(p), sentTo[p])
      BY DTypes DEF ReadBy
    <3>5. /\ Orderly(p, gotBy[p], sentTo[p])
          /\ gotBy[p] # <<>> => ReadBy(p) # <<>> /\ ReadBy(p)[1] = gotBy[p][1]
      BY <3>1, <3>4, OrderlyPrefix DEF ReadBy
    <3> QED BY <1>1, <3>3, <3>5, DTypes DEF DOrder
  <2> QED BY <2>1, <2>2
<1> QED BY <1>1, <1>2, <1>3 DEF DInv

LEMMA DTakePacket ==
  ASSUME DInv, D!TakePacket
  PROVE  DInv'
<1>1. /\ lsock \in Seq(D!Datagram) /\ lsock # <<>> /\ lsock' = Tail(lsock)
      /\ Tail(lsock) \in Seq(D!Datagram)
      /\ UNCHANGED <<mode, sentTo, csock, gotBy>>
  <2>1. /\ lsock \in Seq(D!Datagram) /\ lsock # <<>> /\ lsock' = Tail(lsock)
        /\ UNCHANGED <<mode, sentTo, csock, gotBy>>
    BY DEF DInv, D!TypeOK, D!TakePacket
  <2> QED BY <2>1, HeadTailProperties
<1>2. /\ udp' \in {"none", "waiting"} /\ listened' \in BOOLEAN /\ writing' \in {0, Packages}
  BY DEF D!TakePacket, D!UdpEnds, DInv, D!TypeOK
<1>3. D!TypeOK'
  BY <1>1, <1>2, DatagramsAssumption DEF DInv, D!TypeOK
<1>4. ASSUME NEW p \in Peer PROVE DOrder(p)'
  <2>1. Orderly(p, lsock, sentTo[p])
    BY DTypes
  <2>2. Orderly(p, Tail(lsock), sentTo[p])
    BY <1>1, <2>1, OrderlyTail
  <2>3. ReadBy(p)' = ReadBy(p)
    BY <1>1 DEF ReadBy, Queued
  <2> QED BY <1>1, <2>2, <2>3, DTypes DEF DOrder
<1> QED BY <1>2, <1>3, <1>4 DEF DInv

LEMMA DNext == DInv /\ [D!Next]_dvars => DInv'
<1> SUFFICES ASSUME DInv, [D!Next]_dvars PROVE DInv'
  OBVIOUS
<1>1. CASE D!ListenUdp
  <2>1. D!TypeOK'
    BY <1>1 DEF D!ListenUdp, DInv, D!TypeOK
  <2> QED BY <1>1, <2>1, DSame DEF D!ListenUdp
<1>2. CASE D!UdpWoken
  <2>1. D!TypeOK'
    BY <1>2 DEF D!UdpWoken, DInv, D!TypeOK
  <2>2. udp' = "woken" => lsock # <<>>
    BY <1>2 DEF D!UdpWoken
  <2> QED BY <1>2, <2>1, <2>2, DSame DEF D!UdpWoken
<1>3. CASE D!UdpBroken
  <2>1. D!TypeOK'
    BY <1>3 DEF D!UdpBroken, D!UdpEnds, DInv, D!TypeOK
  <2> QED BY <1>3, <2>1, DSame DEF D!UdpBroken, D!UdpEnds
<1>4. CASE D!HandOver
  BY <1>4, DHandOver
<1>5. CASE D!TakePacket
  BY <1>5, DTakePacket
<1>6. CASE D!WriteTo
  <2>1. writing' \in 0..Packages
    BY <1>6, DatagramsAssumption DEF D!WriteTo, D!udp_packet_write, DInv, D!TypeOK
  <2>2. D!TypeOK'
    BY <1>6, <2>1 DEF D!WriteTo, DInv, D!TypeOK
  <2> QED BY <1>6, <2>2, DSame DEF D!WriteTo, DInv
<1>7. ASSUME NEW q \in Peer,
             D!ConnectorReads(q) \/ D!ConnectorCloses(q) \/ \E empty \in BOOLEAN : D!Send(q, empty)
      PROVE  DInv'
  BY <1>7, DReads, DCloses, DSend
<1>8. CASE UNCHANGED dvars
  <2>1. D!TypeOK'
    BY <1>8 DEF dvars, DInv, D!TypeOK
  <2> QED BY <1>8, <2>1, DSame DEF dvars, DInv
<1> QED BY <1>1, <1>2, <1>3, <1>4, <1>5, <1>6, <1>7, <1>8 DEF D!Next

LEMMA DFirst == DInv => D!FirstIsOwn
<1> SUFFICES ASSUME DInv, NEW p \in Peer
             PROVE  LET own == {i \in DOMAIN gotBy[p] : gotBy[p][i][1] = p /\ gotBy[p][i][2] # 0}
                    IN  /\ gotBy[p] # <<>> => gotBy[p][1][1] = p
                        /\ \A i, j \in own : i < j => gotBy[p][i][2] < gotBy[p][j][2]
  BY DEF D!FirstIsOwn
<1>1. /\ gotBy[p] \in Seq(D!Datagram) /\ Queued(p) \in Seq(D!Datagram)
      /\ Orderly(p, ReadBy(p), sentTo[p])
      /\ ReadBy(p) # <<>> => ReadBy(p)[1][1] = p
  BY DTypes
<1>2. /\ Orderly(p, gotBy[p], sentTo[p])
      /\ gotBy[p] # <<>> => ReadBy(p) # <<>> /\ ReadBy(p)[1] = gotBy[p][1]
  BY <1>1, OrderlyPrefix DEF ReadBy
<1> QED BY <1>1, <1>2 DEF Orderly

\* The tcp, uds and udp listeners: whatever the tasks that listen, accept and are
\* cancelled do, every connection is given to one slot, once and in order, and what a
\* udp connector reads begins with a datagram of its peer, whose others come in order.
THEOREM ListenersServeInOrder == Spec => []ListenersKeepOrder
<1>1. Init => AInv /\ DInv
  BY AInit, DInit DEF Init
<1>2. AInv /\ DInv /\ [Next]_all => AInv' /\ DInv'
  BY ANext, DNext, Parts
<1>3. AInv /\ DInv => ListenersKeepOrder
  BY DFirst DEF AInv, ListenersKeepOrder
<1> QED BY <1>1, <1>2, <1>3, PTL DEF Spec

----------------------------------------------------------------------------
(* Streams.                                                                *)

Byte == 1..Bytes

\* All that came from e and is not lost, from what its receiver has to what e has sent last.
Line(e) == got[S!Other(e)] \o outbox[S!Other(e)] \o chunk[e] \o inbox[e]
Flows(e) == S!Other(e) \notin gaveUp /\ peer[S!Other(e)] # "reset" /\ e \notin pumpCancelled
Whole(e) == Flows(e) => Line(e) = S!Sent(e)

\* A task of dup ends because it was cancelled by the other or because its own side did,
\* which is never so of both: the first to end had another reason than the second.
EndOf(e) ==
  /\ e \in pumpCancelled => pump[S!Other(e)] = "ended"
  /\ pump[e] = "ended" => \/ e \in pumpCancelled \/ peer[e] = "reset"
                          \/ peer[e] = "closed" /\ inbox[e] = <<>>
  /\ chunk[e] # <<>> => pump[e] \in {"writing", "blocked"}
Ends == /\ pumpCancelled # S!End
        /\ dialing # "done" => peer["o"] = "none" /\ pump["o"] = "none"
        /\ pump["i"] = "none" <=> pump["o"] = "none"
        /\ \A e \in S!End : EndOf(e)

STyped ==
  /\ connected \in [S!End -> BOOLEAN] /\ dialing \in {"idle", "waiting", "done", "failed"}
  /\ peer \in [S!End -> {"none", "open", "closed", "reset"}]
  /\ inbox \in [S!End -> Seq(Byte)] /\ outbox \in [S!End -> Seq(Byte)]
  /\ got \in [S!End -> Seq(Byte)] /\ chunk \in [S!End -> Seq(Byte)]
  /\ sent \in [S!End -> 0..Bytes]
  /\ pump \in [S!End -> {"none", "reading", "writing", "blocked", "ended"}]
  /\ pumpCancelled \subseteq S!End /\ gaveUp \subseteq S!End

SInv == STyped /\ Ends /\ \A e \in S!End : Whole(e)

\* What recv gives is a beginning of the data, and Rest is what follows it.
LEMMA Received ==
  ASSUME NEW C, NEW s \in Seq(C), NEW n \in Int
  PROVE  \E k \in 0 .. Len(s) : S!recv(s, n) = SubSeq(s, 1, k)
<1>1. Len(s) \in Nat
  BY LenProperties
<1>2. CASE n < 0
  <2>1. SubSeq(s, 1, n) = <<>> /\ SubSeq(s, 1, 0) = <<>>
    BY <1>2, SubSeqEmpty
  <2>2. S!recv(s, n) = SubSeq(s, 1, n)
    BY <1>1, <1>2 DEF S!recv
  <2>3. 0 \in 0 .. Len(s)
    BY <1>1
  <2> QED BY <2>1, <2>2, <2>3
<1>3. CASE n >= 0
  <2> DEFINE k == IF Len(s) < n THEN Len(s) ELSE n
  <2>1. k \in 0 .. Len(s)
    BY <1>1, <1>3
  <2>2. S!recv(s, n) = SubSeq(s, 1, k)
    BY DEF S!recv
  <2> QED BY <2>1, <2>2
<1> QED BY <1>2, <1>3

LEMMA Begun ==
  ASSUME NEW C, NEW s \in Seq(C), NEW k \in 0 .. Len(s)
  PROVE  /\ SubSeq(s, 1, k) \in Seq(C) /\ Len(SubSeq(s, 1, k)) = k
         /\ \A i \in 1..k : SubSeq(s, 1, k)[i] = s[i]
         /\ SubSeq(s, k + 1, Len(s)) \in Seq(C)
         /\ SubSeq(s, 1, k) \o SubSeq(s, k + 1, Len(s)) = s
<1>1. Len(s) \in Nat /\ k \in Nat /\ k <= Len(s) /\ \A i \in 1 .. Len(s) : s[i] \in C
  BY LenProperties, ElementOfSeq
<1> DEFINE t == SubSeq(s, 1, k)
<1>2. 1 \in Int /\ k \in Int /\ \A i \in 1..k : s[i] \in C
  BY <1>1
<1>3. /\ t \in Seq(C) /\ Len(t) = IF 1 <= k THEN k - 1 + 1 ELSE 0
      /\ \A i \in 1 .. k - 1 + 1 : t[i] = s[1 + i - 1]
  <2> HIDE DEF t
  <2> QED BY <1>2, SubSeqProperties DEF t
<1> HIDE DEF t
<1>4. Len(t) = k
  BY <1>1, <1>3
<1>5. ASSUME NEW i \in 1..k PROVE t[i] = s[i]
  <2>1. i \in 1 .. k - 1 + 1 /\ 1 + i - 1 = i
    BY <1>1
  <2> QED BY <1>3, <2>1
<1>6. SubSeq(s, k + 1, Len(s)) \in Seq(C)
  BY Dropped
<1>7. t \o SubSeq(s, k + 1, Len(s)) = s
  <2>1. /\ 1 \in 1 .. Len(s) + 1 /\ k \in 1 - 1 .. Len(s) /\ Len(s) \in k .. Len(s)
    BY <1>1
  <2>2. SubSeq(s, 1, k) \o SubSeq(s, k + 1, Len(s)) = SubSeq(s, 1, Len(s))
    BY ONLY s \in Seq(C), <2>1, ConcatAdjacentSubSeq
  <2>3. SubSeq(s, 1, Len(s)) = s
    BY ONLY s \in Seq(C), SubSeqFull
  <2> QED BY ONLY <2>2, <2>3 DEF t
<1>8. SubSeq(s, 1, k) \in Seq(C) /\ Len(SubSeq(s, 1, k)) = k
  BY <1>3, <1>4, Zenon DEF t
<1>9. \A i \in 1..k : SubSeq(s, 1, k)[i] = s[i]
  BY <1>5, Zenon DEF t
<1>10. SubSeq(s, 1, k) \o SubSeq(s, k + 1, Len(s)) = s
  BY <1>7, Zenon DEF t
<1> QED BY <1>6, <1>8, <1>9, <1>10, Zenon

LEMMA Split ==
  ASSUME NEW C, NEW s \in Seq(C), NEW n \in Int
  PROVE  LET r == S!recv(s, n) IN
         /\ r \in Seq(C) /\ S!Rest(s, Len(r)) \in Seq(C)
         /\ r \o S!Rest(s, Len(r)) = s
<1>1. PICK k \in 0 .. Len(s) : S!recv(s, n) = SubSeq(s, 1, k)
  BY Received
<1>2. Len(S!recv(s, n)) = k
  BY <1>1, Begun
<1>3. /\ SubSeq(s, 1, k) \in Seq(C) /\ SubSeq(s, k + 1, Len(s)) \in Seq(C)
      /\ SubSeq(s, 1, k) \o SubSeq(s, k + 1, Len(s)) = s
  BY Begun
<1>4. S!Rest(s, k) = SubSeq(s, k + 1, Len(s))
  BY DEF S!Rest
<1> QED BY ONLY <1>1, <1>2, <1>3, <1>4

\* As much as there is room for of a package of the data is a beginning of the data.
LEMMA SplitTwice ==
  ASSUME NEW C, NEW s \in Seq(C), NEW n \in Int, NEW m \in Int
  PROVE  LET r == S!recv(S!recv(s, m), n) IN
         /\ r \in Seq(C) /\ S!Rest(s, Len(r)) \in Seq(C)
         /\ r \o S!Rest(s, Len(r)) = s
         /\ Len(r) = Len(s) => r = s
<1>1. PICK k \in 0 .. Len(s) : S!recv(s, m) = SubSeq(s, 1, k)
  BY Received
<1> DEFINE t == SubSeq(s, 1, k)
<1>2. t \in Seq(C) /\ Len(t) = k /\ \A i \in 1..k : t[i] = s[i]
  BY Begun
<1> HIDE DEF t
<1>3. PICK j \in 0 .. k : S!recv(t, n) = SubSeq(t, 1, j)
  BY <1>2, Received
<1> DEFINE r == SubSeq(t, 1, j)
<1>4. r \in Seq(C) /\ Len(r) = j /\ \A i \in 1..j : r[i] = t[i]
  BY <1>2, <1>3, Begun
<1> HIDE DEF r
<1>5. j \in 0 .. Len(s) /\ j <= k /\ j \in Nat /\ k \in Nat
  BY LenProperties
<1> DEFINE q == SubSeq(s, 1, j)
<1>6. /\ q \in Seq(C) /\ Len(q) = j /\ \A i \in 1..j : q[i] = s[i]
      /\ SubSeq(s, j + 1, Len(s)) \in Seq(C)
      /\ q \o SubSeq(s, j + 1, Len(s)) = s
  BY <1>5, Begun
<1> HIDE DEF q
<1>7. r = q
  <2>1. \A i \in 1..j : r[i] = q[i]
    BY <1>2, <1>4, <1>5, <1>6
  <2> QED BY <1>4, <1>6, <2>1, SeqEqual
<1>8. j = Len(s) => r = s
  BY <1>7, SubSeqFull DEF q
<1>9. S!recv(S!recv(s, m), n) = r
  BY <1>1, <1>3 DEF t, r
<1> QED BY <1>4, <1>6, <1>7, <1>8, <1>9 DEF S!Rest

LEMMA Others ==
  /\ S!End = {"i", "o"} /\ S!Other("i") = "o" /\ S!Other("o") = "i"
  /\ \A e \in S!End : S!Other(e) \in S!End /\ S!Other(e) # e /\ S!Other(S!Other(e)) = e
BY DEF S!End, S!Other

LEMMA STypes ==
  ASSUME SInv, NEW e \in S!End
  PROVE  /\ got[e] \in Seq(Byte) /\ outbox[e] \in Seq(Byte)
         /\ chunk[e] \in Seq(Byte) /\ inbox[e] \in Seq(Byte)
         /\ sent[e] \in 0..Bytes /\ EndOf(e) /\ Whole(e)
BY DEF SInv, Ends, STyped

LEMMA SInit == S!Init => SInv
<1> SUFFICES ASSUME S!Init PROVE SInv
  OBVIOUS
<1>1. <<>> \in Seq(Byte) /\ 0 \in 0..Bytes
  BY StreamsAssumption, EmptySeq
<1>2. STyped
  <2>1. /\ inbox \in [S!End -> Seq(Byte)] /\ outbox \in [S!End -> Seq(Byte)]
        /\ got \in [S!End -> Seq(Byte)] /\ chunk \in [S!End -> Seq(Byte)]
        /\ sent \in [S!End -> 0..Bytes]
    BY <1>1 DEF S!Init
  <2> QED BY <2>1 DEF S!Init, STyped
<1>3. Ends
  BY Others DEF S!Init, Ends, EndOf
<1>4. ASSUME NEW e \in S!End PROVE Whole(e)
  <2>1. Line(e) = <<>> \o <<>> \o <<>> \o <<>>
    BY Others DEF S!Init, Line
  <2>2. S!Sent(e) = <<>>
    BY DEF S!Init, S!Sent
  <2> QED BY <2>1, <2>2 DEF Whole
<1> QED BY <1>2, <1>3, <1>4 DEF SInv

\* What came from e is where it was, and is no longer lost than it was.
LEMMA SameLine ==
  ASSUME SInv, NEW e \in S!End, Flows(e)' => Flows(e),
         /\ got'[S!Other(e)] = got[S!Other(e)] /\ outbox'[S!Other(e)] = outbox[S!Other(e)]
         /\ chunk'[e] = chunk[e] /\ inbox'[e] = inbox[e] /\ sent'[e] = sent[e]
  PROVE  Whole(e)'
<1>1. Line(e)' = Line(e)
  BY DEF Line
<1>2. S!Sent(e)' = S!Sent(e)
  BY DEF S!Sent
<1>3. Whole(e)
  BY STypes
<1> QED BY <1>1, <1>2, <1>3 DEF Whole

\* Dialing comes before dup, and moves no byte.
LEMMA SDialing ==
  ASSUME SInv, S!Dial \/ S!Dialed \/ S!StartDup
  PROVE  SInv'
<1>1. STyped'
  <2>1. CASE S!Dial
    <3>1. /\ connected' \in [S!End -> BOOLEAN] /\ dialing' \in {"idle", "waiting", "done", "failed"}
          /\ peer' \in [S!End -> {"none", "open", "closed", "reset"}]
      <4>1. /\ connected \in [S!End -> BOOLEAN] /\ peer \in [S!End -> {"none", "open", "closed", "reset"}]
            /\ dialing \in {"idle", "waiting", "done", "failed"}
        BY DEF SInv, STyped
      <4>2. \/ /\ dialing' = "done" /\ connected' = [connected EXCEPT !["o"] = TRUE]
               /\ peer' = [peer EXCEPT !["o"] = "open"]
            \/ dialing' \in {"failed", "waiting"} /\ UNCHANGED <<connected, peer>>
        BY <2>1 DEF S!Dial
      <4> QED BY <4>1, <4>2
    <3>2. UNCHANGED S!copying
      BY <2>1 DEF S!Dial
    <3> QED BY <3>1, <3>2 DEF SInv, STyped, S!copying
  <2>2. CASE S!Dialed
    BY <2>2 DEF SInv, STyped, S!Dialed, S!copying, S!End
  <2>3. CASE S!StartDup
    BY <2>3 DEF SInv, STyped, S!StartDup, S!copying, S!End
  <2> QED BY <2>1, <2>2, <2>3
<1>2. /\ UNCHANGED <<inbox, sent, outbox, got, chunk, pumpCancelled, gaveUp>>
      /\ peer'["i"] = peer["i"]
      /\ peer'["o"] = peer["o"] \/ (peer["o"] = "none" /\ peer'["o"] = "open")
  BY DEF SInv, STyped, Ends, S!Dial, S!Dialed, S!StartDup, S!copying, S!End
<1>3. Ends'
  <2>1. CASE S!StartDup
    <3>1. pump' = [e \in S!End |-> "reading"] /\ UNCHANGED <<dialing, peer>> /\ dialing = "done"
      BY <2>1 DEF S!StartDup
    <3>2. pump["i"] = "none" /\ pump["o"] = "none"
      BY <2>1 DEF S!StartDup, SInv, Ends
    <3> QED BY <1>2, <3>1, <3>2, Others DEF SInv, Ends, EndOf
  <2>2. CASE S!Dial \/ S!Dialed
    <3>1. UNCHANGED pump /\ dialing # "done"
      BY <2>2 DEF S!Dial, S!Dialed, S!copying
    <3>2. pump["i"] = "none" /\ pump["o"] = "none" /\ peer["o"] = "none"
      BY <3>1 DEF SInv, Ends
    <3>3. dialing' # "done" => peer'["o"] = "none"
      BY <2>2, <3>2 DEF SInv, STyped, S!Dial, S!Dialed, S!End
    <3> QED BY <1>2, <3>1, <3>2, <3>3, Others DEF SInv, Ends, EndOf
  <2> QED BY <2>1, <2>2
<1>4. ASSUME NEW e \in S!End PROVE Whole(e)'
  <2>1. Flows(e)' => Flows(e)
    BY <1>2, Others DEF Flows
  <2> QED BY <1>2, <2>1, SameLine
<1> QED BY <1>1, <1>3, <1>4 DEF SInv

\* The peers change no task, and only they make a connection closed or reset.
LEMMA SPeers ==
  ASSUME SInv, NEW d \in S!End, STyped',
         S!PeerSends(d) \/ S!PeerTakes(d) \/ S!PeerCloses(d) \/ S!PeerResets(d)
  PROVE  Ends' /\ \A e \in S!End : Flows(e)' => Flows(e)
<1>1. /\ UNCHANGED <<dialing, pump, chunk, pumpCancelled, gaveUp>>
      /\ \A e \in S!End : \/ peer'[e] = peer[e] /\ (peer[e] # "open" => inbox'[e] = inbox[e])
                          \/ /\ peer[e] \in {"open", "closed"} /\ peer'[e] \in {"closed", "reset"}
                             /\ peer[e] = "closed" => peer'[e] = "reset"
  BY DEF S!PeerSends, S!PeerTakes, S!PeerCloses, S!PeerResets, S!unpeered, SInv, STyped
<1>2. Ends'
  BY <1>1, Others DEF SInv, Ends, EndOf
<1> QED BY <1>1, <1>2, Others DEF Flows

LEMMA SPeerSends ==
  ASSUME SInv, NEW d \in S!End, S!PeerSends(d)
  PROVE  SInv'
<1> DEFINE x == sent[d] + 1
           before == got[S!Other(d)] \o outbox[S!Other(d)] \o chunk[d]
<1>1. /\ sent[d] \in Nat /\ x \in Byte /\ sent[d] + 1 \in 0..Bytes
      /\ inbox[d] \in Seq(Byte) /\ Append(inbox[d], x) \in Seq(Byte) /\ before \in Seq(Byte)
  <2>1. sent[d] \in 0..Bytes /\ Bytes \in Nat /\ sent[d] < Bytes
    BY STypes, StreamsAssumption DEF S!PeerSends
  <2>2. sent[d] \in Nat /\ x \in Byte /\ sent[d] + 1 \in 0..Bytes
    BY <2>1 DEF Byte
  <2>3. /\ inbox[d] \in Seq(Byte) /\ chunk[d] \in Seq(Byte)
        /\ got[S!Other(d)] \in Seq(Byte) /\ outbox[S!Other(d)] \in Seq(Byte)
    BY STypes, Others
  <2> HIDE DEF x
  <2>4. Append(inbox[d], x) \in Seq(Byte)
    BY <2>2, <2>3, AppendProperties
  <2>5. before \in Seq(Byte)
    BY <2>3, ConcatProperties
  <2> QED BY <2>2, <2>3, <2>4, <2>5
<1>2. /\ sent' = [sent EXCEPT ![d] = x] /\ inbox' = [inbox EXCEPT ![d] = Append(inbox[d], x)]
      /\ UNCHANGED <<connected, dialing, peer, pump, chunk, pumpCancelled, gaveUp, outbox, got>>
  BY DEF S!PeerSends, S!unpeered, SInv, STyped
<1>3. STyped'
  BY <1>1, <1>2 DEF SInv, STyped
<1>4. Ends' /\ \A e \in S!End : Flows(e)' => Flows(e)
  BY <1>3, SPeers
<1>5. ASSUME NEW e \in S!End PROVE Whole(e)'
  <2>1. CASE e # d
    <3>1. inbox'[e] = inbox[e] /\ sent'[e] = sent[e]
      BY <1>2, <2>1 DEF SInv, STyped
    <3> QED BY <1>2, <1>4, <3>1, SameLine
  <2>2. CASE e = d
    <3> SUFFICES ASSUME Flows(d)' PROVE Line(d)' = S!Sent(d)'
      BY <2>2 DEF Whole
    <3>1. before \o inbox[d] = S!Sent(d)
      BY <1>4, STypes DEF Whole, Line
    <3>2. inbox'[d] = Append(inbox[d], x) /\ sent'[d] = x
      BY <1>2 DEF SInv, STyped
    <3>3. Line(d)' = before \o Append(inbox[d], x)
      BY <1>2, <3>2 DEF Line
    <3> HIDE DEF before
    <3>4. before \o Append(inbox[d], x) = Append(before \o inbox[d], x)
      <4> HIDE DEF x
      <4> QED BY <1>1, AppendToJoined
    <3>5. Append(S!Sent(d), x) = [n \in 1..x |-> n]
      <4>1. S!Sent(d) = [n \in 1..sent[d] |-> n]
        BY DEF S!Sent
      <4> QED BY <1>1, <4>1, CountedOn
    <3>6. S!Sent(d)' = [n \in 1..x |-> n]
      BY <3>2 DEF S!Sent
    <3> QED BY <3>1, <3>3, <3>4, <3>5, <3>6
  <2> QED BY <2>1, <2>2
<1> QED BY <1>3, <1>4, <1>5 DEF SInv

LEMMA SPeerTakes ==
  ASSUME SInv, NEW d \in S!End, S!PeerTakes(d)
  PROVE  SInv'
<1> DEFINE g == got[d]
           o == outbox[d]
<1>1. /\ g \in Seq(Byte) /\ o \in Seq(Byte) /\ o # <<>>
      /\ got' = [got EXCEPT ![d] = Append(g, Head(o))] /\ outbox' = [outbox EXCEPT ![d] = Tail(o)]
      /\ UNCHANGED <<connected, dialing, peer, pump, chunk, pumpCancelled, gaveUp, inbox, sent>>
  BY STypes DEF S!PeerTakes, S!unpeered, SInv, STyped
<1> HIDE DEF g, o
<1>2. Append(g, Head(o)) \in Seq(Byte) /\ Tail(o) \in Seq(Byte)
  <2>1. Head(o) \in Byte /\ Tail(o) \in Seq(Byte)
    BY <1>1, HeadTailProperties
  <2> QED BY <1>1, <2>1, AppendProperties
<1>3. STyped'
  BY <1>1, <1>2 DEF SInv, STyped
<1>4. Ends' /\ \A e \in S!End : Flows(e)' => Flows(e)
  BY <1>3, SPeers
<1>5. ASSUME NEW e \in S!End PROVE Whole(e)'
  <2>1. CASE S!Other(e) # d
    <3>1. got'[S!Other(e)] = got[S!Other(e)] /\ outbox'[S!Other(e)] = outbox[S!Other(e)]
      BY <1>1, <2>1, Others DEF SInv, STyped
    <3> QED BY <1>1, <1>4, <3>1, SameLine
  <2>2. CASE S!Other(e) = d
    <3>1. got'[d] = Append(g, Head(o)) /\ outbox'[d] = Tail(o)
      BY <1>1 DEF SInv, STyped
    <3>2. Append(g, Head(o)) \o Tail(o) = g \o o
      BY <1>1, HeadMoves
    <3>3. Line(e)' = (Append(g, Head(o)) \o Tail(o)) \o chunk[e] \o inbox[e]
      BY <1>1, <2>2, <3>1 DEF Line
    <3>4. Line(e)' = Line(e)
      BY <2>2, <3>2, <3>3, Zenon DEF Line, g, o
    <3>5. S!Sent(e)' = S!Sent(e)
      BY <1>1 DEF S!Sent
    <3> QED BY <1>4, <3>4, <3>5, STypes DEF Whole
  <2> QED BY <2>1, <2>2
<1> QED BY <1>3, <1>4, <1>5 DEF SInv

LEMMA SPeerGoes ==
  ASSUME SInv, NEW d \in S!End, S!PeerCloses(d) \/ S!PeerResets(d)
  PROVE  SInv'
<1>1. /\ UNCHANGED <<connected, dialing, pump, chunk, pumpCancelled, gaveUp, inbox, sent, outbox, got>>
      /\ \E x \in {"closed", "reset"} : peer' = [peer EXCEPT ![d] = x]
  BY DEF S!PeerCloses, S!PeerResets, S!unpeered
<1>2. STyped'
  BY <1>1 DEF SInv, STyped
<1>3. Ends' /\ \A e \in S!End : Flows(e)' => Flows(e)
  BY <1>2, SPeers
<1>4. \A e \in S!End : Whole(e)'
  BY <1>1, <1>3, SameLine
<1> QED BY <1>2, <1>3, <1>4 DEF SInv

\* A task of dup that goes on is neither the first nor the last to end.
LEMMA EndsKept ==
  ASSUME SInv, NEW d \in S!End, NEW x \in {"reading", "writing", "blocked"},
         pump[d] \in {"reading", "writing", "blocked"}, pump' = [pump EXCEPT ![d] = x],
         UNCHANGED <<dialing, peer, pumpCancelled>>,
         \A e \in S!End : e # d => chunk'[e] = chunk[e] /\ inbox'[e] = inbox[e],
         chunk'[d] # <<>> => x \in {"writing", "blocked"}
  PROVE  Ends'
<1>1. /\ pump'[d] = x /\ \A e \in S!End : e # d => pump'[e] = pump[e]
      /\ dialing = "done" /\ pump["i"] # "none" /\ pump["o"] # "none"
  BY Others DEF SInv, STyped, Ends
<1>2. pump'["i"] # "none" /\ pump'["o"] # "none"
  BY <1>1, Others
<1>3. ASSUME NEW e \in S!End PROVE EndOf(e)'
  <2>1. e \in pumpCancelled => pump'[S!Other(e)] = "ended"
    BY <1>1, Others DEF SInv, Ends, EndOf
  <2>2. CASE e = d
    BY <1>1, <2>1, <2>2 DEF EndOf
  <2>3. CASE e # d
    BY <1>1, <2>1, <2>3 DEF SInv, Ends, EndOf
  <2> QED BY <2>2, <2>3
<1> QED BY <1>1, <1>2, <1>3 DEF SInv, Ends

LEMMA SPumpReads ==
  ASSUME SInv, NEW d \in S!End, S!PumpReads(d)
  PROVE  SInv'
<1>1. /\ UNCHANGED <<connected, dialing, peer, sent, got, outbox, gaveUp>> /\ pump[d] = "reading"
      /\ chunk[d] = <<>> /\ inbox[d] \in Seq(Byte)
  BY STypes DEF S!PumpReads, S!unpumped, EndOf
<1>2. CASE S!PumpEnds(d) /\ UNCHANGED <<inbox, chunk>>
  <2>1. /\ pump' = [pump EXCEPT ![d] = "ended"]
        /\ pumpCancelled' = IF pump[S!Other(d)] = "ended" THEN pumpCancelled
                            ELSE pumpCancelled \cup {S!Other(d)}
        /\ d \in pumpCancelled \/ peer[d] = "reset" \/ (peer[d] = "closed" /\ inbox[d] = <<>>)
    BY <1>1, <1>2 DEF S!PumpReads, S!PumpEnds, SInv, STyped
  <2>2. STyped'
    BY <1>1, <1>2, <2>1, Others DEF SInv, STyped
  <2>3. Ends'
    <3>1. /\ pump'[d] = "ended" /\ pump'[S!Other(d)] = pump[S!Other(d)]
          /\ dialing = "done" /\ pump["i"] # "none" /\ pump["o"] # "none"
      BY <1>1, <2>1, Others DEF SInv, STyped, Ends
    <3>2. pump'["i"] # "none" /\ pump'["o"] # "none"
      BY <3>1, Others
    <3>3. pumpCancelled' # S!End
      BY <2>1, Others DEF SInv, Ends, EndOf
    <3>4. EndOf(d)'
      BY <1>1, <1>2, <2>1, <3>1, Others DEF SInv, Ends, EndOf
    <3>5. EndOf(S!Other(d))'
      BY <1>1, <1>2, <2>1, <3>1, Others DEF SInv, Ends, EndOf
    <3>6. \A e \in S!End : e = d \/ e = S!Other(d)
      BY Others
    <3> QED BY <1>1, <3>1, <3>2, <3>3, <3>4, <3>5, <3>6 DEF Ends
  <2>4. ASSUME NEW e \in S!End PROVE Whole(e)'
    <3>1. Flows(e)' => Flows(e)
      BY <1>1, <2>1 DEF Flows
    <3> QED BY <1>1, <1>2, <3>1, SameLine
  <2> QED BY <2>2, <2>3, <2>4 DEF SInv
<1>3. CASE ~(S!PumpEnds(d) /\ UNCHANGED <<inbox, chunk>>)
  <2> DEFINE r == S!read(d)
             t == S!Rest(inbox[d], Len(r))
  <2>1. /\ chunk' = [chunk EXCEPT ![d] = r] /\ inbox' = [inbox EXCEPT ![d] = t]
        /\ pump' = [pump EXCEPT ![d] = "writing"] /\ UNCHANGED pumpCancelled
    BY <1>3 DEF S!PumpReads, SInv, STyped
  <2>2. r \in Seq(Byte) /\ t \in Seq(Byte) /\ r \o t = inbox[d]
    <3>1. LET b == S!recv(inbox[d], BufSize) IN
          /\ b \in Seq(Byte) /\ S!Rest(inbox[d], Len(b)) \in Seq(Byte)
          /\ b \o S!Rest(inbox[d], Len(b)) = inbox[d]
      <4>1. BufSize \in Int
        BY StreamsAssumption
      <4> QED BY <1>1, <4>1, Split
    <3> QED BY <3>1, Zenon DEF S!read
  <2> HIDE DEF r, t
  <2>3. STyped'
    BY <1>1, <2>1, <2>2 DEF SInv, STyped
  <2>4. Ends'
    <3>1. \A e \in S!End : e # d => chunk'[e] = chunk[e] /\ inbox'[e] = inbox[e]
      BY <2>1 DEF SInv, STyped
    <3> QED BY <1>1, <2>1, <3>1, EndsKept
  <2>5. ASSUME NEW e \in S!End PROVE Whole(e)'
    <3>1. Flows(e)' <=> Flows(e)
      BY <1>1, <2>1 DEF Flows
    <3>2. CASE e # d
      <4>1. chunk'[e] = chunk[e] /\ inbox'[e] = inbox[e]
        BY <2>1, <3>2 DEF SInv, STyped
      <4> QED BY <1>1, <3>1, <4>1, SameLine
    <3>3. CASE e = d
      <4> DEFINE w == got[S!Other(d)] \o outbox[S!Other(d)]
      <4>1. w \in Seq(Byte)
        BY STypes, Others, ConcatProperties
      <4>2. chunk'[d] = r /\ inbox'[d] = t
        BY <2>1 DEF SInv, STyped
      <4>3. Line(d)' = w \o r \o t /\ Line(d) = w \o <<>> \o inbox[d]
        BY <1>1, <4>2 DEF Line
      <4> HIDE DEF w
      <4>4. w \o <<>> = w
        BY <4>1, ConcatEmptySeq
      <4>5. w \o r \o t = w \o (r \o t)
        <5>1. r \in Seq(Byte) /\ t \in Seq(Byte)
          BY <2>2
        <5> QED BY <4>1, <5>1, ConcatAssociative
      <4>6. Line(d)' = Line(d)
        BY <2>2, <4>3, <4>4, <4>5, Zenon
      <4>7. S!Sent(d)' = S!Sent(d)
        BY <1>1 DEF S!Sent
      <4> QED BY <3>1, <3>3, <4>6, <4>7, STypes DEF Whole
    <3> QED BY <3>2, <3>3
  <2> QED BY <2>3, <2>4, <2>5 DEF SInv
<1> QED BY <1>2, <1>3

\* What a write gives up is lost: its line no longer flows.
LEMMA GivenUp ==
  ASSUME SInv, NEW d \in S!End, S!WriteEnds(d), pump[d] \in {"writing", "blocked"},
         UNCHANGED <<connected, dialing, peer, sent, got, inbox, outbox, pumpCancelled>>,
         gaveUp' \subseteq S!End, gaveUp \subseteq gaveUp',
         \/ d \in pumpCancelled \/ peer[S!Other(d)] = "reset"
         \/ S!Other(d) \in gaveUp'
  PROVE  SInv'
<1>1. pump' = [pump EXCEPT ![d] = "reading"] /\ chunk' = [chunk EXCEPT ![d] = <<>>]
  BY DEF S!WriteEnds
<1>2. STyped'
  <2>1. <<>> \in Seq(Byte)
    BY EmptySeq
  <2> QED BY <1>1, <2>1 DEF SInv, STyped
<1>3. Ends'
  <2>1. /\ chunk'[d] = <<>> /\ \A e \in S!End : e # d => chunk'[e] = chunk[e]
    BY <1>1 DEF SInv, STyped
  <2> QED BY <1>1, <2>1, EndsKept
<1>4. ASSUME NEW e \in S!End PROVE Whole(e)'
  <2>1. CASE e # d
    <3>1. Flows(e)' => Flows(e)
      BY DEF Flows
    <3>2. chunk'[e] = chunk[e]
      BY <1>1, <2>1 DEF SInv, STyped
    <3> QED BY <3>1, <3>2, SameLine
  <2>2. CASE e = d
    BY <2>2 DEF Whole, Flows
  <2> QED BY <2>1, <2>2
<1> QED BY <1>2, <1>3, <1>4 DEF SInv

LEMMA SPumpWaited ==
  ASSUME SInv, NEW d \in S!End, S!PumpWaited(d)
  PROVE  SInv'
<1>1. /\ UNCHANGED <<connected, dialing, peer, sent, got, inbox, outbox, pumpCancelled>>
      /\ pump[d] = "blocked"
  BY DEF S!PumpWaited, S!unpumped
<1>2. CASE S!WriteEnds(d)
  <2>1. /\ gaveUp' \subseteq S!End /\ gaveUp \subseteq gaveUp'
        /\ d \in pumpCancelled \/ peer[S!Other(d)] = "reset" \/ S!Other(d) \in gaveUp'
    BY <1>1, <1>2, Others DEF S!PumpWaited, S!WriteEnds, SInv, STyped
  <2> QED BY <1>1, <1>2, <2>1, GivenUp
<1>3. CASE ~S!WriteEnds(d)
  <2>1. pump' = [pump EXCEPT ![d] = "writing"] /\ UNCHANGED <<chunk, gaveUp>>
    BY <1>3 DEF S!PumpWaited
  <2>2. STyped'
    BY <1>1, <2>1 DEF SInv, STyped
  <2>3. Ends'
    BY <1>1, <2>1, EndsKept
  <2>4. ASSUME NEW e \in S!End PROVE Whole(e)'
    <3>1. Flows(e)' => Flows(e)
      BY <1>1, <2>1 DEF Flows
    <3> QED BY <1>1, <2>1, <3>1, SameLine
  <2> QED BY <2>2, <2>3, <2>4 DEF SInv
<1> QED BY <1>2, <1>3

\* What the kernel takes of a chunk goes from the chunk to what the kernel has to send.
LEMMA SPumpWrites ==
  ASSUME SInv, NEW d \in S!End, S!PumpWrites(d)
  PROVE  SInv'
<1> DEFINE far == S!Other(d)
           now == S!write(far, chunk[d])
           rest == S!Rest(chunk[d], Len(now))
<1>1. /\ UNCHANGED <<connected, dialing, peer, sent, got, inbox, pumpCancelled, gaveUp>>
      /\ pump[d] = "writing" /\ far \in S!End
      /\ \/ peer[far] = "reset" /\ S!WriteEnds(d) /\ UNCHANGED outbox
         \/ /\ outbox' = [outbox EXCEPT ![far] = outbox[far] \o now]
            /\ \/ Len(now) = Len(chunk[d]) /\ S!WriteEnds(d)
               \/ /\ chunk' = [chunk EXCEPT ![d] = rest]
                  /\ pump' = [pump EXCEPT ![d] = "blocked"]
  BY Others DEF S!PumpWrites, S!unpumped, SInv, STyped
<1>2. /\ chunk[d] \in Seq(Byte) /\ outbox[far] \in Seq(Byte) /\ got[far] \in Seq(Byte)
      /\ inbox[d] \in Seq(Byte)
  BY <1>1, STypes
<1>3. /\ now \in Seq(Byte) /\ rest \in Seq(Byte) /\ now \o rest = chunk[d]
      /\ Len(now) = Len(chunk[d]) => now = chunk[d]
  <2> DEFINE n == SndBuf - Len(outbox[far])
  <2>1. n \in Int /\ Package \in Int
    BY <1>2, StreamsAssumption, LenProperties
  <2> HIDE DEF n
  <2>2. LET r == S!recv(S!recv(chunk[d], Package), n) IN
        /\ r \in Seq(Byte) /\ S!Rest(chunk[d], Len(r)) \in Seq(Byte)
        /\ r \o S!Rest(chunk[d], Len(r)) = chunk[d]
        /\ Len(r) = Len(chunk[d]) => r = chunk[d]
    BY <1>2, <2>1, SplitTwice
  <2> QED BY <2>2, Zenon DEF S!write, n
<1> HIDE DEF now, rest
<1>4. CASE peer[far] = "reset" /\ S!WriteEnds(d) /\ UNCHANGED outbox
  <2>1. gaveUp' \subseteq S!End /\ gaveUp \subseteq gaveUp'
    BY <1>1 DEF SInv, STyped
  <2> QED BY <1>1, <1>4, <2>1, GivenUp
<1>5. ASSUME NEW c \in Seq(Byte), NEW x \in {"reading", "blocked"},
             outbox' = [outbox EXCEPT ![far] = outbox[far] \o now],
             chunk' = [chunk EXCEPT ![d] = c], pump' = [pump EXCEPT ![d] = x],
             now \o c = chunk[d], x = "reading" => c = <<>>
      PROVE  SInv'
  <2>1. outbox[far] \o now \in Seq(Byte)
    BY <1>2, <1>3, ConcatProperties
  <2>2. STyped'
    BY <1>1, <1>5, <2>1 DEF SInv, STyped
  <2>3. /\ chunk'[d] = c /\ outbox'[far] = outbox[far] \o now
        /\ \A e \in S!End : e # d => chunk'[e] = chunk[e] /\ outbox'[S!Other(e)] = outbox[S!Other(e)]
    BY <1>1, <1>5, Others DEF SInv, STyped
  <2>4. Ends'
    BY <1>1, <1>5, <2>3, EndsKept
  <2>5. ASSUME NEW e \in S!End PROVE Whole(e)'
    <3>1. Flows(e)' <=> Flows(e)
      BY <1>1 DEF Flows
    <3>2. CASE e # d
      BY <1>1, <2>3, <3>1, <3>2, SameLine
    <3>3. CASE e = d
      <4>1. /\ Line(d)' = got[far] \o (outbox[far] \o now) \o c \o inbox[d]
            /\ Line(d) = got[far] \o outbox[far] \o chunk[d] \o inbox[d]
        BY <1>1, <2>3, Zenon DEF Line
      <4>2. got[far] \o (outbox[far] \o now) \o c = got[far] \o outbox[far] \o (now \o c)
        <5> DEFINE g == got[far]
                   o == outbox[far]
        <5>1. g \in Seq(Byte) /\ o \in Seq(Byte) /\ now \in Seq(Byte) /\ c \in Seq(Byte)
          BY <1>2, <1>3
        <5> HIDE DEF g, o
        <5>2. g \o (o \o now) = (g \o o) \o now
          BY <5>1, ThreeJoined
        <5>3. ((g \o o) \o now) \o c = (g \o o) \o (now \o c)
          <6>1. g \o o \in Seq(Byte)
            BY <5>1
          <6>2. \A h \in Seq(Byte) : (h \o now) \o c = h \o (now \o c)
            BY <5>1, ThreeJoined
          <6> QED BY <6>1, <6>2
        <5>4. (g \o (o \o now)) \o c = (g \o o) \o (now \o c)
          BY <5>2, <5>3
        <5> QED BY <5>4 DEF g, o
      <4>3. Line(d)' = Line(d)
        BY <1>5, <4>1, <4>2, Zenon
      <4>4. S!Sent(d)' = S!Sent(d)
        BY <1>1 DEF S!Sent
      <4> QED BY <3>1, <3>3, <4>3, <4>4, STypes DEF Whole
    <3> QED BY <3>2, <3>3
  <2> QED BY <2>2, <2>4, <2>5 DEF SInv
<1>6. CASE /\ outbox' = [outbox EXCEPT ![far] = outbox[far] \o now]
           /\ Len(now) = Len(chunk[d]) /\ S!WriteEnds(d)
  <2>1. <<>> \in Seq(Byte) /\ now \o <<>> = chunk[d]
    BY <1>3, <1>6, EmptySeq, ConcatEmptySeq
  <2> QED BY <1>5, <1>6, <2>1 DEF S!WriteEnds
<1> QED BY <1>1, <1>3, <1>4, <1>5, <1>6

LEMMA SNext == SInv /\ [S!Next]_svars => SInv'
<1> SUFFICES ASSUME SInv, [S!Next]_svars PROVE SInv'
  OBVIOUS
<1>1. CASE S!Dial \/ S!Dialed \/ S!StartDup
  BY <1>1, SDialing
<1>2. ASSUME NEW d \in S!End, S!PumpReads(d) \/ S!PumpWrites(d) \/ S!PumpWaited(d)
      PROVE  SInv'
  BY <1>2, SPumpReads, SPumpWrites, SPumpWaited
<1>3. ASSUME NEW d \in S!End,
             S!PeerSends(d) \/ S!PeerTakes(d) \/ S!PeerCloses(d) \/ S!PeerResets(d)
      PROVE  SInv'
  BY <1>3, SPeerSends, SPeerTakes, SPeerGoes
<1>4. CASE UNCHANGED svars
  BY <1>4 DEF svars, SInv, STyped, Ends, EndOf, Whole, Flows, Line, S!Sent
<1> QED BY <1>1, <1>2, <1>3, <1>4 DEF S!Next

\* When both have ended and the side of a task still stands, that task was cancelled; so
\* the other was not, and ended because all had been read.
LEMMA SArrives == SInv => S!EverythingArrives
<1> SUFFICES ASSUME SInv, NEW e \in S!End, pump["i"] = "ended", pump["o"] = "ended",
                    peer[e] = "closed", peer[S!Other(e)] = "open", S!Other(e) \notin gaveUp
             PROVE  got[S!Other(e)] \o outbox[S!Other(e)] = S!Sent(e)
  BY DEF S!EverythingArrives
<1>1. EndOf(e) /\ EndOf(S!Other(e)) /\ pump[e] = "ended" /\ pump[S!Other(e)] = "ended"
  BY Others DEF SInv, Ends
<1>2. S!Other(e) \in pumpCancelled
  BY <1>1 DEF EndOf
<1>3. e \notin pumpCancelled
  <2>1. S!End = {e, S!Other(e)}
    BY Others
  <2> QED BY <1>2, <2>1 DEF SInv, Ends, STyped
<1>4. inbox[e] = <<>> /\ chunk[e] = <<>>
  BY <1>1, <1>3 DEF EndOf
<1>5. Line(e) = S!Sent(e)
  BY <1>3, STypes DEF Whole, Flows
<1> DEFINE w == got[S!Other(e)] \o outbox[S!Other(e)]
<1>6. w \in Seq(Byte)
  <2>1. got[S!Other(e)] \in Seq(Byte) /\ outbox[S!Other(e)] \in Seq(Byte)
    BY STypes, Others
  <2> QED BY <2>1, ConcatProperties
<1>7. Line(e) = w \o <<>> \o <<>>
  BY <1>4 DEF Line
<1> HIDE DEF w
<1>8. w \o <<>> = w
  BY <1>6, ConcatEmptySeq
<1>9. w = S!Sent(e)
  BY <1>5, <1>7, <1>8, Zenon
<1> QED BY <1>9 DEF w

\* tcp_connector and uds_connector with dup: as long as no write is given up, what each
\* peer has and will have is what the other sent, in order and without a hole; and when
\* the other closed first, all that it sent.
THEOREM StreamsStayWhole == Spec => []StreamsAreWhole
<1>1. Init => SInv
  BY SInit DEF Init
<1>2. SInv /\ [Next]_all => SInv'
  BY SNext, Parts
<1>3. SInv => S!NoHole
  BY STypes DEF S!NoHole, Whole, Flows, Line
<1>4. SInv => StreamsAreWhole
  BY <1>3, SArrives DEF StreamsAreWhole
<1> QED BY <1>1, <1>2, <1>4, PTL DEF Spec

----------------------------------------------------------------------------
(* Redis.                                                                  *)

Msg == Cmd \cup {"AUTH", "SELECT", "PING", "SUB", "UNSUB", "error", "msg"}

Reads(t) == at[t] \in R!Reading

\* The command whose reply t reads, and what may come as that reply.
Command(t) ==
  CASE at[t] = "query" -> Head(queue)
    [] at[t] = "ping" -> "PING"
    [] at[t] = "ack" -> "SUB"
    [] at[t] = "unsub" -> "UNSUB"
    [] OTHER -> at[t]
Replies(x) == {x} \cup (IF x \in {"AUTH", "SELECT"} THEN {"error"} ELSE {})

Places ==
  /\ at \in [R!Task -> {"none", "idle", "sleep", "dialing", "begin"} \cup R!Reading]
  /\ at["user"] \in {"idle", "dialing", "AUTH", "SELECT"} /\ at["inner"] \in {"idle", "query"}
  /\ at["sub"] \in {"none", "begin", "ack", "message", "unsub"}
  /\ \A k \in Keeper : at[k] \in {"none", "sleep", "ping"}
  /\ on \in [R!Task -> Conn \cup {None}]
  /\ \A t \in R!Task : Reads(t) \/ at[t] = "dialing" => on[t] \in Conn
  /\ woken \subseteq R!Task /\ \A t \in woken : Reads(t)

RTypes ==
  /\ Places
  /\ conn \in Conn \cup {None} /\ keeper \in Keeper \cup {None}
  /\ link \in [Conn -> {"none", "new", "up", "lost"}]
  /\ wire \in [Conn -> Seq(Msg)] /\ asked \in [Conn -> Seq(Msg)]
  /\ cancelled \subseteq Keeper \cup {"sub"}
  /\ queue \in Seq(Cmd) /\ last = <<>> /\ answer \in [Cmd -> {"none", "failed"} \cup Msg]
  /\ trouble \subseteq {"loss", "mixed", "cut", "stale"}
  /\ subscribe_task \in BOOLEAN /\ released \in BOOLEAN /\ crashed \in BOOLEAN

\* A connector is new while connect waits for it, and silent until then.
Links ==
  /\ conn # None => link[conn] # "none" /\ (link[conn] = "new" => at["user"] = "dialing")
  /\ at["user"] = "dialing" => link[on["user"]] = "new"
  /\ \A c \in Conn : link[c] \in {"none", "new"} => wire[c] = <<>> /\ asked[c] = <<>>
  /\ \A t \in R!Task : Reads(t) => link[on[t]] \in {"up", "lost"}
  /\ at["inner"] = "query" => queue # <<>>

\* Nothing is asked that is going to be answered.
Settled(c) == link[c] = "up" => asked[c] = <<>>

\* What t waits for is asked, or has arrived, or is lost; nothing else is there.
Fits(t) ==
  IF at[t] = "message" THEN Settled(on[t])
  ELSE \/ /\ wire[on[t]] = <<>>
          /\ link[on[t]] = "up" => asked[on[t]] \in {<<>>, <<Command(t)>>}
       \/ Settled(on[t]) /\ \E y \in Replies(Command(t)) : wire[on[t]] = <<y>>

\* While nothing is mixed: one task reads from a connector, and a connection that nobody
\* reads from is silent.
Apart ==
  /\ \A t, u \in R!Task : Reads(t) /\ Reads(u) /\ on[t] = on[u] => t = u
  /\ \A t \in R!Task : Reads(t) => Fits(t)
  /\ \A t \in woken : wire[on[t]] # <<>> \/ link[on[t]] = "lost"
  /\ conn # None /\ (\A t \in R!Task : Reads(t) => on[t] # conn) =>
       wire[conn] = <<>> /\ Settled(conn)
Own == \A x \in Cmd : answer[x] \in {"none", "failed", x}

\* While nothing has gone wrong, conn_ is the connector every task is suspended in.
Smooth ==
  /\ \A c \in Conn : link[c] # "lost"
  /\ at["user"] # "idle" => conn = on["user"] /\ queue = <<>>
  /\ queue # <<>> => conn # None /\ link[conn] # "new"
  /\ at["inner"] = "query" => on["inner"] = conn
  /\ at["sub"] \in R!Reading => on["sub"] = conn
  /\ ~crashed

RInv == /\ RTypes /\ Links
        /\ "mixed" \notin trouble => Apart /\ Own
        /\ trouble = {} => Smooth

LEMMA Roles ==
  /\ "user" \in R!Task /\ "inner" \in R!Task /\ "sub" \in R!Task
  /\ \A k \in Keeper : k \in R!Task /\ k \notin {"user", "inner", "sub"}
  /\ \A t \in R!Task : t \in Keeper \/ t \in {"user", "inner", "sub"}
  /\ R!Reading = {"AUTH", "SELECT", "query", "ping", "ack", "message", "unsub"}
BY RedisAssumption DEF R!Task, R!Reading

LEMMA RTypeOK == RTypes => R!TypeOK
<1>1. RTypes => {subscribe_task, released, crashed} \subseteq BOOLEAN
  BY DEF RTypes, Places
<1>2. RTypes => cancelled \subseteq R!Task
  BY Roles DEF RTypes, Places
<1> QED BY <1>1, <1>2 DEF RTypes, Places, R!TypeOK

LEMMA RInit == R!Init => RInv
<1> SUFFICES ASSUME R!Init PROVE RInv
  OBVIOUS
<1>1. RTypes
  <2>1. <<>> \in Seq(Msg) /\ <<>> \in Seq(Cmd)
    BY EmptySeq
  <2>2. wire \in [Conn -> Seq(Msg)] /\ asked \in [Conn -> Seq(Msg)]
    BY <2>1 DEF R!Init
  <2>3. \A t \in R!Task : at[t] \in {"idle", "none"} /\ ~Reads(t)
    BY Roles DEF R!Init, Reads
  <2>4. at \in [R!Task -> {"none", "idle", "sleep", "dialing", "begin"} \cup R!Reading]
    BY DEF R!Init
  <2>5. /\ at["user"] = "idle" /\ at["inner"] = "idle" /\ at["sub"] = "none"
        /\ \A k \in Keeper : at[k] = "none"
    BY Roles DEF R!Init
  <2> QED BY <2>1, <2>2, <2>3, <2>4, <2>5 DEF R!Init, RTypes, Places
<1>2. \A t \in R!Task : ~Reads(t)
  BY Roles DEF R!Init, Reads
<1>3. /\ at["user"] = "idle" /\ at["inner"] = "idle" /\ at["sub"] = "none"
      /\ conn = None /\ queue = <<>> /\ woken = {} /\ ~crashed
      /\ \A c \in Conn : wire[c] = <<>> /\ asked[c] = <<>> /\ link[c] = "none"
      /\ \A x \in Cmd : answer[x] = "none"
  BY Roles DEF R!Init
<1>4. Links /\ Apart /\ Own /\ Smooth
  BY <1>2, <1>3, Roles DEF Links, Apart, Own, Smooth
<1> QED BY <1>1, <1>4 DEF RInv

LEMMA MoveOne ==
  ASSUME RTypes, NEW t \in R!Task, NEW a, NEW c, R!Move(R!To(t, a, c))
  PROVE  at' = [at EXCEPT ![t] = a] /\ on' = [on EXCEPT ![t] = c] /\ woken' = woken \ {t}
<1>1. DOMAIN R!To(t, a, c) = {t} /\ R!To(t, a, c)[t] = <<a, c>>
  BY DEF R!To
<1>2. \A u \in R!Task : at'[u] = [at EXCEPT ![t] = a][u] /\ on'[u] = [on EXCEPT ![t] = c][u]
  BY <1>1 DEF R!Move, RTypes, Places
<1>3. at' = [u \in R!Task |-> [at EXCEPT ![t] = a][u]]
  BY <1>2 DEF R!Move
<1>4. on' = [u \in R!Task |-> [on EXCEPT ![t] = c][u]]
  BY <1>2 DEF R!Move
<1> QED BY <1>1, <1>3, <1>4 DEF R!Move, RTypes, Places

\* The tasks T have left what they were in, those of N now sleep, and no other has moved.
Left(T, a, N) ==
  /\ at' = [u \in R!Task |-> IF u \in T THEN a ELSE IF u \in N THEN "sleep" ELSE at[u]]
  /\ on' = [u \in R!Task |-> IF u \in T \cup N THEN None ELSE on[u]]
  /\ woken' = woken \ (T \cup N)

\* begin_keepalive_: at most one task is new, and it sleeps.
LEMMA KeepaliveMoves ==
  ASSUME RTypes, NEW T \in SUBSET {"user", "sub"}, NEW f, DOMAIN f = T, NEW a,
         \A t \in T : f[t] = <<a, None>>, R!BeginKeepalive(f)
  PROVE  /\ subscribe_task' = FALSE /\ cancelled' \subseteq Keeper \cup {"sub"}
         /\ keeper' \in Keeper \cup {None}
         /\ \E N \in SUBSET {k \in Keeper : at[k] = "none"} : Left(T, a, N)
<1>1. T \subseteq R!Task /\ T \cap Keeper = {}
  BY Roles
<1>2. subscribe_task' = FALSE /\ cancelled' \subseteq Keeper \cup {"sub"}
  BY DEF R!BeginKeepalive, RTypes, Places
<1>3. CASE conn # None /\ link'[conn] # "new"
  <2> DEFINE k == CHOOSE j \in Keeper : at[j] = "none"
             g == R!To(k, "sleep", None)
             h == R!And(f, g)
  <2>1. k \in Keeper /\ at[k] = "none" /\ keeper' = k /\ R!Move(h)
    <3>1. (\E j \in Keeper : at[j] = "none") /\ keeper' = k /\ R!Move(h)
      BY <1>3, Zenon DEF R!BeginKeepalive
    <3>2. k \in Keeper /\ at[k] = "none"
      BY <3>1, Zenon
    <3> QED BY <3>1, <3>2
  <2>2. DOMAIN g = {k} /\ g[k] = <<"sleep", None>>
    BY DEF R!To
  <2> HIDE DEF k, g
  <2>3. /\ DOMAIN h = T \cup {k} /\ h[k] = <<"sleep", None>> /\ \A t \in T : h[t] = <<a, None>>
    BY <1>1, <2>1, <2>2 DEF R!And
  <2> HIDE DEF h
  <2>4. Left(T, a, {k})
    BY <1>1, <2>1, <2>3 DEF R!Move, Left
  <2> QED BY <1>2, <2>1, <2>4
<1>4. CASE ~(conn # None /\ link'[conn] # "new")
  <2>1. keeper' = keeper /\ R!Move(f)
    BY <1>4 DEF R!BeginKeepalive
  <2>2. Left(T, a, {})
    <3>1. ASSUME NEW u \in T PROVE f[u][1] = a /\ f[u][2] = None
      <4>1. f[u] = <<a, None>>
        OBVIOUS
      <4> QED BY <4>1
    <3>2. at' = [u \in R!Task |-> IF u \in T THEN f[u][1] ELSE at[u]]
      BY <2>1, Zenon DEF R!Move
    <3>3. on' = [u \in R!Task |-> IF u \in T THEN f[u][2] ELSE on[u]]
      BY <2>1, Zenon DEF R!Move
    <3>4. woken' = woken \ T
      BY <2>1, Zenon DEF R!Move
    <3>5. /\ at' = [u \in R!Task |-> IF u \in T THEN a ELSE at[u]]
          /\ on' = [u \in R!Task |-> IF u \in T THEN None ELSE on[u]]
      BY <3>1, <3>2, <3>3
    <3>6. T \cup {} = T
      OBVIOUS
    <3> QED BY <3>4, <3>5, <3>6 DEF Left
  <2> QED BY <1>2, <2>1, <2>2 DEF RTypes, Places
<1> QED BY <1>3, <1>4

\* Neither the task nor what it waits for has changed; nor has a connector.
Still(u) == /\ at'[u] = at[u] /\ on'[u] = on[u] /\ (u \in woken' => u \in woken)
            /\ Command(u)' = Command(u)
SameAt(c) == wire'[c] = wire[c] /\ asked'[c] = asked[c] /\ link'[c] = link[c]

LEMMA StillFits ==
  ASSUME RTypes, Apart, NEW u \in R!Task, Reads(u), Still(u), SameAt(on[u])
  PROVE  /\ Reads(u)' /\ Fits(u)'
         /\ u \in woken' => wire'[on'[u]] # <<>> \/ link'[on'[u]] = "lost"
<1>1. Fits(u) /\ (u \in woken => wire[on[u]] # <<>> \/ link[on[u]] = "lost")
  BY DEF Apart
<1>2. Reads(u)'
  BY DEF Reads, Still
<1>3. Fits(u)'
  BY <1>1 DEF Fits, Still, SameAt, Settled
<1> QED BY <1>1, <1>2, <1>3 DEF Still, SameAt

\* The tasks of T read no more, or never did, and the others go on; the connection is
\* null, or silent, or as it was and none of T has read from it.
LEMMA ApartLeft ==
  ASSUME RInv, woken' \subseteq R!Task, \A t \in woken' : Reads(t)', "mixed" \notin trouble,
         NEW T \in SUBSET R!Task,
         \A t \in T : ~Reads(t)',
         \A u \in R!Task \ T : (Reads(u)' => Reads(u)) /\ (Reads(u) => Still(u) /\ SameAt(on[u])),
         \/ conn' = None
         \/ conn' # None /\ wire'[conn'] = <<>> /\ Settled(conn)'
         \/ conn' = conn /\ SameAt(conn) /\ \A t \in T : Reads(t) => on[t] # conn
  PROVE  Apart'
<1>1. RTypes /\ Apart
  BY DEF RInv
<1>2. ASSUME NEW u \in R!Task, Reads(u)'
      PROVE  /\ u \notin T /\ Reads(u) /\ on'[u] = on[u] /\ Fits(u)'
             /\ u \in woken' => wire'[on'[u]] # <<>> \/ link'[on'[u]] = "lost"
  <2>1. u \notin T /\ Reads(u) /\ Still(u) /\ SameAt(on[u])
    BY <1>2
  <2> QED BY <1>1, <2>1, StillFits DEF Still
<1>3. \A t, u \in R!Task : Reads(t)' /\ Reads(u)' /\ on'[t] = on'[u] => t = u
  BY <1>1, <1>2 DEF Apart
<1>4. ASSUME conn' # None, \A t \in R!Task : Reads(t)' => on'[t] # conn'
      PROVE  wire'[conn'] = <<>> /\ Settled(conn)'
  <2>1. CASE conn' = conn /\ SameAt(conn) /\ \A t \in T : Reads(t) => on[t] # conn
    <3>1. \A t \in R!Task : Reads(t) => on[t] # conn
      <4> TAKE t \in R!Task
      <4>1. CASE t \in T
        BY <2>1, <4>1
      <4>2. CASE t \notin T /\ Reads(t)
        <5>1. Still(t) /\ SameAt(on[t])
          BY <4>2
        <5>2. Reads(t)' /\ on'[t] = on[t]
          BY <4>2, <5>1, <1>1, StillFits DEF Still
        <5> QED BY <1>4, <2>1, <5>2
      <4> QED BY <4>1, <4>2
    <3>2. conn # None
      BY <1>4, <2>1
    <3>3. wire[conn] = <<>> /\ Settled(conn)
      BY <1>1, <3>1, <3>2 DEF Apart
    <3> QED BY <2>1, <3>3 DEF SameAt, Settled
  <2> QED BY <1>4, <2>1
<1> QED BY <1>2, <1>3, <1>4 DEF Apart

\* The task t reads from the connection from now on, and nobody else does.
LEMMA ApartReads ==
  ASSUME RInv, "mixed" \notin trouble, NEW t \in R!Task, NEW a \in R!Reading,
         conn \in Conn, conn' = conn, woken' = woken \ {t},
         at' = [at EXCEPT ![t] = a], on' = [on EXCEPT ![t] = conn],
         Fits(t)', \A c \in Conn \ {conn} : SameAt(c),
         \A u \in R!Task \ {t} : Reads(u) => on[u] # conn /\ Command(u)' = Command(u)
  PROVE  Apart'
<1>1. RTypes /\ Apart
  BY DEF RInv
<1>2. /\ at'[t] = a /\ on'[t] = conn /\ t \notin woken' /\ Reads(t)'
      /\ \A u \in R!Task \ {t} : at'[u] = at[u] /\ on'[u] = on[u] /\ (u \in woken' => u \in woken)
  BY <1>1 DEF RTypes, Places, Reads
<1>3. ASSUME NEW u \in R!Task \ {t}, Reads(u)'
      PROVE  /\ Reads(u) /\ on'[u] = on[u] /\ on[u] # conn /\ Fits(u)'
             /\ u \in woken' => wire'[on'[u]] # <<>> \/ link'[on'[u]] = "lost"
  <2>1. Reads(u)
    BY <1>2, <1>3 DEF Reads
  <2>2. Still(u)
    BY <1>2, <2>1 DEF Still
  <2>3. on[u] \in Conn \ {conn}
    BY <1>1, <2>1 DEF RTypes, Places
  <2>4. SameAt(on[u])
    BY <2>3
  <2> QED BY <1>1, <1>2, <2>1, <2>2, <2>3, <2>4, StillFits
<1>4. \A s, u \in R!Task : Reads(s)' /\ Reads(u)' /\ on'[s] = on'[u] => s = u
  <2> TAKE s, u \in R!Task
  <2>1. CASE s = t \/ u = t
    BY <1>2, <1>3, <2>1
  <2>2. CASE s # t /\ u # t
    BY <1>1, <1>3, <2>2 DEF Apart
  <2> QED BY <2>1, <2>2
<1>5. \A u \in R!Task : Reads(u)' => Fits(u)'
  BY <1>3
<1>6. \A u \in woken' : wire'[on'[u]] # <<>> \/ link'[on'[u]] = "lost"
  BY <1>1, <1>2, <1>3 DEF RTypes, Places, Reads
<1> QED BY <1>2, <1>4, <1>5, <1>6 DEF Apart

\* The task t sends a command and waits for its reply: if that is not "mixed", nobody else
\* reads from the connection, which is silent.
LEMMA ApartSent ==
  ASSUME RInv, "mixed" \notin trouble, NEW t \in R!Task, NEW x,
         NEW a \in R!Reading \ {"message"}, R!Send(t, x),
         conn \in Conn, conn' = conn, woken' = woken \ {t},
         at' = [at EXCEPT ![t] = a], on' = [on EXCEPT ![t] = conn],
         Command(t)' = x,
         \A c \in Conn \ {conn} : wire'[c] = wire[c] /\ link'[c] = link[c],
         (\A u \in R!Task \ {t} : Reads(u) => on[u] # conn) =>
            wire'[conn] = <<>> /\ (link'[conn] = "up" => asked[conn] = <<>>),
         \A u \in R!Task \ {t} : Reads(u) => Command(u)' = Command(u)
  PROVE  "mixed" \notin trouble' => Apart'
<1> SUFFICES ASSUME "mixed" \notin trouble' PROVE Apart'
  OBVIOUS
<1>1. RTypes
  BY DEF RInv
<1>2. \A u \in R!Task \ {t} : Reads(u) => on[u] # conn
  BY DEF R!Send, Reads
<1>3. /\ \A c \in Conn \ {conn} : SameAt(c)
      /\ asked'[conn] = IF link'[conn] = "up" THEN <<x>> ELSE asked[conn]
      /\ wire'[conn] = <<>>
  <2>1. wire'[conn] = <<>> /\ (link'[conn] = "up" => asked[conn] = <<>>)
    BY <1>2
  <2>2. Append(<<>>, x) = <<x>>
    OBVIOUS
  <2>3. link'[conn] = "up" => Append(asked[conn], x) = <<x>>
    BY <2>1, <2>2
  <2>4. asked' = [asked EXCEPT ![conn] = IF link'[conn] = "up" THEN Append(@, x) ELSE @]
    BY DEF R!Send
  <2>5. asked'[conn] = IF link'[conn] = "up" THEN <<x>> ELSE asked[conn]
    BY <1>1, <2>3, <2>4 DEF RTypes
  <2>6. \A c \in Conn \ {conn} : asked'[c] = asked[c]
    BY <1>1, <2>4 DEF RTypes
  <2> QED BY <2>1, <2>5, <2>6 DEF SameAt
<1>4. at'[t] = a /\ on'[t] = conn
  BY <1>1 DEF RTypes, Places
<1>5. Fits(t)'
  BY <1>3, <1>4 DEF Fits
<1> QED BY <1>2, <1>3, <1>5, ApartReads

\* Where a task of each kind may be.
Stations(t) ==
  IF t = "user" THEN {"idle", "dialing", "AUTH", "SELECT"}
  ELSE IF t = "inner" THEN {"idle", "query"}
  ELSE IF t = "sub" THEN {"none", "begin", "ack", "message", "unsub"}
  ELSE {"none", "sleep", "ping"}

LEMMA PlacedOne ==
  ASSUME RTypes, NEW t \in R!Task, NEW a \in Stations(t), NEW c \in Conn \cup {None},
         R!Move(R!To(t, a, c)), a \in R!Reading \cup {"dialing"} => c \in Conn
  PROVE  Places'
<1>1. at' = [at EXCEPT ![t] = a] /\ on' = [on EXCEPT ![t] = c] /\ woken' = woken \ {t}
  BY MoveOne
<1>2. a \in {"none", "idle", "sleep", "dialing", "begin"} \cup R!Reading
  BY DEF Stations, R!Reading
<1>3. /\ at' \in [R!Task -> {"none", "idle", "sleep", "dialing", "begin"} \cup R!Reading]
      /\ on' \in [R!Task -> Conn \cup {None}]
  BY <1>1, <1>2 DEF RTypes, Places
<1>4. /\ at'[t] = a /\ on'[t] = c
      /\ \A u \in R!Task : u # t => at'[u] = at[u] /\ on'[u] = on[u]
  BY <1>1 DEF RTypes, Places
<1>5. /\ at'["user"] \in {"idle", "dialing", "AUTH", "SELECT"} /\ at'["inner"] \in {"idle", "query"}
      /\ at'["sub"] \in {"none", "begin", "ack", "message", "unsub"}
      /\ \A k \in Keeper : at'[k] \in {"none", "sleep", "ping"}
  BY <1>4, Roles DEF RTypes, Places, Stations
<1>6. \A u \in R!Task : Reads(u)' \/ at'[u] = "dialing" => on'[u] \in Conn
  BY <1>4 DEF RTypes, Places, Reads
<1>7. woken' \subseteq R!Task /\ \A u \in woken' : Reads(u)'
  BY <1>1, <1>4 DEF RTypes, Places, Reads
<1> QED BY <1>3, <1>5, <1>6, <1>7 DEF Places

LEMMA PlacedLeft ==
  ASSUME RTypes, NEW T \in SUBSET {"user", "sub"}, NEW a, \A t \in T : a \in Stations(t),
         a \notin R!Reading \cup {"dialing"}, NEW N \in SUBSET Keeper, Left(T, a, N)
  PROVE  /\ Places' /\ \A u \in T \cup N : ~Reads(u)'
         /\ \A u \in R!Task \ (T \cup N) :
              at'[u] = at[u] /\ on'[u] = on[u] /\ (u \in woken' => u \in woken)
<1>1. /\ T \subseteq R!Task /\ N \subseteq R!Task
      /\ \A u \in T : u \notin N
  BY Roles
<1>2. /\ \A u \in T : at'[u] = a /\ on'[u] = None
      /\ \A u \in N : at'[u] = "sleep" /\ on'[u] = None
      /\ \A u \in R!Task \ (T \cup N) : at'[u] = at[u] /\ on'[u] = on[u]
  BY <1>1 DEF Left
<1>3. \A t \in T : a \in {"none", "idle", "sleep", "dialing", "begin"} \cup R!Reading
  BY DEF Stations, R!Reading
<1>4. \A u \in T \cup N : ~Reads(u)' /\ at'[u] # "dialing"
  BY <1>2 DEF Reads, R!Reading
<1>5. at' \in [R!Task -> {"none", "idle", "sleep", "dialing", "begin"} \cup R!Reading]
  BY <1>3 DEF Left, RTypes, Places
<1>6. on' \in [R!Task -> Conn \cup {None}]
  BY DEF Left, RTypes, Places
<1>7. /\ at'["user"] \in {"idle", "dialing", "AUTH", "SELECT"} /\ at'["inner"] \in {"idle", "query"}
      /\ at'["sub"] \in {"none", "begin", "ack", "message", "unsub"}
      /\ \A k \in Keeper : at'[k] \in {"none", "sleep", "ping"}
  BY <1>1, <1>2, Roles DEF RTypes, Places, Stations
<1>8. \A u \in R!Task : Reads(u)' \/ at'[u] = "dialing" => on'[u] \in Conn
  BY <1>2, <1>4 DEF RTypes, Places, Reads
<1>9. woken' \subseteq R!Task /\ \A u \in woken' : Reads(u)' /\ u \in woken
  BY <1>1, <1>2 DEF Left, RTypes, Places, Reads
<1> QED BY <1>2, <1>4, <1>5, <1>6, <1>7, <1>8, <1>9 DEF Places

\* What write does to the commands that were asked, and to what has gone wrong.
LEMMA SendTypes ==
  ASSUME RTypes, NEW t \in R!Task, NEW x \in Msg, R!Send(t, x), conn \in Conn
  PROVE  /\ asked' \in [Conn -> Seq(Msg)]
         /\ \A c \in Conn : c # conn \/ link'[c] # "up" => asked'[c] = asked[c]
         /\ trouble' \subseteq {"loss", "mixed", "cut", "stale"} /\ trouble \subseteq trouble'
<1>1. asked' = [asked EXCEPT ![conn] = IF link'[conn] = "up" THEN Append(@, x) ELSE @]
  BY DEF R!Send
<1>2. Append(asked[conn], x) \in Seq(Msg)
  BY DEF RTypes
<1>3. asked' \in [Conn -> Seq(Msg)]
  BY <1>1, <1>2 DEF RTypes
<1>4. \A c \in Conn : c # conn \/ link'[c] # "up" => asked'[c] = asked[c]
  BY <1>1 DEF RTypes
<1> QED BY <1>3, <1>4 DEF R!Send, RTypes

LEMMA RCrash ==
  ASSUME RInv, R!Crash, trouble # {}
  PROVE  RInv'
<1>1. /\ UNCHANGED <<conn, link, asked, wire, at, on, woken, cancelled, keeper, subscribe_task,
                     queue, last, answer, released, trouble, counts>>
      /\ crashed' = TRUE
  BY DEF R!Crash, R!net, R!tasks, R!handles, R!results
<1>2. \A t \in R!Task : (Reads(t)' <=> Reads(t)) /\ (Fits(t)' <=> Fits(t))
  BY <1>1 DEF Reads, Fits, Command, Settled
<1>3. RTypes' /\ Links'
  BY <1>1, <1>2 DEF RInv, RTypes, Places, Links, Reads
<1>4. (Apart' <=> Apart) /\ (Own' <=> Own)
  BY <1>1, <1>2 DEF Apart, Own, Settled, Reads
<1> QED BY <1>1, <1>3, <1>4 DEF RInv

LEMMA RSame == RInv /\ UNCHANGED R!rvars => RInv'
<1> SUFFICES ASSUME RInv, UNCHANGED R!rvars PROVE RInv'
  OBVIOUS
<1>1. UNCHANGED <<conn, link, asked, wire, at, on, woken, cancelled, keeper, subscribe_task,
                  queue, last, answer, released, crashed, trouble, counts>>
  BY DEF R!rvars, R!net, R!tasks, R!handles, R!results
<1>2. \A t \in R!Task : (Reads(t)' <=> Reads(t)) /\ (Fits(t)' <=> Fits(t))
  BY <1>1 DEF Reads, Fits, Command, Settled
<1>3. RTypes' /\ Links'
  BY <1>1, <1>2 DEF RInv, RTypes, Places, Links, Reads
<1>4. (Apart' <=> Apart) /\ (Own' <=> Own)
  BY <1>1, <1>2 DEF Apart, Own, Settled, Reads
<1>5. Smooth' <=> Smooth
  BY <1>1 DEF Smooth
<1> QED BY <1>1, <1>3, <1>4, <1>5 DEF RInv

LEMMA SameCommand ==
  ASSUME NEW u, at'[u] = at[u], at[u] = "query" => Head(queue)' = Head(queue)
  PROVE  Command(u)' = Command(u)
BY DEF Command

\* The task t goes where nothing is read, and the others go on.
LEMMA ApartOff ==
  ASSUME RInv, "mixed" \notin trouble, Places',
         NEW t \in R!Task, NEW a, a \notin R!Reading, NEW c, R!Move(R!To(t, a, c)),
         \A u \in R!Task \ {t} : Reads(u) => SameAt(on[u]) /\ Command(u)' = Command(u),
         \/ conn' = None
         \/ conn' # None /\ wire'[conn'] = <<>> /\ Settled(conn)'
         \/ conn' = conn /\ SameAt(conn) /\ (Reads(t) => on[t] # conn)
  PROVE  Apart'
<1>1. RTypes
  BY DEF RInv
<1>2. at' = [at EXCEPT ![t] = a] /\ on' = [on EXCEPT ![t] = c] /\ woken' = woken \ {t}
  BY <1>1, MoveOne
<1>3. ~Reads(t)'
  BY <1>1, <1>2 DEF RTypes, Places, Reads
<1>4. \A u \in R!Task \ {t} : /\ at'[u] = at[u] /\ on'[u] = on[u] /\ (u \in woken' => u \in woken)
                              /\ (Reads(u)' <=> Reads(u))
  BY <1>1, <1>2 DEF RTypes, Places, Reads
<1>5. \A u \in R!Task \ {t} : (Reads(u)' => Reads(u)) /\ (Reads(u) => Still(u) /\ SameAt(on[u]))
  BY <1>4 DEF Still
<1>6. woken' \subseteq R!Task /\ \A u \in woken' : Reads(u)'
  BY DEF Places
<1> DEFINE T == {t}
<1>7. T \in SUBSET R!Task /\ (\A u \in T : ~Reads(u)') /\ (\A u \in T : Reads(u) => Reads(t) /\ on[u] = on[t])
  BY <1>3
<1>8. \A u \in R!Task \ T : (Reads(u)' => Reads(u)) /\ (Reads(u) => Still(u) /\ SameAt(on[u]))
  BY <1>5
<1> HIDE DEF T
<1>9. \/ conn' = None
      \/ conn' # None /\ wire'[conn'] = <<>> /\ Settled(conn)'
      \/ conn' = conn /\ SameAt(conn) /\ \A u \in T : Reads(u) => on[u] # conn
  BY <1>7
<1> QED BY <1>6, <1>7, <1>8, <1>9, ApartLeft

\* No task goes anywhere, and what they read from is not touched.
LEMMA ApartStill ==
  ASSUME RInv, "mixed" \notin trouble, UNCHANGED <<at, on, woken>>,
         \A u \in R!Task : Reads(u) => SameAt(on[u]) /\ Command(u)' = Command(u),
         \/ conn' = None
         \/ conn' = conn /\ SameAt(conn)
  PROVE  Apart'
<1>1. RTypes
  BY DEF RInv
<1>2. \A u \in R!Task : (Reads(u)' <=> Reads(u)) /\ (Reads(u) => Still(u) /\ SameAt(on[u]))
  BY DEF Still, Reads
<1>3. woken' \subseteq R!Task /\ \A u \in woken' : Reads(u)'
  BY <1>1, <1>2 DEF RTypes, Places
<1> DEFINE T == {}
<1>4. T \in SUBSET R!Task /\ (\A u \in T : ~Reads(u)' /\ (Reads(u) => on[u] # conn)) /\ \A u : u \notin T
  OBVIOUS
<1>5. \A u \in R!Task \ T : (Reads(u)' => Reads(u)) /\ (Reads(u) => Still(u) /\ SameAt(on[u]))
  BY <1>2
<1> HIDE DEF T
<1> QED BY <1>3, <1>4, <1>5, ApartLeft

\* The tasks of T, and new keepalive tasks, go where nothing is read.
LEMMA ApartKeepalive ==
  ASSUME RInv, "mixed" \notin trouble,
         NEW T \in SUBSET {"user", "sub"}, NEW a, \A t \in T : a \in Stations(t),
         a \notin R!Reading \cup {"dialing"},
         NEW N \in SUBSET {k \in Keeper : at[k] = "none"}, Left(T, a, N),
         \A u \in R!Task \ T : Reads(u) => SameAt(on[u]), queue' = queue,
         \/ conn' = None
         \/ conn' # None /\ wire'[conn'] = <<>> /\ Settled(conn)'
         \/ conn' = conn /\ SameAt(conn) /\ \A t \in T : Reads(t) => on[t] # conn
  PROVE  Places' /\ Apart'
<1>1. RTypes
  BY DEF RInv
<1>2. /\ Places' /\ \A u \in T \cup N : ~Reads(u)'
      /\ \A u \in R!Task \ (T \cup N) :
           at'[u] = at[u] /\ on'[u] = on[u] /\ (u \in woken' => u \in woken)
  BY <1>1, PlacedLeft
<1> DEFINE P == T \cup N
<1>3. P \in SUBSET R!Task /\ \A u \in P : ~Reads(u)' /\ (Reads(u) => u \in T)
  BY <1>2, Roles DEF Reads
<1>4. \A u \in R!Task \ P : (Reads(u)' => Reads(u)) /\ (Reads(u) => Still(u) /\ SameAt(on[u]))
  <2> TAKE u \in R!Task \ P
  <2>1. u \notin T /\ at'[u] = at[u] /\ on'[u] = on[u] /\ (u \in woken' => u \in woken)
    BY <1>2
  <2>2. Command(u)' = Command(u)
    BY <2>1, SameCommand
  <2> QED BY <2>1, <2>2 DEF Still, Reads
<1>5. woken' \subseteq R!Task /\ \A u \in woken' : Reads(u)'
  BY <1>2 DEF Places
<1>6. \/ conn' = None
      \/ conn' # None /\ wire'[conn'] = <<>> /\ Settled(conn)'
      \/ conn' = conn /\ SameAt(conn) /\ \A t \in P : Reads(t) => on[t] # conn
  BY <1>3
<1> HIDE DEF P
<1>7. Apart'
  BY <1>3, <1>4, <1>5, <1>6, ApartLeft
<1> QED BY <1>2, <1>7

LEMMA REvent ==
  ASSUME RInv, NEW c \in Conn, R!Event(c)
  PROVE  RInv'
<1> DEFINE readers == {t \in R!Task : at[t] \in R!Reading /\ on[t] = c /\ t \notin cancelled}
<1>1. /\ UNCHANGED <<conn, link, asked, wire, at, on, cancelled, keeper, subscribe_task,
                     queue, last, answer, released, crashed, trouble>>
      /\ woken' = woken \cup readers /\ "mixed" \notin trouble
      /\ wire[c] # <<>> \/ link[c] = "lost"
  BY DEF R!Event, R!Quiet, R!Live, R!net, R!handles, R!results
<1>2. RTypes /\ Links /\ Apart /\ Own /\ (trouble = {} => Smooth)
  BY <1>1 DEF RInv
<1>3. \A t \in readers : t \in R!Task /\ Reads(t) /\ on[t] = c
  BY DEF Reads
<1> HIDE DEF readers
<1>4. \A t \in R!Task : (Reads(t)' <=> Reads(t)) /\ (Fits(t)' <=> Fits(t))
  BY <1>1 DEF Reads, Fits, Command, Settled
<1>5. RTypes' /\ Links'
  BY <1>1, <1>2, <1>3, <1>4 DEF RTypes, Places, Links, Reads
<1>6. Apart'
  BY <1>1, <1>2, <1>3, <1>4 DEF Apart, Settled
<1>7. (Own' <=> Own) /\ (Smooth' <=> Smooth)
  BY <1>1 DEF Own, Smooth
<1> QED BY <1>1, <1>2, <1>5, <1>6, <1>7 DEF RInv

LEMMA RAnswer ==
  ASSUME RInv, NEW c \in Conn, R!Answer(c)
  PROVE  RInv'
<1>1. /\ UNCHANGED <<conn, link, at, on, woken, cancelled, keeper, subscribe_task,
                     queue, last, answer, released, crashed, trouble>>
      /\ "mixed" \notin trouble /\ R!Exists(c) /\ link[c] = "up" /\ asked[c] # <<>>
      /\ asked' = [asked EXCEPT ![c] = Tail(@)]
  BY DEF R!Answer, R!Quiet, R!Live, R!handles, R!results
<1>2. PICK r \in Replies(Head(asked[c])) : wire' = [wire EXCEPT ![c] = Append(@, r)]
  BY DEF R!Answer, Replies
<1>3. RTypes /\ Links /\ Apart /\ Own /\ (trouble = {} => Smooth)
  BY <1>1 DEF RInv
<1>4. asked[c] \in Seq(Msg) /\ wire[c] \in Seq(Msg) /\ Head(asked[c]) \in Msg
  BY <1>1, <1>3 DEF RTypes
<1>5. Tail(asked[c]) \in Seq(Msg) /\ r \in Msg /\ Append(wire[c], r) \in Seq(Msg)
  BY <1>1, <1>2, <1>4 DEF Replies, Msg
<1>6. /\ asked' \in [Conn -> Seq(Msg)] /\ wire' \in [Conn -> Seq(Msg)]
      /\ asked'[c] = Tail(asked[c]) /\ wire'[c] = Append(wire[c], r)
      /\ \A d \in Conn : d # c => SameAt(d)
  BY <1>1, <1>2, <1>3, <1>5 DEF RTypes, SameAt
<1>7. \A t \in R!Task : Reads(t)' <=> Reads(t)
  BY <1>1 DEF Reads
<1>8. RTypes' /\ Links'
  BY <1>1, <1>3, <1>6, <1>7 DEF RTypes, Places, Links, SameAt
<1>9. \A t \in R!Task : Reads(t) => Command(t)' = Command(t)
  BY <1>1, SameCommand
<1>10. ASSUME NEW t \in R!Task, Reads(t), on[t] = c
       PROVE  Fits(t)' /\ wire'[c] # <<>>
  <2>1. Fits(t) /\ ~Settled(c)
    BY <1>1, <1>3, <1>10 DEF Apart, Settled
  <2>2. at[t] # "message" /\ wire[c] = <<>> /\ asked[c] = <<Command(t)>>
    BY <1>1, <1>10, <2>1 DEF Fits
  <2>3. asked'[c] = <<>> /\ wire'[c] = <<r>> /\ r \in Replies(Command(t))
    BY <1>2, <1>6, <2>2
  <2>4. Settled(c)' /\ at'[t] = at[t] /\ on'[t] = c
    BY <1>1, <1>10, <2>3 DEF Settled
  <2>5. r \in Replies(Command(t))'
    BY <1>9, <1>10, <2>3 DEF Replies
  <2>6. wire'[on'[t]] = <<r>> /\ Settled(on[t])'
    BY <2>3, <2>4, <1>1, <1>10 DEF Settled
  <2> QED BY <2>2, <2>3, <2>4, <2>5, <2>6 DEF Fits
<1>11. ASSUME NEW t \in R!Task, Reads(t), on[t] # c
       PROVE  Fits(t)' /\ (t \in woken' => wire'[on'[t]] # <<>> \/ link'[on'[t]] = "lost")
  <2>1. Still(t) /\ SameAt(on[t])
    BY <1>1, <1>3, <1>6, <1>9, <1>11 DEF Still, RTypes, Places
  <2> QED BY <1>3, <1>11, <2>1, StillFits
<1>12. conn = c => \E t \in R!Task : Reads(t) /\ on[t] = c
  BY <1>1, <1>3, RedisAssumption DEF Apart, Settled
<1>13. conn # None /\ conn # c => SameAt(conn)
  BY <1>3, <1>6 DEF RTypes
<1>14. Apart'
  <2>1. \A t, u \in R!Task : Reads(t)' /\ Reads(u)' /\ on'[t] = on'[u] => t = u
    BY <1>1, <1>3, <1>7 DEF Apart
  <2>2. \A t \in R!Task : Reads(t)' => Fits(t)'
    BY <1>7, <1>10, <1>11
  <2>3. \A t \in woken' : wire'[on'[t]] # <<>> \/ link'[on'[t]] = "lost"
    BY <1>1, <1>3, <1>10, <1>11 DEF RTypes, Places
  <2>4. conn' # None /\ (\A t \in R!Task : Reads(t)' => on'[t] # conn') =>
          wire'[conn'] = <<>> /\ Settled(conn)'
    BY <1>1, <1>3, <1>7, <1>12, <1>13 DEF Apart, Settled, SameAt
  <2> QED BY <2>1, <2>2, <2>3, <2>4 DEF Apart
<1>15. (Own' <=> Own) /\ (Smooth' <=> Smooth)
  BY <1>1 DEF Own, Smooth
<1> QED BY <1>1, <1>3, <1>8, <1>14, <1>15 DEF RInv

LEMMA RPublish ==
  ASSUME RInv, NEW c \in Conn, R!Publish(c)
  PROVE  RInv'
<1>1. /\ UNCHANGED <<conn, link, asked, at, on, woken, cancelled, keeper, subscribe_task,
                     queue, last, answer, released, crashed, trouble>>
      /\ "mixed" \notin trouble /\ link[c] = "up" /\ at["sub"] = "message" /\ on["sub"] = c
      /\ wire' = [wire EXCEPT ![c] = Append(@, "msg")]
  BY DEF R!Publish, R!Quiet, R!Live, R!handles, R!results
<1>2. RTypes /\ Links /\ Apart /\ Own /\ (trouble = {} => Smooth)
  BY <1>1 DEF RInv
<1>3. wire[c] \in Seq(Msg) /\ "msg" \in Msg
  BY <1>2 DEF RTypes, Msg
<1>4. Append(wire[c], "msg") \in Seq(Msg) /\ Append(wire[c], "msg") # <<>>
  BY <1>3
<1>5. /\ wire' \in [Conn -> Seq(Msg)] /\ wire'[c] # <<>>
      /\ \A d \in Conn : d # c => SameAt(d)
  BY <1>1, <1>2, <1>4 DEF RTypes, SameAt
<1>6. \A t \in R!Task : Reads(t)' <=> Reads(t)
  BY <1>1 DEF Reads
<1>7. RTypes' /\ Links'
  BY <1>1, <1>2, <1>5, <1>6 DEF RTypes, Places, Links, SameAt
<1>8. \A t \in R!Task : Reads(t) /\ on[t] = c => t = "sub"
  BY <1>1, <1>2, Roles DEF Apart, Reads
<1>9. Reads("sub") /\ Settled(c) /\ Fits("sub")'
  <2>1. Reads("sub") /\ Fits("sub")
    BY <1>1, <1>2, Roles DEF Apart, Reads
  <2> QED BY <1>1, <2>1 DEF Fits, Settled
<1>10. ASSUME NEW t \in R!Task, Reads(t), t # "sub"
       PROVE  Fits(t)' /\ (t \in woken' => wire'[on'[t]] # <<>> \/ link'[on'[t]] = "lost")
  <2>1. Command(t)' = Command(t)
    BY <1>1, SameCommand
  <2>2. Still(t) /\ SameAt(on[t])
    BY <1>1, <1>2, <1>5, <1>8, <1>10, <2>1 DEF Still, RTypes, Places
  <2> QED BY <1>2, <1>10, <2>2, StillFits
<1>11. Apart'
  <2>1. \A t, u \in R!Task : Reads(t)' /\ Reads(u)' /\ on'[t] = on'[u] => t = u
    BY <1>1, <1>2, <1>6 DEF Apart
  <2>2. \A t \in R!Task : Reads(t)' => Fits(t)'
    BY <1>6, <1>9, <1>10
  <2>3. \A t \in woken' : wire'[on'[t]] # <<>> \/ link'[on'[t]] = "lost"
    BY <1>1, <1>2, <1>5, <1>10 DEF RTypes, Places
  <2>4. conn' # None /\ (\A t \in R!Task : Reads(t)' => on'[t] # conn') =>
          wire'[conn'] = <<>> /\ Settled(conn)'
    BY <1>1, <1>2, <1>5, <1>6, <1>9, Roles DEF Apart, Settled, SameAt, RTypes
  <2> QED BY <2>1, <2>2, <2>3, <2>4 DEF Apart
<1>12. (Own' <=> Own) /\ (Smooth' <=> Smooth)
  BY <1>1 DEF Own, Smooth
<1> QED BY <1>1, <1>2, <1>7, <1>11, <1>12 DEF RInv

LEMMA RLose ==
  ASSUME RInv, NEW c \in Conn, R!Lose(c)
  PROVE  RInv'
<1>1. /\ UNCHANGED <<conn, asked, at, on, woken, cancelled, keeper, subscribe_task,
                     queue, last, answer, released, crashed>>
      /\ "mixed" \notin trouble /\ link[c] = "up" /\ link' = [link EXCEPT ![c] = "lost"]
      /\ wire' \in {wire, [wire EXCEPT ![c] = <<>>]} /\ trouble' = trouble \cup {"loss"}
  BY DEF R!Lose, R!Quiet, R!Live, R!handles, R!results
<1>2. RTypes /\ Links /\ Apart /\ Own
  BY <1>1 DEF RInv
<1>3. /\ wire' \in [Conn -> Seq(Msg)] /\ (wire'[c] = <<>> \/ wire'[c] = wire[c])
      /\ link' \in [Conn -> {"none", "new", "up", "lost"}] /\ link'[c] = "lost"
      /\ \A d \in Conn : d # c => SameAt(d)
  <2>1. <<>> \in Seq(Msg)
    OBVIOUS
  <2> QED BY <1>1, <1>2, <2>1 DEF RTypes, SameAt
<1>4. \A t \in R!Task : Reads(t)' <=> Reads(t)
  BY <1>1 DEF Reads
<1>5. RTypes' /\ Links'
  <2>1. RTypes'
    BY <1>1, <1>2, <1>3, <1>4 DEF RTypes, Places
  <2>2. Links'
    BY <1>1, <1>2, <1>3, <1>4 DEF Links, SameAt, RTypes, Places
  <2> QED BY <2>1, <2>2
<1>6. Settled(c)'
  BY <1>3 DEF Settled
<1>7. ASSUME NEW t \in R!Task, Reads(t)
      PROVE  Fits(t)' /\ (t \in woken' => wire'[on'[t]] # <<>> \/ link'[on'[t]] = "lost")
  <2>1. Command(t)' = Command(t)
    BY <1>1, SameCommand
  <2>2. CASE on[t] = c
    <3>1. Fits(t) /\ on'[t] = c
      BY <1>1, <1>2, <1>7, <2>2 DEF Apart
    <3> QED BY <1>1, <1>3, <1>6, <2>1, <2>2, <3>1 DEF Fits, Replies, Settled
  <2>3. CASE on[t] # c
    <3>1. Still(t) /\ SameAt(on[t])
      BY <1>1, <1>2, <1>3, <1>7, <2>1, <2>3 DEF Still, RTypes, Places
    <3> QED BY <1>2, <1>7, <3>1, StillFits
  <2> QED BY <2>2, <2>3
<1>8. Apart'
  <2>1. \A t, u \in R!Task : Reads(t)' /\ Reads(u)' /\ on'[t] = on'[u] => t = u
    BY <1>1, <1>2, <1>4 DEF Apart
  <2>2. \A t \in R!Task : Reads(t)' => Fits(t)'
    BY <1>4, <1>7
  <2>3. \A t \in woken' : wire'[on'[t]] # <<>> \/ link'[on'[t]] = "lost"
    BY <1>1, <1>2, <1>7 DEF RTypes, Places
  <2>4. conn' # None /\ (\A t \in R!Task : Reads(t)' => on'[t] # conn') =>
          wire'[conn'] = <<>> /\ Settled(conn)'
    BY <1>1, <1>2, <1>3, <1>4, <1>6 DEF Apart, Settled, SameAt, RTypes
  <2> QED BY <2>1, <2>2, <2>3, <2>4 DEF Apart
<1>9. Own' <=> Own
  BY <1>1 DEF Own
<1> QED BY <1>1, <1>2, <1>5, <1>8, <1>9 DEF RInv

LEMMA RDisconnect ==
  ASSUME RInv, R!Disconnect
  PROVE  RInv'
<1>1. /\ UNCHANGED <<link, asked, wire, at, on, woken, subscribe_task, queue, last, answer,
                     released, crashed>>
      /\ "mixed" \notin trouble /\ at["user"] = "idle" /\ conn' = None /\ keeper' = None
      /\ cancelled' = IF keeper = None THEN cancelled ELSE cancelled \cup {keeper}
      /\ trouble' = IF queue = <<>> /\ at["sub"] \notin R!Reading THEN trouble ELSE trouble \cup {"cut"}
  BY DEF R!Disconnect, R!Calls, R!Live, R!results, R!net
<1>2. RTypes /\ Links /\ Apart /\ Own /\ (trouble = {} => Smooth)
  BY <1>1 DEF RInv
<1>3. \A t \in R!Task : /\ Reads(t)' <=> Reads(t)
                        /\ (Reads(t) => SameAt(on[t]) /\ Command(t)' = Command(t))
  BY <1>1, SameCommand DEF Reads, SameAt
<1>4. RTypes' /\ Links'
  BY <1>1, <1>2, <1>3 DEF RTypes, Places, Links
<1>5. Apart'
  BY <1>1, <1>3, ApartStill
<1>6. trouble' = {} => Smooth'
  BY <1>1, <1>2 DEF Smooth, Links
<1>7. Own'
  BY <1>1, <1>2 DEF Own
<1> QED BY <1>1, <1>4, <1>5, <1>6, <1>7 DEF RInv

LEMMA RQuery ==
  ASSUME RInv, NEW x \in Cmd, R!Query(x)
  PROVE  RInv'
<1>1. /\ UNCHANGED <<conn, link, asked, wire, at, on, woken, cancelled, keeper, subscribe_task,
                     last, answer, released, crashed, trouble>>
      /\ "mixed" \notin trouble /\ at["user"] = "idle" /\ conn # None /\ link[conn] # "new"
      /\ queue' = Append(queue, x)
  BY DEF R!Query, R!Calls, R!Live, R!is_validate, R!net, R!tasks, R!handles
<1>2. RTypes /\ Links /\ Apart /\ Own /\ (trouble = {} => Smooth)
  BY <1>1 DEF RInv
<1>3. /\ queue' \in Seq(Cmd) /\ queue' # <<>>
      /\ queue # <<>> => Head(queue)' = Head(queue)
  <2>1. queue \in Seq(Cmd)
    BY <1>2 DEF RTypes
  <2>2. queue # <<>> => Head(Append(queue, x)) = Head(queue)
    BY <2>1
  <2> QED BY <1>1, <2>1, <2>2
<1>4. \A t \in R!Task : at[t] = "query" => t = "inner"
  BY <1>2, Roles DEF RTypes, Places
<1>5. \A t \in R!Task : /\ Reads(t)' <=> Reads(t)
                        /\ (Reads(t) => SameAt(on[t]) /\ Command(t)' = Command(t))
  <2> TAKE t \in R!Task
  <2>1. at[t] = "query" => Head(queue)' = Head(queue)
    BY <1>2, <1>3, <1>4 DEF Links
  <2>2. at'[t] = at[t]
    BY <1>1
  <2>3. Command(t)' = Command(t)
    BY <2>1, <2>2, SameCommand
  <2> QED BY <1>1, <2>3 DEF Reads, SameAt
<1>6. RTypes' /\ Links'
  BY <1>1, <1>2, <1>3, <1>5 DEF RTypes, Places, Links
<1>7. Apart'
  <2>1. conn' = conn /\ SameAt(conn)
    BY <1>1 DEF SameAt
  <2> QED BY <1>1, <1>5, <2>1, ApartStill
<1>8. trouble' = {} => Smooth'
  BY <1>1, <1>2, <1>3 DEF Smooth
<1>9. Own'
  BY <1>1, <1>2 DEF Own
<1> QED BY <1>1, <1>6, <1>7, <1>8, <1>9 DEF RInv

LEMMA RRelease ==
  ASSUME RInv, R!Release
  PROVE  RInv'
<1>1. /\ UNCHANGED <<link, asked, wire, at, on, woken, keeper, subscribe_task, queue, last, answer,
                     crashed, trouble>>
      /\ "mixed" \notin trouble /\ at["user"] = "idle" /\ conn' = None /\ released' = TRUE
      /\ queue = <<>> /\ at["sub"] \notin R!Reading
      /\ cancelled' = cancelled \cup (({keeper} \ {None}) \cup {t \in {"sub"} : subscribe_task})
  BY DEF R!Release, R!Calls, R!Live, R!results, R!net, R!handles
<1>2. RTypes /\ Links /\ Apart /\ Own /\ (trouble = {} => Smooth)
  BY <1>1 DEF RInv
<1>3. \A t \in R!Task : /\ Reads(t)' <=> Reads(t)
                        /\ (Reads(t) => SameAt(on[t]) /\ Command(t)' = Command(t))
  BY <1>1, SameCommand DEF Reads, SameAt
<1>4. RTypes' /\ Links'
  BY <1>1, <1>2, <1>3 DEF RTypes, Places, Links
<1>5. Apart'
  BY <1>1, <1>3, ApartStill
<1>6. trouble' = {} => Smooth'
  BY <1>1, <1>2 DEF Smooth, Links
<1>7. Own'
  BY <1>1, <1>2 DEF Own
<1> QED BY <1>1, <1>2, <1>4, <1>5, <1>6, <1>7 DEF RInv

LEMMA RConnect ==
  ASSUME RInv, R!Connect
  PROVE  RInv'
<1>1. /\ UNCHANGED <<asked, wire, cancelled, keeper, subscribe_task, queue, last, answer,
                     released, crashed, trouble>>
      /\ "mixed" \notin trouble /\ at["user"] = "idle" /\ conn = None
  BY DEF R!Connect, R!Calls, R!Live, R!results, R!handles
<1>2. PICK c \in Conn : /\ link[c] = "none" /\ conn' = c /\ link' = [link EXCEPT ![c] = "new"]
                        /\ R!Move(R!To("user", "dialing", c))
  BY DEF R!Connect
<1>3. RTypes /\ Links /\ Apart /\ Own /\ (trouble = {} => Smooth)
  BY <1>1 DEF RInv
<1>4. /\ at' = [at EXCEPT !["user"] = "dialing"] /\ on' = [on EXCEPT !["user"] = c]
      /\ woken' = woken \ {"user"}
  BY <1>2, <1>3, Roles, MoveOne
<1>5. Places'
  <2>1. "dialing" \in Stations("user")
    BY DEF Stations
  <2> QED BY <1>2, <1>3, <2>1, Roles, PlacedOne
<1>6. /\ at'["user"] = "dialing" /\ on'["user"] = c /\ ~Reads("user") /\ ~Reads("user")'
      /\ \A t \in R!Task \ {"user"} : at'[t] = at[t] /\ on'[t] = on[t]
      /\ \A t \in R!Task \ {"user"} : Reads(t)' <=> Reads(t)
  BY <1>1, <1>3, <1>4, Roles DEF RTypes, Places, Reads
<1>7. /\ link' \in [Conn -> {"none", "new", "up", "lost"}] /\ link'[c] = "new"
      /\ \A d \in Conn : d # c => link'[d] = link[d] /\ SameAt(d)
  BY <1>1, <1>2, <1>3 DEF RTypes, SameAt
<1>8. \A t \in R!Task \ {"user"} : Reads(t) => SameAt(on[t]) /\ Command(t)' = Command(t)
  <2> TAKE t \in R!Task \ {"user"}
  <2>1. Command(t)' = Command(t)
    BY <1>1, <1>6, SameCommand
  <2>2. Reads(t) => on[t] # c /\ on[t] \in Conn
    BY <1>2, <1>3 DEF Links, RTypes, Places
  <2> QED BY <1>7, <2>1, <2>2
<1>9. RTypes'
  BY <1>1, <1>2, <1>3, <1>5, <1>7 DEF RTypes
<1>10. Links'
  <2>1. \A t \in R!Task : Reads(t)' => link'[on'[t]] \in {"up", "lost"}
    BY <1>3, <1>6, <1>8 DEF Links, SameAt
  <2>2. \A d \in Conn : link'[d] \in {"none", "new"} => wire'[d] = <<>> /\ asked'[d] = <<>>
    BY <1>1, <1>2, <1>3, <1>7 DEF Links
  <2>3. at'["inner"] = "query" => queue' # <<>>
    BY <1>1, <1>3, <1>6, Roles DEF Links
  <2> QED BY <1>2, <1>6, <1>7, <2>1, <2>2, <2>3 DEF Links
<1>11. Apart'
  <2>1. conn' # None /\ wire'[conn'] = <<>> /\ Settled(conn)'
    BY <1>1, <1>2, <1>3, <1>7, RedisAssumption DEF Links, Settled
  <2>2. "dialing" \notin R!Reading
    BY DEF R!Reading
  <2>3. \A u \in R!Task \ {"user"} : Reads(u) => SameAt(on[u]) /\ Command(u)' = Command(u)
    BY <1>8
  <2>4. "user" \in R!Task
    BY Roles
  <2> HIDE DEF Apart
  <2> QED BY <1>1, <1>2, <1>5, <2>1, <2>2, <2>3, <2>4, ApartOff
<1>12. trouble' = {} => Smooth'
  <2> SUFFICES ASSUME trouble' = {} PROVE Smooth'
    OBVIOUS
  <2>1. Smooth /\ queue = <<>> /\ at["inner"] # "query" /\ at["sub"] \notin R!Reading
    <3>1. Smooth
      BY <1>1, <1>3
    <3>2. queue = <<>> /\ at["inner"] # "query"
      BY <1>1, <1>3, <3>1 DEF Smooth, Links
    <3>3. at["sub"] \in R!Reading => on["sub"] \in Conn /\ on["sub"] = conn
      BY <1>3, <3>1, Roles DEF Smooth, RTypes, Places, Reads
    <3> QED BY <1>1, <3>1, <3>2, <3>3, RedisAssumption
  <2>2. \A d \in Conn : link'[d] # "lost"
    BY <1>7, <2>1 DEF Smooth
  <2> QED BY <1>1, <1>2, <1>6, <2>1, <2>2, Roles DEF Smooth
<1>13. Own'
  BY <1>1, <1>3 DEF Own
<1> QED BY <1>9, <1>10, <1>11, <1>12, <1>13 DEF RInv

LEMMA RSubscribe ==
  ASSUME RInv, R!Subscribe
  PROVE  RInv'
<1>1. /\ UNCHANGED <<conn, link, asked, wire, queue, last, answer, released, crashed, trouble>>
      /\ "mixed" \notin trouble /\ at["user"] = "idle" /\ at["sub"] = "none"
      /\ cancelled' = IF keeper = None THEN cancelled ELSE cancelled \cup {keeper}
      /\ keeper' = None /\ subscribe_task' = TRUE /\ R!Move(R!To("sub", "begin", None))
  BY DEF R!Subscribe, R!Calls, R!Live, R!results, R!net
<1>2. RTypes /\ Links /\ Apart /\ Own /\ (trouble = {} => Smooth)
  BY <1>1 DEF RInv
<1>3. /\ at' = [at EXCEPT !["sub"] = "begin"] /\ on' = [on EXCEPT !["sub"] = None]
      /\ woken' = woken \ {"sub"}
  BY <1>1, <1>2, Roles, MoveOne
<1>4. Places'
  <2>1. "begin" \in Stations("sub") /\ "begin" \notin R!Reading \cup {"dialing"}
    BY DEF Stations, R!Reading
  <2> QED BY <1>1, <1>2, <2>1, Roles, PlacedOne
<1>5. /\ at'["sub"] = "begin" /\ ~Reads("sub") /\ ~Reads("sub")'
      /\ \A t \in R!Task \ {"sub"} : at'[t] = at[t] /\ on'[t] = on[t]
      /\ \A t \in R!Task \ {"sub"} : Reads(t)' <=> Reads(t)
  BY <1>1, <1>2, <1>3, Roles DEF RTypes, Places, Reads
<1>6. \A t \in R!Task \ {"sub"} : Reads(t) => SameAt(on[t]) /\ Command(t)' = Command(t)
  BY <1>1, <1>5, SameCommand DEF SameAt
<1>7. RTypes'
  BY <1>1, <1>2, <1>4 DEF RTypes
<1>8. Links'
  <2>1. \A t \in R!Task : Reads(t)' => link'[on'[t]] \in {"up", "lost"}
    BY <1>1, <1>2, <1>5 DEF Links
  <2> QED BY <1>1, <1>2, <1>5, <2>1, Roles DEF Links
<1>9. Apart'
  <2>1. "begin" \notin R!Reading /\ SameAt(conn)
    BY <1>1 DEF R!Reading, SameAt
  <2>2. "sub" \in R!Task
    BY Roles
  <2> QED BY <1>1, <1>4, <1>5, <1>6, <2>1, <2>2, ApartOff
<1>10. trouble' = {} => Smooth'
  BY <1>1, <1>2, <1>5, Roles DEF Smooth, R!Reading
<1>11. Own'
  BY <1>1, <1>2 DEF Own
<1> QED BY <1>7, <1>8, <1>9, <1>10, <1>11 DEF RInv

\* begin_keepalive_ by the tasks of T, which go where nothing is read.
LEMMA KeepaliveKeeps ==
  ASSUME RInv, "mixed" \notin trouble,
         NEW T \in SUBSET {"user", "sub"}, NEW f, DOMAIN f = T, NEW a,
         \A t \in T : f[t] = <<a, None>>, \A t \in T : a \in Stations(t),
         a \notin R!Reading \cup {"dialing"}, R!BeginKeepalive(f),
         UNCHANGED <<conn, asked, queue, last, answer, released, crashed, trouble>>,
         link' \in [Conn -> {"none", "new", "up", "lost"}], wire' \in [Conn -> Seq(Msg)],
         \A u \in R!Task \ T : Reads(u) => SameAt(on[u]),
         \/ conn = None
         \/ wire'[conn] = <<>> /\ Settled(conn)'
         \/ SameAt(conn) /\ \A t \in T : Reads(t) => on[t] # conn
  PROVE  /\ RTypes' /\ Apart'
         /\ \A u \in T : at'[u] = a /\ ~Reads(u)'
         /\ \A u \in R!Task \ T : /\ Reads(u)' <=> Reads(u)
                                  /\ Reads(u) => on'[u] = on[u]
                                  /\ u \notin Keeper => at'[u] = at[u] /\ on'[u] = on[u]
<1>1. RTypes
  BY DEF RInv
<1>2. PICK N \in SUBSET {k \in Keeper : at[k] = "none"} : Left(T, a, N)
  BY <1>1, KeepaliveMoves
<1>3. /\ subscribe_task' = FALSE /\ cancelled' \subseteq Keeper \cup {"sub"}
      /\ keeper' \in Keeper \cup {None}
  BY <1>1, KeepaliveMoves
<1>4. Places' /\ Apart'
  <2>1. \/ conn' = None
        \/ conn' # None /\ wire'[conn'] = <<>> /\ Settled(conn)'
        \/ conn' = conn /\ SameAt(conn) /\ \A t \in T : Reads(t) => on[t] # conn
    OBVIOUS
  <2> QED BY <1>2, <2>1, ApartKeepalive
<1>5. RTypes'
  BY <1>1, <1>3, <1>4 DEF RTypes
<1>6. \A u \in T : at'[u] = a /\ ~Reads(u)'
  BY <1>2, Roles DEF Left, Reads
<1>7. \A u \in R!Task \ T : IF u \in N THEN ~Reads(u) /\ ~Reads(u)' /\ u \in Keeper
                          ELSE at'[u] = at[u] /\ on'[u] = on[u]
  BY <1>2 DEF Left, Reads, R!Reading
<1>8. \A u \in R!Task \ T : /\ Reads(u)' <=> Reads(u)
                            /\ Reads(u) => on'[u] = on[u]
                            /\ u \notin Keeper => at'[u] = at[u] /\ on'[u] = on[u]
  BY <1>7 DEF Reads
<1> QED BY <1>4, <1>5, <1>6, <1>8

LEMMA RUnsubscribe ==
  ASSUME RInv, R!Unsubscribe
  PROVE  RInv'
<1>1. /\ UNCHANGED <<conn, link, asked, wire, queue, last, answer, released, crashed, trouble>>
      /\ "mixed" \notin trouble /\ at["user"] = "idle" /\ R!BeginKeepalive(<<>>)
  BY DEF R!Unsubscribe, R!Calls, R!Live, R!results
<1>2. RTypes /\ Links /\ Apart /\ Own /\ (trouble = {} => Smooth)
  BY <1>1 DEF RInv
<1>3. /\ RTypes' /\ Apart'
      /\ \A u \in R!Task : /\ Reads(u)' <=> Reads(u)
                           /\ Reads(u) => on'[u] = on[u]
                           /\ u \notin Keeper => at'[u] = at[u] /\ on'[u] = on[u]
  <2> DEFINE T == {}
             f == <<>>
             a == "idle"
  <2>1. T \in SUBSET {"user", "sub"} /\ DOMAIN f = T /\ a \notin R!Reading \cup {"dialing"}
    BY DEF R!Reading
  <2>2. \A t : t \notin T
    OBVIOUS
  <2>3. R!BeginKeepalive(f)
    BY <1>1
  <2>4. \A u \in R!Task : SameAt(on[u])
    BY <1>1 DEF SameAt
  <2>5. SameAt(conn)
    BY <1>1 DEF SameAt
  <2>6. link' \in [Conn -> {"none", "new", "up", "lost"}] /\ wire' \in [Conn -> Seq(Msg)]
    BY <1>1, <1>2 DEF RTypes
  <2> HIDE DEF T, f, a
  <2>7. (\A t \in T : f[t] = <<a, None>>) /\ (\A t \in T : a \in Stations(t))
    BY <2>2
  <2>8. \/ conn = None
        \/ wire'[conn] = <<>> /\ Settled(conn)'
        \/ SameAt(conn) /\ \A t \in T : Reads(t) => on[t] # conn
    BY <2>2, <2>5
  <2>9. \A u \in R!Task \ T : Reads(u) => SameAt(on[u])
    BY <2>4
  <2>10. /\ RTypes' /\ Apart'
         /\ \A u \in R!Task \ T : /\ Reads(u)' <=> Reads(u)
                                  /\ Reads(u) => on'[u] = on[u]
                                  /\ u \notin Keeper => at'[u] = at[u] /\ on'[u] = on[u]
    BY <1>1, <2>1, <2>3, <2>6, <2>7, <2>8, <2>9, KeepaliveKeeps
  <2> QED BY <2>2, <2>10
<1>4. \A u \in {"user", "inner", "sub"} : at'[u] = at[u] /\ on'[u] = on[u]
  BY <1>3, Roles
<1>5. Links'
  <2>1. \A t \in R!Task : Reads(t)' => link'[on'[t]] \in {"up", "lost"}
    BY <1>1, <1>2, <1>3 DEF Links
  <2> QED BY <1>1, <1>2, <1>4, <2>1 DEF Links
<1>6. trouble' = {} => Smooth'
  BY <1>1, <1>2, <1>4 DEF Smooth
<1>7. Own'
  BY <1>1, <1>2 DEF Own
<1> QED BY <1>3, <1>5, <1>6, <1>7 DEF RInv

LEMMA SendAlone ==
  ASSUME NEW t \in R!Task, NEW x, R!Send(t, x), t \notin Keeper \cap cancelled,
         \A u \in R!Task \ {t} : Reads(u) => on[u] # conn
  PROVE  trouble' = trouble
BY DEF R!Send, Reads

\* The next command of the greeting, or the end of connect.
LEMMA GoOnKeeps ==
  ASSUME RInv, "mixed" \notin trouble, at["user"] \in {"dialing", "AUTH", "SELECT"},
         conn = on["user"], R!GoOn,
         UNCHANGED <<queue, last, answer, released, crashed>>,
         link' \in [Conn -> {"none", "new", "up", "lost"}], wire' \in [Conn -> Seq(Msg)],
         link'[conn] \in {"up", "lost"}, wire'[conn] = <<>>, link'[conn] = "up" => asked[conn] = <<>>,
         \A d \in Conn \ {conn} : link'[d] = link[d] /\ wire'[d] = wire[d],
         \A u \in R!Task \ {"user"} : Reads(u) => on[u] # conn,
         (\A d \in Conn : link[d] # "lost") => link'[conn] # "lost"
  PROVE  RInv'
<1>1. RTypes /\ Links /\ Apart /\ Own /\ (trouble = {} => Smooth)
  BY DEF RInv
<1>2. conn \in Conn /\ conn # None /\ conn' = conn /\ "user" \in R!Task /\ "user" \notin Keeper
  <2>1. conn \in Conn
    BY <1>1, Roles DEF RTypes, Places, Reads
  <2>2. conn' = conn
    BY DEF R!GoOn
  <2> QED BY <2>1, <2>2, RedisAssumption, Roles
<1>3. ASSUME NEW x \in {"AUTH", "SELECT"}, R!Send("user", x), R!Move(R!To("user", x, conn)),
             UNCHANGED <<cancelled, keeper, subscribe_task>>
      PROVE  RInv'
  <2>1. trouble' = trouble
    BY <1>2, <1>3, SendAlone
  <2>2. at' = [at EXCEPT !["user"] = x] /\ on' = [on EXCEPT !["user"] = conn] /\ woken' = woken \ {"user"}
    BY <1>1, <1>2, <1>3, MoveOne
  <2>3. Places'
    <3>1. x \in Stations("user")
      BY DEF Stations
    <3> QED BY <1>1, <1>2, <1>3, <3>1, PlacedOne
  <2>4. /\ asked' \in [Conn -> Seq(Msg)]
        /\ \A c \in Conn : c # conn \/ link'[c] # "up" => asked'[c] = asked[c]
    <3>1. x \in Msg
      BY DEF Msg
    <3> QED BY <1>1, <1>2, <1>3, <3>1, SendTypes
  <2>5. RTypes'
    BY <1>1, <1>2, <1>3, <2>1, <2>3, <2>4 DEF RTypes
  <2>6. /\ at'["user"] = x /\ on'["user"] = conn /\ Reads("user")'
        /\ \A u \in R!Task \ {"user"} : at'[u] = at[u] /\ on'[u] = on[u] /\ (Reads(u)' <=> Reads(u))
    BY <1>1, <1>2, <2>2 DEF RTypes, Places, Reads, R!Reading
  <2>7. \A u \in R!Task \ {"user"} : Reads(u) => on[u] \in Conn /\ on[u] # conn
    BY <1>1 DEF RTypes, Places
  <2>8. Links'
    <3>1. \A t \in R!Task : Reads(t)' => link'[on'[t]] \in {"up", "lost"}
      BY <1>1, <2>6, <2>7 DEF Links
    <3>2. \A c \in Conn : link'[c] \in {"none", "new"} => wire'[c] = <<>> /\ asked'[c] = <<>>
      BY <1>1, <2>4 DEF Links
    <3>3. at'["inner"] = "query" => queue' # <<>>
      BY <1>1, <2>6, Roles DEF Links
    <3> QED BY <1>2, <2>6, <3>1, <3>2, <3>3 DEF Links
  <2>9. Apart'
    <3>1. \A u \in R!Task \ {"user"} : Reads(u) => Command(u)' = Command(u)
      BY <2>6, SameCommand
    <3>2. Command("user")' = x
      BY <2>6 DEF Command
    <3>3. x \in R!Reading \ {"message"}
      BY DEF R!Reading
    <3>4. (\A u \in R!Task \ {"user"} : Reads(u) => on[u] # conn) =>
             wire'[conn] = <<>> /\ (link'[conn] = "up" => asked[conn] = <<>>)
      OBVIOUS
    <3>5. \A d \in Conn \ {conn} : wire'[d] = wire[d] /\ link'[d] = link[d]
      OBVIOUS
    <3>6. "mixed" \notin trouble' => Apart'
      BY <1>2, <1>3, <2>2, <3>1, <3>2, <3>3, <3>4, <3>5, ApartSent
    <3> QED BY <2>1, <3>6
  <2>10. trouble' = {} => Smooth'
    <3>1. \A d \in Conn : link'[d] # "lost" \/ \E e \in Conn : link[e] = "lost"
      BY <1>2
    <3> QED BY <1>1, <1>2, <2>1, <2>6, <3>1, Roles DEF Smooth
  <2>11. Own'
    BY <1>1 DEF Own
  <2> QED BY <2>5, <2>8, <2>9, <2>10, <2>11 DEF RInv
<1>4. ASSUME R!BeginKeepalive(R!To("user", "idle", None)), UNCHANGED <<asked, trouble>>
      PROVE  RInv'
  <2>1. /\ RTypes' /\ Apart'
        /\ at'["user"] = "idle" /\ ~Reads("user")'
        /\ \A u \in R!Task \ {"user"} : /\ Reads(u)' <=> Reads(u)
                                        /\ Reads(u) => on'[u] = on[u]
                                        /\ u \notin Keeper => at'[u] = at[u] /\ on'[u] = on[u]
    <3> DEFINE T == {"user"}
               f == R!To("user", "idle", None)
               a == "idle"
    <3>1. T \in SUBSET {"user", "sub"} /\ a \notin R!Reading \cup {"dialing"}
      BY DEF R!Reading
    <3>2. DOMAIN f = T /\ \A t \in T : f[t] = <<a, None>> /\ a \in Stations(t)
      BY DEF R!To, Stations
    <3>3. R!BeginKeepalive(f)
      BY <1>4
    <3>4. \A u \in R!Task \ T : Reads(u) => SameAt(on[u])
      BY <1>1, <1>4 DEF SameAt, RTypes, Places
    <3>5. wire'[conn] = <<>> /\ Settled(conn)'
      BY <1>2, <1>4 DEF Settled
    <3> HIDE DEF T, f, a
    <3>6. /\ RTypes' /\ Apart'
          /\ \A u \in T : at'[u] = a /\ ~Reads(u)'
          /\ \A u \in R!Task \ T : /\ Reads(u)' <=> Reads(u)
                                   /\ Reads(u) => on'[u] = on[u]
                                   /\ u \notin Keeper => at'[u] = at[u] /\ on'[u] = on[u]
      BY <1>2, <1>4, <3>1, <3>2, <3>3, <3>4, <3>5, KeepaliveKeeps
    <3> QED BY <3>6 DEF T, a
  <2>2. \A u \in R!Task \ {"user"} : Reads(u) => on[u] \in Conn /\ on[u] # conn
    BY <1>1 DEF RTypes, Places
  <2>3. \A u \in {"inner", "sub"} : at'[u] = at[u] /\ on'[u] = on[u]
    BY <2>1, Roles
  <2>4. Links'
    <3>1. \A t \in R!Task : Reads(t)' => link'[on'[t]] \in {"up", "lost"}
      <4> SUFFICES ASSUME NEW t \in R!Task, Reads(t)' PROVE link'[on'[t]] \in {"up", "lost"}
        OBVIOUS
      <4>1. Reads(t) /\ on'[t] = on[t] /\ on[t] \in Conn \ {conn}
        BY <2>1, <2>2
      <4> QED BY <1>1, <4>1 DEF Links
    <3>2. \A c \in Conn : link'[c] \in {"none", "new"} => wire'[c] = <<>> /\ asked'[c] = <<>>
      BY <1>1, <1>4 DEF Links
    <3>3. at'["inner"] = "query" => queue' # <<>>
      BY <1>1, <2>3 DEF Links
    <3> QED BY <1>2, <2>1, <3>1, <3>2, <3>3 DEF Links
  <2>5. trouble' = {} => Smooth'
    <3>1. \A d \in Conn : link'[d] # "lost" \/ \E e \in Conn : link[e] = "lost"
      BY <1>2
    <3> QED BY <1>1, <1>2, <1>4, <2>1, <2>3, <3>1 DEF Smooth
  <2>6. Own'
    BY <1>1 DEF Own
  <2> QED BY <2>1, <2>4, <2>5, <2>6 DEF RInv
<1> DEFINE x == CASE at["user"] = "dialing" /\ "AUTH" \in Greeting -> "AUTH"
                  [] at["user"] # "SELECT" /\ "SELECT" \in Greeting -> "SELECT"
                  [] OTHER -> "idle"
<1>5. x \in {"AUTH", "SELECT", "idle"}
  OBVIOUS
<1>6. IF x # "idle"
      THEN R!Send("user", x) /\ R!Move(R!To("user", x, conn)) /\ UNCHANGED <<cancelled, R!handles>>
      ELSE R!BeginKeepalive(R!To("user", "idle", None)) /\ UNCHANGED <<asked, trouble>>
  BY DEF R!GoOn
<1> HIDE DEF x
<1>7. CASE x # "idle"
  <2>1. UNCHANGED <<cancelled, keeper, subscribe_task>>
    BY <1>6, <1>7 DEF R!handles
  <2> QED BY <1>3, <1>5, <1>6, <1>7, <2>1
<1>8. CASE x = "idle"
  BY <1>4, <1>6, <1>8
<1> QED BY <1>7, <1>8

\* Connect fails: conn_ is given up, and whatever is on other connectors goes on.
LEMMA FailKeeps ==
  ASSUME RInv, "mixed" \notin trouble, at["user"] \in {"dialing", "AUTH", "SELECT"},
         conn = on["user"], R!ConnectFails,
         UNCHANGED <<link, queue, last, answer, released, crashed>>,
         wire' \in [Conn -> Seq(Msg)], \A d \in Conn : wire'[d] = wire[d] \/ wire'[d] = <<>>,
         \A u \in R!Task \ {"user"} : Reads(u) => on[u] # conn /\ wire'[on[u]] = wire[on[u]]
  PROVE  RInv'
<1>1. RTypes /\ Links /\ Apart /\ Own /\ (trouble = {} => Smooth)
  BY DEF RInv
<1>2. /\ UNCHANGED <<asked, cancelled, keeper, subscribe_task, trouble>>
      /\ conn' = None /\ R!Move(R!To("user", "idle", None)) /\ conn \in Conn
  BY <1>1, Roles DEF R!ConnectFails, R!handles, RTypes, Places, Reads
<1>3. "idle" \in Stations("user") /\ "idle" \notin R!Reading \cup {"dialing"} /\ "user" \in R!Task
  BY Roles DEF Stations, R!Reading
<1>4. at' = [at EXCEPT !["user"] = "idle"] /\ on' = [on EXCEPT !["user"] = None] /\ woken' = woken \ {"user"}
  BY <1>1, <1>2, <1>3, MoveOne
<1>5. Places'
  BY <1>1, <1>2, <1>3, PlacedOne
<1>6. /\ at'["user"] = "idle" /\ ~Reads("user")'
      /\ \A u \in R!Task \ {"user"} : at'[u] = at[u] /\ on'[u] = on[u] /\ (Reads(u)' <=> Reads(u))
  BY <1>1, <1>3, <1>4 DEF RTypes, Places, Reads
<1>7. \A u \in R!Task \ {"user"} : Reads(u) => SameAt(on[u]) /\ Command(u)' = Command(u)
  BY <1>2, <1>6, SameCommand DEF SameAt
<1>8. RTypes'
  BY <1>1, <1>2, <1>5 DEF RTypes
<1>9. at'["inner"] = at["inner"] /\ at'["sub"] = at["sub"] /\ on'["inner"] = on["inner"] /\ on'["sub"] = on["sub"]
  BY <1>6, Roles
<1>10. Links'
  <2>1. \A t \in R!Task : Reads(t)' => link'[on'[t]] \in {"up", "lost"}
    BY <1>1, <1>6 DEF Links
  <2>2. \A c \in Conn : link'[c] \in {"none", "new"} => wire'[c] = <<>> /\ asked'[c] = <<>>
    BY <1>1, <1>2 DEF Links
  <2> QED BY <1>1, <1>2, <1>6, <1>9, <2>1, <2>2 DEF Links
<1>11. Apart'
  <2>1. \A u \in R!Task \ {"user"} : Reads(u) => SameAt(on[u]) /\ Command(u)' = Command(u)
    BY <1>7
  <2> QED BY <1>2, <1>3, <1>5, <2>1, ApartOff
<1>12. trouble' = {} => Smooth'
  <2> SUFFICES ASSUME trouble' = {} PROVE Smooth'
    OBVIOUS
  <2>1. Smooth /\ queue = <<>> /\ at["inner"] # "query"
    BY <1>1, <1>2 DEF Smooth, Links
  <2>2. at["sub"] \notin R!Reading
    BY <2>1, Roles DEF Smooth, Reads
  <2> QED BY <1>2, <1>6, <1>9, <2>1, <2>2 DEF Smooth
<1>13. Own'
  BY <1>1 DEF Own
<1> QED BY <1>8, <1>10, <1>11, <1>12, <1>13 DEF RInv

LEMMA RDialed ==
  ASSUME RInv, R!Dialed
  PROVE  RInv'
<1>1. at["user"] = "dialing" /\ "mixed" \notin trouble
  BY DEF R!Dialed, R!Live
<1>2. RTypes /\ Links /\ Apart /\ Own /\ (trouble = {} => Smooth)
  BY <1>1 DEF RInv
<1>3. CASE conn # on["user"]
  <2>1. trouble # {}
    BY <1>1, <1>2, <1>3 DEF Smooth
  <2>2. R!Crash
    BY <1>3 DEF R!Dialed
  <2> QED BY <2>1, <2>2, RCrash
<1>4. CASE conn = on["user"]
  <2>1. /\ UNCHANGED <<wire, queue, last, answer, released, crashed>>
        /\ \/ R!ConnectFails /\ UNCHANGED link
           \/ link' = [link EXCEPT ![conn] = "up"] /\ R!GoOn
    BY <1>4 DEF R!Dialed, R!results
  <2>2. conn \in Conn /\ link[conn] = "new" /\ wire[conn] = <<>> /\ asked[conn] = <<>>
    BY <1>1, <1>2, <1>4, Roles DEF RTypes, Places, Links
  <2>3. \A u \in R!Task : Reads(u) => on[u] # conn
    BY <1>2, <2>2 DEF Links
  <2>4. wire' \in [Conn -> Seq(Msg)]
    BY <1>2, <2>1 DEF RTypes
  <2>5. CASE R!ConnectFails /\ UNCHANGED link
    BY <1>1, <1>4, <2>1, <2>3, <2>4, <2>5, FailKeeps
  <2>6. CASE link' = [link EXCEPT ![conn] = "up"] /\ R!GoOn
    <3>1. /\ link' \in [Conn -> {"none", "new", "up", "lost"}] /\ link'[conn] = "up"
          /\ \A d \in Conn \ {conn} : link'[d] = link[d] /\ wire'[d] = wire[d]
      BY <1>2, <2>1, <2>2, <2>6 DEF RTypes
    <3> QED BY <1>1, <1>4, <2>1, <2>2, <2>3, <2>4, <2>6, <3>1, GoOnKeeps
  <2> QED BY <2>1, <2>5, <2>6
<1> QED BY <1>3, <1>4

LEMMA RGreeted ==
  ASSUME RInv, R!Greeted
  PROVE  RInv'
<1>1. at["user"] \in {"AUTH", "SELECT"} /\ "mixed" \notin trouble /\ Reads("user")
  BY DEF R!Greeted, R!Live, Reads, R!Reading
<1>2. RTypes /\ Links /\ Apart /\ Own /\ (trouble = {} => Smooth)
  BY <1>1 DEF RInv
<1>3. CASE conn # on["user"]
  <2>1. trouble # {}
    BY <1>1, <1>2, <1>3 DEF Smooth
  <2>2. R!Crash
    BY <1>3 DEF R!Greeted
  <2> QED BY <2>1, <2>2, RCrash
<1>4. CASE conn = on["user"]
  <2>1. /\ UNCHANGED <<link, queue, last, answer, released, crashed>>
        /\ IF "user" \in woken /\ wire[conn] = <<at["user"]>> THEN R!GoOn ELSE R!ConnectFails
        /\ wire' = [wire EXCEPT ![conn] = IF "user" \in woken THEN <<>> ELSE @]
    BY <1>4 DEF R!Greeted, R!results
  <2>2. conn \in Conn /\ link[conn] \in {"up", "lost"}
    BY <1>1, <1>2, <1>4, Roles DEF RTypes, Places, Links
  <2>3. \A u \in R!Task \ {"user"} : Reads(u) => on[u] # conn
    BY <1>1, <1>2, <1>4, Roles DEF Apart
  <2>4. /\ wire' \in [Conn -> Seq(Msg)] /\ wire'[conn] = (IF "user" \in woken THEN <<>> ELSE wire[conn])
        /\ \A d \in Conn \ {conn} : wire'[d] = wire[d]
    <3>1. <<>> \in Seq(Msg)
      OBVIOUS
    <3> QED BY <1>2, <2>1, <2>2, <3>1 DEF RTypes
  <2>5. CASE "user" \in woken /\ wire[conn] = <<at["user"]>>
    <3>1. Fits("user")
      BY <1>1, <1>2, Roles DEF Apart
    <3>2. Settled(conn)
      BY <1>1, <1>4, <2>5, <3>1 DEF Fits
    <3>3. link'[conn] = "up" => asked[conn] = <<>>
      BY <2>1, <3>2 DEF Settled
    <3>4. link' \in [Conn -> {"none", "new", "up", "lost"}]
      BY <1>2, <2>1 DEF RTypes
    <3> QED BY <1>1, <1>4, <2>1, <2>2, <2>3, <2>4, <2>5, <3>3, <3>4, GoOnKeeps
  <2>6. CASE ~("user" \in woken /\ wire[conn] = <<at["user"]>>)
    <3>1. \A u \in R!Task \ {"user"} : Reads(u) => on[u] # conn /\ wire'[on[u]] = wire[on[u]]
      BY <1>2, <2>3, <2>4 DEF RTypes, Places
    <3>2. \A d \in Conn : wire'[d] = wire[d] \/ wire'[d] = <<>>
      BY <2>4
    <3> QED BY <1>1, <1>4, <2>1, <2>4, <2>6, <3>1, <3>2, FailKeeps
  <2> QED BY <2>5, <2>6
<1> QED BY <1>3, <1>4

\* The end of a test.
LEMMA TestMoves ==
  ASSUME RTypes, NEW k \in Keeper, NEW fine \in BOOLEAN, R!TestEnds(k, fine)
  PROVE  /\ \E a \in {"none", "sleep"} : R!Move(R!To(k, a, None))
         /\ cancelled' \subseteq cancelled
         /\ fine \/ k \in cancelled => conn' = conn /\ keeper' = keeper
         /\ ~(fine \/ k \in cancelled) => conn' = None /\ keeper' = None
<1>1. CASE fine \/ k \in cancelled
  <2>1. /\ R!Move(R!To(k, IF k \in cancelled THEN "none" ELSE "sleep", None))
        /\ cancelled' = cancelled \ {k} /\ UNCHANGED <<conn, keeper>>
    BY <1>1 DEF R!TestEnds
  <2> QED BY <1>1, <2>1
<1>2. CASE ~(fine \/ k \in cancelled)
  <2>1. conn' = None /\ keeper' = None /\ R!Move(R!To(k, "none", None)) /\ UNCHANGED cancelled
    BY <1>2 DEF R!TestEnds
  <2> QED BY <1>2, <2>1
<1> QED BY <1>1, <1>2

LEMMA TestKeeps ==
  ASSUME RTypes, Links, NEW k \in Keeper, NEW fine \in BOOLEAN, R!TestEnds(k, fine),
         UNCHANGED <<link, subscribe_task, queue, last, answer, released, crashed>>,
         wire' \in [Conn -> Seq(Msg)], asked' \in [Conn -> Seq(Msg)],
         trouble' \subseteq {"loss", "mixed", "cut", "stale"},
         \A c \in Conn : link[c] \in {"none", "new"} => wire'[c] = <<>> /\ asked'[c] = <<>>
  PROVE  /\ RTypes' /\ Links'
         /\ Smooth /\ conn' = conn => Smooth'
         /\ \A u \in R!Task \ {k} : Command(u)' = Command(u)
<1>1. PICK a \in {"none", "sleep"} : R!Move(R!To(k, a, None))
  BY TestMoves
<1>2. k \in R!Task /\ k \notin {"user", "inner", "sub"}
  BY Roles
<1>3. at' = [at EXCEPT ![k] = a] /\ on' = [on EXCEPT ![k] = None] /\ woken' = woken \ {k}
  BY <1>1, <1>2, MoveOne
<1>4. Places'
  <2>1. a \in Stations(k) /\ a \notin R!Reading \cup {"dialing"}
    BY <1>2 DEF Stations, R!Reading
  <2> QED BY <1>1, <1>2, <2>1, PlacedOne
<1>5. /\ ~Reads(k)'
      /\ \A u \in R!Task \ {k} : at'[u] = at[u] /\ on'[u] = on[u] /\ (Reads(u)' <=> Reads(u))
  BY <1>2, <1>3 DEF RTypes, Places, Reads, R!Reading
<1>6. \A u \in {"user", "inner", "sub"} : at'[u] = at[u] /\ on'[u] = on[u]
  BY <1>2, <1>5, Roles
<1>7. conn' \in {conn, None} /\ keeper' \in {keeper, None} /\ cancelled' \subseteq cancelled
  BY TestMoves
<1>8. RTypes'
  BY <1>4, <1>7 DEF RTypes
<1>9. Links'
  <2>1. \A t \in R!Task : Reads(t)' => link'[on'[t]] \in {"up", "lost"}
    BY <1>5 DEF Links
  <2> QED BY <1>6, <1>7, <2>1 DEF Links
<1>10. Smooth /\ conn' = conn => Smooth'
  BY <1>6 DEF Smooth
<1>11. \A u \in R!Task \ {k} : Command(u)' = Command(u)
  BY <1>5, SameCommand
<1> QED BY <1>8, <1>9, <1>10, <1>11

LEMMA RTest ==
  ASSUME RInv, NEW k \in Keeper, R!Test(k)
  PROVE  RInv'
<1>1. /\ UNCHANGED <<link, wire, subscribe_task, queue, last, answer, released, crashed>>
      /\ "mixed" \notin trouble /\ at[k] = "sleep" /\ ~Reads(k)
  BY DEF R!Test, R!Live, R!results, Reads, R!Reading
<1>2. RTypes /\ Links /\ Apart /\ Own /\ (trouble = {} => Smooth) /\ k \in R!Task
  BY <1>1, Roles DEF RInv
<1>3. Own'
  BY <1>1, <1>2 DEF Own
<1>4. ASSUME NEW fine \in BOOLEAN, R!TestEnds(k, fine), asked' = asked,
             trouble' \in {trouble, trouble \cup {"stale"}},
             conn' # conn => trouble' # {}
      PROVE  RInv'
  <2>1. /\ RTypes' /\ Links' /\ (Smooth /\ conn' = conn => Smooth')
        /\ \A u \in R!Task \ {k} : Command(u)' = Command(u)
    <3>1. wire' \in [Conn -> Seq(Msg)] /\ asked' \in [Conn -> Seq(Msg)]
      BY <1>1, <1>2, <1>4 DEF RTypes
    <3>2. \A c \in Conn : link[c] \in {"none", "new"} => wire'[c] = <<>> /\ asked'[c] = <<>>
      BY <1>1, <1>2, <1>4 DEF Links
    <3>3. trouble' \subseteq {"loss", "mixed", "cut", "stale"}
      BY <1>2, <1>4 DEF RTypes
    <3> QED BY <1>1, <1>2, <1>4, <3>1, <3>2, <3>3, TestKeeps
  <2>2. PICK a \in {"none", "sleep"} : R!Move(R!To(k, a, None))
    BY <1>2, <1>4, TestMoves
  <2>3. conn' \in {conn, None}
    BY <1>2, <1>4, TestMoves
  <2>4. Apart'
    <3>1. \A c : SameAt(c)
      BY <1>1, <1>4 DEF SameAt
    <3>2. a \notin R!Reading /\ Places'
      BY <2>1 DEF R!Reading, RTypes
    <3> QED BY <1>1, <1>2, <2>1, <2>2, <2>3, <3>1, <3>2, ApartOff
  <2> QED BY <1>2, <1>3, <1>4, <2>1, <2>4 DEF RInv
<1>5. CASE released /\ R!TestEnds(k, TRUE) /\ UNCHANGED <<asked, trouble>>
  <2>1. conn' = conn
    BY <1>2, <1>5, TestMoves
  <2> QED BY <1>4, <1>5, <2>1
<1>6. CASE /\ ~released /\ R!CanFail /\ R!TestEnds(k, FALSE) /\ asked' = asked
           /\ trouble' = IF conn # None /\ at["user"] = "dialing" THEN trouble \cup {"stale"} ELSE trouble
  <2>1. ASSUME conn' # conn, trouble' = {} PROVE FALSE
    <3>1. trouble = {} /\ Smooth /\ ~(conn # None /\ at["user"] = "dialing")
      BY <1>2, <1>6, <2>1
    <3>2. conn' = None /\ conn # None /\ conn \in Conn
      BY <1>2, <1>6, <2>1, TestMoves DEF RTypes
    <3>3. link[conn] # "new" /\ link[conn] # "lost"
      BY <1>2, <3>1, <3>2 DEF Links, Smooth
    <3> QED BY <1>6, <3>2, <3>3 DEF R!CanFail, R!is_validate
  <2>2. trouble' \in {trouble, trouble \cup {"stale"}}
    BY <1>6
  <2> QED BY <1>4, <1>6, <2>1, <2>2
<1>7. CASE /\ R!is_validate /\ R!Send(k, "PING")
           /\ IF k \in cancelled THEN R!TestEnds(k, FALSE)
              ELSE R!Move(R!To(k, "ping", conn)) /\ UNCHANGED <<conn, keeper, cancelled>>
  <2>1. conn \in Conn /\ conn # None /\ link[conn] # "new" /\ link[conn] # "none"
    BY <1>2, <1>7 DEF R!is_validate, RTypes, Links
  <2>2. /\ asked' \in [Conn -> Seq(Msg)]
        /\ \A c \in Conn : c # conn \/ link'[c] # "up" => asked'[c] = asked[c]
        /\ trouble' \subseteq {"loss", "mixed", "cut", "stale"} /\ trouble \subseteq trouble'
    <3>1. "PING" \in Msg
      BY DEF Msg
    <3> QED BY <1>2, <1>7, <2>1, <3>1, SendTypes
  <2>3. \A c \in Conn : link[c] \in {"none", "new"} => wire'[c] = <<>> /\ asked'[c] = <<>>
    BY <1>1, <1>2, <2>1, <2>2 DEF Links
  <2>4. CASE k \in cancelled
    <3>1. "mixed" \in trouble'
      BY <1>7, <2>4 DEF R!Send
    <3>2. wire' \in [Conn -> Seq(Msg)]
      BY <1>1, <1>2 DEF RTypes
    <3>3. RTypes' /\ Links'
      BY <1>1, <1>2, <1>7, <2>2, <2>3, <2>4, <3>2, TestKeeps
    <3> QED BY <3>1, <3>3 DEF RInv
  <2>5. CASE k \notin cancelled
    <3>1. R!Move(R!To(k, "ping", conn)) /\ UNCHANGED <<conn, keeper, cancelled>>
      BY <1>7, <2>5
    <3>2. at' = [at EXCEPT ![k] = "ping"] /\ on' = [on EXCEPT ![k] = conn] /\ woken' = woken \ {k}
      BY <1>2, <3>1, MoveOne
    <3>3. k \notin {"user", "inner", "sub"}
      BY Roles
    <3>4. Places'
      <4>1. "ping" \in Stations(k)
        BY <3>3 DEF Stations
      <4> QED BY <1>2, <2>1, <3>1, <4>1, PlacedOne
    <3>5. RTypes'
      BY <1>1, <1>2, <2>2, <3>1, <3>4 DEF RTypes
    <3>6. /\ at'[k] = "ping" /\ on'[k] = conn /\ Reads(k)'
          /\ \A u \in R!Task \ {k} : at'[u] = at[u] /\ on'[u] = on[u] /\ (Reads(u)' <=> Reads(u))
      BY <1>2, <3>2 DEF RTypes, Places, Reads, R!Reading
    <3>7. \A u \in {"user", "inner", "sub"} : at'[u] = at[u] /\ on'[u] = on[u]
      BY <3>3, <3>6, Roles
    <3>8. Links'
      <4>1. \A t \in R!Task : Reads(t)' => link'[on'[t]] \in {"up", "lost"}
        <5> TAKE t \in R!Task
        <5>1. CASE t = k
          BY <1>1, <1>2, <2>1, <3>6, <5>1 DEF RTypes
        <5>2. CASE t # k
          BY <1>1, <1>2, <3>6, <5>2 DEF Links
        <5> QED BY <5>1, <5>2
      <4> QED BY <1>1, <1>2, <2>3, <3>1, <3>7, <4>1 DEF Links
    <3>9. "mixed" \notin trouble' => Apart'
      <4>1. \A u \in R!Task \ {k} : Reads(u) => Command(u)' = Command(u)
        BY <1>1, <3>6, SameCommand
      <4>2. Command(k)' = "PING"
        BY <3>6 DEF Command
      <4>3. "ping" \in R!Reading \ {"message"}
        BY DEF R!Reading
      <4>4. (\A u \in R!Task \ {k} : Reads(u) => on[u] # conn) =>
               wire'[conn] = <<>> /\ (link'[conn] = "up" => asked[conn] = <<>>)
        BY <1>1, <1>2, <2>1 DEF Apart, Settled
      <4>5. \A d \in Conn \ {conn} : wire'[d] = wire[d] /\ link'[d] = link[d]
        BY <1>1
      <4> QED BY <1>1, <1>2, <1>7, <2>1, <3>1, <3>2, <4>1, <4>2, <4>3, <4>4, <4>5, ApartSent
    <3>10. trouble' = {} => Smooth'
      <4>1. trouble' = {} => Smooth
        BY <1>2, <2>2
      <4> QED BY <1>1, <3>1, <3>7, <4>1 DEF Smooth
    <3> QED BY <1>3, <3>5, <3>8, <3>9, <3>10 DEF RInv
  <2> QED BY <2>4, <2>5
<1> QED BY <1>5, <1>6, <1>7 DEF R!Test

LEMMA RTestReturns ==
  ASSUME RInv, NEW k \in Keeper, R!TestReturns(k)
  PROVE  RInv'
<1> DEFINE c == on[k]
           fine == k \in woken /\ wire[c] = <<"PING">>
<1>1. /\ UNCHANGED <<link, asked, subscribe_task, queue, last, answer, released, crashed>>
      /\ "mixed" \notin trouble /\ at[k] = "ping" /\ Reads(k) /\ R!TestEnds(k, fine)
      /\ wire' = [wire EXCEPT ![c] = IF k \in woken THEN <<>> ELSE @]
      /\ trouble' = trouble \cup (IF k \in woken THEN {} ELSE IF k \in cancelled THEN {"mixed"} ELSE {"loss"})
  BY DEF R!TestReturns, R!Live, R!results, Reads, R!Reading
<1>2. RTypes /\ Links /\ Apart /\ Own /\ (trouble = {} => Smooth) /\ k \in R!Task
  BY <1>1, Roles DEF RInv
<1>3. c \in Conn
  BY <1>1, <1>2 DEF RTypes, Places
<1>4. /\ wire' \in [Conn -> Seq(Msg)] /\ wire'[c] = (IF k \in woken THEN <<>> ELSE wire[c])
      /\ \A d \in Conn \ {c} : SameAt(d)
  <2>1. <<>> \in Seq(Msg)
    OBVIOUS
  <2> QED BY <1>1, <1>2, <1>3, <2>1 DEF RTypes, SameAt
<1>5. Fits(k) /\ Command(k) = "PING" /\ (k \in woken => wire[c] # <<>> \/ link[c] = "lost")
  BY <1>1, <1>2 DEF Apart, Command
<1>6. k \in woken => Settled(c) /\ (wire[c] = <<>> \/ wire[c] = <<"PING">>)
  <2>1. Replies("PING") = {"PING"}
    BY DEF Replies
  <2> QED BY <1>1, <1>5, <2>1 DEF Fits, Settled
<1> HIDE DEF c
<1>7. fine \in BOOLEAN
  OBVIOUS
<1> HIDE DEF fine
<1>8. /\ RTypes' /\ Links' /\ (Smooth /\ conn' = conn => Smooth')
      /\ \A u \in R!Task \ {k} : Command(u)' = Command(u)
  <2>1. \A d \in Conn : link[d] \in {"none", "new"} => wire'[d] = <<>> /\ asked'[d] = <<>>
    BY <1>1, <1>2, <1>4 DEF Links, SameAt
  <2>2. trouble' \subseteq {"loss", "mixed", "cut", "stale"}
    BY <1>1, <1>2 DEF RTypes
  <2>3. asked' \in [Conn -> Seq(Msg)]
    BY <1>1, <1>2 DEF RTypes
  <2> QED BY <1>1, <1>2, <1>4, <1>7, <2>1, <2>2, <2>3, TestKeeps
<1>9. PICK a \in {"none", "sleep"} : R!Move(R!To(k, a, None))
  BY <1>1, <1>2, <1>7, TestMoves
<1>10. "mixed" \notin trouble' => Apart'
  <2> SUFFICES ASSUME "mixed" \notin trouble' PROVE Apart'
    OBVIOUS
  <2>1. a \notin R!Reading /\ Places'
    BY <1>8 DEF R!Reading, RTypes
  <2>2. \A u \in R!Task \ {k} : Reads(u) => SameAt(on[u]) /\ Command(u)' = Command(u)
    <3>1. \A u \in R!Task \ {k} : Reads(u) => on[u] \in Conn \ {c}
      BY <1>1, <1>2 DEF RTypes, Places, Apart, c
    <3> QED BY <1>4, <1>8, <3>1
  <2>3. k \notin cancelled \/ k \in woken
    BY <1>1
  <2>4. CASE ~(fine \/ k \in cancelled)
    <3>1. conn' = None
      BY <1>1, <1>2, <1>7, <2>4, TestMoves
    <3> QED BY <1>1, <1>2, <1>9, <2>1, <2>2, <3>1, ApartOff
  <2>5. CASE fine \/ k \in cancelled
    <3>1. conn' = conn /\ k \in woken
      BY <1>1, <1>2, <1>7, <2>3, <2>5, TestMoves DEF fine
    <3>2. CASE conn = c
      <4>1. conn' # None /\ wire'[conn'] = <<>> /\ Settled(conn)'
        BY <1>1, <1>3, <1>4, <1>6, <3>1, <3>2, RedisAssumption DEF Settled
      <4> QED BY <1>1, <1>2, <1>9, <2>1, <2>2, <4>1, ApartOff
    <3>3. CASE conn # c
      <4>1. conn' = None \/ (conn' = conn /\ SameAt(conn) /\ (Reads(k) => on[k] # conn))
        BY <1>2, <1>4, <3>1, <3>3 DEF c, RTypes
      <4> QED BY <1>1, <1>2, <1>9, <2>1, <2>2, <4>1, ApartOff
    <3> QED BY <3>2, <3>3
  <2> QED BY <2>4, <2>5
<1>11. trouble' = {} => Smooth'
  <2> SUFFICES ASSUME trouble' = {} PROVE Smooth'
    OBVIOUS
  <2>1. trouble = {} /\ Smooth /\ k \in woken
    BY <1>1, <1>2
  <2>2. fine
    BY <1>3, <1>5, <1>6, <2>1 DEF Smooth, fine
  <2>3. conn' = conn
    BY <1>1, <1>2, <1>7, <2>2, TestMoves
  <2> QED BY <1>8, <2>1, <2>3
<1>12. Own'
  BY <1>1, <1>2 DEF Own
<1> QED BY <1>8, <1>10, <1>11, <1>12 DEF RInv

\* One reply is read at most; a read that is not woken returns nothing.
LEMMA ParsedIs ==
  ASSUME RTypes, NEW t
  PROVE  R!Parsed(t) = IF t \in woken /\ wire[on[t]] # <<>> THEN <<Head(wire[on[t]])>> ELSE <<>>
<1>1. last = <<>>
  BY DEF RTypes
<1>2. CASE t \notin woken
  BY <1>1, <1>2 DEF R!Parsed
<1>3. CASE t \in woken /\ wire[on[t]] # <<>>
  BY <1>1, <1>3 DEF R!Parsed
<1>4. CASE t \in woken /\ wire[on[t]] = <<>>
  <2>1. <<>> \o <<>> = <<>>
    OBVIOUS
  <2> QED BY <1>1, <1>4, <2>1 DEF R!Parsed
<1> QED BY <1>2, <1>3, <1>4

\* While the model runs, the connector of a task that reads is conn_, or the task is lost.
LEMMA OnIsConn ==
  ASSUME RInv, "mixed" \notin trouble, NEW t \in R!Task \ Keeper, Reads(t), R!Exists(on[t])
  PROVE  conn = on[t]
<1>1. Apart
  BY DEF RInv
<1>2. ASSUME NEW k \in Keeper, at[k] = "ping", on[k] = on[t]
      PROVE  FALSE
  BY <1>1, <1>2, Roles DEF Apart, Reads
<1> QED BY <1>2 DEF R!Exists

LEMMA SmoothExists ==
  ASSUME RInv, trouble = {}, NEW t \in {"inner", "sub"}, Reads(t)
  PROVE  conn = on[t] /\ conn \in Conn /\ conn # None
<1>1. RTypes /\ Smooth
  BY DEF RInv
<1>2. t \in R!Task
  BY Roles
<1>3. on[t] \in Conn
  BY <1>1, <1>2 DEF RTypes, Places
<1>4. conn = on[t]
  BY <1>1 DEF Smooth, Reads, RTypes, Places, R!Reading
<1> QED BY <1>3, <1>4, RedisAssumption

\* The task starts to wait for the reply of a command: conn_ is silent, or it has just
\* read the reply that was there.
LEMMA SentKeeps ==
  ASSUME RInv, "mixed" \notin trouble, NEW t \in {"inner", "sub"}, NEW x \in Msg,
         NEW a \in R!Reading \ {"message"}, a \in Stations(t),
         conn \in Conn, link[conn] \in {"up", "lost"}, R!StartJob(t, x, a), Command(t)' = x,
         a = "query" => queue # <<>>,
         UNCHANGED <<link, queue, answer, released, crashed>>, cancelled' \subseteq Keeper \cup {"sub"},
         keeper' = keeper, subscribe_task' = subscribe_task,
         wire' \in [Conn -> Seq(Msg)], \A d \in Conn \ {conn} : wire'[d] = wire[d],
         (\A u \in R!Task \ {t} : Reads(u) => on[u] # conn) => wire'[conn] = <<>> /\ Settled(conn)
  PROVE  RInv'
<1>1. RTypes /\ Links /\ Apart /\ Own /\ (trouble = {} => Smooth) /\ t \in R!Task
  BY Roles DEF RInv
<1>2. conn' = conn /\ last' = <<>> /\ R!Send(t, x) /\ R!Move(R!To(t, a, conn))
  BY DEF R!StartJob
<1>3. at' = [at EXCEPT ![t] = a] /\ on' = [on EXCEPT ![t] = conn] /\ woken' = woken \ {t}
  BY <1>1, <1>2, MoveOne
<1>4. Places'
  BY <1>1, <1>2, PlacedOne
<1>5. /\ asked' \in [Conn -> Seq(Msg)]
      /\ \A c \in Conn : c # conn \/ link'[c] # "up" => asked'[c] = asked[c]
      /\ trouble' \subseteq {"loss", "mixed", "cut", "stale"} /\ trouble \subseteq trouble'
  BY <1>1, <1>2, SendTypes
<1>6. RTypes'
  BY <1>1, <1>2, <1>4, <1>5 DEF RTypes
<1>7. /\ at'[t] = a /\ on'[t] = conn /\ Reads(t)'
      /\ \A u \in R!Task \ {t} : at'[u] = at[u] /\ on'[u] = on[u] /\ (Reads(u)' <=> Reads(u))
  BY <1>1, <1>3 DEF RTypes, Places, Reads
<1>8. /\ at'["user"] = at["user"] /\ on'["user"] = on["user"]
      /\ \A u \in {"inner", "sub"} : u # t => at'[u] = at[u] /\ on'[u] = on[u]
  BY <1>7, Roles
<1>9. Links'
  <2>1. \A u \in R!Task : Reads(u)' => link'[on'[u]] \in {"up", "lost"}
    BY <1>1, <1>7 DEF Links
  <2>2. \A c \in Conn : link'[c] \in {"none", "new"} => wire'[c] = <<>> /\ asked'[c] = <<>>
    BY <1>1, <1>5 DEF Links
  <2>3. at'["inner"] = "query" => queue' # <<>>
    BY <1>1, <1>7, <1>8 DEF Links
  <2> QED BY <1>1, <1>2, <1>8, <2>1, <2>2, <2>3 DEF Links
<1>10. "mixed" \notin trouble' => Apart'
  <2>1. \A u \in R!Task \ {t} : Reads(u) => Command(u)' = Command(u)
    BY <1>7, SameCommand
  <2>2. (\A u \in R!Task \ {t} : Reads(u) => on[u] # conn) =>
           wire'[conn] = <<>> /\ (link'[conn] = "up" => asked[conn] = <<>>)
    BY DEF Settled
  <2>3. \A d \in Conn \ {conn} : wire'[d] = wire[d] /\ link'[d] = link[d]
    OBVIOUS
  <2> QED BY <1>1, <1>2, <1>3, <2>1, <2>2, <2>3, ApartSent
<1>11. trouble' = {} => Smooth'
  <2> SUFFICES ASSUME trouble' = {} PROVE Smooth'
    OBVIOUS
  <2>1. Smooth
    BY <1>1, <1>5
  <2>2. queue' # <<>> => conn' # None /\ link'[conn'] # "new"
    BY <1>2, <2>1 DEF Smooth
  <2>3. at'["user"] # "idle" => conn' = on'["user"] /\ queue' = <<>>
    BY <1>2, <1>8, <2>1 DEF Smooth
  <2>4. at'["inner"] = "query" => on'["inner"] = conn'
    BY <1>2, <1>7, <1>8, <2>1 DEF Smooth
  <2>5. at'["sub"] \in R!Reading => on'["sub"] = conn'
    BY <1>2, <1>7, <1>8, <2>1 DEF Smooth
  <2> QED BY <1>1, <2>1, <2>2, <2>3, <2>4, <2>5 DEF Smooth
<1>12. Own'
  BY <1>1 DEF Own
<1> QED BY <1>6, <1>9, <1>10, <1>11, <1>12 DEF RInv

LEMMA RInnerStarts ==
  ASSUME RInv, R!InnerStarts
  PROVE  RInv'
<1>1. /\ at["inner"] = "idle" /\ queue # <<>> /\ "mixed" \notin trouble /\ ~Reads("inner")
  BY DEF R!InnerStarts, R!Live, Reads, R!Reading
<1>2. RTypes /\ Links /\ Apart /\ Own /\ (trouble = {} => Smooth)
  BY <1>1 DEF RInv
<1>3. queue \in Seq(Cmd) /\ Head(queue) \in Cmd /\ Tail(queue) \in Seq(Cmd)
  BY <1>1, <1>2 DEF RTypes
<1>4. CASE conn = None
  <2>1. trouble # {}
    BY <1>1, <1>2, <1>4 DEF Smooth
  <2>2. R!Crash
    BY <1>4 DEF R!InnerStarts
  <2> QED BY <2>1, <2>2, RCrash
<1>5. CASE conn # None
  <2>1. /\ UNCHANGED <<link, wire, cancelled, keeper, subscribe_task, released, crashed>>
        /\ \/ /\ R!CanFail /\ conn' = None /\ last' = <<>>
              /\ answer' = [answer EXCEPT ![Head(queue)] = "failed"] /\ queue' = Tail(queue)
              /\ UNCHANGED <<asked, at, on, woken, trouble>>
           \/ /\ R!is_validate /\ link' = link /\ R!StartJob("inner", Head(queue), "query")
              /\ UNCHANGED <<answer, queue>>
    BY <1>5 DEF R!InnerStarts, R!handles
  <2>2. conn \in Conn
    BY <1>2, <1>5 DEF RTypes
  <2>3. CASE /\ R!CanFail /\ conn' = None /\ last' = <<>>
             /\ answer' = [answer EXCEPT ![Head(queue)] = "failed"] /\ queue' = Tail(queue)
             /\ UNCHANGED <<asked, at, on, woken, trouble>>
    <3>1. trouble # {}
      BY <1>1, <1>2, <1>5, <2>2, <2>3 DEF R!CanFail, R!is_validate, Smooth
    <3>2. \A t \in R!Task : (Reads(t)' <=> Reads(t)) /\ at'[t] = at[t]
      BY <2>3 DEF Reads
    <3>3. \A t \in R!Task : Reads(t) => at[t] # "query"
      BY <1>1, <1>2, Roles DEF RTypes, Places
    <3>4. \A t \in R!Task : Reads(t) => SameAt(on[t]) /\ Command(t)' = Command(t)
      BY <2>1, <2>3, <3>2, <3>3, SameCommand DEF SameAt
    <3>5. Apart'
      BY <1>1, <2>3, <3>4, ApartStill
    <3>6. RTypes'
      BY <1>2, <1>3, <2>1, <2>3, <3>2 DEF RTypes, Places
    <3>7. Links'
      BY <1>1, <1>2, <2>1, <2>3, <3>2 DEF Links
    <3>8. Own'
      BY <1>2, <1>3, <2>3 DEF Own, RTypes
    <3> QED BY <2>3, <3>1, <3>5, <3>6, <3>7, <3>8 DEF RInv
  <2>4. CASE /\ R!is_validate /\ link' = link /\ R!StartJob("inner", Head(queue), "query")
             /\ UNCHANGED <<answer, queue>>
    <3>1. link[conn] \in {"up", "lost"}
      BY <1>2, <1>5, <2>2, <2>4 DEF R!is_validate, Links, RTypes
    <3>2. Head(queue) \in Msg /\ "query" \in R!Reading \ {"message"} /\ "query" \in Stations("inner")
      BY <1>3 DEF Msg, R!Reading, Stations
    <3>3. Command("inner")' = Head(queue)
      <4>1. at'["inner"] = "query"
        <5>1. R!Move(R!To("inner", "query", conn))
          BY <2>4 DEF R!StartJob
        <5>2. at' = [at EXCEPT !["inner"] = "query"]
          BY <1>2, <5>1, Roles, MoveOne
        <5> QED BY <1>2, <5>2, Roles DEF RTypes, Places
      <4> QED BY <2>4, <4>1 DEF Command
    <3>4. (\A u \in R!Task \ {"inner"} : Reads(u) => on[u] # conn) => wire'[conn] = <<>> /\ Settled(conn)
      BY <1>1, <1>2, <1>5, <2>1 DEF Apart
    <3>5. wire' \in [Conn -> Seq(Msg)] /\ cancelled' \subseteq Keeper \cup {"sub"}
      BY <1>2, <2>1 DEF RTypes
    <3>6. \A d \in Conn \ {conn} : wire'[d] = wire[d]
      BY <2>1
    <3>7. "inner" \in {"inner", "sub"}
      OBVIOUS
    <3> QED BY <1>1, <2>1, <2>2, <2>4, <3>1, <3>2, <3>3, <3>4, <3>5, <3>6, <3>7, SentKeeps
  <2> QED BY <2>1, <2>3, <2>4
<1> QED BY <1>4, <1>5

LEMMA LostIsTrouble ==
  ASSUME RInv, NEW t \in {"inner", "sub"}, Reads(t), R!Lost(t) \/ conn = None
  PROVE  trouble # {}
<1> SUFFICES ASSUME trouble = {} PROVE FALSE
  OBVIOUS
<1>1. conn = on[t] /\ conn # None
  BY SmoothExists
<1> QED BY <1>1 DEF R!Lost, R!Exists

\* What a read that is not broken has returned.
LEMMA ReadIs ==
  ASSUME RInv, "mixed" \notin trouble, NEW t \in {"inner", "sub"}, Reads(t), ~R!Broken(t)
  PROVE  /\ Len(R!Parsed(t)) # 1 => t \notin woken /\ R!Parsed(t) = <<>>
         /\ Len(R!Parsed(t)) = 1 =>
              /\ t \in woken /\ Settled(on[t])
              /\ at[t] # "message" => R!Parsed(t)[1] \in Replies(Command(t))
<1>1. RTypes /\ Apart /\ t \in R!Task
  BY Roles DEF RInv
<1>2. R!Parsed(t) = IF t \in woken /\ wire[on[t]] # <<>> THEN <<Head(wire[on[t]])>> ELSE <<>>
  BY <1>1, ParsedIs
<1>3. Fits(t) /\ (t \in woken => wire[on[t]] # <<>> \/ link[on[t]] = "lost")
  BY <1>1 DEF Apart
<1>4. CASE t \in woken /\ wire[on[t]] # <<>>
  <2>1. R!Parsed(t) = <<Head(wire[on[t]])>> /\ Len(R!Parsed(t)) = 1
    BY <1>2, <1>4
  <2>2. Settled(on[t])
    BY <1>3, <1>4 DEF Fits
  <2>3. ASSUME at[t] # "message" PROVE R!Parsed(t)[1] \in Replies(Command(t))
    <3>1. PICK y \in Replies(Command(t)) : wire[on[t]] = <<y>>
      BY <1>3, <1>4, <2>3 DEF Fits
    <3>2. Head(<<y>>) = y
      OBVIOUS
    <3> QED BY <2>1, <3>1, <3>2
  <2> QED BY <1>4, <2>1, <2>2, <2>3
<1>5. CASE t \in woken /\ wire[on[t]] = <<>>
  BY <1>3, <1>5 DEF R!Broken
<1>6. CASE t \notin woken
  <2>1. R!Parsed(t) = <<>> /\ Len(R!Parsed(t)) = 0
    BY <1>2, <1>6
  <2> QED BY <1>6, <2>1
<1> QED BY <1>4, <1>5, <1>6

\* It reads again, and nothing has changed.
LEMMA AgainKeeps ==
  ASSUME RInv, "mixed" \notin trouble, NEW t \in {"inner", "sub"}, Reads(t), R!Exists(on[t]),
         t \notin woken, R!Parsed(t) = <<>>, R!Again(t),
         UNCHANGED <<conn, link, asked, cancelled, keeper, subscribe_task, queue, answer,
                     released, crashed, trouble, counts>>
  PROVE  RInv'
<1>1. RTypes /\ t \in R!Task \ Keeper
  BY Roles DEF RInv
<1>2. conn = on[t]
  BY <1>1, OnIsConn
<1>3. last' = last
  BY <1>1 DEF R!Again, RTypes
<1>4. at' = [at EXCEPT ![t] = at[t]] /\ on' = [on EXCEPT ![t] = conn] /\ woken' = woken \ {t}
  BY <1>1, MoveOne DEF R!Again
<1>5. UNCHANGED <<at, on, woken>>
  BY <1>1, <1>2, <1>4 DEF RTypes, Places
<1>6. wire' = [wire EXCEPT ![on[t]] = @]
  BY DEF R!Again, R!Taken
<1>7. wire' = wire
  BY <1>1, <1>6 DEF RTypes
<1>8. UNCHANGED R!rvars
  BY <1>3, <1>5, <1>7 DEF R!rvars, R!net, R!tasks, R!handles, R!results
<1> QED BY <1>8, RSame

LEMMA RInnerReturns ==
  ASSUME RInv, R!InnerReturns
  PROVE  RInv'
<1> DEFINE c == on["inner"]
           reply == R!Parsed("inner")[1]
<1>1. "mixed" \notin trouble /\ Reads("inner") /\ "inner" \in R!Task \ Keeper
  BY Roles DEF R!InnerReturns, R!Returns, R!Live, Reads
<1>2. RTypes /\ Links /\ Apart /\ Own /\ (trouble = {} => Smooth)
  BY <1>1 DEF RInv
<1>3. CASE R!Lost("inner")
  <2>1. trouble # {}
    BY <1>1, <1>3, LostIsTrouble
  <2>2. R!Crash
    BY <1>3 DEF R!InnerReturns
  <2> QED BY <2>1, <2>2, RCrash
<1>4. CASE ~R!Lost("inner")
  <2>1. /\ UNCHANGED <<link, asked, cancelled, keeper, subscribe_task, released, crashed, trouble, counts>>
        /\ \/ /\ R!Broken("inner") /\ conn' = None
              /\ answer' = [answer EXCEPT ![Head(queue)] = "failed"]
              /\ queue' = Tail(queue) /\ R!Move(R!To("inner", "idle", None))
              /\ UNCHANGED <<last, wire>>
           \/ /\ ~R!Broken("inner") /\ Len(R!Parsed("inner")) = 1
              /\ answer' = [answer EXCEPT ![Head(queue)] = reply]
              /\ last' = <<>> /\ R!Taken("inner")
              /\ queue' = Tail(queue) /\ R!Move(R!To("inner", "idle", None))
              /\ UNCHANGED conn
           \/ /\ ~R!Broken("inner") /\ Len(R!Parsed("inner")) # 1
              /\ R!Again("inner") /\ UNCHANGED <<conn, queue, answer>>
    BY <1>4 DEF R!InnerReturns, R!handles
  <2>2. c \in Conn /\ at["inner"] = "query" /\ R!Exists(c) /\ conn = c /\ conn # None
    <3>1. c \in Conn /\ at["inner"] = "query"
      BY <1>1, <1>2 DEF RTypes, Places, Reads, R!Reading
    <3>2. R!Exists(c)
      BY <1>4 DEF R!Lost
    <3>3. conn = c
      BY <1>1, <3>2, OnIsConn
    <3> QED BY <3>1, <3>2, <3>3, RedisAssumption
  <2>3. queue \in Seq(Cmd) /\ Head(queue) \in Cmd /\ Tail(queue) \in Seq(Cmd)
    BY <1>2, <2>2 DEF RTypes, Links
  <2> HIDE DEF c, reply
  <2>4. ASSUME R!Move(R!To("inner", "idle", None)), queue' = Tail(queue), last' = <<>>,
               NEW y \in {Head(queue), "failed"}, answer' = [answer EXCEPT ![Head(queue)] = y],
               wire' \in [Conn -> Seq(Msg)], wire'[c] \in {wire[c], <<>>}, \A d \in Conn \ {c} : wire'[d] = wire[d],
               \/ conn' = None /\ trouble # {}
               \/ conn' = conn /\ wire'[c] = <<>> /\ Settled(c)
        PROVE  RInv'
    <3>1. at' = [at EXCEPT !["inner"] = "idle"] /\ on' = [on EXCEPT !["inner"] = None] /\ woken' = woken \ {"inner"}
      BY <1>1, <1>2, <2>4, MoveOne
    <3>2. Places' /\ "idle" \notin R!Reading
      <4>1. "idle" \in Stations("inner") /\ "idle" \notin R!Reading \cup {"dialing"}
        BY DEF Stations, R!Reading
      <4> QED BY <1>1, <1>2, <2>4, <4>1, PlacedOne
    <3>3. /\ at'["inner"] = "idle" /\ ~Reads("inner")'
          /\ \A u \in R!Task \ {"inner"} : at'[u] = at[u] /\ on'[u] = on[u] /\ (Reads(u)' <=> Reads(u))
      BY <1>1, <1>2, <3>1, <3>2 DEF RTypes, Places, Reads
    <3>4. \A u \in {"user", "sub"} : at'[u] = at[u] /\ on'[u] = on[u]
      BY <3>3, Roles
    <3>5. answer' \in [Cmd -> {"none", "failed"} \cup Msg] /\ \A x \in Cmd : answer'[x] \in {answer[x], x, "failed"}
      <4>1. y \in {"failed"} \cup Msg
        BY <2>3, <2>4 DEF Msg
      <4> QED BY <1>2, <2>3, <2>4, <4>1 DEF RTypes
    <3>6. RTypes'
      BY <1>2, <2>1, <2>3, <2>4, <3>2, <3>5 DEF RTypes
    <3>7. Links'
      <4>1. \A t \in R!Task : Reads(t)' => link'[on'[t]] \in {"up", "lost"}
        BY <1>2, <2>1, <3>3 DEF Links
      <4>2. \A d \in Conn : link'[d] \in {"none", "new"} => wire'[d] = <<>> /\ asked'[d] = <<>>
        BY <1>2, <2>1, <2>4 DEF Links
      <4> QED BY <1>2, <2>1, <2>4, <3>3, <3>4, <4>1, <4>2 DEF Links
    <3>8. Apart'
      <4>1. \A u \in R!Task \ {"inner"} : Reads(u) => on[u] \in Conn \ {c} /\ at[u] # "query"
        BY <1>1, <1>2, Roles DEF RTypes, Places, Apart, c
      <4>2. \A u \in R!Task \ {"inner"} : Reads(u) => SameAt(on[u]) /\ Command(u)' = Command(u)
        BY <2>1, <2>4, <3>3, <4>1, SameCommand DEF SameAt
      <4>3. conn' = None \/ (conn' # None /\ wire'[conn'] = <<>> /\ Settled(conn)')
        BY <2>1, <2>2, <2>4 DEF Settled
      <4> QED BY <1>1, <2>4, <3>2, <4>2, <4>3, ApartOff
    <3>9. trouble' = {} => Smooth'
      <4> SUFFICES ASSUME trouble' = {} PROVE Smooth'
        OBVIOUS
      <4>1. Smooth /\ conn' = conn /\ queue # <<>>
        BY <1>2, <2>1, <2>2, <2>4 DEF Links
      <4> QED BY <2>1, <3>3, <3>4, <4>1 DEF Smooth
    <3>10. Own'
      BY <1>2, <3>5 DEF Own
    <3> QED BY <3>6, <3>7, <3>8, <3>9, <3>10 DEF RInv
  <2>5. CASE /\ R!Broken("inner") /\ conn' = None
             /\ answer' = [answer EXCEPT ![Head(queue)] = "failed"]
             /\ queue' = Tail(queue) /\ R!Move(R!To("inner", "idle", None))
             /\ UNCHANGED <<last, wire>>
    <3>1. link[c] = "lost"
      BY <1>2, <2>5, Roles DEF R!Broken, c, RTypes
    <3>2. trouble # {}
      BY <1>2, <2>2, <3>1 DEF Smooth
    <3>3. last' = <<>> /\ wire' \in [Conn -> Seq(Msg)] /\ wire'[c] \in {wire[c], <<>>} /\ \A d \in Conn \ {c} : wire'[d] = wire[d]
      BY <1>2, <2>5 DEF RTypes
    <3> QED BY <2>4, <2>5, <3>2, <3>3
  <2>6. CASE /\ ~R!Broken("inner") /\ Len(R!Parsed("inner")) = 1
             /\ answer' = [answer EXCEPT ![Head(queue)] = reply]
             /\ last' = <<>> /\ R!Taken("inner")
             /\ queue' = Tail(queue) /\ R!Move(R!To("inner", "idle", None))
             /\ UNCHANGED conn
    <3>1. "inner" \in woken /\ Settled(c) /\ reply \in Replies(Command("inner"))
      BY <1>1, <2>2, <2>6, ReadIs DEF c, reply
    <3>2. reply = Head(queue)
      BY <2>2, <2>3, <3>1, RedisAssumption DEF Replies, Command
    <3>3. wire' = [wire EXCEPT ![c] = <<>>]
      BY <2>6, <3>1 DEF R!Taken, c
    <3>4. wire' \in [Conn -> Seq(Msg)] /\ wire'[c] = <<>> /\ \A d \in Conn \ {c} : wire'[d] = wire[d]
      <4>1. <<>> \in Seq(Msg)
        OBVIOUS
      <4> QED BY <1>2, <2>2, <3>3, <4>1 DEF RTypes
    <3> QED BY <2>4, <2>6, <3>1, <3>2, <3>4
  <2>7. CASE /\ ~R!Broken("inner") /\ Len(R!Parsed("inner")) # 1
             /\ R!Again("inner") /\ UNCHANGED <<conn, queue, answer>>
    <3>1. "inner" \notin woken /\ R!Parsed("inner") = <<>>
      BY <1>1, <2>7, ReadIs
    <3> QED BY <1>1, <2>1, <2>2, <2>7, <3>1, AgainKeeps DEF c
  <2> QED BY <2>1, <2>5, <2>6, <2>7
<1> QED BY <1>3, <1>4

\* What the subscription may have waited for when its outer loop begins or begins again:
\* nothing, or the reply to UNSUBSCRIBE, which it has read.
LoopsFrom ==
  \/ at["sub"] = "begin" /\ wire' = wire
  \/ /\ at["sub"] = "unsub" /\ conn = on["sub"] /\ Settled(conn)
     /\ wire' = [wire EXCEPT ![conn] = <<>>]

LEMMA SubFrom ==
  ASSUME RInv, "mixed" \notin trouble, link' = link, LoopsFrom
  PROVE  /\ wire' \in [Conn -> Seq(Msg)]
         /\ \A d \in Conn : d # conn => wire'[d] = wire[d]
         /\ \A u \in R!Task \ {"sub"} : Reads(u) => wire'[on[u]] = wire[on[u]]
         /\ \A d \in Conn : wire[d] = <<>> => wire'[d] = <<>>
         /\ conn # None /\ (\A u \in R!Task \ {"sub"} : Reads(u) => on[u] # conn) =>
              wire'[conn] = <<>> /\ Settled(conn)
         /\ \/ conn = None
            \/ wire'[conn] = <<>> /\ Settled(conn)
            \/ wire' = wire /\ ~Reads("sub")
<1>1. RTypes /\ Apart /\ "sub" \in R!Task
  BY Roles DEF RInv
<1>2. CASE at["sub"] = "begin" /\ wire' = wire
  <2>1. ~Reads("sub")
    BY <1>2 DEF Reads, R!Reading
  <2> QED BY <1>1, <1>2, <2>1 DEF Apart, RTypes
<1>3. CASE /\ at["sub"] = "unsub" /\ conn = on["sub"] /\ Settled(conn)
           /\ wire' = [wire EXCEPT ![conn] = <<>>]
  <2>1. Reads("sub") /\ conn \in Conn
    BY <1>1, <1>3 DEF Reads, R!Reading, RTypes, Places
  <2>2. \A u \in R!Task \ {"sub"} : Reads(u) => on[u] # conn /\ on[u] \in Conn
    BY <1>1, <1>3, <2>1 DEF Apart, RTypes, Places
  <2>3. /\ wire' \in [Conn -> Seq(Msg)] /\ wire'[conn] = <<>>
        /\ \A d \in Conn : d # conn => wire'[d] = wire[d]
    <3>1. <<>> \in Seq(Msg)
      OBVIOUS
    <3> QED BY <1>1, <1>3, <2>1, <3>1 DEF RTypes
  <2> QED BY <1>3, <2>1, <2>2, <2>3
<1> QED BY <1>2, <1>3 DEF LoopsFrom

\* The subscription ends: conn_ is given up after something has gone wrong, or kept.
LEMMA SubGone ==
  ASSUME RInv, "mixed" \notin trouble, R!SubEnds(TRUE), trouble' # {}, trouble \subseteq trouble',
         trouble' \subseteq trouble \cup {"cut"},
         UNCHANGED <<link, asked, queue, answer, released, crashed>>, last' = <<>>,
         wire' \in [Conn -> Seq(Msg)], \A d \in Conn : wire[d] = <<>> => wire'[d] = <<>>,
         \A u \in R!Task \ {"sub"} : Reads(u) => wire'[on[u]] = wire[on[u]]
  PROVE  RInv'
<1>1. RTypes /\ Links /\ Apart /\ Own /\ "sub" \in R!Task
  BY Roles DEF RInv
<1>2. /\ conn' = None /\ subscribe_task' = FALSE /\ keeper' = keeper
      /\ cancelled' = cancelled \ {"sub"} /\ R!Move(R!To("sub", "none", None))
  BY DEF R!SubEnds
<1>3. "none" \in Stations("sub") /\ "none" \notin R!Reading \cup {"dialing"}
  BY DEF Stations, R!Reading
<1>4. at' = [at EXCEPT !["sub"] = "none"] /\ on' = [on EXCEPT !["sub"] = None] /\ woken' = woken \ {"sub"}
  BY <1>1, <1>2, MoveOne
<1>5. Places'
  BY <1>1, <1>2, <1>3, PlacedOne
<1>6. /\ ~Reads("sub")'
      /\ \A u \in R!Task \ {"sub"} : at'[u] = at[u] /\ on'[u] = on[u] /\ (Reads(u)' <=> Reads(u))
  BY <1>1, <1>3, <1>4 DEF RTypes, Places, Reads
<1>7. RTypes'
  BY <1>1, <1>2, <1>5 DEF RTypes
<1>8. Links'
  <2>1. \A t \in R!Task : Reads(t)' => link'[on'[t]] \in {"up", "lost"}
    BY <1>1, <1>6 DEF Links
  <2>2. \A d \in Conn : link'[d] \in {"none", "new"} => wire'[d] = <<>> /\ asked'[d] = <<>>
    BY <1>1 DEF Links
  <2>3. \A u \in {"user", "inner"} : at'[u] = at[u] /\ on'[u] = on[u]
    BY <1>6, Roles
  <2> QED BY <1>1, <1>2, <2>1, <2>2, <2>3 DEF Links
<1>9. Apart'
  <2>1. \A u \in R!Task \ {"sub"} : Reads(u) => SameAt(on[u]) /\ Command(u)' = Command(u)
    BY <1>6, SameCommand DEF SameAt
  <2> QED BY <1>1, <1>2, <1>3, <1>5, <2>1, ApartOff
<1>10. Own' /\ "mixed" \notin trouble'
  BY <1>1 DEF Own
<1> QED BY <1>7, <1>8, <1>9, <1>10 DEF RInv

LEMMA SubKept ==
  ASSUME RInv, "mixed" \notin trouble, R!SubEnds(FALSE), LoopsFrom,
         UNCHANGED <<link, asked, queue, answer, released, crashed, trouble>>, last' = <<>>
  PROVE  RInv'
<1>1. RTypes /\ Links /\ Apart /\ Own /\ (trouble = {} => Smooth) /\ "sub" \in R!Task
  BY Roles DEF RInv
<1>2. conn' = conn /\ R!BeginKeepalive(R!To("sub", "none", None)) /\ last' = last
  BY <1>1 DEF R!SubEnds, RTypes
<1>3. /\ wire' \in [Conn -> Seq(Msg)]
      /\ \A u \in R!Task \ {"sub"} : Reads(u) => wire'[on[u]] = wire[on[u]]
      /\ \A d \in Conn : wire[d] = <<>> => wire'[d] = <<>>
      /\ \/ conn = None
         \/ wire'[conn] = <<>> /\ Settled(conn)
         \/ wire' = wire /\ ~Reads("sub")
  BY SubFrom
<1>4. /\ RTypes' /\ Apart'
      /\ at'["sub"] = "none" /\ ~Reads("sub")'
      /\ \A u \in R!Task \ {"sub"} : /\ Reads(u)' <=> Reads(u)
                                     /\ Reads(u) => on'[u] = on[u]
                                     /\ u \notin Keeper => at'[u] = at[u] /\ on'[u] = on[u]
  <2> DEFINE T == {"sub"}
             f == R!To("sub", "none", None)
             a == "none"
  <2>1. T \in SUBSET {"user", "sub"} /\ a \notin R!Reading \cup {"dialing"}
    BY DEF R!Reading
  <2>2. DOMAIN f = T /\ \A t \in T : f[t] = <<a, None>> /\ a \in Stations(t)
    BY DEF R!To, Stations
  <2>3. R!BeginKeepalive(f)
    BY <1>2
  <2>4. \A u \in R!Task \ T : Reads(u) => SameAt(on[u])
    BY <1>3 DEF SameAt
  <2>5. \/ conn = None
        \/ wire'[conn] = <<>> /\ Settled(conn)'
        \/ SameAt(conn) /\ \A t \in T : Reads(t) => on[t] # conn
    BY <1>2, <1>3 DEF Settled, SameAt
  <2>6. link' \in [Conn -> {"none", "new", "up", "lost"}]
    BY <1>1 DEF RTypes
  <2> HIDE DEF T, f, a
  <2>7. /\ RTypes' /\ Apart'
        /\ \A u \in T : at'[u] = a /\ ~Reads(u)'
        /\ \A u \in R!Task \ T : /\ Reads(u)' <=> Reads(u)
                                 /\ Reads(u) => on'[u] = on[u]
                                 /\ u \notin Keeper => at'[u] = at[u] /\ on'[u] = on[u]
    BY <1>2, <1>3, <2>1, <2>2, <2>3, <2>4, <2>5, <2>6, KeepaliveKeeps
  <2> QED BY <2>7 DEF T, a
<1>5. \A u \in {"user", "inner"} : at'[u] = at[u] /\ on'[u] = on[u]
  BY <1>4, Roles
<1>6. Links'
  <2>1. \A t \in R!Task : Reads(t)' => link'[on'[t]] \in {"up", "lost"}
    <3> SUFFICES ASSUME NEW t \in R!Task, Reads(t)' PROVE link'[on'[t]] \in {"up", "lost"}
      OBVIOUS
    <3>1. Reads(t) /\ on'[t] = on[t]
      BY <1>4
    <3> QED BY <1>1, <3>1 DEF Links
  <2>2. \A d \in Conn : link'[d] \in {"none", "new"} => wire'[d] = <<>> /\ asked'[d] = <<>>
    BY <1>1, <1>3 DEF Links
  <2> QED BY <1>1, <1>2, <1>5, <2>1, <2>2 DEF Links
<1>7. trouble' = {} => Smooth'
  BY <1>1, <1>2, <1>4, <1>5 DEF Smooth, R!Reading
<1>8. Own'
  BY <1>1 DEF Own
<1> QED BY <1>4, <1>6, <1>7, <1>8 DEF RInv

LEMMA SubLoopsKeep ==
  ASSUME RInv, "mixed" \notin trouble, R!SubLoops, LoopsFrom,
         UNCHANGED <<link, queue, answer, released, crashed>>
  PROVE  RInv'
<1>1. RTypes /\ Links /\ (trouble = {} => Smooth) /\ "sub" \in R!Task
  BY Roles DEF RInv
<1>2. /\ wire' \in [Conn -> Seq(Msg)]
      /\ \A d \in Conn : d # conn => wire'[d] = wire[d]
      /\ \A u \in R!Task \ {"sub"} : Reads(u) => wire'[on[u]] = wire[on[u]]
      /\ \A d \in Conn : wire[d] = <<>> => wire'[d] = <<>>
      /\ conn # None /\ (\A u \in R!Task \ {"sub"} : Reads(u) => on[u] # conn) =>
           wire'[conn] = <<>> /\ Settled(conn)
  BY SubFrom
<1>3. CASE R!SubEnds(FALSE) /\ UNCHANGED <<asked, last, trouble>>
  <2>1. last' = <<>>
    BY <1>1, <1>3 DEF RTypes
  <2> QED BY <1>3, <2>1, SubKept
<1>4. CASE R!is_validate /\ link[conn] = "lost" /\ R!SubEnds(TRUE) /\ last' = <<>> /\ UNCHANGED <<asked, trouble>>
  <2>1. trouble # {}
    BY <1>1, <1>4 DEF Smooth, R!is_validate, RTypes
  <2>2. trouble \subseteq trouble' /\ trouble' \subseteq trouble \cup {"cut"} /\ trouble' # {}
    BY <1>4, <2>1
  <2> QED BY <1>2, <1>4, <2>2, SubGone
<1>5. CASE /\ R!is_validate /\ R!StartJob("sub", "SUB", "ack")
           /\ UNCHANGED <<cancelled, R!handles>>
  <2>1. conn \in Conn /\ conn # None /\ link[conn] \in {"up", "lost"}
    BY <1>1, <1>5 DEF R!is_validate, RTypes, Links
  <2>2. "SUB" \in Msg /\ "ack" \in R!Reading \ {"message"} /\ "ack" \in Stations("sub") /\ "ack" # "query"
    BY DEF Msg, R!Reading, Stations
  <2>3. Command("sub")' = "SUB"
    <3>1. R!Move(R!To("sub", "ack", conn))
      BY <1>5 DEF R!StartJob
    <3>2. at' = [at EXCEPT !["sub"] = "ack"]
      BY <1>1, <3>1, MoveOne
    <3>3. at'["sub"] = "ack"
      BY <1>1, <3>2 DEF RTypes, Places
    <3> QED BY <3>3 DEF Command
  <2>4. cancelled' \subseteq Keeper \cup {"sub"} /\ keeper' = keeper /\ subscribe_task' = subscribe_task
    BY <1>1, <1>5 DEF RTypes, R!handles
  <2>5. \A d \in Conn \ {conn} : wire'[d] = wire[d]
    BY <1>2
  <2>6. (\A u \in R!Task \ {"sub"} : Reads(u) => on[u] # conn) => wire'[conn] = <<>> /\ Settled(conn)
    BY <1>2, <2>1
  <2>7. "sub" \in {"inner", "sub"}
    OBVIOUS
  <2> QED BY <1>2, <1>5, <2>1, <2>2, <2>3, <2>4, <2>5, <2>6, <2>7, SentKeeps
<1> QED BY <1>3, <1>4, <1>5 DEF R!SubLoops

LEMMA RSubBegins ==
  ASSUME RInv, R!SubBegins
  PROVE  RInv'
<1>1. /\ UNCHANGED <<link, wire, queue, answer, released, crashed>>
      /\ "mixed" \notin trouble /\ at["sub"] = "begin" /\ ~Reads("sub")
  BY DEF R!SubBegins, R!Live, Reads, R!Reading
<1>2. RTypes /\ Links /\ Apart /\ Own /\ (trouble = {} => Smooth) /\ "sub" \in R!Task
  BY <1>1, Roles DEF RInv
<1>3. CASE released
  <2>1. /\ R!Move(R!To("sub", "none", None)) /\ cancelled' = cancelled \ {"sub"}
        /\ UNCHANGED <<conn, asked, last, keeper, subscribe_task, trouble>>
    BY <1>3 DEF R!SubBegins, R!handles
  <2>2. "none" \in Stations("sub") /\ "none" \notin R!Reading \cup {"dialing"}
    BY DEF Stations, R!Reading
  <2>3. at' = [at EXCEPT !["sub"] = "none"] /\ on' = [on EXCEPT !["sub"] = None] /\ woken' = woken \ {"sub"}
    BY <1>2, <2>1, MoveOne
  <2>4. Places'
    BY <1>2, <2>1, <2>2, PlacedOne
  <2>5. /\ at'["sub"] = "none" /\ ~Reads("sub")'
        /\ \A u \in R!Task \ {"sub"} : at'[u] = at[u] /\ on'[u] = on[u] /\ (Reads(u)' <=> Reads(u))
    BY <1>2, <2>2, <2>3 DEF RTypes, Places, Reads
  <2>6. \A u \in {"user", "inner"} : at'[u] = at[u] /\ on'[u] = on[u]
    BY <2>5, Roles
  <2>7. RTypes'
    BY <1>1, <1>2, <2>1, <2>4 DEF RTypes
  <2>8. Links'
    <3>1. \A t \in R!Task : Reads(t)' => link'[on'[t]] \in {"up", "lost"}
      BY <1>1, <1>2, <2>5 DEF Links
    <3> QED BY <1>1, <1>2, <2>1, <2>6, <3>1 DEF Links
  <2>9. Apart'
    <3>1. \A u \in R!Task \ {"sub"} : Reads(u) => SameAt(on[u]) /\ Command(u)' = Command(u)
      BY <1>1, <2>1, <2>5, SameCommand DEF SameAt
    <3>2. SameAt(conn)
      BY <1>1, <2>1 DEF SameAt
    <3> QED BY <1>1, <1>2, <2>1, <2>2, <2>4, <3>1, <3>2, ApartOff
  <2>10. trouble' = {} => Smooth'
    BY <1>1, <1>2, <2>1, <2>5, <2>6 DEF Smooth, R!Reading
  <2>11. Own'
    BY <1>1, <1>2 DEF Own
  <2> QED BY <2>7, <2>8, <2>9, <2>10, <2>11 DEF RInv
<1>4. CASE ~released
  <2>1. R!SubLoops
    BY <1>4 DEF R!SubBegins
  <2>2. LoopsFrom
    BY <1>1 DEF LoopsFrom
  <2> QED BY <1>1, <2>1, <2>2, SubLoopsKeep
<1> QED BY <1>3, <1>4

LEMMA RSubReturns ==
  ASSUME RInv, R!SubReturns
  PROVE  RInv'
<1> DEFINE c == on["sub"]
           reply == R!Parsed("sub")[1]
<1>1. /\ "mixed" \notin trouble /\ Reads("sub") /\ "sub" \in R!Task \ Keeper /\ link' = link
  BY Roles DEF R!SubReturns, R!Returns, R!Live, Reads
<1>2. RTypes /\ Links /\ Apart /\ Own /\ (trouble = {} => Smooth)
  BY <1>1 DEF RInv
<1>3. CASE R!Lost("sub") \/ conn = None
  <2>1. trouble # {}
    BY <1>1, <1>3, LostIsTrouble
  <2>2. R!Crash
    BY <1>3 DEF R!SubReturns
  <2> QED BY <2>1, <2>2, RCrash
<1>4. CASE ~(R!Lost("sub") \/ conn = None)
  <2>1. UNCHANGED <<link, queue, answer, released, crashed, counts>>
    BY <1>1, <1>4 DEF R!SubReturns
  <2>2. \/ /\ R!Broken("sub") /\ R!SubEnds(TRUE) /\ UNCHANGED <<wire, last, asked>>
           /\ trouble' = IF "sub" \in cancelled THEN trouble \cup {"cut"} ELSE trouble
        \/ /\ ~R!Broken("sub") /\ Len(R!Parsed("sub")) # 1 /\ R!Again("sub")
           /\ UNCHANGED <<conn, asked, cancelled, R!handles, trouble>>
        \/ /\ ~R!Broken("sub") /\ Len(R!Parsed("sub")) = 1 /\ R!Taken("sub")
           /\ CASE "sub" \in cancelled \/ (at["sub"] = "message" /\ reply # "msg") -> R!SubUnsubscribes({})
                [] at["sub"] = "unsub" -> R!SubLoops
                [] OTHER -> R!NextMessage
    BY <1>4 DEF R!SubReturns
  <2>3. c \in Conn /\ R!Exists(c) /\ conn = c /\ conn # None /\ link[c] \in {"up", "lost"}
    <3>1. c \in Conn /\ link[c] \in {"up", "lost"}
      BY <1>1, <1>2 DEF RTypes, Places, Links
    <3>2. R!Exists(c)
      BY <1>4 DEF R!Lost
    <3>3. conn = c
      BY <1>1, <3>2, OnIsConn
    <3> QED BY <3>1, <3>2, <3>3, RedisAssumption
  <2> HIDE DEF c
  <2>4. CASE /\ R!Broken("sub") /\ R!SubEnds(TRUE) /\ UNCHANGED <<wire, last, asked>>
             /\ trouble' = IF "sub" \in cancelled THEN trouble \cup {"cut"} ELSE trouble
    <3>1. trouble' # {} /\ trouble \subseteq trouble' /\ trouble' \subseteq trouble \cup {"cut"}
      <4>1. CASE "sub" \in woken
        <5>1. link[c] = "lost"
          BY <2>4, <4>1 DEF R!Broken, c
        <5>2. trouble # {}
          BY <1>2, <2>3, <5>1 DEF Smooth
        <5> QED BY <2>4, <5>2
      <4>2. CASE "sub" \notin woken
        <5>1. "sub" \in cancelled
          BY <2>4, <4>2 DEF R!Broken
        <5> QED BY <2>4, <5>1
      <4> QED BY <4>1, <4>2
    <3>2. wire' \in [Conn -> Seq(Msg)] /\ last' = <<>>
      BY <1>2, <2>4 DEF RTypes
    <3> QED BY <1>1, <2>1, <2>4, <3>1, <3>2, SubGone
  <2>5. CASE /\ ~R!Broken("sub") /\ Len(R!Parsed("sub")) # 1 /\ R!Again("sub")
             /\ UNCHANGED <<conn, asked, cancelled, R!handles, trouble>>
    <3>1. "sub" \notin woken /\ R!Parsed("sub") = <<>>
      BY <1>1, <2>5, ReadIs
    <3>2. UNCHANGED <<keeper, subscribe_task>>
      BY <2>5 DEF R!handles
    <3> QED BY <1>1, <2>1, <2>3, <2>5, <3>1, <3>2, AgainKeeps DEF c
  <2>6. CASE /\ ~R!Broken("sub") /\ Len(R!Parsed("sub")) = 1 /\ R!Taken("sub")
             /\ CASE "sub" \in cancelled \/ (at["sub"] = "message" /\ reply # "msg") -> R!SubUnsubscribes({})
                  [] at["sub"] = "unsub" -> R!SubLoops
                  [] OTHER -> R!NextMessage
    <3> HIDE DEF reply
    <3>1. R!SubUnsubscribes({}) \/ (at["sub"] = "unsub" /\ R!SubLoops) \/ R!NextMessage
      BY <2>6, Zenon
    <3>2. "sub" \in woken /\ Settled(c)
      BY <1>1, <2>6, ReadIs DEF c
    <3>3. wire' = [wire EXCEPT ![c] = <<>>]
      BY <2>6, <3>2 DEF R!Taken, c
    <3>4. /\ wire' \in [Conn -> Seq(Msg)] /\ wire'[c] = <<>>
          /\ \A d \in Conn \ {c} : wire'[d] = wire[d]
      <4>1. <<>> \in Seq(Msg)
        OBVIOUS
      <4> QED BY <1>2, <2>3, <3>3, <4>1 DEF RTypes
    <3>5. CASE R!SubUnsubscribes({})
      <4>1. /\ R!StartJob("sub", "UNSUB", "unsub") /\ cancelled' \subseteq Keeper \cup {"sub"}
            /\ keeper' = keeper /\ subscribe_task' = subscribe_task
        BY <1>2, <3>5 DEF R!SubUnsubscribes, R!handles, RTypes
      <4>2. "UNSUB" \in Msg /\ "unsub" \in R!Reading \ {"message"} /\ "unsub" \in Stations("sub") /\ "unsub" # "query"
        BY DEF Msg, R!Reading, Stations
      <4>3. Command("sub")' = "UNSUB"
        <5>1. R!Move(R!To("sub", "unsub", conn))
          BY <4>1 DEF R!StartJob
        <5>2. at' = [at EXCEPT !["sub"] = "unsub"]
          BY <1>1, <1>2, <5>1, MoveOne
        <5>3. at'["sub"] = "unsub"
          BY <1>1, <1>2, <5>2 DEF RTypes, Places
        <5> QED BY <5>3 DEF Command
      <4>4. wire'[conn] = <<>> /\ Settled(conn) /\ \A d \in Conn \ {conn} : wire'[d] = wire[d]
        BY <2>3, <3>2, <3>4
      <4>5. "sub" \in {"inner", "sub"}
        OBVIOUS
      <4> QED BY <1>1, <2>1, <2>3, <3>4, <4>1, <4>2, <4>3, <4>4, <4>5, SentKeeps
    <3>6. CASE at["sub"] = "unsub" /\ R!SubLoops
      <4>1. LoopsFrom
        BY <2>3, <3>2, <3>3, <3>6 DEF LoopsFrom, c
      <4> QED BY <1>1, <2>1, <3>6, <4>1, SubLoopsKeep
    <3>7. CASE R!NextMessage
      <4>1. /\ last' = <<>> /\ R!Move(R!To("sub", "message", conn))
            /\ UNCHANGED <<conn, asked, cancelled, keeper, subscribe_task, trouble>>
        BY <3>7 DEF R!NextMessage, R!handles
      <4>2. "message" \in Stations("sub") /\ "message" \in R!Reading
        BY DEF Stations, R!Reading
      <4>3. at' = [at EXCEPT !["sub"] = "message"] /\ on' = [on EXCEPT !["sub"] = conn] /\ woken' = woken \ {"sub"}
        BY <1>1, <1>2, <4>1, MoveOne
      <4>4. Places'
        BY <1>1, <1>2, <2>3, <4>1, <4>2, PlacedOne
      <4>5. /\ at'["sub"] = "message" /\ on'["sub"] = conn
            /\ \A u \in R!Task \ {"sub"} : at'[u] = at[u] /\ on'[u] = on[u] /\ (Reads(u)' <=> Reads(u))
        BY <1>1, <1>2, <4>3 DEF RTypes, Places, Reads
      <4>6. \A u \in {"user", "inner"} : at'[u] = at[u] /\ on'[u] = on[u]
        BY <4>5, Roles
      <4>7. RTypes'
        BY <1>2, <2>1, <3>4, <4>1, <4>4 DEF RTypes
      <4>8. Links'
        <5>1. \A t \in R!Task : Reads(t)' => link'[on'[t]] \in {"up", "lost"}
          BY <1>2, <2>1, <2>3, <4>5 DEF Links
        <5>2. \A d \in Conn : link'[d] \in {"none", "new"} => wire'[d] = <<>> /\ asked'[d] = <<>>
          BY <1>2, <2>1, <3>4, <4>1 DEF Links
        <5> QED BY <1>2, <2>1, <4>1, <4>6, <5>1, <5>2 DEF Links
      <4>9. Apart'
        <5>1. Fits("sub")'
          BY <2>1, <2>3, <3>2, <4>1, <4>5 DEF Fits, Settled
        <5>2. \A d \in Conn \ {conn} : SameAt(d)
          BY <2>1, <2>3, <3>4, <4>1 DEF SameAt
        <5>3. \A u \in R!Task \ {"sub"} : Reads(u) => on[u] # conn /\ Command(u)' = Command(u)
          <6>1. \A u \in R!Task \ {"sub"} : Reads(u) => on[u] # conn
            BY <1>1, <1>2, <2>3 DEF Apart, c
          <6>2. \A u \in R!Task \ {"sub"} : Command(u)' = Command(u)
            BY <2>1, <4>5, SameCommand
          <6> QED BY <6>1, <6>2
        <5> QED BY <1>1, <2>3, <4>1, <4>2, <4>3, <5>1, <5>2, <5>3, ApartReads
      <4>10. trouble' = {} => Smooth'
        BY <1>2, <2>1, <4>1, <4>5, <4>6 DEF Smooth
      <4>11. Own'
        BY <1>2, <2>1 DEF Own
      <4> QED BY <4>7, <4>8, <4>9, <4>10, <4>11 DEF RInv
    <3> QED BY <3>1, <3>5, <3>6, <3>7
  <2> QED BY <2>2, <2>4, <2>5, <2>6
<1> QED BY <1>3, <1>4

LEMMA RNext == RInv /\ [R!Next]_rvars => RInv'
<1> SUFFICES ASSUME RInv, [R!Next]_rvars PROVE RInv'
  OBVIOUS
<1>1. CASE R!Connect \/ R!Dialed \/ R!Greeted \/ R!Disconnect \/ R!Subscribe \/ R!Unsubscribe \/ R!Release
  BY <1>1, RConnect, RDialed, RGreeted, RDisconnect, RSubscribe, RUnsubscribe, RRelease
<1>2. CASE R!InnerStarts \/ R!InnerReturns \/ R!SubBegins \/ R!SubReturns
  BY <1>2, RInnerStarts, RInnerReturns, RSubBegins, RSubReturns
<1>3. CASE \E x \in Cmd : R!Query(x)
  BY <1>3, RQuery
<1>4. CASE \E k \in Keeper : R!Test(k) \/ R!TestReturns(k)
  BY <1>4, RTest, RTestReturns
<1>5. CASE \E c \in Conn : R!Answer(c) \/ R!Publish(c) \/ R!Lose(c) \/ R!Event(c)
  BY <1>5, RAnswer, RPublish, RLose, REvent
<1>6. CASE UNCHANGED rvars
  <2>1. UNCHANGED R!rvars
    BY <1>6 DEF rvars, R!rvars, R!net, R!tasks, R!handles, R!results
  <2> QED BY <2>1, RSame
<1> QED BY <1>1, <1>2, <1>3, <1>4, <1>5, <1>6 DEF R!Next

\* Unless two tasks have waited on one connection at a time, a query that succeeds has the
\* reply to its own command, and a null conn_ or a destroyed connector is only met after a
\* loss, a timeout or when conn_ was given up, for any number of queries, connectors,
\* keepalive tasks and messages.
THEOREM QueriesHaveTheirReplies == Spec => []QueriesAreSafe
<1>1. Init => RInv
  BY RInit DEF Init
<1>2. RInv /\ [Next]_all => RInv'
  BY RNext, Parts
<1>3. RInv => QueriesAreSafe
  BY DEF RInv, Own, Smooth, QueriesAreSafe, R!AnswersAreOwn, R!CrashNeedsTrouble
<1> QED BY <1>1, <1>2, <1>3, PTL DEF Spec

----------------------------------------------------------------------------
(* The types.                                                              *)

LEMMA STypeOK == STyped => S!TypeOK
BY DEF STyped, Byte, S!TypeOK

\* Every part keeps the types it states.
THEOREM ServicesTypeCorrect == Spec => []TypeOK
<1>1. IP!Spec => []IP!Typed
  BY InjectorDistinct, IP!InjectorTypes
<1>2. IP!Typed => I!TypeOK
  BY DEF IP!Typed, IP!TypeOK, I!TypeOK, IP!Kind, I!Kind, IP!Self, I!Self, IP!Leaving, I!Leaving
<1>3. Init => RInv /\ SInv /\ AInv /\ DInv
  BY RInit, SInit, AInit, DInit DEF Init
<1>4. RInv /\ SInv /\ AInv /\ DInv /\ [Next]_all => RInv' /\ SInv' /\ AInv' /\ DInv'
  BY RNext, SNext, ANext, DNext, Parts
<1>5. RInv /\ SInv /\ AInv /\ DInv => R!TypeOK /\ S!TypeOK /\ A!TypeOK /\ D!TypeOK
  BY RTypeOK, STypeOK DEF RInv, SInv, AInv, DInv
<1>6. I!TypeOK /\ R!TypeOK /\ S!TypeOK /\ A!TypeOK /\ D!TypeOK => TypeOK
  BY DEF TypeOK
<1> QED BY <1>1, <1>2, <1>3, <1>4, <1>5, <1>6, InjectorPart, PTL DEF Spec
=============================================================================
