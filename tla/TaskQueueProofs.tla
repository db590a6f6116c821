--------------------------- MODULE TaskQueueProofs --------------------------
(***************************************************************************)
(* What the calls of module Sync keep true of the lists of the objects and *)
(* of the counts of the semaphores, and theorems about TaskQueue, for      *)
(* every set of tasks, objects and workers, and whether or not objects are *)
(* destroyed with tasks waiting in them.                                   *)
(***************************************************************************)
EXTENDS TaskQueue, SequenceTheorems, FiniteSetTheorems, TLAPS

----------------------------------------------------------------------------
(* Sequences that hold every element once.                                 *)

LEMMA AppendOnce ==
  ASSUME NEW S, NEW s \in Seq(S), IsInjective(s), NEW e \in S, ~Contains(s, e)
  PROVE  /\ Append(s, e) \in Seq(S) /\ IsInjective(Append(s, e))
         /\ \A x : Contains(Append(s, e), x) <=> Contains(s, x) \/ x = e
<1> DEFINE a == Append(s, e)
<1>1. /\ a \in Seq(S) /\ Len(a) = Len(s) + 1
      /\ \A i \in 1 .. Len(s) : a[i] = s[i]
      /\ a[Len(s) + 1] = e
  BY AppendProperties
<1>2. DOMAIN a = 1 .. Len(s) + 1 /\ DOMAIN s = 1 .. Len(s) /\ Len(s) \in Nat
  BY <1>1, LenProperties
<1>3. IsInjective(a)
  BY <1>1, <1>2 DEF IsInjective, Contains
<1>4. \A x : Contains(a, x) <=> Contains(s, x) \/ x = e
  BY <1>1, <1>2 DEF Contains
<1> QED BY <1>1, <1>3, <1>4

LEMMA ConsOnce ==
  ASSUME NEW S, NEW s \in Seq(S), IsInjective(s), NEW e \in S, ~Contains(s, e)
  PROVE  /\ <<e>> \o s \in Seq(S) /\ IsInjective(<<e>> \o s)
         /\ \A x : Contains(<<e>> \o s, x) <=> Contains(s, x) \/ x = e
<1> DEFINE a == <<e>> \o s
<1>1. <<e>> \in Seq(S) /\ Len(<<e>>) = 1 /\ <<e>>[1] = e /\ Len(s) \in Nat
  BY LenProperties
<1>2. /\ a \in Seq(S) /\ Len(a) = 1 + Len(s)
      /\ \A i \in 1 .. 1 + Len(s) : a[i] = IF i <= 1 THEN <<e>>[i] ELSE s[i - 1]
  BY <1>1, ConcatProperties
<1>3. DOMAIN a = 1 .. 1 + Len(s) /\ DOMAIN s = 1 .. Len(s)
  BY <1>2, LenProperties
<1> HIDE DEF a
<1>4. a[1] = e /\ \A i \in 1 .. Len(s) : a[i + 1] = s[i]
  BY <1>1, <1>2
<1>5. \A i \in 1 .. 1 + Len(s) : i = 1 \/ \E k \in 1 .. Len(s) : i = k + 1 /\ a[i] = s[k]
  <2> SUFFICES ASSUME NEW i \in 1 .. 1 + Len(s), i # 1
               PROVE  \E k \in 1 .. Len(s) : i = k + 1 /\ a[i] = s[k]
    OBVIOUS
  <2>1. i - 1 \in 1 .. Len(s) /\ i = (i - 1) + 1
    BY <1>1
  <2>2. a[(i - 1) + 1] = s[i - 1]
    BY <1>4, <2>1
  <2> QED BY ONLY <2>1, <2>2
<1>6. IsInjective(a)
  <2> SUFFICES ASSUME NEW i \in 1 .. 1 + Len(s), NEW j \in 1 .. 1 + Len(s), a[i] = a[j] PROVE i = j
    BY <1>3 DEF IsInjective
  <2>1. \A k \in 1 .. Len(s) : s[k] # e
    BY <1>3 DEF Contains
  <2>2. \A k, l \in 1 .. Len(s) : s[k] = s[l] => k = l
    BY <1>3 DEF IsInjective
  <2>3. a[1] = e
    BY <1>4
  <2> QED BY <1>5, <2>1, <2>2, <2>3
<1>7. \A x : Contains(a, x) <=> Contains(s, x) \/ x = e
  BY <1>1, <1>2, <1>3, <1>4, <1>5 DEF Contains
<1> QED BY <1>2, <1>6, <1>7 DEF a

LEMMA TailOnce ==
  ASSUME NEW S, NEW s \in Seq(S), IsInjective(s), s # <<>>
  PROVE  /\ Head(s) \in S /\ Contains(s, Head(s))
         /\ Tail(s) \in Seq(S) /\ IsInjective(Tail(s))
         /\ \A x : Contains(Tail(s), x) <=> Contains(s, x) /\ x # Head(s)
<1> DEFINE r == Tail(s)
<1>1. /\ Head(s) = s[1] /\ Head(s) \in S
      /\ r \in Seq(S) /\ Len(r) = Len(s) - 1
      /\ \A i \in 1 .. Len(r) : r[i] = s[i + 1]
  BY HeadTailProperties
<1>2. Len(s) \in Nat \ {0} /\ DOMAIN s = 1 .. Len(s) /\ DOMAIN r = 1 .. Len(r)
  BY <1>1, EmptySeq, LenProperties
<1> HIDE DEF r
<1>3. IsInjective(r)
  <2> SUFFICES ASSUME NEW i \in 1 .. Len(r), NEW j \in 1 .. Len(r), r[i] = r[j] PROVE i = j
    BY <1>2 DEF IsInjective
  <2>1. i + 1 \in 1 .. Len(s) /\ j + 1 \in 1 .. Len(s)
    BY <1>1, <1>2
  <2>2. s[i + 1] = s[j + 1]
    BY <1>1
  <2>3. i + 1 = j + 1
    BY <1>2, <2>1, <2>2 DEF IsInjective
  <2> QED BY <2>3
<1>4. \A i \in 1 .. Len(s) : i = 1 \/ \E k \in 1 .. Len(r) : i = k + 1 /\ r[k] = s[i]
  BY <1>1, <1>2
<1>5. \A x : Contains(r, x) <=> Contains(s, x) /\ x # Head(s)
  <2>1. \A k \in 1 .. Len(r) : r[k] # Head(s) /\ k + 1 \in 1 .. Len(s)
    BY <1>1, <1>2 DEF IsInjective
  <2> QED BY <1>1, <1>2, <1>4, <2>1 DEF Contains
<1>6. Contains(s, Head(s))
  BY <1>1, <1>2 DEF Contains
<1> QED BY <1>1, <1>3, <1>5, <1>6 DEF r

LEMMA RemoveOnce ==
  ASSUME NEW S, NEW s \in Seq(S), IsInjective(s), NEW e
  PROVE  /\ RemoveFirst(s, e) \in Seq(S) /\ IsInjective(RemoveFirst(s, e))
         /\ \A x : Contains(RemoveFirst(s, e), x) <=> Contains(s, x) /\ x # e
<1>1. CASE ~ \E i \in 1 .. Len(s) : s[i] = e
  BY <1>1 DEF RemoveFirst, Contains
<1>2. CASE \E i \in 1 .. Len(s) : s[i] = e
  <2> DEFINE I == {i \in 1 .. Len(s) : s[i] = e}
  <2>1. Len(s) \in Nat /\ DOMAIN s = 1 .. Len(s)
    BY LenProperties
  <2>2. PICK k \in 1 .. Len(s) : s[k] = e
    BY <1>2
  <2>3. I = {k}
    BY <2>1, <2>2 DEF IsInjective
  <2>4. Min({k}) = k
    BY <2>1 DEF Min
  <2>5. RemoveFirst(s, e) = RemoveAt(s, k)
    BY <1>2, <2>3, <2>4 DEF RemoveFirst, SelectInSeq
  <2> DEFINE a == SubSeq(s, 1, k - 1)
             b == SubSeq(s, k + 1, Len(s))
             r == a \o b
  <2>6. \A i \in 1 .. Len(s) : s[i] \in S
    BY ElementOfSeq
  <2>7. /\ a \in Seq(S) /\ Len(a) = k - 1
        /\ \A i \in 1 .. k - 1 : a[i] = s[i]
    <3>1. /\ a \in Seq(S)
          /\ Len(a) = IF 1 <= k - 1 THEN (k - 1) - 1 + 1 ELSE 0
          /\ \A i \in 1 .. (k - 1) - 1 + 1 : a[i] = s[1 + i - 1]
      <4>1. 1 \in Int /\ k - 1 \in Int /\ \A i \in 1 .. k - 1 : s[i] \in S
        BY <2>1, <2>6
      <4> HIDE DEF a
      <4> QED BY <4>1, SubSeqProperties DEF a
    <3> QED BY <2>1, <3>1
  <2>8. /\ b \in Seq(S) /\ Len(b) = Len(s) - k
        /\ \A i \in 1 .. Len(s) - k : b[i] = s[k + i]
    <3>1. /\ b \in Seq(S)
          /\ Len(b) = IF k + 1 <= Len(s) THEN Len(s) - (k + 1) + 1 ELSE 0
          /\ \A i \in 1 .. Len(s) - (k + 1) + 1 : b[i] = s[(k + 1) + i - 1]
      <4>1. k + 1 \in Int /\ Len(s) \in Int /\ \A i \in k + 1 .. Len(s) : s[i] \in S
        BY <2>1, <2>6
      <4> HIDE DEF b
      <4> QED BY <4>1, SubSeqProperties DEF b
    <3> HIDE DEF b
    <3>2. Len(b) = Len(s) - k
      <4>1. Len(b) = IF k + 1 <= Len(s) THEN Len(s) - (k + 1) + 1 ELSE 0
        BY <3>1
      <4>2. \A n \in Nat : \A i \in 1 .. n :
              (IF i + 1 <= n THEN n - (i + 1) + 1 ELSE 0) = n - i
        OBVIOUS
      <4> QED BY <2>1, <4>1, <4>2
    <3>3. ASSUME NEW i \in 1 .. Len(s) - k PROVE b[i] = s[k + i]
      <4>1. i \in 1 .. Len(s) - (k + 1) + 1 /\ (k + 1) + i - 1 = k + i
        BY <2>1
      <4> QED BY <3>1, <4>1
    <3> QED BY <3>1, <3>2, <3>3
  <2> HIDE DEF a, b
  <2>9. /\ r \in Seq(S) /\ Len(r) = Len(s) - 1
        /\ \A i \in 1 .. Len(s) - 1 : r[i] = IF i < k THEN s[i] ELSE s[i + 1]
    <3>1. /\ r \in Seq(S) /\ Len(r) = Len(a) + Len(b)
          /\ \A i \in 1 .. Len(a) + Len(b) :
               r[i] = IF i <= Len(a) THEN a[i] ELSE b[i - Len(a)]
      BY <2>7, <2>8, ConcatProperties
    <3> HIDE DEF r
    <3>2. Len(a) + Len(b) = Len(s) - 1
      BY <2>1, <2>7, <2>8
    <3>3. ASSUME NEW i \in 1 .. Len(s) - 1, i < k PROVE r[i] = s[i]
      BY <2>1, <2>7, <3>1, <3>2, <3>3
    <3>4. ASSUME NEW i \in 1 .. Len(s) - 1, ~(i < k) PROVE r[i] = s[i + 1]
      <4>1. i - Len(a) \in 1 .. Len(s) - k /\ k + (i - Len(a)) = i + 1
        BY <2>1, <2>7, <3>4
      <4>2. r[i] = b[i - Len(a)]
        BY <2>1, <2>7, <3>1, <3>2, <3>4
      <4> QED BY <2>8, <4>1, <4>2
    <3> QED BY <3>1, <3>2, <3>3, <3>4
  <2>10. DOMAIN r = 1 .. Len(s) - 1
    BY <2>9, LenProperties
  <2> HIDE DEF r
  <2>11. IsInjective(r)
    <3> DEFINE Up(i) == IF i < k THEN i ELSE i + 1
    <3>1. \A i \in DOMAIN r : Up(i) \in DOMAIN s /\ r[i] = s[Up(i)]
      BY <2>1, <2>9, <2>10
    <3>2. \A i, j \in DOMAIN r : Up(i) = Up(j) => i = j
      BY <2>1, <2>10
    <3> HIDE DEF Up
    <3> QED BY <3>1, <3>2 DEF IsInjective
  <2>12. ASSUME NEW x PROVE Contains(r, x) <=> Contains(s, x) /\ x # e
    <3>1. ASSUME Contains(r, x) PROVE Contains(s, x) /\ x # e
      <4>1. PICK i \in 1 .. Len(s) - 1 : x = IF i < k THEN s[i] ELSE s[i + 1]
        BY <2>9, <3>1 DEF Contains
      <4> QED BY <2>1, <2>2, <4>1 DEF Contains, IsInjective
    <3>2. ASSUME Contains(s, x), x # e PROVE Contains(r, x)
      <4>1. PICK i \in 1 .. Len(s) : x = s[i] /\ i # k
        BY <2>2, <3>2 DEF Contains
      <4>2. CASE i < k
        BY <2>1, <2>9, <4>1, <4>2 DEF Contains
      <4>3. CASE i > k
        <5>1. i - 1 \in 1 .. Len(s) - 1 /\ ~(i - 1 < k) /\ (i - 1) + 1 = i
          BY <2>1, <4>3
        <5>2. r[i - 1] = s[i]
          BY <2>9, <5>1
        <5> QED BY <2>9, <4>1, <5>1, <5>2 DEF Contains
      <4> QED BY <2>1, <4>1, <4>2, <4>3
    <3> QED BY <3>1, <3>2
  <2>13. RemoveFirst(s, e) = r
    BY <2>5 DEF RemoveAt, r, a, b
  <2> QED BY <2>9, <2>11, <2>12, <2>13
<1> QED BY <1>1, <1>2

----------------------------------------------------------------------------
(* The lists of waiters.                                                   *)

\* The inductive form of ListsAreExact: a list holds a task once, and only
\* while the task is in a call of its object, where it is suspended; and it
\* holds all tasks that are blocked there.
Lists ==
  /\ \A t \in Task : on[t] # None => Suspended(t)
  /\ \A o \in Obj : IsInjective(waiting[o])
  /\ \A o \in Obj, t \in Task : Contains(waiting[o], t) => on[t] = o /\ o \in exists
  /\ \A o \in exists, t \in Task :
        st[t] = "blocked" /\ on[t] = o => Contains(waiting[o], t)

SyncInv == SyncTypeOK /\ Lists /\ NoIdleToken

LEMMA NoneIsNoObject == None \notin Obj /\ None \notin Task
BY ObjAssumption

LEMMA ContainsIsToSet ==
  ASSUME NEW S, NEW s \in Seq(S)
  PROVE  \A x : x \in ToSet(s) <=> Contains(s, x)
BY LenProperties DEF ToSet, Contains

LEMMA EmptyContains == \A x : ~Contains(<<>>, x)
BY DEF Contains

LEMMA EmptyIsInjective == IsInjective(<<>>) /\ <<>> \in Seq(Task)
BY DEF IsInjective

\* Lists implies the invariant the runs check.
LEMMA ListsSuffice ==
  ASSUME SyncTypeOK, Lists
  PROVE  ListsAreExact
<1>1. \A o \in exists : o \in Obj /\ waiting[o] \in Seq(Task)
  BY DEF SyncTypeOK
<1>2. ASSUME NEW o \in exists, NEW t \in ToSet(waiting[o]) PROVE Suspended(t) /\ on[t] = o
  <2>1. Contains(waiting[o], t) /\ t \in Task
    BY <1>1, ContainsIsToSet, LenProperties DEF ToSet
  <2> QED BY <1>1, <2>1, NoneIsNoObject DEF Lists
<1> QED BY <1>1, <1>2 DEF Lists, ListsAreExact

\* What give and trigger take: nothing from an empty list, else its first task,
\* because every task of a list is alive.
LEMMA Taking ==
  ASSUME SyncTypeOK, Lists, NEW o \in Obj
  PROVE  /\ Alive(o) = {} <=> waiting[o] = <<>>
         /\ First(o) \subseteq {t \in Task : Contains(waiting[o], t)}
         /\ Rest(o) \in Seq(Task) /\ IsInjective(Rest(o))
         /\ \A x : Contains(Rest(o), x) <=> Contains(waiting[o], x) /\ x \notin First(o)
         /\ waiting[o] = <<>> => First(o) = {} /\ Rest(o) = <<>>
         /\ AllOf(o) = {t \in Task : Contains(waiting[o], t)}
<1> DEFINE w == waiting[o]
<1>1. w \in Seq(Task) /\ Len(w) \in Nat /\ DOMAIN w = 1 .. Len(w) /\ IsInjective(w)
  BY LenProperties DEF SyncTypeOK, Lists
<1>2. \A i \in DOMAIN w : w[i] \in Task /\ Contains(w, w[i])
  BY <1>1, ElementOfSeq DEF Contains
<1>3. \A i \in DOMAIN w : st[w[i]] # "absent"
  BY <1>2, NoneIsNoObject DEF Lists, Suspended
<1>4. Alive(o) = DOMAIN w
  BY <1>3 DEF Alive
<1>5. AllOf(o) = {t \in Task : Contains(w, t)}
  BY <1>1, <1>2, <1>4 DEF AllOf, Contains
<1>6. CASE w = <<>>
  <2>1. Alive(o) = {} /\ First(o) = {} /\ Rest(o) = <<>>
    BY <1>4, <1>6 DEF First, Rest
  <2> QED BY <1>5, <1>6, <2>1, EmptyContains, EmptyIsInjective
<1>7. CASE w # <<>>
  <2>1. Len(w) \in Nat \ {0}
    BY <1>1, <1>7, EmptySeq
  <2>2. Alive(o) # {} /\ Min(Alive(o)) = 1
    <3>1. Alive(o) = 1 .. Len(w)
      BY <1>1, <1>4
    <3> QED BY <2>1, <3>1 DEF Min
  <2>3. First(o) = {Head(w)} /\ Rest(o) = Tail(w)
    <3>1. Head(w) = w[1] /\ Tail(w) = SubSeq(w, 2, Len(w))
      BY <1>1, <1>7, TailIsSubSeq
    <3>2. First(o) = {w[1]} /\ Rest(o) = SubSeq(w, 1 + 1, Len(w))
      <4> HIDE DEF w
      <4> QED BY <2>2, Zenon DEF First, Rest, w
    <3>3. 1 + 1 = 2
      OBVIOUS
    <3> QED BY <3>1, <3>2, <3>3, Zenon
  <2>4. /\ Head(w) \in Task /\ Contains(w, Head(w))
        /\ Tail(w) \in Seq(Task) /\ IsInjective(Tail(w))
        /\ \A x : Contains(Tail(w), x) <=> Contains(w, x) /\ x # Head(w)
    BY <1>1, <1>7, TailOnce
  <2> QED BY <1>5, <1>7, <2>2, <2>3, <2>4
<1> QED BY <1>6, <1>7

\* task::wakeup neither suspends a task nor ends its call.
LEMMA Waking ==
  ASSUME SyncTypeOK, NEW W
  PROVE  /\ Woken(W) \in [Task -> {"absent", "ready", "running", "blocked"}]
         /\ \A t \in Task : /\ Woken(W)[t] = "blocked" <=> st[t] = "blocked" /\ t \notin W
                            /\ Woken(W)[t] = "absent" <=> st[t] = "absent"
                            /\ Woken(W)[t] = "running" <=> st[t] = "running"
                            /\ Suspended(t) <=> Woken(W)[t] \in {"ready", "blocked"}
         /\ \A s \in {"received", "nothing", "broken"} :
              Told(W, s) \in [Task -> {"received", "nothing", "broken"}]
BY DEF SyncTypeOK, Woken, Told, Suspended

\* A step that leaves the lists alone.
LEMMA ListsByStatus ==
  ASSUME SyncTypeOK, Lists,
         UNCHANGED <<on, exists, waiting>>,
         \A t \in Task : on[t] # None =>
                          Suspended(t)' /\ (st'[t] = "blocked" => st[t] = "blocked")
  PROVE  Lists'
<1>1. exists \subseteq Obj
  BY DEF SyncTypeOK
<1>2. (\A t \in Task : on[t] # None => Suspended(t))'
  OBVIOUS
<1>3. (\A o \in Obj : IsInjective(waiting[o]))'
  BY DEF Lists
<1>4. (\A o \in Obj, t \in Task : Contains(waiting[o], t) => on[t] = o /\ o \in exists)'
  BY DEF Lists
<1>5. (\A o \in exists, t \in Task :
         st[t] = "blocked" /\ on[t] = o => Contains(waiting[o], t))'
  BY <1>1, NoneIsNoObject DEF Lists
<1> QED BY <1>2, <1>3, <1>4, <1>5 DEF Lists

\* A step that takes from the list of o whom give or trigger takes, and wakes
\* them.
LEMMA ListsByTaking ==
  ASSUME SyncTypeOK, Lists, NEW o \in exists,
         UNCHANGED <<on, exists>>,
         waiting' = [waiting EXCEPT ![o] = Rest(o)],
         \A t \in Task : on[t] # None =>
              /\ Suspended(t)'
              /\ st'[t] = "blocked" => st[t] = "blocked" /\ t \notin First(o)
  PROVE  Lists'
<1> o \in Obj /\ exists \subseteq Obj /\ DOMAIN waiting = Obj
  BY DEF SyncTypeOK
<1> DEFINE F == First(o)
           R == Rest(o)
<1>1. /\ IsInjective(R)
      /\ \A x : Contains(R, x) <=> Contains(waiting[o], x) /\ x \notin F
  BY Taking
<1> HIDE DEF F, R
<1>2. \A p \in Obj : waiting'[p] = IF p = o THEN R ELSE waiting[p]
  BY DEF R
<1>3. \A t \in Task : on[t] # None =>
              /\ Suspended(t)'
              /\ st'[t] = "blocked" => st[t] = "blocked" /\ t \notin F
  BY DEF F
<1>4. (\A p \in Obj : IsInjective(waiting[p]))'
  BY <1>1, <1>2 DEF Lists
<1>5. (\A p \in Obj, t \in Task : Contains(waiting[p], t) => on[t] = p /\ p \in exists)'
  BY <1>1, <1>2 DEF Lists
<1>6. (\A p \in exists, t \in Task :
         st[t] = "blocked" /\ on[t] = p => Contains(waiting[p], t))'
  BY <1>1, <1>2, <1>3, NoneIsNoObject DEF Lists
<1> QED BY <1>3, <1>4, <1>5, <1>6 DEF Lists

\* A step that wakes the whole list of o and clears it, and may destroy o.
LEMMA ListsByClearing ==
  ASSUME SyncTypeOK, Lists, NEW o \in exists,
         on' = on,
         exists' = exists \/ exists' = exists \ {o},
         waiting' = [waiting EXCEPT ![o] = <<>>],
         \A t \in Task : on[t] # None =>
              /\ Suspended(t)'
              /\ st'[t] = "blocked" => st[t] = "blocked" /\ ~Contains(waiting[o], t)
  PROVE  Lists'
<1> o \in Obj /\ exists \subseteq Obj /\ DOMAIN waiting = Obj
  BY DEF SyncTypeOK
<1>1. \A p \in Obj : waiting'[p] = IF p = o THEN <<>> ELSE waiting[p]
  OBVIOUS
<1>2. (\A p \in Obj : IsInjective(waiting[p]))'
  BY <1>1, EmptyIsInjective DEF Lists
<1>3. (\A p \in Obj, t \in Task : Contains(waiting[p], t) => on[t] = p /\ p \in exists)'
  BY <1>1, EmptyContains DEF Lists
<1>4. (\A p \in exists, t \in Task :
         st[t] = "blocked" /\ on[t] = p => Contains(waiting[p], t))'
  BY <1>1, NoneIsNoObject DEF Lists
<1>5. (\A t \in Task : on[t] # None => Suspended(t))'
  OBVIOUS
<1> QED BY <1>2, <1>3, <1>4, <1>5 DEF Lists

LEMMA LeaveEmpty ==
  ASSUME SyncTypeOK, NEW t, NEW o \in Obj, waiting[o] = <<>>
  PROVE  Leave(t)[o] = <<>>
<1>1. RemoveFirst(<<>>, t) = <<>>
  BY DEF RemoveFirst
<1> QED BY <1>1 DEF Leave, SyncTypeOK

\* A task that leaves its call, whatever it does next.
LEMMA ListsByLeaving ==
  ASSUME SyncTypeOK, Lists, NEW t \in Task, NEW x,
         x \in {"absent", "running"},
         st' = [st EXCEPT ![t] = x],
         on' = [on EXCEPT ![t] = None],
         exists' = exists, waiting' = Leave(t)
  PROVE  Lists' /\ waiting' \in [Obj -> Seq(Task)]
<1> exists \subseteq Obj /\ waiting \in [Obj -> Seq(Task)]
  BY DEF SyncTypeOK
<1>1. \A p \in Obj : /\ waiting'[p] \in Seq(Task) /\ IsInjective(waiting'[p])
                     /\ \A y : Contains(waiting'[p], y) <=>
                                Contains(waiting[p], y) /\ ~(y = t /\ p = on[t] /\ p \in exists)
  <2> TAKE p \in Obj
  <2>1. CASE p = on[t] /\ p \in exists
    <3>1. waiting'[p] = RemoveFirst(waiting[p], t)
      BY <2>1 DEF Leave
    <3> QED BY <2>1, <3>1, RemoveOnce DEF Lists
  <2>2. CASE ~(p = on[t] /\ p \in exists)
    <3>1. waiting'[p] = waiting[p]
      BY <2>2 DEF Leave
    <3> QED BY <2>2, <3>1 DEF Lists
  <2> QED BY <2>1, <2>2
<1>2. waiting' \in [Obj -> Seq(Task)]
  <2>1. waiting' = [p \in Obj |-> waiting'[p]]
    BY DEF Leave
  <2> QED BY <1>1, <2>1
<1>3. \A u \in Task : /\ on'[u] = IF u = t THEN None ELSE on[u]
                      /\ st'[u] = IF u = t THEN x ELSE st[u]
  BY DEF SyncTypeOK
<1>4. (\A u \in Task : on[u] # None => Suspended(u))'
  BY <1>3 DEF Lists, Suspended
<1>5. (\A p \in Obj, u \in Task : Contains(waiting[p], u) => on[u] = p /\ p \in exists)'
  BY <1>1, <1>3 DEF Lists
<1>6. (\A p \in exists, u \in Task :
         st[u] = "blocked" /\ on[u] = p => Contains(waiting[p], u))'
  BY <1>1, <1>3, NoneIsNoObject DEF Lists
<1> QED BY <1>1, <1>2, <1>4, <1>5, <1>6 DEF Lists

----------------------------------------------------------------------------
(* The steps of module Sync keep SyncInv.                                  *)

LEMMA SyncInitial ==
  ASSUME NEW i \in Task, SyncInit(i)
  PROVE  SyncInv
<1>1. SyncTypeOK
  BY EmptyIsInjective DEF SyncInit, SyncTypeOK
<1>2. Lists
  BY NoneIsNoObject, EmptyIsInjective, EmptyContains DEF SyncInit, Lists
<1>3. NoIdleToken
  BY DEF SyncInit, NoIdleToken, Obj
<1> QED BY <1>1, <1>2, <1>3 DEF SyncInv

\* The steps of the loop, which change no list and no count.
LEMMA LoopStep ==
  ASSUME SyncInv, NEW t \in Task,
         Create(t) \/ Yield(t) \/ Finish(t) \/ Timeout(t) \/ Cancel(t)
  PROVE  SyncInv'
<1> SyncTypeOK /\ Lists /\ NoIdleToken
  BY DEF SyncInv
<1>1. SyncTypeOK'
  <2>1. CASE Cancel(t)
    BY <2>1, Waking DEF Cancel, SyncTypeOK, objVars
  <2>2. CASE Create(t) \/ Yield(t) \/ Finish(t) \/ Timeout(t)
    BY <2>2 DEF Create, Yield, Finish, Timeout, SyncTypeOK, objVars
  <2> QED BY <2>1, <2>2
<1>2. UNCHANGED <<on, exists, waiting, count>>
  BY DEF Create, Yield, Finish, Timeout, Cancel, objVars
<1>3. \A u \in Task : on[u] # None =>
                       Suspended(u)' /\ (st'[u] = "blocked" => st[u] = "blocked")
  <2>1. CASE Cancel(t)
    BY <2>1, Waking DEF Cancel, Lists, Suspended
  <2>2. CASE Create(t) \/ Yield(t) \/ Finish(t) \/ Timeout(t)
    BY <2>2 DEF Create, Yield, Finish, Timeout, InUser, Lists, Suspended, SyncTypeOK
  <2> QED BY <2>1, <2>2
<1>4. Lists'
  BY <1>2, <1>3, ListsByStatus
<1>5. NoIdleToken'
  BY <1>2 DEF NoIdleToken
<1> QED BY <1>1, <1>4, <1>5 DEF SyncInv

LEMMA TakeStep ==
  ASSUME SyncInv, NEW t \in Task, NEW o \in Obj, Take(t, o)
  PROVE  SyncInv'
<1> SyncTypeOK /\ Lists /\ NoIdleToken
  BY DEF SyncInv
<1>1. SyncTypeOK'
  BY DEF Take, SyncTypeOK, taskVars
<1>2. Lists'
  <2>1. UNCHANGED <<st, on, exists, waiting>>
    BY DEF Take, taskVars
  <2> QED BY <2>1, ListsByStatus DEF Lists, Suspended
<1>3. NoIdleToken'
  BY DEF Take, NoIdleToken, SyncTypeOK, taskVars
<1> QED BY <1>1, <1>2, <1>3 DEF SyncInv

LEMMA EnqueueStep ==
  ASSUME SyncInv, NEW t \in Task, NEW o \in exists, NEW c \in {"hold", "until"},
         InUser(t), Enqueue(t, o, c)
  PROVE  SyncInv'
<1> SyncTypeOK /\ Lists /\ NoIdleToken
  BY DEF SyncInv
<1> o \in Obj /\ exists \subseteq Obj
  BY DEF SyncTypeOK
<1> DEFINE w == Append(waiting[o], t)
<1>1. on[t] = None /\ \A p \in Obj : ~Contains(waiting[p], t)
  BY NoneIsNoObject DEF InUser, Lists, Suspended
<1>2. /\ w \in Seq(Task) /\ IsInjective(w)
      /\ \A x : Contains(w, x) <=> Contains(waiting[o], x) \/ x = t
  BY <1>1, AppendOnce DEF Lists, SyncTypeOK
<1> HIDE DEF w
<1>3. /\ waiting' = [waiting EXCEPT ![o] = w] /\ UNCHANGED <<exists, count>>
      /\ st' = [st EXCEPT ![t] = "blocked"] /\ on' = [on EXCEPT ![t] = o]
  BY DEF Enqueue, w
<1>4. SyncTypeOK'
  <2>1. waiting' \in [Obj -> Seq(Task)]
    BY <1>2, <1>3 DEF SyncTypeOK
  <2> QED BY <2>1 DEF Enqueue, SyncTypeOK
<1>5. \A p \in Obj : waiting'[p] = IF p = o THEN w ELSE waiting[p]
  BY <1>3 DEF SyncTypeOK
<1>6. \A u \in Task : /\ on'[u] = IF u = t THEN o ELSE on[u]
                      /\ st'[u] = IF u = t THEN "blocked" ELSE st[u]
  BY <1>3 DEF SyncTypeOK
<1>7. Lists'
  <2>1. (\A u \in Task : on[u] # None => Suspended(u))'
    BY <1>6 DEF Lists, Suspended
  <2>2. (\A p \in Obj : IsInjective(waiting[p]))'
    BY <1>2, <1>5 DEF Lists
  <2>3. (\A p \in Obj, u \in Task : Contains(waiting[p], u) => on[u] = p /\ p \in exists)'
    BY <1>1, <1>2, <1>3, <1>5, <1>6 DEF Lists
  <2>4. (\A p \in exists, u \in Task :
           st[u] = "blocked" /\ on[u] = p => Contains(waiting[p], u))'
    BY <1>2, <1>3, <1>5, <1>6 DEF Lists
  <2> QED BY <2>1, <2>2, <2>3, <2>4 DEF Lists
<1>8. NoIdleToken'
  BY <1>3, <1>5 DEF Enqueue, NoIdleToken, SyncTypeOK, Obj
<1> QED BY <1>4, <1>7, <1>8 DEF SyncInv

LEMMA WaitStep ==
  ASSUME SyncInv, NEW t \in Task, NEW o \in Obj, NEW c \in {"hold", "until"},
         Wait(t, o, c)
  PROVE  SyncInv'
<1>1. CASE Take(t, o)
  BY <1>1, TakeStep
<1>2. CASE Refuse(t, o)
  <2> SyncTypeOK /\ Lists /\ NoIdleToken
    BY DEF SyncInv
  <2>1. SyncTypeOK' /\ NoIdleToken'
    BY <1>2 DEF Refuse, SyncTypeOK, NoIdleToken, objVars
  <2>2. UNCHANGED <<st, on, exists, waiting>>
    BY <1>2 DEF Refuse, objVars
  <2>3. Lists'
    BY <2>2, ListsByStatus DEF Lists, Suspended
  <2> QED BY <2>1, <2>3 DEF SyncInv
<1>3. CASE Enqueue(t, o, c)
  BY <1>3, EnqueueStep DEF Wait
<1> QED BY <1>1, <1>2, <1>3 DEF Wait

LEMMA ResumeStep ==
  ASSUME SyncInv, NEW t \in Task, Resume(t)
  PROVE  SyncInv'
<1> SyncTypeOK /\ Lists /\ NoIdleToken
  BY DEF SyncInv
<1>1. Lists' /\ waiting' \in [Obj -> Seq(Task)]
  BY ListsByLeaving DEF Resume
<1>2. SyncTypeOK'
  BY <1>1 DEF Resume, SyncTypeOK
<1>3. NoIdleToken'
  BY LeaveEmpty DEF Resume, NoIdleToken, Obj
<1> QED BY <1>1, <1>2, <1>3 DEF SyncInv

\* semaphore::give adds a token only to an empty list.
LEMMA Giving ==
  ASSUME SyncInv, NEW o, GiveTo(o)
  PROVE  /\ o \in exists /\ o \in Obj
         /\ waiting' = [waiting EXCEPT ![o] = Rest(o)] /\ waiting' \in [Obj -> Seq(Task)]
         /\ count' \in [Sem -> Nat] /\ given' \in [Sem -> Nat]
         /\ NoIdleToken'
<1> SyncTypeOK /\ Lists /\ NoIdleToken
  BY DEF SyncInv
<1>1. o \in exists /\ o \in Sem /\ o \in Obj
  BY DEF GiveTo, Obj
<1>2. /\ Alive(o) = {} <=> waiting[o] = <<>>
      /\ Rest(o) \in Seq(Task)
      /\ waiting[o] = <<>> => Rest(o) = <<>>
  BY <1>1, Taking
<1>3. waiting' = [waiting EXCEPT ![o] = Rest(o)] /\ waiting' \in [Obj -> Seq(Task)]
  BY <1>1, <1>2 DEF GiveTo, SyncTypeOK
<1>4. count' \in [Sem -> Nat] /\ given' \in [Sem -> Nat]
  BY <1>1 DEF GiveTo, HandOver, SyncTypeOK
<1>5. NoIdleToken'
  BY <1>1, <1>2, <1>3 DEF GiveTo, HandOver, NoIdleToken, SyncTypeOK, Obj
<1> QED BY <1>1, <1>3, <1>4, <1>5

LEMMA GiveStep ==
  ASSUME SyncInv, NEW o \in Obj, Give(o)
  PROVE  SyncInv'
<1> SyncTypeOK /\ Lists /\ NoIdleToken
  BY DEF SyncInv
<1>1. GiveTo(o)
  BY DEF Give
<1>2. SyncTypeOK'
  BY <1>1, Giving, Waking DEF Give, SyncTypeOK
<1>3. \A t \in Task : on[t] # None =>
              /\ Suspended(t)'
              /\ st'[t] = "blocked" => st[t] = "blocked" /\ t \notin First(o)
  BY Waking DEF Give, Lists, Suspended
<1>4. Lists'
  BY <1>1, <1>3, Giving, ListsByTaking DEF Give
<1> QED BY <1>1, <1>2, <1>4, Giving DEF SyncInv

LEMMA TriggerOneStep ==
  ASSUME SyncInv, NEW o \in Obj, TriggerOne(o)
  PROVE  SyncInv'
<1> SyncTypeOK /\ Lists /\ NoIdleToken
  BY DEF SyncInv
<1>1. o \in exists /\ o \notin Sem
  BY ObjAssumption DEF TriggerOne
<1>2. SyncTypeOK'
  BY Taking, Waking DEF TriggerOne, SyncTypeOK
<1>3. \A t \in Task : on[t] # None =>
              /\ Suspended(t)'
              /\ st'[t] = "blocked" => st[t] = "blocked" /\ t \notin First(o)
  BY Waking DEF TriggerOne, Lists, Suspended
<1>4. Lists'
  BY <1>1, <1>3, ListsByTaking DEF TriggerOne
<1>5. NoIdleToken'
  BY <1>1 DEF TriggerOne, NoIdleToken, SyncTypeOK, Obj
<1> QED BY <1>2, <1>4, <1>5 DEF SyncInv

\* A list that is cleared wakes all its tasks.
LEMMA WakeAllStep ==
  ASSUME SyncInv, NEW o \in exists, NEW s \in {"received", "nothing"}, WakeAll(o, s),
         exists' = exists \/ exists' = exists \ {o}
  PROVE  SyncInv'
<1> SyncTypeOK /\ Lists /\ NoIdleToken
  BY DEF SyncInv
<1>1. o \in Obj
  BY DEF SyncTypeOK
<1>2. SyncTypeOK'
  BY Waking, EmptyIsInjective DEF WakeAll, SyncTypeOK
<1>3. \A t \in Task : on[t] # None =>
              /\ Suspended(t)'
              /\ st'[t] = "blocked" => st[t] = "blocked" /\ ~Contains(waiting[o], t)
  BY <1>1, Taking, Waking DEF WakeAll, Lists, Suspended
<1>4. Lists'
  BY <1>3, ListsByClearing DEF WakeAll
<1>5. NoIdleToken'
  BY <1>1 DEF WakeAll, NoIdleToken, SyncTypeOK, Obj
<1> QED BY <1>2, <1>4, <1>5 DEF SyncInv

LEMMA UsedStep ==
  ASSUME SyncInv, NEW o \in Obj, Used(o)
  PROVE  SyncInv'
<1>1. CASE Give(o)
  BY <1>1, GiveStep
<1>2. CASE TriggerOne(o)
  BY <1>2, TriggerOneStep
<1>3. CASE TriggerAll(o)
  BY <1>3, WakeAllStep DEF TriggerAll
<1>4. CASE CancelWaiters(o)
  BY <1>4, WakeAllStep DEF CancelWaiters
<1>5. CASE Destroy(o)
  BY <1>5, WakeAllStep DEF Destroy
<1> QED BY <1>1, <1>2, <1>3, <1>4, <1>5 DEF Used

----------------------------------------------------------------------------
(* The tokens of a semaphore.                                              *)

\* A task that is in the list has not been told of a token.
Unheard(o) == \A t \in Task : Contains(waiting[o], t) => signal[t] # "received"

\* What a step may do to the tokens of o: nothing; a give, to the count or to a
\* task of the list; a fetch, from the count or by a task that had been told.
Same(o) ==
  /\ given'[o] = given[o] /\ count'[o] = count[o] /\ got'[o] = got[o]
  /\ Promised(o)' = Promised(o)
Gives(o) ==
  /\ given'[o] = given[o] + 1 /\ got'[o] = got[o]
  /\ \/ count'[o] = count[o] + 1 /\ Promised(o)' = Promised(o)
     \/ /\ count'[o] = count[o]
        /\ \E t \in Task \ Promised(o) : Promised(o)' = Promised(o) \cup {t}
Takes(o) ==
  /\ given'[o] = given[o] /\ got'[o] = got[o] + 1
  /\ \/ count'[o] = count[o] - 1 /\ Promised(o)' = Promised(o)
     \/ /\ count'[o] = count[o]
        /\ \E t \in Promised(o) : Promised(o)' = Promised(o) \ {t}

Moves(o) == Unheard(o)' /\ (Same(o) \/ Gives(o) \/ Takes(o))

\* The account of o: TokensConserved, for this one semaphore.
Balanced(o) ==
  /\ IsFiniteSet(Promised(o))
  /\ given[o] = count[o] + got[o] + Cardinality(Promised(o))

LEMMA MovesBalance ==
  ASSUME SyncTypeOK, SyncTypeOK', NEW o \in Sem, Balanced(o), Moves(o)
  PROVE  Balanced(o)'
<1> DEFINE P == Promised(o)
           Q == Promised(o)'
<1>1. IsFiniteSet(P) /\ Cardinality(P) \in Nat
  BY FS_CardinalityType DEF Balanced
<1>2. given[o] = count[o] + got[o] + Cardinality(P)
  BY DEF Balanced
<1>3. /\ given[o] \in Nat /\ count[o] \in Nat /\ got[o] \in Nat
      /\ given'[o] \in Nat /\ count'[o] \in Nat /\ got'[o] \in Nat
  BY DEF SyncTypeOK
<1> HIDE DEF P
<1> SUFFICES IsFiniteSet(Q) /\ given'[o] = count'[o] + got'[o] + Cardinality(Q)
  BY DEF Balanced
<1>4. CASE Q = P
  BY <1>1, <1>2, <1>3, <1>4 DEF Moves, Same, Gives, Takes, P
<1>5. CASE \E t \in Task \ P : Q = P \cup {t}
  <2>1. PICK t \in Task \ P : Q = P \cup {t}
    BY <1>5
  <2>2. IsFiniteSet(Q) /\ Cardinality(Q) = Cardinality(P) + 1
    BY <1>1, <2>1, FS_AddElement
  <2>3. Gives(o) /\ count'[o] = count[o]
    BY <2>1 DEF Moves, Same, Gives, Takes, P
  <2> HIDE DEF Q
  <2> QED BY <1>1, <1>2, <1>3, <2>2, <2>3 DEF Gives
<1>6. CASE \E t \in P : Q = P \ {t}
  <2>1. PICK t \in P : Q = P \ {t}
    BY <1>6
  <2>2. IsFiniteSet(Q) /\ Cardinality(Q) = Cardinality(P) - 1
    BY <1>1, <2>1, FS_RemoveElement
  <2>3. Takes(o) /\ count'[o] = count[o]
    BY <2>1 DEF Moves, Same, Gives, Takes, P
  <2> HIDE DEF Q
  <2> QED BY <1>1, <1>2, <1>3, <2>2, <2>3 DEF Takes
<1> QED BY <1>4, <1>5, <1>6 DEF Moves, Same, Gives, Takes, P

\* A step that leaves the counts of o alone, and of which no task inside a call of
\* o hears.
LEMMA NoMove ==
  ASSUME SyncTypeOK, NEW o \in Sem, Unheard(o),
         UNCHANGED <<given[o], count[o], got[o]>>,
         \A t \in Task :
           \/ /\ on'[t] = o <=> on[t] = o
              /\ signal'[t] = signal[t]
              /\ Contains(waiting'[o], t) <=> Contains(waiting[o], t)
           \/ t \notin Promised(o) /\ (on'[t] # o \/ signal'[t] # "received")
              /\ (Contains(waiting'[o], t) => signal'[t] # "received")
  PROVE  Same(o) /\ Unheard(o)'
<1>1. Promised(o)' = Promised(o)
  BY DEF Promised
<1>2. Unheard(o)'
  BY DEF Unheard
<1> QED BY <1>1, <1>2 DEF Same

LEMMA LoopMoves ==
  ASSUME SyncInv, NEW o \in Sem \cap exists, Unheard(o), NEW t \in Task,
         Create(t) \/ Yield(t) \/ Finish(t) \/ Timeout(t) \/ Cancel(t)
  PROVE  Moves(o)
<1> SyncTypeOK /\ Lists /\ o \in Obj
  BY DEF SyncInv, Obj
<1>1. UNCHANGED <<on, waiting, given, count, got>>
  BY DEF Create, Yield, Finish, Timeout, Cancel, objVars
<1>2. \A u \in Task :
        \/ signal'[u] = signal[u]
        \/ /\ signal'[u] # "received"
           /\ on[u] = None \/ (on[u] = o => Contains(waiting[o], u))
  <2>1. CASE Create(t)
    BY <2>1 DEF Create, SyncTypeOK, Lists, Suspended
  <2>2. CASE Cancel(t)
    BY <2>2 DEF Cancel, SyncTypeOK, Lists
  <2>3. CASE Yield(t) \/ Finish(t) \/ Timeout(t)
    BY <2>3 DEF Yield, Finish, Timeout
  <2> QED BY <2>1, <2>2, <2>3
<1>3. Same(o) /\ Unheard(o)'
  BY <1>1, <1>2, NoMove, NoneIsNoObject DEF Promised
<1> QED BY <1>3 DEF Moves

LEMMA WaitMoves ==
  ASSUME SyncInv, NEW o \in Sem \cap exists, Unheard(o),
         NEW t \in Task, NEW p \in Obj, NEW c, InUser(t),
         Take(t, p) \/ Refuse(t, p) \/ Enqueue(t, p, c)
  PROVE  Moves(o)
<1> SyncTypeOK /\ Lists /\ o \in Obj
  BY DEF SyncInv, Obj
<1>1. on[t] = None /\ o # None /\ \A q \in Obj : ~Contains(waiting[q], t)
  BY NoneIsNoObject DEF InUser, Lists, Suspended
<1>2. CASE Take(t, p)
  <2>1. Promised(o)' = Promised(o) /\ Unheard(o)'
    BY <1>2 DEF Take, taskVars, Promised, Unheard
  <2>2. Same(o) \/ Takes(o)
    BY <1>2, <2>1 DEF Take, Same, Takes, SyncTypeOK
  <2> QED BY <2>1, <2>2 DEF Moves
<1>3. CASE Refuse(t, p)
  <2>1. UNCHANGED <<on, waiting, given, count, got>> /\ signal' = [signal EXCEPT ![t] = "broken"]
    BY <1>3 DEF Refuse, objVars
  <2>2. Same(o) /\ Unheard(o)'
    BY <1>1, <2>1, NoMove DEF SyncTypeOK, Promised
  <2> QED BY <2>2 DEF Moves
<1>4. CASE Enqueue(t, p, c)
  <2>1. /\ UNCHANGED <<given, count, got>>
        /\ on' = [on EXCEPT ![t] = p] /\ signal' = [signal EXCEPT ![t] = "nothing"]
        /\ waiting' = [waiting EXCEPT ![p] = Append(@, t)]
    BY <1>4 DEF Enqueue
  <2>2. \A x : Contains(Append(waiting[p], t), x) <=> Contains(waiting[p], x) \/ x = t
    BY <1>1, AppendOnce DEF SyncTypeOK, Lists
  <2>3. \A u \in Task : u # t => (Contains(waiting'[o], u) <=> Contains(waiting[o], u))
    BY <2>1, <2>2 DEF SyncTypeOK
  <2>4. \A u \in Task : /\ u # t => on'[u] = on[u] /\ signal'[u] = signal[u]
                        /\ u = t => signal'[u] = "nothing"
    BY <2>1 DEF SyncTypeOK
  <2>5. Same(o) /\ Unheard(o)'
    BY <1>1, <2>1, <2>3, <2>4, NoMove DEF Promised
  <2> QED BY <2>5 DEF Moves
<1> QED BY <1>2, <1>3, <1>4

\* A task leaves its call, and returns true if it has been told of a token.
LEMMA LeaveMoves ==
  ASSUME SyncInv, NEW o \in Sem \cap exists, Unheard(o), NEW t \in Task,
         on' = [on EXCEPT ![t] = None], waiting' = Leave(t),
         UNCHANGED <<signal, given, count>>,
         got' = IF on[t] \in Sem /\ signal[t] = "received"
                  THEN [got EXCEPT ![on[t]] = @ + 1] ELSE got
  PROVE  Moves(o)
<1> SyncTypeOK /\ Lists /\ o \in Obj /\ o # None
  BY NoneIsNoObject DEF SyncInv, Obj
<1>1. \A u : Contains(waiting'[o], u) <=> Contains(waiting[o], u) /\ ~(u = t /\ on[t] = o)
  <2>1. CASE on[t] = o
    <3>1. waiting'[o] = RemoveFirst(waiting[o], t)
      BY <2>1 DEF Leave, SyncTypeOK
    <3>2. waiting[o] \in Seq(Task) /\ IsInjective(waiting[o])
      BY DEF SyncTypeOK, Lists
    <3> QED BY <2>1, <3>1, <3>2, RemoveOnce
  <2>2. CASE on[t] # o
    <3>1. waiting'[o] = waiting[o]
      BY <2>2 DEF Leave, SyncTypeOK
    <3> QED BY <2>2, <3>1
  <2> QED BY <2>1, <2>2
<1>2. \A u \in Task : on'[u] = IF u = t THEN None ELSE on[u]
  BY DEF SyncTypeOK
<1>3. Unheard(o)'
  BY <1>1 DEF Unheard
<1>4. CASE on[t] = o /\ signal[t] = "received"
  <2>1. t \in Promised(o)
    BY <1>4 DEF Promised, Unheard
  <2>2. Promised(o)' = Promised(o) \ {t}
    BY <1>1, <1>2 DEF Promised
  <2>3. got'[o] = got[o] + 1
    BY <1>4 DEF SyncTypeOK
  <2> QED BY <1>3, <2>1, <2>2, <2>3 DEF Moves, Takes
<1>5. CASE ~(on[t] = o /\ signal[t] = "received")
  <2>1. got'[o] = got[o]
    BY <1>5 DEF SyncTypeOK
  <2>2. Promised(o)' = Promised(o)
    BY <1>1, <1>2, <1>5 DEF Promised
  <2> QED BY <1>3, <2>1, <2>2 DEF Moves, Same
<1> QED BY <1>4, <1>5

\* semaphore::give, whatever else happens to tasks that are in no call.
LEMMA GiveMoves ==
  ASSUME SyncInv, NEW o \in Sem \cap exists, Unheard(o), NEW p, GiveTo(p),
         on' = on, got' = got,
         \A u \in Task : on[u] # None => signal'[u] = Told(First(p), "received")[u]
  PROVE  Moves(o)
<1> SyncTypeOK /\ Lists /\ o \in Obj /\ o # None
  BY NoneIsNoObject DEF SyncInv, Obj
<1>1. p \in exists \cap Sem /\ p \in Obj
  BY DEF GiveTo, Obj
<1> DEFINE F == First(p)
           R == Rest(p)
<1>2. /\ Alive(p) = {} <=> waiting[p] = <<>>
      /\ F \subseteq {t \in Task : Contains(waiting[p], t)}
      /\ \A x : Contains(R, x) <=> Contains(waiting[p], x) /\ x \notin F
      /\ waiting[p] = <<>> => F = {} /\ R = <<>>
  BY <1>1, Taking
<1>3. \A u \in F : on[u] = p
  BY <1>1, <1>2 DEF Lists
<1>4. waiting' = [waiting EXCEPT ![p] = R]
  BY DEF GiveTo
<1>5. \A u \in Task : on[u] # None => signal'[u] = IF u \in F THEN "received" ELSE signal[u]
  BY DEF Told
<1>6. CASE p # o
  <2>1. UNCHANGED <<given[o], count[o], got[o]>> /\ waiting'[o] = waiting[o]
    BY <1>1, <1>4, <1>6 DEF GiveTo, HandOver, SyncTypeOK
  <2>2. Promised(o)' = Promised(o)
    BY <1>3, <1>5, <1>6, <2>1 DEF Promised
  <2>3. Unheard(o)'
    BY <1>3, <1>5, <1>6, <2>1, NoneIsNoObject DEF Unheard, Lists
  <2> QED BY <2>1, <2>2, <2>3 DEF Moves, Same
<1>7. CASE p = o
  <2>1. /\ waiting'[o] = R /\ given'[o] = given[o] + 1
        /\ count'[o] = IF Alive(o) = {} THEN count[o] + 1 ELSE count[o]
    BY <1>1, <1>4, <1>7 DEF GiveTo, HandOver, SyncTypeOK
  <2>2. Unheard(o)'
    BY <1>2, <1>5, <1>7, <2>1, NoneIsNoObject DEF Unheard, Lists
  <2>3. Promised(o)' = Promised(o) \cup F
    BY <1>2, <1>3, <1>5, <1>7, <2>1, NoneIsNoObject DEF Promised
  <2>4. CASE Alive(o) = {}
    <3>1. F = {}
      BY <1>2, <1>7, <2>4
    <3> QED BY <2>1, <2>2, <2>3, <2>4, <3>1 DEF Moves, Gives
  <2>5. CASE Alive(o) # {}
    <3>1. \E t : F = {t}
      BY <1>7, <2>5 DEF First
    <3>2. PICK t \in Task \ Promised(o) : F = {t}
      BY <1>2, <1>7, <3>1 DEF Promised
    <3> QED BY <2>1, <2>2, <2>3, <2>5, <3>2 DEF Moves, Gives
  <2> QED BY <2>4, <2>5
<1> QED BY <1>6, <1>7

\* The tasks of a list are woken without a token: those of a signal, or with
\* another signal than the one a token brings.
LEMMA WakeMoves ==
  ASSUME SyncInv, NEW o \in Sem \cap exists, Unheard(o), NEW p \in Obj, NEW W, NEW s,
         W \subseteq {t \in Task : Contains(waiting[p], t)},
         UNCHANGED <<on, given, count, got>>, signal' = Told(W, s),
         \A q \in Obj \ {p} : waiting'[q] = waiting[q],
         p = o => waiting'[p] = <<>> /\ s # "received"
                  /\ W = {t \in Task : Contains(waiting[p], t)}
  PROVE  Moves(o)
<1> SyncTypeOK /\ Lists /\ o \in Obj /\ o # None
  BY NoneIsNoObject DEF SyncInv, Obj
<1>1. \A u \in W : on[u] = p /\ Contains(waiting[p], u)
  BY DEF Lists
<1>2. \A u \in Task : signal'[u] = IF u \in W THEN s ELSE signal[u]
  BY DEF Told
<1>3. CASE p # o
  <2>1. waiting'[o] = waiting[o]
    BY <1>3
  <2>2. Promised(o)' = Promised(o)
    BY <1>1, <1>2, <1>3, <2>1 DEF Promised
  <2>3. Unheard(o)'
    BY <1>1, <1>2, <1>3, <2>1 DEF Unheard, Lists
  <2> QED BY <2>2, <2>3 DEF Moves, Same
<1>4. CASE p = o
  <2>1. Promised(o)' = Promised(o)
    BY <1>2, <1>4, EmptyContains DEF Promised
  <2>2. Unheard(o)'
    BY <1>4, EmptyContains DEF Unheard
  <2> QED BY <2>1, <2>2 DEF Moves, Same
<1> QED BY <1>3, <1>4

LEMMA UsedMoves ==
  ASSUME SyncInv, NEW o \in Sem \cap exists, Unheard(o), NEW p \in Obj, Used(p)
  PROVE  Moves(o)
<1> SyncTypeOK /\ Lists
  BY DEF SyncInv
<1>1. CASE Give(p)
  BY <1>1, GiveMoves DEF Give
<1>2. CASE TriggerOne(p)
  <2>1. p # o /\ First(p) \subseteq {t \in Task : Contains(waiting[p], t)}
    BY <1>2, Taking, ObjAssumption DEF TriggerOne
  <2>2. /\ UNCHANGED <<on, given, count, got>> /\ signal' = Told(First(p), "received")
        /\ \A q \in Obj \ {p} : waiting'[q] = waiting[q]
    BY <1>2 DEF TriggerOne, SyncTypeOK
  <2> QED BY <2>1, <2>2, WakeMoves
<1>3. ASSUME NEW s, WakeAll(p, s), p \in Sig \/ s = "nothing"
      PROVE  Moves(o)
  <2>1. AllOf(p) = {t \in Task : Contains(waiting[p], t)}
    BY Taking
  <2>2. /\ UNCHANGED <<on, given, count, got>> /\ signal' = Told(AllOf(p), s)
        /\ \A q \in Obj \ {p} : waiting'[q] = waiting[q]
        /\ waiting'[p] = <<>>
    BY <1>3 DEF WakeAll, SyncTypeOK
  <2>3. p = o => s # "received"
    BY <1>3, ObjAssumption
  <2> QED BY <2>1, <2>2, <2>3, WakeMoves
<1> QED BY <1>1, <1>2, <1>3 DEF Used, TriggerAll, CancelWaiters, Destroy

----------------------------------------------------------------------------
(* The task queue.                                                         *)

QueueTypeOK ==
  /\ pending \in Seq(Job)
  /\ added \subseteq Job /\ done \subseteq Job
  /\ caller \in [Job -> Task \cup {None}]
  /\ job \in Job \cup {None}
  /\ mine \in [Task -> Job \cup {None}]

\* Only the inner task fetches from the semaphore of the queue, and it runs no
\* worker meanwhile.
InnerOnly == \A t \in Task : on[t] = Queue => t = Inner /\ job = None

\* A worker is added, taken from the list, run and returns, in this order and
\* each once.
Jobs ==
  /\ IsInjective(pending)
  /\ done \subseteq added
  /\ \A j \in Job : Contains(pending, j) => j \in added \ done
  /\ job # None => job \in added \ done /\ ~Contains(pending, job)

Inv == SyncInv /\ QueueTypeOK /\ InnerOnly /\ Jobs

LEMMA QueueFacts == Queue \in Obj /\ Queue # None /\ Inner \in Task /\ None \notin Job
BY QueueAssumption, ObjAssumption DEF Obj

LEMMA InvInit == Init => Inv
<1> SUFFICES ASSUME Init PROVE Inv
  OBVIOUS
<1>1. SyncInv
  BY SyncInitial, QueueFacts DEF Init
<1>2. IsInjective(<<>>) /\ <<>> \in Seq(Job)
  BY DEF IsInjective
<1>3. QueueTypeOK /\ Jobs
  BY <1>2, EmptyContains DEF Init, QueueTypeOK, Jobs
<1>4. InnerOnly
  BY QueueFacts DEF Init, SyncInit, InnerOnly
<1> QED BY <1>1, <1>3, <1>4 DEF Inv

\* A step that leaves the queue alone and lets no other task fetch from it.
LEMMA QueueUnchanged ==
  ASSUME Inv, UNCHANGED queueVars, SyncInv',
         \A t \in Task : on'[t] = on[t] \/ on'[t] # Queue
  PROVE  Inv'
<1>1. QueueTypeOK' /\ Jobs'
  BY DEF Inv, QueueTypeOK, Jobs, queueVars
<1>2. InnerOnly'
  BY DEF Inv, InnerOnly, queueVars
<1> QED BY <1>1, <1>2 DEF Inv

\* The steps of the loop, and the objects that are not the queue's.
LEMMA LoopTaskStep ==
  ASSUME Inv, UNCHANGED queueVars,
         NEW t \in Task, Create(t) \/ Yield(t) \/ Finish(t) \/ Timeout(t) \/ Cancel(t)
  PROVE  Inv'
<1>1. SyncInv'
  BY LoopStep DEF Inv
<1>2. on' = on
  BY DEF Create, Yield, Finish, Timeout, Cancel
<1> QED BY <1>1, <1>2, QueueUnchanged

LEMMA CallsStep ==
  ASSUME Inv, UNCHANGED queueVars, NEW t \in Task, Calls(t, Obj \ {Queue})
  PROVE  Inv'
<1>1. CASE Yield(t)
  BY <1>1, LoopTaskStep
<1>2. ASSUME NEW o \in Obj \ {Queue}, NEW c \in {"hold", "until"}, Wait(t, o, c)
      PROVE  Inv'
  <2>1. SyncInv'
    BY <1>2, WaitStep DEF Inv
  <2>2. \A u \in Task : on'[u] = on[u] \/ on'[u] # Queue
    BY <1>2 DEF Wait, Take, Refuse, Enqueue, taskVars, Inv, SyncInv, SyncTypeOK
  <2> QED BY <2>1, <2>2, QueueUnchanged
<1> QED BY <1>1, <1>2 DEF Calls

LEMMA UsedObjectStep ==
  ASSUME Inv, UNCHANGED queueVars, NEW o \in Obj \ {Queue}, Used(o)
  PROVE  Inv'
<1>1. SyncInv'
  BY UsedStep DEF Inv
<1>2. on' = on
  BY DEF Used, Give, TriggerOne, TriggerAll, CancelWaiters, Destroy, WakeAll
<1> QED BY <1>1, <1>2, QueueUnchanged

LEMMA ReturnStep ==
  ASSUME Inv, NEW t \in Task, Return(t)
  PROVE  Inv'
<1>1. SyncInv'
  BY ResumeStep DEF Inv, Return
<1>2. QueueTypeOK' /\ Jobs'
  BY DEF Inv, QueueTypeOK, Jobs, Return
<1>3. InnerOnly'
  BY QueueFacts DEF Inv, SyncInv, SyncTypeOK, InnerOnly, Return, Resume
<1> QED BY <1>1, <1>2, <1>3 DEF Inv

\* A worker that is added has not been in the list, run or returned.
LEMMA AddFacts ==
  ASSUME Inv, NEW j \in Job, NEW t \in Task \cup {None}, Add(j, t)
  PROVE  /\ SyncInv /\ ~Contains(pending, j) /\ j \notin done /\ j # job
         /\ added' = added \cup {j} /\ caller' = [caller EXCEPT ![j] = t]
         /\ GiveTo(Queue)
         /\ UNCHANGED <<doomed, exists, got, used, job, done>>
BY QueueFacts DEF Inv, Jobs, Add

LEMMA AddJobs ==
  ASSUME Inv, NEW j \in Job, NEW t \in Task \cup {None}, Add(j, t),
         pending' = Append(pending, j) \/ pending' = <<j>> \o pending
  PROVE  Jobs' /\ pending' \in Seq(Job)
<1>1. /\ pending' \in Seq(Job) /\ IsInjective(pending')
      /\ \A x : Contains(pending', x) <=> Contains(pending, x) \/ x = j
  <2>1. CASE pending' = Append(pending, j)
    BY <2>1, AddFacts, AppendOnce DEF Inv, Jobs, QueueTypeOK
  <2>2. CASE pending' = <<j>> \o pending
    BY <2>2, AddFacts, ConsOnce DEF Inv, Jobs, QueueTypeOK
  <2> QED BY <2>1, <2>2
<1> QED BY <1>1, AddFacts DEF Inv, Jobs

LEMMA SubmitStep ==
  ASSUME Inv, NEW j \in Job, Submit(j)
  PROVE  Inv'
<1> SyncInv /\ SyncTypeOK /\ Lists /\ QueueTypeOK
  BY DEF Inv, SyncInv
<1>1. Add(j, None) /\ (pending' = Append(pending, j) \/ pending' = <<j>> \o pending)
  BY DEF Submit
<1>2. Jobs' /\ pending' \in Seq(Job)
  BY <1>1, AddJobs
<1>3. GiveTo(Queue) /\ UNCHANGED <<doomed, exists, got, used, job, done, at, on, mine>>
  BY <1>1 DEF Add, Submit
<1>4. SyncTypeOK'
  BY <1>3, Giving, Waking DEF Submit, SyncTypeOK
<1>5. \A t \in Task : on[t] # None =>
              /\ Suspended(t)'
              /\ st'[t] = "blocked" => st[t] = "blocked" /\ t \notin First(Queue)
  BY Waking DEF Submit, Lists, Suspended
<1>6. Lists'
  BY <1>3, <1>5, Giving, ListsByTaking
<1>7. NoIdleToken'
  BY <1>3, Giving
<1>8. QueueTypeOK'
  BY <1>1, <1>2, <1>3, AddFacts DEF QueueTypeOK
<1>9. InnerOnly'
  BY <1>3 DEF Inv, InnerOnly
<1> QED BY <1>2, <1>4, <1>6, <1>7, <1>8, <1>9 DEF Inv, SyncInv

LEMMA SyncJobStep ==
  ASSUME Inv, NEW t \in Task, NEW j \in Job, SyncJob(t, j)
  PROVE  Inv'
<1> SyncInv /\ SyncTypeOK /\ Lists /\ QueueTypeOK
  BY DEF Inv, SyncInv
<1>1. Add(j, t) /\ pending' = Append(pending, j) /\ st[t] = "running"
  BY DEF SyncJob, MayCall, InUser
<1>2. Jobs' /\ pending' \in Seq(Job)
  BY <1>1, AddJobs
<1>3. GiveTo(Queue) /\ UNCHANGED <<doomed, exists, got, used, job, done, on>>
  BY <1>1 DEF Add, SyncJob
<1>4. /\ SyncTypeOK'
      /\ \A u \in Task : st'[u] = Woken(First(Queue))[u] \/ (u = t /\ st'[u] = "blocked")
  <2> DEFINE W == Woken(First(Queue))
             T == Told(First(Queue), "received")
  <2>1. /\ W \in [Task -> {"absent", "ready", "running", "blocked"}]
        /\ T \in [Task -> {"received", "nothing", "broken"}]
    BY Waking
  <2>2. \/ st' = W /\ signal' = [T EXCEPT ![t] = "broken"] /\ UNCHANGED at
        \/ /\ st' = [W EXCEPT ![t] = "blocked"] /\ signal' = [T EXCEPT ![t] = "nothing"]
           /\ at' = [at EXCEPT ![t] = "hold"]
    BY DEF SyncJob
  <2> HIDE DEF W, T
  <2>3. /\ st' \in [Task -> {"absent", "ready", "running", "blocked"}]
        /\ signal' \in [Task -> {"received", "nothing", "broken"}]
        /\ at' \in [Task -> {"none", "hold", "until"}]
        /\ \A u \in Task : st'[u] = W[u] \/ (u = t /\ st'[u] = "blocked")
    <3>1. at \in [Task -> {"none", "hold", "until"}]
      BY DEF SyncTypeOK
    <3>2. CASE st' = W /\ signal' = [T EXCEPT ![t] = "broken"] /\ UNCHANGED at
      BY ONLY <2>1, <3>1, <3>2, t \in Task
    <3>3. CASE /\ st' = [W EXCEPT ![t] = "blocked"] /\ signal' = [T EXCEPT ![t] = "nothing"]
               /\ at' = [at EXCEPT ![t] = "hold"]
      BY ONLY <2>1, <3>1, <3>3, t \in Task
    <3> QED BY <2>2, <3>2, <3>3
  <2>4. SyncTypeOK'
    BY <1>3, <2>3, Giving DEF SyncTypeOK
  <2> QED BY <2>3, <2>4 DEF W
<1>5. on[t] = None
  BY <1>1 DEF Lists, Suspended
<1>6. \A u \in Task : on[u] # None =>
              /\ Suspended(u)'
              /\ st'[u] = "blocked" => st[u] = "blocked" /\ u \notin First(Queue)
  BY <1>4, <1>5, Waking DEF Lists, Suspended
<1>7. Lists'
  BY <1>3, <1>6, Giving, ListsByTaking
<1>8. NoIdleToken'
  BY <1>3, Giving
<1>9. QueueTypeOK'
  BY <1>1, <1>2, <1>3, AddFacts DEF QueueTypeOK, SyncJob
<1>10. InnerOnly'
  BY <1>3 DEF Inv, InnerOnly
<1> QED BY <1>2, <1>4, <1>7, <1>8, <1>9, <1>10 DEF Inv, SyncInv

LEMMA DestroyQueueStep ==
  ASSUME Inv, DestroyQueue
  PROVE  Inv'
<1> SyncInv /\ SyncTypeOK /\ Lists /\ NoIdleToken /\ QueueTypeOK
  BY DEF Inv, SyncInv
<1>1. \A t \in Task : Contains(waiting[Queue], t) => t = Inner
  BY QueueFacts DEF Inv, InnerOnly, Lists
<1>2. /\ st' = Woken({Inner}) /\ UNCHANGED <<at, on, count, given, got, used>>
      /\ exists' = exists \ {Queue} /\ Queue \in exists
      /\ waiting' = [waiting EXCEPT ![Queue] = <<>>]
  BY DEF DestroyQueue
<1>3. SyncTypeOK'
  <2>1. signal' \in [Task -> {"received", "nothing", "broken"}]
    BY Waking DEF DestroyQueue, SyncTypeOK
  <2>2. doomed' \subseteq Task
    BY QueueFacts DEF DestroyQueue, SyncTypeOK
  <2> QED BY <1>2, <2>1, <2>2, Waking, EmptyIsInjective DEF SyncTypeOK
<1>4. \A t \in Task : on[t] # None =>
              /\ Suspended(t)'
              /\ st'[t] = "blocked" => st[t] = "blocked" /\ ~Contains(waiting[Queue], t)
  BY <1>1, <1>2, Waking DEF Lists, Suspended
<1>5. Lists'
  BY <1>2, <1>4, ListsByClearing
<1>6. NoIdleToken'
  BY <1>2 DEF NoIdleToken, SyncTypeOK, Obj
<1>7. QueueTypeOK' /\ Jobs'
  <2>1. pending' = <<>> /\ IsInjective(<<>>) /\ <<>> \in Seq(Job)
    BY DEF DestroyQueue, IsInjective
  <2> QED BY <2>1, EmptyContains DEF DestroyQueue, QueueTypeOK, Inv, Jobs
<1>8. InnerOnly'
  BY <1>2 DEF Inv, InnerOnly, DestroyQueue
<1> QED BY <1>3, <1>5, <1>6, <1>7, <1>8 DEF Inv, SyncInv

\* The first worker of the list is one that has not run.
LEMMA StartJobs ==
  ASSUME Inv, Start, job = None
  PROVE  QueueTypeOK' /\ Jobs'
<1>1. /\ Head(pending) \in Job /\ Contains(pending, Head(pending))
      /\ Tail(pending) \in Seq(Job) /\ IsInjective(Tail(pending))
      /\ \A x : Contains(Tail(pending), x) <=> Contains(pending, x) /\ x # Head(pending)
  BY TailOnce DEF Inv, Jobs, QueueTypeOK, Start
<1>2. job' = Head(pending) /\ pending' = Tail(pending)
      /\ UNCHANGED <<added, caller, done, mine>>
  BY DEF Start
<1> QED BY <1>1, <1>2 DEF Inv, Jobs, QueueTypeOK

LEMMA FetchStep ==
  ASSUME Inv, Fetch
  PROVE  Inv'
<1>1. CASE Take(Inner, Queue) /\ Start
  <2>1. SyncInv'
    BY <1>1, TakeStep, QueueFacts DEF Inv
  <2>2. QueueTypeOK' /\ Jobs'
    BY <1>1, StartJobs DEF Fetch, AtHead
  <2>3. InnerOnly'
    <3>1. on' = on /\ on[Inner] = None
      BY <1>1, QueueFacts
      DEF Inv, SyncInv, Lists, Suspended, Fetch, AtHead, InUser, Take, taskVars
    <3> QED BY <3>1, QueueFacts DEF Inv, InnerOnly
  <2> QED BY <2>1, <2>2, <2>3 DEF Inv
<1>2. CASE Enqueue(Inner, Queue, "hold") /\ UNCHANGED queueVars
  <2>1. SyncInv'
    BY <1>2, EnqueueStep, QueueFacts DEF Inv, Fetch, AtHead
  <2>2. QueueTypeOK' /\ Jobs'
    BY <1>2 DEF Inv, QueueTypeOK, Jobs, queueVars
  <2>3. InnerOnly'
    BY <1>2 DEF Inv, InnerOnly, Enqueue, SyncInv, SyncTypeOK, Fetch, AtHead, queueVars
  <2> QED BY <2>1, <2>2, <2>3 DEF Inv
<1> QED BY <1>1, <1>2 DEF Fetch

LEMMA FetchedOneStep ==
  ASSUME Inv, FetchedOne
  PROVE  Inv'
<1>1. SyncInv'
  BY ResumeStep, QueueFacts DEF Inv, FetchedOne
<1>2. QueueTypeOK' /\ Jobs'
  BY StartJobs, QueueFacts DEF FetchedOne, Inv, InnerOnly
<1>3. InnerOnly'
  BY QueueFacts DEF Inv, SyncInv, SyncTypeOK, InnerOnly, FetchedOne, Resume
<1> QED BY <1>1, <1>2, <1>3 DEF Inv

\* However the inner task ends, it is in no list after that.
LEMMA InnerLeaves ==
  ASSUME Inv, InnerEnds
  PROVE  waiting' = Leave(Inner)
<1> SyncTypeOK /\ Lists
  BY DEF Inv, SyncInv
<1>1. CASE AtHead /\ UNCHANGED waiting
  <2>1. on[Inner] = None /\ None \notin exists
    BY <1>1, NoneIsNoObject, QueueFacts
    DEF AtHead, InUser, Lists, Suspended, SyncTypeOK
  <2> QED BY <1>1, <2>1 DEF Leave
<1>2. CASE ~(AtHead /\ UNCHANGED waiting)
  BY <1>2 DEF InnerEnds
<1> QED BY <1>1, <1>2

LEMMA InnerEndsStep ==
  ASSUME Inv, InnerEnds
  PROVE  Inv'
<1> SyncInv /\ SyncTypeOK /\ Lists /\ NoIdleToken
  BY DEF Inv, SyncInv
<1>1. waiting' = Leave(Inner)
  BY InnerLeaves
<1>2. /\ st' = [st EXCEPT ![Inner] = "absent"] /\ on' = [on EXCEPT ![Inner] = None]
      /\ at' = [at EXCEPT ![Inner] = "none"] /\ doomed' = doomed \ {Inner}
      /\ UNCHANGED <<signal, exists, count, given, got, used, queueVars>>
  BY DEF InnerEnds
<1>3. Lists' /\ waiting' \in [Obj -> Seq(Task)]
  BY <1>1, <1>2, QueueFacts, ListsByLeaving
<1>4. SyncTypeOK'
  BY <1>2, <1>3 DEF SyncTypeOK
<1>5. NoIdleToken'
  BY <1>1, <1>2, LeaveEmpty DEF NoIdleToken, Obj
<1>6. SyncInv'
  BY <1>3, <1>4, <1>5 DEF SyncInv
<1>7. \A t \in Task : on'[t] = on[t] \/ on'[t] # Queue
  BY <1>2, QueueFacts DEF SyncTypeOK
<1> QED BY <1>2, <1>6, <1>7, QueueUnchanged

LEMMA EndJobStep ==
  ASSUME Inv, EndJob
  PROVE  Inv'
<1> SyncInv /\ SyncTypeOK /\ Lists /\ NoIdleToken
  BY DEF Inv, SyncInv
<1>1. UNCHANGED <<doomed, at, on, exists, waiting, count, given, got, used,
                  pending, added, caller, mine>>
  BY DEF EndJob, objVars
<1>2. SyncTypeOK'
  BY <1>1, Waking DEF EndJob, SyncTypeOK
<1>3. Lists'
  <2>1. \A t \in Task : on[t] # None =>
                         Suspended(t)' /\ (st'[t] = "blocked" => st[t] = "blocked")
    BY Waking DEF EndJob, Lists, Suspended
  <2> QED BY <1>1, <2>1, ListsByStatus
<1>4. NoIdleToken'
  BY <1>1 DEF NoIdleToken
<1>5. QueueTypeOK' /\ Jobs'
  BY <1>1 DEF EndJob, Inv, QueueTypeOK, Jobs
<1>6. InnerOnly'
  BY <1>1 DEF EndJob, Inv, InnerOnly
<1> QED BY <1>2, <1>3, <1>4, <1>5, <1>6 DEF Inv, SyncInv

LEMMA InvNext == Inv /\ [Next]_vars => Inv'
<1> SUFFICES ASSUME Inv, [Next]_vars PROVE Inv'
  OBVIOUS
<1>1. ASSUME NEW t \in Task,
             Create(t) \/ Finish(t) \/ Timeout(t) \/ Cancel(t), UNCHANGED queueVars
      PROVE  Inv'
  BY <1>1, LoopTaskStep
<1>2. ASSUME NEW t \in Task, Calls(t, Obj \ {Queue}), UNCHANGED queueVars
      PROVE  Inv'
  BY <1>2, CallsStep
<1>3. ASSUME NEW t \in Task, Return(t) \/ \E j \in Job : SyncJob(t, j)
      PROVE  Inv'
  BY <1>3, ReturnStep, SyncJobStep
<1>4. ASSUME NEW o \in Obj \ {Queue}, Used(o), UNCHANGED queueVars
      PROVE  Inv'
  BY <1>4, UsedObjectStep
<1>5. ASSUME NEW j \in Job, Submit(j)
      PROVE  Inv'
  BY <1>5, SubmitStep
<1>6. CASE DestroyQueue
  BY <1>6, DestroyQueueStep
<1>7. CASE Fetch \/ FetchedOne \/ InnerEnds \/ EndJob
  BY <1>7, FetchStep, FetchedOneStep, InnerEndsStep, EndJobStep
<1>8. CASE UNCHANGED vars
  BY <1>8 DEF vars, syncVars, taskVars, objVars, queueVars, Inv, SyncInv, SyncTypeOK,
              Lists, Suspended, NoIdleToken, QueueTypeOK, InnerOnly, Jobs
<1> QED BY <1>1, <1>2, <1>3, <1>4, <1>5, <1>6, <1>7, <1>8 DEF Next, Users

LEMMA Invariance == Spec => []Inv
BY InvInit, InvNext, PTL DEF Spec

\* Every variable of the queue, its semaphore and the tasks keeps its type: no
\* call makes a count negative or puts what is no task in a list.
THEOREM QueueTypeCorrect == Spec => []TypeOK
<1>1. Inv => TypeOK
  BY DEF Inv, SyncInv, QueueTypeOK, TypeOK
<1> QED BY <1>1, Invariance, PTL

\* semaphore::fetch and give: no task waits in a semaphore that has tokens.
THEOREM NoTokenIdles == Spec => []NoIdleToken
<1>1. Inv => NoIdleToken
  BY DEF Inv, SyncInv
<1> QED BY <1>1, Invariance, PTL

\* The lists of semaphore and signal name exactly the tasks that wait there, so
\* that every waiter can be found and nobody else is woken.
THEOREM WaitersAreListed == Spec => []ListsAreExact
<1>1. Inv => ListsAreExact
  BY ListsSuffice DEF Inv, SyncInv
<1> QED BY <1>1, Invariance, PTL

----------------------------------------------------------------------------
(* The tokens.                                                             *)

LEMMA ObjectsOnlyGo == Inv /\ [Next]_vars => exists' \subseteq exists
<1> SUFFICES ASSUME Inv, [Next]_vars PROVE exists' \subseteq exists
  OBVIOUS
<1>1. CASE \/ DestroyQueue
           \/ \E o \in Obj : Used(o)
  BY <1>1 DEF Used, Give, TriggerOne, TriggerAll, CancelWaiters, Destroy, DestroyQueue
<1>2. ASSUME NEW t \in Task, Calls(t, Obj \ {Queue})
      PROVE  exists' = exists
  BY <1>2 DEF Calls, Yield, Wait, Take, Refuse, Enqueue, objVars
<1>3. CASE Fetch \/ FetchedOne \/ InnerEnds \/ EndJob
  BY <1>3 DEF Fetch, Take, Enqueue, FetchedOne, Resume, InnerEnds, EndJob, objVars
<1>4. ASSUME NEW t \in Task, Create(t) \/ Finish(t) \/ Timeout(t) \/ Cancel(t) \/ Return(t)
      PROVE  exists' = exists
  BY <1>4 DEF Create, Finish, Timeout, Cancel, Return, Resume, objVars
<1>5. ASSUME NEW j \in Job, Submit(j) \/ \E t \in Task : SyncJob(t, j)
      PROVE  exists' = exists
  BY <1>5 DEF Submit, SyncJob, Add
<1>6. CASE UNCHANGED vars
  BY <1>6 DEF vars, syncVars, objVars
<1> QED BY <1>1, <1>2, <1>3, <1>4, <1>5, <1>6 DEF Next, Users

\* Only the inner task is told of a token of the queue.
LEMMA PromisedToInner == Inv => Promised(Queue) \subseteq {Inner}
BY DEF Inv, InnerOnly, Promised

\* A worker that returns tells the task of its sync, and it is the one step that
\* may tell a task that is in a call of another object.
LEMMA EndJobMoves ==
  ASSUME Inv, NEW o \in Sem \cap exists, Unheard(o), EndJob,
         \A t \in CallerOf(job) : on[t] # o
  PROVE  Moves(o)
<1> SyncTypeOK /\ Lists /\ o \in Obj
  BY DEF Inv, SyncInv, Obj
<1>1. UNCHANGED <<on, waiting, count, given, got>> /\ signal' = Told(CallerOf(job), "received")
  BY DEF EndJob, objVars
<1>2. \A t \in Task : \/ signal'[t] = signal[t]
                      \/ on[t] # o /\ ~Contains(waiting[o], t)
  BY <1>1 DEF Told, Lists
<1>3. Promised(o)' = Promised(o) /\ Unheard(o)'
  BY <1>1, <1>2 DEF Promised, Unheard
<1> QED BY <1>1, <1>3 DEF Moves, Same

LEMMA DestroyQueueMoves ==
  ASSUME Inv, NEW o \in Sem \cap exists, Unheard(o), DestroyQueue, o \in exists'
  PROVE  Moves(o)
<1> SyncTypeOK /\ Lists /\ o \in Obj /\ o # Queue
  BY DEF Inv, SyncInv, Obj, DestroyQueue
<1>1. UNCHANGED <<on, count, given, got>> /\ waiting'[o] = waiting[o]
  BY DEF DestroyQueue, SyncTypeOK
<1>2. \A t \in Task : \/ signal'[t] = signal[t]
                      \/ /\ t \notin Promised(o)
                         /\ signal'[t] # "received"
  <2>1. Contains(waiting[Queue], Inner) => on[Inner] # o
    BY QueueFacts DEF Lists
  <2>2. st[Inner] = "blocked" /\ on[Inner] = o => Contains(waiting[o], Inner)
    BY QueueFacts DEF Lists
  <2>3. CASE Contains(waiting[Queue], Inner)
    BY <2>1, <2>3 DEF DestroyQueue, Told, Promised
  <2>4. CASE ~Contains(waiting[Queue], Inner)
    BY <2>2, <2>4 DEF DestroyQueue, Told, Promised
  <2> QED BY <2>3, <2>4
<1>3. Same(o) /\ Unheard(o)'
  BY <1>1, <1>2, NoMove
<1> QED BY <1>3 DEF Moves

LEMMA AddMoves ==
  ASSUME Inv, NEW o \in Sem \cap exists, Unheard(o), NEW j \in Job,
         Submit(j) \/ \E t \in Task : SyncJob(t, j)
  PROVE  Moves(o)
<1> SyncInv /\ SyncTypeOK /\ Lists
  BY DEF Inv, SyncInv
<1>1. GiveTo(Queue) /\ on' = on /\ got' = got
  BY DEF Submit, SyncJob, Add
<1>2. \A u \in Task : on[u] # None => signal'[u] = Told(First(Queue), "received")[u]
  <2>1. CASE Submit(j)
    BY <2>1 DEF Submit
  <2>2. ASSUME NEW t \in Task, SyncJob(t, j)
        PROVE  \A u \in Task : on[u] # None => signal'[u] = Told(First(Queue), "received")[u]
    <3>1. on[t] = None
      BY <2>2 DEF SyncJob, MayCall, InUser, Lists, Suspended
    <3>2. Told(First(Queue), "received") \in [Task -> {"received", "nothing", "broken"}]
      BY Waking
    <3> QED BY <2>2, <3>1, <3>2 DEF SyncJob
  <2> QED BY <2>1, <2>2
<1> QED BY <1>1, <1>2, GiveMoves

LEMMA InnerMoves ==
  ASSUME Inv, NEW o \in Sem \cap exists, Unheard(o), Fetch \/ FetchedOne \/ InnerEnds
  PROVE  Moves(o)
<1> SyncInv /\ SyncTypeOK /\ Lists
  BY DEF Inv, SyncInv
<1>1. CASE Fetch
  BY <1>1, WaitMoves, QueueFacts DEF Fetch, AtHead
<1>2. CASE FetchedOne
  BY <1>2, LeaveMoves, QueueFacts DEF FetchedOne, Resume
<1>3. CASE InnerEnds
  <2>1. on[Inner] \notin Sem \/ signal[Inner] # "received"
    BY <1>3, QueueFacts, NoneIsNoObject DEF InnerEnds, AtHead, InUser, Lists, Suspended, Obj
  <2>2. /\ on' = [on EXCEPT ![Inner] = None] /\ UNCHANGED <<signal, given, count, got>>
    BY <1>3 DEF InnerEnds
  <2>3. waiting' = Leave(Inner)
    BY <1>3, InnerLeaves
  <2> QED BY <2>1, <2>2, <2>3, LeaveMoves, QueueFacts
<1> QED BY <1>1, <1>2, <1>3

LEMMA StepMoves ==
  ASSUME Inv, [Next]_vars, NEW o \in Sem \cap exists, o \in exists', Unheard(o),
         EndJob => \A t \in CallerOf(job) : on[t] # o
  PROVE  Moves(o)
<1> SyncInv
  BY DEF Inv
<1>1. ASSUME NEW t \in Task, Create(t) \/ Finish(t) \/ Timeout(t) \/ Cancel(t)
      PROVE  Moves(o)
  BY <1>1, LoopMoves
<1>2. ASSUME NEW t \in Task, Calls(t, Obj \ {Queue})
      PROVE  Moves(o)
  <2>1. CASE Yield(t)
    BY <2>1, LoopMoves
  <2>2. ASSUME NEW p \in Obj \ {Queue}, NEW c \in {"hold", "until"}, Wait(t, p, c)
        PROVE  Moves(o)
    BY <2>2, WaitMoves DEF Wait
  <2> QED BY <1>2, <2>1, <2>2 DEF Calls
<1>3. ASSUME NEW t \in Task, Return(t)
      PROVE  Moves(o)
  BY <1>3, LeaveMoves DEF Return, Resume
<1>4. ASSUME NEW p \in Obj \ {Queue}, Used(p)
      PROVE  Moves(o)
  BY <1>4, UsedMoves
<1>5. ASSUME NEW j \in Job, Submit(j) \/ \E t \in Task : SyncJob(t, j)
      PROVE  Moves(o)
  BY <1>5, AddMoves
<1>6. CASE DestroyQueue
  BY <1>6, DestroyQueueMoves
<1>7. CASE Fetch \/ FetchedOne \/ InnerEnds
  BY <1>7, InnerMoves
<1>8. CASE EndJob
  BY <1>8, EndJobMoves
<1>9. CASE UNCHANGED vars
  <2>1. Same(o) /\ Unheard(o)'
    BY <1>9 DEF vars, syncVars, taskVars, objVars, Same, Promised, Unheard
  <2> QED BY <2>1 DEF Moves
<1> QED BY <1>1, <1>2, <1>3, <1>4, <1>5, <1>6, <1>7, <1>8, <1>9 DEF Next, Users

\* The account of the queue: every worker of the list is a token that was given
\* and not yet fetched.
Listed == Len(pending) + got[Queue] = given[Queue]

QueueInv == Queue \in exists => Unheard(Queue) /\ Balanced(Queue) /\ Listed

\* Who fetches from the queue takes a worker, and who gives to it adds one.
LEMMA ListedStep ==
  ASSUME Inv, Inv', [Next]_vars, Queue \in exists', Listed
  PROVE  Listed'
<1> SyncTypeOK /\ QueueTypeOK /\ Queue \in Sem /\ Queue \in Obj
  BY QueueFacts, QueueAssumption DEF Inv, SyncInv
<1>1. got[Queue] \in Nat /\ given[Queue] \in Nat /\ Len(pending) \in Nat
  BY LenProperties DEF SyncTypeOK, QueueTypeOK
<1>2. CASE UNCHANGED <<pending, got[Queue], given[Queue]>>
  BY <1>2 DEF Listed
<1>3. ASSUME NEW j \in Job, Submit(j) \/ \E t \in Task : SyncJob(t, j)
      PROVE  Listed'
  <2>1. got'[Queue] = got[Queue] /\ given'[Queue] = given[Queue] + 1
    BY <1>3 DEF Submit, SyncJob, Add, GiveTo, SyncTypeOK
  <2>2. pending' = Append(pending, j) \/ pending' = <<j>> \o pending
    BY <1>3 DEF Submit, SyncJob
  <2>3. Len(pending') = Len(pending) + 1
    <3>1. Len(Append(pending, j)) = Len(pending) + 1
      BY AppendProperties DEF QueueTypeOK
    <3>2. <<j>> \in Seq(Job) /\ Len(<<j>>) = 1
      OBVIOUS
    <3>3. Len(<<j>> \o pending) = 1 + Len(pending)
      BY <3>2, ConcatProperties DEF QueueTypeOK
    <3> QED BY <1>1, <2>2, <3>1, <3>3
  <2> QED BY <1>1, <2>1, <2>3 DEF Listed
<1>4. ASSUME Start, got'[Queue] = got[Queue] + 1, given' = given
      PROVE  Listed'
  <2>1. Len(pending') = Len(pending) - 1 /\ Len(pending) > 0
    BY <1>4, HeadTailProperties, EmptySeq DEF Start, QueueTypeOK
  <2> QED BY <1>1, <1>4, <2>1 DEF Listed
<1>5. CASE Fetch
  <2>1. CASE Take(Inner, Queue) /\ Start
    BY <1>4, <2>1 DEF Take, SyncTypeOK
  <2>2. CASE Enqueue(Inner, Queue, "hold") /\ UNCHANGED queueVars
    BY <1>2, <2>2 DEF Enqueue, queueVars
  <2> QED BY <1>5, <2>1, <2>2 DEF Fetch
<1>6. CASE FetchedOne
  BY <1>4, <1>6 DEF FetchedOne, Resume, SyncTypeOK
<1>7. ASSUME NEW t \in Task, Return(t)
      PROVE  Listed'
  <2>1. on[t] # Queue
    BY <1>7 DEF Return, Inv, InnerOnly
  <2>2. got'[Queue] = got[Queue]
    BY <1>7, <2>1 DEF Return, Resume, SyncTypeOK
  <2> QED BY <1>2, <1>7, <2>2 DEF Return, Resume
<1>8. ASSUME NEW o \in Obj \ {Queue}, Used(o), UNCHANGED queueVars
      PROVE  Listed'
  <2>1. got'[Queue] = got[Queue] /\ given'[Queue] = given[Queue]
    BY <1>8 DEF Used, Give, GiveTo, TriggerOne, TriggerAll, CancelWaiters, Destroy, WakeAll,
                SyncTypeOK
  <2> QED BY <1>2, <1>8, <2>1 DEF queueVars
<1>9. ASSUME NEW t \in Task, Calls(t, Obj \ {Queue}), UNCHANGED queueVars
      PROVE  Listed'
  <2>1. got'[Queue] = got[Queue] /\ given'[Queue] = given[Queue]
    BY <1>9 DEF Calls, Yield, Wait, Take, Refuse, Enqueue, SyncTypeOK
  <2> QED BY <1>2, <1>9, <2>1 DEF queueVars
<1>10. ASSUME NEW t \in Task, Create(t) \/ Finish(t) \/ Timeout(t) \/ Cancel(t),
              UNCHANGED queueVars
       PROVE  Listed'
  BY <1>2, <1>10 DEF Create, Finish, Timeout, Cancel, queueVars
<1>11. CASE InnerEnds \/ EndJob \/ UNCHANGED vars
  BY <1>2, <1>11 DEF InnerEnds, EndJob, vars, syncVars, queueVars
<1>12. ~DestroyQueue
  BY DEF DestroyQueue
<1> QED BY <1>3, <1>5, <1>6, <1>7, <1>8, <1>9, <1>10, <1>11, <1>12 DEF Next, Users

LEMMA QueueInvNext == Inv /\ QueueInv /\ [Next]_vars => QueueInv'
<1> SUFFICES ASSUME Inv, QueueInv, [Next]_vars, Queue \in exists' PROVE QueueInv'
  BY DEF QueueInv
<1>1. Inv'
  BY InvNext
<1>2. Queue \in Sem \cap exists /\ SyncTypeOK /\ SyncTypeOK'
  BY <1>1, ObjectsOnlyGo, QueueAssumption DEF Inv, SyncInv
<1>3. \A t \in CallerOf(job) : on[t] # Queue
  BY DEF CallerOf, Users, Inv, InnerOnly
<1>4. Unheard(Queue) /\ Balanced(Queue) /\ Listed
  BY <1>2 DEF QueueInv
<1>5. Moves(Queue)
  BY <1>2, <1>3, <1>4, StepMoves
<1>6. Balanced(Queue)'
  BY <1>2, <1>4, <1>5, MovesBalance
<1>7. Listed'
  BY <1>1, <1>4, ListedStep
<1> QED BY <1>5, <1>6, <1>7 DEF QueueInv, Moves

\* No semaphore has waiters or promises at first, and its count is what it was given.
LEMMA InitBalanced ==
  ASSUME Init, NEW o \in Sem
  PROVE  Unheard(o) /\ Balanced(o)
<1>1. o \in Obj /\ o # None
  BY NoneIsNoObject DEF Obj
<1>2. Promised(o) = {} /\ Unheard(o)
  BY <1>1, EmptyContains DEF Init, SyncInit, Promised, Unheard
<1>3. given[o] = count[o] /\ got[o] = 0 /\ count[o] \in Nat
  BY DEF Init, SyncInit
<1> QED BY <1>2, <1>3, FS_EmptySet DEF Balanced

\* taskqueue::append, insert, sync and the inner task: the tokens of the semaphore,
\* counted or on their way to the inner task, are the workers of the list, whatever
\* becomes of ids, and nobody but the inner task is told of one; so the inner task,
\* which takes the front of the list untested, finds it there.
THEOREM TokensAreWorkers == Spec => []PendingCounted
<1>1. Init => Inv /\ QueueInv
  <2>1. Init => Unheard(Queue) /\ Balanced(Queue)
    BY InitBalanced, QueueAssumption
  <2>2. Init => Listed
    BY QueueAssumption DEF Init, SyncInit, Listed
  <2> QED BY <2>1, <2>2, InvInit DEF QueueInv
<1>2. Inv /\ QueueInv /\ [Next]_vars => (Inv /\ QueueInv)'
  BY InvNext, QueueInvNext
<1>3. Inv /\ QueueInv => PendingCounted
  <2> SUFFICES ASSUME Inv, QueueInv, Queue \in exists PROVE PendingCounted
    BY DEF PendingCounted
  <2>1. given[Queue] = count[Queue] + got[Queue] + Cardinality(Promised(Queue))
    BY DEF QueueInv, Balanced
  <2>2. IsFiniteSet(Promised(Queue))
    BY DEF QueueInv, Balanced
  <2>3. Cardinality(Promised(Queue)) \in Nat
    BY <2>2, FS_CardinalityType
  <2>4. given[Queue] \in Nat /\ count[Queue] \in Nat /\ got[Queue] \in Nat
        /\ Len(pending) \in Nat
    BY QueueAssumption, LenProperties DEF Inv, SyncInv, SyncTypeOK, QueueTypeOK
  <2>5. Len(pending) + got[Queue] = given[Queue]
    BY DEF QueueInv, Listed
  <2>6. Len(pending) = count[Queue] + Cardinality(Promised(Queue))
    BY <2>1, <2>3, <2>4, <2>5
  <2> QED BY <2>6, PromisedToInner DEF PendingCounted
<1> QED BY <1>1, <1>2, <1>3, PTL DEF Spec

----------------------------------------------------------------------------
(* taskqueue::sync, where ids are not used twice.                          *)

\* A task in sync is held and in no other call; it is ready before its worker
\* is done only if it has been cancelled; a worker that has not returned finds
\* the task of its sync still waiting for it, or cancelled, or gone.
Callers ==
  /\ \A t \in Task : st[t] # "absent" => t \in used
  /\ \A j \in Job : caller[j] # None => j \in added /\ caller[j] \in used
  /\ \A t \in Task : mine[t] # None => on[t] = None /\ at[t] = "hold" /\ Suspended(t)
  /\ \A t \in Task : mine[t] # None /\ st[t] = "ready" /\ t \notin doomed => mine[t] \in done
  /\ \A j \in Job, t \in Task :
        caller[j] = t /\ t \notin doomed /\ st[t] # "absent" => j \in done \/ mine[t] = j

LEMMA CallersInit == Init => Callers
BY QueueFacts, NoneIsNoObject DEF Init, SyncInit, Callers

\* A step that begins and ends no sync, but perhaps a worker, keeps Callers if it
\* wakes no task in sync that is neither served nor cancelled.
LEMMA CallersKept ==
  ASSUME Inv, Callers,
         mine' = mine, used \subseteq used', added \subseteq added',
         \A j \in Job : caller'[j] = caller[j] \/ caller'[j] = None,
         done \subseteq done',
         \A t \in Task :
           /\ st'[t] # "absent" => t \in used'
           /\ mine[t] # None => on'[t] = None /\ at'[t] = at[t] /\ Suspended(t)'
           /\ t \in doomed => t \in doomed' \/ st'[t] = "absent"
           /\ st'[t] # "absent" => st[t] # "absent" \/ t \notin used
           /\ mine[t] # None /\ st'[t] = "ready" /\ t \notin doomed' =>
                st[t] = "ready" \/ mine[t] \in done'
  PROVE  Callers'
<1>1. (\A t \in Task : st[t] # "absent" => t \in used)'
  OBVIOUS
<1>2. (\A j \in Job : caller[j] # None => j \in added /\ caller[j] \in used)'
  BY DEF Callers
<1>3. (\A t \in Task : mine[t] # None => on[t] = None /\ at[t] = "hold" /\ Suspended(t))'
  BY DEF Callers
<1>4. (\A t \in Task : mine[t] # None /\ st[t] = "ready" /\ t \notin doomed => mine[t] \in done)'
  <2> SUFFICES ASSUME NEW t \in Task, mine[t] # None, st'[t] = "ready", t \notin doomed'
               PROVE  mine[t] \in done'
    OBVIOUS
  <2>1. t \notin doomed
    OBVIOUS
  <2> QED BY <2>1 DEF Callers
<1>5. (\A j \in Job, t \in Task :
         caller[j] = t /\ t \notin doomed /\ st[t] # "absent" => j \in done \/ mine[t] = j)'
  <2> SUFFICES ASSUME NEW j \in Job, NEW t \in Task,
                      caller'[j] = t, t \notin doomed', st'[t] # "absent"
               PROVE  j \in done' \/ mine'[t] = j
    OBVIOUS
  <2>1. caller[j] = t /\ t \in used /\ t \notin doomed
    BY NoneIsNoObject DEF Callers
  <2> QED BY <2>1 DEF Callers
<1> QED BY <1>1, <1>2, <1>3, <1>4, <1>5 DEF Callers

\* The tasks of the lists are in no sync.
LEMMA ListedAreNotInSync ==
  ASSUME Inv, Callers, NEW o \in Obj, NEW t \in Task, Contains(waiting[o], t)
  PROVE  mine[t] = None
BY NoneIsNoObject DEF Inv, SyncInv, Lists, Callers

\* The running task is in no call.
LEMMA RunningIsFree ==
  ASSUME Inv, Callers, NEW t \in Task, st[t] = "running"
  PROVE  mine[t] = None /\ on[t] = None
BY DEF Inv, SyncInv, Lists, Callers, Suspended

LEMMA CallersLoop ==
  ASSUME Reuse = FALSE, Inv, Callers, UNCHANGED queueVars,
         NEW t \in Task, Create(t) \/ Yield(t) \/ Finish(t) \/ Timeout(t) \/ Cancel(t)
  PROVE  Callers'
<1> SyncTypeOK
  BY DEF Inv, SyncInv
<1>1. on' = on /\ at' = at /\ UNCHANGED <<caller, mine, added, done>>
  BY DEF Create, Yield, Finish, Timeout, Cancel, queueVars
<1>2. CASE Create(t)
  BY <1>1, <1>2, CallersKept DEF Create, Callers, Suspended, SyncTypeOK
<1>3. CASE Yield(t)
  BY <1>1, <1>3, CallersKept, RunningIsFree DEF Yield, InUser, Callers, Suspended, SyncTypeOK
<1>4. CASE Finish(t)
  BY <1>1, <1>4, CallersKept, RunningIsFree DEF Finish, InUser, Callers, Suspended, SyncTypeOK
<1>5. CASE Timeout(t)
  BY <1>1, <1>5, CallersKept DEF Timeout, Callers, Suspended, SyncTypeOK
<1>6. CASE Cancel(t)
  <2>1. /\ doomed' = doomed \cup {t} /\ used' = used
        /\ \A u \in Task : st'[u] = st[u] \/ (u = t /\ st[u] = "blocked" /\ st'[u] = "ready")
    BY <1>6 DEF Cancel, Woken
  <2> QED BY <1>1, <2>1, CallersKept DEF Callers, Suspended
<1> QED BY <1>2, <1>3, <1>4, <1>5, <1>6

\* A fetch or wait, of the inner task as well.
LEMMA CallersWait ==
  ASSUME Inv, Callers, UNCHANGED <<caller, mine, added, done>>,
         NEW t \in Task, NEW o, NEW c, Wait(t, o, c)
  PROVE  Callers'
<1>1. st[t] = "running" /\ mine[t] = None
  BY RunningIsFree DEF Wait, InUser
<1>2. UNCHANGED <<doomed, used>>
  BY DEF Wait, Take, Refuse, Enqueue, taskVars
<1>3. \A u \in Task : /\ u # t => st'[u] = st[u] /\ at'[u] = at[u] /\ on'[u] = on[u]
                      /\ u = t => st'[u] \in {"running", "blocked"}
  BY <1>1 DEF Wait, Take, Refuse, Enqueue, taskVars, Inv, SyncInv, SyncTypeOK
<1> QED BY <1>1, <1>2, <1>3, CallersKept DEF Callers, Suspended

LEMMA CallersCalls ==
  ASSUME Reuse = FALSE, Inv, Callers, UNCHANGED queueVars,
         NEW t \in Task, Calls(t, Obj \ {Queue})
  PROVE  Callers'
<1>1. CASE Yield(t)
  BY <1>1, CallersLoop
<1>2. ASSUME NEW o \in Obj \ {Queue}, NEW c \in {"hold", "until"}, Wait(t, o, c)
      PROVE  Callers'
  BY <1>2, CallersWait DEF queueVars
<1> QED BY <1>1, <1>2 DEF Calls

LEMMA CallersUsed ==
  ASSUME Inv, Callers, UNCHANGED queueVars, NEW o \in Obj, Used(o)
  PROVE  Callers'
<1> SyncTypeOK /\ Lists
  BY DEF Inv, SyncInv
<1> DEFINE W == {t \in Task : Contains(waiting[o], t)}
<1>1. First(o) \subseteq W /\ AllOf(o) = W
  BY Taking
<1>2. /\ st' = Woken(First(o)) \/ st' = Woken(AllOf(o))
      /\ UNCHANGED <<doomed, at, on, used, caller, mine, added, done>>
  BY DEF Used, Give, TriggerOne, TriggerAll, CancelWaiters, Destroy, WakeAll, queueVars
<1>3. \A t \in Task : mine[t] # None => t \notin W
  BY ListedAreNotInSync
<1> HIDE DEF W
<1>4. \A t \in Task : st'[t] = st[t] \/ (t \in W /\ st[t] = "blocked" /\ st'[t] = "ready")
  BY <1>1, <1>2 DEF Woken
<1> QED BY <1>2, <1>3, <1>4, CallersKept DEF Callers, Suspended

LEMMA CallersReturn ==
  ASSUME Inv, Callers, NEW t \in Task, Return(t)
  PROVE  Callers'
<1>1. /\ st' = [st EXCEPT ![t] = "running"] /\ at' = [at EXCEPT ![t] = "none"]
      /\ on' = [on EXCEPT ![t] = None] /\ mine' = [mine EXCEPT ![t] = None]
      /\ UNCHANGED <<doomed, used, added, caller, done>> /\ st[t] = "ready"
  BY DEF Return, Resume
<1>2. \A u \in Task : /\ st'[u] = IF u = t THEN "running" ELSE st[u]
                      /\ at'[u] = IF u = t THEN "none" ELSE at[u]
                      /\ on'[u] = IF u = t THEN None ELSE on[u]
                      /\ mine'[u] = IF u = t THEN None ELSE mine[u]
  BY <1>1 DEF Inv, SyncInv, SyncTypeOK, QueueTypeOK
<1>3. (\A u \in Task : mine[u] # None => on[u] = None /\ at[u] = "hold" /\ Suspended(u))'
  BY <1>2 DEF Callers, Suspended
<1>4. (\A j \in Job, u \in Task :
         caller[j] = u /\ u \notin doomed /\ st[u] # "absent" => j \in done \/ mine[u] = j)'
  BY <1>1, <1>2, QueueFacts DEF Callers
<1>5. (\A u \in Task : mine[u] # None /\ st[u] = "ready" /\ u \notin doomed => mine[u] \in done)'
  BY <1>1, <1>2 DEF Callers
<1>6. (\A u \in Task : st[u] # "absent" => u \in used)'
  BY <1>1, <1>2 DEF Callers
<1>7. (\A j \in Job : caller[j] # None => j \in added /\ caller[j] \in used)'
  BY <1>1 DEF Callers
<1> QED BY <1>3, <1>4, <1>5, <1>6, <1>7 DEF Callers

LEMMA CallersSubmit ==
  ASSUME Inv, Callers, NEW j \in Job, Submit(j)
  PROVE  Callers'
<1> SyncTypeOK /\ Lists /\ QueueTypeOK
  BY DEF Inv, SyncInv
<1>1. Add(j, None) /\ st' = Woken(First(Queue)) /\ UNCHANGED <<at, on, mine>>
  BY DEF Submit
<1>2. /\ added' = added \cup {j} /\ caller' = [caller EXCEPT ![j] = None]
      /\ UNCHANGED <<doomed, used, done>>
  BY <1>1, AddFacts
<1>3. \A t \in First(Queue) : mine[t] = None
  BY Taking, QueueFacts, ListedAreNotInSync
<1>4. \A t \in Task : st'[t] = st[t] \/ (mine[t] = None /\ st[t] = "blocked" /\ st'[t] = "ready")
  BY <1>1, <1>3 DEF Woken
<1>5. \A k \in Job : caller'[k] = caller[k] \/ caller'[k] = None
  BY <1>2 DEF QueueTypeOK
<1> QED BY <1>1, <1>2, <1>4, <1>5, CallersKept DEF Callers, Suspended

\* The task that begins a sync has none of its own that is not done.
LEMMA CallersSyncJob ==
  ASSUME Inv, Callers, NEW t \in Task, NEW j \in Job, SyncJob(t, j)
  PROVE  Callers'
<1> SyncTypeOK /\ Lists /\ QueueTypeOK
  BY DEF Inv, SyncInv
<1>1. Add(j, t) /\ st[t] = "running" /\ on' = on
  BY DEF SyncJob, MayCall, InUser
<1>2. /\ added' = added \cup {j} /\ caller' = [caller EXCEPT ![j] = t]
      /\ UNCHANGED <<doomed, done>> /\ used' = used /\ j \notin done
  BY <1>1, AddFacts
<1>3. mine[t] = None /\ on[t] = None /\ t \in used
  BY <1>1, RunningIsFree DEF Callers
<1> DEFINE W == Woken(First(Queue))
<1>4. \A u \in Task : \/ W[u] = st[u]
                      \/ mine[u] = None /\ st[u] = "blocked" /\ W[u] = "ready"
  <2>1. \A u \in First(Queue) : mine[u] = None
    BY Taking, QueueFacts, ListedAreNotInSync
  <2> QED BY <2>1 DEF Woken
<1>5. W \in [Task -> {"absent", "ready", "running", "blocked"}]
  BY Waking
<1>6. \A k \in Job : caller'[k] = IF k = j THEN t ELSE caller[k]
  BY <1>2 DEF QueueTypeOK
<1>7. CASE t \in doomed
  <2>1. st' = W /\ UNCHANGED <<at, on, mine>>
    BY <1>7 DEF SyncJob
  <2> HIDE DEF W
  <2> QED BY <1>1, <1>2, <1>3, <1>4, <1>6, <1>7, <2>1 DEF Callers, Suspended
<1>8. CASE t \notin doomed
  <2>1. /\ st' = [W EXCEPT ![t] = "blocked"] /\ at' = [at EXCEPT ![t] = "hold"]
        /\ mine' = [mine EXCEPT ![t] = j]
    BY <1>8 DEF SyncJob
  <2> HIDE DEF W
  <2>2. \A u \in Task : /\ st'[u] = IF u = t THEN "blocked" ELSE W[u]
                        /\ at'[u] = IF u = t THEN "hold" ELSE at[u]
                        /\ mine'[u] = IF u = t THEN j ELSE mine[u]
    BY <1>5, <2>1 DEF SyncTypeOK, QueueTypeOK
  <2>3. (\A u \in Task : st[u] # "absent" => u \in used)'
    BY <1>2, <1>3, <1>4, <2>2 DEF Callers
  <2>4. (\A k \in Job : caller[k] # None => k \in added /\ caller[k] \in used)'
    BY <1>2, <1>3, <1>6 DEF Callers
  <2>5. (\A u \in Task : mine[u] # None => on[u] = None /\ at[u] = "hold" /\ Suspended(u))'
    BY <1>1, <1>3, <1>4, <2>2 DEF Callers, Suspended
  <2>6. (\A u \in Task : mine[u] # None /\ st[u] = "ready" /\ u \notin doomed => mine[u] \in done)'
    BY <1>2, <1>4, <2>2 DEF Callers
  <2>7. (\A k \in Job, u \in Task :
           caller[k] = u /\ u \notin doomed /\ st[u] # "absent" => k \in done \/ mine[u] = k)'
    <3> SUFFICES ASSUME NEW k \in Job, NEW u \in Task,
                        caller'[k] = u, u \notin doomed', st'[u] # "absent"
                 PROVE  k \in done' \/ mine'[u] = k
      OBVIOUS
    <3>1. CASE k = j
      BY <1>6, <2>2, <3>1
    <3>2. CASE k # j
      <4>1. caller[k] = u /\ u \notin doomed /\ st[u] # "absent"
        BY <1>1, <1>2, <1>4, <1>6, <2>2, <3>2
      <4>2. k \in done \/ mine[u] = k
        BY <4>1 DEF Callers
      <4> QED BY <1>2, <1>3, <2>2, <4>2, QueueFacts
    <3> QED BY <3>1, <3>2
  <2> QED BY <2>3, <2>4, <2>5, <2>6, <2>7 DEF Callers
<1> QED BY <1>7, <1>8

LEMMA CallersDestroyQueue ==
  ASSUME Inv, Callers, DestroyQueue
  PROVE  Callers'
<1> SyncTypeOK
  BY DEF Inv, SyncInv
<1>1. UNCHANGED <<at, on, used, added, caller, done, mine>> /\ st' = Woken({Inner})
  BY DEF DestroyQueue
<1>2. ASSUME NEW t \in Task
      PROVE  \/ st'[t] = st[t]
             \/ t = Inner /\ st[t] = "blocked" /\ st'[t] = "ready"
  BY <1>1 DEF Woken
<1>3. doomed \subseteq doomed' /\ (st[Inner] # "absent" => Inner \in doomed')
  BY DEF DestroyQueue
<1> QED BY <1>1, <1>2, <1>3, CallersKept DEF Callers, Suspended

LEMMA CallersInner ==
  ASSUME Inv, Callers, Fetch \/ FetchedOne \/ InnerEnds
  PROVE  Callers'
<1> SyncTypeOK
  BY DEF Inv, SyncInv
<1>1. mine[Inner] = None /\ st[Inner] # "absent"
  <2>1. CASE AtHead
    BY <2>1, RunningIsFree, QueueFacts DEF AtHead, InUser
  <2>2. CASE on[Inner] = Queue /\ st[Inner] = "ready"
    BY <2>2, QueueFacts DEF Callers
  <2> QED BY <2>1, <2>2 DEF Fetch, FetchedOne, InnerEnds, Resume
<1>2. /\ UNCHANGED <<used, added, caller, done, mine>>
      /\ st'[Inner] \in {"running", "blocked", "absent"}
      /\ doomed' = doomed \/ (doomed' = doomed \ {Inner} /\ st'[Inner] = "absent")
  <2>1. CASE Fetch
    BY <2>1, QueueFacts
    DEF Fetch, AtHead, InUser, Take, Enqueue, Start, taskVars, queueVars, SyncTypeOK
  <2>2. CASE FetchedOne
    BY <2>2, QueueFacts DEF FetchedOne, Resume, Start, SyncTypeOK
  <2>3. CASE InnerEnds
    BY <2>3, QueueFacts DEF InnerEnds, queueVars, SyncTypeOK
  <2> QED BY <2>1, <2>2, <2>3
<1>3. ASSUME NEW t \in Task, t # Inner
      PROVE  st'[t] = st[t] /\ at'[t] = at[t] /\ on'[t] = on[t]
  <2>1. CASE Fetch
    BY <1>3, <2>1 DEF Fetch, Take, Enqueue, taskVars, SyncTypeOK
  <2>2. CASE FetchedOne
    BY <1>3, <2>2 DEF FetchedOne, Resume, SyncTypeOK
  <2>3. CASE InnerEnds
    BY <1>3, <2>3 DEF InnerEnds, SyncTypeOK
  <2> QED BY <2>1, <2>2, <2>3
<1>4. ASSUME NEW t \in Task
      PROVE  /\ st'[t] # "absent" => t \in used'
             /\ mine[t] # None => on'[t] = None /\ at'[t] = at[t] /\ Suspended(t)'
             /\ t \in doomed => t \in doomed' \/ st'[t] = "absent"
             /\ st'[t] # "absent" => st[t] # "absent"
             /\ mine[t] # None => st'[t] = st[t]
  <2>1. CASE t = Inner
    BY <1>1, <1>2, <2>1 DEF Callers
  <2>2. CASE t # Inner
    BY <1>2, <1>3, <2>2 DEF Callers, Suspended
  <2> QED BY <2>1, <2>2
<1> QED BY <1>2, <1>4, CallersKept

\* The worker of a sync wakes the task that waits for just this worker.
LEMMA CallersEndJob ==
  ASSUME Inv, Callers, EndJob
  PROVE  Callers'
<1> SyncTypeOK /\ QueueTypeOK /\ job \in Job /\ job \notin done
  BY DEF Inv, SyncInv, EndJob, Jobs, QueueTypeOK
<1>1. /\ UNCHANGED <<at, on, doomed, used, added, caller, mine>>
      /\ done' = done \cup {job} /\ st' = Woken(CallerOf(job))
  BY DEF EndJob, objVars
<1>2. \A t \in CallerOf(job) : t \in Task /\ (t \notin doomed => mine[t] = job)
  BY DEF CallerOf, Users, Callers
<1>3. \A t \in Task :
        \/ st'[t] = st[t]
        \/ t \in CallerOf(job) /\ st[t] = "blocked" /\ st'[t] = "ready"
  BY <1>1 DEF Woken
<1> QED BY <1>1, <1>2, <1>3, CallersKept DEF Callers, Suspended

LEMMA CallersNext ==
  ASSUME Reuse = FALSE
  PROVE  Inv /\ Callers /\ [Next]_vars => Callers'
<1> SUFFICES ASSUME Inv, Callers, [Next]_vars PROVE Callers'
  OBVIOUS
<1>1. ASSUME NEW t \in Task,
             Create(t) \/ Finish(t) \/ Timeout(t) \/ Cancel(t), UNCHANGED queueVars
      PROVE  Callers'
  BY <1>1, CallersLoop
<1>2. ASSUME NEW t \in Task, Calls(t, Obj \ {Queue}), UNCHANGED queueVars
      PROVE  Callers'
  BY <1>2, CallersCalls
<1>3. ASSUME NEW t \in Task, Return(t) \/ \E j \in Job : SyncJob(t, j)
      PROVE  Callers'
  BY <1>3, CallersReturn, CallersSyncJob
<1>4. ASSUME NEW o \in Obj \ {Queue}, Used(o), UNCHANGED queueVars
      PROVE  Callers'
  BY <1>4, CallersUsed
<1>5. ASSUME NEW j \in Job, Submit(j)
      PROVE  Callers'
  BY <1>5, CallersSubmit
<1>6. CASE DestroyQueue
  BY <1>6, CallersDestroyQueue
<1>7. CASE Fetch \/ FetchedOne \/ InnerEnds
  BY <1>7, CallersInner
<1>8. CASE EndJob
  BY <1>8, CallersEndJob
<1>9. CASE UNCHANGED vars
  BY <1>9 DEF vars, syncVars, taskVars, queueVars, Callers, Suspended
<1> QED BY <1>1, <1>2, <1>3, <1>4, <1>5, <1>6, <1>7, <1>8, <1>9 DEF Next, Users

\* Only its own return ends the sync of a task, and it returns when it is ready.
LEMMA SyncEnds ==
  ASSUME Inv, Callers, [Next]_vars, NEW t \in Task,
         mine[t] # None, mine'[t] = None, t \notin doomed
  PROVE  mine[t] \in done
<1>1. mine' # mine
  OBVIOUS
<1>2. \/ \E u \in Task : Return(u)
      \/ \E u \in Task, j \in Job : SyncJob(u, j)
  BY <1>1 DEF Next, vars, queueVars, Submit, DestroyQueue, Fetch, FetchedOne, Start,
              InnerEnds, EndJob
<1>3. CASE \E u \in Task : Return(u)
  <2>1. PICK u \in Task : Return(u)
    BY <1>3
  <2>2. u = t /\ st[t] = "ready"
    BY <2>1 DEF Return, Resume, Inv, QueueTypeOK
  <2> QED BY <2>2 DEF Callers
<1>4. CASE \E u \in Task, j \in Job : SyncJob(u, j)
  <2>1. PICK u \in Task, j \in Job : SyncJob(u, j)
    BY <1>4
  <2>2. mine' = mine \/ mine' = [mine EXCEPT ![u] = j]
    BY <2>1 DEF SyncJob
  <2> QED BY <2>2, QueueFacts DEF Inv, QueueTypeOK
<1> QED BY <1>2, <1>3, <1>4

\* taskqueue::sync: where the id of a finished task is not given to another one,
\* a task that has not been cancelled leaves sync only after its worker.
THEOREM SyncWaitsForItsWorker ==
  ASSUME Reuse = FALSE
  PROVE  Spec => SyncWaits
<1>1. Inv /\ Callers /\ [Next]_vars => (Inv /\ Callers)'
  BY InvNext, CallersNext
<1>2. Init => Inv /\ Callers
  BY InvInit, CallersInit
<1>3. Inv /\ Callers /\ [Next]_vars =>
        [\A t \in Task : (mine[t] # None /\ mine'[t] = None /\ t \notin doomed)
                           => mine[t] \in done]_vars
  BY SyncEnds
<1> QED BY <1>1, <1>2, <1>3, PTL DEF Spec, SyncWaits

----------------------------------------------------------------------------
(* The tokens of every semaphore, where ids are not used twice.            *)

\* The task a worker that has not returned would tell is in no call of an object:
\* it waits in sync, or has been cancelled, and then no call holds it.
CallersFree ==
  \A j \in Job, t \in Task :
    caller[j] = t /\ st[t] # "absent" /\ j \notin done => on[t] = None

\* A step that puts no such task in a call.
LEMMA FreeKept ==
  ASSUME Callers, CallersFree, done \subseteq done',
         \A j \in Job, t \in Task : caller'[j] = t => caller[j] = t \/ on'[t] = None,
         \A t \in Task : \/ on'[t] = None
                         \/ on'[t] = on[t] /\ (st'[t] # "absent" => st[t] # "absent")
                         \/ mine[t] = None /\ t \notin doomed /\ st[t] # "absent"
  PROVE  CallersFree'
<1> SUFFICES ASSUME NEW j \in Job, NEW t \in Task,
                    caller'[j] = t, st'[t] # "absent", j \notin done', on'[t] # None
             PROVE  FALSE
  BY DEF CallersFree
<1>1. caller[j] = t /\ j \notin done
  OBVIOUS
<1>2. CASE on'[t] = on[t] /\ st[t] # "absent"
  BY <1>1, <1>2 DEF CallersFree
<1>3. CASE mine[t] = None /\ t \notin doomed /\ st[t] # "absent"
  BY <1>1, <1>3, QueueFacts DEF Callers
<1> QED BY <1>2, <1>3

LEMMA FreeNext == Inv /\ Callers /\ CallersFree /\ [Next]_vars => CallersFree'
<1> SUFFICES ASSUME Inv, Callers, CallersFree, [Next]_vars PROVE CallersFree'
  OBVIOUS
<1> SyncTypeOK /\ Lists /\ QueueTypeOK
  BY DEF Inv, SyncInv
<1>1. ASSUME NEW t \in Task, UNCHANGED queueVars,
             Create(t) \/ Yield(t) \/ Finish(t) \/ Timeout(t) \/ Cancel(t)
      PROVE  CallersFree'
  <2>1. on' = on /\ UNCHANGED <<done, caller>>
    BY <1>1 DEF Create, Yield, Finish, Timeout, Cancel, queueVars
  <2>2. \A u \in Task : on[u] # None /\ st'[u] # "absent" => st[u] # "absent"
    BY DEF Lists, Suspended
  <2> QED BY <2>1, <2>2, FreeKept
<1>2. ASSUME NEW t \in Task, NEW o, NEW c, InUser(t), UNCHANGED <<done, caller>>,
             Take(t, o) \/ Refuse(t, o) \/ Enqueue(t, o, c)
      PROVE  CallersFree'
  <2>1. mine[t] = None /\ st[t] # "absent"
    BY <1>2, RunningIsFree DEF InUser
  <2>2. \A u \in Task : \/ on'[u] = on[u] /\ st'[u] = st[u]
                        \/ u = t /\ t \notin doomed
    BY <1>2 DEF Take, Refuse, Enqueue, taskVars, SyncTypeOK
  <2> QED BY <1>2, <2>1, <2>2, FreeKept
<1>3. ASSUME NEW t \in Task, Calls(t, Obj \ {Queue}), UNCHANGED queueVars
      PROVE  CallersFree'
  BY <1>1, <1>2, <1>3 DEF Calls, Wait, queueVars
<1>4. ASSUME NEW t \in Task, Resume(t), UNCHANGED <<done, caller>>
      PROVE  CallersFree'
  <2>1. \A u \in Task : \/ on'[u] = None
                        \/ on'[u] = on[u] /\ st'[u] = st[u]
    BY <1>4 DEF Resume, SyncTypeOK
  <2> QED BY <1>4, <2>1, FreeKept
<1>5. ASSUME NEW t \in Task, Return(t)
      PROVE  CallersFree'
  BY <1>4, <1>5 DEF Return
<1>6. ASSUME UNCHANGED <<on, done, caller>>, NEW W, st' = Woken(W)
      PROVE  CallersFree'
  BY <1>6, Waking, FreeKept
<1>7. ASSUME NEW o \in Obj, Used(o), UNCHANGED queueVars
      PROVE  CallersFree'
  BY <1>6, <1>7
  DEF Used, Give, TriggerOne, TriggerAll, CancelWaiters, Destroy, WakeAll, queueVars
<1>8. ASSUME NEW j \in Job, Submit(j)
      PROVE  CallersFree'
  <2>1. /\ st' = Woken(First(Queue)) /\ UNCHANGED <<on, done>>
        /\ caller' = [caller EXCEPT ![j] = None]
    BY <1>8 DEF Submit, Add
  <2>2. \A k \in Job, t \in Task : caller'[k] = t => caller[k] = t
    BY <2>1, NoneIsNoObject DEF QueueTypeOK
  <2> QED BY <2>1, <2>2, Waking, FreeKept
<1>9. ASSUME NEW t \in Task, NEW j \in Job, SyncJob(t, j)
      PROVE  CallersFree'
  <2>1. on[t] = None /\ on' = on /\ done' = done /\ caller' = [caller EXCEPT ![j] = t]
    BY <1>9, RunningIsFree DEF SyncJob, MayCall, InUser, Add
  <2>2. \A k \in Job, u \in Task : caller'[k] = u => caller[k] = u \/ u = t
    BY <2>1 DEF QueueTypeOK
  <2>3. \A u \in Task : on[u] # None => st[u] # "absent"
    BY DEF Lists, Suspended
  <2> QED BY <2>1, <2>2, <2>3, FreeKept
<1>10. CASE DestroyQueue
  BY <1>6, <1>10 DEF DestroyQueue
<1>11. CASE Fetch
  BY <1>2, <1>11, QueueFacts DEF Fetch, AtHead, Start, queueVars
<1>12. CASE FetchedOne
  BY <1>4, <1>12, QueueFacts DEF FetchedOne, Start
<1>13. CASE InnerEnds
  <2>1. \A u \in Task : \/ on'[u] = None
                        \/ on'[u] = on[u] /\ st'[u] = st[u]
    BY <1>13 DEF InnerEnds, SyncTypeOK
  <2> QED BY <1>13, <2>1, FreeKept DEF InnerEnds, queueVars
<1>14. CASE EndJob
  <2>1. /\ UNCHANGED <<on, caller>> /\ done \subseteq done'
        /\ st' = Woken(CallerOf(job))
    BY <1>14 DEF EndJob
  <2> QED BY <2>1, Waking, FreeKept
<1>15. CASE UNCHANGED vars
  BY <1>15 DEF vars, syncVars, taskVars, queueVars, CallersFree
<1> QED BY <1>1, <1>3, <1>5, <1>7, <1>8, <1>9, <1>10, <1>11, <1>12, <1>13, <1>14, <1>15
    DEF Next, Users

TokensInv == \A o \in Sem \cap exists : Unheard(o) /\ Balanced(o)

LEMMA TokensNext == Inv /\ CallersFree /\ TokensInv /\ [Next]_vars => TokensInv'
<1> SUFFICES ASSUME Inv, CallersFree, TokensInv, [Next]_vars,
                    NEW o \in Sem, o \in exists'
             PROVE  (Unheard(o) /\ Balanced(o))'
  BY DEF TokensInv
<1>1. SyncTypeOK /\ SyncTypeOK' /\ o \in Sem \cap exists /\ o # None
  BY InvNext, ObjectsOnlyGo, NoneIsNoObject DEF Inv, SyncInv, Obj
<1>2. ASSUME EndJob, NEW t \in CallerOf(job) PROVE on[t] # o
  <2>1. job \in Job /\ job \notin done
    BY <1>2 DEF EndJob, Inv, Jobs, QueueTypeOK
  <2>2. on[t] = None
    BY <1>2, <2>1 DEF CallerOf, Users, CallersFree
  <2> QED BY <1>1, <2>2
<1>3. Moves(o)
  BY <1>1, <1>2, StepMoves DEF TokensInv
<1>4. Balanced(o)'
  BY <1>1, <1>3, MovesBalance DEF TokensInv
<1> QED BY <1>3, <1>4 DEF Moves

\* semaphore: whatever timeouts, cancellations and destructions its waiters meet,
\* each token it was given is counted, fetched or on its way to one task. A used id
\* would break this: the worker of an old sync would tell its new owner, in a
\* fetch, of a token that nobody gave.
THEOREM TokensAreConserved ==
  ASSUME Reuse = FALSE
  PROVE  Spec => []TokensConserved
<1> DEFINE I == Inv /\ Callers /\ CallersFree /\ TokensInv
<1>1. Init => I
  <2>1. Init => CallersFree
    BY QueueFacts, NoneIsNoObject DEF Init, CallersFree
  <2> QED BY <2>1, InvInit, CallersInit, InitBalanced DEF TokensInv
<1>2. I /\ [Next]_vars => I'
  BY InvNext, CallersNext, FreeNext, TokensNext
<1>3. I => TokensConserved
  BY DEF TokensInv, Balanced, TokensConserved
<1> QED BY <1>1, <1>2, <1>3, PTL DEF Spec
=============================================================================
