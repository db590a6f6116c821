---------------------------- MODULE PartsProofs ----------------------------
(***************************************************************************)
(* The invariants of the containers, caches and utilities of LibraryParts, *)
(* and that every step of each keeps its own.                              *)
(***************************************************************************)
EXTENDS LibraryParts, SequenceTheorems, FiniteSetTheorems, WellFoundedInduction, NaturalsInduction,
        TLAPS

----------------------------------------------------------------------------
(* Sequences and numbers.                                                  *)

LEMMA Joined ==
  ASSUME NEW G, NEW p \in Seq(G), NEW q \in Seq(G)
  PROVE  /\ p \o q \in Seq(G) /\ Len(p \o q) = Len(p) + Len(q)
         /\ \A i \in 1..Len(p \o q) : (p \o q)[i] = IF i <= Len(p) THEN p[i] ELSE q[i - Len(p)]
<1>1. Len(p) \in Nat /\ Len(q) \in Nat /\ p \o q \in Seq(G) /\ Len(p \o q) = Len(p) + Len(q)
  OBVIOUS
<1>2. ASSUME NEW i \in 1..Len(p \o q) PROVE (p \o q)[i] = IF i <= Len(p) THEN p[i] ELSE q[i - Len(p)]
  BY ONLY <1>1, p \in Seq(G), q \in Seq(G), i \in 1..Len(p \o q), ConcatProperties
<1> QED BY <1>1, <1>2

\* A sequence without its items from r to u - 1.
CutAt(m, r, u) == SubSeq(m, 1, r - 1) \o SubSeq(m, u, Len(m))

LEMMA Cut ==
  ASSUME NEW G, NEW m \in Seq(G), NEW r \in 1..(Len(m) + 1), NEW u \in 1..(Len(m) + 1), r <= u
  PROVE  /\ CutAt(m, r, u) \in Seq(G) /\ Len(CutAt(m, r, u)) = Len(m) - (u - r)
         /\ \A i \in 1..Len(CutAt(m, r, u)) :
              CutAt(m, r, u)[i] = IF i < r THEN m[i] ELSE m[i + (u - r)]
<1> DEFINE p == SubSeq(m, 1, r - 1)
           q == SubSeq(m, u, Len(m))
<1>1. Len(m) \in Nat /\ r \in Nat /\ u \in Nat
  OBVIOUS
<1>2. p \in Seq(G) /\ Len(p) = r - 1 /\ \A i \in 1..(r - 1) : p[i] = m[i]
  BY <1>1
<1>3. q \in Seq(G) /\ Len(q) = Len(m) - u + 1 /\ \A i \in 1..(Len(m) - u + 1) : q[i] = m[u + i - 1]
  BY <1>1
<1> HIDE DEF p, q
<1>4. p \o q \in Seq(G) /\ Len(p \o q) = Len(p) + Len(q)
      /\ \A i \in 1..Len(p \o q) : (p \o q)[i] = IF i <= Len(p) THEN p[i] ELSE q[i - Len(p)]
  BY <1>2, <1>3, Joined
<1>5. ASSUME NEW i \in 1..Len(p \o q) PROVE (p \o q)[i] = IF i < r THEN m[i] ELSE m[i + (u - r)]
  <2>1. CASE i < r
    BY <1>1, <1>2, <1>4, <2>1
  <2>2. CASE ~(i < r)
    <3>1. i - Len(p) \in 1..(Len(m) - u + 1) /\ i - Len(p) = i - r + 1
      BY <1>1, <1>2, <1>3, <1>4, <2>2
    <3>2. u + (i - Len(p)) - 1 = i + (u - r)
      BY <1>1, <3>1
    <3> QED BY <1>1, <1>2, <1>3, <1>4, <2>2, <3>1, <3>2
  <2> QED BY <2>1, <2>2
<1>6. Len(p \o q) = Len(m) - (u - r)
  BY <1>1, <1>2, <1>3, <1>4
<1>7. CutAt(m, r, u) = p \o q
  BY DEF CutAt, p, q
<1> QED BY <1>4, <1>5, <1>6, <1>7

LEMMA Least ==
  ASSUME NEW G, G \subseteq Nat, G # {}
  PROVE  \E i \in G : \A j \in G : i <= j
<1>1. PICK i \in G : \A j \in G : ~(<<j, i>> \in OpToRel(<, Nat))
  BY NatLessThanWellFounded, WFMin
<1>2. ASSUME NEW j \in G PROVE i <= j
  <2>1. i \in Nat /\ j \in Nat
    OBVIOUS
  <2>2. ~(j < i)
    BY <1>1, <2>1 DEF OpToRel
  <2> QED BY <2>1, <2>2
<1> QED BY <1>2

\* Induction over the numbers: a set that has the next one of each has them all.
LEMMA Induction ==
  ASSUME NEW G, G \subseteq Nat, 0 \in G, \A n \in G : n + 1 \in G
  PROVE  G = Nat
<1>1. ASSUME Nat \ G # {} PROVE FALSE
  <2>1. PICK i \in Nat \ G : \A j \in Nat \ G : i <= j
    BY <1>1, Least
  <2>2. i \in Nat /\ i # 0
    BY <2>1
  <2>3. i - 1 \in Nat /\ ~(i <= i - 1) /\ (i - 1) + 1 = i
    BY <2>2
  <2>4. i - 1 \in G
    BY <2>1, <2>3
  <2> QED BY <2>1, <2>3, <2>4
<1> QED BY <1>1

\* From x on, f takes one step of s after the other.
Walks(f, n, x, s) == f[0] = x /\ \A i \in 0..(n - 1) : f[i + 1] = s[f[i]]

\* There is a function that is defined by recursion.
Iterates(f, x, s) == f[0] = x /\ \A n \in Nat : f[n + 1] = s[f[n]]

LEMMA Recursion ==
  ASSUME NEW G, NEW x \in G, NEW s \in [G -> G]
  PROVE  \E f \in [Nat -> G] : Iterates(f, x, s)
<1> DEFINE W(n) == {f \in [0..n -> G] : Walks(f, n, x, s)}
<1>1. W(0) # {}
  <2> DEFINE f == [i \in 0..0 |-> x]
  <2>1. f \in [0..0 -> G] /\ f[0] = x /\ 0..(0 - 1) = {}
    OBVIOUS
  <2> QED BY <2>1 DEF Walks
<1>2. ASSUME NEW n \in Nat, NEW g \in W(n) PROVE W(n + 1) # {}
  <2> DEFINE f == [i \in 0..(n + 1) |-> IF i = n + 1 THEN s[g[n]] ELSE g[i]]
  <2>1. g \in [0..n -> G] /\ g[0] = x /\ \A i \in 0..(n - 1) : g[i + 1] = s[g[i]]
    BY <1>2 DEF Walks
  <2>2. f \in [0..(n + 1) -> G]
    BY <2>1
  <2>3. f[0] = x
    BY <2>1
  <2>4. ASSUME NEW i \in 0..((n + 1) - 1) PROVE f[i + 1] = s[f[i]]
    <3>1. i \in 0..n /\ i # n + 1 /\ i + 1 \in 0..(n + 1)
      OBVIOUS
    <3>2. CASE i = n
      BY <3>1, <3>2
    <3>3. CASE i # n
      BY <2>1, <3>1, <3>3
    <3> QED BY <3>2, <3>3
  <2> HIDE DEF f
  <2> QED BY <2>2, <2>3, <2>4 DEF Walks
<1>3. \A n \in Nat : W(n) # {}
  <2> DEFINE D == {n \in Nat : W(n) # {}}
  <2> HIDE DEF W
  <2>1. D \subseteq Nat /\ 0 \in D /\ \A n \in D : n + 1 \in D
    BY <1>1, <1>2
  <2> HIDE DEF D
  <2>2. D = Nat
    BY <2>1, Induction
  <2> QED BY <2>2 DEF D
<1>4. ASSUME NEW n \in Nat, NEW m \in Nat, NEW g \in W(n), NEW h \in W(m)
      PROVE  \A i \in Nat : i <= n /\ i <= m => g[i] = h[i]
  <2> DEFINE D == {i \in Nat : i <= n /\ i <= m => g[i] = h[i]}
  <2>1. /\ g[0] = x /\ \A i \in 0..(n - 1) : g[i + 1] = s[g[i]]
        /\ h[0] = x /\ \A i \in 0..(m - 1) : h[i + 1] = s[h[i]]
    BY <1>4 DEF Walks
  <2>2. 0 \in D
    BY <2>1
  <2>3. ASSUME NEW i \in D PROVE i + 1 \in D
    <3>1. i + 1 <= n /\ i + 1 <= m => i <= n /\ i <= m /\ i \in 0..(n - 1) /\ i \in 0..(m - 1)
      OBVIOUS
    <3> QED BY <2>1, <3>1
  <2>4. D \subseteq Nat
    OBVIOUS
  <2> HIDE DEF D
  <2>5. D = Nat
    BY <2>2, <2>3, <2>4, Induction
  <2> QED BY <2>5 DEF D
<1> DEFINE w(n) == CHOOSE g \in W(n) : TRUE
           f == [n \in Nat |-> w(n)[n]]
<1>5. \A n \in Nat : w(n) \in W(n)
  BY <1>3
<1>6. ASSUME NEW n \in Nat PROVE w(n)[n] \in G
  <2> HIDE DEF w
  <2>1. w(n) \in [0..n -> G] /\ n \in 0..n
    BY <1>5
  <2> QED BY <2>1
<1>7. w(0)[0] = x
  <2> HIDE DEF w
  <2> QED BY <1>5 DEF Walks
<1>8. ASSUME NEW n \in Nat PROVE w(n + 1)[n + 1] = s[w(n)[n]]
  <2> HIDE DEF w
  <2>1. w(n) \in W(n) /\ w(n + 1) \in W(n + 1) /\ n \in 0..((n + 1) - 1) /\ n <= n /\ n <= n + 1 /\ n + 1 \in Nat
    BY <1>5
  <2>2. w(n + 1)[n + 1] = s[w(n + 1)[n]]
    BY <2>1 DEF Walks
  <2> HIDE DEF W
  <2>3. w(n + 1)[n] = w(n)[n]
    BY <1>4, <2>1
  <2> QED BY <2>2, <2>3
<1> HIDE DEF w
<1>9. f \in [Nat -> G] /\ Iterates(f, x, s)
  BY <1>6, <1>7, <1>8 DEF Iterates
<1> QED BY <1>9

----------------------------------------------------------------------------
(* The timed list.                                                         *)

\* The map with the fire times f, and its entries.
Sound(m, f) ==
  /\ m \in Seq(M!Entry)
  /\ \A i, j \in DOMAIN m : i < j => m[i].time < m[j].time
  /\ \A i, j \in DOMAIN m : m[i].tid = m[j].tid => i = j
  /\ \A i \in DOMAIN m : m[i].time = f[m[i].tid]
Entries(m) == {m[i] : i \in DOMAIN m}
NoneOf(m, t) == \A i \in DOMAIN m : m[i].tid # t

\* No two tasks fire at one time.
Untied == \A t, u \in Item : t # u /\ nft[t] # 0 => nft[t] # nft[u]
MBase == M!MapIsSound /\ Untied

\* Who is out of the map: the task that main has fetched, and the tasks that an error has
\* taken out and not told yet.  Nobody is told twice.
MTurns ==
  /\ fetched \in Item \cup {None} /\ vain \subseteq Item /\ waiting \in BOOLEAN
  /\ fetched # None => ~waiting /\ nft[fetched] # 0 /\ NoneOf(map, fetched)
  /\ erasing \subseteq todo /\ todo \subseteq Item /\ again = {}
  /\ todo # {} => waiting
  /\ \A t \in todo \ erasing : NoneOf(map, t)

MInv == MBase /\ MTurns
Recalled == (todo \cup again) \ erasing

Timed(f, t, n) == [f EXCEPT ![t] = n]
EntryOf(t, n, h) == [tid |-> t, time |-> n, hook |-> h]

LEMMA Put ==
  ASSUME NEW G, NEW m \in Seq(G), NEW i \in 1..(Len(m) + 1), NEW e \in G
  PROVE  /\ M!InsertAt(m, i, e) \in Seq(G) /\ Len(M!InsertAt(m, i, e)) = Len(m) + 1
         /\ \A j \in 1..(Len(m) + 1) :
              M!InsertAt(m, i, e)[j] = IF j < i THEN m[j] ELSE IF j = i THEN e ELSE m[j - 1]
<1> DEFINE p == SubSeq(m, 1, i - 1)
           q == SubSeq(m, i, Len(m))
           w == p \o <<e>>
<1>1. Len(m) \in Nat /\ i \in Nat
  OBVIOUS
<1>2. p \in Seq(G) /\ Len(p) = i - 1 /\ \A j \in 1..(i - 1) : p[j] = m[j]
  BY <1>1
<1>3. q \in Seq(G) /\ Len(q) = Len(m) - i + 1 /\ \A j \in 1..(Len(m) - i + 1) : q[j] = m[i + j - 1]
  BY <1>1
<1> HIDE DEF p, q
<1>4. w \in Seq(G) /\ Len(w) = i /\ \A j \in 1..i : w[j] = IF j < i THEN m[j] ELSE e
  BY <1>1, <1>2
<1> HIDE DEF w
<1>5. w \o q \in Seq(G) /\ Len(w \o q) = Len(w) + Len(q)
      /\ \A j \in 1..Len(w \o q) : (w \o q)[j] = IF j <= Len(w) THEN w[j] ELSE q[j - Len(w)]
  BY <1>3, <1>4, Joined
<1>6. Len(w \o q) = Len(m) + 1
  BY <1>1, <1>3, <1>4, <1>5
<1>7. ASSUME NEW j \in 1..(Len(m) + 1)
      PROVE  (w \o q)[j] = IF j < i THEN m[j] ELSE IF j = i THEN e ELSE m[j - 1]
  <2>1. CASE j <= i
    BY <1>1, <1>4, <1>5, <1>6, <2>1
  <2>2. CASE ~(j <= i)
    <3>1. j - Len(w) \in 1..(Len(m) - i + 1) /\ i + (j - Len(w)) - 1 = j - 1
      BY <1>1, <1>4, <2>2
    <3> QED BY <1>1, <1>3, <1>4, <1>5, <1>6, <2>2, <3>1
  <2> QED BY <2>1, <2>2
<1>8. M!InsertAt(m, i, e) = w \o q
  BY DEF M!InsertAt, p, q, w
<1> QED BY <1>5, <1>6, <1>7, <1>8

\* What is left when entries between two positions go is as sound.
LEMMA CutSound ==
  ASSUME NEW f, NEW m, Sound(m, f), NEW r \in 1..(Len(m) + 1), NEW u \in 1..(Len(m) + 1), r <= u
  PROVE  /\ Sound(CutAt(m, r, u), f)
         /\ Entries(CutAt(m, r, u)) = Entries(m) \ {m[i] : i \in r..(u - 1)}
         /\ \A i \in r..(u - 1) : NoneOf(CutAt(m, r, u), m[i].tid)
<1> DEFINE c == CutAt(m, r, u)
           spot(i) == IF i < r THEN i ELSE i + (u - r)
<1>1. m \in Seq(M!Entry) /\ Len(m) \in Nat /\ r \in Nat /\ u \in Nat /\ DOMAIN m = 1..Len(m)
  BY DEF Sound
<1>2. /\ c \in Seq(M!Entry) /\ Len(c) = Len(m) - (u - r)
      /\ \A i \in 1..Len(c) : c[i] = IF i < r THEN m[i] ELSE m[i + (u - r)]
  BY <1>1, Cut
<1> HIDE DEF c
<1>3. DOMAIN c = 1..Len(c)
  BY <1>2
<1>4. \A i \in DOMAIN c : spot(i) \in DOMAIN m /\ c[i] = m[spot(i)] /\ spot(i) \notin r..(u - 1)
  <2> SUFFICES ASSUME NEW i \in DOMAIN c
               PROVE  spot(i) \in DOMAIN m /\ c[i] = m[spot(i)] /\ spot(i) \notin r..(u - 1)
    OBVIOUS
  <2>1. i \in 1..Len(c) /\ Len(c) = Len(m) - (u - r)
        /\ c[i] = IF i < r THEN m[i] ELSE m[i + (u - r)]
    BY <1>2, <1>3
  <2>2. spot(i) \in 1..Len(m) /\ spot(i) \notin r..(u - 1)
    BY <1>1, <2>1
  <2>3. c[i] = m[spot(i)]
    BY <2>1
  <2> HIDE DEF spot
  <2> QED BY <1>1, <2>2, <2>3
<1>5. \A i, j \in DOMAIN c : (i < j => spot(i) < spot(j)) /\ (spot(i) = spot(j) => i = j)
  BY <1>1, <1>2, <1>3
<1>6. \A k \in DOMAIN m \ (r..(u - 1)) : \E i \in DOMAIN c : spot(i) = k
  <2> SUFFICES ASSUME NEW k \in DOMAIN m \ (r..(u - 1)) PROVE \E i \in DOMAIN c : spot(i) = k
    OBVIOUS
  <2>1. CASE k < r
    BY <1>1, <1>2, <1>3, <2>1
  <2>2. CASE k >= u
    <3>1. k - (u - r) \in DOMAIN c /\ spot(k - (u - r)) = k
      BY <1>1, <1>2, <1>3, <2>2
    <3> QED BY <3>1
  <2> QED BY <1>1, <2>1, <2>2
<1> HIDE DEF spot
<1>7. Sound(c, f)
  BY <1>2, <1>4, <1>5 DEF Sound
<1>8. \A i, j \in DOMAIN m : m[i].tid = m[j].tid => i = j
  BY DEF Sound
<1>9. Entries(c) = Entries(m) \ {m[i] : i \in r..(u - 1)}
  <2>1. r..(u - 1) \subseteq DOMAIN m
    BY <1>1
  <2>2. Entries(c) = {m[k] : k \in DOMAIN m \ (r..(u - 1))}
    BY <1>4, <1>6 DEF Entries
  <2> QED BY <1>8, <2>1, <2>2 DEF Entries
<1>11. \A i \in r..(u - 1) : NoneOf(c, m[i].tid)
  <2>1. r..(u - 1) \subseteq DOMAIN m
    BY <1>1
  <2> QED BY <1>4, <1>8, <2>1 DEF NoneOf
<1> QED BY <1>7, <1>9, <1>11 DEF c

LEMMA Dropped ==
  ASSUME NEW f, NEW m, Sound(m, f), NEW p \in DOMAIN m
  PROVE  /\ Sound(CutAt(m, p, p + 1), f) /\ Entries(CutAt(m, p, p + 1)) = Entries(m) \ {m[p]}
         /\ NoneOf(CutAt(m, p, p + 1), m[p].tid)
<1>1. m \in Seq(M!Entry) /\ Len(m) \in Nat /\ DOMAIN m = 1..Len(m)
  BY DEF Sound
<1>2. p \in 1..(Len(m) + 1) /\ p + 1 \in 1..(Len(m) + 1) /\ p <= p + 1 /\ p..((p + 1) - 1) = {p}
  BY <1>1
<1>3. /\ Sound(CutAt(m, p, p + 1), f)
      /\ Entries(CutAt(m, p, p + 1)) = Entries(m) \ {m[i] : i \in p..((p + 1) - 1)}
      /\ \A i \in p..((p + 1) - 1) : NoneOf(CutAt(m, p, p + 1), m[i].tid)
  BY <1>2, CutSound
<1> QED BY <1>2, <1>3

LEMMA Kept ==
  ASSUME NEW f, NEW m, Sound(m, f), NEW p \in 1..(Len(m) + 1)
  PROVE  Sound(CutAt(m, p, p), f) /\ Entries(CutAt(m, p, p)) = Entries(m)
<1>1. m \in Seq(M!Entry) /\ Len(m) \in Nat
  BY DEF Sound
<1>2. p <= p /\ p..(p - 1) = {}
  BY <1>1
<1>3. Sound(CutAt(m, p, p), f) /\ Entries(CutAt(m, p, p)) = Entries(m) \ {m[i] : i \in p..(p - 1)}
  BY <1>2, CutSound
<1> QED BY <1>2, <1>3

LEMMA Changed ==
  ASSUME NEW e \in M!Entry, NEW n, NEW h
  PROVE  [e EXCEPT !.time = n, !.hook = h] = EntryOf(e.tid, n, h)
<1>1. PICK a0 \in Item, b0 \in M!Time, c0 \in BOOLEAN : e = [tid |-> a0, time |-> b0, hook |-> c0]
  BY Zenon DEF M!Entry
<1>2. e = [tid |-> e.tid, time |-> e.time, hook |-> e.hook]
  BY <1>1
<1>3. [e EXCEPT !.time = n] = [tid |-> e.tid, time |-> n, hook |-> e.hook]
  BY <1>2
<1> DEFINE g == [e EXCEPT !.time = n]
<1> HIDE DEF g
<1>4. g = [tid |-> e.tid, time |-> n, hook |-> e.hook]
  BY <1>3 DEF g
<1>5. [g EXCEPT !.hook = h] = [tid |-> e.tid, time |-> n, hook |-> h]
  BY <1>4
<1> QED BY <1>5 DEF g, EntryOf

\* An entry of a task that has none goes in where its time belongs.
LEMMA Assigned ==
  ASSUME NEW f \in [Item -> M!Time \cup {0}], NEW m, Sound(m, f), NEW t \in Item, NoneOf(m, t),
         NEW n \in M!Time, NEW h, EntryOf(t, n, h) \in M!Entry, \A u \in Item \ {t} : f[u] # n,
         NEW m2 \in M!Assign(m, M!KeyOf(t, n), h)
  PROVE  /\ Sound(m2, Timed(f, t, n))
         /\ Entries(m2) = Entries(m) \cup {EntryOf(t, n, h)}
<1> DEFINE k == M!KeyOf(t, n)
           e == EntryOf(k.tid, k.time, h)
<1>0. k.tid = t /\ k.time = n
  BY DEF M!KeyOf
<1> HIDE DEF k, e
<1>1. PICK i \in M!LowerBound(m, k) :
        m2 = IF M!IsAt(m, k, i) THEN [m EXCEPT ![i].hook = h] ELSE M!InsertAt(m, i, e)
  BY DEF M!Assign, k, e, EntryOf
<1>2. m \in Seq(M!Entry) /\ Len(m) \in Nat /\ DOMAIN m = 1..Len(m) /\ n \in Nat
  BY TimesAssumption DEF Sound, M!Time
<1>3. \A j \in 1..Len(m) : m[j] \in M!Entry /\ m[j].tid # t /\ m[j].tid \in Item /\ m[j].time \in Nat
                           /\ m[j].time # n /\ m[j].time = f[m[j].tid]
  <2> SUFFICES ASSUME NEW j \in 1..Len(m)
               PROVE  /\ m[j] \in M!Entry /\ m[j].tid # t /\ m[j].tid \in Item /\ m[j].time \in Nat
                      /\ m[j].time # n /\ m[j].time = f[m[j].tid]
    OBVIOUS
  <2>1. m[j] \in M!Entry /\ m[j].tid # t /\ m[j].time = f[m[j].tid]
    BY <1>2 DEF Sound, NoneOf
  <2>2. m[j].tid \in Item /\ m[j].time \in Nat
    BY <2>1, TimesAssumption DEF M!Entry, M!Time
  <2> QED BY <2>1, <2>2
<1>4. i \in 1..(Len(m) + 1) /\ (i > 1 => m[i - 1].time < n) /\ (i <= Len(m) => ~(m[i].time < n))
  BY <1>0, <1>2, <1>3 DEF M!LowerBound, M!Less
<1>5. ~M!IsAt(m, k, i)
  BY <1>0, <1>2, <1>3, <1>4 DEF M!IsAt, M!Less
<1>6. e \in M!Entry
  BY <1>0 DEF e
<1>6a. e.tid = t /\ e.time = n /\ e = EntryOf(t, n, h)
  BY <1>0 DEF e, EntryOf
<1>7. /\ m2 \in Seq(M!Entry) /\ Len(m2) = Len(m) + 1 /\ DOMAIN m2 = 1..(Len(m) + 1)
      /\ \A j \in 1..(Len(m) + 1) : m2[j] = IF j < i THEN m[j] ELSE IF j = i THEN e ELSE m[j - 1]
  <2>1. m2 = M!InsertAt(m, i, e)
    BY <1>1, <1>5
  <2>2. m \in Seq(M!Entry) /\ i \in 1..(Len(m) + 1) /\ e \in M!Entry
    BY <1>2, <1>4, <1>6
  <2>3. m2 \in Seq(M!Entry) /\ Len(m2) = Len(m) + 1
        /\ \A j \in 1..(Len(m) + 1) : m2[j] = IF j < i THEN m[j] ELSE IF j = i THEN e ELSE m[j - 1]
    <3> DEFINE w == M!InsertAt(m, i, e)
    <3>1. w \in Seq(M!Entry) /\ Len(w) = Len(m) + 1
      BY ONLY <2>2, Put
    <3>2. \A j \in 1..(Len(m) + 1) : w[j] = IF j < i THEN m[j] ELSE IF j = i THEN e ELSE m[j - 1]
      BY ONLY <2>2, Put
    <3> HIDE DEF w
    <3>3. m2 = w
      BY <2>1 DEF w
    <3> QED BY ONLY <3>1, <3>2, <3>3
  <2> QED BY <1>2, <2>3
<1> DEFINE spot(j) == IF j < i THEN j ELSE j - 1
<1>8. \A j \in DOMAIN m2 : j # i => spot(j) \in DOMAIN m /\ m2[j] = m[spot(j)]
  BY <1>2, <1>4, <1>7
<1>9. \A j, l \in DOMAIN m2 : j # i /\ l # i => (j < l => spot(j) < spot(l)) /\ (spot(j) = spot(l) => j = l)
  BY <1>2, <1>4, <1>7
<1>10. \A j \in DOMAIN m2 : j < i => m2[j].time < n
  <2> SUFFICES ASSUME NEW j \in DOMAIN m2, j < i PROVE m2[j].time < n
    OBVIOUS
  <2>1. j \in DOMAIN m /\ i - 1 \in DOMAIN m /\ m2[j] = m[j] /\ j <= i - 1
    BY <1>2, <1>4, <1>7
  <2>2. m[j].time \in Nat /\ m[i - 1].time \in Nat /\ m[i - 1].time < n
    BY <1>2, <1>3, <1>4, <2>1
  <2>3. j < i - 1 => m[j].time < m[i - 1].time
    BY <2>1 DEF Sound
  <2> QED BY <1>2, <1>4, <2>1, <2>2, <2>3
<1>11. \A j \in DOMAIN m2 : i < j => n < m2[j].time
  <2> SUFFICES ASSUME NEW j \in DOMAIN m2, i < j PROVE n < m2[j].time
    OBVIOUS
  <2>1. j - 1 \in DOMAIN m /\ i \in DOMAIN m /\ m2[j] = m[j - 1] /\ i <= j - 1
    BY <1>2, <1>4, <1>7
  <2>2. m[j - 1].time \in Nat /\ m[i].time \in Nat /\ ~(m[i].time < n) /\ m[i].time # n
    BY <1>2, <1>3, <1>4, <2>1
  <2>3. i < j - 1 => m[i].time < m[j - 1].time
    BY <2>1 DEF Sound
  <2> QED BY <1>2, <1>4, <2>1, <2>2, <2>3
<1>12. i \in DOMAIN m2 /\ m2[i] = e
  BY <1>2, <1>4, <1>7
<1>13. ASSUME NEW j \in DOMAIN m2, NEW l \in DOMAIN m2, j < l PROVE m2[j].time < m2[l].time
  <2>1. CASE j = i
    BY <1>11, <1>12, <1>13, <1>6a, <2>1
  <2>2. CASE l = i
    BY <1>10, <1>12, <1>13, <1>6a, <2>2
  <2>3. CASE j # i /\ l # i
    <3> HIDE DEF spot
    <3> QED BY <1>8, <1>9, <1>13, <2>3 DEF Sound
  <2> QED BY <2>1, <2>2, <2>3
<1> HIDE DEF spot
<1>14. \A j \in DOMAIN m2 : j # i => m2[j].tid # t /\ m2[j].tid \in Item /\ m2[j].time = f[m2[j].tid]
  BY <1>2, <1>3, <1>8
<1>15. ASSUME NEW j \in DOMAIN m2, NEW l \in DOMAIN m2, m2[j].tid = m2[l].tid PROVE j = l
  <2>1. CASE j = i \/ l = i
    BY <1>12, <1>14, <1>15, <1>6a, <2>1
  <2>2. CASE j # i /\ l # i
    BY <1>8, <1>9, <1>15, <2>2 DEF Sound
  <2> QED BY <2>1, <2>2
<1>16. \A j \in DOMAIN m2 : m2[j].time = Timed(f, t, n)[m2[j].tid]
  BY <1>12, <1>14, <1>6a DEF Timed
<1>17. Sound(m2, Timed(f, t, n))
  BY <1>7, <1>13, <1>15, <1>16 DEF Sound
<1>18. Entries(m2) = Entries(m) \cup {e}
  <2>1. \A j \in DOMAIN m : \E l \in DOMAIN m2 : l # i /\ m2[l] = m[j]
    <3> SUFFICES ASSUME NEW j \in DOMAIN m PROVE \E l \in DOMAIN m2 : l # i /\ m2[l] = m[j]
      OBVIOUS
    <3>1. CASE j < i
      BY <1>2, <1>4, <1>7, <3>1
    <3>2. CASE ~(j < i)
      <4>1. j + 1 \in DOMAIN m2 /\ j + 1 # i /\ m2[j + 1] = m[j]
        BY <1>2, <1>4, <1>7, <3>2
      <4> QED BY <4>1
    <3> QED BY <3>1, <3>2
  <2> QED BY <1>8, <1>12, <2>1 DEF Entries
<1> QED BY <1>17, <1>18, <1>6a

\* A task that is out of the map comes in under its new time.
LEMMA Stamped ==
  ASSUME ~Ties, MBase, NEW t \in Item, NEW n \in M!Time, NEW h \in BOOLEAN, NEW m,
         Sound(m, nft), NoneOf(m, t), M!Stamp(t, n), map' \in M!Assign(m, M!KeyOf(t, n), h), now' = now
  PROVE  MBase' /\ Entries(map') = Entries(m) \cup {EntryOf(t, n, h)}
<1>1. nft \in [Item -> M!Time \cup {0}] /\ now \in M!Time
  BY DEF MBase, M!MapIsSound
<1>2. (\A u \in Item \ {t} : nft[u] # n) /\ nft' = [nft EXCEPT ![t] = n]
  BY DEF M!Stamp
<1>2a. nft' = Timed(nft, t, n)
  BY <1>2 DEF Timed
<1>3. Sound(map', nft') /\ Entries(map') = Entries(m) \cup {EntryOf(t, n, h)}
  <2>1. EntryOf(t, n, h) \in M!Entry
    BY DEF EntryOf, M!Entry
  <2>2. \A m2 \in M!Assign(m, M!KeyOf(t, n), h) : Sound(m2, Timed(nft, t, n))
    BY <1>1, <1>2, <2>1, Assigned
  <2>3. \A m2 \in M!Assign(m, M!KeyOf(t, n), h) : Entries(m2) = Entries(m) \cup {EntryOf(t, n, h)}
    BY <1>1, <1>2, <2>1, Assigned
  <2>4. Entries(map') = Entries(m) \cup {EntryOf(t, n, h)}
    BY <2>3
  <2>5. Sound(map', nft')
    BY <2>2, <1>2a
  <2> QED BY <2>5, <2>4
<1>4. nft' \in [Item -> M!Time \cup {0}] /\ now' \in M!Time
  BY <1>1, <1>2
<1>5. Untied'
  BY <1>1, <1>2 DEF MBase, Untied
<1> QED BY <1>3, <1>4, <1>5 DEF MBase, M!MapIsSound, Sound

Same == UNCHANGED <<Entries(map), Recalled>>
QNext == M!Queue!Next

LEMMA MapParts ==
  ASSUME MBase
  PROVE  /\ Sound(map, nft) /\ nft \in [Item -> M!Time \cup {0}] /\ now \in M!Time
         /\ now \in Nat /\ Len(map) \in Nat /\ DOMAIN map = 1..Len(map)
         /\ \A i \in DOMAIN map : map[i] \in M!Entry /\ map[i].tid \in Item
                                 /\ map[i].time \in Nat /\ map[i].time = nft[map[i].tid]
                                 /\ map[i].hook \in BOOLEAN
<1>1. map \in Seq(M!Entry) /\ Sound(map, nft) /\ nft \in [Item -> M!Time \cup {0}] /\ now \in M!Time
  BY DEF MBase, M!MapIsSound, Sound
<1>2. Len(map) \in Nat /\ DOMAIN map = 1..Len(map) /\ now \in Nat
  BY <1>1, TimesAssumption DEF M!Time
<1>3. ASSUME NEW i \in DOMAIN map
      PROVE  /\ map[i] \in M!Entry /\ map[i].tid \in Item
             /\ map[i].time \in Nat /\ map[i].time = nft[map[i].tid]
             /\ map[i].hook \in BOOLEAN
  <2>1. map[i] \in M!Entry /\ map[i].time = nft[map[i].tid]
    BY <1>1, <1>2 DEF Sound
  <2> QED BY <2>1, TimesAssumption DEF M!Entry, M!Time
<1> QED BY <1>1, <1>2, <1>3

\* The entry of a task in the map is where a search for its key ends.
LEMMA Searched ==
  ASSUME MBase, NEW p \in DOMAIN map
  PROVE  LET k == M!KeyOf(map[p].tid, nft[map[p].tid]) IN
         /\ \A i \in M!LowerBound(map, k) : i = p
         /\ \A i \in M!UpperBound(map, k) : i = p + 1
<1> DEFINE k == M!KeyOf(map[p].tid, nft[map[p].tid])
<1>1. k.tid = map[p].tid /\ k.time = map[p].time
  BY MapParts DEF M!KeyOf
<1> HIDE DEF k
<1>2. Len(map) \in Nat /\ DOMAIN map = 1..Len(map) /\ \A i \in DOMAIN map : map[i].time \in Nat
  BY MapParts
<1>3. \A i \in DOMAIN map : /\ i < p => map[i].time < k.time
                            /\ p < i => k.time < map[i].time
                            /\ map[i].tid = k.tid <=> i = p
  BY <1>1, MapParts DEF Sound
<1>4. \A i \in DOMAIN map : (M!Less(map[i], k) <=> i < p) /\ (M!Less(k, map[i]) <=> p < i)
  BY <1>1, <1>2, <1>3 DEF M!Less
<1>5. ASSUME NEW i \in M!LowerBound(map, k) PROVE i = p
  BY <1>2, <1>4 DEF M!LowerBound
<1>6. ASSUME NEW i \in M!UpperBound(map, k) PROVE i = p + 1
  BY <1>2, <1>4 DEF M!UpperBound
<1> QED BY <1>5, <1>6 DEF k

\* What erasing the key of a task leaves, whether it is in the map or not.
LEMMA ErasedOne ==
  ASSUME MBase, NEW t \in Item, NEW m \in M!Erase(map, M!KeyOf(t, nft[t]))
  PROVE  Sound(m, nft) /\ NoneOf(m, t) /\ Entries(m) = {x \in Entries(map) : x.tid # t}
<1> DEFINE k == M!KeyOf(t, nft[t])
<1>1. PICK r \in M!LowerBound(map, k), u \in M!UpperBound(map, k) : r <= u /\ m = CutAt(map, r, u)
  BY DEF M!Erase, CutAt
<1>2. Sound(map, nft)
  BY MapParts
<1>3. CASE \E p \in DOMAIN map : map[p].tid = t
  <2>1. PICK p \in DOMAIN map : map[p].tid = t
    BY <1>3
  <2>2. r = p /\ u = p + 1
    BY <1>1, <2>1, Searched
  <2>3. Sound(m, nft) /\ NoneOf(m, t) /\ Entries(m) = Entries(map) \ {map[p]}
    BY <1>1, <1>2, <2>1, <2>2, Dropped
  <2>4. \A x \in Entries(map) : x.tid = t <=> x = map[p]
    BY <1>2, <2>1 DEF Sound, Entries
  <2> QED BY <2>3, <2>4
<1>4. CASE NoneOf(map, t)
  <2>1. k.tid = t /\ k.time = nft[t] /\ nft[t] \in Nat
    BY MapParts, TimesAssumption DEF M!KeyOf, M!Time
  <2> HIDE DEF k
  <2>2. \A i \in DOMAIN map : /\ map[i].tid # t /\ map[i].time \in Nat /\ map[i].time # nft[t]
                              /\ (M!Less(map[i], k) <=> map[i].time < nft[t])
                              /\ (M!Less(k, map[i]) <=> nft[t] < map[i].time)
    <3> SUFFICES ASSUME NEW i \in DOMAIN map
                 PROVE  /\ map[i].tid # t /\ map[i].time \in Nat /\ map[i].time # nft[t]
                        /\ (M!Less(map[i], k) <=> map[i].time < nft[t])
                        /\ (M!Less(k, map[i]) <=> nft[t] < map[i].time)
      OBVIOUS
    <3>1. map[i].tid # t /\ map[i].tid \in Item /\ map[i].time \in Nat /\ map[i].time = nft[map[i].tid]
          /\ map[i].time \in M!Time
      BY <1>4, MapParts DEF NoneOf, M!Entry
    <3>2. map[i].time # 0
      BY <3>1, TimesAssumption DEF M!Time
    <3>3. map[i].time # nft[t]
      BY <3>1, <3>2 DEF MBase, Untied
    <3> QED BY <2>1, <3>1, <3>3 DEF M!Less
  <2>3. /\ r \in 1..(Len(map) + 1) /\ (r <= Len(map) => ~M!Less(map[r], k))
        /\ u \in 1..(Len(map) + 1) /\ (u > 1 => ~M!Less(k, map[u - 1]))
    BY DEF M!LowerBound, M!UpperBound
  <2>4. r = u
    <3> SUFFICES ASSUME r < u PROVE FALSE
      BY <1>1, <2>3
    <3>1. r \in DOMAIN map /\ u - 1 \in DOMAIN map /\ r <= u - 1
      BY <2>3, MapParts
    <3>2. nft[t] < map[r].time /\ map[u - 1].time < nft[t]
      BY <2>1, <2>2, <2>3, <3>1, MapParts
    <3>3. r = u - 1 \/ map[r].time < map[u - 1].time
      BY <1>2, <2>3, <3>1 DEF Sound
    <3> QED BY <2>1, <2>2, <3>1, <3>2, <3>3
  <2>5. Sound(m, nft) /\ Entries(m) = Entries(map)
    BY <1>1, <1>2, <2>3, <2>4, Kept
  <2> QED BY <1>4, <2>5 DEF NoneOf, Entries
<1> QED BY <1>3, <1>4 DEF NoneOf

\* A step of a call or of main's fetch, outside of the wait.
LEMMA TurnsKept ==
  ASSUME MTurns, ~waiting, waiting' \in BOOLEAN, UNCHANGED <<erasing, todo, again>>, vain' \subseteq Item,
         fetched' \in Item \cup {None},
         fetched' # None => ~waiting' /\ nft'[fetched'] # 0 /\ \A x \in Entries(map') : x.tid # fetched'
  PROVE  MTurns' /\ Recalled = {} /\ Recalled' = {}
BY DEF MTurns, Recalled, NoneOf, Entries

\* The map with the entry of t added is that of the queue.
LEMMA QueueInsert ==
  ASSUME MTurns, NEW t \in Item, NoneOf(map, t), NEW n \in M!Time, NEW h \in BOOLEAN,
         Entries(map') = Entries(map) \cup {EntryOf(t, n, h)},
         Recalled = {}, Recalled' = {}
  PROVE  QNext
<1> DEFINE e == EntryOf(t, n, h)
<1>1. e \in M!Entry /\ e.tid = t
  BY DEF M!Entry, EntryOf
<1> HIDE DEF e
<1>2. \A x \in Entries(map) : x.tid # e.tid
  BY <1>1 DEF Entries, NoneOf
<1>3. Entries(map') = Entries(map) \cup {e}
  BY DEF e
<1> QED BY <1>1, <1>2, <1>3 DEF QNext, M!Queue!Next, M!Queue!Insert, M!Queue!Entry, M!Entry, Entries, Recalled

\* insert, by a new task or by the one that main has fetched.
LEMMA InsertStep ==
  ASSUME ~Ties, MInv, NEW t \in Item, M!Insert(t) \/ M!Repeat(t)
  PROVE  MInv' /\ QNext
<1>1. PICK n \in M!Time, h \in BOOLEAN : M!Stamp(t, n) /\ map' \in M!Assign(map, M!KeyOf(t, n), h)
  <2>1. CASE M!Insert(t)
    <3>1. now..MaxTime \subseteq M!Time
      BY MapParts, TimesAssumption DEF MInv, M!Time
    <3> QED BY <2>1, <3>1 DEF M!Insert
  <2>2. CASE M!Repeat(t)
    <3>1. nft[t] \in Nat
      BY MapParts, TimesAssumption DEF MInv, M!Time
    <3>2. (nft[t] + 1)..MaxTime \subseteq M!Time
      BY <3>1, TimesAssumption DEF M!Time
    <3> QED BY <2>2, <3>2 DEF M!Repeat
  <2> QED BY <2>1, <2>2
<1>2. NoneOf(map, t) /\ ~waiting
  <2>1. CASE fetched = t
    BY <2>1, TimesAssumption DEF MInv, MTurns, M!Insert
  <2>2. CASE nft[t] = 0 /\ ~waiting
    BY <2>2, MapParts, TimesAssumption DEF MInv, NoneOf, M!Time, M!Entry
  <2> QED BY <2>1, <2>2 DEF M!Insert, M!Repeat
<1>3. /\ now' = now /\ UNCHANGED <<waiting, vain, erasing, todo, again>>
      /\ fetched' = IF fetched = t THEN None ELSE fetched
  BY DEF M!Insert, M!Repeat, M!SwapBack, M!errorVars
<1>4. MBase' /\ Entries(map') = Entries(map) \cup {EntryOf(t, n, h)}
  BY <1>1, <1>2, <1>3, MapParts, Stamped DEF MInv
<1>5. MTurns' /\ Recalled = {} /\ Recalled' = {}
  <2>1. nft' = [nft EXCEPT ![t] = n] /\ nft \in [Item -> M!Time \cup {0}]
    BY <1>1, MapParts DEF MInv, M!Stamp
  <2>2. fetched' # None => /\ fetched' = fetched /\ fetched # t /\ ~waiting'
                           /\ nft'[fetched'] # 0 /\ \A x \in Entries(map') : x.tid # fetched'
    BY <1>2, <1>3, <1>4, <2>1 DEF MInv, MTurns, NoneOf, Entries, EntryOf
  <2> QED BY <1>2, <1>3, <2>2, TurnsKept DEF MInv, MTurns
<1>6. QNext
  BY <1>2, <1>4, <1>5, QueueInsert DEF MInv
<1> QED BY <1>4, <1>5, <1>6 DEF MInv

\* hold_task and the end of a task leave the map alone.
LEMMA LeaveStep ==
  ASSUME MInv, NEW t \in Item, M!Hold(t) \/ M!End(t)
  PROVE  MInv' /\ Same
<1>1. /\ fetched = t /\ fetched' = None /\ map' = map /\ now' = now
      /\ UNCHANGED <<waiting, vain, erasing, todo, again>>
      /\ nft' = nft \/ nft' = [nft EXCEPT ![t] = 0]
  BY DEF M!Hold, M!End, M!errorVars
<1>2. NoneOf(map, t) /\ ~waiting
  BY <1>1, TimesAssumption DEF MInv, MTurns
<1>3. MBase'
  <2>1. nft' \in [Item -> M!Time \cup {0}] /\ \A u \in Item : nft'[u] = nft[u] \/ (u = t /\ nft'[u] = 0)
    BY <1>1, MapParts DEF MInv
  <2>2. \A i \in DOMAIN map : map[i].tid \in Item /\ map[i].time = nft'[map[i].tid]
    BY <1>2, <2>1, MapParts DEF MInv, NoneOf
  <2>3. Untied'
    BY <2>1 DEF MInv, MBase, Untied
  <2> QED BY <1>1, <2>1, <2>2, <2>3 DEF MInv, MBase, M!MapIsSound
<1>4. MTurns' /\ Recalled = {} /\ Recalled' = {}
  BY <1>1, <1>2, TurnsKept DEF MInv, MTurns
<1> QED BY <1>1, <1>3, <1>4 DEF MInv, Same, Entries

\* The map with the entry at p under a new time is that of the queue.
LEMMA EntryMoves ==
  ASSUME MBase, NEW t \in Item, NEW p \in DOMAIN map, map[p].tid = t, NEW n \in M!Time,
         NEW h \in BOOLEAN, h => map[p].hook,
         Entries(map') = (Entries(map) \ {map[p]}) \cup {EntryOf(t, n, h)},
         Recalled = {}, Recalled' = {}
  PROVE  QNext
<1>1. map[p] \in Entries(map) /\ map[p] \in M!Entry
  BY MapParts DEF Entries
<1>2. [map[p] EXCEPT !.time = n, !.hook = h] = EntryOf(t, n, h)
  BY <1>1, Changed
<1>3. Entries(map') = (Entries(map) \ {map[p]}) \cup {[map[p] EXCEPT !.time = n, !.hook = h]}
  BY <1>2
<1> QED BY <1>1, <1>3 DEF QNext, M!Queue!Next, M!Queue!Move, Entries, Recalled

\* wakeup_task: the entry of t moves, or t, which has none, comes in under its old time.
LEMMA RouseStep ==
  ASSUME ~Ties, MInv, NEW t \in Item, M!Rouse(t)
  PROVE  MInv' /\ QNext
<1> DEFINE k == M!KeyOf(t, nft[t])
<1>1. PICK i \in M!LowerBound(map, k) :
        IF M!IsAt(map, k, i) THEN M!Stamp(t, now) /\ map' \in M!Moved(map, i, M!KeyOf(t, now))
        ELSE map' \in M!Assign(map, k, FALSE) /\ UNCHANGED nft
  BY DEF M!Rouse
<1>2. nft[t] # 0 /\ now' = now /\ fetched # t /\ ~waiting
      /\ UNCHANGED <<fetched, waiting, vain, erasing, todo, again>>
  BY DEF M!Rouse, M!errorVars
<1>2a. MBase
  BY DEF MInv
<1>2b. ASSUME NEW n, nft' = [nft EXCEPT ![t] = n], NEW X, X \subseteq Entries(map), NEW e, e.tid = t,
              Entries(map') = X \cup {e}
       PROVE  MTurns' /\ Recalled = {} /\ Recalled' = {}
  <2>1. fetched' # None => /\ ~waiting' /\ nft'[fetched'] = nft[fetched] /\ nft[fetched] # 0
                           /\ NoneOf(map, fetched) /\ fetched' = fetched
    BY <1>2, <1>2b, <1>2a, MapParts DEF MInv, MTurns
  <2>2. \A x \in Entries(map) : fetched' # None => x.tid # fetched'
    BY <2>1 DEF NoneOf, Entries
  <2>3. fetched' # None => \A x \in Entries(map') : x.tid # fetched'
    BY <1>2, <1>2b, <2>2
  <2> QED BY <1>2, <2>1, <2>3, TurnsKept DEF MInv, MTurns
<1>3. nft[t] \in M!Time /\ now \in M!Time /\ \A u \in Item \ {t} : nft[u] # nft[t]
  BY <1>2, <1>2a, MapParts DEF MBase, Untied
<1>4. nft[t] \in Nat
  BY <1>3, TimesAssumption DEF M!Time
<1>5. k.tid = t /\ k.time = nft[t]
  BY DEF M!KeyOf
<1>6. CASE M!IsAt(map, k, i)
  <2> HIDE DEF k
  <2>1. i \in DOMAIN map /\ ~M!Less(k, map[i]) /\ ~M!Less(map[i], k)
    BY <1>6, <1>2a, MapParts DEF M!LowerBound, M!IsAt
  <2>2. map[i].tid = t
    BY <1>3, <1>4, <1>5, <2>1, <1>2a, MapParts DEF M!Less
  <2> DEFINE m == M!RemoveAt(map, i)
             h == map[i].hook
  <2>3. Sound(m, nft) /\ NoneOf(m, t) /\ Entries(m) = Entries(map) \ {map[i]}
    <3>1. m = CutAt(map, i, i + 1)
      BY DEF M!RemoveAt, CutAt
    <3>2. Sound(map, nft)
      BY <1>2a, MapParts
    <3> HIDE DEF m
    <3> QED BY <2>1, <2>2, <3>1, <3>2, Dropped
  <2>4. h \in BOOLEAN
    BY <2>1, <1>2a, MapParts DEF M!Entry
  <2>5. M!Stamp(t, now) /\ map' \in M!Assign(m, M!KeyOf(t, now), h)
    BY <1>1, <1>6 DEF M!Moved
  <2> HIDE DEF m
  <2>6. MBase' /\ Entries(map') = Entries(m) \cup {EntryOf(t, now, h)}
    BY <1>2, <1>2a, <1>3, <2>3, <2>4, <2>5, Stamped
  <2>7. MTurns' /\ Recalled = {} /\ Recalled' = {}
    <3>1. nft' = [nft EXCEPT ![t] = now]
      BY <2>5 DEF M!Stamp
    <3>2. EntryOf(t, now, h).tid = t
      BY DEF EntryOf
    <3>3. Entries(m) \subseteq Entries(map)
      BY <2>3
    <3> QED BY <1>2b, <2>6, <3>1, <3>2, <3>3
  <2>8. QNext
    BY <1>3, <2>1, <2>2, <2>3, <2>4, <2>6, <2>7, <1>2a, EntryMoves
  <2> QED BY <2>6, <2>7, <2>8 DEF MInv
<1>7. CASE ~M!IsAt(map, k, i)
  <2>1. NoneOf(map, t)
    <3> SUFFICES ASSUME NEW p \in DOMAIN map, map[p].tid = t PROVE FALSE
      BY DEF NoneOf
    <3>1. i = p
      BY <1>2a, Searched
    <3> HIDE DEF k
    <3>2. M!IsAt(map, k, i)
      BY <1>4, <1>5, <3>1, <1>2a, MapParts DEF M!IsAt, M!Less
    <3> QED BY <1>7, <3>2
  <2>3. nft' = Timed(nft, t, nft[t]) /\ nft' = nft
    BY <1>1, <1>7, <1>2a, MapParts DEF Timed
  <2>4. Sound(map', nft') /\ Entries(map') = Entries(map) \cup {EntryOf(t, nft[t], FALSE)}
    <3>1. Sound(map, nft) /\ nft \in [Item -> M!Time \cup {0}]
      BY <1>2a, MapParts
    <3>2. map' \in M!Assign(map, M!KeyOf(t, nft[t]), FALSE)
      BY <1>1, <1>7
    <3>3. EntryOf(t, nft[t], FALSE) \in M!Entry
      BY <1>3 DEF EntryOf, M!Entry
    <3> HIDE DEF k
    <3>4. \A m2 \in M!Assign(map, M!KeyOf(t, nft[t]), FALSE) : Sound(m2, Timed(nft, t, nft[t]))
      BY <1>3, <2>1, <3>1, <3>3, Assigned
    <3>5. \A h : EntryOf(t, nft[t], h) \in M!Entry =>
            \A m2 \in M!Assign(map, M!KeyOf(t, nft[t]), h) : Entries(m2) = Entries(map) \cup {EntryOf(t, nft[t], h)}
      BY <1>3, <2>1, <3>1, Assigned
    <3> QED BY <3>3, <2>3, <3>2, <3>4, <3>5
  <2>5. MBase'
    BY <1>2, <1>2a, <2>3, <2>4, MapParts DEF MBase, M!MapIsSound, Sound, Untied
  <2>6. MTurns' /\ Recalled = {} /\ Recalled' = {}
    <3>1. nft' = [nft EXCEPT ![t] = nft[t]]
      BY <2>3 DEF Timed
    <3>2. EntryOf(t, nft[t], FALSE).tid = t
      BY DEF EntryOf
    <3> QED BY <1>2b, <2>4, <3>1, <3>2
  <2>7. QNext
    BY <1>3, <2>1, <2>4, <2>6, QueueInsert DEF MInv
  <2> QED BY <2>5, <2>6, <2>7 DEF MInv
<1> QED BY <1>6, <1>7

LEMMA FetchStep ==
  ASSUME MInv, M!Fetch
  PROVE  MInv' /\ QNext
<1> DEFINE m == Tail(map)
<1>0. MBase /\ MTurns
  BY DEF MInv
<1>1. Len(map) \in Nat /\ Len(map) >= 1 /\ DOMAIN map = 1..Len(map) /\ map \in Seq(M!Entry)
  BY <1>0, MapParts, EmptySeq DEF M!Fetch, Sound
<1>2. /\ m \in Seq(M!Entry) /\ DOMAIN m = 1..(Len(map) - 1) /\ Len(m) = Len(map) - 1
      /\ \A i \in DOMAIN m : m[i] = map[i + 1]
  BY <1>1
<1>3. Sound(map, nft)
  BY <1>0, MapParts
<1> HIDE DEF m
<1>4. Sound(m, nft)
  <2>1. \A i \in DOMAIN m : i + 1 \in DOMAIN map /\ m[i] = map[i + 1]
    BY <1>1, <1>2
  <2>2. \A i, j \in DOMAIN m : (i < j => i + 1 < j + 1) /\ (i + 1 = j + 1 => i = j)
    BY <1>1, <1>2
  <2> QED BY <1>2, <1>3, <2>1, <2>2 DEF Sound
<1>5. Entries(m) = Entries(map) \ {map[1]}
  <2>1. \A i \in DOMAIN map : i # 1 => map[i] # map[1] /\ i - 1 \in DOMAIN m /\ m[i - 1] = map[i]
    BY <1>1, <1>2, <1>3 DEF Sound
  <2>2. \A i \in DOMAIN m : i + 1 \in DOMAIN map /\ i + 1 # 1 /\ m[i] = map[i + 1]
    BY <1>1, <1>2
  <2> QED BY <2>1, <2>2 DEF Entries
<1>6. \A x \in Entries(map) : map[1].time <= x.time
  BY <1>1, <1>3, <1>0, MapParts DEF Sound, Entries
<1>7. Sound(map', nft) /\ Entries(map') = Entries(m)
  <2>1. CASE ~Head(map).hook
    BY <1>4, <2>1 DEF M!Fetch, m
  <2>2. CASE Head(map).hook
    <3> DEFINE k == M!KeyOf(Head(map).tid, nft[Head(map).tid])
    <3>1. map' \in M!Erase(m, k)
      BY <2>2 DEF M!Fetch, m
    <3>2. Head(map) = map[1] /\ k.tid = map[1].tid /\ k.time = map[1].time /\ map[1].time \in Nat
      BY <1>1, <1>0, MapParts DEF M!KeyOf
    <3> HIDE DEF k
    <3>3. \A i \in DOMAIN m : m[i].tid # k.tid /\ k.time < m[i].time /\ m[i].time \in Nat
      <4> SUFFICES ASSUME NEW i \in DOMAIN m
                   PROVE  m[i].tid # k.tid /\ k.time < m[i].time /\ m[i].time \in Nat
        OBVIOUS
      <4>1. i + 1 \in DOMAIN map /\ 1 \in DOMAIN map /\ 1 < i + 1 /\ i + 1 # 1 /\ m[i] = map[i + 1]
        BY <1>1, <1>2
      <4> QED BY <1>3, <3>2, <4>1, <1>0, MapParts DEF Sound
    <3>4. PICK r \in M!LowerBound(m, k), u \in M!UpperBound(m, k) :
            map' = CutAt(m, r, u)
      BY <3>1 DEF M!Erase, CutAt
    <3>5. r = 1 /\ u = 1 /\ 1 \in 1..(Len(m) + 1)
      <4>1. \A i \in DOMAIN m : ~M!Less(m[i], k) /\ M!Less(k, m[i])
        BY <3>2, <3>3 DEF M!Less
      <4>2. r \in 1..(Len(m) + 1) /\ (r > 1 => M!Less(m[r - 1], k))
            /\ u \in 1..(Len(m) + 1) /\ (u > 1 => ~M!Less(k, m[u - 1]))
        BY DEF M!LowerBound, M!UpperBound
      <4>3. (r > 1 => r - 1 \in DOMAIN m) /\ (u > 1 => u - 1 \in DOMAIN m) /\ 1 \in 1..(Len(m) + 1)
        BY <1>1, <1>2, <4>2
      <4> QED BY <4>1, <4>2, <4>3
    <3> QED BY <1>4, <3>4, <3>5, Kept
  <2> QED BY <2>1, <2>2
<1>8. /\ nft' = nft /\ now' = now /\ ~waiting /\ UNCHANGED <<waiting, erasing, todo, again>>
      /\ fetched' = map[1].tid /\ nft[map[1].tid] # 0 /\ vain' \in {vain, vain \cup {map[1].tid}}
  BY <1>1 DEF M!Fetch, M!errorVars
<1>9. MBase'
  BY <1>0, <1>7, <1>8, MapParts DEF MBase, M!MapIsSound, Sound, Untied
<1>10. MTurns' /\ Recalled = {} /\ Recalled' = {}
  <2>1. map[1].tid \in Item /\ \A x \in Entries(map) \ {map[1]} : x.tid # map[1].tid
    BY <1>0, <1>1, <1>3, MapParts DEF Sound, Entries
  <2>2. vain' \subseteq Item /\ waiting' \in BOOLEAN
    BY <1>0, <1>8, <2>1 DEF MTurns
  <2> QED BY <1>0, <1>5, <1>7, <1>8, <2>1, <2>2, TurnsKept
<1>11. QNext
  <2>1. map[1] \in Entries(map)
    BY <1>1 DEF Entries
  <2> QED BY <1>5, <1>6, <1>7, <1>10, <2>1 DEF QNext, M!Queue!Next, M!Queue!Fetch, Entries, Recalled
<1> QED BY <1>9, <1>10, <1>11 DEF MInv

\* on_event_: the entry of t moves to now, or t, which has none, comes in.
LEMMA RenewStep ==
  ASSUME ~Ties, MInv, NEW t \in Item, M!Renew(t)
  PROVE  MInv' /\ QNext
<1>1. MBase /\ MTurns /\ now \in M!Time
  BY MapParts DEF MInv
<1>2. PICK m \in M!Erase(map, M!KeyOf(t, nft[t])) : map' \in M!Assign(m, M!KeyOf(t, now), FALSE)
  BY DEF M!Renew
<1>3. /\ M!Stamp(t, now) /\ now' = now /\ vain' \subseteq vain
      /\ waiting /\ erasing = {} /\ todo = {} /\ again = {}
      /\ UNCHANGED <<fetched, waiting, erasing, todo, again>>
  BY DEF M!Renew, M!Polling, M!errorVars
<1>4. Sound(m, nft) /\ NoneOf(m, t) /\ Entries(m) = {x \in Entries(map) : x.tid # t}
  BY <1>1, ErasedOne
<1>5. MBase' /\ Entries(map') = Entries(m) \cup {EntryOf(t, now, FALSE)}
  BY <1>1, <1>2, <1>3, <1>4, Stamped
<1>6. MTurns' /\ Recalled = {} /\ Recalled' = {}
  BY <1>1, <1>3 DEF MTurns, Recalled
<1>7. QNext
  <2>1. CASE NoneOf(map, t)
    <3>1. Entries(m) = Entries(map)
      BY <1>4, <2>1 DEF NoneOf, Entries
    <3> QED BY <1>1, <1>5, <1>6, <2>1, <3>1, QueueInsert
  <2>2. CASE \E p \in DOMAIN map : map[p].tid = t
    <3>1. PICK p \in DOMAIN map : map[p].tid = t
      BY <2>2
    <3>2. Entries(m) = Entries(map) \ {map[p]}
      <4>1. \A x \in Entries(map) : x.tid = t <=> x = map[p]
        BY <1>1, <3>1, MapParts DEF Sound, Entries
      <4> QED BY <1>4, <4>1
    <3> QED BY <1>1, <1>5, <1>6, <3>1, <3>2, EntryMoves
  <2> QED BY <2>1, <2>2 DEF NoneOf
<1> QED BY <1>5, <1>6, <1>7 DEF MInv

\* on_error_ begins: each id stands once in the list that search_all gives it.
LEMMA ErrorStep ==
  ASSUME ~Twice, MInv, M!OnError
  PROVE  MInv' /\ Same
<1>1. PICK W \in SUBSET M!Hooked, V \in SUBSET vain :
        /\ W \cap V = {}
        /\ erasing' = {t \in W \cup V : nft[t] # 0}
        /\ todo' = {t \in W \cup V : nft[t] # 0}
        /\ again' = {t \in W \cup V : nft[t] # 0} \cap W \cap V
        /\ vain' = vain \ V
  BY DEF M!OnError
<1>2. waiting /\ erasing = {} /\ todo = {} /\ again = {} /\ UNCHANGED <<map, nft, now, fetched, waiting>>
  BY DEF M!OnError, M!Polling
<1>3. W \cup V \subseteq Item
  <2>1. M!Hooked \subseteq Item
    BY MapParts DEF MInv, M!Hooked
  <2> QED BY <1>1, <2>1 DEF MInv, MTurns
<1>4. MTurns'
  BY <1>1, <1>2, <1>3 DEF MInv, MTurns
<1>5. MBase' /\ Same
  BY <1>1, <1>2 DEF MInv, MBase, M!MapIsSound, Untied, Same, Entries, Recalled
<1> QED BY <1>4, <1>5 DEF MInv

\* erase(fd) takes a task out.
LEMMA EraseStep ==
  ASSUME MInv, NEW t \in Item, M!EraseOf(t)
  PROVE  MInv' /\ QNext
<1>1. MBase /\ MTurns
  BY DEF MInv
<1>2. /\ t \in erasing /\ erasing' = erasing \ {t} /\ map' \in M!Erase(map, M!KeyOf(t, nft[t]))
      /\ UNCHANGED <<nft, now, fetched, waiting, vain, todo, again>>
  BY DEF M!EraseOf
<1>3. Sound(map', nft) /\ NoneOf(map', t) /\ Entries(map') = {x \in Entries(map) : x.tid # t}
  BY <1>1, <1>2, ErasedOne
<1>4. MBase'
  BY <1>1, <1>2, <1>3 DEF MBase, M!MapIsSound, Sound, Untied
<1>5. MTurns'
  <2>1. \A u \in todo \ erasing' : u = t \/ NoneOf(map, u)
    BY <1>1, <1>2 DEF MTurns
  <2>2. \A u \in todo' \ erasing' : NoneOf(map', u)
    BY <1>2, <1>3, <2>1 DEF NoneOf, Entries
  <2> QED BY <1>1, <1>2, <1>3, <2>2 DEF MTurns, NoneOf, Entries
<1>6. t \in Item \ Recalled /\ Recalled' = Recalled \cup {t}
  BY <1>1, <1>2 DEF MTurns, Recalled
<1>7. QNext
  BY <1>3, <1>6 DEF QNext, M!Queue!Next, M!Queue!Recall, Entries, Recalled
<1> QED BY <1>4, <1>5, <1>7 DEF MInv

\* The loop of on_error_ puts it back.
LEMMA TellStep ==
  ASSUME ~Ties, MInv, NEW t \in Item, M!Tell(t)
  PROVE  MInv' /\ QNext
<1>1. MBase /\ MTurns /\ now \in M!Time
  BY MapParts DEF MInv
<1>2. /\ erasing = {} /\ again = {} /\ t \in todo /\ M!Stamp(t, now)
      /\ map' \in M!Assign(map, M!KeyOf(t, now), FALSE)
      /\ todo' = todo \ {t} /\ again' = {}
      /\ UNCHANGED <<now, fetched, waiting, vain, erasing>>
  BY <1>1 DEF M!Tell, MTurns
<1>3. NoneOf(map, t) /\ Sound(map, nft)
  BY <1>1, <1>2, MapParts DEF MTurns
<1>4. MBase' /\ Entries(map') = Entries(map) \cup {EntryOf(t, now, FALSE)}
  BY <1>1, <1>2, <1>3, Stamped
<1>5. MTurns'
  <2>1. \A u \in todo' : NoneOf(map, u) /\ u # t
    BY <1>1, <1>2 DEF MTurns
  <2>2. EntryOf(t, now, FALSE).tid = t
    BY DEF EntryOf
  <2>3. \A u \in todo' : NoneOf(map', u)
    BY <1>4, <2>1, <2>2 DEF NoneOf, Entries
  <2>4. waiting /\ fetched = None
    BY <1>1, <1>2 DEF MTurns
  <2> QED BY <1>1, <1>2, <2>3, <2>4 DEF MTurns
<1>6. t \in Recalled /\ Recalled' = Recalled \ {t}
  BY <1>2 DEF Recalled
<1>7. QNext
  <2> DEFINE e == EntryOf(t, now, FALSE)
  <2>1. e \in M!Entry /\ e.tid = t /\ ~e.hook
    BY <1>1 DEF M!Entry, EntryOf
  <2> HIDE DEF e
  <2>2. \A x \in Entries(map) : x.tid # e.tid
    BY <1>3, <2>1 DEF Entries, NoneOf
  <2>3. Entries(map') = Entries(map) \cup {e}
    BY <1>4 DEF e
  <2> QED BY <1>6, <2>1, <2>2, <2>3
        DEF QNext, M!Queue!Next, M!Queue!Return, M!Queue!Entry, M!Entry, Entries, Recalled
<1> QED BY <1>4, <1>5, <1>7 DEF MInv

LEMMA WaitStep ==
  ASSUME MInv, M!EnterWait \/ M!LeaveWait
  PROVE  MInv' /\ Same
<1>1. /\ fetched = None \/ (waiting /\ todo = {})
      /\ UNCHANGED <<map, nft, now, fetched, vain, erasing, todo, again>> /\ waiting' \in BOOLEAN
  BY DEF M!EnterWait, M!LeaveWait, M!Polling, M!errorVars
<1>2. fetched = None /\ todo = {}
  BY <1>1 DEF MInv, MTurns, M!EnterWait, M!LeaveWait, M!Polling
<1>3. MTurns'
  BY <1>1, <1>2 DEF MInv, MTurns
<1>4. MBase' /\ Same
  BY <1>1 DEF MInv, MBase, M!MapIsSound, Untied, Same, Entries, Recalled
<1> QED BY <1>3, <1>4 DEF MInv

LEMMA MapStep == ~Ties /\ ~Twice /\ MInv /\ [M!Next]_mvars => MInv' /\ (QNext \/ Same)
<1> SUFFICES ASSUME ~Ties, ~Twice, MInv, [M!Next]_mvars PROVE MInv' /\ (QNext \/ Same)
  OBVIOUS
<1>1. ASSUME NEW t \in Item, \/ M!Insert(t) \/ M!Repeat(t) \/ M!Hold(t) \/ M!End(t) \/ M!Rouse(t)
                             \/ M!Renew(t) \/ M!EraseOf(t) \/ M!Tell(t)
      PROVE  MInv' /\ (QNext \/ Same)
  BY <1>1, InsertStep, LeaveStep, RouseStep, RenewStep, EraseStep, TellStep
<1>2. CASE M!Fetch
  BY <1>2, FetchStep
<1>3. CASE M!EnterWait \/ M!LeaveWait
  BY <1>3, WaitStep
<1>4. CASE M!OnError
  BY <1>4, ErrorStep
<1>5. CASE M!Tick
  <2>1. UNCHANGED <<map, nft, fetched, waiting, vain, erasing, todo, again>> /\ now' \in M!Time
    BY <1>5, MapParts, TimesAssumption DEF MInv, M!Tick, M!errorVars, M!Time
  <2> QED BY <2>1 DEF MInv, MBase, MTurns, NoneOf, M!MapIsSound, Untied, Same, Entries, Recalled
<1>6. CASE UNCHANGED mvars
  BY <1>6 DEF mvars, MInv, MBase, MTurns, NoneOf, M!MapIsSound, Untied, Same, Entries, Recalled
<1> QED BY <1>1, <1>2, <1>3, <1>4, <1>5, <1>6 DEF M!Next

LEMMA MapInit == M!Init => MInv /\ M!Queue!Init
<1> SUFFICES ASSUME M!Init PROVE MInv /\ M!Queue!Init
  OBVIOUS
<1>1. MBase
  BY TimesAssumption DEF M!Init, MBase, M!MapIsSound, Untied, M!Time
<1>2. MTurns
  BY DEF M!Init, MTurns
<1>3. M!Queue!Init
  BY DEF M!Init, M!Queue!Init
<1> QED BY <1>1, <1>2, <1>3 DEF MInv

----------------------------------------------------------------------------
(* Filters.                                                                *)

LEMMA Prefixes ==
  ASSUME NEW s \in Seq(Symbol), NEW n \in 0..Len(s)
  PROVE  /\ T!Upto(s, n) \in Seq(Symbol) /\ Len(T!Upto(s, n)) = n
         /\ \A i \in 1..n : T!Upto(s, n)[i] = s[i]
         /\ \A k \in 0..n : T!Upto(T!Upto(s, n), k) = T!Upto(s, k)
         /\ T!Upto(s, Len(s)) = s
<1>1. Len(s) \in Nat /\ n \in Nat /\ n <= Len(s)
  OBVIOUS
<1>2. T!Upto(s, n) \in Seq(Symbol) /\ Len(T!Upto(s, n)) = n /\ \A i \in 1..n : T!Upto(s, n)[i] = s[i]
  BY <1>1 DEF T!Upto
<1>3. \A k \in 0..n : T!Upto(T!Upto(s, n), k) = T!Upto(s, k)
  <2> DEFINE u == T!Upto(s, n)
  <2> HIDE DEF u
  <2> SUFFICES ASSUME NEW k \in 0..n PROVE T!Upto(u, k) = T!Upto(s, k)
    BY DEF u
  <2>1. u \in Seq(Symbol) /\ Len(u) = n /\ \A i \in 1..n : u[i] = s[i]
    BY <1>2 DEF u
  <2>2. T!Upto(u, k) \in Seq(Symbol) /\ Len(T!Upto(u, k)) = k /\ \A i \in 1..k : T!Upto(u, k)[i] = u[i]
    BY <1>1, <2>1 DEF T!Upto
  <2>3. T!Upto(s, k) \in Seq(Symbol) /\ Len(T!Upto(s, k)) = k /\ \A i \in 1..k : T!Upto(s, k)[i] = s[i]
    BY <1>1 DEF T!Upto
  <2> DEFINE x == T!Upto(u, k)
             y0 == T!Upto(s, k)
  <2> HIDE DEF x, y0
  <2>4. x \in Seq(Symbol) /\ y0 \in Seq(Symbol) /\ Len(x) = Len(y0) /\ \A i \in 1..Len(x) : x[i] = y0[i]
    BY <1>1, <2>1, <2>2, <2>3 DEF x, y0
  <2>5. x = y0
    BY ONLY <2>4, SeqEqual
  <2> QED BY <2>5 DEF x, y0
<1>4. T!Upto(s, Len(s)) = s
  <2> DEFINE x == T!Upto(s, Len(s))
  <2>1. x \in Seq(Symbol) /\ Len(x) = Len(s) /\ \A i \in 1..Len(x) : x[i] = s[i]
    BY <1>1 DEF T!Upto
  <2> HIDE DEF x
  <2>2. x = s
    BY ONLY <2>1, s \in Seq(Symbol), SeqEqual
  <2> QED BY <2>2 DEF x
<1> QED BY <1>2, <1>3, <1>4

LEMMA FilterIs == \A s : s \in T!Filter <=> s \in Seq(Symbol) /\ Len(s) <= MaxFilter
<1>1. ASSUME NEW s \in T!Filter PROVE s \in Seq(Symbol) /\ Len(s) <= MaxFilter
  <2>1. PICK n \in 0..MaxFilter : s \in [1..n -> Symbol]
    BY DEF T!Filter
  <2>2. n \in Nat /\ n <= MaxFilter
    BY <2>1, FilterAssumption
  <2> QED BY <2>1, <2>2
<1>2. ASSUME NEW s \in Seq(Symbol), Len(s) <= MaxFilter PROVE s \in T!Filter
  <2>1. Len(s) \in 0..MaxFilter /\ s \in [1..Len(s) -> Symbol]
    BY <1>2, FilterAssumption
  <2> QED BY <2>1 DEF T!Filter
<1> QED BY <1>1, <1>2

\* Every prefix of a node is a node.
TInv ==
  /\ nodes \subseteq T!Filter /\ flags \subseteq nodes /\ <<>> \in nodes
  /\ \A s \in nodes : \A n \in 0..Len(s) : T!Upto(s, n) \in nodes

\* What the property says of one step.
Local ==
  /\ \A s, t \in flags \ flags' : s = t
  /\ \A s \in flags \ flags' : \A n \in 1..(Len(s) - 1) : T!Upto(s, n) \notin flags
  /\ \A s \in flags' : \A n \in 0..Len(s) : T!Upto(s, n) \in nodes'

LEMMA TInit == T!Init => TInv
<1> SUFFICES ASSUME T!Init PROVE TInv
  OBVIOUS
<1> DEFINE e == <<>>
<1>1. e \in Seq(Symbol) /\ Len(e) = 0
  OBVIOUS
<1> HIDE DEF e
<1>2. e \in T!Filter
  <2>1. Len(e) <= MaxFilter
    BY <1>1, FilterAssumption
  <2> QED BY <1>1, <2>1, FilterIs
<1>3. \A n \in 0..Len(e) : T!Upto(e, n) = e
  <2>1. \A n \in 0..Len(e) : n = Len(e) /\ n = 0
    BY <1>1
  <2>2. 0 \in 0..Len(e)
    BY <1>1
  <2>3. T!Upto(e, Len(e)) = e
    BY <1>1, <2>2, Prefixes
  <2> QED BY <2>1, <2>3
<1> QED BY <1>2, <1>3 DEF T!Init, TInv, e

LEMMA CreateStep ==
  ASSUME TInv, NEW s \in T!Filter, T!create_filter_tree(s)
  PROVE  TInv' /\ Local
<1>1. s \in Seq(Symbol) /\ Len(s) \in Nat /\ Len(s) <= MaxFilter
  BY FilterIs
<1>2. ASSUME NEW n \in 1..Len(s)
      PROVE  /\ T!Upto(s, n) \in T!Filter /\ Len(T!Upto(s, n)) = n
             /\ \A k \in 0..n : T!Upto(T!Upto(s, n), k) = T!Upto(s, k)
  <2>1. n \in 0..Len(s) /\ n <= MaxFilter
    BY <1>1, FilterAssumption
  <2> QED BY <1>1, <2>1, Prefixes, FilterIs
<1>3. \A k \in 0..Len(s) : T!Upto(s, k) \in nodes'
  <2>1. T!Upto(s, 0) = <<>>
    BY <1>1 DEF T!Upto
  <2>2. \A k \in 0..Len(s) : k = 0 \/ k \in 1..Len(s)
    BY <1>1
  <2> QED BY <2>1, <2>2 DEF TInv, T!create_filter_tree
<1>4. s \in nodes'
  BY <1>1, <1>3, Prefixes
<1>5. nodes' \subseteq T!Filter /\ flags' \subseteq nodes' /\ <<>> \in nodes'
  BY <1>2, <1>4 DEF TInv, T!create_filter_tree
<1>6. ASSUME NEW t \in nodes', NEW n \in 0..Len(t) PROVE T!Upto(t, n) \in nodes'
  <2>1. CASE t \in nodes
    BY <1>6, <2>1 DEF TInv, T!create_filter_tree
  <2>2. ASSUME NEW k \in 1..Len(s), t = T!Upto(s, k) PROVE T!Upto(t, n) \in nodes'
    <3>1. n \in 0..k /\ n \in 0..Len(s)
      BY <1>1, <1>2, <2>2
    <3> QED BY <1>2, <1>3, <2>2, <3>1
  <2> QED BY <2>1, <2>2 DEF T!create_filter_tree
<1>7. TInv'
  BY <1>5, <1>6 DEF TInv
<1>8. flags \ flags' = {}
  BY DEF T!create_filter_tree
<1> QED BY <1>7, <1>8 DEF Local, TInv

\* What is matched: the shortest prefix with a flag.
LEMMA Matched ==
  ASSUME NEW s \in T!Filter, T!is_match(s) # <<>>
  PROVE  LET m == T!is_match(s) IN
         /\ m \in Seq(Symbol) /\ Len(m) >= 1 /\ m \in flags
         /\ \A k \in 1..(Len(m) - 1) : T!Upto(m, k) \notin flags
<1> DEFINE ends == {n \in 1..Len(s) : T!Upto(s, n) \in flags}
           c == CHOOSE n \in ends : \A l \in ends : n <= l
           m == T!is_match(s)
<1>1. ends # {} /\ m = T!Upto(s, c)
  BY DEF T!is_match
<1>2. s \in Seq(Symbol) /\ Len(s) \in Nat
  BY FilterIs
<1>3. ends \subseteq Nat
  BY <1>2
<1>4. c \in ends /\ \A l \in ends : c <= l
  <2> HIDE DEF ends
  <2> QED BY <1>1, <1>3, Least
<1> HIDE DEF c, m
<1>5. c \in 0..Len(s) /\ c >= 1 /\ c \in Nat /\ T!Upto(s, c) \in flags
  BY <1>2, <1>4
<1>6. m \in Seq(Symbol) /\ Len(m) = c /\ \A k \in 0..c : T!Upto(m, k) = T!Upto(s, k)
  BY <1>1, <1>2, <1>5, Prefixes
<1>7. ASSUME NEW k \in 1..(c - 1), T!Upto(m, k) \in flags PROVE FALSE
  <2>1. k \in 0..c /\ k \in 1..Len(s) /\ ~(c <= k)
    BY <1>2, <1>5
  <2>2. k \in ends
    BY <1>6, <1>7, <2>1
  <2> QED BY <1>4, <2>1, <2>2
<1> QED BY <1>1, <1>5, <1>6, <1>7 DEF m

\* A node below one that goes away goes away.
LEMMA GoneBelow ==
  ASSUME TInv, NEW m \in Seq(Symbol), Len(m) >= 1, T!Below(m) = {}, NEW k \in 1..Len(m),
         \A n \in 1..(Len(m) - 1) : n >= k - 1 => T!Below(T!Upto(m, n)) = {T!Upto(m, n + 1)},
         NEW t \in nodes, k <= Len(t), T!Upto(t, k) = T!Upto(m, k)
  PROVE  Len(t) \in k..Len(m) /\ t = T!Upto(m, Len(t))
<1>1. t \in Seq(Symbol) /\ Len(t) \in Nat /\ Len(m) \in Nat /\ k \in Nat /\ k >= 1
  BY FilterIs DEF TInv
<1> DEFINE Bad == {j \in k..Len(m) : j <= Len(t) /\ T!Upto(t, j) # T!Upto(m, j)}
\* One node further.
<1>2. ASSUME NEW j \in Nat, k <= j, j < Len(t), j <= Len(m), T!Upto(t, j) = T!Upto(m, j)
      PROVE  T!Upto(t, j + 1) \in T!Below(T!Upto(m, j))
  <2> DEFINE u == T!Upto(t, j + 1)
             v == T!Upto(m, j)
  <2>1. j + 1 \in 0..Len(t) /\ j \in 0..(j + 1) /\ j \in 0..Len(t) /\ j \in 0..Len(m) /\ j \in 0..j
    BY <1>1, <1>2
  <2>2. u \in nodes
    BY <2>1 DEF TInv
  <2>3. Len(u) = j + 1 /\ Len(v) = j /\ T!Upto(u, j) = T!Upto(t, j) /\ T!Upto(v, j) = v
    BY <1>1, <2>1, Prefixes
  <2>4. SubSeq(v, 1, Len(v)) = SubSeq(u, 1, Len(v)) /\ Len(v) <= Len(u)
    BY <1>2, <2>3 DEF T!Upto
  <2> QED BY <2>2, <2>3, <2>4 DEF T!Below, T!IsPrefix
<1>3. Bad = {}
  <2> SUFFICES ASSUME Bad # {} PROVE FALSE
    OBVIOUS
  <2>1. Bad \subseteq Nat
    BY <1>1
  <2>2. PICK b0 \in Bad : \A j \in Bad : b0 <= j
    <3> HIDE DEF Bad
    <3> QED BY <2>1, Least
  <2>3. b0 # k /\ b0 \in Nat /\ b0 - 1 \in Nat /\ k <= b0 - 1 /\ b0 - 1 < Len(t) /\ b0 - 1 <= Len(m)
        /\ b0 - 1 \in 1..(Len(m) - 1) /\ b0 - 1 >= k - 1 /\ (b0 - 1) + 1 = b0 /\ b0 - 1 \in k..Len(m)
        /\ b0 - 1 <= Len(t) /\ ~(b0 <= b0 - 1)
    BY <1>1, <2>2
  <2>4. T!Upto(t, b0 - 1) = T!Upto(m, b0 - 1)
    BY <2>2, <2>3
  <2>5. T!Upto(t, b0) \in T!Below(T!Upto(m, b0 - 1))
    BY <1>2, <2>3, <2>4
  <2>6. T!Below(T!Upto(m, b0 - 1)) = {T!Upto(m, b0)}
    BY <2>3
  <2> QED BY <2>2, <2>5, <2>6
<1>4. Len(t) <= Len(m)
  <2> SUFFICES ASSUME Len(m) < Len(t) PROVE FALSE
    BY <1>1
  <2>1. Len(m) \in k..Len(m) /\ Len(m) <= Len(t) /\ k <= Len(m)
    BY <1>1
  <2>2. T!Upto(t, Len(m)) = T!Upto(m, Len(m)) /\ T!Upto(m, Len(m)) = m
    <3>1. Len(m) \in 0..Len(m)
      BY <1>1
    <3> QED BY <1>3, <2>1, <3>1, Prefixes
  <2> QED BY <1>1, <1>2, <2>1, <2>2
<1>5. Len(t) \in k..Len(m) /\ Len(t) \in 0..Len(t)
  BY <1>1, <1>4
<1>6. T!Upto(t, Len(t)) = T!Upto(m, Len(t)) /\ T!Upto(t, Len(t)) = t
  <2>1. Len(t) <= Len(t) /\ Len(t) \notin Bad
    BY <1>1, <1>3
  <2>2. T!Upto(t, Len(t)) = T!Upto(m, Len(t))
    BY <1>5, <2>1
  <2> QED BY <1>1, <1>5, <2>2, Prefixes
<1> QED BY <1>5, <1>6

LEMMA RemoveStep ==
  ASSUME TInv, NEW s \in T!Filter, T!remove_filter_tree(s)
  PROVE  TInv' /\ Local
<1> DEFINE m == T!is_match(s)
           K0 == {k \in 1..Len(m) : Len(m) > 1 /\ \A n \in 1..(Len(m) - 1) : n >= k - 1 =>
                    T!Below(T!Upto(m, n)) = {T!Upto(m, n + 1)}}
           gone == {T!Upto(m, k) : k \in K0}
<1>1. /\ m # <<>>
      /\ IF T!Below(m) # {} THEN flags' = flags \ {m} /\ UNCHANGED nodes
         ELSE nodes' = nodes \ gone /\ flags' = flags \ gone
  BY DEF T!remove_filter_tree
<1>2. /\ m \in Seq(Symbol) /\ Len(m) >= 1 /\ m \in flags
      /\ \A k \in 1..(Len(m) - 1) : T!Upto(m, k) \notin flags
  BY <1>1, Matched
<1>3. Len(m) \in Nat
  BY <1>2
<1> HIDE DEF m
<1>4. ASSUME flags \ flags' \subseteq {m}, TInv' PROVE Local
  BY <1>2, <1>4 DEF Local, TInv
<1>5. CASE T!Below(m) # {}
  <2>1. TInv' /\ flags \ flags' \subseteq {m}
    BY <1>1, <1>5 DEF TInv
  <2> QED BY <1>4, <2>1
<1>6. CASE T!Below(m) = {}
  <2>1. nodes' = nodes \ gone /\ flags' = flags \ gone
    BY <1>1, <1>6
  <2>2. ASSUME NEW k \in K0
        PROVE  Len(T!Upto(m, k)) = k /\ k >= 1 /\ k \in Nat /\ (k # Len(m) => T!Upto(m, k) \notin flags)
               /\ T!Upto(m, Len(m)) = m
    <3>1. k \in 0..Len(m) /\ k >= 1 /\ k \in Nat /\ (k # Len(m) => k \in 1..(Len(m) - 1))
      BY <1>3
    <3> QED BY <1>2, <3>1, Prefixes
  <2>3. flags \ flags' \subseteq {m}
    BY <2>1, <2>2
  <2>4. <<>> \notin gone
    BY <2>2
  <2>5. ASSUME NEW t \in nodes \ gone, NEW n \in 0..Len(t), T!Upto(t, n) \in gone PROVE FALSE
    <3>1. PICK k \in K0 : T!Upto(t, n) = T!Upto(m, k)
      BY <2>5
    <3>2. t \in Seq(Symbol) /\ Len(t) \in Nat
      BY FilterIs DEF TInv
    <3>3. n = k /\ k <= Len(t)
      BY <2>2, <3>1, <3>2, Prefixes
    <3>4. Len(t) \in k..Len(m) /\ t = T!Upto(m, Len(t))
      BY <1>2, <1>6, <3>1, <3>3, GoneBelow
    <3>5. Len(t) \in K0
      BY <1>3, <2>2, <3>4
    <3> QED BY <2>5, <3>4, <3>5
  <2> HIDE DEF gone
  <2>6. TInv'
    BY <2>1, <2>4, <2>5 DEF TInv
  <2> QED BY <1>4, <2>3, <2>6
<1> QED BY <1>5, <1>6

LEMMA TreeStep == TInv /\ [T!Next]_tvars => TInv' /\ (Local \/ UNCHANGED tvars)
<1> SUFFICES ASSUME TInv, [T!Next]_tvars PROVE TInv' /\ (Local \/ UNCHANGED tvars)
  OBVIOUS
<1>1. ASSUME NEW s \in T!Filter, T!create_filter_tree(s) \/ T!remove_filter_tree(s)
      PROVE  TInv' /\ Local
  BY <1>1, CreateStep, RemoveStep
<1>2. CASE UNCHANGED tvars
  BY <1>2 DEF tvars, TInv
<1> QED BY <1>1, <1>2 DEF T!Next

----------------------------------------------------------------------------
(* Triggers.                                                               *)

TriggerT == [id : 1..MaxTriggers, op : E!Ops]
Frame == [key : EventKey, old : Val \cup {Dummy}, new : Val, n : Nat, next : Nat, running : BOOLEAN]

\* A call has yet to come to a trigger that its change fires.
Ahead(f, p, j) ==
  /\ f.next <= j /\ (f.running => f.next < j)
  /\ triggers[f.key][j].id = p[1] /\ E!Fires(triggers[f.key][j].op, f.old, f.new)
Owes(f, p) == f.n = p[2] /\ \E j \in DOMAIN triggers[f.key] : Ahead(f, p, j)

\* Who is owed a change has heard of it or will, from a call that is under way.
EInv ==
  /\ triggers \in [EventKey -> Seq(TriggerT)] /\ frames \in Seq(Frame) /\ sets \in Nat
  /\ data \in [EventKey -> Val \cup {Dummy}]
  /\ \A p \in owed : p = <<p[1], p[2]>>
  /\ \A p \in owed : p \in heard \/ \E i \in DOMAIN frames : Owes(frames[i], p)

\* The innermost call.
LEMMA Innermost ==
  ASSUME EInv, frames # <<>>
  PROVE  /\ Len(frames) \in DOMAIN frames /\ Len(frames) \in Nat /\ frames[Len(frames)] \in Frame
         /\ E!Last(frames) = frames[Len(frames)]
         /\ E!Front(frames) \in Seq(Frame) /\ DOMAIN E!Front(frames) = 1..(Len(frames) - 1)
         /\ \A i \in DOMAIN frames : i # Len(frames) =>
              i \in DOMAIN E!Front(frames) /\ E!Front(frames)[i] = frames[i]
<1>1. frames \in Seq(Frame) /\ Len(frames) \in Nat /\ Len(frames) # 0 /\ DOMAIN frames = 1..Len(frames)
  BY EmptySeq DEF EInv
<1>2. Len(frames) \in DOMAIN frames /\ frames[Len(frames)] \in Frame
  BY <1>1
<1>3. /\ E!Front(frames) \in Seq(Frame) /\ DOMAIN E!Front(frames) = 1..(Len(frames) - 1)
      /\ \A i \in 1..(Len(frames) - 1) : E!Front(frames)[i] = frames[i]
  BY <1>1 DEF E!Front
<1> QED BY <1>1, <1>2, <1>3 DEF E!Last

\* The innermost call becomes f, and what it owed is still owed or heard.
LEMMA Inner ==
  ASSUME EInv, frames # <<>>, NEW f \in Frame, frames' = [frames EXCEPT ![Len(frames)] = f],
         UNCHANGED <<data, triggers, sets, owed>>, heard \subseteq heard',
         \A p \in owed : Owes(frames[Len(frames)], p) => p \in heard' \/ Owes(f, p)
  PROVE  EInv'
<1> DEFINE z == Len(frames)
<1>1. z \in DOMAIN frames /\ frames \in Seq(Frame)
  BY Innermost DEF EInv
<1> HIDE DEF z
<1>2. frames' \in Seq(Frame) /\ DOMAIN frames' = DOMAIN frames
      /\ \A i \in DOMAIN frames : frames'[i] = IF i = z THEN f ELSE frames[i]
  BY <1>1 DEF z
<1>3. \A g, p : Owes(g, p)' <=> Owes(g, p)
  BY DEF Owes, Ahead
<1>4. ASSUME NEW p \in owed, p \notin heard' PROVE \E i \in DOMAIN frames : Owes(frames'[i], p)
  <2>1. PICK i \in DOMAIN frames : Owes(frames[i], p)
    BY <1>4 DEF EInv
  <2> QED BY <1>1, <1>2, <1>4, <2>1 DEF z
<1> QED BY <1>2, <1>3, <1>4 DEF EInv

LEMMA SetStep ==
  ASSUME EInv, NEW k \in EventKey, NEW v \in Val, E!set_value(k, v)
  PROVE  EInv'
<1>1. sets' = sets + 1 /\ data' = [data EXCEPT ![k] = v] /\ UNCHANGED <<triggers, heard>>
  BY DEF E!set_value
<1>2. sets' \in Nat /\ data' \in [EventKey -> Val \cup {Dummy}] /\ data[k] \in Val \cup {Dummy}
  BY <1>1 DEF EInv
<1>3. \A g, p : Owes(g, p)' <=> Owes(g, p)
  BY <1>1 DEF Owes, Ahead
<1>4. CASE data[k] = v
  <2>1. UNCHANGED <<frames, owed>>
    BY <1>4 DEF E!set_value, E!set
  <2> QED BY <1>1, <1>2, <1>3, <2>1 DEF EInv
<1>5. CASE data[k] # v
  <2> DEFINE f == [key |-> k, old |-> data[k], new |-> v, n |-> sets', next |-> 1, running |-> FALSE]
             fired == {u \in E!Range(triggers[k]) : E!Fires(u.op, data[k], v)}
  <2>1. frames' = Append(frames, f) /\ owed' = owed \cup {<<t.id, sets'>> : t \in fired}
    BY <1>5 DEF E!set_value, E!set
  <2>2. f \in Frame
    BY <1>2 DEF Frame
  <2>3. ASSUME NEW t \in fired PROVE Owes(f, <<t.id, sets'>>)
    <3>1. PICK j \in DOMAIN triggers[k] : triggers[k][j] = t
      BY DEF E!Range
    <3>2. triggers[k] \in Seq(TriggerT)
      BY DEF EInv
    <3>3. 1 <= j
      BY <3>1, <3>2
    <3> QED BY <3>1, <3>3 DEF Owes, Ahead
  <2> HIDE DEF f, fired
  <2>4. /\ frames' \in Seq(Frame) /\ DOMAIN frames \subseteq DOMAIN frames'
        /\ \A i \in DOMAIN frames : frames'[i] = frames[i]
        /\ Len(frames) + 1 \in DOMAIN frames' /\ frames'[Len(frames) + 1] = f
    BY <2>1, <2>2 DEF EInv
  <2>5. ASSUME NEW p \in owed', p \notin heard PROVE \E i \in DOMAIN frames' : Owes(frames'[i], p)
    <3>1. CASE p \in owed
      BY <2>4, <2>5, <3>1 DEF EInv
    <3>2. CASE p \notin owed
      BY <2>1, <2>3, <2>4, <3>2
    <3> QED BY <3>1, <3>2
  <2>6. \A p \in owed' : p = <<p[1], p[2]>>
    BY <2>1 DEF EInv
  <2> QED BY <1>1, <1>2, <1>3, <2>4, <2>5, <2>6 DEF EInv
<1> QED BY <1>4, <1>5

LEMMA CallStep ==
  ASSUME EInv, E!CallNext
  PROVE  EInv'
<1> DEFINE z == Len(frames)
           f == frames[z]
           t == triggers[f.key][f.next]
<1>1. frames # <<>> /\ ~f.running /\ f.next <= Len(triggers[f.key])
  BY Innermost DEF E!CallNext, E!Runs
<1>2. f \in Frame /\ E!Last(frames) = f
  BY <1>1, Innermost
<1>3. UNCHANGED <<data, triggers, sets, owed>>
  BY DEF E!CallNext
<1>4. CASE E!Fires(t.op, f.old, f.new)
  <2> DEFINE g == [f EXCEPT !.running = TRUE]
  <2>1. frames' = [frames EXCEPT ![z] = g] /\ heard' = heard \cup {<<t.id, f.n>>}
    BY <1>2, <1>4 DEF E!CallNext
  <2>2. g \in Frame /\ g.next = f.next /\ g.n = f.n /\ g.key = f.key /\ g.old = f.old /\ g.new = f.new
        /\ f.next \in Nat
    BY <1>2 DEF Frame
  <2>3. triggers[f.key] \in Seq(TriggerT)
    BY <1>2 DEF EInv, Frame
  <2> HIDE DEF g, f
  <2>4. ASSUME NEW p \in owed, Owes(f, p) PROVE p \in heard' \/ Owes(g, p)
    <3>1. PICK j \in DOMAIN triggers[f.key] : Ahead(f, p, j)
      BY <2>4 DEF Owes
    <3>2. j \in Nat /\ f.next <= j
      BY <2>3, <3>1 DEF Ahead
    <3>3. CASE j = f.next
      <4>1. p = <<p[1], p[2]>> /\ f.n = p[2] /\ t.id = p[1]
        BY <2>4, <3>1, <3>3 DEF EInv, Owes, Ahead
      <4> QED BY <2>1, <4>1
    <3>4. CASE j # f.next
      <4>1. g.next <= j /\ g.next < j
        BY <2>2, <3>2, <3>4
      <4> QED BY <2>2, <2>4, <3>1, <4>1 DEF Owes, Ahead
    <3> QED BY <3>3, <3>4
  <2> QED BY <1>1, <1>3, <2>1, <2>2, <2>4, Inner DEF f
<1>5. CASE ~E!Fires(t.op, f.old, f.new)
  <2> DEFINE g == [f EXCEPT !.next = @ + 1]
  <2>1. frames' = [frames EXCEPT ![z] = g] /\ heard' = heard
    BY <1>2, <1>5 DEF E!CallNext
  <2>2. g \in Frame /\ g.next = f.next + 1 /\ g.n = f.n /\ g.key = f.key /\ g.old = f.old /\ g.new = f.new
        /\ f.next \in Nat /\ g.running = f.running
    BY <1>2 DEF Frame
  <2>3. triggers[f.key] \in Seq(TriggerT)
    BY <1>2 DEF EInv, Frame
  <2> HIDE DEF g, f
  <2>4. ASSUME NEW p \in owed, Owes(f, p) PROVE Owes(g, p)
    <3>1. PICK j \in DOMAIN triggers[f.key] : Ahead(f, p, j)
      BY <2>4 DEF Owes
    <3>2. j \in Nat /\ f.next <= j /\ j # f.next
      BY <1>5, <2>3, <3>1 DEF Ahead
    <3>3. g.next <= j /\ ~g.running
      BY <1>1, <2>2, <3>2
    <3> QED BY <2>2, <2>4, <3>1, <3>3 DEF Owes, Ahead
  <2> QED BY <1>1, <1>3, <2>1, <2>2, <2>4, Inner DEF f
<1> QED BY <1>4, <1>5

LEMMA ReturnStep ==
  ASSUME EInv, E!HandlerReturns
  PROVE  EInv'
<1> DEFINE z == Len(frames)
           f == frames[z]
           g == [f EXCEPT !.running = FALSE, !.next = @ + 1]
<1>1. frames # <<>> /\ UNCHANGED <<data, triggers, sets, owed>> /\ heard' = heard
  BY DEF E!HandlerReturns
<1>2. f \in Frame /\ E!Last(frames) = f
  BY <1>1, Innermost
<1>3. f.running
  BY <1>1, <1>2 DEF E!HandlerReturns, E!Runs
<1>4. frames' = [frames EXCEPT ![z] = g]
  <2>1. frames' = [frames EXCEPT ![z].running = FALSE, ![z].next = @ + 1]
    BY DEF E!HandlerReturns
  <2>2. z \in DOMAIN frames /\ frames \in Seq(Frame)
    BY <1>1, Innermost DEF EInv
  <2> QED BY <1>2, <2>1, <2>2 DEF Frame
<1>5. g \in Frame /\ g.next = f.next + 1 /\ g.n = f.n /\ g.key = f.key /\ g.old = f.old /\ g.new = f.new
      /\ f.next \in Nat /\ ~g.running
  <2> DEFINE h == [f EXCEPT !.running = FALSE]
  <2>1. h \in Frame /\ h.next = f.next /\ h.n = f.n /\ h.key = f.key /\ h.old = f.old /\ h.new = f.new
        /\ ~h.running /\ f.next \in Nat
    BY <1>2 DEF Frame
  <2>2. g = [h EXCEPT !.next = @ + 1]
    OBVIOUS
  <2> HIDE DEF g, h, f
  <2> QED BY <2>1, <2>2 DEF Frame
<1>6. triggers[f.key] \in Seq(TriggerT)
  BY <1>2 DEF EInv, Frame
<1> HIDE DEF g, f
<1>7. ASSUME NEW p \in owed, Owes(f, p) PROVE Owes(g, p)
  <2>1. PICK j \in DOMAIN triggers[f.key] : Ahead(f, p, j)
    BY <1>7 DEF Owes
  <2>2. j \in Nat /\ f.next < j
    BY <1>3, <1>6, <2>1 DEF Ahead
  <2>3. g.next <= j
    BY <1>5, <2>2
  <2> QED BY <1>5, <1>7, <2>1, <2>3 DEF Owes, Ahead
<1> QED BY <1>1, <1>4, <1>5, <1>7, Inner DEF f

LEMMA EndStep ==
  ASSUME EInv, E!Returns
  PROVE  EInv'
<1> DEFINE f == frames[Len(frames)]
<1>1. frames # <<>> /\ f.next > Len(triggers[f.key]) /\ frames' = E!Front(frames)
      /\ UNCHANGED <<data, triggers, sets, heard, owed>>
  BY Innermost DEF E!Returns
<1>2. f \in Frame
  BY <1>1, Innermost
<1>3. triggers[f.key] \in Seq(TriggerT) /\ f.next \in Nat
  BY <1>2 DEF EInv, Frame
<1>4. ASSUME NEW p, Owes(f, p) PROVE FALSE
  <2>1. PICK j \in DOMAIN triggers[f.key] : f.next <= j
    BY <1>4 DEF Owes, Ahead
  <2> QED BY <1>1, <1>3, <2>1
<1> HIDE DEF f
<1>5. \A g, p : Owes(g, p)' <=> Owes(g, p)
  BY <1>1 DEF Owes, Ahead
<1>6. frames' \in Seq(Frame)
  BY <1>1, Innermost
<1>7. ASSUME NEW p \in owed, p \notin heard PROVE \E i \in DOMAIN frames' : Owes(frames'[i], p)
  <2>1. PICK i \in DOMAIN frames : Owes(frames[i], p)
    BY <1>7 DEF EInv
  <2>2. i # Len(frames)
    BY <1>4, <2>1 DEF f
  <2> QED BY <1>1, <2>1, <2>2, Innermost
<1> QED BY <1>1, <1>5, <1>6, <1>7 DEF EInv

LEMMA AddStep ==
  ASSUME EInv, NEW k \in EventKey, NEW op \in E!Ops, E!add_trigger(k, op)
  PROVE  EInv'
<1> DEFINE ids == {t.id : t \in UNION {E!Range(triggers[j]) : j \in EventKey}}
           id == CHOOSE n \in 1..MaxTriggers : n \notin ids /\ \A m \in 1..(n - 1) : m \in ids
           Free == {n \in 1..MaxTriggers : n \notin ids}
<1>1. id \in 1..MaxTriggers
  <2> HIDE DEF ids
  <2>1. Free \subseteq Nat /\ Free # {}
    <3>1. \E n \in 1..MaxTriggers : n \notin ids
      BY DEF E!add_trigger, ids
    <3> QED BY <3>1, EventAssumption
  <2>2. PICK n \in Free : \A m \in Free : n <= m
    <3> HIDE DEF Free
    <3> QED BY <2>1, Least
  <2>3. \A m \in 1..(n - 1) : m \in 1..MaxTriggers /\ ~(n <= m)
    BY <2>2, EventAssumption
  <2>4. n \in 1..MaxTriggers /\ n \notin ids /\ \A m \in 1..(n - 1) : m \in ids
    BY <2>2, <2>3
  <2> QED BY <2>4
<1>2. triggers' = [triggers EXCEPT ![k] = Append(@, [id |-> id, op |-> op])]
      /\ UNCHANGED <<data, frames, sets, heard, owed>>
  BY DEF E!add_trigger
<1> HIDE DEF id
<1>3. [id |-> id, op |-> op] \in TriggerT
  BY <1>1 DEF TriggerT
<1>4. /\ triggers' \in [EventKey -> Seq(TriggerT)]
      /\ \A q \in EventKey : \A j \in DOMAIN triggers[q] :
           j \in DOMAIN triggers'[q] /\ triggers'[q][j] = triggers[q][j]
  <2>1. triggers[k] \in Seq(TriggerT)
    BY DEF EInv
  <2>2. /\ triggers'[k] \in Seq(TriggerT)
        /\ \A j \in DOMAIN triggers[k] : j \in DOMAIN triggers'[k] /\ triggers'[k][j] = triggers[k][j]
    BY <1>2, <1>3, <2>1 DEF EInv
  <2> QED BY <1>2, <2>2 DEF EInv
<1>5. ASSUME NEW f \in Frame, NEW p, Owes(f, p) PROVE Owes(f, p)'
  <2>1. f.key \in EventKey
    BY DEF Frame
  <2> QED BY <1>4, <1>5, <2>1 DEF Owes, Ahead
<1>6. \A i \in DOMAIN frames : frames[i] \in Frame
  BY DEF EInv
<1> QED BY <1>2, <1>4, <1>5, <1>6 DEF EInv

LEMMA RemoveTriggerStep ==
  ASSUME EInv, NEW k \in EventKey, NEW type, E!remove_trigger(k, type)
  PROVE  EInv'
<1> DEFINE stay == {i \in DOMAIN triggers[k] : triggers[k][i].op.type # type}
<1>0. \E n \in 0..Len(triggers[k]) : \E at0 \in [1..n -> stay] :
        /\ E!Range(at0) = stay /\ \A i, j \in 1..n : i < j => at0[i] < at0[j]
        /\ triggers' = [triggers EXCEPT ![k] = [i \in 1..n |-> triggers[k][at0[i]]]]
  BY DEF E!remove_trigger
<1>1. PICK n \in 0..Len(triggers[k]) : \E at0 \in [1..n -> stay] :
        triggers' = [triggers EXCEPT ![k] = [i \in 1..n |-> triggers[k][at0[i]]]]
  <2> HIDE DEF stay
  <2> QED BY <1>0
<1>1a. PICK at0 \in [1..n -> stay] :
         triggers' = [triggers EXCEPT ![k] = [i \in 1..n |-> triggers[k][at0[i]]]]
  <2> HIDE DEF stay
  <2> QED BY <1>1
<1>2. (\A i \in DOMAIN frames : frames[i].key # k) /\ UNCHANGED <<data, frames, sets, heard, owed>>
  BY DEF E!remove_trigger
<1>3. triggers[k] \in Seq(TriggerT)
  BY DEF EInv
<1>4. n \in Nat
  BY <1>3
<1>5. [i \in 1..n |-> triggers[k][at0[i]]] \in Seq(TriggerT)
  <2> DEFINE w == [i \in 1..n |-> triggers[k][at0[i]]]
  <2>1. \A i \in stay : triggers[k][i] \in TriggerT
    BY <1>3
  <2> HIDE DEF stay
  <2>2. w \in [1..n -> TriggerT]
    BY <2>1
  <2> HIDE DEF w
  <2>3. w \in Seq(TriggerT)
    BY <1>4, <2>2
  <2> QED BY <2>3 DEF w
<1>6. triggers' \in [EventKey -> Seq(TriggerT)] /\ \A q \in EventKey : q # k => triggers'[q] = triggers[q]
  BY <1>1a, <1>5 DEF EInv
<1>7. ASSUME NEW i \in DOMAIN frames, NEW p, Owes(frames[i], p) PROVE Owes(frames[i], p)'
  <2>1. frames[i] \in Frame /\ frames[i].key # k
    BY <1>2 DEF EInv
  <2>2. frames[i].key \in EventKey
    BY <2>1 DEF Frame
  <2> QED BY <1>2, <1>6, <1>7, <2>1, <2>2 DEF Owes, Ahead
<1> QED BY <1>2, <1>6, <1>7 DEF EInv

LEMMA EventStep == EInv /\ [E!Next]_evars => EInv'
<1> SUFFICES ASSUME EInv, [E!Next]_evars PROVE EInv'
  OBVIOUS
<1>1. CASE E!CallNext \/ E!HandlerReturns \/ E!Returns
  BY <1>1, CallStep, ReturnStep, EndStep
<1>2. ASSUME NEW k \in EventKey, E!remove_value(k) PROVE EInv'
  BY <1>2 DEF E!remove_value, EInv, Owes, Ahead
<1>3. ASSUME NEW k \in EventKey, NEW v \in Val, E!set_value(k, v) PROVE EInv'
  BY <1>3, SetStep
<1>4. ASSUME NEW k \in EventKey, NEW op \in E!Ops, E!remove_trigger(k, op.type) \/ E!add_trigger(k, op)
      PROVE  EInv'
  BY <1>4, RemoveTriggerStep, AddStep
<1>5. CASE UNCHANGED evars
  BY <1>5 DEF evars, EInv, Owes, Ahead
<1> QED BY <1>1, <1>2, <1>3, <1>4, <1>5 DEF E!Next

\* A call is at a trigger of its key or behind the last one, and at one while its handler runs.
Going(f) ==
  /\ f.n \in 1..MaxSets /\ f.next \in 1..(Len(triggers[f.key]) + 1)
  /\ f.running => f.next <= Len(triggers[f.key])
Told == (1..MaxTriggers) \X (1..MaxSets)
ETypes ==
  /\ sets \in 0..MaxSets /\ heard \subseteq Told /\ owed \subseteq Told
  /\ \A i \in DOMAIN frames : Going(frames[i])

LEMMA TriggerTypes == EInv /\ ETypes => E!TypeOK
BY DEF EInv, ETypes, Going, Told, TriggerT, E!TypeOK

\* The innermost call becomes f, which may have told a trigger.
LEMMA InnerTypes ==
  ASSUME EInv, ETypes, frames # <<>>, NEW f, Going(f), frames' = [frames EXCEPT ![Len(frames)] = f],
         UNCHANGED <<triggers, sets, owed>>, heard' \subseteq Told
  PROVE  ETypes'
<1>1. \A g : Going(g)' <=> Going(g)
  BY DEF Going
<1>2. \A i \in DOMAIN frames' : i \in DOMAIN frames /\ (frames'[i] = f \/ frames'[i] = frames[i])
  BY DEF EInv
<1>3. \A i \in DOMAIN frames' : Going(frames'[i])
  BY <1>2 DEF ETypes
<1>4. Told' = Told
  BY DEF Told
<1> QED BY <1>1, <1>3, <1>4 DEF ETypes

\* The frame of a call, where its trigger is, and the length of the list it goes through.
LEMMA FrameIs ==
  ASSUME EInv, ETypes, frames # <<>>, NEW f, f = frames[Len(frames)]
  PROVE  /\ f \in Frame /\ Going(f) /\ E!Last(frames) = f
         /\ triggers[f.key] \in Seq(TriggerT) /\ f.next \in Nat /\ f.next >= 1
<1>1. f \in Frame /\ E!Last(frames) = f /\ Len(frames) \in DOMAIN frames
  BY Innermost
<1>2. Going(f)
  BY <1>1 DEF ETypes
<1>3. triggers[f.key] \in Seq(TriggerT) /\ f.next \in Nat
  BY <1>1 DEF EInv, Frame
<1>4. f.next >= 1
  BY <1>2, <1>3 DEF Going
<1> QED BY <1>1, <1>2, <1>3, <1>4

LEMMA EventTypesStep == EInv /\ ETypes /\ [E!Next]_evars => ETypes'
<1> SUFFICES ASSUME EInv, ETypes, [E!Next]_evars PROVE ETypes'
  OBVIOUS
<1> DEFINE f == frames[Len(frames)]
<1>1. CASE E!CallNext
  <2> DEFINE t == triggers[f.key][f.next]
  <2>1. /\ frames # <<>> /\ UNCHANGED <<triggers, sets, owed>>
        /\ E!Last(frames) = f
    BY <1>1, Innermost DEF E!CallNext, E!Runs
  <2>2. f.next <= Len(triggers[f.key])
    BY <1>1, <2>1 DEF E!CallNext
  <2>3. f \in Frame /\ Going(f) /\ triggers[f.key] \in Seq(TriggerT) /\ f.next \in Nat /\ f.next >= 1
    BY <2>1, FrameIs
  <2>4. CASE E!Fires(t.op, f.old, f.new)
    <3> DEFINE g == [f EXCEPT !.running = TRUE]
    <3>1. frames' = [frames EXCEPT ![Len(frames)] = g] /\ heard' = heard \cup {<<t.id, f.n>>}
      BY <1>1, <2>1, <2>4 DEF E!CallNext
    <3>2. g.key = f.key /\ g.n = f.n /\ g.next = f.next /\ g.running = TRUE
      BY <2>3 DEF Frame
    <3>3. f.next \in DOMAIN triggers[f.key]
      BY <2>2, <2>3
    <3>4. t \in TriggerT
      BY <2>3, <3>3
    <3>5. t.id \in 1..MaxTriggers
      BY <3>4 DEF TriggerT
    <3> HIDE DEF g, t, f
    <3>6. Going(g)
      BY <2>2, <2>3, <3>2 DEF Going
    <3>7. heard' \subseteq Told
      BY <2>3, <3>1, <3>5 DEF Going, Told, ETypes
    <3> QED BY <2>1, <3>1, <3>6, <3>7, InnerTypes
  <2>5. CASE ~E!Fires(t.op, f.old, f.new)
    <3> DEFINE g == [f EXCEPT !.next = @ + 1]
    <3>1. frames' = [frames EXCEPT ![Len(frames)] = g] /\ heard' = heard
      BY <1>1, <2>1, <2>5 DEF E!CallNext
    <3>2. g.key = f.key /\ g.n = f.n /\ g.next = f.next + 1 /\ g.running = f.running
      BY <2>3 DEF Frame
    <3>3. ~f.running
      BY <1>1, <2>1 DEF E!CallNext, E!Runs
    <3> HIDE DEF g, t, f
    <3>4. Len(triggers[f.key]) \in Nat
      BY <2>3
    <3>5. f.next + 1 \in 1..(Len(triggers[f.key]) + 1)
      BY <2>2, <2>3, <3>4
    <3>6. Going(g)
      BY <2>3, <3>2, <3>3, <3>5 DEF Going
    <3> QED BY <2>1, <3>1, <3>6, InnerTypes DEF ETypes
  <2> QED BY <2>4, <2>5
<1>2. CASE E!HandlerReturns
  <2> DEFINE g == [f EXCEPT !.running = FALSE, !.next = @ + 1]
  <2>1. frames # <<>> /\ UNCHANGED <<triggers, sets, owed>> /\ heard' = heard
    BY <1>2 DEF E!HandlerReturns
  <2>2. f \in Frame /\ Going(f) /\ triggers[f.key] \in Seq(TriggerT) /\ f.next \in Nat /\ f.next >= 1
        /\ E!Last(frames) = f
    BY <2>1, FrameIs
  <2>3. f.running
    BY <1>2, <2>1, <2>2 DEF E!HandlerReturns, E!Runs
  <2>4. frames' = [frames EXCEPT ![Len(frames)] = g]
    <3>1. frames' = [frames EXCEPT ![Len(frames)].running = FALSE, ![Len(frames)].next = @ + 1]
      BY <1>2 DEF E!HandlerReturns
    <3>2. Len(frames) \in DOMAIN frames /\ frames \in Seq(Frame)
      BY <2>1, Innermost DEF EInv
    <3> QED BY <2>2, <3>1, <3>2 DEF Frame
  <2>5. g.key = f.key /\ g.n = f.n /\ g.next = f.next + 1 /\ ~g.running
    BY <2>2 DEF Frame
  <2> HIDE DEF g, f
  <2>6. Len(triggers[f.key]) \in Nat /\ f.next <= Len(triggers[f.key])
    BY <2>2, <2>3 DEF Going
  <2>7. f.next + 1 \in 1..(Len(triggers[f.key]) + 1)
    BY <2>2, <2>6
  <2>8. Going(g)
    BY <2>2, <2>5, <2>7 DEF Going
  <2> QED BY <2>1, <2>4, <2>8, InnerTypes DEF ETypes
<1>3. CASE E!Returns
  <2>1. frames # <<>> /\ frames' = E!Front(frames) /\ UNCHANGED <<triggers, sets, heard, owed>>
    BY <1>3 DEF E!Returns
  <2>2. \A i \in DOMAIN frames' : i \in DOMAIN frames /\ frames'[i] = frames[i]
    <3>1. DOMAIN frames' = 1..(Len(frames) - 1) /\ Len(frames) \in Nat /\ DOMAIN frames = 1..Len(frames)
      BY <2>1, Innermost DEF EInv
    <3>2. \A i \in DOMAIN frames' : i \in DOMAIN frames /\ i # Len(frames)
      BY <3>1
    <3> QED BY <2>1, <3>2, Innermost
  <2>3. \A g : Going(g)' <=> Going(g)
    BY <2>1 DEF Going
  <2> QED BY <2>1, <2>2, <2>3 DEF ETypes, Told
<1>4. ASSUME NEW k \in EventKey, NEW v \in Val, E!set_value(k, v) PROVE ETypes'
  <2>1. sets' = sets + 1 /\ sets < MaxSets /\ UNCHANGED <<triggers, heard>>
    BY <1>4 DEF E!set_value
  <2>2. sets' \in 0..MaxSets /\ sets' \in 1..MaxSets
    BY <2>1, EventAssumption DEF ETypes
  <2>3. \A g : Going(g)' <=> Going(g)
    BY <2>1 DEF Going
  <2>4. CASE data[k] = v
    <3>1. UNCHANGED <<frames, owed>>
      BY <1>4, <2>4 DEF E!set_value, E!set
    <3> QED BY <2>1, <2>2, <2>3, <3>1 DEF ETypes, Told
  <2>5. CASE data[k] # v
    <3> DEFINE g == [key |-> k, old |-> data[k], new |-> v, n |-> sets', next |-> 1, running |-> FALSE]
               fired == {u \in E!Range(triggers[k]) : E!Fires(u.op, data[k], v)}
    <3>1. frames' = Append(frames, g) /\ owed' = owed \cup {<<t.id, sets'>> : t \in fired}
      BY <1>4, <2>5 DEF E!set_value, E!set
    <3>2. triggers[k] \in Seq(TriggerT) /\ frames \in Seq(Frame)
      BY DEF EInv
    <3>3. \A t \in fired : t.id \in 1..MaxTriggers
      <4>1. \A t \in fired : t \in TriggerT
        BY <3>2 DEF E!Range
      <4> QED BY <4>1 DEF TriggerT
    <3>4. Going(g)
      <4>1. g.key = k /\ g.n = sets' /\ g.next = 1 /\ ~g.running
        OBVIOUS
      <4> HIDE DEF g
      <4>2. 1 \in 1..(Len(triggers[k]) + 1)
        BY <3>2
      <4> QED BY <2>2, <4>1, <4>2 DEF Going
    <3> HIDE DEF g, fired
    <3>5. owed' \subseteq Told
      BY <2>2, <3>1, <3>3 DEF ETypes, Told
    <3>6. \A i \in DOMAIN frames' : Going(frames'[i])
      <4>1. \A i \in DOMAIN frames' : frames'[i] = g \/ (i \in DOMAIN frames /\ frames'[i] = frames[i])
        <5>1. \A q \in Seq(Frame) : \A i \in DOMAIN Append(q, g) :
                Append(q, g)[i] = g \/ (i \in DOMAIN q /\ Append(q, g)[i] = q[i])
          OBVIOUS
        <5> QED BY <3>1, <3>2, <5>1, Zenon
      <4> QED BY <3>4, <4>1 DEF ETypes
    <3> QED BY <2>1, <2>2, <2>3, <3>5, <3>6 DEF ETypes, Told
  <2> QED BY <2>4, <2>5
<1>5. ASSUME NEW k \in EventKey, E!remove_value(k) PROVE ETypes'
  BY <1>5 DEF E!remove_value, ETypes, Going, Told
<1>6. ASSUME NEW k \in EventKey, NEW op \in E!Ops, E!remove_trigger(k, op.type) PROVE ETypes'
  <2>1. /\ \A i \in DOMAIN frames : frames[i].key # k
        /\ UNCHANGED <<data, frames, sets, heard, owed>>
    BY <1>6 DEF E!remove_trigger
  <2>2. \A q \in EventKey : q # k => triggers'[q] = triggers[q]
    BY <1>6 DEF E!remove_trigger, EInv
  <2>3. \A i \in DOMAIN frames : frames[i].key \in EventKey
    <3>1. \A i \in DOMAIN frames : frames[i] \in Frame
      BY DEF EInv
    <3> QED BY <3>1 DEF Frame
  <2>4. \A i \in DOMAIN frames : triggers'[frames[i].key] = triggers[frames[i].key]
    BY <2>1, <2>2, <2>3
  <2>5. \A i \in DOMAIN frames : Going(frames[i])'
    BY <2>1, <2>4 DEF Going, ETypes
  <2> QED BY <2>1, <2>5 DEF ETypes, Told
<1>7. ASSUME NEW k \in EventKey, NEW op \in E!Ops, E!add_trigger(k, op) PROVE ETypes'
  <2>1. /\ UNCHANGED <<data, frames, sets, heard, owed>>
        /\ \E x : triggers' = [triggers EXCEPT ![k] = Append(@, x)]
    BY <1>7 DEF E!add_trigger
  <2>2. PICK x : triggers' = [triggers EXCEPT ![k] = Append(@, x)]
    BY <2>1
  <2>3. \A q \in EventKey : /\ Len(triggers[q]) \in Nat
                            /\ Len(triggers'[q]) \in {Len(triggers[q]), Len(triggers[q]) + 1}
    <3>1. \A q \in EventKey : triggers[q] \in Seq(TriggerT) /\ Len(triggers[q]) \in Nat
      BY DEF EInv
    <3>2. triggers'[k] = Append(triggers[k], x) /\ \A q \in EventKey \ {k} : triggers'[q] = triggers[q]
      BY <2>2 DEF EInv
    <3>3. Len(Append(triggers[k], x)) = Len(triggers[k]) + 1
      BY <3>1
    <3> QED BY <3>1, <3>2, <3>3
  <2>4. ASSUME NEW i \in DOMAIN frames PROVE Going(frames[i])'
    <3>1. frames[i] \in Frame /\ Going(frames[i])
      BY DEF EInv, ETypes
    <3>2. frames[i].key \in EventKey /\ frames[i].next \in Nat
      BY <3>1 DEF Frame
    <3>3. \A m \in Nat : \A l \in {m, m + 1} : \A n \in Nat :
            (n \in 1..(m + 1) => n \in 1..(l + 1)) /\ (n <= m => n <= l)
      OBVIOUS
    <3> QED BY <2>1, <2>3, <3>1, <3>2, <3>3 DEF Going
  <2> QED BY <2>1, <2>4 DEF ETypes, Told
<1>8. CASE UNCHANGED evars
  BY <1>8 DEF evars, ETypes, Going, Told
<1> QED BY <1>1, <1>2, <1>3, <1>4, <1>5, <1>6, <1>7, <1>8 DEF E!Next

----------------------------------------------------------------------------
(* The cache.                                                              *)

PoolItem == Key \X {"empty", "fetched", "put"}

\* No key twice.
Once(p) == p \in Seq(PoolItem) /\ \A i, j \in DOMAIN p : p[i][1] = p[j][1] => i = j

\* The index is of the pool, unless a cache that was in use was assigned to.
LInv ==
  /\ Once(pool) /\ cache_size \in Nat /\ fetching \in [Fetcher -> Key \cup {None}]
  /\ ~stale => index = L!Keys(pool)

LEMMA Prepended ==
  ASSUME NEW q, Once(q), NEW k \in Key, k \notin L!Keys(q), NEW v \in {"empty", "fetched", "put"}
  PROVE  Once(<<<<k, v>>>> \o q) /\ L!Keys(<<<<k, v>>>> \o q) = L!Keys(q) \cup {k}
<1> DEFINE x == <<k, v>>
           w == <<x>> \o q
<1>1. q \in Seq(PoolItem) /\ Len(q) \in Nat /\ DOMAIN q = 1..Len(q) /\ x \in PoolItem /\ x[1] = k
  BY DEF Once, PoolItem
<1> HIDE DEF x
<1>2. /\ w \in Seq(PoolItem) /\ DOMAIN w = 1..(Len(q) + 1)
      /\ \A i \in 1..(Len(q) + 1) : w[i] = IF i = 1 THEN x ELSE q[i - 1]
  <2>1. <<x>> \in Seq(PoolItem) /\ Len(<<x>>) = 1 /\ <<x>>[1] = x
    BY <1>1
  <2>2. /\ w \in Seq(PoolItem) /\ Len(w) = Len(<<x>>) + Len(q)
        /\ \A i \in 1..Len(w) : w[i] = IF i <= Len(<<x>>) THEN <<x>>[i] ELSE q[i - Len(<<x>>)]
    BY <1>1, <2>1, Joined
  <2> HIDE DEF w
  <2> QED BY <1>1, <2>1, <2>2
<1> HIDE DEF w
<1>3. \A j \in DOMAIN q : q[j][1] # k
  BY DEF L!Keys
<1>4. ASSUME NEW i \in DOMAIN w, NEW j \in DOMAIN w, w[i][1] = w[j][1] PROVE i = j
  <2>1. \A l \in DOMAIN w : l # 1 => l - 1 \in DOMAIN q /\ w[l] = q[l - 1]
    BY <1>1, <1>2
  <2>2. w[1] = x /\ i \in Nat /\ j \in Nat
    BY <1>1, <1>2
  <2>3. CASE i = 1 \/ j = 1
    BY <1>1, <1>3, <1>4, <2>1, <2>2, <2>3
  <2>4. CASE i # 1 /\ j # 1
    <3>1. i - 1 = j - 1
      BY <1>4, <2>1, <2>4 DEF Once
    <3> QED BY <2>2, <3>1
  <2> QED BY <2>3, <2>4
<1>5. L!Keys(w) = L!Keys(q) \cup {k}
  <2>1. \A l \in DOMAIN q : l + 1 \in DOMAIN w /\ w[l + 1] = q[l]
    BY <1>1, <1>2
  <2>2. 1 \in DOMAIN w /\ w[1][1] = k
    BY <1>1, <1>2
  <2>3. \A l \in DOMAIN w : l = 1 \/ (l - 1 \in DOMAIN q /\ w[l] = q[l - 1])
    BY <1>1, <1>2
  <2> QED BY <2>1, <2>2, <2>3 DEF L!Keys
<1>6. Once(w)
  BY <1>2, <1>4 DEF Once
<1> QED BY <1>5, <1>6 DEF w, x

LEMMA Taken ==
  ASSUME NEW p, Once(p), NEW i \in DOMAIN p
  PROVE  Once(L!RemoveAt(p, i)) /\ L!Keys(L!RemoveAt(p, i)) = L!Keys(p) \ {p[i][1]}
<1> DEFINE c == L!RemoveAt(p, i)
           at0(j) == IF j < i THEN j ELSE j + 1
<1>1. p \in Seq(PoolItem) /\ Len(p) \in Nat /\ DOMAIN p = 1..Len(p)
  BY DEF Once
<1>2. c = CutAt(p, i, i + 1) /\ i \in 1..(Len(p) + 1) /\ i + 1 \in 1..(Len(p) + 1) /\ i <= i + 1
  BY <1>1 DEF L!RemoveAt, CutAt
<1> HIDE DEF c
<1>3. /\ c \in Seq(PoolItem) /\ Len(c) = Len(p) - ((i + 1) - i)
      /\ \A j \in 1..Len(c) : c[j] = IF j < i THEN p[j] ELSE p[j + ((i + 1) - i)]
  <2> DEFINE u == i + 1
  <2>1. u \in 1..(Len(p) + 1) /\ i \in 1..(Len(p) + 1) /\ i <= u /\ c = CutAt(p, i, u)
    BY <1>2
  <2> SUFFICES /\ c \in Seq(PoolItem) /\ Len(c) = Len(p) - (u - i)
               /\ \A j \in 1..Len(c) : c[j] = IF j < i THEN p[j] ELSE p[j + (u - i)]
    OBVIOUS
  <2> HIDE DEF u
  <2> QED BY ONLY <1>1, <2>1, Cut
<1>4. DOMAIN c = 1..(Len(p) - 1) /\ \A j \in DOMAIN c : c[j] = p[at0(j)] /\ at0(j) \in DOMAIN p /\ at0(j) # i
  BY <1>1, <1>3
<1>5. \A j, l \in DOMAIN c : at0(j) = at0(l) => j = l
  BY <1>1, <1>4
<1>6. \A l \in DOMAIN p : l # i => \E j \in DOMAIN c : at0(j) = l
  <2> SUFFICES ASSUME NEW l \in DOMAIN p, l # i PROVE \E j \in DOMAIN c : at0(j) = l
    OBVIOUS
  <2>1. CASE l < i
    BY <1>1, <1>4, <2>1
  <2>2. CASE l > i
    <3>1. l - 1 \in DOMAIN c /\ at0(l - 1) = l
      BY <1>1, <1>4, <2>2
    <3> QED BY <3>1
  <2> QED BY <1>1, <2>1, <2>2
<1> HIDE DEF at0
<1>7. Once(c)
  BY <1>3, <1>4, <1>5 DEF Once
<1>8. L!Keys(c) = L!Keys(p) \ {p[i][1]}
  BY <1>4, <1>6 DEF Once, L!Keys
<1> QED BY <1>7, <1>8 DEF c

LEMMA Shortened ==
  ASSUME NEW p, Once(p), NEW n \in 0..Len(p)
  PROVE  /\ Once(SubSeq(p, 1, n))
         /\ L!Keys(SubSeq(p, 1, n)) = L!Keys(p) \ {p[i][1] : i \in (n + 1)..Len(p)}
<1> DEFINE c == SubSeq(p, 1, n)
<1>1. p \in Seq(PoolItem) /\ Len(p) \in Nat /\ DOMAIN p = 1..Len(p) /\ n \in Nat /\ n <= Len(p)
  BY DEF Once
<1>2. c \in Seq(PoolItem) /\ Len(c) = n /\ DOMAIN c = 1..n /\ \A i \in 1..n : c[i] = p[i]
  BY <1>1
<1> HIDE DEF c
<1>3. 1..n \subseteq DOMAIN p /\ (n + 1)..Len(p) \subseteq DOMAIN p
      /\ \A i \in DOMAIN p : i \in 1..n <=> i \notin (n + 1)..Len(p)
  BY <1>1
<1>4. Once(c)
  BY <1>2, <1>3 DEF Once
<1>5. L!Keys(c) = {p[i][1] : i \in 1..n}
  BY <1>2 DEF L!Keys
<1>6. L!Keys(c) = L!Keys(p) \ {p[i][1] : i \in (n + 1)..Len(p)}
  BY <1>3, <1>5 DEF Once, L!Keys
<1> QED BY <1>4, <1>6 DEF c

LEMMA InsertKept ==
  ASSUME LInv, ~stale, NEW k \in Key, k \notin index, NEW v \in {"empty", "fetched", "put"}, L!Insert(k, v)
  PROVE  Once(pool') /\ index' = L!Keys(pool')
<1> DEFINE new == <<<<k, v>>>> \o pool
<1>1. Once(new) /\ L!Keys(new) = index \cup {k}
  BY Prepended DEF LInv
<1>2. /\ pool' = (IF Len(new) > cache_size THEN SubSeq(new, 1, cache_size) ELSE new)
      /\ index' = (index \cup {k}) \ {new[i][1] : i \in (cache_size + 1)..Len(new)}
  BY DEF L!Insert
<1> HIDE DEF new
<1>3. Len(new) \in Nat /\ cache_size \in Nat
  BY <1>1 DEF Once, LInv
<1>4. CASE Len(new) > cache_size
  <2>1. cache_size \in 0..Len(new)
    BY <1>3, <1>4
  <2> QED BY <1>1, <1>2, <1>4, <2>1, Shortened
<1>5. CASE ~(Len(new) > cache_size)
  <2>1. (cache_size + 1)..Len(new) = {}
    BY <1>3, <1>5
  <2> QED BY <1>1, <1>2, <1>5, <2>1
<1> QED BY <1>4, <1>5

LEMMA Indexed ==
  ASSUME LInv, ~stale, NEW k \in index
  PROVE  /\ k \in Key /\ L!At(k) \in DOMAIN pool /\ pool[L!At(k)][1] = k
         /\ L!Value(k) \in {"empty", "fetched", "put"}
         /\ Once(L!Without(k)) /\ L!Keys(L!Without(k)) = index \ {k}
<1> DEFINE i == L!At(k)
<1>1. i \in DOMAIN pool /\ pool[i][1] = k
  BY DEF L!At, L!Keys, LInv
<1> HIDE DEF i
<1>2. pool[i] \in PoolItem /\ Once(pool) /\ index = L!Keys(pool)
  BY <1>1 DEF LInv, Once
<1>3. k \in Key /\ pool[i][2] \in {"empty", "fetched", "put"}
  BY <1>1, <1>2 DEF PoolItem
<1>4. Once(L!RemoveAt(pool, i)) /\ L!Keys(L!RemoveAt(pool, i)) = index \ {k}
  BY <1>1, <1>2, Taken
<1> QED BY <1>1, <1>3, <1>4 DEF i, L!Value, L!Without

LEMMA FrontKept ==
  ASSUME LInv, ~stale, NEW k \in index, NEW v \in {"empty", "fetched", "put"}, L!ToFront(k, v)
  PROVE  Once(pool') /\ index' = L!Keys(pool')
<1>1. k \in Key /\ Once(L!Without(k)) /\ L!Keys(L!Without(k)) = index \ {k}
  BY Indexed
<1>2. pool' = <<<<k, v>>>> \o L!Without(k) /\ index' = index
  BY DEF L!ToFront
<1>3. k \notin L!Keys(L!Without(k)) /\ index = L!Keys(L!Without(k)) \cup {k}
  BY <1>1
<1> DEFINE w == L!Without(k)
<1> HIDE DEF w
<1>4. Once(<<<<k, v>>>> \o w) /\ L!Keys(<<<<k, v>>>> \o w) = L!Keys(w) \cup {k}
  BY <1>1, <1>3, Prepended DEF w
<1> QED BY <1>2, <1>3, <1>4 DEF w

LEMMA CacheStep == LInv /\ [L!Next]_lvars => LInv'
<1> SUFFICES ASSUME LInv, [L!Next]_lvars PROVE LInv'
  OBVIOUS
<1>1. ASSUME NEW k \in Key, L!Get(k) \/ L!Put(k) PROVE LInv'
  <2>1. ~stale /\ UNCHANGED <<cache_size, fetching, stale>>
    BY <1>1 DEF L!Get, L!Put, L!Usable
  <2>2. CASE k \in index
    <3>1. \E v \in {"empty", "fetched", "put"} : L!ToFront(k, v)
      <4>1. CASE L!Get(k)
        BY <2>1, <2>2, <4>1, Indexed DEF L!Get
      <4>2. CASE L!Put(k)
        BY <2>2, <4>2 DEF L!Put
      <4> QED BY <1>1, <4>1, <4>2
    <3> QED BY <2>1, <2>2, <3>1, FrontKept DEF LInv
  <2>3. CASE k \notin index
    <3>1. L!Insert(k, "empty") \/ L!Insert(k, "put")
      BY <1>1, <2>3 DEF L!Get, L!Put
    <3> QED BY <2>1, <2>3, <3>1, InsertKept DEF LInv
  <2> QED BY <2>2, <2>3
<1>2. ASSUME NEW k \in Key, NEW t \in Fetcher, L!Fetch(t, k) PROVE LInv'
  <2>1. ~stale /\ UNCHANGED <<cache_size, stale>> /\ fetching' \in [Fetcher -> Key \cup {None}]
    BY <1>2 DEF L!Fetch, L!Usable, L!ToFront, LInv
  <2>2. CASE k \in index
    BY <1>2, <2>1, <2>2, Indexed, FrontKept DEF LInv, L!Fetch
  <2>3. CASE k \notin index
    BY <1>2, <2>1, <2>3 DEF LInv, L!Fetch
  <2> QED BY <2>2, <2>3
<1>3. ASSUME NEW t \in Fetcher, L!Fetched(t) PROVE LInv'
  <2>1. ~stale /\ UNCHANGED <<cache_size, stale>> /\ fetching' \in [Fetcher -> Key \cup {None}]
        /\ fetching[t] \in Key
    BY <1>3 DEF L!Fetched, L!Usable, LInv
  <2>2. CASE fetching[t] \in index
    BY <1>3, <2>1, <2>2 DEF LInv, L!Fetched
  <2>3. CASE fetching[t] \notin index
    BY <1>3, <2>1, <2>3, InsertKept DEF LInv, L!Fetched
  <2> QED BY <2>2, <2>3
<1>4. ASSUME NEW k \in Key, L!Erase(k) PROVE LInv'
  <2>1. ~stale /\ UNCHANGED <<cache_size, fetching, stale>> /\ pool' = L!Without(k) /\ index' = index \ {k}
    BY <1>4 DEF L!Erase
  <2>2. CASE k \in index
    BY <2>1, <2>2, Indexed DEF LInv
  <2>3. CASE k \notin index
    BY <2>1, <2>3 DEF LInv, L!Without
  <2> QED BY <2>2, <2>3
<1>5. Once(<<>>) /\ L!Keys(<<>>) = {}
  BY DEF Once, L!Keys
<1>6. CASE L!Clear
  BY <1>5, <1>6 DEF L!Clear, LInv
<1>7. ASSUME NEW n \in 0..MaxSize, L!SetCacheSize(n) PROVE LInv'
  BY <1>7, LruAssumption DEF L!SetCacheSize, LInv
<1>8. ASSUME NEW k \in Key, L!Assign(k) PROVE LInv'
  <2>1. Once(<<<<k, "put">>>>) /\ L!Keys(<<<<k, "put">>>>) = {k}
    BY DEF Once, PoolItem, L!Keys
  <2> QED BY <1>8, <2>1 DEF L!Assign, LInv
<1>9. CASE UNCHANGED lvars
  BY <1>9 DEF lvars, LInv
<1> QED BY <1>1, <1>2, <1>3, <1>4, <1>6, <1>7, <1>8, <1>9 DEF L!Next

\* What the cache holds besides.
LTypes == index \subseteq Key /\ cache_size \in 0..MaxSize /\ stale \in BOOLEAN

LEMMA CacheTypes == LInv /\ LTypes => L!TypeOK
BY DEF LInv, LTypes, Once, PoolItem, L!TypeOK

LEMMA CacheTypesStep == LInv /\ LTypes /\ [L!Next]_lvars => LTypes'
<1> SUFFICES ASSUME LInv, LTypes, [L!Next]_lvars PROVE LTypes'
  OBVIOUS
<1>1. \A k \in Key : \A v : L!Insert(k, v) => index' \subseteq Key
  BY DEF L!Insert, LTypes
<1>2. ASSUME NEW k \in Key, L!Get(k) \/ L!Put(k) PROVE LTypes'
  BY <1>1, <1>2 DEF L!Get, L!Put, L!ToFront, LTypes
<1>3. ASSUME NEW k \in Key, NEW t \in Fetcher, L!Fetch(t, k) PROVE LTypes'
  BY <1>3 DEF L!Fetch, L!ToFront, LTypes
<1>4. ASSUME NEW t \in Fetcher, L!Fetched(t) PROVE LTypes'
  <2>1. fetching[t] \in Key /\ UNCHANGED <<cache_size, stale>>
    BY <1>4 DEF L!Fetched, LInv
  <2>2. index' \subseteq Key
    BY <1>1, <1>4, <2>1 DEF L!Fetched, LTypes
  <2> QED BY <2>1, <2>2 DEF LTypes
<1>5. ASSUME NEW k \in Key, L!Erase(k) \/ L!Assign(k) PROVE LTypes'
  BY <1>5 DEF L!Erase, L!Assign, LTypes
<1>6. ASSUME NEW n \in 0..MaxSize, L!SetCacheSize(n) PROVE LTypes'
  BY <1>6 DEF L!SetCacheSize, LTypes
<1>7. CASE L!Clear \/ UNCHANGED lvars
  BY <1>7 DEF L!Clear, lvars, LTypes
<1> QED BY <1>2, <1>3, <1>4, <1>5, <1>6, <1>7 DEF L!Next

----------------------------------------------------------------------------
(* Dependencies.                                                           *)

\* The items of a sequence.
ItemsOf(s) == {s[i] : i \in DOMAIN s}

\* An item that others depend on was found, or is yet to be looked at.
DInv ==
  /\ pending \in Seq(Item) /\ targets \subseteq Item /\ r_dep \in [Item -> SUBSET Item]
  /\ sorting \in {"finding", "counting", "done", "cycle"}
  /\ \A i \in Item : r_dep[i] \subseteq targets /\ (r_dep[i] # {} => i \in targets \cup ItemsOf(pending))
  /\ sorting # "finding" => pending = <<>>
  /\ O!OrderIsSound

LEMMA SameCount == \A G : O!Cardinality(G) = Cardinality(G)
BY DEF O!Cardinality, Cardinality

\* A set of items as a sequence, in which each of them is.
LEMMA Listed ==
  ASSUME NEW G \in SUBSET Item, NEW s \in O!SetToSeqs(G)
  PROVE  s \in Seq(Item) /\ ItemsOf(s) = G /\ \A i, j \in DOMAIN s : i # j => s[i] # s[j]
<1> DEFINE n == Cardinality(G)
<1>1. IsFiniteSet(G) /\ n \in Nat
  BY DependAssumption, FS_Subset, FS_CardinalityType
<1>2. s \in [1..n -> G] /\ \A i, j \in 1..n : i # j => s[i] # s[j]
  BY SameCount DEF O!SetToSeqs
<1> HIDE DEF n
<1>3. s \in Seq(Item) /\ DOMAIN s = 1..n /\ ItemsOf(s) \subseteq G
  BY <1>1, <1>2 DEF ItemsOf
<1>4. IsFiniteSet(1..n) /\ Cardinality(1..n) = n
  BY <1>1, FS_Interval
<1>5. s \in Injection(1..n, G)
  BY <1>2 DEF Injection, IsInjective
<1>6. s \in Surjection(1..n, G)
  BY <1>1, <1>4, <1>5, FS_Injection DEF n
<1>7. G \subseteq ItemsOf(s)
  BY <1>3, <1>6 DEF Surjection, ItemsOf
<1> QED BY <1>2, <1>3, <1>7

LEMMA InSequence ==
  ASSUME NEW G \in SUBSET Item
  PROVE  O!SetToSeq(G) \in Seq(Item) /\ ItemsOf(O!SetToSeq(G)) = G
<1> DEFINE n == Cardinality(G)
<1>1. IsFiniteSet(G) /\ n \in Nat /\ ExistsBijection(1..n, G)
  BY DependAssumption, FS_Subset, FS_CardinalityType
<1>2. PICK f : f \in [1..n -> G] /\ \A i, j \in 1..n : f[i] = f[j] => i = j
  BY <1>1 DEF ExistsBijection, Bijection, Injection, IsInjective
<1>3. O!Cardinality(G) = n
  BY SameCount
<1> HIDE DEF n
<1>4. \E g \in [1..n -> G] : O!IsInjective(g)
  BY <1>2 DEF O!IsInjective
<1> DEFINE s == CHOOSE g \in [1..n -> G] : O!IsInjective(g)
<1>5. s \in [1..n -> G] /\ O!IsInjective(s)
  BY <1>4
<1>6. O!SetToSeq(G) = s
  BY <1>3 DEF O!SetToSeq
<1> HIDE DEF s
<1>7. s \in O!SetToSeqs(G)
  BY <1>3, <1>5 DEF O!SetToSeqs, O!IsInjective
<1> QED BY <1>6, <1>7, Listed

\* Fewer depend on what depends on an item, unless there is a cycle.
LEMMA Fewer ==
  ASSUME DInv, NEW x \in Item, NEW y \in Item, x \in r_dep[y], x \notin O!Dependents(x)
  PROVE  O!ref_count(x) < O!ref_count(y)
<1>1. \A i \in Item : O!Dependents(i) \subseteq Item
  BY DEF O!Dependents
<1>2. x \in O!Dependents(y)
  BY DEF O!Dependents
<1>3. O!Dependents(x) \subseteq O!Dependents(y)
  <2> SUFFICES ASSUME NEW j \in O!Dependents(x), NEW G \in SUBSET Item, r_dep[y] \subseteq G, O!Closed(G)
               PROVE  j \in G
    BY <1>1 DEF O!Dependents
  <2>1. r_dep[x] \subseteq G
    BY DEF O!Closed
  <2> QED BY <2>1 DEF O!Dependents
<1>4. IsFiniteSet(O!Dependents(y)) /\ IsFiniteSet(O!Dependents(x))
  BY <1>1, DependAssumption, FS_Subset
<1>5. /\ Cardinality(O!Dependents(x)) <= Cardinality(O!Dependents(y))
      /\ Cardinality(O!Dependents(x)) # Cardinality(O!Dependents(y))
  BY <1>2, <1>3, <1>4, FS_Subset
<1>6. Cardinality(O!Dependents(x)) \in Nat /\ Cardinality(O!Dependents(y)) \in Nat
  BY <1>4, FS_CardinalityType
<1>7. O!ref_count(x) = Cardinality(O!Dependents(x)) /\ O!ref_count(y) = Cardinality(O!Dependents(y))
  BY SameCount DEF O!ref_count
<1> QED BY <1>5, <1>6, <1>7

LEMMA FindStep ==
  ASSUME DInv, NEW ds \in SUBSET Item, O!Find(ds)
  PROVE  DInv'
<1> DEFINE t == Head(pending)
           rest == Tail(pending)
           more == O!SetToSeq(ds)
<1>1. sorting = "finding" /\ pending # <<>> /\ sorting' = sorting /\ order' = order
  BY DEF O!Find
<1>2. t \in Item /\ rest \in Seq(Item) /\ ItemsOf(pending) \subseteq {t} \cup ItemsOf(rest)
  <2>1. /\ pending \in Seq(Item) /\ Len(pending) \in Nat /\ Len(pending) > 0 /\ t = pending[1]
        /\ rest \in Seq(Item) /\ Len(rest) = Len(pending) - 1
        /\ \A i \in 1..(Len(pending) - 1) : rest[i] = pending[i + 1]
    BY <1>1 DEF DInv
  <2> HIDE DEF t, rest
  <2>2. \A i \in DOMAIN pending : i = 1 \/ (i - 1 \in DOMAIN rest /\ rest[i - 1] = pending[i])
    BY <2>1
  <2> QED BY <2>1, <2>2 DEF ItemsOf
<1>3. O!OrderIsSound'
  BY <1>1 DEF O!OrderIsSound
<1>4. CASE t \in targets
  <2>1. pending' = rest /\ targets' = targets /\ r_dep' = r_dep
    BY <1>4 DEF O!Find
  <2> HIDE DEF t, rest
  <2>2. \A i \in Item : r_dep[i] # {} => i \in targets \cup ItemsOf(rest)
    BY <1>2, <1>4 DEF DInv
  <2> QED BY <1>1, <1>2, <1>3, <2>1, <2>2 DEF DInv, ItemsOf
<1>5. CASE t \notin targets
  <2>1. /\ pending' = rest \o more /\ targets' = targets \cup {t}
        /\ r_dep' = [d \in Item |-> IF d \in ds THEN r_dep[d] \cup {t} ELSE r_dep[d]]
    BY <1>5 DEF O!Find
  <2>2. more \in Seq(Item) /\ ItemsOf(more) = ds
    BY InSequence
  <2> HIDE DEF t, rest, more
  <2>3. rest \o more \in Seq(Item) /\ ItemsOf(rest) \cup ds \subseteq ItemsOf(rest \o more)
    <3>1. /\ rest \o more \in Seq(Item) /\ Len(rest \o more) = Len(rest) + Len(more)
          /\ \A i \in 1..Len(rest \o more) :
               (rest \o more)[i] = IF i <= Len(rest) THEN rest[i] ELSE more[i - Len(rest)]
      BY <1>2, <2>2, Joined
    <3> DEFINE w == rest \o more
    <3> HIDE DEF w
    <3>2. Len(rest) \in Nat /\ Len(more) \in Nat /\ DOMAIN w = 1..(Len(rest) + Len(more))
          /\ DOMAIN rest = 1..Len(rest) /\ DOMAIN more = 1..Len(more)
      BY <1>2, <2>2, <3>1 DEF w
    <3>3. \A i \in DOMAIN rest : i \in DOMAIN w /\ w[i] = rest[i]
      BY <3>1, <3>2 DEF w
    <3>4. \A i \in DOMAIN more : i + Len(rest) \in DOMAIN w /\ w[i + Len(rest)] = more[i]
      <4> SUFFICES ASSUME NEW i \in DOMAIN more
                   PROVE  i + Len(rest) \in DOMAIN w /\ w[i + Len(rest)] = more[i]
        OBVIOUS
      <4> DEFINE l == i + Len(rest)
      <4>1. l \in DOMAIN w /\ ~(l <= Len(rest)) /\ l - Len(rest) = i
        BY <3>2
      <4>2. w[l] = more[l - Len(rest)]
        BY <3>1, <3>2, <4>1 DEF w
      <4> QED BY <4>1, <4>2
    <3>5. ItemsOf(rest) \cup ItemsOf(more) \subseteq ItemsOf(w)
      BY <3>3, <3>4 DEF ItemsOf
    <3> QED BY <2>2, <3>1, <3>5 DEF w
  <2>4. \A i \in Item : r_dep'[i] \subseteq targets' /\ (r_dep'[i] # {} => i \in targets' \cup ItemsOf(rest \o more))
    BY <1>2, <2>1, <2>3 DEF DInv
  <2>5. targets' \subseteq Item /\ r_dep' \in [Item -> SUBSET Item]
    BY <1>2, <2>1 DEF DInv
  <2> QED BY <1>1, <1>3, <2>1, <2>3, <2>4, <2>5 DEF DInv, ItemsOf
<1> QED BY <1>4, <1>5

\* The items that others depend on, and those others.
Above(f) == {i \in Item : f[i] # {}}
Below(f) == UNION {f[i] : i \in Item}

LEMMA SortStep ==
  ASSUME DInv, O!Sort
  PROVE  DInv'
<1>1. /\ sorting = "counting" /\ sorting' = "done" /\ UNCHANGED <<pending, targets, r_dep>>
      /\ order' \in O!SetToSeqs(targets) /\ O!Sorted(order') /\ \A i \in targets : i \notin O!Dependents(i)
  BY DEF O!Sort
<1> DEFINE s == order'
<1> HIDE DEF s
<1>2. s \in Seq(Item) /\ ItemsOf(s) = targets /\ \A i, j \in DOMAIN s : i # j => s[i] # s[j]
  BY <1>1, Listed DEF DInv, s
<1>3. pending = <<>> /\ \A i \in Item : r_dep[i] \subseteq targets /\ (r_dep[i] # {} => i \in targets)
  BY <1>1 DEF DInv, ItemsOf
<1>4. ASSUME NEW i \in DOMAIN s, NEW j \in DOMAIN s, i < j
      PROVE  s[i] # s[j] /\ s[i] \notin r_dep[s[j]]
  <2>1. s[i] \in Item /\ s[j] \in Item /\ s[i] \in targets /\ i # j
    BY <1>2, <1>4 DEF ItemsOf, DInv
  <2>2. ASSUME s[i] \in r_dep[s[j]] PROVE FALSE
    <3>1. O!ref_count(s[i]) < O!ref_count(s[j])
      BY <1>1, <2>1, <2>2, Fewer
    <3>2. O!ref_count(s[i]) >= O!ref_count(s[j])
      BY <1>1, <1>4 DEF O!Sorted, s
    <3>3. O!ref_count(s[i]) \in Nat /\ O!ref_count(s[j]) \in Nat
      <4>1. \A x : IsFiniteSet(O!Dependents(x))
        BY DependAssumption, FS_Subset DEF O!Dependents
      <4> QED BY <4>1, FS_CardinalityType, SameCount DEF O!ref_count
    <3> QED BY <3>1, <3>2, <3>3
  <2> QED BY <1>2, <2>1, <2>2
<1>5. O!Range(s) = targets
  BY <1>2 DEF O!Range, ItemsOf
<1>6. Below(r_dep) \subseteq targets /\ Above(r_dep) \subseteq targets
  BY <1>3, Zenon DEF Below, Above
<1>7. O!Range(order') = Below(r_dep') \cup Above(r_dep') \cup targets'
  BY <1>1, <1>5, <1>6 DEF s
<1>8. O!OrderIsSound'
  <2>1. \A i, j \in DOMAIN order' : i < j => order'[i] # order'[j] /\ order'[i] \notin r_dep'[order'[j]]
    BY <1>1, <1>4 DEF s
  <2> QED BY <1>7, <2>1, Zenon DEF O!OrderIsSound, Below, Above
<1> QED BY <1>1, <1>3, <1>8 DEF DInv, ItemsOf

LEMMA DependStep == DInv /\ [O!Next]_ovars => DInv'
<1> SUFFICES ASSUME DInv, [O!Next]_ovars PROVE DInv'
  OBVIOUS
<1>1. CASE O!Found
  BY <1>1 DEF O!Found, DInv, ItemsOf, O!OrderIsSound
<1>2. CASE O!CountFails
  BY <1>2 DEF O!CountFails, DInv, ItemsOf, O!OrderIsSound
<1>3. CASE UNCHANGED ovars
  BY <1>3 DEF ovars, DInv, ItemsOf, O!OrderIsSound
<1> QED BY <1>1, <1>2, <1>3, FindStep, SortStep DEF O!Next

\* The result is of items.
LEMMA OrderStep == DInv /\ order \in Seq(Item) /\ [O!Next]_ovars => order' \in Seq(Item)
<1>1. DInv /\ O!Sort => order' \in Seq(Item)
  BY Listed DEF DInv, O!Sort
<1> QED BY <1>1 DEF O!Next, O!Found, O!CountFails, O!Find, ovars

----------------------------------------------------------------------------
(* Stacks and handles.                                                     *)

\* The list has buffers, and tasks have buffers or none (stack_cache).
LEMMA StackTypes ==
  ASSUME C!TypeOK, [C!Next]_cvars PROVE C!TypeOK'
<1>1. ASSUME NEW t \in Task, C!fetch(t) PROVE C!TypeOK'
  <2>1. CASE cache_list # <<>>
    <3>1. stack' = [stack EXCEPT ![t] = Head(cache_list)] /\ cache_list' = Tail(cache_list) /\ max_count' = max_count
      BY <1>1, <2>1 DEF C!fetch
    <3>2. Head(cache_list) \in Buffer /\ Tail(cache_list) \in Seq(Buffer)
      BY <2>1 DEF C!TypeOK
    <3> QED BY <3>1, <3>2 DEF C!TypeOK
  <2>2. CASE cache_list = <<>>
    <3>1. PICK b \in Buffer : stack' = [stack EXCEPT ![t] = b]
      BY <1>1, <2>2 DEF C!fetch
    <3>2. cache_list' = cache_list /\ max_count' = max_count
      BY <1>1, <2>2 DEF C!fetch
    <3> QED BY <3>1, <3>2 DEF C!TypeOK
  <2> QED BY <2>1, <2>2
<1>2. ASSUME NEW t \in Task, C!release(t) PROVE C!TypeOK'
  BY <1>2 DEF C!release, C!TypeOK
<1>3. ASSUME NEW n \in 0..MaxCount, C!set_cache_count(n) PROVE C!TypeOK'
  BY <1>3 DEF C!set_cache_count, C!TypeOK
<1>4. CASE UNCHANGED cvars
  BY <1>4 DEF cvars, C!TypeOK
<1> QED
  BY <1>1, <1>2, <1>3, <1>4 DEF C!Next

\* The same with the list as positions.
Positions ==
  /\ \A t, u \in Task : stack[t] # None /\ stack[t] = stack[u] => t = u
  /\ \A t \in Task, i \in 1..Len(cache_list) : stack[t] # cache_list[i]
  /\ \A i, j \in 1..Len(cache_list) : cache_list[i] = cache_list[j] => i = j

LEMMA PositionsSuffice == ASSUME C!TypeOK, Positions PROVE C!NoSharedStack
<1>1. DOMAIN cache_list = 1..Len(cache_list)
  BY DEF C!TypeOK
<1> QED
  BY <1>1 DEF Positions, C!NoSharedStack, C!Range, C!IsInjective

\* A buffer that a task gets leaves the list or was nowhere; one that is kept leaves its task.
LEMMA StackPositions ==
  ASSUME C!TypeOK, Positions, [C!Next]_cvars PROVE Positions'
<1> USE StackAssumption
<1>1. ASSUME NEW t \in Task, C!fetch(t) PROVE Positions'
  <2>1. CASE cache_list # <<>>
    <3>1. /\ Len(cache_list) \in Nat /\ Len(cache_list) > 0 /\ Head(cache_list) = cache_list[1]
          /\ cache_list' = Tail(cache_list) /\ Len(cache_list') = Len(cache_list) - 1
          /\ \A i \in 1..Len(cache_list') : cache_list'[i] = cache_list[i + 1]
      BY <1>1, <2>1 DEF C!fetch, C!TypeOK
    <3>2. stack' = [stack EXCEPT ![t] = cache_list[1]] /\ stack \in [Task -> Buffer \cup {None}]
      BY <1>1, <2>1, <3>1 DEF C!fetch, C!TypeOK
    <3>3. \A u \in Task : stack'[u] = IF u = t THEN cache_list[1] ELSE stack[u]
      BY <3>2
    <3>4. \A u, v \in Task : stack'[u] # None /\ stack'[u] = stack'[v] => u = v
      BY <3>1, <3>3 DEF Positions
    <3>5. \A u \in Task, i \in 1..Len(cache_list') : stack'[u] # cache_list'[i]
      BY <3>1, <3>3 DEF Positions
    <3>6. \A i, j \in 1..Len(cache_list') : cache_list'[i] = cache_list'[j] => i = j
      BY <3>1 DEF Positions
    <3> QED
      BY <3>4, <3>5, <3>6 DEF Positions
  <2>2. CASE cache_list = <<>>
    <3>1. PICK b \in Buffer : (\A u \in Task : stack[u] # b) /\ stack' = [stack EXCEPT ![t] = b]
      BY <1>1, <2>2 DEF C!fetch
    <3>2. cache_list' = <<>>
      BY <1>1, <2>2 DEF C!fetch
    <3> QED
      BY <3>1, <3>2 DEF Positions, C!TypeOK
  <2> QED
    BY <2>1, <2>2
<1>2. ASSUME NEW t \in Task, C!release(t) PROVE Positions'
  <2> DEFINE n == Len(cache_list)
  <2>1. stack' = [stack EXCEPT ![t] = None] /\ stack[t] # None /\ stack[t] \in Buffer /\ n \in Nat
    BY <1>2 DEF C!release, C!TypeOK
  <2>2. \A u \in Task : stack'[u] = IF u = t THEN None ELSE stack[u]
    BY <2>1 DEF C!TypeOK
  <2>3. CASE cache_list' = cache_list
    <3>1. \A i \in 1..n : cache_list[i] \in Buffer
      BY DEF C!TypeOK
    <3> QED
      BY <2>2, <2>3, <3>1 DEF Positions
  <2>4. CASE cache_list' = Append(cache_list, stack[t])
    <3>1. /\ Len(cache_list') = n + 1 /\ cache_list'[n + 1] = stack[t] /\ \A i \in 1..n : cache_list[i] \in Buffer
          /\ \A i \in 1..n : cache_list'[i] = cache_list[i]
      BY <2>1, <2>4 DEF C!TypeOK
    <3>2. \A i \in 1..(n + 1) : i \in 1..n \/ i = n + 1
      BY <2>1
    <3>3. \A u, v \in Task : stack'[u] # None /\ stack'[u] = stack'[v] => u = v
      BY <2>2 DEF Positions
    <3>4. \A u \in Task, i \in 1..(n + 1) : stack'[u] # cache_list'[i]
      BY <2>1, <2>2, <3>1, <3>2 DEF Positions
    <3>5. \A i, j \in 1..(n + 1) : cache_list'[i] = cache_list'[j] => i = j
      BY <2>1, <3>1, <3>2 DEF Positions
    <3> QED
      BY <3>1, <3>3, <3>4, <3>5 DEF Positions
  <2> QED
    BY <1>2, <2>3, <2>4 DEF C!release
<1>3. ASSUME NEW n \in 0..MaxCount, C!set_cache_count(n) PROVE Positions'
  BY <1>3 DEF C!set_cache_count, Positions
<1>4. CASE UNCHANGED cvars
  BY <1>4 DEF cvars, Positions
<1> QED
  BY <1>1, <1>2, <1>3, <1>4 DEF C!Next

\* Of a live task there is what was set of it, unless another was meant.
Of(i) == LET n == taskCache[i].number IN
  /\ n \in 1..born /\ taskCache[i].parent # i
  /\ n \notin misled => /\ taskCache[i].name = told[n].name /\ taskCache[i].arg = told[n].arg
                        /\ taskCache[i].atexit = told[n].atexit
                        /\ told[n].flag # None => taskFlags[i] = told[n].flag
Held(i) == taskCache[i] # None

HInv ==
  /\ H!TypeOK
  /\ running # None => Held(running)
  /\ \A i \in Id : Held(i) => Of(i)
  /\ \A i, j \in Id : Held(i) /\ Held(j) /\ taskCache[i].number = taskCache[j].number => i = j
  /\ \A h \in Handle : meant[h] <= born
  /\ \A h \in Handle, i \in Id : Held(i) /\ taskCache[i].number = meant[h] => handle[h] = i
  /\ \A n \in misled : n <= born
  /\ \A n \in 1..MaxBorn : n > born => \A x \in H!Field : told[n][x] = None

LEMMA HInit == H!Init => HInv
BY HandlesAssumption DEF H!Init, HInv, H!TypeOK, Of, Held, H!Field, H!Held

LEMMA HSuffices == HInv => H!HandlesAreOwn
BY HandlesAssumption DEF HInv, H!TypeOK, Of, Held, H!HandlesAreOwn, H!is_alive, H!fetch,
   H!get_name, H!get_arg, H!get_flag, H!parent_task, H!Held

\* What a setter does to the history: to that of the task that is there, number n.
ToldOf(n, h, x, d) ==
  /\ told' \in [1..MaxBorn -> [H!Field -> Datum \cup {None}]] /\ misled' \subseteq 1..MaxBorn
  /\ \A m \in misled' : m <= born
  /\ \A m \in 1..MaxBorn : m # n => told'[m] = told[m]
  /\ \A y \in H!Field : told'[n][y] = IF n = meant[h] /\ y = x THEN d ELSE told[n][y]
  /\ \A m \in 1..MaxBorn : m \notin misled' => m \notin misled
  /\ n \notin misled' => n = meant[h]

LEMMA Telling ==
  ASSUME HInv, NEW h \in Handle, NEW x \in H!Field, NEW d \in Datum, H!Tells(h, x, d),
         taskCache[handle[h]].number \in 1..MaxBorn, taskCache[handle[h]].number <= born
  PROVE  ToldOf(taskCache[handle[h]].number, h, x, d)
<1> DEFINE n == taskCache[handle[h]].number
<1>1. IF n = meant[h] THEN told' = [told EXCEPT ![n][x] = d] /\ UNCHANGED misled
      ELSE misled' = misled \cup {n} /\ UNCHANGED told
  BY DEF H!Tells
<1>2. n \in 1..MaxBorn /\ n <= born
  OBVIOUS
<1> HIDE DEF n
<1>5. ToldOf(n, h, x, d)
  <2>1. CASE n = meant[h]
    <3>1. told' = [told EXCEPT ![n] = [told[n] EXCEPT ![x] = d]] /\ misled' = misled
      BY <1>1, <2>1
    <3>2. told \in [1..MaxBorn -> [H!Field -> Datum \cup {None}]] /\ misled \subseteq 1..MaxBorn
          /\ \A m \in misled : m <= born
      BY DEF HInv, H!TypeOK
    <3> QED BY <1>2, <2>1, <3>1, <3>2 DEF ToldOf
  <2>2. CASE n # meant[h]
    <3>1. told' = told /\ misled' = misled \cup {n}
      BY <1>1, <2>2
    <3>2. told \in [1..MaxBorn -> [H!Field -> Datum \cup {None}]] /\ misled \subseteq 1..MaxBorn
          /\ \A m \in misled : m <= born
      BY DEF HInv, H!TypeOK
    <3> QED BY ONLY <1>2, <2>2, <3>1, <3>2 DEF ToldOf
  <2> QED BY <2>1, <2>2
<1> QED BY <1>5 DEF n

LEMMA HandleKept ==
  ASSUME HInv, UNCHANGED <<handle, running, born, meant>>, H!TypeOK',
         NEW n \in 1..MaxBorn, n <= born, NEW h, NEW x, NEW d, ToldOf(n, h, x, d),
         \A j \in Id : Held(j)' = Held(j) /\ (Held(j) => taskCache'[j].number = taskCache[j].number),
         \A j \in Id : Held(j) => Of(j)'
  PROVE  HInv'
<1>1. running \in Id \cup {None} /\ born \in Nat
  BY HandlesAssumption DEF HInv, H!TypeOK
<1>2. \A m \in 1..MaxBorn : m > born' => \A y \in H!Field : told'[m][y] = None
  <2>1. \A m \in 1..MaxBorn : m > born => m # n
    BY <1>1
  <2> QED BY <2>1 DEF HInv, ToldOf
<1>3. \A i, j \in Id : Held(i)' /\ Held(j)' /\ taskCache'[i].number = taskCache'[j].number => i = j
  BY DEF HInv
<1>4. running' # None => Held(running)'
  BY <1>1 DEF HInv
<1>5. \A g \in Handle, i \in Id : Held(i)' /\ taskCache'[i].number = meant'[g] => handle'[g] = i
  BY DEF HInv
<1>6. (\A g \in Handle : meant'[g] <= born') /\ \A m \in misled' : m <= born'
  BY DEF HInv, ToldOf
<1> QED BY <1>2, <1>3, <1>4, <1>5, <1>6 DEF HInv

LEMMA HStep == HInv /\ [H!Next]_hvars => HInv'
<1> SUFFICES ASSUME HInv, [H!Next]_hvars PROVE HInv'
  OBVIOUS
<1>1. ASSUME NEW i \in Id, NEW h \in Handle, NEW d \in Datum, H!Run(h, i, d)
      PROVE  HInv'
  BY <1>1, HandlesAssumption DEF H!Run, H!basic_task, HInv, H!TypeOK, Of, Held, H!Field, H!Held
<1>2. ASSUME NEW h \in Handle, NEW i \in Id \cup {None}, NEW n \in 0..MaxBorn, H!Copied(h, i, n),
             n <= born, \A j \in Id : Held(j) /\ taskCache[j].number = n => i = j
      PROVE  HInv'
  BY <1>2, HandlesAssumption DEF H!Copied, HInv, H!TypeOK, Of, Held
<1>3. ASSUME NEW h \in Handle, NEW g \in Handle, H!Copy(g, h)
      PROVE  HInv'
  <2>1. handle[g] \in Id \cup {None} /\ meant[g] \in 0..MaxBorn /\ meant[g] <= born
    BY DEF HInv, H!TypeOK
  <2>2. \A j \in Id : Held(j) /\ taskCache[j].number = meant[g] => handle[g] = j
    BY DEF HInv
  <2>3. H!Copied(h, handle[g], meant[g])
    BY <1>3 DEF H!Copy
  <2> QED BY <1>2, <2>1, <2>2, <2>3
<1>4. ASSUME NEW h \in Handle, H!this_task(h)
      PROVE  HInv'
  <2>1. CASE running = None
    <3>1. H!Copied(h, None, 0) /\ 0 \in 0..MaxBorn /\ 0 <= born
      BY <1>4, <2>1, HandlesAssumption DEF H!this_task, HInv, H!TypeOK
    <3>2. \A j \in Id : Held(j) => taskCache[j].number # 0
      BY DEF HInv, Of
    <3> QED BY <1>2, <3>1, <3>2
  <2>2. CASE running # None
    BY <1>2, <1>4, <2>2, HandlesAssumption DEF H!this_task, HInv, H!TypeOK, Of, Held, H!Held
  <2> QED BY <2>1, <2>2
<1>5. CASE H!swap_to_main \/ \E i \in Id : H!swap_to_task(i)
  BY <1>5, HandlesAssumption DEF H!swap_to_main, H!swap_to_task, HInv, H!TypeOK, Of, Held
<1>6. ASSUME NEW i \in Id, H!destroy_task(i)
      PROVE  HInv'
  BY <1>6, HandlesAssumption DEF H!destroy_task, HInv, H!TypeOK, Of, Held
<1>7. ASSUME NEW h \in Handle, NEW x \in {"name", "arg", "atexit"}, NEW d \in Datum, H!Sets(h, x, d)
      PROVE  HInv'
  <2> DEFINE i == handle[h]
             n == taskCache[i].number
             c == [taskCache[i] EXCEPT ![x] = d]
  <2>1. i \in Id /\ Held(i) /\ taskCache[i] \in H!Held /\ n \in 1..MaxBorn /\ n <= born
    BY <1>7 DEF H!Sets, H!is_alive, H!fetch, HInv, H!TypeOK, Of, Held, H!Held
  <2>2. /\ taskCache' = [taskCache EXCEPT ![i] = c]
        /\ UNCHANGED <<taskFlags, handle, running, born, meant>>
        /\ IF n = meant[h] THEN told' = [told EXCEPT ![n][x] = d] /\ UNCHANGED misled
           ELSE misled' = misled \cup {n} /\ UNCHANGED told
    BY <1>7 DEF H!Sets, H!Tells, H!Put
  <2>3. /\ c \in H!Held /\ c.number = n /\ c.parent = taskCache[i].parent
        /\ c.name = IF x = "name" THEN d ELSE taskCache[i].name
        /\ c.arg = IF x = "arg" THEN d ELSE taskCache[i].arg
        /\ c.atexit = IF x = "atexit" THEN d ELSE taskCache[i].atexit
    <3>1. CASE x = "name"
      BY <2>1, <3>1 DEF H!Held
    <3>2. CASE x = "arg"
      BY <2>1, <3>2 DEF H!Held
    <3>3. CASE x = "atexit"
      BY <2>1, <3>3 DEF H!Held
    <3> QED BY <3>1, <3>2, <3>3
  <2> HIDE DEF i, n, c
  <2>4. ToldOf(n, h, x, d)
    BY <1>7, <2>1, Telling DEF H!Sets, H!Field, n, i
  <2>5. taskCache' \in [Id -> H!Held \cup {None}] /\ H!TypeOK'
    BY <2>1, <2>2, <2>3, <2>4 DEF HInv, H!TypeOK, ToldOf
  <2>6. \A j \in Id : taskCache'[j] = IF j = i THEN c ELSE taskCache[j]
    BY <2>1, <2>2 DEF HInv, H!TypeOK
  <2>7. c # None
    BY <2>3, HandlesAssumption DEF H!Held
  <2>8. \A j \in Id : Held(j)' = Held(j) /\ (Held(j) => taskCache'[j].number = taskCache[j].number)
    BY <2>1, <2>3, <2>6, <2>7, i = i DEF Held, n
  <2>9. ASSUME NEW j \in Id, Held(j) PROVE Of(j)'
    <3> DEFINE m == taskCache[j].number
    <3>1. Of(j) /\ m \in 1..MaxBorn /\ taskCache'[j].number = m /\ UNCHANGED <<born, taskFlags>>
      BY <2>2, <2>8, <2>9 DEF HInv, H!TypeOK, Held, H!Held
    <3>2. CASE j = i
      <4>1. m = n
        BY <3>2 DEF n
      <4>2. taskCache'[j] = c /\ c.number = n /\ Of(i)
        BY <2>3, <2>6, <3>1, <3>2
      <4> QED BY <2>1, <2>3, <2>4, <3>1, <3>2, <4>1, <4>2 DEF Of, H!Field, n, ToldOf
    <3>3. CASE j # i
      <4>1. m # n
        BY <2>1, <2>9, <3>3 DEF HInv, n
      <4> QED BY <2>4, <2>6, <3>1, <3>3, <4>1 DEF Of, ToldOf
    <3> QED BY <3>2, <3>3
  <2> QED BY <2>1, <2>2, <2>4, <2>5, <2>8, <2>9, HandleKept
<1>8. ASSUME NEW h \in Handle, NEW d \in Datum, H!set_flag(h, d)
      PROVE  HInv'
  <2> DEFINE i == handle[h]
             n == taskCache[i].number
  <2>1. i \in Id /\ Held(i) /\ taskCache[i] \in H!Held /\ n \in 1..MaxBorn /\ n <= born
    BY <1>8 DEF H!set_flag, H!is_alive, H!fetch, HInv, H!TypeOK, Of, Held, H!Held
  <2>2. /\ taskFlags' = [taskFlags EXCEPT ![i] = d]
        /\ UNCHANGED <<taskCache, handle, running, born, meant>>
    BY <1>8 DEF H!set_flag
  <2>3. "flag" \in H!Field /\ ToldOf(n, h, "flag", d)
    BY <1>8, <2>1, Telling DEF H!set_flag, H!Field
  <2> HIDE DEF i, n
  <2>4. H!TypeOK'
    BY <2>1, <2>2, <2>3 DEF HInv, H!TypeOK, ToldOf
  <2>5. ASSUME NEW j \in Id, Held(j) PROVE Of(j)'
    <3> DEFINE m == taskCache[j].number
    <3>1. Of(j) /\ m \in 1..MaxBorn /\ taskCache' = taskCache /\ UNCHANGED born
      BY <2>2, <2>5 DEF HInv, H!TypeOK, Held, H!Held
    <3>2. taskFlags'[j] = IF j = i THEN d ELSE taskFlags[j]
      BY <2>1, <2>2 DEF HInv, H!TypeOK
    <3>3. CASE j = i
      <4>1. m = n /\ Of(i)
        BY <3>1, <3>3 DEF n
      <4>2. \A y \in {"name", "arg", "atexit"} : y \in H!Field /\ told'[n][y] = told[n][y]
        BY <2>3 DEF ToldOf, H!Field
      <4>3. n \notin misled' => n \notin misled /\ told'[n]["flag"] = d
        BY <2>1, <2>3 DEF ToldOf
      <4> QED BY <2>1, <3>1, <3>2, <3>3, <4>1, <4>2, <4>3 DEF Of, n
    <3>4. CASE j # i
      <4>1. m # n
        BY <2>1, <2>5, <3>4 DEF HInv, n
      <4> QED BY <2>3, <3>1, <3>2, <3>4, <4>1 DEF Of, ToldOf
    <3> QED BY <3>3, <3>4
  <2>6. \A j \in Id : Held(j)' = Held(j) /\ (Held(j) => taskCache'[j].number = taskCache[j].number)
    BY <2>2 DEF Held
  <2> QED BY <2>1, <2>2, <2>3, <2>4, <2>5, <2>6, HandleKept, "flag" \in H!Field
<1>9. CASE UNCHANGED hvars
  BY <1>9 DEF hvars, HInv, H!TypeOK, Of, Held
<1> QED
  BY <1>1, <1>3, <1>4, <1>5, <1>6, <1>7, <1>8, <1>9
  DEF H!Next, H!set_name, H!set_arg, H!set_atexit

----------------------------------------------------------------------------
(* The command line.                                                       *)

Ascends(s) == \A i, j \in DOMAIN s : i < j => s[i] < s[j]
CanBeOrdered(G) == \E s \in [1..Cardinality(G) -> G] : Ascends(s)

\* A set of numbers has an order, if it has one without its least.
LEMMA LeastFirst ==
  ASSUME NEW G \in SUBSET Nat, IsFiniteSet(G), G # {},
         \A H1 \in SUBSET Nat : IsFiniteSet(H1) /\ Cardinality(H1) = Cardinality(G) - 1 => CanBeOrdered(H1)
  PROVE  CanBeOrdered(G)
<1> DEFINE n == Cardinality(G)
<1>1. n \in Nat /\ n # 0
  BY FS_CardinalityType, FS_EmptySet
<1>2. PICK m \in G : \A j \in G : m <= j
  BY Least
<1> DEFINE R == G \ {m}
<1>3. R \in SUBSET Nat /\ IsFiniteSet(R) /\ Cardinality(R) = n - 1
  BY FS_RemoveElement
<1>4. \A j \in R : m < j
  <2> TAKE j \in R
  <2>1. j \in Nat /\ m \in Nat /\ m <= j /\ j # m
    BY <1>2
  <2> QED BY <2>1
<1>5. PICK r \in [1..(n - 1) -> R] : Ascends(r)
  BY <1>3 DEF CanBeOrdered
<1> HIDE DEF n
<1> DEFINE s == [i \in 1..n |-> IF i = 1 THEN m ELSE r[i - 1]]
<1>6. \A i \in 1..n : i # 1 => i - 1 \in 1..(n - 1)
  BY <1>1
<1>7. s \in [1..n -> G]
  BY <1>5, <1>6
<1>8. Ascends(s)
  <2> SUFFICES ASSUME NEW i \in 1..n, NEW j \in 1..n, i < j PROVE s[i] < s[j]
    BY DEF Ascends
  <2>1. j # 1 /\ j - 1 \in 1..(n - 1) /\ s[j] = r[j - 1] /\ r[j - 1] \in R
    BY <1>1, <1>5, <1>6
  <2>2. CASE i = 1
    BY <1>4, <2>1, <2>2
  <2>3. CASE i # 1
    <3>1. i - 1 \in 1..(n - 1) /\ i - 1 < j - 1 /\ s[i] = r[i - 1]
      BY <1>1, <1>6, <2>3
    <3> QED BY <1>5, <2>1, <3>1 DEF Ascends
  <2> QED BY <2>2, <2>3
<1> QED BY <1>7, <1>8 DEF CanBeOrdered, n

LEMMA AllCanBeOrdered ==
  ASSUME NEW G \in SUBSET Nat, IsFiniteSet(G)
  PROVE  CanBeOrdered(G)
<1> DEFINE Bad == {n \in Nat : \E S1 \in SUBSET Nat : IsFiniteSet(S1) /\ Cardinality(S1) = n /\ ~CanBeOrdered(S1)}
<1> SUFFICES ASSUME Bad # {} PROVE FALSE
  BY FS_CardinalityType
<1>1. PICK n \in Bad : \A j \in Bad : n <= j
  BY Least
<1>2. PICK S1 \in SUBSET Nat : IsFiniteSet(S1) /\ Cardinality(S1) = n /\ ~CanBeOrdered(S1)
  BY <1>1
<1>3. CASE S1 = {}
  <2>1. 1..Cardinality(S1) = {}
    BY <1>3, FS_EmptySet
  <2>2. [i \in 1..Cardinality(S1) |-> 0] \in [1..Cardinality(S1) -> S1]
    BY <2>1
  <2>3. Ascends([i \in 1..Cardinality(S1) |-> 0])
    BY <2>1 DEF Ascends
  <2> QED BY <1>2, <2>2, <2>3 DEF CanBeOrdered
<1>4. CASE S1 # {}
  <2>1. n \in Nat /\ n # 0
    BY <1>1, <1>2, <1>4, FS_EmptySet
  <2>2. n - 1 \in Nat /\ ~(n <= n - 1)
    BY <2>1
  <2>3. n - 1 \notin Bad
    BY <1>1, <2>2
  <2>4. \A H1 \in SUBSET Nat : IsFiniteSet(H1) /\ Cardinality(H1) = Cardinality(S1) - 1 => CanBeOrdered(H1)
    BY <1>2, <2>2, <2>3
  <2> QED BY <1>2, <1>4, <2>4, LeastFirst
<1> QED BY <1>3, <1>4

\* What Ordered makes of a set: each of its numbers, once.
LEMMA OrderedIs ==
  ASSUME NEW G \in SUBSET Nat, IsFiniteSet(G)
  PROVE  /\ P!Ordered(G) \in Seq(G) /\ Len(P!Ordered(G)) \in Nat
         /\ DOMAIN P!Ordered(G) = 1..Len(P!Ordered(G))
         /\ Ascends(P!Ordered(G))
         /\ \A x \in G : \E i \in DOMAIN P!Ordered(G) : P!Ordered(G)[i] = x
<1> DEFINE n == Cardinality(G)
           s == CHOOSE t \in [1..n -> G] : Ascends(t)
<1>1. n \in Nat
  BY FS_CardinalityType
<1>2. P!Cardinality(G) = n
  BY DEF P!Cardinality, Cardinality
<1>3. P!Ordered(G) = s
  BY <1>2 DEF P!Ordered, Ascends
<1>4. \E t \in [1..n -> G] : Ascends(t)
  BY AllCanBeOrdered DEF CanBeOrdered
<1>5. s \in [1..n -> G] /\ Ascends(s)
  BY <1>4
<1> HIDE DEF s
<1>6. IsFiniteSet(1..n) /\ Cardinality(1..n) = n
  BY <1>1, FS_Interval
<1> HIDE DEF n
<1>7. \A i, j \in 1..n : s[i] = s[j] => i = j
  <2> SUFFICES ASSUME NEW i \in 1..n, NEW j \in 1..n, s[i] = s[j], i # j PROVE FALSE
    OBVIOUS
  <2>1. s[i] \in Nat /\ s[j] \in Nat /\ DOMAIN s = 1..n
    BY <1>5
  <2>2. i < j \/ j < i
    BY <1>1
  <2> QED BY <1>5, <2>1, <2>2 DEF Ascends
<1>8. s \in Injection(1..n, G)
  BY <1>5, <1>7 DEF Injection, IsInjective
<1>9. s \in Surjection(1..n, G)
  BY <1>6, <1>8, FS_Injection DEF n
<1>10. \A x \in G : \E i \in 1..n : s[i] = x
  BY <1>9 DEF Surjection
<1>11. s \in Seq(G) /\ DOMAIN s = 1..n /\ Len(s) = n
  BY <1>1, <1>5
<1> QED BY <1>1, <1>3, <1>5, <1>10, <1>11

LEMMA Greatest ==
  ASSUME NEW G \in SUBSET Nat, IsFiniteSet(G), G # {}
  PROVE  \E i \in G : \A j \in G : j <= i
<1> DEFINE s == P!Ordered(G)
<1>1. /\ s \in Seq(G) /\ Len(s) \in Nat /\ DOMAIN s = 1..Len(s) /\ Ascends(s)
      /\ \A x \in G : \E i \in DOMAIN s : s[i] = x
  BY OrderedIs
<1> HIDE DEF s
<1>2. PICK x \in G : TRUE
  OBVIOUS
<1>3. Len(s) \in DOMAIN s
  BY <1>1, <1>2
<1>4. s[Len(s)] \in G
  BY <1>1, <1>3
<1>5. ASSUME NEW j \in G PROVE j <= s[Len(s)]
  <2>1. PICK i \in DOMAIN s : s[i] = j
    BY <1>1
  <2>2. i \in Nat /\ i <= Len(s)
    BY ONLY <1>1, i \in DOMAIN s
  <2>5. j \in Nat /\ s[Len(s)] \in Nat
    BY <1>4
  <2>3. CASE i = Len(s)
    BY <2>1, <2>5, <2>3
  <2>4. CASE i < Len(s)
    <3>1. s[i] < s[Len(s)]
      BY <1>1, <1>3, <2>1, <2>4 DEF Ascends
    <3> QED BY <2>1, <2>5, <3>1
  <2> QED BY <1>1, <2>2, <2>3, <2>4
<1> QED BY <1>4, <1>5

Value == Word \cup {None}
Pair == Name \X Value
LastOf(k) == CHOOSE i \in P!Keys : args[i].key = k /\ \A j \in P!Keys : args[j].key = k => j <= i

\* What the property says of the parsers that were called, of what else is there, and of the result.
WasGiven(c) == \A n \in DOMAIN c : \E i \in P!Positions(c[n][1]) : c[n][2] \in {args[i].value, P!Given(i)}
SetLast(c, i) == \E n \in DOMAIN c :
  /\ c[n][1] = args[i].key /\ c[n][2] \in {args[i].value, P!Given(i)}
  /\ \A m \in DOMAIN c : c[m][1] = args[i].key => m <= n
AllSet(c) == \A i \in P!Keys :
  args[i].key \in Known /\ (\A j \in P!Positions(args[i].key) : j <= i) => SetLast(c, i)
AllKept(v) == \A i \in DOMAIN args \ P!Keys :
  P!Takes(i - 1) \/ \E n \in DOMAIN v : v[n] = args[i].value
Done(c, v, o) == WasGiven(c) /\ (o = "true" => AllSet(c)) /\ (o # "none" => AllKept(v))

PInv ==
  /\ args \in Seq(P!Argument) /\ called \in Seq(Pair) /\ individual \in Seq(Word)
  /\ outcome \in {"none", "true", "false"} /\ (outcome = "none" => called = <<>>)
  /\ Done(called, individual, outcome)

LEMMA PropertyIsDone == Done(called, individual, outcome) <=> P!ArgsAreSet
BY DEF Done, WasGiven, SetLast, AllSet, AllKept, P!ArgsAreSet

LEMMA ArgumentIs ==
  ASSUME NEW a \in P!Argument
  PROVE  /\ a.value \in Value
         /\ P!IsKey(a) => a.key \in Name
         /\ ~P!IsKey(a) => a.value \in Word /\ a.key = None
BY ArgsAssumption DEF P!Argument, P!IsKey, Value

LEMMA GivenIs ==
  ASSUME args \in Seq(P!Argument)
  PROVE  /\ Len(args) \in Nat /\ DOMAIN args = 1..Len(args) /\ DOMAIN args \in SUBSET Nat
         /\ IsFiniteSet(DOMAIN args) /\ \A i \in DOMAIN args : args[i] \in P!Argument
         /\ \A i \in DOMAIN args : P!Given(i) \in Value
         /\ P!Keys \subseteq DOMAIN args /\ \A i \in P!Keys : P!IsKey(args[i]) /\ args[i].key \in Name
         /\ \A i \in DOMAIN args \ P!Keys : ~P!IsKey(args[i]) /\ args[i].value \in Word
<1>1. Len(args) \in Nat /\ DOMAIN args = 1..Len(args) /\ DOMAIN args \in SUBSET Nat
  OBVIOUS
<1>2. IsFiniteSet(DOMAIN args)
  BY <1>1, FS_Interval
<1>3. \A i \in DOMAIN args : args[i] \in P!Argument
  OBVIOUS
<1>4. ASSUME NEW i \in DOMAIN args PROVE P!Given(i) \in Value
  <2>1. CASE P!Takes(i)
    <3>1. i + 1 \in DOMAIN args
      BY <1>1, <2>1 DEF P!Takes
    <3>2. args[i + 1].value \in Value
      BY <1>3, <3>1, ArgumentIs
    <3> QED BY <2>1, <3>2 DEF P!Given
  <2>2. CASE ~P!Takes(i)
    BY <1>3, <2>2, ArgumentIs DEF P!Given
  <2> QED BY <2>1, <2>2
<1>5. P!Keys \subseteq DOMAIN args /\ \A i \in P!Keys : P!IsKey(args[i]) /\ args[i].key \in Name
  BY <1>3, ArgumentIs DEF P!Keys
<1>6. \A i \in DOMAIN args \ P!Keys : ~P!IsKey(args[i]) /\ args[i].value \in Word
  BY <1>3, ArgumentIs DEF P!Keys
<1> QED BY <1>1, <1>2, <1>3, <1>4, <1>5, <1>6

LEMMA MapIs ==
  ASSUME args \in Seq(P!Argument)
  PROVE  /\ DOMAIN P!args_map \in SUBSET Nat /\ DOMAIN P!args_map \subseteq Name
         /\ IsFiniteSet(DOMAIN P!args_map)
         /\ \A i \in P!Keys : args[i].key \in DOMAIN P!args_map
         /\ \A k \in DOMAIN P!args_map :
              /\ LastOf(k) \in P!Positions(k) /\ \A j \in P!Positions(k) : j <= LastOf(k)
              /\ P!args_map[k] = P!Given(LastOf(k))
<1> DEFINE D == {args[i].key : i \in P!Keys}
<1>1. P!args_map = [k \in D |-> P!Given(LastOf(k))]
  BY DEF P!args_map, LastOf
<1>2. DOMAIN P!args_map = D /\ \A k \in D : P!args_map[k] = P!Given(LastOf(k))
  BY <1>1
<1>3. P!Keys \in SUBSET (DOMAIN args) /\ IsFiniteSet(DOMAIN args) /\ DOMAIN args \in SUBSET Nat
  BY GivenIs
<1>4. IsFiniteSet(P!Keys)
  BY <1>3, FS_Subset
<1>5. D \subseteq Name /\ Name \subseteq Nat
  BY GivenIs, ArgsAssumption
<1>6. IsFiniteSet(D)
  <2> DEFINE g == [i \in P!Keys |-> args[i].key]
  <2>1. g \in Surjection(P!Keys, D)
    BY DEF Surjection
  <2> HIDE DEF g, D
  <2> QED BY <1>4, <2>1, FS_Surjection
<1>7. ASSUME NEW k \in D
      PROVE  LastOf(k) \in P!Positions(k) /\ \A j \in P!Positions(k) : j <= LastOf(k)
  <2>1. P!Positions(k) \in SUBSET P!Keys /\ P!Positions(k) # {}
    BY DEF P!Positions
  <2>2. IsFiniteSet(P!Positions(k)) /\ P!Positions(k) \in SUBSET Nat
    BY <1>3, <1>4, <2>1, FS_Subset
  <2>3. \E i \in P!Positions(k) : \A j \in P!Positions(k) : j <= i
    BY <2>1, <2>2, Greatest
  <2>4. \E i \in P!Keys : args[i].key = k /\ \A j \in P!Keys : args[j].key = k => j <= i
    BY <2>3 DEF P!Positions
  <2>5. LastOf(k) \in P!Keys /\ args[LastOf(k)].key = k /\ \A j \in P!Keys : args[j].key = k => j <= LastOf(k)
    BY <2>4 DEF LastOf
  <2> QED BY <2>5 DEF P!Positions
<1>8. \A i \in P!Keys : args[i].key \in D
  OBVIOUS
<1> HIDE DEF D
<1> QED BY <1>2, <1>5, <1>6, <1>7, <1>8

\* The individual arguments: every word that no key takes.
LEMMA RestIs ==
  ASSUME args \in Seq(P!Argument)
  PROVE  /\ P!Rest \in Seq(Word)
         /\ \A i \in DOMAIN args \ P!Keys : P!Takes(i - 1) \/ \E n \in DOMAIN P!Rest : P!Rest[n] = args[i].value
<1> DEFINE G == {i \in DOMAIN args : ~P!IsKey(args[i]) /\ ~P!Takes(i - 1)}
           s == P!Ordered(G)
           r == [n \in DOMAIN s |-> args[s[n]].value]
<1>1. G \in SUBSET (DOMAIN args) /\ \A i \in G : args[i].value \in Word
  BY GivenIs DEF P!Keys
<1>2. \A i \in DOMAIN args \ P!Keys : P!Takes(i - 1) \/ i \in G
  BY GivenIs
<1>3. P!Rest = r
  BY DEF P!Rest
<1> HIDE DEF G
<1>4. G \in SUBSET Nat /\ IsFiniteSet(G)
  BY <1>1, GivenIs, FS_Subset
<1>5. /\ s \in Seq(G) /\ Len(s) \in Nat /\ DOMAIN s = 1..Len(s)
      /\ \A x \in G : \E i \in DOMAIN s : s[i] = x
  BY <1>4, OrderedIs
<1> HIDE DEF s
<1>6. \A n \in DOMAIN s : s[n] \in G
  BY <1>5
<1>7. r \in [1..Len(s) -> Word]
  BY <1>1, <1>5, <1>6
<1>8. r \in Seq(Word) /\ DOMAIN r = DOMAIN s
  BY <1>5, <1>7
<1>9. \A i \in G : \E n \in DOMAIN r : r[n] = args[i].value
  BY <1>5, <1>8
<1> HIDE DEF r
<1> QED BY <1>2, <1>3, <1>8, <1>9

LEMMA Unchanged ==
  ASSUME args' = args, Done(called', individual', outcome')
  PROVE  Done(called, individual, outcome)'
BY DEF Done, WasGiven, SetLast, AllSet, AllKept, P!Positions, P!Given, P!Takes, P!Keys, P!IsKey

LEMMA ParseStep == PInv /\ P!parse => PInv'
<1> SUFFICES ASSUME PInv, P!parse PROVE PInv'
  OBVIOUS
<1> DEFINE ks == P!Ordered(DOMAIN P!args_map)
           unknown == {i \in DOMAIN ks : ks[i] \notin Known}
           n == IF unknown = {} THEN Len(ks)
                ELSE (CHOOSE i \in unknown : \A j \in unknown : i <= j) - 1
           c == [i \in 1..n |-> <<ks[i], P!args_map[ks[i]]>>]
<1>1. args \in Seq(P!Argument) /\ individual \in Seq(Word)
  BY DEF PInv
<1>2. /\ individual' = individual \o P!Rest /\ called' = c /\ args' = args
      /\ outcome' = IF unknown = {} THEN "true" ELSE "false"
  BY DEF P!parse
<1>3. /\ DOMAIN P!args_map \in SUBSET Nat /\ DOMAIN P!args_map \subseteq Name
      /\ IsFiniteSet(DOMAIN P!args_map)
      /\ \A i \in P!Keys : args[i].key \in DOMAIN P!args_map
  BY <1>1, MapIs
<1>4. \A k \in DOMAIN P!args_map :
        /\ LastOf(k) \in P!Positions(k) /\ \A j \in P!Positions(k) : j <= LastOf(k)
        /\ P!args_map[k] = P!Given(LastOf(k))
  BY <1>1, MapIs
<1>5. /\ ks \in Seq(DOMAIN P!args_map) /\ Len(ks) \in Nat /\ DOMAIN ks = 1..Len(ks) /\ Ascends(ks)
      /\ \A x \in DOMAIN P!args_map : \E i \in DOMAIN ks : ks[i] = x
  BY <1>3, OrderedIs
<1> HIDE DEF ks
<1>6. \A i \in DOMAIN ks : ks[i] \in DOMAIN P!args_map
  BY <1>5
<1>7. unknown # {} => n + 1 \in unknown /\ n \in Nat
  <2> SUFFICES ASSUME unknown # {} PROVE n + 1 \in unknown /\ n \in Nat
    OBVIOUS
  <2> DEFINE f == CHOOSE i \in unknown : \A j \in unknown : i <= j
  <2>1. unknown \subseteq Nat
    BY <1>5
  <2>2. \E i \in unknown : \A j \in unknown : i <= j
    BY <2>1, Least
  <2>3. f \in unknown
    BY <2>2
  <2>4. n = f - 1
    OBVIOUS
  <2> HIDE DEF f, n
  <2>5. f \in 1..Len(ks)
    BY <1>5, <2>3
  <2>6. f - 1 \in Nat /\ (f - 1) + 1 = f
    BY <1>5, <2>5
  <2> QED BY <2>3, <2>4, <2>6
<1>8. n \in 0..Len(ks) /\ (unknown = {} => n = Len(ks))
  <2>1. CASE unknown = {}
    BY <1>5, <2>1
  <2>2. CASE unknown # {}
    <3>1. n + 1 \in 1..Len(ks) /\ n \in Nat
      BY <1>5, <1>7, <2>2
    <3>2. Len(ks) \in Nat
      BY <1>5
    <3> HIDE DEF n
    <3>3. n \in 0..Len(ks)
      BY ONLY <3>1, <3>2
    <3> QED BY <2>2, <3>3
  <2> QED BY <2>1, <2>2
<1> HIDE DEF n, unknown
<1>9. DOMAIN c = 1..n /\ 1..n \subseteq DOMAIN ks /\ n \in Nat
  <2>1. Len(ks) \in Nat /\ DOMAIN ks = 1..Len(ks)
    BY <1>5
  <2>4. \A l \in Nat : \A m \in 0..l : m \in Nat /\ m <= l
    OBVIOUS
  <2>2. n \in Nat /\ n <= Len(ks)
    BY <1>8, <2>1, <2>4, Zenon
  <2>3. 1..n \subseteq 1..Len(ks)
    BY ONLY <2>1, <2>2
  <2> QED BY <2>1, <2>2, <2>3
<1>10. \A i \in 1..n : c[i] = <<ks[i], P!args_map[ks[i]]>> /\ c[i][1] = ks[i] /\ c[i][2] = P!args_map[ks[i]]
  OBVIOUS
<1>11. \A k \in DOMAIN P!args_map : P!Given(LastOf(k)) \in Value
  BY <1>1, <1>4, GivenIs DEF P!Positions
<1>12. \A i \in 1..n : c[i] \in Pair
  BY <1>3, <1>4, <1>6, <1>9, <1>10, <1>11 DEF Pair
<1>13. c \in [1..n -> Pair]
  BY <1>12
<1>14. c \in Seq(Pair)
  BY <1>9, <1>13
<1> HIDE DEF c
<1>15. P!Rest \in Seq(Word)
  BY <1>1, RestIs
<1>16. /\ individual' \in Seq(Word) /\ Len(individual') = Len(individual) + Len(P!Rest)
       /\ \A i \in 1..Len(individual') :
            individual'[i] = IF i <= Len(individual) THEN individual[i] ELSE P!Rest[i - Len(individual)]
  BY <1>1, <1>2, <1>15, Joined
<1>17. WasGiven(c)
  <2> SUFFICES ASSUME NEW i \in 1..n PROVE \E j \in P!Positions(c[i][1]) : c[i][2] \in {args[j].value, P!Given(j)}
    BY <1>9 DEF WasGiven
  <2>1. ks[i] \in DOMAIN P!args_map
    BY <1>6, <1>9
  <2> QED BY <1>4, <1>10, <2>1
<1>18. outcome' = "true" => AllSet(c)
  <2> SUFFICES ASSUME unknown = {}, NEW i \in P!Keys, args[i].key \in Known,
                      \A j \in P!Positions(args[i].key) : j <= i
               PROVE  SetLast(c, i)
    BY <1>2 DEF AllSet
  <2> DEFINE k == args[i].key
  <2>1. k \in DOMAIN P!args_map
    BY <1>3
  <2>2. PICK m \in DOMAIN ks : ks[m] = k
    BY <1>5, <2>1
  <2>3. m \in 1..n
    BY <1>5, <1>8, <2>2
  <2>4. i = LastOf(k)
    <3>1. i \in P!Positions(k)
      BY DEF P!Positions
    <3>2. LastOf(k) <= i /\ i <= LastOf(k) /\ LastOf(k) \in P!Positions(k)
      BY <1>4, <2>1, <3>1
    <3>3. i \in Nat /\ LastOf(k) \in Nat
      BY <1>1, <3>1, <3>2, GivenIs DEF P!Positions
    <3> QED BY <3>2, <3>3
  <2>5. c[m][1] = k /\ c[m][2] = P!Given(i)
    BY <1>4, <1>10, <2>1, <2>2, <2>3, <2>4
  <2>6. ASSUME NEW p \in 1..n, c[p][1] = k PROVE p <= m
    <3>1. ks[p] = ks[m] /\ p \in DOMAIN ks
      BY <1>9, <1>10, <2>2, <2>6
    <3>2. ks[m] \in Nat /\ p \in Nat /\ m \in Nat
      BY <1>3, <1>5, <1>6, <2>2, <3>1
    <3>3. ~(m < p)
      BY <1>5, <2>2, <3>1, <3>2 DEF Ascends
    <3> QED BY <3>2, <3>3
  <2> QED BY <1>9, <2>3, <2>5, <2>6 DEF SetLast
<1>19. AllKept(individual')
  <2> SUFFICES ASSUME NEW i \in DOMAIN args \ P!Keys, ~P!Takes(i - 1)
               PROVE  \E m \in DOMAIN individual' : individual'[m] = args[i].value
    BY DEF AllKept
  <2>1. PICK p \in DOMAIN P!Rest : P!Rest[p] = args[i].value
    BY <1>1, RestIs
  <2>2. p \in 1..Len(P!Rest) /\ Len(P!Rest) \in Nat /\ Len(individual) \in Nat
    BY <1>1, <1>15, <2>1
  <2> DEFINE m == Len(individual) + p
  <2>3. m \in 1..Len(individual') /\ ~(m <= Len(individual)) /\ m - Len(individual) = p
    BY <1>16, <2>2
  <2> HIDE DEF m
  <2>4. individual'[m] = P!Rest[p]
    BY <1>16, <2>3
  <2>5. m \in DOMAIN individual'
    BY <1>16, <2>3
  <2> QED BY <2>1, <2>4, <2>5
<1>20. Done(called', individual', outcome')
  BY <1>2, <1>17, <1>18, <1>19 DEF Done
<1>21. Done(called, individual, outcome)'
  BY <1>2, <1>20, Unchanged
<1>22. outcome' \in {"true", "false"} /\ called' \in Seq(Pair) /\ args' \in Seq(P!Argument)
  BY <1>1, <1>2, <1>14
<1> QED BY <1>16, <1>21, <1>22 DEF PInv, P!Argument

LEMMA ConfigStep == PInv /\ P!parse_config => PInv'
<1> SUFFICES ASSUME PInv, P!parse_config PROVE PInv'
  OBVIOUS
<1> DEFINE G == {i \in DOMAIN args : args[i].key \in Known}
           s == P!Ordered(G)
           c == [m \in DOMAIN s |-> <<args[s[m]].key, args[s[m]].value>>]
<1>1. args \in Seq(P!Argument) /\ individual \in Seq(Word)
  BY DEF PInv
<1>2. /\ individual' = individual /\ called' = c /\ args' = args /\ outcome' = "true"
      /\ \A i \in DOMAIN args : P!IsKey(args[i])
  BY DEF P!parse_config
<1>3. G \in SUBSET (DOMAIN args) /\ \A i \in DOMAIN args : args[i].key \in Known => i \in G
  OBVIOUS
<1> HIDE DEF G
<1>4. G \in SUBSET Nat /\ IsFiniteSet(G)
  BY <1>1, <1>3, GivenIs, FS_Subset
<1>5. /\ s \in Seq(G) /\ Len(s) \in Nat /\ DOMAIN s = 1..Len(s) /\ Ascends(s)
      /\ \A x \in G : \E i \in DOMAIN s : s[i] = x
  BY <1>4, OrderedIs
<1> HIDE DEF s
<1>6. \A m \in DOMAIN s : s[m] \in G /\ s[m] \in DOMAIN args
  BY <1>3, <1>5
<1>7. P!Keys = DOMAIN args
  BY <1>2 DEF P!Keys
<1>8. \A i \in DOMAIN args : args[i].key \in Name /\ args[i].value \in Value
  BY <1>1, <1>2, GivenIs, ArgumentIs
<1>9. c \in [1..Len(s) -> Pair]
  BY <1>5, <1>6, <1>8 DEF Pair
<1>10. c \in Seq(Pair) /\ DOMAIN c = DOMAIN s
  BY <1>5, <1>9
<1>11. \A m \in DOMAIN s : c[m][1] = args[s[m]].key /\ c[m][2] = args[s[m]].value
  OBVIOUS
<1> HIDE DEF c
<1>12. WasGiven(c)
  BY <1>6, <1>7, <1>10, <1>11 DEF WasGiven, P!Positions
<1>13. AllSet(c)
  <2> SUFFICES ASSUME NEW i \in P!Keys, args[i].key \in Known,
                      \A j \in P!Positions(args[i].key) : j <= i
               PROVE  SetLast(c, i)
    BY DEF AllSet
  <2>1. i \in G
    BY <1>3, <1>7
  <2>2. PICK m \in DOMAIN s : s[m] = i
    BY <1>5, <2>1
  <2>3. ASSUME NEW p \in DOMAIN s, c[p][1] = args[i].key PROVE p <= m
    <3>1. s[p] \in P!Positions(args[i].key)
      BY <1>6, <1>7, <1>11, <2>3 DEF P!Positions
    <3>2. s[p] <= s[m] /\ s[p] \in Nat /\ s[m] \in Nat /\ p \in Nat /\ m \in Nat
      BY <1>4, <1>5, <1>6, <2>2, <3>1
    <3>3. ~(m < p)
      BY <1>5, <3>2 DEF Ascends
    <3> QED BY <3>2, <3>3
  <2> QED BY <1>10, <1>11, <2>2, <2>3 DEF SetLast
<1>14. AllKept(individual')
  BY <1>7 DEF AllKept
<1>15. Done(called', individual', outcome')
  BY <1>2, <1>12, <1>13, <1>14 DEF Done
<1>16. Done(called, individual, outcome)'
  BY <1>2, <1>15, Unchanged
<1>17. outcome' = "true" /\ called' \in Seq(Pair) /\ args' \in Seq(P!Argument) /\ individual' \in Seq(Word)
  BY <1>1, <1>2, <1>10
<1> QED BY <1>16, <1>17 DEF PInv, P!Argument

LEMMA NotYet ==
  ASSUME NEW v, NEW o, o = "none"
  PROVE  Done(<<>>, v, o)
BY DEF Done, WasGiven

LEMMA ArgsStep == PInv /\ [P!Next]_pvars => PInv'
<1> SUFFICES ASSUME PInv, [P!Next]_pvars PROVE PInv'
  OBVIOUS
<1>1. CASE P!Again
  <2>1. args' = <<>> /\ called' = <<>> /\ outcome' = "none" /\ individual' = individual
    BY <1>1 DEF P!Again
  <2>2. Done(called, individual, outcome)'
    BY <2>1 DEF Done, WasGiven
  <2>3. args' \in Seq(P!Argument) /\ called' \in Seq(Pair) /\ individual' \in Seq(Word)
    BY <2>1 DEF PInv
  <2> QED BY <2>1, <2>2, <2>3 DEF PInv, P!Argument
<1>2. ASSUME NEW a \in P!Argument, P!Type(a) PROVE PInv'
  <2>1. /\ args' = Append(args, a) /\ called' = called /\ outcome' = outcome /\ individual' = individual
        /\ outcome = "none"
    BY <1>2 DEF P!Type
  <2>2. called = <<>>
    BY <2>1 DEF PInv
  <2>3. Done(called, individual, outcome)'
    BY <2>1, <2>2 DEF Done, WasGiven
  <2>4. args' \in Seq(P!Argument) /\ called' \in Seq(Pair) /\ individual' \in Seq(Word)
    BY <2>1 DEF PInv
  <2> QED BY <2>1, <2>2, <2>3, <2>4 DEF PInv, P!Argument
<1>3. CASE UNCHANGED pvars
  <2>1. args' = args /\ called' = called /\ outcome' = outcome /\ individual' = individual
    BY <1>3 DEF pvars
  <2>2. Done(called', individual', outcome')
    BY <2>1 DEF PInv
  <2>3. Done(called, individual, outcome)'
    BY <2>1, <2>2, Unchanged
  <2> QED BY <2>1, <2>3 DEF PInv, P!Argument
<1> QED BY <1>1, <1>2, <1>3, ParseStep, ConfigStep DEF P!Next

----------------------------------------------------------------------------
(* Requests.                                                               *)

\* An object counts the arguments it has.
Exact(c) == c.count = Len(c.items) /\ Len(c.items) <= MaxArg
QInv == Q!TypeOK /\ Exact(sent) /\ \A c \in Command : Exact(cmd[c])

LEMMA RequestSuffices == QInv => Q!CountsAreExact
BY DEF QInv, Exact, Q!CountsAreExact

LEMMA RequestInit == Q!Init => QInv
<1> SUFFICES ASSUME Q!Init PROVE QInv
  OBVIOUS
<1>1. Q!Nothing \in Q!Content /\ Exact(Q!Nothing)
  BY CommandAssumption DEF Q!Nothing, Q!Content, Exact
<1> QED BY <1>1 DEF Q!Init, QInv, Q!TypeOK

\* An object gets content that is exact, and the last request is one that was an object's.
LEMMA RequestStep == QInv /\ [Q!Next]_qvars => QInv'
<1> SUFFICES ASSUME QInv, [Q!Next]_qvars PROVE QInv'
  OBVIOUS
<1>1. Q!Nothing \in Q!Content /\ Exact(Q!Nothing)
  BY CommandAssumption DEF Q!Nothing, Q!Content, Exact
<1>2. cmd \in [Command -> Q!Content] /\ sent \in Q!Content /\ password \in Seq(Char)
  BY DEF QInv, Q!TypeOK
<1>3. ASSUME NEW c \in Command, NEW d \in Command, NEW x \in Q!Content, NEW y \in Q!Content, Exact(x), Exact(y),
             cmd' = [cmd EXCEPT ![d] = x, ![c] = y], UNCHANGED <<sent, password>>
      PROVE  QInv'
  <2> DEFINE one == [cmd EXCEPT ![d] = x]
  <2>1. one \in [Command -> Q!Content] /\ \A e \in Command : Exact(one[e])
    BY <1>2, <1>3 DEF QInv
  <2>2. cmd' = [one EXCEPT ![c] = y]
    BY <1>3
  <2> HIDE DEF one
  <2>3. cmd' \in [Command -> Q!Content] /\ \A e \in Command : Exact(cmd'[e])
    BY <1>3, <2>1, <2>2
  <2> QED BY <1>2, <1>3, <2>3 DEF QInv, Q!TypeOK, Q!Content, Exact
<1>4. ASSUME NEW c \in Command, NEW x \in Q!Content, Exact(x), cmd' = [cmd EXCEPT ![c] = x],
             sent' \in Q!Content, Exact(sent'), password' = password
      PROVE  QInv'
  <2>1. cmd' \in [Command -> Q!Content] /\ \A e \in Command : Exact(cmd'[e])
    BY <1>2, <1>4 DEF QInv
  <2> QED BY <1>2, <1>4, <2>1 DEF QInv, Q!TypeOK, Q!Content, Exact
<1>5. Exact(sent) /\ \A c \in Command : Exact(cmd[c]) /\ cmd[c] \in Q!Content
  BY <1>2 DEF QInv
<1>6. ASSUME NEW c \in Command, NEW a \in Arg, Q!Concat(c, a) PROVE QInv'
  <2> DEFINE x == [count |-> cmd[c].count + 1, items |-> Append(cmd[c].items, a)]
  <2>1. Len(cmd[c].items) < MaxArg /\ cmd' = [cmd EXCEPT ![c] = x] /\ UNCHANGED <<sent, password>>
    BY <1>2, <1>6 DEF Q!Concat
  <2>2. /\ cmd[c].items \in Seq(Arg) /\ Len(cmd[c].items) \in Nat
        /\ cmd[c].count = Len(cmd[c].items)
    BY <1>5 DEF Exact, Q!Content
  <2>3. /\ Append(cmd[c].items, a) \in Seq(Arg)
        /\ Len(Append(cmd[c].items, a)) = cmd[c].count + 1
    BY <2>2
  <2>4. cmd[c].count + 1 \in 0..(2 * MaxArg) /\ cmd[c].count + 1 <= MaxArg
    BY <2>1, <2>2, CommandAssumption
  <2>5. x \in Q!Content /\ Exact(x)
    <3>1. x.count = cmd[c].count + 1 /\ x.items = Append(cmd[c].items, a)
      OBVIOUS
    <3> QED BY <2>3, <2>4, <3>1 DEF Exact, Q!Content
  <2> HIDE DEF x
  <2> QED BY <1>2, <1>4, <1>5, <2>1, <2>5
<1>7. ASSUME NEW c \in Command, NEW d \in Command, Q!Copy(c, d) PROVE QInv'
  BY <1>2, <1>4, <1>5, <1>7 DEF Q!Copy
<1>8. ASSUME NEW c \in Command, NEW d \in Command, Q!Take(c, d) PROVE QInv'
  BY <1>1, <1>3, <1>5, <1>8 DEF Q!Take
<1>9. ASSUME NEW c \in Command, Q!commit(c) \/ Q!clear(c) PROVE QInv'
  BY <1>1, <1>2, <1>4, <1>5, <1>9 DEF Q!commit, Q!clear, Q!str
<1>10. CASE Q!Type
  <2>1. password' \in Seq(Char) /\ UNCHANGED <<cmd, sent>>
    BY <1>2, <1>10 DEF Q!Type
  <2> QED BY <2>1 DEF QInv, Q!TypeOK, Q!Content, Exact
<1>11. CASE UNCHANGED qvars
  BY <1>11 DEF qvars, QInv, Q!TypeOK, Q!Content, Exact
<1> QED BY <1>6, <1>7, <1>8, <1>9, <1>10, <1>11 DEF Q!Next, Q!Assign, Q!Move

----------------------------------------------------------------------------
(* Waits with kqueue: WaitersAreArmed is inductive, given the types.       *)

\* What is armed, listed and waited for are filters and tasks (loopcore, tasklist).
LEMMA WaitsHaveTypes == KQ!Spec => []KQ!TypeOK
<1>1. KQ!init => KQ!TypeOK
  BY DEF KQ!init, KQ!TypeOK
<1>2. KQ!TypeOK /\ [KQ!Next]_KQ!kq_vars => KQ!TypeOK'
  <2> SUFFICES ASSUME KQ!TypeOK, [KQ!Next]_KQ!kq_vars PROVE KQ!TypeOK'
    OBVIOUS
  <2>1. CASE KQ!stop
    BY <2>1 DEF KQ!stop, KQ!TypeOK
  <2>2. CASE KQ!World
    BY <2>2 DEF KQ!World, KQ!TypeOK
  <2>3. ASSUME NEW t \in Task, KQ!timeout(t) PROVE KQ!TypeOK'
    BY <2>3 DEF KQ!timeout, KQ!del_event, KQ!TypeOK, KQ!Filter
  <2>4. ASSUME NEW t \in Task, NEW f \in KQ!Filter, KQ!wait_for(t, f) PROVE KQ!TypeOK'
    BY <2>4 DEF KQ!wait_for, KQ!add_event, KQ!TypeOK
  <2>5. ASSUME NEW f \in KQ!Filter, KQ!on_event(f) PROVE KQ!TypeOK'
    BY <2>5 DEF KQ!on_event, KQ!del_event, KQ!Wake, KQ!TypeOK
  <2>6. ASSUME NEW f \in KQ!Filter, KQ!on_error(f) PROVE KQ!TypeOK'
    BY <2>6 DEF KQ!on_error, KQ!del_event, KQ!Wake, KQ!TypeOK
  <2>7. CASE UNCHANGED KQ!kq_vars
    BY <2>7 DEF KQ!kq_vars, KQ!TypeOK
  <2> QED
    BY <2>1, <2>2, <2>3, <2>4, <2>5, <2>6, <2>7 DEF KQ!Next
<1> QED
  BY <1>1, <1>2, PTL DEF KQ!Spec

\* A task that waits has its filter armed, unless another left the wait for the same one,
\* and an entry is that of a wait, unless the task has given up writing (loopcore::wait,
\* loopimpl::wait_for_reading and wait_for_writing).
THEOREM KqueueWaits == KQ!Spec => []KQ!WaitersAreArmed
<1>1. KQ!init => KQ!WaitersAreArmed
  BY DEF KQ!init, KQ!WaitersAreArmed
<1>2. KQ!TypeOK /\ KQ!WaitersAreArmed /\ [KQ!Next]_KQ!kq_vars => KQ!WaitersAreArmed'
  <2> SUFFICES ASSUME KQ!TypeOK, KQ!WaitersAreArmed, [KQ!Next]_KQ!kq_vars PROVE KQ!WaitersAreArmed'
    OBVIOUS
  <2>1. CASE KQ!stop
    BY <2>1 DEF KQ!stop, KQ!WaitersAreArmed
  <2>2. CASE KQ!World
    BY <2>2 DEF KQ!World, KQ!WaitersAreArmed
  <2>3. ASSUME NEW t \in Task, KQ!timeout(t) PROVE KQ!WaitersAreArmed'
    BY <2>3 DEF KQ!timeout, KQ!del_event, KQ!WaitersAreArmed, KQ!TypeOK, KQ!Filter, KQ!EventType
  <2>4. ASSUME NEW t \in Task, NEW f \in KQ!Filter, KQ!wait_for(t, f) PROVE KQ!WaitersAreArmed'
    BY <2>4, KqueueAssumption DEF KQ!wait_for, KQ!add_event, KQ!WaitersAreArmed, KQ!TypeOK
  <2>5. ASSUME NEW f \in KQ!Filter, KQ!on_event(f) PROVE KQ!WaitersAreArmed'
    <3> DEFINE gone == {r \in entries : r[1] = f}
               Woken == {r[2] : r \in gone}
    <3>1. /\ filters' = filters \ {f} /\ UNCHANGED <<core, late>>
          /\ waits' = [t \in Task |-> IF t \in Woken THEN None ELSE waits[t]]
          /\ entries' = entries \ gone /\ disarmed' = disarmed \ Woken
      BY <2>5 DEF KQ!on_event, KQ!del_event, KQ!Wake
    <3>2. \A r \in entries : r \in KQ!Filter \X Task /\ r = <<r[1], r[2]>> /\ r[2] \in Task
      BY DEF KQ!TypeOK
    <3> HIDE DEF gone, Woken
    <3>3. ASSUME NEW t \in Task, waits'[t] # None PROVE t \notin Woken /\ waits'[t] = waits[t]
      BY <3>1, <3>3
    <3>4. ASSUME NEW t \in Task, waits'[t] # None PROVE <<waits[t], t>> \in entries'
      <4>1. <<waits[t], t>> \in entries
        BY <3>3, <3>4 DEF KQ!WaitersAreArmed
      <4>2. <<waits[t], t>> \notin gone
        BY <3>3, <3>4 DEF Woken
      <4> QED
        BY <3>1, <4>1, <4>2
    <3>5. ASSUME NEW t \in Task \ disarmed', waits'[t] # None, core' PROVE waits'[t] \in filters'
      <4>1. t \notin Woken /\ waits'[t] = waits[t] /\ t \in Task \ disarmed
        BY <3>1, <3>3, <3>5
      <4>2. waits[t] \in filters /\ <<waits[t], t>> \in entries
        BY <3>1, <3>5, <4>1 DEF KQ!WaitersAreArmed
      <4>3. waits[t] # f
        BY <4>1, <4>2 DEF Woken, gone
      <4> QED
        BY <3>1, <4>1, <4>2, <4>3
    <3>6. ASSUME NEW r \in entries' PROVE r[2] \in late' \/ waits'[r[2]] = r[1]
      <4> SUFFICES ASSUME r[2] \notin late PROVE waits'[r[2]] = r[1]
        BY <3>1
      <4>1. r \in entries /\ r \notin gone /\ waits[r[2]] = r[1] /\ r[2] \in Task
        BY <3>1, <3>2, <3>6 DEF KQ!WaitersAreArmed
      <4>2. ASSUME r[2] \in Woken PROVE FALSE
        <5>1. PICK q \in gone : q[2] = r[2]
          BY <4>2 DEF Woken
        <5>2. q \in entries /\ waits[q[2]] = q[1]
          BY <5>1 DEF gone, KQ!WaitersAreArmed
        <5> QED
          BY <4>1, <5>1, <5>2 DEF gone
      <4> QED
        BY <3>1, <4>1, <4>2
    <3> QED
      BY <3>1, <3>3, <3>4, <3>5, <3>6 DEF KQ!WaitersAreArmed
  <2>6. ASSUME NEW f \in KQ!Filter, KQ!on_error(f) PROVE KQ!WaitersAreArmed'
    <3> DEFINE gone == {r \in entries : r[1][1] = f[1]}
               Woken == {r[2] : r \in gone}
    <3>1. /\ filters' = filters \ {f} /\ UNCHANGED <<core, late>>
          /\ waits' = [t \in Task |-> IF t \in Woken THEN None ELSE waits[t]]
          /\ entries' = entries \ gone /\ disarmed' = disarmed \ Woken
      BY <2>6 DEF KQ!on_error, KQ!del_event, KQ!Wake
    <3>2. \A r \in entries : r \in KQ!Filter \X Task /\ r = <<r[1], r[2]>> /\ r[2] \in Task
      BY DEF KQ!TypeOK
    <3> HIDE DEF gone, Woken
    <3>3. ASSUME NEW t \in Task, waits'[t] # None PROVE t \notin Woken /\ waits'[t] = waits[t]
      BY <3>1, <3>3
    <3>4. ASSUME NEW t \in Task, waits'[t] # None PROVE <<waits[t], t>> \in entries'
      <4>1. <<waits[t], t>> \in entries
        BY <3>3, <3>4 DEF KQ!WaitersAreArmed
      <4>2. <<waits[t], t>> \notin gone
        BY <3>3, <3>4 DEF Woken
      <4> QED
        BY <3>1, <4>1, <4>2
    <3>5. ASSUME NEW t \in Task \ disarmed', waits'[t] # None, core' PROVE waits'[t] \in filters'
      <4>1. t \notin Woken /\ waits'[t] = waits[t] /\ t \in Task \ disarmed
        BY <3>1, <3>3, <3>5
      <4>2. waits[t] \in filters /\ <<waits[t], t>> \in entries
        BY <3>1, <3>5, <4>1 DEF KQ!WaitersAreArmed
      <4>3. waits[t] # f
        BY <4>1, <4>2 DEF Woken, gone
      <4> QED
        BY <3>1, <4>1, <4>2, <4>3
    <3>6. ASSUME NEW r \in entries' PROVE r[2] \in late' \/ waits'[r[2]] = r[1]
      <4> SUFFICES ASSUME r[2] \notin late PROVE waits'[r[2]] = r[1]
        BY <3>1
      <4>1. r \in entries /\ r \notin gone /\ waits[r[2]] = r[1] /\ r[2] \in Task
        BY <3>1, <3>2, <3>6 DEF KQ!WaitersAreArmed
      <4>2. ASSUME r[2] \in Woken PROVE FALSE
        <5>1. PICK q \in gone : q[2] = r[2]
          BY <4>2 DEF Woken
        <5>2. q \in entries /\ waits[q[2]] = q[1]
          BY <5>1 DEF gone, KQ!WaitersAreArmed
        <5> QED
          BY <4>1, <5>1, <5>2 DEF gone
      <4> QED
        BY <3>1, <4>1, <4>2
    <3> QED
      BY <3>1, <3>3, <3>4, <3>5, <3>6 DEF KQ!WaitersAreArmed
  <2>7. CASE UNCHANGED KQ!kq_vars
    BY <2>7 DEF KQ!kq_vars, KQ!WaitersAreArmed
  <2> QED
    BY <2>1, <2>2, <2>3, <2>4, <2>5, <2>6, <2>7 DEF KQ!Next
<1> QED
  BY <1>1, <1>2, WaitsHaveTypes, PTL DEF KQ!Spec
=============================================================================
