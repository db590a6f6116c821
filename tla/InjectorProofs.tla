--------------------------- MODULE InjectorProofs ---------------------------
(***************************************************************************)
(* What holds of the injector for any calls, descriptors and pipe: a       *)
(* request starts once, in order and never after a refusal, and while      *)
(* nobody gives up, answers are those of the caller that reads them.       *)
(***************************************************************************)
EXTENDS Injector, TLAPS, NaturalsInduction, WellFoundedInduction

\* Calls, descriptors, the injecting task and none are different things.
Distinct ==
  /\ Quit \in Call /\ Fd \subseteq Nat /\ PipeMax \in Nat
  /\ None \notin Call /\ None \notin Fd /\ Self \notin Call

----------------------------------------------------------------------------
(* Lemmas about numbers and sequences.                                     *)

\* The kernel has a least free number when it has a free one.
LEMMA LeastIsFree ==
  ASSUME Fd \subseteq Nat, \E f \in Fd : owner[f] = None
  PROVE  LeastFree \in Fd /\ owner[LeastFree] = None
<1> DEFINE Free0 == {f \in Fd : owner[f] = None}
<1>1. PICK f \in Free0 : \A g \in Free0 : ~(<<g, f>> \in OpToRel(<, Nat))
  <2>1. Free0 \subseteq Nat /\ Free0 # {}
    OBVIOUS
  <2> HIDE DEF Free0
  <2> QED
    BY <2>1, NatLessThanWellFounded, WFMin
<1>2. \A g \in Free0 : f <= g
  <2> SUFFICES ASSUME NEW g \in Free0 PROVE f <= g
    OBVIOUS
  <2>1. f \in Nat /\ g \in Nat
    OBVIOUS
  <2>2. ~(g < f)
    BY <1>1, <2>1 DEF OpToRel
  <2> QED
    BY <2>1, <2>2
<1> QED
  BY <1>2 DEF LeastFree

\* The elements of the first sequence, then those of the second.
LEMMA Concat ==
  ASSUME NEW A, NEW r \in Seq(A), NEW p \in Seq(A)
  PROVE  /\ r \o p \in Seq(A) /\ Len(r) \in Nat /\ Len(p) \in Nat
         /\ Len(r \o p) = Len(r) + Len(p)
         /\ DOMAIN (r \o p) = 1..(Len(r) + Len(p))
         /\ \A i \in 1..Len(r) : (r \o p)[i] = r[i]
         /\ \A i \in 1..Len(p) : (r \o p)[Len(r) + i] = p[i]
  OBVIOUS

----------------------------------------------------------------------------
(* Types.                                                                  *)

\* A request is answered with -1 only after it was found in the pipe.
Drains == ij = "answer" => pipe # <<>>
Typed == TypeOK /\ Drains

LEMMA InitTyped == Init => Typed
  BY DEF Init, Typed, TypeOK, Drains, Kind

\* The steps of a call keep the types.
LEMMA CallerTyped ==
  ASSUME Distinct, Typed, CallerStep
  PROVE  Typed'
<1>1. ASSUME NEW c \in Call, NEW k \in Kind, Ask(c, k) PROVE Typed'
  <2>1. CASE io /\ k # "async"
    <3>1. LeastFree \in Fd
      BY <1>1, <2>1, LeastIsFree DEF Ask, Distinct
    <3> QED
      BY <1>1, <2>1, <3>1 DEF Ask, Typed, TypeOK, Drains
  <2>2. CASE ~(io /\ k # "async")
    BY <1>1, <2>2 DEF Ask, Typed, TypeOK, Drains
  <2> QED
    BY <2>1, <2>2
<1>2. ASSUME NEW c \in Call, Write(c) PROVE Typed'
  <2>1. CASE pipe' = pipe
    BY <1>2, <2>1 DEF Write, Typed, TypeOK, Drains
  <2>2. CASE pipe' = Append(pipe, c)
    <3>1. pipe' \in Seq(Call) /\ Len(pipe') = Len(pipe) + 1 /\ Len(pipe) \in Nat
      BY <2>2 DEF Typed, TypeOK
    <3>2. pipe' # <<>>
      BY <3>1
    <3> QED
      BY <1>2, <3>1, <3>2 DEF Write, Typed, TypeOK, Drains
  <2> QED
    BY <1>2, <2>1, <2>2 DEF Write
<1>3. ASSUME NEW c \in Call, NEW result \in {"true", "false"}, Leave(c, result) PROVE Typed'
  BY <1>3 DEF Leave, Typed, TypeOK, Drains
<1>4. ASSUME NEW c \in Call, Deadline(c) PROVE Typed'
  BY <1>4 DEF Deadline, Typed, TypeOK, Drains
<1> QED
  BY <1>1, <1>2, <1>3, <1>4
     DEF CallerStep, LoopExit, LoopCall, TaskCall, Answered, TimesOut, CallerCancelled, Kind, Distinct

\* So do those of the loop.
LEMMA LoopTyped ==
  ASSUME Distinct, Typed, LoopStep
  PROVE  Typed'
<1> USE DEF Typed, TypeOK, Drains, callers
<1>1. CASE IjWakes
  BY <1>1 DEF IjWakes
<1>2. CASE IjReads
  <2>1. CASE pipe = <<>>
    <3>1. Tail(ready) \in Seq(Call \cup {Self})
      BY <1>2 DEF IjReads, IsNext
    <3> QED
      BY <1>2, <2>1, <3>1 DEF IjReads
  <2>2. CASE pipe # <<>>
    <3>1. Head(pipe) \in Call /\ Tail(pipe) \in Seq(Call)
      BY <2>2
    <3>2. Tail(ready) \in Seq(Call \cup {Self})
      BY <1>2 DEF IjReads, IsNext
    <3>3. <<Head(pipe), Self>> \in Seq(Call \cup {Self})
      BY <3>1
    <3>4. ready' = Tail(ready) \o <<Head(pipe), Self>>
      BY <1>2, <2>2 DEF IjReads
    <3>5. ready' \in Seq(Call \cup {Self})
      BY <3>2, <3>3, <3>4, Concat
    <3> QED
      BY <1>2, <2>2, <3>1, <3>5 DEF IjReads
  <2> QED
    BY <2>1, <2>2
<1>3. CASE CancelAll
  BY <1>3 DEF CancelAll
<1>4. CASE IjBroken
  BY <1>4 DEF IjBroken, IsNext, Leaving
<1>5. CASE DrainSelect
  BY <1>5 DEF DrainSelect, Leaving
<1>6. CASE DrainOne
  <2>1. Head(pipe) \in Call /\ Tail(pipe) \in Seq(Call)
    BY <1>6 DEF DrainOne
  <2> QED
    BY <1>6, <2>1 DEF DrainOne, Post, Leaving
<1>7. CASE IjCloses
  BY <1>7 DEF IjCloses, Leaving
<1>8. CASE IjAtexit
  BY <1>8 DEF IjAtexit
<1>9. ASSUME NEW c \in Call, StartWork(c) PROVE Typed'
  BY <1>9 DEF StartWork, IsNext
<1>10. ASSUME NEW c \in Call, EndWork(c) PROVE Typed'
  BY <1>10 DEF EndWork
<1>11. ASSUME NEW c \in Call, WriteAnswer(c) PROVE Typed'
  BY <1>11 DEF WriteAnswer, Post
<1> QED
  BY <1>1, <1>2, <1>3, <1>4, <1>5, <1>6, <1>7, <1>8, <1>9, <1>10, <1>11 DEF LoopStep

\* Whatever the calls and the pipe, the state has the types it states (injector.cpp).
THEOREM InjectorTypes ==
  ASSUME Distinct
  PROVE  Spec => []Typed
<1>1. Typed /\ UNCHANGED vars => Typed'
  BY DEF Typed, TypeOK, Drains, vars, callers
<1>2. Typed /\ [Next]_vars => Typed'
  BY <1>1, CallerTyped, LoopTyped DEF Next
<1> QED
  BY <1>2, InitTyped, PTL DEF Spec

----------------------------------------------------------------------------
(* Every request is at one place.                                          *)

Written(c) == pc[c] \notin {"new", "checked"}

\* It is in the pipe and nowhere else.
Placed(c) == Written(c) /\ work[c] = "none" /\ c \notin refused

\* A request is written once, read once, and then made a task or refused.
Once ==
  /\ \A i \in 1..Len(pipe) : Placed(pipe[i])
  /\ \A i, j \in 1..Len(pipe) : pipe[i] = pipe[j] => i = j
  /\ \A i \in 1..Len(ready) : ready[i] # Self => work[ready[i]] = "new"
  /\ \A i, j \in 1..Len(ready) : ready[i] = ready[j] => i = j
  /\ \A c \in Call : work[c] # "none" => Written(c)
  /\ \A c \in refused : Written(c) /\ work[c] = "none"

LEMMA InitOnce == Init => Once
  BY DEF Init, Once, Placed

\* What a caller does: only the write adds to the pipe, once.
LEMMA CallerOnce ==
  ASSUME Distinct, Typed, Once, CallerStep
  PROVE  Once'
<1>1. ASSUME NEW c \in Call, NEW k \in Kind, Ask(c, k) PROVE Once'
  <2>1. /\ \A d \in Call : Written(d) => d # c /\ Written(d)'
        /\ UNCHANGED <<pipe, ready, work, refused>>
    BY <1>1 DEF Ask, Written, Typed, TypeOK
  <2>2. \A i \in 1..Len(pipe) : pipe[i] \in Call
    BY DEF Typed, TypeOK
  <2>3. refused \subseteq Call
    BY DEF Typed, TypeOK
  <2> QED
    BY <2>1, <2>2, <2>3 DEF Once, Placed
<1>2. ASSUME NEW c \in Call, Write(c) PROVE Once'
  <2>1. /\ \A d \in Call : Written(d) => d # c /\ Written(d)'
        /\ Written(c)' /\ work[c] = "none" /\ c \notin refused
        /\ UNCHANGED <<ready, work, refused>>
    BY <1>2 DEF Write, Written, Typed, TypeOK, Once, Placed
  <2>2. Len(pipe) \in Nat /\ refused \subseteq Call /\ \A i \in 1..Len(pipe) : pipe[i] \in Call
    BY DEF Typed, TypeOK
  <2>3. CASE pipe' = pipe
    BY <2>1, <2>2, <2>3 DEF Once, Placed
  <2>4. CASE pipe' = Append(pipe, c)
    <3>1. /\ Len(pipe') = Len(pipe) + 1 /\ pipe'[Len(pipe) + 1] = c
          /\ \A i \in 1..Len(pipe) : pipe'[i] = pipe[i]
      BY <2>4 DEF Typed, TypeOK
    <3>2. \A i \in 1..Len(pipe') : i \in 1..Len(pipe) \/ i = Len(pipe) + 1
      BY <2>2, <3>1
    <3>3. \A i \in 1..Len(pipe') : Placed(pipe[i])'
      BY <2>1, <2>2, <3>1, <3>2 DEF Once, Placed
    <3>4. \A i \in 1..Len(pipe) : pipe[i] # c
      BY <2>1, <2>2 DEF Once, Placed
    <3>5. \A i, j \in 1..Len(pipe') : pipe'[i] = pipe'[j] => i = j
      BY <3>1, <3>2, <3>4 DEF Once, Placed
    <3> QED
      BY <2>1, <2>2, <3>3, <3>5 DEF Once, Placed
  <2> QED
    BY <1>2, <2>3, <2>4 DEF Write
<1>3. ASSUME NEW c \in Call, NEW result \in {"true", "false"}, pc[c] = "waiting", Leave(c, result)
      PROVE  Once'
  <2>1. /\ \A d \in Call : Written(d) => Written(d)'
        /\ UNCHANGED <<pipe, ready, work, refused>>
    BY <1>3 DEF Leave, Written, Typed, TypeOK
  <2>2. refused \subseteq Call /\ \A i \in 1..Len(pipe) : pipe[i] \in Call
    BY DEF Typed, TypeOK
  <2> QED
    BY <2>1, <2>2 DEF Once, Placed
<1>4. ASSUME NEW c \in Call, Deadline(c) PROVE Once'
  BY <1>4 DEF Deadline, Once, Placed, Written
<1> QED
  BY <1>1, <1>2, <1>3, <1>4
     DEF CallerStep, LoopExit, LoopCall, TaskCall, Answered, TimesOut, CallerCancelled, Kind, Distinct

\* The positions of a sequence and of what is behind its head.
LEMMA Behind ==
  ASSUME NEW A, NEW s \in Seq(A), s # <<>>
  PROVE  /\ Len(s) \in Nat \ {0} /\ Head(s) = s[1] /\ Head(s) \in A
         /\ Tail(s) \in Seq(A) /\ Len(Tail(s)) = Len(s) - 1
         /\ \A i \in 1..Len(Tail(s)) : Tail(s)[i] = s[i + 1] /\ i + 1 \in 1..Len(s)
  OBVIOUS

\* Taking the head leaves everything at one place.
LEMMA LoopOnce ==
  ASSUME Distinct, Typed, Once, LoopStep
  PROVE  Once'
<1>1. CASE IjWakes \/ CancelAll
  <2>1. ready' = <<Self>> /\ UNCHANGED <<pc, pipe, work, refused>>
    BY <1>1 DEF IjWakes, CancelAll, callers
  <2> QED
    BY <2>1 DEF Once, Placed, Written
<1>2. CASE IjReads
  <2>1. /\ Len(ready) \in Nat \ {0} /\ Tail(ready) \in Seq(Call \cup {Self}) /\ ready[1] = Self
        /\ Len(Tail(ready)) = Len(ready) - 1
        /\ \A i \in 1..Len(Tail(ready)) : Tail(ready)[i] = ready[i + 1] /\ i + 1 \in 1..Len(ready)
    BY <1>2, Behind DEF IjReads, IsNext, Typed, TypeOK
  <2>2. \A i \in 1..Len(Tail(ready)) : /\ Tail(ready)[i] # Self /\ work[Tail(ready)[i]] = "new"
                                       /\ Tail(ready)[i] \in Call
    BY <2>1 DEF Once, Placed
  <2>3. \A i, j \in 1..Len(Tail(ready)) : Tail(ready)[i] = Tail(ready)[j] => i = j
    BY <2>1 DEF Once, Placed
  <2>4. CASE pipe = <<>>
    <3>1. ready' = Tail(ready) /\ UNCHANGED <<pc, pipe, work, refused>>
      BY <1>2, <2>4 DEF IjReads, callers
    <3> QED
      BY <2>1, <2>2, <2>3, <3>1 DEF Once, Placed, Written
  <2>5. CASE pipe # <<>>
    <3> DEFINE h == Head(pipe)
               r == Tail(ready)
               n == Len(r)
    <3>1. /\ h = pipe[1] /\ h \in Call /\ Len(pipe) \in Nat \ {0} /\ Len(Tail(pipe)) = Len(pipe) - 1
          /\ \A i \in 1..Len(Tail(pipe)) : Tail(pipe)[i] = pipe[i + 1] /\ i + 1 \in 1..Len(pipe)
      BY <2>5, Behind DEF Typed, TypeOK
    <3>2. Written(h) /\ work[h] = "none" /\ h \notin refused
      BY <3>1 DEF Once, Placed
    <3>3. /\ pipe' = Tail(pipe) /\ UNCHANGED <<pc, refused>>
          /\ \A c \in Call : work'[c] = IF c = h THEN "new" ELSE work[c]
      BY <1>2, <2>5, <3>1 DEF IjReads, callers, Typed, TypeOK
    <3>4. \A i \in 1..Len(Tail(pipe)) : Tail(pipe)[i] # h
      BY <3>1 DEF Once, Placed
    <3>5. \A i \in 1..Len(pipe) : pipe[i] \in Call
      BY DEF Typed, TypeOK
    <3>6. \A i \in 1..Len(pipe') : Placed(pipe[i])'
      BY <3>1, <3>3, <3>4, <3>5 DEF Once, Placed, Written
    <3>7. \A i, j \in 1..Len(pipe') : pipe'[i] = pipe'[j] => i = j
      BY <3>1, <3>3 DEF Once, Placed
    <3>8. /\ Len(ready') = n + 2 /\ n \in Nat /\ ready'[n + 1] = h /\ ready'[n + 2] = Self
          /\ \A i \in 1..n : ready'[i] = r[i]
      <4>1. ready' = r \o <<h, Self>>
        BY <1>2, <2>5 DEF IjReads
      <4>2. r \in Seq(Call \cup {Self}) /\ h \in Call \cup {Self}
        BY <2>1, <3>1
      <4> HIDE DEF r, h
      <4> QED
        BY <4>1, <4>2
    <3>9. \A i \in 1..(n + 2) : i \in 1..n \/ i = n + 1 \/ i = n + 2
      BY <3>8
    <3>10. h # Self /\ \A i \in 1..n : r[i] # h
      BY <2>2, <3>1, <3>2 DEF Distinct
    <3>11. \A i \in 1..Len(ready') : ready'[i] # Self => work'[ready'[i]] = "new"
      BY <2>2, <3>1, <3>3, <3>8, <3>9, <3>10
    <3>12. \A i, j \in 1..Len(ready') : ready'[i] = ready'[j] => i = j
      <4>1. \A i \in 1..n : ready'[i] # h /\ ready'[i] # Self
        BY <2>2, <3>8, <3>10
      <4>2. \A i, j \in 1..n : ready'[i] = ready'[j] => i = j
        BY <2>3, <3>8
      <4> HIDE DEF n, h
      <4> QED
        BY <3>8, <3>9, <3>10, <4>1, <4>2
    <3>13. /\ \A c \in Call : work'[c] # "none" => Written(c)'
           /\ \A c \in refused' : Written(c)' /\ work'[c] = "none"
      BY <3>1, <3>2, <3>3 DEF Once, Placed, Written, Typed, TypeOK
    <3> QED
      BY <3>6, <3>7, <3>11, <3>12, <3>13 DEF Once, Placed
  <2> QED
    BY <2>4, <2>5
<1>3. CASE IjBroken
  <2>1. /\ Len(ready) \in Nat \ {0} /\ ready' = Tail(ready) /\ Len(Tail(ready)) = Len(ready) - 1
        /\ \A i \in 1..Len(Tail(ready)) : Tail(ready)[i] = ready[i + 1] /\ i + 1 \in 1..Len(ready)
        /\ UNCHANGED <<pc, pipe, work, refused>>
    BY <1>3, Behind DEF IjBroken, IsNext, Typed, TypeOK, callers
  <2> QED
    BY <2>1 DEF Once, Placed, Written
<1>4. CASE DrainSelect \/ IjCloses \/ IjAtexit
  BY <1>4 DEF DrainSelect, IjCloses, IjAtexit, Once, Placed, Written, callers
<1>5. CASE DrainOne
  <2> DEFINE h == Head(pipe)
  <2>1. /\ h = pipe[1] /\ h \in Call /\ Len(pipe) \in Nat \ {0} /\ Len(Tail(pipe)) = Len(pipe) - 1
        /\ \A i \in 1..Len(Tail(pipe)) : Tail(pipe)[i] = pipe[i + 1] /\ i + 1 \in 1..Len(pipe)
    BY <1>5, Behind DEF DrainOne, Typed, TypeOK, Drains
  <2>2. /\ pipe' = Tail(pipe) /\ UNCHANGED <<pc, ready, work>>
        /\ refused' = refused \cup {h} \/ refused' = refused
    BY <1>5 DEF DrainOne, callers
  <2>3. \A i \in 1..Len(Tail(pipe)) : Tail(pipe)[i] # h
    BY <2>1 DEF Once, Placed
  <2>4. Written(h) /\ work[h] = "none"
    BY <2>1 DEF Once, Placed
  <2>5. /\ \A i \in 1..Len(pipe') : Placed(pipe[i])'
        /\ \A i, j \in 1..Len(pipe') : pipe'[i] = pipe'[j] => i = j
    BY <2>1, <2>2, <2>3 DEF Once, Placed, Written
  <2> QED
    BY <2>2, <2>4, <2>5 DEF Once, Placed, Written
<1>6. ASSUME NEW c \in Call, StartWork(c) PROVE Once'
  <2>1. /\ Len(ready) \in Nat \ {0} /\ ready' = Tail(ready) /\ Len(Tail(ready)) = Len(ready) - 1
        /\ ready[1] = c
        /\ \A i \in 1..Len(Tail(ready)) : Tail(ready)[i] = ready[i + 1] /\ i + 1 \in 1..Len(ready)
    BY <1>6, Behind DEF StartWork, IsNext, Typed, TypeOK
  <2>2. c # Self /\ work[c] = "new"
    BY <2>1 DEF Once, Placed, Distinct
  <2>3. /\ UNCHANGED <<pc, pipe, refused>>
        /\ \A d \in Call : work'[d] = IF d = c THEN "running" ELSE work[d]
    BY <1>6 DEF StartWork, callers, Typed, TypeOK
  <2>4. \A i \in 1..Len(pipe) : pipe[i] \in Call /\ pipe[i] # c
    BY <2>2 DEF Once, Placed, Typed, TypeOK
  <2>5. \A i \in 1..Len(ready) : ready[i] # Self => ready[i] \in Call
    BY DEF Typed, TypeOK
  <2>6. \A i \in 1..Len(ready') : ready'[i] # c /\ (ready'[i] # Self => work'[ready'[i]] = "new")
    BY <2>1, <2>3, <2>5 DEF Once, Placed
  <2>7. \A i, j \in 1..Len(ready') : ready'[i] = ready'[j] => i = j
    BY <2>1 DEF Once, Placed
  <2>8. c \notin refused /\ refused \subseteq Call
    BY <2>2 DEF Once, Placed, Typed, TypeOK
  <2> QED
    BY <2>2, <2>3, <2>4, <2>6, <2>7, <2>8 DEF Once, Placed, Written
<1>7. ASSUME NEW c \in Call, EndWork(c) \/ WriteAnswer(c) PROVE Once'
  <2>1. /\ UNCHANGED <<pc, pipe, ready, refused>> /\ work[c] \notin {"none", "new"}
        /\ \A d \in Call : d # c => work'[d] = work[d]
    BY <1>7 DEF EndWork, WriteAnswer, callers, Typed, TypeOK
  <2>2. work'[c] # "none"
    BY <1>7 DEF EndWork, WriteAnswer, Typed, TypeOK
  <2>3. \A i \in 1..Len(pipe) : pipe[i] \in Call /\ pipe[i] # c
    BY <2>1 DEF Once, Placed, Typed, TypeOK
  <2>4. \A i \in 1..Len(ready) : ready[i] # Self => ready[i] \in Call /\ ready[i] # c
    BY <2>1 DEF Once, Placed, Typed, TypeOK
  <2>5. c \notin refused /\ refused \subseteq Call
    BY <2>1 DEF Once, Placed, Typed, TypeOK
  <2> QED
    BY <2>1, <2>2, <2>3, <2>4, <2>5 DEF Once, Placed, Written
<1> QED
  BY <1>1, <1>2, <1>3, <1>4, <1>5, <1>6, <1>7 DEF LoopStep

LEMMA OnceHolds ==
  ASSUME Distinct
  PROVE  Spec => [](Typed /\ Once)
<1>1. Once /\ UNCHANGED vars => Once'
  BY DEF Once, Placed, Written, vars, callers
<1>2. Typed /\ Once /\ [Next]_vars => Once'
  BY <1>1, CallerOnce, LoopOnce DEF Next
<1> QED
  BY <1>2, InitOnce, InjectorTypes, PTL DEF Spec

\* A request that was answered with -1 is never run, and one that runs or has run is not in
\* the pipe any more (injector::injector and its injecting task).
THEOREM NeverAfterRefusal ==
  ASSUME Distinct
  PROVE  Spec => []RefusedNeverRuns
<1>1. Typed /\ Once => RefusedNeverRuns
  <2> SUFFICES ASSUME Typed, Once PROVE RefusedNeverRuns
    OBVIOUS
  <2>1. DOMAIN pipe = 1..Len(pipe)
    BY DEF Typed, TypeOK
  <2> QED
    BY <2>1 DEF Once, Placed, RefusedNeverRuns
<1> QED
  BY <1>1, OnceHolds, PTL

----------------------------------------------------------------------------
(* Requests start in the order in which they were written.                 *)

\* What is due and what is in the pipe, as one line.
LEMMA LineShape ==
  ASSUME NEW r \in Seq(Call \cup {Self}), NEW p \in Seq(Call)
  PROVE  /\ r \o p \in Seq(Call \cup {Self})
         /\ Len(r) \in Nat /\ Len(p) \in Nat /\ Len(r \o p) = Len(r) + Len(p)
         /\ \A i \in 1..Len(r \o p) :
              (r \o p)[i] = IF i <= Len(r) THEN r[i] ELSE p[i - Len(r)]
<1>1. p \in Seq(Call \cup {Self})
  OBVIOUS
<1>2. Len(r) \in Nat /\ Len(p) \in Nat
  OBVIOUS
<1>3. /\ r \o p \in Seq(Call \cup {Self}) /\ DOMAIN (r \o p) = 1..(Len(r) + Len(p))
      /\ \A i \in 1..Len(r) : (r \o p)[i] = r[i]
      /\ \A i \in 1..Len(p) : (r \o p)[Len(r) + i] = p[i]
  BY <1>1, Concat
<1>4. Len(r \o p) = Len(r) + Len(p)
  BY <1>1
<1>5. ASSUME NEW i \in 1..(Len(r) + Len(p)), ~(i <= Len(r)) PROVE (r \o p)[i] = p[i - Len(r)]
  <2>1. i - Len(r) \in 1..Len(p) /\ Len(r) + (i - Len(r)) = i
    BY <1>2, <1>5
  <2> QED
    BY <1>3, <2>1
<1> QED
  BY <1>2, <1>3, <1>4, <1>5

\* Nothing is in the line twice.
LEMMA LineOnce ==
  ASSUME Distinct, Typed, Once,
         NEW i \in 1..Len(ready \o pipe), NEW j \in 1..Len(ready \o pipe),
         (ready \o pipe)[i] = (ready \o pipe)[j]
  PROVE  i = j
<1> DEFINE s == ready \o pipe
<1>1. ready \in Seq(Call \cup {Self}) /\ pipe \in Seq(Call)
  BY DEF Typed, TypeOK
<1>2. /\ Len(ready) \in Nat /\ Len(pipe) \in Nat /\ Len(s) = Len(ready) + Len(pipe)
      /\ \A k \in 1..Len(s) : s[k] = IF k <= Len(ready) THEN ready[k] ELSE pipe[k - Len(ready)]
  BY <1>1, LineShape
<1>3. \A k \in 1..Len(s) : k <= Len(ready) => k \in 1..Len(ready)
  BY <1>2
<1>4. \A k \in 1..Len(s) : ~(k <= Len(ready)) => k - Len(ready) \in 1..Len(pipe)
  BY <1>2
<1>5. ASSUME NEW k \in 1..Len(ready), NEW l \in 1..Len(pipe) PROVE ready[k] # pipe[l]
  <2>1. pipe[l] # Self /\ work[pipe[l]] = "none"
    BY <1>1, <1>5 DEF Once, Placed, Distinct
  <2> QED
    BY <1>5, <2>1 DEF Once
<1>6. CASE i <= Len(ready) /\ j <= Len(ready)
  <2>1. i \in 1..Len(ready) /\ j \in 1..Len(ready) /\ ready[i] = ready[j]
    BY <1>2, <1>3, <1>6
  <2> QED
    BY <2>1 DEF Once
<1>7. CASE ~(i <= Len(ready)) /\ ~(j <= Len(ready))
  <2>1. i - Len(ready) = j - Len(ready)
    <3>1. /\ i - Len(ready) \in 1..Len(pipe) /\ j - Len(ready) \in 1..Len(pipe)
          /\ pipe[i - Len(ready)] = pipe[j - Len(ready)]
      BY <1>2, <1>4, <1>7
    <3> QED
      BY <3>1 DEF Once
  <2> QED
    BY <1>2, <2>1
<1> HIDE DEF s
<1>8. s[i] = s[j] /\ i \in 1..Len(s) /\ j \in 1..Len(s)
  BY DEF s
<1> QED
  BY <1>2, <1>3, <1>4, <1>5, <1>6, <1>7, <1>8

\* If the members of C have kept their order from s to t, then none of two has overtaken
\* the other.
LEMMA NoOvertaking ==
  ASSUME NEW s, NEW t, NEW C, NEW c \in C, NEW d \in C, NEW g,
         DOMAIN s = 1..Len(s), DOMAIN t = 1..Len(t), Len(s) \in Nat, Len(t) \in Nat,
         \A i, j \in 1..Len(s) : s[i] = s[j] => i = j,
         \A i \in 1..Len(t) : t[i] \in C => g[i] \in 1..Len(s) /\ s[g[i]] = t[i],
         \A i, j \in 1..Len(t) : i < j /\ t[i] \in C /\ t[j] \in C => g[i] < g[j],
         Before(s, c, d)
  PROVE  ~Before(t, d, c)
<1>1. PICK a, b \in 1..Len(s) : a < b /\ s[a] = c /\ s[b] = d
  BY DEF Before
<1> SUFFICES ASSUME NEW i \in 1..Len(t), NEW j \in 1..Len(t), i < j, t[i] = d, t[j] = c PROVE FALSE
  BY DEF Before
<1>2. g[i] = b /\ g[j] = a /\ g[i] < g[j]
  BY <1>1
<1> QED
  BY <1>1, <1>2

LEMMA LineKeepsOrder ==
  ASSUME Distinct, Typed, Once, Typed', [Next]_vars,
         NEW c \in Call, NEW d \in Call, Before(ready \o pipe, c, d)
  PROVE  ~Before(ready' \o pipe', d, c)
<1> DEFINE s == ready \o pipe
           t == ready' \o pipe'
           C == {x \in Call : \E i \in 1..Len(s) : s[i] = x}
           n == Len(ready)
           m == Len(ready')
<1>1. /\ ready \in Seq(Call \cup {Self}) /\ pipe \in Seq(Call)
      /\ ready' \in Seq(Call \cup {Self}) /\ pipe' \in Seq(Call)
  BY DEF Typed, TypeOK
<1>2. /\ DOMAIN s = 1..Len(s) /\ n \in Nat /\ Len(pipe) \in Nat /\ Len(s) = n + Len(pipe)
      /\ \A i \in 1..Len(s) : s[i] = IF i <= n THEN ready[i] ELSE pipe[i - n]
  BY <1>1, LineShape
<1>3. /\ DOMAIN t = 1..Len(t) /\ m \in Nat /\ Len(pipe') \in Nat /\ Len(t) = m + Len(pipe')
      /\ \A i \in 1..Len(t) : t[i] = IF i <= m THEN ready'[i] ELSE pipe'[i - m]
  BY <1>1, LineShape
<1>4. \A i, j \in 1..Len(s) : s[i] = s[j] => i = j
  BY LineOnce
<1>5. c \in C /\ d \in C
  BY <1>2 DEF Before
<1> SUFFICES \E g : /\ \A i \in 1..Len(t) : t[i] \in C => g[i] \in 1..Len(s) /\ s[g[i]] = t[i]
                    /\ \A i, j \in 1..Len(t) : i < j /\ t[i] \in C /\ t[j] \in C => g[i] < g[j]
  <2> HIDE DEF s, t, C
  <2>1. Before(s, c, d)
    BY DEF s
  <2>2. PICK g : /\ \A i \in 1..Len(t) : t[i] \in C => g[i] \in 1..Len(s) /\ s[g[i]] = t[i]
                 /\ \A i, j \in 1..Len(t) : i < j /\ t[i] \in C /\ t[j] \in C => g[i] < g[j]
    OBVIOUS
  <2>3. Len(s) \in Nat /\ Len(t) \in Nat
    BY <1>2, <1>3
  <2>4. ~Before(t, d, c)
    BY <1>2, <1>3, <1>4, <1>5, <2>1, <2>2, <2>3, NoOvertaking
  <2> QED
    BY <2>4 DEF t
<1>6. Self \notin C /\ \A x \in C : \E i \in 1..Len(s) : s[i] = x
  BY DEF Distinct
<1> HIDE DEF s, t, C, n, m
\* Nothing has moved.
<1>7. CASE ready' = ready /\ pipe' = pipe
  <2>1. t = s
    BY <1>7 DEF s, t
  <2> WITNESS [i \in 1..Len(t) |-> i]
  <2> QED
    BY <1>2, <2>1
\* The head of the due tasks has run.
<1>8. CASE ready # <<>> /\ ready' = Tail(ready) /\ pipe' = pipe
  <2>1. /\ n \in Nat \ {0} /\ m = n - 1
        /\ \A i \in 1..m : ready'[i] = ready[i + 1]
    BY <1>1, <1>8, Behind DEF n, m
  <2>2. Len(t) = Len(s) - 1
    BY <1>2, <1>3, <1>8, <2>1
  <2>3. ASSUME NEW i \in 1..Len(t) PROVE t[i] = s[i + 1] /\ i + 1 \in 1..Len(s)
    <3>1. i + 1 \in 1..Len(s) /\ i \in Nat
      BY <1>2, <1>3, <2>2
    <3>2. CASE i <= m
      <4>1. t[i] = ready'[i] /\ i \in 1..m /\ i + 1 <= n
        BY <1>3, <2>1, <3>1, <3>2
      <4>2. s[i + 1] = ready[i + 1]
        BY <1>2, <3>1, <4>1
      <4> QED BY <2>1, <3>1, <4>1, <4>2
    <3>3. CASE ~(i <= m)
      <4>1. t[i] = pipe[i - m] /\ s[i + 1] = pipe[(i + 1) - n] /\ (i + 1) - n = i - m
        BY <1>2, <1>3, <1>8, <2>1, <3>1, <3>3
      <4> QED
        BY <3>1, <4>1
    <3> QED
      BY <3>2, <3>3
  <2> WITNESS [i \in 1..Len(t) |-> i + 1]
  <2> QED
    BY <1>3, <2>2, <2>3
\* The injecting task has become due, with nothing before it.
<1>9. CASE ready = <<>> /\ ready' = <<Self>> /\ pipe' = pipe
  <2>1. n = 0 /\ m = 1 /\ ready'[1] = Self
    BY <1>9 DEF n, m
  <2>2. t[1] = Self /\ Len(t) = Len(s) + 1
    BY <1>2, <1>3, <1>9, <2>1
  <2>3. \A i \in 1..Len(t) : i # 1 => i - 1 \in 1..Len(s) /\ t[i] = s[i - 1]
    BY <1>2, <1>3, <1>9, <2>1
  <2> WITNESS [i \in 1..Len(t) |-> i - 1]
  <2> QED
    BY <1>2, <1>6, <2>2, <2>3
\* One request is refused.
<1>10. CASE pipe # <<>> /\ ready' = ready /\ pipe' = Tail(pipe)
  <2>1. /\ Len(pipe) \in Nat \ {0} /\ Len(pipe') = Len(pipe) - 1 /\ m = n
        /\ \A i \in 1..Len(pipe') : pipe'[i] = pipe[i + 1]
    BY <1>1, <1>10, Behind DEF n, m
  <2>2. Len(t) = Len(s) - 1
    BY <1>2, <1>3, <2>1
  <2>3. \A i \in 1..Len(t) : IF i <= n THEN t[i] = s[i] /\ i \in 1..Len(s)
                                       ELSE t[i] = s[i + 1] /\ i + 1 \in 1..Len(s)
    BY <1>2, <1>3, <1>10, <2>1
  <2> WITNESS [i \in 1..Len(t) |-> IF i <= n THEN i ELSE i + 1]
  <2> QED
    BY <1>2, <2>2, <2>3
\* One request has been written, which was not there before.
<1>11. CASE \E x \in Call : Write(x) /\ pipe' = Append(pipe, x)
  <2>1. PICK x \in Call : Write(x) /\ pipe' = Append(pipe, x)
    BY <1>11
  <2>2. /\ ready' = ready /\ m = n /\ Len(pipe') = Len(pipe) + 1 /\ pipe'[Len(pipe) + 1] = x
        /\ \A i \in 1..Len(pipe) : pipe'[i] = pipe[i]
    BY <1>1, <2>1 DEF Write, n, m
  <2>3. ~Written(x) /\ work[x] = "none" /\ x # Self
    BY <2>1 DEF Write, Written, Once, Distinct
  <2>4. \A i \in 1..n : ready[i] # x
    BY <2>3 DEF Once, n
  <2>5. \A i \in 1..Len(pipe) : pipe[i] # x
    BY <2>3 DEF Once, Placed
  <2>6. \A i \in 1..Len(s) : s[i] # x
    BY <1>2, <2>4, <2>5
  <2>7. Len(t) = Len(s) + 1 /\ t[Len(t)] = x /\ \A i \in 1..Len(s) : t[i] = s[i]
    <3>1. Len(t) = Len(s) + 1 /\ Len(t) \in 1..Len(t) /\ ~(Len(t) <= m) /\ Len(t) - m = Len(pipe) + 1
      BY <1>2, <1>3, <2>2
    <3>2. t[Len(t)] = x
      BY <1>3, <2>2, <3>1
    <3>3. ASSUME NEW i \in 1..Len(s) PROVE t[i] = s[i]
      <4>1. i \in 1..Len(t) /\ (~(i <= n) => i - n \in 1..Len(pipe))
        BY <1>2, <3>1
      <4> QED
        BY <1>2, <1>3, <2>2, <4>1
    <3> QED
      BY <3>1, <3>2, <3>3
  <2>8. x \notin C
    BY <1>6, <2>6
  <2>9. \A i \in 1..Len(t) : t[i] \in C => i \in 1..Len(s)
    BY <1>2, <1>3, <2>7, <2>8
  <2> WITNESS [i \in 1..Len(t) |-> i]
  <2> QED
    BY <2>7, <2>9
\* The head of the pipe goes behind the due tasks, and the injecting task behind it.
<1>12. CASE /\ ready # <<>> /\ Head(ready) = Self /\ pipe # <<>>
            /\ ready' = Tail(ready) \o <<Head(pipe), Self>> /\ pipe' = Tail(pipe)
  <2> DEFINE r == Tail(ready)
  <2>1. /\ n \in Nat \ {0} /\ ready[1] = Self /\ r \in Seq(Call \cup {Self}) /\ Len(r) = n - 1
        /\ \A i \in 1..Len(r) : r[i] = ready[i + 1]
    BY <1>1, <1>12, Behind DEF n
  <2>2. /\ Len(pipe) \in Nat \ {0} /\ Len(pipe') = Len(pipe) - 1 /\ Head(pipe) = pipe[1]
        /\ pipe[1] \in Call /\ \A i \in 1..Len(pipe') : pipe'[i] = pipe[i + 1]
    BY <1>1, <1>12, Behind
  <2> HIDE DEF r
  <2>3. m = n + 1 /\ ready'[n] = pipe[1] /\ ready'[n + 1] = Self /\ \A i \in 1..(n - 1) : ready'[i] = r[i]
    <3>1. ready' = r \o <<pipe[1], Self>>
      BY <1>12, <2>2 DEF r
    <3> DEFINE two == <<pipe[1], Self>>
    <3>2. two \in Seq(Call \cup {Self}) /\ Len(two) = 2 /\ two[1] = pipe[1] /\ two[2] = Self
      BY <2>2
    <3> HIDE DEF two
    <3>3. /\ Len(ready') = Len(r) + 2 /\ ready'[Len(r) + 1] = pipe[1] /\ ready'[Len(r) + 2] = Self
          /\ \A i \in 1..Len(r) : ready'[i] = r[i]
      <4>1. ready' = r \o two /\ Len(r) \in Nat
        BY <2>1, <3>1 DEF two
      <4> r \in Seq(Call \cup {Self}) /\ two \in Seq(Call \cup {Self})
        BY <2>1, <3>2
      <4>2. /\ \A i \in 1..Len(r) : (r \o two)[i] = r[i]
            /\ \A i \in 1..Len(two) : (r \o two)[Len(r) + i] = two[i]
        BY Concat
      <4>3. Len(r \o two) = Len(r) + Len(two)
        BY Concat
      <4> QED
        BY <3>2, <4>1, <4>2, <4>3
    <3>4. Len(r) + 1 = n /\ Len(r) + 2 = n + 1
      BY <2>1
    <3> QED
      BY <2>1, <3>3, <3>4 DEF m
  <2>4. Len(t) = Len(s)
    BY <1>2, <1>3, <2>2, <2>3
  <2>5. \A i \in 1..n : t[i] = s[i + 1] /\ i + 1 \in 1..Len(s)
    <3>1. ASSUME NEW i \in 1..(n - 1) PROVE t[i] = s[i + 1] /\ i + 1 \in 1..Len(s)
      <4>1. i \in 1..Len(t) /\ i + 1 \in 1..Len(s) /\ i <= m /\ i + 1 <= n /\ i \in 1..Len(r)
        BY <1>2, <1>3, <2>1, <2>2, <2>3
      <4> QED
        BY <1>2, <1>3, <2>1, <2>3, <4>1
    <3>2. t[n] = s[n + 1] /\ n + 1 \in 1..Len(s)
      <4>1. n \in 1..Len(t) /\ n + 1 \in 1..Len(s) /\ n <= m /\ ~(n + 1 <= n) /\ (n + 1) - n = 1
        BY <1>2, <1>3, <2>1, <2>2, <2>3
      <4> QED
        BY <1>2, <1>3, <2>3, <4>1
    <3>3. \A i \in 1..n : i \in 1..(n - 1) \/ i = n
      BY <2>1
    <3> QED
      BY <3>1, <3>2, <3>3
  <2>6. t[n + 1] = Self
    BY <1>2, <1>3, <2>1, <2>2, <2>3
  <2>7. ASSUME NEW i \in 1..Len(t), i > n + 1 PROVE t[i] = s[i] /\ i \in 1..Len(s)
    <3>1. /\ i \in 1..Len(s) /\ ~(i <= m) /\ ~(i <= n) /\ i - m \in 1..Len(pipe')
          /\ (i - m) + 1 = i - n
      BY <1>2, <1>3, <2>2, <2>3, <2>4, <2>7
    <3> QED
      BY <1>2, <1>3, <2>2, <3>1
  <2>8. \A i \in 1..Len(t) : i \in 1..n \/ i = n + 1 \/ i > n + 1
    BY <1>2, <1>3
  <2> DEFINE g == [i \in 1..Len(t) |-> IF i <= n THEN i + 1 ELSE i]
  <2>9. ASSUME NEW i \in 1..Len(t), t[i] \in C
        PROVE  g[i] \in 1..Len(s) /\ s[g[i]] = t[i] /\ i # n + 1
    <3>1. i # n + 1
      BY <1>6, <2>6, <2>9
    <3>2. CASE i \in 1..n
      BY <2>5, <3>1, <3>2
    <3>3. CASE i > n + 1
      <4>1. g[i] = i
        BY <2>1, <3>3
      <4> QED
        BY <2>7, <3>1, <3>3, <4>1
    <3> QED
      BY <2>8, <3>1, <3>2, <3>3
  <2>10. ASSUME NEW i \in 1..Len(t), NEW j \in 1..Len(t), i < j, t[i] \in C, t[j] \in C
         PROVE  g[i] < g[j]
    BY <2>1, <2>9, <2>10
  <2> WITNESS g
  <2> QED
    BY <2>9, <2>10
<1>13. CASE UNCHANGED vars
  BY <1>7, <1>13 DEF vars
<1>14. CASE CallerStep
  BY <1>7, <1>11, <1>14
     DEF CallerStep, LoopExit, LoopCall, TaskCall, Ask, Write, Answered, Deadline, TimesOut, CallerCancelled, Leave
<1>15. CASE LoopStep
  <2>1. IjReads => \/ ready # <<>> /\ ready' = Tail(ready) /\ pipe' = pipe
                   \/ /\ ready # <<>> /\ Head(ready) = Self /\ pipe # <<>>
                      /\ ready' = Tail(ready) \o <<Head(pipe), Self>> /\ pipe' = Tail(pipe)
    BY DEF IjReads, IsNext
  <2>2. IjWakes \/ CancelAll => ready = <<>> /\ ready' = <<Self>> /\ pipe' = pipe
    BY DEF IjWakes, CancelAll
  <2>3. IjBroken \/ (\E x \in Call : StartWork(x)) => ready # <<>> /\ ready' = Tail(ready) /\ pipe' = pipe
    BY DEF IjBroken, StartWork, IsNext
  <2>4. DrainOne => pipe # <<>> /\ ready' = ready /\ pipe' = Tail(pipe)
    BY DEF DrainOne, Typed, Drains
  <2>5. \/ DrainSelect \/ IjCloses \/ IjAtexit \/ (\E x \in Call : EndWork(x) \/ WriteAnswer(x))
        => ready' = ready /\ pipe' = pipe
    BY DEF DrainSelect, IjCloses, IjAtexit, EndWork, WriteAnswer
  <2> QED
    BY <1>7, <1>8, <1>9, <1>10, <1>12, <1>15, <2>1, <2>2, <2>3, <2>4, <2>5 DEF LoopStep
<1> QED
  BY <1>13, <1>14, <1>15 DEF Next

\* Only the head of the line starts.
LEMMA HeadStarts ==
  ASSUME Distinct, Typed, Once, [Next]_vars,
         NEW c \in Call, NEW d \in Call, Before(ready \o pipe, c, d), work'[d] = "running"
  PROVE  work[d] = "running"
<1>1. ASSUME NEW x \in Call, StartWork(x) PROVE work[d] = "running"
  <2> DEFINE s == ready \o pipe
  <2>1. ready \in Seq(Call \cup {Self}) /\ pipe \in Seq(Call)
    BY DEF Typed, TypeOK
  <2>2. /\ DOMAIN s = 1..Len(s) /\ Len(ready) \in Nat /\ Len(pipe) \in Nat
        /\ Len(s) = Len(ready) + Len(pipe)
        /\ \A i \in 1..Len(s) : s[i] = IF i <= Len(ready) THEN ready[i] ELSE pipe[i - Len(ready)]
    BY <2>1, LineShape
  <2>3. Len(ready) # 0 /\ ready[1] = x
    BY <1>1, <2>1, Behind DEF StartWork, IsNext
  <2>4. 1 \in 1..Len(s) /\ s[1] = x
    BY <2>2, <2>3
  <2>5. PICK a, b \in 1..Len(s) : a < b /\ s[b] = d
    BY <2>2 DEF Before
  <2>6. d # x
    <3> SUFFICES ASSUME d = x PROVE FALSE
      OBVIOUS
    <3>1. b = 1
      BY <2>4, <2>5, LineOnce
    <3> QED
      BY <2>2, <2>5, <3>1
  <2> QED
    BY <1>1, <2>6 DEF StartWork, Typed, TypeOK
<1>2. CASE UNCHANGED work
  BY <1>2
<1>3. CASE IjReads
  BY <1>3 DEF IjReads, Typed, TypeOK
<1>4. ASSUME NEW x \in Call, EndWork(x) \/ WriteAnswer(x) PROVE work[d] = "running"
  BY <1>4 DEF EndWork, WriteAnswer, Typed, TypeOK
<1>5. CASE CallerStep
  BY <1>2, <1>5
     DEF CallerStep, LoopExit, LoopCall, TaskCall, Ask, Write, Answered, Deadline, TimesOut, CallerCancelled, Leave
<1>6. CASE LoopStep
  <2>1. IjWakes \/ CancelAll \/ IjBroken \/ DrainSelect \/ DrainOne \/ IjCloses \/ IjAtexit => UNCHANGED work
    BY DEF IjWakes, CancelAll, IjBroken, DrainSelect, DrainOne, IjCloses, IjAtexit
  <2> QED
    BY <1>1, <1>2, <1>3, <1>4, <1>6, <2>1 DEF LoopStep
<1>7. CASE UNCHANGED vars
  BY <1>2, <1>7 DEF vars
<1> QED
  BY <1>5, <1>6, <1>7 DEF Next

\* Requests start in the order in which they were written to the pipe (injector::sync_inject,
\* inject_wait and async_inject, and the injecting task, which yields after each).
THEOREM RequestsStartInOrder ==
  ASSUME Distinct
  PROVE  Spec => StartsInOrder
<1>1. Typed /\ Once /\ Typed' /\ [Next]_vars =>
        [\A c, d \in Call : Before(ready \o pipe, c, d) =>
           ~Before(ready' \o pipe', d, c) /\ (work'[d] = "running" => work[d] = "running")]_vars
  BY LineKeepsOrder, HeadStarts
<1> QED
  BY <1>1, OnceHolds, PTL DEF Spec, StartsInOrder

----------------------------------------------------------------------------
(* Answers.                                                                *)

Served(c) == work[c] = "end" \/ c \in refused
Expects(c) == kind[c] # "async" /\ pc[c] \in {"checked", "waiting"}
NobodyLeft == \A c \in Call : pc[c] = "false" => out[c] = None

\* A caller has its descriptor as long as it may read it, and what is in it was written for
\* its own request, which is done.
Own ==
  /\ \A c \in Call : pc[c] = "new" => out[c] = None
  /\ \A c \in Call : pc[c] = "waiting" => kind[c] # "async"
  /\ \A c \in Call : Expects(c) => out[c] \in Fd /\ owner[out[c]] = c
  /\ \A c \in Call : work[c] = "writing" => kind[c] # "async"
  /\ NobodyLeft => \A f \in Fd : \A c \in mail[f] : owner[f] = c /\ Served(c)
  /\ NobodyLeft => \A c \in Call : pc[c] = "true" /\ kind[c] # "async" => Served(c)

LEMMA InitOwn == Init => Own
  BY DEF Init, Own, Expects

LEMMA CallerOwn ==
  ASSUME Distinct, Typed, Once, Own, CallerStep
  PROVE  Own'
<1>1. ASSUME NEW c \in Call, NEW k \in Kind, Ask(c, k) PROVE Own'
  <2>1. /\ UNCHANGED <<work, refused>> /\ pc[c] = "new"
        /\ \A d \in Call : d # c => pc'[d] = pc[d] /\ kind'[d] = kind[d] /\ out'[d] = out[d]
        /\ kind'[c] = k /\ pc'[c] = IF io THEN "checked" ELSE "false"
    BY <1>1 DEF Ask, Typed, TypeOK
  <2>4. \A d \in Call : work'[d] = "writing" => kind'[d] # "async"
    <3>1. work[c] = "none"
      BY <2>1 DEF Once, Written
    <3> QED
      BY <2>1, <3>1 DEF Own
  <2>2. CASE io /\ k # "async"
    <3> DEFINE g == LeastFree
    <3>1. g \in Fd /\ owner[g] = None
      BY <1>1, <2>2, LeastIsFree DEF Ask, Distinct
    <3> HIDE DEF g
    <3>2. /\ out'[c] = g /\ owner'[g] = c /\ mail'[g] = {}
          /\ \A f \in Fd : f # g => owner'[f] = owner[f] /\ mail'[f] = mail[f]
      BY <1>1, <2>2, <3>1 DEF Ask, Typed, TypeOK, g
    <3>3. \A d \in Call : d # c /\ Expects(d) => out[d] \in Fd /\ out[d] # g
      BY <3>1 DEF Own, Distinct
    <3>4. NobodyLeft' => NobodyLeft
      BY <2>1, <2>2 DEF NobodyLeft, Own
    <3>5. \A d \in Call : Expects(d)' => out'[d] \in Fd /\ owner'[out'[d]] = d
      BY <2>1, <3>1, <3>2, <3>3 DEF Own, Expects
    <3>6. NobodyLeft' => \A f \in Fd : \A d \in mail'[f] : owner'[f] = d /\ Served(d)'
      BY <2>1, <3>2, <3>4 DEF Own, Served
    <3> QED
      BY <2>1, <2>2, <2>4, <3>4, <3>5, <3>6 DEF Own, Served
  <2>3. CASE ~(io /\ k # "async")
    <3>1. UNCHANGED <<out, owner, mail>>
      BY <1>1, <2>3 DEF Ask
    <3>2. NobodyLeft' => NobodyLeft
      BY <2>1, <3>1 DEF NobodyLeft, Own
    <3> QED
      BY <2>1, <2>3, <2>4, <3>1, <3>2 DEF Own, Expects, Served
  <2> QED
    BY <2>2, <2>3
<1>2. ASSUME NEW c \in Call, Write(c) PROVE Own'
  <2>1. /\ UNCHANGED <<kind, out, owner, mail, work, refused>> /\ pc[c] = "checked"
        /\ \A d \in Call : d # c => pc'[d] = pc[d]
        /\ pc'[c] = IF kind[c] = "async" THEN "true" ELSE "waiting"
    BY <1>2 DEF Write, Typed, TypeOK
  <2>2. NobodyLeft' => NobodyLeft
    BY <2>1 DEF NobodyLeft
  <2> QED
    BY <2>1, <2>2 DEF Own, Expects, Served
<1>3. ASSUME NEW c \in Call, NEW result \in {"true", "false"}, pc[c] = "waiting", Leave(c, result),
             result = "true" => mail[out[c]] # {}
      PROVE  Own'
  <2>1. /\ UNCHANGED <<kind, out, work, refused>> /\ pc'[c] = result
        /\ \A d \in Call : d # c => pc'[d] = pc[d]
    BY <1>3 DEF Leave, Typed, TypeOK
  <2>2. out[c] \in Fd /\ owner[out[c]] = c /\ out[c] # None
    BY <1>3 DEF Own, Expects, Distinct
  <2>3. /\ mail'[out[c]] = {}
        /\ \A f \in Fd : f # out[c] => owner'[f] = owner[f] /\ mail'[f] = mail[f]
    BY <1>3, <2>2 DEF Leave, Typed, TypeOK
  <2>4. NobodyLeft' => NobodyLeft /\ result = "true"
    BY <2>1, <2>2, <1>3 DEF NobodyLeft
  <2>5. NobodyLeft' => Served(c)
    BY <1>3, <2>2, <2>4 DEF Own
  <2>6. \A d \in Call : d # c /\ Expects(d) => out[d] \in Fd /\ owner[out[d]] = d /\ out[d] # out[c]
    BY <2>2 DEF Own
  <2>7. \A d \in Call : Expects(d)' => out'[d] \in Fd /\ owner'[out'[d]] = d
    BY <2>1, <2>3, <2>6 DEF Expects
  <2>8. NobodyLeft' => \A f \in Fd : \A d \in mail'[f] : owner'[f] = d /\ Served(d)'
    BY <2>1, <2>3, <2>4 DEF Own, Served
  <2>9. NobodyLeft' => \A d \in Call : pc'[d] = "true" /\ kind'[d] # "async" => Served(d)'
    BY <2>1, <2>4, <2>5 DEF Own, Served
  <2>10. /\ \A d \in Call : pc'[d] = "new" => out'[d] = None
         /\ \A d \in Call : pc'[d] = "waiting" => kind'[d] # "async"
         /\ \A d \in Call : work'[d] = "writing" => kind'[d] # "async"
    BY <2>1 DEF Own
  <2> QED
    BY <2>7, <2>8, <2>9, <2>10 DEF Own
<1>4. ASSUME NEW c \in Call, Deadline(c) PROVE Own'
  BY <1>4 DEF Deadline, Own, Expects, Served, NobodyLeft
<1> QED
  BY <1>1, <1>2, <1>3, <1>4
     DEF CallerStep, LoopExit, LoopCall, TaskCall, Answered, TimesOut, CallerCancelled, Kind, Distinct

\* The answer to a request that was neither run nor refused before reaches its own caller.
LEMMA PostOwn ==
  ASSUME Distinct, Typed, Once, Own, NEW c \in Call,
         Post(c), kind[c] # "async", Written(c), ~Served(c), Served(c)',
         \A d \in Call : Served(d) => Served(d)', UNCHANGED callers,
         \A d \in Call : work'[d] = "writing" => work[d] = "writing"
  PROVE  Own'
<1>1. UNCHANGED <<pc, kind, out, owner>> /\ (NobodyLeft' <=> NobodyLeft)
  BY DEF callers, NobodyLeft
<1>2. \A f \in Fd : mail'[f] = IF f = out[c] /\ owner[f] # None THEN mail[f] \cup {c} ELSE mail[f]
  BY DEF Post
<1>3. pc[c] \in {"waiting", "true", "false"} /\ kind[c] # "async"
  BY DEF Written, Typed, TypeOK
<1>4. NobodyLeft => pc[c] = "waiting" \/ out[c] = None
  BY <1>3 DEF Own, NobodyLeft
<1>5. NobodyLeft => \A f \in Fd : f = out[c] => owner[f] = c
  BY <1>3, <1>4 DEF Own, Expects, Distinct
<1>6. \A f \in Fd : mail[f] \subseteq Call
  BY DEF Typed, TypeOK
<1>7. NobodyLeft' => \A f \in Fd : \A d \in mail'[f] : owner'[f] = d /\ Served(d)'
  <2>1. SUFFICES ASSUME NobodyLeft, NEW f \in Fd, NEW d \in mail'[f] PROVE owner[f] = d /\ Served(d)'
    BY <1>1 DEF Served
  <2>2. CASE d \in mail[f]
    BY <1>6, <2>1, <2>2 DEF Own, Served
  <2>3. CASE d \notin mail[f]
    <3>1. d = c /\ f = out[c]
      BY <1>2, <2>1, <2>3
    <3> QED
      BY <1>5, <2>1, <3>1 DEF Served
  <2> QED
    BY <2>2, <2>3
<1>8. NobodyLeft' => \A d \in Call : pc'[d] = "true" /\ kind'[d] # "async" => Served(d)'
  BY <1>1 DEF Own, Served
<1> QED
  BY <1>1, <1>7, <1>8 DEF Own, Expects, Served

\* What is served stays so, and nothing else of Own depends on the loop.
LEMMA KeptOwn ==
  ASSUME Own, Typed, \A d \in Call : Served(d) => Served(d)', UNCHANGED <<callers, mail>>,
         \A d \in Call : work'[d] = "writing" => kind[d] # "async"
  PROVE  Own'
<1>1. UNCHANGED <<pc, kind, out, owner, mail>> /\ (NobodyLeft' <=> NobodyLeft)
  BY DEF callers, NobodyLeft
<1>2. \A f \in Fd : mail[f] \subseteq Call
  BY DEF Typed, TypeOK
<1> QED
  BY <1>1, <1>2 DEF Own, Expects, Served

LEMMA LoopOwn ==
  ASSUME Distinct, Typed, Once, Own, LoopStep
  PROVE  Own'
<1>1. CASE IjWakes \/ CancelAll \/ IjBroken \/ DrainSelect \/ IjCloses \/ IjAtexit
  <2>1. UNCHANGED <<callers, mail, work, refused>>
    BY <1>1 DEF IjWakes, CancelAll, IjBroken, DrainSelect, IjCloses, IjAtexit
  <2> QED
    BY <2>1, KeptOwn DEF Served, Own
<1>2. CASE IjReads
  <2>1. CASE pipe = <<>>
    <3>1. UNCHANGED <<callers, mail, work, refused>>
      BY <1>2, <2>1 DEF IjReads
    <3> QED
      BY <3>1, KeptOwn DEF Served, Own
  <2>2. CASE pipe # <<>>
    <3>1. PICK h \in Call : h = Head(pipe) /\ Placed(h)
      BY <2>2, Behind DEF Once, Typed, TypeOK
    <3>2. /\ UNCHANGED <<callers, mail, refused>>
          /\ work'[h] = "new" /\ \A d \in Call : d # h => work'[d] = work[d]
      BY <1>2, <2>2, <3>1 DEF IjReads, Typed, TypeOK
    <3>3. \A d \in Call : Served(d) => Served(d)'
      BY <3>1, <3>2 DEF Served, Placed
    <3>4. \A d \in Call : work'[d] = "writing" => kind[d] # "async"
      BY <3>2 DEF Own
    <3> QED
      BY <3>2, <3>3, <3>4, KeptOwn
  <2> QED
    BY <2>1, <2>2
<1>3. CASE DrainOne
  <2>1. PICK h \in Call : h = Head(pipe) /\ Placed(h)
    BY <1>3, Behind DEF DrainOne, Once, Typed, TypeOK, Drains
  <2>2. UNCHANGED <<callers, work>>
    BY <1>3 DEF DrainOne
  <2>3. CASE Waits(h)
    <3>1. Post(h) /\ refused' = refused \cup {h}
      BY <1>3, <2>1, <2>3 DEF DrainOne
    <3>2. Written(h) /\ ~Served(h) /\ Served(h)' /\ \A d \in Call : Served(d) => Served(d)'
      BY <2>1, <2>2, <3>1 DEF Served, Placed
    <3> QED
      BY <2>1, <2>2, <2>3, <3>1, <3>2, PostOwn DEF Waits
  <2>4. CASE ~Waits(h)
    <3>1. UNCHANGED <<mail, refused>>
      BY <1>3, <2>1, <2>4 DEF DrainOne
    <3> QED
      BY <2>2, <3>1, KeptOwn DEF Served, Own
  <2> QED
    BY <2>3, <2>4
<1>4. ASSUME NEW c \in Call, StartWork(c) PROVE Own'
  <2>1. work[c] = "new"
    <3>1. ready \in Seq(Call \cup {Self}) /\ ready # <<>> /\ Head(ready) = c
      BY <1>4 DEF StartWork, IsNext, Typed, TypeOK
    <3>2. 1 \in 1..Len(ready) /\ ready[1] = c
      BY <3>1, Behind
    <3> QED
      BY <3>2 DEF Once, Distinct
  <2>2. /\ UNCHANGED <<callers, mail, refused>>
        /\ work'[c] = "running" /\ \A d \in Call : d # c => work'[d] = work[d]
    <3>1. UNCHANGED <<callers, mail, refused>> /\ work' = [work EXCEPT ![c] = "running"]
      BY <1>4 DEF StartWork
    <3>2. DOMAIN work = Call
      BY DEF Typed, TypeOK
    <3> QED
      BY <3>1, <3>2
  <2>3. \A d \in Call : Served(d) => Served(d)'
    BY <2>1, <2>2 DEF Served
  <2>4. \A d \in Call : work'[d] = "writing" => kind[d] # "async"
    BY <2>2 DEF Own
  <2> QED
    BY <2>2, <2>3, <2>4, KeptOwn
<1>5. ASSUME NEW c \in Call, EndWork(c) PROVE Own'
  <2>1. UNCHANGED <<callers, mail, refused>> /\ \A d \in Call : d # c => work'[d] = work[d]
    BY <1>5 DEF EndWork, Typed, TypeOK
  <2>2. \A d \in Call : Served(d) => Served(d)'
    BY <1>5, <2>1 DEF Served, EndWork
  <2>3. \A d \in Call : work'[d] = "writing" => kind[d] # "async"
    BY <1>5, <2>1 DEF EndWork, Waits, Own, Typed, TypeOK
  <2> QED
    BY <2>1, <2>2, <2>3, KeptOwn
<1>6. ASSUME NEW c \in Call, WriteAnswer(c) PROVE Own'
  <2>1. /\ Post(c) /\ UNCHANGED <<callers, refused>> /\ work[c] = "writing" /\ work'[c] = "end"
        /\ \A d \in Call : d # c => work'[d] = work[d]
    BY <1>6 DEF WriteAnswer, Typed, TypeOK
  <2>2. Written(c) /\ ~Served(c) /\ Served(c)' /\ \A d \in Call : Served(d) => Served(d)'
    BY <2>1 DEF Once, Served
  <2> QED
    BY <2>1, <2>2, PostOwn DEF Own
<1> QED
  BY <1>1, <1>2, <1>3, <1>4, <1>5, <1>6 DEF LoopStep

\* As long as no caller has given up, what a descriptor holds is the answer to the request of
\* its owner, and a caller that was told `true` has been served or refused (injector.cpp,
\* where the answer is written to a number).
THEOREM OwnAnswers ==
  ASSUME Distinct
  PROVE  Spec => []AnswersAreOwn
<1>1. Own /\ UNCHANGED vars => Own'
  BY DEF Own, Expects, Served, NobodyLeft, vars, callers
<1>2. Typed /\ Once /\ Own /\ [Next]_vars => Own'
  BY <1>1, CallerOwn, LoopOwn DEF Next
<1>3. Typed /\ Own => AnswersAreOwn
  BY DEF Own, Served, NobodyLeft, AnswersAreOwn, Typed, TypeOK
<1> QED
  BY <1>2, <1>3, InitOwn, OnceHolds, PTL DEF Spec
=============================================================================
