------------------------------ MODULE Depend ------------------------------
(***************************************************************************)
(* dep_order: what a target depends on is found breadth first, counted,    *)
(* and put in an order in which it can be processed.                       *)
(***************************************************************************)
EXTENDS Naturals, Sequences, FiniteSets, SequencesExt

CONSTANTS Item, Root   \* what may be depended on, and the target that is asked for

VARIABLES
  pending,  \* _pending_targets
  targets,  \* _targets_set
  r_dep,    \* who depends on each item directly
  order,    \* _result
  status    \* "finding", "counting", "done", or "cycle"

dep_vars == <<pending, targets, r_dep, order, status>>

TypeOK ==
  /\ pending \in Seq(Item) /\ targets \subseteq Item /\ r_dep \in [Item -> SUBSET Item]
  /\ order \in Seq(Item) /\ status \in {"finding", "counting", "done", "cycle"}

Init ==
  /\ pending = <<Root>>
  /\ targets = {} /\ r_dep = [i \in Item |-> {}] /\ order = <<>> /\ status = "finding"

\* f_dep gives ds for the next item, unless that was processed before.
Find(ds) ==
  LET t == Head(pending) IN
  /\ status = "finding" /\ pending # <<>>
  /\ IF t \in targets THEN ds = {} /\ pending' = Tail(pending) /\ UNCHANGED <<targets, r_dep>>
     ELSE /\ targets' = targets \cup {t}
          /\ pending' = Tail(pending) \o SetToSeq(ds)
          /\ r_dep' = [d \in Item |-> IF d \in ds THEN r_dep[d] \cup {t} ELSE r_dep[d]]
  /\ UNCHANGED <<order, status>>

Found == /\ status = "finding" /\ pending = <<>> /\ status' = "counting"
         /\ UNCHANGED <<pending, targets, r_dep, order>>

\* __reference_depend: all that depends on i, directly or not.
Closed(S) == \A j \in S : r_dep[j] \subseteq S
Dependents(i) == {j \in Item : \A S \in SUBSET Item : r_dep[i] \subseteq S /\ Closed(S) => j \in S}
ref_count(i) == Cardinality(Dependents(i))

\* A cycle ends with the assertion, or never.
CountFails == /\ status = "counting" /\ \E i \in targets : i \in Dependents(i) /\ status' = "cycle"
              /\ UNCHANGED <<pending, targets, r_dep, order>>

\* The sort is not stable: items with the same count come in any order.
Sorted(s) == \A i, j \in DOMAIN s : i < j => ref_count(s[i]) >= ref_count(s[j])
Sort == /\ status = "counting" /\ \A i \in targets : i \notin Dependents(i)
        /\ order' \in {s \in SetToSeqs(targets) : Sorted(s)} /\ status' = "done"
        /\ UNCHANGED <<pending, targets, r_dep>>

Next == Found \/ CountFails \/ Sort \/ \E ds \in SUBSET Item : Find(ds)

Spec == Init /\ [][Next]_dep_vars

\* Every item that was found is in the result once, and after all that it depends on.
OrderIsSound == status = "done" =>
  /\ Range(order) = (UNION {r_dep[i] : i \in Item}) \cup {i \in Item : r_dep[i] # {}} \cup targets
  /\ \A i, j \in DOMAIN order : i < j => order[i] # order[j] /\ order[i] \notin r_dep[order[j]]
=============================================================================
