---------------------------- MODULE FilterTree ----------------------------
(***************************************************************************)
(* filternode: a tree of filters.  A node is the sequence of the match     *)
(* objects that lead to it; the root is the empty sequence.                *)
(***************************************************************************)
EXTENDS Naturals, Sequences, SequencesExt

CONSTANTS Symbol, MaxFilter  \* the match objects and the length of a filter

VARIABLES nodes, flags       \* the nodes of the tree, and those with tflag_

ft_vars == <<nodes, flags>>
Filter == UNION {[1..n -> Symbol] : n \in 0..MaxFilter}
Upto(s, n) == SubSeq(s, 1, n)
Below(n) == {m \in nodes : Len(m) = Len(n) + 1 /\ IsPrefix(n, m)}   \* sub_filter_tree_

TypeOK == nodes \subseteq Filter /\ flags \subseteq nodes

Init == nodes = {<<>>} /\ flags = {}

\* is_match_: the path to the first terminated node on the way, <<>> without one.
is_match(s) ==
  LET ends == {n \in 1..Len(s) : Upto(s, n) \in flags}
  IN  IF ends = {} THEN <<>> ELSE Upto(s, CHOOSE n \in ends : \A m \in ends : n <= m)

create_filter_tree(s) ==
  nodes' = nodes \cup {Upto(s, n) : n \in 1..Len(s)} /\ flags' = flags \cup {s}

\* Mutant: the whole path goes, whatever else it leads to.
MutRemove(s) ==
  LET m == is_match(s)
      gone == {Upto(m, k) : k \in 1..Len(m)}
  IN  s # <<>> /\ m # <<>> /\ nodes' = nodes \ gone /\ flags' = flags \ gone

\* remove_filter_tree takes the filter that matches: with nodes below it, it only loses its
\* flag; otherwise the path up from it goes, as far as each parent has no other node.  A
\* filter of one object is tested as its own parent, and stays.
remove_filter_tree(s) ==
  LET m == is_match(s)
      Alone(n) == Below(Upto(m, n)) = {Upto(m, n + 1)}
      gone == {Upto(m, k) : k \in {k \in 1..Len(m) :
                 Len(m) > 1 /\ \A n \in 1..(Len(m) - 1) : n >= k - 1 => Alone(n)}}
  IN  /\ s # <<>> /\ m # <<>>
      /\ IF Below(m) # {} THEN flags' = flags \ {m} /\ UNCHANGED nodes
         ELSE nodes' = nodes \ gone /\ flags' = flags \ gone

Next == \E s \in Filter : create_filter_tree(s) \/ remove_filter_tree(s)

Spec == Init /\ [][Next]_ft_vars

\* A removal takes at most one filter, the shortest of those that match, and all that stay
\* can still be reached from the root.
RemovalIsLocal == [][
  /\ \A s, t \in flags \ flags' : s = t
  /\ \A s \in flags \ flags' : \A n \in 1..(Len(s) - 1) : Upto(s, n) \notin flags
  /\ \A s \in flags' : \A n \in 0..Len(s) : Upto(s, n) \in nodes']_ft_vars
=============================================================================
