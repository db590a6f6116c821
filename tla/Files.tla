------------------------------- MODULE Files -------------------------------
(***************************************************************************)
(* filemgr: directories are made level by level and removed with all that  *)
(* is in them, entry by entry, while another process may use the same      *)
(* tree.  A path is a sequence of names; the root is there.                *)
(***************************************************************************)
EXTENDS Naturals, Sequences, FiniteSets, SequencesExt

CONSTANTS
  Path,      \* the paths that are used, with each the folder it is in
  MaxOther   \* the steps of the other process

VARIABLES
  tree,     \* what there is: the kind of every path
  cache,    \* the entries that fs_remove has found, the one to be removed next in front
  removing, \* the folder it was called for, <<>> without one
  left,     \* what was outside of that folder then
  other     \* the steps of the other process

fs_vars == <<tree, cache, removing, left, other>>

\* A "special" entry is of a kind that readdir does not know.
Kind == {"dir", "file", "special"}
Parent(p) == SubSeq(p, 1, Len(p) - 1)
Below(p) == {q \in DOMAIN tree : Len(q) > Len(p) /\ IsPrefix(p, q)}
Only(f, ps) == [p \in ps |-> f[p]]

IsTree(f) == \A p \in DOMAIN f : Len(p) > 1 => Parent(p) \in DOMAIN f /\ f[Parent(p)] = "dir"

TypeOK ==
  /\ DOMAIN tree \subseteq Path /\ \A p \in DOMAIN tree : tree[p] \in Kind
  /\ IsTree(tree) /\ cache \in Seq(Path \X BOOLEAN) /\ removing \in Path \cup {<<>>}
  /\ other \in 0..MaxOther

Init == tree = <<>> /\ cache = <<>> /\ removing = <<>> /\ left = <<>> /\ other = 0

is_folder_existed(p) == p \in DOMAIN tree /\ tree[p] = "dir"
is_file_existed(p) == p \in DOMAIN tree /\ tree[p] # "dir"

\* mkdir: what is there already is good enough, even a file.
CanMake(p) == Len(p) = 1 \/ is_folder_existed(Parent(p))
make_dir(t, p) == IF p \in DOMAIN t THEN t ELSE [q \in DOMAIN t \cup {p} |-> IF q = p THEN "dir" ELSE t[q]]

MutMade(p) == {p} \ {<<>>} \* Mutant: the folders above are not made.

\* rek_make_dir: the levels before the first one that cannot be made.
Made(p) == {SubSeq(p, 1, n) : n \in {m \in 1..Len(p) : \A k \in 1..(m - 1) : ~is_file_existed(SubSeq(p, 1, k))}}
rek_make_dir(p) ==
  /\ removing = <<>> /\ p # <<>>
  /\ tree' = [q \in DOMAIN tree \cup Made(p) |-> IF q \in DOMAIN tree THEN tree[q] ELSE "dir"]
  /\ UNCHANGED <<cache, removing, left, other>>

\* path_bind: the folder is made, what is there unlinked, and the socket made by bind.
path_bind(p) ==
  /\ removing = <<>> /\ ~is_folder_existed(p) /\ \A n \in 1..(Len(p) - 1) : ~is_file_existed(SubSeq(p, 1, n))
  /\ tree' = [q \in DOMAIN tree \cup Made(Parent(p)) \cup {p} |->
                IF q = p THEN "file" ELSE IF q \in DOMAIN tree THEN tree[q] ELSE "dir"]
  /\ UNCHANGED <<cache, removing, left, other>>

\* rek_scan_dir with the filter of fs_remove: every entry that readdir knows, after the
\* folder it is in; the last that is found is the first to be removed.
Found(p) == {q \in Below(p) : tree[q] # "special"}
\* Mutant: a folder is removed before what is in it.
MutScanDir(p) == {s \in SetToSeqs({<<q, tree[q] = "dir">> : q \in Found(p)}) :
                    \A i, j \in DOMAIN s : i < j => ~IsPrefix(s[j][1], s[i][1])}

rek_scan_dir(p) == {s \in SetToSeqs({<<q, tree[q] = "dir">> : q \in Found(p)}) :
                      \A i, j \in DOMAIN s : i < j => ~IsPrefix(s[i][1], s[j][1])}

\* fs_remove of a file, and of a folder up to the removal of what was found.
fs_remove(p) ==
  /\ removing = <<>>
  /\ \/ is_file_existed(p) /\ tree' = Only(tree, DOMAIN tree \ {p}) /\ UNCHANGED <<cache, removing, left>>
     \/ /\ is_folder_existed(p) /\ removing' = p /\ cache' \in rek_scan_dir(p)
        /\ left' = Only(tree, DOMAIN tree \ Below(p)) /\ UNCHANGED tree
  /\ UNCHANGED other

\* One entry: rmdir takes an empty folder only, remove takes that or a file.
RemoveEntry ==
  LET p == Head(cache)[1] IN
  /\ cache # <<>>
  /\ tree' = IF Below(p) # {} \/ (Head(cache)[2] /\ ~is_folder_existed(p)) THEN tree
             ELSE Only(tree, DOMAIN tree \ {p})
  /\ cache' = Tail(cache) /\ UNCHANGED <<removing, left, other>>

\* Nothing takes the folder itself.
RemoveEnds == /\ removing # <<>> /\ cache = <<>> /\ removing' = <<>> /\ left' = <<>>
              /\ UNCHANGED <<tree, cache, other>>

\* Another process makes a file or removes one.
Other(p) ==
  /\ other < MaxOther /\ other' = other + 1
  /\ \/ p \notin DOMAIN tree /\ CanMake(p) /\ \E k \in Kind \ {"dir"} :
          tree' = [q \in DOMAIN tree \cup {p} |-> IF q = p THEN k ELSE tree[q]]
     \/ is_file_existed(p) /\ tree' = Only(tree, DOMAIN tree \ {p})
  /\ left' = IF removing = <<>> \/ IsPrefix(removing, p) THEN left
             ELSE Only(tree', {q \in DOMAIN tree' : ~IsPrefix(removing, q) \/ q = removing})
  /\ UNCHANGED <<cache, removing>>

Next ==
  \/ RemoveEntry \/ RemoveEnds
  \/ \E p \in Path : rek_make_dir(p) \/ path_bind(p) \/ fs_remove(p) \/ Other(p)

Spec == Init /\ [][Next]_fs_vars

\* When fs_remove ends, what is outside of the folder is as it was or as the other process
\* made it, and inside there is nothing but what that made, what readdir does not know,
\* and the folders these are in.
RemovesBelow == removing # <<>> =>
  /\ Only(tree, DOMAIN tree \ Below(removing)) = left
  /\ cache = <<>> /\ other = 0 =>
       \A p \in Below(removing) : \E q \in {p} \cup Below(p) : tree[q] = "special"
=============================================================================
