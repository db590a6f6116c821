---------------------------- MODULE FilesProofs ----------------------------
(***************************************************************************)
(* Removing a folder leaves alone what is outside of it, and takes all     *)
(* that is in it, but what readdir does not know and what another process  *)
(* has made: for any finite set of paths.                                  *)
(***************************************************************************)
EXTENDS Files, SequenceTheorems, FiniteSetTheorems, TLAPS

CONSTANT Letter  \* the names that paths are made of

\* With a path, the folders it is in are paths.
PathsAreClosed ==
  /\ IsFiniteSet(Path) /\ Path \subseteq Seq(Letter) /\ <<>> \notin Path
  /\ \A p \in Path : \A n \in 1..Len(p) : SubSeq(p, 1, n) \in Path

\* q is in the folder p, or deeper.
Under(p, q) == Len(q) > Len(p) /\ IsPrefix(p, q)

PathAt(i) == cache[i][1]

\* What is still to be removed is in the folder, and what is in a folder comes before it.
CacheOrder ==
  /\ removing = <<>> => cache = <<>>
  /\ \A i \in 1..Len(cache) : Under(removing, PathAt(i))
  /\ \A i, j \in 1..Len(cache) : i < j => ~IsPrefix(PathAt(i), PathAt(j))

\* Outside of the folder there is what there was.
Outside == removing # <<>> =>
  /\ removing \in DOMAIN tree /\ tree[removing] = "dir"
  /\ left = Only(tree, DOMAIN tree \ Below(removing))

Special(p) == \E q \in {p} \cup Below(p) : tree[q] = "special"

\* With nobody else at work, what is in the list is there as it was found, and what is there
\* is in the list, or is, or is a folder with, what readdir does not know.
Inside == removing # <<>> /\ other = 0 =>
  /\ \A i \in 1..Len(cache) : /\ PathAt(i) \in DOMAIN tree /\ tree[PathAt(i)] # "special"
                              /\ cache[i][2] = (tree[PathAt(i)] = "dir")
  /\ \A p \in Below(removing) : (\E i \in 1..Len(cache) : PathAt(i) = p) \/ Special(p)

FInv == TypeOK /\ CacheOrder /\ Outside /\ Inside

----------------------------------------------------------------------------
(* Prefixes.                                                               *)

LEMMA PrefixIs ==
  ASSUME NEW p \in Seq(Letter), NEW q \in Seq(Letter)
  PROVE  IsPrefix(p, q) <=> Len(p) <= Len(q) /\ \A i \in 1..Len(p) : p[i] = q[i]
<1> DEFINE n == Len(p)
<1>1. n \in Nat /\ Len(q) \in Nat
  OBVIOUS
<1>2. SubSeq(p, 1, n) = p
  BY SubSeqFull
<1>3. ASSUME n <= Len(q)
      PROVE  SubSeq(q, 1, n) \in Seq(Letter) /\ Len(SubSeq(q, 1, n)) = n /\ \A i \in 1..n : SubSeq(q, 1, n)[i] = q[i]
  <2>1. \A i \in 1..n : q[i] \in Letter
    BY <1>1, <1>3
  <2>2. /\ SubSeq(q, 1, n) \in Seq(Letter) /\ Len(SubSeq(q, 1, n)) = IF 1 <= n THEN n - 1 + 1 ELSE 0
        /\ \A i \in 1..(n - 1 + 1) : SubSeq(q, 1, n)[i] = q[1 + i - 1]
    BY <1>1, <2>1, SubSeqProperties
  <2> QED BY <1>1, <2>2
<1>4. ASSUME n <= Len(q), \A i \in 1..n : p[i] = q[i] PROVE SubSeq(q, 1, n) = p
  BY <1>3, <1>4, SeqEqual
<1> QED BY <1>2, <1>3, <1>4 DEF IsPrefix

LEMMA UnderIs ==
  ASSUME NEW p \in Seq(Letter), NEW q \in Seq(Letter)
  PROVE  /\ Under(p, q) <=> Len(p) < Len(q) /\ \A i \in 1..Len(p) : p[i] = q[i]
         /\ ~Under(p, p) /\ IsPrefix(p, p)
         /\ IsPrefix(p, q) => p = q \/ Under(p, q)
         /\ Under(p, q) => p # q /\ IsPrefix(p, q)
<1>1. Under(p, q) <=> Len(p) < Len(q) /\ \A i \in 1..Len(p) : p[i] = q[i]
  BY PrefixIs DEF Under
<1>2. ~Under(p, p) /\ IsPrefix(p, p)
  BY PrefixIs DEF Under
<1>3. ASSUME IsPrefix(p, q) PROVE p = q \/ Under(p, q)
  <2>1. Len(p) <= Len(q) /\ \A i \in 1..Len(p) : p[i] = q[i]
    BY <1>3, PrefixIs
  <2>2. CASE Len(p) = Len(q)
    BY <2>1, <2>2, SeqEqual
  <2>3. CASE Len(p) # Len(q)
    BY <1>1, <2>1, <2>3
  <2> QED BY <2>2, <2>3
<1>4. Under(p, q) => p # q /\ IsPrefix(p, q)
  BY <1>2 DEF Under
<1> QED BY <1>1, <1>2, <1>3, <1>4

LEMMA UnderMore ==
  ASSUME NEW p \in Seq(Letter), NEW q \in Seq(Letter), NEW r \in Seq(Letter), IsPrefix(p, q), Under(q, r)
  PROVE  Under(p, r)
<1>1. Len(p) <= Len(q) /\ \A i \in 1..Len(p) : p[i] = q[i]
  BY PrefixIs
<1>2. Len(q) < Len(r) /\ \A i \in 1..Len(q) : q[i] = r[i]
  BY UnderIs
<1>3. Len(p) < Len(r) /\ \A i \in 1..Len(p) : p[i] = r[i]
  BY <1>1, <1>2
<1> QED BY <1>3, UnderIs

\* The folders that a path is in, by their level.
LEMMA Levels ==
  ASSUME PathsAreClosed, NEW p \in Path, NEW n \in 1..Len(p)
  PROVE  /\ SubSeq(p, 1, n) \in Path /\ Len(SubSeq(p, 1, n)) = n
         /\ \A m \in 1..n : SubSeq(SubSeq(p, 1, n), 1, m) = SubSeq(p, 1, m)
         /\ n < Len(p) => Under(SubSeq(p, 1, n), p)
<1>1. p \in Seq(Letter) /\ Len(p) \in Nat
  BY DEF PathsAreClosed
<1>2. SubSeq(p, 1, n) \in Path
  BY <1>1 DEF PathsAreClosed
<1>3. \A i \in 1..n : p[i] \in Letter
  BY <1>1
<1>4. /\ Len(SubSeq(p, 1, n)) = n /\ SubSeq(p, 1, n) \in Seq(Letter)
      /\ \A i \in 1..n : SubSeq(p, 1, n)[i] = p[i]
  <2>1. /\ SubSeq(p, 1, n) \in Seq(Letter) /\ Len(SubSeq(p, 1, n)) = IF 1 <= n THEN n - 1 + 1 ELSE 0
        /\ \A i \in 1..(n - 1 + 1) : SubSeq(p, 1, n)[i] = p[1 + i - 1]
    BY <1>1, <1>3, SubSeqProperties
  <2> QED BY <1>1, <2>1
<1>5. ASSUME NEW m \in 1..n PROVE SubSeq(SubSeq(p, 1, n), 1, m) = SubSeq(p, 1, m)
  <2>1. /\ 1 \in 1..Len(p) /\ n \in 1..Len(p) /\ 1 \in 1..(n - 1 + 1) /\ m \in 1..(n - 1 + 1)
        /\ 1 + 1 - 1 = 1 /\ 1 + m - 1 = m
    BY <1>1
  <2>2. SubSeq(SubSeq(p, 1, n), 1, m) = SubSeq(p, 1 + 1 - 1, 1 + m - 1)
    BY <1>1, <2>1, SubSeqOfSubSeq
  <2> QED BY <2>1, <2>2
<1>6. ASSUME n < Len(p) PROVE Under(SubSeq(p, 1, n), p)
  BY <1>1, <1>4, <1>6, UnderIs
<1> QED BY <1>2, <1>4, <1>5, <1>6

----------------------------------------------------------------------------
(* Types: what there is is a tree.                                         *)

TreeOK == DOMAIN tree \subseteq Path /\ (\A p \in DOMAIN tree : tree[p] \in Kind) /\ IsTree(tree)

\* The folder of a path.
LEMMA ParentIs ==
  ASSUME PathsAreClosed, NEW p \in Path, Len(p) > 1
  PROVE  /\ Parent(p) \in Path /\ Len(Parent(p)) = Len(p) - 1 /\ Under(Parent(p), p)
         /\ Len(p) - 1 \in 1..Len(p)
<1>1. Len(p) \in Nat
  BY DEF PathsAreClosed
<1>2. Len(p) - 1 \in 1..Len(p) /\ Len(p) - 1 < Len(p)
  BY <1>1
<1> QED BY <1>2, Levels DEF Parent

LEMMA Unlinked ==
  ASSUME TreeOK, NEW p, \A q \in DOMAIN tree : Len(q) > 1 => Parent(q) # p,
         tree' = Only(tree, DOMAIN tree \ {p})
  PROVE  TreeOK'
<1>1. DOMAIN tree' = DOMAIN tree \ {p} /\ \A q \in DOMAIN tree' : tree'[q] = tree[q]
  BY DEF Only
<1>2. \A q \in DOMAIN tree' : Len(q) > 1 => Parent(q) \in DOMAIN tree' /\ tree'[Parent(q)] = "dir"
  BY <1>1 DEF TreeOK, IsTree
<1> QED BY <1>1, <1>2 DEF TreeOK, IsTree

\* A file is in no path but its own.
LEMMA FileIsLeaf ==
  ASSUME TreeOK, NEW p, is_file_existed(p)
  PROVE  \A q \in DOMAIN tree : Len(q) > 1 => Parent(q) # p
BY DEF TreeOK, IsTree, is_file_existed

LEMMA MadeAreLevels ==
  ASSUME PathsAreClosed, NEW p \in Path, NEW q \in Made(p)
  PROVE  \E n \in 1..Len(p) : q = SubSeq(p, 1, n) /\ \A m \in 1..(n - 1) : ~is_file_existed(SubSeq(p, 1, m))
BY DEF Made

\* The folder of a level that was made was made with it, or was there.
LEMMA LevelBelow ==
  ASSUME PathsAreClosed, NEW p \in Path, NEW q \in Made(p), Len(q) > 1
  PROVE  q \in Path /\ Parent(q) \in Made(p) /\ ~is_file_existed(Parent(q)) /\ Len(Parent(q)) < Len(p)
<1>1. PICK n \in 1..Len(p) : q = SubSeq(p, 1, n) /\ \A m \in 1..(n - 1) : ~is_file_existed(SubSeq(p, 1, m))
  BY MadeAreLevels
<1>2. q \in Path /\ Len(q) = n /\ \A m \in 1..n : SubSeq(q, 1, m) = SubSeq(p, 1, m)
  BY <1>1, Levels
<1>3. Len(p) \in Nat
  BY DEF PathsAreClosed
<1>4. n - 1 \in 1..n /\ n - 1 \in 1..(n - 1) /\ n - 1 \in 1..Len(p) /\ n - 1 < Len(p)
  BY <1>2, <1>3
<1>5. Parent(q) = SubSeq(p, 1, n - 1)
  BY <1>2, <1>4 DEF Parent
<1>6. Len(Parent(q)) = n - 1
  BY <1>4, <1>5, Levels
<1>7. \A k \in 1..(n - 1 - 1) : k \in 1..(n - 1)
  BY <1>3
<1> QED BY <1>1, <1>2, <1>4, <1>5, <1>6, <1>7 DEF Made

LEMMA MadeArePaths ==
  ASSUME PathsAreClosed, NEW p \in Path
  PROVE  Made(p) \subseteq Path
BY MadeAreLevels, Levels

LEMMA MakesTypes ==
  ASSUME PathsAreClosed, TreeOK, NEW p \in Path, rek_make_dir(p)
  PROVE  TreeOK'
<1>1. /\ DOMAIN tree' = DOMAIN tree \cup Made(p)
      /\ \A q \in DOMAIN tree' : tree'[q] = IF q \in DOMAIN tree THEN tree[q] ELSE "dir"
  BY DEF rek_make_dir
<1>2. DOMAIN tree' \subseteq Path /\ \A q \in DOMAIN tree' : tree'[q] \in Kind
  BY <1>1, MadeArePaths DEF TreeOK, Kind
<1>3. ASSUME NEW q \in DOMAIN tree', Len(q) > 1
      PROVE  Parent(q) \in DOMAIN tree' /\ tree'[Parent(q)] = "dir"
  <2>1. CASE q \in DOMAIN tree
    BY <1>1, <1>3, <2>1 DEF TreeOK, IsTree
  <2>2. CASE q \in Made(p)
    <3>1. Parent(q) \in Made(p) /\ ~is_file_existed(Parent(q))
      BY <1>3, <2>2, LevelBelow
    <3> QED BY <1>1, <3>1 DEF is_file_existed
  <2> QED BY <1>1, <2>1, <2>2
<1> QED BY <1>2, <1>3 DEF TreeOK, IsTree

\* A new path whose folder is there, and which was no folder.
LEMMA Added ==
  ASSUME PathsAreClosed, TreeOK, NEW p \in Path, NEW k \in Kind, ~is_folder_existed(p),
         Len(p) > 1 => is_folder_existed(Parent(p)),
         tree' = [q \in DOMAIN tree \cup {p} |-> IF q = p THEN k ELSE tree[q]]
  PROVE  TreeOK'
<1>1. /\ DOMAIN tree' = DOMAIN tree \cup {p}
      /\ \A q \in DOMAIN tree' : tree'[q] = IF q = p THEN k ELSE tree[q]
  OBVIOUS
<1>2. DOMAIN tree' \subseteq Path /\ \A q \in DOMAIN tree' : tree'[q] \in Kind
  BY <1>1 DEF TreeOK
<1>3. ASSUME NEW q \in DOMAIN tree', Len(q) > 1
      PROVE  Parent(q) \in DOMAIN tree' /\ tree'[Parent(q)] = "dir"
  <2>1. Parent(q) \in DOMAIN tree /\ tree[Parent(q)] = "dir"
    BY <1>1, <1>3 DEF TreeOK, IsTree, is_folder_existed
  <2>2. Parent(q) # p
    BY <2>1 DEF is_folder_existed
  <2> QED BY <1>1, <2>1, <2>2
<1> QED BY <1>2, <1>3 DEF TreeOK, IsTree

\* The levels above a socket end with its folder.
LEMMA AboveSocket ==
  ASSUME PathsAreClosed, NEW p \in Path, path_bind(p)
  PROVE  /\ Made(Parent(p)) \subseteq Path
         /\ Len(p) > 1 => Parent(p) \in Made(Parent(p)) /\ ~is_file_existed(Parent(p)) /\ Parent(p) # p
         /\ \A q \in Made(Parent(p)) : Len(q) > 1 =>
              Parent(q) \in Made(Parent(p)) /\ ~is_file_existed(Parent(q)) /\ Parent(q) # p
<1>1. p \in Seq(Letter) /\ Len(p) \in Nat /\ Len(p) >= 1
  <2>1. p \in Seq(Letter) /\ p # <<>>
    BY DEF PathsAreClosed
  <2> QED BY <2>1
<1>2. CASE Len(p) > 1
  <2>1. Parent(p) \in Path /\ Len(Parent(p)) = Len(p) - 1 /\ Len(p) - 1 \in 1..Len(p)
    BY <1>2, ParentIs
  <2>2. Made(Parent(p)) \subseteq Path
    BY <2>1, MadeArePaths
  <2>3. \A q \in Made(Parent(p)) : Len(q) > 1 =>
          Parent(q) \in Made(Parent(p)) /\ ~is_file_existed(Parent(q)) /\ Len(Parent(q)) < Len(Parent(p))
    BY <2>1, LevelBelow
  <2>4. \A m \in 1..(Len(p) - 1) : SubSeq(Parent(p), 1, m) = SubSeq(p, 1, m) /\ ~is_file_existed(SubSeq(p, 1, m))
    BY <2>1, Levels DEF Parent, path_bind
  <2>5. SubSeq(Parent(p), 1, Len(Parent(p))) = Parent(p)
    <3>1. Parent(p) \in Seq(Letter)
      BY <2>1 DEF PathsAreClosed
    <3> QED BY <3>1, SubSeqFull
  <2>6. /\ Len(p) - 1 \in 1..Len(Parent(p)) /\ Len(p) - 1 \in 1..(Len(p) - 1)
        /\ \A k \in 1..(Len(p) - 1 - 1) : k \in 1..(Len(p) - 1)
    BY <1>1, <1>2, <2>1
  <2>7. Parent(p) \in Made(Parent(p))
    BY <2>1, <2>4, <2>5, <2>6 DEF Made
  <2>8. ~is_file_existed(Parent(p))
    BY <2>1, <2>4, <2>5, <2>6
  <2> QED BY <1>1, <2>1, <2>2, <2>3, <2>7, <2>8
<1>3. CASE Len(p) = 1
  <2>1. SubSeq(p, 1, 0) = <<>>
    BY <1>1, SubSeqEmpty
  <2>2. Len(Parent(p)) = 0
    BY <1>3, <2>1 DEF Parent
  <2>3. Made(Parent(p)) = {}
    BY <2>2 DEF Made
  <2> QED BY <1>3, <2>3
<1>4. Len(p) > 1 \/ Len(p) = 1
  <2>1. \A n \in Nat : n >= 1 => n > 1 \/ n = 1
    OBVIOUS
  <2> QED BY <1>1, <2>1, Zenon
<1> QED BY <1>2, <1>3, <1>4, Zenon

LEMMA BindTypes ==
  ASSUME PathsAreClosed, TreeOK, NEW p \in Path, path_bind(p)
  PROVE  TreeOK'
<1> DEFINE G == Made(Parent(p))
<1>1. /\ G \subseteq Path
      /\ Len(p) > 1 => Parent(p) \in G /\ ~is_file_existed(Parent(p)) /\ Parent(p) # p
      /\ \A q \in G : Len(q) > 1 => Parent(q) \in G /\ ~is_file_existed(Parent(q)) /\ Parent(q) # p
  BY AboveSocket
<1>2. tree' = [q \in DOMAIN tree \cup G \cup {p} |->
                 IF q = p THEN "file" ELSE IF q \in DOMAIN tree THEN tree[q] ELSE "dir"]
  BY DEF path_bind
<1> HIDE DEF G
<1>3. /\ DOMAIN tree' = DOMAIN tree \cup G \cup {p}
      /\ \A q \in DOMAIN tree' : tree'[q] = IF q = p THEN "file" ELSE IF q \in DOMAIN tree THEN tree[q] ELSE "dir"
  BY <1>2
<1>4. DOMAIN tree' \subseteq Path /\ \A q \in DOMAIN tree' : tree'[q] \in Kind
  BY <1>1, <1>3 DEF TreeOK, Kind
<1>5. ASSUME NEW q \in DOMAIN tree', Len(q) > 1
      PROVE  Parent(q) \in DOMAIN tree' /\ tree'[Parent(q)] = "dir"
  <2>1. CASE q \in G \/ q = p
    <3>1. Parent(q) \in G /\ ~is_file_existed(Parent(q)) /\ Parent(q) # p
      BY <1>1, <1>5, <2>1
    <3> QED BY <1>3, <3>1 DEF is_file_existed
  <2>2. CASE q \in DOMAIN tree
    <3>1. Parent(q) \in DOMAIN tree /\ tree[Parent(q)] = "dir"
      BY <1>5, <2>2 DEF TreeOK, IsTree
    <3>2. Parent(q) # p
      BY <3>1 DEF path_bind, is_folder_existed
    <3> QED BY <1>3, <3>1, <3>2
  <2> QED BY <1>3, <2>1, <2>2
<1> QED BY <1>4, <1>5 DEF TreeOK, IsTree

----------------------------------------------------------------------------
(* What fs_remove finds.                                                   *)

\* A finite set as a sequence, in which each of its members is once.
LEMMA AllListed ==
  ASSUME NEW G, IsFiniteSet(G), NEW s \in SetToSeqs(G)
  PROVE  s \in Seq(G) /\ \A x \in G : \E i \in 1..Len(s) : s[i] = x
<1> DEFINE n == Cardinality(G)
<1>1. n \in Nat
  BY FS_CardinalityType
<1>2. s \in [1..n -> G] /\ \A i, j \in 1..n : i # j => s[i] # s[j]
  BY DEF SetToSeqs
<1> HIDE DEF n
<1>3. s \in Seq(G) /\ Len(s) = n
  BY <1>1, <1>2
<1>4. IsFiniteSet(1..n) /\ Cardinality(1..n) = n
  BY <1>1, FS_Interval
<1>5. s \in Injection(1..n, G)
  BY <1>2 DEF Injection, IsInjective
<1>6. s \in Surjection(1..n, G)
  BY <1>1, <1>4, <1>5, FS_Injection DEF n
<1> QED BY <1>3, <1>6 DEF Surjection

\* The list has what is below the folder and readdir knows, and its order is that of rek_scan_dir.
LEMMA Scanned ==
  ASSUME PathsAreClosed, TreeOK, NEW p \in Path, NEW s \in rek_scan_dir(p)
  PROVE  /\ s \in Seq(Path \X BOOLEAN)
         /\ \A i \in 1..Len(s) : s[i][1] \in Found(p) /\ s[i][2] = (tree[s[i][1]] = "dir")
         /\ \A q \in Found(p) : \E i \in 1..Len(s) : s[i][1] = q
         /\ \A i, j \in 1..Len(s) : i < j => ~IsPrefix(s[i][1], s[j][1])
<1> DEFINE G == {<<q, tree[q] = "dir">> : q \in Found(p)}
<1>1. s \in SetToSeqs(G) /\ \A i, j \in DOMAIN s : i < j => ~IsPrefix(s[i][1], s[j][1])
  BY DEF rek_scan_dir
<1>2. IsFiniteSet(Found(p)) /\ Found(p) \subseteq Path
  <2>1. Found(p) \subseteq Path
    BY DEF Found, Below, TreeOK
  <2> QED BY <2>1, FS_Subset DEF PathsAreClosed
<1>3. IsFiniteSet(G)
  <2> DEFINE f == [q \in Found(p) |-> <<q, tree[q] = "dir">>]
  <2>1. f \in Surjection(Found(p), G)
    BY DEF Surjection
  <2> QED BY <1>2, <2>1, FS_Surjection
<1>4. ASSUME NEW x \in G
      PROVE  x[1] \in Found(p) /\ x[2] = (tree[x[1]] = "dir") /\ x \in Path \X BOOLEAN
  <2>1. PICK q \in Found(p) : x = <<q, tree[q] = "dir">>
    OBVIOUS
  <2>2. (tree[q] = "dir") \in BOOLEAN /\ q \in Path
    BY <1>2
  <2>3. x[1] = q /\ x[2] = (tree[q] = "dir")
    BY <2>1
  <2>4. x \in Path \X BOOLEAN
    BY <2>1, <2>2
  <2> QED BY <2>3, <2>4
<1>5. ASSUME NEW q \in Found(p) PROVE \E x \in G : x[1] = q
  <2>1. <<q, tree[q] = "dir">> \in G /\ <<q, tree[q] = "dir">>[1] = q
    OBVIOUS
  <2> QED BY <2>1
<1> HIDE DEF G
<1>6. s \in Seq(G) /\ \A x \in G : \E i \in 1..Len(s) : s[i] = x
  BY <1>1, <1>3, AllListed
<1>7. DOMAIN s = 1..Len(s) /\ \A i \in 1..Len(s) : s[i] \in G
  BY <1>6
<1>8. s \in Seq(Path \X BOOLEAN)
  BY <1>4, <1>6, SeqMonotonic
<1>9. \A i, j \in 1..Len(s) : i < j => ~IsPrefix(s[i][1], s[j][1])
  BY <1>1, <1>7
<1>10. \A i \in 1..Len(s) : s[i][1] \in Found(p) /\ s[i][2] = (tree[s[i][1]] = "dir")
  BY <1>4, <1>7
<1>11. ASSUME NEW q \in Found(p) PROVE \E i \in 1..Len(s) : s[i][1] = q
  <2>1. PICK x \in G : x[1] = q
    BY <1>5
  <2>2. PICK i \in 1..Len(s) : s[i] = x
    BY <1>6
  <2> QED BY <2>1, <2>2
<1> QED BY <1>8, <1>9, <1>10, <1>11

----------------------------------------------------------------------------
(* The steps.                                                              *)

LEMMA TreeSteps ==
  ASSUME PathsAreClosed, FInv, [Next]_fs_vars
  PROVE  TreeOK'
<1>1. TreeOK
  BY DEF FInv, TypeOK, TreeOK
<1>2. CASE RemoveEntry
  <2> DEFINE p == Head(cache)[1]
  <2>1. CASE tree' = tree
    BY <1>1, <2>1 DEF TreeOK, IsTree
  <2>2. CASE Below(p) = {} /\ tree' = Only(tree, DOMAIN tree \ {p})
    <3>1. ASSUME NEW q \in DOMAIN tree, Len(q) > 1 PROVE Parent(q) # p
      <4>1. q \in Path
        BY <1>1 DEF TreeOK
      <4>2. Under(Parent(q), q)
        BY <3>1, <4>1, ParentIs
      <4> QED BY <2>2, <4>2 DEF Under, Below
    <3> QED BY <1>1, <2>2, <3>1, Unlinked
  <2> QED BY <1>2, <2>1, <2>2 DEF RemoveEntry
<1>3. ASSUME NEW p \in Path, rek_make_dir(p) PROVE TreeOK'
  BY <1>1, <1>3, MakesTypes
<1>4. ASSUME NEW p \in Path, path_bind(p) PROVE TreeOK'
  BY <1>1, <1>4, BindTypes
<1>5. ASSUME NEW p \in Path, fs_remove(p) PROVE TreeOK'
  <2>1. CASE tree' = tree
    BY <1>1, <2>1 DEF TreeOK, IsTree
  <2>2. CASE is_file_existed(p) /\ tree' = Only(tree, DOMAIN tree \ {p})
    BY <1>1, <2>2, FileIsLeaf, Unlinked
  <2> QED BY <1>5, <2>1, <2>2 DEF fs_remove
<1>6. ASSUME NEW p \in Path, Other(p) PROVE TreeOK'
  <2>1. CASE is_file_existed(p) /\ tree' = Only(tree, DOMAIN tree \ {p})
    BY <1>1, <2>1, FileIsLeaf, Unlinked
  <2>2. ASSUME p \notin DOMAIN tree, CanMake(p), NEW k \in Kind,
               tree' = [q \in DOMAIN tree \cup {p} |-> IF q = p THEN k ELSE tree[q]]
        PROVE  TreeOK'
    <3>1. ~is_folder_existed(p) /\ (Len(p) > 1 => is_folder_existed(Parent(p)))
      BY <2>2 DEF is_folder_existed, CanMake
    <3> QED BY <1>1, <2>2, <3>1, Added
  <2> QED BY <1>6, <2>1, <2>2 DEF Other
<1>7. CASE RemoveEnds \/ UNCHANGED fs_vars
  BY <1>1, <1>7 DEF RemoveEnds, fs_vars, TreeOK, IsTree
<1> QED BY <1>2, <1>3, <1>4, <1>5, <1>6, <1>7 DEF Next

LEMMA TypeSteps ==
  ASSUME MaxOther \in Nat, PathsAreClosed, FInv, [Next]_fs_vars
  PROVE  TypeOK'
<1>1. TreeOK' /\ TreeOK
  BY TreeSteps DEF FInv, TypeOK, TreeOK
<1>2. TypeOK
  BY DEF FInv
<1>3. CASE RemoveEntry
  <2>1. Tail(cache) \in Seq(Path \X BOOLEAN)
    BY <1>2, <1>3 DEF TypeOK, RemoveEntry
  <2> QED BY <1>1, <1>2, <1>3, <2>1 DEF TypeOK, RemoveEntry, TreeOK
<1>4. ASSUME NEW p \in Path, fs_remove(p) PROVE TypeOK'
  <2>1. \A s \in rek_scan_dir(p) : s \in Seq(Path \X BOOLEAN)
    BY <1>1, Scanned
  <2> QED BY <1>1, <1>2, <1>4, <2>1 DEF TypeOK, fs_remove, TreeOK
<1>5. ASSUME NEW p \in Path, rek_make_dir(p) \/ path_bind(p) PROVE TypeOK'
  BY <1>1, <1>2, <1>5 DEF TypeOK, rek_make_dir, path_bind, TreeOK
<1>6. ASSUME NEW p \in Path, Other(p) PROVE TypeOK'
  <2>1. other' = other + 1 /\ other < MaxOther /\ cache' = cache /\ removing' = removing
    BY <1>6 DEF Other
  <2> QED BY <1>1, <1>2, <2>1 DEF TypeOK, TreeOK
<1>7. CASE RemoveEnds \/ UNCHANGED fs_vars
  BY <1>1, <1>2, <1>7 DEF RemoveEnds, fs_vars, TypeOK, TreeOK
<1> QED BY <1>3, <1>4, <1>5, <1>6, <1>7 DEF Next

\* The list goes on with its rest, or is made anew.
LEMMA OrderSteps ==
  ASSUME PathsAreClosed, FInv, [Next]_fs_vars
  PROVE  CacheOrder'
<1>1. CacheOrder /\ TreeOK /\ cache \in Seq(Path \X BOOLEAN)
  BY DEF FInv, TypeOK, TreeOK
<1>2. CASE RemoveEntry
  <2>1. /\ Len(cache) \in Nat /\ Len(cache') = Len(cache) - 1
        /\ \A i \in 1..Len(cache') : cache'[i] = cache[i + 1] /\ i + 1 \in 1..Len(cache)
    BY <1>1, <1>2 DEF RemoveEntry
  <2>2. removing' = removing /\ removing # <<>>
    BY <1>1, <1>2 DEF RemoveEntry, CacheOrder
  <2>3. \A i \in 1..Len(cache') : PathAt(i)' = PathAt(i + 1)
    BY <2>1 DEF PathAt
  <2>4. \A i \in 1..Len(cache') : Under(removing', PathAt(i)')
    BY <1>1, <2>1, <2>2, <2>3 DEF CacheOrder
  <2>5. \A i, j \in 1..Len(cache') : i < j => ~IsPrefix(PathAt(i)', PathAt(j)')
    BY <1>1, <2>1, <2>3 DEF CacheOrder
  <2> QED BY <2>2, <2>4, <2>5 DEF CacheOrder
<1>3. ASSUME NEW p \in Path, fs_remove(p) PROVE CacheOrder'
  <2>1. CASE UNCHANGED <<cache, removing>>
    BY <1>1, <2>1 DEF CacheOrder, PathAt
  <2>2. CASE removing' = p /\ cache' \in rek_scan_dir(p)
    <3>1. /\ \A i \in 1..Len(cache') : cache'[i][1] \in Found(p)
          /\ \A i, j \in 1..Len(cache') : i < j => ~IsPrefix(cache'[i][1], cache'[j][1])
      BY <1>1, <2>2, Scanned
    <3>2. \A q \in Found(p) : Under(p, q)
      BY DEF Found, Below, Under
    <3>3. p # <<>>
      BY DEF PathsAreClosed
    <3> QED BY <2>2, <3>1, <3>2, <3>3 DEF CacheOrder, PathAt
  <2> QED BY <1>3, <2>1, <2>2 DEF fs_remove
<1>4. CASE UNCHANGED <<cache, removing>>
  BY <1>1, <1>4 DEF CacheOrder, PathAt
<1>5. CASE RemoveEnds
  BY <1>5 DEF RemoveEnds, CacheOrder
<1> QED BY <1>2, <1>3, <1>4, <1>5 DEF Next, rek_make_dir, path_bind, Other, fs_vars

\* What is outside of a folder is the same while nothing outside changes.
LEMMA OutsideSame ==
  ASSUME NEW r, \A q : ~Under(r, q) => /\ q \in DOMAIN tree' <=> q \in DOMAIN tree
                                       /\ q \in DOMAIN tree => tree'[q] = tree[q]
  PROVE  Only(tree', DOMAIN tree' \ Below(r)') = Only(tree, DOMAIN tree \ Below(r))
<1>1. DOMAIN tree' \ Below(r)' = DOMAIN tree \ Below(r)
  <2>1. \A q : q \in DOMAIN tree' \ Below(r)' <=> q \in DOMAIN tree' /\ ~Under(r, q)
    BY DEF Below, Under
  <2>2. \A q : q \in DOMAIN tree \ Below(r) <=> q \in DOMAIN tree /\ ~Under(r, q)
    BY DEF Below, Under
  <2> QED BY <2>1, <2>2
<1>2. \A q \in DOMAIN tree \ Below(r) : tree'[q] = tree[q]
  BY DEF Below, Under
<1> QED BY <1>1, <1>2 DEF Only

\* A removal takes its entry or nothing.
LEMMA EntryIs ==
  ASSUME PathsAreClosed, FInv, RemoveEntry
  PROVE  /\ removing # <<>> /\ removing' = removing /\ left' = left /\ other' = other
         /\ Len(cache) \in Nat /\ 1 \in 1..Len(cache) /\ Len(cache') = Len(cache) - 1
         /\ Head(cache) = cache[1] /\ PathAt(1) \in Path /\ Under(removing, PathAt(1))
         /\ \A i \in 1..Len(cache') : cache'[i] = cache[i + 1] /\ i + 1 \in 1..Len(cache)
         /\ \/ tree' = tree
            \/ tree' = Only(tree, DOMAIN tree \ {PathAt(1)}) /\ Below(PathAt(1)) = {}
<1>1. CacheOrder /\ cache \in Seq(Path \X BOOLEAN) /\ cache # <<>> /\ cache' = Tail(cache)
  BY DEF FInv, TypeOK, RemoveEntry
<1>2. /\ Len(cache) \in Nat /\ 1 \in 1..Len(cache) /\ Len(cache') = Len(cache) - 1
      /\ Head(cache) = cache[1] /\ cache[1] \in Path \X BOOLEAN
      /\ \A i \in 1..Len(cache') : cache'[i] = cache[i + 1] /\ i + 1 \in 1..Len(cache)
  BY <1>1
<1>3. PathAt(1) \in Path /\ Under(removing, PathAt(1)) /\ removing # <<>>
  BY <1>1, <1>2 DEF CacheOrder, PathAt
<1>4. removing' = removing /\ left' = left /\ other' = other
  BY DEF RemoveEntry
<1>5. \/ tree' = tree
      \/ tree' = Only(tree, DOMAIN tree \ {PathAt(1)}) /\ Below(PathAt(1)) = {}
  BY <1>2 DEF RemoveEntry, PathAt
<1> QED BY <1>2, <1>3, <1>4, <1>5

LEMMA OutsideSteps ==
  ASSUME PathsAreClosed, FInv, [Next]_fs_vars
  PROVE  Outside'
<1>1. Outside /\ TreeOK /\ removing \in Path \cup {<<>>}
  BY DEF FInv, TypeOK, TreeOK
<1>2. \A p \in Path : p \in Seq(Letter)
  BY DEF PathsAreClosed
<1>3. CASE RemoveEntry
  <2> DEFINE p == PathAt(1)
  <2>1. /\ removing # <<>> /\ removing' = removing /\ left' = left /\ Under(removing, p)
        /\ tree' = tree \/ tree' = Only(tree, DOMAIN tree \ {p})
    BY <1>3, EntryIs
  <2> HIDE DEF p
  <2>2. removing # p
    BY <1>1, <1>2, <2>1, UnderIs
  <2>3. \A q : q # p => /\ q \in DOMAIN tree' <=> q \in DOMAIN tree
                        /\ q \in DOMAIN tree => tree'[q] = tree[q]
    BY <2>1 DEF Only
  <2>4. Only(tree', DOMAIN tree' \ Below(removing)') = Only(tree, DOMAIN tree \ Below(removing))
    BY <2>1, <2>3, OutsideSame
  <2> QED BY <1>1, <2>1, <2>2, <2>3, <2>4 DEF Outside, Below
<1>4. ASSUME NEW p \in Path, fs_remove(p) PROVE Outside'
  <2>1. CASE removing' = removing
    BY <1>4, <2>1 DEF Outside, fs_remove
  <2>2. CASE /\ is_folder_existed(p) /\ removing' = p /\ left' = Only(tree, DOMAIN tree \ Below(p)) /\ tree' = tree
    BY <2>2 DEF Outside, is_folder_existed, Below
  <2> QED BY <1>4, <2>1, <2>2 DEF fs_remove
<1>5. ASSUME NEW p \in Path, rek_make_dir(p) \/ path_bind(p) PROVE Outside'
  BY <1>5 DEF Outside, rek_make_dir, path_bind
<1>6. ASSUME NEW p \in Path, Other(p) PROVE Outside'
  <2> SUFFICES ASSUME removing # <<>> PROVE Outside'
    BY <1>6 DEF Outside, Other
  <2>1. removing' = removing /\ removing \in Path /\ removing \in DOMAIN tree /\ tree[removing] = "dir"
    BY <1>1, <1>6 DEF Other, Outside
  <2>2. \A q : q # p => /\ q \in DOMAIN tree' <=> q \in DOMAIN tree
                        /\ q \in DOMAIN tree => tree'[q] = tree[q]
    BY <1>6 DEF Other, Only
  <2>3. removing # p
    BY <1>6, <2>1 DEF Other, is_file_existed
  <2>4. removing \in DOMAIN tree' /\ tree'[removing] = "dir"
    BY <2>1, <2>2, <2>3
  <2>5. CASE IsPrefix(removing, p)
    <3>1. Under(removing, p)
      BY <1>2, <2>1, <2>3, <2>5, UnderIs
    <3>2. Only(tree', DOMAIN tree' \ Below(removing)') = Only(tree, DOMAIN tree \ Below(removing))
      <4>1. \A q : ~Under(removing, q) => q # p
        BY <3>1
      <4>2. \A q : ~Under(removing, q) => /\ q \in DOMAIN tree' <=> q \in DOMAIN tree
                                          /\ q \in DOMAIN tree => tree'[q] = tree[q]
        BY <2>2, <4>1
      <4> QED BY <2>1, <4>2, OutsideSame
    <3>3. left' = left
      BY <1>6, <2>5 DEF Other
    <3> QED BY <1>1, <2>1, <2>4, <3>2, <3>3 DEF Outside, Below
  <2>6. CASE ~IsPrefix(removing, p)
    <3> DEFINE G == {q \in DOMAIN tree' : ~IsPrefix(removing, q) \/ q = removing}
    <3>1. left' = Only(tree', G)
      BY <1>6, <2>6 DEF Other
    <3>2. \A q \in DOMAIN tree' : (~IsPrefix(removing, q) \/ q = removing) <=> ~Under(removing, q)
      <4>1. DOMAIN tree' \subseteq Path
        BY TreeSteps DEF TreeOK
      <4> QED BY <1>2, <2>1, <4>1, UnderIs
    <3>3. G = DOMAIN tree' \ Below(removing)'
      BY <3>2, <2>1 DEF Below, Under
    <3> QED BY <2>1, <2>4, <3>1, <3>3 DEF Outside, Below
  <2> QED BY <2>5, <2>6
<1>7. CASE RemoveEnds \/ UNCHANGED fs_vars
  BY <1>1, <1>7 DEF RemoveEnds, fs_vars, Outside, Below
<1> QED BY <1>3, <1>4, <1>5, <1>6, <1>7 DEF Next

\* An entry is removed, or there is something in it that is not.
LEMMA InsideSteps ==
  ASSUME MaxOther \in Nat, PathsAreClosed, FInv, [Next]_fs_vars
  PROVE  Inside'
<1>1. Inside /\ CacheOrder /\ TreeOK /\ removing \in Path \cup {<<>>} /\ other \in Nat
  BY DEF FInv, TypeOK, TreeOK
<1>2. \A p \in Path : p \in Seq(Letter)
  BY DEF PathsAreClosed
<1>3. CASE RemoveEntry
  <2> SUFFICES ASSUME other = 0 PROVE Inside'
    BY <1>3 DEF Inside, RemoveEntry
  <2> DEFINE p == PathAt(1)
  <2>1. /\ removing # <<>> /\ removing' = removing /\ removing \in Path /\ other' = other
        /\ Len(cache) \in Nat /\ 1 \in 1..Len(cache) /\ Len(cache') = Len(cache) - 1
        /\ Head(cache) = cache[1] /\ p \in Path /\ Under(removing, p)
        /\ \A i \in 1..Len(cache') : cache'[i] = cache[i + 1] /\ i + 1 \in 1..Len(cache)
        /\ \/ tree' = tree
           \/ tree' = Only(tree, DOMAIN tree \ {p}) /\ Below(p) = {}
    BY <1>1, <1>3, EntryIs
  <2>2. p \in DOMAIN tree /\ tree[p] # "special" /\ cache[1][2] = (tree[p] = "dir")
    BY <1>1, <2>1 DEF Inside
  <2> HIDE DEF p
  <2>3. \A i \in 1..Len(cache') : PathAt(i)' = PathAt(i + 1) /\ PathAt(i + 1) # p /\ cache'[i] = cache[i + 1]
    <3>1. IsPrefix(p, p)
      BY <1>2, <2>1, UnderIs
    <3>2. \A i \in 1..Len(cache) : 1 < i => ~IsPrefix(p, PathAt(i))
      BY <1>1, <2>1 DEF CacheOrder, p
    <3>3. \A i \in 1..Len(cache') : i + 1 \in 1..Len(cache) /\ 1 < i + 1
      BY <2>1
    <3> QED BY <2>1, <3>1, <3>2, <3>3 DEF PathAt
  <2>4. \A i \in 1..Len(cache) : PathAt(i) # p => \E j \in 1..Len(cache') : PathAt(j)' = PathAt(i)
    <3> SUFFICES ASSUME NEW i \in 1..Len(cache), PathAt(i) # p
                 PROVE  \E j \in 1..Len(cache') : PathAt(j)' = PathAt(i)
      OBVIOUS
    <3>1. i # 1
      BY DEF p
    <3>2. i - 1 \in 1..Len(cache') /\ (i - 1) + 1 = i
      BY <2>1, <3>1
    <3>3. PathAt(i - 1)' = PathAt(i)
      BY <2>3, <3>2
    <3> QED BY <3>2, <3>3
  <2>5. \A i \in 1..Len(cache') : /\ PathAt(i + 1) \in DOMAIN tree /\ tree[PathAt(i + 1)] # "special"
                                  /\ cache[i + 1][2] = (tree[PathAt(i + 1)] = "dir")
    BY <1>1, <2>1 DEF Inside
  <2>6. \A q \in Below(removing) : (\E i \in 1..Len(cache) : PathAt(i) = q) \/ Special(q)
    BY <1>1, <2>1 DEF Inside
  <2>7. CASE Below(p) = {} /\ tree' = Only(tree, DOMAIN tree \ {p})
    <3>1. DOMAIN tree' = DOMAIN tree \ {p} /\ \A q \in DOMAIN tree' : tree'[q] = tree[q]
      BY <2>7 DEF Only
    <3>2. ASSUME NEW i \in 1..Len(cache')
          PROVE  /\ PathAt(i)' \in DOMAIN tree' /\ tree'[PathAt(i)'] # "special"
                 /\ cache'[i][2] = (tree'[PathAt(i)'] = "dir")
      <4>1. PathAt(i + 1) \in DOMAIN tree' /\ tree'[PathAt(i + 1)] = tree[PathAt(i + 1)]
        BY <2>3, <2>5, <3>1
      <4> QED BY <2>3, <2>5, <4>1
    <3>3. ASSUME NEW q \in Below(removing)'
          PROVE  (\E i \in 1..Len(cache') : PathAt(i)' = q) \/ Special(q)'
      <4>1. q \in Below(removing) /\ q # p /\ q \in DOMAIN tree'
        BY <2>1, <3>1 DEF Below
      <4>2. CASE \E i \in 1..Len(cache) : PathAt(i) = q
        BY <2>4, <4>1, <4>2
      <4>3. CASE Special(q)
        <5>1. PICK x \in {q} \cup Below(q) : tree[x] = "special"
          BY <4>3 DEF Special
        <5>2. x \in DOMAIN tree' /\ tree'[x] = "special"
          BY <2>2, <3>1, <4>1, <5>1 DEF Below
        <5>3. x \in {q} \cup Below(q)'
          BY <5>1, <5>2 DEF Below
        <5> QED BY <5>2, <5>3 DEF Special
      <4> QED BY <2>6, <4>1, <4>2, <4>3
    <3> QED BY <3>2, <3>3 DEF Inside
  <2>8. CASE Below(p) # {} /\ tree' = tree
    <3>1. \A q : Below(q)' = Below(q) /\ Special(q)' = Special(q)
      BY <2>8 DEF Below, Special
    <3>2. Special(p)
      <4>1. PICK r \in Below(p) : r \in Path /\ r \in DOMAIN tree /\ Under(p, r)
        BY <1>1, <2>8 DEF Below, Under, TreeOK
      <4>2. Under(removing, r) /\ r # p /\ IsPrefix(p, r)
        BY <1>2, <2>1, <4>1, UnderIs, UnderMore
      <4>3. \A i \in 1..Len(cache) : PathAt(i) # r
        <5>1. \A i \in 1..Len(cache) : 1 < i => ~IsPrefix(p, PathAt(i))
          BY <1>1, <2>1 DEF CacheOrder, p
        <5>2. \A i \in 1..Len(cache) : i = 1 \/ 1 < i
          BY <2>1
        <5> QED BY <4>2, <5>1, <5>2 DEF p
      <4>4. Special(r)
        BY <2>6, <4>1, <4>2, <4>3 DEF Below, Under
      <4>5. PICK x \in {r} \cup Below(r) : tree[x] = "special"
        BY <4>4 DEF Special
      <4>6. x \in DOMAIN tree /\ x \in Path /\ Under(p, x)
        <5>1. CASE x = r
          BY <4>1, <5>1
        <5>2. CASE x \in Below(r)
          <6>1. x \in DOMAIN tree /\ x \in Path /\ Under(r, x)
            BY <1>1, <5>2 DEF Below, Under, TreeOK
          <6> QED BY <1>2, <2>1, <4>1, <4>2, <6>1, UnderMore
        <5> QED BY <4>5, <5>1, <5>2
      <4> QED BY <4>5, <4>6 DEF Special, Below, Under
    <3>3. ASSUME NEW i \in 1..Len(cache')
          PROVE  /\ PathAt(i)' \in DOMAIN tree' /\ tree'[PathAt(i)'] # "special"
                 /\ cache'[i][2] = (tree'[PathAt(i)'] = "dir")
      BY <2>3, <2>5, <2>8
    <3>4. ASSUME NEW q \in Below(removing)'
          PROVE  (\E i \in 1..Len(cache') : PathAt(i)' = q) \/ Special(q)'
      <4>1. q \in Below(removing)
        BY <2>1, <2>8 DEF Below
      <4>2. CASE q = p
        BY <3>1, <3>2, <4>2
      <4>3. CASE q # p /\ \E i \in 1..Len(cache) : PathAt(i) = q
        BY <2>4, <4>3
      <4>4. CASE Special(q)
        BY <3>1, <4>4
      <4> QED BY <2>6, <4>1, <4>2, <4>3, <4>4
    <3> QED BY <3>3, <3>4 DEF Inside
  <2>9. \/ Below(p) = {} /\ tree' = Only(tree, DOMAIN tree \ {p})
        \/ Below(p) # {} /\ tree' = tree
    <3>1. p = Head(cache)[1] /\ Head(cache)[2] = (tree[p] = "dir")
      BY <2>1, <2>2 DEF p, PathAt
    <3>2. ~(Head(cache)[2] /\ ~is_folder_existed(p))
      BY <2>2, <3>1 DEF is_folder_existed
    <3>3. tree' = IF Below(p) # {} \/ (Head(cache)[2] /\ ~is_folder_existed(p)) THEN tree
                  ELSE Only(tree, DOMAIN tree \ {p})
      BY <1>3, <3>1 DEF RemoveEntry
    <3> QED BY <3>2, <3>3
  <2> QED BY <2>7, <2>8, <2>9
<1>4. ASSUME NEW p \in Path, fs_remove(p) PROVE Inside'
  <2>1. CASE removing' = removing
    BY <1>4, <2>1 DEF Inside, fs_remove
  <2>2. CASE removing' = p /\ cache' \in rek_scan_dir(p) /\ tree' = tree
    <3>1. /\ \A i \in 1..Len(cache') : cache'[i][1] \in Found(p) /\ cache'[i][2] = (tree[cache'[i][1]] = "dir")
          /\ \A q \in Found(p) : \E i \in 1..Len(cache') : cache'[i][1] = q
      BY <1>1, <2>2, Scanned
    <3>2. \A q \in Found(p) : q \in DOMAIN tree /\ tree[q] # "special"
      BY DEF Found, Below
    <3>3. \A q \in Below(p) : q \in Found(p) \/ tree[q] = "special"
      BY DEF Found
    <3>4. Below(removing)' = Below(p)
      BY <2>2 DEF Below
    <3>5. ASSUME NEW i \in 1..Len(cache')
          PROVE  /\ PathAt(i)' \in DOMAIN tree' /\ tree'[PathAt(i)'] # "special"
                 /\ cache'[i][2] = (tree'[PathAt(i)'] = "dir")
      BY <2>2, <3>1, <3>2 DEF PathAt
    <3>6. ASSUME NEW q \in Below(removing)' PROVE (\E i \in 1..Len(cache') : PathAt(i)' = q) \/ Special(q)'
      <4>1. CASE q \in Found(p)
        BY <3>1, <4>1 DEF PathAt
      <4>2. CASE tree[q] = "special"
        BY <2>2, <4>2 DEF Special
      <4> QED BY <3>3, <3>4, <4>1, <4>2
    <3> QED BY <3>5, <3>6 DEF Inside
  <2> QED BY <1>4, <2>1, <2>2 DEF fs_remove
<1>5. ASSUME NEW p \in Path, rek_make_dir(p) \/ path_bind(p) PROVE Inside'
  BY <1>5 DEF Inside, rek_make_dir, path_bind
<1>6. ASSUME NEW p \in Path, Other(p) PROVE Inside'
  <2>1. other' = other + 1
    BY <1>6 DEF Other
  <2>2. other' # 0
    BY <1>1, <2>1
  <2> QED BY <2>2 DEF Inside
<1>7. CASE RemoveEnds
  BY <1>7 DEF RemoveEnds, Inside
<1>8. CASE UNCHANGED fs_vars
  BY <1>1, <1>8 DEF fs_vars, Inside, PathAt, Special, Below
<1> QED BY <1>3, <1>4, <1>5, <1>6, <1>7, <1>8 DEF Next

----------------------------------------------------------------------------

\* filemgr: fs_remove takes what is in the folder, of what readdir knows, and nothing else,
\* whatever the tree is and whatever another process makes or removes meanwhile.
THEOREM RemovalStaysBelow ==
  ASSUME MaxOther \in Nat, PathsAreClosed
  PROVE  Spec => [](TypeOK /\ RemovesBelow)
<1>1. Init => FInv
  <2> SUFFICES ASSUME Init PROVE FInv
    OBVIOUS
  <2>1. DOMAIN tree = {} /\ cache = <<>> /\ removing = <<>> /\ other = 0
    BY DEF Init
  <2>2. TypeOK
    BY <2>1 DEF TypeOK, IsTree
  <2> QED BY <2>1, <2>2 DEF FInv, CacheOrder, Outside, Inside
<1>2. FInv /\ [Next]_fs_vars => FInv'
  BY TypeSteps, OrderSteps, OutsideSteps, InsideSteps DEF FInv
<1>3. FInv => TypeOK /\ RemovesBelow
  <2> SUFFICES ASSUME FInv PROVE RemovesBelow
    BY DEF FInv
  <2>1. cache = <<>> => 1..Len(cache) = {}
    OBVIOUS
  <2> QED BY <2>1 DEF FInv, Outside, Inside, Special, RemovesBelow
<1> QED BY <1>1, <1>2, <1>3, PTL DEF Spec
=============================================================================
