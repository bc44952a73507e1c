-------------------------- MODULE FileSystemProofs --------------------------
(***************************************************************************)
(* The directory tree of vfs.c and ramfs.c, for any number of nodes, any   *)
(* names and paths, and any MAX_MOUNTS: the lists of children, the nodes   *)
(* that are reachable from the mounted roots, and the way that             *)
(* vfs_resolve_path takes.                                                 *)
(***************************************************************************)
EXTENDS FileSystem, FiniteSetTheorems, TLAPS

(***************************************************************************)
(* The first n values of q are the list of children of d, from             *)
(* nd[d].children along next_sibling.                                      *)
(***************************************************************************)
Chain(nd, d, q, n) ==
    /\ nd[d].children = IF n = 0 THEN NULL ELSE q[1]
    /\ \A i \in 1 .. n : nd[q[i]].next_sibling = IF i = n THEN NULL ELSE q[i + 1]
    /\ \A i, j \in 1 .. n : q[i] = q[j] => i = j

(***************************************************************************)
(* That list holds allocated nodes whose parent is d, and two of them have *)
(* the same name only if strncpy cuts a longer name to it.                 *)
(***************************************************************************)
Family(h, nd, d, q, n) ==
    /\ Chain(nd, d, q, n)
    /\ \A i \in 1 .. n : q[i] \in h /\ nd[q[i]].parent = d
    /\ \A i, j \in 1 .. n :
          i # j /\ nd[q[i]].name = nd[q[j]].name =>
              \E long \in Name : Stored[long] = nd[q[i]].name /\ long # nd[q[i]].name

(***************************************************************************)
(* The children of d are the set X.                                        *)
(***************************************************************************)
Lists(h, nd, d, X) ==
    \E n \in Nat : \E q \in [1 .. n -> Node] :
        Family(h, nd, d, q, n) /\ X = {q[i] : i \in 1 .. n}

(***************************************************************************)
(* The children of d form a list.                                          *)
(***************************************************************************)
HasFamily(h, nd, d) == \E X : Lists(h, nd, d, X)

(***************************************************************************)
(* The inductive invariant. It speaks of every allocated node, the ones    *)
(* that vfs_unlink has cut off included: a block that was given back is    *)
(* reused, and a cut-off node may point to it as its parent.               *)
(***************************************************************************)
IInv ==
    /\ TypeOK
    /\ vfs_root \in Roots \cup {NULL}
    /\ \A r \in Roots : r \in heap /\ node[r].parent = NULL
    /\ \A d \in heap : /\ node[d].parent # d
                       /\ node[d].type = "FILE" => node[d].children = NULL
    /\ \A d \in heap : HasFamily(heap, node, d)

(***************************************************************************)
(* A set of numbers that is not empty has a smallest member.               *)
(***************************************************************************)
LEMMA SmallestMember ==
    ASSUME NEW T \in SUBSET Nat, T # {}
    PROVE  \E x \in T : \A y \in T : x <= y
<1>1. PICK x \in T : \A y \in T : ~(<<y, x>> \in OpToRel(<, Nat))
  BY ZenonT(60), NatLessThanWellFounded, WFMin
<1>2. \A y \in T : ~(y < x)
  BY ZenonT(60), <1>1 DEF OpToRel
<1> QED  BY <1>2

(***************************************************************************)
(* Induction: a set that contains 0 and, with every number, the next one   *)
(* contains all of them.                                                   *)
(***************************************************************************)
LEMMA Inductive ==
    ASSUME NEW S, 0 \in S, \A n \in Nat : n \in S => n + 1 \in S
    PROVE  \A n \in Nat : n \in S
<1> DEFINE T == {n \in Nat : n \notin S}
<1> SUFFICES ASSUME T # {} PROVE FALSE
  OBVIOUS
<1>1. PICK x \in T : \A y \in T : x <= y
  <2> HIDE DEF T
  <2>1. T \in SUBSET Nat
    BY DEF T
  <2> QED  BY <2>1, SmallestMember
<1>2. x # 0 /\ x - 1 \in Nat /\ x - 1 \notin T
  BY <1>1
<1> QED  BY <1>1, <1>2

(***************************************************************************)
(* The first n + 1 values of h are those of the iteration of g from x.     *)
(***************************************************************************)
IsPrefix(h, g, x, n) ==
    h[0] = x /\ \A k \in 0 .. n - 1 : h[k + 1] = g[k][h[k]]

(***************************************************************************)
(* An iteration can be computed to any length.                             *)
(***************************************************************************)
LEMMA PrefixExists ==
    ASSUME NEW T, NEW g \in [Nat -> [T -> T]], NEW x \in T
    PROVE  \A n \in Nat : \E h \in [0 .. n -> T] : IsPrefix(h, g, x, n)
<1> DEFINE S == {n \in Nat : \E h \in [0 .. n -> T] : IsPrefix(h, g, x, n)}
<1>1. 0 \in S
  <2>1. [k \in 0 .. 0 |-> x] \in [0 .. 0 -> T] /\ IsPrefix([k \in 0 .. 0 |-> x], g, x, 0)
    BY DEF IsPrefix
  <2> QED  BY <2>1
<1>2. ASSUME NEW n \in Nat, n \in S PROVE n + 1 \in S
  <2>1. PICK h \in [0 .. n -> T] : IsPrefix(h, g, x, n)
    BY <1>2
  <2> DEFINE h2 == [k \in 0 .. n + 1 |-> IF k = n + 1 THEN g[n][h[n]] ELSE h[k]]
  <2>2. h[n] \in T /\ g[n][h[n]] \in T
    BY <2>1
  <2>3. h2 \in [0 .. n + 1 -> T]
    BY <2>2
  <2>4. IsPrefix(h2, g, x, n + 1)
    BY <2>1 DEF IsPrefix
  <2> HIDE DEF h2
  <2> QED  BY <2>3, <2>4
<1> HIDE DEF S
<1>3. \A n \in Nat : n \in S
  BY <1>1, <1>2, Inductive
<1> QED  BY <1>3 DEF S

(***************************************************************************)
(* Two computations of an iteration agree as far as both go.               *)
(***************************************************************************)
LEMMA PrefixUnique ==
    ASSUME NEW T, NEW g \in [Nat -> [T -> T]], NEW x \in T,
           NEW n \in Nat, NEW m \in Nat, NEW h, NEW j,
           IsPrefix(h, g, x, n), IsPrefix(j, g, x, m)
    PROVE  \A k \in Nat : k <= n /\ k <= m => h[k] = j[k]
<1> DEFINE S == {k \in Nat : k <= n /\ k <= m => h[k] = j[k]}
<1>1. 0 \in S
  BY DEF IsPrefix
<1>2. ASSUME NEW k \in Nat, k \in S PROVE k + 1 \in S
  BY <1>2 DEF IsPrefix
<1> HIDE DEF S
<1>3. \A k \in Nat : k \in S
  BY <1>1, <1>2, Inductive
<1> QED  BY <1>3 DEF S

(***************************************************************************)
(* f is the iteration of g from x, a function of all numbers.              *)
(***************************************************************************)
Iterates(f, T, g, x) ==
    f \in [Nat -> T] /\ f[0] = x /\ \A n \in Nat : f[n + 1] = g[n][f[n]]

(***************************************************************************)
(* A recursive function that computes each value from the one before       *)
(* exists: the definitions of ramfs_readdir, Reachable and Ancestor are of *)
(* this form.                                                              *)
(***************************************************************************)
LEMMA IterationExists ==
    ASSUME NEW T, NEW g \in [Nat -> [T -> T]], NEW x \in T
    PROVE  \E f : Iterates(f, T, g, x)
<1> DEFINE h(n) == CHOOSE j \in [0 .. n -> T] : IsPrefix(j, g, x, n)
           f == [n \in Nat |-> h(n)[n]]
<1>1. \A n \in Nat : h(n) \in [0 .. n -> T] /\ IsPrefix(h(n), g, x, n)
  BY Zenon, PrefixExists
<1> HIDE DEF h
<1>2. f \in [Nat -> T]
  BY <1>1
<1>3. f[0] = x
  BY <1>1 DEF IsPrefix
<1>4. ASSUME NEW n \in Nat PROVE f[n + 1] = g[n][f[n]]
  <2>1. h(n + 1)[n] = h(n)[n]
    BY <1>1, PrefixUnique
  <2>2. h(n + 1)[n + 1] = g[n][h(n + 1)[n]]
    BY <1>1 DEF IsPrefix
  <2> QED  BY <2>1, <2>2
<1> HIDE DEF f
<1>5. Iterates(f, T, g, x)
  BY <1>2, <1>3, <1>4 DEF Iterates
<1> QED  BY <1>5

(***************************************************************************)
(* There are finitely many blocks, and NULL is none.                       *)
(***************************************************************************)
LEMMA Nodes == IsFiniteSet(Node) /\ NULL \notin Node /\ Cardinality(Node) \in Nat
BY Zenon, FileSystemAssumption, FS_CardinalityType

(***************************************************************************)
(* A list of different nodes has no more members than there are blocks.    *)
(***************************************************************************)
LEMMA ChainFits ==
    ASSUME NEW nd, NEW d, NEW n \in Nat, NEW q \in [1 .. n -> Node], Chain(nd, d, q, n)
    PROVE  n <= Cardinality(Node)
<1> DEFINE S == {q[i] : i \in 1 .. n}
<1>1. S \in SUBSET Node
  OBVIOUS
<1>2. q \in Bijection(1 .. n, S)
  <2>1. q \in [1 .. n -> S]
    OBVIOUS
  <2>2. \A i, j \in 1 .. n : q[i] = q[j] => i = j
    BY DEF Chain
  <2>3. \A x \in S : \E i \in 1 .. n : q[i] = x
    OBVIOUS
  <2> HIDE DEF S
  <2> QED  BY <2>1, <2>2, <2>3 DEF Bijection, Injection, Surjection, IsInjective
<1> HIDE DEF S
<1>3. Cardinality(S) = n
  BY <1>2, FS_CountingElements DEF ExistsBijection
<1>4. Cardinality(S) <= Cardinality(Node)
  BY <1>1, FS_Subset, Nodes
<1> QED  BY <1>3, <1>4

(***************************************************************************)
(* ramfs_readdir walks the list: it returns the member at the index, or    *)
(* NULL behind the last.                                                   *)
(***************************************************************************)
LEMMA ReaddirOfChain ==
    ASSUME NEW d \in Node, NEW n \in Nat, NEW q \in [1 .. n -> Node], Chain(node, d, q, n),
           node[d].type # "DIRECTORY" => n = 0
    PROVE  \A i \in Nat : ramfs_readdir(d, i) = IF i < n THEN q[i + 1] ELSE NULL
<1> DEFINE child == CHOOSE child : child = [i \in Nat |->
                       IF i = 0 THEN node[d].children
                       ELSE LET c == child[i - 1]
                            IN  IF c = NULL THEN NULL ELSE node[c].next_sibling]
           f == [k \in Nat |-> IF k < n THEN q[k + 1] ELSE NULL]
<1>1. \A i \in Nat : ramfs_readdir(d, i) = IF node[d].type = "DIRECTORY" THEN child[i] ELSE NULL
  BY DEF ramfs_readdir
<1>2. f = [i \in Nat |->
              IF i = 0 THEN node[d].children
              ELSE LET c == f[i - 1]
                   IN  IF c = NULL THEN NULL ELSE node[c].next_sibling]
  BY SMTT(30), Nodes DEF Chain
<1>3. child = [i \in Nat |->
              IF i = 0 THEN node[d].children
              ELSE LET c == child[i - 1]
                   IN  IF c = NULL THEN NULL ELSE node[c].next_sibling]
  <2> HIDE DEF f
  <2> QED  BY Zenon, <1>2
<1> DEFINE S == {i \in Nat : child[i] = f[i]}
<1> HIDE DEF child
<1>4. 0 \in S
  BY Zenon, <1>2, <1>3
<1>5. ASSUME NEW i \in Nat, i \in S PROVE i + 1 \in S
  <2> HIDE DEF f
  <2> DEFINE j == i + 1
  <2>0. j \in Nat /\ j - 1 = i /\ j # 0
    OBVIOUS
  <2> HIDE DEF j
  <2>1. child[j] = LET c == child[i] IN IF c = NULL THEN NULL ELSE node[c].next_sibling
    BY <1>3, <2>0
  <2>2. f[j] = LET c == f[i] IN IF c = NULL THEN NULL ELSE node[c].next_sibling
    BY <1>2, <2>0
  <2> QED  BY <1>5, <2>0, <2>1, <2>2 DEF j
<1> HIDE DEF S
<1>6. \A i \in Nat : i \in S
  BY <1>4, <1>5, Inductive
<1> QED  BY <1>1, <1>6 DEF S

(***************************************************************************)
(* One round of the loop of vfs_resolve_path.                              *)
(***************************************************************************)
Enter(current, token) ==
    IF current = NULL \/ token = "" THEN current ELSE ramfs_finddir(current, token)

(***************************************************************************)
(* The nodes that n rounds of that loop go through.                        *)
(***************************************************************************)
Walk(at, path, n) ==
    [i \in 0 .. n |-> IF i = 0 THEN vfs_root ELSE Enter(at[i - 1], path[i])]

(***************************************************************************)
(* They can be computed for any number of rounds.                          *)
(***************************************************************************)
LEMMA WalkExists ==
    ASSUME NEW path
    PROVE  \A n \in Nat : \E at : at = Walk(at, path, n)
<1> DEFINE Good == {n \in Nat : \E at : at = Walk(at, path, n)}
<1>1. 0 \in Good
  <2> DEFINE at == [i \in 0 .. 0 |-> vfs_root]
  <2>1. at = Walk(at, path, 0)
    BY DEF Walk
  <2> HIDE DEF at
  <2> QED  BY <2>1
<1>2. ASSUME NEW n \in Nat, n \in Good PROVE n + 1 \in Good
  <2>1. PICK at : at = Walk(at, path, n)
    BY <1>2
  <2> DEFINE at2 == [i \in 0 .. n + 1 |->
                        IF i = n + 1 THEN Enter(at[n], path[n + 1]) ELSE at[i]]
  <2>2. ASSUME NEW i \in 0 .. n + 1
        PROVE  at2[i] = IF i = 0 THEN vfs_root ELSE Enter(at2[i - 1], path[i])
    <3>1. CASE i = n + 1
      BY <3>1
    <3>2. CASE i # n + 1
      <4>1. i \in 0 .. n /\ (i # 0 => i - 1 \in 0 .. n /\ i - 1 # n + 1)
        BY <3>2
      <4>2. at[i] = IF i = 0 THEN vfs_root ELSE Enter(at[i - 1], path[i])
        BY <2>1, <4>1 DEF Walk
      <4> QED  BY <3>2, <4>1, <4>2
    <3> QED  BY <3>1, <3>2
  <2>3. at2 = Walk(at2, path, n + 1)
    <3>1. at2 = [i \in 0 .. n + 1 |-> at2[i]]
      OBVIOUS
    <3> HIDE DEF at2
    <3> QED  BY Zenon, <2>2, <3>1 DEF Walk
  <2> HIDE DEF at2
  <2> QED  BY <2>3
<1> HIDE DEF Good
<1>3. \A n \in Nat : n \in Good
  BY <1>1, <1>2, Inductive
<1> QED  BY <1>3 DEF Good

(***************************************************************************)
(* vfs_resolve_path goes from vfs_root through one node per component of   *)
(* the path.                                                               *)
(***************************************************************************)
LEMMA ResolveWalk ==
    ASSUME NEW S, NEW path \in Seq(S)
    PROVE  \E at : /\ at[0] = vfs_root
                   /\ \A i \in 1 .. Len(path) : at[i] = Enter(at[i - 1], path[i])
                   /\ vfs_resolve_path(path) = at[Len(path)]
<1>1. Len(path) \in Nat
  OBVIOUS
<1> DEFINE at == CHOOSE at : at = Walk(at, path, Len(path))
<1>2. vfs_resolve_path(path) = at[Len(path)]
  BY DEF vfs_resolve_path, Walk, Enter
<1>3. at = Walk(at, path, Len(path))
  BY <1>1, WalkExists
<1> HIDE DEF at
<1>4. at[0] = vfs_root
  BY <1>1, <1>3 DEF Walk
<1>5. ASSUME NEW i \in 1 .. Len(path) PROVE at[i] = Enter(at[i - 1], path[i])
  BY <1>1, <1>3 DEF Walk
<1> QED  BY <1>2, <1>4, <1>5

(***************************************************************************)
(* Min of a set of numbers is its smallest member.                         *)
(***************************************************************************)
LEMMA Least ==
    ASSUME NEW s \in SUBSET Nat, s # {}
    PROVE  Min(s) \in s /\ \A y \in s : Min(s) <= y
<1>1. \E x \in s : \A y \in s : x <= y
  BY SmallestMember
<1> QED  BY Zenon, <1>1 DEF Min

(***************************************************************************)
(* What the operations see of a directory's list: ramfs_readdir returns    *)
(* its members in order, Children is the set of them, and Named is the set *)
(* of the positions that hold the name.                                    *)
(***************************************************************************)
LEMMA FamilyList ==
    ASSUME IInv, NEW d \in heap, NEW n \in Nat, NEW q \in [1 .. n -> Node],
           Family(heap, node, d, q, n)
    PROVE  /\ n <= Cardinality(Node)
           /\ \A i \in Nat : ramfs_readdir(d, i) = IF i < n THEN q[i + 1] ELSE NULL
           /\ \A k \in 1 .. n : k - 1 \in Indices /\ ramfs_readdir(d, k - 1) = q[k]
           /\ \A x : x \in Children(d) <=> \E i \in 1 .. n : x = q[i]
           /\ \A name, i : i \in Named(d, name) <=>
                               i + 1 \in 1 .. n /\ i \in Nat /\ node[q[i + 1]].name = name
<1>1. d \in Node /\ Chain(node, d, q, n)
  BY Zenon DEF IInv, TypeOK, Family
<1>2. n <= Cardinality(Node) /\ Cardinality(Node) \in Nat
  BY <1>1, ChainFits, Nodes
<1>3. node[d].type # "DIRECTORY" => n = 0
  <2>1. node[d].type # "DIRECTORY" => node[d].children = NULL
    BY Zenon, <1>1 DEF IInv, TypeOK
  <2>2. n # 0 => q[1] \in Node
    OBVIOUS
  <2> QED  BY <1>1, <2>1, <2>2, Nodes DEF Chain
<1>4. \A i \in Nat : ramfs_readdir(d, i) = IF i < n THEN q[i + 1] ELSE NULL
  BY <1>1, <1>3, ReaddirOfChain
<1>5. \A k \in 1 .. n : q[k] \in Node /\ q[k] # NULL
  BY Nodes
<1>6. \A k \in 1 .. n : k - 1 \in Indices /\ ramfs_readdir(d, k - 1) = q[k]
  <2> SUFFICES ASSUME NEW k \in 1 .. n
               PROVE  k - 1 \in Indices /\ ramfs_readdir(d, k - 1) = q[k]
    OBVIOUS
  <2>1. k - 1 \in Nat /\ k - 1 < n /\ (k - 1) + 1 = k
    OBVIOUS
  <2> QED  BY <1>2, <1>4, <2>1 DEF Indices
<1>7. \A i \in Indices : ramfs_readdir(d, i) # NULL =>
            i \in Nat /\ i + 1 \in 1 .. n /\ ramfs_readdir(d, i) = q[i + 1]
  <2> SUFFICES ASSUME NEW i \in Indices, ramfs_readdir(d, i) # NULL
               PROVE  i \in Nat /\ i + 1 \in 1 .. n /\ ramfs_readdir(d, i) = q[i + 1]
    OBVIOUS
  <2>1. i \in Nat
    BY <1>2 DEF Indices
  <2> QED  BY <1>4, <2>1
<1>8. \A x : x \in Children(d) <=> \E i \in 1 .. n : x = q[i]
  BY Zenon, <1>5, <1>6, <1>7 DEF Children
<1>9. ASSUME NEW name, NEW i
      PROVE  i \in Named(d, name) <=> i + 1 \in 1 .. n /\ i \in Nat /\ node[q[i + 1]].name = name
  <2>1. ASSUME i \in Named(d, name)
        PROVE  i + 1 \in 1 .. n /\ i \in Nat /\ node[q[i + 1]].name = name
    <3>1. i \in Indices /\ ramfs_readdir(d, i) # NULL /\ node[ramfs_readdir(d, i)].name = name
      BY <2>1 DEF Named
    <3> QED  BY <1>7, <3>1
  <2>2. ASSUME i + 1 \in 1 .. n, i \in Nat, node[q[i + 1]].name = name
        PROVE  i \in Named(d, name)
    <3>1. i = (i + 1) - 1
      BY <2>2
    <3>2. i \in Indices /\ ramfs_readdir(d, i) = q[i + 1]
      BY <1>6, <2>2, <3>1
    <3> QED  BY <1>5, <2>2, <3>2 DEF Named
  <2> QED  BY <2>1, <2>2
<1> QED  BY <1>2, <1>4, <1>6, <1>8, <1>9

(***************************************************************************)
(* Every allocated node has a list, which is empty for a file.             *)
(***************************************************************************)
LEMMA FamilyOf ==
    ASSUME IInv, NEW d \in heap
    PROVE  \E n \in Nat : \E q \in [1 .. n -> Node] : Family(heap, node, d, q, n)
BY DEF IInv, HasFamily, Lists

(***************************************************************************)
(* Children is the set of the members of that list.                        *)
(***************************************************************************)
LEMMA ChildrenListed ==
    IInv => \A d \in heap : /\ Lists(heap, node, d, Children(d))
                            /\ \A X : Lists(heap, node, d, X) => Children(d) = X
<1> SUFFICES ASSUME IInv, NEW d \in heap
             PROVE  /\ Lists(heap, node, d, Children(d))
                    /\ \A X : Lists(heap, node, d, X) => Children(d) = X
  OBVIOUS
<1>1. ASSUME NEW X, Lists(heap, node, d, X) PROVE Children(d) = X
  <2>1. PICK n \in Nat : \E q \in [1 .. n -> Node] :
            Family(heap, node, d, q, n) /\ X = {q[i] : i \in 1 .. n}
    BY <1>1 DEF Lists
  <2>2. PICK q \in [1 .. n -> Node] : Family(heap, node, d, q, n) /\ X = {q[i] : i \in 1 .. n}
    BY <2>1
  <2>3. \A x : x \in Children(d) <=> \E i \in 1 .. n : x = q[i]
    <3>1. Family(heap, node, d, q, n)
      BY <2>2
    <3> QED  BY SMTT(30), <3>1, FamilyList
  <2>4. \A x : x \in X <=> \E i \in 1 .. n : x = q[i]
    BY <2>2
  <2> QED  BY Zenon, <2>3, <2>4
<1>2. PICK X : Lists(heap, node, d, X)
  BY DEF IInv, HasFamily
<1> QED  BY <1>1, <1>2

(***************************************************************************)
(* The loops over a list end; a child is allocated and has the directory   *)
(* as its parent; ramfs_finddir returns a child of that name, if there is  *)
(* one.                                                                    *)
(***************************************************************************)
LEMMA ChildrenOf ==
    ASSUME IInv, NEW d \in heap
    PROVE  /\ ramfs_readdir(d, Cardinality(Node)) = NULL
           /\ \A c \in Children(d) : c \in heap /\ node[c].parent = d
           /\ \A name : /\ Named(d, name) \in SUBSET Nat
                        /\ Named(d, name) = {} => ramfs_finddir(d, name) = NULL
                        /\ Named(d, name) # {} =>
                              /\ Min(Named(d, name)) \in Named(d, name)
                              /\ ramfs_finddir(d, name) \in Children(d)
                              /\ node[ramfs_finddir(d, name)].name = name
                              /\ ramfs_finddir(d, name) # NULL
<1>0. PICK n \in Nat : \E q \in [1 .. n -> Node] : Family(heap, node, d, q, n)
  BY FamilyOf
<1>1. PICK q \in [1 .. n -> Node] : Family(heap, node, d, q, n)
  BY <1>0
<1>2. /\ n <= Cardinality(Node)
      /\ \A i \in Nat : ramfs_readdir(d, i) = IF i < n THEN q[i + 1] ELSE NULL
      /\ \A x : x \in Children(d) <=> \E i \in 1 .. n : x = q[i]
      /\ \A name, i : i \in Named(d, name) <=>
                               i + 1 \in 1 .. n /\ i \in Nat /\ node[q[i + 1]].name = name
  <2>1. /\ n <= Cardinality(Node)
        /\ \A i \in Nat : ramfs_readdir(d, i) = IF i < n THEN q[i + 1] ELSE NULL
    BY <1>1, FamilyList
  <2>2. \A x : x \in Children(d) <=> \E i \in 1 .. n : x = q[i]
    BY <1>1, FamilyList
  <2>3. \A name, i : i \in Named(d, name) <=>
                         i + 1 \in 1 .. n /\ i \in Nat /\ node[q[i + 1]].name = name
    BY SMTT(30), <1>1, FamilyList
  <2> QED  BY Zenon, <2>1, <2>2, <2>3
<1>3. ramfs_readdir(d, Cardinality(Node)) = NULL
  BY <1>2, Nodes
<1>4. \A c \in Children(d) : c \in heap /\ node[c].parent = d
  BY <1>1, <1>2 DEF Family
<1>5. ASSUME NEW name
      PROVE  /\ Named(d, name) \in SUBSET Nat
             /\ Named(d, name) = {} => ramfs_finddir(d, name) = NULL
             /\ Named(d, name) # {} =>
                    /\ Min(Named(d, name)) \in Named(d, name)
                    /\ ramfs_finddir(d, name) \in Children(d)
                    /\ node[ramfs_finddir(d, name)].name = name
                    /\ ramfs_finddir(d, name) # NULL
  <2>1. Named(d, name) \in SUBSET Nat
    BY <1>2
  <2>2. Named(d, name) = {} => ramfs_finddir(d, name) = NULL
    BY DEF ramfs_finddir
  <2>3. ASSUME Named(d, name) # {}
        PROVE  /\ Min(Named(d, name)) \in Named(d, name)
               /\ ramfs_finddir(d, name) \in Children(d)
               /\ node[ramfs_finddir(d, name)].name = name
               /\ ramfs_finddir(d, name) # NULL
    <3>1. PICK m \in Named(d, name) : m = Min(Named(d, name))
      BY <2>1, <2>3, Least
    <3>2. ramfs_finddir(d, name) = ramfs_readdir(d, m)
      BY <2>3, <3>1 DEF ramfs_finddir
    <3>3. m \in Indices /\ ramfs_readdir(d, m) # NULL /\ node[ramfs_readdir(d, m)].name = name
      BY DEF Named
    <3> QED  BY <3>1, <3>2, <3>3 DEF Children
  <2> QED  BY <2>1, <2>2, <2>3
<1> QED  BY <1>3, <1>4, <1>5

(***************************************************************************)
(* vfs_resolve_path stays in every set of nodes that contains vfs_root     *)
(* and, with a directory, its children.                                    *)
(***************************************************************************)
LEMMA ResolvedIn ==
    ASSUME IInv, NEW R \in SUBSET heap, vfs_root \in R \cup {NULL},
           \A d \in R : Children(d) \subseteq R,
           NEW S, NEW path \in Seq(S)
    PROVE  vfs_resolve_path(path) \in R \cup {NULL}
<1>1. PICK at : /\ at[0] = vfs_root
                /\ \A i \in 1 .. Len(path) : at[i] = Enter(at[i - 1], path[i])
                /\ vfs_resolve_path(path) = at[Len(path)]
  BY ResolveWalk
<1> DEFINE G == {i \in Nat : i <= Len(path) => at[i] \in R \cup {NULL}}
<1>2. Len(path) \in Nat
  OBVIOUS
<1>3. 0 \in G
  BY <1>1
<1>4. ASSUME NEW i \in Nat, i \in G PROVE i + 1 \in G
  <2> SUFFICES ASSUME i + 1 <= Len(path) PROVE at[i + 1] \in R \cup {NULL}
    OBVIOUS
  <2>1. at[i] \in R \cup {NULL}
    BY <1>2, <1>4
  <2>2. i + 1 \in 1 .. Len(path) /\ (i + 1) - 1 = i
    BY <1>2
  <2>3. at[i + 1] = Enter(at[i], path[i + 1])
    BY <1>1, <2>2
  <2>4. CASE at[i] = NULL \/ path[i + 1] = ""
    BY Zenon, <2>1, <2>3, <2>4 DEF Enter
  <2>5. CASE ~(at[i] = NULL \/ path[i + 1] = "")
    <3>1. at[i] \in heap /\ at[i] \in R /\ at[i + 1] = ramfs_finddir(at[i], path[i + 1])
      BY Zenon, <2>1, <2>3, <2>5 DEF Enter
    <3>2. ramfs_finddir(at[i], path[i + 1]) \in Children(at[i]) \cup {NULL}
      BY <3>1, ChildrenOf
    <3> QED  BY <3>1, <3>2
  <2> QED  BY Zenon, <2>4, <2>5
<1> HIDE DEF G
<1>5. \A i \in Nat : i \in G
  BY <1>3, <1>4, Inductive
<1> QED  BY <1>1, <1>2, <1>5 DEF G

(***************************************************************************)
(* The fields of a node.                                                   *)
(***************************************************************************)
Fields == [name : Name \cup {"", "/"}, type : {"FILE", "DIRECTORY"}, dir_ops : BOOLEAN,
           parent : Node \cup {NULL}, children : Node \cup {NULL},
           next_sibling : Node \cup {NULL}]

(***************************************************************************)
(* The list of d is left alone.                                            *)
(***************************************************************************)
Kept(h, h2, nd, nd2, d) ==
    /\ nd2[d].children = nd[d].children
    /\ \A c \in h : nd[c].parent = d =>
          /\ c \in h2
          /\ nd2[c].next_sibling = nd[c].next_sibling
          /\ nd2[c].parent = nd[c].parent /\ nd2[c].name = nd[c].name

(***************************************************************************)
(* The pointers when ramfs_do_unlink has taken the k-th member out of the  *)
(* list.                                                                   *)
(***************************************************************************)
Cut(nd, nd2, d, q, n, k) ==
    /\ nd2[d].children = IF k = 1 THEN nd[q[1]].next_sibling ELSE nd[d].children
    /\ \A i \in 1 .. n : i # k =>
          /\ nd2[q[i]].next_sibling = IF i = k - 1 THEN nd[q[k]].next_sibling
                                      ELSE nd[q[i]].next_sibling
          /\ nd2[q[i]].parent = nd[q[i]].parent
          /\ nd2[q[i]].name = nd[q[i]].name

(***************************************************************************)
(* A list that is left alone is the same list.                             *)
(***************************************************************************)
LEMMA FamilyKept ==
    ASSUME NEW h, NEW h2, NEW nd, NEW nd2, NEW d, NEW X, Lists(h, nd, d, X),
           Kept(h, h2, nd, nd2, d)
    PROVE  Lists(h2, nd2, d, X)
<1>1. PICK n \in Nat : \E q \in [1 .. n -> Node] :
          Family(h, nd, d, q, n) /\ X = {q[i] : i \in 1 .. n}
  BY DEF Lists
<1>2. PICK q \in [1 .. n -> Node] : Family(h, nd, d, q, n) /\ X = {q[i] : i \in 1 .. n}
  BY <1>1
<1>3. \A i \in 1 .. n : /\ q[i] \in h2
                        /\ nd2[q[i]].next_sibling = nd[q[i]].next_sibling
                        /\ nd2[q[i]].parent = d /\ nd2[q[i]].name = nd[q[i]].name
  BY <1>2 DEF Family, Kept
<1>4. Family(h2, nd2, d, q, n)
  BY <1>2, <1>3 DEF Family, Chain, Kept
<1> QED  BY Zenon, <1>1, <1>2, <1>4 DEF Lists

(***************************************************************************)
(* A node whose children pointer is NULL has no children.                  *)
(***************************************************************************)
LEMMA EmptyFamily ==
    ASSUME NEW h, NEW nd, NEW d, nd[d].children = NULL
    PROVE  Lists(h, nd, d, {})
<1> DEFINE q == [i \in 1 .. 0 |-> NULL]
<1>1. q \in [1 .. 0 -> Node] /\ {q[i] : i \in 1 .. 0} = {}
  OBVIOUS
<1>2. Family(h, nd, d, q, 0)
  BY DEF Family, Chain
<1> QED  BY Zenon, <1>1, <1>2 DEF Lists

(***************************************************************************)
(* ramfs_do_create and ramfs_do_mkdir put the new node in front of the     *)
(* list.                                                                   *)
(***************************************************************************)
LEMMA ListAdded ==
    ASSUME NEW h \in SUBSET Node, NEW nd, NEW nd2, NEW d, NEW c \in Node \ h, NEW name \in Name,
           NEW X, Lists(h, nd, d, X),
           \A x \in X : nd[x].name # name,
           nd2[d].children = c, nd2[c].next_sibling = nd[d].children,
           nd2[c].parent = d, nd2[c].name = Stored[name],
           \A x \in X : /\ nd2[x].next_sibling = nd[x].next_sibling
                        /\ nd2[x].parent = nd[x].parent
                        /\ nd2[x].name = nd[x].name
    PROVE  Lists(h \cup {c}, nd2, d, X \cup {c})
<1>1. PICK n \in Nat : \E q \in [1 .. n -> Node] :
          Family(h, nd, d, q, n) /\ X = {q[i] : i \in 1 .. n}
  BY Zenon DEF Lists
<1>2. PICK q \in [1 .. n -> Node] : Family(h, nd, d, q, n) /\ X = {q[i] : i \in 1 .. n}
  BY Zenon, <1>1
<1>3. Family(h, nd, d, q, n)
  BY Zenon, <1>2
<1>4. \A x : x \in X <=> \E i \in 1 .. n : x = q[i]
  BY Zenon, <1>2
<1>5. /\ \A i \in 1 .. n : nd[q[i]].name # name
      /\ \A i \in 1 .. n : /\ nd2[q[i]].next_sibling = nd[q[i]].next_sibling
                            /\ nd2[q[i]].parent = nd[q[i]].parent
                            /\ nd2[q[i]].name = nd[q[i]].name
  BY Zenon, <1>4
<1> USE <1>3, <1>5
<1>6. PICK q2 \in [1 .. n + 1 -> Node] :
           \A i \in 1 .. n + 1 : q2[i] = IF i = 1 THEN c ELSE q[i - 1]
  <2> DEFINE r == [i \in 1 .. n + 1 |-> IF i = 1 THEN c ELSE q[i - 1]]
  <2>1. r \in [1 .. n + 1 -> Node]
    OBVIOUS
  <2> QED  BY Zenon, <2>1
<1>7. q2[1] = c /\ 1 \in 1 .. n + 1
  BY <1>6
<1>8. \A i \in 1 .. n + 1 : i # 1 => i - 1 \in 1 .. n /\ q2[i] = q[i - 1]
  BY <1>6
<1>9. \A i \in 1 .. n : q[i] \in h /\ q[i] # c /\ nd[q[i]].parent = d
  BY DEF Family
<1>10. Chain(nd2, d, q2, n + 1)
  <2>1. Chain(nd, d, q, n)
    BY DEF Family
  <2>2. \A i \in 1 .. n + 1 : nd2[q2[i]].next_sibling = IF i = n + 1 THEN NULL ELSE q2[i + 1]
    <3>1. TAKE i \in 1 .. n + 1
    <3>2. CASE i = 1
      BY <1>6, <1>7, <2>1, <3>2 DEF Chain
    <3>3. CASE i # 1
      <4>1. i - 1 \in 1 .. n /\ q2[i] = q[i - 1]
        BY <1>8, <3>3
      <4>2. nd2[q2[i]].next_sibling = IF i - 1 = n THEN NULL ELSE q[(i - 1) + 1]
        BY <2>1, <4>1 DEF Chain
      <4>3. i # n + 1 => q2[i + 1] = q[(i - 1) + 1]
        BY <1>6, <3>3
      <4> QED  BY <4>1, <4>2, <4>3
    <3> QED  BY <3>2, <3>3
  <2>3. ASSUME NEW i \in 1 .. n + 1, NEW j \in 1 .. n + 1, q2[i] = q2[j] PROVE i = j
    BY <1>7, <1>8, <1>9, <2>1, <2>3 DEF Chain
  <2>4. n + 1 # 0
    OBVIOUS
  <2> QED  BY <1>7, <2>2, <2>3, <2>4 DEF Chain
<1>11. \A i \in 1 .. n + 1 : q2[i] \in h \cup {c} /\ nd2[q2[i]].parent = d
  <2>1. TAKE i \in 1 .. n + 1
  <2>2. CASE i = 1
    BY <1>7, <2>2
  <2>3. CASE i # 1
    <3>1. PICK k \in 1 .. n : q2[i] = q[k]
      BY <1>8, <2>3
    <3> QED  BY <1>9, <3>1
  <2> QED  BY <2>2, <2>3
<1>12. ASSUME NEW i \in 1 .. n + 1, NEW j \in 1 .. n + 1, i # j,
             nd2[q2[i]].name = nd2[q2[j]].name
      PROVE  \E long \in Name : Stored[long] = nd2[q2[i]].name /\ long # nd2[q2[i]].name
  <2>1. CASE i # 1 /\ j # 1
    <3>1. i - 1 \in 1 .. n /\ j - 1 \in 1 .. n /\ i - 1 # j - 1
      BY <1>8, <1>12, <2>1
    <3>2. q2[i] = q[i - 1] /\ q2[j] = q[j - 1]
      BY <1>8, <2>1
    <3>3. nd[q[i - 1]].name = nd[q[j - 1]].name /\ nd2[q2[i]].name = nd[q[i - 1]].name
      BY <1>12, <3>1, <3>2
    <3> QED  BY <3>1, <3>3 DEF Family
  <2>2. CASE i = 1 \/ j = 1
    <3>1. PICK k \in 1 .. n : nd[q[k]].name = Stored[name] /\ nd2[q2[i]].name = Stored[name]
      BY SMTT(30), <1>7, <1>8, <1>12, <2>2
    <3> QED  BY <3>1
  <2> QED  BY <2>1, <2>2
<1>13. Family(h \cup {c}, nd2, d, q2, n + 1)
  BY <1>10, <1>11, <1>12 DEF Family
<1>14. n + 1 \in Nat
  OBVIOUS
<1>15. X \cup {c} = {q2[i] : i \in 1 .. n + 1}
  <2>1. \A i \in 1 .. n : i + 1 \in 1 .. n + 1 /\ q2[i + 1] = q[i]
    BY <1>6
  <2> QED  BY <1>4, <1>7, <1>8, <2>1
<1> QED  BY Zenon, <1>6, <1>13, <1>14, <1>15 DEF Lists

(***************************************************************************)
(* ramfs_do_unlink takes out one member and no other, wherever in the list *)
(* it is.                                                                  *)
(***************************************************************************)
LEMMA FamilyCut ==
    ASSUME NEW h \in SUBSET Node, NEW nd, NEW nd2, NEW d, NEW n \in Nat,
           NEW q \in [1 .. n -> Node], Family(h, nd, d, q, n), NEW k \in 1 .. n,
           Cut(nd, nd2, d, q, n, k)
    PROVE  Lists(h \ {q[k]}, nd2, d, {q[i] : i \in 1 .. n} \ {q[k]})
<1>0. /\ nd2[d].children = IF k = 1 THEN nd[q[1]].next_sibling ELSE nd[d].children
      /\ \A i \in 1 .. n : i # k =>
            /\ nd2[q[i]].next_sibling = IF i = k - 1 THEN nd[q[k]].next_sibling
                                        ELSE nd[q[i]].next_sibling
            /\ nd2[q[i]].parent = nd[q[i]].parent
            /\ nd2[q[i]].name = nd[q[i]].name
  BY DEF Cut
<1>1. PICK q2 \in [1 .. n - 1 -> Node] :
           \A j \in 1 .. n - 1 : q2[j] = IF j < k THEN q[j] ELSE q[j + 1]
  <2> DEFINE r == [j \in 1 .. n - 1 |-> IF j < k THEN q[j] ELSE q[j + 1]]
  <2>1. r \in [1 .. n - 1 -> Node]
    OBVIOUS
  <2> QED  BY Zenon, <2>1
<1>2. /\ \A i, j \in 1 .. n : q[i] = q[j] => i = j
      /\ \A i \in 1 .. n : nd[q[i]].next_sibling = IF i = n THEN NULL ELSE q[i + 1]
      /\ nd[d].children = q[1]
  BY DEF Family, Chain
<1>3. \A j \in 1 .. n - 1 : \E i \in 1 .. n :
           i # k /\ q2[j] = q[i] /\ i = IF j < k THEN j ELSE j + 1
  BY <1>1
<1>4. \A i, j \in 1 .. n - 1 : q2[i] = q2[j] => i = j
  BY <1>1, <1>2
<1>5. Chain(nd2, d, q2, n - 1)
  <2>1. nd2[d].children = IF n - 1 = 0 THEN NULL ELSE q2[1]
    <3>1. CASE k = 1
      BY <1>0, <1>1, <1>2, <3>1
    <3>2. CASE k # 1
      BY <1>0, <1>1, <1>2, <3>2
    <3> QED  BY <3>1, <3>2
  <2>2. ASSUME NEW j \in 1 .. n - 1
        PROVE  nd2[q2[j]].next_sibling = IF j = n - 1 THEN NULL ELSE q2[j + 1]
    <3>1. CASE j < k - 1
      <4>1. q2[j] = q[j] /\ j \in 1 .. n /\ j # k /\ j # n /\ j # n - 1 /\ q2[j + 1] = q[j + 1]
        BY <1>1, <3>1
      <4> QED  BY <1>0, <1>2, <3>1, <4>1
    <3>2. CASE j = k - 1
      <4>1. q2[j] = q[j] /\ j \in 1 .. n /\ j # k
        BY <1>1, <3>2
      <4>2. nd2[q2[j]].next_sibling = IF k = n THEN NULL ELSE q[k + 1]
        BY <1>0, <1>2, <3>2, <4>1
      <4>3. k # n => q2[j + 1] = q[k + 1]
        BY <1>1, <3>2
      <4> QED  BY <3>2, <4>2, <4>3
    <3>3. CASE j > k - 1
      <4>1. q2[j] = q[j + 1] /\ j + 1 \in 1 .. n /\ j + 1 # k /\ j + 1 # k - 1
        BY <1>1, <3>3
      <4>2. nd2[q2[j]].next_sibling = IF j + 1 = n THEN NULL ELSE q[j + 2]
        BY <1>0, <1>2, <4>1
      <4>3. ASSUME j # n - 1 PROVE q2[j + 1] = q[j + 2]
        <5>1. j + 1 \in 1 .. n - 1 /\ ~(j + 1 < k) /\ (j + 1) + 1 = j + 2
          BY <3>3, <4>3
        <5> QED  BY <1>1, <5>1
      <4> QED  BY <4>2, <4>3
    <3> QED  BY <3>1, <3>2, <3>3
  <2> QED  BY <1>4, <2>1, <2>2 DEF Chain
<1>6. \A j \in 1 .. n - 1 : q2[j] \in h \ {q[k]} /\ nd2[q2[j]].parent = d
  <2> SUFFICES ASSUME NEW j \in 1 .. n - 1
               PROVE  q2[j] \in h \ {q[k]} /\ nd2[q2[j]].parent = d
    OBVIOUS
  <2>1. PICK i \in 1 .. n : i # k /\ q2[j] = q[i]
    BY <1>3
  <2>2. q[i] # q[k] /\ nd2[q[i]].parent = nd[q[i]].parent
    BY <1>0, <1>2, <2>1
  <2>3. q[i] \in h /\ nd[q[i]].parent = d
    BY <2>1 DEF Family
  <2> QED  BY <2>1, <2>2, <2>3
<1>7. ASSUME NEW i \in 1 .. n - 1, NEW j \in 1 .. n - 1, i # j,
             nd2[q2[i]].name = nd2[q2[j]].name
      PROVE  \E long \in Name : Stored[long] = nd2[q2[i]].name /\ long # nd2[q2[i]].name
  <2>1. PICK i2 \in 1 .. n : i2 # k /\ q2[i] = q[i2]
    BY <1>3
  <2>2. PICK j2 \in 1 .. n : j2 # k /\ q2[j] = q[j2]
    BY <1>3
  <2>3. i2 # j2
    BY <1>4, <1>7, <2>1, <2>2
  <2> QED  BY <1>0, <1>7, <2>1, <2>2, <2>3 DEF Family
<1>8. Family(h \ {q[k]}, nd2, d, q2, n - 1)
  BY <1>5, <1>6, <1>7 DEF Family
<1>9. n - 1 \in Nat
  OBVIOUS
<1>10. {q[i] : i \in 1 .. n} \ {q[k]} = {q2[j] : j \in 1 .. n - 1}
  <2>1. \A j \in 1 .. n - 1 : q2[j] \in {q[i] : i \in 1 .. n} \ {q[k]}
    BY <1>2, <1>3
  <2>2. ASSUME NEW i \in 1 .. n, i # k PROVE \E j \in 1 .. n - 1 : q2[j] = q[i]
    <3>1. CASE i < k
      <4>1. i \in 1 .. n - 1 /\ q2[i] = q[i]
        BY <1>1, <3>1
      <4> QED  BY <4>1
    <3>2. CASE i > k
      <4>1. i - 1 \in 1 .. n - 1 /\ ~(i - 1 < k) /\ (i - 1) + 1 = i
        BY <3>2
      <4>2. q2[i - 1] = q[i]
        BY <1>1, <4>1
      <4> QED  BY <4>1, <4>2
    <3> QED  BY <2>2, <3>1, <3>2
  <2> QED  BY <2>1, <2>2
<1> QED  BY Zenon, <1>1, <1>8, <1>9, <1>10 DEF Lists

(***************************************************************************)
(* Nothing is allocated at the start.                                      *)
(***************************************************************************)
LEMMA InitIInv == Init => IInv
<1> SUFFICES ASSUME Init PROVE IInv
  OBVIOUS
<1>1. Zeroed \in Fields
  BY DEF Zeroed, Fields
<1>2. TypeOK
  <2>1. node \in [Node -> Fields]
    BY <1>1 DEF Init
  <2>2. mounts \in Seq([path : Paths, root : Node]) /\ Len(mounts) <= MAX_MOUNTS
    <3>1. MAX_MOUNTS \in Nat
      BY Zenon, FileSystemAssumption
    <3> QED  BY <3>1 DEF Init
  <2> QED  BY Zenon, <2>1, <2>2 DEF Init, TypeOK, Fields
<1>3. Roots = {}
  BY SMTT(30) DEF Init, Roots
<1> QED  BY <1>2, <1>3 DEF Init, IInv

(***************************************************************************)
(* A node put in front of a directory's children joins them, if no child   *)
(* had its name and the links of the others stay.                          *)
(***************************************************************************)
LEMMA ChildrenAdded ==
    ASSUME IInv, NEW parent \in heap, NEW name \in Name, NEW n \in Node \ heap,
           Named(parent, name) = {}, NEW nd2,
           nd2[parent].children = n, nd2[n].next_sibling = node[parent].children,
           nd2[n].parent = parent, nd2[n].name = Stored[name],
           \A c \in heap : /\ nd2[c].next_sibling = node[c].next_sibling
                           /\ nd2[c].parent = node[c].parent
                           /\ nd2[c].name = node[c].name
    PROVE  Lists(heap \cup {n}, nd2, parent, Children(parent) \cup {n})
<1>1. Lists(heap, node, parent, Children(parent))
  BY ChildrenListed
<1>2. \A x \in Children(parent) : node[x].name # name
  BY DEF Children, Named
<1>3. \A x \in Children(parent) : x \in heap
  BY ChildrenOf
<1>4. \A x \in Children(parent) : /\ nd2[x].next_sibling = node[x].next_sibling
                                  /\ nd2[x].parent = node[x].parent
                                  /\ nd2[x].name = node[x].name
  BY Zenon, <1>3
<1>5. heap \in SUBSET Node
  BY Zenon DEF IInv, TypeOK
<1> QED  BY SMTT(30), <1>1, <1>2, <1>4, <1>5, ListAdded

(***************************************************************************)
(* A node is added: the children of its parent are one more, those of      *)
(* every other node the same.                                              *)
(***************************************************************************)
LEMMA AddIInv ==
    ASSUME IInv, NEW parent \in heap, NEW name \in Name, MayAdd(parent, name),
           NEW n \in Node \ heap, NEW fields \in Fields, fields.name = Stored[name],
           fields.children = NULL, AddChild(parent, n, fields)
    PROVE  /\ IInv' /\ Roots' = Roots
           /\ Lists(heap', node', parent, Children(parent) \cup {n})
           /\ \A d \in heap \ {parent} : Lists(heap', node', d, Children(d))
<1>1. /\ heap \in SUBSET Node /\ node \in [Node -> Fields] /\ parent \in Node /\ n # parent
      /\ node[parent] \in Fields /\ heap' = heap \cup {n}
      /\ UNCHANGED <<vfs_root, mounts>> /\ result' = 0 /\ NULL \notin Node
  BY Zenon, Nodes DEF IInv, TypeOK, Fields, AddChild
<1>2. node' = [node EXCEPT ![n] = [fields EXCEPT !.parent = parent,
                                        !.next_sibling = node[parent].children],
                           ![parent].children = n]
  BY DEF AddChild
<1>3. node'[n] = [fields EXCEPT !.parent = parent, !.next_sibling = node[parent].children]
  BY <1>1, <1>2
<1>4. node'[parent] = [node[parent] EXCEPT !.children = n]
  BY <1>1, <1>2
<1>5. \A x \in Node \ {n, parent} : node'[x] = node[x]
  BY <1>1, <1>2
<1>6. /\ node'[n] \in Fields /\ node'[n].parent = parent /\ node'[n].children = NULL
      /\ node'[n].next_sibling = node[parent].children /\ node'[n].name = Stored[name]
  BY Zenon, <1>1, <1>3 DEF Fields
<1>7. /\ node'[parent] \in Fields /\ node'[parent].children = n
      /\ node'[parent].parent = node[parent].parent
      /\ node'[parent].next_sibling = node[parent].next_sibling
      /\ node'[parent].name = node[parent].name
      /\ node'[parent].type = node[parent].type
  BY Zenon, <1>1, <1>4 DEF Fields
<1>8. node' \in [Node -> Fields]
  <2>1. node' = [x \in Node |-> node'[x]]
    BY Zenon, <1>1, <1>2
  <2>2. \A x \in Node : node'[x] \in Fields
    BY <1>1, <1>5, <1>6, <1>7
  <2> QED  BY <2>1, <2>2
<1>9. TypeOK'
  BY Zenon, <1>1, <1>8 DEF IInv, TypeOK, Fields
<1>10. \A x \in heap : /\ node'[x].parent = node[x].parent
                       /\ node'[x].next_sibling = node[x].next_sibling
                       /\ node'[x].name = node[x].name
                       /\ node'[x].type = node[x].type
                       /\ x # parent => node'[x].children = node[x].children
  BY <1>1, <1>5, <1>7
<1>11. Roots' = Roots
  BY <1>1 DEF Roots
<1>12. \A r \in Roots' : r \in heap' /\ node'[r].parent = NULL
  BY SMTT(30), <1>1, <1>10, <1>11 DEF IInv
<1>13. \A d \in heap' : node'[d].parent # d /\ (node'[d].type = "FILE" => node'[d].children = NULL)
  <2>1. node[parent].type = "DIRECTORY"
    BY SMTT(30) DEF MayAdd
  <2> QED  BY <1>1, <1>6, <1>7, <1>10, <2>1 DEF IInv
<1>14. Lists(heap', node', n, {})
  BY <1>6, EmptyFamily
<1>15. Lists(heap', node', parent, Children(parent) \cup {n})
  <2>1. Named(parent, name) = {}
    BY ChildrenOf DEF MayAdd
  <2>2. PICK nd2 : nd2 = node'
    OBVIOUS
  <2>3. /\ nd2[parent].children = n /\ nd2[n].next_sibling = node[parent].children
        /\ nd2[n].parent = parent /\ nd2[n].name = Stored[name]
        /\ \A c \in heap : /\ nd2[c].next_sibling = node[c].next_sibling
                            /\ nd2[c].parent = node[c].parent
                            /\ nd2[c].name = node[c].name
    BY Zenon, <1>6, <1>7, <1>10, <2>2
  <2>4. Lists(heap \cup {n}, nd2, parent, Children(parent) \cup {n})
    BY Zenon, <2>1, <2>3, ChildrenAdded
  <2> QED  BY Zenon, <1>1, <2>2, <2>4
<1>16. ASSUME NEW d \in heap \ {parent} PROVE Lists(heap', node', d, Children(d))
  <2>1. Lists(heap, node, d, Children(d)) /\ node'[d].children = node[d].children
    BY SMTT(30), <1>10, ChildrenListed
  <2>2. Kept(heap, heap', node, node', d)
    BY <1>1, <1>10, <2>1 DEF Kept
  <2> QED  BY SMTT(30), <2>1, <2>2, FamilyKept
<1>17. \A d \in heap' : HasFamily(heap', node', d)
  BY SMTT(30), <1>1, <1>14, <1>15, <1>16 DEF HasFamily
<1> QED  BY Zenon, <1>1, <1>9, <1>11, <1>12, <1>13, <1>15, <1>16, <1>17 DEF IInv

(***************************************************************************)
(* A node is unlinked and freed: the children of its parent are one less,  *)
(* those of every other node the same.                                     *)
(***************************************************************************)
LEMMA UnlinkIInv ==
    ASSUME IInv, NEW parent \in heap, NEW name, Named(parent, name) # {},
           NEW child, child = ramfs_readdir(parent, Min(Named(parent, name))),
           node' = [Unlinked(parent, Min(Named(parent, name))) EXCEPT ![child] = Zeroed],
           heap' = heap \ {child}, result' = 0, UNCHANGED <<vfs_root, mounts>>
    PROVE  /\ IInv'
           /\ child \in Children(parent) /\ child # parent
           /\ Roots' = Roots
           /\ Lists(heap', node', parent, Children(parent) \ {child})
           /\ \A d \in heap \ {child, parent} : Lists(heap', node', d, Children(d))
<1>1. /\ heap \in SUBSET Node /\ node \in [Node -> Fields] /\ parent \in Node /\ NULL \notin Node
  BY Zenon, Nodes DEF IInv, TypeOK, Fields
<1>2. PICK m \in Nat : \E q \in [1 .. m -> Node] : Family(heap, node, parent, q, m)
  BY FamilyOf
<1>3. PICK q \in [1 .. m -> Node] : Family(heap, node, parent, q, m)
  BY <1>2
<1>4. PICK i \in Named(parent, name) : i = Min(Named(parent, name))
  BY ChildrenOf
<1>5. i + 1 \in 1 .. m /\ i \in Nat
  BY SMTT(30), <1>3, <1>4, FamilyList
<1>6. PICK k \in 1 .. m : k = i + 1
  BY <1>5
<1>7. \A j \in 1 .. m : j - 1 \in Indices /\ ramfs_readdir(parent, j - 1) = q[j]
  BY SMTT(30), <1>3, FamilyList
<1>8. /\ child = q[k] /\ child \in heap /\ node[child].parent = parent
      /\ child \in Children(parent) /\ child # parent
  <2>1. i = k - 1 /\ k \in Nat
    BY <1>5, <1>6
  <2>2. child = q[k]
    BY SMTT(30), <1>4, <1>6, <1>7, <2>1
  <2>3. child \in heap /\ node[child].parent = parent
    BY <1>3, <1>6, <2>2 DEF Family
  <2>4. child \in Children(parent)
    BY SMTT(30), <1>3, <1>6, <2>2, FamilyList
  <2> QED  BY <2>2, <2>3, <2>4 DEF IInv
<1>9. \A x, y \in 1 .. m : q[x] = q[y] => x = y
  BY <1>3 DEF Family, Chain
<1>10. PICK u : u = Unlinked(parent, i)
  OBVIOUS
<1>11. node' = [u EXCEPT ![child] = Zeroed]
  BY <1>4, <1>10
<1>12. node[child] \in Fields /\ node[child].next_sibling \in Node \cup {NULL} /\ child \in Node
  BY ZenonT(60), <1>1, <1>8 DEF Fields
<1>13. /\ DOMAIN u = Node
       /\ \A x \in Node :
             /\ u[x] \in Fields
             /\ u[x].parent = node[x].parent /\ u[x].name = node[x].name
             /\ u[x].type = node[x].type
             /\ u[x].children = IF k = 1 /\ x = parent THEN node[child].next_sibling
                               ELSE node[x].children
             /\ u[x].next_sibling = IF k # 1 /\ x = q[k - 1] THEN node[child].next_sibling
                                    ELSE node[x].next_sibling
  <2>1. CASE k = 1
    <3>1. u = [node EXCEPT ![parent].children = node[child].next_sibling]
      BY <1>4, <1>5, <1>6, <1>10, <2>1 DEF Unlinked
    <3>2. \A x \in Node : u[x] = IF x = parent THEN [node[x] EXCEPT !.children = node[child].next_sibling]
                                 ELSE node[x]
      BY <1>1, <3>1
    <3>3. \A x \in Node : node[x] \in Fields
      BY <1>1
    <3>4. DOMAIN u = Node
      BY SMTT(30), <1>1, <3>1
    <3>5. ASSUME NEW x \in Node
          PROVE  /\ u[x] \in Fields
                 /\ u[x].parent = node[x].parent /\ u[x].name = node[x].name
                 /\ u[x].type = node[x].type
                 /\ u[x].children = IF x = parent THEN node[child].next_sibling
                                   ELSE node[x].children
                 /\ u[x].next_sibling = node[x].next_sibling
      <4>1. CASE x = parent
        <5>1. PICK r \in Fields : r = node[x]
          BY <3>3
        <5>2. PICK v \in Node \cup {NULL} : v = node[child].next_sibling
          BY <1>12
        <5>3. u[x] = [r EXCEPT !.children = v]
          BY <3>2, <4>1, <5>1, <5>2
        <5>4. PICK e : e = [r EXCEPT !.children = v]
          BY Zenon
        <5>5. /\ e \in Fields /\ e.children = v /\ e.next_sibling = r.next_sibling
              /\ e.parent = r.parent /\ e.name = r.name /\ e.type = r.type
          BY Zenon, <5>1, <5>2, <5>4 DEF Fields
        <5> QED  BY <4>1, <5>1, <5>2, <5>3, <5>4, <5>5
      <4>2. CASE x # parent
        BY Zenon, <3>2, <3>3, <4>2
      <4> QED  BY <4>1, <4>2
    <3> QED  BY <2>1, <3>4, <3>5
  <2>2. CASE k # 1
    <3>0. i # 0 /\ k - 1 \in 1 .. m /\ (k - 1) - 1 = i - 1
      BY <1>5, <1>6, <2>2
    <3>1. u = [node EXCEPT ![q[k - 1]].next_sibling = node[child].next_sibling]
      <4>1. ramfs_readdir(parent, i - 1) = q[k - 1]
        BY <1>7, <3>0
      <4> QED  BY Zenon, <1>4, <1>10, <3>0, <4>1 DEF Unlinked
    <3>2. q[k - 1] \in Node
      BY <1>3, <3>0
    <3>3. \A x \in Node : u[x] = IF x = q[k - 1]
                                 THEN [node[x] EXCEPT !.next_sibling = node[child].next_sibling]
                                 ELSE node[x]
      BY <1>1, <3>1, <3>2
    <3>4. \A x \in Node : node[x] \in Fields
      BY <1>1
    <3>5. DOMAIN u = Node
      BY SMTT(30), <1>1, <3>1
    <3>6. ASSUME NEW x \in Node
          PROVE  /\ u[x] \in Fields
                 /\ u[x].parent = node[x].parent /\ u[x].name = node[x].name
                 /\ u[x].type = node[x].type
                 /\ u[x].children = node[x].children
                 /\ u[x].next_sibling = IF x = q[k - 1] THEN node[child].next_sibling
                                        ELSE node[x].next_sibling
      <4>1. CASE x = q[k - 1]
        <5>1. PICK r \in Fields : r = node[x]
          BY <3>4
        <5>2. PICK v \in Node \cup {NULL} : v = node[child].next_sibling
          BY <1>12
        <5>3. u[x] = [r EXCEPT !.next_sibling = v]
          BY <3>3, <4>1, <5>1, <5>2
        <5>4. PICK e : e = [r EXCEPT !.next_sibling = v]
          BY Zenon
        <5>5. /\ e \in Fields /\ e.next_sibling = v /\ e.children = r.children
              /\ e.parent = r.parent /\ e.name = r.name /\ e.type = r.type
          BY Zenon, <5>1, <5>2, <5>4 DEF Fields
        <5> QED  BY SMTT(30), <4>1, <5>1, <5>2, <5>3, <5>4, <5>5
      <4>2. CASE x # q[k - 1]
        BY Zenon, <3>3, <3>4, <4>2
      <4> QED  BY <4>1, <4>2
    <3> QED  BY <2>2, <3>5, <3>6
  <2> QED  BY <2>1, <2>2
<1>14. node'[child] = Zeroed /\ \A x \in Node \ {child} : node'[x] = u[x]
  BY <1>11, <1>12, <1>13
<1>15. node' \in [Node -> Fields]
  <2>1. node' = [x \in Node |-> node'[x]]
    BY Zenon, <1>11, <1>13
  <2>2. Zeroed \in Fields
    BY Zenon DEF Zeroed, Fields
  <2>3. \A x \in Node : node'[x] \in Fields
    BY <1>13, <1>14, <2>2
  <2> QED  BY Zenon, <2>1, <2>3
<1>16. TypeOK'
  BY Zenon, <1>1, <1>15 DEF IInv, TypeOK, Fields
<1>17. \A d \in heap \ {child, parent} : node'[d].children = node[d].children
  BY <1>1, <1>13, <1>14
<1>18. Roots' = Roots
  BY SMTT(30) DEF Roots
<1>19. \A r \in Roots' : r \in heap' /\ node'[r].parent = NULL
  BY SMTT(30), <1>1, <1>8, <1>13, <1>14, <1>18 DEF IInv
<1>20. \A d \in heap' : node'[d].parent # d /\ (node'[d].type = "FILE" => node'[d].children = NULL)
  <2> SUFFICES ASSUME NEW d \in heap \ {child}
               PROVE  node'[d].parent # d /\ (node'[d].type = "FILE" => node'[d].children = NULL)
    BY SMTT(30)
  <2>1. node'[d].parent # d
    BY SMTT(30), <1>1, <1>13, <1>14 DEF IInv
  <2>2. d # parent => (node'[d].type = "FILE" => node'[d].children = NULL)
    BY SMTT(30), <1>1, <1>13, <1>14, <1>17 DEF IInv
  <2>3. node[parent].type # "FILE"
    <3>1. node[parent].children = q[1] /\ q[1] \in Node
      BY <1>3, <1>6 DEF Family, Chain
    <3> QED  BY SMTT(30), <1>1, <3>1 DEF IInv
  <2> QED  BY SMTT(30), <1>1, <1>8, <1>13, <1>14, <2>1, <2>2, <2>3
<1>21. Lists(heap', node', parent, Children(parent) \ {child})
  <2>1. PICK nd2 : nd2 = node'
    OBVIOUS
  <2>2. PICK nd : nd = node
    BY SMTT(30)
  <2>3. nd2[parent].children = IF k = 1 THEN nd[q[1]].next_sibling ELSE nd[parent].children
    <3>1. node'[parent] = u[parent]
      BY <1>1, <1>8, <1>14
    <3>2. k = 1 => child = q[1]
      BY <1>8
    <3> QED  BY SMTT(30), <1>1, <1>13, <2>1, <2>2, <3>1, <3>2
  <2>4. ASSUME NEW j \in 1 .. m, j # k
        PROVE  /\ nd2[q[j]].next_sibling = IF j = k - 1 THEN nd[q[k]].next_sibling
                                           ELSE nd[q[j]].next_sibling
               /\ nd2[q[j]].parent = nd[q[j]].parent
               /\ nd2[q[j]].name = nd[q[j]].name
    <3>1. q[j] \in Node \ {child}
      BY <1>3, <1>6, <1>8, <1>9, <2>4
    <3>2. (k # 1 /\ q[j] = q[k - 1]) <=> j = k - 1
      <4>1. k # 1 => k - 1 \in 1 .. m
        BY <1>2, <1>6
      <4>2. k = 1 => j # k - 1
        BY <1>2, <1>6
      <4> QED  BY <1>9, <4>1, <4>2
    <3>3. PICK x \in Node \ {child} : x = q[j]
      BY <3>1
    <3>4. node'[x] = u[x]
      BY SMTT(30), <1>14
    <3>5. /\ u[x].parent = node[x].parent /\ u[x].name = node[x].name
          /\ u[x].next_sibling = IF k # 1 /\ x = q[k - 1] THEN node[child].next_sibling
                                 ELSE node[x].next_sibling
      BY <1>13
    <3> QED  BY Zenon, <1>8, <2>1, <2>2, <3>2, <3>3, <3>4, <3>5
  <2>5. Family(heap, nd, parent, q, m)
    BY SMTT(30), <1>3, <2>2
  <2>6. Cut(nd, nd2, parent, q, m, k)
    BY SMTT(30), <2>3, <2>4 DEF Cut
  <2>7. Lists(heap \ {q[k]}, nd2, parent, {q[j] : j \in 1 .. m} \ {q[k]})
    BY SMTT(30), <1>1, <1>2, <1>3, <1>6, <2>5, <2>6, FamilyCut
  <2>8. Children(parent) = {q[j] : j \in 1 .. m}
    <3>1. \A x : x \in Children(parent) <=> \E j \in 1 .. m : x = q[j]
      BY SMTT(30), <1>3, FamilyList
    <3>2. \A x : x \in {q[j] : j \in 1 .. m} <=> \E j \in 1 .. m : x = q[j]
      OBVIOUS
    <3> QED  BY Zenon, <3>1, <3>2
  <2> QED  BY Zenon, <1>8, <2>1, <2>7, <2>8
<1>22. ASSUME NEW d \in heap \ {child, parent} PROVE Lists(heap', node', d, Children(d))
  <2>1. Lists(heap, node, d, Children(d)) /\ d # parent
    BY ChildrenListed
  <2>2. node'[d].children = node[d].children
    BY SMTT(30), <1>17
  <2>3. ASSUME NEW c \in heap, node[c].parent = d
        PROVE  /\ c \in heap'
               /\ node'[c].next_sibling = node[c].next_sibling
               /\ node'[c].parent = node[c].parent /\ node'[c].name = node[c].name
    <3>1. c # child /\ c \in Node
      BY SMTT(30), <1>1, <1>8, <2>1, <2>3
    <3>2. k # 1 => c # q[k - 1]
      <4>1. k # 1 => k - 1 \in 1 .. m
        BY SMTT(30), <1>2, <1>6
      <4> QED  BY <1>3, <2>1, <2>3, <4>1 DEF Family
    <3> QED  BY SMTT(30), <1>13, <1>14, <3>1, <3>2
  <2>4. Kept(heap, heap', node, node', d)
    BY <2>2, <2>3 DEF Kept
  <2> QED  BY <2>1, <2>4, FamilyKept
<1>23. \A d \in heap' : HasFamily(heap', node', d)
  BY Zenon, <1>21, <1>22 DEF HasFamily
<1>24. IInv'
  BY Zenon, <1>16, <1>18, <1>19, <1>20, <1>23 DEF IInv
<1> QED  BY Zenon, <1>8, <1>18, <1>21, <1>22, <1>24

(***************************************************************************)
(* The fields that ramfs_create_node and ramfs_init set.                   *)
(***************************************************************************)
LEMMA NewFields ==
    ASSUME NEW name \in Name \cup {"/"}, NEW type \in {"FILE", "DIRECTORY"}
    PROVE  /\ ramfs_create_node(name, type) \in Fields
           /\ ramfs_create_node(name, type).name = name
           /\ ramfs_create_node(name, type).children = NULL
           /\ ramfs_create_node(name, type).parent = NULL
           /\ Directory(name) \in Fields
           /\ Directory(name).name = name
           /\ Directory(name).children = NULL
           /\ Directory(name).parent = NULL
BY Zenon DEF ramfs_create_node, Directory, Zeroed, Fields

(***************************************************************************)
(* The roots of a mount list with one more mount.                          *)
(***************************************************************************)
LEMMA RootsAdded ==
    ASSUME NEW M, NEW s \in Seq(M), NEW x
    PROVE  {(<<x>> \o s)[i].root : i \in DOMAIN (<<x>> \o s)}
             = {s[i].root : i \in DOMAIN s} \cup {x.root}
<1> DEFINE t == <<x>> \o s
<1>1. /\ DOMAIN t = 1 .. Len(s) + 1 /\ DOMAIN s = 1 .. Len(s) /\ Len(s) \in Nat
      /\ t[1] = x /\ \A i \in 1 .. Len(s) : t[i + 1] = s[i]
  OBVIOUS
<1>2. \A i \in DOMAIN t : i = 1 \/ (i - 1 \in DOMAIN s /\ t[i] = s[i - 1])
  <2> SUFFICES ASSUME NEW i \in DOMAIN t, i # 1 PROVE i - 1 \in DOMAIN s /\ t[i] = s[i - 1]
    OBVIOUS
  <2>1. i - 1 \in 1 .. Len(s) /\ (i - 1) + 1 = i
    BY <1>1
  <2>2. t[(i - 1) + 1] = s[i - 1]
    BY <1>1, <2>1
  <2> QED  BY <1>1, <2>1, <2>2
<1>3. \A i \in DOMAIN s : i + 1 \in DOMAIN t /\ t[i + 1] = s[i]
  BY <1>1
<1>4. 1 \in DOMAIN t /\ t[1] = x
  BY <1>1
<1> HIDE DEF t
<1>5. {t[i].root : i \in DOMAIN t} = {s[i].root : i \in DOMAIN s} \cup {x.root}
  BY <1>2, <1>3, <1>4
<1> QED  BY Zenon, <1>5 DEF t

(***************************************************************************)
(* ramfs_init and vfs_mount: the new root is mounted, or the mount fails   *)
(* and the root stays allocated.                                           *)
(***************************************************************************)
LEMMA MountIInv ==
    ASSUME IInv, NEW path \in Paths, NEW r \in Node \ heap, heap' = heap \cup {r},
           node' = [node EXCEPT ![r] = Directory("/")], vfs_mount(path, r)
    PROVE  /\ IInv' /\ Roots \subseteq Roots' /\ (result' = -1 \/ r \in Roots')
           /\ \A d \in heap : Lists(heap', node', d, Children(d))
           /\ node'[r].name = "/"
<1>1. heap \in SUBSET Node /\ node \in [Node -> Fields] /\ NULL \notin Node
  BY Zenon, Nodes DEF IInv, TypeOK, Fields
<1>2. /\ Directory("/") \in Fields /\ Directory("/").children = NULL
      /\ Directory("/").parent = NULL /\ Directory("/").name = "/"
  BY NewFields
<1>3. /\ node' \in [Node -> Fields] /\ node'[r] = Directory("/")
      /\ \A x \in Node \ {r} : node'[x] = node[x]
  BY <1>1, <1>2
<1>4. /\ mounts' \in Seq([path : Paths, root : Node]) /\ Len(mounts') <= MAX_MOUNTS
      /\ Roots \subseteq Roots' /\ Roots' \subseteq Roots \cup {r}
      /\ vfs_root' \in Roots' \cup {NULL}
      /\ result' \in {0, -1} /\ (result' = -1 \/ r \in Roots')
  <2>1. mounts \in Seq([path : Paths, root : Node]) /\ Len(mounts) <= MAX_MOUNTS /\ MAX_MOUNTS \in Nat
    BY Zenon, FileSystemAssumption DEF IInv, TypeOK
  <2>2. CASE UNCHANGED <<mounts, vfs_root>> /\ result' = -1
    BY <2>1, <2>2 DEF IInv, Roots
  <2>3. CASE /\ MayMount
             /\ mounts' = <<[path |-> path, root |-> r]>> \o mounts
             /\ vfs_root' = IF path = <<>> THEN r ELSE vfs_root
             /\ result' = 0
    <3>1. PICK x \in [path : Paths, root : Node] : x = [path |-> path, root |-> r]
      BY Zenon
    <3>2. mounts' = <<x>> \o mounts /\ x.root = r
      BY <2>3, <3>1
    <3>3. Roots' = Roots \cup {r}
      <4>0. PICK M : M = [path : Paths, root : Node]
        BY Zenon
      <4>1. PICK m \in Seq(M) : m = mounts
        BY <2>1, <4>0
      <4>2. {(<<x>> \o m)[i].root : i \in DOMAIN (<<x>> \o m)}
              = {m[i].root : i \in DOMAIN m} \cup {x.root}
        BY SMTT(30), <4>1, RootsAdded
      <4>3. Roots' = {(<<x>> \o m)[i].root : i \in DOMAIN (<<x>> \o m)}
        BY Zenon, <3>2, <4>1 DEF Roots
      <4> QED  BY Zenon, <3>2, <4>1, <4>2, <4>3 DEF Roots
    <3>4. mounts' \in Seq([path : Paths, root : Node]) /\ Len(mounts') = Len(mounts) + 1
      BY <2>1, <3>1, <3>2
    <3>5. Len(mounts') <= MAX_MOUNTS
      BY <2>1, <2>3, <3>4 DEF MayMount
    <3> QED  BY <2>3, <3>3, <3>4, <3>5 DEF IInv
  <2> QED  BY <2>2, <2>3 DEF vfs_mount
<1>5. TypeOK'
  <2>1. vfs_root' \in Node \cup {NULL}
    BY <1>1, <1>4 DEF IInv
  <2> QED  BY Zenon, <1>1, <1>3, <1>4, <2>1 DEF TypeOK, Fields
<1>6. \A x \in Roots' : x \in heap' /\ node'[x].parent = NULL
  BY SMTT(30), <1>1, <1>2, <1>3, <1>4 DEF IInv
<1>7. \A d \in heap' : node'[d].parent # d /\ (node'[d].type = "FILE" => node'[d].children = NULL)
  BY <1>1, <1>2, <1>3 DEF IInv
<1>8. Lists(heap', node', r, {})
  BY Zenon, <1>2, <1>3, EmptyFamily
<1>9. ASSUME NEW d \in heap PROVE Lists(heap', node', d, Children(d))
  <2>1. Lists(heap, node, d, Children(d))
    BY ChildrenListed
  <2>2. Kept(heap, heap', node, node', d)
    BY <1>1, <1>3 DEF Kept
  <2> QED  BY <2>1, <2>2, FamilyKept
<1>10. \A d \in heap' : HasFamily(heap', node', d)
  BY Zenon, <1>8, <1>9 DEF HasFamily
<1> QED  BY Zenon, <1>2, <1>3, <1>4, <1>5, <1>6, <1>7, <1>9, <1>10 DEF IInv

(***************************************************************************)
(* A call that fails changes nothing but its result.                       *)
(***************************************************************************)
LEMMA FailsIInv ==
    ASSUME IInv, Fails
    PROVE  IInv' /\ UNCHANGED <<heap, node, vfs_root, mounts>>
BY Zenon DEF Fails, IInv, TypeOK, Roots

(***************************************************************************)
(* vfs_create and vfs_mkdir, in any allocated directory.                   *)
(***************************************************************************)
LEMMA CreateIInv ==
    ASSUME IInv, NEW parent \in heap \cup {NULL}, NEW name \in Name,
           \/ \E type \in {"FILE", "DIRECTORY"} : vfs_create(parent, name, type)
           \/ vfs_mkdir(parent, name)
    PROVE  IInv'
<1>1. CASE Fails
  BY <1>1, FailsIInv
<1>2. ASSUME NEW n \in Node \ heap, NEW fields \in Fields, MayAdd(parent, name),
             fields.name = Stored[name], fields.children = NULL, AddChild(parent, n, fields)
      PROVE  IInv'
  <2>1. parent \in heap
    BY <1>2 DEF MayAdd
  <2> QED  BY Zenon, <1>2, <2>1, AddIInv
<1>3. Stored[name] \in Name
  BY Zenon, FileSystemAssumption
<1>4. ASSUME NEW type \in {"FILE", "DIRECTORY"}, vfs_create(parent, name, type), ~Fails PROVE IInv'
  <2>1. PICK n \in Node \ heap :
            MayAdd(parent, name) /\ AddChild(parent, n, ramfs_create_node(Stored[name], type))
    BY <1>4 DEF vfs_create
  <2>2. PICK fields \in Fields : /\ fields = ramfs_create_node(Stored[name], type)
                                /\ fields.name = Stored[name] /\ fields.children = NULL
    BY SMTT(30), <1>3, NewFields
  <2> QED  BY <1>2, <2>1, <2>2
<1>5. ASSUME vfs_mkdir(parent, name), ~Fails PROVE IInv'
  <2>1. PICK n \in Node \ heap :
            MayAdd(parent, name) /\ AddChild(parent, n, Directory(Stored[name]))
    BY <1>5 DEF vfs_mkdir
  <2>2. PICK fields \in Fields : /\ fields = Directory(Stored[name])
                                /\ fields.name = Stored[name] /\ fields.children = NULL
    BY <1>3, NewFields
  <2> QED  BY <1>2, <2>1, <2>2
<1> QED  BY <1>1, <1>4, <1>5

(***************************************************************************)
(* vfs_unlink, in any allocated directory.                                 *)
(***************************************************************************)
LEMMA RemoveIInv ==
    ASSUME IInv, NEW parent \in heap \cup {NULL}, NEW name, vfs_unlink(parent, name)
    PROVE  IInv'
<1>1. CASE Fails
  BY <1>1, FailsIInv
<1>2. CASE ~Fails
  <2>1. parent \in heap /\ Named(parent, name) # {}
    BY <1>2 DEF vfs_unlink
  <2>2. PICK child : child = ramfs_readdir(parent, Min(Named(parent, name)))
    OBVIOUS
  <2>3. /\ node' = [Unlinked(parent, Min(Named(parent, name))) EXCEPT ![child] = Zeroed]
        /\ heap' = heap \ {child} /\ result' = 0 /\ UNCHANGED <<vfs_root, mounts>>
    BY <1>2, <2>2 DEF vfs_unlink
  <2> QED  BY Zenon, <2>1, <2>2, <2>3, UnlinkIInv
<1> QED  BY <1>1, <1>2

(***************************************************************************)
(* vfs_resolve_path returns an allocated node or NULL.                     *)
(***************************************************************************)
LEMMA ResolvedInHeap ==
    ASSUME IInv, NEW path \in Paths
    PROVE  vfs_resolve_path(path) \in heap \cup {NULL}
<1>1. path \in Seq(Component \cup {""})
  BY Zenon, FileSystemAssumption
<1>2. vfs_root \in heap \cup {NULL} /\ heap \in SUBSET heap
  BY DEF IInv
<1>3. \A d \in heap : Children(d) \subseteq heap
  BY ChildrenOf
<1> QED  BY Zenon, <1>1, <1>2, <1>3, ResolvedIn

(***************************************************************************)
(* Every call preserves the invariant.                                     *)
(***************************************************************************)
LEMMA NextIInv == IInv /\ [Next]_vars => IInv'
<1> SUFFICES ASSUME IInv, [Next]_vars PROVE IInv'
  OBVIOUS
<1>1. ASSUME NEW path \in Paths, MountRamfs(path) PROVE IInv'
  <2>1. CASE Fails
    BY <2>1, FailsIInv
  <2>2. CASE \E r \in Node \ heap : /\ heap' = heap \cup {r}
                                     /\ node' = [node EXCEPT ![r] = Directory("/")]
                                     /\ vfs_mount(path, r)
    BY Zenon, <2>2, MountIInv
  <2> QED  BY <1>1, <2>1, <2>2 DEF MountRamfs
<1>2. Component \subseteq Name /\ vfs_root \in heap \cup {NULL}
  BY Zenon, FileSystemAssumption DEF IInv
<1>3. ASSUME NEW path \in Paths, NEW name \in Component, NEW type \in {"FILE", "DIRECTORY"},
             vfs_create(vfs_resolve_path(path), name, type)
      PROVE  IInv'
  BY <1>2, <1>3, ResolvedInHeap, CreateIInv
<1>4. ASSUME NEW path \in Paths, NEW name \in Component, vfs_mkdir(vfs_resolve_path(path), name)
      PROVE  IInv'
  BY <1>2, <1>4, ResolvedInHeap, CreateIInv
<1>5. ASSUME NEW path \in Paths, NEW name \in Component, vfs_unlink(vfs_resolve_path(path), name)
      PROVE  IInv'
  BY <1>5, ResolvedInHeap, RemoveIInv
<1>6. ASSUME NEW path \in Name, sys_mkdir(path) PROVE IInv'
  BY <1>2, <1>6, CreateIInv DEF sys_mkdir
<1>7. ASSUME NEW path \in Name, sys_unlink(path) PROVE IInv'
  BY <1>2, <1>7, RemoveIInv DEF sys_unlink
<1>8. CASE UNCHANGED vars
  BY ZenonT(60), <1>8 DEF vars, IInv, TypeOK, Roots
<1> QED  BY <1>1, <1>3, <1>4, <1>5, <1>6, <1>7, <1>8 DEF Next

(***************************************************************************)
(* IInv is an invariant of the file system.                                *)
(***************************************************************************)
LEMMA InvariantIInv == Spec => []IInv
BY InitIInv, NextIInv, PTL DEF Spec

(***************************************************************************)
(* A set of nodes and their children.                                      *)
(***************************************************************************)
Deeper(X) == X \cup UNION {Children(d) : d \in X}

(***************************************************************************)
(* Reachable is the last of a growing sequence of sets of nodes.           *)
(***************************************************************************)
LEMMA Levels ==
    ASSUME IInv
    PROVE  \E lev \in [Nat -> SUBSET heap] :
              /\ lev[0] = Roots
              /\ \A k \in Nat : lev[k + 1] = Deeper(lev[k])
              /\ Reachable = lev[Cardinality(Node)]
<1> DEFINE level == CHOOSE level : level = [k \in Nat |->
                       IF k = 0 THEN Roots
                       ELSE LET above == level[k - 1]
                            IN  above \cup UNION {Children(d) : d \in above}]
           g == [k \in Nat |-> [X \in SUBSET heap |-> Deeper(X)]]
<1>1. Reachable = level[Cardinality(Node)]
  BY DEF Reachable
<1>2. Roots \in SUBSET heap /\ \A X \in SUBSET heap : Deeper(X) \in SUBSET heap
  BY ChildrenOf DEF IInv, Deeper
<1>3. g \in [Nat -> [SUBSET heap -> SUBSET heap]]
  BY <1>2
<1>4. \A k \in Nat : \A X \in SUBSET heap : g[k][X] = Deeper(X)
  OBVIOUS
<1> HIDE DEF g
<1>5. PICK f : Iterates(f, SUBSET heap, g, Roots)
  BY Zenon, <1>2, <1>3, IterationExists
<1>6. /\ f \in [Nat -> SUBSET heap] /\ f[0] = Roots
      /\ \A k \in Nat : f[k + 1] = Deeper(f[k])
  BY <1>4, <1>5 DEF Iterates
<1>7. f = [k \in Nat |-> IF k = 0 THEN Roots
                        ELSE LET above == f[k - 1]
                             IN  above \cup UNION {Children(d) : d \in above}]
  <2>1. ASSUME NEW k \in Nat, k # 0 PROVE f[k] = Deeper(f[k - 1])
    <3>1. k - 1 \in Nat /\ (k - 1) + 1 = k
      BY <2>1
    <3>2. f[(k - 1) + 1] = Deeper(f[k - 1])
      BY <1>6, <3>1
    <3> QED  BY <3>1, <3>2
  <2> QED  BY <1>6, <2>1 DEF Deeper
<1>8. level = [k \in Nat |-> IF k = 0 THEN Roots
                            ELSE LET above == level[k - 1]
                                 IN  above \cup UNION {Children(d) : d \in above}]
  BY Zenon, <1>7
<1> HIDE DEF level
<1>9. level[0] = Roots /\ \A k \in Nat : level[k + 1] = Deeper(level[k])
  <2>1. level[0] = Roots
    BY <1>8
  <2>2. ASSUME NEW k \in Nat PROVE level[k + 1] = Deeper(level[k])
    <3>1. k + 1 \in Nat /\ k + 1 # 0 /\ (k + 1) - 1 = k
      OBVIOUS
    <3> QED  BY <1>8, <3>1 DEF Deeper
  <2> QED  BY <2>1, <2>2
<1>10. level \in [Nat -> SUBSET heap]
  <2> DEFINE S == {k \in Nat : level[k] \in SUBSET heap}
  <2>1. 0 \in S
    BY <1>2, <1>9
  <2>2. ASSUME NEW k \in Nat, k \in S PROVE k + 1 \in S
    BY <1>2, <1>9, <2>2
  <2> HIDE DEF S
  <2>3. \A k \in Nat : k \in S
    BY <2>1, <2>2, Inductive
  <2>4. \A k \in Nat : level[k] \in SUBSET heap
    BY <2>3 DEF S
  <2>5. level = [k \in Nat |-> level[k]]
    BY <1>8
  <2> QED  BY <2>4, <2>5
<1> QED  BY <1>1, <1>9, <1>10

(***************************************************************************)
(* Reachable nodes are allocated; the roots are reachable, and so are the  *)
(* children of a reachable node. The sequence of sets stops growing before *)
(* it has as many members as there are blocks.                             *)
(***************************************************************************)
LEMMA ReachableClosed ==
    IInv => /\ Reachable \subseteq heap
            /\ Roots \subseteq Reachable
            /\ \A d \in Reachable : Children(d) \subseteq Reachable
<1> SUFFICES ASSUME IInv PROVE  /\ Reachable \subseteq heap
                                /\ Roots \subseteq Reachable
                                /\ \A d \in Reachable : Children(d) \subseteq Reachable
  OBVIOUS
<1>1. PICK lev \in [Nat -> SUBSET heap] :
              /\ lev[0] = Roots
              /\ \A k \in Nat : lev[k + 1] = Deeper(lev[k])
              /\ Reachable = lev[Cardinality(Node)]
  BY Levels
<1> DEFINE N == Cardinality(Node)
<1>2. N \in Nat /\ IsFiniteSet(Node) /\ heap \in SUBSET Node
  BY Zenon, Nodes DEF IInv, TypeOK
<1> HIDE DEF N
<1>3. \A k \in Nat : /\ lev[k] \in SUBSET Node /\ IsFiniteSet(lev[k])
                     /\ Cardinality(lev[k]) \in Nat
  BY SMTT(30), <1>1, <1>2, FS_Subset, FS_CardinalityType
<1>4. \A k \in Nat : lev[k] \subseteq lev[k + 1]
  BY <1>1 DEF Deeper
<1> DEFINE S == {k \in Nat : Cardinality(lev[k]) >= k \/ lev[k + 1] = lev[k]}
           U == {k \in Nat : Roots \subseteq lev[k]}
<1>5. 0 \in S
  BY <1>3
<1>6. ASSUME NEW k \in Nat, k \in S PROVE k + 1 \in S
  <2>1. CASE lev[k + 1] = lev[k]
    <3>1. k + 1 \in Nat /\ lev[k + 1] = Deeper(lev[k]) /\ lev[(k + 1) + 1] = Deeper(lev[k + 1])
      BY <1>1
    <3> QED  BY <2>1, <3>1
  <2>2. CASE lev[k + 1] # lev[k]
    <3>1. Cardinality(lev[k]) >= k
      BY <1>6, <2>2
    <3>2. k + 1 \in Nat
      OBVIOUS
    <3>3. Cardinality(lev[k]) < Cardinality(lev[k + 1])
      <4>1. PICK X, Y : X = lev[k] /\ Y = lev[k + 1]
        OBVIOUS
      <4>2. X \subseteq Y /\ X # Y /\ IsFiniteSet(Y)
        BY <1>3, <1>4, <2>2, <3>2, <4>1
      <4>3. Cardinality(X) <= Cardinality(Y) /\ (Cardinality(X) = Cardinality(Y) => X = Y)
        BY <4>2, FS_Subset, FS_CardinalityType
      <4> QED  BY <1>3, <3>2, <4>1, <4>2, <4>3
    <3> QED  BY <1>3, <3>1, <3>2, <3>3
  <2> QED  BY <2>1, <2>2
<1>7. N \in S
  <2> HIDE DEF S
  <2> QED  BY <1>2, <1>5, <1>6, Inductive
<1>8. lev[N + 1] = lev[N]
  <2>1. CASE Cardinality(lev[N]) >= N
    <3>1. PICK X : X = lev[N]
      OBVIOUS
    <3>2. X \subseteq Node /\ IsFiniteSet(X) /\ Cardinality(X) \in Nat
      BY <1>2, <1>3, <3>1
    <3>3. Cardinality(X) <= N /\ (Cardinality(X) = N => X = Node)
      BY <1>2, <3>2, FS_Subset, FS_CardinalityType DEF N
    <3>4. X = Node
      BY <1>2, <2>1, <3>1, <3>2, <3>3
    <3>5. N + 1 \in Nat
      BY <1>2
    <3>6. lev[N + 1] \subseteq Node /\ lev[N] \subseteq lev[N + 1]
      BY <1>2, <1>3, <1>4, <3>5
    <3> QED  BY <3>1, <3>4, <3>6
  <2> QED  BY <1>7, <2>1
<1>9. N \in U
  <2>1. 0 \in U
    BY <1>1
  <2>2. \A k \in Nat : k \in U => k + 1 \in U
    BY <1>4
  <2> HIDE DEF U
  <2> QED  BY <1>2, <2>1, <2>2, Inductive
<1>10. Reachable = lev[N] /\ lev[N + 1] = Deeper(lev[N]) /\ lev[N] \subseteq heap
  BY <1>1, <1>2 DEF N
<1> QED  BY <1>8, <1>9, <1>10 DEF Deeper

(***************************************************************************)
(* Reachable is the smallest such set.                                     *)
(***************************************************************************)
LEMMA ReachableLeast ==
    IInv => \A X : Roots \subseteq X /\ (\A d \in X : Children(d) \subseteq X)
                   => Reachable \subseteq X
<1> SUFFICES ASSUME IInv, NEW X, Roots \subseteq X, \A d \in X : Children(d) \subseteq X
             PROVE  Reachable \subseteq X
  OBVIOUS
<1>1. PICK lev \in [Nat -> SUBSET heap] :
              /\ lev[0] = Roots
              /\ \A k \in Nat : lev[k + 1] = Deeper(lev[k])
              /\ Reachable = lev[Cardinality(Node)]
  BY Levels
<1> DEFINE S == {k \in Nat : lev[k] \subseteq X}
<1>2. 0 \in S
  BY <1>1
<1>3. ASSUME NEW k \in Nat, k \in S PROVE k + 1 \in S
  BY <1>1, <1>3 DEF Deeper
<1> HIDE DEF S
<1>4. Cardinality(Node) \in S
  BY <1>2, <1>3, Nodes, Inductive
<1> QED  BY <1>1, <1>4 DEF S

(***************************************************************************)
(* A reachable node that is no root is a child of a reachable node.        *)
(***************************************************************************)
LEMMA ReachedFromParent ==
    ASSUME IInv, NEW n \in Reachable, n \notin Roots
    PROVE  \E d \in Reachable : n \in Children(d)
<1> SUFFICES ASSUME \A d \in Reachable : n \notin Children(d) PROVE FALSE
  OBVIOUS
<1> DEFINE X == Reachable \ {n}
<1>1. Roots \subseteq X /\ \A d \in X : Children(d) \subseteq X
  BY ReachableClosed
<1> HIDE DEF X
<1>2. Reachable \subseteq X
  BY SMTT(30), <1>1, ReachableLeast
<1> QED  BY <1>2 DEF X

(***************************************************************************)
(* The invariant implies TreeLinked.                                       *)
(***************************************************************************)
LEMMA IInvTreeLinked == IInv => TreeLinked
<1> SUFFICES ASSUME IInv PROVE TreeLinked
  OBVIOUS
<1>1. Reachable \subseteq heap
  BY ReachableClosed
<1>2. ASSUME NEW d \in Reachable
      PROVE  /\ ramfs_readdir(d, Cardinality(Node)) = NULL
             /\ \A c \in Children(d) : node[c].parent = d
  BY <1>1, ChildrenOf
<1>3. ASSUME NEW d \in Reachable PROVE d \in Roots <=> node[d].parent = NULL
  <2>1. CASE d \in Roots
    BY <2>1 DEF IInv
  <2>2. CASE d \notin Roots
    <3>1. PICK e \in Reachable : d \in Children(e)
      BY SMTT(30), <2>2, ReachedFromParent
    <3>2. node[d].parent = e
      BY SMTT(30), <1>1, <3>1, ChildrenOf
    <3> QED  BY Zenon, <1>1, <2>2, <3>1, <3>2, Nodes DEF IInv, TypeOK
  <2> QED  BY <2>1, <2>2
<1> QED  BY <1>1, <1>2, <1>3 DEF TreeLinked, IInv

(***************************************************************************)
(* The invariant implies UniqueNames.                                      *)
(***************************************************************************)
LEMMA IInvUniqueNames == IInv => UniqueNames
<1> SUFFICES ASSUME IInv, NEW d \in Reachable, NEW name \in Name,
                    Cardinality(Named(d, name)) > 1
             PROVE  \E long \in Name \ {name} : Stored[long] = name
  BY DEF UniqueNames
<1>1. d \in heap
  BY ReachableClosed
<1>2. PICK n \in Nat : \E q \in [1 .. n -> Node] : Family(heap, node, d, q, n)
  BY <1>1, FamilyOf
<1>3. PICK q \in [1 .. n -> Node] : Family(heap, node, d, q, n)
  BY SMTT(30), <1>2
<1>4. \A i : i \in Named(d, name) <=>
                    i + 1 \in 1 .. n /\ i \in Nat /\ node[q[i + 1]].name = name
  BY SMTT(30), <1>1, <1>3, FamilyList
<1>5. \E i, j \in Named(d, name) : i # j
  <2>1. PICK X : X = Named(d, name)
    OBVIOUS
  <2> SUFFICES ASSUME \A i, j \in X : i = j PROVE FALSE
    BY <2>1
  <2>2. CASE X = {}
    BY <2>1, <2>2, FS_EmptySet
  <2>3. CASE X # {}
    <3>1. PICK i \in X : TRUE
      BY <2>3
    <3>2. X = {i}
      BY <3>1
    <3>3. Cardinality(X) = 1
      BY SMTT(30), <3>2, FS_Singleton
    <3> QED  BY <2>1, <3>3
  <2> QED  BY <2>2, <2>3
<1>6. PICK i, j \in Named(d, name) : i # j
  BY <1>5
<1>7. /\ i \in Nat /\ j \in Nat /\ i + 1 \in 1 .. n /\ j + 1 \in 1 .. n /\ i + 1 # j + 1
      /\ node[q[i + 1]].name = name /\ node[q[j + 1]].name = name
  BY <1>4, <1>6
<1> QED  BY <1>3, <1>7 DEF Family

(***************************************************************************)
(* For every number of blocks, all names and paths, and every MAX_MOUNTS:  *)
(* the lists of children that ramfs.c walks end and hold only allocated    *)
(* nodes, each in the list of its parent and in no other, over every order *)
(* of mounts, creations and removals.                                      *)
(***************************************************************************)
THEOREM DirectoryTreeLinked == Spec => []TreeLinked
BY InvariantIInv, IInvTreeLinked, PTL

(***************************************************************************)
(* For the same: two children of a directory have the same name only if    *)
(* strncpy cuts a longer name to it.                                       *)
(***************************************************************************)
THEOREM SiblingsNamedApart == Spec => []UniqueNames
BY InvariantIInv, IInvUniqueNames, PTL

(***************************************************************************)
(* What is reachable stays so, but for one node that has no children, if   *)
(* roots and lists keep all other members.                                 *)
(***************************************************************************)
LEMMA StillReachable ==
    ASSUME IInv, IInv', NEW gone, Roots \subseteq Roots', heap \ {gone} \subseteq heap',
           gone \in heap => Children(gone) = {},
           \A d \in heap \ {gone} :
               \E X : Lists(heap', node', d, X) /\ Children(d) \ {gone} \subseteq X
    PROVE  Reachable \subseteq Reachable' \cup {gone}
<1>1. (IInv => /\ Reachable \subseteq heap
               /\ Roots \subseteq Reachable
               /\ \A d \in Reachable : Children(d) \subseteq Reachable)'
  BY ReachableClosed, PTL
<1>2. (IInv => \A d \in heap : /\ Lists(heap, node, d, Children(d))
                               /\ \A X : Lists(heap, node, d, X) => Children(d) = X)'
  BY ChildrenListed, PTL
<1>3. PICK R2 : R2 = Reachable'
  OBVIOUS
<1> DEFINE X == Reachable \cap (R2 \cup {gone})
<1>4. Roots \subseteq R2 /\ Roots \subseteq Reachable
  BY <1>1, <1>3, ReachableClosed
<1>5. ASSUME NEW d \in X PROVE Children(d) \subseteq X
  <2>1. d \in heap /\ Children(d) \subseteq Reachable
    BY ReachableClosed
  <2>2. CASE d = gone
    BY <2>1, <2>2
  <2>3. CASE d # gone
    <3>1. d \in heap' /\ d \in R2
      BY <2>1, <2>3
    <3>2. PICK Y : Lists(heap', node', d, Y) /\ Children(d) \ {gone} \subseteq Y
      BY <2>1, <2>3
    <3>3. Children(d)' = Y
      BY <1>2, <3>1, <3>2
    <3>4. Children(d)' \subseteq R2
      BY <1>1, <1>3, <3>1
    <3> QED  BY <2>1, <3>2, <3>3, <3>4
  <2> QED  BY <2>2, <2>3
<1>6. Reachable \subseteq X
  <2>1. Roots \subseteq X
    BY <1>4
  <2> HIDE DEF X
  <2> QED  BY <1>5, <2>1, ReachableLeast
<1> QED  BY <1>3, <1>6

(***************************************************************************)
(* vfs_resolve_path returns a reachable node or NULL.                      *)
(***************************************************************************)
LEMMA ResolvedReachable ==
    ASSUME IInv, NEW path \in Paths
    PROVE  vfs_resolve_path(path) \in Reachable \cup {NULL}
<1>1. path \in Seq(Component \cup {""})
  BY Zenon, FileSystemAssumption
<1>2. vfs_root \in Reachable \cup {NULL} /\ Reachable \in SUBSET heap
      /\ \A d \in Reachable : Children(d) \subseteq Reachable
  BY SMTT(30), ReachableClosed DEF IInv
<1> QED  BY ZenonT(60), <1>1, <1>2, ResolvedIn

(***************************************************************************)
(* The step that LostOnlyBelowUnlinked allows.                             *)
(***************************************************************************)
LostOnly ==
    \A n \in Lost' \ Lost :
        \/ n \notin heap /\ node'[n].name = "/" /\ result' = -1
        \/ \E d \in heap \ heap' : node[d].children # NULL

(***************************************************************************)
(* A call that fails loses nothing.                                        *)
(***************************************************************************)
LEMMA SameLost ==
    ASSUME IInv, IInv', UNCHANGED <<heap, node, vfs_root, mounts>>
    PROVE  LostOnly
<1>1. Roots' = Roots
  BY DEF Roots
<1>2. ASSUME NEW d \in heap PROVE Lists(heap', node', d, Children(d))
  BY ChildrenListed
<1>3. Reachable \subseteq Reachable' \cup {NULL}
  <2>1. NULL \notin heap
    BY Zenon, Nodes DEF IInv, TypeOK
  <2> QED  BY <1>1, <1>2, <2>1, StillReachable
<1>4. NULL \notin heap
  BY Zenon, Nodes DEF IInv, TypeOK
<1> QED  BY SMTT(30), <1>3, <1>4 DEF LostOnly, Lost

(***************************************************************************)
(* A node that is added to a reachable directory is reachable.             *)
(***************************************************************************)
LEMMA AddLost ==
    ASSUME IInv, NEW parent \in Reachable, NEW name \in Name, MayAdd(parent, name),
           NEW n \in Node \ heap, NEW fields \in Fields, fields.name = Stored[name],
           fields.children = NULL, AddChild(parent, n, fields)
    PROVE  LostOnly
<1>1. parent \in heap /\ heap' = heap \cup {n} /\ NULL \notin heap /\ NULL # n
  BY ZenonT(60), Nodes, ReachableClosed DEF AddChild, IInv, TypeOK
<1>2. /\ IInv' /\ Roots' = Roots
      /\ Lists(heap', node', parent, Children(parent) \cup {n})
      /\ \A d \in heap \ {parent} : Lists(heap', node', d, Children(d))
  BY SMTT(30), <1>1, AddIInv
<1>3. Reachable \subseteq Reachable' \cup {NULL}
  <2>1. ASSUME NEW d \in heap
        PROVE  \E X : Lists(heap', node', d, X) /\ Children(d) \ {NULL} \subseteq X
    BY SMTT(30), <1>2
  <2> QED  BY ZenonT(60), <1>1, <1>2, <2>1, StillReachable
<1>4. n \in Reachable'
  <2>1. (IInv => /\ Reachable \subseteq heap
                 /\ Roots \subseteq Reachable
                 /\ \A d \in Reachable : Children(d) \subseteq Reachable)'
    BY ReachableClosed, PTL
  <2>2. (IInv => \A d \in heap : /\ Lists(heap, node, d, Children(d))
                                 /\ \A X : Lists(heap, node, d, X) => Children(d) = X)'
    BY ChildrenListed, PTL
  <2>3. Children(parent)' = Children(parent) \cup {n}
    <3>1. PICK Y : Y = Children(parent) \cup {n}
      BY Zenon
    <3> QED  BY SMTT(30), <1>1, <1>2, <2>2, <3>1
  <2>4. parent \in Reachable'
    BY <1>1, <1>3
  <2> QED  BY <1>2, <2>1, <2>3, <2>4
<1> QED  BY <1>1, <1>3, <1>4 DEF LostOnly, Lost

(***************************************************************************)
(* vfs_create and vfs_mkdir lose nothing.                                  *)
(***************************************************************************)
LEMMA CreateLost ==
    ASSUME IInv, IInv', NEW parent \in Reachable \cup {NULL}, NEW name \in Name,
           \/ \E type \in {"FILE", "DIRECTORY"} : vfs_create(parent, name, type)
           \/ vfs_mkdir(parent, name)
    PROVE  LostOnly
<1>1. CASE Fails
  BY SMTT(30), <1>1, SameLost DEF Fails
<1>2. ASSUME NEW n \in Node \ heap, NEW fields \in Fields, MayAdd(parent, name),
             fields.name = Stored[name], fields.children = NULL, AddChild(parent, n, fields)
      PROVE  LostOnly
  <2>1. parent \in Reachable
    BY <1>2 DEF MayAdd
  <2> QED  BY SMTT(30), <1>2, <2>1, AddLost
<1>3. Stored[name] \in Name
  BY ZenonT(60), FileSystemAssumption
<1>4. ASSUME NEW type \in {"FILE", "DIRECTORY"}, vfs_create(parent, name, type), ~Fails
      PROVE  LostOnly
  <2>1. PICK n \in Node \ heap :
            MayAdd(parent, name) /\ AddChild(parent, n, ramfs_create_node(Stored[name], type))
    BY SMTT(30), <1>4 DEF vfs_create
  <2>2. PICK fields \in Fields : /\ fields = ramfs_create_node(Stored[name], type)
                                /\ fields.name = Stored[name] /\ fields.children = NULL
    BY SMTT(30), <1>3, NewFields
  <2> QED  BY SMTT(30), <1>2, <2>1, <2>2
<1>5. ASSUME vfs_mkdir(parent, name), ~Fails PROVE LostOnly
  <2>1. PICK n \in Node \ heap :
            MayAdd(parent, name) /\ AddChild(parent, n, Directory(Stored[name]))
    BY SMTT(30), <1>5 DEF vfs_mkdir
  <2>2. PICK fields \in Fields : /\ fields = Directory(Stored[name])
                                /\ fields.name = Stored[name] /\ fields.children = NULL
    BY <1>3, NewFields
  <2> QED  BY <1>2, <2>1, <2>2
<1> QED  BY <1>1, <1>4, <1>5

(***************************************************************************)
(* vfs_unlink loses nothing unless the node it frees has children.         *)
(***************************************************************************)
LEMMA RemoveLost ==
    ASSUME IInv, IInv', NEW parent \in heap \cup {NULL}, NEW name, vfs_unlink(parent, name)
    PROVE  LostOnly
<1>1. CASE Fails
  BY <1>1, SameLost DEF Fails
<1>2. CASE ~Fails
  <2>1. parent \in heap /\ Named(parent, name) # {}
    BY <1>2 DEF vfs_unlink
  <2>2. PICK child : child = ramfs_readdir(parent, Min(Named(parent, name)))
    OBVIOUS
  <2>3. /\ node' = [Unlinked(parent, Min(Named(parent, name))) EXCEPT ![child] = Zeroed]
        /\ heap' = heap \ {child} /\ result' = 0 /\ UNCHANGED <<vfs_root, mounts>>
    BY <1>2, <2>2 DEF vfs_unlink
  <2>4. /\ child \in Children(parent) /\ child # parent /\ Roots' = Roots
        /\ Lists(heap', node', parent, Children(parent) \ {child})
        /\ \A d \in heap \ {child, parent} : Lists(heap', node', d, Children(d))
    BY ZenonT(60), <2>1, <2>2, <2>3, UnlinkIInv
  <2>5. child \in heap
    BY Zenon, <2>1, <2>4, ChildrenOf
  <2>6. CASE node[child].children # NULL
    BY SMTT(30), <2>3, <2>5, <2>6 DEF LostOnly
  <2>7. CASE node[child].children = NULL
    <3>1. Children(child) = {}
      BY SMTT(30), <2>5, <2>7, EmptyFamily, ChildrenListed
    <3>2. ASSUME NEW d \in heap \ {child}
          PROVE  \E X : Lists(heap', node', d, X) /\ Children(d) \ {child} \subseteq X
      BY <2>4
    <3>3. Reachable \subseteq Reachable' \cup {child}
      BY ZenonT(60), <2>3, <2>4, <3>1, <3>2, StillReachable
    <3> QED  BY SMTT(30), <2>3, <3>3 DEF LostOnly, Lost
  <2> QED  BY <2>6, <2>7
<1> QED  BY <1>1, <1>2

(***************************************************************************)
(* A mount loses nothing, or fails and loses the root that ramfs_init      *)
(* made.                                                                   *)
(***************************************************************************)
LEMMA MountLost ==
    ASSUME IInv, NEW path \in Paths, NEW r \in Node \ heap, heap' = heap \cup {r},
           node' = [node EXCEPT ![r] = Directory("/")], vfs_mount(path, r)
    PROVE  LostOnly
<1>1. /\ IInv' /\ Roots \subseteq Roots' /\ (result' = -1 \/ r \in Roots')
      /\ \A d \in heap : Lists(heap', node', d, Children(d))
      /\ node'[r].name = "/"
  BY Zenon, MountIInv
<1>2. NULL \notin heap /\ NULL # r
  BY Zenon, Nodes DEF IInv, TypeOK
<1>3. Reachable \subseteq Reachable' \cup {NULL}
  BY Zenon, <1>1, <1>2, StillReachable
<1>4. result' = -1 \/ r \in Reachable'
  <2>1. (IInv => /\ Reachable \subseteq heap
                 /\ Roots \subseteq Reachable
                 /\ \A d \in Reachable : Children(d) \subseteq Reachable)'
    BY ReachableClosed, PTL
  <2> QED  BY <1>1, <2>1
<1> QED  BY <1>1, <1>2, <1>3, <1>4 DEF LostOnly, Lost

(***************************************************************************)
(* The same for every call.                                                *)
(***************************************************************************)
LEMMA NextLost == IInv /\ IInv' /\ [Next]_vars => LostOnly
<1> SUFFICES ASSUME IInv, IInv', [Next]_vars PROVE LostOnly
  OBVIOUS
<1>1. ASSUME NEW path \in Paths, MountRamfs(path) PROVE LostOnly
  <2>1. CASE Fails
    BY <2>1, SameLost DEF Fails
  <2>2. CASE \E r \in Node \ heap : /\ heap' = heap \cup {r}
                                     /\ node' = [node EXCEPT ![r] = Directory("/")]
                                     /\ vfs_mount(path, r)
    BY Zenon, <2>2, MountLost
  <2> QED  BY <1>1, <2>1, <2>2 DEF MountRamfs
<1>2. /\ Component \subseteq Name /\ vfs_root \in Reachable \cup {NULL}
      /\ Reachable \subseteq heap
  BY Zenon, FileSystemAssumption, ReachableClosed DEF IInv
<1>3. ASSUME NEW path \in Paths, NEW name \in Component, NEW type \in {"FILE", "DIRECTORY"},
             vfs_create(vfs_resolve_path(path), name, type)
      PROVE  LostOnly
  BY <1>2, <1>3, ResolvedReachable, CreateLost
<1>4. ASSUME NEW path \in Paths, NEW name \in Component, vfs_mkdir(vfs_resolve_path(path), name)
      PROVE  LostOnly
  BY <1>2, <1>4, ResolvedReachable, CreateLost
<1>5. ASSUME NEW path \in Paths, NEW name \in Component, vfs_unlink(vfs_resolve_path(path), name)
      PROVE  LostOnly
  BY <1>5, ResolvedInHeap, RemoveLost
<1>6. ASSUME NEW path \in Name, sys_mkdir(path) PROVE LostOnly
  BY <1>2, <1>6, CreateLost DEF sys_mkdir
<1>7. ASSUME NEW path \in Name, sys_unlink(path) PROVE LostOnly
  BY <1>2, <1>7, RemoveLost DEF sys_unlink
<1>8. CASE UNCHANGED vars
  BY <1>8, SameLost DEF vars
<1> QED  BY SMTT(30), <1>1, <1>3, <1>4, <1>5, <1>6, <1>7, <1>8 DEF Next

(***************************************************************************)
(* For every number of blocks, all names and paths, and every MAX_MOUNTS:  *)
(* an allocated node gets out of reach only when vfs_unlink frees a        *)
(* directory that still has children, or when a mount fails after          *)
(* ramfs_init.                                                             *)
(***************************************************************************)
THEOREM NodesLostBelowUnlinked == Spec => LostOnlyBelowUnlinked
<1>1. IInv /\ IInv' /\ [Next]_vars => [LostOnly]_vars
  BY NextLost
<1>2. Spec => [][LostOnly]_vars
  BY <1>1, InvariantIInv, PTL DEF Spec
<1> QED  BY <1>2 DEF LostOnly, LostOnlyBelowUnlinked

(***************************************************************************)
(* The walk upwards along the parent pointers.                             *)
(***************************************************************************)
LEMMA Upwards ==
    ASSUME IInv, NEW n \in Node
    PROVE  \E up \in [Nat -> Node \cup {NULL}] :
              /\ up[0] = n
              /\ \A k \in Nat : up[k + 1] = IF up[k] = NULL THEN NULL ELSE node[up[k]].parent
              /\ \A k \in Indices : Ancestor(n)[k] = up[k]
<1> DEFINE up == CHOOSE up : up = [i \in Nat |->
                    IF i = 0 THEN n
                    ELSE LET a == up[i - 1]
                         IN  IF a = NULL THEN NULL ELSE node[a].parent]
           T == Node \cup {NULL}
           Up(a) == IF a = NULL THEN NULL ELSE node[a].parent
           g == [k \in Nat |-> [a \in T |-> Up(a)]]
<1>1. \A k \in Indices : Ancestor(n)[k] = up[k]
  BY DEF Ancestor
<1>2. n \in T /\ \A a \in T : Up(a) \in T
  BY Zenon DEF IInv, TypeOK
<1>3. g \in [Nat -> [T -> T]] /\ \A k \in Nat : \A a \in T : g[k][a] = Up(a)
  BY <1>2
<1> HIDE DEF g, T
<1>4. PICK f : Iterates(f, T, g, n)
  BY <1>2, <1>3, IterationExists
<1>5. f \in [Nat -> T] /\ f[0] = n /\ \A k \in Nat : f[k + 1] = Up(f[k])
  BY <1>3, <1>4 DEF Iterates
<1>6. f = [i \in Nat |-> IF i = 0 THEN n
                        ELSE LET a == f[i - 1]
                             IN  IF a = NULL THEN NULL ELSE node[a].parent]
  <2>1. ASSUME NEW k \in Nat, k # 0 PROVE f[k] = Up(f[k - 1])
    <3>1. k - 1 \in Nat /\ (k - 1) + 1 = k
      BY <2>1
    <3>2. f[(k - 1) + 1] = Up(f[k - 1])
      BY SMTT(30), <1>5, <3>1
    <3> QED  BY <3>1, <3>2
  <2> QED  BY <1>5, <2>1
<1>7. up = [i \in Nat |-> IF i = 0 THEN n
                         ELSE LET a == up[i - 1]
                              IN  IF a = NULL THEN NULL ELSE node[a].parent]
  BY Zenon, <1>6
<1> HIDE DEF up
<1>8. up[0] = n /\ \A k \in Nat : up[k + 1] = Up(up[k])
  <2>1. up[0] = n
    BY <1>7
  <2>2. ASSUME NEW k \in Nat PROVE up[k + 1] = Up(up[k])
    <3>1. k + 1 \in Nat /\ k + 1 # 0 /\ (k + 1) - 1 = k
      OBVIOUS
    <3> QED  BY <1>7, <3>1
  <2> QED  BY <2>1, <2>2
<1>9. up \in [Nat -> T]
  <2> DEFINE S == {k \in Nat : up[k] \in T}
  <2>1. 0 \in S
    BY <1>2, <1>8
  <2>2. ASSUME NEW k \in Nat, k \in S PROVE k + 1 \in S
    BY <1>2, <1>8, <2>2
  <2> HIDE DEF S
  <2>3. \A k \in Nat : k \in S
    BY <2>1, <2>2, Inductive
  <2>4. \A k \in Nat : up[k] \in T
    BY <2>3 DEF S
  <2>5. up = [k \in Nat |-> up[k]]
    BY <1>7
  <2> QED  BY <2>4, <2>5
<1> QED  BY <1>1, <1>8, <1>9 DEF T

(***************************************************************************)
(* ramfs_finddir finds a child that shares its name with no other.         *)
(***************************************************************************)
LEMMA OnlyOneNamed ==
    ASSUME IInv, NEW d \in heap, NEW c \in Children(d),
           Cardinality(Named(d, node[c].name)) = 1
    PROVE  ramfs_finddir(d, node[c].name) = c
<1>1. PICK i \in Indices : ramfs_readdir(d, i) = c /\ c # NULL
  BY DEF Children
<1>2. PICK X : X = Named(d, node[c].name)
  OBVIOUS
<1>3. i \in X /\ X \in SUBSET Nat
  BY Zenon, <1>1, <1>2, ChildrenOf DEF Named
<1>4. IsFiniteSet(X)
  <2>1. IsFiniteSet(Indices)
    BY Nodes, FS_Interval DEF Indices
  <2>2. X \subseteq Indices
    BY <1>2 DEF Named
  <2> QED  BY <2>1, <2>2, FS_Subset
<1>5. PICK y : X = {y}
  BY ZenonT(60), <1>2, <1>4, FS_Singleton
<1>6. Min(X) = i
  BY SMTT(30), <1>3, <1>5, Least
<1> QED  BY <1>1, <1>2, <1>3, <1>6 DEF ramfs_finddir

(***************************************************************************)
(* The invariant implies ResolveFindsNode: the walk upwards from a node to *)
(* vfs_root stays in reachable nodes, and vfs_resolve_path takes the same  *)
(* way down.                                                               *)
(***************************************************************************)
LEMMA IInvResolveFindsNode == IInv => ResolveFindsNode
<1> SUFFICES ASSUME IInv, NEW n \in Reachable, vfs_root # NULL,
                    \E k \in Indices : Ancestor(n)[k] = vfs_root,
                    \A k \in Indices :
                        Ancestor(n)[k] \notin Roots \cup {NULL} =>
                            /\ node[Ancestor(n)[k]].name \in Component
                            /\ Cardinality(Named(node[Ancestor(n)[k]].parent,
                                                 node[Ancestor(n)[k]].name)) = 1
             PROVE  vfs_resolve_path(PathOf(n)) = n
  BY SMTT(30) DEF ResolveFindsNode
<1>1. n \in Node /\ Reachable \subseteq heap /\ heap \subseteq Node /\ NULL \notin Node
  BY Zenon, Nodes, ReachableClosed DEF IInv, TypeOK
<1>2. PICK up \in [Nat -> Node \cup {NULL}] :
              /\ up[0] = n
              /\ \A k \in Nat : up[k + 1] = IF up[k] = NULL THEN NULL ELSE node[up[k]].parent
              /\ \A k \in Indices : Ancestor(n)[k] = up[k]
  BY <1>1, Upwards
<1>3. PICK depth \in Indices : /\ depth = Min({k \in Indices : Ancestor(n)[k] = vfs_root})
                              /\ up[depth] = vfs_root
  <2>1. PICK X : X = {k \in Indices : Ancestor(n)[k] = vfs_root}
    BY Zenon
  <2>2. X \in SUBSET Nat /\ X # {}
    BY SMTT(30), <2>1, Nodes DEF Indices
  <2>3. Min(X) \in X
    BY SMTT(30), <2>2, Least
  <2> QED  BY Zenon, <1>2, <2>1, <2>3
<1>4. depth \in Nat /\ 0 .. depth \subseteq Indices
  BY SMTT(30), <1>3, Nodes DEF Indices
<1>5. \A k \in 0 .. depth : up[k] # NULL
  <2> DEFINE S == {j \in Nat : j <= depth => up[depth - j] # NULL}
  <2>1. 0 \in S
    BY SMTT(30), <1>3, <1>4
  <2>2. ASSUME NEW j \in Nat, j \in S PROVE j + 1 \in S
    <3>1. ASSUME j + 1 <= depth PROVE up[depth - (j + 1)] # NULL
      <4>1. depth - (j + 1) \in Nat /\ (depth - (j + 1)) + 1 = depth - j
        BY <1>4, <3>1
      <4>2. up[depth - j] # NULL
        BY SMTT(30), <1>4, <2>2, <3>1
      <4> QED  BY <1>2, <4>1, <4>2
    <3> QED  BY SMTT(30), <3>1
  <2> HIDE DEF S
  <2>3. \A j \in Nat : j \in S
    BY SMTT(30), <2>1, <2>2, Inductive
  <2>4. ASSUME NEW k \in 0 .. depth PROVE up[k] # NULL
    <3>1. depth - k \in Nat /\ depth - k <= depth /\ depth - (depth - k) = k
      BY <1>4
    <3>2. depth - k \in S
      BY SMTT(30), <2>3, <3>1
    <3> QED  BY SMTT(30), <3>1, <3>2 DEF S
  <2> QED  BY <2>4
<1>6. ASSUME NEW k \in Nat, k + 1 <= depth, up[k] \in Reachable
      PROVE  up[k] \notin Roots /\ up[k + 1] \in Reachable /\ up[k] \in Children(up[k + 1])
  <2>1. k \in 0 .. depth /\ k + 1 \in 0 .. depth
    BY SMTT(30), <1>4, <1>6
  <2>2. node[up[k]].parent = up[k + 1] /\ up[k + 1] # NULL
    BY SMTT(30), <1>2, <1>5, <2>1
  <2>3. up[k] \notin Roots
    BY SMTT(30), <2>2 DEF IInv
  <2>4. PICK d \in Reachable : up[k] \in Children(d)
    BY SMTT(30), <1>6, <2>3, ReachedFromParent
  <2>5. node[up[k]].parent = d
    BY <1>1, <2>4, ChildrenOf
  <2> QED  BY SMTT(30), <2>2, <2>3, <2>4, <2>5
<1>7. \A k \in 0 .. depth : up[k] \in Reachable
  <2> DEFINE S == {k \in Nat : k <= depth => up[k] \in Reachable}
  <2>1. 0 \in S
    BY SMTT(30), <1>2
  <2>2. ASSUME NEW k \in Nat, k \in S PROVE k + 1 \in S
    <3>1. ASSUME k + 1 <= depth PROVE up[k + 1] \in Reachable
      <4>1. up[k] \in Reachable
        BY SMTT(30), <1>4, <2>2, <3>1
      <4> QED  BY SMTT(30), <1>6, <3>1, <4>1
    <3> QED  BY <3>1
  <2> HIDE DEF S
  <2>3. \A k \in Nat : k \in S
    BY SMTT(30), <2>1, <2>2, Inductive
  <2> QED  BY SMTT(30), <1>4, <2>3 DEF S
<1>8. ASSUME NEW k \in Nat, k + 1 <= depth
      PROVE  /\ node[up[k]].name \in Component
             /\ ramfs_finddir(up[k + 1], node[up[k]].name) = up[k]
             /\ up[k + 1] # NULL
  <2>1. k \in 0 .. depth /\ k + 1 \in 0 .. depth /\ k \in Indices
    BY SMTT(30), <1>4, <1>8
  <2>2. up[k] \notin Roots /\ up[k + 1] \in Reachable /\ up[k] \in Children(up[k + 1])
    BY SMTT(30), <1>6, <1>7, <1>8, <2>1
  <2>3. up[k] # NULL /\ Ancestor(n)[k] = up[k]
    BY SMTT(30), <1>2, <1>5, <2>1
  <2>4. node[up[k]].parent = up[k + 1]
    BY SMTT(30), <1>1, <2>2, ChildrenOf
  <2>5. /\ node[up[k]].name \in Component
        /\ Cardinality(Named(up[k + 1], node[up[k]].name)) = 1
    BY SMTT(30), <2>1, <2>2, <2>3, <2>4
  <2>6. up[k + 1] \in heap
    BY SMTT(30), <1>1, <2>2
  <2> QED  BY SMTT(30), <1>1, <2>2, <2>5, <2>6, OnlyOneNamed
<1>9. PICK path : path = [i \in 1 .. depth |-> node[up[depth - i]].name]
  BY Zenon
<1>10. PathOf(n) = path
  <2>1. \A i \in 1 .. depth : depth - i \in Indices /\ Ancestor(n)[depth - i] = up[depth - i]
    BY SMTT(30), <1>2, <1>4
  <2> QED  BY SMTT(30), <1>3, <1>9, <2>1 DEF PathOf
<1>11. ASSUME NEW i \in 1 .. depth
       PROVE  /\ depth - i \in Nat /\ (depth - i) + 1 = depth - (i - 1)
              /\ path[i] = node[up[depth - i]].name /\ path[i] \in Component
  <2>1. depth - i \in Nat /\ (depth - i) + 1 = depth - (i - 1) /\ (depth - i) + 1 <= depth
    BY <1>4
  <2> QED  BY SMTT(30), <1>8, <1>9, <2>1
<1>12. path \in Seq(Component) /\ Len(path) = depth
  BY SMTT(30), <1>4, <1>9, <1>11
<1>13. PICK at : /\ at[0] = vfs_root
                 /\ \A i \in 1 .. Len(path) : at[i] = Enter(at[i - 1], path[i])
                 /\ vfs_resolve_path(path) = at[Len(path)]
  BY SMTT(30), <1>12, ResolveWalk
<1> DEFINE S == {i \in Nat : i <= depth => at[i] = up[depth - i]}
<1>14. 0 \in S
  BY SMTT(30), <1>3, <1>4, <1>13
<1>15. ASSUME NEW j \in Nat, j \in S PROVE j + 1 \in S
  <2>1. ASSUME j + 1 <= depth PROVE at[j + 1] = up[depth - (j + 1)]
    <3>1. PICK i \in 1 .. depth : i = j + 1 /\ j = i - 1
      BY SMTT(30), <1>4, <2>1
    <3>2. at[i] = Enter(at[i - 1], path[i])
      BY SMTT(30), <1>12, <1>13, <3>1
    <3>3. PICK k \in Nat : k = depth - i /\ k + 1 = depth - (i - 1) /\ k + 1 <= depth
      BY SMTT(30), <1>4, <1>11, <3>1
    <3>4. at[i - 1] = up[k + 1]
      BY SMTT(30), <1>4, <1>15, <3>1, <3>3
    <3>5. path[i] = node[up[k]].name
      BY SMTT(30), <1>11, <3>3
    <3>6. path[i] # ""
      BY ZenonT(60), <1>11, FileSystemAssumption
    <3>7. Enter(up[k + 1], path[i]) = up[k]
      BY Zenon, <1>8, <3>3, <3>5, <3>6 DEF Enter
    <3> QED  BY SMTT(30), <3>1, <3>2, <3>3, <3>4, <3>7
  <2> QED  BY SMTT(30), <2>1
<1>16. depth \in S
  <2> HIDE DEF S
  <2> QED  BY SMTT(30), <1>4, <1>14, <1>15, Inductive
<1>17. at[depth] = up[0]
  BY <1>4, <1>16
<1> QED  BY SMTT(30), <1>2, <1>10, <1>12, <1>13, <1>17

(***************************************************************************)
(* For every number of blocks, all names and paths, and every MAX_MOUNTS:  *)
(* vfs_resolve_path finds every node from the path that the parent         *)
(* pointers spell, unless a component holds a slash or belongs to two      *)
(* siblings.                                                               *)
(***************************************************************************)
THEOREM PathsFindNodes == Spec => []ResolveFindsNode
BY InvariantIInv, IInvResolveFindsNode, PTL
=============================================================================
