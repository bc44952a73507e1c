----------------------------- MODULE TextProofs -----------------------------
(***************************************************************************)
(* The string functions, for a memory of any size and contents: what they  *)
(* copy, how they compare, and the walk of vfs_resolve_path along a path.  *)
(***************************************************************************)
EXTENDS Console, FiniteSetTheorems, WellFoundedInduction, TLAPS

(***************************************************************************)
(* Sequences of the same length with the same elements are equal.          *)
(***************************************************************************)
LEMMA SameSequence ==
    ASSUME NEW S, NEW s \in Seq(S), NEW t \in Seq(S), Len(s) = Len(t),
           \A i \in 1 .. Len(s) : s[i] = t[i]
    PROVE  s = t
<1>1. s = [i \in 1 .. Len(s) |-> s[i]] /\ t = [i \in 1 .. Len(t) |-> t[i]]
  OBVIOUS
<1> QED  BY Zenon, <1>1

(***************************************************************************)
(* A set of numbers that is not empty has a smallest member.               *)
(***************************************************************************)
LEMMA SmallestMember ==
    ASSUME NEW T \in SUBSET Nat, T # {}
    PROVE  \E x \in T : \A y \in T : x <= y
<1>1. PICK x \in T : \A y \in T : ~(<<y, x>> \in OpToRel(<, Nat))
  BY ZenonT(60), NatLessThanWellFounded, WFMin
<1>2. \A y \in T : ~(y < x)
  BY ZenonT(60), <1>1 DEF OpToRel
<1> QED  BY <1>2

(***************************************************************************)
(* Induction: a set that contains 0 and, with every number, the next one   *)
(* contains all of them.                                                   *)
(***************************************************************************)
LEMMA Inductive ==
    ASSUME NEW S, 0 \in S, \A n \in Nat : n \in S => n + 1 \in S
    PROVE  \A n \in Nat : n \in S
<1> DEFINE T == {n \in Nat : n \notin S}
<1> SUFFICES ASSUME T # {} PROVE FALSE
  OBVIOUS
<1>1. PICK x \in T : \A y \in T : x <= y
  <2> HIDE DEF T
  <2>1. T \in SUBSET Nat
    BY DEF T
  <2> QED  BY <2>1, SmallestMember
<1>2. x # 0 /\ x - 1 \in Nat /\ x - 1 \notin T
  BY <1>1
<1> QED  BY <1>1, <1>2

(***************************************************************************)
(* Min of a set of numbers is its smallest member, and the only one.       *)
(***************************************************************************)
LEMMA Least ==
    ASSUME NEW s \in SUBSET Nat, s # {}
    PROVE  Min(s) \in s /\ \A y \in s : Min(s) <= y
<1>1. \E x \in s : \A y \in s : x <= y
  BY SmallestMember
<1> QED  BY Zenon, <1>1 DEF Min

(***************************************************************************)
(* The least member of a set is its Min.                                   *)
(***************************************************************************)
LEMMA LeastIs ==
    ASSUME NEW s \in SUBSET Nat, NEW x \in s, \A y \in s : x <= y
    PROVE  Min(s) = x
<1>1. Min(s) \in s /\ Min(s) <= x
  BY Least
<1>2. x <= Min(s)
  BY Zenon, <1>1
<1>3. x \in Nat /\ Min(s) \in Nat
  BY Zenon, <1>1
<1> QED  BY <1>1, <1>2, <1>3

-----------------------------------------------------------------------------
(***************************************************************************)
(* A loop that copies the byte at s[k] to d[k] in its round k, for n       *)
(* rounds: the memory after each of them.                                  *)
(***************************************************************************)
Copying(f, m, d, s, n) ==
    f = [k \in 0 .. n |-> IF k = 0 THEN m ELSE [f[k - 1] EXCEPT ![d[k]] = f[k - 1][s[k]]]]

(***************************************************************************)
(* It can go on for any number of rounds.                                  *)
(***************************************************************************)
LEMMA CopiedExists ==
    ASSUME NEW m, NEW d, NEW s
    PROVE  \A n \in Nat : \E f : Copying(f, m, d, s, n)
<1> DEFINE Good == {n \in Nat : \E f : Copying(f, m, d, s, n)}
<1>1. 0 \in Good
  <2> DEFINE f == [i \in 0 .. 0 |-> m]
  <2>1. Copying(f, m, d, s, 0)
    BY DEF Copying
  <2> HIDE DEF f
  <2> QED  BY <2>1
<1>2. ASSUME NEW n \in Nat, n \in Good PROVE n + 1 \in Good
  <2>1. PICK f : Copying(f, m, d, s, n)
    BY <1>2
  <2> DEFINE Round(h, k) == IF k = 0 THEN m ELSE [h[k - 1] EXCEPT ![d[k]] = h[k - 1][s[k]]]
             more == [k \in 0 .. n + 1 |-> IF k = n + 1 THEN Round(f, n + 1) ELSE f[k]]
  <2>2. ASSUME NEW k \in 0 .. n + 1 PROVE more[k] = Round(more, k)
    <3>1. CASE k = n + 1
      <4>1. more[k - 1] = f[k - 1] /\ more[k] = Round(f, k)
        BY <3>1
      <4> HIDE DEF more
      <4> QED  BY Zenon, <4>1
    <3>2. CASE k # n + 1
      <4>1. k \in 0 .. n /\ (k # 0 => k - 1 \in 0 .. n /\ k - 1 # n + 1)
        BY <3>2
      <4>2. f[k] = Round(f, k)
        BY Zenon, <2>1, <4>1 DEF Copying
      <4>3. more[k] = f[k] /\ (k # 0 => more[k - 1] = f[k - 1])
        BY <3>2, <4>1
      <4> HIDE DEF more
      <4> QED  BY Zenon, <4>2, <4>3
    <3> QED  BY <3>1, <3>2
  <2>3. Copying(more, m, d, s, n + 1)
    <3>1. more = [k \in 0 .. n + 1 |-> more[k]]
      OBVIOUS
    <3> HIDE DEF more
    <3> QED  BY Zenon, <2>2, <3>1 DEF Copying
  <2> HIDE DEF more
  <2> QED  BY <2>3
<1> HIDE DEF Good
<1>3. \A n \in Nat : n \in Good
  BY <1>1, <1>2, Inductive
<1> QED  BY <1>3 DEF Good

(***************************************************************************)
(* A value is a function.                                                  *)
(***************************************************************************)
IsFcn(f) == f = [a \in DOMAIN f |-> f[a]]

(***************************************************************************)
(* No round writes, or reads, what an earlier one has written.             *)
(***************************************************************************)
Unread(d, s, n) == \A j, k \in 1 .. n : j < k => d[j] # d[k] /\ d[j] # s[k]

(***************************************************************************)
(* If no round reads what an earlier one has written, every byte arrives   *)
(* as it was before the loop.                                              *)
(***************************************************************************)
LEMMA CopiedBytes ==
    ASSUME NEW m, NEW n \in Nat, NEW d \in [1 .. n -> DOMAIN m], NEW s \in [1 .. n -> DOMAIN m],
           Unread(d, s, n),
           NEW f, Copying(f, m, d, s, n)
    PROVE  /\ DOMAIN f[n] = DOMAIN m
           /\ \A k \in 1 .. n : f[n][d[k]] = m[s[k]]
           /\ \A a \in DOMAIN m : (\A k \in 1 .. n : a # d[k]) => f[n][a] = m[a]
           /\ IsFcn(m) => IsFcn(f[n])
<1> DEFINE Good == {i \in Nat : i <= n =>
                      /\ DOMAIN f[i] = DOMAIN m
                      /\ \A k \in 1 .. i : f[i][d[k]] = m[s[k]]
                      /\ \A a \in DOMAIN m : (\A k \in 1 .. i : a # d[k]) => f[i][a] = m[a]
                      /\ IsFcn(m) => IsFcn(f[i])}
<1>1. 0 \in Good
  <2>1. f[0] = m
    BY DEF Copying
  <2> QED  BY <2>1
<1>2. ASSUME NEW i \in Nat, i \in Good PROVE i + 1 \in Good
  <2> SUFFICES ASSUME i + 1 <= n
               PROVE  /\ DOMAIN f[i + 1] = DOMAIN m
                      /\ \A k \in 1 .. i + 1 : f[i + 1][d[k]] = m[s[k]]
                      /\ \A a \in DOMAIN m : (\A k \in 1 .. i + 1 : a # d[k]) => f[i + 1][a] = m[a]
                      /\ IsFcn(f[i + 1])
    OBVIOUS
  <2>1. PICK j \in 1 .. n : j = i + 1
    OBVIOUS
  <2>2. j - 1 = i /\ 1 .. i \subseteq 1 .. n /\ \A k \in 1 .. i : k < j
    BY <2>1
  <2>3. f[j] = [f[i] EXCEPT ![d[j]] = f[i][s[j]]]
    <3>1. j \in 0 .. n /\ j # 0
      OBVIOUS
    <3>2. f[j] = [f[j - 1] EXCEPT ![d[j]] = f[j - 1][s[j]]]
      BY Zenon, <3>1 DEF Copying
    <3> QED  BY Zenon, <2>2, <3>2
  <2>4. /\ DOMAIN f[i] = DOMAIN m
        /\ \A k \in 1 .. i : f[i][d[k]] = m[s[k]]
        /\ \A a \in DOMAIN m : (\A k \in 1 .. i : a # d[k]) => f[i][a] = m[a]
    BY <1>2, <2>1
  <2>5. d[j] \in DOMAIN m /\ s[j] \in DOMAIN m
    OBVIOUS
  <2>6. \A k \in 1 .. i : d[k] # d[j] /\ d[k] # s[j] /\ d[k] \in DOMAIN m
    BY <2>2 DEF Unread
  <2>7. f[i][s[j]] = m[s[j]]
    BY <2>4, <2>5, <2>6
  <2>8. DOMAIN f[j] = DOMAIN m /\ IsFcn(f[j])
    BY <2>3, <2>4 DEF IsFcn
  <2>9. \A a \in DOMAIN m : f[j][a] = IF a = d[j] THEN m[s[j]] ELSE f[i][a]
    BY <2>3, <2>4, <2>7
  <2>10. ASSUME NEW k \in 1 .. j PROVE f[j][d[k]] = m[s[k]]
    <3>1. CASE k = j
      BY <2>5, <2>9, <3>1
    <3>2. CASE k # j
      <4>1. k \in 1 .. i
        BY <2>1, <3>2
      <4> QED  BY <2>4, <2>6, <2>9, <4>1
    <3> QED  BY <3>1, <3>2
  <2>11. ASSUME NEW a \in DOMAIN m, \A k \in 1 .. j : a # d[k] PROVE f[j][a] = m[a]
    <3>1. a # d[j] /\ \A k \in 1 .. i : a # d[k]
      BY <2>1, <2>11
    <3> QED  BY <2>4, <2>9, <3>1
  <2> QED  BY <2>1, <2>8, <2>10, <2>11
<1> HIDE DEF Good
<1>3. \A i \in Nat : i \in Good
  BY <1>1, <1>2, Inductive
<1> QED  BY <1>3 DEF Good

(***************************************************************************)
(* What memcpy, and memmove, leave in memory.                              *)
(***************************************************************************)
Moves(after, m, dest, src, count) ==
    /\ DOMAIN after = DOMAIN m
    /\ \A a \in DOMAIN m :
          after[a] = IF a \in Area(dest, count) THEN m[a - dest + src] ELSE m[a]
    /\ IsFcn(m) => IsFcn(after)

(***************************************************************************)
(* Copying upwards is right when the areas do not overlap and when the     *)
(* destination is below the source.                                        *)
(***************************************************************************)
LEMMA CopyUpMoves ==
    ASSUME NEW m, DOMAIN m \subseteq Int, NEW dest \in Int, NEW src \in Int, NEW count \in Nat,
           Area(dest, count) \subseteq DOMAIN m, Area(src, count) \subseteq DOMAIN m,
           dest <= src \/ Area(dest, count) \cap Area(src, count) = {}
    PROVE  Moves(CopyUp(m, dest, src, count), m, dest, src, count)
<1> DEFINE d == [k \in 1 .. count |-> dest + k - 1]
           s == [k \in 1 .. count |-> src + k - 1]
           Body(f) == [k \in 0 .. count |->
                          IF k = 0 THEN m
                          ELSE [f[k - 1] EXCEPT ![dest + k - 1] = f[k - 1][src + k - 1]]]
           done == CHOOSE done : done = Body(done)
<1>1. CopyUp(m, dest, src, count) = done[count]
  BY DEF CopyUp
<1>2. ASSUME NEW f PROVE f = Body(f) <=> Copying(f, m, d, s, count)
  <2>1. \A k \in 0 .. count : k # 0 => d[k] = dest + k - 1 /\ s[k] = src + k - 1
    OBVIOUS
  <2> HIDE DEF d, s
  <2> QED  BY Zenon, <2>1 DEF Copying
<1>3. \E f : Copying(f, m, d, s, count)
  <2> HIDE DEF d, s
  <2> QED  BY CopiedExists
<1>4. Copying(done, m, d, s, count)
  <2>1. \E f : f = Body(f)
    <3> HIDE DEF Body, d, s
    <3> QED  BY Zenon, <1>2, <1>3
  <2>2. done = Body(done)
    <3> HIDE DEF Body
    <3> QED  BY Zenon, <2>1
  <2> HIDE DEF Body, done, d, s
  <2> QED  BY Zenon, <1>2, <2>2
<1> HIDE DEF Body, done
<1>5. d \in [1 .. count -> DOMAIN m] /\ s \in [1 .. count -> DOMAIN m]
  BY DEF Area
<1>6. ASSUME NEW j \in 1 .. count, NEW k \in 1 .. count, j < k
      PROVE  d[j] # d[k] /\ d[j] # s[k]
  <2>1. d[j] = dest + j - 1 /\ d[k] = dest + k - 1 /\ s[k] = src + k - 1
    OBVIOUS
  <2>2. d[j] \in Area(dest, count) /\ s[k] \in Area(src, count)
    BY <2>1 DEF Area
  <2>3. CASE dest <= src
    BY <1>6, <2>1, <2>3
  <2>4. CASE Area(dest, count) \cap Area(src, count) = {}
    BY <1>6, <2>1, <2>2, <2>4
  <2> QED  BY <2>3, <2>4
<1>7. \A k \in 1 .. count : d[k] = dest + k - 1 /\ s[k] = src + k - 1
  OBVIOUS
<1> HIDE DEF d, s
<1>8. /\ DOMAIN done[count] = DOMAIN m
      /\ \A k \in 1 .. count : done[count][d[k]] = m[s[k]]
      /\ \A a \in DOMAIN m : (\A k \in 1 .. count : a # d[k]) => done[count][a] = m[a]
      /\ IsFcn(m) => IsFcn(done[count])
  <2>1. Unread(d, s, count)
    BY Zenon, <1>6 DEF Unread
  <2> QED  BY Zenon, <1>4, <1>5, <2>1, CopiedBytes
<1>9. ASSUME NEW a \in DOMAIN m
      PROVE  done[count][a] = IF a \in Area(dest, count) THEN m[a - dest + src] ELSE m[a]
  <2>1. CASE a \in Area(dest, count)
    <3>1. PICK k \in 1 .. count : k = a - dest + 1
      BY <2>1 DEF Area
    <3>2. d[k] = a /\ s[k] = a - dest + src
      BY <1>7, <3>1
    <3> QED  BY <1>8, <2>1, <3>2
  <2>2. CASE a \notin Area(dest, count)
    <3>1. \A k \in 1 .. count : a # d[k]
      BY <1>7, <2>2 DEF Area
    <3> QED  BY <1>8, <2>2, <3>1
  <2> QED  BY <2>1, <2>2
<1> QED  BY <1>1, <1>8, <1>9 DEF Moves

(***************************************************************************)
(* Copying downwards is right when the destination is not below the        *)
(* source.                                                                 *)
(***************************************************************************)
LEMMA CopyDownMoves ==
    ASSUME NEW m, DOMAIN m \subseteq Int, NEW dest \in Int, NEW src \in Int, NEW count \in Nat,
           Area(dest, count) \subseteq DOMAIN m, Area(src, count) \subseteq DOMAIN m,
           src <= dest
    PROVE  Moves(CopyDown(m, dest, src, count), m, dest, src, count)
<1> DEFINE d == [k \in 1 .. count |-> dest + count - k]
           s == [k \in 1 .. count |-> src + count - k]
           Body(f) == [k \in 0 .. count |->
                          IF k = 0 THEN m
                          ELSE [f[k - 1] EXCEPT ![dest + count - k] = f[k - 1][src + count - k]]]
           done == CHOOSE done : done = Body(done)
<1>1. CopyDown(m, dest, src, count) = done[count]
  BY DEF CopyDown
<1>2. ASSUME NEW f PROVE f = Body(f) <=> Copying(f, m, d, s, count)
  <2>1. \A k \in 0 .. count : k # 0 => d[k] = dest + count - k /\ s[k] = src + count - k
    OBVIOUS
  <2> HIDE DEF d, s
  <2> QED  BY Zenon, <2>1 DEF Copying
<1>3. \E f : Copying(f, m, d, s, count)
  <2> HIDE DEF d, s
  <2> QED  BY CopiedExists
<1>4. Copying(done, m, d, s, count)
  <2>1. \E f : f = Body(f)
    <3> HIDE DEF Body, d, s
    <3> QED  BY Zenon, <1>2, <1>3
  <2>2. done = Body(done)
    <3> HIDE DEF Body
    <3> QED  BY Zenon, <2>1
  <2> HIDE DEF Body, done, d, s
  <2> QED  BY Zenon, <1>2, <2>2
<1> HIDE DEF Body, done
<1>5. d \in [1 .. count -> DOMAIN m] /\ s \in [1 .. count -> DOMAIN m]
  BY DEF Area
<1>6. ASSUME NEW j \in 1 .. count, NEW k \in 1 .. count, j < k
      PROVE  d[j] # d[k] /\ d[j] # s[k]
  BY <1>6
<1>7. \A k \in 1 .. count : d[k] = dest + count - k /\ s[k] = src + count - k
  OBVIOUS
<1> HIDE DEF d, s
<1>8. /\ DOMAIN done[count] = DOMAIN m
      /\ \A k \in 1 .. count : done[count][d[k]] = m[s[k]]
      /\ \A a \in DOMAIN m : (\A k \in 1 .. count : a # d[k]) => done[count][a] = m[a]
      /\ IsFcn(m) => IsFcn(done[count])
  <2>1. Unread(d, s, count)
    BY Zenon, <1>6 DEF Unread
  <2> QED  BY Zenon, <1>4, <1>5, <2>1, CopiedBytes
<1>9. ASSUME NEW a \in DOMAIN m
      PROVE  done[count][a] = IF a \in Area(dest, count) THEN m[a - dest + src] ELSE m[a]
  <2>1. CASE a \in Area(dest, count)
    <3>1. PICK k \in 1 .. count : k = dest + count - a
      BY <2>1 DEF Area
    <3>2. d[k] = a /\ s[k] = a - dest + src
      BY <1>7, <3>1
    <3> QED  BY <1>8, <2>1, <3>2
  <2>2. CASE a \notin Area(dest, count)
    <3>1. \A k \in 1 .. count : a # d[k]
      BY <1>7, <2>2 DEF Area
    <3> QED  BY <1>8, <2>2, <3>1
  <2> QED  BY <2>1, <2>2
<1> QED  BY <1>1, <1>8, <1>9 DEF Moves

(***************************************************************************)
(* memmove chooses the direction in which no byte is overwritten before it *)
(* is read.                                                                *)
(***************************************************************************)
LEMMA MemmoveMoves ==
    ASSUME NEW m, DOMAIN m \subseteq Int, NEW dest \in Int, NEW src \in Int, NEW count \in Nat,
           Area(dest, count) \subseteq DOMAIN m, Area(src, count) \subseteq DOMAIN m
    PROVE  Moves(memmove(m, dest, src, count), m, dest, src, count)
<1>1. CASE dest < src
  <2>1. Moves(CopyUp(m, dest, src, count), m, dest, src, count)
    BY <1>1, CopyUpMoves
  <2> QED  BY <1>1, <2>1 DEF memmove
<1>2. CASE ~(dest < src)
  <2>1. Moves(CopyDown(m, dest, src, count), m, dest, src, count)
    BY <1>2, CopyDownMoves
  <2> QED  BY <1>2, <2>1 DEF memmove
<1> QED  BY <1>1, <1>2

-----------------------------------------------------------------------------
(***************************************************************************)
(* The memory holds bytes, whatever is called.                             *)
(***************************************************************************)
MemoryOK == mem \in [Addr -> Byte]

(***************************************************************************)
(* Printing does not change the memory its strings are in.                 *)
(***************************************************************************)
LEMMA MemoryTyped == Spec => []MemoryOK
<1>1. Init => MemoryOK
  BY Zenon DEF Init, MemoryOK
<1>2. MemoryOK /\ [Next]_vars => MemoryOK'
  <2>1. [Next]_vars => mem' = mem
    BY Zenon DEF Next, vars, kprintf, vga_putchar
  <2> QED  BY Zenon, <2>1 DEF MemoryOK
<1> QED  BY <1>1, <1>2, PTL DEF Spec

-----------------------------------------------------------------------------

(***************************************************************************)
(* memmove is right however the areas overlap.                             *)
(***************************************************************************)
LEMMA MovesAlways == MemoryOK => MovesOverlap
<1> SUFFICES ASSUME mem \in [Addr -> Byte], NEW dest \in Addr, NEW src \in Addr,
                    NEW count \in 0 .. Cardinality(Addr), Fits(dest, count), Fits(src, count)
             PROVE  memmove(mem, dest, src, count) =
                        [a \in Addr |-> IF a \in Area(dest, count) THEN mem[a - dest + src]
                                        ELSE mem[a]]
  BY DEF MemoryOK, MovesOverlap
<1>1. Addr \subseteq Int /\ Cardinality(Addr) \in Nat
  BY MemoryAssumption, FS_CardinalityType
<1>2. DOMAIN mem = Addr /\ IsFcn(mem) /\ count \in Nat
  BY <1>1 DEF IsFcn
<1>3. Moves(memmove(mem, dest, src, count), mem, dest, src, count)
  BY Zenon, <1>1, <1>2, MemmoveMoves DEF Fits
<1> QED  BY <1>2, <1>3 DEF Moves, IsFcn

-----------------------------------------------------------------------------
(***************************************************************************)
(* The string at s has n characters.                                       *)
(***************************************************************************)
Block(D) == D \subseteq Nat /\ \A a, b \in D : a .. b \subseteq D

Ends(m, s, n) ==
    /\ DOMAIN m \subseteq Nat /\ s \in Nat /\ n \in Nat
    /\ \A k \in 0 .. n : s + k \in DOMAIN m
    /\ m[s + n] = NUL
    /\ \A k \in 0 .. n - 1 : m[s + k] # NUL

(***************************************************************************)
(* strlen is the distance to the first NUL.                                *)
(***************************************************************************)
LEMMA EndsStrlen ==
    ASSUME NEW m, NEW s, NEW n, Ends(m, s, n)
    PROVE  IsString(m, s) /\ strlen(m, s) = n
<1> DEFINE nuls == {a \in DOMAIN m : a >= s /\ m[a] = NUL}
<1>1. /\ DOMAIN m \subseteq Nat /\ s \in Nat /\ n \in Nat
      /\ \A k \in 0 .. n : s + k \in DOMAIN m
      /\ m[s + n] = NUL
      /\ \A k \in 0 .. n - 1 : m[s + k] # NUL
  BY DEF Ends
<1>2. s + n \in nuls /\ s + n \in Nat /\ nuls \in SUBSET Nat
  BY <1>1
<1>3. ASSUME NEW y \in nuls PROVE s + n <= y
  <2>1. y \in Nat /\ y >= s /\ m[y] = NUL
    BY <1>1
  <2>2. SUFFICES ASSUME y < s + n PROVE FALSE
    BY <1>1, <2>1
  <2>3. PICK k \in 0 .. n - 1 : y = s + k
    <3>1. y - s \in 0 .. n - 1 /\ y = s + (y - s)
      BY <1>1, <2>1, <2>2
    <3> QED  BY <3>1
  <2> QED  BY <1>1, <2>1, <2>3
<1>4. strlen(m, s) = Min(nuls) - s
  BY Zenon DEF strlen
<1>5. IsString(m, s)
  BY <1>2 DEF IsString
<1> HIDE DEF nuls
<1>6. Min(nuls) = s + n
  BY Zenon, <1>2, <1>3, LeastIs
<1> QED  BY <1>1, <1>4, <1>5, <1>6

(***************************************************************************)
(* A string in a block of memory ends strlen bytes behind its start.       *)
(***************************************************************************)
LEMMA StringEnds ==
    ASSUME NEW m, Block(DOMAIN m), NEW s \in DOMAIN m, IsString(m, s)
    PROVE  Ends(m, s, strlen(m, s))
<1> DEFINE nuls == {a \in DOMAIN m : a >= s /\ m[a] = NUL}
<1>1. DOMAIN m \subseteq Nat /\ \A a, b \in DOMAIN m : a .. b \subseteq DOMAIN m
  BY DEF Block
<1>2. nuls \in SUBSET Nat /\ nuls # {}
  BY <1>1 DEF IsString
<1>3. strlen(m, s) = Min(nuls) - s
  BY Zenon DEF strlen
<1>4. PICK e : e = Min(nuls)
  OBVIOUS
<1>5. e \in nuls /\ \A y \in nuls : e <= y
  <2> HIDE DEF nuls
  <2> QED  BY Zenon, <1>2, <1>4, Least
<1>6. e \in DOMAIN m /\ e >= s /\ m[e] = NUL
  BY <1>5
<1>7. PICK n \in Nat : n = e - s /\ e = s + n
  BY <1>1, <1>6
<1>8. ASSUME NEW k \in 0 .. n PROVE s + k \in DOMAIN m
  <2>1. s + k \in s .. e
    BY <1>1, <1>7
  <2> QED  BY <1>1, <1>6, <2>1
<1>9. ASSUME NEW k \in 0 .. n - 1 PROVE m[s + k] # NUL
  <2>1. s + k \in DOMAIN m /\ s + k >= s /\ ~(e <= s + k)
    BY <1>1, <1>7, <1>8
  <2> QED  BY <1>5, <2>1
<1>10. Ends(m, s, n)
  BY <1>1, <1>6, <1>7, <1>8, <1>9 DEF Ends
<1>11. strlen(m, s) = n
  BY Zenon, <1>3, <1>4, <1>7
<1> QED  BY <1>10, <1>11

(***************************************************************************)
(* The text of a string of n characters.                                   *)
(***************************************************************************)
IsText(t, m, s, n) ==
    t \in Seq(Nat) /\ Len(t) = n /\ \A k \in 1 .. n : t[k] = m[s + k - 1]

Bytes(m) == \A a \in DOMAIN m : m[a] \in Nat

(***************************************************************************)
(* Text is the sequence of the bytes before the NUL.                       *)
(***************************************************************************)
LEMMA EndsText ==
    ASSUME NEW m, NEW s, NEW n, Ends(m, s, n), Bytes(m)
    PROVE  IsText(Text(m, s), m, s, n)
<1>1. PICK t : t = [k \in 1 .. n |-> m[s + k - 1]]
  BY Zenon
<1>2. n \in Nat /\ s \in Nat /\ \A k \in 0 .. n : s + k \in DOMAIN m
  BY DEF Ends
<1>3. ASSUME NEW k \in 1 .. n PROVE m[s + k - 1] \in Nat
  <2>1. k - 1 \in 0 .. n /\ s + (k - 1) = s + k - 1
    BY <1>2
  <2> QED  BY <1>2, <2>1 DEF Bytes
<1>4. t \in Seq(Nat) /\ Len(t) = n /\ \A k \in 1 .. n : t[k] = m[s + k - 1]
  BY <1>1, <1>2, <1>3
<1>5. Text(m, s) = t
  BY Zenon, <1>1, EndsStrlen DEF Text
<1> QED  BY Zenon, <1>4, <1>5 DEF IsText

(***************************************************************************)
(* Two memories, or two places of one, agree on n bytes.                   *)
(***************************************************************************)
Same(p, r, m, s, n) == \A k \in 0 .. n - 1 : p[r + k] = m[s + k]

(***************************************************************************)
(* Strings with the same bytes are the same text.                          *)
(***************************************************************************)
LEMMA SameText ==
    ASSUME NEW t, NEW m, NEW s \in Int, NEW n \in Nat, IsText(t, m, s, n),
           NEW u, NEW p, NEW r \in Int, IsText(u, p, r, n),
           Same(p, r, m, s, n)
    PROVE  u = t
<1>1. /\ t \in Seq(Nat) /\ Len(t) = n /\ u \in Seq(Nat) /\ Len(u) = n
      /\ \A k \in 1 .. n : t[k] = m[s + k - 1] /\ u[k] = p[r + k - 1]
  BY Zenon DEF IsText
<1>2. ASSUME NEW k \in 1 .. n PROVE u[k] = t[k]
  <2>1. k - 1 \in 0 .. n - 1 /\ r + (k - 1) = r + k - 1 /\ s + (k - 1) = s + k - 1
    OBVIOUS
  <2>2. p[r + (k - 1)] = m[s + (k - 1)]
    BY Zenon, <2>1 DEF Same
  <2> QED  BY Zenon, <1>1, <2>1, <2>2
<1> QED  BY Zenon, <1>1, <1>2, SameSequence

(***************************************************************************)
(* What is known of mem, and of a copy upwards of a string of it.          *)
(***************************************************************************)
Memory(m) == Block(DOMAIN m) /\ Bytes(m) /\ DOMAIN m \subseteq Int

(***************************************************************************)
(* The memory of Console is a block of bytes.                              *)
(***************************************************************************)
LEMMA MemIsMemory == MemoryOK => Memory(mem) /\ DOMAIN mem = Addr
<1> SUFFICES ASSUME MemoryOK PROVE Memory(mem) /\ DOMAIN mem = Addr
  OBVIOUS
<1>1. mem \in [Addr -> Byte] /\ Byte \subseteq Nat
  BY MemoryAssumption DEF MemoryOK
<1>2. DOMAIN mem = Addr
  BY <1>1
<1>3. Bytes(mem)
  BY Zenon, <1>1 DEF Bytes
<1>4. Block(Addr) /\ Addr \subseteq Int
  BY MemoryAssumption DEF Block
<1> QED  BY Zenon, <1>2, <1>3, <1>4 DEF Memory

(***************************************************************************)
(* Moving bytes in a memory leaves a memory.                               *)
(***************************************************************************)
LEMMA MovesMemory ==
    ASSUME NEW m, Memory(m), NEW dest \in Int, NEW src \in Int, NEW n \in Nat,
           Area(src, n) \subseteq DOMAIN m,
           NEW after, Moves(after, m, dest, src, n)
    PROVE  Memory(after) /\ DOMAIN after = DOMAIN m
<1>1. /\ DOMAIN after = DOMAIN m /\ DOMAIN m \subseteq Int
      /\ \A a \in DOMAIN m :
            after[a] = IF a \in Area(dest, n) THEN m[a - dest + src] ELSE m[a]
  BY DEF Moves, Memory
<1>2. ASSUME NEW a \in DOMAIN m PROVE after[a] \in Nat
  <2>1. CASE a \in Area(dest, n)
    <3>1. a - dest + src \in Area(src, n)
      BY <1>1, <2>1 DEF Area
    <3> QED  BY <1>1, <2>1, <3>1 DEF Memory, Bytes
  <2>2. CASE a \notin Area(dest, n)
    BY <1>1, <2>2 DEF Memory, Bytes
  <2> QED  BY <2>1, <2>2
<1>3. Bytes(after)
  BY Zenon, <1>1, <1>2 DEF Bytes
<1> QED  BY Zenon, <1>1, <1>3 DEF Memory

(***************************************************************************)
(* The first n bytes at dest are those of the string at src.               *)
(***************************************************************************)
LEMMA MovedBytes ==
    ASSUME NEW m, NEW dest \in Int, NEW src \in Int, NEW n \in Nat,
           Area(dest, n) \subseteq DOMAIN m,
           NEW after, Moves(after, m, dest, src, n)
    PROVE  Same(after, dest, m, src, n)
<1> SUFFICES \A k \in 0 .. n - 1 : after[dest + k] = m[src + k]
  BY Zenon DEF Same
<1> TAKE k \in 0 .. n - 1
<1>1. dest + k \in Area(dest, n) /\ (dest + k) - dest + src = src + k
  BY DEF Area
<1>2. dest + k \in DOMAIN m
  BY <1>1
<1>3. after[dest + k] = m[(dest + k) - dest + src]
  BY Zenon, <1>1, <1>2 DEF Moves
<1> QED  BY Zenon, <1>1, <1>3

(***************************************************************************)
(* strcpy moves the string with its NUL, so that the copy is the same      *)
(* text.                                                                   *)
(***************************************************************************)
LEMMA StrcpyCopies ==
    ASSUME NEW m, Memory(m), NEW dest \in DOMAIN m, NEW src \in DOMAIN m, NEW len, Ends(m, src, len),
           Area(dest, len + 1) \subseteq DOMAIN m,
           Area(dest, len + 1) \cap Area(src, len + 1) = {}
    PROVE  /\ Moves(strcpy(m, dest, src), m, dest, src, len + 1)
           /\ Memory(strcpy(m, dest, src))
           /\ Ends(strcpy(m, dest, src), dest, len)
           /\ Text(strcpy(m, dest, src), dest) = Text(m, src)
<1>0. /\ DOMAIN m \subseteq Nat /\ DOMAIN m \subseteq Int
      /\ dest \in Nat /\ src \in Nat /\ dest \in Int /\ src \in Int
      /\ len \in Nat /\ len + 1 \in Nat
  BY DEF Memory, Ends
<1>1. strlen(m, src) = len
  BY Zenon, EndsStrlen
<1>2. PICK after : after = CopyUp(m, dest, src, len + 1)
  OBVIOUS
<1>3. strcpy(m, dest, src) = after
  BY Zenon, <1>1, <1>2 DEF strcpy
<1>4. Area(src, len + 1) \subseteq DOMAIN m
  <2>1. ASSUME NEW a \in Area(src, len + 1) PROVE a \in DOMAIN m
    <3>1. a - src \in 0 .. len /\ src + (a - src) = a
      BY <1>0 DEF Area
    <3> QED  BY <3>1 DEF Ends
  <2> QED  BY <2>1
<1>5. Moves(after, m, dest, src, len + 1)
  BY <1>0, <1>2, <1>4, CopyUpMoves
<1>6. Memory(after) /\ DOMAIN after = DOMAIN m
  <2>1. PICK n \in Nat : n = len + 1
    BY <1>0
  <2>2. dest \in Int /\ src \in Int
    BY Zenon, <1>0
  <2>3. Area(src, n) \subseteq DOMAIN m /\ Moves(after, m, dest, src, n)
    BY Zenon, <1>4, <1>5, <2>1
  <2> QED  BY ZenonT(60), <2>2, <2>3, MovesMemory
<1>7. \A k \in 0 .. len : after[dest + k] = m[src + k]
  <2>1. Same(after, dest, m, src, len + 1)
    BY Zenon, <1>0, <1>5, MovedBytes
  <2> QED  BY <1>0, <2>1 DEF Same
<1>8. Ends(after, dest, len)
  <2>1. \A k \in 0 .. len : dest + k \in DOMAIN after
    BY <1>0, <1>6 DEF Area
  <2>2. m[src + len] = NUL /\ \A k \in 0 .. len - 1 : m[src + k] # NUL
    BY DEF Ends
  <2>3. after[dest + len] = NUL
    BY <1>0, <1>7, <2>2
  <2>4. \A k \in 0 .. len - 1 : after[dest + k] # NUL
    BY <1>0, <1>7, <2>2
  <2> QED  BY Zenon, <1>0, <1>6, <2>1, <2>3, <2>4 DEF Ends
<1>9. IsText(Text(m, src), m, src, len) /\ IsText(Text(after, dest), after, dest, len)
  BY Zenon, <1>6, <1>8, EndsText DEF Memory
<1>10. Same(after, dest, m, src, len)
  BY <1>0, <1>7 DEF Same
<1>11. Text(after, dest) = Text(m, src)
  BY Zenon, <1>0, <1>9, <1>10, SameText
<1> QED  BY Zenon, <1>3, <1>5, <1>6, <1>8, <1>11

(***************************************************************************)
(* The elements of two sequences joined.                                   *)
(***************************************************************************)
LEMMA Joined ==
    ASSUME NEW u \in Seq(Nat), NEW v \in Seq(Nat), NEW k \in 1 .. Len(u) + Len(v)
    PROVE  (u \o v)[k] = IF k <= Len(u) THEN u[k] ELSE v[k - Len(u)]
OBVIOUS

(***************************************************************************)
(* The length of two texts one behind the other.                           *)
(***************************************************************************)
LEMMA JoinedLength ==
    ASSUME NEW u \in Seq(Nat), NEW v \in Seq(Nat)
    PROVE  u \o v \in Seq(Nat) /\ Len(u \o v) = Len(u) + Len(v)
OBVIOUS

(***************************************************************************)
(* strcat appends.                                                         *)
(***************************************************************************)
LEMMA StrcatAppends ==
    ASSUME NEW m, Memory(m), NEW dest \in DOMAIN m, NEW src \in DOMAIN m,
           NEW head, Ends(m, dest, head), NEW len, Ends(m, src, len),
           Area(dest + head, len + 1) \subseteq DOMAIN m,
           Area(dest, head + len + 1) \cap Area(src, len + 1) = {}
    PROVE  Text(strcat(m, dest, src), dest) = Text(m, dest) \o Text(m, src)
<1>0. /\ DOMAIN m \subseteq Nat /\ dest \in Nat /\ src \in Nat /\ head \in Nat /\ len \in Nat
      /\ dest \in Int /\ src \in Int
  BY DEF Memory, Ends
<1>1. PICK end \in Nat : end = dest + head
  BY <1>0
<1>2. end \in DOMAIN m
  BY <1>0, <1>1 DEF Ends
<1>3. Area(end, len + 1) \subseteq DOMAIN m
  BY Zenon, <1>1
<1>4. Area(end, len + 1) \cap Area(src, len + 1) = {}
  <2>1. \A a \in Area(end, len + 1) : a \in Area(dest, head + len + 1)
    BY <1>0, <1>1 DEF Area
  <2> QED  BY Zenon, <2>1
<1>5. PICK after : after = strcpy(m, end, src)
  OBVIOUS
<1>6. /\ Moves(after, m, end, src, len + 1) /\ Memory(after)
      /\ Ends(after, end, len) /\ Text(after, end) = Text(m, src)
  BY Zenon, <1>2, <1>3, <1>4, <1>5, StrcpyCopies
<1>7. strcat(m, dest, src) = after
  <2>1. strlen(m, dest) = head
    BY Zenon, EndsStrlen
  <2> QED  BY Zenon, <1>1, <1>5, <2>1 DEF strcat
<1>8. DOMAIN after = DOMAIN m
  BY Zenon, <1>6 DEF Moves
<1>9. ASSUME NEW k \in 0 .. head - 1
      PROVE  after[dest + k] = m[dest + k] /\ dest + k \in DOMAIN m /\ m[dest + k] # NUL
  <2>1. dest + k \in DOMAIN m /\ m[dest + k] # NUL
    BY <1>0 DEF Ends
  <2>2. dest + k \notin Area(end, len + 1)
    BY <1>0, <1>1 DEF Area
  <2> QED  BY Zenon, <1>6, <2>1, <2>2 DEF Moves
<1>10. PICK n \in Nat : n = head + len
  BY <1>0
<1>11. ASSUME NEW k \in 0 .. n, k >= head
       PROVE  dest + k \in DOMAIN after /\ dest + k = end + (k - head)
  <2>1. k - head \in 0 .. len /\ dest + k = end + (k - head)
    BY <1>0, <1>1, <1>10, <1>11
  <2> QED  BY Zenon, <1>6, <2>1 DEF Ends
<1>12. Ends(after, dest, n)
  <2>1. \A k \in 0 .. n : dest + k \in DOMAIN after
    <3> TAKE k \in 0 .. n
    <3>1. k >= head \/ k \in 0 .. head - 1
      BY <1>0
    <3> QED  BY Zenon, <1>8, <1>9, <1>11, <3>1
  <2>2. after[dest + n] = NUL
    <3>1. n \in 0 .. n /\ n >= head /\ n - head = len
      BY <1>0, <1>10
    <3> QED  BY Zenon, <1>6, <1>11, <3>1 DEF Ends
  <2>3. ASSUME NEW k \in 0 .. n - 1 PROVE after[dest + k] # NUL
    <3>1. CASE k < head
      BY <1>0, <1>9, <3>1
    <3>2. CASE ~(k < head)
      <4>1. k \in 0 .. n /\ k >= head /\ k - head \in 0 .. len - 1
        BY <1>0, <1>10, <3>2
      <4>2. after[end + (k - head)] # NUL
        BY Zenon, <1>6, <4>1 DEF Ends
      <4> QED  BY Zenon, <1>11, <4>1, <4>2
    <3> QED  BY <3>1, <3>2
  <2> QED  BY Zenon, <1>0, <1>8, <2>1, <2>2, <2>3 DEF Ends
<1>13. PICK t : t = Text(after, dest)
  OBVIOUS
<1>14. PICK u : u = Text(m, dest)
  OBVIOUS
<1>15. PICK v : v = Text(m, src)
  OBVIOUS
<1>16. IsText(t, after, dest, n) /\ IsText(u, m, dest, head) /\ IsText(v, after, end, len)
  BY Zenon, <1>6, <1>12, <1>13, <1>14, <1>15, EndsText DEF Memory
<1>17. /\ t \in Seq(Nat) /\ Len(t) = n /\ \A k \in 1 .. n : t[k] = after[dest + k - 1]
       /\ u \in Seq(Nat) /\ Len(u) = head /\ \A k \in 1 .. head : u[k] = m[dest + k - 1]
       /\ v \in Seq(Nat) /\ Len(v) = len /\ \A k \in 1 .. len : v[k] = after[end + k - 1]
  BY Zenon, <1>16 DEF IsText
<1>18. PICK w : w = u \o v
  BY Zenon
<1>19a. u \in Seq(Nat) /\ Len(u) = head /\ v \in Seq(Nat) /\ Len(v) = len
  BY Zenon, <1>17
<1>19. w \in Seq(Nat) /\ Len(w) = n
  <2>1. n = Len(u) + Len(v)
    BY <1>10, <1>19a
  <2> QED  BY Zenon, <1>18, <1>19a, <2>1, JoinedLength
<1>20. ASSUME NEW k \in 1 .. n PROVE t[k] = w[k]
  <2>1. CASE k <= head
    <3>1. w[k] = u[k]
      <4>1. k \in 1 .. Len(u) + Len(v) /\ k <= Len(u)
        BY <1>0, <1>10, <1>19a, <2>1
      <4> QED  BY Zenon, <1>18, <1>19a, <4>1, Joined
    <3>2. k \in 1 .. head /\ k - 1 \in 0 .. head - 1 /\ dest + (k - 1) = dest + k - 1
      BY <1>0, <2>1
    <3>3. after[dest + k - 1] = m[dest + k - 1]
      BY Zenon, <1>9, <3>2
    <3> QED  BY Zenon, <1>17, <3>1, <3>2, <3>3
  <2>2. CASE ~(k <= head)
    <3>1. PICK j \in 1 .. len : j = k - head
      BY <1>0, <1>10, <2>2
    <3>2. w[k] = v[j]
      <4>1. k \in 1 .. Len(u) + Len(v) /\ ~(k <= Len(u)) /\ k - Len(u) = j
        BY <1>0, <1>10, <1>19a, <2>2, <3>1
      <4> QED  BY Zenon, <1>18, <1>19a, <4>1, Joined
    <3>3. dest + k - 1 = end + j - 1
      BY <1>0, <1>1, <3>1
    <3> QED  BY Zenon, <1>17, <3>2, <3>3
  <2> QED  BY <2>1, <2>2
<1>21. t = w
  BY Zenon, <1>17, <1>19, <1>20, SameSequence
<1> QED  BY Zenon, <1>7, <1>13, <1>14, <1>15, <1>18, <1>21

(***************************************************************************)
(* strcpy and strcat are exact in every memory.                            *)
(***************************************************************************)
LEMMA CopiesAlways == MemoryOK => CopiesText
<1> SUFFICES ASSUME MemoryOK, NEW dest \in Addr, NEW src \in StringsAt
             PROVE  LET n == strlen(mem, src) + 1
                    IN  /\ Fits(dest, n) /\ Apart(dest, n, src, n) =>
                              LET after == strcpy(mem, dest, src)
                              IN  /\ IsString(after, dest)
                                  /\ Text(after, dest) = Text(mem, src)
                                  /\ \A a \in Addr \ Area(dest, n) : after[a] = mem[a]
                        /\ dest \in StringsAt =>
                              LET end == dest + strlen(mem, dest)
                              IN  Fits(end, n) /\ Apart(dest, end + n - dest, src, n) =>
                                      Text(strcat(mem, dest, src), dest)
                                          = Text(mem, dest) \o Text(mem, src)
  BY Zenon DEF CopiesText
<1>1. Memory(mem) /\ DOMAIN mem = Addr /\ Addr \subseteq Nat
  BY MemIsMemory, MemoryAssumption
<1>2. src \in Addr /\ IsString(mem, src)
  BY DEF StringsAt
<1>3. PICK len : len = strlen(mem, src)
  OBVIOUS
<1>4. Ends(mem, src, len)
  BY Zenon, <1>1, <1>2, <1>3, StringEnds DEF Memory
<1>5. ASSUME Fits(dest, len + 1), Apart(dest, len + 1, src, len + 1),
             NEW after, after = strcpy(mem, dest, src)
      PROVE  /\ IsString(after, dest)
             /\ Text(after, dest) = Text(mem, src)
             /\ \A a \in Addr \ Area(dest, len + 1) : after[a] = mem[a]
  <2>1. /\ Moves(after, mem, dest, src, len + 1) /\ Ends(after, dest, len)
        /\ Text(after, dest) = Text(mem, src)
    BY Zenon, <1>1, <1>2, <1>4, <1>5, StrcpyCopies DEF Fits, Apart
  <2>2. IsString(after, dest)
    BY Zenon, <2>1, EndsStrlen
  <2>3. \A a \in Addr \ Area(dest, len + 1) : after[a] = mem[a]
    BY Zenon, <1>1, <2>1 DEF Moves
  <2> QED  BY Zenon, <2>1, <2>2, <2>3
<1>6. ASSUME dest \in StringsAt, NEW end, end = dest + strlen(mem, dest),
             Fits(end, len + 1), Apart(dest, end + (len + 1) - dest, src, len + 1)
      PROVE  Text(strcat(mem, dest, src), dest) = Text(mem, dest) \o Text(mem, src)
  <2>1. PICK head : head = strlen(mem, dest)
    OBVIOUS
  <2>2. Ends(mem, dest, head)
    <3>1. IsString(mem, dest)
      BY <1>6 DEF StringsAt
    <3> QED  BY Zenon, <1>1, <2>1, <3>1, StringEnds DEF Memory
  <2>3. end + (len + 1) - dest = head + len + 1
    <3>1. dest \in Nat /\ head \in Nat /\ len \in Nat /\ end = dest + head
      BY <1>1, <1>4, <1>6, <2>1, <2>2 DEF Ends
    <3> QED  BY <3>1
  <2> QED  BY Zenon, <1>1, <1>2, <1>4, <1>6, <2>1, <2>2, <2>3, StrcatAppends DEF Fits, Apart
<1> QED  BY Zenon, <1>3, <1>5, <1>6

(***************************************************************************)
(* The first n characters of a text.                                       *)
(***************************************************************************)
LEMMA FirstOf ==
    ASSUME NEW t \in Seq(Nat), NEW n \in Nat, NEW k \in Nat,
           k = IF n <= Len(t) THEN n ELSE Len(t)
    PROVE  /\ First(n, t) \in Seq(Nat) /\ Len(First(n, t)) = k
           /\ \A i \in 1 .. k : First(n, t)[i] = t[i]
<1>1. Len(t) \in Nat /\ {n, Len(t)} \in SUBSET Nat /\ k \in {n, Len(t)}
      /\ \A y \in {n, Len(t)} : k <= y
  OBVIOUS
<1>2. Min({n, Len(t)}) = k
  BY Zenon, <1>1, LeastIs
<1>3. PICK f : f = SubSeq(t, 1, k)
  BY Zenon
<1>4. f \in Seq(Nat) /\ Len(f) = k /\ \A i \in 1 .. k : f[i] = t[i]
  BY <1>3
<1>5. First(n, t) = f
  BY Zenon, <1>2, <1>3 DEF First
<1> QED  BY Zenon, <1>4, <1>5

(***************************************************************************)
(* strncpy, cut.                                                           *)
(***************************************************************************)
LEMMA StrncpyCuts ==
    ASSUME NEW m, Memory(m), NEW dest \in DOMAIN m, NEW src \in DOMAIN m,
           NEW len, Ends(m, src, len), NEW n \in Nat, n <= len,
           Area(dest, n + 1) \subseteq DOMAIN m,
           Area(dest, n + 1) \cap Area(src, len + 1) = {},
           NEW after, after = strncpy(m, dest, src, n)
    PROVE  /\ \A a \in DOMAIN m \ Area(dest, n + 1) : after[a] = m[a]
           /\ m[dest + n] = NUL => Text(after, dest) = First(n, Text(m, src))
<1>0. /\ DOMAIN m \subseteq Nat /\ DOMAIN m \subseteq Int /\ dest \in Nat /\ src \in Nat
      /\ dest \in Int /\ src \in Int /\ len \in Nat
  BY DEF Memory, Ends
<1>1. after = CopyUp(m, dest, src, n)
  <2>1. strlen(m, src) = len
    BY Zenon, EndsStrlen
  <2> QED  BY <2>1 DEF strncpy
<1>2. Area(dest, n) \subseteq Area(dest, n + 1) /\ dest + n \in Area(dest, n + 1)
      /\ dest + n \notin Area(dest, n)
  BY <1>0 DEF Area
<1>3. Area(src, n) \subseteq Area(src, len + 1)
  BY <1>0 DEF Area
<1>4. Area(src, n) \subseteq DOMAIN m
  <2>1. ASSUME NEW a \in Area(src, n) PROVE a \in DOMAIN m
    <3>1. a - src \in 0 .. len /\ src + (a - src) = a
      BY <1>0 DEF Area
    <3> QED  BY <3>1 DEF Ends
  <2> QED  BY <2>1
<1>5. Area(dest, n) \subseteq DOMAIN m /\ Area(dest, n) \cap Area(src, n) = {}
  BY Zenon, <1>2, <1>3
<1>6. Moves(after, m, dest, src, n)
  BY <1>0, <1>1, <1>4, <1>5, CopyUpMoves
<1>7. Memory(after) /\ DOMAIN after = DOMAIN m
  BY <1>0, <1>4, <1>6, MovesMemory
<1>8. Same(after, dest, m, src, n)
  BY Zenon, <1>0, <1>5, <1>6, MovedBytes
<1>9. \A a \in DOMAIN m \ Area(dest, n) : after[a] = m[a]
  BY Zenon, <1>6 DEF Moves
<1>10. ASSUME m[dest + n] = NUL PROVE Text(after, dest) = First(n, Text(m, src))
  <2>1. Ends(after, dest, n)
    <3>1. \A k \in 0 .. n : dest + k \in DOMAIN after
      BY <1>0, <1>7 DEF Area
    <3>2. after[dest + n] = NUL
      BY Zenon, <1>2, <1>9, <1>10
    <3>3. ASSUME NEW k \in 0 .. n - 1 PROVE after[dest + k] # NUL
      <4>1. k \in 0 .. len - 1
        BY <1>0
      <4> QED  BY Zenon, <1>8, <4>1 DEF Same, Ends
    <3> QED  BY Zenon, <1>0, <1>7, <3>1, <3>2, <3>3 DEF Ends
  <2>2. PICK t : t = Text(m, src)
    OBVIOUS
  <2>3. PICK u : u = Text(after, dest)
    OBVIOUS
  <2>4. IsText(t, m, src, len) /\ IsText(u, after, dest, n)
    BY Zenon, <1>7, <2>1, <2>2, <2>3, EndsText DEF Memory
  <2>5. PICK f : f = First(n, t)
    OBVIOUS
  <2>6. t \in Seq(Nat) /\ n = IF n <= Len(t) THEN n ELSE Len(t)
    BY <1>0, <2>4 DEF IsText
  <2>7. f \in Seq(Nat) /\ Len(f) = n /\ \A i \in 1 .. n : f[i] = t[i]
    BY Zenon, <2>5, <2>6, FirstOf
  <2>8. \A i \in 1 .. n : t[i] = m[src + i - 1]
    <3>1. \A i \in 1 .. n : i \in 1 .. len
      BY <1>0
    <3> QED  BY Zenon, <2>4, <3>1 DEF IsText
  <2>9. IsText(f, m, src, n)
    BY Zenon, <2>7, <2>8 DEF IsText
  <2>10. u = f
    BY Zenon, <1>0, <1>8, <2>4, <2>9, SameText
  <2> QED  BY Zenon, <2>2, <2>3, <2>5, <2>10
<1> QED  BY Zenon, <1>2, <1>9, <1>10

(***************************************************************************)
(* strncpy of a shorter string, padded.                                    *)
(***************************************************************************)
LEMMA StrncpyPads ==
    ASSUME NEW m, Memory(m), NEW dest \in DOMAIN m, NEW src \in DOMAIN m,
           NEW len, Ends(m, src, len), NEW n \in Nat, len < n,
           Area(dest, n + 1) \subseteq DOMAIN m,
           Area(dest, n + 1) \cap Area(src, len + 1) = {},
           NEW after, after = strncpy(m, dest, src, n)
    PROVE  /\ \A a \in DOMAIN m \ Area(dest, n + 1) : after[a] = m[a]
           /\ Text(after, dest) = First(n, Text(m, src))
<1>0. /\ DOMAIN m \subseteq Nat /\ dest \in Nat /\ src \in Nat /\ len \in Nat
  BY DEF Memory, Ends
<1>1. PICK copy : copy = strcpy(m, dest, src)
  OBVIOUS
<1>2. after = memset(copy, dest + len + 1, NUL, n - len)
  <2>1. strlen(m, src) = len
    BY Zenon, EndsStrlen
  <2>2. ~(n <= len)
    BY <1>0
  <2> QED  BY Zenon, <1>1, <2>1, <2>2 DEF strncpy, strcpy
<1>3. Area(dest, len + 1) \subseteq Area(dest, n + 1)
  BY <1>0 DEF Area
<1>4. /\ Moves(copy, m, dest, src, len + 1) /\ Memory(copy)
      /\ Ends(copy, dest, len) /\ Text(copy, dest) = Text(m, src)
  <2>1. Area(dest, len + 1) \subseteq DOMAIN m
        /\ Area(dest, len + 1) \cap Area(src, len + 1) = {}
    BY Zenon, <1>3
  <2> QED  BY Zenon, <1>1, <2>1, StrcpyCopies
<1>5. DOMAIN copy = DOMAIN m
  BY Zenon, <1>4 DEF Moves
<1>6. /\ DOMAIN after = DOMAIN m
      /\ \A a \in DOMAIN m : after[a] = IF a \in Area(dest + len + 1, n - len) THEN NUL ELSE copy[a]
  BY Zenon, <1>2, <1>5 DEF memset
<1>7. ASSUME NEW a \in DOMAIN m \ Area(dest, n + 1) PROVE after[a] = m[a]
  <2>1. a \notin Area(dest, len + 1) /\ a \notin Area(dest + len + 1, n - len)
    BY <1>0 DEF Area
  <2> QED  BY Zenon, <1>4, <1>6, <2>1 DEF Moves
<1>8. \A k \in 0 .. len : dest + k \in DOMAIN m /\ after[dest + k] = copy[dest + k]
  <2> TAKE k \in 0 .. len
  <2>1. dest + k \in DOMAIN m
    BY <1>4, <1>5 DEF Ends
  <2>2. dest + k \notin Area(dest + len + 1, n - len)
    BY <1>0 DEF Area
  <2> QED  BY Zenon, <1>6, <2>1, <2>2
<1>9. Ends(after, dest, len)
  <2>1. copy[dest + len] = NUL /\ \A k \in 0 .. len - 1 : copy[dest + k] # NUL
    BY <1>4 DEF Ends
  <2>2. after[dest + len] = NUL /\ \A k \in 0 .. len - 1 : after[dest + k] # NUL
    BY <1>0, <1>8, <2>1
  <2> QED  BY Zenon, <1>0, <1>6, <1>8, <2>2 DEF Ends
<1>10. Bytes(after)
  <2>1. NUL \in Nat
    BY DEF NUL
  <2> QED  BY Zenon, <1>4, <1>5, <1>6, <2>1 DEF Bytes, Memory
<1>11. PICK t : t = Text(copy, dest)
  OBVIOUS
<1>12. PICK u : u = Text(after, dest)
  OBVIOUS
<1>13. IsText(t, copy, dest, len) /\ IsText(u, after, dest, len)
  BY Zenon, <1>4, <1>9, <1>10, <1>11, <1>12, EndsText DEF Memory
<1>14. Same(after, dest, copy, dest, len)
  BY <1>0, <1>8 DEF Same
<1>15. u = t
  <2>1. dest \in Int
    BY <1>0
  <2> QED  BY Zenon, <1>0, <1>13, <1>14, <2>1, SameText
<1>16. PICK f : f = First(n, t)
  OBVIOUS
<1>17. t \in Seq(Nat) /\ Len(t) = len /\ len = IF n <= Len(t) THEN n ELSE Len(t)
  BY <1>0, <1>13 DEF IsText
<1>18. f \in Seq(Nat) /\ Len(f) = len /\ \A i \in 1 .. len : f[i] = t[i]
  <2>1. n \in Nat /\ len \in Nat
    BY <1>0
  <2> QED  BY ZenonT(60), <1>16, <1>17, <2>1, FirstOf
<1>19. f = t
  BY Zenon, <1>17, <1>18, SameSequence
<1> QED  BY Zenon, <1>4, <1>7, <1>11, <1>12, <1>15, <1>16, <1>19

(***************************************************************************)
(* strncpy stays within n + 1 bytes, and stores the name, cut to n         *)
(* characters, in every memory.                                            *)
(***************************************************************************)
LEMMA NamesAlways == MemoryOK => StoresName
<1> SUFFICES ASSUME MemoryOK, NEW dest \in Addr, NEW src \in StringsAt,
                    NEW n \in 0 .. Cardinality(Addr), Fits(dest, n + 1),
                    Apart(dest, n + 1, src, strlen(mem, src) + 1)
             PROVE  LET after == strncpy(mem, dest, src, n)
                    IN  /\ \A a \in Addr \ Area(dest, n + 1) : after[a] = mem[a]
                        /\ mem[dest + n] = NUL =>
                              Text(after, dest) = First(n, Text(mem, src))
  BY Zenon DEF StoresName
<1>1. Memory(mem) /\ DOMAIN mem = Addr /\ Addr \subseteq Nat
  BY MemIsMemory, MemoryAssumption
<1>2. src \in Addr /\ IsString(mem, src)
  BY DEF StringsAt
<1>3. PICK len : len = strlen(mem, src)
  BY Zenon
<1>4. Ends(mem, src, len)
  BY Zenon, <1>1, <1>2, <1>3, StringEnds DEF Memory
<1>5. n \in Nat /\ len \in Nat
  <2>1. Cardinality(Addr) \in Nat
    BY MemoryAssumption, FS_CardinalityType
  <2> QED  BY <1>4, <2>1 DEF Ends
<1>6. PICK after : after = strncpy(mem, dest, src, n)
  OBVIOUS
<1>7. /\ dest \in DOMAIN mem /\ src \in DOMAIN mem
      /\ Area(dest, n + 1) \subseteq DOMAIN mem
      /\ Area(dest, n + 1) \cap Area(src, len + 1) = {}
  BY Zenon, <1>1, <1>2, <1>3 DEF Fits, Apart
<1>8. /\ \A a \in DOMAIN mem \ Area(dest, n + 1) : after[a] = mem[a]
      /\ mem[dest + n] = NUL => Text(after, dest) = First(n, Text(mem, src))
  <2>1. CASE n <= len
    BY <1>1, <1>4, <1>5, <1>6, <1>7, <2>1, StrncpyCuts
  <2>2. CASE len < n
    BY <1>1, <1>4, <1>5, <1>6, <1>7, <2>2, StrncpyPads
  <2> QED  BY <1>5, <2>1, <2>2
<1> QED  BY Zenon, <1>1, <1>6, <1>8

(***************************************************************************)
(* In a memory of any size and with any contents, memmove, strncpy, strcpy *)
(* and strcat leave what they are given at dest, and the first three       *)
(* change no byte outside of the area that they may write.  For strncpy    *)
(* that is n + 1 bytes, and the text is right if the last of them was NUL. *)
(***************************************************************************)
THEOREM CopiesAreExact == Spec => []CopiesExactly
<1>1. MemoryOK => CopiesExactly
  BY MovesAlways, NamesAlways, CopiesAlways DEF CopiesExactly
<1>2. Spec => []MemoryOK
  BY MemoryTyped
<1> QED  BY <1>1, <1>2, PTL

-----------------------------------------------------------------------------
(***************************************************************************)
(* Lexicographic order, character by character.                            *)
(***************************************************************************)
Agree(s, t, k) == \A i \in 1 .. k : s[i] = t[i]

(***************************************************************************)
(* Equal prefixes are prefixes with equal elements.                        *)
(***************************************************************************)
LEMMA SamePrefix ==
    ASSUME NEW s \in Seq(Nat), NEW t \in Seq(Nat), NEW k \in Nat, k <= Len(s), k <= Len(t)
    PROVE  SubSeq(s, 1, k) = SubSeq(t, 1, k) <=> Agree(s, t, k)
<1>1. PICK f : f = SubSeq(s, 1, k)
  BY Zenon
<1>2. PICK g : g = SubSeq(t, 1, k)
  BY Zenon
<1>3. f \in Seq(Nat) /\ Len(f) = k /\ \A i \in 1 .. k : f[i] = s[i]
  BY <1>1
<1>4. g \in Seq(Nat) /\ Len(g) = k /\ \A i \in 1 .. k : g[i] = t[i]
  BY <1>2
<1>5. f = g => Agree(s, t, k)
  BY Zenon, <1>3, <1>4 DEF Agree
<1>6. Agree(s, t, k) => f = g
  <2> SUFFICES ASSUME Agree(s, t, k) PROVE f = g
    BY Zenon
  <2>1. \A i \in 1 .. Len(f) : f[i] = g[i]
    BY Zenon, <1>3, <1>4 DEF Agree
  <2> QED  BY Zenon, <1>3, <1>4, <2>1, SameSequence
<1> QED  BY Zenon, <1>1, <1>2, <1>5, <1>6

(***************************************************************************)
(* s and t agree on k characters.  Then one of them ends, or they differ;  *)
(* and r says which is first.                                              *)
(***************************************************************************)
Parts(r, s, t, k) ==
    \/ k = Len(s) /\ k = Len(t) /\ r = 0
    \/ k < Len(s) /\ k < Len(t) /\ s[k + 1] # t[k + 1] /\ r = s[k + 1] - t[k + 1]
    \/ k = Len(s) /\ k < Len(t) /\ r < 0
    \/ k < Len(s) /\ k = Len(t) /\ r > 0

Ordered(r, s, t) == (r < 0 <=> Before(s, t)) /\ (r = 0 <=> s = t)

(***************************************************************************)
(* The result of a comparison that stops where two texts part orders them. *)
(***************************************************************************)
LEMMA PartsOrdered ==
    ASSUME NEW s \in Seq(Nat), NEW t \in Seq(Nat), NEW k \in Nat, k <= Len(s), k <= Len(t),
           Agree(s, t, k), NEW r \in Int, Parts(r, s, t, k)
    PROVE  Ordered(r, s, t)
<1>0. /\ Len(s) \in Nat /\ Len(t) \in Nat
      /\ \A i \in 1 .. Len(s) : s[i] \in Nat
      /\ \A i \in 1 .. Len(t) : t[i] \in Nat
  OBVIOUS
<1>1. ASSUME r < 0 PROVE Before(s, t)
  <2>1. k < Len(t) /\ (k < Len(s) => s[k + 1] < t[k + 1])
    BY <1>0, <1>1 DEF Parts
  <2>2. PICK j \in 1 .. Len(t) : j = k + 1 /\ j - 1 = k
    BY <1>0, <2>1
  <2>3. j <= Len(s) + 1 /\ (j <= Len(s) => s[j] < t[j])
    BY <1>0, <2>1, <2>2
  <2>4. SubSeq(s, 1, j - 1) = SubSeq(t, 1, j - 1)
    BY Zenon, <2>2, SamePrefix
  <2> QED  BY Zenon, <2>3, <2>4 DEF Before
<1>2. ASSUME Before(s, t) PROVE r < 0
  <2>1. PICK j \in 1 .. Len(t) : /\ j <= Len(s) + 1
                                 /\ SubSeq(s, 1, j - 1) = SubSeq(t, 1, j - 1)
                                 /\ j <= Len(s) => s[j] < t[j]
    BY Zenon, <1>2 DEF Before
  <2>2. PICK i \in Nat : i = j - 1 /\ i <= Len(s) /\ i <= Len(t)
    BY <1>0, <2>1
  <2>3. Agree(s, t, i)
    BY Zenon, <2>1, <2>2, SamePrefix
  <2>4. ~(j <= k)
    <3> SUFFICES ASSUME j <= k PROVE FALSE
      OBVIOUS
    <3>1. s[j] = t[j]
      BY <1>0 DEF Agree
    <3> QED  BY SMTT(30), <1>0, <2>1, <3>1
  <2>5. k < Len(t)
    BY <1>0, <2>4
  <2>6. CASE k = Len(s)
    BY <1>0, <2>5, <2>6 DEF Parts
  <2>7. CASE k < Len(s)
    <3>1. s[k + 1] # t[k + 1] /\ r = s[k + 1] - t[k + 1]
      BY <1>0, <2>5, <2>7 DEF Parts
    <3>2. j = k + 1
      <4> SUFFICES ASSUME j # k + 1 PROVE FALSE
        OBVIOUS
      <4>1. k + 1 \in 1 .. i
        BY <1>0, <2>2, <2>4
      <4> QED  BY Zenon, <2>3, <3>1, <4>1 DEF Agree
    <3>3. s[j] < t[j] /\ s[j] \in Nat /\ t[j] \in Nat
      BY <1>0, <2>1, <2>7, <3>2
    <3> QED  BY <3>1, <3>2, <3>3
  <2> QED  BY <1>0, <2>6, <2>7
<1>3. ASSUME r = 0 PROVE s = t
  <2>1. k = Len(s) /\ k = Len(t)
    <3>1. CASE k < Len(s) /\ k < Len(t)
      <4>1. s[k + 1] \in Nat /\ t[k + 1] \in Nat /\ s[k + 1] # t[k + 1]
            /\ r = s[k + 1] - t[k + 1]
        BY <1>0, <3>1 DEF Parts
      <4> QED  BY <1>3, <4>1
    <3>2. CASE ~(k < Len(s) /\ k < Len(t))
      BY <1>0, <1>3, <3>2 DEF Parts
    <3> QED  BY <3>1, <3>2
  <2>2. \A i \in 1 .. Len(s) : s[i] = t[i]
    BY Zenon, <2>1 DEF Agree
  <2> QED  BY Zenon, <2>1, <2>2, SameSequence
<1>4. ASSUME s = t PROVE r = 0
  BY <1>0, <1>4 DEF Parts
<1> QED  BY Zenon, <1>1, <1>2, <1>3, <1>4 DEF Ordered

(***************************************************************************)
(* Where the loops of strcmp and strncmp stop.                             *)
(***************************************************************************)
Stops(k, m, s1, s2, n) ==
    /\ k \in Nat
    /\ k = n \/ m[s1 + k] = NUL \/ m[s1 + k] # m[s2 + k]
    /\ \A j \in 0 .. k - 1 : j # n /\ m[s1 + j] = m[s2 + j]

(***************************************************************************)
(* The loops of strcmp and strncmp stop, at the latest at the end of the   *)
(* shorter string.                                                         *)
(***************************************************************************)
LEMMA StopIs ==
    ASSUME NEW m, NEW s1, NEW s2, NEW n1, NEW n2, NEW n \in Int,
           Ends(m, s1, n1), Ends(m, s2, n2)
    PROVE  /\ Stops(Stop(m, s1, s2, n), m, s1, s2, n)
           /\ Stop(m, s1, s2, n) <= n1 /\ Stop(m, s1, s2, n) <= n2
<1>0. n1 \in Nat /\ n2 \in Nat /\ s1 \in Nat /\ s2 \in Nat
  BY DEF Ends
<1>1. PICK least \in Nat : least = IF n1 <= n2 THEN n1 ELSE n2
  BY <1>0
<1>2. Min({strlen(m, s1), strlen(m, s2)}) = least
  <2>1. strlen(m, s1) = n1 /\ strlen(m, s2) = n2
    BY Zenon, EndsStrlen
  <2>2. {n1, n2} \in SUBSET Nat /\ least \in {n1, n2} /\ \A y \in {n1, n2} : least <= y
    BY <1>0, <1>1
  <2>3. Min({n1, n2}) = least
    BY Zenon, <2>2, LeastIs
  <2> QED  BY Zenon, <2>1, <2>3
<1> DEFINE Here(k) == k = n \/ m[s1 + k] = NUL \/ m[s1 + k] # m[s2 + k]
           stops == {k \in 0 .. least : Here(k)}
<1>3. Stop(m, s1, s2, n) = Min(stops)
  BY Zenon, <1>2 DEF Stop
<1>4. least \in stops
  <2>1. m[s1 + n1] = NUL /\ m[s2 + n2] = NUL /\ \A k \in 0 .. n1 - 1 : m[s1 + k] # NUL
    BY DEF Ends
  <2>2. Here(least)
    BY <1>0, <1>1, <2>1
  <2>3. least \in 0 .. least
    OBVIOUS
  <2> HIDE DEF Here
  <2> QED  BY <2>2, <2>3
<1>5. stops \in SUBSET Nat /\ stops # {}
  <2> HIDE DEF Here
  <2> QED  BY <1>4
<1>6. PICK k : k = Min(stops)
  BY Zenon
<1>7. k \in stops /\ \A y \in stops : k <= y
  <2> HIDE DEF stops
  <2> QED  BY Zenon, <1>5, <1>6, Least
<1>8. k \in 0 .. least /\ Here(k)
  BY Zenon, <1>7
<1>9. ASSUME NEW j \in 0 .. k - 1 PROVE j # n /\ m[s1 + j] = m[s2 + j]
  <2>1. j \in 0 .. least /\ ~(k <= j)
    BY <1>8
  <2>2. ~Here(j)
    BY Zenon, <1>7, <2>1
  <2> QED  BY Zenon, <2>2
<1>10. Stops(k, m, s1, s2, n)
  <2>1. k \in Nat
    BY <1>8
  <2> QED  BY Zenon, <1>8, <1>9, <2>1 DEF Stops
<1>11. k <= n1 /\ k <= n2
  BY <1>0, <1>1, <1>8
<1> HIDE DEF stops
<1> QED  BY Zenon, <1>3, <1>6, <1>10, <1>11

(***************************************************************************)
(* Characters of a text, and of its first n, are bytes of the string.      *)
(***************************************************************************)
Char(c, t, k, n) ==
    c \in Nat /\ (k < n => t[k + 1] = c /\ c > 0) /\ (k = n => c = 0)

(***************************************************************************)
(* The byte at offset k of a string is character k + 1 of its text, or the *)
(* NUL behind it.                                                          *)
(***************************************************************************)
LEMMA CharAt ==
    ASSUME NEW m, NEW s, NEW n, Ends(m, s, n), Bytes(m), NEW t, IsText(t, m, s, n),
           NEW k \in 0 .. n
    PROVE  Char(m[s + k], t, k, n)
<1>0. n \in Nat /\ s \in Nat
  BY Zenon DEF Ends
<1>1. m[s + k] \in Nat
  BY Zenon DEF Ends, Bytes
<1>2. ASSUME k < n PROVE t[k + 1] = m[s + k] /\ m[s + k] > 0
  <2>1. k + 1 \in 1 .. n /\ s + (k + 1) - 1 = s + k /\ k \in 0 .. n - 1
    BY <1>0, <1>2
  <2>2. t[k + 1] = m[s + (k + 1) - 1]
    BY Zenon, <2>1 DEF IsText
  <2>3. m[s + k] # 0
    BY Zenon, <2>1 DEF Ends, NUL
  <2> QED  BY <1>1, <2>1, <2>2, <2>3
<1>3. ASSUME k = n PROVE m[s + k] = 0
  BY Zenon, <1>3 DEF Ends, NUL
<1> QED  BY Zenon, <1>1, <1>2, <1>3 DEF Char

(***************************************************************************)
(* The difference of the characters where the loop stops orders the texts; *)
(* cut behind it they stay in that order.                                  *)
(***************************************************************************)
IsFirst(f, t, n) ==
    /\ f \in Seq(Nat)
    /\ n <= Len(t) => Len(f) = n
    /\ ~(n <= Len(t)) => Len(f) = Len(t)
    /\ \A i \in 1 .. Len(f) : f[i] = t[i]

(***************************************************************************)
(* Where the loop stops before n characters are compared, the difference   *)
(* of the two bytes orders the first n characters of the texts.            *)
(***************************************************************************)
LEMMA StopParts ==
    ASSUME NEW m, NEW s1, NEW s2, NEW n1, NEW n2, Ends(m, s1, n1), Ends(m, s2, n2), Bytes(m),
           NEW a, NEW b, IsText(a, m, s1, n1), IsText(b, m, s2, n2),
           NEW k, NEW q \in Int, Stops(k, m, s1, s2, q), k # q, k <= n1, k <= n2,
           NEW n \in Nat, k < n, NEW f, IsFirst(f, a, n), NEW g, IsFirst(g, b, n)
    PROVE  Ordered(m[s1 + k] - m[s2 + k], f, g)
<1>0. n1 \in Nat /\ n2 \in Nat /\ k \in Nat /\ s1 \in Nat /\ s2 \in Nat
  BY DEF Ends, Stops
<1>1. Len(a) = n1 /\ Len(b) = n2
  BY DEF IsText
<1>2. PICK c : c = m[s1 + k]
  OBVIOUS
<1>3. PICK d : d = m[s2 + k]
  OBVIOUS
<1>4. k \in 0 .. n1 /\ k \in 0 .. n2
  BY <1>0
<1>5. c \in Nat /\ (k < n1 => a[k + 1] = c /\ c > 0) /\ (k = n1 => c = 0)
  <2>1. Char(c, a, k, n1)
    BY Zenon, <1>2, <1>4, CharAt
  <2> QED  BY Zenon, <2>1 DEF Char
<1>6. d \in Nat /\ (k < n2 => b[k + 1] = d /\ d > 0) /\ (k = n2 => d = 0)
  <2>1. Char(d, b, k, n2)
    BY Zenon, <1>3, <1>4, CharAt
  <2> QED  BY Zenon, <2>1 DEF Char
<1>7. /\ f \in Seq(Nat) /\ g \in Seq(Nat) /\ Len(f) \in Nat /\ Len(g) \in Nat
      /\ Len(f) = IF n <= n1 THEN n ELSE n1
      /\ Len(g) = IF n <= n2 THEN n ELSE n2
      /\ \A i \in 1 .. Len(f) : f[i] = a[i]
      /\ \A i \in 1 .. Len(g) : g[i] = b[i]
  BY <1>1 DEF IsFirst
<1>8. k <= Len(f) /\ k <= Len(g) /\ (k < n1 <=> k < Len(f)) /\ (k < n2 <=> k < Len(g))
  BY <1>0, <1>7
<1>9. Agree(f, g, k)
  <2> SUFFICES ASSUME NEW i \in 1 .. k PROVE f[i] = g[i]
    BY DEF Agree
  <2>1. PICK j \in 0 .. k - 1 : j = i - 1 /\ j + 1 = i
    BY <1>0
  <2>2. j \in 0 .. n1 /\ j < n1 /\ j \in 0 .. n2 /\ j < n2
    BY <1>0, <2>1
  <2>3. a[j + 1] = m[s1 + j]
    <3>1. Char(m[s1 + j], a, j, n1)
      BY Zenon, <2>2, CharAt
    <3> QED  BY Zenon, <2>2, <3>1 DEF Char
  <2>4. b[j + 1] = m[s2 + j]
    <3>1. Char(m[s2 + j], b, j, n2)
      BY Zenon, <2>2, CharAt
    <3> QED  BY Zenon, <2>2, <3>1 DEF Char
  <2>5. m[s1 + j] = m[s2 + j]
    BY DEF Stops
  <2>6. f[i] = a[i] /\ g[i] = b[i]
    BY SMTT(30), <1>0, <1>7, <1>8
  <2> QED  BY Zenon, <2>1, <2>3, <2>4, <2>5, <2>6
<1>10. c = 0 \/ c # d
  BY Zenon, <1>2, <1>3 DEF Stops, NUL
<1>11. Parts(c - d, f, g, k)
  <2>1. CASE k < n1 /\ k < n2
    <3>1. k + 1 \in 1 .. Len(f) /\ k + 1 \in 1 .. Len(g)
      BY <1>0, <1>7, <1>8, <2>1
    <3>2. f[k + 1] = c /\ g[k + 1] = d /\ c # d
      <4>1. c > 0 /\ a[k + 1] = c /\ b[k + 1] = d
        BY Zenon, <1>5, <1>6, <2>1
      <4>2. f[k + 1] = a[k + 1] /\ g[k + 1] = b[k + 1]
        BY Zenon, <1>7, <3>1
      <4>3. c # 0
        BY <1>5, <4>1
      <4> QED  BY Zenon, <1>10, <4>1, <4>2, <4>3
    <3> QED  BY <1>8, <2>1, <3>2 DEF Parts
  <2>2. CASE k = n1 /\ k < n2
    BY SMTT(30), <1>0, <1>5, <1>6, <1>7, <1>8, <2>2 DEF Parts
  <2>3. CASE k < n1 /\ k = n2
    BY SMTT(30), <1>0, <1>5, <1>6, <1>7, <1>8, <2>3 DEF Parts
  <2>4. CASE k = n1 /\ k = n2
    BY <1>0, <1>5, <1>6, <1>7, <1>8, <2>4 DEF Parts
  <2> QED  BY <1>0, <2>1, <2>2, <2>3, <2>4
<1>12. c - d \in Int
  BY <1>5, <1>6
<1>13. Ordered(c - d, f, g)
  BY Zenon, <1>0, <1>7, <1>8, <1>9, <1>11, <1>12, PartsOrdered
<1> QED  BY Zenon, <1>2, <1>3, <1>13

(***************************************************************************)
(* Equal texts, as far as they go.                                         *)
(***************************************************************************)
LEMMA EqualOrdered ==
    ASSUME NEW f \in Seq(Nat), NEW g \in Seq(Nat), Len(f) = Len(g), Agree(f, g, Len(f))
    PROVE  Ordered(0, f, g)
<1>1. Len(f) \in Nat /\ Len(f) <= Len(f) /\ Len(f) <= Len(g) /\ 0 \in Int
  OBVIOUS
<1>2. Parts(0, f, g, Len(f))
  BY Zenon DEF Parts
<1> QED  BY Zenon, <1>1, <1>2, PartsOrdered

(***************************************************************************)
(* First(n, t) is the text t cut to n characters.                          *)
(***************************************************************************)
LEMMA FirstIs ==
    ASSUME NEW t \in Seq(Nat), NEW n \in Nat
    PROVE  IsFirst(First(n, t), t, n)
<1>1. PICK k \in Nat : k = IF n <= Len(t) THEN n ELSE Len(t)
  OBVIOUS
<1>2. /\ First(n, t) \in Seq(Nat) /\ Len(First(n, t)) = k
      /\ \A i \in 1 .. k : First(n, t)[i] = t[i]
  BY Zenon, <1>1, FirstOf
<1> QED  BY Zenon, <1>1, <1>2 DEF IsFirst

(***************************************************************************)
(* The texts a and b of the strings at s1 and s2.                          *)
(***************************************************************************)
TwoTexts(m, s1, s2, a, b) ==
    /\ Bytes(m)
    /\ Ends(m, s1, Len(a)) /\ Ends(m, s2, Len(b))
    /\ IsText(a, m, s1, Len(a)) /\ IsText(b, m, s2, Len(b))

(***************************************************************************)
(* strcmp orders texts.                                                    *)
(***************************************************************************)
LEMMA StrcmpOrders ==
    ASSUME NEW m, NEW s1, NEW s2, NEW a, NEW b, TwoTexts(m, s1, s2, a, b)
    PROVE  Ordered(strcmp(m, s1, s2), a, b)
<1>0. a \in Seq(Nat) /\ b \in Seq(Nat)
  BY DEF TwoTexts, IsText
<1>1. PICK n1 \in Nat : n1 = Len(a)
  BY <1>0
<1>2. PICK n2 \in Nat : n2 = Len(b)
  BY <1>0
<1>3. Bytes(m) /\ Ends(m, s1, n1) /\ Ends(m, s2, n2) /\ IsText(a, m, s1, n1) /\ IsText(b, m, s2, n2)
  BY Zenon, <1>1, <1>2 DEF TwoTexts
<1>4. PICK k : k = Stop(m, s1, s2, -1)
  OBVIOUS
<1>5. Stops(k, m, s1, s2, -1) /\ k <= n1 /\ k <= n2
  <2>1. -1 \in Int
    OBVIOUS
  <2> QED  BY Zenon, <1>3, <1>4, <2>1, StopIs
<1>6. k \in Nat /\ k # -1 /\ -1 \in Int
  BY <1>5 DEF Stops
<1>7. PICK n \in Nat : n = n1 + n2 + 1 /\ k < n
  BY <1>5, <1>6
<1>8. IsFirst(a, a, n) /\ IsFirst(b, b, n)
  BY <1>0, <1>1, <1>2, <1>7 DEF IsFirst
<1>9. Ordered(m[s1 + k] - m[s2 + k], a, b)
  BY <1>3, <1>5, <1>6, <1>7, <1>8, StopParts
<1> QED  BY Zenon, <1>4, <1>9 DEF strcmp

(***************************************************************************)
(* strncmp orders the first n characters of texts, equal ones included.    *)
(***************************************************************************)
LEMMA StrncmpOrders ==
    ASSUME NEW m, NEW s1, NEW s2, NEW a, NEW b, TwoTexts(m, s1, s2, a, b), NEW n \in Nat
    PROVE  Ordered(strncmp(m, s1, s2, n), First(n, a), First(n, b))
<1>0. a \in Seq(Nat) /\ b \in Seq(Nat)
  BY DEF TwoTexts, IsText
<1>1. PICK n1 \in Nat : n1 = Len(a)
  BY <1>0
<1>2. PICK n2 \in Nat : n2 = Len(b)
  BY <1>0
<1>3. Bytes(m) /\ Ends(m, s1, n1) /\ Ends(m, s2, n2) /\ IsText(a, m, s1, n1) /\ IsText(b, m, s2, n2)
  BY Zenon, <1>1, <1>2 DEF TwoTexts
<1>4. PICK k : k = Stop(m, s1, s2, n)
  OBVIOUS
<1>5. n \in Int
  OBVIOUS
<1>6. Stops(k, m, s1, s2, n) /\ k <= n1 /\ k <= n2
  BY Zenon, <1>3, <1>4, <1>5, StopIs
<1>7. k \in Nat /\ \A j \in 0 .. k - 1 : j # n /\ m[s1 + j] = m[s2 + j]
  BY <1>6 DEF Stops
<1>8. PICK f : f = First(n, a)
  OBVIOUS
<1>9. PICK g : g = First(n, b)
  BY Zenon
<1>10. IsFirst(f, a, n) /\ IsFirst(g, b, n)
  BY Zenon, <1>0, <1>8, <1>9, FirstIs
<1>11. CASE k = n
  <2>1. f \in Seq(Nat) /\ g \in Seq(Nat) /\ Len(f) = n /\ Len(g) = n
    BY <1>1, <1>2, <1>6, <1>10, <1>11 DEF IsFirst
  <2>2. ASSUME NEW i \in 1 .. n PROVE f[i] = g[i]
    <3>1. PICK j \in 0 .. k - 1 : j = i - 1 /\ s1 + j = s1 + i - 1 /\ s2 + j = s2 + i - 1
      BY <1>3, <1>11 DEF Ends
    <3>2. i \in 1 .. n1 /\ i \in 1 .. n2
      BY <1>6, <1>11
    <3>3. a[i] = m[s1 + i - 1] /\ b[i] = m[s2 + i - 1]
      BY Zenon, <1>3, <3>2 DEF IsText
    <3>4. f[i] = a[i] /\ g[i] = b[i]
      BY Zenon, <1>10, <2>1 DEF IsFirst
    <3> QED  BY Zenon, <1>7, <3>1, <3>3, <3>4
  <2>3. Agree(f, g, Len(f))
    BY Zenon, <2>1, <2>2 DEF Agree
  <2>4. Ordered(0, f, g)
    BY Zenon, <2>1, <2>3, EqualOrdered
  <2> QED  BY Zenon, <1>4, <1>8, <1>9, <1>11, <2>4 DEF strncmp
<1>12. CASE k # n
  <2>1. k < n
    BY SMTT(30), <1>7, <1>12
  <2>2. Ordered(m[s1 + k] - m[s2 + k], f, g)
    BY <1>3, <1>5, <1>6, <1>10, <1>12, <2>1, StopParts
  <2> QED  BY Zenon, <1>4, <1>8, <1>9, <1>12, <2>2 DEF strncmp
<1> QED  BY <1>11, <1>12

(***************************************************************************)
(* memcmp orders the first n bytes of texts that have as many.             *)
(***************************************************************************)
LEMMA MemcmpOrders ==
    ASSUME NEW m, NEW s1, NEW s2, NEW a, NEW b, TwoTexts(m, s1, s2, a, b),
           NEW n \in Nat, n <= Len(a), n <= Len(b)
    PROVE  Ordered(memcmp(m, s1, s2, n), First(n, a), First(n, b))
<1>0. a \in Seq(Nat) /\ b \in Seq(Nat) /\ s1 \in Nat /\ s2 \in Nat
  BY DEF TwoTexts, IsText, Ends
<1>1. \A j \in 0 .. n - 1 : a[j + 1] = m[s1 + j] /\ b[j + 1] = m[s2 + j]
  <2> TAKE j \in 0 .. n - 1
  <2>1. j + 1 \in 1 .. Len(a) /\ j + 1 \in 1 .. Len(b)
    BY <1>0
  <2>2. s1 + (j + 1) - 1 = s1 + j /\ s2 + (j + 1) - 1 = s2 + j
    BY <1>0
  <2>3. a[j + 1] = m[s1 + (j + 1) - 1] /\ b[j + 1] = m[s2 + (j + 1) - 1]
    BY Zenon, <2>1 DEF TwoTexts, IsText
  <2> QED  BY Zenon, <2>2, <2>3
<1>2. PICK f : f = First(n, a)
  OBVIOUS
<1>3. PICK g : g = First(n, b)
  BY Zenon
<1>4. IsFirst(f, a, n) /\ IsFirst(g, b, n)
  BY Zenon, <1>0, <1>2, <1>3, FirstIs
<1>5. /\ f \in Seq(Nat) /\ g \in Seq(Nat) /\ Len(f) = n /\ Len(g) = n
      /\ \A i \in 1 .. n : f[i] = a[i] /\ g[i] = b[i]
  BY Zenon, <1>4 DEF IsFirst
<1>6. \A j \in 0 .. n - 1 : f[j + 1] = m[s1 + j] /\ g[j + 1] = m[s2 + j]
  <2> TAKE j \in 0 .. n - 1
  <2>1. j + 1 \in 1 .. n
    OBVIOUS
  <2> QED  BY Zenon, <1>1, <1>5, <2>1
<1> DEFINE differ == {k \in 0 .. n - 1 : m[s1 + k] # m[s2 + k]}
<1>7. memcmp(m, s1, s2, n)
        = IF differ = {} THEN 0 ELSE m[s1 + Min(differ)] - m[s2 + Min(differ)]
  BY Zenon DEF memcmp
<1>8. CASE differ = {}
  <2>1. \A j \in 0 .. n - 1 : m[s1 + j] = m[s2 + j]
    BY Zenon, <1>8
  <2>2. ASSUME NEW i \in 1 .. n PROVE f[i] = g[i]
    <3>1. PICK j \in 0 .. n - 1 : j + 1 = i
      <4>1. i - 1 \in 0 .. n - 1 /\ (i - 1) + 1 = i
        OBVIOUS
      <4> QED  BY <4>1
    <3> QED  BY Zenon, <1>6, <2>1, <3>1
  <2>3. Agree(f, g, Len(f))
    BY Zenon, <1>5, <2>2 DEF Agree
  <2>4. Ordered(0, f, g)
    BY Zenon, <1>5, <2>3, EqualOrdered
  <2> HIDE DEF differ
  <2> QED  BY Zenon, <1>2, <1>3, <1>7, <1>8, <2>4
<1>9. CASE differ # {}
  <2>1. differ \in SUBSET Nat
    OBVIOUS
  <2>2. PICK k : k = Min(differ)
    BY Zenon
  <2>3. k \in differ /\ \A y \in differ : k <= y
    <3> HIDE DEF differ
    <3> QED  BY Zenon, <1>9, <2>1, <2>2, Least
  <2>4. k \in 0 .. n - 1 /\ m[s1 + k] # m[s2 + k]
    BY Zenon, <2>3
  <2>5. ASSUME NEW i \in 1 .. k PROVE f[i] = g[i]
    <3>1. PICK j \in 0 .. n - 1 : j + 1 = i /\ ~(k <= j)
      <4>1. i - 1 \in 0 .. n - 1 /\ (i - 1) + 1 = i /\ ~(k <= i - 1)
        BY <2>4
      <4> QED  BY <4>1
    <3>2. m[s1 + j] = m[s2 + j]
      BY Zenon, <2>3, <3>1
    <3> QED  BY Zenon, <1>6, <3>1, <3>2
  <2>6. Agree(f, g, k)
    BY Zenon, <2>5 DEF Agree
  <2>7. f[k + 1] = m[s1 + k] /\ g[k + 1] = m[s2 + k]
    BY Zenon, <1>6, <2>4
  <2>8. k + 1 \in 1 .. n /\ k \in Nat /\ k < n /\ k <= n
    BY <2>4
  <2>9. f[k + 1] \in Nat /\ g[k + 1] \in Nat
    BY <1>5, <2>8
  <2>10. PICK r \in Int : r = f[k + 1] - g[k + 1]
    BY <2>9
  <2>11. Parts(r, f, g, k)
    BY Zenon, <1>5, <2>4, <2>7, <2>8, <2>10 DEF Parts
  <2>12. Ordered(r, f, g)
    BY Zenon, <1>5, <2>6, <2>8, <2>11, PartsOrdered
  <2> HIDE DEF differ
  <2> QED  BY Zenon, <1>2, <1>3, <1>7, <1>9, <2>2, <2>7, <2>10, <2>12
<1> QED  BY <1>8, <1>9

(***************************************************************************)
(* strcmp, strncmp and memcmp order any two strings lexicographically, and *)
(* return 0 exactly for equal ones, in a memory of any size.               *)
(***************************************************************************)
THEOREM ComparesLexicographically == Spec => []ComparesText
<1>1. MemoryOK => ComparesText
  <2> SUFFICES ASSUME MemoryOK, NEW s1 \in StringsAt, NEW s2 \in StringsAt
               PROVE  /\ Ordered(strcmp(mem, s1, s2), Text(mem, s1), Text(mem, s2))
                      /\ \A n \in 0 .. Cardinality(Addr) :
                            /\ Ordered(strncmp(mem, s1, s2, n),
                                       First(n, Text(mem, s1)), First(n, Text(mem, s2)))
                            /\ n <= Min({Len(Text(mem, s1)), Len(Text(mem, s2))}) =>
                                  Ordered(memcmp(mem, s1, s2, n),
                                          First(n, Text(mem, s1)), First(n, Text(mem, s2)))
    BY Zenon DEF ComparesText, Ordered
  <2>1. Memory(mem) /\ DOMAIN mem = Addr
    BY MemIsMemory
  <2>2. s1 \in Addr /\ IsString(mem, s1) /\ s2 \in Addr /\ IsString(mem, s2)
    BY DEF StringsAt
  <2>3. PICK n1 : n1 = strlen(mem, s1)
    OBVIOUS
  <2>4. PICK n2 : n2 = strlen(mem, s2)
    BY Zenon
  <2>5. Ends(mem, s1, n1) /\ Ends(mem, s2, n2)
    BY Zenon, <2>1, <2>2, <2>3, <2>4, StringEnds DEF Memory
  <2>6. PICK a : a = Text(mem, s1)
    OBVIOUS
  <2>7. PICK b : b = Text(mem, s2)
    BY Zenon
  <2>8. IsText(a, mem, s1, n1) /\ IsText(b, mem, s2, n2)
    BY Zenon, <2>1, <2>5, <2>6, <2>7, EndsText DEF Memory
  <2>9. a \in Seq(Nat) /\ Len(a) = n1 /\ b \in Seq(Nat) /\ Len(b) = n2
    BY Zenon, <2>8 DEF IsText
  <2>10. TwoTexts(mem, s1, s2, a, b)
    BY Zenon, <2>1, <2>5, <2>8, <2>9 DEF TwoTexts, Memory
  <2>11. Ordered(strcmp(mem, s1, s2), a, b)
    BY Zenon, <2>10, StrcmpOrders
  <2>12. ASSUME NEW n \in 0 .. Cardinality(Addr)
         PROVE  /\ Ordered(strncmp(mem, s1, s2, n), First(n, a), First(n, b))
                /\ n <= Min({Len(a), Len(b)}) =>
                      Ordered(memcmp(mem, s1, s2, n), First(n, a), First(n, b))
    <3>1. n \in Nat
      <4>1. Cardinality(Addr) \in Nat
        BY MemoryAssumption, FS_CardinalityType
      <4> QED  BY <4>1
    <3>2. Ordered(strncmp(mem, s1, s2, n), First(n, a), First(n, b))
      BY Zenon, <2>10, <3>1, StrncmpOrders
    <3>3. ASSUME n <= Min({Len(a), Len(b)})
          PROVE  Ordered(memcmp(mem, s1, s2, n), First(n, a), First(n, b))
      <4>1. PICK e : e = Min({Len(a), Len(b)})
        OBVIOUS
      <4>2. {Len(a), Len(b)} \in SUBSET Nat /\ {Len(a), Len(b)} # {}
        BY <2>9
      <4>3. e \in {Len(a), Len(b)} /\ \A y \in {Len(a), Len(b)} : e <= y
        BY Zenon, <4>1, <4>2, Least
      <4>4. n <= Len(a) /\ n <= Len(b)
        BY <2>9, <3>1, <3>3, <4>1, <4>2, <4>3
      <4> QED  BY Zenon, <2>10, <3>1, <4>4, MemcmpOrders
    <3> QED  BY Zenon, <3>2, <3>3
  <2> QED  BY Zenon, <2>6, <2>7, <2>11, <2>12
<1>2. Spec => []MemoryOK
  BY MemoryTyped
<1> QED  BY <1>1, <1>2, PTL

-----------------------------------------------------------------------------
(***************************************************************************)
(* The walk of vfs_resolve_path.  Components in three parts: where one     *)
(* starts, how far it runs, and which is the nth.                          *)
(***************************************************************************)
Starts(t) == {i \in DOMAIN t : t[i] # SLASH /\ (i = 1 \/ t[i - 1] = SLASH)}

SlashesAfter(t, i) == {j \in i + 1 .. Len(t) : t[j] = SLASH}

Run(t, i) ==
    SubSeq(t, i, IF SlashesAfter(t, i) = {} THEN Len(t) ELSE Min(SlashesAfter(t, i)) - 1)

Rank(t, i) == Cardinality({j \in Starts(t) : j <= i})

Nth(t, n) == CHOOSE i \in Starts(t) : Rank(t, i) = n

(***************************************************************************)
(* The definition of the components of a path, in the terms above.         *)
(***************************************************************************)
LEMMA ComponentsAre ==
    ASSUME NEW t
    PROVE  Components(t) = [n \in 1 .. Cardinality(Starts(t)) |-> Run(t, Nth(t, n))]
BY Zenon DEF Components, Starts, SlashesAfter, Run, Rank, Nth

(***************************************************************************)
(* names are the components that start before pos.                         *)
(***************************************************************************)
Earlier(t, pos) == {j \in Starts(t) : j < pos}

Names(s) == \E S : s \in Seq(S)

Named(names, t, pos) ==
    /\ Names(names)
    /\ Len(names) = Cardinality(Earlier(t, pos))
    /\ \A n \in 1 .. Len(names) :
          \E i \in Starts(t) : Rank(t, i) = n /\ names[n] = Run(t, i)

(***************************************************************************)
(* A path has finitely many components.                                    *)
(***************************************************************************)
LEMMA StartsFinite ==
    ASSUME NEW t \in Seq(Nat)
    PROVE  /\ Starts(t) \subseteq 1 .. Len(t)
           /\ \A T : T \subseteq Starts(t) => IsFiniteSet(T) /\ Cardinality(T) \in Nat
<1>1. DOMAIN t = 1 .. Len(t) /\ Len(t) \in Nat
  OBVIOUS
<1>2. Starts(t) \subseteq 1 .. Len(t)
  BY Zenon, <1>1 DEF Starts
<1>3. IsFiniteSet(1 .. Len(t))
  <2>1. 1 \in Int /\ Len(t) \in Int
    BY <1>1
  <2> QED  BY Zenon, <2>1, FS_Interval
<1>4. ASSUME NEW T, T \subseteq Starts(t) PROVE IsFiniteSet(T) /\ Cardinality(T) \in Nat
  <2>1. T \subseteq 1 .. Len(t)
    BY Zenon, <1>2, <1>4
  <2>2. IsFiniteSet(T)
    BY Zenon, <1>3, <2>1, FS_Subset
  <2> QED  BY Zenon, <2>2, FS_CardinalityType
<1> QED  BY Zenon, <1>2, <1>4

(***************************************************************************)
(* No two components have the same rank.                                   *)
(***************************************************************************)
LEMMA RankOnce ==
    ASSUME NEW t \in Seq(Nat), NEW i \in Starts(t), NEW k \in Starts(t), i < k
    PROVE  Rank(t, i) # Rank(t, k)
<1> DEFINE A == {j \in Starts(t) : j <= i}
           B == {j \in Starts(t) : j <= k}
<1>1. Starts(t) \subseteq Nat
  <2>1. Starts(t) \subseteq 1 .. Len(t)
    BY Zenon, StartsFinite
  <2> QED  BY <2>1
<1>2. A \subseteq B /\ k \in B /\ k \notin A
  BY <1>1
<1>3. IsFiniteSet(B)
  <2>1. B \subseteq Starts(t)
    OBVIOUS
  <2> HIDE DEF B
  <2> QED  BY Zenon, <2>1, StartsFinite
<1>4. Rank(t, i) = Cardinality(A) /\ Rank(t, k) = Cardinality(B)
  BY Zenon DEF Rank
<1> HIDE DEF A, B
<1>5. IsFiniteSet(A) /\ Cardinality(A) \in Nat /\ Cardinality(B) \in Nat
  BY Zenon, <1>2, <1>3, FS_Subset, FS_CardinalityType
<1>6. Cardinality(A) # Cardinality(B)
  <2>1. A # B
    BY Zenon, <1>2
  <2> QED  BY <1>2, <1>3, <2>1, FS_Subset
<1> QED  BY Zenon, <1>4, <1>6

(***************************************************************************)
(* All names, in order, are the components.                                *)
(***************************************************************************)
LEMMA NamedAll ==
    ASSUME NEW t \in Seq(Nat), NEW names, Named(names, t, Len(t) + 1)
    PROVE  names = Components(t)
<1>1. Starts(t) \subseteq 1 .. Len(t)
  BY Zenon, StartsFinite
<1>2. Earlier(t, Len(t) + 1) = Starts(t)
  <2>1. \A j \in Starts(t) : j < Len(t) + 1
    BY <1>1
  <2> QED  BY Zenon, <2>1 DEF Earlier
<1>3. PICK c : c = Cardinality(Starts(t))
  BY Zenon
<1>4. Len(names) = c
  BY Zenon, <1>2, <1>3 DEF Named
<1>5. ASSUME NEW n \in 1 .. c PROVE names[n] = Run(t, Nth(t, n))
  <2>1. PICK i \in Starts(t) : Rank(t, i) = n /\ names[n] = Run(t, i)
    BY Zenon, <1>4 DEF Named
  <2>2. ASSUME NEW k \in Starts(t), Rank(t, k) = n PROVE k = i
    <3>1. i \in Nat /\ k \in Nat
      BY <1>1
    <3>2. ~(i < k)
      BY Zenon, <2>1, <2>2, RankOnce
    <3>3. ~(k < i)
      BY Zenon, <2>1, <2>2, RankOnce
    <3> QED  BY <3>1, <3>2, <3>3
  <2>3. Nth(t, n) = i
    BY Zenon, <2>1, <2>2 DEF Nth
  <2> QED  BY Zenon, <2>1, <2>3
<1>6. PICK S : names \in Seq(S)
  BY Zenon DEF Named, Names
<1>7. names = [n \in 1 .. c |-> names[n]]
  BY <1>4, <1>6
<1>8. names = [n \in 1 .. c |-> Run(t, Nth(t, n))]
  BY Zenon, <1>5, <1>7
<1>9. Components(t) = [n \in 1 .. c |-> Run(t, Nth(t, n))]
  BY Zenon, <1>3, ComponentsAre
<1> QED  BY Zenon, <1>8, <1>9

(***************************************************************************)
(* No component starts from pos up to the next token: names stay.          *)
(***************************************************************************)
LEMMA NamedStays ==
    ASSUME NEW t \in Seq(Nat), NEW names, NEW pos \in Nat, NEW next \in Nat, pos <= next,
           Named(names, t, pos), \A j \in pos .. next - 1 : j \notin Starts(t)
    PROVE  Named(names, t, next)
<1>1. Starts(t) \subseteq 1 .. Len(t)
  BY Zenon, StartsFinite
<1>2. \A j \in Starts(t) : j < next <=> j < pos
  <2> TAKE j \in Starts(t)
  <2>1. j \in Nat
    BY <1>1
  <2> QED  BY <2>1
<1>3. Earlier(t, next) = Earlier(t, pos)
  BY Zenon, <1>2 DEF Earlier
<1> QED  BY Zenon, <1>3 DEF Named

(***************************************************************************)
(* One component starts there, at pos: its name is the next one.           *)
(***************************************************************************)
LEMMA NamedAppend ==
    ASSUME NEW t \in Seq(Nat), NEW names, NEW pos \in Starts(t), NEW next \in Nat, pos < next,
           Named(names, t, pos), \A j \in pos + 1 .. next - 1 : j \notin Starts(t)
    PROVE  Named(Append(names, Run(t, pos)), t, next)
<1>1. Starts(t) \subseteq 1 .. Len(t) /\ Starts(t) \subseteq Nat
  <2>1. Starts(t) \subseteq 1 .. Len(t)
    BY Zenon, StartsFinite
  <2> QED  BY <2>1
<1>2. pos \in Nat
  BY <1>1
<1>3. Earlier(t, next) = Earlier(t, pos) \cup {pos} /\ pos \notin Earlier(t, pos)
  <2>1. \A j \in Starts(t) : j < next <=> j < pos \/ j = pos
    <3> TAKE j \in Starts(t)
    <3>1. j \in Nat
      BY <1>1
    <3> QED  BY <1>2, <3>1
  <2>2. ~(pos < pos)
    BY <1>2
  <2> QED  BY Zenon, <2>1, <2>2 DEF Earlier
<1>4. Rank(t, pos) = Cardinality(Earlier(t, next))
  <2>1. \A j \in Starts(t) : j <= pos <=> j < next
    <3> TAKE j \in Starts(t)
    <3>1. j \in Nat
      BY <1>1
    <3> QED  BY <1>2, <3>1
  <2>2. {j \in Starts(t) : j <= pos} = Earlier(t, next)
    BY Zenon, <2>1 DEF Earlier
  <2> QED  BY Zenon, <2>2 DEF Rank
<1>5. PICK c \in Nat : c = Cardinality(Earlier(t, pos)) /\ IsFiniteSet(Earlier(t, pos))
  <2>1. Earlier(t, pos) \subseteq Starts(t)
    BY Zenon DEF Earlier
  <2> QED  BY Zenon, <2>1, StartsFinite
<1>6. Cardinality(Earlier(t, next)) = c + 1
  BY Zenon, <1>3, <1>5, FS_AddElement
<1>7. PICK S : names \in Seq(S)
  BY Zenon DEF Named, Names
<1>8. PICK r : r = Run(t, pos)
  BY Zenon
<1>9. PICK more : more = Append(names, r)
  BY Zenon
<1>10. Len(names) = c
  BY Zenon, <1>5 DEF Named
<1>11. /\ more \in Seq(S \cup {r}) /\ Len(more) = c + 1 /\ more[c + 1] = r
       /\ \A n \in 1 .. c : more[n] = names[n]
  <2>1. names \in Seq(S \cup {r})
    BY <1>7
  <2> QED  BY <1>7, <1>9, <1>10, <2>1
<1>12. ASSUME NEW n \in 1 .. c + 1
       PROVE  \E i \in Starts(t) : Rank(t, i) = n /\ more[n] = Run(t, i)
  <2>1. CASE n = c + 1
    BY Zenon, <1>4, <1>6, <1>8, <1>11, <2>1
  <2>2. CASE n # c + 1
    <3>1. n \in 1 .. c
      BY <2>2
    <3>2. \E i \in Starts(t) : Rank(t, i) = n /\ names[n] = Run(t, i)
      BY Zenon, <1>10, <3>1 DEF Named
    <3> QED  BY Zenon, <1>11, <3>1, <3>2
  <2> QED  BY <2>1, <2>2
<1>13. Named(more, t, next)
  BY Zenon, <1>6, <1>11, <1>12 DEF Named, Names
<1> QED  BY Zenon, <1>8, <1>9, <1>13

(***************************************************************************)
(* strchr finds the first slash of a string, or none.                      *)
(***************************************************************************)
FirstSlash(m, s, n, d) ==
    d \in 0 .. n - 1 /\ m[s + d] = SLASH /\ \A k \in 0 .. d - 1 : m[s + k] # SLASH

NoSlash(m, s, n) == \A k \in 0 .. n - 1 : m[s + k] # SLASH

(***************************************************************************)
(* strchr finds the first slash of a string, or there is none.             *)
(***************************************************************************)
LEMMA StrchrSlash ==
    ASSUME NEW m, NEW s, NEW n, Ends(m, s, n)
    PROVE  \/ NoSlash(m, s, n) /\ strchr(m, s, SLASH) = NULL
           \/ \E d : FirstSlash(m, s, n, d) /\ strchr(m, s, SLASH) = s + d
<1>0. s \in Nat /\ n \in Nat /\ SLASH # NUL
  BY DEF Ends, SLASH, NUL
<1> DEFINE hits == {a \in Area(s, n) : m[a] = SLASH}
<1>1. strchr(m, s, SLASH) = IF hits # {} THEN Min(hits) ELSE NULL
  <2>1. strlen(m, s) = n
    BY Zenon, EndsStrlen
  <2> QED  BY Zenon, <1>0, <2>1 DEF strchr
<1>2. CASE hits = {}
  <2>1. ASSUME NEW k \in 0 .. n - 1 PROVE m[s + k] # SLASH
    <3>1. s + k \in Area(s, n)
      BY <1>0 DEF Area
    <3> QED  BY Zenon, <1>2, <3>1
  <2> HIDE DEF hits
  <2> QED  BY Zenon, <1>1, <1>2, <2>1 DEF NoSlash
<1>3. CASE hits # {}
  <2>1. hits \in SUBSET Nat
    BY <1>0 DEF Area
  <2>2. PICK e : e = Min(hits)
    OBVIOUS
  <2>3. e \in hits /\ \A y \in hits : e <= y
    <3> HIDE DEF hits
    <3> QED  BY Zenon, <1>3, <2>1, <2>2, Least
  <2>4. e \in Area(s, n) /\ m[e] = SLASH
    BY Zenon, <2>3
  <2>5. PICK d \in 0 .. n - 1 : e = s + d
    <3>1. e - s \in 0 .. n - 1 /\ e = s + (e - s)
      BY <1>0, <2>4 DEF Area
    <3> QED  BY <3>1
  <2>6. ASSUME NEW k \in 0 .. d - 1 PROVE m[s + k] # SLASH
    <3>1. s + k \in Area(s, n) /\ ~(e <= s + k)
      BY <1>0, <2>5 DEF Area
    <3> QED  BY Zenon, <2>3, <3>1
  <2>7. FirstSlash(m, s, n, d)
    BY Zenon, <2>4, <2>5, <2>6 DEF FirstSlash
  <2> HIDE DEF hits
  <2> QED  BY Zenon, <1>1, <1>3, <2>2, <2>5, <2>7
<1> QED  BY <1>2, <1>3

(***************************************************************************)
(* The walk is at the character of t with index pos; token is its address, *)
(* and the path from there on is as it was.                                *)
(***************************************************************************)
Walk(at, m, p, t, pos) ==
    /\ pos \in 1 .. Len(t) + 1
    /\ DOMAIN at.m = DOMAIN m /\ Bytes(at.m)
    /\ \A i \in pos .. Len(t) + 1 : at.m[p + i - 1] = m[p + i - 1]
    /\ \/ at.token = NULL /\ pos = Len(t) + 1
       \/ at.token = p + pos - 1 /\ (pos = 1 \/ t[pos - 1] = SLASH)
    /\ Named(at.names, t, pos)

(***************************************************************************)
(* What is left of the path, as the string at token.                       *)
(***************************************************************************)
Path(m, p, t) == Ends(m, p, Len(t)) /\ IsText(t, m, p, Len(t)) /\ Bytes(m)

Left(p, t, pos, n, token) == pos <= Len(t) /\ n = Len(t) + 1 - pos /\ token = p + pos - 1

Spells(m, a, t, pos, n) == \A k \in 0 .. n - 1 : m[a + k] = t[pos + k]

Rest(at, t, pos, n, token) ==
    /\ n \in Nat /\ n > 0 /\ token \in Nat /\ at.token = token
    /\ Ends(at.m, token, n)
    /\ Spells(at.m, token, t, pos, n)
    /\ at.m[token] # NUL

(***************************************************************************)
(* At token there is a string, and it is the rest of the path.             *)
(***************************************************************************)
LEMMA RestOfPath ==
    ASSUME NEW m, NEW p, NEW t, Path(m, p, t),
           NEW at, NEW pos, Walk(at, m, p, t, pos), NEW n, NEW token, Left(p, t, pos, n, token)
    PROVE  Rest(at, t, pos, n, token)
<1>a. /\ Ends(m, p, Len(t)) /\ IsText(t, m, p, Len(t)) /\ Bytes(m)
  BY Zenon DEF Path
<1>b. pos <= Len(t) /\ n = Len(t) + 1 - pos /\ token = p + pos - 1
  BY Zenon DEF Left
<1>0. p \in Nat /\ Len(t) \in Nat /\ pos \in 1 .. Len(t) /\ t \in Seq(Nat)
      /\ DOMAIN m \subseteq Nat /\ DOMAIN at.m = DOMAIN m
  BY <1>a, <1>b DEF Ends, IsText, Walk
<1>1. n \in Nat /\ n > 0 /\ token \in Nat
  BY <1>0, <1>b
<1>2. at.token = token
  BY <1>0, <1>b DEF Walk
<1>3. ASSUME NEW k \in 0 .. n
      PROVE  /\ token + k \in DOMAIN m /\ at.m[token + k] = m[token + k]
             /\ token + k = p + (pos - 1 + k)
  <2>1. pos + k \in pos .. Len(t) + 1 /\ token + k = p + (pos + k) - 1
    BY <1>0, <1>1, <1>b
  <2>2. at.m[p + (pos + k) - 1] = m[p + (pos + k) - 1]
    BY Zenon, <2>1 DEF Walk
  <2>3. pos - 1 + k \in 0 .. Len(t) /\ token + k = p + (pos - 1 + k)
    BY <1>0, <1>1, <1>b
  <2>4. p + (pos - 1 + k) \in DOMAIN m
    BY Zenon, <1>a, <2>3 DEF Ends
  <2> QED  BY Zenon, <2>1, <2>2, <2>3, <2>4
<1>4. ASSUME NEW k \in 0 .. n - 1
      PROVE  at.m[token + k] = t[pos + k] /\ at.m[token + k] # NUL
  <2>1. k \in 0 .. n /\ pos - 1 + k \in 0 .. Len(t) - 1 /\ pos + k \in 1 .. Len(t)
        /\ p + (pos + k) - 1 = p + (pos - 1 + k)
    BY <1>0, <1>1, <1>b
  <2>2. m[p + (pos - 1 + k)] # NUL
    BY Zenon, <1>a, <2>1 DEF Ends
  <2>3. t[pos + k] = m[p + (pos + k) - 1]
    BY Zenon, <1>a, <2>1 DEF IsText
  <2>4. at.m[token + k] = m[p + (pos - 1 + k)]
    BY Zenon, <1>3, <2>1
  <2> QED  BY Zenon, <2>1, <2>2, <2>3, <2>4
<1>5. at.m[token + n] = NUL
  <2>1. n \in 0 .. n /\ token + n = p + Len(t)
    BY <1>0, <1>1, <1>b
  <2>2. m[p + Len(t)] = NUL
    BY <1>a DEF Ends
  <2> QED  BY Zenon, <1>3, <2>1, <2>2
<1>6. Ends(at.m, token, n)
  BY Zenon, <1>0, <1>1, <1>3, <1>4, <1>5 DEF Ends
<1>7. at.m[token] # NUL
  <2>1. 0 \in 0 .. n - 1 /\ token + 0 = token
    BY <1>1
  <2> QED  BY Zenon, <1>4, <2>1
<1> QED  BY Zenon, <1>1, <1>2, <1>4, <1>6, <1>7 DEF Rest, Spells

(***************************************************************************)
(* A component that starts at pos is n characters long.                    *)
(***************************************************************************)
LEMMA RunIs ==
    ASSUME NEW t \in Seq(Nat), NEW pos \in 1 .. Len(t), NEW d \in Nat, d > 0, pos + d <= Len(t) + 1,
           \A k \in 0 .. d - 1 : t[pos + k] # SLASH,
           pos + d <= Len(t) => t[pos + d] = SLASH
    PROVE  Run(t, pos) = SubSeq(t, pos, pos + d - 1)
<1>0. Len(t) \in Nat
  OBVIOUS
<1>1. PICK S : S = SlashesAfter(t, pos)
  BY Zenon
<1>2. \A j : j \in S <=> j \in pos + 1 .. Len(t) /\ t[j] = SLASH
  BY Zenon, <1>1 DEF SlashesAfter
<1>3. ASSUME NEW j \in S PROVE j \in Nat /\ pos + d <= j /\ j <= Len(t)
  <2>1. j \in pos + 1 .. Len(t) /\ t[j] = SLASH
    BY Zenon, <1>2
  <2>2. SUFFICES ASSUME j < pos + d PROVE FALSE
    BY <1>0, <2>1
  <2>3. j - pos \in 0 .. d - 1 /\ pos + (j - pos) = j
    BY <1>0, <2>1, <2>2
  <2> QED  BY Zenon, <2>1, <2>3
<1>4. CASE pos + d <= Len(t)
  <2>1. pos + d \in S
    <3>1. pos + d \in pos + 1 .. Len(t)
      BY <1>0, <1>4
    <3> QED  BY Zenon, <1>2, <1>4, <3>1
  <2>2. S \in SUBSET Nat
    BY Zenon, <1>3
  <2>3. Min(S) = pos + d
    BY Zenon, <1>3, <2>1, <2>2, LeastIs
  <2>4. S # {}
    BY Zenon, <2>1
  <2>5. (IF S = {} THEN Len(t) ELSE Min(S) - 1) = pos + d - 1
    BY <2>3, <2>4
  <2> QED  BY Zenon, <1>1, <2>5 DEF Run
<1>5. CASE ~(pos + d <= Len(t))
  <2>1. S = {}
    BY <1>0, <1>3, <1>5
  <2>2. Len(t) = pos + d - 1
    BY <1>0, <1>5
  <2> QED  BY Zenon, <1>1, <2>1, <2>2 DEF Run
<1> QED  BY <1>4, <1>5

(***************************************************************************)
(* The name that a round takes, of d characters.                           *)
(***************************************************************************)
Within(t, pos, d) ==
    t \in Seq(Nat) /\ pos \in 1 .. Len(t) /\ d \in Nat /\ d > 0 /\ pos + d <= Len(t) + 1

(***************************************************************************)
(* The token, cut at the separator, is the text of the path up to it.      *)
(***************************************************************************)
LEMMA NameIsRun ==
    ASSUME NEW t, NEW pos, NEW d, Within(t, pos, d),
           NEW m, NEW token \in Nat, Bytes(m), Ends(m, token, d), Spells(m, token, t, pos, d)
    PROVE  Text(m, token) = SubSeq(t, pos, pos + d - 1)
<1>0. t \in Seq(Nat) /\ pos \in 1 .. Len(t) /\ d \in Nat /\ d > 0 /\ pos + d <= Len(t) + 1
  BY Zenon DEF Within
<1>1. PICK u : u = Text(m, token)
  BY Zenon
<1>2. IsText(u, m, token, d)
  BY Zenon, <1>0, <1>1, EndsText
<1>3. PICK f : f = SubSeq(t, pos, pos + d - 1)
  BY Zenon
<1>4. f \in Seq(Nat) /\ Len(f) = d /\ \A i \in 1 .. d : f[i] = t[pos + i - 1]
  BY <1>0, <1>3
<1>5. ASSUME NEW i \in 1 .. d PROVE u[i] = f[i]
  <2>1. i - 1 \in 0 .. d - 1 /\ token + (i - 1) = token + i - 1 /\ pos + (i - 1) = pos + i - 1
    BY <1>0
  <2>2. u[i] = m[token + i - 1]
    BY Zenon, <1>2 DEF IsText
  <2>3. m[token + (i - 1)] = t[pos + (i - 1)]
    BY Zenon, <2>1 DEF Spells
  <2> QED  BY Zenon, <1>4, <2>1, <2>2, <2>3
<1>6. u \in Seq(Nat) /\ Len(u) = d
  BY Zenon, <1>0, <1>2 DEF IsText
<1>7. u = f
  BY Zenon, <1>0, <1>4, <1>5, <1>6, SameSequence
<1> QED  BY Zenon, <1>1, <1>3, <1>7

(***************************************************************************)
(* A round that ends at a slash, d characters on.                          *)
(***************************************************************************)
LEMMA RoundSlash ==
    ASSUME NEW m, NEW p, NEW t, Path(m, p, t),
           NEW at, NEW pos, Walk(at, m, p, t, pos), NEW n, NEW token, Left(p, t, pos, n, token),
           NEW d, FirstSlash(at.m, token, n, d), strchr(at.m, token, SLASH) = token + d
    PROVE  Walk(NextToken(at), m, p, t, pos + d + 1)
<1>a. /\ Ends(m, p, Len(t)) /\ IsText(t, m, p, Len(t)) /\ Bytes(m)
      /\ pos <= Len(t) /\ n = Len(t) + 1 - pos /\ token = p + pos - 1
  BY Zenon DEF Path, Left
<1>0. /\ p \in Nat /\ Len(t) \in Nat /\ pos \in 1 .. Len(t) /\ t \in Seq(Nat)
      /\ DOMAIN m \subseteq Nat /\ DOMAIN at.m = DOMAIN m /\ Bytes(at.m)
  BY <1>a DEF Ends, IsText, Walk
<1>1. /\ n \in Nat /\ n > 0 /\ token \in Nat /\ at.token = token
      /\ Ends(at.m, token, n) /\ at.m[token] # NUL
      /\ \A k \in 0 .. n - 1 : at.m[token + k] = t[pos + k]
  <2>1. Rest(at, t, pos, n, token)
    BY Zenon, RestOfPath
  <2> QED  BY Zenon, <2>1 DEF Rest, Spells
<1>2. /\ d \in 0 .. n - 1 /\ at.m[token + d] = SLASH
      /\ \A k \in 0 .. d - 1 : at.m[token + k] # SLASH
  BY Zenon DEF FirstSlash
<1>3. d \in Nat /\ pos + d \in pos .. Len(t) /\ pos + d + 1 \in 1 .. Len(t) + 1
  BY <1>0, <1>1, <1>2, <1>a
<1>4. t[pos + d] = SLASH
  BY Zenon, <1>1, <1>2
<1>5. ASSUME NEW k \in 0 .. d - 1 PROVE t[pos + k] # SLASH /\ at.m[token + k] = t[pos + k]
  <2>1. k \in 0 .. n - 1
    BY <1>1, <1>2
  <2> QED  BY ZenonT(60), <1>1, <1>2, <2>1
<1>6. PICK sep \in Nat : sep = token + d
  BY <1>1, <1>3
<1>7. PICK cut : cut = [at.m EXCEPT ![sep] = NUL]
  BY Zenon
<1>8. sep \in DOMAIN at.m
  <2>1. d \in 0 .. n
    BY <1>1, <1>2
  <2> QED  BY Zenon, <1>1, <1>6, <2>1 DEF Ends
<1>9. /\ DOMAIN cut = DOMAIN m
      /\ \A a \in DOMAIN m : cut[a] = IF a = sep THEN NUL ELSE at.m[a]
  BY Zenon, <1>0, <1>7
<1>10. Bytes(cut)
  <2>1. NUL \in Nat
    BY DEF NUL
  <2> QED  BY Zenon, <1>0, <1>9, <2>1 DEF Bytes
<1>11. ASSUME NEW k \in 0 .. d - 1
       PROVE  token + k \in DOMAIN m /\ cut[token + k] = at.m[token + k] /\ at.m[token + k] # NUL
  <2>1. k \in 0 .. n /\ k \in 0 .. n - 1 /\ token + k # sep
    BY <1>1, <1>2, <1>6
  <2> QED  BY ZenonT(60), <1>0, <1>1, <1>9, <2>1 DEF Ends
<1>12. Ends(cut, token, d)
  <2>1. cut[token + d] = NUL
    BY Zenon, <1>0, <1>6, <1>8, <1>9
  <2>2. ASSUME NEW k \in 0 .. d PROVE token + k \in DOMAIN cut
    <3>1. k \in 0 .. d - 1 \/ k = d
      BY <1>3
    <3> QED  BY Zenon, <1>0, <1>6, <1>8, <1>9, <1>11, <3>1
  <2> QED  BY Zenon, <1>0, <1>1, <1>3, <1>9, <1>11, <2>1, <2>2 DEF Ends
<1>13. strlen(cut, token) = d
  BY Zenon, <1>12, EndsStrlen
<1>14. PICK names : names = IF d > 0 THEN Append(at.names, Text(cut, token)) ELSE at.names
  BY Zenon
<1>15. PICK next : next = [m |-> cut, token |-> sep + 1, names |-> names]
  BY ZenonT(60)
<1>16. NextToken(at) = next
  <2>1. sep # NULL /\ token # NULL
    BY <1>1 DEF NULL
  <2>2. strchr(at.m, at.token, SLASH) = sep
    BY Zenon, <1>1, <1>6
  <2>3. ~(at.token = NULL \/ at.m[at.token] = NUL)
    BY Zenon, <1>1, <2>1
  <2>4. NextToken(at) = [m |-> cut, token |-> sep + 1,
                         names |-> IF strlen(cut, at.token) > 0
                                   THEN Append(at.names, Text(cut, at.token))
                                   ELSE at.names]
    BY ZenonT(60), <1>7, <2>1, <2>2, <2>3 DEF NextToken
  <2> QED  BY Zenon, <1>1, <1>13, <1>14, <1>15, <2>4
<1>17. next.m = cut /\ next.token = sep + 1 /\ next.names = names
  BY <1>15
<1>18. PICK q \in Nat : q = pos + d + 1
  BY <1>0, <1>3
<1>19. ASSUME NEW i \in q .. Len(t) + 1 PROVE cut[p + i - 1] = m[p + i - 1]
  <2>1. i \in pos .. Len(t) + 1 /\ p + i - 1 # sep /\ i - 1 \in 0 .. Len(t)
        /\ p + (i - 1) = p + i - 1
    BY <1>0, <1>3, <1>6, <1>18, <1>a
  <2>2. p + i - 1 \in DOMAIN m
    BY Zenon, <1>a, <2>1 DEF Ends
  <2>3. at.m[p + i - 1] = m[p + i - 1]
    BY Zenon, <2>1 DEF Walk
  <2> QED  BY ZenonT(60), <1>9, <2>1, <2>2, <2>3
<1>20. ASSUME NEW j \in pos + 1 .. q - 1 PROVE j \notin Starts(t)
  <2>1. CASE j = pos + d
    BY Zenon, <1>4, <2>1 DEF Starts
  <2>2. CASE j # pos + d
    <3>1. j - 1 - pos \in 0 .. d - 1 /\ pos + (j - 1 - pos) = j - 1 /\ j # 1
      BY <1>0, <1>3, <1>18, <2>2
    <3>2. t[j - 1] # SLASH
      BY Zenon, <1>5, <3>1
    <3> QED  BY ZenonT(60), <3>1, <3>2 DEF Starts
  <2> QED  BY <2>1, <2>2
<1>21. Named(at.names, t, pos)
  BY Zenon DEF Walk
<1>22. Named(names, t, q)
  <2>1. CASE d = 0
    <3>1. names = at.names
      BY <1>14, <2>1
    <3>2. pos \notin Starts(t)
      <4>1. pos + d = pos
        BY <1>0, <2>1
      <4> QED  BY Zenon, <1>4, <4>1 DEF Starts
    <3>3. ASSUME NEW j \in pos .. q - 1 PROVE j \notin Starts(t)
      <4>1. j = pos
        BY SMTT(30), <1>0, <1>18, <2>1
      <4> QED  BY ZenonT(60), <3>2, <4>1
    <3>4. pos \in Nat /\ pos <= q
      BY <1>0, <1>18, <2>1
    <3> QED  BY Zenon, <1>0, <1>21, <3>1, <3>3, <3>4, NamedStays
  <2>2. CASE d # 0
    <3>1. d > 0
      BY <1>3, <2>2
    <3>2. pos \in Starts(t)
      <4>1. 0 \in 0 .. d - 1 /\ pos + 0 = pos /\ pos \in DOMAIN t
        BY <1>0, <1>3, <3>1
      <4>2. t[pos] # SLASH
        BY Zenon, <1>5, <4>1
      <4>3. pos = 1 \/ t[pos - 1] = SLASH
        BY <1>0 DEF Walk
      <4> QED  BY Zenon, <4>1, <4>2, <4>3 DEF Starts
    <3>3. Text(cut, token) = Run(t, pos)
      <4>1. pos + d <= Len(t) + 1 /\ pos + d <= Len(t)
        BY <1>0, <1>3
      <4>2. Run(t, pos) = SubSeq(t, pos, pos + d - 1)
        BY Zenon, <1>0, <1>3, <1>4, <1>5, <3>1, <4>1, RunIs
      <4>3. Spells(cut, token, t, pos, d)
        BY Zenon, <1>5, <1>11 DEF Spells
      <4>4. Text(cut, token) = SubSeq(t, pos, pos + d - 1)
        <5>1. Within(t, pos, d)
          BY ZenonT(60), <1>0, <1>3, <3>1, <4>1 DEF Within
        <5>2. token \in Nat
          BY <1>1
        <5> QED  BY SMTT(30), <1>10, <1>12, <4>3, <5>1, <5>2, NameIsRun
      <4> QED  BY ZenonT(60), <4>2, <4>4
    <3>4. names = Append(at.names, Run(t, pos))
      BY Zenon, <1>14, <3>1, <3>3
    <3>5. pos < q
      BY <1>0, <1>3, <1>18
    <3>6. Named(Append(at.names, Run(t, pos)), t, q)
      BY Zenon, <1>0, <1>18, <1>20, <1>21, <3>2, <3>5, NamedAppend
    <3> QED  BY Zenon, <3>4, <3>6
  <2> QED  BY <2>1, <2>2
<1>23. next.token = p + q - 1 /\ t[q - 1] = SLASH
  <2>1. sep + 1 = p + q - 1 /\ q - 1 = pos + d
    BY <1>0, <1>3, <1>6, <1>18, <1>a
  <2> QED  BY ZenonT(60), <1>4, <1>17, <2>1
<1>24. Walk(next, m, p, t, q)
  BY Zenon, <1>3, <1>9, <1>10, <1>17, <1>18, <1>19, <1>22, <1>23 DEF Walk
<1> QED  BY Zenon, <1>16, <1>18, <1>24

(***************************************************************************)
(* A round that takes the last component: no slash is left.                *)
(***************************************************************************)
LEMMA RoundLast ==
    ASSUME NEW m, NEW p, NEW t, Path(m, p, t),
           NEW at, NEW pos, Walk(at, m, p, t, pos), NEW n, NEW token, Left(p, t, pos, n, token),
           NoSlash(at.m, token, n), strchr(at.m, token, SLASH) = NULL
    PROVE  Walk(NextToken(at), m, p, t, Len(t) + 1)
<1>a. Ends(m, p, Len(t)) /\ IsText(t, m, p, Len(t)) /\ Bytes(m)
  BY Zenon DEF Path
<1>b. pos <= Len(t) /\ n = Len(t) + 1 - pos /\ token = p + pos - 1
  BY Zenon DEF Left
<1>0. /\ p \in Nat /\ Len(t) \in Nat /\ pos \in 1 .. Len(t) /\ t \in Seq(Nat)
      /\ DOMAIN at.m = DOMAIN m /\ Bytes(at.m)
  BY <1>a, <1>b DEF Ends, IsText, Walk
<1>1. Rest(at, t, pos, n, token)
  BY Zenon, RestOfPath
<1>2. /\ n \in Nat /\ n > 0 /\ token \in Nat /\ at.token = token
      /\ Ends(at.m, token, n) /\ at.m[token] # NUL /\ Spells(at.m, token, t, pos, n)
  BY Zenon, <1>1 DEF Rest
<1>3. ASSUME NEW k \in 0 .. n - 1 PROVE t[pos + k] # SLASH
  BY Zenon, <1>2 DEF Spells, NoSlash
<1>4. strlen(at.m, token) = n
  BY Zenon, <1>2, EndsStrlen
<1>5. PICK names : names = Append(at.names, Text(at.m, token))
  BY Zenon
<1>6. PICK next : next = [m |-> at.m, token |-> NULL, names |-> names]
  BY ZenonT(60)
<1>7. NextToken(at) = next
  <2>1. token # NULL
    BY <1>2 DEF NULL
  <2>2. NextToken(at) = [m |-> at.m, token |-> NULL,
                         names |-> IF strlen(at.m, token) > 0
                                   THEN Append(at.names, Text(at.m, token))
                                   ELSE at.names]
    BY Zenon, <1>2, <2>1 DEF NextToken
  <2> QED  BY Zenon, <1>2, <1>4, <1>5, <1>6, <2>2
<1>8. next.m = at.m /\ next.token = NULL /\ next.names = names
  BY <1>6
<1>9. PICK q \in Nat : q = Len(t) + 1
  BY <1>0
<1>10. pos \in Starts(t)
  <2>1. 0 \in 0 .. n - 1 /\ pos + 0 = pos /\ pos \in DOMAIN t
    BY <1>0, <1>2
  <2>2. t[pos] # SLASH
    BY Zenon, <1>3, <2>1
  <2>3. pos = 1 \/ t[pos - 1] = SLASH
    BY <1>0 DEF Walk
  <2> QED  BY Zenon, <2>1, <2>2, <2>3 DEF Starts
<1>11. ASSUME NEW j \in pos + 1 .. q - 1 PROVE j \notin Starts(t)
  <2>1. j - 1 - pos \in 0 .. n - 1 /\ pos + (j - 1 - pos) = j - 1 /\ j # 1
    BY <1>0, <1>b, <1>9
  <2>2. t[j - 1] # SLASH
    BY Zenon, <1>3, <2>1
  <2> QED  BY Zenon, <2>1, <2>2 DEF Starts
<1>12. Text(at.m, token) = Run(t, pos)
  <2>1. pos + n <= Len(t) + 1 /\ ~(pos + n <= Len(t))
    BY <1>0, <1>b
  <2>2. Run(t, pos) = SubSeq(t, pos, pos + n - 1)
    BY Zenon, <1>0, <1>2, <1>3, <2>1, RunIs
  <2>3. Within(t, pos, n)
    BY Zenon, <1>0, <1>2, <2>1 DEF Within
  <2>4. Text(at.m, token) = SubSeq(t, pos, pos + n - 1)
    <3>1. token \in Nat
      BY Zenon, <1>2
    <3>2. Bytes(at.m) /\ Ends(at.m, token, n) /\ Spells(at.m, token, t, pos, n)
      BY Zenon, <1>0, <1>2
    <3> QED  BY <2>3, <3>1, <3>2, NameIsRun
  <2> QED  BY Zenon, <2>2, <2>4
<1>13. Named(names, t, q)
  <2>1. Named(at.names, t, pos)
    BY Zenon DEF Walk
  <2>2. pos < q
    BY <1>0, <1>9
  <2>3. Named(Append(at.names, Run(t, pos)), t, q)
    BY Zenon, <1>0, <1>9, <1>10, <1>11, <2>1, <2>2, NamedAppend
  <2> QED  BY Zenon, <1>5, <1>12, <2>3
<1>14. ASSUME NEW i \in q .. Len(t) + 1 PROVE at.m[p + i - 1] = m[p + i - 1]
  <2>1. i \in pos .. Len(t) + 1
    BY <1>0, <1>9
  <2> QED  BY Zenon, <2>1 DEF Walk
<1>15. q \in 1 .. Len(t) + 1
  BY <1>0, <1>9
<1>16. Walk(next, m, p, t, q)
  BY Zenon, <1>0, <1>8, <1>9, <1>13, <1>14, <1>15 DEF Walk
<1> QED  BY Zenon, <1>7, <1>9, <1>16

(***************************************************************************)
(* A round of the loop moves the token on, or the path has ended.          *)
(***************************************************************************)
Beyond(t, pos, k) == pos \in Nat /\ (pos > k \/ pos = Len(t) + 1)

(***************************************************************************)
(* A round of the loop of vfs_resolve_path moves the walk on by at least a *)
(* character, unless it is at the end.                                     *)
(***************************************************************************)
LEMMA Round ==
    ASSUME NEW m, NEW p, NEW t, Path(m, p, t), NEW at, NEW k \in Nat,
           \E pos : Walk(at, m, p, t, pos) /\ Beyond(t, pos, k)
    PROVE  \E pos : Walk(NextToken(at), m, p, t, pos) /\ Beyond(t, pos, k + 1)
<1>a. Ends(m, p, Len(t)) /\ IsText(t, m, p, Len(t)) /\ Bytes(m)
  BY Zenon DEF Path
<1>b. PICK pos : Walk(at, m, p, t, pos) /\ Beyond(t, pos, k)
  OBVIOUS
<1>0. Len(t) \in Nat /\ p \in Nat /\ pos \in 1 .. Len(t) + 1
  BY <1>a, <1>b DEF Ends, IsText, Walk
<1>1. CASE pos = Len(t) + 1
  <2>1. at.token = NULL \/ at.m[at.token] = NUL
    <3>1. p + pos - 1 = p + Len(t) /\ pos \in pos .. Len(t) + 1
      BY <1>0, <1>1
    <3>2. at.m[p + pos - 1] = m[p + pos - 1]
      BY Zenon, <1>b, <3>1 DEF Walk
    <3>3. m[p + Len(t)] = NUL
      BY Zenon, <1>a DEF Ends
    <3>4. at.token = NULL \/ at.token = p + pos - 1
      BY Zenon, <1>b DEF Walk
    <3> QED  BY Zenon, <3>1, <3>2, <3>3, <3>4
  <2>2. NextToken(at) = at
    BY Zenon, <2>1 DEF NextToken
  <2>3. Beyond(t, pos, k + 1)
    BY Zenon, <1>1, <1>b DEF Beyond
  <2> QED  BY Zenon, <1>b, <2>2, <2>3
<1>2. CASE pos # Len(t) + 1
  <2>1. PICK n : n = Len(t) + 1 - pos
    OBVIOUS
  <2>2. PICK token : token = p + pos - 1
    OBVIOUS
  <2>3. Left(p, t, pos, n, token)
    <3>1. pos <= Len(t)
      BY <1>0, <1>2
    <3> QED  BY Zenon, <2>1, <2>2, <3>1 DEF Left
  <2>4. Rest(at, t, pos, n, token)
    BY Zenon, <1>b, <2>3, RestOfPath
  <2>5. Ends(at.m, token, n)
    BY Zenon, <2>4 DEF Rest
  <2>6. pos > k /\ k \in Nat /\ pos \in Nat
    BY <1>0, <1>2, <1>b DEF Beyond
  <2>7. CASE NoSlash(at.m, token, n) /\ strchr(at.m, token, SLASH) = NULL
    <3>1. Walk(NextToken(at), m, p, t, Len(t) + 1)
      BY Zenon, <1>b, <2>3, <2>7, RoundLast
    <3>2. Beyond(t, Len(t) + 1, k + 1)
      BY <1>0 DEF Beyond
    <3> QED  BY Zenon, <3>1, <3>2
  <2>8. ASSUME NEW d, FirstSlash(at.m, token, n, d), strchr(at.m, token, SLASH) = token + d
        PROVE  \E q : Walk(NextToken(at), m, p, t, q) /\ Beyond(t, q, k + 1)
    <3>1. Walk(NextToken(at), m, p, t, pos + d + 1)
      BY Zenon, <1>b, <2>3, <2>8, RoundSlash
    <3>2. d \in Nat
      <4>1. n \in Nat /\ d \in 0 .. n - 1
        BY Zenon, <2>4, <2>8 DEF Rest, FirstSlash
      <4> QED  BY <4>1
    <3>3. Beyond(t, pos + d + 1, k + 1)
      BY <2>6, <3>2 DEF Beyond
    <3> QED  BY Zenon, <3>1, <3>3
  <2>9. \/ NoSlash(at.m, token, n) /\ strchr(at.m, token, SLASH) = NULL
        \/ \E d : FirstSlash(at.m, token, n, d) /\ strchr(at.m, token, SLASH) = token + d
    BY Zenon, <2>5, StrchrSlash
  <2> QED  BY Zenon, <2>7, <2>8, <2>9
<1> QED  BY <1>1, <1>2

(***************************************************************************)
(* The loop of vfs_resolve_path, round by round, from its first token.     *)
(***************************************************************************)
Walking(f, n, start) ==
    f = [k \in 0 .. n |-> IF k = 0 THEN start ELSE NextToken(f[k - 1])]

(***************************************************************************)
(* There is a function that does what n rounds of the loop do.             *)
(***************************************************************************)
LEMMA WalkingExists ==
    ASSUME NEW start
    PROVE  \A n \in Nat : \E f : Walking(f, n, start)
<1> DEFINE Good == {n \in Nat : \E f : Walking(f, n, start)}
<1>1. 0 \in Good
  <2> DEFINE f == [k \in 0 .. 0 |-> start]
  <2>1. Walking(f, 0, start)
    BY DEF Walking
  <2> HIDE DEF f
  <2> QED  BY <2>1
<1>2. ASSUME NEW n \in Nat, n \in Good PROVE n + 1 \in Good
  <2>1. PICK f : Walking(f, n, start)
    BY <1>2
  <2> DEFINE Then(h, k) == IF k = 0 THEN start ELSE NextToken(h[k - 1])
             more == [k \in 0 .. n + 1 |-> IF k = n + 1 THEN Then(f, n + 1) ELSE f[k]]
  <2>2. ASSUME NEW k \in 0 .. n + 1 PROVE more[k] = Then(more, k)
    <3>1. CASE k = n + 1
      <4>1. more[k - 1] = f[k - 1]
        BY <3>1
      <4>2. more[k] = Then(f, k)
        BY Zenon, <3>1
      <4> HIDE DEF more
      <4> QED  BY Zenon, <4>1, <4>2
    <3>2. CASE k # n + 1
      <4>1. k \in 0 .. n /\ (k # 0 => k - 1 \in 0 .. n /\ k - 1 # n + 1)
        BY <3>2
      <4>2. f[k] = Then(f, k)
        BY Zenon, <2>1, <4>1 DEF Walking
      <4>3. more[k] = f[k] /\ (k # 0 => more[k - 1] = f[k - 1])
        BY <3>2, <4>1
      <4> HIDE DEF more
      <4> QED  BY Zenon, <4>2, <4>3
    <3> QED  BY <3>1, <3>2
  <2>3. Walking(more, n + 1, start)
    <3>1. more = [k \in 0 .. n + 1 |-> more[k]]
      OBVIOUS
    <3> HIDE DEF more
    <3> QED  BY Zenon, <2>2, <3>1 DEF Walking
  <2> HIDE DEF more
  <2> QED  BY <2>3
<1> HIDE DEF Good
<1>3. \A n \in Nat : n \in Good
  BY <1>1, <1>2, Inductive
<1> QED  BY <1>3 DEF Good

FirstToken(m, p) ==
    [m |-> m, names |-> <<>>, token |-> IF m[p] = SLASH THEN p + 1 ELSE p]

(***************************************************************************)
(* PathNames is what such a function has collected after as many rounds as *)
(* the path has characters.                                                *)
(***************************************************************************)
LEMMA PathNamesAre ==
    ASSUME NEW m, NEW p, NEW n \in Nat, strlen(m, p) = n
    PROVE  \E f : Walking(f, n, FirstToken(m, p)) /\ PathNames(m, p) = f[n].names
<1>1. PICK start : start = FirstToken(m, p)
  OBVIOUS
<1> DEFINE Body(f) == [k \in 0 .. n |-> IF k = 0 THEN start ELSE NextToken(f[k - 1])]
           after == CHOOSE f : f = Body(f)
<1>2. \A f : Walking(f, n, start) <=> f = Body(f)
  BY Zenon DEF Walking
<1>3. PathNames(m, p) = after[n].names
  BY Zenon, <1>1 DEF PathNames, FirstToken
<1>4. \E f : f = Body(f)
  BY Zenon, <1>2, WalkingExists
<1>5. after = Body(after)
  <2> HIDE DEF Body
  <2> QED  BY Zenon, <1>4
<1>6. Walking(after, n, start)
  BY Zenon, <1>2, <1>5
<1> HIDE DEF after
<1> QED  BY Zenon, <1>1, <1>3, <1>6

(***************************************************************************)
(* Where the loop starts: behind a leading slash.                          *)
(***************************************************************************)
LEMMA WalkStarts ==
    ASSUME NEW m, NEW p, NEW t, Path(m, p, t)
    PROVE  \E pos : Walk(FirstToken(m, p), m, p, t, pos) /\ Beyond(t, pos, 0)
<1>a. Ends(m, p, Len(t)) /\ IsText(t, m, p, Len(t)) /\ Bytes(m)
  BY Zenon DEF Path
<1>0. Len(t) \in Nat /\ p \in Nat /\ t \in Seq(Nat)
  BY <1>a DEF Ends, IsText
<1>1. PICK at : at = FirstToken(m, p)
  OBVIOUS
<1>2. at.m = m /\ at.names = <<>> /\ at.token = IF m[p] = SLASH THEN p + 1 ELSE p
  BY Zenon, <1>1 DEF FirstToken
<1>3. Starts(t) \subseteq 1 .. Len(t)
  BY Zenon, <1>0, StartsFinite
<1>4. ASSUME NEW pos \in Nat, Earlier(t, pos) = {} PROVE Named(<<>>, t, pos)
  <2>1. Cardinality(Earlier(t, pos)) = 0
    BY Zenon, <1>4, FS_EmptySet
  <2>2. Len(<<>>) = 0 /\ <<>> \in Seq(Nat) /\ 1 .. 0 = {}
    OBVIOUS
  <2> QED  BY Zenon, <2>1, <2>2 DEF Named, Names
<1>5. CASE m[p] = SLASH
  <2>1. Len(t) > 0
    <3>1. CASE Len(t) = 0
      <4>1. p + 0 = p
        BY <1>0
      <4>2. m[p] = NUL
        BY Zenon, <1>a, <3>1, <4>1 DEF Ends
      <4> QED  BY <1>5, <4>2 DEF NUL, SLASH
    <3> QED  BY <1>0, <3>1
  <2>2. t[1] = SLASH
    <3>1. 1 \in 1 .. Len(t) /\ p + 1 - 1 = p
      BY <1>0, <2>1
    <3>2. t[1] = m[p + 1 - 1]
      BY Zenon, <1>a, <3>1 DEF IsText
    <3> QED  BY Zenon, <1>5, <3>1, <3>2
  <2>3. Earlier(t, 2) = {}
    <3>1. 1 \notin Starts(t)
      BY Zenon, <2>2 DEF Starts
    <3>2. \A j \in Starts(t) : ~(j < 2)
      BY <1>0, <1>3, <3>1
    <3> QED  BY Zenon, <3>2 DEF Earlier
  <2>4. /\ 2 \in 1 .. Len(t) + 1 /\ p + 2 - 1 = p + 1 /\ 2 - 1 = 1 /\ 2 > 0 /\ 2 \in Nat
    BY <1>0, <2>1
  <2>5. Named(at.names, t, 2)
    BY Zenon, <1>2, <1>4, <2>3, <2>4
  <2>6. at.token = p + 2 - 1 /\ t[2 - 1] = SLASH
    BY Zenon, <1>2, <1>5, <2>2, <2>4
  <2>7. Walk(at, m, p, t, 2)
    BY Zenon, <1>2, <1>a, <2>4, <2>5, <2>6 DEF Walk
  <2>8. Beyond(t, 2, 0)
    BY Zenon, <2>4 DEF Beyond
  <2> QED  BY Zenon, <1>1, <2>7, <2>8
<1>6. CASE m[p] # SLASH
  <2>1. Earlier(t, 1) = {}
    <3>1. \A j \in Starts(t) : ~(j < 1)
      BY <1>0, <1>3
    <3> QED  BY Zenon, <3>1 DEF Earlier
  <2>2. 1 \in Nat /\ 1 \in 1 .. Len(t) + 1 /\ p + 1 - 1 = p /\ 1 > 0
    BY <1>0
  <2>3. Named(at.names, t, 1)
    BY Zenon, <1>2, <1>4, <2>1, <2>2
  <2>4. at.token = p + 1 - 1
    BY Zenon, <1>2, <1>6, <2>2
  <2>5. Walk(at, m, p, t, 1)
    BY Zenon, <1>2, <1>a, <2>2, <2>3, <2>4 DEF Walk
  <2>6. Beyond(t, 1, 0)
    BY Zenon, <2>2 DEF Beyond
  <2> QED  BY Zenon, <1>1, <2>5, <2>6
<1> QED  BY <1>5, <1>6

(***************************************************************************)
(* After as many rounds as it has characters the path has ended.           *)
(***************************************************************************)
LEMMA PathSplits ==
    ASSUME NEW m, NEW p, NEW t, Path(m, p, t)
    PROVE  PathNames(m, p) = Components(t)
<1>a. Ends(m, p, Len(t)) /\ IsText(t, m, p, Len(t)) /\ Bytes(m)
  BY Zenon DEF Path
<1>0. Len(t) \in Nat /\ t \in Seq(Nat)
  BY <1>a DEF Ends, IsText
<1>1. PICK n \in Nat : n = Len(t)
  BY Zenon, <1>0
<1>2. strlen(m, p) = n
  BY Zenon, <1>1, <1>a, EndsStrlen
<1>3. PICK f : Walking(f, n, FirstToken(m, p)) /\ PathNames(m, p) = f[n].names
  BY Zenon, <1>2, PathNamesAre
<1> DEFINE There(k) == \E pos : Walk(f[k], m, p, t, pos) /\ Beyond(t, pos, k)
           Good == {k \in Nat : k <= n => There(k)}
<1>4. 0 \in Good
  <2>1. f[0] = FirstToken(m, p)
    <3>1. 0 \in 0 .. n
      OBVIOUS
    <3> QED  BY Zenon, <1>3, <3>1 DEF Walking
  <2>2. There(0)
    BY Zenon, <2>1, WalkStarts
  <2> HIDE DEF There
  <2> QED  BY <2>2
<1>5. ASSUME NEW k \in Nat, k \in Good PROVE k + 1 \in Good
  <2>1. ASSUME k + 1 <= n PROVE There(k + 1)
    <3>1. k + 1 \in 0 .. n /\ k + 1 # 0 /\ k + 1 - 1 = k /\ k <= n
      BY <2>1
    <3>2. f[k + 1] = NextToken(f[k])
      <4>1. PICK j \in 0 .. n : j = k + 1 /\ j # 0 /\ j - 1 = k
        BY <3>1
      <4>2. f[j] = NextToken(f[j - 1])
        BY Zenon, <1>3, <4>1 DEF Walking
      <4> QED  BY Zenon, <4>1, <4>2
    <3>3. There(k)
      BY Zenon, <1>5, <3>1
    <3>4. \E pos : Walk(NextToken(f[k]), m, p, t, pos) /\ Beyond(t, pos, k + 1)
      BY Zenon, <3>3, Round
    <3> QED  BY Zenon, <3>2, <3>4
  <2> HIDE DEF There
  <2> QED  BY <2>1
<1>6. There(n)
  <2> HIDE DEF There
  <2>1. \A k \in Nat : k <= n => There(k)
    <3>1. \A k \in Nat : k \in Good
      <4> HIDE DEF Good
      <4> QED  BY Zenon, <1>4, <1>5, Inductive
    <3> QED  BY Zenon, <3>1
  <2>2. n <= n
    OBVIOUS
  <2> QED  BY Zenon, <2>1, <2>2
<1>7. PICK pos : Walk(f[n], m, p, t, pos) /\ Beyond(t, pos, n)
  BY Zenon, <1>6
<1>8. pos = Len(t) + 1
  BY <1>0, <1>1, <1>7 DEF Walk, Beyond
<1>9. Named(f[n].names, t, Len(t) + 1)
  BY Zenon, <1>7, <1>8 DEF Walk
<1>10. f[n].names = Components(t)
  BY Zenon, <1>0, <1>9, NamedAll
<1> QED  BY Zenon, <1>3, <1>10

(***************************************************************************)
(* Every path in memory, of whatever length and with slashes wherever they *)
(* may be, is split into its components in order by the loop of            *)
(* vfs_resolve_path, although the loop overwrites the separators of the    *)
(* very string it walks.                                                   *)
(***************************************************************************)
THEOREM SplitsEveryPath == Spec => []SplitsPath
<1>1. MemoryOK => SplitsPath
  <2> SUFFICES ASSUME MemoryOK, NEW path \in StringsAt
               PROVE  PathNames(mem, path) = Components(Text(mem, path))
    BY Zenon DEF SplitsPath
  <2>1. Memory(mem) /\ DOMAIN mem = Addr
    BY Zenon, MemIsMemory
  <2>2. path \in DOMAIN mem /\ IsString(mem, path) /\ Block(DOMAIN mem) /\ Bytes(mem)
    BY Zenon, <2>1 DEF StringsAt, Memory
  <2>3. Ends(mem, path, strlen(mem, path))
    BY Zenon, <2>2, StringEnds
  <2>4. PICK t : t = Text(mem, path)
    BY Zenon
  <2>5. IsText(t, mem, path, strlen(mem, path))
    BY Zenon, <2>2, <2>3, <2>4, EndsText
  <2>6. Len(t) = strlen(mem, path)
    BY Zenon, <2>5 DEF IsText
  <2>7. Path(mem, path, t)
    BY Zenon, <2>2, <2>3, <2>5, <2>6 DEF Path
  <2> QED  BY Zenon, <2>4, <2>7, PathSplits
<1>2. Spec => []MemoryOK
  BY MemoryTyped
<1> QED  BY <1>1, <1>2, PTL
=============================================================================
