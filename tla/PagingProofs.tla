--------------------------- MODULE PagingProofs ---------------------------
(***************************************************************************)
(* The address spaces of processes, for every size of memory and of a      *)
(* table and wherever the free frames lie: what each call writes to        *)
(* memory, the invariant that this preserves, and that it implements       *)
(* AddressSpaces.                                                          *)
(***************************************************************************)
EXTENDS ProcessSpaces, WellFoundedInduction, TLAPS

(***************************************************************************)
(* The words of all frames.                                                *)
(***************************************************************************)
Memory == [Frame -> [Entry -> Word]]

(***************************************************************************)
(* A set of numbers that is not empty has a smallest member.               *)
(***************************************************************************)
LEMMA SmallestMember ==
    ASSUME NEW T \in SUBSET Nat, T # {}
    PROVE  \E x \in T : \A y \in T : x <= y
<1>1. PICK x \in T : \A y \in T : ~(<<y, x>> \in OpToRel(<, Nat))
  BY ZenonT(60), NatLessThanWellFounded, WFMin
<1>2. \A y \in T : ~(y < x)
  BY ZenonT(60), <1>1 DEF OpToRel
<1> QED  BY <1>2

(***************************************************************************)
(* Induction: a set that contains 0 and, with every number, the next one   *)
(* contains all of them.                                                   *)
(***************************************************************************)
LEMMA Inductive ==
    ASSUME NEW S, 0 \in S, \A n \in Nat : n \in S => n + 1 \in S
    PROVE  \A n \in Nat : n \in S
<1> DEFINE T == {n \in Nat : n \notin S}
<1> SUFFICES ASSUME T # {} PROVE FALSE
  OBVIOUS
<1>1. PICK x \in T : \A y \in T : x <= y
  <2> HIDE DEF T
  <2>1. T \in SUBSET Nat
    BY DEF T
  <2> QED  BY <2>1, SmallestMember
<1>2. x # 0 /\ x - 1 \in Nat /\ x - 1 \notin T
  BY <1>1
<1> QED  BY <1>1, <1>2

(***************************************************************************)
(* What PagingAssumption says of frames and entries.                       *)
(***************************************************************************)
LEMMA Sizes ==
    /\ ENTRIES \in Nat /\ ENTRIES > 0 /\ FRAMES \in Nat /\ FRAMES > 0
    /\ Frame \subseteq Entry /\ Frame \subseteq Nat /\ 0 \in Frame /\ 0 \in Entry
    /\ 0 \in Taken /\ Taken \subseteq Frame
BY PagingAssumption DEF Frame, Entry

(***************************************************************************)
(* pmm_alloc_frame returns the first free frame, or 0 when there is none.  *)
(***************************************************************************)
LEMMA AllocFrame ==
    ASSUME NEW b
    PROVE  /\ pmm_alloc_frame(b) # 0 =>
                 /\ 0 \in b /\ pmm_alloc_frame(b) \in Frame \ b
                 /\ \A f \in Frame \ b : pmm_alloc_frame(b) <= f
           /\ 0 \in b /\ pmm_alloc_frame(b) = 0 => Frame \subseteq b
<1>1. CASE Free(b) = {}
  BY <1>1 DEF pmm_alloc_frame, Free
<1>2. CASE Free(b) # {}
  <2>1. Free(b) \in SUBSET Nat
    BY Zenon, Sizes DEF Free
  <2>2. \E x \in Free(b) : \A y \in Free(b) : x <= y
    BY <1>2, <2>1, SmallestMember
  <2>3. Min(Free(b)) \in Free(b) /\ \A y \in Free(b) : Min(Free(b)) <= y
    BY <2>2 DEF Min
  <2>4. PICK x : x = pmm_alloc_frame(b)
    OBVIOUS
  <2>5. x \in Frame \ b /\ \A f \in Frame \ b : x <= f
    BY <1>2, <2>3, <2>4 DEF pmm_alloc_frame, Free
  <2>6. x # 0 => 0 \in b
    BY <2>5, Sizes
  <2> QED  BY <2>4, <2>5, <2>6
<1> QED  BY <1>1, <1>2

(***************************************************************************)
(* Writing a word changes that word and no other.                          *)
(***************************************************************************)
LEMMA PutWord ==
    ASSUME NEW m \in Memory, NEW f \in Frame, NEW i \in Entry, NEW w \in Word
    PROVE  /\ Put(m, f, i, w) \in Memory
           /\ Put(m, f, i, w)[f][i] = w
           /\ \A j \in Entry \ {i} : Put(m, f, i, w)[f][j] = m[f][j]
           /\ \A g \in Frame \ {f} : Put(m, f, i, w)[g] = m[g]
BY DEF Put, Memory

(***************************************************************************)
(* Writing behind the end of memory changes nothing; no write changes      *)
(* another frame.                                                          *)
(***************************************************************************)
LEMMA PutAnywhere ==
    ASSUME NEW m \in Memory, NEW f, NEW i \in Entry, NEW w \in Word
    PROVE  /\ Put(m, f, i, w) \in Memory
           /\ \A g \in Frame \ {f} : Put(m, f, i, w)[g] = m[g]
<1>1. CASE f \in Frame
  BY <1>1, PutWord
<1>2. CASE f \notin Frame
  BY <1>2 DEF Put, Memory
<1> QED  BY <1>1, <1>2

(***************************************************************************)
(* A cleared frame, and entries that point to frames, are words.           *)
(***************************************************************************)
LEMMA BlankWords ==
    /\ Blank \in [Entry -> Word]
    /\ \A f \in Frame : Present(f) \in Word /\ Absent(f) \in Word
BY Sizes DEF Blank, Word, Present, Absent

(***************************************************************************)
(* memset clears the frames it is given and no other.                      *)
(***************************************************************************)
LEMMA ClearFrames ==
    ASSUME NEW m \in Memory, NEW S
    PROVE  /\ Clear(m, S) \in Memory
           /\ \A f \in Frame : Clear(m, S)[f] = IF f \in S THEN Blank ELSE m[f]
BY BlankWords DEF Clear, Memory

(***************************************************************************)
(* The start of vmm_init and vmm_create_address_space: the directory and   *)
(* tables_physical are empty, physical_addr is right, as far as they are   *)
(* in memory, and only the three frames of the page_directory_t change.    *)
(***************************************************************************)
LEMMA DirectoryMade ==
    ASSUME NEW m \in Memory, NEW d \in Frame
    PROVE  /\ NewDirectory(m, d) \in Memory
           /\ NewDirectory(m, d)[d] = Blank
           /\ d + 1 \in Frame => NewDirectory(m, d)[d + 1] = Blank
           /\ d + 2 \in Frame => NewDirectory(m, d)[d + 2][0].frame = d
           /\ \A f \in Frame \ {d, d + 1, d + 2} : NewDirectory(m, d)[f] = m[f]
<1> DEFINE c == Clear(m, d .. d + 2)
<1>1. d \in Nat /\ d # d + 2 /\ d + 1 # d + 2
  BY Sizes
<1>2. /\ c \in Memory /\ c[d] = Blank /\ (d + 1 \in Frame => c[d + 1] = Blank)
      /\ \A f \in Frame \ {d, d + 1, d + 2} : c[f] = m[f]
  <2> DEFINE S == d .. d + 2
  <2>0. c = Clear(m, S)
    OBVIOUS
  <2> HIDE DEF S, c
  <2>1. c \in Memory /\ \A f \in Frame : c[f] = IF f \in S THEN Blank ELSE m[f]
    BY <2>0, ClearFrames
  <2>2. \A f \in Frame \ {d, d + 1, d + 2} : f \notin S
    BY Sizes DEF S
  <2>3. d \in S /\ d + 1 \in S
    BY <1>1 DEF S
  <2> QED  BY <2>1, <2>2, <2>3
<1> HIDE DEF c
<1>3. NewDirectory(m, d) = Put(c, d + 2, 0, Absent(d))
  BY DEF NewDirectory, c
<1>4. PICK w \in Word : w = Absent(d) /\ w.frame = d
  BY Zenon, BlankWords DEF Absent
<1>5. PICK z \in Entry : z = 0
  BY Sizes
<1>6. PICK e : e = d + 2
  OBVIOUS
<1>7. PICK N : N = Put(c, e, z, w)
  OBVIOUS
<1>8. N \in Memory /\ \A g \in Frame \ {e} : N[g] = c[g]
  BY <1>2, <1>7, PutAnywhere
<1>9. e \in Frame => N[e][z] = w
  BY <1>2, <1>7, PutWord
<1>10. NewDirectory(m, d) = N
  BY <1>3, <1>4, <1>5, <1>6, <1>7
<1> QED  BY <1>1, <1>2, <1>4, <1>5, <1>6, <1>8, <1>9, <1>10

(***************************************************************************)
(* get_or_create_table: the directory points to the new table, the table   *)
(* is empty, and besides these two only the frame behind the directory,    *)
(* tables_physical, is written. It may be the table itself.                *)
(***************************************************************************)
LEMMA TableMade ==
    ASSUME NEW m \in Memory, NEW d \in Frame, NEW i \in Entry,
           NEW t \in Frame, t # d
    PROVE  /\ NewTable(m, d, i, t) \in Memory
           /\ NewTable(m, d, i, t)[d][i] = Present(t)
           /\ \A j \in Entry \ {i} : NewTable(m, d, i, t)[d][j] = m[d][j]
           /\ NewTable(m, d, i, t)[t] = Blank
           /\ \A f \in Frame \ {d, d + 1, t} : NewTable(m, d, i, t)[f] = m[f]
<1>1. d \in Nat /\ d # d + 1
  BY Sizes
<1>2. Present(t) \in Word /\ Absent(t) \in Word
  BY BlankWords
<1> DEFINE a == Put(m, d, i, Present(t))
           b == Put(a, d + 1, i, Absent(t))
<1>3. /\ a \in Memory /\ a[d][i] = Present(t)
      /\ \A j \in Entry \ {i} : a[d][j] = m[d][j]
      /\ \A g \in Frame \ {d} : a[g] = m[g]
  BY <1>2, PutWord
<1> HIDE DEF a
<1>4. b \in Memory /\ \A g \in Frame \ {d + 1} : b[g] = a[g]
  BY <1>2, <1>3, PutAnywhere
<1> HIDE DEF b
<1>5. NewTable(m, d, i, t) = Clear(b, {t})
  BY DEF NewTable, a, b
<1> QED  BY <1>1, <1>3, <1>4, <1>5, ClearFrames

(***************************************************************************)
(* What vmm_create_address_space writes: the new directory holds the       *)
(* entries that the kernel's directory has, and no frame below it changes. *)
(***************************************************************************)
LEMMA CreateMemory ==
    ASSUME mem \in Memory, NEW dir \in Frame, kernel_directory \in Frame,
           kernel_directory < dir, mem' = CopyKernel(NewDirectory(mem, dir), dir)
    PROVE  /\ mem' \in Memory
           /\ \A f \in Frame : f < dir \/ f > dir + 2 => mem'[f] = mem[f]
           /\ \A i \in Entry :
                 mem'[dir][i] = IF mem[kernel_directory][i].present
                                THEN mem[kernel_directory][i] ELSE Absent(0)
           /\ dir + 1 \in Frame => mem'[dir + 1] = Blank
           /\ dir + 2 \in Frame => mem'[dir + 2][0].frame = dir
<1> DEFINE m == NewDirectory(mem, dir)
<1>1. /\ m \in Memory /\ m[dir] = Blank
      /\ dir + 1 \in Frame => m[dir + 1] = Blank
      /\ dir + 2 \in Frame => m[dir + 2][0].frame = dir
      /\ \A f \in Frame \ {dir, dir + 1, dir + 2} : m[f] = mem[f]
  BY DirectoryMade
<1> HIDE DEF m
<1>2. dir \in Nat /\ dir # dir + 1 /\ dir # dir + 2
  BY Sizes
<1>3. m[kernel_directory] = mem[kernel_directory] /\ mem[kernel_directory] \in [Entry -> Word]
  BY <1>1, <1>2, Sizes DEF Memory
<1>4. mem' = [m EXCEPT ![dir] = [i \in Entry |->
                 IF mem[kernel_directory][i].present
                 THEN mem[kernel_directory][i] ELSE m[dir][i]]]
  BY <1>3 DEF CopyKernel, m
<1>5. \A i \in Entry : m[dir][i] = Absent(0)
  BY <1>1 DEF Blank
<1>6. Absent(0) \in Word
  BY Sizes, BlankWords
<1>7. mem' \in Memory
  BY <1>1, <1>3, <1>4, <1>5, <1>6 DEF Memory
<1>8. \A i \in Entry : mem'[dir][i] = IF mem[kernel_directory][i].present
                                THEN mem[kernel_directory][i] ELSE Absent(0)
  BY <1>1, <1>4, <1>5 DEF Memory
<1>9. \A f \in Frame \ {dir} : mem'[f] = m[f]
  BY <1>1, <1>4 DEF Memory
<1>10. \A f \in Frame : f < dir \/ f > dir + 2 => mem'[f] = mem[f]
  <2>1. \A f \in Frame : f < dir \/ f > dir + 2 => f \notin {dir, dir + 1, dir + 2}
    BY <1>2, Sizes
  <2> QED  BY <1>1, <1>9, <2>1
<1> QED  BY <1>1, <1>2, <1>7, <1>8, <1>9, <1>10

(***************************************************************************)
(* The equation that the loop of vmm_init satisfies.                       *)
(***************************************************************************)
IdentityMap(f, dir) ==
    [n \in 0 .. ENTRIES |->
        IF n = 0
        THEN [mem |-> NewDirectory(mem, dir), bitmap |-> frame_bitmap \cup {dir}, table |-> 0]
        ELSE LET last == f[n - 1]
             IN  Mapped(last.mem, last.bitmap, dir, 0, n - 1, n - 1)]

(***************************************************************************)
(* Memory after n rounds of that loop: table t maps the first n pages to   *)
(* themselves.                                                             *)
(***************************************************************************)
Filled(m, t, n) ==
    [f \in Frame |-> IF f = t
                     THEN [p \in Entry |-> IF p < n THEN Present(p) ELSE Absent(0)]
                     ELSE m[f]]

(***************************************************************************)
(* One round of the loop.                                                  *)
(***************************************************************************)
LEMMA FillStep ==
    ASSUME NEW m \in Memory, NEW t \in Frame, NEW n \in Entry
    PROVE  Put(Filled(m, t, n), t, n, Present(n)) = Filled(m, t, n + 1)
<1>1. n \in Nat /\ Entry \subseteq Nat
  BY Sizes DEF Entry
<1>2. \A p \in Entry : p < n + 1 <=> (p < n \/ p = n)
  BY <1>1
<1>3. [[p \in Entry |-> IF p < n THEN Present(p) ELSE Absent(0)] EXCEPT ![n] = Present(n)]
      = [p \in Entry |-> IF p < n + 1 THEN Present(p) ELSE Absent(0)]
  BY ZenonT(60), <1>1, <1>2
<1> QED  BY Zenon, <1>3 DEF Put, Filled

(***************************************************************************)
(* Before the first round.                                                 *)
(***************************************************************************)
LEMMA FillStart ==
    ASSUME NEW m \in Memory, NEW t \in Frame, m[t] = Blank
    PROVE  Filled(m, t, 0) = m
<1>1. \A p \in Entry : ~(p < 0)
  BY DEF Entry
<1>2. [p \in Entry |-> IF p < 0 THEN Present(p) ELSE Absent(0)] = Blank
  BY SMTT(30), <1>1 DEF Blank
<1> QED  BY <1>2 DEF Filled, Memory

(***************************************************************************)
(* What vmm_init leaves: a directory whose only entry is a table that maps *)
(* every page to itself. Its first round allocates the table, the others   *)
(* find it.                                                                *)
(***************************************************************************)
LEMMA InitMemory ==
    ASSUME mem \in Memory, frame_bitmap = Taken, vmm_init
    PROVE  \E dir, t \in Frame \ Taken :
              /\ dir < t
              /\ mem' \in Memory
              /\ mem'[dir][0] = Present(t)
              /\ \A i \in Entry \ {0} : mem'[dir][i] = Absent(0)
              /\ dir + 2 \in Frame /\ dir + 2 # t => mem'[dir + 2][0].frame = dir
              /\ \A p \in Entry : mem'[t][p] = Present(p)
              /\ spaces = {} /\ kernel_directory = 0
              /\ frame_bitmap' = Taken \cup {dir, t}
              /\ \A f \in Frame \ frame_bitmap' : t <= f
              /\ kernel_directory' = dir /\ current_directory' = dir
              /\ cr3' = physical_addr(mem', dir) /\ spaces' = {dir}
<1>1. PICK dir : dir = pmm_alloc_frame(frame_bitmap)
  OBVIOUS
<1>2. /\ kernel_directory = 0 /\ spaces = {} /\ dir # 0
      /\ kernel_directory' = dir /\ current_directory' = dir
      /\ cr3' = physical_addr(mem', dir) /\ spaces' = {dir}
  BY <1>1 DEF vmm_init
<1>3. frame_bitmap = Taken
  OBVIOUS
<1>4. /\ dir \in Frame /\ dir \in Nat /\ dir \notin Taken
      /\ \A f \in Frame \ Taken : dir <= f
  BY Zenon, <1>1, <1>2, <1>3, AllocFrame, Sizes
<1>5. PICK t : t = pmm_alloc_frame(frame_bitmap \cup {dir})
  OBVIOUS
<1>6. /\ t # 0 /\ t \in Frame /\ t \notin Taken /\ t # dir
      /\ \A f \in Frame \ (Taken \cup {dir, t}) : t <= f
  <2> DEFINE b == frame_bitmap \cup {dir}
  <2>1. t = pmm_alloc_frame(b) /\ 0 \in b /\ ~(Frame \subseteq b) /\ b = Taken \cup {dir}
    BY <1>3, <1>5, Sizes, BootAssumption
  <2> HIDE DEF b
  <2>2. t # 0 /\ t \in Frame \ b /\ \A f \in Frame \ b : t <= f
    BY <2>1, AllocFrame
  <2> QED  BY <2>1, <2>2
<1>7. PICK D : D = NewDirectory(mem, dir)
  OBVIOUS
<1>8. /\ D \in Memory /\ D[dir] = Blank
      /\ dir + 2 \in Frame => D[dir + 2][0].frame = dir
  BY <1>4, <1>7, DirectoryMade
<1>9. PICK N : N = NewTable(D, dir, 0, t)
  BY SMTT(30)
<1>10. /\ N \in Memory /\ N[dir][0] = Present(t) /\ N[t] = Blank
       /\ \A i \in Entry \ {0} : N[dir][i] = Absent(0)
       /\ dir + 2 \in Frame /\ dir + 2 # t => N[dir + 2][0].frame = dir
  <2>1. dir + 2 \in Frame /\ dir + 2 # t => dir + 2 \in Frame \ {dir, dir + 1, t}
    BY <1>4, <1>6
  <2>2. /\ N \in Memory /\ N[dir][0] = Present(t) /\ N[t] = Blank
        /\ \A i \in Entry \ {0} : N[dir][i] = D[dir][i]
        /\ \A f \in Frame \ {dir, dir + 1, t} : N[f] = D[f]
    <3>1. PICK z \in Entry : z = 0
      BY Sizes
    <3>2. N = NewTable(D, dir, z, t)
      BY <1>9, <3>1
    <3>3. /\ N \in Memory /\ N[dir][z] = Present(t) /\ N[t] = Blank
          /\ \A i \in Entry \ {z} : N[dir][i] = D[dir][i]
          /\ \A f \in Frame \ {dir, dir + 1, t} : N[f] = D[f]
      BY <1>4, <1>6, <1>8, <3>2, TableMade
    <3> QED  BY <3>1, <3>3
  <2> QED  BY Zenon, <1>8, <2>1, <2>2 DEF Blank
<1>11. PICK g : g = [n \in 0 .. ENTRIES |->
             IF n = 0 THEN [mem |-> D, bitmap |-> Taken \cup {dir}, table |-> 0]
             ELSE [mem |-> Filled(N, t, n), bitmap |-> Taken \cup {dir, t}, table |-> t]]
  BY Zenon
<1>12. ASSUME NEW n \in 0 .. ENTRIES, n # 0
       PROVE  Mapped(g[n - 1].mem, g[n - 1].bitmap, dir, 0, n - 1, n - 1) = g[n]
  <2>0. ENTRIES \in Nat /\ n \in Nat /\ n - 1 \in 0 .. ENTRIES /\ n - 1 \in Entry /\ (n - 1) + 1 = n
    BY <1>12, Sizes DEF Entry
  <2>1. g[n] = [mem |-> Filled(N, t, n), bitmap |-> Taken \cup {dir, t}, table |-> t]
    BY <1>11, <1>12
  <2>2. Put(Filled(N, t, n - 1), t, n - 1, Present(n - 1)) = Filled(N, t, n)
    <3>1. PICK k : k = n - 1
      OBVIOUS
    <3>2. k \in Entry /\ k + 1 = n
      BY SMTT(30), <2>0, <3>1
    <3> QED  BY <1>6, <1>10, <3>1, <3>2, FillStep
  <2>3. CASE n = 1
    <3>1. g[n - 1].mem = D /\ g[n - 1].bitmap = frame_bitmap \cup {dir}
      BY SMTT(30), <1>3, <1>11, <2>0, <2>3
    <3>2. ~D[dir][0].present
      BY <1>8, Sizes DEF Blank, Absent
    <3>3. Mapped(D, frame_bitmap \cup {dir}, dir, 0, n - 1, n - 1) =
             [mem |-> Put(NewTable(D, dir, 0, t), t, n - 1, Present(n - 1)),
              bitmap |-> frame_bitmap \cup {dir} \cup {t}, table |-> t]
      BY Zenon, <1>5, <1>6, <3>2 DEF Mapped, get_or_create_table
    <3>4. Filled(N, t, n - 1) = N
      BY <1>6, <1>10, <2>3, FillStart
    <3>5. frame_bitmap \cup {dir} \cup {t} = Taken \cup {dir, t}
      BY <1>3
    <3> QED  BY Zenon, <1>9, <2>1, <2>2, <3>1, <3>3, <3>4, <3>5
  <2>4. CASE n # 1
    <3>1. n - 1 # 0
      BY <2>0, <2>4
    <3>2. g[n - 1].mem = Filled(N, t, n - 1) /\ g[n - 1].bitmap = Taken \cup {dir, t}
      BY <1>11, <2>0, <3>1
    <3>3. Filled(N, t, n - 1)[dir][0] = Present(t)
      BY <1>4, <1>6, <1>10 DEF Filled
    <3>4. Present(t).present /\ Present(t).frame = t
      BY DEF Present
    <3>5. Mapped(Filled(N, t, n - 1), Taken \cup {dir, t}, dir, 0, n - 1, n - 1) =
             [mem |-> Put(Filled(N, t, n - 1), t, n - 1, Present(n - 1)),
              bitmap |-> Taken \cup {dir, t}, table |-> t]
      BY Zenon, <1>6, <3>3, <3>4 DEF Mapped, get_or_create_table
    <3> QED  BY Zenon, <2>1, <2>2, <3>2, <3>5
  <2> QED  BY <2>3, <2>4
<1>13. g = IdentityMap(g, dir)
  <2>1. ASSUME NEW n \in 0 .. ENTRIES PROVE g[n] = IdentityMap(g, dir)[n]
    <3>1. CASE n = 0
      BY SMTT(30), <1>3, <1>7, <1>11, <3>1 DEF IdentityMap
    <3>2. CASE n # 0
      BY <1>12, <3>2 DEF IdentityMap
    <3> QED  BY SMTT(30), <3>1, <3>2
  <2>2. IdentityMap(g, dir) = [n \in 0 .. ENTRIES |-> IdentityMap(g, dir)[n]]
    BY DEF IdentityMap
  <2>3. g = [n \in 0 .. ENTRIES |-> g[n]]
    BY <1>11
  <2> QED  BY <2>1, <2>2, <2>3
<1> DEFINE map == CHOOSE f : f = IdentityMap(f, dir)
<1>14. map = IdentityMap(map, dir)
  BY SMTT(30), <1>13
<1>15. mem' = map[ENTRIES].mem /\ frame_bitmap' = map[ENTRIES].bitmap
  BY <1>1 DEF vmm_init, IdentityMap
<1>16. PICK h : h = map
  OBVIOUS
<1>17. h = IdentityMap(h, dir) /\ mem' = h[ENTRIES].mem /\ frame_bitmap' = h[ENTRIES].bitmap
  BY <1>14, <1>15, <1>16
<1> HIDE DEF map
<1>18. \A n \in 0 .. ENTRIES : h[n] = g[n]
  <2> DEFINE S == {n \in Nat : n \in 0 .. ENTRIES => h[n] = g[n]}
  <2>1. 0 \in S
    BY <1>13, <1>17, Sizes DEF IdentityMap
  <2>2. ASSUME NEW n \in Nat, n \in S PROVE n + 1 \in S
    <3> SUFFICES ASSUME n + 1 \in 0 .. ENTRIES PROVE h[n + 1] = g[n + 1]
      OBVIOUS
    <3>1. n \in 0 .. ENTRIES /\ (n + 1) - 1 = n /\ n + 1 # 0
      BY Sizes
    <3>2. h[n] = g[n]
      BY SMTT(30), <2>2, <3>1
    <3>3. h[n + 1] = Mapped(h[n].mem, h[n].bitmap, dir, 0, n, n)
      BY Zenon, <1>17, <3>1 DEF IdentityMap
    <3>4. g[n + 1] = Mapped(g[n].mem, g[n].bitmap, dir, 0, n, n)
      BY <1>12, <3>1
    <3> QED  BY <3>2, <3>3, <3>4
  <2> HIDE DEF S
  <2>3. \A n \in Nat : n \in S
    BY SMTT(30), <2>1, <2>2, Inductive
  <2> QED  BY SMTT(30), <2>3 DEF S
<1>19. mem' = Filled(N, t, ENTRIES) /\ frame_bitmap' = Taken \cup {dir, t}
  <2>1. ENTRIES \in 0 .. ENTRIES /\ ENTRIES # 0
    BY Sizes
  <2> QED  BY <1>11, <1>17, <1>18, <2>1
<1>20. \A p \in Entry : p < ENTRIES /\ Present(p) \in Word
  BY Sizes DEF Entry, Present, Word
<1>21. mem'[t] = [p \in Entry |-> Present(p)] /\ \A f \in Frame \ {t} : mem'[f] = N[f]
  BY <1>6, <1>19, <1>20 DEF Filled
<1>22. mem' \in Memory
  <2>1. mem' = [f \in Frame |-> mem'[f]]
    BY SMTT(30), <1>19 DEF Filled
  <2>2. \A f \in Frame : mem'[f] \in [Entry -> Word]
    BY <1>10, <1>20, <1>21 DEF Memory
  <2> QED  BY <2>1, <2>2 DEF Memory
<1>23. dir + 2 \in Frame /\ dir + 2 # t => mem'[dir + 2][0].frame = dir
  BY <1>10, <1>21
<1>24. mem'[dir][0] = Present(t) /\ \A i \in Entry \ {0} : mem'[dir][i] = Absent(0)
  BY <1>4, <1>6, <1>10, <1>21
<1>25. dir < t /\ \A f \in Frame \ frame_bitmap' : t <= f
  BY <1>4, <1>6, <1>19, Sizes
<1>26. \A p \in Entry : mem'[t][p] = Present(p)
  BY <1>21
<1> QED  BY Zenon, <1>2, <1>4, <1>6, <1>19, <1>22, <1>23, <1>24, <1>25, <1>26

(***************************************************************************)
(* The inductive invariant, in parts. First, the processes: the one being  *)
(* created has the fresh directory, which nobody uses yet; before the      *)
(* first there is at most the kernel's; at most one directory has lost its *)
(* process.                                                                *)
(***************************************************************************)
Stages ==
    /\ step \in {"boot", "idle", "create", "run"}
    /\ fresh \in spaces \cup {0}
    /\ fresh = 0 <=> step \in {"boot", "run"}
    /\ fresh # 0 => fresh \notin users \cup {kernel_directory, current_directory}
    /\ users \subseteq spaces
    /\ step \in {"boot", "idle"} => users = {} /\ spaces \subseteq {kernel_directory, fresh}
    /\ step = "boot" /\ kernel_directory = 0 => frame_bitmap = Taken /\ made = {}
    /\ \A lost, dir \in spaces \ (users \cup {kernel_directory, fresh}) : lost = dir

(***************************************************************************)
(* The kernel's table, and what vmm_init has put in it and in the kernel's *)
(* directory.                                                              *)
(***************************************************************************)
KernelTable == mem[kernel_directory][0].frame

KernelMade ==
    /\ KernelTable \in frame_bitmap \ (Taken \cup made)
    /\ mem[kernel_directory][0] = Present(KernelTable)
    /\ \A n \in Entry \ {0} : mem[kernel_directory][n] = Absent(0)
    /\ \A p \in Entry : mem[KernelTable][p] = Present(p)

(***************************************************************************)
(* The frames: those of directories and others are marked, and no others,  *)
(* as long as physical_addr is in memory.                                  *)
(***************************************************************************)
Frames ==
    /\ made \subseteq Frame \ Taken
    /\ spaces \subseteq made \cap frame_bitmap
    /\ Taken \ {0} \subseteq frame_bitmap
    /\ InMemory => frame_bitmap = Taken \cup spaces \cup Tables

(***************************************************************************)
(* What makes the rest inductive: pmm_alloc_frame gives out frames from    *)
(* below, and only the last one given out comes back. So every frame that  *)
(* has been a directory, or is the kernel's table, lies below the free     *)
(* ones, and not above the fresh one.                                      *)
(***************************************************************************)
Ordered ==
    /\ \A g \in made \cup Tables, f \in Frame \ (frame_bitmap \cup {0}) : g <= f
    /\ fresh # 0 => \A g \in made \cup Tables : g <= fresh

(***************************************************************************)
(* Every directory has the entries that the kernel's has, or the words at  *)
(* address 0, and no other.                                                *)
(***************************************************************************)
Shared ==
    \A dir \in spaces, n \in Entry :
        mem[dir][n] = IF mem[kernel_directory][n].present
                      THEN mem[kernel_directory][n] ELSE Absent(0)

SInv ==
    /\ TypeOK /\ Stages /\ Frames /\ Ordered /\ Shared
    /\ kernel_directory # 0 => KernelMade
    /\ LoadedExactly

(***************************************************************************)
(* The tables of the kernel, now and after a step.                         *)
(***************************************************************************)
LEMMA TheTable ==
    /\ (kernel_directory # 0 => KernelMade) =>
          Tables = IF kernel_directory = 0 THEN {} ELSE {KernelTable}
    /\ (kernel_directory' # 0 => KernelMade') =>
          Tables' = IF kernel_directory' = 0 THEN {} ELSE {KernelTable'}
<1>1. \A f : Present(f).present /\ Present(f).frame = f
  BY DEF Present
<1>2. ~Absent(0).present /\ 0 \in Entry /\ 0 \in Taken
  BY Sizes DEF Absent
<1>3. ASSUME kernel_directory # 0, KernelMade PROVE Tables = {KernelTable}
  <2>1. \A n \in Entry : TableOf(kernel_directory, n) = IF n = 0 THEN KernelTable ELSE 0
    BY <1>1, <1>2, <1>3 DEF KernelMade, TableOf
  <2>2. KernelTable # 0
    BY <1>2, <1>3 DEF KernelMade
  <2> QED  BY <1>2, <1>3, <2>1, <2>2 DEF Tables
<1>4. ASSUME kernel_directory' # 0, KernelMade' PROVE Tables' = {KernelTable'}
  <2>1. \A n \in Entry : TableOf(kernel_directory, n)' = IF n = 0 THEN KernelTable' ELSE 0
    BY <1>1, <1>2, <1>4 DEF KernelMade, TableOf
  <2>2. KernelTable' # 0
    BY <1>2, <1>4 DEF KernelMade
  <2> QED  BY <1>2, <1>4, <2>1, <2>2 DEF Tables
<1>5. kernel_directory = 0 => Tables = {}
  BY DEF Tables
<1>6. kernel_directory' = 0 => Tables' = {}
  BY DEF Tables
<1> QED  BY <1>3, <1>4, <1>5, <1>6

(***************************************************************************)
(* At boot there is no directory.                                          *)
(***************************************************************************)
LEMMA InitSInv == ProcessInit => SInv
<1> SUFFICES ASSUME ProcessInit PROVE SInv
  OBVIOUS
<1>1. /\ frame_bitmap = Taken /\ kernel_directory = 0 /\ current_directory = 0 /\ cr3 = 0
      /\ spaces = {} /\ step = "boot" /\ fresh = 0 /\ users = {} /\ made = {}
  BY DEF ProcessInit, Init
<1>2. Tables = {}
  BY <1>1 DEF Tables
<1>3. TypeOK
  BY Zenon, <1>1, Sizes, BlankWords, PagingAssumption DEF ProcessInit, Init, TypeOK
<1>4. Stages
  BY <1>1 DEF Stages
<1>5. Frames /\ Ordered /\ Shared /\ LoadedExactly
  BY <1>1, <1>2, Sizes DEF Frames, Ordered, Shared, LoadedExactly
<1> QED  BY <1>1, <1>3, <1>4, <1>5 DEF SInv

(***************************************************************************)
(* A frame that pmm_alloc_frame has just returned lies above every         *)
(* directory and above the kernel's table.                                 *)
(***************************************************************************)
LEMMA NewFrame ==
    ASSUME SInv, NEW dir, dir = pmm_alloc_frame(frame_bitmap), dir # 0
    PROVE  /\ dir \in Frame /\ dir \in Nat /\ dir \notin frame_bitmap /\ dir \notin Taken
           /\ 0 \in frame_bitmap
           /\ \A f \in Frame \ frame_bitmap : dir <= f
           /\ \A g \in made \cup Tables : g <= dir
           /\ \A d \in spaces \cup Tables \cup {kernel_directory} : d \in Frame /\ d < dir
<1>1. /\ 0 \in frame_bitmap /\ dir \in Frame \ frame_bitmap
      /\ \A f \in Frame \ frame_bitmap : dir <= f
  BY AllocFrame
<1>2. dir \in Nat /\ dir \notin Taken
  BY <1>1, Sizes DEF SInv, Frames
<1>3. \A g \in made \cup Tables : g <= dir
  BY <1>1 DEF SInv, Ordered
<1>4. Tables \subseteq frame_bitmap /\ frame_bitmap \subseteq Frame
  BY TheTable DEF SInv, KernelMade, TypeOK
<1>5. ASSUME NEW d \in spaces \cup Tables PROVE d \in Frame /\ d < dir
  <2>1. d \in made \cup Tables /\ d \in frame_bitmap /\ d \in Frame
    BY <1>4, <1>5 DEF SInv, Frames
  <2>2. d \in Nat /\ d # dir /\ d <= dir
    BY <1>1, <1>3, <2>1, Sizes
  <2> QED  BY <1>2, <2>1, <2>2
<1>6. kernel_directory \in spaces \cup {0} /\ 0 \in Frame /\ 0 < dir
  BY <1>2, Sizes DEF SInv, TypeOK
<1> QED  BY <1>1, <1>2, <1>3, <1>5, <1>6

(***************************************************************************)
(* Calls that write no memory, mark no frame and make no directory.        *)
(***************************************************************************)
LEMMA SameMemory ==
    ASSUME SInv, UNCHANGED <<mem, frame_bitmap, kernel_directory, spaces, made>>,
           fresh' \in {fresh, 0}
    PROVE  /\ Frames' /\ Ordered' /\ Shared' /\ LoadedExactly'
           /\ kernel_directory' # 0 => KernelMade'
<1>1. \A d, n : TableOf(d, n)' = TableOf(d, n)
  BY DEF TableOf
<1>2. Tables' = Tables
  BY <1>1 DEF Tables
<1>3. Frames' /\ Ordered'
  BY <1>2 DEF SInv, Frames, Ordered, InMemory
<1>4. Shared'
  BY DEF SInv, Shared
<1>5. LoadedExactly'
  BY <1>1, <1>2 DEF SInv, LoadedExactly, Loaded, physical_addr
<1>6. kernel_directory' # 0 => KernelMade'
  BY DEF SInv, KernelMade, KernelTable
<1> QED  BY <1>3, <1>4, <1>5, <1>6

(***************************************************************************)
(* The idle process is not created.                                        *)
(***************************************************************************)
LEMMA NoIdleSInv == ASSUME SInv, NoIdle PROVE SInv'
<1>1. /\ step = "boot" /\ step' = "run"
      /\ UNCHANGED <<mem, frame_bitmap, kernel_directory, current_directory, cr3, spaces>>
      /\ UNCHANGED <<fresh, users, made>>
  BY DEF NoIdle, vars
<1>2. TypeOK'
  BY <1>1 DEF SInv, TypeOK
<1>3. Stages'
  BY <1>1 DEF SInv, Stages
<1> QED  BY <1>1, <1>2, <1>3, SameMemory DEF SInv

(***************************************************************************)
(* A process gets its stack, or the idle process loses its directory.      *)
(***************************************************************************)
LEMMA GetStackSInv == ASSUME SInv, GetStack PROVE SInv'
<1>1. /\ step \in {"idle", "create"} /\ step' = "run" /\ fresh' = 0
      /\ users' = users \cup (IF step = "idle" THEN {kernel_directory} \ {0} ELSE {fresh})
      /\ UNCHANGED <<mem, frame_bitmap, kernel_directory, current_directory, cr3, spaces, made>>
  BY DEF GetStack, vars
<1>2. TypeOK'
  BY <1>1 DEF SInv, TypeOK
<1>3. Stages /\ TypeOK
  BY DEF SInv
<1>4. 0 \notin spaces /\ kernel_directory \in spaces \cup {0}
  BY <1>3 DEF TypeOK
<1>5. fresh # 0 /\ fresh \in spaces /\ users \subseteq spaces
  BY <1>1, <1>3 DEF Stages
<1>6. users' \subseteq spaces'
  BY <1>1, <1>4, <1>5
<1>7. \A lost, dir \in spaces' \ (users' \cup {kernel_directory', fresh'}) : lost = dir
  <2>1. CASE step = "idle"
    <3>1. spaces \subseteq {kernel_directory, fresh}
      BY <1>3, <2>1 DEF Stages
    <3> QED  BY <1>1, <3>1
  <2>2. CASE step = "create"
    <3>1. spaces' \ (users' \cup {kernel_directory', fresh'})
             \subseteq spaces \ (users \cup {kernel_directory, fresh})
      BY <1>1, <2>2
    <3> QED  BY <1>3, <3>1 DEF Stages
  <2> QED  BY <1>1, <2>1, <2>2
<1>8. Stages'
  BY <1>1, <1>6, <1>7 DEF Stages
<1> QED  BY <1>1, <1>2, <1>8, SameMemory DEF SInv

(***************************************************************************)
(* The scheduler switches to a process.                                    *)
(***************************************************************************)
LEMMA SwitchSInv == ASSUME SInv, NEW dir \in users, Switch(dir) PROVE SInv'
<1>1. /\ step = "run" /\ current_directory' = dir /\ cr3' = physical_addr(mem, dir)
      /\ UNCHANGED <<mem, frame_bitmap, kernel_directory, spaces>>
      /\ UNCHANGED <<step, fresh, users, made>>
  BY DEF Switch, vmm_switch_directory, process
<1>2. dir \in spaces
  BY DEF SInv, Stages
<1>3. physical_addr(mem, dir) \in Entry
  <2>1. \A f \in Frame : mem[f][0].frame \in Entry
    BY Sizes DEF SInv, TypeOK, Word
  <2> QED  BY Zenon, <2>1, Sizes DEF physical_addr
<1>4. TypeOK'
  BY <1>1, <1>2, <1>3 DEF SInv, TypeOK
<1>5. Stages'
  BY <1>1 DEF SInv, Stages
<1> QED  BY <1>1, <1>4, <1>5, SameMemory DEF SInv

(***************************************************************************)
(* What vmm_create_address_space changes, in terms of the invariant: the   *)
(* entries of no directory, no word of the kernel's table.                 *)
(***************************************************************************)
LEMMA CreateChanges ==
    ASSUME SInv, NEW dir, dir = pmm_alloc_frame(frame_bitmap), vmm_create_address_space
    PROVE  /\ dir # 0 /\ spaces' = spaces \cup {dir} /\ frame_bitmap' = frame_bitmap \cup {dir}
           /\ UNCHANGED <<kernel_directory, current_directory, cr3>>
           /\ mem' \in Memory
           /\ \A f \in Frame : f < dir \/ f > dir + 2 => mem'[f] = mem[f]
           /\ \A n \in Entry :
                 mem'[dir][n] = IF mem[kernel_directory][n].present
                                THEN mem[kernel_directory][n] ELSE Absent(0)
           /\ dir + 1 \in Frame => mem'[dir + 1] = Blank
           /\ dir + 2 \in Frame => mem'[dir + 2][0].frame = dir
           /\ \A d \in spaces \cup Tables \cup {kernel_directory} : mem'[d] = mem[d]
<1>1. /\ dir # 0 /\ spaces' = spaces \cup {dir} /\ frame_bitmap' = frame_bitmap \cup {dir}
      /\ mem' = CopyKernel(NewDirectory(mem, dir), dir)
      /\ UNCHANGED <<kernel_directory, current_directory, cr3>>
  BY DEF vmm_create_address_space
<1>2. dir \in Frame /\ \A d \in spaces \cup Tables \cup {kernel_directory} : d \in Frame /\ d < dir
  BY <1>1, NewFrame
<1>3. mem \in Memory
  BY DEF SInv, TypeOK, Memory
<1>4. kernel_directory \in Frame /\ kernel_directory < dir
  BY <1>2
<1>5. /\ mem' \in Memory
      /\ \A f \in Frame : f < dir \/ f > dir + 2 => mem'[f] = mem[f]
      /\ \A n \in Entry :
            mem'[dir][n] = IF mem[kernel_directory][n].present
                           THEN mem[kernel_directory][n] ELSE Absent(0)
      /\ dir + 1 \in Frame => mem'[dir + 1] = Blank
      /\ dir + 2 \in Frame => mem'[dir + 2][0].frame = dir
  BY <1>1, <1>2, <1>3, <1>4, CreateMemory
<1>6. \A d \in spaces \cup Tables \cup {kernel_directory} : mem'[d] = mem[d]
  BY <1>2, <1>5
<1> QED  BY <1>1, <1>5, <1>6

(***************************************************************************)
(* process_create gets a directory.                                        *)
(***************************************************************************)
LEMMA GetDirectorySInv == ASSUME SInv, GetDirectory PROVE SInv'
<1>1. PICK dir : dir = pmm_alloc_frame(frame_bitmap)
  OBVIOUS
<1>2. /\ step \in {"boot", "run"} /\ step' = IF step = "boot" THEN "idle" ELSE "create"
      /\ vmm_create_address_space /\ fresh' = dir /\ made' = made \cup {dir} /\ users' = users
  BY <1>1 DEF GetDirectory
<1>3. /\ dir # 0 /\ spaces' = spaces \cup {dir} /\ frame_bitmap' = frame_bitmap \cup {dir}
      /\ UNCHANGED <<kernel_directory, current_directory, cr3>>
      /\ mem' \in Memory
      /\ \A f \in Frame : f < dir \/ f > dir + 2 => mem'[f] = mem[f]
      /\ \A n \in Entry :
            mem'[dir][n] = IF mem[kernel_directory][n].present
                           THEN mem[kernel_directory][n] ELSE Absent(0)
      /\ dir + 1 \in Frame => mem'[dir + 1] = Blank
      /\ dir + 2 \in Frame => mem'[dir + 2][0].frame = dir
      /\ \A d \in spaces \cup Tables \cup {kernel_directory} : mem'[d] = mem[d]
  BY Zenon, <1>1, <1>2, CreateChanges
<1>4. /\ dir \in Frame /\ dir \in Nat /\ dir \notin frame_bitmap /\ dir \notin Taken
      /\ 0 \in frame_bitmap
      /\ \A f \in Frame \ frame_bitmap : dir <= f
      /\ \A g \in made \cup Tables : g <= dir
      /\ \A d \in spaces \cup Tables \cup {kernel_directory} : d \in Frame /\ d < dir
  <2>1. dir # 0
    BY <1>3
  <2> QED  BY <1>1, <2>1, NewFrame
<1>5. /\ TypeOK /\ Stages /\ Frames /\ Ordered /\ Shared /\ LoadedExactly
      /\ kernel_directory # 0 => KernelMade
  BY DEF SInv
<1>6. TypeOK'
  BY <1>3, <1>4, <1>5 DEF TypeOK, Memory
<1>7. Stages'
  <2>1. dir \notin spaces \cup {0}
    BY <1>3, <1>4, <1>5 DEF Frames
  <2>2. dir \notin users \cup {kernel_directory, current_directory}
    BY <1>5, <2>1 DEF TypeOK, Stages
  <2>3. spaces' \ (users' \cup {kernel_directory', fresh'})
           = spaces \ (users \cup {kernel_directory, fresh})
    BY <1>2, <1>3, <1>5, <2>1 DEF Stages, TypeOK
  <2>4. step = "boot" => users = {} /\ spaces' \subseteq {kernel_directory', fresh'}
    BY <1>2, <1>3, <1>5 DEF Stages, TypeOK
  <2> QED  BY <1>2, <1>3, <1>5, <2>1, <2>2, <2>3, <2>4 DEF Stages
<1>8. /\ kernel_directory # 0 => KernelTable' = KernelTable /\ KernelMade'
      /\ Tables' = Tables
      /\ \A n : TableOf(kernel_directory, n)' = TableOf(kernel_directory, n)
  <2>1. mem'[kernel_directory] = mem[kernel_directory] /\ kernel_directory' = kernel_directory
    BY <1>3
  <2>2. KernelTable' = KernelTable
    BY <2>1 DEF KernelTable
  <2>3. ASSUME kernel_directory # 0 PROVE KernelMade'
    <3>1. KernelTable \in Tables
      BY <1>5, <2>3, TheTable
    <3>2. mem'[KernelTable] = mem[KernelTable] /\ KernelTable # dir
      BY <1>3, <1>4, <3>1
    <3> QED  BY <1>2, <1>3, <1>5, <2>1, <2>2, <2>3, <3>2 DEF KernelMade
  <2>4. \A n : TableOf(kernel_directory, n)' = TableOf(kernel_directory, n)
    BY <2>1 DEF TableOf
  <2>5. Tables' = Tables
    BY <2>1, <2>4 DEF Tables
  <2> QED  BY <2>2, <2>3, <2>4, <2>5
<1>9. Frames'
  <2>1. InMemory' => InMemory
    BY <1>2 DEF InMemory
  <2> QED  BY <1>2, <1>3, <1>4, <1>5, <1>8, <2>1 DEF Frames
<1>10. Ordered'
  <2>1. \A g \in made' \cup Tables' : g \in Nat /\ g <= dir
    <3>1. made \subseteq Nat
      BY <1>5, Sizes DEF Frames
    <3>2. Tables \subseteq Nat
      BY Zenon, <1>4, Sizes
    <3> QED  BY <1>2, <1>4, <1>8, <3>1, <3>2
  <2>2. \A f \in Frame \ (frame_bitmap' \cup {0}) : f \in Nat /\ dir <= f
    BY <1>3, <1>4, Sizes
  <2>3. \A g \in made' \cup Tables', f \in Frame \ (frame_bitmap' \cup {0}) : g <= f
    <3> SUFFICES ASSUME NEW g \in made' \cup Tables',
                        NEW f \in Frame \ (frame_bitmap' \cup {0})
                 PROVE  g <= f
      BY Zenon
    <3>1. g \in Nat /\ g <= dir /\ f \in Nat /\ dir <= f /\ dir \in Nat
      BY Zenon, <1>4, <2>1, <2>2
    <3> QED  BY <3>1
  <2> QED  BY <1>2, <2>1, <2>3 DEF Ordered
<1>11. Shared'
  <2>1. ASSUME NEW d \in spaces', NEW n \in Entry
        PROVE  mem'[d][n] = IF mem'[kernel_directory'][n].present
                            THEN mem'[kernel_directory'][n] ELSE Absent(0)
    <3>1. mem'[kernel_directory'] = mem[kernel_directory]
      BY <1>3
    <3>2. CASE d = dir
      BY <1>3, <3>1, <3>2
    <3>3. CASE d \in spaces
      BY <1>3, <1>5, <3>1, <3>3 DEF Shared
    <3> QED  BY <1>3, <3>2, <3>3
  <2> QED  BY <2>1 DEF Shared
<1>12. LoadedExactly'
  <2> SUFFICES ASSUME NEW d \in spaces', d + 2 \in Frame
               PROVE  mem'[d + 2][0].frame = Loaded(d)'
    BY DEF LoadedExactly, physical_addr
  <2>1. Loaded(d)' = IF d + 2 \in made' THEN TableOf(kernel_directory, 0)
                     ELSE IF d + 1 \in made' \/ d + 2 \in Tables THEN 0 ELSE d
    BY <1>8 DEF Loaded
  <2>2. CASE d = dir
    <3>1. dir + 1 \notin made' /\ dir + 2 \notin made' /\ dir + 2 \notin Tables
      BY <1>2, <1>4, <1>5, Sizes DEF Frames
    <3> QED  BY <1>3, <2>1, <2>2, <3>1
  <2>3. CASE d \in spaces
    <3>1. d \in Nat /\ d < dir /\ d + 2 \in Nat /\ d + 1 \in Nat
      <4>1. d \in Frame /\ d < dir
        BY Zenon, <1>4, <2>3
      <4> QED  BY <4>1, Sizes
    <3>2. mem[d + 2][0].frame = Loaded(d)
      BY <1>5, <2>3 DEF LoadedExactly, physical_addr
    <3>3. CASE dir = d + 1
      <4>1. d + 2 \notin made'
        BY <1>2, <1>4, <3>1, <3>3
      <4>2. d + 2 = dir + 1 /\ d + 1 \in made'
        BY <1>2, <3>1, <3>3
      <4>3. mem'[d + 2] = Blank
        BY <1>3, <4>2
      <4>4. Blank[0].frame = 0
        BY Sizes DEF Blank, Absent
      <4> QED  BY <2>1, <4>1, <4>2, <4>3, <4>4
    <3>4. CASE dir = d + 2
      <4>1. mem'[dir][0].frame = TableOf(kernel_directory, 0)
        BY <1>3, Sizes DEF TableOf, Absent
      <4>2. d + 2 \in made'
        BY <1>2, <3>4
      <4> QED  BY <2>1, <3>4, <4>1, <4>2
    <3>5. CASE dir > d + 2
      <4>1. mem'[d + 2] = mem[d + 2]
        BY <1>3, <3>5
      <4>2. (d + 1 \in made' <=> d + 1 \in made) /\ (d + 2 \in made' <=> d + 2 \in made)
        BY <1>2, <1>4, <3>1, <3>5
      <4> QED  BY <2>1, <3>2, <4>1, <4>2 DEF Loaded
    <3> QED  BY <1>4, <3>1, <3>3, <3>4, <3>5
  <2> QED  BY <1>3, <2>2, <2>3
<1> QED  BY <1>3, <1>6, <1>7, <1>8, <1>9, <1>10, <1>11, <1>12 DEF SInv

(***************************************************************************)
(* The frames that vmm_destroy_address_space releases for the fresh        *)
(* directory: it, if physical_addr is in memory, and no table.             *)
(***************************************************************************)
LEMMA FreshReleased ==
    ASSUME SInv, fresh # 0
    PROVE  /\ Released(fresh) = {}
           /\ physical_addr(mem, fresh) = IF fresh + 2 \in Frame THEN fresh ELSE 0
<1>1. fresh \in spaces /\ fresh \in Nat
  BY Sizes DEF SInv, Stages, TypeOK
<1>2. Released(fresh) = {}
  <2>1. \A n \in Entry : mem[fresh][n].present => mem[kernel_directory][n].present
    BY <1>1 DEF SInv, Shared, Absent
  <2> QED  BY <2>1 DEF Released
<1>3. ASSUME fresh + 2 \in Frame PROVE physical_addr(mem, fresh) = fresh
  <2>1. \A g \in made \cup Tables : g <= fresh
    BY DEF SInv, Ordered
  <2>2. fresh + 1 \notin made /\ fresh + 2 \notin made /\ fresh + 2 \notin Tables
    BY <1>1, <2>1
  <2> QED  BY <1>1, <1>3, <2>2 DEF SInv, LoadedExactly, Loaded
<1> QED  BY <1>2, <1>3 DEF physical_addr

(***************************************************************************)
(* process_create finds no memory for the stack.                           *)
(***************************************************************************)
LEMMA NoStackSInv == ASSUME SInv, NoStack PROVE SInv'
<1>1. /\ step \in {"idle", "create"} /\ step' = "run" /\ fresh' = 0
      /\ frame_bitmap' = frame_bitmap \ (Released(fresh) \cup {physical_addr(mem, fresh)})
      /\ spaces' = spaces \ {fresh}
      /\ UNCHANGED <<mem, kernel_directory, current_directory, cr3, users, made>>
  BY DEF NoStack, vmm_destroy_address_space
<1>2. /\ TypeOK /\ Stages /\ Frames /\ Ordered /\ Shared /\ LoadedExactly
      /\ kernel_directory # 0 => KernelMade
  BY DEF SInv
<1>3. /\ fresh # 0 /\ fresh \in spaces
      /\ fresh \notin users \cup {kernel_directory, current_directory}
  BY <1>1, <1>2 DEF Stages
<1>4. fresh \in Frame /\ fresh \in made /\ fresh \notin Taken /\ fresh \in Nat
  BY <1>2, <1>3, Sizes DEF TypeOK, Frames
<1>5. PICK x \in {0, fresh} : /\ frame_bitmap' = frame_bitmap \ {x}
                              /\ InMemory => x = fresh
  <2>1. frame_bitmap' = frame_bitmap \ {IF fresh + 2 \in Frame THEN fresh ELSE 0}
    BY <1>1, <1>3, FreshReleased
  <2> QED  BY <1>4, <2>1 DEF InMemory
<1>6. TypeOK'
  BY <1>1, <1>2, <1>3, <1>5 DEF TypeOK
<1>7. Stages'
  <2>1. spaces' \ (users' \cup {kernel_directory', fresh'})
           \subseteq spaces \ (users \cup {kernel_directory, fresh})
    BY <1>1
  <2> QED  BY <1>1, <1>2, <1>3, <2>1 DEF Stages
<1>8. \A d, n : TableOf(d, n)' = TableOf(d, n)
  BY <1>1 DEF TableOf
<1>9. Tables' = Tables
  BY <1>1, <1>8 DEF Tables
<1>10. kernel_directory # 0 => KernelMade'
  <2>1. KernelTable' = KernelTable
    BY <1>1 DEF KernelTable
  <2>2. ASSUME kernel_directory # 0 PROVE KernelTable # x
    BY <1>2, <1>4, <2>2, Sizes DEF KernelMade
  <2> QED  BY <1>1, <1>2, <1>5, <2>1, <2>2 DEF KernelMade
<1>11. fresh \notin Tables
  BY <1>2, <1>4, TheTable DEF KernelMade
<1>12. Frames'
  <2>1. InMemory' = InMemory
    BY <1>1 DEF InMemory
  <2>2. spaces' \subseteq made' \cap frame_bitmap' /\ Taken \ {0} \subseteq frame_bitmap'
    BY <1>1, <1>2, <1>4, <1>5 DEF Frames, TypeOK
  <2>3. ASSUME InMemory PROVE frame_bitmap' = Taken \cup spaces' \cup Tables'
    BY <1>1, <1>2, <1>4, <1>5, <1>9, <1>11, <2>3 DEF Frames
  <2> QED  BY <1>1, <1>2, <2>1, <2>2, <2>3 DEF Frames
<1>13. Ordered'
  <2>1. Frame \ (frame_bitmap' \cup {0}) \subseteq (Frame \ (frame_bitmap \cup {0})) \cup {fresh}
    BY <1>5
  <2>2. \A g \in made \cup Tables : g <= fresh
    BY <1>2, <1>3 DEF Ordered
  <2> QED  BY <1>1, <1>2, <1>9, <2>1, <2>2 DEF Ordered
<1>14. Shared'
  BY <1>1, <1>2 DEF Shared
<1>15. LoadedExactly'
  <2>1. \A d : Loaded(d)' = Loaded(d)
    BY <1>1, <1>8, <1>9 DEF Loaded
  <2> QED  BY <1>1, <1>2, <2>1 DEF LoadedExactly, physical_addr
<1> QED  BY <1>1, <1>6, <1>7, <1>10, <1>12, <1>13, <1>14, <1>15 DEF SInv

(***************************************************************************)
(* vmm_init.                                                               *)
(***************************************************************************)
LEMMA BootPagingSInv == ASSUME SInv, BootPaging PROVE SInv'
<1>1. /\ step = "boot" /\ vmm_init /\ made' = {kernel_directory'}
      /\ UNCHANGED <<step, fresh, users>>
  BY DEF BootPaging
<1>2. mem \in Memory /\ kernel_directory = 0
  BY <1>1 DEF SInv, TypeOK, Memory, vmm_init
<1>3. frame_bitmap = Taken /\ users = {} /\ fresh = 0
  BY <1>1, <1>2 DEF SInv, Stages
<1>4. PICK dir \in Frame \ Taken, t \in Frame \ Taken :
              /\ dir < t
              /\ mem' \in Memory
              /\ mem'[dir][0] = Present(t)
              /\ \A i \in Entry \ {0} : mem'[dir][i] = Absent(0)
              /\ dir + 2 \in Frame /\ dir + 2 # t => mem'[dir + 2][0].frame = dir
              /\ \A p \in Entry : mem'[t][p] = Present(p)
              /\ spaces = {} /\ kernel_directory = 0
              /\ frame_bitmap' = Taken \cup {dir, t}
              /\ \A f \in Frame \ frame_bitmap' : t <= f
              /\ kernel_directory' = dir /\ current_directory' = dir
              /\ cr3' = physical_addr(mem', dir) /\ spaces' = {dir}
  BY Zenon, <1>1, <1>2, <1>3, InitMemory
<1>5. dir # 0 /\ t # 0 /\ dir # t /\ dir \in Nat /\ t \in Nat
  BY <1>4, Sizes
<1>6. \A f \in Frame : mem'[f][0].frame \in Entry
  BY <1>4, Sizes DEF Memory, Word
<1>7. TypeOK'
  <2>1. cr3' \in Entry
    BY Zenon, <1>4, <1>6, Sizes DEF physical_addr
  <2> QED  BY <1>4, <1>5, <2>1, Sizes DEF TypeOK, Memory
<1>8. KernelTable' = t
  BY <1>4 DEF KernelTable, Present
<1>9. KernelMade'
  BY Zenon, <1>1, <1>4, <1>5, <1>8 DEF KernelMade
<1>10. Tables' = {t}
  BY Zenon, <1>4, <1>5, <1>8, <1>9, TheTable
<1>11. Stages'
  BY Zenon, <1>1, <1>3, <1>4, <1>5 DEF Stages
<1>12. Frames'
  BY Zenon, <1>1, <1>4, <1>10 DEF Frames
<1>13. Ordered'
  <2>1. \A f \in Frame \ frame_bitmap' : t <= f /\ dir <= f
    BY <1>4, <1>5, Sizes
  <2> QED  BY <1>1, <1>3, <1>4, <1>10, <2>1 DEF Ordered
<1>14. Shared'
  <2>1. \A n \in Entry : mem'[dir][n] = IF mem'[dir][n].present THEN mem'[dir][n] ELSE Absent(0)
    BY <1>4 DEF Present, Absent
  <2> QED  BY <1>4, <2>1 DEF Shared
<1>15. LoadedExactly'
  <2> SUFFICES ASSUME dir + 2 \in Frame PROVE mem'[dir + 2][0].frame = Loaded(dir)'
    BY <1>4 DEF LoadedExactly, physical_addr
  <2>1. Loaded(dir)' = IF dir + 2 = t THEN 0 ELSE dir
    BY <1>1, <1>4, <1>5, <1>10 DEF Loaded
  <2>2. dir + 2 = t => mem'[dir + 2][0].frame = 0
    <3>1. mem'[t][0] = Present(0)
      BY Zenon, <1>4, Sizes
    <3> QED  BY <3>1 DEF Present
  <2> QED  BY <1>4, <2>1, <2>2
<1> QED  BY <1>7, <1>9, <1>11, <1>12, <1>13, <1>14, <1>15 DEF SInv

(***************************************************************************)
(* Every step preserves the invariant.                                     *)
(***************************************************************************)
LEMMA NextSInv == SInv /\ [ProcessNext]_<<vars, process>> => SInv'
<1> SUFFICES ASSUME SInv, [ProcessNext]_<<vars, process>> PROVE SInv'
  OBVIOUS
<1>1. CASE UNCHANGED <<vars, process>>
  <2>1. /\ UNCHANGED <<mem, frame_bitmap, kernel_directory, current_directory, cr3, spaces>>
        /\ UNCHANGED <<step, fresh, users, made>>
    BY <1>1 DEF vars, process
  <2>2. TypeOK' /\ Stages'
    BY <2>1 DEF SInv, TypeOK, Stages
  <2> QED  BY <2>1, <2>2, SameMemory DEF SInv
<1> QED  BY <1>1, BootPagingSInv, NoIdleSInv, GetDirectorySInv, GetStackSInv, NoStackSInv,
            SwitchSInv DEF ProcessNext

(***************************************************************************)
(* SInv is an invariant, for every size of memory and of a table, every    *)
(* set of frames that others have at boot, as long as two are free, and    *)
(* all contents of the first frame.                                        *)
(***************************************************************************)
THEOREM SInvariant == ProcessSpec => []SInv
BY InitSInv, NextSInv, PTL DEF ProcessSpec

(***************************************************************************)
(* For the same: once vmm_init has run, every address space maps the first *)
(* 4 MB to themselves, however many processes are created.                 *)
(***************************************************************************)
THEOREM KernelStaysMapped == ProcessSpec => []KernelMapped
<1>1. SInv => KernelMapped
  <2> SUFFICES ASSUME SInv, kernel_directory # 0, NEW dir \in spaces, NEW p \in Entry
               PROVE  /\ mem[dir][0].present
                      /\ vmm_get_physical(dir, 0, p) = p
                      /\ mem[mem[dir][0].frame][p].present
    BY DEF KernelMapped
  <2>1. KernelMade
    BY DEF SInv
  <2>2. \A f : Present(f).present /\ Present(f).frame = f
    BY DEF Present
  <2>3. mem[dir][0] = Present(KernelTable)
    <3>1. mem[kernel_directory][0] = Present(KernelTable)
      BY <2>1 DEF KernelMade
    <3>2. mem[dir][0] = IF mem[kernel_directory][0].present
                        THEN mem[kernel_directory][0] ELSE Absent(0)
      BY Sizes DEF SInv, Shared
    <3> QED  BY <2>2, <3>1, <3>2
  <2>4. mem[KernelTable][p] = Present(p)
    BY <2>1 DEF KernelMade
  <2> QED  BY <2>2, <2>3, <2>4 DEF vmm_get_physical
<1> QED  BY <1>1, SInvariant, PTL

(***************************************************************************)
(* For the same: until a directory reaches past the end of memory, the     *)
(* marked frames are those of others, the directories and the kernel's     *)
(* table, and processes lose at most one directory.                        *)
(***************************************************************************)
THEOREM FramesStayAccounted == ProcessSpec => []FramesAccounted
<1>1. SInv => FramesAccounted
  <2> SUFFICES ASSUME SInv, InMemory
               PROVE  /\ frame_bitmap = Taken \cup spaces \cup Tables
                      /\ (spaces \cup Tables) \cap Taken = {} /\ spaces \cap Tables = {}
                      /\ \A lost, dir \in spaces \ (users \cup {kernel_directory, fresh}) : lost = dir
    BY DEF FramesAccounted
  <2>1. Tables \cap (Taken \cup made) = {}
    BY TheTable DEF SInv, KernelMade
  <2>2. frame_bitmap = Taken \cup spaces \cup Tables /\ spaces \subseteq made /\ made \cap Taken = {}
    BY DEF SInv, Frames
  <2>3. \A lost, dir \in spaces \ (users \cup {kernel_directory, fresh}) : lost = dir
    BY DEF SInv, Stages
  <2> QED  BY <2>1, <2>2, <2>3
<1> QED  BY <1>1, SInvariant, PTL

(***************************************************************************)
(* For the same: what vmm_switch_directory loads into CR3 is the directory *)
(* it is given exactly until a later one lies one or two frames behind it, *)
(* or the kernel's table does.                                             *)
(***************************************************************************)
THEOREM PhysicalAddrExact == ProcessSpec => []LoadedExactly
<1>1. SInv => LoadedExactly
  BY DEF SInv
<1> QED  BY <1>1, SInvariant, PTL

-----------------------------------------------------------------------------
(***************************************************************************)
(* What the refinement shows to AddressSpaces.                             *)
(***************************************************************************)
PageOf(t, p) == IF mem[t][p].present THEN mem[t][p].frame ELSE -1

Inherited   == [n \in Entry |-> TableOf(kernel_directory, n)]
SpaceTables == [dir \in spaces |-> [n \in Entry |-> TableOf(dir, n)]]
TablePages  == [table \in Tables |-> [p \in Entry |-> PageOf(table, p)]]

(***************************************************************************)
(* At boot there is no address space.                                      *)
(***************************************************************************)
LEMMA InitAbstract == ProcessInit => Abstract!Init
<1> SUFFICES ASSUME ProcessInit PROVE Abstract!Init
  OBVIOUS
<1>1. spaces = {} /\ kernel_directory = 0 /\ Tables = {}
  BY DEF ProcessInit, Init, Tables
<1>2. \A n \in Entry : TableOf(kernel_directory, n) \in Entry
  <2>1. mem \in Memory
    BY InitSInv DEF SInv, TypeOK, Memory
  <2>2. \A n \in Entry : mem[kernel_directory][n].frame \in Entry
    BY <1>1, <2>1, Sizes DEF Memory, Word
  <2> QED  BY <2>2, Sizes DEF TableOf
<1>3. [n \in Entry |-> TableOf(kernel_directory, n)] \in [Entry -> Entry]
  BY <1>2
<1> QED  BY <1>1, <1>3 DEF Abstract!Init, Abstract!None

(***************************************************************************)
(* Calls that write no memory and make no directory are no step of         *)
(* AddressSpaces.                                                          *)
(***************************************************************************)
LEMMA SameAbstract ==
    ASSUME UNCHANGED <<mem, kernel_directory, spaces>>
    PROVE  UNCHANGED <<kernel_directory, Inherited, SpaceTables, TablePages>>
<1>1. \A d, n : TableOf(d, n)' = TableOf(d, n)
  BY DEF TableOf
<1>2. Tables' = Tables
  BY <1>1 DEF Tables
<1>3. \A t, p : PageOf(t, p)' = PageOf(t, p)
  BY DEF PageOf
<1> QED  BY <1>1, <1>2, <1>3 DEF Inherited, SpaceTables, TablePages

(***************************************************************************)
(* vmm_init is Start.                                                      *)
(***************************************************************************)
LEMMA StartAbstract == ASSUME SInv, BootPaging PROVE Abstract!Start
<1>1. step = "boot" /\ vmm_init /\ kernel_directory = 0
  BY DEF BootPaging, vmm_init
<1>2. frame_bitmap = Taken /\ mem \in Memory
  BY <1>1 DEF SInv, Stages, TypeOK, Memory
<1>3. PICK dir \in Frame \ Taken, t \in Frame \ Taken :
              /\ dir < t
              /\ mem'[dir][0] = Present(t)
              /\ \A i \in Entry \ {0} : mem'[dir][i] = Absent(0)
              /\ \A p \in Entry : mem'[t][p] = Present(p)
              /\ spaces = {} /\ kernel_directory = 0
              /\ kernel_directory' = dir
              /\ spaces' = {dir}
  BY Zenon, <1>1, <1>2, InitMemory
<1>4. Tables = {} /\ dir # 0 /\ t # 0 /\ dir # t
  BY <1>3, Sizes DEF Tables
<1>5. \A n \in Entry : TableOf(dir, n)' = IF n = 0 THEN t ELSE 0
  BY <1>3, <1>4 DEF TableOf, Present, Absent
<1>6. Tables' = {t}
  BY <1>3, <1>4, <1>5, Sizes DEF Tables
<1>7. \A p \in Entry : PageOf(t, p)' = p
  <2>1. \A p \in Entry : Present(p).present /\ Present(p).frame = p
    BY DEF Present
  <2> QED  BY <1>3, <2>1 DEF PageOf
<1>8. PICK v : v = [Abstract!None EXCEPT ![0] = t]
  BY Zenon
<1>9. v = [n \in Entry |-> TableOf(dir, n)']
  BY Zenon, <1>5, <1>8, Sizes DEF Abstract!None
<1>10. SpaceTables' = Abstract!With(SpaceTables, dir, v)
  <2>1. SpaceTables' = [d \in {dir} |-> [n \in Entry |-> TableOf(d, n)']]
    BY <1>3 DEF SpaceTables
  <2>2. DOMAIN SpaceTables = {}
    BY <1>3 DEF SpaceTables
  <2> QED  BY <1>9, <2>1, <2>2 DEF Abstract!With
<1>11. TablePages' = Abstract!With(TablePages, t, [p \in Entry |-> p])
  BY <1>4, <1>6, <1>7 DEF TablePages, Abstract!With
<1>12. Inherited' = v
  BY Zenon, <1>3, <1>9 DEF Inherited
<1>13. dir \in Abstract!Fresh /\ t \in Abstract!Fresh
  BY <1>3, <1>4 DEF Abstract!Fresh
<1>14. DOMAIN SpaceTables = {}
  BY <1>3 DEF SpaceTables
<1>15. \E r, q \in Abstract!Fresh :
           /\ r # q
           /\ kernel_directory' = r
           /\ Inherited' = [Abstract!None EXCEPT ![0] = q]
           /\ SpaceTables' = Abstract!With(SpaceTables, r, [Abstract!None EXCEPT ![0] = q])
           /\ TablePages' = Abstract!With(TablePages, q, [p \in Entry |-> p])
  BY Zenon, <1>3, <1>4, <1>8, <1>10, <1>11, <1>12, <1>13
<1> QED  BY Zenon, <1>3, <1>14, <1>15
         DEF Abstract!Start, Inherited, SpaceTables, TablePages, PageOf

(***************************************************************************)
(* vmm_create_address_space is Create: the new space gets what every space *)
(* inherits, and no other space changes.                                   *)
(***************************************************************************)
LEMMA CreateAbstract == ASSUME SInv, vmm_create_address_space PROVE Abstract!Create
<1>1. PICK dir : dir = pmm_alloc_frame(frame_bitmap)
  OBVIOUS
<1>2. /\ dir # 0 /\ spaces' = spaces \cup {dir} /\ kernel_directory' = kernel_directory
      /\ \A n \in Entry :
            mem'[dir][n] = IF mem[kernel_directory][n].present
                           THEN mem[kernel_directory][n] ELSE Absent(0)
      /\ \A d \in spaces \cup Tables \cup {kernel_directory} : mem'[d] = mem[d]
  BY Zenon, <1>1, CreateChanges
<1>3. /\ dir \in Frame
      /\ \A d \in spaces \cup Tables \cup {kernel_directory} : d < dir
  BY <1>1, <1>2, NewFrame
<1>4. dir \in Nat /\ dir \notin spaces /\ dir \notin Tables
  BY <1>3, Sizes
<1>5. /\ \A d \in spaces, n \in Entry : TableOf(d, n)' = TableOf(d, n)
      /\ \A n \in Entry : TableOf(kernel_directory, n)' = TableOf(kernel_directory, n)
  BY <1>2 DEF TableOf
<1>6. \A n \in Entry : TableOf(dir, n)' = TableOf(kernel_directory, n)
  BY <1>2 DEF TableOf, Absent
<1>7. Tables' = Tables /\ Inherited' = Inherited
  BY <1>2, <1>5 DEF Tables, Inherited
<1>8. TablePages' = TablePages
  <2>1. \A t \in Tables, p \in Entry : PageOf(t, p)' = PageOf(t, p)
    BY <1>2 DEF PageOf
  <2> QED  BY <1>7, <2>1 DEF TablePages
<1>9. Inherited = [n \in Entry |-> TableOf(dir, n)']
  BY <1>6 DEF Inherited
<1>10. SpaceTables' = Abstract!With(SpaceTables, dir, Inherited)
  <2>1. DOMAIN SpaceTables = spaces
    BY DEF SpaceTables
  <2>2. SpaceTables' = [d \in spaces \cup {dir} |-> [n \in Entry |-> TableOf(d, n)']]
    BY <1>2 DEF SpaceTables
  <2>3. \A d \in spaces : SpaceTables[d] = [n \in Entry |-> TableOf(d, n)']
    BY <1>5 DEF SpaceTables
  <2> QED  BY <1>4, <1>9, <2>1, <2>2, <2>3 DEF Abstract!With
<1>11. dir \in Abstract!Fresh
  BY <1>2, <1>3, <1>4 DEF Abstract!Fresh
<1> QED  BY Zenon, <1>2, <1>7, <1>8, <1>10, <1>11
         DEF Abstract!Create, Inherited, SpaceTables, TablePages, PageOf

(***************************************************************************)
(* vmm_destroy_address_space is Discard: no other space changes.           *)
(***************************************************************************)
LEMMA DiscardAbstract == ASSUME SInv, NoStack PROVE Abstract!Discard
<1>1. /\ spaces' = spaces \ {fresh} /\ fresh # kernel_directory
      /\ mem' = mem /\ kernel_directory' = kernel_directory
  BY DEF NoStack, vmm_destroy_address_space
<1>2. fresh \in spaces
  BY DEF SInv, Stages, NoStack
<1>3. \A d, n : TableOf(d, n)' = TableOf(d, n)
  BY <1>1 DEF TableOf
<1>4. Tables' = Tables /\ Inherited' = Inherited
  BY <1>1, <1>3 DEF Tables, Inherited
<1>5. TablePages' = TablePages
  <2>1. \A t, p : PageOf(t, p)' = PageOf(t, p)
    BY <1>1 DEF PageOf
  <2> QED  BY <1>4, <2>1 DEF TablePages
<1>6. DOMAIN SpaceTables = spaces
  BY DEF SpaceTables
<1>7. SpaceTables' = Abstract!Restrict(SpaceTables, DOMAIN SpaceTables \ {fresh})
  BY <1>1, <1>3 DEF SpaceTables, Abstract!Restrict
<1>8. fresh \in DOMAIN SpaceTables \ {kernel_directory}
  BY <1>1, <1>2, <1>6
<1> QED  BY Zenon, <1>1, <1>4, <1>5, <1>7, <1>8
         DEF Abstract!Discard, Inherited, SpaceTables, TablePages, PageOf

(***************************************************************************)
(* Every step is a step of AddressSpaces or none.                          *)
(***************************************************************************)
LEMMA NextAbstract ==
    ASSUME SInv, [ProcessNext]_<<vars, process>>
    PROVE  Abstract!Next \/ UNCHANGED <<kernel_directory, Inherited, SpaceTables, TablePages>>
<1>1. CASE BootPaging
  BY <1>1, StartAbstract DEF Abstract!Next
<1>2. CASE GetDirectory
  BY <1>2, CreateAbstract DEF Abstract!Next, GetDirectory
<1>3. CASE NoStack
  BY <1>3, DiscardAbstract DEF Abstract!Next
<1>4. ASSUME NoIdle \/ GetStack \/ (\E dir \in users : Switch(dir)) \/ UNCHANGED <<vars, process>>
      PROVE  UNCHANGED <<kernel_directory, Inherited, SpaceTables, TablePages>>
  <2>1. UNCHANGED <<mem, kernel_directory, spaces>>
    BY <1>4 DEF NoIdle, GetStack, Switch, vmm_switch_directory, vars
  <2> QED  BY <2>1, SameAbstract
<1> QED  BY <1>1, <1>2, <1>3, <1>4 DEF ProcessNext

(***************************************************************************)
(* The words that vmm.c writes to memory for processes implement           *)
(* AddressSpaces, for the same: a space keeps the tables that it inherits, *)
(* and creating or discarding a space changes no other.                    *)
(***************************************************************************)
THEOREM ProcessSpacesImplementAddressSpaces == ProcessSpec => ImplementsAddressSpaces
<1>1. SInv /\ [ProcessNext]_<<vars, process>> => [Abstract!Next]_<<kernel_directory,
          [n \in Entry |-> TableOf(kernel_directory, n)],
          [dir \in spaces |-> [n \in Entry |-> TableOf(dir, n)]],
          [table \in Tables |-> [p \in Entry |->
                IF mem[table][p].present THEN mem[table][p].frame ELSE -1]]>>
  BY NextAbstract DEF Inherited, SpaceTables, TablePages, PageOf
<1> QED  BY <1>1, InitAbstract, SInvariant, PTL
         DEF ProcessSpec, ImplementsAddressSpaces, Abstract!Spec
=============================================================================
