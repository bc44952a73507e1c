--------------------------- MODULE ConsoleProofs ----------------------------
(***************************************************************************)
(* The console and kprintf, for a screen of any size, any text and any     *)
(* numbers.                                                                *)
(***************************************************************************)
EXTENDS Console, WellFoundedInduction, TLAPS

(***************************************************************************)
(* Sequences of the same length with the same elements are equal.          *)
(***************************************************************************)
LEMMA SameSequence ==
    ASSUME NEW S, NEW s \in Seq(S), NEW t \in Seq(S), Len(s) = Len(t),
           \A i \in 1 .. Len(s) : s[i] = t[i]
    PROVE  s = t
<1>1. s = [i \in 1 .. Len(s) |-> s[i]] /\ t = [i \in 1 .. Len(t) |-> t[i]]
  OBVIOUS
<1> QED  BY Zenon, <1>1

(***************************************************************************)
(* The first element of a sequence.                                        *)
(***************************************************************************)
LEMMA FirstElement ==
    ASSUME NEW S, NEW s \in Seq(S), s # <<>>
    PROVE  Head(s) \in S
OBVIOUS

(***************************************************************************)
(* A set of numbers that is not empty has a smallest member.               *)
(***************************************************************************)
LEMMA SmallestMember ==
    ASSUME NEW T \in SUBSET Nat, T # {}
    PROVE  \E x \in T : \A y \in T : x <= y
<1>1. PICK x \in T : \A y \in T : ~(<<y, x>> \in OpToRel(<, Nat))
  BY ZenonT(60), NatLessThanWellFounded, WFMin
<1>2. \A y \in T : ~(y < x)
  BY ZenonT(60), <1>1 DEF OpToRel
<1> QED  BY <1>2

(***************************************************************************)
(* Induction: a set that contains 0 and, with every number, the next one   *)
(* contains all of them.                                                   *)
(***************************************************************************)
LEMMA Inductive ==
    ASSUME NEW S, 0 \in S, \A n \in Nat : n \in S => n + 1 \in S
    PROVE  \A n \in Nat : n \in S
<1> DEFINE T == {n \in Nat : n \notin S}
<1> SUFFICES ASSUME T # {} PROVE FALSE
  OBVIOUS
<1>1. PICK x \in T : \A y \in T : x <= y
  <2> HIDE DEF T
  <2>1. T \in SUBSET Nat
    BY DEF T
  <2> QED  BY <2>1, SmallestMember
<1>2. x # 0 /\ x - 1 \in Nat /\ x - 1 \notin T
  BY <1>1
<1> QED  BY <1>1, <1>2

(***************************************************************************)
(* What memory holds when the loop of memmove that starts at the first     *)
(* byte has copied k of them.                                              *)
(***************************************************************************)
Copied(m, dest, src, k) ==
    IF k = 0 THEN m
    ELSE [a \in DOMAIN m |-> IF a \in Area(dest, k) THEN m[a - dest + src] ELSE m[a]]

(***************************************************************************)
(* One more round of the loop copies one more byte: writing downwards of   *)
(* the source, it reads a byte not yet overwritten.                        *)
(***************************************************************************)
LEMMA CopiedNext ==
    ASSUME NEW m, NEW dest \in Nat, NEW src \in Nat, dest < src, NEW k \in Nat, k # 0,
           dest + k - 1 \in DOMAIN m, src + k - 1 \in DOMAIN m, DOMAIN m \subseteq Nat
    PROVE  Copied(m, dest, src, k) =
              [Copied(m, dest, src, k - 1) EXCEPT
                  ![dest + k - 1] = Copied(m, dest, src, k - 1)[src + k - 1]]
<1>1. PICK f : f = Copied(m, dest, src, k - 1)
  OBVIOUS
<1>2. PICK to \in DOMAIN m : to = dest + k - 1
  OBVIOUS
<1>3. PICK from \in DOMAIN m : from = src + k - 1
  OBVIOUS
<1>4. /\ DOMAIN f = DOMAIN m
      /\ \A a \in DOMAIN m : f[a] = IF a \in Area(dest, k - 1) THEN m[a - dest + src] ELSE m[a]
  <2>1. k - 1 = 0 => Area(dest, k - 1) = {}
    BY DEF Area
  <2> QED  BY <1>1, <2>1 DEF Copied
<1>5. from \notin Area(dest, k - 1) /\ to - dest + src = from
  BY <1>2, <1>3 DEF Area
<1>6. \A a \in DOMAIN m : a \in Area(dest, k) <=> a \in Area(dest, k - 1) \/ a = to
  BY <1>2 DEF Area
<1>7. [f EXCEPT ![to] = f[from]] =
         [a \in DOMAIN m |-> IF a \in Area(dest, k) THEN m[a - dest + src] ELSE m[a]]
  BY Zenon, <1>4, <1>5, <1>6
<1> QED  BY Zenon, <1>1, <1>2, <1>3, <1>7 DEF Copied

(***************************************************************************)
(* The upward loop of memmove copies an area to a lower address, also when *)
(* the two overlap.                                                        *)
(***************************************************************************)
LEMMA CopyUpCopies ==
    ASSUME NEW m, NEW dest \in Nat, NEW src \in Nat, dest < src, NEW count \in Nat,
           Area(dest, count) \subseteq DOMAIN m, Area(src, count) \subseteq DOMAIN m,
           DOMAIN m \subseteq Nat
    PROVE  CopyUp(m, dest, src, count) = Copied(m, dest, src, count)
<1> DEFINE Body(f) == [k \in 0 .. count |->
                          IF k = 0 THEN m
                          ELSE [f[k - 1] EXCEPT ![dest + k - 1] = f[k - 1][src + k - 1]]]
           done == CHOOSE done : done = Body(done)
           all == [k \in 0 .. count |-> Copied(m, dest, src, k)]
<1>1. CopyUp(m, dest, src, count) = done[count]
  BY DEF CopyUp
<1>2. ASSUME NEW k \in 0 .. count, k # 0
      PROVE  /\ k - 1 \in 0 .. count
             /\ Copied(m, dest, src, k) =
                  [Copied(m, dest, src, k - 1) EXCEPT
                      ![dest + k - 1] = Copied(m, dest, src, k - 1)[src + k - 1]]
  <2>1. dest + k - 1 \in DOMAIN m /\ src + k - 1 \in DOMAIN m
    BY <1>2 DEF Area
  <2>2. k \in Nat /\ k - 1 \in 0 .. count
    BY <1>2
  <2> QED  BY <1>2, <2>1, <2>2, CopiedNext
<1>3. Copied(m, dest, src, 0) = m
  BY Zenon DEF Copied
<1>4. done = Body(done)
  <2>1. \A k \in 0 .. count : all[k] = Copied(m, dest, src, k)
    BY Zenon
  <2>2. all = [k \in 0 .. count |-> all[k]]
    BY Zenon
  <2> HIDE DEF all
  <2>3. ASSUME NEW k \in 0 .. count
        PROVE  all[k] = IF k = 0 THEN m
                        ELSE [all[k - 1] EXCEPT ![dest + k - 1] = all[k - 1][src + k - 1]]
    BY Zenon, <1>2, <1>3, <2>1
  <2>4. all = Body(all)
    BY Zenon, <2>2, <2>3
  <2> HIDE DEF Body
  <2> QED  BY Zenon, <2>4
<1> HIDE DEF done, all
<1>5. \A k \in 0 .. count : done[k] = IF k = 0 THEN m
         ELSE [done[k - 1] EXCEPT ![dest + k - 1] = done[k - 1][src + k - 1]]
  BY Zenon, <1>4
<1> HIDE DEF Body
<1> DEFINE Good == {k \in Nat : k <= count => done[k] = Copied(m, dest, src, k)}
<1>6. 0 \in Good
  <2>1. 0 \in 0 .. count /\ 0 \in Nat
    OBVIOUS
  <2> QED  BY Zenon, <1>3, <1>5, <2>1
<1>7. ASSUME NEW k \in Nat, k \in Good PROVE k + 1 \in Good
  <2>1. PICK j \in Nat : j = k + 1
    OBVIOUS
  <2>2. j # 0 /\ j - 1 = k /\ (j <= count => k <= count /\ j \in 0 .. count)
    BY <2>1
  <2>3. ASSUME j <= count PROVE done[j] = Copied(m, dest, src, j)
    <3>1. j \in 0 .. count /\ done[k] = Copied(m, dest, src, k)
      BY Zenon, <1>7, <2>2, <2>3
    <3>2. done[j] = [done[k] EXCEPT ![dest + j - 1] = done[k][src + j - 1]]
      BY Zenon, <1>5, <2>2, <3>1
    <3>3. Copied(m, dest, src, j) =
             [Copied(m, dest, src, k) EXCEPT
                 ![dest + j - 1] = Copied(m, dest, src, k)[src + j - 1]]
      BY Zenon, <1>2, <2>2, <3>1
    <3> QED  BY Zenon, <3>1, <3>2, <3>3
  <2>4. j \in Good
    BY Zenon, <2>3
  <2> HIDE DEF Good
  <2> QED  BY Zenon, <2>1, <2>4
<1> HIDE DEF Good
<1>8. count \in Good
  BY Zenon, <1>6, <1>7, Inductive
<1>9. done[count] = Copied(m, dest, src, count)
  BY <1>8 DEF Good
<1> QED  BY Zenon, <1>1, <1>9

-----------------------------------------------------------------------------
(***************************************************************************)
(* The sizes.                                                              *)
(***************************************************************************)
LEMMA Sizes ==
    /\ VGA_WIDTH \in Nat /\ VGA_WIDTH > 0 /\ VGA_HEIGHT \in Nat /\ VGA_HEIGHT > 0
    /\ TAB \in Nat /\ TAB > 0 /\ MaxLines \in Nat /\ MaxLines > VGA_HEIGHT
BY ConsoleAssumption

(***************************************************************************)
(* Rows of cells follow each other.                                        *)
(***************************************************************************)
LEMMA RowsApart ==
    ASSUME NEW a \in Nat, NEW b \in Nat, a < b, NEW w \in Nat
    PROVE  a * w + w <= b * w
<1>1. PICK e \in Nat : b = a + 1 + e
  <2>1. b - a - 1 \in Nat /\ b = a + 1 + (b - a - 1)
    OBVIOUS
  <2> QED  BY <2>1
<1>2. b * w = a * w + w + e * w
  BY <1>1
<1>3. e * w \in Nat /\ a * w \in Nat
  OBVIOUS
<1> QED  BY <1>2, <1>3

(***************************************************************************)
(* The cell of row y and column x, and what the areas of vga_scroll are.   *)
(***************************************************************************)
Cell(y, x) == y * VGA_WIDTH + x

(***************************************************************************)
(* Different places on the screen are different cells of vga_buffer; the   *)
(* rows vga_scroll moves and the row it clears are the cells it names.     *)
(***************************************************************************)
LEMMA CellOf ==
    ASSUME NEW y \in 0 .. VGA_HEIGHT - 1, NEW x \in 0 .. VGA_WIDTH - 1
    PROVE  /\ Cell(y, x) \in Cells /\ Cell(y, x) \in Nat
           /\ \A v \in 0 .. VGA_HEIGHT - 1, u \in 0 .. VGA_WIDTH - 1 :
                 Cell(v, u) = Cell(y, x) => v = y /\ u = x
           /\ Cell(y, x) \in Area(0, VGA_WIDTH * (VGA_HEIGHT - 1)) <=> y < VGA_HEIGHT - 1
           /\ Cell(y, x) \in Area((VGA_HEIGHT - 1) * VGA_WIDTH, VGA_WIDTH) <=> y = VGA_HEIGHT - 1
           /\ Cell(y, x) + VGA_WIDTH = Cell(y + 1, x)
<1>0. PICK W \in Nat, H \in Nat : W = VGA_WIDTH /\ H = VGA_HEIGHT /\ W > 0 /\ H > 0
  BY Sizes
<1>1. y * W \in Nat /\ H * W \in Nat /\ (H - 1) * W \in Nat /\ W * H = H * W
      /\ W * (H - 1) = (H - 1) * W /\ H * W = (H - 1) * W + W /\ y \in Nat /\ H - 1 \in Nat
      /\ x \in Nat /\ x < W
  BY <1>0
<1>2. y * W + W <= H * W
  BY <1>0, <1>1, RowsApart
<1>3. y < H - 1 => y * W + W <= (H - 1) * W
  BY <1>0, <1>1, RowsApart
<1>4. Cell(y, x) = y * W + x
  BY <1>0 DEF Cell
<1>5. Cell(y, x) \in Cells /\ Cell(y, x) \in Nat
  <2>1. y * W + x <= W * H - 1
    BY <1>1, <1>2
  <2> QED  BY <1>0, <1>1, <1>4, <2>1 DEF Cells
<1>6. ASSUME NEW v \in 0 .. VGA_HEIGHT - 1, NEW u \in 0 .. VGA_WIDTH - 1, Cell(v, u) = Cell(y, x)
      PROVE  v = y /\ u = x
  <2>1. v \in Nat /\ u \in Nat /\ u < W /\ v * W \in Nat
    BY <1>0
  <2>2. v * W + u = y * W + x
    BY <1>0, <1>6 DEF Cell
  <2>3. v < y => v * W + W <= y * W
    BY <1>0, <1>1, <2>1, RowsApart
  <2>4. y < v => y * W + W <= v * W
    BY <1>0, <1>1, <2>1, RowsApart
  <2>5. ~(v < y) /\ ~(y < v)
    BY <1>0, <1>1, <2>1, <2>2, <2>3, <2>4
  <2>6. v = y
    BY <1>1, <2>1, <2>5
  <2> QED  BY <1>1, <2>1, <2>2, <2>6
<1>7. Cell(y, x) \in Area(0, VGA_WIDTH * (VGA_HEIGHT - 1)) <=> y < VGA_HEIGHT - 1
  <2>1. y < H - 1 => y * W + x < (H - 1) * W
    BY <1>0, <1>1, <1>3
  <2>2. y = H - 1 => ~(y * W + x < (H - 1) * W)
    BY <1>0, <1>1
  <2>3. y < H - 1 \/ y = H - 1
    BY <1>0
  <2>4. Cell(y, x) \in Area(0, VGA_WIDTH * (VGA_HEIGHT - 1)) <=> y * W + x < (H - 1) * W
    BY <1>0, <1>1, <1>4 DEF Area
  <2> QED  BY <1>0, <2>1, <2>2, <2>3, <2>4
<1>8. Cell(y, x) \in Area((VGA_HEIGHT - 1) * VGA_WIDTH, VGA_WIDTH) <=> y = VGA_HEIGHT - 1
  <2>1. y < H - 1 => ~((H - 1) * W <= y * W + x)
    BY <1>0, <1>1, <1>3
  <2>2. y = H - 1 => (H - 1) * W <= y * W + x /\ y * W + x < (H - 1) * W + W
    BY <1>0, <1>1
  <2>3. y < H - 1 \/ y = H - 1
    BY <1>0
  <2>4. Cell(y, x) \in Area((VGA_HEIGHT - 1) * VGA_WIDTH, VGA_WIDTH)
            <=> (H - 1) * W <= y * W + x /\ y * W + x < (H - 1) * W + W
    BY <1>0, <1>1, <1>4 DEF Area
  <2> QED  BY <1>0, <2>1, <2>2, <2>3, <2>4
<1>9. Cell(y, x) + VGA_WIDTH = Cell(y + 1, x)
  <2>1. (y + 1) * W = y * W + W
    BY <1>0, <1>1
  <2> QED  BY <1>0, <1>1, <2>1 DEF Cell
<1> QED  BY <1>5, <1>6, <1>7, <1>8, <1>9

(***************************************************************************)
(* Screen b with its cursor shows the end of the paper p.                  *)
(***************************************************************************)
Shows(b, x, y, p) ==
    /\ DOMAIN b = Cells
    /\ x \in 0 .. VGA_WIDTH - 1 /\ y \in 0 .. VGA_HEIGHT - 1
    /\ \E S : p \in [lines : Seq(S), row : Int, col : Int]
    /\ Len(p.lines) \in VGA_HEIGHT .. MaxLines
    /\ \A v \in 0 .. VGA_HEIGHT - 1 :
          Line(b, v + 1) = p.lines[Len(p.lines) - VGA_HEIGHT + v + 1]
    /\ p.row = Len(p.lines) - VGA_HEIGHT + y + 1
    /\ p.col = x

(***************************************************************************)
(* A row of the screen, cell by cell.                                      *)
(***************************************************************************)
LEMMA LineCells ==
    ASSUME NEW b, NEW v \in 0 .. VGA_HEIGHT - 1
    PROVE  Line(b, v + 1) = [x \in 0 .. VGA_WIDTH - 1 |-> b[Cell(v, x)]]
<1>1. (v + 1) - 1 = v
  BY Sizes
<1> QED  BY <1>1 DEF Line, Cell

(***************************************************************************)
(* vga_scroll moves every row up by one and leaves the last one empty.     *)
(***************************************************************************)
LEMMA ScrollRows ==
    ASSUME NEW b, DOMAIN b = Cells,
           NEW c, c = memset(memmove(b, 0, VGA_WIDTH, VGA_WIDTH * (VGA_HEIGHT - 1)),
                             (VGA_HEIGHT - 1) * VGA_WIDTH, SPACE, VGA_WIDTH)
    PROVE  /\ DOMAIN c = Cells
           /\ \A v \in 0 .. VGA_HEIGHT - 1 :
                 Line(c, v + 1) = IF v = VGA_HEIGHT - 1 THEN BlankLine ELSE Line(b, v + 2)
<1> DEFINE n == VGA_WIDTH * (VGA_HEIGHT - 1)
           moved == memmove(b, 0, VGA_WIDTH, n)
<1>1. VGA_WIDTH * VGA_HEIGHT = n + VGA_WIDTH /\ n \in Nat /\ VGA_WIDTH * VGA_HEIGHT \in Nat
  BY Sizes
<1>2. moved = Copied(b, 0, VGA_WIDTH, n)
  <2>1. Area(0, n) \subseteq Cells /\ Area(VGA_WIDTH, n) \subseteq Cells /\ Cells \subseteq Nat
    <3> HIDE DEF n
    <3> QED  BY <1>1, Sizes DEF Area, Cells
  <2>2. 0 \in Nat /\ VGA_WIDTH \in Nat /\ 0 < VGA_WIDTH
    BY Sizes
  <2> HIDE DEF n
  <2>3. moved = CopyUp(b, 0, VGA_WIDTH, n)
    BY Zenon, <2>2 DEF memmove
  <2> HIDE DEF moved
  <2> QED  BY <1>1, <2>1, <2>2, <2>3, CopyUpCopies
<1>3. DOMAIN moved = Cells
      /\ \A a \in Cells : moved[a] = IF a \in Area(0, n) THEN b[a - 0 + VGA_WIDTH] ELSE b[a]
  <2> HIDE DEF n, moved
  <2>1. n = 0 => Area(0, n) = {}
    BY DEF Area
  <2> QED  BY Zenon, <1>2, <2>1 DEF Copied
<1> HIDE DEF moved
<1>4. /\ DOMAIN c = Cells
      /\ \A a \in Cells : c[a] = IF a \in Area((VGA_HEIGHT - 1) * VGA_WIDTH, VGA_WIDTH)
                                 THEN SPACE ELSE moved[a]
  BY <1>3 DEF memset, moved
<1>5. ASSUME NEW v \in 0 .. VGA_HEIGHT - 1
      PROVE  Line(c, v + 1) = IF v = VGA_HEIGHT - 1 THEN BlankLine ELSE Line(b, v + 2)
  <2>1. Line(c, v + 1) = [x \in 0 .. VGA_WIDTH - 1 |-> c[Cell(v, x)]]
    BY LineCells
  <2>2. CASE v = VGA_HEIGHT - 1
    <3>1. \A x \in 0 .. VGA_WIDTH - 1 : c[Cell(v, x)] = SPACE
      BY <1>4, <2>2, CellOf
    <3> QED  BY Zenon, <2>1, <2>2, <3>1 DEF BlankLine
  <2>3. CASE v # VGA_HEIGHT - 1
    <3>1. v < VGA_HEIGHT - 1 /\ v + 1 \in 0 .. VGA_HEIGHT - 1 /\ v + 2 = (v + 1) + 1
      BY <2>3, Sizes
    <3>2. ASSUME NEW x \in 0 .. VGA_WIDTH - 1 PROVE c[Cell(v, x)] = b[Cell(v + 1, x)]
      <4>1. /\ Cell(v, x) \in Cells /\ Cell(v, x) \in Nat
            /\ Cell(v, x) \in Area(0, n)
            /\ Cell(v, x) \notin Area((VGA_HEIGHT - 1) * VGA_WIDTH, VGA_WIDTH)
            /\ Cell(v, x) + VGA_WIDTH = Cell(v + 1, x)
        BY <2>3, <3>1, CellOf
      <4>2. Cell(v, x) - 0 + VGA_WIDTH = Cell(v + 1, x)
        BY <4>1, Sizes
      <4>3. c[Cell(v, x)] = moved[Cell(v, x)]
        BY <1>4, <4>1
      <4>4. moved[Cell(v, x)] = b[Cell(v, x) - 0 + VGA_WIDTH]
        BY <1>3, <4>1
      <4> QED  BY <4>2, <4>3, <4>4
    <3>3. Line(b, v + 2) = [x \in 0 .. VGA_WIDTH - 1 |-> b[Cell(v + 1, x)]]
      BY <3>1, LineCells
    <3> QED  BY Zenon, <2>1, <2>3, <3>2, <3>3
  <2> QED  BY <2>2, <2>3
<1> QED  BY <1>4, <1>5

(***************************************************************************)
(* Feeding the paper by a line keeps its lines, but perhaps the first.     *)
(***************************************************************************)
LEMMA Fed ==
    ASSUME NEW S, NEW L \in Seq(S), NEW e, NEW cut \in {0, 1}
    PROVE  /\ SubSeq(Append(L, e), 1 + cut, Len(L) + 1) \in Seq(S \cup {e})
           /\ Len(SubSeq(Append(L, e), 1 + cut, Len(L) + 1)) = Len(L) + 1 - cut
           /\ \A i \in 1 .. Len(L) + 1 - cut :
                 SubSeq(Append(L, e), 1 + cut, Len(L) + 1)[i]
                     = IF i + cut = Len(L) + 1 THEN e ELSE L[i + cut]
<1>1. PICK n \in Nat : n = Len(L)
  OBVIOUS
<1>2. PICK q : q = Append(L, e)
  BY Zenon
<1>3. /\ q \in Seq(S \cup {e}) /\ Len(q) = n + 1
      /\ \A i \in 1 .. n + 1 : q[i] = IF i = n + 1 THEN e ELSE L[i]
  <2>1. L \in Seq(S \cup {e})
    OBVIOUS
  <2> QED  BY <1>1, <1>2, <2>1
<1>4. PICK t : t = SubSeq(q, 1 + cut, n + 1)
  BY Zenon
<1>5. /\ t \in Seq(S \cup {e}) /\ Len(t) = n + 1 - cut
      /\ \A i \in 1 .. n + 1 - cut : t[i] = q[i + cut]
  <2>1. CASE cut = 0
    BY <1>3, <1>4, <2>1
  <2>2. CASE cut = 1
    BY <1>3, <1>4, <2>2
  <2> QED  BY <2>1, <2>2
<1>6. \A i \in 1 .. n + 1 - cut : t[i] = IF i + cut = n + 1 THEN e ELSE L[i + cut]
  BY <1>3, <1>5
<1> QED  BY <1>1, <1>2, <1>4, <1>5, <1>6

(***************************************************************************)
(* A line down, on the screen and on the paper.                            *)
(***************************************************************************)
LEMMA DownShows ==
    ASSUME NEW b, NEW x, NEW y, NEW p, Shows(b, x, y, p),
           NEW next, next = vga_scroll([buffer |-> b, x |-> 0, y |-> y + 1])
    PROVE  Shows(next.buffer, next.x, next.y, Down(p))
<1>1. PICK S : p \in [lines : Seq(S), row : Int, col : Int]
  BY DEF Shows
<1>2. PICK L \in Seq(S) : L = p.lines
  BY <1>1
<1>3. PICK n \in Nat : n = Len(L)
  OBVIOUS
<1>4. /\ DOMAIN b = Cells /\ y \in 0 .. VGA_HEIGHT - 1
      /\ n \in VGA_HEIGHT .. MaxLines
      /\ \A v \in 0 .. VGA_HEIGHT - 1 : Line(b, v + 1) = L[n - VGA_HEIGHT + v + 1]
      /\ p.row = n - VGA_HEIGHT + y + 1
  BY <1>2, <1>3 DEF Shows
<1>5. 0 \in 0 .. VGA_WIDTH - 1
  BY Sizes
<1>6. CASE y + 1 < VGA_HEIGHT
  <2>1. next = [buffer |-> b, x |-> 0, y |-> y + 1]
    BY <1>6 DEF vga_scroll
  <2>2. p.row < n /\ p.row \in Int
    BY <1>4, <1>6, Sizes
  <2>3. SubSeq(L, 1 + 0, n) = L
    BY <1>3
  <2>4. Down(p) = [lines |-> L, row |-> p.row + 1, col |-> 0]
    <3>1. p.row < Len(p.lines) /\ ~(Len(p.lines) > MaxLines) /\ p.row + 1 - 0 = p.row + 1
      BY <1>2, <1>3, <1>4, <2>2, Sizes
    <3>2. Down(p) = [lines |-> SubSeq(p.lines, 1 + 0, Len(p.lines)), row |-> p.row + 1 - 0, col |-> 0]
      BY Zenon, <3>1 DEF Down
    <3> QED  BY Zenon, <1>2, <1>3, <2>3, <3>1, <3>2
  <2>5. y + 1 \in 0 .. VGA_HEIGHT - 1 /\ p.row + 1 = n - VGA_HEIGHT + (y + 1) + 1
    BY <1>4, <1>6, Sizes
  <2> QED  BY <1>2, <1>3, <1>4, <1>5, <2>1, <2>2, <2>4, <2>5 DEF Shows
<1>7. CASE ~(y + 1 < VGA_HEIGHT)
  <2>1. PICK c : c = memset(memmove(b, 0, VGA_WIDTH, VGA_WIDTH * (VGA_HEIGHT - 1)),
                            (VGA_HEIGHT - 1) * VGA_WIDTH, SPACE, VGA_WIDTH)
    OBVIOUS
  <2>2. next.buffer = c /\ next.x = 0 /\ next.y = VGA_HEIGHT - 1
    BY <1>7, <2>1 DEF vga_scroll
  <2>3. /\ DOMAIN c = Cells
        /\ \A v \in 0 .. VGA_HEIGHT - 1 :
              Line(c, v + 1) = IF v = VGA_HEIGHT - 1 THEN BlankLine ELSE Line(b, v + 2)
    BY <1>4, <2>1, ScrollRows
  <2>4. PICK cut \in {0, 1} : cut = IF n + 1 > MaxLines THEN 1 ELSE 0
    OBVIOUS
  <2>5. PICK t : t = SubSeq(Append(L, BlankLine), 1 + cut, n + 1)
    BY Zenon
  <2>6. /\ t \in Seq(S \cup {BlankLine}) /\ Len(t) = n + 1 - cut
        /\ \A i \in 1 .. n + 1 - cut :
              t[i] = IF i + cut = n + 1 THEN BlankLine ELSE L[i + cut]
    BY <1>3, <2>5, Fed
  <2>7. p.row = n /\ y = VGA_HEIGHT - 1
    BY <1>4, <1>7, Sizes
  <2>8. Down(p) = [lines |-> t, row |-> n + 1 - cut, col |-> 0]
    <3>1. ~(p.row < Len(p.lines)) /\ Len(Append(p.lines, BlankLine)) = n + 1
      BY <1>2, <1>3, <2>7
    <3>2. Down(p) = LET cut2 == IF Len(Append(p.lines, BlankLine)) > MaxLines THEN 1 ELSE 0
                    IN  [lines |-> SubSeq(Append(p.lines, BlankLine), 1 + cut2,
                                          Len(Append(p.lines, BlankLine))),
                         row |-> p.row + 1 - cut2, col |-> 0]
      BY Zenon, <3>1 DEF Down
    <3> QED  BY Zenon, <1>2, <2>4, <2>5, <2>7, <3>1, <3>2
  <2>9. n + 1 - cut \in VGA_HEIGHT .. MaxLines /\ n + 1 - cut \in Int
    BY <1>4, <2>4, Sizes
  <2>10. ASSUME NEW v \in 0 .. VGA_HEIGHT - 1
         PROVE  Line(c, v + 1) = t[(n + 1 - cut) - VGA_HEIGHT + v + 1]
    <3>1. PICK i \in 1 .. n + 1 - cut : i = (n + 1 - cut) - VGA_HEIGHT + v + 1
      BY <2>9, Sizes
    <3>2. CASE v = VGA_HEIGHT - 1
      <4>1. i + cut = n + 1
        BY <3>1, <3>2, Sizes
      <4> QED  BY SMTT(30), <2>3, <2>6, <3>1, <3>2, <4>1
    <3>3. CASE v # VGA_HEIGHT - 1
      <4>1. i + cut # n + 1 /\ i + cut = n - VGA_HEIGHT + (v + 1) + 1
            /\ v + 1 \in 0 .. VGA_HEIGHT - 1 /\ (v + 1) + 1 = v + 2
        BY <3>1, <3>3, Sizes
      <4>2. Line(b, v + 2) = L[i + cut]
        BY <1>4, <4>1
      <4>3. t[i] = L[i + cut]
        BY <2>6, <4>1
      <4> QED  BY <2>3, <3>1, <3>3, <4>2, <4>3
    <3> QED  BY <3>2, <3>3
  <2>11. n + 1 - cut = (n + 1 - cut) - VGA_HEIGHT + (VGA_HEIGHT - 1) + 1
         /\ VGA_HEIGHT - 1 \in 0 .. VGA_HEIGHT - 1
    BY <2>9, Sizes
  <2>12. Shows(c, 0, VGA_HEIGHT - 1, [lines |-> t, row |-> n + 1 - cut, col |-> 0])
    <3>1. [lines |-> t, row |-> n + 1 - cut, col |-> 0]
              \in [lines : Seq(S \cup {BlankLine}), row : Int, col : Int]
      BY <2>6, <2>9
    <3> QED  BY <1>5, <2>3, <2>6, <2>9, <2>10, <2>11, <3>1 DEF Shows
  <2> QED  BY Zenon, <2>2, <2>8, <2>12
<1> QED  BY <1>6, <1>7

(***************************************************************************)
(* The pen moves within a line.                                            *)
(***************************************************************************)
LEMMA ColumnShows ==
    ASSUME NEW b, NEW x, NEW y, NEW p, Shows(b, x, y, p), NEW z \in 0 .. VGA_WIDTH - 1
    PROVE  Shows(b, z, y, [p EXCEPT !.col = z])
<1>1. PICK S : p \in [lines : Seq(S), row : Int, col : Int]
  BY DEF Shows
<1>2. PICK p2 : p2 = [p EXCEPT !.col = z]
  BY Zenon
<1>3. /\ p2 \in [lines : Seq(S), row : Int, col : Int]
      /\ p2.lines = p.lines /\ p2.row = p.row /\ p2.col = z
  BY <1>1, <1>2, Sizes
<1>4. Shows(b, z, y, p2)
  BY <1>3 DEF Shows
<1> QED  BY <1>2, <1>4

(***************************************************************************)
(* A character, in its cell and on its line.                               *)
(***************************************************************************)
LEMMA PutShows ==
    ASSUME NEW b, NEW x, NEW y, NEW p, Shows(b, x, y, p), NEW c
    PROVE  Shows([b EXCEPT ![Cell(y, x)] = c], x, y, [p EXCEPT !.lines[p.row][p.col] = c])
<1>1. PICK S : p \in [lines : Seq(S), row : Int, col : Int]
  BY DEF Shows
<1>2. PICK L \in Seq(S) : L = p.lines
  BY <1>1
<1>3. PICK n \in Nat : n = Len(L)
  OBVIOUS
<1>4. /\ DOMAIN b = Cells /\ y \in 0 .. VGA_HEIGHT - 1 /\ x \in 0 .. VGA_WIDTH - 1
      /\ n \in VGA_HEIGHT .. MaxLines
      /\ \A v \in 0 .. VGA_HEIGHT - 1 : Line(b, v + 1) = L[n - VGA_HEIGHT + v + 1]
      /\ p.row = n - VGA_HEIGHT + y + 1 /\ p.col = x
  BY <1>2, <1>3 DEF Shows
<1>5. PICK k \in 1 .. n : k = p.row
  BY <1>4, Sizes
<1>6. PICK e : e = [L[k] EXCEPT ![x] = c]
  BY Zenon
<1>7. PICK L2 : L2 = [L EXCEPT ![k] = e]
  BY Zenon
<1>8. /\ L2 \in Seq(S \cup {e}) /\ Len(L2) = n
      /\ \A i \in 1 .. n : L2[i] = IF i = k THEN e ELSE L[i]
  <2>1. L \in Seq(S \cup {e})
    OBVIOUS
  <2> QED  BY <1>3, <1>7, <2>1
<1>9. PICK p2 : p2 = [p EXCEPT !.lines[p.row][p.col] = c]
  BY Zenon
<1>10. p2 = [lines |-> L2, row |-> p.row, col |-> x]
  <2>1. p2 = [p EXCEPT !.lines = [p.lines EXCEPT ![p.row] = [p.lines[p.row] EXCEPT ![p.col] = c]]]
    BY <1>9
  <2>2. p2 = [p EXCEPT !.lines = L2]
    BY Zenon, <1>2, <1>4, <1>5, <1>6, <1>7, <2>1
  <2> QED  BY <1>1, <1>4, <2>2
<1>11. PICK b2 : b2 = [b EXCEPT ![Cell(y, x)] = c]
  BY Zenon
<1>12. DOMAIN b2 = Cells /\ \A a \in Cells : b2[a] = IF a = Cell(y, x) THEN c ELSE b[a]
  BY <1>4, <1>11
<1>13. ASSUME NEW v \in 0 .. VGA_HEIGHT - 1
       PROVE  Line(b2, v + 1) = L2[n - VGA_HEIGHT + v + 1]
  <2>1. PICK i \in 1 .. n : i = n - VGA_HEIGHT + v + 1
    BY <1>4, Sizes
  <2>2. i = k <=> v = y
    BY <1>4, <1>5, <2>1, Sizes
  <2>3. /\ Line(b2, v + 1) = [u \in 0 .. VGA_WIDTH - 1 |-> b2[Cell(v, u)]]
        /\ Line(b, v + 1) = [u \in 0 .. VGA_WIDTH - 1 |-> b[Cell(v, u)]]
    BY LineCells
  <2>4. Line(b, v + 1) = L[i]
    BY <1>4, <2>1
  <2>5. CASE v = y
    <3>1. \A u \in 0 .. VGA_WIDTH - 1 : b2[Cell(v, u)] = IF u = x THEN c ELSE b[Cell(v, u)]
      BY <1>4, <1>12, <2>5, CellOf
    <3>2. e = [u \in 0 .. VGA_WIDTH - 1 |-> IF u = x THEN c ELSE b[Cell(v, u)]]
      <4>1. L[k] = [u \in 0 .. VGA_WIDTH - 1 |-> b[Cell(v, u)]]
        BY Zenon, <2>2, <2>3, <2>4, <2>5
      <4> QED  BY Zenon, <1>4, <1>6, <4>1
    <3>3. Line(b2, v + 1) = e
      BY Zenon, <2>3, <3>1, <3>2
    <3> QED  BY <1>8, <2>1, <2>2, <2>5, <3>3
  <2>6. CASE v # y
    <3>1. \A u \in 0 .. VGA_WIDTH - 1 : b2[Cell(v, u)] = b[Cell(v, u)]
      BY <1>4, <1>12, <2>6, CellOf
    <3>2. Line(b2, v + 1) = Line(b, v + 1)
      BY Zenon, <2>3, <3>1
    <3> QED  BY SMTT(30), <1>8, <2>1, <2>2, <2>4, <2>6, <3>2
  <2> QED  BY <2>5, <2>6
<1>14. Shows(b2, x, y, p2)
  <2>1. p.row \in Int /\ x \in Int
    BY <1>1, <1>4, Sizes
  <2>2. p2 \in [lines : Seq(S \cup {e}), row : Int, col : Int]
    BY <1>8, <1>10, <2>1
  <2>3. p2.lines = L2 /\ p2.row = p.row /\ p2.col = x
    BY <1>10
  <2> QED  BY <1>4, <1>8, <1>12, <1>13, <2>2, <2>3 DEF Shows
<1> QED  BY Zenon, <1>9, <1>11, <1>14

(***************************************************************************)
(* (cursor_x + 8) & ~7 is the next tab stop.                               *)
(***************************************************************************)
LEMMA TabStop ==
    ASSUME NEW x \in Nat, NEW t \in Nat, t > 0
    PROVE  ((x + t) \div t) * t = CHOOSE s \in x + 1 .. x + t : s % t = 0
<1>1. PICK q \in Nat, r \in 0 .. t - 1 : x = q * t + r
  <2>1. x \div t \in Nat /\ x % t \in 0 .. t - 1 /\ x = (x \div t) * t + (x % t)
    BY SMTT(30)
  <2> QED  BY Zenon, <2>1
<1>2. q * t \in Nat /\ (q + 1) * t = q * t + t /\ (q + 1) * t \in Nat
  OBVIOUS
<1>3. (x + t) \div t = q + 1
  BY <1>1, <1>2
<1>4. (q + 1) * t \in x + 1 .. x + t
  BY <1>1, <1>2
<1>5. ((q + 1) * t) % t = 0
  OBVIOUS
<1>6. ASSUME NEW s \in x + 1 .. x + t, s % t = 0 PROVE s = (q + 1) * t
  <2>1. PICK k \in Nat : s = k * t
    BY <1>6
  <2>2. k < q + 1 => k * t + t <= (q + 1) * t
    BY RowsApart
  <2>3. q + 1 < k => (q + 1) * t + t <= k * t
    BY RowsApart
  <2>4. k * t \in Nat
    OBVIOUS
  <2>5. ~(k < q + 1) /\ ~(q + 1 < k)
    BY <1>1, <1>2, <2>1, <2>2, <2>3, <2>4
  <2> QED  BY <2>1, <2>5
<1> QED  BY <1>3, <1>4, <1>5, <1>6

(***************************************************************************)
(* The start of the next line.                                             *)
(***************************************************************************)
LEMMA NextLine ==
    ASSUME NEW b, NEW z \in Nat, NEW y \in Nat, VGA_WIDTH \in Nat, z >= VGA_WIDTH
    PROVE  WrapLine([buffer |-> b, x |-> z, y |-> y]) = [buffer |-> b, x |-> 0, y |-> y + 1]
BY Zenon DEF WrapLine

(***************************************************************************)
(* The cursor moves to column z, or past the right edge.                   *)
(***************************************************************************)
LEMMA MovedShows ==
    ASSUME NEW b, NEW x, NEW y, NEW p, Shows(b, x, y, p), NEW z \in Nat,
           NEW next, next = vga_scroll(WrapLine([buffer |-> b, x |-> z, y |-> y]))
    PROVE  Shows(next.buffer, next.x, next.y, Moved(p, z))
<1>0. y \in 0 .. VGA_HEIGHT - 1 /\ VGA_HEIGHT \in Nat /\ VGA_WIDTH \in Nat
  BY Sizes DEF Shows
<1>1. CASE z < VGA_WIDTH
  <2>1. WrapLine([buffer |-> b, x |-> z, y |-> y]) = [buffer |-> b, x |-> z, y |-> y]
    BY <1>0, <1>1 DEF WrapLine
  <2>2. next = [buffer |-> b, x |-> z, y |-> y]
    BY <1>0, <2>1 DEF vga_scroll
  <2>3. Moved(p, z) = [p EXCEPT !.col = z] /\ z \in 0 .. VGA_WIDTH - 1
    BY <1>0, <1>1 DEF Moved
  <2>4. Shows(b, z, y, [p EXCEPT !.col = z])
    BY Zenon, <2>3, ColumnShows
  <2>5. next.buffer = b /\ next.x = z /\ next.y = y
    BY <2>2
  <2> QED  BY Zenon, <2>3, <2>4, <2>5
<1>2. CASE ~(z < VGA_WIDTH)
  <2>1. WrapLine([buffer |-> b, x |-> z, y |-> y]) = [buffer |-> b, x |-> 0, y |-> y + 1]
    <3>1. z >= VGA_WIDTH /\ y \in Nat
      BY <1>0, <1>2
    <3> QED  BY Zenon, <1>0, <3>1, NextLine
  <2>2. next = vga_scroll([buffer |-> b, x |-> 0, y |-> y + 1])
    BY Zenon, <2>1
  <2>3. Moved(p, z) = Down(p)
    BY <1>2 DEF Moved
  <2> QED  BY Zenon, <2>2, <2>3, DownShows
<1> QED  BY <1>1, <1>2

(***************************************************************************)
(* Every kind of character leaves the screen and the paper in agreement.   *)
(***************************************************************************)
LEMMA TypedShows ==
    ASSUME NEW b, NEW x, NEW y, NEW p, Shows(b, x, y, p), NEW c,
           NEW next,
           next = vga_scroll(WrapLine(Placed([buffer |-> b, x |-> x, y |-> y], c)))
    PROVE  Shows(next.buffer, next.x, next.y, Typed(p, c))
<1>0. /\ y \in 0 .. VGA_HEIGHT - 1 /\ x \in 0 .. VGA_WIDTH - 1 /\ p.col = x
      /\ VGA_HEIGHT \in Nat /\ VGA_WIDTH \in Nat \ {0} /\ TAB \in Nat /\ TAB > 0
  BY Sizes, ConsoleAssumption DEF Shows
<1> DEFINE Screen(d, u, v) == [buffer |-> d, x |-> u, y |-> v]
<1>1. CASE c = LF
  <2>1. Placed(Screen(b, x, y), c) = Screen(b, 0, y + 1)
    BY Zenon, <1>1 DEF Placed
  <2>2. WrapLine(Screen(b, 0, y + 1)) = Screen(b, 0, y + 1)
    BY <1>0 DEF WrapLine
  <2>3. next = vga_scroll(Screen(b, 0, y + 1))
    BY Zenon, <2>1, <2>2
  <2>4. Typed(p, c) = Down(p)
    BY <1>1 DEF Typed
  <2> QED  BY Zenon, <2>3, <2>4, DownShows
<1>2. CASE c = CR
  <2>1. Placed(Screen(b, x, y), c) = Screen(b, 0, y)
    BY <1>2 DEF Placed, LF, CR
  <2>2. Typed(p, c) = Moved(p, 0)
    BY <1>2 DEF Typed, LF, CR
  <2>3. 0 \in Nat
    OBVIOUS
  <2> QED  BY Zenon, <2>1, <2>2, <2>3, MovedShows
<1>3. CASE c = HT
  <2>1. Placed(Screen(b, x, y), c) = Screen(b, ((x + TAB) \div TAB) * TAB, y)
    BY <1>3 DEF Placed, LF, CR, HT
  <2>2. Typed(p, c) = Moved(p, CHOOSE t \in x + 1 .. x + TAB : t % TAB = 0)
    BY <1>0, <1>3 DEF Typed, LF, CR, HT
  <2>3. ((x + TAB) \div TAB) * TAB = CHOOSE t \in x + 1 .. x + TAB : t % TAB = 0
    BY <1>0, TabStop
  <2>4. ((x + TAB) \div TAB) * TAB \in Nat
    BY <1>0
  <2> QED  BY Zenon, <2>1, <2>2, <2>3, <2>4, MovedShows
<1>4. CASE c = BS
  <2>1. PICK z \in Nat : z = IF x > 0 THEN x - 1 ELSE x
    BY <1>0
  <2>2. Placed(Screen(b, x, y), c) = Screen(b, z, y)
    BY <1>4, <2>1 DEF Placed, LF, CR, HT, BS
  <2>3. Max({0, x - 1}) = z
    BY <1>0, <2>1 DEF Max
  <2>4. Typed(p, c) = Moved(p, z)
    BY <1>0, <1>4, <2>3 DEF Typed, LF, CR, HT, BS
  <2> QED  BY Zenon, <2>2, <2>4, MovedShows
<1>5. CASE c \notin {LF, CR, HT, BS}
  <2>1. PICK d : d = [b EXCEPT ![Cell(y, x)] = c]
    BY Zenon
  <2>2. PICK q : q = [p EXCEPT !.lines[p.row][p.col] = c]
    BY Zenon
  <2>3. Shows(d, x, y, q)
    BY Zenon, <2>1, <2>2, PutShows
  <2>4. Placed(Screen(b, x, y), c) = Screen(d, x + 1, y)
    BY Zenon, <1>5, <2>1 DEF Placed, Cell
  <2>5. Typed(p, c) = Moved(q, x + 1)
    BY Zenon, <1>0, <1>5, <2>2 DEF Typed
  <2>6. x + 1 \in Nat
    BY <1>0
  <2> QED  BY Zenon, <2>3, <2>4, <2>5, <2>6, MovedShows
<1> QED  BY <1>1, <1>2, <1>3, <1>4, <1>5

-----------------------------------------------------------------------------
(***************************************************************************)
(* The inductive invariant of the screen.                                  *)
(***************************************************************************)
ScreenInv ==
    /\ mem \in [Addr -> Byte]
    /\ Shows(vga_buffer, cursor_x, cursor_y, paper)

(***************************************************************************)
(* The invariant holds on whatever screen the boot loader leaves.          *)
(***************************************************************************)
LEMMA InitScreen == Init => ScreenInv
<1> SUFFICES ASSUME Init PROVE ScreenInv
  OBVIOUS
<1>1. DOMAIN vga_buffer = Cells
  BY ConsoleAssumption DEF Init
<1>2. PICK L : L = [r \in 1 .. VGA_HEIGHT |-> Line(vga_buffer, r)]
  BY Zenon
<1>3. PICK S : S = {Line(vga_buffer, r) : r \in 1 .. VGA_HEIGHT}
  BY Zenon
<1>4. L \in Seq(S) /\ Len(L) = VGA_HEIGHT
  BY <1>2, <1>3, Sizes
<1>5. paper = [lines |-> L, row |-> 1, col |-> 0]
  BY <1>2 DEF Init
<1>6. paper \in [lines : Seq(S), row : Int, col : Int]
  BY <1>4, <1>5
<1>7. ASSUME NEW v \in 0 .. VGA_HEIGHT - 1
      PROVE  Line(vga_buffer, v + 1) = paper.lines[Len(paper.lines) - VGA_HEIGHT + v + 1]
  <2>1. Len(paper.lines) - VGA_HEIGHT + v + 1 = v + 1 /\ v + 1 \in 1 .. VGA_HEIGHT
    BY <1>4, <1>5, Sizes
  <2> QED  BY Zenon, <1>2, <1>5, <2>1
<1>8. Shows(vga_buffer, 0, 0, paper)
  BY SMTT(30), <1>1, <1>4, <1>5, <1>6, <1>7, Sizes DEF Shows
<1> QED  BY Zenon, <1>8 DEF Init, ScreenInv

(***************************************************************************)
(* Every call of kprintf and every character preserves the invariant.      *)
(***************************************************************************)
LEMMA NextScreen == ScreenInv /\ [Next]_vars => ScreenInv'
<1> SUFFICES ASSUME ScreenInv, [Next]_vars PROVE ScreenInv'
  OBVIOUS
<1>1. CASE UNCHANGED <<mem, vga_buffer, cursor_x, cursor_y, paper>>
  <2>1. vga_buffer' = vga_buffer /\ cursor_x' = cursor_x /\ cursor_y' = cursor_y
        /\ paper' = paper /\ mem' = mem
    BY <1>1
  <2>2. Shows(vga_buffer', cursor_x', cursor_y', paper')
    BY Zenon, <2>1 DEF ScreenInv
  <2> QED  BY Zenon, <2>1, <2>2 DEF ScreenInv, Shows
<1>2. CASE vga_putchar
  <2>1. PICK c : c = Head(out)
    OBVIOUS
  <2>2. PICK next : next = vga_scroll(WrapLine(Placed(
                        [buffer |-> vga_buffer, x |-> cursor_x, y |-> cursor_y], c)))
    OBVIOUS
  <2>3. /\ vga_buffer' = next.buffer /\ cursor_x' = next.x /\ cursor_y' = next.y
        /\ paper' = Typed(paper, c) /\ mem' = mem
    BY Zenon, <1>2, <2>1, <2>2 DEF vga_putchar
  <2>4. Shows(next.buffer, next.x, next.y, Typed(paper, c))
    BY Zenon, <2>2, TypedShows DEF ScreenInv
  <2>5. Shows(vga_buffer', cursor_x', cursor_y', paper')
    BY Zenon, <2>3, <2>4
  <2> QED  BY Zenon, <2>3, <2>5 DEF ScreenInv, Shows
<1> QED  BY <1>1, <1>2 DEF Next, vars, kprintf

(***************************************************************************)
(* The invariant says that the cursor is on the screen and that the screen *)
(* shows the last lines.                                                   *)
(***************************************************************************)
LEMMA ScreenSafe == ScreenInv => TypeOK /\ ShowsLastLines
<1> SUFFICES ASSUME ScreenInv PROVE TypeOK /\ ShowsLastLines
  OBVIOUS
<1>1. TypeOK
  BY DEF ScreenInv, Shows, TypeOK
<1>2. PICK n \in Nat : n = Len(paper.lines)
  BY Sizes DEF ScreenInv, Shows
<1>3. ASSUME NEW r \in 1 .. VGA_HEIGHT
      PROVE  Line(vga_buffer, r) = paper.lines[n - VGA_HEIGHT + r]
  <2>1. PICK v \in 0 .. VGA_HEIGHT - 1 : r = v + 1
    BY Sizes
  <2>2. Line(vga_buffer, v + 1) = paper.lines[n - VGA_HEIGHT + v + 1]
    BY <1>2 DEF ScreenInv, Shows
  <2>3. n - VGA_HEIGHT + r = n - VGA_HEIGHT + v + 1
    BY <2>1, Sizes
  <2> QED  BY Zenon, <2>1, <2>2, <2>3
<1>4. paper.row = n - VGA_HEIGHT + cursor_y + 1 /\ paper.col = cursor_x
      /\ cursor_y \in 0 .. VGA_HEIGHT - 1
  BY <1>2 DEF ScreenInv, Shows
<1>5. cursor_y = paper.row - (n - VGA_HEIGHT) - 1
  BY <1>4, Sizes
<1> QED  BY Zenon, <1>1, <1>2, <1>3, <1>4, <1>5 DEF ShowsLastLines

(***************************************************************************)
(* On a screen of any size, with tab stops anywhere, vga_putchar never     *)
(* leaves the cursor off the screen, so that the next character is written *)
(* inside of the VGA buffer.                                               *)
(***************************************************************************)
THEOREM CursorOnScreen == Spec => []TypeOK
<1>1. Init => ScreenInv
  BY InitScreen
<1>2. ScreenInv /\ [Next]_vars => ScreenInv'
  BY NextScreen
<1>3. ScreenInv => TypeOK
  BY ScreenSafe
<1> QED  BY <1>1, <1>2, <1>3, PTL DEF Spec

(***************************************************************************)
(* After any characters the screen shows the last VGA_HEIGHT lines of what *)
(* was printed: vga_scroll loses no row and duplicates none, and the       *)
(* cursor is where the next character belongs.                             *)
(***************************************************************************)
THEOREM ScreenIsPaper == Spec => []ShowsLastLines
<1>1. Init => ScreenInv
  BY InitScreen
<1>2. ScreenInv /\ [Next]_vars => ScreenInv'
  BY NextScreen
<1>3. ScreenInv => ShowsLastLines
  BY ScreenSafe
<1> QED  BY <1>1, <1>2, <1>3, PTL DEF Spec

-----------------------------------------------------------------------------
(***************************************************************************)
(* The digits of the numbers up to n.                                      *)
(***************************************************************************)
Dividing(f, n, base) ==
    f = [v \in 0 .. n |-> IF v = 0 THEN <<>>
                          ELSE Append(f[v \div base], Digit(v % base))]

(***************************************************************************)
(* There is a function that does what the loop of print_int does.          *)
(***************************************************************************)
LEMMA DividingExists ==
    ASSUME NEW base \in Nat, base > 1
    PROVE  \A n \in Nat : \E f : Dividing(f, n, base)
<1> DEFINE Good == {n \in Nat : \E f : Dividing(f, n, base)}
<1>1. 0 \in Good
  <2> DEFINE f == [v \in 0 .. 0 |-> <<>>]
  <2>1. Dividing(f, 0, base)
    BY DEF Dividing
  <2> HIDE DEF f
  <2> QED  BY <2>1
<1>2. ASSUME NEW n \in Nat, n \in Good PROVE n + 1 \in Good
  <2>1. PICK f : Dividing(f, n, base)
    BY <1>2
  <2> DEFINE Round(h, v) == IF v = 0 THEN <<>> ELSE Append(h[v \div base], Digit(v % base))
             more == [v \in 0 .. n + 1 |-> IF v = n + 1 THEN Round(f, n + 1) ELSE f[v]]
  <2>2. ASSUME NEW v \in 0 .. n + 1 PROVE more[v] = Round(more, v)
    <3>0. v # 0 => v \div base \in 0 .. n /\ v \div base # n + 1
      BY SMTT(30)
    <3>1. CASE v = n + 1
      <4>1. more[v \div base] = f[v \div base] /\ more[v] = Round(f, v)
        BY <3>0, <3>1
      <4> HIDE DEF more
      <4> QED  BY Zenon, <4>1
    <3>2. CASE v # n + 1
      <4>1. v \in 0 .. n
        BY <3>2
      <4>2. f[v] = Round(f, v)
        BY Zenon, <2>1, <4>1 DEF Dividing
      <4>3. more[v] = f[v] /\ (v # 0 => more[v \div base] = f[v \div base])
        BY <3>0, <3>2, <4>1
      <4> HIDE DEF more
      <4> QED  BY Zenon, <4>2, <4>3
    <3> QED  BY <3>1, <3>2
  <2>3. Dividing(more, n + 1, base)
    <3>1. more = [v \in 0 .. n + 1 |-> more[v]]
      OBVIOUS
    <3> HIDE DEF more
    <3> QED  BY Zenon, <2>2, <3>1 DEF Dividing
  <2> HIDE DEF more
  <2> QED  BY <2>3
<1> HIDE DEF Good
<1>3. \A n \in Nat : n \in Good
  BY <1>1, <1>2, Inductive
<1> QED  BY <1>3 DEF Good

(***************************************************************************)
(* Digits is the value of such a function.                                 *)
(***************************************************************************)
LEMMA DigitsAre ==
    ASSUME NEW base \in Nat, base > 1, NEW n \in Nat
    PROVE  \E f : Dividing(f, n, base) /\ Digits(n, base) = f[n]
<1> DEFINE Body(f) == [v \in 0 .. n |-> IF v = 0 THEN <<>>
                                        ELSE Append(f[v \div base], Digit(v % base))]
           digits == CHOOSE f : f = Body(f)
<1>1. \A f : Dividing(f, n, base) <=> f = Body(f)
  BY Zenon DEF Dividing
<1>2. Digits(n, base) = digits[n]
  BY Zenon DEF Digits
<1>3. \E f : f = Body(f)
  BY Zenon, <1>1, DividingExists
<1>4. digits = Body(digits)
  <2> HIDE DEF Body
  <2> QED  BY Zenon, <1>3
<1>5. Dividing(digits, n, base)
  <2> HIDE DEF Body, digits
  <2> QED  BY Zenon, <1>1, <1>4
<1> HIDE DEF digits
<1> QED  BY <1>2, <1>5

-----------------------------------------------------------------------------
(***************************************************************************)
(* Reading the first n of some digits.                                     *)
(***************************************************************************)
Reading(f, n, digits, base) ==
    f = [k \in 0 .. n |-> IF k = 0 THEN 0 ELSE f[k - 1] * base + ValueOf(digits[k])]

(***************************************************************************)
(* There is a function that reads any number of digits.                    *)
(***************************************************************************)
LEMMA ReadingExists ==
    ASSUME NEW digits, NEW base
    PROVE  \A n \in Nat : \E f : Reading(f, n, digits, base)
<1> DEFINE Good == {n \in Nat : \E f : Reading(f, n, digits, base)}
<1>1. 0 \in Good
  <2> DEFINE f == [k \in 0 .. 0 |-> 0]
  <2>1. Reading(f, 0, digits, base)
    BY DEF Reading
  <2> HIDE DEF f
  <2> QED  BY <2>1
<1>2. ASSUME NEW n \in Nat, n \in Good PROVE n + 1 \in Good
  <2>1. PICK f : Reading(f, n, digits, base)
    BY <1>2
  <2> DEFINE Round(h, k) == IF k = 0 THEN 0 ELSE h[k - 1] * base + ValueOf(digits[k])
             more == [k \in 0 .. n + 1 |-> IF k = n + 1 THEN Round(f, n + 1) ELSE f[k]]
  <2>2. ASSUME NEW k \in 0 .. n + 1 PROVE more[k] = Round(more, k)
    <3>1. CASE k = n + 1
      <4>1. more[k - 1] = f[k - 1]
        BY <3>1
      <4>2. more[k] = Round(f, k)
        BY Zenon, <3>1
      <4> HIDE DEF more
      <4> QED  BY Zenon, <4>1, <4>2
    <3>2. CASE k # n + 1
      <4>1. k \in 0 .. n /\ (k # 0 => k - 1 \in 0 .. n /\ k - 1 # n + 1)
        BY <3>2
      <4>2. f[k] = Round(f, k)
        BY Zenon, <2>1, <4>1 DEF Reading
      <4>3. more[k] = f[k] /\ (k # 0 => more[k - 1] = f[k - 1])
        BY <3>2, <4>1
      <4> HIDE DEF more
      <4> QED  BY Zenon, <4>2, <4>3
    <3> QED  BY <3>1, <3>2
  <2>3. Reading(more, n + 1, digits, base)
    <3>1. more = [k \in 0 .. n + 1 |-> more[k]]
      OBVIOUS
    <3> HIDE DEF more
    <3> QED  BY Zenon, <2>2, <3>1 DEF Reading
  <2> HIDE DEF more
  <2> QED  BY <2>3
<1> HIDE DEF Good
<1>3. \A n \in Nat : n \in Good
  BY <1>1, <1>2, Inductive
<1> QED  BY <1>3 DEF Good

Adds(f, k, digits, base) == f[k] = f[k - 1] * base + ValueOf(digits[k])

(***************************************************************************)
(* Each digit read adds its value to the base times what was read before.  *)
(***************************************************************************)
LEMMA ReadingRound ==
    ASSUME NEW f, NEW n \in Nat, NEW digits, NEW base, Reading(f, n, digits, base)
    PROVE  f[0] = 0 /\ \A k \in 1 .. n : Adds(f, k, digits, base)
<1>1. 0 \in 0 .. n /\ \A k \in 1 .. n : k \in 0 .. n /\ k # 0
  OBVIOUS
<1>2. f[0] = 0
  BY Zenon, <1>1 DEF Reading
<1>3. ASSUME NEW k \in 1 .. n PROVE Adds(f, k, digits, base)
  BY Zenon, <1>1 DEF Reading, Adds
<1> QED  BY <1>2, <1>3

(***************************************************************************)
(* Read is the value of such a function.                                   *)
(***************************************************************************)
LEMMA ReadIs ==
    ASSUME NEW S, NEW s \in Seq(S), NEW base
    PROVE  \E f : Reading(f, Len(s), s, base) /\ Read(s, base) = f[Len(s)]
<1> DEFINE Body(f) == [k \in 0 .. Len(s) |-> IF k = 0 THEN 0
                                             ELSE f[k - 1] * base + ValueOf(s[k])]
           value == CHOOSE f : f = Body(f)
<1>1. \A f : Reading(f, Len(s), s, base) <=> f = Body(f)
  BY Zenon DEF Reading
<1>2. Read(s, base) = value[Len(s)]
  BY Zenon DEF Read
<1>3. Len(s) \in Nat
  OBVIOUS
<1>4. \E f : f = Body(f)
  BY Zenon, <1>1, <1>3, ReadingExists
<1>5. value = Body(value)
  <2> HIDE DEF Body
  <2> QED  BY Zenon, <1>4
<1>6. Reading(value, Len(s), s, base)
  <2> HIDE DEF Body, value
  <2> QED  BY Zenon, <1>1, <1>5
<1> HIDE DEF value
<1> QED  BY <1>2, <1>6

(***************************************************************************)
(* A sequence with one more element.                                       *)
(***************************************************************************)
LEMMA Appended ==
    ASSUME NEW s \in Seq(Nat), NEW d \in Nat
    PROVE  /\ Append(s, d) \in Seq(Nat)
           /\ Append(s, d) # <<>>
           /\ Len(Append(s, d)) = Len(s) + 1
           /\ Append(s, d)[Len(s) + 1] = d
           /\ \A k \in 1 .. Len(s) : Append(s, d)[k] = s[k]
<1>1. Append(s, d) \in Seq(Nat)
  OBVIOUS
<1>2. Append(s, d) # <<>>
  OBVIOUS
<1>3. Len(Append(s, d)) = Len(s) + 1 /\ Append(s, d)[Len(s) + 1] = d
  OBVIOUS
<1>4. \A k \in 1 .. Len(s) : Append(s, d)[k] = s[k]
  OBVIOUS
<1> QED  BY <1>1, <1>2, <1>3, <1>4

(***************************************************************************)
(* No digits are 0, and a further digit counts once, the others base times *)
(* as much.                                                                *)
(***************************************************************************)
LEMMA ReadEmpty ==
    ASSUME NEW base
    PROVE  Read(<<>>, base) = 0
<1>1. PICK f : Reading(f, Len(<<>>), <<>>, base) /\ Read(<<>>, base) = f[Len(<<>>)]
  <2>1. <<>> \in Seq({})
    OBVIOUS
  <2> QED  BY Zenon, <2>1, ReadIs
<1>2. Len(<<>>) = 0
  OBVIOUS
<1> QED  BY <1>1, <1>2 DEF Reading

(***************************************************************************)
(* What a numeral with one more digit reads as.                            *)
(***************************************************************************)
LEMMA ReadAppend ==
    ASSUME NEW s \in Seq(Nat), NEW d \in Nat, NEW base
    PROVE  Read(Append(s, d), base) = Read(s, base) * base + ValueOf(d)
<1>1. PICK n \in Nat : n = Len(s)
  OBVIOUS
<1>2. PICK t \in Seq(Nat) : t = Append(s, d)
  BY Zenon, Appended
<1>3. Len(t) = n + 1 /\ t[n + 1] = d /\ \A k \in 1 .. n : t[k] = s[k]
  BY Zenon, <1>1, <1>2, Appended
<1>4. PICK f : Reading(f, n, s, base) /\ Read(s, base) = f[n]
  BY Zenon, <1>1, ReadIs
<1>5. PICK g : Reading(g, n + 1, t, base) /\ Read(t, base) = g[n + 1]
  BY Zenon, <1>3, ReadIs
<1> DEFINE Good == {k \in Nat : k <= n => g[k] = f[k]}
<1>6. 0 \in Good
  <2>1. n + 1 \in Nat
    OBVIOUS
  <2>2. f[0] = 0 /\ g[0] = 0
    BY Zenon, <1>4, <1>5, <2>1, ReadingRound
  <2> QED  BY <2>2
<1>7. ASSUME NEW k \in Nat, k \in Good PROVE k + 1 \in Good
  <2> SUFFICES ASSUME k + 1 <= n PROVE g[k + 1] = f[k + 1]
    OBVIOUS
  <2>1. PICK j \in 1 .. n : j = k + 1 /\ j - 1 = k /\ j \in 1 .. n + 1 /\ n + 1 \in Nat
    OBVIOUS
  <2>2. Adds(f, j, s, base)
    BY Zenon, <1>4, ReadingRound
  <2>3. Adds(g, j, t, base)
    BY Zenon, <1>5, <2>1, ReadingRound
  <2>4. g[k] = f[k]
    BY <1>7
  <2> QED  BY Zenon, <1>3, <2>1, <2>2, <2>3, <2>4 DEF Adds
<1> HIDE DEF Good
<1>8. n \in Good
  BY Zenon, <1>6, <1>7, Inductive
<1>9. g[n] = f[n]
  BY <1>8 DEF Good
<1>10. PICK j \in Nat : j = n + 1 /\ j - 1 = n /\ j \in 1 .. j
  OBVIOUS
<1>11. Adds(g, j, t, base)
  BY Zenon, <1>5, <1>10, ReadingRound
<1> QED  BY Zenon, <1>2, <1>3, <1>4, <1>5, <1>9, <1>10, <1>11 DEF Adds

(***************************************************************************)
(* Digits makes the numeral of its value: no leading zero.                 *)
(***************************************************************************)
IsNumeral(digits, base, value) ==
    /\ digits \in Seq(Nat)
    /\ Read(digits, base) = value
    /\ value > 0 => digits # <<>> /\ digits[1] # ZERO

(***************************************************************************)
(* A digit behind the numeral of the quotient makes the numeral of the     *)
(* dividend.                                                               *)
(***************************************************************************)
LEMMA NumeralAppend ==
    ASSUME NEW s, NEW base \in {10, 16}, NEW u \in Nat, NEW r \in 0 .. base - 1,
           u * base + r > 0,
           IsNumeral(s, base, u), u = 0 => s = <<>>
    PROVE  IsNumeral(Append(s, Digit(r)), base, u * base + r)
<1>1. Digit(r) \in Nat /\ ValueOf(Digit(r)) = r /\ (r > 0 => Digit(r) # ZERO)
  BY DEF Digit, ValueOf, ZERO
<1>2. PICK d \in Nat : d = Digit(r)
  BY <1>1
<1>3. s \in Seq(Nat) /\ Read(s, base) = u /\ (u > 0 => s # <<>> /\ s[1] # ZERO)
  BY DEF IsNumeral
<1>4. Read(Append(s, d), base) = u * base + ValueOf(d)
  BY Zenon, <1>3, ReadAppend
<1>5. Append(s, d) \in Seq(Nat) /\ Append(s, d) # <<>>
  BY Zenon, <1>3, Appended
<1>6. Append(s, d)[1] # ZERO
  <2>1. CASE u = 0
    <3>1. r > 0
      BY <2>1
    <3>2. Append(s, d)[1] = d
      BY <2>1
    <3> QED  BY <1>1, <1>2, <3>1, <3>2
  <2>2. CASE u # 0
    <3>1. s # <<>> /\ s[1] # ZERO
      BY <1>3, <2>2
    <3>2. Append(s, d)[1] = s[1]
      BY <1>3, <3>1
    <3> QED  BY Zenon, <3>1, <3>2
  <2> QED  BY <2>1, <2>2
<1> QED  BY Zenon, <1>1, <1>2, <1>4, <1>5, <1>6 DEF IsNumeral

(***************************************************************************)
(* The digits the loops of print_int, print_uint and print_hex make are    *)
(* the numeral of the value.                                               *)
(***************************************************************************)
LEMMA DigitsNumeral ==
    ASSUME NEW base \in {10, 16}, NEW n \in Nat
    PROVE  IsNumeral(Digits(n, base), base, n)
<1>1. base \in Nat /\ base > 1
  OBVIOUS
<1>2. PICK f : Dividing(f, n, base) /\ Digits(n, base) = f[n]
  BY Zenon, <1>1, DigitsAre
<1> DEFINE Bad == {u \in 0 .. n : ~IsNumeral(f[u], base, u)}
<1>3. f[0] = <<>>
  <2>1. 0 \in 0 .. n
    OBVIOUS
  <2> QED  BY Zenon, <1>2, <2>1 DEF Dividing
<1>4. SUFFICES ASSUME Bad # {} PROVE FALSE
  <2>1. n \in 0 .. n
    OBVIOUS
  <2> QED  BY Zenon, <1>2, <2>1
<1>5. PICK u \in Bad : \A v \in Bad : u <= v
  <2>1. Bad \in SUBSET Nat
    OBVIOUS
  <2> HIDE DEF Bad
  <2> QED  BY <1>4, <2>1, SmallestMember
<1>6. u \in 0 .. n /\ ~IsNumeral(f[u], base, u)
  BY <1>5
<1>7. u # 0
  <2>1. IsNumeral(<<>>, base, 0)
    BY ReadEmpty DEF IsNumeral
  <2> QED  BY Zenon, <1>3, <1>6, <2>1
<1>8. PICK q \in Nat, r \in 0 .. base - 1 : u = q * base + r /\ q = u \div base /\ r = u % base
  BY <1>6
<1>9. q < u
  BY <1>7, <1>8
<1>10. q \in 0 .. n /\ q \notin Bad
  BY <1>5, <1>6, <1>9
<1>11. IsNumeral(f[q], base, q)
  BY <1>10
<1>12. f[u] = Append(f[q], Digit(r))
  BY Zenon, <1>2, <1>6, <1>7, <1>8 DEF Dividing
<1>13. q * base + r > 0
  BY <1>6, <1>7, <1>8
<1>14. IsNumeral(f[u], base, u)
  BY Zenon, <1>3, <1>8, <1>11, <1>12, <1>13, NumeralAppend
<1> QED  BY <1>6, <1>14

-----------------------------------------------------------------------------
(***************************************************************************)
(* A numeral has one leading zero at most, its only digit.                 *)
(***************************************************************************)
Shown(digits, base, value) ==
    Read(digits, base) = value /\ (Head(digits) = ZERO => Len(digits) = 1)

(***************************************************************************)
(* The digits of a positive value read back as it, without a leading zero. *)
(***************************************************************************)
LEMMA DigitsShown ==
    ASSUME NEW base \in {10, 16}, NEW value \in Nat, value > 0
    PROVE  Digits(value, base) \in Seq(Nat) /\ Shown(Digits(value, base), base, value)
<1>1. PICK s : s = Digits(value, base)
  OBVIOUS
<1>2. IsNumeral(s, base, value)
  BY Zenon, <1>1, DigitsNumeral
<1>3. s \in Seq(Nat) /\ Read(s, base) = value /\ s # <<>> /\ s[1] # ZERO
  BY <1>2 DEF IsNumeral
<1>4. Head(s) # ZERO
  BY <1>3
<1> QED  BY Zenon, <1>1, <1>3, <1>4 DEF Shown

(***************************************************************************)
(* So does the single zero of the special case.                            *)
(***************************************************************************)
LEMMA ZeroShown ==
    ASSUME NEW base \in Nat
    PROVE  <<ZERO>> \in Seq(Nat) /\ Shown(<<ZERO>>, base, 0)
<1>1. <<>> \in Seq(Nat) /\ ZERO \in Nat /\ Append(<<>>, ZERO) = <<ZERO>>
  BY DEF ZERO
<1>2. Read(<<ZERO>>, base) = Read(<<>>, base) * base + ValueOf(ZERO)
  BY Zenon, <1>1, ReadAppend
<1>3. Read(<<>>, base) = 0
  BY Zenon, ReadEmpty
<1>4. ValueOf(ZERO) = 0
  BY DEF ValueOf, ZERO
<1>5. Read(<<ZERO>>, base) = 0
  BY <1>2, <1>3, <1>4
<1>6. Len(<<ZERO>>) = 1
  OBVIOUS
<1>7. <<ZERO>> \in Seq(Nat)
  BY <1>1
<1> QED  BY Zenon, <1>5, <1>6, <1>7 DEF Shown

(***************************************************************************)
(* The three functions that print numbers.                                 *)
(***************************************************************************)
LEMMA UintShown ==
    ASSUME NEW word \in Nat
    PROVE  print_uint(word) \in Seq(Nat) /\ Shown(print_uint(word), 10, word)
<1>1. CASE word = 0
  BY Zenon, <1>1, ZeroShown DEF print_uint
<1>2. CASE word # 0
  <2>1. word > 0 /\ 10 \in {10, 16}
    BY <1>2
  <2> QED  BY Zenon, <1>2, <2>1, DigitsShown DEF print_uint
<1> QED  BY <1>1, <1>2

(***************************************************************************)
(* A prefix of two characters, and of one.                                 *)
(***************************************************************************)
LEMMA Prefixed ==
    ASSUME NEW s \in Seq(Nat), NEW a \in Nat, NEW b \in Nat
    PROVE  /\ <<a, b>> \o s \in Seq(Nat)
           /\ SubSeq(<<a, b>> \o s, 1, 2) = <<a, b>>
           /\ SubSeq(<<a, b>> \o s, 3, Len(<<a, b>> \o s)) = s
           /\ <<a>> \o s \in Seq(Nat)
           /\ Head(<<a>> \o s) = a
           /\ Tail(<<a>> \o s) = s
           /\ Len(<<a>> \o s) = 1 + Len(s)
<1>1. /\ <<a, b>> \o s \in Seq(Nat) /\ <<a>> \o s \in Seq(Nat)
      /\ Len(<<a>> \o s) = 1 + Len(s) /\ Len(<<a, b>> \o s) = Len(s) + 2
  OBVIOUS
<1>2. Head(<<a>> \o s) = a /\ Tail(<<a>> \o s) = s
  OBVIOUS
<1>3. PICK t \in Seq(Nat) : t = <<a, b>> \o s
  BY Zenon, <1>1
<1>4. Len(t) = Len(s) + 2 /\ t[1] = a /\ t[2] = b
  BY <1>3
<1>5. \A k \in 1 .. Len(s) : t[k + 2] = s[k]
  BY <1>3
<1>6. SubSeq(t, 1, 2) = <<a, b>>
  <2>1. PICK r : r = SubSeq(t, 1, 2)
    BY Zenon
  <2>2. PICK u : u = <<a, b>>
    BY Zenon
  <2>3. r \in Seq(Nat) /\ Len(r) = 2 /\ r[1] = t[1] /\ r[2] = t[2]
    BY <1>4, <2>1
  <2>4. u \in Seq(Nat) /\ Len(u) = 2 /\ u[1] = a /\ u[2] = b
    BY <2>2
  <2>5. \A i \in 1 .. Len(r) : r[i] = u[i]
    BY <1>4, <2>3, <2>4
  <2>6. r = u
    BY Zenon, <2>3, <2>4, <2>5, SameSequence
  <2> QED  BY Zenon, <2>1, <2>2, <2>6
<1>7. SubSeq(t, 3, Len(t)) = s
  <2>0. SubSeq(t, 3, Len(t)) \in Seq(Nat)
    BY SMTT(30), <1>4
  <2>1. PICK r \in Seq(Nat) : r = SubSeq(t, 3, Len(t))
    BY Zenon, <2>0
  <2>2. Len(r) = Len(s) /\ \A k \in 1 .. Len(s) : r[k] = t[k + 2]
    BY <1>4, <2>1
  <2>3. \A i \in 1 .. Len(r) : r[i] = s[i]
    BY <1>5, <2>2
  <2>4. r = s
    BY Zenon, <2>2, <2>3, SameSequence
  <2> QED  BY Zenon, <2>1, <2>4
<1> QED  BY Zenon, <1>1, <1>2, <1>3, <1>6, <1>7

(***************************************************************************)
(* print_hex prints 0x and the hexadecimal numeral of the word.            *)
(***************************************************************************)
LEMMA HexShown ==
    ASSUME NEW word \in Nat
    PROVE  /\ print_hex(word) \in Seq(Nat)
           /\ SubSeq(print_hex(word), 1, 2) = <<ZERO, 120>>
           /\ Shown(SubSeq(print_hex(word), 3, Len(print_hex(word))), 16, word)
<1>1. PICK s : s = IF word = 0 THEN <<ZERO>> ELSE Digits(word, 16)
  BY Zenon
<1>2. s \in Seq(Nat) /\ Shown(s, 16, word)
  <2>1. CASE word = 0
    BY Zenon, <1>1, <2>1, ZeroShown
  <2>2. CASE word # 0
    <3>1. word > 0 /\ 16 \in {10, 16}
      BY <2>2
    <3> QED  BY Zenon, <1>1, <2>2, <3>1, DigitsShown
  <2> QED  BY <2>1, <2>2
<1>3. print_hex(word) = <<ZERO, 120>> \o s
  BY Zenon, <1>1 DEF print_hex
<1>4. PICK x \in Nat : x = 120
  OBVIOUS
<1>5. PICK t : t = <<ZERO, x>> \o s
  BY Zenon
<1>6. ZERO \in Nat
  BY DEF ZERO
<1>7. t \in Seq(Nat) /\ SubSeq(t, 1, 2) = <<ZERO, x>> /\ SubSeq(t, 3, Len(t)) = s
  BY ZenonT(60), <1>2, <1>5, <1>6, Prefixed
<1>8. print_hex(word) = t
  BY Zenon, <1>3, <1>4, <1>5
<1> QED  BY Zenon, <1>2, <1>4, <1>7, <1>8

(***************************************************************************)
(* print_int prints the decimal numeral of the word, with a minus before a *)
(* negative one, or only the minus for the smallest.                       *)
(***************************************************************************)
LEMMA IntShown ==
    ASSUME NEW word \in 0 .. WORD - 1, NEW wraps
    PROVE  /\ print_int(word, wraps) \in Seq(Nat)
           /\ \/ Signed(word) >= 0 /\ Shown(print_int(word, wraps), 10, word)
              \/ /\ Signed(word) < 0 /\ Head(print_int(word, wraps)) = MINUS
                 /\ \/ Shown(Tail(print_int(word, wraps)), 10, -Signed(word))
                    \/ word = WORD \div 2 /\ Len(print_int(word, wraps)) = 1
<1>1. word \in Nat /\ WORD \in Nat /\ WORD > 1 /\ MINUS \in Nat /\ 10 \in {10, 16}
  BY CallsAssumption DEF MINUS
<1>2. PICK t : t = print_int(word, wraps)
  OBVIOUS
<1>3. CASE word = 0
  <2>1. t = <<ZERO>>
    BY <1>2, <1>3 DEF print_int
  <2>2. Signed(word) >= 0
    BY <1>1, <1>3 DEF Signed
  <2> QED  BY Zenon, <1>2, <1>3, <2>1, <2>2, ZeroShown
<1>4. CASE word # 0 /\ Signed(word) > 0
  <2>1. t = Digits(word, 10)
    BY <1>2, <1>4 DEF print_int
  <2>2. Signed(word) >= 0 /\ word > 0
    BY <1>1, <1>4 DEF Signed
  <2> QED  BY Zenon, <1>1, <1>2, <2>1, <2>2, DigitsShown
<1>5. CASE word # 0 /\ ~(Signed(word) > 0)
  <2>1. PICK k \in Nat : k = -Signed(word) /\ k > 0 /\ Signed(word) < 0
    BY <1>1, <1>5 DEF Signed
  <2>2. PICK s : s = IF wraps /\ word = WORD \div 2 THEN <<>> ELSE Digits(k, 10)
    OBVIOUS
  <2>3. t = <<MINUS>> \o s
    BY Zenon, <1>2, <1>5, <2>1, <2>2 DEF print_int
  <2>4. s \in Seq(Nat) /\ (Shown(s, 10, k) \/ (word = WORD \div 2 /\ Len(s) = 0))
    <3>1. CASE wraps /\ word = WORD \div 2
      <4>1. <<>> \in Seq(Nat) /\ Len(<<>>) = 0
        OBVIOUS
      <4> QED  BY Zenon, <2>2, <3>1, <4>1
    <3>2. CASE ~(wraps /\ word = WORD \div 2)
      BY Zenon, <1>1, <2>1, <2>2, <3>2, DigitsShown
    <3> QED  BY <3>1, <3>2
  <2>5. t \in Seq(Nat) /\ Head(t) = MINUS /\ Tail(t) = s /\ Len(t) = 1 + Len(s)
    BY Zenon, <1>1, <2>3, <2>4, Prefixed
  <2>6. Len(s) = 0 => Len(t) = 1
    BY <2>5
  <2> QED  BY Zenon, <1>2, <2>1, <2>4, <2>5, <2>6
<1> QED  BY <1>3, <1>4, <1>5

-----------------------------------------------------------------------------
(***************************************************************************)
(* A format that is one conversion prints its argument.                    *)
(***************************************************************************)
Directing(f, n, fmt, args, wraps) ==
    f = [k \in 0 .. n |-> IF k = 0 THEN [fmt |-> fmt, args |-> args, text |-> <<>>]
                          ELSE Directive(f[k - 1], wraps)]

(***************************************************************************)
(* For a format of one conversion kprintf prints what that conversion      *)
(* makes of the first argument.                                            *)
(***************************************************************************)
LEMMA ConversionOutput ==
    ASSUME NEW fmt \in Seq(Nat), Len(fmt) = 2, Head(fmt) = PERCENT, fmt[2] \in Converts,
           NEW args, NEW wraps, NEW text \in Seq(Nat),
           text = Converted(fmt[2], Head(args), wraps)
    PROVE  Output(fmt, args, wraps) = text
<1>1. PICK a : a = [fmt |-> fmt, args |-> args, text |-> <<>>]
  BY Zenon
<1>2. PICK b : b = [fmt |-> <<>>, args |-> Tail(args), text |-> text]
  BY Zenon
<1>3. Directive(a, wraps) = b
  <2>1. a.fmt = fmt /\ a.args = args /\ a.text = <<>>
    BY <1>1
  <2>2. Len(<<>>) = 0 /\ SubSeq(fmt, 3, Len(fmt)) = <<>> /\ <<>> \o text = text /\ 2 # 0
    OBVIOUS
  <2>3. fmt # <<>>
    BY Zenon, <2>2
  <2> QED  BY Zenon, <1>2, <2>1, <2>2, <2>3 DEF Directive
<1>4. Directive(b, wraps) = b
  <2>1. b.fmt = <<>>
    BY <1>2
  <2> QED  BY Zenon, <2>1 DEF Directive
<1>5. \E f : Directing(f, 2, fmt, args, wraps)
  <2> DEFINE f == [k \in 0 .. 2 |-> IF k = 0 THEN a ELSE b]
  <2>1. ASSUME NEW k \in 0 .. 2
        PROVE  f[k] = IF k = 0 THEN a ELSE Directive(f[k - 1], wraps)
    <3>1. CASE k = 0
      BY <3>1
    <3>2. CASE k # 0
      <4>1. f[k] = b /\ k - 1 \in 0 .. 2 /\ f[k - 1] \in {a, b}
        BY <3>2
      <4> HIDE DEF f
      <4> QED  BY Zenon, <1>3, <1>4, <3>2, <4>1
    <3> QED  BY <3>1, <3>2
  <2>2. f = [k \in 0 .. 2 |-> f[k]]
    OBVIOUS
  <2> HIDE DEF f
  <2>3. Directing(f, 2, fmt, args, wraps)
    BY Zenon, <1>1, <2>1, <2>2 DEF Directing
  <2> QED  BY <2>3
<1> DEFINE Body(f) == [k \in 0 .. Len(fmt) |->
                         IF k = 0 THEN [fmt |-> fmt, args |-> args, text |-> <<>>]
                         ELSE Directive(f[k - 1], wraps)]
           after == CHOOSE f : f = Body(f)
<1>6. \A f : Directing(f, 2, fmt, args, wraps) <=> f = Body(f)
  BY Zenon DEF Directing
<1>7. Output(fmt, args, wraps) = after[Len(fmt)].text
  BY Zenon DEF Output
<1>8. after = Body(after)
  <2>1. \E f : f = Body(f)
    BY Zenon, <1>5, <1>6
  <2> HIDE DEF Body
  <2> QED  BY Zenon, <2>1
<1>9. Directing(after, 2, fmt, args, wraps)
  <2> HIDE DEF Body, after
  <2> QED  BY Zenon, <1>6, <1>8
<1> HIDE DEF after
<1>10. 0 \in 0 .. 2 /\ 1 \in 0 .. 2 /\ 2 \in 0 .. 2 /\ 1 - 1 = 0 /\ 2 - 1 = 1
       /\ 1 # 0 /\ 2 # 0
  OBVIOUS
<1>11. ASSUME NEW k \in 0 .. 2
       PROVE  after[k] = IF k = 0 THEN a ELSE Directive(after[k - 1], wraps)
  BY Zenon, <1>1, <1>9 DEF Directing
<1>12. after[0] = a
  BY Zenon, <1>10, <1>11
<1>13. after[1] = b
  BY Zenon, <1>3, <1>10, <1>11, <1>12
<1>14. after[2] = b
  BY Zenon, <1>4, <1>10, <1>11, <1>13
<1>15. b.text = text
  BY <1>2
<1> QED  BY Zenon, <1>7, <1>14, <1>15

(***************************************************************************)
(* What NumbersReadBack says of a call: its format, its arguments and the  *)
(* text.                                                                   *)
(***************************************************************************)
ReadsBack(fmt, args, text) ==
    /\ fmt[2] \in Decimal =>
          \/ Signed(Head(args)) >= 0 /\ Shown(text, 10, Head(args))
          \/ /\ Signed(Head(args)) < 0 /\ Head(text) = MINUS
             /\ \/ Shown(Tail(text), 10, -Signed(Head(args)))
                \/ Head(args) = WORD \div 2 /\ Len(text) = 1
    /\ fmt[2] = 117 => Shown(text, 10, Head(args))
    /\ fmt[2] \in Hex =>
          /\ SubSeq(text, 1, 2) = <<ZERO, 120>>
          /\ Shown(SubSeq(text, 3, Len(text)), 16, Head(args))

(***************************************************************************)
(* What a call of kprintf with one conversion prints reads back as its     *)
(* argument.                                                               *)
(***************************************************************************)
LEMMA KprintfReadsBack ==
    ASSUME NEW call \in Calls, NEW fmt, fmt = call[1], NEW args, args = call[2], NEW wraps,
           Len(fmt) = 2, Head(fmt) = PERCENT
    PROVE  ReadsBack(fmt, args, Output(fmt, args, wraps))
<1>1. fmt \in Seq(Nat) /\ args \in Seq(0 .. WORD - 1) /\ WORD \in Nat
  BY CallsAssumption
<1>2. PICK conv \in Nat : conv = fmt[2]
  BY <1>1
<1>3. PICK text : text = Output(fmt, args, wraps)
  OBVIOUS
<1>4. SUFFICES ASSUME conv \in Decimal \cup {117} \cup Hex PROVE ReadsBack(fmt, args, text)
  BY Zenon, <1>2, <1>3 DEF ReadsBack
<1>5. conv \in Converts
  BY <1>4 DEF Converts
<1>6. PICK word \in 0 .. WORD - 1 : word = Head(args)
  <2>1. args # <<>>
    <3>1. 1 \in 1 .. Len(fmt) - 1 /\ fmt[1] = PERCENT /\ \A j \in 1 .. 1 - 1 : fmt[j] # PERCENT
      BY <1>1
    <3>2. fmt[1 + 1] \in Converts
      BY <1>2, <1>5
    <3> QED  BY Zenon, <3>1, <3>2, CallsAssumption
  <2>2. Head(args) \in 0 .. WORD - 1
    BY Zenon, <1>1, <2>1, FirstElement
  <2> QED  BY <2>2
<1>7. word \in Nat
  BY <1>1
<1>8. ASSUME NEW t \in Seq(Nat), t = Converted(conv, word, wraps) PROVE text = t
  <2>1. t = Converted(fmt[2], Head(args), wraps) /\ fmt[2] \in Converts
    BY Zenon, <1>2, <1>5, <1>6, <1>8
  <2>2. Output(fmt, args, wraps) = t
    BY Zenon, <1>1, <2>1, ConversionOutput
  <2> QED  BY Zenon, <1>3, <2>2
<1>9. CASE conv \in Decimal
  <2>1. Converted(conv, word, wraps) = print_int(word, wraps)
    BY <1>9 DEF Converted, Decimal, Hex
  <2>2. PICK t : t = print_int(word, wraps)
    OBVIOUS
  <2>3. /\ t \in Seq(Nat)
        /\ \/ Signed(word) >= 0 /\ Shown(t, 10, word)
           \/ /\ Signed(word) < 0 /\ Head(t) = MINUS
              /\ \/ Shown(Tail(t), 10, -Signed(word))
                 \/ word = WORD \div 2 /\ Len(t) = 1
    BY Zenon, <2>2, IntShown
  <2>4. text = t
    BY Zenon, <1>8, <2>1, <2>2, <2>3
  <2>5. conv # 117 /\ conv \notin Hex
    BY <1>9 DEF Decimal, Hex
  <2> QED  BY Zenon, <1>2, <1>6, <2>3, <2>4, <2>5 DEF ReadsBack
<1>10. CASE conv = 117
  <2>1. Converted(conv, word, wraps) = print_uint(word)
    BY <1>10 DEF Converted, Decimal, Hex
  <2>2. print_uint(word) \in Seq(Nat) /\ Shown(print_uint(word), 10, word)
    BY Zenon, <1>7, UintShown
  <2>3. text = print_uint(word)
    BY Zenon, <1>8, <2>1, <2>2
  <2>4. conv \notin Decimal /\ conv \notin Hex
    BY <1>10 DEF Decimal, Hex
  <2> QED  BY Zenon, <1>2, <1>6, <2>2, <2>3, <2>4 DEF ReadsBack
<1>11. CASE conv \in Hex
  <2>1. Converted(conv, word, wraps) = print_hex(word)
    BY <1>11 DEF Converted, Decimal, Hex
  <2>2. PICK t : t = print_hex(word)
    OBVIOUS
  <2>3. /\ t \in Seq(Nat) /\ SubSeq(t, 1, 2) = <<ZERO, 120>>
        /\ Shown(SubSeq(t, 3, Len(t)), 16, word)
    BY Zenon, <1>7, <2>2, HexShown
  <2>4. text = t
    BY Zenon, <1>8, <2>1, <2>2, <2>3
  <2>5. conv \notin Decimal /\ conv # 117
    BY <1>11 DEF Decimal, Hex
  <2> QED  BY Zenon, <1>2, <1>6, <2>3, <2>4, <2>5 DEF ReadsBack
<1> QED  BY Zenon, <1>4, <1>9, <1>10, <1>11

(***************************************************************************)
(* Whatever number kprintf is given, in the range of a word of any size,   *)
(* what it prints for %d, %u and %x reads back as that number, with no     *)
(* leading zero; only the smallest int32_t may print as a lone minus.      *)
(***************************************************************************)
THEOREM PrintsNumbers == Spec => []NumbersReadBack
<1>1. Init => NumbersReadBack
  BY DEF Init, NumbersReadBack
<1>2. NumbersReadBack /\ [Next]_vars => NumbersReadBack'
  <2> SUFFICES ASSUME NumbersReadBack, [Next]_vars PROVE NumbersReadBack'
    OBVIOUS
  <2>1. ASSUME NEW call \in Calls, kprintf(call[1], call[2]) PROVE NumbersReadBack'
    <3>1. PICK fmt : fmt = call[1]
      OBVIOUS
    <3>2. PICK args : args = call[2]
      OBVIOUS
    <3>3. PICK text : text = out'
      OBVIOUS
    <3>4. PICK wraps : text = Output(fmt, args, wraps)
      BY Zenon, <2>1, <3>1, <3>2, <3>3 DEF kprintf
    <3>5. printed' = <<fmt, args, text>>
      BY Zenon, <2>1, <3>1, <3>2, <3>3 DEF kprintf
    <3>6. printed'[1] = fmt /\ printed'[2] = args /\ printed'[3] = text
      BY <3>5
    <3>7. Len(fmt) = 2 /\ Head(fmt) = PERCENT => ReadsBack(fmt, args, text)
      BY Zenon, <3>1, <3>2, <3>4, KprintfReadsBack
    <3> QED  BY Zenon, <3>6, <3>7 DEF NumbersReadBack, ReadsBack, Shown
  <2>2. CASE vga_putchar
    <3>1. printed' = <<>>
      BY <2>2 DEF vga_putchar
    <3> QED  BY Zenon, <3>1 DEF NumbersReadBack
  <2>3. CASE UNCHANGED vars
    <3>1. printed' = printed
      BY <2>3 DEF vars
    <3> QED  BY Zenon, <3>1 DEF NumbersReadBack
  <2> QED  BY Zenon, <2>1, <2>2, <2>3 DEF Next
<1> QED  BY <1>1, <1>2, PTL DEF Spec
=============================================================================
