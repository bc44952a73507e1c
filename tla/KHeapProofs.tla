---------------------------- MODULE KHeapProofs ----------------------------
(***************************************************************************)
(* Proofs about KHeap, for every heap size, every set of request sizes and *)
(* every sequence of calls.  The lemmas are about the header function h    *)
(* that split_block and coalesce_block transform.                          *)
(***************************************************************************)
EXTENDS KHeap, WellFoundedInduction, TLAPS

(***************************************************************************)
(* A well formed header function.                                          *)
(***************************************************************************)
Headers(h) ==
    /\ DOMAIN h \subseteq 0 .. KHEAP_SIZE
    /\ h = [a \in DOMAIN h |-> h[a]]
    /\ \A a \in DOMAIN h : h[a] \in Header

Good(h) == Headers(h) /\ Tiled(h)

(***************************************************************************)
(* kheap_init makes one block of the whole heap.                           *)
(***************************************************************************)
LEMMA WholeHeapGood == Good(WholeHeap) /\ Coalesced(WholeHeap)
BY KHeapAssumption
DEF Good, Headers, Header, Tiled, End, WholeHeap, Coalesced, NULL,
    HEAP_BLOCK_HEADER_SIZE

(***************************************************************************)
(* What the assignments to the fields of one header do.                    *)
(***************************************************************************)
LEMMA SetNext ==
    ASSUME NEW r \in Header, NEW n \in Int,
           NEW q, q = [r EXCEPT !.next = n]
    PROVE  q \in Header /\ q.size = r.size /\ q.next = n
           /\ q.prev = r.prev /\ q.free = r.free
BY DEF Header

(***************************************************************************)
(* A header with another size differs in nothing else.                     *)
(***************************************************************************)
LEMMA SetSize ==
    ASSUME NEW r \in Header, NEW s \in 0 .. KHEAP_SIZE,
           NEW q, q = [r EXCEPT !.size = s]
    PROVE  q \in Header /\ q.size = s /\ q.next = r.next
           /\ q.prev = r.prev /\ q.free = r.free
BY DEF Header

(***************************************************************************)
(* A header with another prev differs in nothing else.                     *)
(***************************************************************************)
LEMMA SetPrev ==
    ASSUME NEW r \in Header, NEW n \in Int,
           NEW q, q = [r EXCEPT !.prev = n]
    PROVE  q \in Header /\ q.size = r.size /\ q.next = r.next
           /\ q.prev = n /\ q.free = r.free
BY DEF Header

(***************************************************************************)
(* A header with another free flag differs in nothing else.                *)
(***************************************************************************)
LEMMA SetFree ==
    ASSUME NEW r \in Header, NEW f \in BOOLEAN,
           NEW q, q = [r EXCEPT !.free = f]
    PROVE  q \in Header /\ q.size = r.size /\ q.next = r.next
           /\ q.prev = r.prev /\ q.free = f
BY DEF Header

(***************************************************************************)
(* Reading the links of a well formed list.                                *)
(***************************************************************************)
LEMMA InHeap ==
    ASSUME NEW h, Good(h), NEW a \in DOMAIN h
    PROVE  /\ a \in Nat /\ h[a].size \in Nat /\ h[a] \in Header
           /\ h[a].free \in BOOLEAN /\ h[a].next \in Int /\ h[a].prev \in Int
           /\ End(h, a) = a + 16 + h[a].size /\ End(h, a) <= KHEAP_SIZE
           /\ a < KHEAP_SIZE
<1>1. a \in 0 .. KHEAP_SIZE /\ h[a] \in Header /\ KHEAP_SIZE \in Nat
  BY KHeapAssumption DEF Good, Headers
<1>2. h[a].size \in Nat /\ h[a].free \in BOOLEAN /\ h[a].next \in Int
      /\ h[a].prev \in Int
  BY <1>1 DEF Header
<1>3. End(h, a) = a + 16 + h[a].size /\ End(h, a) <= KHEAP_SIZE
  BY <1>2 DEF Good, Tiled, End, HEAP_BLOCK_HEADER_SIZE
<1> QED  BY <1>1, <1>2, <1>3

(***************************************************************************)
(* In a tiled heap next is the block behind, and prev the block in front.  *)
(***************************************************************************)
LEMMA Links ==
    ASSUME NEW h, Good(h), NEW a \in DOMAIN h
    PROVE  /\ h[a].next # NULL => /\ h[a].next \in DOMAIN h
                                  /\ h[a].next = End(h, a)
                                  /\ h[h[a].next].prev = a
                                  /\ h[a].next # a
           /\ h[a].prev # NULL => /\ h[a].prev \in DOMAIN h
                                  /\ h[h[a].prev].next = a
                                  /\ h[a].prev # a
<1>1. ASSUME NEW c \in DOMAIN h
      PROVE  IF End(h, c) = KHEAP_SIZE
             THEN h[c].next = NULL
             ELSE /\ End(h, c) \in DOMAIN h
                  /\ h[c].next = End(h, c)
                  /\ h[End(h, c)].prev = c
  BY DEF Good, Tiled
<1>2. a # 0 => h[a].prev \in DOMAIN h /\ End(h, h[a].prev) = a
  BY DEF Good, Tiled
<1>3. h[0].prev = NULL
  BY DEF Good, Tiled
<1>4. h[a].next # NULL => /\ h[a].next \in DOMAIN h
                          /\ h[a].next = End(h, a)
                          /\ h[h[a].next].prev = a
  BY <1>1
<1>5. End(h, a) # a
  BY InHeap
<1>6. ASSUME h[a].prev # NULL
      PROVE  h[a].prev \in DOMAIN h /\ h[h[a].prev].next = a /\ h[a].prev # a
  <2>1. h[a].prev \in DOMAIN h /\ End(h, h[a].prev) = a
    BY <1>2, <1>3, <1>6
  <2>2. a # KHEAP_SIZE
    BY InHeap, KHeapAssumption
  <2> QED  BY <1>1, <1>5, <2>1, <2>2
<1> QED  BY <1>4, <1>5, <1>6

(***************************************************************************)
(* What split_block does to the headers when it splits off block n: g are  *)
(* the headers it leaves.                                                  *)
(***************************************************************************)
SplitOff(h, b, size, n, g) ==
    /\ n \notin DOMAIN h /\ n \in 0 .. KHEAP_SIZE /\ n % 8 = 0
    /\ b < n /\ n + 32 <= End(h, b)
    /\ DOMAIN g = DOMAIN h \cup {n}
    /\ g = [a \in DOMAIN g |-> g[a]]
    /\ \A a \in DOMAIN g : g[a] \in Header
    /\ g[n].size = h[b].size - size - 16 /\ g[n].free = TRUE
    /\ g[n].next = h[b].next /\ g[n].prev = b
    /\ g[b].size = size /\ g[b].next = n
    /\ g[b].free = h[b].free /\ g[b].prev = h[b].prev
    /\ \A a \in DOMAIN h \ {b} :
          /\ g[a].size = h[a].size /\ g[a].next = h[a].next
          /\ g[a].free = h[a].free
          /\ g[a].prev = IF a = h[b].next THEN n ELSE h[a].prev

(***************************************************************************)
(* split_block makes a second block of what the first does not need.       *)
(***************************************************************************)
LEMMA SplitFields ==
    ASSUME NEW h, Good(h), NEW b \in DOMAIN h,
           NEW size \in Nat, size % 8 = 0, h[b].size >= size + 32
    PROVE  SplitOff(h, b, size, b + 16 + size, split_block(h, b, size))
<1> DEFINE n == b + 16 + size
           g == split_block(h, b, size)
<1> USE DEF HEAP_BLOCK_HEADER_SIZE, HEAP_MIN_BLOCK_SIZE
<1>1. \A a \in DOMAIN h : a \in 0 .. KHEAP_SIZE /\ h[a] \in Header
                          /\ h[a].size \in 0 .. KHEAP_SIZE
                          /\ h[a].next \in Int /\ h[a].prev \in Int
  BY DEF Good, Headers, Header
<1>2. b \in Nat /\ h[b].size \in 0 .. KHEAP_SIZE /\ KHEAP_SIZE \in Nat
  BY <1>1, KHeapAssumption
<1>3. End(h, b) <= KHEAP_SIZE /\ b % 8 = 0
      /\ \A c \in DOMAIN h : b < c => End(h, b) <= c
  BY DEF Good, Tiled
<1>4. n \in 0 .. KHEAP_SIZE /\ b < n /\ n + 32 <= End(h, b)
  BY <1>2, <1>3 DEF End
<1>5. n \notin DOMAIN h
  BY <1>2, <1>3, <1>4 DEF End
<1>6. n % 8 = 0
  BY <1>2, <1>3
<1>7. h[b].size >= size + HEAP_BLOCK_HEADER_SIZE + HEAP_MIN_BLOCK_SIZE
  BY <1>2
<1>8. g = [a \in DOMAIN h \cup {n} |->
             IF a = n THEN [size |-> h[b].size - size - 16,
                            free |-> TRUE, next |-> h[b].next, prev |-> b]
             ELSE IF a = b THEN [h[a] EXCEPT !.next = n, !.size = size]
             ELSE IF a = h[b].next THEN [h[a] EXCEPT !.prev = n]
             ELSE h[a]]
  BY <1>7 DEF split_block
<1>9. DOMAIN g = DOMAIN h \cup {n} /\ g = [a \in DOMAIN g |-> g[a]]
  BY ZenonT(60), <1>8
<1>10. g[n] = [size |-> h[b].size - size - 16, free |-> TRUE,
               next |-> h[b].next, prev |-> b]
  BY ZenonT(60), <1>8
<1>11. g[b] = [h[b] EXCEPT !.next = n, !.size = size]
  BY ZenonT(60), <1>5, <1>8
<1>12. \A a \in DOMAIN h \ {b} :
          g[a] = IF a = h[b].next THEN [h[a] EXCEPT !.prev = n] ELSE h[a]
  BY ZenonT(60), <1>5, <1>8
<1> HIDE DEF g
<1>13. /\ g[b].size = size /\ g[b].next = n
       /\ g[b].free = h[b].free /\ g[b].prev = h[b].prev
       /\ g[b] \in Header
  <2>1. size \in 0 .. KHEAP_SIZE /\ n \in Int
    BY <1>2, <1>4
  <2>2. h[b] \in Header
    BY <1>1
  <2> HIDE DEF n
  <2> DEFINE m == [h[b] EXCEPT !.next = n]
  <2>3. m \in Header /\ m.next = n /\ m.prev = h[b].prev /\ m.free = h[b].free
    BY <2>1, <2>2, SetNext
  <2>4. g[b] = [m EXCEPT !.size = size]
    BY <1>11
  <2> HIDE DEF m
  <2> QED  BY <2>1, <2>3, <2>4, SetSize
<1>14. \A a \in DOMAIN h \ {b} :
          /\ g[a].size = h[a].size /\ g[a].next = h[a].next
          /\ g[a].free = h[a].free
          /\ g[a].prev = IF a = h[b].next THEN n ELSE h[a].prev
          /\ g[a] \in Header
  <2>1. n \in Int
    BY <1>4
  <2>2. \A a \in DOMAIN h \ {b} : h[a] \in Header
    BY <1>1
  <2>3. ASSUME NEW a \in DOMAIN h \ {b}, a = h[b].next
        PROVE  g[a] \in Header /\ g[a].size = h[a].size /\ g[a].next = h[a].next
               /\ g[a].free = h[a].free /\ g[a].prev = n
    <3>1. g[a] = [h[a] EXCEPT !.prev = n]
      BY ZenonT(60), <1>12, <2>3
    <3> QED  BY <3>1, <2>1, <2>2, SetPrev
  <2>4. ASSUME NEW a \in DOMAIN h \ {b}, a # h[b].next PROVE g[a] = h[a]
    BY ZenonT(60), <1>12, <2>4
  <2> QED  BY <2>2, <2>3, <2>4
<1>15. g[n] \in Header
  <2>1. h[b].size - size - 16 \in 0 .. KHEAP_SIZE /\ h[b].next \in Int /\ b \in Int
    BY <1>1, <1>2
  <2> QED  BY <1>10, <2>1 DEF Header
<1> QED
  BY <1>4, <1>5, <1>6, <1>9, <1>10, <1>13, <1>14, <1>15 DEF g, SplitOff


(***************************************************************************)
(* Splitting keeps the tiling.                                             *)
(***************************************************************************)
LEMMA SplitGood ==
    ASSUME NEW h, Good(h), NEW b \in DOMAIN h,
           NEW size \in Nat, size % 8 = 0, h[b].size >= size
    PROVE  Good(split_block(h, b, size))
<1> DEFINE n == b + 16 + size
           g == split_block(h, b, size)
<1> USE DEF HEAP_BLOCK_HEADER_SIZE, HEAP_MIN_BLOCK_SIZE
<1>t. \A a \in DOMAIN h : a \in 0 .. KHEAP_SIZE /\ h[a].size \in 0 .. KHEAP_SIZE
  BY DEF Good, Headers, Header
<1>b. b \in Nat /\ h[b].size \in Nat
  BY <1>t
<1>1. CASE ~(h[b].size >= size + 32)
  <2>1. ~(h[b].size >= size + HEAP_BLOCK_HEADER_SIZE + HEAP_MIN_BLOCK_SIZE)
    BY <1>1, <1>b
  <2> QED  BY <2>1 DEF split_block
<1>2. CASE h[b].size >= size + 32
  <2>0. SplitOff(h, b, size, n, g)
    BY <1>2, SplitFields
  <2> HIDE DEF g
  <2>1. Headers(g)
    BY <2>0, <1>t DEF Headers, SplitOff
  <2>2. n \in Nat /\ b < n /\ n < End(h, b) /\ End(h, b) \in Nat
    BY <2>0, <1>b DEF SplitOff, End
  <2>3. End(g, n) = End(h, b) /\ End(g, b) = n
    BY <2>0, <1>b DEF SplitOff, End
  <2>4. \A a \in DOMAIN h \ {b} : End(g, a) = End(h, a)
    BY <2>0 DEF SplitOff, End
  <2>5. 0 \in DOMAIN g /\ g[0].prev = NULL
    <3>1. 0 \in DOMAIN h /\ h[0].prev = NULL
      BY DEF Good, Tiled
    <3>2. h[b].next # 0
      BY <1>t, <1>b DEF Good, Tiled, End, NULL
    <3> QED  BY ZenonT(60), <2>0, <3>1, <3>2 DEF SplitOff
  <2>6. \A a, c \in DOMAIN g : a < c => End(g, a) <= c
    <3>1. \A a, c \in DOMAIN h : a < c => End(h, a) <= c
      BY DEF Good, Tiled
    <3>2. DOMAIN g = DOMAIN h \cup {n}
      BY <2>0 DEF SplitOff
    <3>3. ASSUME NEW a \in DOMAIN h, a < n PROVE End(g, a) <= n
      <4>1. a = b \/ a < b \/ b < a
        BY <1>t, <1>b
      <4> QED  BY <1>t, <1>b, <2>2, <2>3, <2>4, <3>1, <3>3, <4>1 DEF End
    <3>4. ASSUME NEW c \in DOMAIN h, n < c PROVE End(g, n) <= c
      BY <1>t, <1>b, <2>2, <2>3, <3>1, <3>4
    <3>5. ASSUME NEW a \in DOMAIN h, NEW c \in DOMAIN h, a < c
          PROVE  End(g, a) <= c
      BY <1>t, <1>b, <2>2, <2>3, <2>4, <3>1, <3>5
    <3> QED  BY <2>2, <3>2, <3>3, <3>4, <3>5
  <2>7. \A a \in DOMAIN g : a % 8 = 0 /\ g[a].size % 8 = 0
    <3>1. \A a \in DOMAIN h : a % 8 = 0 /\ h[a].size % 8 = 0
      BY DEF Good, Tiled
    <3>2. (h[b].size - size - 16) % 8 = 0
      BY <1>b, <3>1
    <3> QED  BY <2>0, <3>1, <3>2 DEF SplitOff
  <2>8. ASSUME NEW a \in DOMAIN g
        PROVE  /\ End(g, a) <= KHEAP_SIZE
               /\ IF End(g, a) = KHEAP_SIZE
                  THEN g[a].next = NULL
                  ELSE /\ End(g, a) \in DOMAIN g
                       /\ g[a].next = End(g, a)
                       /\ g[End(g, a)].prev = a
    <3>1. \A c \in DOMAIN h :
             /\ End(h, c) <= KHEAP_SIZE
             /\ End(h, c) = KHEAP_SIZE => h[c].next = NULL
             /\ End(h, c) # KHEAP_SIZE => /\ End(h, c) \in DOMAIN h
                                          /\ h[c].next = End(h, c)
                                          /\ h[End(h, c)].prev = c
      BY DEF Good, Tiled
    <3>2. CASE a = b
      BY <2>0, <2>2, <2>3, <3>1, <3>2, KHeapAssumption DEF SplitOff
    <3>3. CASE a = n
      BY <2>0, <2>2, <2>3, <3>1, <3>3, KHeapAssumption DEF SplitOff
    <3>4. CASE a \in DOMAIN h \ {b}
      <4>1. g[a].next = h[a].next /\ End(g, a) = End(h, a)
        BY <2>0, <2>4, <3>4 DEF SplitOff
      <4>2. ASSUME End(h, a) # KHEAP_SIZE
            PROVE  End(h, a) \in DOMAIN g /\ g[End(h, a)].prev = a
        <5>1. End(h, a) \in DOMAIN h /\ h[End(h, a)].prev = a
          BY <3>1, <3>4, <4>2
        <5>2. End(h, a) # h[b].next
          BY <1>t, <3>1, <3>4, <5>1 DEF NULL
        <5> QED  BY <2>0, <5>1, <5>2 DEF SplitOff
      <4> QED  BY <3>1, <3>4, <4>1, <4>2
    <3>5. a = b \/ a = n \/ a \in DOMAIN h \ {b}
      BY <2>0 DEF SplitOff
    <3> QED  BY <3>2, <3>3, <3>4, <3>5
  <2>9. ASSUME NEW a \in DOMAIN g \ {0}
        PROVE  g[a].prev \in DOMAIN g /\ End(g, g[a].prev) = a
    <3>1. \A c \in DOMAIN h \ {0} : h[c].prev \in DOMAIN h /\ End(h, h[c].prev) = c
      BY DEF Good, Tiled
    <3>2. CASE a = b
      <4>1. h[b].prev \in DOMAIN h /\ End(h, h[b].prev) = b /\ h[b].prev # b
        BY <1>t, <1>b, <3>1, <3>2 DEF End
      <4> QED  BY <2>0, <2>4, <3>2, <4>1 DEF SplitOff
    <3>3. CASE a = n
      BY <2>0, <2>3, <3>3 DEF SplitOff
    <3>4. CASE a \in DOMAIN h \ {b} /\ a = h[b].next
      <4>1. End(h, b) = a
        BY <1>t, <3>4 DEF Good, Tiled, NULL
      <4> QED  BY <2>0, <2>3, <3>4, <4>1 DEF SplitOff
    <3>5. CASE a \in DOMAIN h \ {b} /\ a # h[b].next
      <4>1. a < KHEAP_SIZE
        BY <3>5, InHeap
      <4>2. h[a].prev \in DOMAIN h /\ End(h, h[a].prev) = a
        BY <3>1, <3>5
      <4>3. h[a].prev # b
        BY <1>t, <3>5, <4>1, <4>2 DEF Good, Tiled
      <4> QED  BY <2>0, <2>4, <3>5, <4>2, <4>3 DEF SplitOff
    <3>6. a = b \/ a = n \/ a \in DOMAIN h \ {b}
      BY <2>0 DEF SplitOff
    <3> QED  BY <3>2, <3>3, <3>4, <3>5, <3>6
  <2> QED  BY <2>1, <2>5, <2>6, <2>7, <2>8, <2>9 DEF Good, Tiled, g
<1> QED  BY <1>1, <1>2, <1>b

(***************************************************************************)
(* An assignment to the free field of block b, from h to g.                *)
(***************************************************************************)
FreeSet(h, b, f, g) ==
    /\ DOMAIN g = DOMAIN h
    /\ g = [a \in DOMAIN g |-> g[a]]
    /\ g[b].free = f
    /\ \A a \in DOMAIN g :
          /\ g[a] \in Header
          /\ g[a].size = h[a].size /\ g[a].next = h[a].next
          /\ g[a].prev = h[a].prev
          /\ a # b => g[a].free = h[a].free

(***************************************************************************)
(* Setting the free flag of a block leaves the heap tiled.                 *)
(***************************************************************************)
LEMMA SetFreeGood ==
    ASSUME NEW h, Good(h), NEW b \in DOMAIN h, NEW f \in BOOLEAN
    PROVE  LET g == [h EXCEPT ![b].free = f]
           IN  FreeSet(h, b, f, g) /\ Good(g)
<1> DEFINE g == [h EXCEPT ![b].free = f]
<1>1. \A a \in DOMAIN h : h[a] \in Header
  BY DEF Good, Headers
<1>2. DOMAIN g = DOMAIN h /\ g = [a \in DOMAIN g |-> g[a]]
  OBVIOUS
<1>3. g[b] = [h[b] EXCEPT !.free = f]
  OBVIOUS
<1>4. \A a \in DOMAIN h : a # b => g[a] = h[a]
  OBVIOUS
<1> HIDE DEF g
<1>5. FreeSet(h, b, f, g)
  <2>1. g[b] \in Header /\ g[b].size = h[b].size /\ g[b].next = h[b].next
        /\ g[b].prev = h[b].prev /\ g[b].free = f
    BY <1>1, <1>3, SetFree
  <2> QED  BY <1>1, <1>2, <1>4, <2>1 DEF FreeSet
<1>6. Headers(g)
  BY <1>2, <1>5 DEF Headers, FreeSet, Good
<1>7. \A a \in DOMAIN h : End(g, a) = End(h, a)
  BY <1>5 DEF FreeSet, End
<1>8. Tiled(g)
  <2>1. \A a \in DOMAIN h : End(h, a) # KHEAP_SIZE => End(h, a) \in DOMAIN h
    BY DEF Good, Tiled
  <2> QED  BY <1>5, <1>7, <2>1 DEF Good, Tiled, FreeSet
<1> QED  BY <1>5, <1>6, <1>8 DEF Good, g

(***************************************************************************)
(* The part of kmalloc after the search: t are the headers it leaves when  *)
(* it returns block b for a rounded size.                                  *)
(***************************************************************************)
Took(h, b, size, t) ==
    /\ b \in DOMAIN t /\ t[b].free = FALSE /\ t[b].size >= size
    /\ \A a \in DOMAIN h \ {b} :
          a \in DOMAIN t /\ t[a].size = h[a].size /\ t[a].free = h[a].free
    /\ \A a \in DOMAIN t \ DOMAIN h : t[a].free = TRUE

(***************************************************************************)
(* kmalloc leaves the heap tiled and coalesced, and takes only the block   *)
(* it chose.                                                               *)
(***************************************************************************)
LEMMA TakeGood ==
    ASSUME NEW h, Good(h), Coalesced(h), NEW b \in DOMAIN h, h[b].free,
           NEW size \in Nat, size % 8 = 0, h[b].size >= size
    PROVE  LET t == Take(h, b, size)
           IN  Good(t) /\ Coalesced(t) /\ Took(h, b, size, t)
<1> DEFINE n == b + 16 + size
           g == split_block(h, b, size)
           t == Take(h, b, size)
<1>t. \A a \in DOMAIN h : a \in 0 .. KHEAP_SIZE /\ h[a].size \in 0 .. KHEAP_SIZE
  BY DEF Good, Headers, Header
<1>0. \A a \in DOMAIN h : h[a].next # NULL => h[a].next \in DOMAIN h
  BY DEF Good, Tiled
<1>1. Good(g)
  BY SplitGood
<1>2. CASE ~(h[b].size >= size + 32)
  <2>1. ~(h[b].size >= size + HEAP_BLOCK_HEADER_SIZE + HEAP_MIN_BLOCK_SIZE)
    BY <1>2, <1>t DEF HEAP_BLOCK_HEADER_SIZE, HEAP_MIN_BLOCK_SIZE
  <2>2. g = h
    BY <2>1 DEF split_block
  <2>3. FreeSet(g, b, FALSE, t) /\ Good(t)
    BY ZenonT(60), <1>1, <2>2, SetFreeGood DEF Take
  <2>4. FreeSet(h, b, FALSE, t)
    BY ZenonT(60), <2>2, <2>3
  <2> HIDE DEF t
  <2>5. Coalesced(t)
    BY <1>0, <2>4 DEF Coalesced, FreeSet
  <2>6. Took(h, b, size, t)
    BY <2>4 DEF Took, FreeSet
  <2> QED  BY <2>3, <2>5, <2>6 DEF t
<1>3. CASE h[b].size >= size + 32
  <2>1. SplitOff(h, b, size, n, g)
    BY <1>3, SplitFields
  <2>2. b \in DOMAIN g
    BY <2>1 DEF SplitOff
  <2>3. FreeSet(g, b, FALSE, t) /\ Good(t)
    BY ZenonT(60), <1>1, <2>2, SetFreeGood DEF Take
  <2> HIDE DEF t, g
  <2>4. Took(h, b, size, t)
    BY <2>1, <2>3 DEF Took, FreeSet, SplitOff
  <2>5. ASSUME NEW a \in DOMAIN t, t[a].free, t[a].next # NULL
        PROVE  ~t[t[a].next].free
    <3>1. a # b /\ t[a].next = g[a].next
      BY <2>3, <2>5 DEF FreeSet
    <3>2. CASE a = n
      <4>1. t[a].next = h[b].next
        BY <2>1, <3>1, <3>2 DEF SplitOff
      <4>2. h[b].next \in DOMAIN h /\ h[b].next # b
        BY <1>0, <1>t, <2>5, <4>1 DEF Good, Tiled, End, NULL,
           HEAP_BLOCK_HEADER_SIZE
      <4>3. ~h[h[b].next].free
        BY <2>5, <4>1 DEF Coalesced
      <4> QED  BY <2>4, <4>1, <4>2, <4>3 DEF Took
    <3>3. CASE a # n
      <4>1. a \in DOMAIN h \ {b} /\ t[a].next = h[a].next
        BY <2>1, <2>3, <3>1, <3>3 DEF SplitOff, FreeSet
      <4>2. h[a].free
        BY <2>4, <2>5, <4>1 DEF Took
      <4>3. h[a].next \in DOMAIN h /\ ~h[h[a].next].free
        BY <1>0, <2>5, <4>1, <4>2 DEF Coalesced
      <4> QED  BY <2>4, <4>1, <4>3 DEF Took
    <3> QED  BY <3>2, <3>3
  <2>6. Coalesced(t)
    BY <2>5 DEF Coalesced
  <2> QED  BY <2>3, <2>4, <2>6 DEF t
<1> QED  BY <1>2, <1>3

(***************************************************************************)
(* What Absorb does when b is the block after a.                           *)
(***************************************************************************)
Absorbed(h, a, b, g) ==
    /\ DOMAIN g = DOMAIN h \ {b}
    /\ g = [c \in DOMAIN g |-> g[c]]
    /\ \A c \in DOMAIN g : g[c] \in Header
    /\ a \in DOMAIN g /\ a # b
    /\ g[a].size = h[a].size + 16 + h[b].size /\ g[a].next = h[b].next
    /\ g[a].prev = h[a].prev /\ g[a].free = h[a].free
    /\ \A c \in DOMAIN g \ {a} :
          /\ g[c].size = h[c].size /\ g[c].next = h[c].next
          /\ g[c].free = h[c].free
          /\ g[c].prev = IF c = h[b].next THEN a ELSE h[c].prev

(***************************************************************************)
(* Merging a block with the next one leaves the heap tiled.                *)
(***************************************************************************)
LEMMA AbsorbGood ==
    ASSUME NEW h, Good(h), NEW a \in DOMAIN h, NEW b \in DOMAIN h,
           h[a].next = b
    PROVE  LET g == Absorb(h, a, b) IN Absorbed(h, a, b, g) /\ Good(g)
<1> DEFINE g == Absorb(h, a, b)
<1>t. \A c \in DOMAIN h : c \in 0 .. KHEAP_SIZE /\ h[c] \in Header
                          /\ h[c].size \in 0 .. KHEAP_SIZE
                          /\ h[c].next \in Int /\ h[c].prev \in Int
  BY DEF Good, Headers, Header
<1>h. \A c \in DOMAIN h :
         /\ End(h, c) <= KHEAP_SIZE
         /\ End(h, c) = KHEAP_SIZE => h[c].next = NULL
         /\ End(h, c) # KHEAP_SIZE => /\ End(h, c) \in DOMAIN h
                                      /\ h[c].next = End(h, c)
                                      /\ h[End(h, c)].prev = c
  BY DEF Good, Tiled
<1>o. \A c, d \in DOMAIN h : c < d => End(h, c) <= d
  BY DEF Good, Tiled
<1>z. 0 \in DOMAIN h /\ h[0].prev = NULL
  BY DEF Good, Tiled
<1>1. b = End(h, a) /\ h[b].prev = a /\ KHEAP_SIZE \in Nat
  BY <1>t, <1>h, KHeapAssumption DEF NULL
<1>2. a \in Nat /\ b \in Nat /\ h[a].size \in Nat /\ h[b].size \in Nat
      /\ a < b /\ End(h, b) = a + 16 + (h[a].size + 16 + h[b].size)
  BY <1>t, <1>1 DEF End, HEAP_BLOCK_HEADER_SIZE
<1>3. h[a].size + 16 + h[b].size \in 0 .. KHEAP_SIZE
  BY <1>h, <1>1, <1>2
<1>4. g = [c \in DOMAIN h \ {b} |->
             IF c = a
             THEN [h[c] EXCEPT !.size = h[c].size + 16 + h[b].size,
                               !.next = h[b].next]
             ELSE IF c = h[b].next THEN [h[c] EXCEPT !.prev = a]
             ELSE h[c]]
  BY DEF Absorb, HEAP_BLOCK_HEADER_SIZE
<1>5. DOMAIN g = DOMAIN h \ {b} /\ g = [c \in DOMAIN g |-> g[c]]
  BY ZenonT(60), <1>4
<1>6. a \in DOMAIN g /\ a # b
  BY <1>2, <1>5
<1>7. g[a] = [h[a] EXCEPT !.size = h[a].size + 16 + h[b].size,
                          !.next = h[b].next]
  BY ZenonT(60), <1>4, <1>6
<1>8. \A c \in DOMAIN h \ {a, b} :
         g[c] = IF c = h[b].next THEN [h[c] EXCEPT !.prev = a] ELSE h[c]
  BY ZenonT(60), <1>4
<1> HIDE DEF g
<1>9. g[a] \in Header /\ g[a].size = h[a].size + 16 + h[b].size
      /\ g[a].next = h[b].next /\ g[a].prev = h[a].prev
      /\ g[a].free = h[a].free
  <2> DEFINE sum == h[a].size + 16 + h[b].size
             m == [h[a] EXCEPT !.size = sum]
  <2>1. sum \in 0 .. KHEAP_SIZE /\ h[a] \in Header /\ h[b].next \in Int
    BY <1>3, <1>t
  <2>2. g[a] = [[h[a] EXCEPT !.size = sum] EXCEPT !.next = h[b].next]
    BY <1>7
  <2> HIDE DEF sum
  <2>3. m \in Header /\ m.size = sum /\ m.prev = h[a].prev /\ m.free = h[a].free
    BY <2>1, SetSize
  <2>4. g[a] = [m EXCEPT !.next = h[b].next]
    BY <2>2
  <2> HIDE DEF m
  <2>5. g[a] \in Header /\ g[a].size = sum /\ g[a].next = h[b].next
        /\ g[a].prev = h[a].prev /\ g[a].free = h[a].free
    BY <2>1, <2>3, <2>4, SetNext
  <2> QED  BY <2>5 DEF sum
<1>10. \A c \in DOMAIN h \ {a, b} :
          /\ g[c] \in Header
          /\ g[c].size = h[c].size /\ g[c].next = h[c].next
          /\ g[c].free = h[c].free
          /\ g[c].prev = IF c = h[b].next THEN a ELSE h[c].prev
  <2>1. ASSUME NEW c \in DOMAIN h \ {a, b}, c = h[b].next
        PROVE  g[c] \in Header /\ g[c].size = h[c].size /\ g[c].next = h[c].next
               /\ g[c].free = h[c].free /\ g[c].prev = a
    <3>1. g[c] = [h[c] EXCEPT !.prev = a]
      BY <1>8, <2>1
    <3>2. h[c] \in Header /\ a \in Int
      BY <1>t, <1>2
    <3> QED  BY <3>1, <3>2, SetPrev
  <2>2. ASSUME NEW c \in DOMAIN h \ {a, b}, c # h[b].next PROVE g[c] = h[c]
    BY ZenonT(60), <1>8, <2>2
  <2> QED  BY <1>t, <2>1, <2>2
<1>11. Absorbed(h, a, b, g)
  BY <1>5, <1>6, <1>9, <1>10 DEF Absorbed
<1>12. Headers(g)
  BY <1>11, <1>t DEF Headers, Absorbed
<1>13. End(g, a) = End(h, b) /\ \A c \in DOMAIN g \ {a} : End(g, c) = End(h, c)
  BY <1>11, <1>2 DEF Absorbed, End, HEAP_BLOCK_HEADER_SIZE
<1>14. 0 \in DOMAIN g /\ g[0].prev = NULL
  <2>1. b # 0 /\ h[b].next # 0
    BY <1>t, <1>h, <1>2 DEF NULL, End, HEAP_BLOCK_HEADER_SIZE
  <2> QED  BY <1>11, <1>z, <2>1 DEF Absorbed
<1>15. \A c, d \in DOMAIN g : c < d => End(g, c) <= d
  <2>1. ASSUME NEW d \in DOMAIN g, a < d PROVE End(g, a) <= d
    <3>1. d \in DOMAIN h /\ d # b /\ d \in Nat
      BY <1>11, <1>t DEF Absorbed
    <3>2. b < d
      BY <1>o, <1>1, <1>2, <2>1, <3>1
    <3> QED  BY <1>o, <1>13, <3>1, <3>2
  <2>2. ASSUME NEW c \in DOMAIN g \ {a}, NEW d \in DOMAIN g, c < d
        PROVE  End(g, c) <= d
    BY <1>o, <1>13, <1>11, <2>2 DEF Absorbed
  <2> QED  BY <2>1, <2>2
<1>16. \A c \in DOMAIN g : c % 8 = 0 /\ g[c].size % 8 = 0
  <2>1. \A c \in DOMAIN h : c % 8 = 0 /\ h[c].size % 8 = 0
    BY DEF Good, Tiled
  <2>2. (h[a].size + 16 + h[b].size) % 8 = 0
    BY <1>2, <2>1
  <2> QED  BY <1>11, <2>1, <2>2 DEF Absorbed
<1>17. ASSUME NEW c \in DOMAIN g
       PROVE  /\ End(g, c) <= KHEAP_SIZE
              /\ IF End(g, c) = KHEAP_SIZE
                 THEN g[c].next = NULL
                 ELSE /\ End(g, c) \in DOMAIN g
                      /\ g[c].next = End(g, c)
                      /\ g[End(g, c)].prev = c
  <2>1. CASE c = a
    <3>1. ASSUME End(h, b) # KHEAP_SIZE
          PROVE  End(h, b) \in DOMAIN g \ {a} /\ g[End(h, b)].prev = a
      <4>1. End(h, b) \in DOMAIN h /\ End(h, b) # b /\ End(h, b) # a
            /\ h[b].next = End(h, b)
        BY <1>h, <1>2, <3>1 DEF End, HEAP_BLOCK_HEADER_SIZE
      <4> QED  BY <1>11, <4>1 DEF Absorbed
    <3> QED  BY <1>h, <1>9, <1>13, <2>1, <3>1
  <2>2. CASE c # a
    <3>1. c \in DOMAIN h \ {a, b} /\ g[c].next = h[c].next /\ End(g, c) = End(h, c)
      BY <1>11, <1>13, <2>2 DEF Absorbed
    <3>2. ASSUME End(h, c) # KHEAP_SIZE
          PROVE  End(h, c) \in DOMAIN g /\ g[End(h, c)].prev = c
      <4>1. End(h, c) \in DOMAIN h /\ h[End(h, c)].prev = c
        BY <1>h, <3>1, <3>2
      <4>2. End(h, c) # b
        BY <1>1, <3>1, <4>1
      <4>3. End(h, c) # h[b].next
        BY <1>h, <1>t, <3>1, <4>1 DEF NULL
      <4> QED  BY <1>11, <4>1, <4>2, <4>3 DEF Absorbed
    <3> QED  BY <1>h, <3>1, <3>2
  <2> QED  BY <2>1, <2>2
<1>18. ASSUME NEW c \in DOMAIN g \ {0}
       PROVE  g[c].prev \in DOMAIN g /\ End(g, g[c].prev) = c
  <2>0. \A d \in DOMAIN h \ {0} : h[d].prev \in DOMAIN h /\ End(h, h[d].prev) = d
    BY DEF Good, Tiled
  <2>1. c \in DOMAIN h /\ c # b /\ c < KHEAP_SIZE
    BY <1>11, InHeap DEF Absorbed
  <2>2. CASE c = h[b].next
    <3>1. End(h, b) = c /\ c # a
      BY <1>t, <1>h, <1>2, <2>1, <2>2 DEF NULL
    <3> QED  BY <1>11, <1>13, <2>1, <2>2, <3>1 DEF Absorbed
  <2>3. CASE c # h[b].next
    <3>1. g[c].prev = h[c].prev
      BY <1>11, <2>1, <2>3 DEF Absorbed
    <3>2. h[c].prev # a /\ h[c].prev # b
      BY <1>h, <1>1, <2>0, <2>1, <2>3
    <3> QED  BY <1>11, <1>13, <2>0, <2>1, <3>1, <3>2 DEF Absorbed
  <2> QED  BY <2>2, <2>3
<1> QED
  BY <1>11, <1>12, <1>14, <1>15, <1>16, <1>17, <1>18 DEF Good, Tiled, g

(***************************************************************************)
(* kfree of block b: r are the headers it leaves.  Allocated blocks other  *)
(* than b are untouched and no other block becomes allocated.              *)
(***************************************************************************)
Released(h, b, r) ==
    /\ \A a \in DOMAIN h \ {b} :
          ~h[a].free => a \in DOMAIN r /\ r[a].size = h[a].size /\ ~r[a].free
    /\ \A a \in DOMAIN r : ~r[a].free => a # b /\ a \in DOMAIN h /\ ~h[a].free

(***************************************************************************)
(* kfree leaves the heap tiled and coalesced.                              *)
(***************************************************************************)
LEMMA ReleaseGood ==
    ASSUME NEW h, Good(h), Coalesced(h), NEW b \in DOMAIN h
    PROVE  LET r == Release(h, b)
           IN  Good(r) /\ Coalesced(r) /\ Released(h, b, r)
<1> DEFINE f == [h EXCEPT ![b].free = TRUE]
           g == AbsorbNext(f, b)
           r == AbsorbedByPrev(g, b)
<1>r. r = Release(h, b)
  BY DEF Release, coalesce_block
<1>1. FreeSet(h, b, TRUE, f) /\ Good(f) /\ b \in DOMAIN f
  BY ZenonT(60), SetFreeGood DEF FreeSet
<1> HIDE DEF f
(* After block->free = true only b may have free neighbours. *)
<1>2. \A a \in DOMAIN f : f[a].free /\ f[a].next # NULL /\ a # b /\ f[a].next # b
                          => ~f[f[a].next].free
  <2> SUFFICES ASSUME NEW a \in DOMAIN f, f[a].free, f[a].next # NULL, a # b,
                      f[a].next # b
               PROVE  ~f[f[a].next].free
    OBVIOUS
  <2>1. a \in DOMAIN h /\ h[a].free /\ h[a].next = f[a].next
    BY <1>1 DEF FreeSet
  <2>2. ~h[f[a].next].free
    BY <2>1 DEF Coalesced
  <2>3. f[a].next \in DOMAIN f
    BY SMTT(30), <1>1, Links
  <2> QED  BY <1>1, <2>2, <2>3 DEF FreeSet
(* After the first half of coalesce_block, only the block before b may be *)
(* a free neighbour of b.                                                 *)
<1>3. /\ Good(g) /\ b \in DOMAIN g /\ g[b].free
      /\ g[b].next # NULL => ~g[g[b].next].free
      /\ \A a \in DOMAIN g : g[a].free /\ g[a].next # NULL /\ g[a].next # b
                             => ~g[g[a].next].free
      /\ \A a \in DOMAIN f : ~f[a].free => /\ a \in DOMAIN g /\ ~g[a].free
                                           /\ g[a].size = f[a].size
      /\ \A a \in DOMAIN g : ~g[a].free => a \in DOMAIN f /\ ~f[a].free
  <2>1. CASE ~IsFree(f, f[b].next)
    <3>1. g = f
      BY <2>1 DEF AbsorbNext
    <3>2. f[b].free
      BY <1>1 DEF FreeSet
    <3> QED  BY <1>1, <1>2, <2>1, <3>1, <3>2 DEF IsFree
  <2>2. CASE IsFree(f, f[b].next)
    <3> DEFINE n == f[b].next
    <3>1. n \in DOMAIN f /\ f[n].free /\ n # NULL /\ f[n].prev = b /\ n # b
      BY <1>1, <2>2, Links DEF IsFree
    <3>2. g = Absorb(f, b, n)
      BY <2>2 DEF AbsorbNext
    <3>3. Absorbed(f, b, n, g) /\ Good(g)
      BY <1>1, <3>1, <3>2, AbsorbGood
    <3> HIDE DEF g, n
    <3>4. /\ DOMAIN g = DOMAIN f \ {n} /\ b \in DOMAIN g
          /\ g[b].next = f[n].next
          /\ \A a \in DOMAIN g : g[a].free = f[a].free
          /\ \A a \in DOMAIN g \ {b} : g[a].next = f[a].next /\ g[a].size = f[a].size
      BY <3>3 DEF Absorbed
    <3>5. f[b].free
      BY <1>1 DEF FreeSet
    <3>6. ASSUME g[b].next # NULL PROVE ~g[g[b].next].free
      <4>1. f[n].next \in DOMAIN f /\ f[n].next = End(f, n) /\ f[n].next # n
        BY <1>1, <3>1, <3>4, <3>6, Links
      <4>2. n = End(f, b)
        BY <1>1, <3>1, Links DEF n
      <4>3. f[n].next # b
        BY <1>1, <3>1, <4>1, <4>2, InHeap
      <4>4. ~f[f[n].next].free
        BY <1>2, <3>1, <3>4, <3>6, <4>3
      <4> QED  BY <3>4, <4>1, <4>4
    <3>7. ASSUME NEW a \in DOMAIN g, g[a].free, g[a].next # NULL, g[a].next # b
          PROVE  ~g[g[a].next].free
      <4>1. CASE a = b
        BY <3>6, <3>7, <4>1
      <4>2. CASE a # b
        <5>1. a \in DOMAIN f /\ f[a].free /\ g[a].next = f[a].next
          BY <3>4, <3>7, <4>2
        <5>2. f[a].next \in DOMAIN f /\ f[f[a].next].prev = a
          BY <1>1, <3>7, <5>1, Links
        <5>3. f[a].next # n
          BY <3>1, <4>2, <5>2
        <5>4. ~f[f[a].next].free
          BY <1>2, <3>7, <4>2, <5>1
        <5> QED  BY <3>4, <5>1, <5>2, <5>3, <5>4
      <4> QED  BY <4>1, <4>2
    <3>8. \A a \in DOMAIN f : ~f[a].free => /\ a \in DOMAIN g /\ ~g[a].free
                                            /\ g[a].size = f[a].size
      BY <3>1, <3>4, <3>5
    <3> QED  BY <3>3, <3>4, <3>5, <3>6, <3>7, <3>8
  <2> QED  BY <2>1, <2>2
<1> HIDE DEF g
<1>4. /\ Good(r) /\ Coalesced(r)
      /\ \A a \in DOMAIN g : ~g[a].free => /\ a \in DOMAIN r /\ ~r[a].free
                                           /\ r[a].size = g[a].size
      /\ \A a \in DOMAIN r : ~r[a].free => a \in DOMAIN g /\ ~g[a].free
  <2>1. CASE ~IsFree(g, g[b].prev)
    <3>1. r = g
      BY <2>1 DEF AbsorbedByPrev
    <3>2. ASSUME NEW a \in DOMAIN g, g[a].free, g[a].next = b PROVE FALSE
      <4>1. b # NULL /\ a # NULL
        BY <1>3, InHeap DEF NULL
      <4>2. g[b].prev = a
        BY <1>3, <3>2, <4>1, Links
      <4> QED  BY <2>1, <3>2, <4>1, <4>2 DEF IsFree
    <3>3. Coalesced(g)
      BY <1>3, <3>2 DEF Coalesced
    <3> QED  BY <1>3, <3>1, <3>3
  <2>2. CASE IsFree(g, g[b].prev)
    <3> DEFINE p == g[b].prev
    <3>1. p \in DOMAIN g /\ g[p].free /\ g[p].next = b /\ p # b
      BY <1>3, <2>2, Links DEF IsFree
    <3>2. r = Absorb(g, p, b)
      BY <2>2 DEF AbsorbedByPrev
    <3>3. Absorbed(g, p, b, r) /\ Good(r)
      BY <1>3, <3>1, <3>2, AbsorbGood
    <3> HIDE DEF r, p
    <3>4. /\ DOMAIN r = DOMAIN g \ {b} /\ p \in DOMAIN r
          /\ r[p].next = g[b].next
          /\ \A a \in DOMAIN r : r[a].free = g[a].free
          /\ \A a \in DOMAIN r \ {p} : r[a].next = g[a].next /\ r[a].size = g[a].size
      BY <3>3 DEF Absorbed
    <3>5. ASSUME NEW a \in DOMAIN r, r[a].free, r[a].next # NULL
          PROVE  ~r[r[a].next].free
      <4>1. CASE a = p
        <5>1. g[b].next \in DOMAIN g /\ g[b].next # b
          BY <1>3, <3>4, <3>5, <4>1, Links
        <5> QED  BY <1>3, <3>4, <3>5, <4>1, <5>1
      <4>2. CASE a # p
        <5>1. a \in DOMAIN g /\ g[a].free /\ r[a].next = g[a].next
          BY <3>4, <3>5, <4>2
        <5>2. g[a].next \in DOMAIN g /\ g[g[a].next].prev = a
          BY <1>3, <3>5, <5>1, Links
        <5>3. g[a].next # b
          BY <4>2, <5>2 DEF p
        <5>4. ~g[g[a].next].free
          BY <1>3, <3>5, <5>1, <5>3
        <5> QED  BY <3>4, <5>1, <5>2, <5>3, <5>4
      <4> QED  BY <4>1, <4>2
    <3>6. \A a \in DOMAIN g : ~g[a].free => /\ a \in DOMAIN r /\ ~r[a].free
                                            /\ r[a].size = g[a].size
      BY <1>3, <3>1, <3>4
    <3> QED  BY <3>3, <3>4, <3>5, <3>6 DEF Coalesced
  <2> QED  BY <2>1, <2>2
<1> HIDE DEF r
<1>5. Released(h, b, r)
  <2>1. /\ DOMAIN f = DOMAIN h
        /\ f[b].free = TRUE
        /\ \A a \in DOMAIN h \ {b} : f[a].free = h[a].free /\ f[a].size = h[a].size
    BY <1>1 DEF FreeSet
  <2> QED  BY <1>3, <1>4, <2>1 DEF Released
<1> QED  BY <1>r, <1>4, <1>5

-----------------------------------------------------------------------------
(***************************************************************************)
(* The inductive invariant of kheap.c.  After an overrun nothing is known  *)
(* but that the headers that are left are headers.                         *)
(***************************************************************************)
HeapInv ==
    /\ heap_initialized \in BOOLEAN /\ live \subseteq Pointer
    /\ failed \in Int /\ overrun \in Int
    /\ IF heap_initialized
       THEN Headers(heap) /\ (Intact => Good(heap) /\ Coalesced(heap))
       ELSE heap = [a \in {} |-> a] /\ live = {} /\ failed = NULL /\ Intact
    /\ LiveBlocks
    /\ failed # NULL => Intact /\ failed \in Nat /\ Fitting(heap, failed) = {}

(***************************************************************************)
(* The rounded size is a multiple of 8 in range, and no smaller than the   *)
(* request unless request + 7 wraps.                                       *)
(***************************************************************************)
LEMMA ModWord ==
    ASSUME NEW x \in Nat
    PROVE  x % WORD \in 0 .. WORD - 1 /\ (x < WORD => x % WORD = x)
BY KHeapAssumption DEF HEAP_BLOCK_HEADER_SIZE, HEAP_MIN_BLOCK_SIZE

(***************************************************************************)
(* Rounding a request up to 8 gives a multiple of 8 that is not less,      *)
(* unless it wraps.                                                        *)
(***************************************************************************)
LEMMA Round8Facts ==
    ASSUME NEW size \in 0 .. WORD - 1
    PROVE  /\ Round8(size) \in Nat /\ Round8(size) % 8 = 0
           /\ size + 7 < WORD => size <= Round8(size)
<1> DEFINE w == (size + 7) % WORD
<1>1. w \in Nat /\ (size + 7 < WORD => w = size + 7)
  BY ModWord, KHeapAssumption
<1> HIDE DEF w
<1>2. (w \div 8) * 8 \in Nat /\ ((w \div 8) * 8) % 8 = 0 /\ w - 7 <= (w \div 8) * 8
  BY <1>1
<1> QED  BY <1>1, <1>2 DEF Round8, w

(***************************************************************************)
(* Rounding a pointer up moves it by less than the alignment.              *)
(***************************************************************************)
LEMMA AlignFacts ==
    ASSUME NEW x \in Nat, NEW alignment \in Nat \ {0}
    PROVE  AlignUp(x, alignment) \in Nat /\ AlignUp(x, alignment) < x + alignment
<1> DEFINE y == x + alignment - 1
           q == y \div alignment
<1>1. y \in Nat
  OBVIOUS
<1> HIDE DEF y
<1>2. q \in Nat /\ q * alignment \in Nat /\ q * alignment <= y
  BY <1>1
<1> QED  BY <1>2 DEF AlignUp, y

(***************************************************************************)
(* The blocks that are not free after kmalloc, and after kfree.            *)
(***************************************************************************)
LEMMA TakeAllocated ==
    ASSUME NEW h, NEW b, NEW size, NEW t, Took(h, b, size, t), b \in DOMAIN h
    PROVE  {a \in DOMAIN t : ~t[a].free} = {a \in DOMAIN h : ~h[a].free} \cup {b}
BY DEF Took

(***************************************************************************)
(* kfree makes exactly one block free.                                     *)
(***************************************************************************)
LEMMA ReleaseAllocated ==
    ASSUME NEW h, NEW b, NEW r, Released(h, b, r), b \in DOMAIN h
    PROVE  {a \in DOMAIN r : ~r[a].free} = {a \in DOMAIN h : ~h[a].free} \ {b}
BY DEF Released

(***************************************************************************)
(* kmalloc and kmalloc_aligned, when they return block b to a new pointer  *)
(* p.                                                                      *)
(***************************************************************************)
LEMMA AllocateStep ==
    ASSUME HeapInv, NEW request \in 0 .. WORD - 1, NEW b \in DOMAIN heap,
           Returns(request, b), heap' = Take(heap, b, Round8(request)),
           NEW p \in Pointer, p.block = b, live' = live \cup {p},
           failed' = NULL, heap_initialized' = heap_initialized,
           overrun' = overrun
    PROVE  HeapInv'
<1>1. heap_initialized /\ Intact /\ Good(heap) /\ Coalesced(heap)
  BY DEF HeapInv, Returns, Accepted
<1>2. heap[b].free /\ heap[b].size >= Round8(request)
  BY DEF Returns, FirstFit, Fitting
<1>3. /\ Good(heap') /\ Coalesced(heap')
      /\ Took(heap, b, Round8(request), heap')
  BY <1>1, <1>2, Round8Facts, TakeGood
<1>4. LiveBlocks'
  <2>1. {a \in DOMAIN heap' : ~heap'[a].free}
           = {a \in DOMAIN heap : ~heap[a].free} \cup {b}
    BY <1>3, TakeAllocated
  <2>2. \A q \in live : q.block # b
    BY <1>1, <1>2 DEF HeapInv, LiveBlocks
  <2>3. {q.block : q \in live'} = {q.block : q \in live} \cup {b}
    OBVIOUS
  <2> QED  BY <1>1, <2>1, <2>2, <2>3 DEF HeapInv, LiveBlocks
<1>5. Headers(heap')
  BY <1>3 DEF Good
<1> QED  BY <1>1, <1>3, <1>4, <1>5 DEF HeapInv, NULL, Intact

(***************************************************************************)
(* kfree of the block of pointer p, when the headers are h (after the      *)
(* kmalloc of a krealloc, or those of the heap) and the pointers held are  *)
(* held.                                                                   *)
(***************************************************************************)
Holds(h, held) ==
    /\ {p.block : p \in held} = {a \in DOMAIN h : ~h[a].free}
    /\ \A p, q \in held : p.block = q.block => p = q

(***************************************************************************)
(* After kfree of a block the callers hold the others.                     *)
(***************************************************************************)
LEMMA ReleaseStep ==
    ASSUME NEW h, Good(h), Coalesced(h), NEW held, Holds(h, held),
           NEW p \in held
    PROVE  LET r == Release(h, p.block)
           IN  Good(r) /\ Coalesced(r) /\ Holds(r, held \ {p})
<1> DEFINE r == Release(h, p.block)
<1>1. p.block \in DOMAIN h
  BY DEF Holds
<1>2. Good(r) /\ Coalesced(r) /\ Released(h, p.block, r)
  BY <1>1, ReleaseGood
<1> HIDE DEF r
<1>3. {a \in DOMAIN r : ~r[a].free} = {a \in DOMAIN h : ~h[a].free} \ {p.block}
  BY <1>1, <1>2, ReleaseAllocated
<1>4. {q.block : q \in held \ {p}} = {q.block : q \in held} \ {p.block}
  BY DEF Holds
<1>5. Holds(r, held \ {p})
  BY <1>3, <1>4 DEF Holds
<1> QED  BY <1>2, <1>5 DEF r

(***************************************************************************)
(* krealloc that moves the block: it copies and frees, or overruns.        *)
(***************************************************************************)
LEMMA MoveStep ==
    ASSUME HeapInv, Intact, heap_initialized, NEW p \in live,
           NEW size \in 0 .. WORD - 1, Move(p, size)
    PROVE  HeapInv'
<1> DEFINE q(a) == [block |-> a, size |-> size,
                    ptr |-> a + HEAP_BLOCK_HEADER_SIZE]
           t(a) == Take(heap, a, Round8(size))
<1>0. Good(heap) /\ Coalesced(heap) /\ Holds(heap, live)
  BY DEF HeapInv, LiveBlocks, Holds
<1>1. PICK a \in DOMAIN heap :
         /\ Returns(size, a)
         /\ CopyAndFree(t(a), a, p.block, size)
         /\ live' = (live \ {p}) \cup {q(a)}
         /\ failed' = NULL
         /\ heap_initialized' = heap_initialized
  BY DEF Move
<1>2. q(a) \in Pointer /\ q(a).block = a
  <2>1. a \in 0 .. KHEAP_SIZE
    BY <1>0 DEF Good, Headers
  <2> QED  BY <2>1, KHeapAssumption DEF Pointer, HEAP_BLOCK_HEADER_SIZE
<1>3. heap[a].free /\ heap[a].size >= Round8(size)
  BY <1>1 DEF Returns, FirstFit, Fitting
<1>4. Good(t(a)) /\ Coalesced(t(a)) /\ Took(heap, a, Round8(size), t(a))
  BY <1>0, <1>3, Round8Facts, TakeGood
<1> HIDE DEF q, t
<1>5. \A c \in live : c.block # a
  BY <1>0, <1>3 DEF Holds
<1>6. Holds(t(a), live \cup {q(a)})
  <2>1. {c \in DOMAIN t(a) : ~t(a)[c].free}
           = {c \in DOMAIN heap : ~heap[c].free} \cup {a}
    BY <1>4, TakeAllocated
  <2>2. {c.block : c \in live \cup {q(a)}} = {c.block : c \in live} \cup {a}
    BY <1>2
  <2> QED  BY <1>0, <1>2, <1>5, <2>1, <2>2 DEF Holds
<1>7. live' = (live \cup {q(a)}) \ {p}
  BY <1>1, <1>2, <1>5
<1>8. live' \subseteq Pointer /\ overrun \in Int
  BY <1>1, <1>2 DEF HeapInv
<1>9. CASE t(a)[p.block].size <= t(a)[a].size
  <2>1. heap' = Release(t(a), p.block) /\ overrun' = overrun
    BY <1>1, <1>9 DEF CopyAndFree
  <2>2. Good(heap') /\ Coalesced(heap') /\ Holds(heap', live')
    BY <1>4, <1>6, <1>7, <2>1, ReleaseStep
  <2>3. Headers(heap')
    BY <2>2 DEF Good
  <2>4. LiveBlocks'
    BY <2>2 DEF Holds, LiveBlocks
  <2> QED  BY <1>1, <1>8, <2>1, <2>2, <2>3, <2>4 DEF HeapInv, NULL
<1>10. CASE ~(t(a)[p.block].size <= t(a)[a].size)
  <2>1. /\ heap' = [b \in DOMAIN t(a) \ Overwritten(t(a), a, p.block) |-> t(a)[b]]
        /\ overrun' = size
    BY <1>1, <1>10 DEF CopyAndFree
  <2>2. Headers(t(a))
    BY <1>4 DEF Good
  <2>3. Headers(heap')
    BY <2>1, <2>2 DEF Headers
  <2>4. overrun' \in Int /\ ~Intact'
    BY <2>1, KHeapAssumption DEF Intact, NULL
  <2>5. LiveBlocks'
    BY <2>4 DEF LiveBlocks
  <2> QED  BY <1>1, <1>8, <2>3, <2>4, <2>5 DEF HeapInv, NULL
<1> QED  BY <1>9, <1>10

(***************************************************************************)
(* Before kheap_init there is nothing, which satisfies the invariant.      *)
(***************************************************************************)
LEMMA InitHeapInv == Init => HeapInv
<1> SUFFICES ASSUME Init PROVE HeapInv
  OBVIOUS
<1>1. LiveBlocks
  BY DEF Init, LiveBlocks
<1>2. heap_initialized \in BOOLEAN /\ ~heap_initialized
  BY Zenon DEF Init
<1> QED  BY <1>1, <1>2 DEF Init, HeapInv, NULL, Intact

(***************************************************************************)
(* kheap_init and every call preserve the invariant.                       *)
(***************************************************************************)
LEMMA NextHeapInv == HeapInv /\ [Next]_vars => HeapInv'
<1> SUFFICES ASSUME HeapInv, [Next]_vars PROVE HeapInv'
  OBVIOUS
<1>null. ASSUME NEW request \in 0 .. WORD - 1, ReturnsNull(request) PROVE HeapInv'
  <2>1. Round8(request) \in Nat
    BY Round8Facts
  <2>4. /\ heap_initialized' = heap_initialized /\ heap' = heap /\ live' = live
        /\ overrun' = overrun
    BY <1>null DEF ReturnsNull
  <2>5. LiveBlocks' /\ Intact' = Intact
    BY <2>4 DEF HeapInv, LiveBlocks, Intact
  <2>2. CASE Accepted(request)
    <3>1. failed' = Round8(request) /\ NoRoom(request)
      BY <1>null, <2>2 DEF ReturnsNull
    <3> QED  BY <2>1, <2>2, <2>4, <2>5, <3>1 DEF HeapInv, NoRoom, Accepted
  <2>3. CASE ~Accepted(request)
    <3>1. failed' = NULL
      BY <1>null, <2>3 DEF ReturnsNull
    <3> QED  BY <2>4, <2>5, <3>1 DEF HeapInv, NULL
  <2> QED  BY <2>2, <2>3
<1>free. ASSUME NEW p \in live, kfree(p) PROVE HeapInv'
  <2>1. heap_initialized /\ Intact /\ Good(heap) /\ Coalesced(heap)
        /\ Holds(heap, live)
    BY <1>free DEF HeapInv, LiveBlocks, Holds, kfree
  <2>2. Good(heap') /\ Coalesced(heap') /\ Holds(heap', live')
    BY <1>free, <2>1, ReleaseStep DEF kfree
  <2>3. Headers(heap')
    BY <2>2 DEF Good
  <2>4. /\ heap_initialized' = heap_initialized /\ failed' = NULL
        /\ overrun' = overrun /\ live' \subseteq Pointer
    BY <1>free DEF kfree, HeapInv
  <2>5. LiveBlocks'
    BY <2>2 DEF Holds, LiveBlocks
  <2> QED  BY <2>1, <2>2, <2>3, <2>4, <2>5 DEF HeapInv, NULL
<1>1. CASE kheap_init
  <2>1. Headers(WholeHeap)
    BY WholeHeapGood DEF Good
  <2>2. /\ ~heap_initialized /\ live' = {} /\ failed' = NULL /\ overrun' = overrun
        /\ heap_initialized' = TRUE /\ heap' = WholeHeap /\ overrun \in Int
    BY <1>1 DEF kheap_init, HeapInv
  <2>3. LiveBlocks'
    BY <2>2 DEF LiveBlocks, WholeHeap
  <2> QED  BY <2>1, <2>2, <2>3, WholeHeapGood DEF HeapInv, NULL
<1>2. ASSUME NEW size \in Sizes, kmalloc(size) PROVE HeapInv'
  <2>1. size \in 0 .. WORD - 1
    BY KHeapAssumption
  <2>2. CASE ReturnsNull(size)
    BY <1>null, <2>1, <2>2
  <2>3. CASE ~ReturnsNull(size)
    <3> DEFINE p(a) == [block |-> a, size |-> size,
                        ptr |-> a + HEAP_BLOCK_HEADER_SIZE]
    <3>1. PICK a \in DOMAIN heap :
             /\ Returns(size, a)
             /\ heap' = Take(heap, a, Round8(size))
             /\ live' = live \cup {p(a)}
             /\ failed' = NULL
             /\ heap_initialized' = heap_initialized
             /\ overrun' = overrun
      BY <1>2, <2>3 DEF kmalloc
    <3>2. p(a) \in Pointer /\ p(a).block = a
      <4>1. a \in 0 .. KHEAP_SIZE
        BY <3>1 DEF HeapInv, Returns, Accepted, Good, Headers
      <4> QED  BY <2>1, <4>1, KHeapAssumption DEF Pointer, HEAP_BLOCK_HEADER_SIZE
    <3> HIDE DEF p
    <3> QED  BY <2>1, <3>1, <3>2, AllocateStep
  <2> QED  BY <2>2, <2>3
<1>3. ASSUME NEW size \in Sizes, NEW alignment \in Alignments,
             kmalloc_aligned(size, alignment)
      PROVE  HeapInv'
  <2> DEFINE request == (size + alignment) % WORD
  <2>1. size \in 0 .. WORD - 1 /\ alignment \in Nat \ {0}
    BY KHeapAssumption
  <2>2. request \in 0 .. WORD - 1
    BY SMTT(30), <2>1, ModWord, KHeapAssumption
  <2>3. CASE ReturnsNull(request)
    BY <1>null, <2>2, <2>3
  <2>4. CASE ~ReturnsNull(request)
    <3> DEFINE p(a) == [block |-> a, size |-> size,
                        ptr |-> AlignUp(a + HEAP_BLOCK_HEADER_SIZE, alignment)]
    <3>1. PICK a \in DOMAIN heap :
             /\ Returns(request, a)
             /\ heap' = Take(heap, a, Round8(request))
             /\ live' = live \cup {p(a)}
             /\ failed' = NULL
             /\ heap_initialized' = heap_initialized
             /\ overrun' = overrun
      BY <1>3, <2>4 DEF kmalloc_aligned
    <3>2. p(a) \in Pointer /\ p(a).block = a
      <4>1. a \in 0 .. KHEAP_SIZE
        BY <3>1 DEF HeapInv, Returns, Accepted, Good, Headers
      <4>2. a + HEAP_BLOCK_HEADER_SIZE \in Nat
        BY <4>1, KHeapAssumption DEF HEAP_BLOCK_HEADER_SIZE
      <4>3. AlignUp(a + HEAP_BLOCK_HEADER_SIZE, alignment) \in Nat
        BY <2>1, <4>2, AlignFacts
      <4> QED  BY <2>1, <4>1, <4>3 DEF Pointer
    <3> HIDE DEF p, request
    <3> QED  BY <2>2, <3>1, <3>2, AllocateStep
  <2> QED  BY <2>3, <2>4
<1>4. ASSUME NEW p \in live, NEW size \in Sizes, krealloc(p, size)
      PROVE  HeapInv'
  <2>1. size \in 0 .. WORD - 1
    BY KHeapAssumption
  <2>2. heap_initialized /\ Intact /\ Good(heap) /\ Coalesced(heap)
        /\ Holds(heap, live)
    BY <1>4 DEF HeapInv, LiveBlocks, Holds, krealloc
  <2>3. p \in Pointer
    BY DEF HeapInv
  <2>4. CASE Keep(p, size)
    <3> DEFINE q == [p EXCEPT !.size = size]
    <3>1. q \in Pointer /\ q.block = p.block
      BY <2>1, <2>3 DEF Pointer
    <3>2. live' = (live \ {p}) \cup {q} /\ heap' = heap
      BY <2>4 DEF Keep
    <3> HIDE DEF q
    <3>3. {c.block : c \in live'} = {c.block : c \in live}
      BY <3>1, <3>2
    <3>4. LiveBlocks'
      BY SMTT(30), <2>2, <3>1, <3>2, <3>3 DEF Holds, LiveBlocks
    <3> QED  BY <2>4, <2>2, <3>1, <3>2, <3>4 DEF HeapInv, Keep, NULL, Intact
  <2>5. CASE Move(p, size)
    BY <2>1, <2>2, <2>5, MoveStep
  <2> QED
    BY <1>4, <1>null, <1>free, <2>1, <2>4, <2>5 DEF krealloc
<1>5. CASE UNCHANGED vars
  BY <1>5 DEF vars, HeapInv, LiveBlocks, Intact
<1> QED  BY <1>1, <1>2, <1>3, <1>4, <1>5, <1>free DEF Next

-----------------------------------------------------------------------------
(***************************************************************************)
(* Every header kheap.c writes holds a size within the heap.               *)
(***************************************************************************)
THEOREM TypeCorrect == Spec => []TypeOK
<1>1. HeapInv => TypeOK
  BY ZenonT(60) DEF HeapInv, TypeOK, Good, Headers
<1> QED  BY <1>1, InitHeapInv, NextHeapInv, PTL DEF Spec

(***************************************************************************)
(* The block list tiles heap_area after every call of the heap, until a    *)
(* krealloc overruns its block.                                            *)
(***************************************************************************)
THEOREM HeapTiled == Spec => []Tiling
<1>1. HeapInv => Tiling
  BY DEF HeapInv, Tiling, Good
<1> QED  BY <1>1, InitHeapInv, NextHeapInv, PTL DEF Spec

(***************************************************************************)
(* No two neighbouring blocks are free after any call, until a krealloc    *)
(* overruns its block.                                                     *)
(***************************************************************************)
THEOREM HeapCoalesced == Spec => []FullyCoalesced
<1>1. HeapInv => FullyCoalesced
  BY DEF HeapInv, FullyCoalesced
<1> QED  BY <1>1, InitHeapInv, NextHeapInv, PTL DEF Spec

(***************************************************************************)
(* No block has two owners and none is lost, until a krealloc overruns.    *)
(***************************************************************************)
THEOREM OneOwnerPerBlock == Spec => []LiveBlocks
<1>1. HeapInv => LiveBlocks
  BY DEF HeapInv
<1> QED  BY <1>1, InitHeapInv, NextHeapInv, PTL DEF Spec

(***************************************************************************)
(* When nothing is held, the heap is the block kheap_init made.            *)
(***************************************************************************)
THEOREM NothingLeftBehind == Spec => []AllReturned
<1>1. HeapInv => AllReturned
  <2> SUFFICES ASSUME HeapInv, heap_initialized, Intact, live = {}
               PROVE  heap = WholeHeap
    BY DEF AllReturned
  <2>1. Good(heap) /\ Coalesced(heap)
    BY DEF HeapInv
  <2>2. \A a \in DOMAIN heap : heap[a].free
    BY DEF HeapInv, LiveBlocks
  <2>3. 0 \in DOMAIN heap /\ heap[0].prev = NULL
    BY <2>1 DEF Good, Tiled
  <2>4. heap[0].next = NULL
    BY SMTT(30), <2>1, <2>2, <2>3, Links DEF Coalesced
  <2>5. End(heap, 0) = KHEAP_SIZE
    BY <2>1, <2>3, <2>4, InHeap DEF Good, Tiled, NULL
  <2>6. DOMAIN heap = {0}
    <3>1. ASSUME NEW a \in DOMAIN heap, a # 0 PROVE FALSE
      <4>1. a \in Nat /\ a < KHEAP_SIZE
        BY <2>1, InHeap
      <4>2. End(heap, 0) <= a
        BY <2>1, <2>3, <3>1, <4>1 DEF Good, Tiled
      <4> QED  BY <2>5, <4>1, <4>2, KHeapAssumption
    <3> QED  BY <2>3, <3>1
  <2>7. heap[0] \in Header /\ heap[0].size = KHEAP_SIZE - 16 /\ heap[0].free = TRUE
    <3>1. heap[0] \in Header /\ heap[0].size \in Nat
          /\ End(heap, 0) = 0 + 16 + heap[0].size /\ heap[0].free \in BOOLEAN
      BY <2>1, <2>3, InHeap
    <3>2. heap[0].size = KHEAP_SIZE - 16
      BY <2>5, <3>1
    <3> QED  BY <2>2, <2>3, <3>1, <3>2
  <2>8. heap[0] = [size |-> KHEAP_SIZE - 16, free |-> TRUE,
                   next |-> NULL, prev |-> NULL]
    BY <2>3, <2>4, <2>7 DEF Header
  <2>9. heap = [a \in DOMAIN heap |-> heap[a]]
    BY <2>1 DEF Good, Headers
  <2> QED  BY <2>6, <2>8, <2>9 DEF WholeHeap, HEAP_BLOCK_HEADER_SIZE
<1> QED  BY <1>1, InitHeapInv, NextHeapInv, PTL DEF Spec

(***************************************************************************)
(* A set of naturals below a bound that is not empty has a largest member, *)
(* and so every byte of a tiled heap lies in a block.                      *)
(***************************************************************************)
LEMMA SmallestMember ==
    ASSUME NEW T \in SUBSET Nat, T # {}
    PROVE  \E x \in T : \A y \in T : x <= y
<1>1. PICK x \in T : \A y \in T : ~(<<y, x>> \in OpToRel(<, Nat))
  BY ZenonT(60), NatLessThanWellFounded, WFMin
<1>2. \A y \in T : ~(y < x)
  BY ZenonT(60), <1>1 DEF OpToRel
<1> QED  BY <1>2

(***************************************************************************)
(* Every byte of a tiled heap is in a block.                               *)
(***************************************************************************)
LEMMA ByteInBlock ==
    ASSUME NEW h, Good(h), NEW x \in Nat, x < KHEAP_SIZE
    PROVE  \E a \in DOMAIN h : a <= x /\ x < End(h, a)
<1> DEFINE T == {n \in Nat : \E a \in DOMAIN h : a <= x /\ n = x - a}
<1>1. 0 \in DOMAIN h
  BY DEF Good, Tiled
<1>2. x \in T
  BY <1>1
<1>3. PICK m \in T : \A n \in T : m <= n
  BY ZenonT(60), <1>2, SmallestMember
<1>4. PICK a \in DOMAIN h : a <= x /\ m = x - a
  BY <1>3
<1>5. a \in Nat /\ End(h, a) = a + 16 + h[a].size /\ h[a].size \in Nat
  BY InHeap
<1>6. ASSUME End(h, a) <= x PROVE FALSE
  <2>1. End(h, a) # KHEAP_SIZE
    BY <1>5, <1>6, KHeapAssumption
  <2>2. End(h, a) \in DOMAIN h
    BY <2>1 DEF Good, Tiled
  <2>3. x - End(h, a) \in T
    BY <1>5, <1>6, <2>2
  <2> QED  BY <1>3, <1>4, <1>5, <2>3
<1> QED  BY <1>4, <1>5, <1>6

(***************************************************************************)
(* kmalloc reports exhaustion only when no gap between allocated blocks is *)
(* large enough.                                                           *)
(***************************************************************************)
THEOREM FailureMeansFull == Spec => []FailsOnlyWhenFull
<1>1. HeapInv => FailsOnlyWhenFull
  <2> SUFFICES ASSUME HeapInv, failed # NULL,
                      NEW x \in 0 .. KHEAP_SIZE - 16 - failed,
                      \A a \in DOMAIN heap :
                          ~( /\ ~heap[a].free
                             /\ a < x + 16 + failed
                             /\ x < End(heap, a) )
               PROVE  FALSE
    BY DEF FailsOnlyWhenFull, HEAP_BLOCK_HEADER_SIZE
  <2>1. Good(heap) /\ Coalesced(heap) /\ failed \in Nat
        /\ Fitting(heap, failed) = {} /\ KHEAP_SIZE \in Nat
    BY KHeapAssumption DEF HeapInv
  <2>2. x \in Nat /\ x + 16 + failed <= KHEAP_SIZE /\ x < KHEAP_SIZE
    BY <2>1
  <2>3. PICK a \in DOMAIN heap : a <= x /\ x < End(heap, a)
    BY <2>1, <2>2, ByteInBlock
  <2>4. a \in Nat /\ End(heap, a) = a + 16 + heap[a].size /\ heap[a].size \in Nat
    BY <2>1, InHeap
  <2>5. heap[a].free
    BY <2>1, <2>2, <2>3, <2>4
  <2>6. heap[a].size < failed
    BY <2>1, <2>4, <2>5 DEF Fitting
  <2>7. End(heap, a) < x + 16 + failed /\ End(heap, a) # KHEAP_SIZE
    BY <2>1, <2>2, <2>3, <2>4, <2>6
  <2>8. End(heap, a) \in DOMAIN heap /\ heap[a].next = End(heap, a)
    BY <2>1, <2>7 DEF Good, Tiled
  <2>9. ~heap[End(heap, a)].free
    BY <2>1, <2>4, <2>5, <2>8 DEF Coalesced, NULL
  <2>10. x < End(heap, End(heap, a))
    BY <2>1, <2>3, <2>8, InHeap
  <2> QED  BY <2>7, <2>8, <2>9, <2>10
<1> QED  BY <1>1, InitHeapInv, NextHeapInv, PTL DEF Spec

-----------------------------------------------------------------------------
(***************************************************************************)
(* One pointer of RequestsFit, under headers h.                            *)
(***************************************************************************)
Fits(h, p) == \/ p.ptr + p.size <= End(h, p.block)
              \/ \E slack \in Alignments \cup {0} : p.size + slack + 7 >= WORD

(***************************************************************************)
(* Pointers held across a kmalloc, and across a kfree of another block,    *)
(* keep their blocks.                                                      *)
(***************************************************************************)
LEMMA TakeKeeps ==
    ASSUME NEW h, NEW b, NEW size, NEW t, Took(h, b, size, t),
           NEW p, p.block \in DOMAIN h, p.block # b, Fits(h, p)
    PROVE  Fits(t, p)
BY DEF Took, Fits, End

(***************************************************************************)
(* kfree of one block leaves room for the requests of the others.          *)
(***************************************************************************)
LEMMA ReleaseKeeps ==
    ASSUME NEW h, NEW b, NEW r, Released(h, b, r),
           NEW p, p.block \in DOMAIN h, ~h[p.block].free, p.block # b, Fits(h, p)
    PROVE  Fits(r, p)
BY DEF Released, Fits, End

(***************************************************************************)
(* The pointer kmalloc returns for block a of headers t.                   *)
(***************************************************************************)
LEMMA NewPointerFits ==
    ASSUME NEW t, NEW a \in Nat, NEW size \in 0 .. WORD - 1,
           t[a].size \in Nat, t[a].size >= Round8(size),
           NEW p, p.block = a, p.size = size, p.ptr = a + 16
    PROVE  Fits(t, p)
<1>1. CASE size + 7 < WORD
  <2>1. size <= Round8(size) /\ Round8(size) \in Nat
    BY <1>1, Round8Facts
  <2>2. End(t, a) = a + 16 + t[a].size
    BY DEF End, HEAP_BLOCK_HEADER_SIZE
  <2>3. p.ptr + p.size <= End(t, p.block)
    BY <2>1, <2>2, KHeapAssumption
  <2> QED  BY <2>3 DEF Fits
<1>2. CASE ~(size + 7 < WORD)
  <2>1. p.size + 0 + 7 >= WORD
    BY <1>2, KHeapAssumption
  <2> QED  BY ZenonT(60), <2>1 DEF Fits
<1> QED  BY <1>1, <1>2

(***************************************************************************)
(* While the headers are intact, RequestsFit is Fits of every pointer.     *)
(***************************************************************************)
AllFit(h, held) == \A p \in held : Fits(h, p)

(***************************************************************************)
(* What RequestsFit says before and after a call that does not overrun.    *)
(***************************************************************************)
LEMMA FitIntact ==
    /\ Intact /\ RequestsFit => AllFit(heap, live)
    /\ AllFit(heap', live') /\ Intact /\ overrun' = overrun => RequestsFit'
BY DEF RequestsFit, AllFit, Fits, Intact

(***************************************************************************)
(* Callers that hold blocks of an intact heap hold different ones, and     *)
(* none of those is free.                                                  *)
(***************************************************************************)
Held(h, held) ==
    /\ \A p \in held : p.block \in DOMAIN h /\ ~h[p.block].free
    /\ \A p, q \in held : p.block = q.block => p = q

(***************************************************************************)
(* The inductive invariant, read for the pointers that callers hold.       *)
(***************************************************************************)
LEMMA HeldBlocks ==
    ASSUME HeapInv, Intact
    PROVE  Held(heap, live) /\ (live # {} => Good(heap) /\ Coalesced(heap))
BY DEF HeapInv, LiveBlocks, Held

(***************************************************************************)
(* kmalloc of block a, t being the headers it leaves: the block is large   *)
(* enough, and the blocks of others are as they were.                      *)
(***************************************************************************)
Granted(t, a, request) ==
    /\ a \in Nat /\ a \in DOMAIN t /\ ~t[a].free
    /\ t[a].size \in Nat /\ t[a].size >= Round8(request)
    /\ \A p \in live : /\ p.block # a /\ p.block \in DOMAIN t
                       /\ ~t[p.block].free /\ t[p.block].size = heap[p.block].size
    /\ AllFit(t, live)
    /\ Good(t) /\ Coalesced(t)

(***************************************************************************)
(* Every block that kmalloc returns is granted in this sense.              *)
(***************************************************************************)
LEMMA Grants ==
    ASSUME HeapInv, RequestsFit, NEW request \in 0 .. WORD - 1,
           NEW a \in DOMAIN heap, Returns(request, a)
    PROVE  Granted(Take(heap, a, Round8(request)), a, request)
<1> DEFINE t == Take(heap, a, Round8(request))
<1>1. Intact /\ Good(heap) /\ Coalesced(heap)
  BY DEF HeapInv, Returns, Accepted
<1>2. heap[a].free /\ heap[a].size >= Round8(request)
  BY DEF Returns, FirstFit, Fitting
<1>3. Good(t) /\ Coalesced(t) /\ Took(heap, a, Round8(request), t)
  BY <1>1, <1>2, Round8Facts, TakeGood
<1> HIDE DEF t
<1>4. a \in DOMAIN t /\ t[a].size >= Round8(request) /\ ~t[a].free
  BY <1>3 DEF Took
<1>5. a \in Nat /\ t[a].size \in Nat
  BY <1>3, <1>4, InHeap
<1>6. Held(heap, live) /\ AllFit(heap, live)
  BY <1>1, HeldBlocks, FitIntact
<1>7. \A p \in live : p.block # a
  BY <1>2, <1>6 DEF Held
<1>8. AllFit(t, live)
  BY <1>3, <1>6, <1>7, TakeKeeps DEF AllFit, Held
<1>9. \A p \in live : /\ p.block \in DOMAIN t /\ ~t[p.block].free
                      /\ t[p.block].size = heap[p.block].size
  BY <1>3, <1>6, <1>7 DEF Took, Held
<1>10. Granted(t, a, request)
  BY <1>3, <1>4, <1>5, <1>7, <1>8, <1>9 DEF Granted
<1> QED  BY <1>10 DEF t

(***************************************************************************)
(* kmalloc and kmalloc_aligned give a new pointer q.                       *)
(***************************************************************************)
LEMMA AllocateFits ==
    ASSUME HeapInv, RequestsFit, NEW request \in 0 .. WORD - 1,
           NEW a \in DOMAIN heap, Returns(request, a),
           heap' = Take(heap, a, Round8(request)),
           NEW q, live' = live \cup {q}, overrun' = overrun, Fits(heap', q)
    PROVE  RequestsFit'
<1>1. AllFit(heap', live) /\ Intact
  BY Grants DEF Granted, Returns
<1>2. AllFit(heap', live')
  BY <1>1 DEF AllFit
<1> QED  BY Zenon, <1>1, <1>2, FitIntact

(***************************************************************************)
(* kmalloc, which may also return NULL.                                    *)
(***************************************************************************)
LEMMA MallocFits ==
    ASSUME HeapInv, RequestsFit, NEW size \in 0 .. WORD - 1,
           kmalloc(size), ~ReturnsNull(size)
    PROVE  RequestsFit'
<1> DEFINE q(a) == [block |-> a, size |-> size, ptr |-> a + 16]
<1>1. PICK a \in DOMAIN heap :
         /\ Returns(size, a)
         /\ heap' = Take(heap, a, Round8(size))
         /\ live' = live \cup {q(a)}
         /\ overrun' = overrun
  BY DEF kmalloc, HEAP_BLOCK_HEADER_SIZE
<1>2. q(a).block = a /\ q(a).size = size /\ q(a).ptr = a + 16
  OBVIOUS
<1> HIDE DEF q
<1>3. a \in Nat /\ heap'[a].size \in Nat /\ heap'[a].size >= Round8(size)
  BY <1>1, Grants DEF Granted
<1>4. Fits(heap', q(a))
  BY <1>2, <1>3, NewPointerFits
<1> QED  BY <1>1, <1>4, AllocateFits

(***************************************************************************)
(* kmalloc_aligned: the pointer moves by less than the alignment that was  *)
(* added to the request.                                                   *)
(***************************************************************************)
LEMMA AlignedFits ==
    ASSUME NEW t, NEW a \in Nat, NEW size \in Nat, NEW alignment \in Alignments,
           t[a].size \in Nat, t[a].size >= Round8((size + alignment) % WORD),
           NEW q, q.block = a, q.size = size, q.ptr = AlignUp(a + 16, alignment)
    PROVE  Fits(t, q)
<1>1. alignment \in Nat \ {0} /\ WORD \in Nat
  BY KHeapAssumption
<1>2. CASE size + alignment + 7 < WORD
  <2>1. (size + alignment) % WORD = size + alignment
    BY <1>1, <1>2, ModWord
  <2>2. size + alignment <= Round8(size + alignment)
        /\ Round8(size + alignment) \in Nat
    BY <1>1, <1>2, Round8Facts
  <2>3. AlignUp(a + 16, alignment) \in Nat
        /\ AlignUp(a + 16, alignment) < a + 16 + alignment
    BY <1>1, AlignFacts
  <2>4. End(t, a) = a + 16 + t[a].size
    BY DEF End, HEAP_BLOCK_HEADER_SIZE
  <2>5. AlignUp(a + 16, alignment) + size <= End(t, a)
    BY <1>1, <2>1, <2>2, <2>3, <2>4
  <2> QED  BY <2>5 DEF Fits
<1>3. CASE ~(size + alignment + 7 < WORD)
  <2>1. size + alignment + 7 >= WORD
    BY <1>1, <1>3
  <2> QED  BY <2>1 DEF Fits
<1> QED  BY <1>2, <1>3

(***************************************************************************)
(* kmalloc_aligned, which may also return NULL.                            *)
(***************************************************************************)
LEMMA MallocAlignedFits ==
    ASSUME HeapInv, RequestsFit, NEW size \in Sizes, NEW alignment \in Alignments,
           kmalloc_aligned(size, alignment),
           ~ReturnsNull((size + alignment) % WORD)
    PROVE  RequestsFit'
<1> DEFINE request == (size + alignment) % WORD
           q(a) == [block |-> a, size |-> size, ptr |-> AlignUp(a + 16, alignment)]
<1>1. size \in Nat /\ alignment \in Nat /\ size + alignment \in Nat
  BY KHeapAssumption
<1>2. request \in 0 .. WORD - 1
  BY <1>1, ModWord
<1>3. PICK a \in DOMAIN heap :
         /\ Returns(request, a)
         /\ heap' = Take(heap, a, Round8(request))
         /\ live' = live \cup {q(a)}
         /\ overrun' = overrun
  BY DEF kmalloc_aligned, HEAP_BLOCK_HEADER_SIZE
<1>4. q(a).block = a /\ q(a).size = size /\ q(a).ptr = AlignUp(a + 16, alignment)
  OBVIOUS
<1> HIDE DEF q
<1>5. a \in Nat /\ heap'[a].size \in Nat /\ heap'[a].size >= Round8(request)
  BY <1>2, <1>3, Grants DEF Granted
<1>6. Fits(heap', q(a))
  BY <1>1, <1>4, <1>5, AlignedFits
<1> HIDE DEF request
<1> QED  BY <1>2, <1>3, <1>6, AllocateFits

(***************************************************************************)
(* kfree of one pointer: the others still fit.                             *)
(***************************************************************************)
LEMMA FreeFits ==
    ASSUME HeapInv, RequestsFit, NEW p \in live, kfree(p)
    PROVE  RequestsFit'
<1>1. /\ Intact /\ overrun' = overrun /\ live' = live \ {p}
      /\ heap' = Release(heap, p.block)
  BY DEF kfree
<1>2. Held(heap, live) /\ Good(heap) /\ Coalesced(heap) /\ AllFit(heap, live)
  BY <1>1, HeldBlocks, FitIntact
<1>3. Released(heap, p.block, heap')
  BY <1>1, <1>2, ReleaseGood DEF Held
<1>4. AllFit(heap', live')
  BY <1>1, <1>2, <1>3, ReleaseKeeps DEF AllFit, Held
<1> QED  BY <1>1, <1>4, FitIntact

(***************************************************************************)
(* krealloc that keeps the block: the new size is within the old block.    *)
(***************************************************************************)
LEMMA KeepFits ==
    ASSUME HeapInv, RequestsFit, Intact, NEW p \in live, NEW size \in Nat,
           IsBlockStart(p), heap[p.block].size >= size, Keep(p, size)
    PROVE  RequestsFit'
<1> DEFINE q == [p EXCEPT !.size = size]
<1>1. p \in Pointer
  BY DEF HeapInv
<1>2. q.block = p.block /\ q.size = size /\ q.ptr = p.ptr
  BY <1>1 DEF Pointer
<1>3. live' = (live \ {p}) \cup {q} /\ heap' = heap /\ overrun' = overrun
  BY DEF Keep
<1> HIDE DEF q
<1>4. Good(heap) /\ p.block \in DOMAIN heap /\ AllFit(heap, live)
  BY HeldBlocks, FitIntact DEF Held
<1>5. p.block \in Nat /\ heap[p.block].size \in Nat
      /\ End(heap, p.block) = p.block + 16 + heap[p.block].size
  BY <1>4, InHeap
<1>6. p.ptr = p.block + 16
  BY DEF IsBlockStart, HEAP_BLOCK_HEADER_SIZE
<1>7. p.ptr + size <= End(heap, p.block)
  BY <1>5, <1>6
<1>8. Fits(heap, q)
  BY <1>2, <1>7 DEF Fits
<1>9. AllFit(heap', live')
  BY <1>3, <1>4, <1>8 DEF AllFit
<1> QED  BY <1>3, <1>9, FitIntact

(***************************************************************************)
(* krealloc that moves the block.  The new block is larger than the old    *)
(* one, so that the copy fits, unless the request wraps.                   *)
(***************************************************************************)
LEMMA MoveFits ==
    ASSUME HeapInv, RequestsFit, Intact, NEW p \in live,
           NEW size \in 0 .. WORD - 1, heap[p.block].size < size, Move(p, size)
    PROVE  RequestsFit'
<1> DEFINE q(a) == [block |-> a, size |-> size, ptr |-> a + 16]
           t(a) == Take(heap, a, Round8(size))
<1>1. PICK a \in DOMAIN heap :
         /\ Returns(size, a)
         /\ CopyAndFree(t(a), a, p.block, size)
         /\ live' = (live \ {p}) \cup {q(a)}
  BY DEF Move, HEAP_BLOCK_HEADER_SIZE
<1>2. q(a).block = a /\ q(a).size = size /\ q(a).ptr = a + 16
  OBVIOUS
<1>3. Granted(t(a), a, size)
  BY <1>1, Grants
<1> HIDE DEF q, t
<1>4. Held(heap, live) /\ Good(heap)
  BY HeldBlocks
<1>5. CASE t(a)[p.block].size <= t(a)[a].size
  <2>1. heap' = Release(t(a), p.block) /\ overrun' = overrun
    BY <1>1, <1>5 DEF CopyAndFree
  <2>2. Released(t(a), p.block, heap')
    BY <1>3, <2>1, ReleaseGood DEF Granted
  <2>3. Fits(t(a), q(a))
    BY <1>2, <1>3, NewPointerFits DEF Granted
  <2>4. Fits(heap', q(a))
    BY <1>2, <1>3, <2>2, <2>3, ReleaseKeeps DEF Granted
  <2>5. \A c \in live \ {p} : Fits(heap', c)
    BY <1>3, <1>4, <2>2, ReleaseKeeps DEF Granted, Held, AllFit
  <2>6. AllFit(heap', live')
    BY <1>1, <2>4, <2>5 DEF AllFit
  <2> QED  BY <2>1, <2>6, FitIntact
<1>6. CASE ~(t(a)[p.block].size <= t(a)[a].size)
  <2>1. overrun' = size
    BY <1>1, <1>6 DEF CopyAndFree
  <2>2. heap[p.block].size \in Nat
    BY <1>4, InHeap DEF Held
  <2>3. /\ t(a)[a].size \in Nat /\ t(a)[a].size >= Round8(size)
        /\ t(a)[p.block].size = heap[p.block].size
    BY <1>3 DEF Granted
  <2>4. size + 7 >= WORD
    BY <1>6, <2>2, <2>3, Round8Facts, KHeapAssumption
  <2> QED  BY <2>1, <2>4 DEF RequestsFit, Intact, NULL
<1> QED  BY <1>5, <1>6

(***************************************************************************)
(* A step that changes neither the headers nor the pointers.               *)
(***************************************************************************)
LEMMA SameFits ==
    ASSUME RequestsFit, live' = live, heap' = heap, overrun' = overrun
    PROVE  RequestsFit'
BY DEF RequestsFit, Intact

(***************************************************************************)
(* Every call leaves each block at least as long as was asked for, and     *)
(* only a request that wraps overruns.                                     *)
(***************************************************************************)
LEMMA NextFits == HeapInv /\ RequestsFit /\ [Next]_vars => RequestsFit'
<1>1. ASSUME HeapInv, RequestsFit, [Next]_vars PROVE RequestsFit'
  <2>null. ASSUME NEW request, ReturnsNull(request) PROVE RequestsFit'
    BY <1>1, <2>null, SameFits DEF ReturnsNull
  <2>1. CASE kheap_init
    <3>1. live = {} /\ live' = {} /\ overrun' = overrun
      BY <1>1, <2>1 DEF kheap_init, HeapInv
    <3> QED  BY <1>1, <3>1 DEF RequestsFit
  <2>2. ASSUME NEW size \in Sizes, kmalloc(size) PROVE RequestsFit'
    BY <1>1, <2>null, <2>2, MallocFits, KHeapAssumption
  <2>3. ASSUME NEW size \in Sizes, NEW alignment \in Alignments,
               kmalloc_aligned(size, alignment)
        PROVE  RequestsFit'
    BY <1>1, <2>null, <2>3, MallocAlignedFits
  <2>4. ASSUME NEW p \in live, kfree(p) PROVE RequestsFit'
    BY <1>1, <2>4, FreeFits
  <2>5. ASSUME NEW p \in live, NEW size \in Sizes, krealloc(p, size)
        PROVE  RequestsFit'
    <3>1. size \in 0 .. WORD - 1 /\ size \in Nat
      BY KHeapAssumption
    <3>2. CASE ReturnsNull(size)
      BY <2>null, <3>2
    <3>3. CASE kfree(p)
      BY <2>4, <3>3
    <3>4. CASE ~ReturnsNull(size) /\ ~kfree(p)
      <4>1. /\ IsBlockStart(p) /\ Intact
            /\ \/ heap[p.block].size >= size /\ Keep(p, size)
               \/ heap[p.block].size < size /\ Move(p, size)
        BY <2>5, <3>4 DEF krealloc
      <4> QED  BY <1>1, <3>1, <4>1, KeepFits, MoveFits
    <3> QED  BY <3>2, <3>3, <3>4
  <2>6. CASE UNCHANGED vars
    BY <1>1, <2>6, SameFits DEF vars
  <2> QED  BY <1>1, <2>1, <2>2, <2>3, <2>4, <2>5, <2>6 DEF Next
<1> QED  BY <1>1

(***************************************************************************)
(* The bytes a caller asked for lie inside its block, unless rounding or   *)
(* aligning the request wraps around 32 bits, and krealloc copies past the *)
(* end of a block only for a request that wraps.                           *)
(***************************************************************************)
THEOREM BlocksHoldRequests == Spec => []RequestsFit
<1>1. Init => RequestsFit
  BY DEF Init, RequestsFit, Intact
<1> QED  BY <1>1, InitHeapInv, NextHeapInv, NextFits, PTL DEF Spec

=============================================================================
