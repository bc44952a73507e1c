-------------------------- MODULE SchedulerProofs --------------------------
(***************************************************************************)
(* Proofs about Scheduler, for any number of processes, any process table  *)
(* and any quantum: first what the operations of scheduler.c on the linked *)
(* list of ready processes do to the sequence the links represent, then    *)
(* one lemma per group of actions.                                         *)
(***************************************************************************)
EXTENDS Scheduler, SequenceTheorems, TLAPS

Links == [head : Proc \cup {NULL}, tail : Proc \cup {NULL},
          next : [Proc -> Proc \cup {NULL}]]

(***************************************************************************)
(* Linked, for the first n values of a function.                           *)
(***************************************************************************)
Chain(r, q, n) ==
    /\ \A i \in 1 .. n : q[i] \in Proc
    /\ n = 0 => r.head = NULL /\ r.tail = NULL
    /\ n > 0 => r.head = q[1] /\ r.tail = q[n] /\ r.next[q[n]] = NULL
    /\ \A i \in 1 .. n - 1 : r.next[q[i]] = q[i + 1]
    /\ \A i, j \in 1 .. n : q[i] = q[j] => i = j

-----------------------------------------------------------------------------
(***************************************************************************)
(* No process structure is the NULL pointer.                               *)
(***************************************************************************)
LEMMA NullIsNoProcess == NULL \notin Proc
BY SchedulerAssumption DEF Threads

(***************************************************************************)
(* The two ways to say that the pointers of r form the list q.             *)
(***************************************************************************)
LEMMA LinkedIsChain ==
    ASSUME NEW r, NEW q \in Seq(Proc)
    PROVE  Linked(r, q) <=> Chain(r, q, Len(q))
<1>1. Len(q) \in Nat /\ (q = <<>> <=> Len(q) = 0)
  BY EmptySeq
<1>2. \A i \in 1 .. Len(q) : q[i] \in Proc
  OBVIOUS
<1>3. ASSUME Linked(r, q) PROVE Chain(r, q, Len(q))
  BY <1>1, <1>2, <1>3 DEF Linked, Chain
<1>4. ASSUME Chain(r, q, Len(q)) PROVE Linked(r, q)
  BY <1>1, <1>4 DEF Linked, Chain
<1> QED
  BY <1>3, <1>4

(***************************************************************************)
(* scheduler_add on a process that is not in the list appends it.          *)
(***************************************************************************)
LEMMA AddChain ==
    ASSUME NEW r \in Links, NEW n \in Nat, NEW q, Chain(r, q, n),
           NEW p \in Proc, \A i \in 1 .. n : q[i] # p,
           NEW q2, q2[n + 1] = p, \A i \in 1 .. n : q2[i] = q[i]
    PROVE  /\ scheduler_add(r, p) \in Links
           /\ Chain(scheduler_add(r, p), q2, n + 1)
<1> DEFINE f  == [r.next EXCEPT ![p] = NULL]
           r2 == scheduler_add(r, p)
<1>1. f \in [Proc -> Proc \cup {NULL}] /\ f[p] = NULL
      /\ \A x \in Proc \ {p} : f[x] = r.next[x]
  BY DEF Links
<1>2. \A i, j \in 1 .. n + 1 : q2[i] = q2[j] => i = j
  BY DEF Chain
<1>3. \A i \in 1 .. n + 1 : q2[i] \in Proc
  BY DEF Chain
<1>4. CASE n = 0
  <2>1. r2 = [head |-> p, tail |-> p, next |-> f]
    BY <1>4 DEF scheduler_add, Chain
  <2> HIDE DEF f, r2
  <2>2. r2 \in Links
    BY <1>1, <2>1 DEF Links
  <2>3. Chain(r2, q2, n + 1)
    BY <1>1, <1>2, <1>3, <1>4, <2>1 DEF Chain
  <2> QED
    BY <2>2, <2>3 DEF r2
<1>5. CASE n > 0
  <2> DEFINE g == [f EXCEPT ![r.tail] = p]
  <2>1. r.head = q[1] /\ r.tail = q[n] /\ q[1] \in Proc /\ q[n] \in Proc
        /\ q[n] # p
    BY <1>5 DEF Chain
  <2>2. r2 = [head |-> r.head, tail |-> p, next |-> g]
    BY <2>1, NullIsNoProcess DEF scheduler_add
  <2>3. g \in [Proc -> Proc \cup {NULL}] /\ g[r.tail] = p
        /\ \A x \in Proc \ {r.tail} : g[x] = f[x]
    BY <1>1, <2>1
  <2> HIDE DEF f, g, r2
  <2>4. \A i \in 1 .. n - 1 : q[i] \in Proc \ {p, r.tail}
    BY <2>1 DEF Chain
  <2>5. g[p] = NULL /\ \A i \in 1 .. n - 1 : g[q[i]] = q[i + 1]
    BY <1>1, <2>1, <2>3, <2>4 DEF Chain
  <2>6. \A i \in 1 .. n : g[q2[i]] = q2[i + 1]
    <3>1. TAKE i \in 1 .. n
    <3>2. CASE i = n
      BY <2>1, <2>3, <3>2
    <3>3. CASE i \in 1 .. n - 1
      BY <2>5, <3>3
    <3> QED
      BY <3>2, <3>3
  <2>7. r2 \in Links
    BY <2>1, <2>2, <2>3 DEF Links
  <2>8. r2.head = q2[1] /\ r2.tail = q2[n + 1] /\ r2.next = g
    BY <1>5, <2>1, <2>2
  <2>9. Chain(r2, q2, n + 1)
    BY <1>2, <1>3, <1>5, <2>5, <2>6, <2>8 DEF Chain
  <2> QED
    BY <2>7, <2>9 DEF r2
<1> QED
  BY <1>4, <1>5

(***************************************************************************)
(* Taking the head leaves the rest of the list.                            *)
(***************************************************************************)
LEMMA HeadChain ==
    ASSUME NEW r \in Links, NEW n \in Nat, NEW q, Chain(r, q, n), n > 0,
           NEW q2, \A i \in 1 .. n - 1 : q2[i] = q[i + 1]
    PROVE  TakeHead(r) \in Links /\ Chain(TakeHead(r), q2, n - 1)
<1> DEFINE r2 == TakeHead(r)
<1>1. r.head = q[1] /\ r.tail = q[n] /\ q[1] \in Proc /\ q[n] \in Proc
      /\ r.next[q[n]] = NULL
  BY DEF Chain
<1>2. r.next[q[1]] = IF n = 1 THEN NULL ELSE q[2]
  BY <1>1 DEF Chain
<1>3. r2.head = r.next[q[1]] /\ r2.next = r.next
      /\ r2.tail = IF r.next[q[1]] = NULL THEN NULL ELSE r.tail
  BY <1>1 DEF TakeHead
<1>4. r2 \in Links
  BY <1>1 DEF TakeHead, Links
<1> HIDE DEF r2
<1>5. \A i \in 1 .. n - 1 : q2[i] \in Proc
  BY DEF Chain
<1>6. \A i, j \in 1 .. n - 1 : q2[i] = q2[j] => i = j
  BY DEF Chain
<1>7. \A i \in 1 .. n - 2 : r2.next[q2[i]] = q2[i + 1]
  <2>1. TAKE i \in 1 .. n - 2
  <2>2. r.next[q[i + 1]] = q[i + 2]
    BY DEF Chain
  <2> QED
    BY <1>3, <2>2
<1>8. ASSUME n = 1 PROVE Chain(r2, q2, n - 1)
  BY <1>2, <1>3, <1>5, <1>6, <1>7, <1>8 DEF Chain
<1>9. ASSUME n > 1 PROVE Chain(r2, q2, n - 1)
  <2>1. q[2] # NULL
    BY <1>9, NullIsNoProcess DEF Chain
  <2>2. r2.head = q2[1] /\ r2.tail = q2[n - 1] /\ r2.next[q2[n - 1]] = NULL
    BY <1>1, <1>2, <1>3, <1>9, <2>1
  <2> QED
    BY <1>5, <1>6, <1>7, <1>9, <2>2 DEF Chain
<1> QED
  BY <1>4, <1>8, <1>9 DEF r2

(***************************************************************************)
(* scheduler_remove of the k-th process of the list takes it out.          *)
(***************************************************************************)
LEMMA RemoveChain ==
    ASSUME NEW r \in Links, NEW n \in Nat, NEW q, Chain(r, q, n),
           NEW k \in 1 .. n,
           NEW members, members = {q[i] : i \in 1 .. n},
           NEW q2, \A i \in 1 .. n - 1 : q2[i] = IF i < k THEN q[i] ELSE q[i + 1]
    PROVE  /\ scheduler_remove(r, q[k], members) \in Links
           /\ Chain(scheduler_remove(r, q[k], members), q2, n - 1)
<1> DEFINE p  == q[k]
           r2 == scheduler_remove(r, p, members)
<1>1. /\ n > 0 /\ \A i \in 1 .. n : q[i] \in Proc
      /\ r.head = q[1] /\ r.tail = q[n] /\ r.next[q[n]] = NULL
      /\ \A i \in 1 .. n - 1 : r.next[q[i]] = q[i + 1]
  BY DEF Chain
<1>2. \A i, j \in 1 .. n : q[i] = q[j] => i = j
  BY DEF Chain
<1>3. \A i \in 1 .. n - 1 : q2[i] \in Proc /\ q2[i] # p
  BY <1>1, <1>2
<1>4. \A i, j \in 1 .. n - 1 : q2[i] = q2[j] => i = j
  BY <1>2
<1>5. CASE k = 1
  <2> DEFINE t == TakeHead(r)
             f == [r.next EXCEPT ![p] = NULL]
  <2>1. t \in Links /\ Chain(t, q2, n - 1)
    BY <1>1, <1>5, HeadChain
  <2>2. r2 = [t EXCEPT !.next = f]
    BY <1>1, <1>5 DEF scheduler_remove
  <2>3. f \in [Proc -> Proc \cup {NULL}]
        /\ \A x \in Proc \ {p} : f[x] = t.next[x]
    BY <1>1 DEF Links, TakeHead
  <2> HIDE DEF f, t, p, r2
  <2>4. r2 \in Links /\ r2.head = t.head /\ r2.tail = t.tail /\ r2.next = f
    BY <2>1, <2>2, <2>3 DEF Links
  <2>5. Chain(r2, q2, n - 1)
    BY SMTT(60), <1>3, <1>4, <2>1, <2>3, <2>4 DEF Chain
  <2> QED
    BY <2>4, <2>5 DEF p, r2
<1>6. CASE k > 1
  <2>1. k - 1 \in 1 .. n /\ q[k - 1] \in members /\ r.next[q[k - 1]] = p
    BY <1>1, <1>6
  <2>2. ASSUME NEW x \in members, r.next[x] = p PROVE x = q[k - 1]
    <3>1. PICK i \in 1 .. n : x = q[i]
      OBVIOUS
    <3>2. i # n
      BY <1>1, <2>2, <3>1, NullIsNoProcess
    <3>3. q[i + 1] = q[k] /\ i + 1 \in 1 .. n
      BY <1>1, <2>2, <3>1, <3>2
    <3>4. i + 1 = k
      BY <1>2, <3>3
    <3> QED
      BY <3>1, <3>4
  <2>3. (CHOOSE x \in members : r.next[x] = p) = q[k - 1]
    BY <2>1, <2>2
  <2> DEFINE f == [r.next EXCEPT ![q[k - 1]] = r.next[p], ![p] = NULL]
  <2>4. r.head # p
    BY <1>1, <1>2, <1>6
  <2>5. r2 = [head |-> r.head, tail |-> IF r.tail = p THEN q[k - 1] ELSE r.tail,
              next |-> f]
    BY ZenonT(60), <2>1, <2>3, <2>4 DEF scheduler_remove
  <2>6. q[k - 1] # p /\ q[k - 1] \in Proc /\ p \in Proc
    BY <1>1, <1>2, <2>1
  <2>7. /\ f \in [Proc -> Proc \cup {NULL}]
        /\ f[q[k - 1]] = r.next[p]
        /\ \A x \in Proc \ {p, q[k - 1]} : f[x] = r.next[x]
    BY <2>6 DEF Links
  <2> HIDE DEF f
  <2>8. r2 \in Links
    BY <1>1, <2>5, <2>6, <2>7 DEF Links
  <2>9. r2.head = r.head /\ r2.next = f
        /\ r2.tail = IF r.tail = p THEN q[k - 1] ELSE r.tail
    BY <2>5
  <2> HIDE DEF r2
  <2>10. \A i \in 1 .. n - 2 : f[q2[i]] = q2[i + 1]
    <3>1. TAKE i \in 1 .. n - 2
    <3>2. CASE i = k - 1
      <4>1. q2[i] = q[k - 1] /\ q2[i + 1] = q[k + 1] /\ r.next[p] = q[k + 1]
        BY <1>1, <2>1, <3>2
      <4> QED
        BY <2>7, <4>1
    <3>3. CASE i < k - 1
      <4>1. q2[i] = q[i] /\ q2[i + 1] = q[i + 1] /\ r.next[q[i]] = q[i + 1]
        BY <1>1, <3>3
      <4>2. q[i] \in Proc \ {p, q[k - 1]}
        BY <1>1, <1>2, <2>1, <3>3
      <4> QED
        BY <2>7, <4>1, <4>2
    <3>4. CASE i > k - 1
      <4>1. q2[i] = q[i + 1] /\ q2[i + 1] = q[i + 2]
            /\ r.next[q[i + 1]] = q[i + 2]
        BY <1>1, <3>4
      <4>2. q[i + 1] \in Proc \ {p, q[k - 1]}
        BY <1>1, <1>2, <2>1, <3>4
      <4> QED
        BY <2>7, <4>1, <4>2
    <3> QED
      BY <3>2, <3>3, <3>4
  <2>11. n - 1 > 0 /\ r2.head = q2[1]
    BY <1>1, <1>6, <2>9
  <2>12. r2.tail = q2[n - 1] /\ f[q2[n - 1]] = NULL
    <3>1. CASE k = n
      BY <1>1, <2>7, <2>9, <2>11, <3>1
    <3>2. CASE k < n
      <4>1. q[n] # p /\ q2[n - 1] = q[n] /\ q[n] # q[k - 1]
        BY <1>1, <1>2, <2>1, <3>2
      <4> QED
        BY <1>1, <2>7, <2>9, <4>1
    <3> QED
      BY <3>1, <3>2
  <2>13. Chain(r2, q2, n - 1)
    BY <1>3, <1>4, <2>9, <2>10, <2>11, <2>12 DEF Chain
  <2> QED
    BY <2>8, <2>13 DEF r2
<1> QED
  BY <1>5, <1>6

(***************************************************************************)
(* scheduler_remove of a process that is not in the list does nothing.     *)
(***************************************************************************)
LEMMA RemoveAbsent ==
    ASSUME NEW r \in Links, NEW n \in Nat, NEW q, Chain(r, q, n),
           NEW p \in Proc, \A i \in 1 .. n : q[i] # p,
           NEW members, members = {q[i] : i \in 1 .. n}
    PROVE  scheduler_remove(r, p, members) = r
<1>1. r.head # p
  BY NullIsNoProcess DEF Chain
<1>2. ASSUME NEW x \in members PROVE r.next[x] # p
  <2>1. PICK i \in 1 .. n : x = q[i]
    OBVIOUS
  <2> QED
    BY <2>1, NullIsNoProcess DEF Chain
<1> QED
  BY <1>1, <1>2 DEF scheduler_remove

-----------------------------------------------------------------------------
(***************************************************************************)
(* The same facts about the sequence that the pointers represent.          *)
(***************************************************************************)
QGood(r, q) == r \in Links /\ q \in Seq(Proc) /\ Linked(r, q)

(***************************************************************************)
(* The elements of a sequence, by index.                                   *)
(***************************************************************************)
LEMMA RangeByIndex ==
    ASSUME NEW q \in Seq(Proc)
    PROVE  Range(q) = {q[i] : i \in 1 .. Len(q)} /\ Len(q) \in Nat
BY LenProperties DEF Range

(***************************************************************************)
(* scheduler_add appends.                                                  *)
(***************************************************************************)
LEMMA AddGood ==
    ASSUME NEW r, NEW q, QGood(r, q), NEW p \in Proc, p \notin Range(q)
    PROVE  /\ QGood(scheduler_add(r, p), Append(q, p))
           /\ Range(Append(q, p)) = Range(q) \cup {p}
<1> DEFINE q2 == Append(q, p)
           r2 == scheduler_add(r, p)
<1>1. r \in Links /\ q \in Seq(Proc) /\ Linked(r, q)
  BY DEF QGood
<1>2. Len(q) \in Nat /\ Range(q) = {q[i] : i \in 1 .. Len(q)}
  BY <1>1, RangeByIndex
<1>3. q2 \in Seq(Proc) /\ Len(q2) = Len(q) + 1 /\ q2[Len(q) + 1] = p
      /\ \A i \in 1 .. Len(q) : q2[i] = q[i]
  BY <1>1, AppendProperties
<1>4. Range(q2) = {q2[i] : i \in 1 .. Len(q2)}
  BY ZenonT(60), <1>3, RangeByIndex
<1>5. Chain(r, q, Len(q))
  BY <1>1, LinkedIsChain
<1> HIDE DEF q2
<1>6. r2 \in Links /\ Chain(r2, q2, Len(q) + 1)
  BY <1>1, <1>2, <1>3, <1>5, AddChain
<1> HIDE DEF r2
<1>7. Linked(r2, q2)
  BY <1>3, <1>6, LinkedIsChain
<1>8. Range(q2) = Range(q) \cup {p}
  BY <1>2, <1>3, <1>4
<1> QED
  BY <1>3, <1>6, <1>7, <1>8 DEF QGood, q2, r2

(***************************************************************************)
(* Taking the head takes the oldest.                                       *)
(***************************************************************************)
LEMMA HeadGood ==
    ASSUME NEW r, NEW q, QGood(r, q), r.head # NULL
    PROVE  /\ q # <<>> /\ r.head = q[1] /\ r.head \in Proc
           /\ r.head \in Range(q)
           /\ QGood(TakeHead(r), Tail(q))
           /\ Range(Tail(q)) = Range(q) \ {r.head}
<1> DEFINE t  == Tail(q)
           r2 == TakeHead(r)
<1>1. r \in Links /\ q \in Seq(Proc) /\ Linked(r, q)
  BY DEF QGood
<1>2. q # <<>> /\ r.head = q[1]
  BY <1>1 DEF Linked
<1>3. Len(q) \in Nat /\ Range(q) = {q[i] : i \in 1 .. Len(q)} /\ Len(q) > 0
  BY <1>1, <1>2, RangeByIndex, EmptySeq
<1>4. t \in Seq(Proc) /\ Len(t) = Len(q) - 1
      /\ \A i \in 1 .. Len(q) - 1 : t[i] = q[i + 1]
  BY <1>1, <1>2, HeadTailProperties
<1>5. Range(t) = {t[i] : i \in 1 .. Len(t)}
  BY ZenonT(60), <1>4, RangeByIndex
<1>6. Chain(r, q, Len(q))
  BY <1>1, LinkedIsChain
<1> HIDE DEF t
<1>7. r2 \in Links /\ Chain(r2, t, Len(q) - 1)
  BY ZenonT(60), <1>1, <1>3, <1>4, <1>6, HeadChain
<1> HIDE DEF r2
<1>8. Linked(r2, t)
  BY <1>4, <1>7, LinkedIsChain
<1>9. \A i \in 2 .. Len(q) : q[i] # q[1]
  BY <1>3, <1>6 DEF Chain
<1>10. ASSUME NEW x \in Range(t) PROVE x \in Range(q) \ {r.head}
  <2>1. PICK i \in 1 .. Len(t) : x = t[i]
    BY <1>5
  <2> QED
    BY <1>2, <1>3, <1>4, <1>9, <2>1
<1>11. ASSUME NEW x \in Range(q) \ {r.head} PROVE x \in Range(t)
  <2>1. PICK i \in 1 .. Len(q) : x = q[i]
    BY <1>3
  <2>2. i - 1 \in 1 .. Len(t) /\ x = t[i - 1]
    BY <1>2, <1>3, <1>4, <2>1
  <2> QED
    BY <1>5, <2>2
<1>12. r.head \in Proc /\ r.head \in Range(q)
  BY <1>2, <1>3, <1>6 DEF Chain
<1> QED
  BY <1>2, <1>4, <1>7, <1>8, <1>10, <1>11, <1>12 DEF QGood, t, r2

(***************************************************************************)
(* scheduler_remove removes.                                               *)
(***************************************************************************)
LEMMA RemoveGood ==
    ASSUME NEW r, NEW q, QGood(r, q), NEW k \in DOMAIN q
    PROVE  /\ QGood(scheduler_remove(r, q[k], Range(q)), Without(q, k))
           /\ Range(Without(q, k)) \subseteq Range(q)
           /\ Range(q) \ {q[k]} \subseteq Range(Without(q, k))
<1> DEFINE n  == Len(q)
           a  == SubSeq(q, 1, k - 1)
           b  == SubSeq(q, k + 1, Len(q))
           q2 == Without(q, k)
           r2 == scheduler_remove(r, q[k], Range(q))
<1>1. r \in Links /\ q \in Seq(Proc) /\ Linked(r, q)
  BY DEF QGood
<1>2. n \in Nat /\ Range(q) = {q[i] : i \in 1 .. n} /\ k \in 1 .. n
      /\ \A i \in 1 .. n : q[i] \in Proc
  BY <1>1, RangeByIndex, LenProperties
<1>3. a \in Seq(Proc) /\ Len(a) = k - 1 /\ \A i \in 1 .. k - 1 : a[i] = q[i]
  <2>1. k - 1 \in Int /\ \A i \in 1 .. k - 1 : q[i] \in Proc
    BY <1>2
  <2>2. a \in Seq(Proc) /\ Len(a) = (IF 1 <= k - 1 THEN k - 1 - 1 + 1 ELSE 0)
        /\ \A i \in 1 .. k - 1 - 1 + 1 : a[i] = q[1 + i - 1]
    BY SMTT(60), <2>1, SubSeqProperties
  <2> HIDE DEF a
  <2> QED
    BY <1>2, <2>2
<1>4. b \in Seq(Proc) /\ Len(b) = n - k
      /\ \A i \in 1 .. n - k : b[i] = q[k + i]
  <2>1. k + 1 \in Int /\ n \in Int /\ \A i \in k + 1 .. n : q[i] \in Proc
    BY <1>2
  <2>2. b \in Seq(Proc) /\ Len(b) = (IF k + 1 <= n THEN n - (k + 1) + 1 ELSE 0)
        /\ \A i \in 1 .. n - (k + 1) + 1 : b[i] = q[k + 1 + i - 1]
    BY SMTT(60), <2>1, SubSeqProperties
  <2> HIDE DEF b, n
  <2> QED
    BY <1>2, <2>2
<1>5. q2 = a \o b
  BY DEF Without
<1> HIDE DEF a, b, q2
<1>6. q2 \in Seq(Proc) /\ Len(q2) = Len(a) + Len(b)
      /\ \A i \in 1 .. Len(a) + Len(b) :
            q2[i] = IF i <= Len(a) THEN a[i] ELSE b[i - Len(a)]
  BY ZenonT(60), <1>3, <1>4, <1>5, ConcatProperties
<1> HIDE DEF n
<1>7. Len(q2) = n - 1
      /\ \A i \in 1 .. n - 1 : q2[i] = IF i < k THEN q[i] ELSE q[i + 1]
  <2>1. Len(a) + Len(b) = n - 1 /\ Len(q2) = n - 1
    BY <1>2, <1>3, <1>4, <1>6
  <2>2. ASSUME NEW i \in 1 .. n - 1
        PROVE  q2[i] = IF i < k THEN q[i] ELSE q[i + 1]
    <3>1. q2[i] = IF i <= k - 1 THEN a[i] ELSE b[i - (k - 1)]
      BY <1>3, <1>6, <2>1
    <3>2. CASE i < k
      BY SMTT(60), <1>2, <1>3, <3>1, <3>2
    <3>3. CASE i >= k
      <4>1. i - (k - 1) \in 1 .. n - k /\ k + (i - (k - 1)) = i + 1
        BY <1>2, <3>3
      <4>2. b[i - (k - 1)] = q[i + 1]
        BY <1>4, <4>1
      <4> QED
        BY <1>2, <3>1, <3>3, <4>2
    <3> QED
      BY <1>2, <3>2, <3>3
  <2> QED
    BY <2>1, <2>2
<1>8. Chain(r, q, n)
  BY <1>1, LinkedIsChain DEF n
<1>9. r2 \in Links /\ Chain(r2, q2, n - 1)
  BY ZenonT(60), <1>1, <1>2, <1>7, <1>8, RemoveChain
<1> HIDE DEF r2
<1>10. Linked(r2, q2)
  BY SMTT(60), <1>6, <1>7, <1>9, LinkedIsChain
<1>11. Range(q2) = {q2[i] : i \in 1 .. n - 1}
  BY <1>6, <1>7, RangeByIndex
<1>12. Range(q2) \subseteq Range(q)
  BY <1>2, <1>7, <1>11
<1>13. Range(q) \ {q[k]} \subseteq Range(q2)
  <2> SUFFICES ASSUME NEW j \in 1 .. n, j # k
               PROVE  \E i \in 1 .. n - 1 : q2[i] = q[j]
    BY <1>2, <1>11
  <2>1. CASE j < k
    BY <1>2, <1>7, <2>1
  <2>2. CASE j > k
    <3>1. j - 1 \in 1 .. n - 1 /\ ~(j - 1 < k) /\ (j - 1) + 1 = j
      BY <1>2, <2>2
    <3>2. q2[j - 1] = q[j]
      BY <1>7, <3>1
    <3> QED  BY <3>1, <3>2
  <2> QED  BY <1>2, <2>1, <2>2
<1> QED
  BY <1>6, <1>9, <1>10, <1>12, <1>13 DEF QGood, q2, r2

(***************************************************************************)
(* scheduler_remove of an absent process.                                  *)
(***************************************************************************)
LEMMA RemoveAbsentGood ==
    ASSUME NEW r, NEW q, QGood(r, q), NEW p \in Proc, p \notin Range(q)
    PROVE  scheduler_remove(r, p, Range(q)) = r
<1>1. r \in Links /\ q \in Seq(Proc) /\ Chain(r, q, Len(q))
  BY LinkedIsChain DEF QGood
<1>2. Len(q) \in Nat /\ Range(q) = {q[i] : i \in 1 .. Len(q)}
  BY <1>1, RangeByIndex
<1> QED
  BY <1>1, <1>2, RemoveAbsent

-----------------------------------------------------------------------------
(***************************************************************************)
(* What else holds: current_process is not queued while it is marked as    *)
(* running, or it would be queued twice; a process other than the idle one *)
(* always has its entry function as its context.                           *)
(***************************************************************************)
Aux ==
    /\ pid[Idle] = 0
    /\ slice = QUANTUM - ticks_remaining
    /\ state[Idle] = "RUNNING" => Idle \notin Queued
    /\ \A p \in Proc \ {Idle} :
          /\ state[p] # "UNUSED" => context[p] = Entry(p)
          /\ state[p] # "BLOCKED"
          /\ p \in Queued => state[p] # "UNUSED"
    /\ \A i \in Pids : process_table[i] \in Proc \ {Idle}
                       => state[process_table[i]] # "UNUSED"

IInv == TypeOK /\ QueueLinked /\ PidFindsProcess /\ AtomicCalls
        /\ OwnEnvironment /\ Aux

(***************************************************************************)
(* The invariant holds after process_init and scheduler_init.              *)
(***************************************************************************)
LEMMA InitIInv == Init => IInv
<1> SUFFICES ASSUME Init PROVE IInv
  OBVIOUS
<1> USE SchedulerAssumption
<1>1. PICK idle \in {Idle, NULL} :
          /\ process_table = [i \in Pids |-> IF i = 1 THEN idle ELSE NULL]
          /\ current_process = idle
          /\ state = [p \in Proc |-> IF p = idle THEN "RUNNING" ELSE "UNUSED"]
  BY DEF Init
<1>2. queue = <<>> /\ queue \in Seq(Proc) /\ Len(queue) = 0 /\ Queued = {}
  BY DEF Init, Queued, Range
<1>3. TypeOK
  <2>1. process_table \in [Pids -> Proc \cup {NULL}]
    BY <1>1
  <2>2. state \in [Proc -> States]
    BY <1>1 DEF States
  <2>3. context \in [Proc -> Saved]
    BY DEF Init, Zeroed, Saved
  <2>4. intr \in BOOLEAN
    BY Zenon DEF Init
  <2>5. pid \in [Proc -> Pids]
    BY DEF Init, Pids
  <2> QED
    BY <1>1, <1>2, <2>1, <2>2, <2>3, <2>4, <2>5 DEF Init, TypeOK, Threads
<1>4. QueueLinked
  BY <1>2 DEF QueueLinked, Linked, Init
<1>5. PidFindsProcess
  BY <1>1 DEF PidFindsProcess, Threads
<1>6. AtomicCalls /\ OwnEnvironment
  BY DEF Init, AtomicCalls, OwnEnvironment
<1>7. Aux
  <2>1. \A p \in Proc \ {Idle} : state[p] = "UNUSED"
    BY <1>1 DEF Threads
  <2>2. \A i \in Pids : process_table[i] \notin Proc \ {Idle}
    BY <1>1 DEF Threads
  <2>3. pid[Idle] = 0 /\ slice = QUANTUM - ticks_remaining
    BY DEF Init
  <2> QED
    BY <1>2, <2>1, <2>2, <2>3 DEF Aux
<1> QED
  BY <1>3, <1>4, <1>5, <1>6, <1>7 DEF IInv

(***************************************************************************)
(* What a call that reaches Dispatch does to the queue, the states and the *)
(* machine.                                                                *)
(***************************************************************************)
Dispatched ==
    /\ QGood(ready, queue)'
    /\ Range(queue') \subseteq Range(queue) \cup {Idle}
    /\ state' \in [Proc -> States]
    /\ state'[Idle] = "RUNNING" => Idle \notin Range(queue')
    /\ \A p \in Proc \ {Idle} :
          \/ state'[p] = state[p]
          \/ p \in Queued /\ state'[p] = "RUNNING"
    /\ \/ UNCHANGED machine
       \/ /\ cpu' \in Proc \ {Idle} /\ tss_esp0' = cpu'
          /\ current_directory' = cpu'
          /\ context' \in [Proc -> Saved]
          /\ \A p \in Proc \ {Idle} : context'[p] = context[p]
          /\ queue # <<>> /\ cpu' = queue[1] /\ cpu' \notin Range(queue')

(***************************************************************************)
(* Dispatch from states s that differ from state for the idle process      *)
(* only, when there is a current_process and the queue is not empty.       *)
(***************************************************************************)
LEMMA DispatchStep ==
    ASSUME IInv, current_process = Idle, ready.head # NULL,
           NEW s \in [Proc -> States],
           \A p \in Proc \ {Idle} : s[p] = state[p],
           s[Idle] = "RUNNING" => Idle \notin Queued,
           Dispatch(s)
    PROVE  Dispatched
<1> USE SchedulerAssumption
<1> DEFINE next == ready.head
           rest == TakeHead(ready)
<1>1. QGood(ready, queue)
  BY DEF IInv, TypeOK, QueueLinked, QGood, Links
<1>2. /\ queue # <<>> /\ next = queue[1] /\ next \in Proc /\ next \in Queued
      /\ QGood(rest, Tail(queue)) /\ Range(Tail(queue)) = Queued \ {next}
  BY <1>1, HeadGood DEF Queued
<1> HIDE DEF rest
<1>3. /\ ready' = IF s[Idle] = "RUNNING" THEN scheduler_add(rest, Idle) ELSE rest
      /\ queue' = IF s[Idle] = "RUNNING" THEN Append(Tail(queue), Idle)
                                         ELSE Tail(queue)
      /\ state' = [[s EXCEPT ![Idle] = IF s[Idle] = "RUNNING" THEN "READY"
                                                              ELSE s[Idle]]
                      EXCEPT ![next] = "RUNNING"]
      /\ context_switch(Idle, next)
  BY DEF Dispatch, rest
<1>4. /\ QGood(ready', queue') /\ Range(queue') \subseteq Queued \cup {Idle}
      /\ next # Idle => next \notin Range(queue')
      /\ next = Idle => Idle \notin Range(queue')
  <2>1. CASE s[Idle] = "RUNNING"
    <3>1. Idle \notin Range(Tail(queue)) /\ next # Idle
      BY <1>2, <2>1
    <3>2. QGood(ready', queue') /\ Range(queue') = Range(Tail(queue)) \cup {Idle}
      BY SMTT(60), <1>2, <1>3, <2>1, <3>1, AddGood
    <3> QED
      BY <1>2, <3>1, <3>2
  <2>2. CASE s[Idle] # "RUNNING"
    BY <1>2, <1>3, <2>2
  <2> QED
    BY <2>1, <2>2
<1>5. /\ state' \in [Proc -> States]
      /\ state'[Idle] = "RUNNING" => next = Idle
      /\ \A p \in Proc \ {Idle} : \/ state'[p] = state[p]
                                  \/ p = next /\ state'[p] = "RUNNING"
  <2> DEFINE u == [s EXCEPT ![Idle] = IF s[Idle] = "RUNNING" THEN "READY"
                                                            ELSE s[Idle]]
  <2>1. u \in [Proc -> States] /\ u[Idle] # "RUNNING"
        /\ \A p \in Proc \ {Idle} : u[p] = s[p]
    BY DEF States
  <2>2. state' = [u EXCEPT ![next] = "RUNNING"]
    BY SMTT(60), <1>3
  <2> HIDE DEF u
  <2> QED
    BY <1>2, <2>1, <2>2 DEF States
<1>6. CASE next = Idle
  <2>1. UNCHANGED machine
    BY Zenon, <1>3, <1>6 DEF context_switch
  <2> QED  BY <1>2, <1>4, <1>5, <1>6, <2>1 DEF Dispatched, Queued
<1>7. CASE next # Idle
  <2>1. context[next] = Entry(next)
    BY SMTT(60), <1>2, <1>7 DEF IInv, Aux
  <2>2. cpu' = next /\ tss_esp0' = next /\ current_directory' = next
        /\ context' = [context EXCEPT ![Idle] = [eip |-> "resume", esp |-> cpu]]
    BY <1>3, <1>7, <2>1 DEF context_switch, Entry
  <2>3. [eip |-> "resume", esp |-> cpu] \in Saved
    BY DEF IInv, TypeOK, Saved
  <2>4. context' \in [Proc -> Saved]
        /\ \A p \in Proc \ {Idle} : context'[p] = context[p]
    BY <2>2, <2>3 DEF IInv, TypeOK
  <2> QED
    BY ZenonT(60), <1>2, <1>4, <1>5, <1>7, <2>2, <2>4 DEF Dispatched, Queued
<1> QED
  BY <1>6, <1>7

(***************************************************************************)
(* scheduler_yield, whether it dispatches or returns early.                *)
(***************************************************************************)
LEMMA YieldStep ==
    ASSUME IInv, NEW s \in [Proc -> States],
           \A p \in Proc \ {Idle} : s[p] = state[p],
           s[Idle] = "RUNNING" => Idle \notin Queued,
           scheduler_yield(s)
    PROVE  Dispatched /\ (UNCHANGED clock \/ NewSlice)
<1>1. CASE current_process = NULL \/ ready.head = NULL
  <2>1. state' = s /\ UNCHANGED <<ready, queue, machine, clock>>
    BY <1>1 DEF scheduler_yield
  <2>2. QGood(ready, queue)
    BY DEF IInv, TypeOK, QueueLinked, QGood, Links
  <2> QED
    BY <2>1, <2>2 DEF Dispatched, QGood, Queued
<1>2. CASE ~(current_process = NULL \/ ready.head = NULL)
  <2>1. current_process = Idle /\ Dispatch(s) /\ NewSlice
    BY <1>2 DEF scheduler_yield, IInv, TypeOK
  <2>2. Dispatched
    BY <1>2, <2>1, DispatchStep
  <2> QED
    BY <2>1, <2>2
<1> QED
  BY <1>1, <1>2

(***************************************************************************)
(* The action that OldestFirst allows.                                     *)
(***************************************************************************)
Orderly == cpu' # cpu => queue # <<>> /\ cpu' = queue[1]
                         /\ cpu' \notin Range(queue')

(***************************************************************************)
(* A dispatching step preserves the invariant.                             *)
(***************************************************************************)
LEMMA DispatchedKeepsInv ==
    ASSUME IInv, Dispatched, UNCHANGED <<table, current_process>>,
           UNCHANGED clock \/ NewSlice,
           intr' \in BOOLEAN, intr' => cpu' = BOOT
    PROVE  IInv' /\ Orderly
<1> USE SchedulerAssumption
<1>1. UNCHANGED <<process_table, next_pid, pid, current_process>>
  BY DEF table
<1>2. ticks_remaining' \in 0 .. QUANTUM /\ slice' \in 0 .. QUANTUM
      /\ slice' = QUANTUM - ticks_remaining'
  BY DEF IInv, TypeOK, Aux, clock, NewSlice
<1>3. QGood(ready', queue') /\ state' \in [Proc -> States]
      /\ Range(queue') \subseteq Queued \cup {Idle}
  BY DEF Dispatched, Queued
<1>4. \/ UNCHANGED <<cpu, context, tss_esp0, current_directory>>
      \/ /\ cpu' \in Proc \ {Idle} /\ tss_esp0' = cpu'
         /\ current_directory' = cpu'
         /\ context' \in [Proc -> Saved]
         /\ \A p \in Proc \ {Idle} : context'[p] = context[p]
         /\ queue # <<>> /\ cpu' = queue[1] /\ cpu' \notin Range(queue')
  BY DEF Dispatched, machine
<1>5. \A p \in Proc \ {Idle} :
          \/ state'[p] = state[p]
          \/ p \in Queued /\ state'[p] = "RUNNING"
  BY DEF Dispatched
<1>6. TypeOK'
  <2>1. cpu' \in Threads /\ context' \in [Proc -> Saved]
        /\ tss_esp0' \in Proc \cup {NULL}
        /\ current_directory' \in Proc \cup {NULL}
    BY <1>4 DEF IInv, TypeOK, Threads
  <2> QED
    BY ZenonT(60), <1>1, <1>2, <1>3, <2>1 DEF IInv, TypeOK, QGood, Links
<1>7. QueueLinked'
  BY SMTT(30), <1>3 DEF QueueLinked, QGood
<1>8. PidFindsProcess'
  BY <1>1, <1>5 DEF IInv, PidFindsProcess
<1>9. AtomicCalls' /\ OwnEnvironment'
  BY <1>4 DEF AtomicCalls, OwnEnvironment, IInv
<1>10. Aux'
  <2>1. ASSUME NEW p \in Proc \ {Idle}
        PROVE  /\ state'[p] # "UNUSED" => context'[p] = Entry(p)
               /\ state'[p] # "BLOCKED"
               /\ p \in Range(queue') => state'[p] # "UNUSED"
    <3>1. context'[p] = context[p]
      BY <1>4
    <3> QED
      BY SMTT(60), <1>3, <1>5, <3>1 DEF IInv, Aux
  <2>2. state'[Idle] = "RUNNING" => Idle \notin Range(queue')
    BY SMTT(30) DEF Dispatched
  <2>3. \A i \in Pids : process_table'[i] \in Proc \ {Idle}
                        => state'[process_table'[i]] # "UNUSED"
    BY <1>1, <1>5 DEF IInv, Aux
  <2> QED
    BY SMTT(60), <1>1, <1>2, <2>1, <2>2, <2>3 DEF Aux, Queued, IInv, Entry
<1>11. Orderly
  BY <1>4 DEF Orderly
<1> QED
  BY <1>6, <1>7, <1>8, <1>9, <1>10, <1>11 DEF IInv

(***************************************************************************)
(* scheduler_yield and the system calls and functions built on it.         *)
(***************************************************************************)
LEMMA YieldingCalls ==
    ASSUME IInv, Yield \/ SysYield \/ SysExit \/ Block
    PROVE  IInv' /\ Orderly
<1> USE SchedulerAssumption
<1>1. cpu \in Proc
  BY DEF Yield, SysYield, SysExit, Block, May
<1>2. intr = FALSE /\ intr' = FALSE
  <2>1. ~intr /\ intr' = intr
    BY <1>1 DEF IInv, AtomicCalls, Yield, SysYield, SysExit, Block
  <2> QED
    BY <2>1 DEF IInv, TypeOK
<1>3. state \in [Proc -> States] /\ pid[Idle] = 0
      /\ (state[Idle] = "RUNNING" => Idle \notin Queued)
      /\ current_process \in {Idle, NULL}
  BY DEF IInv, TypeOK, Aux
<1>4. PICK s \in [Proc -> States] :
          /\ \A p \in Proc \ {Idle} : s[p] = state[p]
          /\ s[Idle] = "RUNNING" => Idle \notin Queued
          /\ scheduler_yield(s)
  <2>1. CASE Yield \/ SysYield
    BY <1>3, <2>1 DEF Yield, SysYield
  <2>2. CASE SysExit
    <3> DEFINE s == [state EXCEPT ![current_process] = "TERMINATED"]
    <3>1. current_process = Idle /\ scheduler_yield(s)
      BY <1>3, <2>2 DEF SysExit
    <3>2. s \in [Proc -> States] /\ s[Idle] = "TERMINATED"
          /\ \A p \in Proc \ {Idle} : s[p] = state[p]
      BY <1>3, <3>1 DEF States
    <3> HIDE DEF s
    <3> QED
      BY <3>1, <3>2
  <2>3. CASE Block
    <3> DEFINE s == [state EXCEPT ![current_process] = "BLOCKED"]
    <3>1. current_process = Idle /\ scheduler_yield(s)
      BY <1>3, <2>3 DEF Block
    <3>2. s \in [Proc -> States] /\ s[Idle] = "BLOCKED"
          /\ \A p \in Proc \ {Idle} : s[p] = state[p]
      BY <1>3, <3>1 DEF States
    <3> HIDE DEF s
    <3> QED
      BY <3>1, <3>2
  <2> QED
    BY <2>1, <2>2, <2>3
<1>5. Dispatched /\ (UNCHANGED clock \/ NewSlice)
  BY <1>4, YieldStep
<1>6. UNCHANGED <<table, current_process>>
  <2>1. CASE SysExit
    <3>1. current_process = Idle
      BY <1>3, <2>1 DEF SysExit
    <3>2. process_table' = process_table
      BY <1>3, <2>1, <3>1 DEF SysExit, TerminatedTable
    <3> QED
      BY <2>1, <3>2 DEF SysExit, table
  <2> QED
    BY <2>1 DEF Yield, SysYield, Block
<1>7. intr' \in BOOLEAN /\ ~intr'
  BY Zenon, <1>2
<1> QED
  BY SMTT(60), <1>5, <1>6, <1>7, DispatchedKeepsInv

(***************************************************************************)
(* The timer interrupt and sti.                                            *)
(***************************************************************************)
LEMMA Interrupts ==
    ASSUME IInv, Sti \/ TickDown \/ TickExpires
    PROVE  IInv' /\ Orderly
<1> USE SchedulerAssumption
<1>1. CASE Sti
  <2>1. cpu = BOOT /\ intr' = TRUE
        /\ UNCHANGED <<table, current_process, state, ready, queue, machine, clock>>
    BY <1>1 DEF Sti, Booting
  <2>2. intr' \in BOOLEAN
    BY Zenon, <2>1
  <2> QED
    BY <2>1, <2>2 DEF IInv, TypeOK, QueueLinked, PidFindsProcess, AtomicCalls,
       OwnEnvironment, Aux, Orderly, table, machine, clock, Queued
<1>2. CASE TickDown
  <2>1. ticks_remaining' \in 0 .. QUANTUM /\ slice' \in 0 .. QUANTUM
        /\ slice' = QUANTUM - ticks_remaining'
    BY <1>2 DEF TickDown, IInv, TypeOK, Aux
  <2>2. UNCHANGED <<table, current_process, state, ready, queue, machine, intr>>
    BY <1>2 DEF TickDown
  <2> QED
    <3>1. (TypeOK /\ QueueLinked /\ PidFindsProcess)'
      BY Zenon, <2>1, <2>2 DEF IInv, TypeOK, QueueLinked, PidFindsProcess, table, machine
    <3>2. (AtomicCalls /\ OwnEnvironment)' /\ Orderly
      BY <2>1, <2>2 DEF IInv, AtomicCalls, OwnEnvironment, Orderly, machine
    <3>3. Aux'
      BY Zenon, <2>1, <2>2 DEF IInv, Aux, table, machine, Queued
    <3> QED  BY Zenon, <3>1, <3>2, <3>3 DEF IInv
<1>3. CASE TickExpires
  <2>1. NewSlice /\ UNCHANGED <<table, current_process>> /\ intr
    BY <1>3 DEF TickExpires
  <2>2. cpu = BOOT /\ current_process \in {Idle, NULL}
        /\ state \in [Proc -> States] /\ QGood(ready, queue)
        /\ (state[Idle] = "RUNNING" => Idle \notin Queued)
    BY <2>1 DEF IInv, TypeOK, AtomicCalls, Aux, QGood, QueueLinked, Links
  <2>3. CASE current_process = NULL \/ ready.head \in {NULL, current_process}
    <3>1. UNCHANGED <<state, ready, queue, machine, intr>>
      BY ZenonT(60), <1>3, <2>3 DEF TickExpires
    <3>2. Dispatched
      BY SMTT(60), <2>2, <3>1 DEF Dispatched, QGood, Queued
    <3>3. intr' \in BOOLEAN /\ (intr' => cpu' = BOOT)
      BY <2>2, <3>1 DEF IInv, TypeOK, machine
    <3> QED
      BY SMTT(60), <2>1, <3>2, <3>3, DispatchedKeepsInv
  <2>4. CASE ~(current_process = NULL \/ ready.head \in {NULL, current_process})
    <3>1. Dispatch(state) /\ intr' = FALSE
      BY <1>3, <2>4 DEF TickExpires
    <3>2. current_process = Idle /\ ready.head # NULL
      BY <2>2, <2>4
    <3>3. Dispatched
      BY <2>2, <3>1, <3>2, DispatchStep
    <3>4. intr' \in BOOLEAN /\ ~intr'
      BY Zenon, <3>1
    <3> QED
      BY SMTT(60), <2>1, <3>3, <3>4, DispatchedKeepsInv
  <2> QED
    BY SMTT(60), <2>3, <2>4
<1> QED
  BY SMTT(60), <1>1, <1>2, <1>3

(***************************************************************************)
(* scheduler_add, scheduler_unblock and scheduler_remove.                  *)
(***************************************************************************)
LEMMA QueueCalls ==
    ASSUME IInv, NEW p \in Proc, Add(p) \/ Unblock(p) \/ RemoveProc(p)
    PROVE  IInv' /\ Orderly
<1> USE SchedulerAssumption
<1>1. UNCHANGED <<table, current_process, machine, clock, intr>>
  BY SMTT(60) DEF Add, Unblock, RemoveProc
<1>2. UNCHANGED <<process_table, next_pid, pid, current_process, cpu, context,
                  tss_esp0, current_directory, ticks_remaining, slice, intr>>
  BY <1>1 DEF table, machine, clock
<1>3. QGood(ready, queue)
  BY DEF IInv, TypeOK, QueueLinked, QGood, Links
<1>4. /\ QGood(ready', queue')
      /\ Range(queue') \subseteq Queued \cup {p}
      /\ state' \in [Proc -> States]
      /\ \A x \in Proc \ {Idle} : state'[x] = state[x]
      /\ state'[Idle] = "RUNNING" => Idle \notin Range(queue')
      /\ p \in Range(queue') \ {Idle} => state[p] # "UNUSED"
  <2>1. CASE Add(p)
    <3>1. state[p] = "READY" /\ state' = state /\ p \notin Queued
          /\ ready' = scheduler_add(ready, p) /\ queue' = Append(queue, p)
      BY <2>1 DEF Add
    <3>2. QGood(ready', queue') /\ Range(queue') = Queued \cup {p}
      BY <1>3, <3>1, AddGood DEF Queued
    <3> QED
      BY <3>1, <3>2 DEF IInv, TypeOK, Aux
  <2>2. CASE Unblock(p)
    <3>1. state[p] = "BLOCKED" /\ p \notin Queued
          /\ state' = [state EXCEPT ![p] = "READY"]
          /\ ready' = scheduler_add(ready, p) /\ queue' = Append(queue, p)
      BY <2>2 DEF Unblock
    <3>2. QGood(ready', queue') /\ Range(queue') = Queued \cup {p}
      BY <1>3, <3>1, AddGood DEF Queued
    <3>3. p = Idle
      BY <3>1 DEF IInv, Aux
    <3>4. state' \in [Proc -> States] /\ state'[Idle] = "READY"
          /\ \A x \in Proc \ {Idle} : state'[x] = state[x]
      BY <3>1, <3>3 DEF IInv, TypeOK, States
    <3> QED
      BY <3>2, <3>3, <3>4
  <2>3. CASE RemoveProc(p)
    <3>1. state' = state /\ ready' = scheduler_remove(ready, p, Range(queue))
      BY <2>3 DEF RemoveProc, Queued
    <3>2. QGood(ready', queue') /\ Range(queue') \subseteq Queued
      <4>1. CASE p \notin Queued /\ queue' = queue
        BY SMTT(60), <1>3, <3>1, <4>1, RemoveAbsentGood DEF Queued
      <4>2. CASE \E k \in DOMAIN queue : queue[k] = p /\ queue' = Without(queue, k)
        <5>1. PICK k \in DOMAIN queue : queue[k] = p /\ queue' = Without(queue, k)
          BY SMTT(30), <4>2
        <5> QED
          BY SMTT(60), <1>3, <3>1, <5>1, RemoveGood DEF Queued
      <4> QED
        BY <2>3, <4>1, <4>2 DEF RemoveProc
    <3> QED
      BY <3>1, <3>2 DEF IInv, TypeOK, Aux
  <2> QED
    BY SMTT(30), <2>1, <2>2, <2>3
<1>5. TypeOK'
  BY <1>2, <1>4 DEF IInv, TypeOK, QGood, Links
<1>6. QueueLinked'
  BY <1>4 DEF QueueLinked, QGood
<1>7. PidFindsProcess'
  BY ZenonT(60), <1>2, <1>4 DEF IInv, PidFindsProcess
<1>8. AtomicCalls' /\ OwnEnvironment' /\ Orderly
  BY <1>2 DEF IInv, AtomicCalls, OwnEnvironment, Orderly
<1>9. Aux'
  <2>1. \A x \in Proc \ {Idle} : x \in Range(queue') => state'[x] # "UNUSED"
    BY ZenonT(60), <1>4 DEF IInv, Aux
  <2>2. \A i \in Pids : process_table'[i] \in Proc \ {Idle}
                        => state'[process_table'[i]] # "UNUSED"
    BY ZenonT(60), <1>2, <1>4 DEF IInv, Aux
  <2> QED
    BY ZenonT(60), <1>2, <1>4, <2>1, <2>2 DEF IInv, Aux, Queued, Entry
<1> QED
  BY SMTT(60), <1>5, <1>6, <1>7, <1>8, <1>9 DEF IInv

(***************************************************************************)
(* process_create, its failures, and process_terminate.                    *)
(***************************************************************************)
LEMMA ProcessCalls ==
    ASSUME IInv, NEW p \in Proc, Create(p) \/ CreateFails \/ Terminate(p)
    PROVE  IInv' /\ Orderly
<1> USE SchedulerAssumption
<1>1. CASE CreateFails
  <2>1. PICK n \in Pids : IsNextPid(n) /\ next_pid' = n + 1
    BY <1>1 DEF CreateFails
  <2>2. next_pid' \in 1 .. MAX_PROCESSES
    BY <2>1 DEF Pids
  <2>3. UNCHANGED <<process_table, pid, current_process, state, ready, queue,
                    machine, clock, intr>>
    BY <1>1 DEF CreateFails
  <2> QED
    BY <2>2, <2>3 DEF IInv, TypeOK, QueueLinked, PidFindsProcess, AtomicCalls,
       OwnEnvironment, Aux, Orderly, machine, clock, Queued
<1>2. CASE Create(p)
  <2>1. PICK n \in Pids :
            /\ IsNextPid(n) /\ next_pid' = n + 1
            /\ pid' = [pid EXCEPT ![p] = n]
            /\ process_table' = [process_table EXCEPT ![n] = p]
    BY ZenonT(60), <1>2 DEF Create
  <2>2. /\ p # Idle /\ state[p] = "UNUSED"
        /\ state' = [state EXCEPT ![p] = "READY"]
        /\ context' = [context EXCEPT ![p] = Entry(p)]
        /\ ready' = [ready EXCEPT !.next[p] = NULL]
        /\ UNCHANGED <<current_process, queue, cpu, tss_esp0,
                       current_directory, ticks_remaining, slice, intr>>
    BY <1>2 DEF Create, clock
  <2>3. process_table[n] = NULL /\ next_pid' \in 1 .. MAX_PROCESSES
    BY <2>1 DEF IsNextPid, Pids
  <2>4. p \notin Queued /\ \A i \in Pids : process_table[i] # p
    BY <2>2 DEF IInv, Aux
  <2>5. /\ pid' \in [Proc -> Pids] /\ pid'[p] = n
        /\ \A x \in Proc \ {p} : pid'[x] = pid[x]
    BY <2>1 DEF IInv, TypeOK
  <2>6. /\ process_table' \in [Pids -> Proc \cup {NULL}] /\ process_table'[n] = p
        /\ \A i \in Pids \ {n} : process_table'[i] = process_table[i]
    BY <2>1 DEF IInv, TypeOK
  <2>7. /\ state' \in [Proc -> States] /\ state'[p] = "READY"
        /\ \A x \in Proc \ {p} : state'[x] = state[x]
    BY <2>2 DEF IInv, TypeOK, States
  <2>8. /\ context' \in [Proc -> Saved] /\ context'[p] = Entry(p)
        /\ \A x \in Proc \ {p} : context'[x] = context[x]
    <3>1. Entry(p) \in Saved
      BY DEF Entry, Saved, Threads
    <3> QED
      BY <2>2, <3>1 DEF IInv, TypeOK
  <2>9. ready' \in Links /\ ready'.head = ready.head /\ ready'.tail = ready.tail
        /\ \A x \in Proc \ {p} : ready'.next[x] = ready.next[x]
    <3> DEFINE f == [ready.next EXCEPT ![p] = NULL]
    <3>1. ready' = [ready EXCEPT !.next = f] /\ ready \in Links
      BY <2>2 DEF IInv, TypeOK, Links
    <3>2. f \in [Proc -> Proc \cup {NULL}]
          /\ \A x \in Proc \ {p} : f[x] = ready.next[x]
      BY <3>1 DEF Links
    <3> HIDE DEF f
    <3> QED
      BY <3>1, <3>2 DEF Links
  <2>10. queue' = queue /\ queue \in Seq(Proc)
         /\ \A i \in 1 .. Len(queue) : queue[i] \in Proc \ {p}
    <3>1. queue' = queue /\ queue \in Seq(Proc)
      BY <2>2 DEF IInv, TypeOK
    <3> QED
      BY <2>4, <3>1, RangeByIndex DEF Queued
  <2>11. QueueLinked'
    BY <2>9, <2>10 DEF IInv, QueueLinked, Linked
  <2>12. TypeOK'
    BY SMTT(60), <2>2, <2>3, <2>5, <2>6, <2>7, <2>8, <2>9, <2>10 DEF IInv, TypeOK, Links
  <2>13. PidFindsProcess'
    <3>1. ASSUME NEW i \in Pids
          PROVE  /\ process_table'[i] \in Proc \ {Idle}
                    => pid'[process_table'[i]] = i
                 /\ process_table'[i] = Idle => i = 1
      BY <2>2, <2>4, <2>5, <2>6 DEF IInv, PidFindsProcess
    <3>2. ASSUME NEW x \in Proc \ {Idle}, state'[x] = "READY"
          PROVE  process_table'[pid'[x]] = x
      <4>1. CASE x = p
        BY <2>5, <2>6, <4>1
      <4>2. CASE x # p
        <5>1. process_table[pid[x]] = x /\ pid'[x] = pid[x] /\ pid[x] \in Pids
          BY <2>5, <2>7, <3>2, <4>2 DEF IInv, PidFindsProcess, TypeOK
        <5>2. pid[x] # n
          BY ZenonT(60), <2>3, <5>1, NullIsNoProcess
        <5> QED
          BY SMTT(60), <2>6, <5>1, <5>2
      <4> QED
        BY <4>1, <4>2
    <3> QED
      BY SMTT(60), <3>1, <3>2 DEF PidFindsProcess
  <2>14. AtomicCalls' /\ OwnEnvironment' /\ Orderly
    BY SMTT(60), <2>2 DEF IInv, AtomicCalls, OwnEnvironment, Orderly
  <2>15. Aux'
    <3>1. pid'[Idle] = 0 /\ slice' = QUANTUM - ticks_remaining'
      BY <2>2, <2>5 DEF IInv, Aux
    <3>2. \A x : x \in Range(queue') => x \in Queued /\ x # p
      BY Zenon, <2>2, <2>4 DEF Queued
    <3>3. state'[Idle] = "RUNNING" => Idle \notin Range(queue')
      <4>1. state'[Idle] = state[Idle]
        BY <2>2, <2>7
      <4> QED
        BY Zenon, <3>2, <4>1 DEF IInv, Aux
    <3>4. ASSUME NEW x \in Proc \ {Idle}
          PROVE  /\ state'[x] # "UNUSED" => context'[x] = Entry(x)
                 /\ state'[x] # "BLOCKED"
                 /\ x \in Range(queue') => state'[x] # "UNUSED"
      <4>1. CASE x = p
        BY <2>7, <2>8, <4>1
      <4>2. CASE x # p
        <5>1. state'[x] = state[x] /\ context'[x] = context[x]
          BY Zenon, <2>7, <2>8, <4>2
        <5> QED
          BY Zenon, <3>2, <5>1 DEF IInv, Aux
      <4> QED
        BY Zenon, <4>1, <4>2
    <3>5. ASSUME NEW i \in Pids, process_table'[i] \in Proc \ {Idle}
          PROVE  state'[process_table'[i]] # "UNUSED"
      BY Zenon, <2>6, <2>7, <3>5 DEF IInv, Aux
    <3> QED
      BY Zenon, <3>1, <3>3, <3>4, <3>5 DEF Aux, Queued
  <2> QED
    BY <2>11, <2>12, <2>13, <2>14, <2>15 DEF IInv
<1>3. CASE Terminate(p)
  <2>1. PICK k \in Pids : process_table[k] = p
    BY <1>3 DEF Terminate
  <2>2. /\ state' = [state EXCEPT ![p] = "TERMINATED"]
        /\ process_table' = TerminatedTable(p)
        /\ UNCHANGED <<next_pid, pid, current_process, ready, queue, cpu,
                       context, tss_esp0, current_directory, ticks_remaining,
                       slice, intr>>
    BY <1>3 DEF Terminate, machine, clock
  <2>3. /\ state' \in [Proc -> States] /\ state'[p] = "TERMINATED"
        /\ \A x \in Proc \ {p} : state'[x] = state[x]
    BY SMTT(30), <2>2 DEF IInv, TypeOK, States
  <2>4. /\ process_table' \in [Pids -> Proc \cup {NULL}]
        /\ \A i \in Pids : \/ process_table'[i] = process_table[i]
                           \/ process_table'[i] = NULL /\ process_table[i] = p
    <3>1. CASE p = Idle
      <4>1. pid[p] = 0
        BY <3>1 DEF IInv, Aux
      <4>2. process_table' = process_table
        BY <2>2, <4>1 DEF TerminatedTable
      <4> QED
        BY SMTT(30), <4>2 DEF IInv, TypeOK
    <3>2. CASE p # Idle
      <4>1. pid[p] = k /\ process_table \in [Pids -> Proc \cup {NULL}]
        BY <2>1, <3>2 DEF IInv, PidFindsProcess, TypeOK
      <4>2. process_table' \in {process_table, [process_table EXCEPT ![k] = NULL]}
        BY <2>2, <4>1 DEF TerminatedTable
      <4> QED
        BY <2>1, <4>1, <4>2
    <3> QED
      BY <3>1, <3>2
  <2>5. TypeOK' /\ QueueLinked'
    BY ZenonT(60), <2>2, <2>3, <2>4 DEF IInv, TypeOK, QueueLinked
  <2>6. PidFindsProcess'
    <3>1. ASSUME NEW i \in Pids
          PROVE  /\ process_table'[i] \in Proc \ {Idle}
                    => pid'[process_table'[i]] = i
                 /\ process_table'[i] = Idle => i = 1
      BY SMTT(60), <2>2, <2>4, NullIsNoProcess DEF IInv, PidFindsProcess
    <3>2. ASSUME NEW x \in Proc \ {Idle}, state'[x] = "READY"
          PROVE  process_table'[pid'[x]] = x
      <4>1. x # p /\ state[x] = "READY"
        BY <2>3, <3>2
      <4>2. process_table[pid[x]] = x /\ pid[x] \in Pids /\ pid'[x] = pid[x]
        BY <2>2, <4>1 DEF IInv, PidFindsProcess, TypeOK
      <4> QED
        BY <2>4, <4>1, <4>2
    <3> QED
      BY ZenonT(60), <3>1, <3>2 DEF PidFindsProcess
  <2>7. AtomicCalls' /\ OwnEnvironment' /\ Orderly
    BY <2>2 DEF IInv, AtomicCalls, OwnEnvironment, Orderly
  <2>8. Aux'
    <3>1. ASSUME NEW x \in Proc \ {Idle}
          PROVE  /\ state'[x] # "UNUSED" => context'[x] = Entry(x)
                 /\ state'[x] # "BLOCKED"
                 /\ x \in Range(queue') => state'[x] # "UNUSED"
      <4>1. state[p] # "UNUSED" \/ p = Idle
        BY Zenon, <2>1 DEF IInv, Aux
      <4> QED
        BY ZenonT(60), <2>2, <2>3, <4>1 DEF IInv, Aux, Queued
    <3>2. ASSUME NEW i \in Pids, process_table'[i] \in Proc \ {Idle}
          PROVE  state'[process_table'[i]] # "UNUSED"
      <4>1. process_table'[i] = process_table[i]
        BY Zenon, <2>4, <3>2, NullIsNoProcess
      <4>2. PICK x \in Proc \ {Idle} : x = process_table[i] /\ x = process_table'[i]
        BY Zenon, <3>2, <4>1
      <4>3. state[x] # "UNUSED"
        BY Zenon, <4>2 DEF IInv, Aux
      <4>4. state'[x] # "UNUSED"
        BY <2>3, <4>3
      <4> QED
        BY Zenon, <4>2, <4>4
    <3>3. state'[Idle] = "RUNNING" => Idle \notin Range(queue')
      <4>1. Range(queue') = Queued /\ Idle \in Proc
        BY Zenon, <2>2 DEF Queued
      <4>2. state'[Idle] = "RUNNING" => state[Idle] = "RUNNING"
        BY Zenon, <2>3, <4>1
      <4> QED
        BY Zenon, <4>1, <4>2 DEF IInv, Aux
    <3>4. pid'[Idle] = 0 /\ slice' = QUANTUM - ticks_remaining'
      BY Zenon, <2>2 DEF IInv, Aux
    <3> QED
      BY ZenonT(60), <3>1, <3>2, <3>3, <3>4 DEF Aux, Queued, Entry
  <2> QED
    BY SMTT(60), <2>5, <2>6, <2>7, <2>8 DEF IInv
<1> QED
  BY SMTT(60), <1>1, <1>2, <1>3

-----------------------------------------------------------------------------
(***************************************************************************)
(* Every step preserves the invariant, and switches in order.              *)
(***************************************************************************)
LEMMA NextStep == ASSUME IInv, [Next]_vars PROVE IInv' /\ (Orderly \/ UNCHANGED vars)
<1>1. CASE UNCHANGED vars
  BY <1>1 DEF vars, IInv, TypeOK, QueueLinked, PidFindsProcess, AtomicCalls,
     OwnEnvironment, Aux, table, machine, clock, Queued
<1>2. CASE Next
  <2>1. CASE \E p \in Proc : Create(p) \/ Add(p) \/ RemoveProc(p)
                            \/ Terminate(p) \/ Unblock(p)
    BY <2>1, QueueCalls, ProcessCalls
  <2>2. CASE CreateFails
    <3>1. Idle \in Proc
      BY SchedulerAssumption
    <3> QED
      BY <2>2, <3>1, ProcessCalls
  <2>3. CASE Sti \/ TickDown \/ TickExpires
    BY <2>3, Interrupts
  <2>4. CASE Yield \/ SysYield \/ SysExit \/ Block
    BY <2>4, YieldingCalls
  <2> QED
    BY Zenon, <1>2, <2>1, <2>2, <2>3, <2>4 DEF Next
<1> QED
  BY Zenon, <1>1, <1>2

(***************************************************************************)
(* The inductive invariant holds in every reachable state.                 *)
(***************************************************************************)
LEMMA AlwaysIInv == Spec => []IInv
<1>1. IInv /\ [Next]_vars => IInv'
  BY NextStep
<1> QED
  BY InitIInv, <1>1, PTL DEF Spec

(***************************************************************************)
(* The variables of process.c and scheduler.c keep their types; next_pid   *)
(* stays in range, and no context_switch jumps through a zeroed context.   *)
(***************************************************************************)
THEOREM TypeCorrect == Spec => []TypeOK
<1>1. IInv => TypeOK
  BY DEF IInv
<1> QED
  BY AlwaysIInv, <1>1, PTL

(***************************************************************************)
(* The ready queue is a proper list of exactly the processes added and not *)
(* yet taken out, in order, after any sequence of calls.                   *)
(***************************************************************************)
THEOREM ReadyQueueIntact == Spec => []QueueLinked
<1>1. IInv => QueueLinked
  BY DEF IInv
<1> QED
  BY AlwaysIInv, <1>1, PTL

(***************************************************************************)
(* Pids identify processes, although process_get_next_pid reuses them.     *)
(***************************************************************************)
THEOREM PidsIdentify == Spec => []PidFindsProcess
<1>1. IInv => PidFindsProcess
  BY DEF IInv
<1> QED
  BY AlwaysIInv, <1>1, PTL

(***************************************************************************)
(* No call that a process makes can be interrupted by the timer, and while *)
(* a process executes the TSS names its stack and current_directory its    *)
(* page directory.                                                         *)
(***************************************************************************)
THEOREM CallsAtomic == Spec => [](AtomicCalls /\ OwnEnvironment)
<1>1. IInv => AtomicCalls /\ OwnEnvironment
  BY DEF IInv
<1> QED
  BY AlwaysIInv, <1>1, PTL

(***************************************************************************)
(* Appending keeps the elements of a sequence, as scheduler_add does.      *)
(***************************************************************************)
LEMMA RangeAppend ==
    ASSUME NEW q \in Seq(Proc), NEW p \in Proc
    PROVE  Range(q) \subseteq Range(Append(q, p))
<1> SUFFICES ASSUME NEW i \in DOMAIN q PROVE q[i] \in Range(Append(q, p))
  BY DEF Range
<1>1. i \in DOMAIN Append(q, p) /\ Append(q, p)[i] = q[i]
  OBVIOUS
<1> QED  BY <1>1 DEF Range

(***************************************************************************)
(* Dispatch takes nobody but the process that it switches to from the      *)
(* queue.                                                                  *)
(***************************************************************************)
LEMMA DispatchKeepsOthers ==
    ASSUME IInv, ready.head # NULL, current_process = Idle, NEW s, Dispatch(s)
    PROVE  \A p \in Queued \ {Idle} : p \in Range(queue') \/ cpu' = p
<1>1. QGood(ready, queue)
  BY DEF IInv, TypeOK, QueueLinked, QGood, Links
<1>2. /\ ready.head \in Queued /\ ready.head \in Proc
      /\ Tail(queue) \in Seq(Proc) /\ Range(Tail(queue)) = Queued \ {ready.head}
  BY <1>1, HeadGood DEF Queued, QGood, Links
<1>3. queue' = Append(Tail(queue), Idle) \/ queue' = Tail(queue)
  BY DEF Dispatch
<1>4. Range(Tail(queue)) \subseteq Range(queue')
  BY Zenon, <1>2, <1>3, SchedulerAssumption, RangeAppend
<1>5. CASE ready.head = Idle
  BY <1>2, <1>4, <1>5
<1>6. CASE ready.head # Idle
  <2>1. context[ready.head] = Entry(ready.head)
    BY SMTT(60), <1>2, <1>6 DEF IInv, Aux
  <2>2. cpu' = context[ready.head].esp
    BY Zenon, <1>6 DEF Dispatch, context_switch
  <2>3. cpu' = ready.head
    BY <2>1, <2>2 DEF Entry
  <2> QED  BY <1>2, <1>4, <2>3
<1> QED  BY <1>5, <1>6

(***************************************************************************)
(* No step takes a process from the queue but to run it or to remove it.   *)
(***************************************************************************)
NoneDropped ==
    \A p \in Queued \ {Idle} : p \notin Range(queue') => cpu' = p \/ RemoveProc(p)

(***************************************************************************)
(* Every step is of that kind.                                             *)
(***************************************************************************)
LEMMA NextDropsNone == ASSUME IInv, Next PROVE NoneDropped
<1>0. queue \in Seq(Proc) /\ current_process \in {Idle, NULL}
  BY DEF IInv, TypeOK
<1>1. ASSUME queue' = queue PROVE NoneDropped
  BY <1>1 DEF NoneDropped, Queued
<1>2. ASSUME NEW p \in Proc, queue' = Append(queue, p) PROVE NoneDropped
  <2>1. Queued \subseteq Range(queue')
    BY <1>0, <1>2, RangeAppend DEF Queued
  <2> QED  BY <2>1 DEF NoneDropped
<1>3. ASSUME NEW s, scheduler_yield(s) PROVE NoneDropped
  <2>1. CASE current_process = NULL \/ ready.head = NULL
    BY <1>1, <1>3, <2>1 DEF scheduler_yield
  <2>2. CASE current_process # NULL /\ ready.head # NULL
    BY <1>0, <1>3, <2>2, DispatchKeepsOthers DEF scheduler_yield, NoneDropped
  <2> QED  BY <2>1, <2>2
<1>4. ASSUME NEW p \in Proc, RemoveProc(p) PROVE NoneDropped
  <2>1. CASE queue' = queue
    BY <1>1, <2>1
  <2>2. CASE \E k \in DOMAIN queue : queue[k] = p /\ queue' = Without(queue, k)
    <3>1. QGood(ready, queue)
      BY DEF IInv, TypeOK, QueueLinked, QGood, Links
    <3>2. Queued \ {p} \subseteq Range(queue')
      BY Zenon, <2>2, <3>1, RemoveGood DEF Queued
    <3> QED  BY <1>4, <3>2 DEF NoneDropped
  <2> QED  BY <1>4, <2>1, <2>2 DEF RemoveProc
<1>5. CASE CreateFails \/ Sti \/ TickDown
  BY <1>1, <1>5 DEF CreateFails, Sti, TickDown
<1>6. ASSUME NEW p \in Proc, Create(p) \/ Add(p) \/ Terminate(p) \/ Unblock(p)
      PROVE  NoneDropped
  BY Zenon, <1>1, <1>2, <1>6 DEF Create, Add, Terminate, Unblock
<1>7. CASE TickExpires
  <2>1. CASE current_process = NULL \/ ready.head \in {NULL, current_process}
    BY Zenon, <1>1, <1>7, <2>1 DEF TickExpires
  <2>2. CASE ~(current_process = NULL \/ ready.head \in {NULL, current_process})
    BY <1>0, <1>7, <2>2, DispatchKeepsOthers DEF TickExpires, NoneDropped
  <2> QED  BY <2>1, <2>2
<1>8. CASE Yield \/ SysYield \/ SysExit \/ Block
  BY <1>3, <1>8 DEF Yield, SysYield, SysExit, Block
<1> QED  BY Zenon, <1>4, <1>5, <1>6, <1>7, <1>8 DEF Next

(***************************************************************************)
(* Switches go to the process that has waited longest, and no process      *)
(* leaves the queue but to run or to be removed.                           *)
(***************************************************************************)
THEOREM SwitchesInOrder == Spec => OldestFirst
<1>1. IInv /\ [Next]_vars
      => [ /\ cpu' # cpu => queue # <<>> /\ cpu' = queue[1]
                            /\ cpu' \notin Range(queue')
           /\ \A p \in Queued \ {Idle} :
                 p \notin Range(queue') => cpu' = p \/ RemoveProc(p) ]_vars
  BY NextStep, NextDropsNone DEF Orderly, NoneDropped
<1> QED
  BY AlwaysIInv, <1>1, PTL DEF Spec, OldestFirst
=============================================================================
