---------------------------- MODULE WarehouseProofs ----------------------------
(***************************************************************************)
(* What the warehouse keeps in its bins and what becomes of the units of   *)
(* an order, for all numbers of bins, SKUs, orders, scanners, documents    *)
(* and counts.                                                             *)
(***************************************************************************)
EXTENDS Warehouse, TotalsProofs, SequenceTheorems

-------------------------------------------------------------------------------
(* The invariant.  A scanner works on a task that is there and that nobody  *)
(* else works on, and nothing changes what it has read of it.               *)

ScanOK(x, ks) ==
  /\ x.job = "idle" => x = Free
  /\ x.job # "idle" => x.task \in DOMAIN ks
  /\ x.job \in {"pick", "short"} => IsOpen(ks[x.task]) /\ x.locked = Source(ks[x.task])
  /\ x.job = "pick" => x.qty \in 1..Remaining(ks[x.task])
  /\ x.job = "short" => x.qty = Remaining(ks[x.task])
  /\ x.job = "repick" => /\ ks[x.task].exc = "OPEN" /\ x.qty = Remaining(ks[x.task])
                         /\ \A p \in x.locked : p[2] = ks[x.task].sku

Apart == \A c, d \in Scanner : scan[c].job # "idle" /\ scan[c].task = scan[d].task => c = d

Sane == (\A c \in Scanner : ScanOK(scan[c], tasks)) /\ Apart

(* A task has units left to pick as long as it is not DONE.                 *)
Unfinished == \A i \in DOMAIN tasks : tasks[i].status # "DONE" => Remaining(tasks[i]) > 0

Inv == TypeOK /\ Sane /\ Unfinished /\ AllocationsMatchTasks

-------------------------------------------------------------------------------
(* Sums over tasks.                                                         *)

LEMMA Finite == IsFiniteSet(Place) /\ IsFiniteSet(Order)
PROOF
  <1>1. IsFiniteSet(Bin \X Sku)
    BY WarehouseAssumption, FS_Product
  <1>2. IsFiniteSet(1..NumOrders)
    BY WarehouseAssumption, FS_Interval
  <1> QED
    BY <1>1, <1>2 DEF Place, Order

(* The sequence ks is one of tasks as the table takes them.                 *)
Wellformed(ks) == ks \in Seq(Tasks) /\ \A i \in DOMAIN ks : ks[i].done <= ks[i].quantity

LEMMA TasksWellformed ==
  ASSUME TypeOK
  PROVE  Wellformed(tasks)
  BY DEF TypeOK, TaskRow, Wellformed

LEMMA TaskAt ==
  ASSUME NEW ks, Wellformed(ks), NEW i \in DOMAIN ks
  PROVE  /\ ks[i] \in Tasks
         /\ ks[i].quantity \in Nat /\ ks[i].done \in Nat
         /\ Remaining(ks[i]) \in Nat /\ Left(ks[i]) \in Nat
PROOF
  <1>1. ks[i] \in Tasks
    BY DEF Wellformed
  <1>2. ks[i].quantity \in Nat /\ ks[i].done \in Nat /\ ks[i].done <= ks[i].quantity
    BY <1>1 DEF Tasks, Wellformed
  <1>3. Remaining(ks[i]) \in Nat
    BY <1>2 DEF Remaining
  <1> QED
    BY <1>1, <1>2, <1>3 DEF Left

LEMMA Indices ==
  ASSUME NEW ks, Wellformed(ks)
  PROVE  IsFiniteSet(DOMAIN ks) /\ DOMAIN ks = 1..Len(ks) /\ Len(ks) \in Nat
PROOF
  <1>1. DOMAIN ks = 1..Len(ks) /\ Len(ks) \in Nat
    BY LenProperties DEF Wellformed
  <1> QED
    BY <1>1, FS_Interval

(* What task k still has to take from p.                                    *)
Part(k, p) == IF Source(k) = {p} THEN Left(k) ELSE 0
Parts(ks, p) == [i \in DOMAIN ks |-> Part(ks[i], p)]

LEMMA ToTakeSums ==
  ASSUME NEW ks, NEW p
  PROVE  ToTake(ks, p) = SumOver(Parts(ks, p), DOMAIN ks)
  BY DEF ToTake, Parts, Part

LEMMA PartsCount ==
  ASSUME NEW ks, Wellformed(ks), NEW p
  PROVE  Countable(Parts(ks, p), DOMAIN ks) /\ ToTake(ks, p) \in Nat
PROOF
  <1>1. ASSUME NEW i \in DOMAIN ks PROVE Parts(ks, p)[i] \in Nat
    BY TaskAt DEF Parts, Part
  <1>2. Countable(Parts(ks, p), DOMAIN ks)
    BY <1>1, Indices DEF Countable
  <1> QED
    BY <1>2, SumIsNat, ToTakeSums

(* One task changes.                                                        *)
LEMMA ToTakeChanged ==
  ASSUME NEW ks, NEW ls, Wellformed(ks), Wellformed(ls), DOMAIN ls = DOMAIN ks, NEW i \in DOMAIN ks,
         \A j \in DOMAIN ks \ {i} : ls[j] = ks[j], NEW p
  PROVE  ToTake(ls, p) = ToTake(ks, p) - Part(ks[i], p) + Part(ls[i], p)
PROOF
  <1>1. \A j \in DOMAIN ks \ {i} : Parts(ks, p)[j] = Parts(ls, p)[j]
    BY DEF Parts
  <1>2. Countable(Parts(ks, p), DOMAIN ks) /\ Countable(Parts(ls, p), DOMAIN ks)
    BY PartsCount
  <1>3. SumOver(Parts(ls, p), DOMAIN ks) =
          SumOver(Parts(ks, p), DOMAIN ks) - Parts(ks, p)[i] + Parts(ls, p)[i]
    BY <1>1, <1>2, SumChanged
  <1>4. Parts(ks, p)[i] = Part(ks[i], p) /\ Parts(ls, p)[i] = Part(ls[i], p)
    BY DEF Parts
  <1> QED
    BY <1>3, <1>4, ToTakeSums

(* Tasks are added.                                                         *)
LEMMA Joined ==
  ASSUME NEW ks, NEW ls, Wellformed(ks), Wellformed(ls)
  PROVE  /\ Wellformed(ks \o ls)
         /\ DOMAIN (ks \o ls) = 1..(Len(ks) + Len(ls))
         /\ \A i \in 1..Len(ks) : (ks \o ls)[i] = ks[i]
         /\ \A i \in 1..Len(ls) : (ks \o ls)[Len(ks) + i] = ls[i]
PROOF
  <1>1. /\ ks \o ls \in Seq(Tasks)
        /\ Len(ks \o ls) = Len(ks) + Len(ls)
        /\ \A i \in 1..(Len(ks) + Len(ls)) :
             (ks \o ls)[i] = IF i <= Len(ks) THEN ks[i] ELSE ls[i - Len(ks)]
    BY ConcatProperties DEF Wellformed
  <1>2. DOMAIN (ks \o ls) = 1..(Len(ks) + Len(ls))
    BY <1>1, LenProperties
  <1>3. DOMAIN ks = 1..Len(ks) /\ Len(ks) \in Nat /\ DOMAIN ls = 1..Len(ls) /\ Len(ls) \in Nat
    BY Indices
  <1>4. ASSUME NEW i \in DOMAIN (ks \o ls)
        PROVE  (ks \o ls)[i].done <= (ks \o ls)[i].quantity
    <2>1. CASE i <= Len(ks)
      BY <1>1, <1>2, <1>3, <1>4, <2>1 DEF Wellformed
    <2>2. CASE ~(i <= Len(ks))
      <3>1. i - Len(ks) \in 1..Len(ls)
        BY <1>2, <1>3, <1>4, <2>2
      <3> QED
        BY <1>1, <1>2, <1>3, <1>4, <2>2, <3>1 DEF Wellformed
    <2> QED
      BY <2>1, <2>2
  <1> QED
    BY <1>1, <1>2, <1>3, <1>4 DEF Wellformed

LEMMA ToTakeJoined ==
  ASSUME NEW ks, NEW ls, Wellformed(ks), Wellformed(ls), NEW p
  PROVE  ToTake(ks \o ls, p) = ToTake(ks, p) + ToTake(ls, p)
PROOF
  <1>1. PICK a, b : a = Len(ks) /\ b = Len(ls)
    OBVIOUS
  <1>2. a \in Nat /\ b \in Nat /\ DOMAIN ks = 1..a /\ DOMAIN ls = 1..b
    BY <1>1, Indices
  <1>3. PICK n, m, v, c : n = Parts(ks, p) /\ m = Parts(ls, p) /\ v = Parts(ks \o ls, p) /\ c = a + b
    OBVIOUS
  <1>4. \A i \in 1..a : n[i] \in Nat
    BY <1>2, <1>3, PartsCount DEF Countable
  <1>5. \A i \in 1..b : m[i] \in Nat
    BY <1>2, <1>3, PartsCount DEF Countable
  <1>6. /\ DOMAIN (ks \o ls) = 1..c
        /\ \A i \in 1..a : (ks \o ls)[i] = ks[i]
        /\ \A i \in 1..b : (ks \o ls)[a + i] = ls[i]
    BY <1>1, <1>3, Joined
  <1>7. \A i \in 1..a : v[i] = n[i]
    BY <1>2, <1>3, <1>6 DEF Parts
  <1>8. \A i \in 1..b : v[a + i] = m[i]
    BY <1>2, <1>3, <1>6 DEF Parts
  <1>9. a \in Nat /\ b \in Nat /\ c = a + b
    BY <1>2, <1>3
  <1>10. SumOver(v, 1..c) = SumOver(n, 1..a) + SumOver(m, 1..b)
    BY <1>4, <1>5, <1>7, <1>8, <1>9, SumConcat
  <1> QED
    BY <1>2, <1>3, <1>6, <1>10, ToTakeSums

(* Tasks that were just made are to take what they still have to take.      *)
LEMMA TakingNew ==
  ASSUME NEW ks, Wellformed(ks), \A i \in DOMAIN ks : ks[i].status = "OPEN" /\ ks[i].done = 0, NEW p
  PROVE  Taking(ks, p) = ToTake(ks, p)
PROOF
  <1>1. ASSUME NEW i \in DOMAIN ks PROVE Left(ks[i]) = ks[i].quantity
    BY TaskAt DEF Left, IsOpen, Remaining
  <1>2. [i \in DOMAIN ks |-> IF Source(ks[i]) = {p} THEN ks[i].quantity ELSE 0] = Parts(ks, p)
    BY <1>1 DEF Parts, Part
  <1> QED
    BY <1>2, ToTakeSums DEF Taking

-------------------------------------------------------------------------------
(* What allocate_pick() makes.                                              *)

BinsOK == bin \in [Place -> BinRows]

LEMMA BinAt ==
  ASSUME BinsOK, NEW p \in Place
  PROVE  /\ bin[p] \in BinRecords /\ bin[p] \in BinRows
         /\ bin[p].quantity \in Nat /\ bin[p].allocated \in Nat
         /\ bin[p].allocated <= bin[p].quantity /\ FreeIn(p) \in Nat
PROOF
  <1>1. bin[p] \in BinRecords /\ bin[p] \in BinRows /\ bin[p].allocated <= bin[p].quantity
    BY DEF BinsOK, BinRows
  <1>2. bin[p].quantity \in Nat /\ bin[p].allocated \in Nat
    BY <1>1 DEF BinRecords
  <1> QED
    BY <1>1, <1>2 DEF FreeIn

LEMMA FreeBeforeIsNat ==
  ASSUME BinsOK, NEW p, NEW us \in SUBSET Place
  PROVE  FreeBefore(p, us) \in Nat
PROOF
  <1>1. PICK n, T : n = [q \in Place |-> FreeIn(q)] /\ T = {q \in us : WalkRank[q[1]] < WalkRank[p[1]]}
    OBVIOUS
  <1>2. \A q \in T : n[q] \in Nat
    BY <1>1, BinAt
  <1>3. IsFiniteSet(T)
    BY <1>1, Finite, FS_Subset
  <1>4. SumOver(n, T) \in Nat
    BY <1>2, <1>3, SumIsNat DEF Countable
  <1> QED
    BY <1>1, <1>4 DEF FreeBefore

(* The units asked for, and those free in p, each in its line.              *)
Wanted(before, n) == (before + 1)..(before + n)
OfferedIn(p, us) == (FreeBefore(p, us) + 1)..(FreeBefore(p, us) + FreeIn(p))

LEMMA OfferedCount ==
  ASSUME BinsOK, NEW p \in Place, NEW us \in SUBSET Place
  PROVE  IsFiniteSet(OfferedIn(p, us)) /\ Cardinality(OfferedIn(p, us)) = FreeIn(p)
PROOF
  <1>1. PICK a, b : a = FreeBefore(p, us) /\ b = FreeIn(p)
    OBVIOUS
  <1>2. a \in Nat /\ b \in Nat
    BY <1>1, FreeBeforeIsNat, BinAt
  <1>3. IsFiniteSet((a + 1)..(a + b)) /\ Cardinality((a + 1)..(a + b)) = b
    <2>1. a + 1 \in Int /\ a + b \in Int
      BY <1>2
    <2>2. /\ IsFiniteSet((a + 1)..(a + b))
          /\ Cardinality((a + 1)..(a + b)) = IF a + 1 > a + b THEN 0 ELSE (a + b) - (a + 1) + 1
      BY <2>1, FS_Interval
    <2> QED
      BY <1>2, <2>2
  <1> QED
    BY <1>1, <1>3 DEF OfferedIn

LEMMA ShareCounts ==
  ASSUME BinsOK, NEW p \in Place, NEW us \in SUBSET Place, NEW before, NEW n
  PROVE  /\ Share(p, before, n, us) = Cardinality(Wanted(before, n) \cap OfferedIn(p, us))
         /\ IsFiniteSet(Wanted(before, n) \cap OfferedIn(p, us))
         /\ Share(p, before, n, us) \in Nat /\ Share(p, before, n, us) <= FreeIn(p)
PROOF
  <1>1. Share(p, before, n, us) = Cardinality(Wanted(before, n) \cap OfferedIn(p, us))
    BY DEF Share, Wanted, OfferedIn
  <1>2. Wanted(before, n) \cap OfferedIn(p, us) \in SUBSET OfferedIn(p, us)
    OBVIOUS
  <1> QED
    BY <1>1, <1>2, OfferedCount, FS_Subset, FS_CardinalityType

(* A task made for n units of SKU s of order o, asked for after before      *)
(* others, from the bins us.                                                *)
Made(k, o, s, before, n, us, w) ==
  /\ k \in Tasks /\ k.order = o /\ k.sku = s /\ k.wave = w
  /\ k.quantity > 0 /\ k.done = 0 /\ k.status = "OPEN" /\ k.exc = "NONE"
  /\ k.from # None => /\ <<k.from, s>> \in us
                      /\ k.quantity = Share(<<k.from, s>>, before, n, us)

LEMMA TasksMade ==
  ASSUME BinsOK, NEW o \in Order, NEW s \in Sku, NEW before, NEW n \in Nat, NEW w \in Nat,
         NEW us \in SUBSET Place, \A p \in us : p[2] = s
  PROVE  /\ IsFiniteSet(NewTasks(o, s, before, n, us, w))
         /\ \A k \in NewTasks(o, s, before, n, us, w) : Made(k, o, s, before, n, us, w)
         /\ \A k, l \in NewTasks(o, s, before, n, us, w) : k.from = l.from => k = l
PROOF
  <1> DEFINE task(b, q) == [order |-> o, sku |-> s, from |-> b, wave |-> w, quantity |-> q,
                            done |-> 0, status |-> "OPEN", exc |-> "NONE"]
  <1>1. PICK share : share = [p \in us |-> Share(p, before, n, us)]
    OBVIOUS
  <1>2. PICK rest : rest = n - SumOver(share, us)
    OBVIOUS
  <1>3. PICK T : T = {q \in us : share[q] > 0}
    OBVIOUS
  <1>4. NewTasks(o, s, before, n, us, w) =
          {task(p[1], share[p]) : p \in T} \cup (IF rest > 0 THEN {task(None, rest)} ELSE {})
    BY <1>1, <1>2, <1>3 DEF NewTasks
  <1>5. \A p \in us : share[p] \in Nat
    BY <1>1, ShareCounts
  <1>6. IsFiniteSet(us)
    BY Finite, FS_Subset
  <1>7. rest \in Int
    BY <1>2, <1>5, <1>6, SumIsNat DEF Countable
  <1>8. \A b \in Bin \cup {None} : \A q \in Nat : task(b, q) \in Tasks
    BY DEF Tasks
  <1>9. ASSUME NEW p \in us PROVE p = <<p[1], s>> /\ p[1] \in Bin /\ p[1] # None
    BY WarehouseAssumption DEF Place
  <1> HIDE DEF task
  <1>10. \A b, q : /\ task(b, q).order = o /\ task(b, q).sku = s /\ task(b, q).wave = w
                   /\ task(b, q).quantity = q /\ task(b, q).from = b /\ task(b, q).done = 0
                   /\ task(b, q).status = "OPEN" /\ task(b, q).exc = "NONE"
    BY DEF task
  <1>11. ASSUME NEW p \in T PROVE Made(task(p[1], share[p]), o, s, before, n, us, w)
    <2>1. p \in us /\ share[p] \in Nat /\ share[p] > 0 /\ share[p] = Share(p, before, n, us)
      BY <1>1, <1>3, <1>5
    <2>2. p = <<p[1], s>> /\ p[1] \in Bin /\ p[1] # None
      BY <1>9, <2>1
    <2>3. task(p[1], share[p]) \in Tasks
      BY <1>8, <2>1, <2>2
    <2> QED
      BY <1>10, <2>1, <2>2, <2>3 DEF Made
  <1>12. ASSUME rest > 0 PROVE Made(task(None, rest), o, s, before, n, us, w)
    <2>1. task(None, rest) \in Tasks
      BY <1>7, <1>8, <1>12
    <2> QED
      BY <1>10, <1>12, <2>1 DEF Made
  <1>13. IsFiniteSet({task(p[1], share[p]) : p \in T})
    <2>1. PICK f : f = [p \in T |-> task(p[1], share[p])]
      OBVIOUS
    <2>2. f \in Surjection(T, {task(p[1], share[p]) : p \in T})
      BY <2>1 DEF Surjection
    <2>3. IsFiniteSet(T)
      BY <1>3, <1>6, FS_Subset
    <2> QED
      BY <2>2, <2>3, FS_Surjection
  <1>14. IsFiniteSet(IF rest > 0 THEN {task(None, rest)} ELSE {})
    BY FS_EmptySet, FS_Singleton
  <1>15. ASSUME NEW k \in NewTasks(o, s, before, n, us, w), NEW l \in NewTasks(o, s, before, n, us, w),
                k.from = l.from
         PROVE  k = l
    <2>1. \A e \in NewTasks(o, s, before, n, us, w) :
             \/ \E p \in T : e = task(p[1], share[p])
             \/ rest > 0 /\ e = task(None, rest)
      BY <1>4
    <2>2. \A p \in T : p = <<p[1], s>> /\ p[1] # None
      BY <1>3, <1>9
    <2>3. CASE k.from = None
      <3>1. ASSUME NEW p \in T PROVE k # task(p[1], share[p]) /\ l # task(p[1], share[p])
        <4>1. task(p[1], share[p]).from = p[1] /\ p[1] # None
          BY <1>10, <2>2
        <4>2. k.from # task(p[1], share[p]).from /\ l.from # task(p[1], share[p]).from
          BY <1>15, <2>3, <4>1
        <4> QED
          BY <4>2
      <3>2. k = task(None, rest) /\ l = task(None, rest)
        BY <2>1, <3>1
      <3> QED
        BY <3>2
    <2>4. CASE k.from # None
      <3>1. PICK p \in T : k = task(p[1], share[p])
        BY <1>10, <2>1, <2>4
      <3>2. PICK q \in T : l = task(q[1], share[q])
        BY <1>10, <1>15, <2>1, <2>4
      <3>3. p[1] = q[1]
        BY <1>10, <1>15, <3>1, <3>2
      <3>4. p = q
        BY <2>2, <3>3
      <3> QED
        BY <3>1, <3>2, <3>4
    <2> QED
      BY <2>3, <2>4
  <1>16. IsFiniteSet(NewTasks(o, s, before, n, us, w))
    BY <1>4, <1>13, <1>14, FS_Union
  <1>17. ASSUME NEW k \in NewTasks(o, s, before, n, us, w) PROVE Made(k, o, s, before, n, us, w)
    BY <1>4, <1>11, <1>12
  <1> QED
    BY <1>15, <1>16, <1>17

(* The sequence of a set's elements has each of them once.                  *)
LEMMA InSequence ==
  ASSUME NEW S, IsFiniteSet(S)
  PROVE  /\ SetToSeq(S) \in [1..Cardinality(S) -> S] /\ Cardinality(S) \in Nat
         /\ \A i, j \in 1..Cardinality(S) : SetToSeq(S)[i] = SetToSeq(S)[j] => i = j
PROOF
  <1>1. Cardinality(S) \in Nat /\ Bijection(1..Cardinality(S), S) # {}
    BY FS_CardinalityType DEF ExistsBijection
  <1>2. \E f \in [1..Cardinality(S) -> S] : IsInjective(f)
    BY <1>1 DEF Bijection, Injection
  <1>3. SetToSeq(S) \in [1..Cardinality(S) -> S] /\ IsInjective(SetToSeq(S))
    BY <1>2, Zenon DEF SetToSeq
  <1> QED
    BY <1>1, <1>3 DEF IsInjective

(* Each of the tasks T that takes from p has its own part of what is free   *)
(* there: what its order asks for, W, and what p offers share it.           *)
OwnParts(T, p, us, W) ==
  /\ \A k \in T : Source(k) = {p} => k.quantity = Cardinality(W[k.order] \cap OfferedIn(p, us))
  /\ \A k, l \in T : Source(k) = {p} /\ Source(l) = {p} /\ k.order = l.order => k = l
  /\ \A k, l \in T : Source(k) = {p} /\ Source(l) = {p} /\ k.order # l.order
                       => W[k.order] \cap W[l.order] = {}

LEMMA TakingFits ==
  ASSUME BinsOK, NEW p \in Place, NEW us \in SUBSET Place, NEW T, NEW ks, NEW W,
         Wellformed(ks), \A i \in DOMAIN ks : ks[i] \in T,
         \A i, j \in DOMAIN ks : ks[i] = ks[j] => i = j, OwnParts(T, p, us, W)
  PROVE  Taking(ks, p) <= FreeIn(p)
PROOF
  <1>1. PICK n : n = [i \in DOMAIN ks |-> IF Source(ks[i]) = {p} THEN ks[i].quantity ELSE 0]
    OBVIOUS
  <1>2. PICK A : A = [i \in DOMAIN ks |->
                        IF Source(ks[i]) = {p} THEN W[ks[i].order] \cap OfferedIn(p, us) ELSE {}]
    OBVIOUS
  <1>3. PICK J : J = OfferedIn(p, us)
    OBVIOUS
  <1>4. IsFiniteSet(J) /\ Cardinality(J) = FreeIn(p)
    BY <1>3, OfferedCount
  <1>5. Cardinality({}) = 0
    BY FS_EmptySet
  <1>6. \A i \in DOMAIN ks : n[i] \in Nat
    BY <1>1, TaskAt
  <1>7. Countable(n, DOMAIN ks)
    BY <1>6, Indices DEF Countable
  <1>8. \A i \in DOMAIN ks : A[i] \in SUBSET J /\ Cardinality(A[i]) = n[i]
    BY <1>1, <1>2, <1>3, <1>5 DEF OwnParts
  <1>9. ASSUME NEW i \in DOMAIN ks, NEW j \in DOMAIN ks, i # j
        PROVE  A[i] \cap A[j] = {}
    <2>1. CASE Source(ks[i]) = {p} /\ Source(ks[j]) = {p}
      <3>1. ks[i] # ks[j] /\ ks[i] \in T /\ ks[j] \in T
        BY <1>9
      <3>2. ks[i].order # ks[j].order
        BY <2>1, <3>1 DEF OwnParts
      <3>3. W[ks[i].order] \cap W[ks[j].order] = {}
        BY <2>1, <3>1, <3>2 DEF OwnParts
      <3> QED
        BY <1>2, <2>1, <3>3
    <2>2. CASE ~(Source(ks[i]) = {p} /\ Source(ks[j]) = {p})
      BY <1>2, <2>2
    <2> QED
      BY <2>1, <2>2
  <1>10. SumOver(n, DOMAIN ks) <= Cardinality(J)
    BY <1>4, <1>7, <1>8, <1>9, SumFits
  <1> QED
    BY <1>1, <1>4, <1>10 DEF Taking

(* The demands of the orders of a wave share nothing.                       *)
LEMMA DemandsApart ==
  ASSUME NEW n \in [Order -> Nat], NEW os \in SUBSET Order, NEW o \in os, NEW q \in os, o < q,
         NEW a, a = SumOver(n, {e \in os : e < o}),
         NEW b, b = SumOver(n, {e \in os : e < q})
  PROVE  a \in Nat /\ b \in Nat /\ a + n[o] <= b
PROOF
  <1>1. PICK E, F : E = {e \in os : e < o} /\ F = {e \in os : e < q}
    OBVIOUS
  <1>2. o \in Int /\ q \in Int /\ \A e \in os : e \in Int
    BY WarehouseAssumption DEF Order
  <1>3. E \cup {o} \in SUBSET F /\ o \notin E
    <2>1. \A e \in os : e < o => e < q
      BY <1>2
    <2>2. ~(o < o)
      BY <1>2
    <2> QED
      BY <1>1, <2>1, <2>2
  <1>4. Countable(n, E) /\ Countable(n, F)
    <2>1. IsFiniteSet(E) /\ IsFiniteSet(F)
      BY <1>1, Finite, FS_Subset
    <2> QED
      BY <1>1, <2>1 DEF Countable
  <1>5. SumOver(n, E \cup {o}) = SumOver(n, E) + n[o]
    BY <1>3, <1>4, SumAdded
  <1>6. SumOver(n, E \cup {o}) <= SumOver(n, F)
    BY <1>3, <1>4, SumOfPart
  <1> QED
    BY <1>1, <1>4, <1>5, <1>6, SumIsNat

(* The sequence of a set of new tasks.                                      *)
LEMMA NewSequence ==
  ASSUME NEW T, IsFiniteSet(T), NEW ks, ks = SetToSeq(T),
         \A k \in T : k \in Tasks /\ k.quantity > 0 /\ k.done = 0
  PROVE  /\ Wellformed(ks) /\ \A i \in DOMAIN ks : ks[i] \in T
         /\ \A i, j \in DOMAIN ks : ks[i] = ks[j] => i = j
PROOF
  <1>1. /\ ks \in [1..Cardinality(T) -> T] /\ Cardinality(T) \in Nat
        /\ \A i, j \in 1..Cardinality(T) : ks[i] = ks[j] => i = j
    BY InSequence
  <1>2. DOMAIN ks = 1..Cardinality(T) /\ \A i \in DOMAIN ks : ks[i] \in T
    BY <1>1
  <1>3. ks \in Seq(Tasks)
    BY <1>1
  <1>4. \A k \in T : k.quantity \in Nat /\ k.done = 0
    BY DEF Tasks
  <1> QED
    BY <1>1, <1>2, <1>3, <1>4 DEF Wellformed

(* The bins after tasks were made that fit in them.                         *)
LEMMA AfterAllocating ==
  ASSUME BinsOK, AllocationsMatchTasks, NEW ks, NEW ls, Wellformed(ks), Wellformed(ls),
         \A i \in DOMAIN ls : ls[i].status = "OPEN" /\ ls[i].done = 0,
         \A p \in Place : ToTake(ks, p) = ToTake(tasks, p),
         \A p \in Place : Taking(ls, p) <= FreeIn(p)
  PROVE  /\ Allocating(ls) \in [Place -> BinRows]
         /\ \A p \in Place : /\ Allocating(ls)[p].allocated = ToTake(ks \o ls, p)
                             /\ Allocating(ls)[p].quantity = bin[p].quantity
PROOF
  <1>1. ASSUME NEW p \in Place
        PROVE  /\ Allocating(ls)[p] \in BinRows /\ Allocating(ls)[p].allocated = ToTake(ks \o ls, p)
               /\ Allocating(ls)[p].quantity = bin[p].quantity
    <2>1. PICK t : t = Taking(ls, p)
      OBVIOUS
    <2>2. t = ToTake(ls, p) /\ t \in Nat
      BY <2>1, TakingNew, PartsCount
    <2>3. ToTake(ks \o ls, p) = bin[p].allocated + t
      BY <2>2, ToTakeJoined DEF AllocationsMatchTasks
    <2>4. t <= bin[p].quantity - bin[p].allocated
      BY <2>1 DEF FreeIn
    <2>5. Allocating(ls)[p] = [bin[p] EXCEPT !.allocated = bin[p].allocated + t]
      BY <2>1 DEF Allocating
    <2> QED
      BY <2>2, <2>3, <2>4, <2>5, BinAt DEF BinRows, BinRecords
  <1>2. Allocating(ls) = [p \in Place |-> Allocating(ls)[p]]
    BY DEF Allocating
  <1> QED
    BY <1>1, <1>2

-------------------------------------------------------------------------------
(* The parts of the invariant, each about a table.                          *)

StatusOK   == status \in [Order -> {"NEW", "ALLOCATED", "PICKING", "PACKING", "READY_TO_SHIP", "SHIPPED"}]
BalancesOK == bal \in [Sku -> Balances]
TasksOK    == /\ tasks \in Seq(Tasks) /\ waves \in Seq(WaveStatus)
              /\ \A i \in DOMAIN tasks : TaskRow(tasks[i], waves) /\ ExceptionRow(tasks[i])
PackedOK   == DOMAIN packed = Order /\ \A o \in Order : PackRow(o, packed[o])
DocsOK     == DOMAIN docs = Inbound /\ \A d \in Inbound : DocumentRow(docs[d])
CountsOK   == DOMAIN counts = Count /\ \A n \in Count : CountRow(counts[n])
ScansOK    == scan \in [Scanner -> Scans]

LEMMA PartsOfInv ==
  /\ Inv <=> /\ StatusOK /\ BalancesOK /\ BinsOK /\ TasksOK /\ PackedOK /\ DocsOK /\ CountsOK
             /\ ScansOK /\ Sane /\ Unfinished /\ AllocationsMatchTasks
  /\ Inv' <=> /\ StatusOK' /\ BalancesOK' /\ BinsOK' /\ TasksOK' /\ PackedOK' /\ DocsOK' /\ CountsOK'
              /\ ScansOK' /\ Sane' /\ Unfinished' /\ AllocationsMatchTasks'
  BY DEF Inv, TypeOK, StatusOK, BalancesOK, BinsOK, TasksOK, PackedOK, DocsOK, CountsOK, ScansOK

(* A table that does not change keeps its part.                             *)
LEMMA Kept ==
  ASSUME Inv
  PROVE  /\ status' = status => StatusOK'
         /\ bal' = bal => BalancesOK'
         /\ tasks' = tasks /\ waves' = waves => TasksOK'
         /\ tasks' = tasks => Unfinished'
         /\ tasks' = tasks /\ scan' = scan => Sane'
         /\ scan' = scan => ScansOK'
         /\ packed' = packed => PackedOK'
         /\ docs' = docs => DocsOK'
         /\ counts' = counts => CountsOK'
         /\ bin' = bin => BinsOK'
         /\ bin' = bin /\ tasks' = tasks => AllocationsMatchTasks'
PROOF
  <1>1. /\ StatusOK /\ BalancesOK /\ BinsOK /\ TasksOK /\ PackedOK /\ DocsOK /\ CountsOK
        /\ ScansOK /\ Sane /\ Unfinished /\ AllocationsMatchTasks
    BY PartsOfInv
  <1>2. status' = status => StatusOK'
    BY <1>1 DEF StatusOK
  <1>3. bal' = bal => BalancesOK'
    BY <1>1 DEF BalancesOK
  <1>4. tasks' = tasks /\ waves' = waves => TasksOK'
    BY <1>1 DEF TasksOK
  <1>5. tasks' = tasks => Unfinished'
    BY <1>1 DEF Unfinished
  <1>6. tasks' = tasks /\ scan' = scan => Sane'
    BY <1>1 DEF Sane, Apart
  <1>7. scan' = scan => ScansOK'
    BY <1>1 DEF ScansOK
  <1>8. packed' = packed => PackedOK'
    BY <1>1 DEF PackedOK
  <1>9. docs' = docs => DocsOK'
    BY <1>1 DEF DocsOK
  <1>10. counts' = counts => CountsOK'
    BY <1>1 DEF CountsOK
  <1>11. bin' = bin => BinsOK'
    BY <1>1 DEF BinsOK
  <1>12. bin' = bin /\ tasks' = tasks => AllocationsMatchTasks'
    BY <1>1 DEF AllocationsMatchTasks
  <1> QED
    BY <1>2, <1>3, <1>4, <1>5, <1>6, <1>7, <1>8, <1>9, <1>10, <1>11, <1>12

LEMMA SourceIs ==
  ASSUME NEW k \in Tasks
  PROVE  /\ Source(k) \in SUBSET Place
         /\ \A p : Source(k) = {p} <=> k.from # None /\ p = <<k.from, k.sku>>
         /\ \A p : p \in Source(k) <=> Source(k) = {p}
PROOF
  <1>1. k.from \in Bin \cup {None} /\ k.sku \in Sku
    BY DEF Tasks
  <1> QED
    BY <1>1 DEF Source, Place

(* A scanner that was free starts on a task nobody works on.                *)
LEMMA ScanBegun ==
  ASSUME Inv, NEW c \in Scanner, NEW i \in DOMAIN tasks, TaskFree(i),
         NEW x \in Scans, x.job # "idle", x.task = i, ScanOK(x, tasks), scan' = [scan EXCEPT ![c] = x],
         UNCHANGED <<status, bal, bin, tasks, waves, packed, docs, counts>>
  PROVE  Inv'
PROOF
  <1>1. ScansOK /\ Sane
    BY PartsOfInv
  <1>2. \A d \in Scanner : scan'[d] = IF d = c THEN x ELSE scan[d]
    BY <1>1 DEF ScansOK
  <1>3. ScansOK'
    BY <1>1 DEF ScansOK
  <1>4. \A d \in Scanner : ScanOK(scan'[d], tasks)
    BY <1>1, <1>2 DEF Sane
  <1>5. ASSUME NEW d \in Scanner, NEW e \in Scanner, scan'[d].job # "idle", scan'[d].task = scan'[e].task
        PROVE  d = e
    BY <1>1, <1>2, <1>5 DEF Sane, Apart, TaskFree
  <1>6. Sane'
    BY <1>4, <1>5 DEF Sane, Apart
  <1> QED
    BY <1>3, <1>6, Kept, PartsOfInv

(* It commits or rolls back: the other scanners see their tasks unchanged.  *)
LEMMA ScanEnded ==
  ASSUME Inv, NEW c \in Scanner, scan' = [scan EXCEPT ![c] = Free],
         DOMAIN tasks \in SUBSET DOMAIN tasks',
         \A j \in DOMAIN tasks : scan[c].job = "idle" \/ j # scan[c].task => tasks'[j] = tasks[j]
  PROVE  ScansOK' /\ Sane'
PROOF
  <1>1. ScansOK /\ Sane
    BY PartsOfInv
  <1>2. \A d \in Scanner : scan'[d] = IF d = c THEN Free ELSE scan[d]
    BY <1>1 DEF ScansOK
  <1>3. Free \in Scans /\ Free.job = "idle"
    BY DEF Free, Scans
  <1>4. ScansOK'
    BY <1>1, <1>3 DEF ScansOK
  <1>5. ASSUME NEW d \in Scanner PROVE ScanOK(scan'[d], tasks')
    <2>1. CASE scan'[d].job = "idle"
      <3>1. scan'[d] = Free
        BY <1>1, <1>2, <2>1 DEF Sane, ScanOK
      <3> QED
        BY <1>3, <3>1 DEF ScanOK
    <2>2. CASE scan'[d].job # "idle"
      <3>1. d # c /\ scan'[d] = scan[d] /\ scan[d].job # "idle"
        BY <1>2, <1>3, <2>2
      <3>2. ScanOK(scan[d], tasks) /\ scan[d].task \in DOMAIN tasks
        BY <1>1, <3>1 DEF Sane, ScanOK
      <3>3. tasks'[scan[d].task] = tasks[scan[d].task]
        BY <1>1, <3>1, <3>2 DEF Sane, Apart
      <3> QED
        BY <3>1, <3>2, <3>3 DEF ScanOK
    <2> QED
      BY <2>1, <2>2
  <1>6. ASSUME NEW d \in Scanner, NEW e \in Scanner, scan'[d].job # "idle", scan'[d].task = scan'[e].task
        PROVE  d = e
    <2>1. d # c /\ scan'[d] = scan[d]
      BY <1>2, <1>3, <1>6
    <2>2. CASE e # c
      BY <1>1, <1>2, <1>6, <2>1, <2>2 DEF Sane, Apart
    <2>3. CASE e = c
      <3>1. scan[d].task \in DOMAIN tasks
        BY <1>1, <1>6, <2>1 DEF Sane, ScanOK
      <3>2. scan'[e].task = 0
        BY <1>2, <2>3 DEF Free
      <3>3. 0 \notin DOMAIN tasks
        BY TasksWellformed, Indices DEF Inv
      <3> QED
        BY <1>6, <2>1, <3>1, <3>2, <3>3
    <2> QED
      BY <2>2, <2>3
  <1>7. Sane'
    BY <1>5, <1>6 DEF Sane, Apart
  <1> QED
    BY <1>4, <1>7

-------------------------------------------------------------------------------
(* Picking.                                                                 *)

LEMMA TaskHere ==
  ASSUME Inv, NEW i \in DOMAIN tasks
  PROVE  /\ i \in Nat \ {0} /\ tasks[i] \in Tasks
         /\ tasks[i].quantity \in Nat /\ tasks[i].done \in Nat /\ Remaining(tasks[i]) \in Nat
         /\ tasks[i].quantity > 0 /\ tasks[i].done <= tasks[i].quantity
         /\ tasks[i].wave \in DOMAIN waves /\ (tasks[i].exc # "NONE" <=> tasks[i].status = "SHORT")
         /\ tasks[i].status # "DONE" => Remaining(tasks[i]) > 0
PROOF
  <1>1. TasksOK /\ Unfinished /\ Wellformed(tasks)
    BY PartsOfInv, TasksWellformed DEF Inv
  <1>2. i \in Nat \ {0}
    BY <1>1, Indices
  <1>3. TaskRow(tasks[i], waves) /\ ExceptionRow(tasks[i])
    BY <1>1 DEF TasksOK
  <1> QED
    BY <1>1, <1>2, <1>3, TaskAt DEF TaskRow, ExceptionRow, Unfinished

LEMMA ClosedWaveIs ==
  ASSUME NEW i
  PROVE  ClosedWave(i) \in {None, "OPEN", "DONE"}
  BY DEF ClosedWave

LEMMA PickStep ==
  ASSUME Inv, NEW c \in Scanner, NEW i \in DOMAIN tasks, NEW q, Pick(c, i, q)
  PROVE  Inv'
PROOF
  <1>1. PICK x : x = [job |-> "pick", task |-> i, qty |-> q, locked |-> Source(tasks[i]),
                      wave |-> IF q = Remaining(tasks[i]) THEN ClosedWave(i) ELSE None]
    OBVIOUS
  <1>2. /\ TaskFree(i) /\ IsOpen(tasks[i]) /\ q \in 1..Remaining(tasks[i])
        /\ scan' = [scan EXCEPT ![c] = x]
        /\ UNCHANGED <<status, bal, bin, tasks, waves, packed, docs, counts>>
    BY <1>1 DEF Pick
  <1>3. q \in Nat
    BY <1>2, TaskHere
  <1>4. x \in Scans
    BY <1>1, <1>3, TaskHere, SourceIs, ClosedWaveIs DEF Scans
  <1>5. ScanOK(x, tasks)
    BY <1>1, <1>2 DEF ScanOK
  <1>6. x.job # "idle" /\ x.task = i
    BY <1>1
  <1> QED
    BY <1>2, <1>4, <1>5, <1>6, ScanBegun

LEMMA ShortStep ==
  ASSUME Inv, NEW c \in Scanner, NEW i \in DOMAIN tasks, Short(c, i)
  PROVE  Inv'
PROOF
  <1>1. PICK x : x = [job |-> "short", task |-> i, qty |-> Remaining(tasks[i]),
                      locked |-> Source(tasks[i]), wave |-> ClosedWave(i)]
    OBVIOUS
  <1>2. /\ TaskFree(i) /\ IsOpen(tasks[i]) /\ scan' = [scan EXCEPT ![c] = x]
        /\ UNCHANGED <<status, bal, bin, tasks, waves, packed, docs, counts>>
    BY <1>1 DEF Short
  <1>3. x \in Scans
    BY <1>1, TaskHere, SourceIs, ClosedWaveIs DEF Scans
  <1>4. ScanOK(x, tasks)
    BY <1>1, <1>2 DEF ScanOK
  <1>5. x.job # "idle" /\ x.task = i
    BY <1>1
  <1> QED
    BY <1>2, <1>3, <1>4, <1>5, ScanBegun

LEMMA RepickStep ==
  ASSUME Inv, NEW c \in Scanner, NEW i \in DOMAIN tasks, Repick(c, i)
  PROVE  Inv'
PROOF
  <1>1. PICK k, us : k = tasks[i] /\ us = Usable(k.sku, Excluded(k))
    OBVIOUS
  <1>2. PICK x : x = [job |-> "repick", task |-> i, qty |-> Remaining(k), locked |-> us,
                      wave |-> ReopenedWave(k.wave)]
    OBVIOUS
  <1>3. /\ TaskFree(i) /\ k.exc = "OPEN" /\ scan' = [scan EXCEPT ![c] = x]
        /\ UNCHANGED <<status, bal, bin, tasks, waves, packed, docs, counts>>
    BY <1>1, <1>2 DEF Repick
  <1>4. us \in SUBSET Place /\ \A p \in us : p[2] = k.sku
    BY <1>1 DEF Usable
  <1>5. ReopenedWave(k.wave) \in {None, "OPEN", "DONE"}
    BY DEF ReopenedWave
  <1>6. x \in Scans
    BY <1>1, <1>2, <1>4, <1>5, TaskHere DEF Scans
  <1>7. ScanOK(x, tasks)
    BY <1>1, <1>2, <1>3, <1>4 DEF ScanOK
  <1>8. x.job # "idle" /\ x.task = i
    BY <1>2
  <1> QED
    BY <1>3, <1>6, <1>7, <1>8, ScanBegun

LEMMA RollbackStep ==
  ASSUME Inv, NEW c \in Scanner, Rollback(c)
  PROVE  Inv'
PROOF
  <1>1. /\ scan' = [scan EXCEPT ![c] = Free]
        /\ UNCHANGED <<status, bal, bin, tasks, waves, packed, docs, counts>>
    BY DEF Rollback
  <1>2. ScansOK' /\ Sane'
    BY <1>1, ScanEnded
  <1> QED
    BY <1>1, <1>2, Kept, PartsOfInv

(* What a scanner that is not free has in hand.                             *)
LEMMA InHand ==
  ASSUME Inv, NEW c \in Scanner, scan[c].job # "idle"
  PROVE  /\ scan[c] \in Scans /\ ScanOK(scan[c], tasks) /\ scan[c].task \in DOMAIN tasks
         /\ scan[c].qty \in Nat /\ scan[c].locked \in SUBSET Place
         /\ scan[c].wave \in {None, "OPEN", "DONE"}
PROOF
  <1>1. ScansOK /\ Sane
    BY PartsOfInv
  <1>2. scan[c] \in Scans
    BY <1>1 DEF ScansOK
  <1>3. ScanOK(scan[c], tasks)
    BY <1>1 DEF Sane
  <1> QED
    BY <1>2, <1>3 DEF Scans, ScanOK

(* The wave of the task in hand gets the status that was read.              *)
LEMMA WaveOfScan ==
  ASSUME Inv, NEW c \in Scanner, scan[c].job # "idle", EndScan(c)
  PROVE  waves' \in Seq(WaveStatus) /\ DOMAIN waves' = DOMAIN waves
PROOF
  <1>1. PICK x, w : x = scan[c] /\ w = tasks[x.task].wave
    OBVIOUS
  <1>2. waves' = IF x.wave = None THEN waves ELSE [waves EXCEPT ![w] = x.wave]
    BY <1>1 DEF EndScan
  <1>3. waves \in Seq(WaveStatus)
    BY PartsOfInv DEF TasksOK
  <1>4. w \in DOMAIN waves /\ x.wave \in {None, "OPEN", "DONE"}
    BY <1>1, InHand, TaskHere
  <1>5. CASE x.wave = None
    BY <1>2, <1>3, <1>5
  <1>6. CASE x.wave # None
    <2>1. w \in 1..Len(waves) /\ x.wave \in WaveStatus
      BY <1>3, <1>4, <1>6, LenProperties DEF WaveStatus
    <2>2. [waves EXCEPT ![w] = x.wave] \in Seq(WaveStatus)
      BY <1>3, <2>1, ExceptSeq
    <2> QED
      BY <1>2, <1>6, <2>2
  <1> QED
    BY <1>5, <1>6

(* The rows of the tasks ks, with the waves ws.                             *)
TaskRows(ks, ws) ==
  /\ ks \in Seq(Tasks)
  /\ \A i \in DOMAIN ks : /\ TaskRow(ks[i], ws) /\ ExceptionRow(ks[i])
                          /\ ks[i].status # "DONE" => Remaining(ks[i]) > 0

LEMMA RowsAreOK ==
  ASSUME TaskRows(tasks', waves'), waves' \in Seq(WaveStatus)
  PROVE  TasksOK' /\ Unfinished' /\ Wellformed(tasks')
  BY DEF TaskRows, TasksOK, Unfinished, Wellformed, TaskRow

LEMMA RowsHere ==
  ASSUME Inv
  PROVE  TaskRows(tasks, waves) /\ Wellformed(tasks) /\ waves \in Seq(WaveStatus)
  BY PartsOfInv, TasksWellformed DEF Inv, TaskRows, TasksOK, Unfinished

(* More waves do no harm to a row.                                          *)
LEMMA RowsWithWaves ==
  ASSUME NEW ks, NEW ws, NEW vs, TaskRows(ks, ws), DOMAIN ws \in SUBSET DOMAIN vs
  PROVE  TaskRows(ks, vs)
  BY DEF TaskRows, TaskRow

LEMMA RowsJoined ==
  ASSUME NEW ks, NEW ls, NEW ws, TaskRows(ks, ws), TaskRows(ls, ws)
  PROVE  TaskRows(ks \o ls, ws)
PROOF
  <1>1. Wellformed(ks) /\ Wellformed(ls)
    BY DEF TaskRows, TaskRow, Wellformed
  <1>2. PICK a, b, js : a = Len(ks) /\ b = Len(ls) /\ js = ks \o ls
    OBVIOUS
  <1>3. a \in Nat /\ b \in Nat /\ DOMAIN ks = 1..a /\ DOMAIN ls = 1..b
    BY <1>1, <1>2, Indices
  <1>4. /\ js \in Seq(Tasks) /\ DOMAIN js = 1..(a + b)
        /\ \A i \in 1..a : js[i] = ks[i]
        /\ \A i \in 1..b : js[a + i] = ls[i]
    BY <1>1, <1>2, Joined DEF Wellformed
  <1>5. ASSUME NEW i \in DOMAIN js
        PROVE  /\ TaskRow(js[i], ws) /\ ExceptionRow(js[i])
               /\ js[i].status # "DONE" => Remaining(js[i]) > 0
    <2>1. CASE i \in 1..a
      <3>1. js[i] = ks[i] /\ i \in DOMAIN ks
        BY <1>3, <1>4, <2>1
      <3> QED
        BY <3>1 DEF TaskRows
    <2>2. CASE i \notin 1..a
      <3>1. i - a \in 1..b /\ a + (i - a) = i
        BY <1>3, <1>4, <2>2
      <3>2. PICK j : j = i - a
        OBVIOUS
      <3>3. j \in DOMAIN ls /\ js[i] = ls[j]
        BY <1>3, <1>4, <3>1, <3>2
      <3> QED
        BY <3>3 DEF TaskRows
    <2> QED
      BY <2>1, <2>2
  <1> QED
    BY <1>2, <1>4, <1>5 DEF TaskRows

(* One task is changed, its row is still what the table accepts.            *)
LEMMA RowChanged ==
  ASSUME Inv, NEW i \in DOMAIN tasks, NEW k, k \in Tasks, k.done <= k.quantity, k.quantity > 0,
         k.wave = tasks[i].wave, ExceptionRow(k), k.status # "DONE" => Remaining(k) > 0,
         NEW ks, ks = [tasks EXCEPT ![i] = k]
  PROVE  /\ TaskRows(ks, waves) /\ Wellformed(ks) /\ DOMAIN ks = DOMAIN tasks
         /\ ks[i] = k /\ \A j \in DOMAIN tasks \ {i} : ks[j] = tasks[j]
PROOF
  <1>1. TaskRows(tasks, waves) /\ Wellformed(tasks)
    BY RowsHere
  <1>2. ks \in Seq(Tasks)
    <2>1. i \in 1..Len(tasks)
      BY <1>1, Indices
    <2> QED
      BY <1>1, <2>1, ExceptSeq DEF TaskRows
  <1>3. DOMAIN ks = DOMAIN tasks /\ ks[i] = k /\ \A j \in DOMAIN tasks \ {i} : ks[j] = tasks[j]
    BY <1>1
  <1>4. ASSUME NEW j \in DOMAIN ks
        PROVE  /\ TaskRow(ks[j], waves) /\ ExceptionRow(ks[j])
               /\ ks[j].status # "DONE" => Remaining(ks[j]) > 0
    <2>1. CASE j = i
      BY <1>3, <2>1, TaskHere DEF TaskRow
    <2>2. CASE j # i
      BY <1>1, <1>3, <2>2 DEF TaskRows
    <2> QED
      BY <2>1, <2>2
  <1>5. TaskRows(ks, waves)
    BY <1>2, <1>4 DEF TaskRows
  <1> QED
    BY <1>3, <1>5 DEF TaskRows, TaskRow, Wellformed

LEMMA TaskChanged ==
  ASSUME Inv, NEW i \in DOMAIN tasks, NEW k, k \in Tasks, k.done <= k.quantity, k.quantity > 0,
         k.wave = tasks[i].wave, ExceptionRow(k), k.status # "DONE" => Remaining(k) > 0,
         tasks' = [tasks EXCEPT ![i] = k],
         waves' \in Seq(WaveStatus), DOMAIN waves' = DOMAIN waves
  PROVE  /\ TasksOK' /\ Unfinished' /\ DOMAIN tasks' = DOMAIN tasks
         /\ Wellformed(tasks) /\ Wellformed(tasks')
         /\ tasks'[i] = k /\ \A j \in DOMAIN tasks \ {i} : tasks'[j] = tasks[j]
PROOF
  <1>1. /\ TaskRows(tasks', waves) /\ DOMAIN tasks' = DOMAIN tasks
        /\ tasks'[i] = k /\ \A j \in DOMAIN tasks \ {i} : tasks'[j] = tasks[j]
    BY RowChanged
  <1>2. TaskRows(tasks', waves')
    BY <1>1, RowsWithWaves
  <1> QED
    BY <1>1, <1>2, RowsAreOK, RowsHere

(* The bin of a task has what the task still has to take.                   *)
LEMMA BinOfTask ==
  ASSUME Inv, NEW i \in DOMAIN tasks, NEW p \in Source(tasks[i])
  PROVE  p \in Place /\ Left(tasks[i]) \in Nat /\ Left(tasks[i]) <= bin[p].allocated
PROOF
  <1>1. AllocationsMatchTasks /\ Wellformed(tasks)
    BY PartsOfInv, TasksWellformed DEF Inv
  <1>2. Source(tasks[i]) = {p} /\ p \in Place
    BY TaskHere, SourceIs
  <1>3. PICK n : n = Parts(tasks, p)
    OBVIOUS
  <1>4. n[i] = Left(tasks[i])
    BY <1>2, <1>3 DEF Parts, Part
  <1>5. Countable(n, DOMAIN tasks)
    BY <1>1, <1>3, PartsCount
  <1>6. /\ SumOver(n, DOMAIN tasks) = SumOver(n, DOMAIN tasks \ {i}) + n[i]
        /\ n[i] \in Nat /\ SumOver(n, DOMAIN tasks \ {i}) \in Nat
    BY <1>5, SumSplit
  <1>7. bin[p].allocated = SumOver(n, DOMAIN tasks)
    BY <1>1, <1>2, <1>3, ToTakeSums DEF AllocationsMatchTasks
  <1> QED
    BY <1>2, <1>4, <1>6, <1>7

(* The bin of a task changes by what the task has less to take.             *)
LEMMA BinsFollow ==
  ASSUME Inv, NEW i \in DOMAIN tasks, Wellformed(tasks), Wellformed(tasks'), DOMAIN tasks' = DOMAIN tasks,
         \A j \in DOMAIN tasks \ {i} : tasks'[j] = tasks[j],
         NEW k, tasks'[i] = k, Source(k) = Source(tasks[i]),
         NEW q \in Nat, Left(k) = Left(tasks[i]) - q,
         NEW B, bin' = B, B \in [Place -> BinRecords],
         \A p \in Place : p \notin Source(tasks[i]) => B[p] = bin[p],
         \A p \in Source(tasks[i]) : /\ B[p].allocated = bin[p].allocated - q
                                     /\ B[p].allocated <= B[p].quantity
  PROVE  BinsOK' /\ AllocationsMatchTasks'
PROOF
  <1>1. AllocationsMatchTasks /\ BinsOK
    BY PartsOfInv
  <1>2. PICK ks : ks = tasks'
    OBVIOUS
  <1>3. ASSUME NEW p \in Place
        PROVE  B[p].allocated = ToTake(ks, p) /\ B[p].allocated <= B[p].quantity
    <2>1. ToTake(ks, p) = ToTake(tasks, p) - Part(tasks[i], p) + Part(k, p)
      BY <1>2, ToTakeChanged
    <2>2. bin[p].allocated = ToTake(tasks, p) /\ bin[p].allocated \in Nat
      BY <1>1, BinAt DEF AllocationsMatchTasks
    <2>3. CASE p \in Source(tasks[i])
      <3>1. Source(tasks[i]) = {p}
        BY <2>3, TaskHere, SourceIs
      <3>2. Part(tasks[i], p) = Left(tasks[i]) /\ Part(k, p) = Left(tasks[i]) - q
        BY <3>1 DEF Part
      <3>3. Left(tasks[i]) \in Nat
        BY TaskAt
      <3> QED
        BY <2>1, <2>2, <2>3, <3>2, <3>3
    <2>4. CASE p \notin Source(tasks[i])
      <3>1. Source(tasks[i]) # {p}
        BY <2>4
      <3>2. Part(tasks[i], p) = 0 /\ Part(k, p) = 0
        BY <3>1 DEF Part
      <3>3. B[p] = bin[p]
        BY <2>4
      <3> QED
        BY <1>1, <2>1, <2>2, <3>2, <3>3 DEF AllocationsMatchTasks
    <2> QED
      BY <2>3, <2>4
  <1>4. \A p \in Place : B[p] \in BinRows
    BY <1>3 DEF BinRows
  <1>5. BinsOK'
    BY <1>4 DEF BinsOK
  <1>6. AllocationsMatchTasks'
    BY <1>2, <1>3 DEF AllocationsMatchTasks
  <1> QED
    BY <1>5, <1>6

LEMMA CommitPickStep ==
  ASSUME Inv, NEW c \in Scanner, CommitPick(c)
  PROVE  Inv'
PROOF
  <1>1. PICK i, q, k : i = scan[c].task /\ q = scan[c].qty /\ k = tasks[i]
    OBVIOUS
  <1>2. /\ scan[c].job = "pick" /\ EndScan(c)
        /\ tasks' = [tasks EXCEPT ![i].done = @ + q,
                                  ![i].status = IF q = Remaining(tasks[i]) THEN "DONE" ELSE "IN_PROGRESS"]
        /\ bin' = [p \in Place |-> IF p \in scan[c].locked THEN PickedFrom(bin[p], q) ELSE bin[p]]
    BY <1>1 DEF CommitPick
  <1>3. /\ i \in DOMAIN tasks /\ IsOpen(k) /\ scan[c].locked = Source(k) /\ q \in 1..Remaining(k)
    BY <1>1, <1>2, InHand DEF ScanOK
  <1>4. /\ k \in Tasks /\ k.quantity \in Nat /\ k.done \in Nat /\ Remaining(k) \in Nat
        /\ k.quantity > 0 /\ (k.exc # "NONE" <=> k.status = "SHORT")
    BY <1>1, <1>3, TaskHere
  <1>5. PICK d, s : d = k.done + q /\ s = IF q = Remaining(k) THEN "DONE" ELSE "IN_PROGRESS"
    OBVIOUS
  <1>6. PICK l : l = [k EXCEPT !.done = d, !.status = s]
    OBVIOUS
  <1>7. tasks' = [tasks EXCEPT ![i] = l]
    BY <1>1, <1>2, <1>3, <1>5, <1>6
  <1>8. /\ q \in Nat /\ d \in Nat /\ d <= k.quantity /\ Remaining(k) = k.quantity - k.done
        /\ s \in {"DONE", "IN_PROGRESS"} /\ (s # "DONE" => k.quantity - d > 0)
    BY <1>3, <1>4, <1>5 DEF Remaining
  <1>9. /\ l \in Tasks /\ l.quantity = k.quantity /\ l.done = d /\ l.status = s
        /\ l.wave = k.wave /\ l.from = k.from /\ l.sku = k.sku /\ l.exc = k.exc
    BY <1>4, <1>6, <1>8 DEF Tasks
  <1>10. k.exc = "NONE"
    BY <1>3, <1>4 DEF IsOpen
  <1>11. ExceptionRow(l) /\ (l.status # "DONE" => Remaining(l) > 0)
    BY <1>8, <1>9, <1>10 DEF ExceptionRow, Remaining
  <1>12. waves' \in Seq(WaveStatus) /\ DOMAIN waves' = DOMAIN waves
    BY <1>2, WaveOfScan
  <1>13. /\ TasksOK' /\ Unfinished' /\ DOMAIN tasks' = DOMAIN tasks /\ Wellformed(tasks)
         /\ Wellformed(tasks') /\ tasks'[i] = l /\ \A j \in DOMAIN tasks \ {i} : tasks'[j] = tasks[j]
    BY <1>1, <1>3, <1>4, <1>7, <1>8, <1>9, <1>11, <1>12, TaskChanged
  <1>14. ScansOK' /\ Sane'
    <2>1. scan' = [scan EXCEPT ![c] = Free]
      BY <1>2 DEF EndScan
    <2>2. \A j \in DOMAIN tasks : scan[c].job = "idle" \/ j # scan[c].task => tasks'[j] = tasks[j]
      BY <1>1, <1>2, <1>13
    <2> QED
      BY <1>13, <2>1, <2>2, ScanEnded
  <1>15. PICK B : B = bin'
    OBVIOUS
  <1>16. ASSUME NEW p \in Source(k)
         PROVE  /\ B[p] \in BinRecords
                /\ B[p].allocated = bin[p].allocated - q /\ B[p].allocated <= B[p].quantity
    <2>1. p \in Place /\ Left(k) <= bin[p].allocated /\ Left(k) = Remaining(k)
      BY <1>1, <1>3, BinOfTask DEF Left
    <2>2. B[p] = PickedFrom(bin[p], q)
      BY <1>2, <1>3, <1>15, <2>1
    <2>3. /\ bin[p] \in BinRecords /\ bin[p].quantity \in Nat /\ bin[p].allocated \in Nat
          /\ bin[p].allocated <= bin[p].quantity
      BY <2>1, BinAt, PartsOfInv
    <2>4. bin[p].quantity - q \in Nat /\ bin[p].allocated - q \in Nat
      BY <1>3, <1>4, <1>8, <2>1, <2>3
    <2>5. B[p] = [bin[p] EXCEPT !.quantity = bin[p].quantity - q, !.allocated = bin[p].allocated - q]
      BY <2>2 DEF PickedFrom
    <2>6. B[p].quantity = bin[p].quantity - q /\ B[p].allocated = bin[p].allocated - q /\ B[p] \in BinRecords
      BY <2>3, <2>4, <2>5 DEF BinRecords
    <2> QED
      BY <1>8, <2>3, <2>6
  <1>17. \A p \in Place : p \notin Source(k) => B[p] = bin[p] /\ B[p] \in BinRecords
    BY <1>2, <1>3, <1>15, BinAt, PartsOfInv
  <1>18. B \in [Place -> BinRecords]
    <2>1. B = [p \in Place |-> B[p]]
      BY <1>2, <1>15
    <2> QED
      BY <1>16, <1>17, <2>1
  <1>19. Left(l) = Left(k) - q /\ Source(l) = Source(k)
    <2>1. Left(k) = k.quantity - k.done
      BY <1>3 DEF Left, Remaining
    <2>2. Left(l) = k.quantity - d
      <3>1. CASE q = Remaining(k)
        BY <1>4, <1>5, <1>8, <1>9, <3>1 DEF Left, IsOpen
      <3>2. CASE q # Remaining(k)
        BY <1>5, <1>9, <3>2 DEF Left, IsOpen, Remaining
      <3> QED
        BY <3>1, <3>2
    <2> QED
      BY <1>4, <1>5, <1>8, <1>9, <2>1, <2>2 DEF Source
  <1>20. BinsOK' /\ AllocationsMatchTasks'
    BY <1>1, <1>3, <1>8, <1>13, <1>15, <1>16, <1>17, <1>18, <1>19, BinsFollow
  <1> QED
    BY <1>2, <1>13, <1>14, <1>20, Kept, PartsOfInv DEF EndScan

LEMMA CommitShortStep ==
  ASSUME Inv, NEW c \in Scanner, CommitShort(c)
  PROVE  Inv'
PROOF
  <1>1. PICK i, q, k : i = scan[c].task /\ q = scan[c].qty /\ k = tasks[i]
    OBVIOUS
  <1>2. /\ scan[c].job = "short" /\ EndScan(c)
        /\ tasks' = [tasks EXCEPT ![i].status = "SHORT", ![i].exc = "OPEN"]
        /\ bin' = [p \in Place |-> IF p \in scan[c].locked THEN ReleasedFrom(bin[p], q) ELSE bin[p]]
    BY <1>1 DEF CommitShort
  <1>3. i \in DOMAIN tasks /\ IsOpen(k) /\ scan[c].locked = Source(k) /\ q = Remaining(k)
    BY <1>1, <1>2, InHand DEF ScanOK
  <1>4. /\ k \in Tasks /\ k.quantity \in Nat /\ k.done \in Nat /\ Remaining(k) \in Nat
        /\ k.quantity > 0 /\ k.done <= k.quantity /\ (k.status # "DONE" => Remaining(k) > 0)
    BY <1>1, <1>3, TaskHere
  <1>5. PICK l : l = [k EXCEPT !.status = "SHORT", !.exc = "OPEN"]
    OBVIOUS
  <1>6. tasks' = [tasks EXCEPT ![i] = l]
    BY <1>1, <1>2, <1>3, <1>5
  <1>7. /\ l \in Tasks /\ l.quantity = k.quantity /\ l.done = k.done /\ l.status = "SHORT"
        /\ l.wave = k.wave /\ l.from = k.from /\ l.sku = k.sku /\ l.exc = "OPEN"
    BY <1>4, <1>5 DEF Tasks
  <1>8. Remaining(l) = Remaining(k) /\ Remaining(k) > 0 /\ ExceptionRow(l)
    BY <1>3, <1>4, <1>7 DEF Remaining, IsOpen, ExceptionRow
  <1>9. waves' \in Seq(WaveStatus) /\ DOMAIN waves' = DOMAIN waves
    BY <1>2, WaveOfScan
  <1>10. /\ TasksOK' /\ Unfinished' /\ DOMAIN tasks' = DOMAIN tasks /\ Wellformed(tasks)
         /\ Wellformed(tasks') /\ tasks'[i] = l /\ \A j \in DOMAIN tasks \ {i} : tasks'[j] = tasks[j]
    BY <1>1, <1>3, <1>4, <1>6, <1>7, <1>8, <1>9, TaskChanged
  <1>11. ScansOK' /\ Sane'
    <2>1. scan' = [scan EXCEPT ![c] = Free]
      BY <1>2 DEF EndScan
    <2>2. \A j \in DOMAIN tasks : scan[c].job = "idle" \/ j # scan[c].task => tasks'[j] = tasks[j]
      BY <1>1, <1>2, <1>10
    <2> QED
      BY <1>10, <2>1, <2>2, ScanEnded
  <1>12. PICK B : B = bin'
    OBVIOUS
  <1>13. ASSUME NEW p \in Source(k)
         PROVE  /\ B[p] \in BinRecords
                /\ B[p].allocated = bin[p].allocated - q /\ B[p].allocated <= B[p].quantity
    <2>1. p \in Place /\ q <= bin[p].allocated
      BY <1>1, <1>3, BinOfTask DEF Left
    <2>2. B[p] = ReleasedFrom(bin[p], q)
      BY <1>2, <1>3, <1>12, <2>1
    <2>3. /\ bin[p] \in BinRecords /\ bin[p].quantity \in Nat /\ bin[p].allocated \in Nat
          /\ bin[p].allocated <= bin[p].quantity
      BY <2>1, BinAt, PartsOfInv
    <2>4. B[p] = [bin[p] EXCEPT !.allocated = bin[p].allocated - q]
      BY <1>3, <1>4, <2>1, <2>2, <2>3 DEF ReleasedFrom
    <2>5. bin[p].allocated - q \in Nat /\ bin[p].allocated - q <= bin[p].quantity
      BY <1>3, <1>4, <2>1, <2>3
    <2> QED
      BY <2>3, <2>4, <2>5 DEF BinRecords
  <1>14. \A p \in Place : p \notin Source(k) => B[p] = bin[p] /\ B[p] \in BinRecords
    BY <1>2, <1>3, <1>12, BinAt, PartsOfInv
  <1>15. B \in [Place -> BinRecords]
    <2>1. B = [p \in Place |-> B[p]]
      BY <1>2, <1>12
    <2> QED
      BY <1>13, <1>14, <2>1
  <1>16. Left(l) = Left(k) - q /\ Source(l) = Source(k)
    BY <1>3, <1>4, <1>7 DEF Left, IsOpen, Source
  <1>17. BinsOK' /\ AllocationsMatchTasks'
    BY <1>1, <1>3, <1>4, <1>10, <1>12, <1>13, <1>14, <1>15, <1>16, BinsFollow
  <1> QED
    BY <1>2, <1>10, <1>11, <1>17, Kept, PartsOfInv DEF EndScan

LEMMA ResolveWithNoteStep ==
  ASSUME Inv, NEW i \in DOMAIN tasks, ResolveWithNote(i)
  PROVE  Inv'
PROOF
  <1>1. PICK k, l : k = tasks[i] /\ l = [k EXCEPT !.exc = "NOTED"]
    OBVIOUS
  <1>2. /\ TaskFree(i) /\ k.exc = "OPEN" /\ tasks' = [tasks EXCEPT ![i] = l]
        /\ UNCHANGED <<status, bal, bin, waves, packed, docs, counts, scan>>
    BY <1>1 DEF ResolveWithNote
  <1>3. /\ k \in Tasks /\ k.quantity \in Nat /\ k.done \in Nat /\ k.quantity > 0 /\ k.done <= k.quantity
        /\ k.status = "SHORT" /\ Remaining(k) > 0
    BY <1>1, <1>2, TaskHere
  <1>4. /\ l \in Tasks /\ l.quantity = k.quantity /\ l.done = k.done /\ l.status = "SHORT"
        /\ l.wave = k.wave /\ l.from = k.from /\ l.sku = k.sku /\ l.exc = "NOTED"
    BY <1>1, <1>3 DEF Tasks
  <1>5. ExceptionRow(l) /\ Remaining(l) > 0
    BY <1>3, <1>4 DEF ExceptionRow, Remaining
  <1>6. waves' \in Seq(WaveStatus) /\ DOMAIN waves' = DOMAIN waves
    BY <1>2, RowsHere
  <1>7. /\ TasksOK' /\ Unfinished' /\ DOMAIN tasks' = DOMAIN tasks /\ Wellformed(tasks)
        /\ Wellformed(tasks') /\ tasks'[i] = l /\ \A j \in DOMAIN tasks \ {i} : tasks'[j] = tasks[j]
    BY <1>1, <1>2, <1>3, <1>4, <1>5, <1>6, TaskChanged
  <1>8. Sane'
    <2>1. Sane /\ ScansOK
      BY PartsOfInv
    <2>2. ASSUME NEW d \in Scanner PROVE ScanOK(scan[d], tasks')
      <3>1. scan[d].task # i /\ ScanOK(scan[d], tasks)
        BY <1>2, <2>1 DEF Sane, TaskFree
      <3>2. scan[d].job # "idle" => scan[d].task \in DOMAIN tasks
        BY <3>1 DEF ScanOK
      <3>3. scan[d].job # "idle" => tasks'[scan[d].task] = tasks[scan[d].task]
        BY <1>7, <3>1, <3>2
      <3>4. CASE scan[d].job = "idle"
        BY <3>1, <3>4 DEF ScanOK
      <3>5. CASE scan[d].job # "idle"
        BY <1>7, <3>1, <3>2, <3>3, <3>5 DEF ScanOK
      <3> QED
        BY <3>4, <3>5
    <2> QED
      BY <1>2, <2>1, <2>2 DEF Sane, Apart
  <1>9. BinsOK' /\ AllocationsMatchTasks'
    <2>1. \A p \in Place : bin[p] \in BinRecords
      BY BinAt, PartsOfInv
    <2>2. bin \in [Place -> BinRecords]
      BY <2>1, PartsOfInv DEF BinsOK
    <2>3. PICK q, B : q = 0 /\ B = bin
      OBVIOUS
    <2>4. q \in Nat /\ Left(l) = Left(k) - q /\ Source(l) = Source(k)
      BY <1>3, <1>4, <2>3 DEF Left, IsOpen, Source
    <2>5. \A p \in Source(k) : /\ B[p].allocated = bin[p].allocated - q
                               /\ B[p].allocated <= B[p].quantity
      BY <1>1, <2>3, BinOfTask, BinAt, PartsOfInv
    <2>6. bin' = B /\ B \in [Place -> BinRecords] /\ \A p \in Place : p \notin Source(k) => B[p] = bin[p]
      BY <1>2, <2>2, <2>3
    <2> QED
      BY <1>1, <1>7, <2>4, <2>5, <2>6, BinsFollow
  <1> QED
    BY <1>2, <1>7, <1>8, <1>9, Kept, PartsOfInv

LEMMA CommitRepickStep ==
  ASSUME Inv, NEW c \in Scanner, CommitRepick(c)
  PROVE  Inv'
PROOF
  <1>1. PICK i, n, us, k : i = scan[c].task /\ n = scan[c].qty /\ us = scan[c].locked /\ k = tasks[i]
    OBVIOUS
  <1>2. PICK T, ls : T = NewTasks(k.order, k.sku, 0, n, us, k.wave) /\ ls = SetToSeq(T)
    OBVIOUS
  <1>3. /\ scan[c].job = "repick" /\ EndScan(c) /\ bin' = Allocating(ls)
        /\ tasks' = [tasks EXCEPT ![i].exc = "REPICKED"] \o ls
    BY <1>1, <1>2 DEF CommitRepick
  <1>4. /\ i \in DOMAIN tasks /\ k.exc = "OPEN" /\ n \in Nat /\ us \in SUBSET Place
        /\ \A p \in us : p[2] = k.sku
    BY <1>1, <1>3, InHand DEF ScanOK
  <1>5. /\ k \in Tasks /\ k.quantity \in Nat /\ k.done \in Nat /\ k.quantity > 0 /\ k.done <= k.quantity
        /\ k.status = "SHORT" /\ Remaining(k) > 0 /\ k.wave \in DOMAIN waves
    BY <1>1, <1>4, TaskHere
  <1>6. PICK l, ks : l = [k EXCEPT !.exc = "REPICKED"] /\ ks = [tasks EXCEPT ![i] = l]
    OBVIOUS
  <1>7. tasks' = ks \o ls
    BY <1>1, <1>3, <1>4, <1>6
  <1>8. /\ l \in Tasks /\ l.quantity = k.quantity /\ l.done = k.done /\ l.status = "SHORT"
        /\ l.wave = k.wave /\ l.from = k.from /\ l.sku = k.sku /\ l.exc = "REPICKED"
    BY <1>5, <1>6 DEF Tasks
  <1>9. ExceptionRow(l) /\ Remaining(l) > 0
    BY <1>5, <1>8 DEF ExceptionRow, Remaining
  <1>10. /\ TaskRows(ks, waves) /\ Wellformed(ks) /\ DOMAIN ks = DOMAIN tasks
         /\ ks[i] = l /\ \A j \in DOMAIN tasks \ {i} : ks[j] = tasks[j]
    <2>1. /\ l.done <= l.quantity /\ l.quantity > 0 /\ l.wave = tasks[i].wave
          /\ l.status # "DONE" => Remaining(l) > 0
      BY <1>1, <1>5, <1>8, <1>9
    <2> QED
      BY <1>4, <1>6, <1>8, <1>9, <2>1, RowChanged
  <1>11. BinsOK /\ AllocationsMatchTasks
    BY PartsOfInv
  <1>12. /\ IsFiniteSet(T) /\ \A e \in T : Made(e, k.order, k.sku, 0, n, us, k.wave)
         /\ \A e, f \in T : e.from = f.from => e = f
    <2>1. k.order \in Order /\ k.sku \in Sku /\ k.wave \in Nat
      BY <1>5 DEF Tasks
    <2> QED
      BY <1>2, <1>4, <1>11, <2>1, TasksMade
  <1>13. /\ Wellformed(ls) /\ \A j \in DOMAIN ls : ls[j] \in T
         /\ \A j, m \in DOMAIN ls : ls[j] = ls[m] => j = m
    <2>1. \A e \in T : e \in Tasks /\ e.quantity > 0 /\ e.done = 0
      BY <1>12 DEF Made
    <2> QED
      BY <1>2, <1>12, <2>1, NewSequence
  <1>14. \A j \in DOMAIN ls : ls[j].status = "OPEN" /\ ls[j].done = 0
    BY <1>12, <1>13 DEF Made
  <1>15. TaskRows(ls, waves)
    <2>1. \A e \in T : TaskRow(e, waves) /\ ExceptionRow(e) /\ Remaining(e) > 0
      <3> SUFFICES ASSUME NEW e \in T PROVE TaskRow(e, waves) /\ ExceptionRow(e) /\ Remaining(e) > 0
        OBVIOUS
      <3>1. /\ e.quantity \in Nat /\ e.quantity > 0 /\ e.done = 0 /\ e.wave \in DOMAIN waves
            /\ e.exc = "NONE" /\ e.status = "OPEN"
        BY <1>5, <1>12 DEF Made, Tasks
      <3> QED
        BY <3>1 DEF TaskRow, ExceptionRow, Remaining
    <2> QED
      BY <1>13, <2>1 DEF TaskRows, Wellformed
  <1>16. \A p \in Place : ToTake(ks, p) = ToTake(tasks, p)
    <2> SUFFICES ASSUME NEW p \in Place PROVE ToTake(ks, p) = ToTake(tasks, p)
      OBVIOUS
    <2>1. ToTake(ks, p) = ToTake(tasks, p) - Part(k, p) + Part(l, p)
      BY <1>1, <1>4, <1>10, RowsHere, ToTakeChanged
    <2>2. Part(k, p) = 0 /\ Part(l, p) = 0
      BY <1>5, <1>8 DEF Part, Left, IsOpen
    <2>3. ToTake(tasks, p) \in Nat
      BY RowsHere, PartsCount
    <2> QED
      BY <2>1, <2>2, <2>3
  <1>17. ASSUME NEW p \in Place PROVE Taking(ls, p) <= FreeIn(p)
    <2>1. PICK W : W = [o \in Order |-> Wanted(0, n)]
      OBVIOUS
    <2>2. \A e \in T : e.order = k.order /\ e.sku = k.sku /\ e \in Tasks /\ e.order \in Order
      BY <1>5, <1>12 DEF Made, Tasks
    <2>3. ASSUME NEW e \in T, Source(e) = {p}
          PROVE  e.quantity = Cardinality(W[e.order] \cap OfferedIn(p, us))
      <3>1. e.from # None /\ p = <<e.from, k.sku>>
        BY <2>2, <2>3, SourceIs
      <3>2. e.quantity = Share(p, 0, n, us)
        BY <1>12, <3>1 DEF Made
      <3>3. Share(p, 0, n, us) = Cardinality(Wanted(0, n) \cap OfferedIn(p, us))
        BY <1>4, <1>11, ShareCounts
      <3> QED
        BY <2>1, <2>2, <3>2, <3>3
    <2>4. ASSUME NEW e \in T, NEW f \in T, Source(e) = {p}, Source(f) = {p}
          PROVE  e = f
      <3>1. p = <<e.from, e.sku>> /\ p = <<f.from, f.sku>>
        BY <2>2, <2>4, SourceIs
      <3>2. e.from = f.from
        BY <3>1
      <3> QED
        BY <1>12, <3>2
    <2>5. OwnParts(T, p, us, W)
      BY <2>3, <2>4 DEF OwnParts
    <2> QED
      BY <1>4, <1>11, <1>13, <2>5, TakingFits
  <1>18. /\ Allocating(ls) \in [Place -> BinRows]
         /\ \A p \in Place : /\ Allocating(ls)[p].allocated = ToTake(ks \o ls, p)
                             /\ Allocating(ls)[p].quantity = bin[p].quantity
    BY <1>10, <1>11, <1>13, <1>14, <1>16, <1>17, AfterAllocating
  <1>19. BinsOK'
    BY <1>3, <1>18 DEF BinsOK
  <1>20. AllocationsMatchTasks'
    <2>1. PICK B : B = bin'
      OBVIOUS
    <2>2. \A p \in Place : B[p].allocated = ToTake(tasks', p) /\ B[p].allocated <= B[p].quantity
      BY <1>3, <1>7, <1>18, <2>1 DEF BinRows
    <2> QED
      BY <2>1, <2>2 DEF AllocationsMatchTasks
  <1>21. waves' \in Seq(WaveStatus) /\ DOMAIN waves' = DOMAIN waves
    BY <1>3, WaveOfScan
  <1>22. TasksOK' /\ Unfinished'
    <2>1. TaskRows(ks \o ls, waves)
      BY <1>10, <1>15, RowsJoined
    <2>2. TaskRows(tasks', waves')
      BY <1>7, <1>21, <2>1, RowsWithWaves
    <2> QED
      BY <1>21, <2>2, RowsAreOK
  <1>23. ScansOK' /\ Sane'
    <2>1. scan' = [scan EXCEPT ![c] = Free]
      BY <1>3 DEF EndScan
    <2>2. /\ DOMAIN (ks \o ls) = 1..(Len(ks) + Len(ls))
          /\ \A j \in 1..Len(ks) : (ks \o ls)[j] = ks[j]
      BY <1>10, <1>13, Joined
    <2>3. DOMAIN ks = 1..Len(ks) /\ Len(ks) \in Nat /\ Len(ls) \in Nat
      BY <1>10, <1>13, Indices
    <2>4. DOMAIN tasks \in SUBSET DOMAIN tasks' /\ \A j \in DOMAIN tasks \ {i} : tasks'[j] = tasks[j]
      BY <1>7, <1>10, <2>2, <2>3
    <2> QED
      BY <1>1, <1>3, <2>1, <2>4, ScanEnded
  <1> QED
    BY <1>3, <1>19, <1>20, <1>22, <1>23, Kept, PartsOfInv DEF EndScan

-------------------------------------------------------------------------------
(* A wave.                                                                  *)

LEMMA ScansKeptWithMoreTasks ==
  ASSUME Inv, NEW ls, Wellformed(ls), tasks' = tasks \o ls, scan' = scan
  PROVE  ScansOK' /\ Sane'
PROOF
  <1>1. Sane /\ ScansOK /\ Wellformed(tasks)
    BY PartsOfInv, RowsHere
  <1>2. DOMAIN tasks = 1..Len(tasks) /\ \A i \in 1..Len(tasks) : (tasks \o ls)[i] = tasks[i]
    BY <1>1, Indices, Joined
  <1>3. /\ DOMAIN (tasks \o ls) = 1..(Len(tasks) + Len(ls))
        /\ Len(tasks) \in Nat /\ Len(ls) \in Nat
    BY <1>1, Indices, Joined
  <1>4. DOMAIN tasks \in SUBSET DOMAIN tasks' /\ \A i \in DOMAIN tasks : tasks'[i] = tasks[i]
    BY <1>2, <1>3
  <1>5. ASSUME NEW d \in Scanner PROVE ScanOK(scan[d], tasks')
    <2>1. ScanOK(scan[d], tasks)
      BY <1>1 DEF Sane
    <2>2. CASE scan[d].job = "idle"
      BY <2>1, <2>2 DEF ScanOK
    <2>3. CASE scan[d].job # "idle"
      <3>1. scan[d].task \in DOMAIN tasks'
        BY <1>4, <2>1, <2>3 DEF ScanOK
      <3>2. tasks'[scan[d].task] = tasks[scan[d].task]
        BY <1>4, <2>1, <2>3 DEF ScanOK
      <3> QED
        BY <2>1, <2>3, <3>1, <3>2 DEF ScanOK
    <2> QED
      BY <2>2, <2>3
  <1> QED
    BY <1>1, <1>5 DEF Sane, Apart, ScansOK

(* The tasks made for SKU s of order o, and for all orders os, in wave w.    *)
AskedBefore(os, o, s) == SumOver([q \in Order |-> Need[q][s]], {q \in os : q < o})
MadeFor(os, o, s, w) == NewTasks(o, s, AskedBefore(os, o, s), Need[o][s], Usable(s, {}), w)
MadeIn(os, w) == UNION {UNION {MadeFor(os, o, s, w) : s \in Sku} : o \in os}

LEMMA WaveTasks ==
  ASSUME Inv, NEW os \in SUBSET Order, NEW w \in Nat, NEW T, T = MadeIn(os, w)
  PROVE  /\ IsFiniteSet(T)
         /\ \A k \in T : /\ k.order \in os /\ k.sku \in Sku /\ k \in MadeFor(os, k.order, k.sku, w)
                         /\ Made(k, k.order, k.sku, AskedBefore(os, k.order, k.sku), Need[k.order][k.sku],
                                 Usable(k.sku, {}), w)
                         /\ k \in Tasks /\ k.quantity \in Nat /\ k.quantity > 0 /\ k.done = 0
                         /\ k.status = "OPEN" /\ k.exc = "NONE" /\ k.wave = w
         /\ \A o \in os, s \in Sku :
              /\ MadeFor(os, o, s, w) \in SUBSET T
              /\ \A k \in MadeFor(os, o, s, w) : k.order = o /\ k.sku = s
              /\ \A k, l \in MadeFor(os, o, s, w) : k.from = l.from => k = l
PROOF
  <1> DEFINE before(o, s) == AskedBefore(os, o, s)
             made(o, s) == MadeFor(os, o, s, w)
             all(o) == UNION {made(o, s) : s \in Sku}
  <1>1. T = UNION {all(o) : o \in os}
    BY DEF MadeIn
  <1>3. BinsOK
    BY PartsOfInv
  <1>6. ASSUME NEW o \in os, NEW s \in Sku
        PROVE  /\ IsFiniteSet(made(o, s))
               /\ \A k \in made(o, s) : Made(k, o, s, before(o, s), Need[o][s], Usable(s, {}), w)
               /\ \A k, l \in made(o, s) : k.from = l.from => k = l
    <2>1. Usable(s, {}) \in SUBSET Place /\ \A p \in Usable(s, {}) : p[2] = s
      BY DEF Usable
    <2>2. o \in Order /\ Need[o][s] \in Nat
      BY WarehouseAssumption
    <2>3. made(o, s) = NewTasks(o, s, before(o, s), Need[o][s], Usable(s, {}), w)
      BY DEF MadeFor
    <2> HIDE DEF before, made
    <2>4. PICK us, b, n, M : us = Usable(s, {}) /\ b = before(o, s) /\ n = Need[o][s] /\ M = made(o, s)
      OBVIOUS
    <2>5. /\ IsFiniteSet(M) /\ \A k \in M : Made(k, o, s, b, n, us, w)
          /\ \A k, l \in M : k.from = l.from => k = l
      <3>1. M = NewTasks(o, s, b, n, us, w) /\ n \in Nat /\ us \in SUBSET Place /\ \A p \in us : p[2] = s
        BY <2>1, <2>2, <2>3, <2>4
      <3> QED
        BY <1>3, <2>2, <3>1, TasksMade
    <2> QED
      BY <2>4, <2>5
  <1> HIDE DEF made, before
  <1>7. \A k \in T : \E o \in os : \E s \in Sku : k \in made(o, s)
    BY <1>1
  <1>8. ASSUME NEW k \in T
        PROVE  /\ k.order \in os /\ k.sku \in Sku /\ k \in made(k.order, k.sku)
               /\ Made(k, k.order, k.sku, before(k.order, k.sku), Need[k.order][k.sku],
                       Usable(k.sku, {}), w)
    <2>1. PICK o \in os : \E s \in Sku : k \in made(o, s)
      BY <1>7
    <2>2. PICK s \in Sku : k \in made(o, s)
      BY <2>1
    <2>3. Made(k, o, s, before(o, s), Need[o][s], Usable(s, {}), w)
      BY <1>6, <2>2
    <2>4. k.order = o /\ k.sku = s
      BY <2>3 DEF Made
    <2> QED
      BY <2>2, <2>3, <2>4
  <1>9. IsFiniteSet(T)
    <2>1. IsFiniteSet(os)
      BY Finite, FS_Subset
    <2>2. ASSUME NEW o \in os PROVE IsFiniteSet(all(o))
      <3>1. PICK F, f : F = {made(o, s) : s \in Sku} /\ f = [s \in Sku |-> made(o, s)]
        OBVIOUS
      <3>2. f \in Surjection(Sku, F)
        BY <3>1 DEF Surjection
      <3>3. IsFiniteSet(F)
        BY <3>2, WarehouseAssumption, FS_Surjection
      <3>4. \A U \in F : IsFiniteSet(U)
        BY <1>6, <3>1
      <3>5. all(o) = UNION F
        BY <3>1
      <3> QED
        BY <3>3, <3>4, <3>5, FS_UNION
    <2> HIDE DEF all
    <2>3. PICK F, f : F = {all(o) : o \in os} /\ f = [o \in os |-> all(o)]
      OBVIOUS
    <2>4. f \in Surjection(os, F)
      BY <2>3 DEF Surjection
    <2>5. IsFiniteSet(F)
      BY <2>1, <2>4, FS_Surjection
    <2>6. \A U \in F : IsFiniteSet(U)
      BY <2>2, <2>3
    <2>7. T = UNION F
      BY <1>1, <2>3
    <2> QED
      BY <2>5, <2>6, <2>7, FS_UNION
  <1>10. \A k \in T : /\ k \in Tasks /\ k.quantity \in Nat /\ k.quantity > 0 /\ k.done = 0
                      /\ k.status = "OPEN" /\ k.exc = "NONE" /\ k.wave = w
    BY <1>8 DEF Made, Tasks
  <1>11. ASSUME NEW o \in os, NEW s \in Sku
         PROVE  made(o, s) \in SUBSET T /\ \A k \in made(o, s) : k.order = o /\ k.sku = s
    <2>1. made(o, s) \in SUBSET all(o) /\ all(o) \in SUBSET T
      BY <1>1
    <2>2. \A k \in made(o, s) : Made(k, o, s, before(o, s), Need[o][s], Usable(s, {}), w)
      BY <1>6
    <2> QED
      BY <2>1, <2>2 DEF Made
  <1> QED
    BY <1>6, <1>8, <1>9, <1>10, <1>11 DEF made, before

LEMMA CreateWaveStep ==
  ASSUME Inv, NEW os \in SUBSET Order, CreateWave(os)
  PROVE  Inv'
PROOF
  <1>0. PICK w : w = Len(waves) + 1
    OBVIOUS
  <1> DEFINE before(o, s) == AskedBefore(os, o, s)
             made(o, s) == MadeFor(os, o, s, w)
  <1>1. PICK T, ls : T = MadeIn(os, w) /\ ls = SetToSeq(T)
    OBVIOUS
  <1>2. /\ tasks' = tasks \o ls /\ bin' = Allocating(ls) /\ waves' = Append(waves, "OPEN")
        /\ status' = [o \in Order |-> IF o \in os THEN "PICKING" ELSE status[o]]
        /\ UNCHANGED <<bal, packed, docs, counts, scan>>
    BY <1>0, <1>1 DEF CreateWave, MadeIn, MadeFor, AskedBefore
  <1>3. /\ BinsOK /\ AllocationsMatchTasks /\ StatusOK /\ TaskRows(tasks, waves)
        /\ Wellformed(tasks) /\ waves \in Seq(WaveStatus)
    BY PartsOfInv, RowsHere
  <1>4. w \in Nat
    BY <1>0, <1>3, LenProperties
  <1>5. /\ waves' \in Seq(WaveStatus) /\ w \in DOMAIN waves' /\ DOMAIN waves \in SUBSET DOMAIN waves'
    <2>1. "OPEN" \in WaveStatus
      BY DEF WaveStatus
    <2>2. /\ waves' \in Seq(WaveStatus) /\ Len(waves') = Len(waves) + 1
      BY <1>2, <1>3, <2>1, AppendProperties
    <2>3. DOMAIN waves' = 1..(Len(waves) + 1) /\ DOMAIN waves = 1..Len(waves) /\ Len(waves) \in Nat
      BY <1>3, <2>2, LenProperties
    <2> QED
      BY <1>0, <2>2, <2>3
  <1> HIDE DEF made, before
  <1>6. \A o \in os, s \in Sku : \A k, l \in made(o, s) : k.from = l.from => k = l
    <2>1. T = MadeIn(os, w)
      BY <1>1
    <2> QED
      BY ONLY Inv, <1>4, <2>1, WaveTasks DEF made
  <1>8. ASSUME NEW k \in T
        PROVE  /\ k.order \in os /\ k.sku \in Sku /\ k \in made(k.order, k.sku)
               /\ Made(k, k.order, k.sku, before(k.order, k.sku), Need[k.order][k.sku],
                       Usable(k.sku, {}), w)
    BY <1>1, <1>4, WaveTasks DEF made, before
  <1>9. IsFiniteSet(T)
    BY <1>1, <1>4, WaveTasks
  <1>10. \A k \in T : /\ k \in Tasks /\ k.quantity \in Nat /\ k.quantity > 0 /\ k.done = 0
                      /\ k.status = "OPEN" /\ k.exc = "NONE" /\ k.wave = w
    BY <1>8 DEF Made, Tasks
  <1>11. /\ Wellformed(ls) /\ \A j \in DOMAIN ls : ls[j] \in T
         /\ \A j, m \in DOMAIN ls : ls[j] = ls[m] => j = m
    <2>1. \A k \in T : k \in Tasks /\ k.quantity > 0 /\ k.done = 0
      BY <1>10
    <2>2. ls = SetToSeq(T)
      BY <1>1
    <2> QED
      BY <1>9, <2>1, <2>2, NewSequence
  <1>12. TaskRows(ls, waves')
    <2>1. \A e \in T : TaskRow(e, waves') /\ ExceptionRow(e) /\ Remaining(e) > 0
      BY <1>5, <1>10 DEF TaskRow, ExceptionRow, Remaining
    <2> QED
      BY <1>11, <2>1 DEF TaskRows, Wellformed
  <1>13. ASSUME NEW p \in Place PROVE Taking(ls, p) <= FreeIn(p)
    <2>1. PICK s, us : s = p[2] /\ us = Usable(s, {})
      OBVIOUS
    <2>2. PICK W : W = [o \in Order |-> Wanted(before(o, s), Need[o][s])]
      OBVIOUS
    <2>3. s \in Sku /\ us \in SUBSET Place
      BY <2>1 DEF Place, Usable
    <2>4. ASSUME NEW e \in T, Source(e) = {p}
          PROVE  /\ e.from # None /\ p = <<e.from, s>> /\ e.sku = s /\ e.order \in os /\ e.order \in Order
                 /\ Made(e, e.order, s, before(e.order, s), Need[e.order][s], us, w)
                 /\ e \in made(e.order, s)
      <3>1. e.from # None /\ p = <<e.from, e.sku>>
        BY <1>10, <2>4, SourceIs
      <3>2. e.sku = s
        BY <2>1, <3>1
      <3> QED
        BY <1>8, <2>1, <3>1, <3>2
    <2>5. ASSUME NEW e \in T, Source(e) = {p}
          PROVE  e.quantity = Cardinality(W[e.order] \cap OfferedIn(p, us))
      <3>1. e.quantity = Share(p, before(e.order, s), Need[e.order][s], us)
        BY <2>4, <2>5 DEF Made
      <3>2. Share(p, before(e.order, s), Need[e.order][s], us) =
              Cardinality(Wanted(before(e.order, s), Need[e.order][s]) \cap OfferedIn(p, us))
        BY <1>3, <2>3, ShareCounts
      <3> QED
        BY <2>2, <2>4, <2>5, <3>1, <3>2
    <2>6. ASSUME NEW e \in T, NEW f \in T, Source(e) = {p}, Source(f) = {p}, e.order = f.order
          PROVE  e = f
      <3>1. e.from = f.from
        BY <2>4, <2>6
      <3>2. e \in made(e.order, s) /\ f \in made(e.order, s) /\ e.order \in os
        BY <2>4, <2>6
      <3> QED
        BY <1>6, <2>3, <3>1, <3>2
    <2>7. ASSUME NEW o \in os, NEW q \in os, o < q
          PROVE  W[o] \cap W[q] = {}
      <3>1. PICK n : n = [e \in Order |-> Need[e][s]]
        OBVIOUS
      <3>2. n \in [Order -> Nat] /\ n[o] = Need[o][s]
        BY <2>3, <3>1, WarehouseAssumption
      <3>3. PICK a, b : a = before(o, s) /\ b = before(q, s)
        OBVIOUS
      <3>4. a = SumOver(n, {e \in os : e < o}) /\ b = SumOver(n, {e \in os : e < q})
        BY <3>1, <3>3 DEF before, AskedBefore
      <3>5. a \in Nat /\ b \in Nat /\ a + n[o] <= b
        BY <2>7, <3>2, <3>4, DemandsApart
      <3>6. W[o] = (a + 1)..(a + n[o]) /\ W[q] = (b + 1)..(b + Need[q][s])
        BY <2>2, <3>2, <3>3 DEF Wanted
      <3>7. n[o] \in Nat /\ Need[q][s] \in Nat
        BY <2>3, <3>2, WarehouseAssumption
      <3> QED
        BY <3>5, <3>6, <3>7
    <2>8. ASSUME NEW e \in T, NEW f \in T, Source(e) = {p}, Source(f) = {p}, e.order # f.order
          PROVE  W[e.order] \cap W[f.order] = {}
      <3>0. \A o \in Order : o \in Nat
        BY WarehouseAssumption DEF Order
      <3>1. e.order \in os /\ f.order \in os /\ e.order \in Nat /\ f.order \in Nat
        BY ONLY <2>4, <2>8, <3>0
      <3>2. CASE e.order < f.order
        BY <2>7, <3>1, <3>2
      <3>3. CASE f.order < e.order
        BY <2>7, <3>1, <3>3
      <3> QED
        BY <2>8, <3>1, <3>2, <3>3
    <2>9. OwnParts(T, p, us, W)
      BY <2>5, <2>6, <2>8 DEF OwnParts
    <2> QED
      BY <1>3, <1>11, <2>3, <2>9, TakingFits
  <1>14. /\ Allocating(ls) \in [Place -> BinRows]
         /\ \A p \in Place : /\ Allocating(ls)[p].allocated = ToTake(tasks \o ls, p)
                             /\ Allocating(ls)[p].quantity = bin[p].quantity
    <2>1. \A j \in DOMAIN ls : ls[j].status = "OPEN" /\ ls[j].done = 0
      BY <1>10, <1>11
    <2> QED
      BY <1>3, <1>11, <1>13, <2>1, AfterAllocating
  <1>15. BinsOK'
    BY <1>2, <1>14 DEF BinsOK
  <1>16. AllocationsMatchTasks'
    <2>1. PICK B : B = bin'
      OBVIOUS
    <2>2. \A p \in Place : B[p].allocated = ToTake(tasks', p) /\ B[p].allocated <= B[p].quantity
      BY <1>2, <1>14, <2>1 DEF BinRows
    <2> QED
      BY <2>1, <2>2 DEF AllocationsMatchTasks
  <1>17. TasksOK' /\ Unfinished'
    <2>1. TaskRows(tasks, waves')
      BY <1>3, <1>5, RowsWithWaves
    <2>2. TaskRows(tasks', waves')
      BY <1>2, <1>12, <2>1, RowsJoined
    <2> QED
      BY <1>5, <2>2, RowsAreOK
  <1>18. ScansOK' /\ Sane'
    BY <1>2, <1>11, ScansKeptWithMoreTasks
  <1>19. StatusOK'
    BY <1>2, <1>3 DEF StatusOK
  <1> QED
    BY <1>2, <1>15, <1>16, <1>17, <1>18, <1>19, Kept, PartsOfInv

-------------------------------------------------------------------------------
(* Orders, and the packing station.                                         *)

LEMMA PlusOK ==
  ASSUME NEW b \in Balances, NEW d \in Deltas, CanApply(b, d)
  PROVE  Plus(b, d) \in Balances
PROOF
  <1>1. /\ b.on_hand \in Int /\ b.reserved \in Int /\ b.damaged \in Int /\ b.returned \in Int
        /\ d.on_hand \in Int /\ d.reserved \in Int /\ d.damaged \in Int /\ d.returned \in Int
    BY DEF Balances, Deltas
  <1> QED
    BY <1>1 DEF CanApply, Sound, Plus, Balances

LEMMA AllocateStep ==
  ASSUME Inv, NEW o \in Order, Allocate(o)
  PROVE  Inv'
PROOF
  <1>1. /\ status' = [status EXCEPT ![o] = "ALLOCATED"]
        /\ \A s \in Ordered(o) : CanApply(bal[s], Reserving(Need[o][s]))
        /\ bal' = [s \in Sku |-> IF s \in Ordered(o) THEN Plus(bal[s], Reserving(Need[o][s])) ELSE bal[s]]
        /\ UNCHANGED <<bin, tasks, waves, packed, docs, counts, scan>>
    BY DEF Allocate, PostOrder
  <1>2. StatusOK /\ BalancesOK
    BY PartsOfInv
  <1>3. StatusOK'
    BY <1>1, <1>2 DEF StatusOK
  <1>4. ASSUME NEW s \in Ordered(o) PROVE Plus(bal[s], Reserving(Need[o][s])) \in Balances
    <2>1. s \in Sku /\ Need[o][s] \in Nat
      BY WarehouseAssumption DEF Ordered
    <2>2. Reserving(Need[o][s]) \in Deltas
      BY <2>1 DEF Reserving, Deltas
    <2>3. bal[s] \in Balances
      BY <1>2, <2>1 DEF BalancesOK
    <2> QED
      BY <1>1, <2>2, <2>3, PlusOK
  <1>5. BalancesOK'
    BY <1>1, <1>2, <1>4 DEF BalancesOK
  <1> QED
    BY <1>1, <1>3, <1>5, Kept, PartsOfInv

LEMMA ShipStep ==
  ASSUME Inv, NEW o \in Order, Ship(o)
  PROVE  Inv'
PROOF
  <1>1. /\ status' = [status EXCEPT ![o] = "SHIPPED"]
        /\ \A s \in Ordered(o) : CanApply(bal[s], Shipping(Need[o][s]))
        /\ bal' = [s \in Sku |-> IF s \in Ordered(o) THEN Plus(bal[s], Shipping(Need[o][s])) ELSE bal[s]]
        /\ UNCHANGED <<bin, tasks, waves, packed, docs, counts, scan>>
    BY DEF Ship, PostOrder
  <1>2. StatusOK /\ BalancesOK
    BY PartsOfInv
  <1>3. StatusOK'
    BY <1>1, <1>2 DEF StatusOK
  <1>4. ASSUME NEW s \in Ordered(o) PROVE Plus(bal[s], Shipping(Need[o][s])) \in Balances
    <2>1. s \in Sku /\ Need[o][s] \in Nat
      BY WarehouseAssumption DEF Ordered
    <2>2. Shipping(Need[o][s]) \in Deltas
      BY <2>1 DEF Shipping, Deltas
    <2>3. bal[s] \in Balances
      BY <1>2, <2>1 DEF BalancesOK
    <2> QED
      BY <1>1, <2>2, <2>3, PlusOK
  <1>5. BalancesOK'
    BY <1>1, <1>2, <1>4 DEF BalancesOK
  <1> QED
    BY <1>1, <1>3, <1>5, Kept, PartsOfInv

LEMMA PackScanStep ==
  ASSUME Inv, NEW o \in Order, NEW s \in Sku, NEW q \in 1..Need[o][s], PackScan(o, s, q)
  PROVE  Inv'
PROOF
  <1>1. /\ packed[o][s] + q <= Need[o][s]
        /\ packed' = [packed EXCEPT ![o][s] = @ + q]
        /\ status' = [status EXCEPT ![o] = "PACKING"]
        /\ UNCHANGED <<bal, bin, tasks, waves, docs, counts, scan>>
    BY DEF PackScan
  <1>2. StatusOK /\ PackedOK
    BY PartsOfInv
  <1>3. StatusOK'
    BY <1>1, <1>2 DEF StatusOK
  <1>4. q \in Nat
    BY WarehouseAssumption
  <1>5. PICK row, new : row = packed[o] /\ new = [row EXCEPT ![s] = @ + q]
    OBVIOUS
  <1>6. row \in [Sku -> Nat] /\ \A r \in Sku : row[r] <= Need[o][r]
    BY <1>2, <1>5 DEF PackedOK, PackRow
  <1>7. new \in [Sku -> Nat] /\ \A r \in Sku : new[r] <= Need[o][r]
    BY <1>1, <1>4, <1>5, <1>6
  <1>8. packed' = [packed EXCEPT ![o] = new]
    BY <1>1, <1>5
  <1>9. DOMAIN packed' = Order /\ \A p \in Order : packed'[p] = IF p = o THEN new ELSE packed[p]
    BY <1>2, <1>8 DEF PackedOK
  <1>10. PackedOK'
    BY <1>2, <1>7, <1>9 DEF PackedOK, PackRow
  <1> QED
    BY <1>1, <1>3, <1>10, Kept, PartsOfInv

LEMMA PackCompleteStep ==
  ASSUME Inv, NEW o \in Order, PackComplete(o)
  PROVE  Inv'
PROOF
  <1>1. /\ status' = [status EXCEPT ![o] = "READY_TO_SHIP"]
        /\ UNCHANGED <<bal, bin, tasks, waves, packed, docs, counts, scan>>
    BY DEF PackComplete
  <1>2. StatusOK'
    BY <1>1, PartsOfInv DEF StatusOK
  <1> QED
    BY <1>1, <1>2, Kept, PartsOfInv

-------------------------------------------------------------------------------
(* Stock coming in, put away and corrected.                                 *)

(* The document d gets the row e.                                           *)
LEMMA DocumentChanged ==
  ASSUME Inv, NEW d \in Inbound, NEW e, DocumentRow(e), docs' = [docs EXCEPT ![d] = e]
  PROVE  DocsOK'
PROOF
  <1>1. DocsOK
    BY PartsOfInv
  <1>2. DOMAIN docs' = Inbound /\ \A f \in Inbound : docs'[f] = IF f = d THEN e ELSE docs[f]
    BY <1>1 DEF DocsOK
  <1> QED
    BY <1>1, <1>2 DEF DocsOK

LEMMA DocumentHere ==
  ASSUME Inv, NEW d \in Inbound
  PROVE  /\ DocumentRow(docs[d]) /\ docs[d] \in Documents
         /\ docs[d].received \in [Sku -> Nat] /\ docs[d].damaged \in [Sku -> Nat]
         /\ docs[d].placed \in [Sku -> Nat]
PROOF
  <1>1. DocumentRow(docs[d]) /\ docs[d] \in Documents
    BY PartsOfInv DEF DocsOK, DocumentRow
  <1> QED
    BY <1>1 DEF Documents

(* A bin gets another quantity, not less than is allocated.                 *)
LEMMA BinRefilled ==
  ASSUME Inv, NEW p \in Place, NEW n, n \in Int, n >= bin[p].allocated,
         bin' = [bin EXCEPT ![p].quantity = n], tasks' = tasks
  PROVE  BinsOK' /\ AllocationsMatchTasks'
PROOF
  <1>1. BinsOK /\ AllocationsMatchTasks
    BY PartsOfInv
  <1>2. PICK b, B : b = [bin[p] EXCEPT !.quantity = n] /\ B = bin'
    OBVIOUS
  <1>3. bin[p] \in BinRecords /\ bin[p].allocated \in Nat
    BY <1>1, BinAt
  <1>4. n \in Nat
    BY <1>3
  <1>5. b \in BinRecords /\ b.allocated = bin[p].allocated /\ b.quantity = n
    BY <1>2, <1>3, <1>4 DEF BinRecords
  <1>6. b \in BinRows
    BY <1>5 DEF BinRows
  <1>7. B = [bin EXCEPT ![p] = b]
    BY <1>2
  <1>8. \A r \in Place : B[r] = IF r = p THEN b ELSE bin[r]
    BY <1>1, <1>7 DEF BinsOK
  <1>9. BinsOK'
    BY <1>1, <1>2, <1>6, <1>7 DEF BinsOK
  <1>10. ASSUME NEW r \in Place
         PROVE  B[r].allocated = ToTake(tasks, r) /\ B[r].allocated <= B[r].quantity
    BY <1>1, <1>5, <1>8, <1>10 DEF AllocationsMatchTasks
  <1>11. AllocationsMatchTasks'
    BY <1>2, <1>10 DEF AllocationsMatchTasks
  <1> QED
    BY <1>9, <1>11

LEMMA PutIntoOK ==
  ASSUME Inv, NEW p \in Place, NEW q \in Nat, PutInto(p, q), tasks' = tasks
  PROVE  BinsOK' /\ AllocationsMatchTasks'
PROOF
  <1>1. bin[p].quantity \in Nat /\ bin[p].allocated \in Nat /\ bin[p].allocated <= bin[p].quantity
    BY BinAt, PartsOfInv
  <1>2. PICK n : n = bin[p].quantity + q
    OBVIOUS
  <1>3. n \in Int /\ n >= bin[p].allocated
    BY <1>1, <1>2
  <1>4. bin' = [bin EXCEPT ![p].quantity = n]
    BY <1>2 DEF PutInto
  <1> QED
    BY <1>3, <1>4, BinRefilled

LEMMA QuantityIs ==
  ASSUME NEW q \in Quantities
  PROVE  q \in Nat /\ q > 0
  BY WarehouseAssumption

LEMMA ReceiveScanStep ==
  ASSUME Inv, NEW d \in Inbound, NEW s \in Sku, NEW q \in Quantities, NEW damaged \in BOOLEAN,
         ReceiveScan(d, s, q, damaged)
  PROVE  Inv'
PROOF
  <1>1. /\ docs[d].status = "RECEIVING"
        /\ UNCHANGED <<status, bal, bin, tasks, waves, packed, counts, scan>>
    BY DEF ReceiveScan
  <1>2. PICK e : e = docs[d]
    OBVIOUS
  <1>3. PICK r, m : r = [e.received EXCEPT ![s] = @ + q] /\ m = [e.damaged EXCEPT ![s] = @ + q]
    OBVIOUS
  <1>4. docs' = IF damaged THEN [docs EXCEPT ![d] = [e EXCEPT !.damaged = m]]
                           ELSE [docs EXCEPT ![d] = [e EXCEPT !.received = r]]
    BY <1>2, <1>3 DEF ReceiveScan
  <1>5. /\ DocumentRow(e) /\ e \in Documents /\ e.received \in [Sku -> Nat]
        /\ e.damaged \in [Sku -> Nat] /\ e.placed \in [Sku -> Nat]
    BY <1>2, DocumentHere
  <1>6. /\ r \in [Sku -> Nat] /\ m \in [Sku -> Nat] /\ \A t \in Sku : e.received[t] <= r[t]
    BY <1>3, <1>5, QuantityIs
  <1>7. DocumentRow([e EXCEPT !.damaged = m])
    BY <1>5, <1>6 DEF DocumentRow, Documents
  <1>8. DocumentRow([e EXCEPT !.received = r])
    <2>1. PICK f : f = [e EXCEPT !.received = r]
      OBVIOUS
    <2>2. f \in Documents /\ f.received = r /\ f.placed = e.placed /\ f.status = e.status
      BY <1>5, <1>6, <2>1 DEF Documents
    <2>3. ASSUME NEW t \in Sku
          PROVE  e.placed[t] <= r[t] /\ (e.placed[t] > 0 => e.status = "COMPLETED")
      <3>1. e.placed[t] \in Nat /\ e.received[t] \in Nat /\ r[t] \in Nat /\ e.received[t] <= r[t]
        BY <1>5, <1>6
      <3>2. e.placed[t] <= e.received[t] /\ (e.placed[t] > 0 => e.status = "COMPLETED")
        BY <1>5 DEF DocumentRow
      <3> QED
        BY <3>1, <3>2
    <2>4. DocumentRow(f)
      BY <2>2, <2>3 DEF DocumentRow
    <2> QED
      BY <2>1, <2>4
  <1>9. DocsOK'
    <2>1. CASE damaged
      BY <1>4, <1>7, <2>1, DocumentChanged
    <2>2. CASE ~damaged
      BY <1>4, <1>8, <2>2, DocumentChanged
    <2> QED
      BY <2>1, <2>2
  <1> QED
    BY <1>1, <1>9, Kept, PartsOfInv

LEMMA CompleteInboundStep ==
  ASSUME Inv, NEW d \in Inbound, CompleteInbound(d)
  PROVE  Inv'
PROOF
  <1>1. PICK e : e = [docs[d] EXCEPT !.status = "COMPLETED"]
    OBVIOUS
  <1>2. PICK line : line = [s \in Sku |-> Plus(Receipt(docs[d].received[s]),
                                               [Zero EXCEPT !.damaged = docs[d].damaged[s]])]
    OBVIOUS
  <1>3. /\ docs' = [docs EXCEPT ![d] = e] /\ bal' = [s \in Sku |-> Plus(bal[s], line[s])]
        /\ UNCHANGED <<status, bin, tasks, waves, packed, counts, scan>>
    BY <1>1, <1>2 DEF CompleteInbound
  <1>4. DocumentRow(e)
    BY <1>1, DocumentHere DEF DocumentRow, Documents
  <1>5. DocsOK'
    BY <1>3, <1>4, DocumentChanged
  <1>6. ASSUME NEW s \in Sku PROVE Plus(bal[s], line[s]) \in Balances
    <2>1. PICK r, m : r = docs[d].received[s] /\ m = docs[d].damaged[s]
      OBVIOUS
    <2>2. r \in Nat /\ m \in Nat
      BY <2>1, DocumentHere
    <2>3. line[s] = [on_hand |-> r, reserved |-> 0, damaged |-> m, returned |-> 0]
      BY <1>2, <2>1, <2>2 DEF Plus, Receipt, Zero
    <2>4. bal[s] \in Balances
      BY PartsOfInv DEF BalancesOK
    <2> QED
      BY <2>2, <2>3, <2>4 DEF Plus, Balances
  <1>7. BalancesOK'
    BY <1>3, <1>6 DEF BalancesOK
  <1> QED
    BY <1>3, <1>5, <1>7, Kept, PartsOfInv

LEMMA CancelInboundStep ==
  ASSUME Inv, NEW d \in Inbound, CancelInbound(d)
  PROVE  Inv'
PROOF
  <1>1. PICK e : e = [docs[d] EXCEPT !.status = "CANCELLED"]
    OBVIOUS
  <1>2. /\ docs[d].status = "RECEIVING" /\ docs' = [docs EXCEPT ![d] = e]
        /\ UNCHANGED <<status, bal, bin, tasks, waves, packed, counts, scan>>
    BY <1>1 DEF CancelInbound
  <1>3. DocumentRow(e)
    BY <1>1, <1>2, DocumentHere DEF DocumentRow, Documents
  <1>4. DocsOK'
    BY <1>2, <1>3, DocumentChanged
  <1> QED
    BY <1>2, <1>4, Kept, PartsOfInv

LEMMA PutawayTaskStep ==
  ASSUME Inv, NEW d \in Inbound, NEW p \in Place, NEW q \in Quantities, PutawayTask(d, p, q)
  PROVE  Inv'
PROOF
  <1>1. PICK e, s : e = docs[d] /\ s = p[2]
    OBVIOUS
  <1>2. PICK r, f : r = [e.placed EXCEPT ![s] = @ + q] /\ f = [e EXCEPT !.placed = r]
    OBVIOUS
  <1>3. /\ e.status = "COMPLETED" /\ q <= e.received[s] - e.placed[s] /\ PutInto(p, q)
        /\ docs' = [docs EXCEPT ![d] = f]
        /\ UNCHANGED <<status, bal, tasks, waves, packed, counts, scan>>
    BY <1>1, <1>2 DEF PutawayTask, Putaway
  <1>4. /\ DocumentRow(e) /\ e \in Documents /\ e.received \in [Sku -> Nat]
        /\ e.damaged \in [Sku -> Nat] /\ e.placed \in [Sku -> Nat] /\ s \in Sku
    BY <1>1, DocumentHere DEF Place
  <1>5. q \in Nat
    BY QuantityIs
  <1>6. r \in [Sku -> Nat] /\ \A t \in Sku : r[t] <= e.received[t]
    <2>1. r \in [Sku -> Nat] /\ \A t \in Sku : r[t] = IF t = s THEN e.placed[t] + q ELSE e.placed[t]
      BY <1>2, <1>4, <1>5
    <2>2. \A t \in Sku : /\ e.placed[t] \in Nat /\ e.received[t] \in Nat
                          /\ e.placed[t] <= e.received[t]
      BY <1>4 DEF DocumentRow
    <2> QED
      BY <1>3, <1>4, <1>5, <2>1, <2>2
  <1>7. DocumentRow(f)
    BY <1>2, <1>3, <1>4, <1>6 DEF DocumentRow, Documents
  <1>8. DocsOK'
    BY <1>3, <1>7, DocumentChanged
  <1>9. BinsOK' /\ AllocationsMatchTasks'
    BY <1>3, <1>5, PutIntoOK
  <1> QED
    BY <1>3, <1>8, <1>9, Kept, PartsOfInv

LEMMA FreePutawayStep ==
  ASSUME Inv, NEW p \in Place, NEW q \in Quantities, FreePutaway(p, q)
  PROVE  Inv'
PROOF
  <1>1. PutInto(p, q) /\ UNCHANGED <<status, bal, tasks, waves, packed, docs, counts, scan>>
    BY DEF FreePutaway, Putaway
  <1>2. BinsOK' /\ AllocationsMatchTasks'
    BY <1>1, QuantityIs, PutIntoOK
  <1> QED
    BY <1>1, <1>2, Kept, PartsOfInv

(* One balance changes.                                                     *)
LEMMA BalanceChanged ==
  ASSUME Inv, NEW s \in Sku, NEW b \in Balances, bal' = [bal EXCEPT ![s] = b]
  PROVE  BalancesOK'
  BY PartsOfInv DEF BalancesOK

LEMMA ReceiveStockStep ==
  ASSUME Inv, NEW s \in Sku, NEW q \in Quantities, NEW b \in Bin \cup {None}, ReceiveStock(s, q, b)
  PROVE  Inv'
PROOF
  <1>1. PICK e : e = Plus(bal[s], Receipt(q))
    OBVIOUS
  <1>2. /\ bal' = [bal EXCEPT ![s] = e]
        /\ IF b = None THEN UNCHANGED bin ELSE PutInto(<<b, s>>, q)
        /\ UNCHANGED <<status, tasks, waves, packed, docs, counts, scan>>
    BY <1>1 DEF ReceiveStock
  <1>3. bal[s] \in Balances /\ q \in Nat
    BY PartsOfInv, QuantityIs DEF BalancesOK
  <1>4. e \in Balances
    BY <1>1, <1>3 DEF Plus, Receipt, Balances
  <1>5. BalancesOK'
    BY <1>2, <1>4, BalanceChanged
  <1>6. BinsOK' /\ AllocationsMatchTasks'
    <2>1. CASE b = None
      BY <1>2, <2>1, Kept
    <2>2. CASE b # None
      <3>1. <<b, s>> \in Place
        BY <2>2 DEF Place
      <3> QED
        BY <1>2, <1>3, <2>2, <3>1, PutIntoOK
    <2> QED
      BY <2>1, <2>2
  <1> QED
    BY <1>2, <1>5, <1>6, Kept, PartsOfInv

LEMMA AdjustmentIs ==
  ASSUME NEW reason \in Reasons, NEW q \in Quantities
  PROVE  AdjustmentLine(reason, q) \in Deltas /\ AdjustmentLine(reason, q).on_hand \in Int
PROOF
  <1>1. q \in Nat /\ reason \in {"DAMAGED", "WRITE_OFF_DAMAGED", "LOST", "FOUND"}
    BY WarehouseAssumption, QuantityIs
  <1>2. AdjustmentLine(reason, q) \in Deltas
    BY <1>1 DEF AdjustmentLine, Damaging, WriteOff, Adjustment, Deltas
  <1> QED
    BY <1>2 DEF Deltas

LEMMA AdjustStep ==
  ASSUME Inv, NEW s \in Sku, NEW q \in Quantities, NEW b \in Bin \cup {None}, NEW reason \in Reasons,
         Adjust(s, reason, q, b)
  PROVE  Inv'
PROOF
  <1>1. PICK line, e : line = AdjustmentLine(reason, q) /\ e = Plus(bal[s], line)
    OBVIOUS
  <1>2. /\ CanApply(bal[s], line) /\ bal' = [bal EXCEPT ![s] = e] /\ AdjustBin(s, b, line.on_hand)
        /\ UNCHANGED <<status, tasks, waves, packed, docs, counts, scan>>
    BY <1>1 DEF Adjust
  <1>3. bal[s] \in Balances /\ line \in Deltas /\ line.on_hand \in Int
    BY <1>1, PartsOfInv, AdjustmentIs DEF BalancesOK
  <1>4. BalancesOK'
    BY <1>1, <1>2, <1>3, PlusOK, BalanceChanged
  <1>5. BinsOK' /\ AllocationsMatchTasks'
    <2>1. CASE b \in Bin /\ bin[<<b, s>>].quantity + line.on_hand >= bin[<<b, s>>].allocated
               /\ PutInto(<<b, s>>, line.on_hand)
      <3>1. PICK n : n = bin[<<b, s>>].quantity + line.on_hand
        OBVIOUS
      <3>2. <<b, s>> \in Place
        BY <2>1 DEF Place
      <3>3. bin[<<b, s>>].quantity \in Nat
        BY <3>2, BinAt, PartsOfInv
      <3>4. n \in Int /\ n >= bin[<<b, s>>].allocated
        BY <1>3, <2>1, <3>1, <3>3
      <3>5. bin' = [bin EXCEPT ![<<b, s>>].quantity = n]
        BY <2>1, <3>1 DEF PutInto
      <3> QED
        BY <1>2, <3>2, <3>4, <3>5, BinRefilled
    <2>2. CASE bin' = bin
      BY <1>2, <2>2, Kept
    <2> QED
      BY <1>2, <2>1, <2>2 DEF AdjustBin
  <1> QED
    BY <1>2, <1>4, <1>5, Kept, PartsOfInv

-------------------------------------------------------------------------------
(* Cycle counts.                                                            *)

(* The counts and their lines as sets: what was counted at the places that  *)
(* have a line.                                                             *)
Lines  == UNION {[ps -> Nat \cup {None}] : ps \in SUBSET Place}
Sheets == [status : {"NEW", "OPEN", "SUBMITTED", "APPROVED", "CANCELLED"},
           scope : SUBSET Bin, lines : Lines]

LEMMA LinesAre ==
  ASSUME NEW f
  PROVE  f \in Lines <=> \E ps \in SUBSET Place : f \in [ps -> Nat \cup {None}]
  BY DEF Lines

LEMMA CountRowIs ==
  ASSUME NEW n
  PROVE  CountRow(n) <=>
           /\ n \in Sheets
           /\ \A p \in DOMAIN n.lines : p[1] \in n.scope
           /\ n.status \in {"SUBMITTED", "APPROVED"} => \A p \in DOMAIN n.lines : n.lines[p] # None
PROOF
  <1>1. ASSUME n \in Sheets
        PROVE  DOMAIN n.lines \subseteq Place /\ n \in CountRecords(DOMAIN n.lines)
    <2>1. n.lines \in Lines
      BY <1>1 DEF Sheets
    <2>2. PICK ps \in SUBSET Place : n.lines \in [ps -> Nat \cup {None}]
      BY <2>1, LinesAre
    <2>3. DOMAIN n.lines = ps
      BY <2>2
    <2> QED
      BY <1>1, <2>2, <2>3 DEF Sheets, CountRecords
  <1>2. ASSUME DOMAIN n.lines \subseteq Place, n \in CountRecords(DOMAIN n.lines)
        PROVE  n \in Sheets
    <2>1. PICK ps : ps = DOMAIN n.lines
      OBVIOUS
    <2>2. ps \in SUBSET Place /\ n.lines \in [ps -> Nat \cup {None}]
      BY <1>2, <2>1 DEF CountRecords
    <2>3. n.lines \in Lines
      BY <2>2, LinesAre
    <2> QED
      BY <1>2, <2>3 DEF Sheets, CountRecords
  <1> QED
    BY <1>1, <1>2 DEF CountRow

LEMMA CountChanged ==
  ASSUME Inv, NEW n \in Count, NEW e, CountRow(e), counts' = [counts EXCEPT ![n] = e]
  PROVE  CountsOK'
PROOF
  <1>1. CountsOK
    BY PartsOfInv
  <1>2. DOMAIN counts' = Count /\ \A m \in Count : counts'[m] = IF m = n THEN e ELSE counts[m]
    BY <1>1 DEF CountsOK
  <1> QED
    BY <1>1, <1>2 DEF CountsOK

LEMMA CountHere ==
  ASSUME Inv, NEW n \in Count
  PROVE  /\ CountRow(counts[n]) /\ counts[n] \in Sheets /\ counts[n].lines \in Lines
         /\ DOMAIN counts[n].lines \in SUBSET Place
         /\ counts[n].lines \in [DOMAIN counts[n].lines -> Nat \cup {None}]
PROOF
  <1>1. CountRow(counts[n]) /\ counts[n] \in Sheets
    BY PartsOfInv, CountRowIs DEF CountsOK
  <1>2. counts[n].lines \in Lines
    BY <1>1 DEF Sheets, Lines
  <1>3. PICK ps \in SUBSET Place : counts[n].lines \in [ps -> Nat \cup {None}]
    BY <1>2, LinesAre
  <1> QED
    BY <1>1, <1>2, <1>3

(* A count that gets another status is no other count.                      *)
LEMMA CountMoves ==
  ASSUME Inv, NEW n \in Count, NEW st \in {"SUBMITTED", "APPROVED", "CANCELLED"},
         st # "CANCELLED" => \A p \in DOMAIN counts[n].lines : counts[n].lines[p] # None,
         counts' = [counts EXCEPT ![n].status = st]
  PROVE  CountsOK'
PROOF
  <1>1. PICK e, f : e = counts[n] /\ f = [e EXCEPT !.status = st]
    OBVIOUS
  <1>2. CountRow(e) /\ e \in Sheets
    BY <1>1, CountHere
  <1>3. f \in Sheets /\ f.lines = e.lines /\ f.scope = e.scope /\ f.status = st
    BY <1>1, <1>2 DEF Sheets
  <1>4. CountRow(f)
    BY <1>1, <1>2, <1>3, CountRowIs
  <1>5. counts' = [counts EXCEPT ![n] = f]
    BY <1>1
  <1> QED
    BY <1>4, <1>5, CountChanged

LEMMA CreateCountStep ==
  ASSUME Inv, NEW n \in Count, NEW bs \in SUBSET Bin, CreateCount(n, bs)
  PROVE  Inv'
PROOF
  <1>1. PICK ps, ls, e : /\ ps = {q \in Place : q[1] \in bs /\ bin[q].quantity > 0}
                         /\ ls = [p \in ps |-> None]
                         /\ e = [status |-> "OPEN", scope |-> bs, lines |-> ls]
    OBVIOUS
  <1>2. /\ counts' = [counts EXCEPT ![n] = e]
        /\ UNCHANGED <<status, bal, bin, tasks, waves, packed, docs, scan>>
    BY <1>1 DEF CreateCount
  <1>3. ls \in Lines
    <2>1. ps \in SUBSET Place /\ ls \in [ps -> Nat \cup {None}]
      BY <1>1
    <2> QED
      BY <2>1, LinesAre
  <1>4. e \in Sheets
    BY <1>1, <1>3 DEF Sheets, Lines
  <1>5. CountRow(e)
    BY <1>1, <1>4, CountRowIs
  <1>6. CountsOK'
    BY <1>2, <1>5, CountChanged
  <1> QED
    BY <1>2, <1>6, Kept, PartsOfInv

LEMMA RecordCountStep ==
  ASSUME Inv, NEW n \in Count, NEW p \in Place, NEW q \in 0..MaxUnits, RecordCount(n, p, q)
  PROVE  Inv'
PROOF
  <1>1. PICK e : e = counts[n]
    OBVIOUS
  <1>2. PICK ls, f : /\ ls = [r \in DOMAIN e.lines \cup {p} |-> IF r = p THEN q ELSE e.lines[r]]
                     /\ f = [e EXCEPT !.lines = ls]
    OBVIOUS
  <1>3. /\ e.status = "OPEN" /\ p[1] \in e.scope /\ counts' = [counts EXCEPT ![n] = f]
        /\ UNCHANGED <<status, bal, bin, tasks, waves, packed, docs, scan>>
    BY <1>1, <1>2 DEF RecordCount
  <1>4. /\ CountRow(e) /\ e \in Sheets /\ DOMAIN e.lines \in SUBSET Place
        /\ e.lines \in [DOMAIN e.lines -> Nat \cup {None}]
    BY <1>1, CountHere
  <1>5. ls \in Lines
    <2>1. q \in Nat
      BY WarehouseAssumption
    <2>2. DOMAIN e.lines \cup {p} \in SUBSET Place
      BY <1>4
    <2>3. ls \in [DOMAIN e.lines \cup {p} -> Nat \cup {None}]
      BY <1>2, <1>4, <2>1
    <2> QED
      BY <2>2, <2>3, LinesAre
  <1>6. f \in Sheets /\ f.lines = ls /\ f.scope = e.scope /\ f.status = "OPEN"
    BY <1>2, <1>3, <1>4, <1>5 DEF Sheets, Lines
  <1>7. CountRow(f)
    BY <1>2, <1>3, <1>4, <1>6, CountRowIs
  <1>8. CountsOK'
    BY <1>3, <1>7, CountChanged
  <1> QED
    BY <1>3, <1>8, Kept, PartsOfInv

LEMMA SubmitCountStep ==
  ASSUME Inv, NEW n \in Count, SubmitCount(n)
  PROVE  Inv'
PROOF
  <1>1. /\ \A p \in DOMAIN counts[n].lines : counts[n].lines[p] # None
        /\ counts' = [counts EXCEPT ![n].status = "SUBMITTED"]
        /\ UNCHANGED <<status, bal, bin, tasks, waves, packed, docs, scan>>
    BY DEF SubmitCount
  <1>2. CountsOK'
    BY <1>1, CountMoves
  <1> QED
    BY <1>1, <1>2, Kept, PartsOfInv

LEMMA CancelCountStep ==
  ASSUME Inv, NEW n \in Count, CancelCount(n)
  PROVE  Inv'
PROOF
  <1>1. /\ counts' = [counts EXCEPT ![n].status = "CANCELLED"]
        /\ UNCHANGED <<status, bal, bin, tasks, waves, packed, docs, scan>>
    BY DEF CancelCount
  <1>2. CountsOK'
    BY <1>1, CountMoves
  <1> QED
    BY <1>1, <1>2, Kept, PartsOfInv

(* Two countings m and n of the places L that differ at most on those of D, *)
(* the ones up to the last of D included: the rest adds nothing.            *)
LEMMA SameElsewhere ==
  ASSUME NEW m, NEW n, NEW L, NEW D \in SUBSET L, Countable(m, L), Countable(n, L),
         \A x \in L \ D : m[x] = n[x]
  PROVE  SumOver(m, L) - SumOver(n, L) = SumOver(m, D) - SumOver(n, D)
PROOF
  <1>1. /\ Countable(m, D) /\ Countable(n, D) /\ Countable(m, L \ D) /\ Countable(n, L \ D)
    BY SumOfPart
  <1>2. (L \ D) \cup D = L /\ (L \ D) \cap D = {}
    OBVIOUS
  <1>3. SumOver(m, (L \ D) \cup D) = SumOver(m, L \ D) + SumOver(m, D)
    BY <1>1, <1>2, SumUnion
  <1>4. SumOver(n, (L \ D) \cup D) = SumOver(n, L \ D) + SumOver(n, D)
    BY <1>1, <1>2, SumUnion
  <1>5. SumOver(m, L \ D) = SumOver(n, L \ D)
    BY SumSame
  <1>6. /\ SumOver(m, L \ D) \in Nat /\ SumOver(m, D) \in Nat /\ SumOver(n, D) \in Nat
    BY <1>1, SumIsNat
  <1>7. SumOver(m, L) = SumOver(m, L \ D) + SumOver(m, D)
    BY <1>2, <1>3
  <1>8. SumOver(n, L) = SumOver(m, L \ D) + SumOver(n, D)
    BY <1>2, <1>4, <1>5
  <1> QED
    BY <1>6, <1>7, <1>8

(* Every rank is at most the sum of all.                                    *)
LEMMA RankBound ==
  /\ SumOver(IdRank, Bin) \in Nat
  /\ \A b \in Bin : IdRank[b] \in Nat /\ IdRank[b] <= SumOver(IdRank, Bin)
PROOF
  <1>1. Countable(IdRank, Bin)
    BY WarehouseAssumption DEF Countable
  <1>2. SumOver(IdRank, Bin) \in Nat
    BY <1>1, SumIsNat
  <1>3. ASSUME NEW b \in Bin PROVE IdRank[b] \in Nat /\ IdRank[b] <= SumOver(IdRank, Bin)
    <2>1. /\ SumOver(IdRank, Bin) = SumOver(IdRank, Bin \ {b}) + IdRank[b]
          /\ IdRank[b] \in Nat /\ SumOver(IdRank, Bin \ {b}) \in Nat
      BY <1>1, SumSplit
    <2> QED
      BY <2>1
  <1> QED
    BY <1>2, <1>3

LEMMA ApproveCountStep ==
  ASSUME Inv, NEW n \in Count, ApproveCount(n)
  PROVE  Inv'
PROOF
  <1>1. PICK lines, here : lines = counts[n].lines /\ here = [p \in Place |-> bin[p].quantity]
    OBVIOUS
  <1> DEFINE added(ps) == SumOver(lines, ps) - SumOver(here, ps)
             upTo(p) == {r \in DOMAIN lines : r[2] = p[2] /\ IdRank[r[1]] <= IdRank[p[1]]}
             lot(s) == {r \in DOMAIN lines : r[2] = s}
  <1>2. /\ counts[n].status = "SUBMITTED"
        /\ \A p \in DOMAIN lines : lines[p] # bin[p].quantity =>
              /\ lines[p] >= bin[p].allocated
              /\ CanApply(bal[p[2]], Adjustment(added(upTo(p))))
        /\ bin' = [p \in Place |-> IF p \in DOMAIN lines THEN [bin[p] EXCEPT !.quantity = lines[p]]
                                                         ELSE bin[p]]
        /\ bal' = [s \in Sku |-> Plus(bal[s], Adjustment(added(lot(s))))]
        /\ counts' = [counts EXCEPT ![n].status = "APPROVED"]
        /\ UNCHANGED <<status, tasks, waves, packed, docs, scan>>
    BY <1>1 DEF ApproveCount, Accepted
  <1>3. /\ DOMAIN lines \in SUBSET Place /\ \A p \in DOMAIN lines : lines[p] \in Nat
    BY <1>1, <1>2, CountHere DEF CountRow
  <1>4. \A p \in Place : here[p] = bin[p].quantity /\ here[p] \in Nat
    BY <1>1, BinAt, PartsOfInv
  <1>5. ASSUME NEW L \in SUBSET DOMAIN lines
        PROVE  Countable(lines, L) /\ Countable(here, L) /\ added(L) \in Int
    <2>1. IsFiniteSet(L)
      BY <1>3, Finite, FS_Subset
    <2>2. Countable(lines, L) /\ Countable(here, L)
      BY <1>3, <1>4, <2>1 DEF Countable
    <2> QED
      BY <2>2, SumIsNat
  <1>6. \A p \in Place : p[1] \in Bin /\ p[2] \in Sku
    BY DEF Place
  <1>7. ASSUME NEW s \in Sku PROVE Plus(bal[s], Adjustment(added(lot(s)))) \in Balances
    <2>1. PICK D : D = {r \in lot(s) : lines[r] # here[r]}
      OBVIOUS
    <2>2. lot(s) \in SUBSET DOMAIN lines /\ D \in SUBSET lot(s) /\ D \in SUBSET DOMAIN lines
      BY <2>1
    <2>3. added(lot(s)) = added(D)
      BY <1>5, <2>1, <2>2, SameElsewhere
    <2>4. bal[s] \in Balances
      BY PartsOfInv DEF BalancesOK
    <2>5. CASE D = {}
      <3>1. added(D) = 0
        BY <2>5, SumOfNone
      <3> QED
        BY <2>3, <2>4, <3>1 DEF Plus, Adjustment, Balances
    <2>6. CASE D # {}
      <3>1. PICK m, b : m = [r \in Place |-> IdRank[r[1]]] /\ b = SumOver(IdRank, Bin)
        OBVIOUS
      <3>2. b \in Nat /\ \A r \in Place : m[r] \in Nat /\ m[r] <= b /\ m[r] = IdRank[r[1]]
        BY <1>6, <3>1, RankBound
      <3>3. \A r \in D : m[r] \in Nat /\ m[r] <= b
        BY <1>3, <2>2, <3>2
      <3>4. PICK p \in D : \A r \in D : m[r] <= m[p]
        BY <2>6, <3>2, <3>3, LargestExists
      <3>5. p \in DOMAIN lines /\ p \in Place /\ p[2] = s /\ lines[p] # bin[p].quantity
        BY <1>3, <1>4, <2>1, <2>2
      <3>6. upTo(p) \in SUBSET lot(s) /\ D \in SUBSET upTo(p) /\ upTo(p) \in SUBSET DOMAIN lines
        BY <1>3, <2>1, <2>2, <3>2, <3>4, <3>5
      <3>7. \A r \in upTo(p) \ D : lines[r] = here[r]
        BY <2>1, <3>6
      <3>8. added(upTo(p)) = added(D)
        BY <1>5, <3>6, <3>7, SameElsewhere
      <3>9. CanApply(bal[s], Adjustment(added(D)))
        BY <1>2, <3>5, <3>8
      <3>10. added(D) \in Int
        BY <1>5, <2>2
      <3> HIDE DEF added
      <3>11. Adjustment(added(D)) \in Deltas
        BY <3>10 DEF Adjustment, Deltas
      <3> QED
        BY <2>3, <2>4, <3>9, <3>11, PlusOK
    <2> QED
      BY <2>5, <2>6
  <1>8. BalancesOK'
    <2> HIDE DEF added, lot
    <2> QED
      BY <1>2, <1>7 DEF BalancesOK
  <1>9. PICK B : B = bin'
    OBVIOUS
  <1>10. ASSUME NEW p \in Place
         PROVE  /\ B[p] \in BinRows /\ B[p].allocated = bin[p].allocated
                /\ B[p].allocated <= B[p].quantity
    <2>1. /\ bin[p] \in BinRecords /\ bin[p].allocated <= bin[p].quantity
          /\ bin[p].allocated \in Nat /\ bin[p].quantity \in Nat /\ bin[p] \in BinRows
      BY BinAt, PartsOfInv
    <2>2. CASE p \in DOMAIN lines
      <3>1. B[p] = [bin[p] EXCEPT !.quantity = lines[p]]
        BY <1>2, <1>9, <2>2
      <3>2. lines[p] \in Nat /\ lines[p] >= bin[p].allocated
        BY <1>2, <1>3, <2>1, <2>2
      <3>3. B[p] \in BinRecords /\ B[p].allocated = bin[p].allocated /\ B[p].quantity = lines[p]
        BY <2>1, <3>1, <3>2 DEF BinRecords
      <3> QED
        BY <3>2, <3>3 DEF BinRows
    <2>3. CASE p \notin DOMAIN lines
      BY <1>2, <1>9, <2>1, <2>3
    <2> QED
      BY <2>2, <2>3
  <1>11. BinsOK'
    <2>1. B = [p \in Place |-> B[p]]
      BY <1>2, <1>9
    <2> QED
      BY <1>9, <1>10, <2>1 DEF BinsOK
  <1>12. AllocationsMatchTasks'
    <2>1. \A p \in Place : B[p].allocated = ToTake(tasks, p)
      BY <1>10, PartsOfInv DEF AllocationsMatchTasks
    <2> QED
      BY <1>2, <1>9, <1>10, <2>1 DEF AllocationsMatchTasks
  <1>13. CountsOK'
    <2>1. \A p \in DOMAIN counts[n].lines : counts[n].lines[p] # None
      BY <1>2, CountHere DEF CountRow
    <2> QED
      BY <1>2, <2>1, CountMoves
  <1> QED
    BY <1>2, <1>8, <1>11, <1>12, <1>13, Kept, PartsOfInv

-------------------------------------------------------------------------------
(* The invariant holds.                                                     *)

LEMMA InitInv == Init => Inv
PROOF
  <1> SUFFICES ASSUME Init PROVE Inv
    OBVIOUS
  <1>1. StatusOK
    BY DEF Init, StatusOK
  <1>2. BalancesOK
    BY DEF Init, BalancesOK, Zero, Balances
  <1>3. BinsOK
    BY DEF Init, BinsOK, BinRows, BinRecords
  <1>4. TasksOK /\ Unfinished
    BY DEF Init, TasksOK, Unfinished
  <1>5. PackedOK
    BY WarehouseAssumption DEF Init, PackedOK, PackRow
  <1>6. DocsOK
    <2>1. PICK nothing : nothing = [s \in Sku |-> 0]
      OBVIOUS
    <2>2. PICK e : e = [status |-> "RECEIVING", received |-> nothing, damaged |-> nothing, placed |-> nothing]
      OBVIOUS
    <2>3. docs = [d \in Inbound |-> e]
      BY <2>1, <2>2 DEF Init
    <2>4. DocumentRow(e)
      BY <2>1, <2>2 DEF DocumentRow, Documents
    <2> QED
      BY <2>3, <2>4 DEF DocsOK
  <1>7. CountsOK
    <2>1. PICK e : e = [status |-> "NEW", scope |-> {}, lines |-> <<>>]
      OBVIOUS
    <2>2. counts = [n \in Count |-> e]
      BY <2>1 DEF Init
    <2>3. <<>> \in Lines
      <3>1. <<>> \in [{} -> Nat \cup {None}] /\ {} \in SUBSET Place
        OBVIOUS
      <3> QED
        BY <3>1, LinesAre
    <2>4. e \in Sheets
      BY <2>1, <2>3 DEF Sheets, Lines
    <2>5. CountRow(e)
      BY <2>1, <2>4, CountRowIs
    <2> QED
      BY <2>2, <2>5 DEF CountsOK
  <1>8. ScansOK
    BY DEF Init, ScansOK, Free, Scans
  <1>9. Sane
    BY DEF Init, Sane, Apart, ScanOK, Free
  <1>10. AllocationsMatchTasks
    <2>1. \A p : ToTake(<<>>, p) = 0
      BY SumOfNone DEF ToTake
    <2> QED
      BY <2>1 DEF Init, AllocationsMatchTasks
  <1> QED
    BY <1>1, <1>2, <1>3, <1>4, <1>5, <1>6, <1>7, <1>8, <1>9, <1>10, PartsOfInv

LEMMA PickingStep ==
  ASSUME Inv, NEW c \in Scanner, Picking(c)
  PROVE  Inv'
PROOF
  <1>1. CASE \E i \in DOMAIN tasks : \/ \E q \in 1..tasks[i].quantity : Pick(c, i, q)
                                     \/ Short(c, i) \/ Repick(c, i)
    <2> PICK i \in DOMAIN tasks : \/ \E q \in 1..tasks[i].quantity : Pick(c, i, q)
                                  \/ Short(c, i) \/ Repick(c, i)
      BY <1>1
    <2> QED
      BY PickStep, ShortStep, RepickStep
  <1>2. CASE CommitPick(c)
    BY <1>2, CommitPickStep
  <1>3. CASE CommitShort(c)
    BY <1>3, CommitShortStep
  <1>4. CASE CommitRepick(c)
    BY <1>4, CommitRepickStep
  <1>5. CASE Rollback(c)
    BY <1>5, RollbackStep
  <1> QED
    BY <1>1, <1>2, <1>3, <1>4, <1>5 DEF Picking

LEMMA FulfillingStep ==
  ASSUME Inv, Fulfilling
  PROVE  Inv'
PROOF
  <1>1. CASE \E o \in Order : \/ Allocate(o) \/ Ship(o) \/ PackComplete(o)
                              \/ \E s \in Sku : \E q \in 1..Need[o][s] : PackScan(o, s, q)
    <2> PICK o \in Order : \/ Allocate(o) \/ Ship(o) \/ PackComplete(o)
                           \/ \E s \in Sku : \E q \in 1..Need[o][s] : PackScan(o, s, q)
      BY <1>1
    <2>1. CASE \E s \in Sku : \E q \in 1..Need[o][s] : PackScan(o, s, q)
      <3>1. PICK s \in Sku : \E q \in 1..Need[o][s] : PackScan(o, s, q)
        BY <2>1
      <3>2. PICK q \in 1..Need[o][s] : PackScan(o, s, q)
        BY <3>1
      <3> QED
        BY <3>2, PackScanStep
    <2> QED
      BY <2>1, AllocateStep, ShipStep, PackCompleteStep
  <1>2. CASE \E os \in SUBSET Order : CreateWave(os)
    BY <1>2, CreateWaveStep
  <1>3. CASE \E i \in DOMAIN tasks : ResolveWithNote(i)
    BY <1>3, ResolveWithNoteStep
  <1> QED
    BY <1>1, <1>2, <1>3 DEF Fulfilling

LEMMA ReceivingStep ==
  ASSUME Inv, Receiving
  PROVE  Inv'
PROOF
  <1>1. CASE \E d \in Inbound : \/ CompleteInbound(d) \/ CancelInbound(d)
                                \/ \E s \in Sku, q \in Quantities, damaged \in BOOLEAN :
                                     ReceiveScan(d, s, q, damaged)
                                \/ \E p \in Place, q \in Quantities : PutawayTask(d, p, q)
    <2> PICK d \in Inbound : \/ CompleteInbound(d) \/ CancelInbound(d)
                             \/ \E s \in Sku, q \in Quantities, damaged \in BOOLEAN :
                                  ReceiveScan(d, s, q, damaged)
                             \/ \E p \in Place, q \in Quantities : PutawayTask(d, p, q)
      BY <1>1
    <2>1. CASE \E s \in Sku, q \in Quantities, damaged \in BOOLEAN : ReceiveScan(d, s, q, damaged)
      BY <2>1, ReceiveScanStep
    <2>2. CASE \E p \in Place, q \in Quantities : PutawayTask(d, p, q)
      BY <2>2, PutawayTaskStep
    <2> QED
      BY <2>1, <2>2, CompleteInboundStep, CancelInboundStep
  <1>2. CASE \E p \in Place, q \in Quantities : FreePutaway(p, q)
    BY <1>2, FreePutawayStep
  <1>3. CASE \E s \in Sku, q \in Quantities, b \in Bin \cup {None} :
               \/ ReceiveStock(s, q, b)
               \/ \E reason \in Reasons : Adjust(s, reason, q, b)
    <2> PICK s \in Sku, q \in Quantities, b \in Bin \cup {None} :
               \/ ReceiveStock(s, q, b)
               \/ \E reason \in Reasons : Adjust(s, reason, q, b)
      BY <1>3
    <2> QED
      BY ReceiveStockStep, AdjustStep
  <1> QED
    BY <1>1, <1>2, <1>3 DEF Receiving

LEMMA CountingStep ==
  ASSUME Inv, Counting
  PROVE  Inv'
PROOF
  <1> PICK n \in Count : \/ SubmitCount(n) \/ ApproveCount(n) \/ CancelCount(n)
                         \/ \E bs \in SUBSET Bin : CreateCount(n, bs)
                         \/ \E p \in Place, q \in 0..MaxUnits : RecordCount(n, p, q)
    BY DEF Counting
  <1>1. CASE \E bs \in SUBSET Bin : CreateCount(n, bs)
    BY <1>1, CreateCountStep
  <1>2. CASE \E p \in Place, q \in 0..MaxUnits : RecordCount(n, p, q)
    BY <1>2, RecordCountStep
  <1> QED
    BY <1>1, <1>2, SubmitCountStep, ApproveCountStep, CancelCountStep

LEMMA NextInv == Inv /\ [Next]_vars => Inv'
PROOF
  <1> SUFFICES ASSUME Inv, [Next]_vars PROVE Inv'
    OBVIOUS
  <1>1. CASE \E c \in Scanner : Picking(c)
    BY <1>1, PickingStep
  <1>2. CASE Fulfilling
    BY <1>2, FulfillingStep
  <1>3. CASE Receiving
    BY <1>3, ReceivingStep
  <1>4. CASE Counting
    BY <1>4, CountingStep
  <1>5. CASE UNCHANGED vars
    BY <1>5, Kept, PartsOfInv DEF vars
  <1> QED
    BY <1>1, <1>2, <1>3, <1>4, <1>5 DEF Next

LEMMA InvHolds == Spec => []Inv
PROOF
  <1> QED
    BY InitInv, NextInv, PTL DEF Spec

(* Every row of the warehouse is one its table accepts, at every commit:    *)
(* none of its handlers fails on a CHECK or a key.                          *)
THEOREM TypeCorrect == Spec => []TypeOK
PROOF
  <1>1. Inv => TypeOK
    BY DEF Inv
  <1> QED
    BY <1>1, InvHolds, PTL

(* What is allocated in a bin is what its open pick tasks still have to     *)
(* take, and it is there, however picks, shorts, new tasks, counts and      *)
(* corrections interleave.                                                  *)
THEOREM AllocationsCorrect == Spec => []AllocationsMatchTasks
PROOF
  <1>1. Inv => AllocationsMatchTasks
    BY DEF Inv
  <1> QED
    BY <1>1, InvHolds, PTL

-------------------------------------------------------------------------------
(* What the bins hold.                                                      *)

(* The units of SKU s in bins as in B, and of the orders shipped as in st.  *)
Held(B, s) == SumOver([b \in Bin |-> B[<<b, s>>].quantity], Bin)
Gone(st, s) == SumOver([o \in Order |-> Need[o][s]], {o \in Order : st[o] = "SHIPPED"})

LEMMA BinsBackedIs ==
  /\ BinsBacked <=> \A s \in Sku : Held(bin, s) <= bal[s].on_hand + Gone(status, s)
  /\ BinsBacked' <=> \A s \in Sku : Held(bin', s) <= bal'[s].on_hand + Gone(status', s)
  /\ \A s : InBins(s) = Held(bin, s)
  BY DEF BinsBacked, InBins, Shipped, Held, Gone

LEMMA PlaceOf ==
  ASSUME NEW b \in Bin, NEW s \in Sku
  PROVE  <<b, s>> \in Place
  BY DEF Place

LEMMA HeldIsNat ==
  ASSUME NEW B, \A p \in Place : B[p].quantity \in Nat, NEW s \in Sku
  PROVE  Countable([b \in Bin |-> B[<<b, s>>].quantity], Bin) /\ Held(B, s) \in Nat
PROOF
  <1>1. PICK n : n = [b \in Bin |-> B[<<b, s>>].quantity]
    OBVIOUS
  <1>2. \A b \in Bin : n[b] \in Nat
    BY <1>1, PlaceOf
  <1>3. Countable(n, Bin)
    BY <1>2, WarehouseAssumption DEF Countable
  <1> QED
    BY <1>1, <1>3, SumIsNat DEF Held

(* Bins of the same contents.                                               *)
LEMMA HeldSame ==
  ASSUME NEW B, NEW C, \A p \in Place : B[p].quantity = C[p].quantity
  PROVE  \A s \in Sku : Held(B, s) = Held(C, s)
PROOF
  <1> SUFFICES ASSUME NEW s \in Sku PROVE Held(B, s) = Held(C, s)
    OBVIOUS
  <1>1. PICK n, m : n = [b \in Bin |-> B[<<b, s>>].quantity] /\ m = [b \in Bin |-> C[<<b, s>>].quantity]
    OBVIOUS
  <1>2. \A b \in Bin : n[b] = m[b]
    BY <1>1, PlaceOf
  <1> QED
    BY <1>1, <1>2, SumSame DEF Held

(* The contents of one bin change.                                          *)
LEMMA HeldChanged ==
  ASSUME NEW B, NEW C, \A p \in Place : B[p].quantity \in Nat, NEW b \in Bin, NEW s \in Sku, NEW d,
         C[<<b, s>>].quantity \in Nat, C[<<b, s>>].quantity = B[<<b, s>>].quantity + d, d \in Int,
         \A p \in Place : p # <<b, s>> => C[p].quantity = B[p].quantity
  PROVE  Held(C, s) = Held(B, s) + d /\ \A r \in Sku \ {s} : Held(C, r) = Held(B, r)
PROOF
  <1>1. PICK n, m : n = [e \in Bin |-> B[<<e, s>>].quantity] /\ m = [e \in Bin |-> C[<<e, s>>].quantity]
    OBVIOUS
  <1>2. \A p \in Place : C[p].quantity \in Nat
    OBVIOUS
  <1>3. Countable(n, Bin) /\ Countable(m, Bin) /\ Held(B, s) \in Nat
    BY <1>1, <1>2, HeldIsNat
  <1>4. \A e \in Bin \ {b} : n[e] = m[e]
    BY <1>1, PlaceOf
  <1>5. SumOver(m, Bin) = SumOver(n, Bin) - n[b] + m[b]
    BY <1>3, <1>4, SumChanged
  <1>6. n[b] \in Nat /\ m[b] = n[b] + d
    BY <1>1, PlaceOf
  <1>7. SumOver(n, Bin) = Held(B, s) /\ SumOver(m, Bin) = Held(C, s)
    BY <1>1 DEF Held
  <1>8. Held(C, s) = Held(B, s) + d
    BY <1>3, <1>5, <1>6, <1>7
  <1>9. ASSUME NEW r \in Sku \ {s} PROVE Held(C, r) = Held(B, r)
    <2>1. PICK f, g : f = [e \in Bin |-> B[<<e, r>>].quantity] /\ g = [e \in Bin |-> C[<<e, r>>].quantity]
      OBVIOUS
    <2>2. \A e \in Bin : <<e, r>> \in Place /\ <<e, r>> # <<b, s>>
      BY PlaceOf
    <2>3. \A e \in Bin : g[e] = f[e]
      BY <2>1, <2>2
    <2> QED
      BY <2>1, <2>3, SumSame DEF Held
  <1> QED
    BY <1>8, <1>9

LEMMA GoneIsNat ==
  ASSUME NEW st, NEW s \in Sku
  PROVE  /\ Gone(st, s) \in Nat
         /\ Countable([o \in Order |-> Need[o][s]], {o \in Order : st[o] = "SHIPPED"})
PROOF
  <1>1. PICK n, T : n = [o \in Order |-> Need[o][s]] /\ T = {o \in Order : st[o] = "SHIPPED"}
    OBVIOUS
  <1>2. \A o \in T : n[o] \in Nat
    BY <1>1, WarehouseAssumption
  <1>3. Countable(n, T)
    BY <1>1, <1>2, Finite, FS_Subset DEF Countable
  <1> QED
    BY <1>1, <1>3, SumIsNat DEF Gone

(* The same orders are shipped.                                             *)
LEMMA GoneSame ==
  ASSUME NEW st, NEW tt, \A o \in Order : st[o] = "SHIPPED" <=> tt[o] = "SHIPPED"
  PROVE  \A s : Gone(st, s) = Gone(tt, s)
PROOF
  <1>1. {o \in Order : st[o] = "SHIPPED"} = {o \in Order : tt[o] = "SHIPPED"}
    OBVIOUS
  <1> QED
    BY <1>1 DEF Gone

(* Order o is shipped too.                                                  *)
LEMMA GoneMore ==
  ASSUME NEW st, NEW tt, NEW o \in Order, st[o] # "SHIPPED", tt[o] = "SHIPPED",
         \A q \in Order \ {o} : st[q] = tt[q], NEW s \in Sku
  PROVE  Gone(tt, s) = Gone(st, s) + Need[o][s]
PROOF
  <1>1. PICK n, T, U : /\ n = [q \in Order |-> Need[q][s]]
                       /\ T = {q \in Order : st[q] = "SHIPPED"} /\ U = {q \in Order : tt[q] = "SHIPPED"}
    OBVIOUS
  <1>2. U = T \cup {o} /\ o \notin T
    BY <1>1
  <1>3. Countable(n, T)
    BY <1>1, GoneIsNat
  <1>3a. n[o] = Need[o][s] /\ n[o] \in Nat
    BY <1>1, WarehouseAssumption
  <1>4. SumOver(n, T \cup {o}) = SumOver(n, T) + n[o]
    BY <1>2, <1>3, <1>3a, SumAdded
  <1> QED
    BY <1>1, <1>2, <1>3a, <1>4 DEF Gone

LEMMA HeldHere ==
  ASSUME Inv, NEW s \in Sku
  PROVE  /\ Held(bin, s) \in Nat /\ Gone(status, s) \in Nat
         /\ bal[s] \in Balances /\ bal[s].on_hand \in Nat
         /\ \A p \in Place : bin[p].quantity \in Nat
PROOF
  <1>1. \A p \in Place : bin[p].quantity \in Nat
    BY BinAt, PartsOfInv
  <1>2. bal[s] \in Balances
    BY PartsOfInv DEF BalancesOK
  <1> QED
    BY <1>1, <1>2, HeldIsNat, GoneIsNat DEF Balances

(* A step after which the bins hold no more, and no less is on hand or gone.*)
LEMMA StillBacked ==
  ASSUME Inv, BinsBacked, NEW B, NEW C, NEW st, B = bin', C = bal', st = status',
         \A s \in Sku : Held(B, s) <= Held(bin, s),
         \A s \in Sku : C[s].on_hand + Gone(st, s) >= bal[s].on_hand + Gone(status, s),
         \A s \in Sku : Held(B, s) \in Nat /\ C[s].on_hand \in Int /\ Gone(st, s) \in Nat
  PROVE  BinsBacked'
PROOF
  <1>1. ASSUME NEW s \in Sku PROVE Held(B, s) <= C[s].on_hand + Gone(st, s)
    <2>1. /\ Held(bin, s) \in Nat /\ bal[s].on_hand \in Nat /\ Gone(status, s) \in Nat
          /\ Held(bin, s) <= bal[s].on_hand + Gone(status, s)
      BY HeldHere, BinsBackedIs
    <2> QED
      BY <2>1
  <1> QED
    BY <1>1, BinsBackedIs

(* Nothing leaves the building and nothing is put in a bin.                 *)
LEMMA BackedWithSameBins ==
  ASSUME Inv, Inv', BinsBacked,
         \A p \in Place : bin'[p].quantity = bin[p].quantity,
         \A s \in Sku : bal'[s].on_hand >= bal[s].on_hand,
         \A o \in Order : status'[o] = "SHIPPED" <=> status[o] = "SHIPPED"
  PROVE  BinsBacked'
PROOF
  <1>1. PICK B, C, st : B = bin' /\ C = bal' /\ st = status'
    OBVIOUS
  <1>2. \A s \in Sku : Held(B, s) = Held(bin, s)
    BY <1>1, HeldSame
  <1>3. \A s \in Sku : Gone(st, s) = Gone(status, s)
    BY <1>1, GoneSame
  <1>4. \A s \in Sku : C[s].on_hand \in Int
    BY <1>1, PartsOfInv DEF BalancesOK, Balances
  <1>5. \A s \in Sku : /\ Held(bin, s) \in Nat /\ Gone(status, s) \in Nat /\ bal[s].on_hand \in Nat
    BY HeldHere
  <1>6. \A s \in Sku : C[s].on_hand + Gone(st, s) >= bal[s].on_hand + Gone(status, s)
    BY <1>1, <1>3, <1>4, <1>5
  <1>7. \A s \in Sku : Held(B, s) <= Held(bin, s)
    BY <1>2, <1>5
  <1>8. \A s \in Sku : Held(B, s) \in Nat /\ C[s].on_hand \in Int /\ Gone(st, s) \in Nat
    BY <1>2, <1>3, <1>4, <1>5
  <1> QED
    BY <1>1, <1>6, <1>7, <1>8, StillBacked

(* d units more, or less, in the bin p and, so far as the balance of its    *)
(* SKU knows them, e units more on hand.                                    *)
LEMMA BackedWithOneBin ==
  ASSUME Inv, Inv', BinsBacked, NEW p \in Place, NEW d \in Int, NEW e \in Int,
         bin'[p].quantity = bin[p].quantity + d,
         \A r \in Place \ {p} : bin'[r].quantity = bin[r].quantity,
         bal'[p[2]].on_hand = bal[p[2]].on_hand + e,
         \A s \in Sku \ {p[2]} : bal'[s].on_hand = bal[s].on_hand,
         status' = status,
         d > e => Held(bin, p[2]) + d <= bal[p[2]].on_hand + e
  PROVE  BinsBacked'
PROOF
  <1>1. PICK B, C : B = bin' /\ C = bal'
    OBVIOUS
  <1>2. PICK b \in Bin, s \in Sku : p = <<b, s>>
    BY DEF Place
  <1>3. \A r \in Place : bin[r].quantity \in Nat /\ B[r].quantity \in Nat
    BY <1>1, BinAt, PartsOfInv DEF BinsOK, BinRows, BinRecords
  <1>4. Held(B, s) = Held(bin, s) + d /\ \A r \in Sku \ {s} : Held(B, r) = Held(bin, r)
    <2>1. \A r \in Place : r # <<b, s>> => B[r].quantity = bin[r].quantity
      BY <1>1, <1>2
    <2>2. B[<<b, s>>].quantity = bin[<<b, s>>].quantity + d /\ B[<<b, s>>].quantity \in Nat
      BY <1>1, <1>2, <1>3
    <2> QED
      BY <1>3, <2>1, <2>2, HeldChanged
  <1>5. \A r \in Sku : /\ Held(bin, r) \in Nat /\ Gone(status, r) \in Nat /\ bal[r].on_hand \in Nat
                       /\ Held(bin, r) <= bal[r].on_hand + Gone(status, r)
    BY HeldHere, BinsBackedIs
  <1>6. C[s].on_hand = bal[s].on_hand + e /\ \A r \in Sku \ {s} : C[r].on_hand = bal[r].on_hand
    BY <1>1, <1>2
  <1>7. d > e => Held(bin, s) + d <= bal[s].on_hand + e
    BY <1>2
  <1>8. ASSUME NEW r \in Sku PROVE Held(B, r) <= C[r].on_hand + Gone(status, r)
    <2>1. CASE r = s
      BY <1>4, <1>5, <1>6, <1>7, <2>1
    <2>2. CASE r # s
      BY <1>4, <1>5, <1>6, <2>2
    <2> QED
      BY <2>1, <2>2
  <1> QED
    BY <1>1, <1>8, BinsBackedIs

LEMMA CommitPickBacked ==
  ASSUME Inv, Inv', BinsBacked, NEW c \in Scanner, CommitPick(c)
  PROVE  BinsBacked'
PROOF
  <1>1. PICK k, q : k = tasks[scan[c].task] /\ q = scan[c].qty
    OBVIOUS
  <1>2. /\ scan[c].job = "pick" /\ UNCHANGED <<status, bal>>
        /\ bin' = [p \in Place |-> IF p \in scan[c].locked THEN PickedFrom(bin[p], q) ELSE bin[p]]
    BY <1>1 DEF CommitPick, EndScan
  <1>3. scan[c].locked = Source(k) /\ q \in Nat /\ k \in Tasks
    BY <1>1, <1>2, InHand, TaskHere DEF ScanOK
  <1>4. \A p \in Place : /\ p \in Source(k) => bin'[p].quantity = bin[p].quantity - q
                         /\ p \notin Source(k) => bin'[p].quantity = bin[p].quantity
    <2> SUFFICES ASSUME NEW p \in Place
                 PROVE  /\ p \in Source(k) => bin'[p].quantity = bin[p].quantity - q
                        /\ p \notin Source(k) => bin'[p].quantity = bin[p].quantity
      OBVIOUS
    <2>1. bin[p] \in BinRecords
      BY BinAt, PartsOfInv
    <2>2. PickedFrom(bin[p], q).quantity = bin[p].quantity - q
      BY <2>1 DEF PickedFrom, BinRecords
    <2> QED
      BY <1>2, <1>3, <2>2
  <1>5. \A s \in Sku : bal[s].on_hand \in Nat
    BY HeldHere
  <1>6. CASE Source(k) = {}
    BY <1>2, <1>4, <1>5, <1>6, BackedWithSameBins
  <1>7. CASE Source(k) # {}
    <2>1. PICK p : p \in Source(k)
      BY <1>7
    <2>2. p \in Place /\ Source(k) = {p}
      BY <1>3, <2>1, SourceIs
    <2>3. PICK d, e : d = 0 - q /\ e = 0
      OBVIOUS
    <2>4. d \in Int /\ e \in Int /\ ~(d > e) /\ p[2] \in Sku
      BY <1>3, <2>2, <2>3 DEF Place
    <2>5. bin'[p].quantity = bin[p].quantity + d /\ \A r \in Place \ {p} : bin'[r].quantity = bin[r].quantity
      <3>1. bin[p].quantity \in Nat
        BY <2>2, HeldHere, <2>4
      <3> QED
        BY <1>3, <1>4, <2>2, <2>3, <3>1
    <2>6. bal'[p[2]].on_hand = bal[p[2]].on_hand + e
      BY <1>2, <1>5, <2>3, <2>4
    <2> QED
      BY <1>2, <2>2, <2>4, <2>5, <2>6, BackedWithOneBin
  <1> QED
    BY <1>6, <1>7

LEMMA ShipBacked ==
  ASSUME Inv, Inv', BinsBacked, NEW o \in Order, Ship(o)
  PROVE  BinsBacked'
PROOF
  <1>1. PICK C, st : C = bal' /\ st = status'
    OBVIOUS
  <1>2. /\ status[o] = "READY_TO_SHIP" /\ st = [status EXCEPT ![o] = "SHIPPED"] /\ bin' = bin
        /\ C = [s \in Sku |-> IF s \in Ordered(o) THEN Plus(bal[s], Shipping(Need[o][s])) ELSE bal[s]]
    BY <1>1 DEF Ship, PostOrder
  <1>3. /\ status[o] # "SHIPPED" /\ st[o] = "SHIPPED" /\ \A q \in Order \ {o} : st[q] = status[q]
    BY <1>2, PartsOfInv DEF StatusOK
  <1>4. ASSUME NEW s \in Sku PROVE Held(bin', s) <= C[s].on_hand + Gone(st, s)
    <2>1. Gone(st, s) = Gone(status, s) + Need[o][s]
      BY <1>3, GoneMore
    <2>2. /\ Need[o][s] \in Nat /\ Held(bin, s) \in Nat /\ Gone(status, s) \in Nat /\ bal[s].on_hand \in Nat
          /\ Held(bin, s) <= bal[s].on_hand + Gone(status, s)
      BY WarehouseAssumption, HeldHere, BinsBackedIs
    <2>3. C[s].on_hand = bal[s].on_hand - Need[o][s]
      <3>1. CASE s \in Ordered(o)
        BY <1>2, <2>2, <3>1 DEF Plus, Shipping
      <3>2. CASE s \notin Ordered(o)
        BY <1>2, <2>2, <3>2 DEF Ordered
      <3> QED
        BY <3>1, <3>2
    <2> QED
      BY <1>2, <2>1, <2>2, <2>3
  <1> QED
    BY <1>1, <1>4, BinsBackedIs

(* Units are put away that are in no bin.                                   *)
LEMMA PutawayBacked ==
  ASSUME Inv, Inv', BinsBacked, NEW p \in Place, NEW q \in Nat, Putaway(p, q), UNCHANGED <<status, bal>>
  PROVE  BinsBacked'
PROOF
  <1>1. q <= bal[p[2]].on_hand - Held(bin, p[2]) /\ bin' = [bin EXCEPT ![p].quantity = @ + q]
    BY BinsBackedIs DEF Putaway, Unplaced, PutInto
  <1>2. p[2] \in Sku
    BY DEF Place
  <1>3. bin[p] \in BinRecords /\ bin \in [Place -> BinRows]
    BY BinAt, PartsOfInv DEF BinsOK
  <1>4. bin'[p].quantity = bin[p].quantity + q /\ \A r \in Place \ {p} : bin'[r].quantity = bin[r].quantity
    BY <1>1, <1>3 DEF BinRecords
  <1>5. bal[p[2]].on_hand \in Nat /\ Held(bin, p[2]) \in Nat
    BY <1>2, HeldHere
  <1>6. PICK e : e = 0
    OBVIOUS
  <1>7. e \in Int /\ bal'[p[2]].on_hand = bal[p[2]].on_hand + e /\ Held(bin, p[2]) + q <= bal[p[2]].on_hand + e
    BY <1>1, <1>5, <1>6
  <1>8. status' = status /\ q \in Int /\ \A s \in Sku \ {p[2]} : bal'[s].on_hand = bal[s].on_hand
    OBVIOUS
  <1> QED
    BY <1>4, <1>7, <1>8, BackedWithOneBin

(* A bin and its balance change by as much.                                 *)
LEMMA PutIntoBacked ==
  ASSUME Inv, Inv', BinsBacked, NEW p \in Place, NEW d \in Int, PutInto(p, d), status' = status,
         bal'[p[2]].on_hand = bal[p[2]].on_hand + d,
         \A s \in Sku \ {p[2]} : bal'[s].on_hand = bal[s].on_hand
  PROVE  BinsBacked'
PROOF
  <1>1. bin[p] \in BinRecords /\ bin \in [Place -> BinRows]
    BY BinAt, PartsOfInv DEF BinsOK
  <1>2. bin'[p].quantity = bin[p].quantity + d /\ \A r \in Place \ {p} : bin'[r].quantity = bin[r].quantity
    BY <1>1 DEF PutInto, BinRecords
  <1>3. ~(d > d)
    OBVIOUS
  <1> QED
    BY <1>2, <1>3, BackedWithOneBin

LEMMA ReceiveStockBacked ==
  ASSUME Inv, Inv', BinsBacked, NEW s \in Sku, NEW q \in Quantities, NEW b \in Bin \cup {None},
         ReceiveStock(s, q, b)
  PROVE  BinsBacked'
PROOF
  <1>1. /\ bal' = [bal EXCEPT ![s] = Plus(@, Receipt(q))]
        /\ IF b = None THEN UNCHANGED bin ELSE PutInto(<<b, s>>, q)
        /\ status' = status
    BY DEF ReceiveStock
  <1>2. bal \in [Sku -> Balances] /\ bal[s].on_hand \in Nat /\ q \in Nat
    BY PartsOfInv, HeldHere, QuantityIs DEF BalancesOK
  <1>3. bal'[s].on_hand = bal[s].on_hand + q /\ \A r \in Sku \ {s} : bal'[r] = bal[r]
    BY <1>1, <1>2 DEF Plus, Receipt
  <1>4. CASE b = None
    <2>1. \A r \in Sku : bal'[r].on_hand >= bal[r].on_hand
      BY <1>2, <1>3, HeldHere
    <2> QED
      BY <1>1, <1>4, <2>1, BackedWithSameBins
  <1>5. CASE b # None
    <2>1. PICK p : p = <<b, s>>
      OBVIOUS
    <2>2. p \in Place /\ p[2] = s /\ PutInto(p, q) /\ q \in Int
      BY <1>1, <1>2, <1>5, <2>1, PlaceOf
    <2> QED
      BY <1>1, <1>3, <2>2, PutIntoBacked
  <1> QED
    BY <1>4, <1>5

LEMMA AdjustBacked ==
  ASSUME Inv, Inv', BinsBacked, NEW s \in Sku, NEW q \in Quantities, NEW b \in Bin \cup {None},
         NEW reason \in Reasons, Adjust(s, reason, q, b)
  PROVE  BinsBacked'
PROOF
  <1>1. PICK line, d, C : line = AdjustmentLine(reason, q) /\ d = line.on_hand /\ C = bal'
    OBVIOUS
  <1>2. C = [bal EXCEPT ![s] = Plus(@, line)] /\ AdjustBin(s, b, d) /\ status' = status
    BY <1>1 DEF Adjust
  <1>3. bal \in [Sku -> Balances] /\ bal[s].on_hand \in Nat /\ d \in Int
    BY <1>1, PartsOfInv, HeldHere, AdjustmentIs DEF BalancesOK
  <1>4. C[s].on_hand = bal[s].on_hand + d /\ \A r \in Sku \ {s} : C[r] = bal[r]
    BY <1>1, <1>2, <1>3 DEF Plus
  <1>5. CASE b \in Bin /\ PutInto(<<b, s>>, d)
    <2>1. PICK p : p = <<b, s>>
      OBVIOUS
    <2>2. p \in Place /\ p[2] = s /\ PutInto(p, d)
      BY <1>5, <2>1, PlaceOf
    <2> QED
      BY <1>1, <1>2, <1>3, <1>4, <2>2, PutIntoBacked
  <1>6. CASE (d < 0 => bal[s].on_hand + d >= InBins(s)) /\ bin' = bin
    <2>1. ASSUME NEW r \in Sku PROVE Held(bin, r) <= C[r].on_hand + Gone(status, r)
      <3>1. /\ Held(bin, r) \in Nat /\ Gone(status, r) \in Nat /\ bal[r].on_hand \in Nat
            /\ Held(bin, r) <= bal[r].on_hand + Gone(status, r)
        BY HeldHere, BinsBackedIs
      <3>2. CASE r = s
        <4>1. d < 0 => bal[s].on_hand + d >= Held(bin, s)
          BY <1>6, BinsBackedIs
        <4> QED
          BY <1>3, <1>4, <3>1, <3>2, <4>1
      <3>3. CASE r # s
        BY <1>4, <3>1, <3>3
      <3> QED
        BY <3>2, <3>3
    <2> QED
      BY <1>1, <1>2, <1>6, <2>1, BinsBackedIs
  <1> QED
    BY <1>2, <1>5, <1>6 DEF AdjustBin

(* The bins of SKU s, as places.                                            *)
LEMMA HeldInPlaces ==
  ASSUME NEW B, \A p \in Place : B[p].quantity \in Nat, NEW s \in Sku,
         NEW m, \A p \in Place : m[p] = B[p].quantity,
         NEW T, T = {p \in Place : p[2] = s}
  PROVE  Countable(m, T) /\ Held(B, s) = SumOver(m, T)
PROOF
  <1>1. PICK n, g : n = [b \in Bin |-> B[<<b, s>>].quantity] /\ g = [b \in Bin |-> <<b, s>>]
    OBVIOUS
  <1>2. g \in Bijection(Bin, T)
    <2>1. g \in [Bin -> T] /\ \A a, b \in Bin : g[a] = g[b] => a = b
      BY <1>1, PlaceOf
    <2>2. \A p \in T : p[1] \in Bin /\ p = <<p[1], s>> /\ g[p[1]] = p
      BY <1>1 DEF Place
    <2> QED
      BY <2>1, <2>2 DEF Bijection, Injection, Surjection, IsInjective
  <1>3. Countable(n, Bin)
    BY <1>1, HeldIsNat
  <1>4. \A b \in Bin : m[g[b]] = n[b]
    BY <1>1, PlaceOf
  <1>5. Countable(m, T) /\ SumOver(m, T) = SumOver(n, Bin)
    BY <1>2, <1>3, <1>4, SumRenamed
  <1> QED
    BY <1>1, <1>5 DEF Held

LEMMA ApproveCountBacked ==
  ASSUME Inv, Inv', BinsBacked, NEW n \in Count, ApproveCount(n)
  PROVE  BinsBacked'
PROOF
  <1>1. PICK lines, here, B, C : /\ lines = counts[n].lines /\ here = [p \in Place |-> bin[p].quantity]
                                 /\ B = bin' /\ C = bal'
    OBVIOUS
  <1> DEFINE lot(s) == {r \in DOMAIN lines : r[2] = s}
             added(s) == SumOver(lines, lot(s)) - SumOver(here, lot(s))
  <1>2. /\ counts[n].status = "SUBMITTED"
        /\ B = [p \in Place |-> IF p \in DOMAIN lines THEN [bin[p] EXCEPT !.quantity = lines[p]]
                                                      ELSE bin[p]]
        /\ C = [s \in Sku |-> Plus(bal[s], Adjustment(added(s)))] /\ status' = status
    BY <1>1 DEF ApproveCount
  <1>3. /\ DOMAIN lines \in SUBSET Place /\ \A p \in DOMAIN lines : lines[p] \in Nat
    BY <1>1, <1>2, CountHere DEF CountRow
  <1>4. ASSUME NEW p \in Place
        PROVE  /\ bin[p].quantity \in Nat /\ B[p].quantity \in Nat /\ here[p] = bin[p].quantity
               /\ p \in DOMAIN lines => B[p].quantity = lines[p]
               /\ p \notin DOMAIN lines => B[p].quantity = here[p]
    <2>1. bin[p] \in BinRecords /\ bin[p].quantity \in Nat
      BY BinAt, PartsOfInv
    <2> QED
      BY <1>1, <1>2, <1>3, <2>1 DEF BinRecords
  <1>5. ASSUME NEW s \in Sku PROVE Held(B, s) <= C[s].on_hand + Gone(status, s)
    <2>1. PICK m, T, D : m = [p \in Place |-> B[p].quantity] /\ T = {p \in Place : p[2] = s} /\ D = lot(s)
      OBVIOUS
    <2>2. Countable(here, T) /\ Held(bin, s) = SumOver(here, T)
      BY <1>4, <2>1, HeldInPlaces
    <2>3. Countable(m, T) /\ Held(B, s) = SumOver(m, T)
      BY <1>4, <2>1, HeldInPlaces
    <2>4. D \in SUBSET T /\ D \in SUBSET DOMAIN lines /\ D \in SUBSET Place
      BY <1>3, <2>1
    <2>5. \A p \in T \ D : m[p] = here[p]
      BY <1>4, <2>1
    <2>6. SumOver(m, T) - SumOver(here, T) = SumOver(m, D) - SumOver(here, D)
      BY <2>2, <2>3, <2>4, <2>5, SameElsewhere
    <2>7. \A p \in D : m[p] = lines[p]
      BY <1>4, <2>1, <2>4
    <2>8. SumOver(m, D) = SumOver(lines, D)
      BY <2>7, SumSame
    <2>9. /\ SumOver(m, D) \in Nat /\ SumOver(here, D) \in Nat
      BY <2>2, <2>3, <2>4, SumOfPart, SumIsNat
    <2>10. C[s].on_hand = bal[s].on_hand + (SumOver(lines, D) - SumOver(here, D))
      BY <1>2, <2>1 DEF Plus, Adjustment
    <2>11. /\ Held(bin, s) \in Nat /\ Gone(status, s) \in Nat /\ bal[s].on_hand \in Nat
           /\ Held(bin, s) <= bal[s].on_hand + Gone(status, s)
      BY HeldHere, BinsBackedIs
    <2>12. Held(B, s) \in Nat
      BY <2>3, SumIsNat
    <2> QED
      BY <2>2, <2>3, <2>6, <2>8, <2>9, <2>10, <2>11, <2>12
  <1> QED
    BY <1>1, <1>2, <1>5, BinsBackedIs

(* A step that puts nothing in a bin, takes nothing from stock and ships no *)
(* order.                                                                   *)
SameBins ==
  /\ \A p \in Place : bin'[p].quantity = bin[p].quantity
  /\ \A s \in Sku : bal'[s].on_hand >= bal[s].on_hand
  /\ \A o \in Order : status'[o] = "SHIPPED" <=> status[o] = "SHIPPED"

LEMMA SameBinsBacked ==
  ASSUME Inv, Inv', BinsBacked, SameBins
  PROVE  BinsBacked'
  BY BackedWithSameBins DEF SameBins

LEMMA AllocatingKeeps ==
  ASSUME Inv, NEW ls, NEW p \in Place
  PROVE  Allocating(ls)[p].quantity = bin[p].quantity
PROOF
  <1>1. bin[p] \in BinRecords
    BY BinAt, PartsOfInv
  <1> QED
    BY <1>1 DEF Allocating, BinRecords

LEMMA Untouched ==
  ASSUME Inv
  PROVE  /\ bal' = bal => \A s \in Sku : bal'[s].on_hand >= bal[s].on_hand
         /\ status' = status => \A o \in Order : status'[o] = "SHIPPED" <=> status[o] = "SHIPPED"
         /\ bin' = bin => \A p \in Place : bin'[p].quantity = bin[p].quantity
         /\ \A o \in Order, v \in {"ALLOCATED", "PICKING", "PACKING", "READY_TO_SHIP"} :
              status[o] # "SHIPPED" /\ status' = [status EXCEPT ![o] = v]
                => \A q \in Order : status'[q] = "SHIPPED" <=> status[q] = "SHIPPED"
PROOF
  <1>1. \A s \in Sku : bal[s].on_hand \in Nat
    BY HeldHere
  <1>2. status \in [Order -> {"NEW", "ALLOCATED", "PICKING", "PACKING", "READY_TO_SHIP", "SHIPPED"}]
    BY PartsOfInv DEF StatusOK
  <1> QED
    BY <1>1, <1>2

LEMMA PickingBacked ==
  ASSUME Inv, Inv', BinsBacked, NEW c \in Scanner, Picking(c)
  PROVE  BinsBacked'
PROOF
  <1>1. CASE CommitPick(c)
    BY <1>1, CommitPickBacked
  <1>2. CASE CommitShort(c)
    <2>1. ASSUME NEW p \in Place PROVE bin'[p].quantity = bin[p].quantity
      <3>1. bin'[p] = IF p \in scan[c].locked THEN ReleasedFrom(bin[p], scan[c].qty) ELSE bin[p]
        BY <1>2 DEF CommitShort
      <3>2. bin[p] \in BinRecords
        BY BinAt, PartsOfInv
      <3> QED
        BY <3>1, <3>2 DEF ReleasedFrom, BinRecords
    <2>2. UNCHANGED <<status, bal>>
      BY <1>2 DEF CommitShort, EndScan
    <2> QED
      BY <2>1, <2>2, Untouched, SameBinsBacked DEF SameBins
  <1>3. CASE CommitRepick(c)
    <2>1. PICK ls : bin' = Allocating(ls)
      BY <1>3 DEF CommitRepick
    <2>2. UNCHANGED <<status, bal>>
      BY <1>3 DEF CommitRepick, EndScan
    <2> QED
      BY <2>1, <2>2, AllocatingKeeps, Untouched, SameBinsBacked DEF SameBins
  <1>4. CASE \/ \E i \in DOMAIN tasks : \/ \E q \in 1..tasks[i].quantity : Pick(c, i, q)
                                        \/ Short(c, i) \/ Repick(c, i)
             \/ Rollback(c)
    <2>1. UNCHANGED <<status, bal, bin>>
      BY <1>4 DEF Rollback, Short, Repick, Pick
    <2> QED
      BY <2>1, Untouched, SameBinsBacked DEF SameBins
  <1> QED
    BY <1>1, <1>2, <1>3, <1>4 DEF Picking

LEMMA FulfillingBacked ==
  ASSUME Inv, Inv', BinsBacked, Fulfilling
  PROVE  BinsBacked'
PROOF
  <1>1. CASE \E os \in SUBSET Order : CreateWave(os)
    <2>1. PICK os \in SUBSET Order : CreateWave(os)
      BY <1>1
    <2>2. PICK ls : bin' = Allocating(ls)
      BY <2>1 DEF CreateWave
    <2>3. /\ bal' = bal /\ \A o \in os : status[o] = "ALLOCATED"
          /\ status' = [o \in Order |-> IF o \in os THEN "PICKING" ELSE status[o]]
      BY <2>1 DEF CreateWave
    <2>4. \A o \in Order : status'[o] = "SHIPPED" <=> status[o] = "SHIPPED"
      BY <2>3
    <2> QED
      BY <2>2, <2>3, <2>4, AllocatingKeeps, Untouched, SameBinsBacked DEF SameBins
  <1>2. CASE \E i \in DOMAIN tasks : ResolveWithNote(i)
    <2>1. UNCHANGED <<status, bal, bin>>
      BY <1>2 DEF ResolveWithNote
    <2> QED
      BY <2>1, Untouched, SameBinsBacked DEF SameBins
  <1>3. ASSUME NEW o \in Order, Ship(o) PROVE BinsBacked'
    BY <1>3, ShipBacked
  <1>4. ASSUME NEW o \in Order, Allocate(o) PROVE BinsBacked'
    <2>1. /\ status[o] = "NEW" /\ status' = [status EXCEPT ![o] = "ALLOCATED"] /\ bin' = bin
          /\ bal' = [s \in Sku |-> IF s \in Ordered(o) THEN Plus(bal[s], Reserving(Need[o][s])) ELSE bal[s]]
      BY <1>4 DEF Allocate, PostOrder
    <2>2. \A s \in Sku : bal'[s].on_hand >= bal[s].on_hand
      BY <2>1, HeldHere DEF Plus, Reserving
    <2> QED
      BY <2>1, <2>2, Untouched, SameBinsBacked DEF SameBins
  <1>5. ASSUME NEW o \in Order, PackComplete(o) PROVE BinsBacked'
    <2>1. status[o] = "PACKING" /\ status' = [status EXCEPT ![o] = "READY_TO_SHIP"] /\ UNCHANGED <<bal, bin>>
      BY <1>5 DEF PackComplete
    <2> QED
      BY <2>1, Untouched, SameBinsBacked DEF SameBins
  <1>6. ASSUME NEW o \in Order, NEW s, NEW q, PackScan(o, s, q) PROVE BinsBacked'
    <2>1. /\ status[o] \in {"PICKING", "PACKING"} /\ status' = [status EXCEPT ![o] = "PACKING"]
          /\ UNCHANGED <<bal, bin>>
      BY <1>6 DEF PackScan
    <2> QED
      BY <2>1, Untouched, SameBinsBacked DEF SameBins
  <1> QED
    BY <1>1, <1>2, <1>3, <1>4, <1>5, <1>6 DEF Fulfilling

LEMMA ReceivingBacked ==
  ASSUME Inv, Inv', BinsBacked, Receiving
  PROVE  BinsBacked'
PROOF
  <1>1. ASSUME NEW d \in Inbound, CompleteInbound(d) PROVE BinsBacked'
    <2>1. PICK got, spoilt : got = docs[d].received /\ spoilt = docs[d].damaged
      OBVIOUS
    <2>2. /\ UNCHANGED <<status, bin>>
          /\ bal' = [s \in Sku |-> Plus(bal[s], Plus(Receipt(got[s]), [Zero EXCEPT !.damaged = spoilt[s]]))]
      BY <1>1, <2>1 DEF CompleteInbound
    <2>3. ASSUME NEW s \in Sku PROVE bal'[s].on_hand >= bal[s].on_hand
      <3>1. got[s] \in Nat
        BY <2>1, DocumentHere DEF DocumentRow, Documents
      <3>2. bal'[s].on_hand = bal[s].on_hand + (got[s] + 0)
        BY <2>2 DEF Plus, Receipt, Zero
      <3>3. bal[s].on_hand \in Nat
        BY HeldHere
      <3> QED
        BY <3>1, <3>2, <3>3
    <2> QED
      BY <2>2, <2>3, Untouched, SameBinsBacked DEF SameBins
  <1>2. ASSUME NEW d \in Inbound, CancelInbound(d) PROVE BinsBacked'
    <2>1. UNCHANGED <<status, bal, bin>>
      BY <1>2 DEF CancelInbound
    <2> QED
      BY <2>1, Untouched, SameBinsBacked DEF SameBins
  <1>3. ASSUME NEW d, NEW s, NEW q, NEW damaged, ReceiveScan(d, s, q, damaged) PROVE BinsBacked'
    <2>1. UNCHANGED <<status, bal, bin>>
      BY <1>3 DEF ReceiveScan
    <2> QED
      BY <2>1, Untouched, SameBinsBacked DEF SameBins
  <1>4. ASSUME NEW d, NEW p \in Place, NEW q \in Quantities, PutawayTask(d, p, q) \/ FreePutaway(p, q)
        PROVE  BinsBacked'
    <2>1. Putaway(p, q) /\ UNCHANGED <<status, bal>> /\ q \in Nat
      BY <1>4, QuantityIs DEF PutawayTask, FreePutaway
    <2> QED
      BY <2>1, PutawayBacked
  <1>5. CASE \E s \in Sku, q \in Quantities, b \in Bin \cup {None} :
               \/ ReceiveStock(s, q, b)
               \/ \E reason \in Reasons : Adjust(s, reason, q, b)
    <2> PICK s \in Sku, q \in Quantities, b \in Bin \cup {None} :
               \/ ReceiveStock(s, q, b)
               \/ \E reason \in Reasons : Adjust(s, reason, q, b)
      BY <1>5
    <2> QED
      BY ReceiveStockBacked, AdjustBacked
  <1> QED
    BY <1>1, <1>2, <1>3, <1>4, <1>5 DEF Receiving

LEMMA CountingBacked ==
  ASSUME Inv, Inv', BinsBacked, Counting
  PROVE  BinsBacked'
PROOF
  <1> PICK n \in Count : \/ SubmitCount(n) \/ ApproveCount(n) \/ CancelCount(n)
                         \/ \E bs \in SUBSET Bin : CreateCount(n, bs)
                         \/ \E p \in Place, q \in 0..MaxUnits : RecordCount(n, p, q)
    BY DEF Counting
  <1>1. CASE ApproveCount(n)
    BY <1>1, ApproveCountBacked
  <1>2. CASE \/ SubmitCount(n) \/ CancelCount(n)
             \/ \E bs \in SUBSET Bin : CreateCount(n, bs)
             \/ \E p \in Place, q \in 0..MaxUnits : RecordCount(n, p, q)
    <2>1. UNCHANGED <<status, bal, bin>>
      BY <1>2 DEF SubmitCount, CancelCount, CreateCount, RecordCount
    <2> QED
      BY <2>1, Untouched, SameBinsBacked DEF SameBins
  <1> QED
    BY <1>1, <1>2

LEMMA NextBacked == Inv /\ Inv' /\ BinsBacked /\ [Next]_vars => BinsBacked'
PROOF
  <1> SUFFICES ASSUME Inv, Inv', BinsBacked, [Next]_vars PROVE BinsBacked'
    OBVIOUS
  <1>1. CASE UNCHANGED vars
    <2>1. UNCHANGED <<status, bal, bin>>
      BY <1>1 DEF vars
    <2> QED
      BY <2>1, Untouched, SameBinsBacked DEF SameBins
  <1> QED
    BY <1>1, PickingBacked, FulfillingBacked, ReceivingBacked, CountingBacked DEF Next

LEMMA InitBacked == Init => BinsBacked
PROOF
  <1> SUFFICES ASSUME Init, NEW s \in Sku PROVE Held(bin, s) <= bal[s].on_hand + Gone(status, s)
    BY BinsBackedIs
  <1>1. PICK n : n = [b \in Bin |-> bin[<<b, s>>].quantity]
    OBVIOUS
  <1>2. \A b \in Bin : n[b] = 0
    BY <1>1, PlaceOf DEF Init
  <1>3. Held(bin, s) = 0
    BY <1>1, <1>2, SumOfZeros, WarehouseAssumption DEF Held
  <1>4. bal[s].on_hand = 0
    BY DEF Init, Zero
  <1>5. Gone(status, s) \in Nat
    BY GoneIsNat
  <1> QED
    BY <1>3, <1>4, <1>5

(* The bins agree with the tasks and are covered by the balance and by what *)
(* has been shipped, whatever is counted, corrected or put away meanwhile.  *)
THEOREM BinsCorrect == Spec => []BinsHold
PROOF
  <1>1. Inv /\ BinsBacked => BinsHold
    BY DEF Inv, BinsHold
  <1> QED
    BY <1>1, InitBacked, NextBacked, InvHolds, PTL DEF Spec
-------------------------------------------------------------------------------
(* What the tasks of an order answer for.                                   *)

(* The units task k was made for, apart from those new tasks were made for. *)
Due(k) == IF k.exc = "REPICKED" THEN k.done ELSE k.quantity

(* What those of the tasks ks that are for SKU s of order o have of n.      *)
Amount(ks, n, o, s) == [i \in DOMAIN ks |-> IF IsFor(ks[i], o, s) THEN n[i] ELSE 0]
Total(ks, n, o, s) == SumOver(Amount(ks, n, o, s), DOMAIN ks)

Dones(ks) == [i \in DOMAIN ks |-> ks[i].done]
Losts(ks) == [i \in DOMAIN ks |-> Lost(ks[i])]
Dues(ks)  == [i \in DOMAIN ks |-> Due(ks[i])]

Sought(o, s) == Total(tasks, Dues(tasks), o, s)

LEMMA SumsAre ==
  /\ \A o, s : /\ Picked(o, s) = Total(tasks, Dones(tasks), o, s)
               /\ Missing(o, s) = Total(tasks, Losts(tasks), o, s)
  /\ \A o, s : /\ Picked(o, s)' = Total(tasks', Dones(tasks'), o, s)
               /\ Missing(o, s)' = Total(tasks', Losts(tasks'), o, s)
               /\ Sought(o, s)' = Total(tasks', Dues(tasks'), o, s)
PROOF
  <1>1. ASSUME NEW ks, NEW o, NEW s
        PROVE  /\ SumOver([i \in DOMAIN ks |-> IF IsFor(ks[i], o, s) THEN ks[i].done ELSE 0], DOMAIN ks)
                    = Total(ks, Dones(ks), o, s)
               /\ SumOver([i \in DOMAIN ks |-> IF IsFor(ks[i], o, s) THEN Lost(ks[i]) ELSE 0], DOMAIN ks)
                    = Total(ks, Losts(ks), o, s)
    <2>1. Amount(ks, Dones(ks), o, s) = [i \in DOMAIN ks |-> IF IsFor(ks[i], o, s) THEN ks[i].done ELSE 0]
      BY DEF Amount, Dones
    <2>2. Amount(ks, Losts(ks), o, s) = [i \in DOMAIN ks |-> IF IsFor(ks[i], o, s) THEN Lost(ks[i]) ELSE 0]
      BY DEF Amount, Losts
    <2> QED
      BY <2>1, <2>2 DEF Total
  <1> QED
    BY <1>1 DEF Picked, Missing, Sought

(* n gives each task of ks a number of units.                               *)
Rated(ks, n) == Wellformed(ks) /\ \A i \in DOMAIN ks : n[i] \in Nat

LEMMA TaskUnits ==
  ASSUME NEW ks, Wellformed(ks), NEW i \in DOMAIN ks
  PROVE  /\ ks[i].done \in Nat /\ Lost(ks[i]) \in Nat /\ Due(ks[i]) \in Nat
         /\ ks[i].done + Lost(ks[i]) <= Due(ks[i])
PROOF
  <1>1. /\ ks[i].quantity \in Nat /\ ks[i].done \in Nat /\ ks[i].done <= ks[i].quantity
        /\ Remaining(ks[i]) \in Nat
    BY TaskAt DEF Wellformed
  <1> QED
    BY <1>1 DEF Lost, Due, Remaining

LEMMA AllRated ==
  ASSUME NEW ks, Wellformed(ks)
  PROVE  Rated(ks, Dones(ks)) /\ Rated(ks, Losts(ks)) /\ Rated(ks, Dues(ks))
  BY TaskUnits DEF Rated, Dones, Losts, Dues

LEMMA AmountsCount ==
  ASSUME NEW ks, NEW n, Rated(ks, n), NEW o, NEW s
  PROVE  Countable(Amount(ks, n, o, s), DOMAIN ks) /\ Total(ks, n, o, s) \in Nat
PROOF
  <1>1. ASSUME NEW i \in DOMAIN ks PROVE Amount(ks, n, o, s)[i] \in Nat
    BY DEF Amount, Rated
  <1>2. Countable(Amount(ks, n, o, s), DOMAIN ks)
    BY <1>1, Indices DEF Countable, Rated
  <1> QED
    BY <1>2, SumIsNat DEF Total

(* One task changes.                                                        *)
LEMMA TotalChanged ==
  ASSUME NEW ks, NEW ls, NEW n, NEW m, Rated(ks, n), Rated(ls, m), DOMAIN ls = DOMAIN ks,
         NEW i \in DOMAIN ks, \A j \in DOMAIN ks \ {i} : ls[j] = ks[j] /\ m[j] = n[j],
         ls[i].order = ks[i].order, ls[i].sku = ks[i].sku, NEW o, NEW s
  PROVE  Total(ls, m, o, s) = Total(ks, n, o, s) + (IF IsFor(ks[i], o, s) THEN m[i] - n[i] ELSE 0)
PROOF
  <1>1. PICK f, g : f = Amount(ks, n, o, s) /\ g = Amount(ls, m, o, s)
    OBVIOUS
  <1>2. \A j \in DOMAIN ks \ {i} : f[j] = g[j]
    BY <1>1 DEF Amount
  <1>3. Countable(f, DOMAIN ks) /\ Countable(g, DOMAIN ks)
    BY <1>1, AmountsCount
  <1>4. SumOver(g, DOMAIN ks) = SumOver(f, DOMAIN ks) - f[i] + g[i]
    <2>1. PICK D : D = DOMAIN ks
      OBVIOUS
    <2>2. i \in D /\ Countable(f, D) /\ Countable(g, D) /\ \A j \in D \ {i} : f[j] = g[j]
      BY <1>2, <1>3, <2>1
    <2>3. SumOver(g, D) = SumOver(f, D) - f[i] + g[i]
      BY ONLY <2>2, SumChanged
    <2> QED
      BY <2>1, <2>3
  <1>5. IsFor(ls[i], o, s) <=> IsFor(ks[i], o, s)
    BY DEF IsFor
  <1>6. /\ f[i] = IF IsFor(ks[i], o, s) THEN n[i] ELSE 0
        /\ g[i] = IF IsFor(ks[i], o, s) THEN m[i] ELSE 0
    BY <1>1, <1>5 DEF Amount
  <1>7. SumOver(f, DOMAIN ks) = Total(ks, n, o, s) /\ SumOver(g, DOMAIN ks) = Total(ls, m, o, s)
    BY <1>1 DEF Total
  <1>8. n[i] \in Nat /\ m[i] \in Nat /\ Total(ks, n, o, s) \in Nat
    BY AmountsCount DEF Rated
  <1> QED
    BY <1>4, <1>6, <1>7, <1>8

(* Tasks are added.                                                         *)
Adds(ks, ls, n, m, v) == /\ \A i \in 1..Len(ks) : v[i] = n[i]
                         /\ \A i \in 1..Len(ls) : v[Len(ks) + i] = m[i]

LEMMA TotalJoined ==
  ASSUME NEW ks, NEW ls, NEW n, NEW m, NEW v, Rated(ks, n), Rated(ls, m), Adds(ks, ls, n, m, v), NEW o, NEW s
  PROVE  Total(ks \o ls, v, o, s) = Total(ks, n, o, s) + Total(ls, m, o, s)
PROOF
  <1>0. PICK js, a, b : js = ks \o ls /\ a = Len(ks) /\ b = Len(ls)
    OBVIOUS
  <1>1. PICK c : c = a + b
    OBVIOUS
  <1>2. a \in Nat /\ b \in Nat /\ DOMAIN ks = 1..a /\ DOMAIN ls = 1..b /\ c = a + b
    BY <1>0, <1>1, Indices DEF Rated
  <1>3. PICK f, g, h : f = Amount(ks, n, o, s) /\ g = Amount(ls, m, o, s) /\ h = Amount(js, v, o, s)
    OBVIOUS
  <1>4. (\A i \in 1..a : f[i] \in Nat) /\ (\A i \in 1..b : g[i] \in Nat)
    BY <1>2, <1>3, AmountsCount DEF Countable
  <1>5. /\ DOMAIN js = 1..c
        /\ \A i \in 1..a : js[i] = ks[i]
        /\ \A i \in 1..b : js[a + i] = ls[i]
    BY <1>0, <1>1, Joined DEF Rated
  <1>9. (\A i \in 1..a : v[i] = n[i]) /\ (\A i \in 1..b : v[a + i] = m[i])
    BY <1>0 DEF Adds
  <1>6. \A i \in 1..a : h[i] = f[i]
    BY <1>2, <1>3, <1>5, <1>9 DEF Amount
  <1>7. \A i \in 1..b : h[a + i] = g[i]
    BY <1>2, <1>3, <1>5, <1>9 DEF Amount
  <1>8. SumOver(h, 1..c) = SumOver(f, 1..a) + SumOver(g, 1..b)
    BY ONLY <1>2, <1>4, <1>6, <1>7, SumConcat
  <1> QED
    BY <1>0, <1>2, <1>3, <1>5, <1>8 DEF Total

LEMMA TotalsJoined ==
  ASSUME NEW ks, NEW ls, Wellformed(ks), Wellformed(ls), NEW o, NEW s
  PROVE  /\ Total(ks \o ls, Dones(ks \o ls), o, s) = Total(ks, Dones(ks), o, s) + Total(ls, Dones(ls), o, s)
         /\ Total(ks \o ls, Losts(ks \o ls), o, s) = Total(ks, Losts(ks), o, s) + Total(ls, Losts(ls), o, s)
         /\ Total(ks \o ls, Dues(ks \o ls), o, s) = Total(ks, Dues(ks), o, s) + Total(ls, Dues(ls), o, s)
PROOF
  <1>1. PICK a, b, js : a = Len(ks) /\ b = Len(ls) /\ js = ks \o ls
    OBVIOUS
  <1>2. /\ a \in Nat /\ b \in Nat /\ DOMAIN ks = 1..a /\ DOMAIN ls = 1..b /\ DOMAIN js = 1..(a + b)
        /\ \A i \in 1..a : js[i] = ks[i]
        /\ \A i \in 1..b : js[a + i] = ls[i]
    BY <1>1, Indices, Joined
  <1>3. /\ \A i \in 1..a : i \in DOMAIN js
        /\ \A i \in 1..b : a + i \in DOMAIN js
    BY <1>2
  <1>4. /\ \A i \in 1..a : Dones(js)[i] = Dones(ks)[i] /\ Losts(js)[i] = Losts(ks)[i] /\ Dues(js)[i] = Dues(ks)[i]
        /\ \A i \in 1..b : /\ Dones(js)[a + i] = Dones(ls)[i] /\ Losts(js)[a + i] = Losts(ls)[i]
                           /\ Dues(js)[a + i] = Dues(ls)[i]
    BY <1>2, <1>3 DEF Dones, Losts, Dues
  <1>5. /\ Rated(ks, Dones(ks)) /\ Rated(ks, Losts(ks)) /\ Rated(ks, Dues(ks))
        /\ Rated(ls, Dones(ls)) /\ Rated(ls, Losts(ls)) /\ Rated(ls, Dues(ls))
    BY AllRated
  <1>6. /\ Adds(ks, ls, Dones(ks), Dones(ls), Dones(js)) /\ Adds(ks, ls, Losts(ks), Losts(ls), Losts(js))
        /\ Adds(ks, ls, Dues(ks), Dues(ls), Dues(js))
    BY <1>1, <1>4 DEF Adds
  <1> QED
    BY <1>1, <1>5, <1>6, TotalJoined

(* What each element has of n and m together is at most what it has of d.   *)
LEMMA SumBelow ==
  ASSUME NEW n, NEW m, NEW d, NEW S, Countable(n, S), Countable(m, S), Countable(d, S),
         \A x \in S : n[x] + m[x] <= d[x]
  PROVE  SumOver(n, S) + SumOver(m, S) <= SumOver(d, S)
PROOF
  <1>1. PICK P, Q : P = S \X {1} /\ Q = S \X {2}
    OBVIOUS
  <1>2. PICK v, A : /\ v = [e \in P \cup Q |-> IF e[2] = 1 THEN n[e[1]] ELSE m[e[1]]]
                    /\ A = [e \in P \cup Q |-> IF e[2] = 1 THEN {e[1]} \X (1..n[e[1]])
                                               ELSE {e[1]} \X ((n[e[1]] + 1)..(n[e[1]] + m[e[1]]))]
    OBVIOUS
  <1>3. PICK f, g : f = [x \in S |-> <<x, 1>>] /\ g = [x \in S |-> <<x, 2>>]
    OBVIOUS
  <1>4. f \in Bijection(S, P) /\ g \in Bijection(S, Q)
    <2>1. f \in [S -> P] /\ g \in [S -> Q]
      BY <1>1, <1>3
    <2>2. \A x, y \in S : (f[x] = f[y] => x = y) /\ (g[x] = g[y] => x = y)
      BY <1>3
    <2>3. (\A e \in P : e[1] \in S /\ f[e[1]] = e) /\ (\A e \in Q : e[1] \in S /\ g[e[1]] = e)
      BY <1>1, <1>3
    <2> QED
      BY <2>1, <2>2, <2>3 DEF Bijection, Injection, Surjection, IsInjective
  <1>5. (\A x \in S : v[f[x]] = n[x]) /\ (\A x \in S : v[g[x]] = m[x])
    BY <1>1, <1>2, <1>3
  <1>6. Countable(v, P) /\ SumOver(v, P) = SumOver(n, S)
    BY <1>4, <1>5, SumRenamed
  <1>7. Countable(v, Q) /\ SumOver(v, Q) = SumOver(m, S)
    BY <1>4, <1>5, SumRenamed
  <1>8. P \cap Q = {}
    BY <1>1
  <1>9. Countable(v, P \cup Q) /\ SumOver(v, P \cup Q) = SumOver(n, S) + SumOver(m, S)
    BY <1>6, <1>7, <1>8, SumUnion
  <1>10. \A x \in S : n[x] \in Nat /\ m[x] \in Nat /\ d[x] \in Nat
    BY DEF Countable
  <1>11. ASSUME NEW e \in P \cup Q
         PROVE  A[e] \in SUBSET Pieces(d, S) /\ Cardinality(A[e]) = v[e]
    <2>1. PICK x : x = e[1]
      OBVIOUS
    <2>2. x \in S /\ e \in {<<x, 1>>, <<x, 2>>}
      BY <1>1, <2>1
    <2>3. PICK a, b : a = n[x] /\ b = m[x]
      OBVIOUS
    <2>4. a \in Nat /\ b \in Nat /\ d[x] \in Nat /\ a + b <= d[x]
      BY <1>10, <2>2, <2>3
    <2>5. PICK I, J : I = 1..a /\ J = (a + 1)..(a + b)
      OBVIOUS
    <2>6. /\ IsFiniteSet(I) /\ Cardinality(I) = a /\ IsFiniteSet(J) /\ Cardinality(J) = b
      <3>1. IsFiniteSet(1..a) /\ Cardinality(1..a) = a
        <4>1. 1 \in Int /\ a \in Int
          BY <2>4
        <4>2. IsFiniteSet(1..a) /\ Cardinality(1..a) = IF 1 > a THEN 0 ELSE a - 1 + 1
          BY ONLY <4>1, FS_Interval
        <4> QED
          BY <2>4, <4>2
      <3>2. a + 1 \in Int /\ a + b \in Int
        BY <2>4
      <3>3. /\ IsFiniteSet((a + 1)..(a + b))
            /\ Cardinality((a + 1)..(a + b)) = IF a + 1 > a + b THEN 0 ELSE (a + b) - (a + 1) + 1
        BY <3>2, FS_Interval
      <3> QED
        BY <2>4, <2>5, <3>1, <3>3
    <2>7. I \in SUBSET (1..d[x]) /\ J \in SUBSET (1..d[x])
      BY <2>4, <2>5
    <2>8. {x} \X I \in SUBSET Pieces(d, S) /\ {x} \X J \in SUBSET Pieces(d, S)
      <3>1. ASSUME NEW j \in 1..d[x] PROVE <<x, j>> \in Pieces(d, S)
        BY <2>2, PieceOf
      <3>2. ASSUME NEW y \in {x} \X (1..d[x]) PROVE y[2] \in 1..d[x] /\ y = <<x, y[2]>>
        OBVIOUS
      <3>3. {x} \X I \in SUBSET ({x} \X (1..d[x])) /\ {x} \X J \in SUBSET ({x} \X (1..d[x]))
        BY <2>7
      <3> QED
        BY <3>1, <3>2, <3>3
    <2>9. IsFiniteSet({x}) /\ Cardinality({x}) = 1
      BY FS_Singleton
    <2>10. Cardinality({x} \X I) = 1 * a /\ Cardinality({x} \X J) = 1 * b
      BY <2>6, <2>9, FS_Product
    <2>11. 1 * a = a /\ 1 * b = b
      BY <2>4
    <2>12. CASE e = <<x, 1>>
      <3>1. A[e] = {x} \X I /\ v[e] = a
        BY <1>2, <2>3, <2>5, <2>12
      <3> QED
        BY <2>8, <2>10, <2>11, <3>1
    <2>13. CASE e = <<x, 2>>
      <3>1. A[e] = {x} \X J /\ v[e] = b
        BY <1>2, <2>3, <2>5, <2>13
      <3> QED
        BY <2>8, <2>10, <2>11, <3>1
    <2> QED
      BY <2>2, <2>12, <2>13
  <1>12. ASSUME NEW e \in P \cup Q, NEW h \in P \cup Q, e # h
         PROVE  A[e] \cap A[h] = {}
    <2>1. e = <<e[1], e[2]>> /\ e[1] \in S /\ e[2] \in {1, 2} /\ h = <<h[1], h[2]>> /\ h[2] \in {1, 2}
      BY <1>1
    <2>2. ASSUME NEW y \in A[e], NEW z \in A[h], y = z PROVE FALSE
      <3>1. y[1] = e[1] /\ z[1] = h[1]
        BY <1>2
      <3>2. e[1] = h[1] /\ e[2] # h[2]
        BY <1>12, <2>1, <2>2, <3>1
      <3>3. PICK a, b : a = n[e[1]] /\ b = m[e[1]]
        OBVIOUS
      <3>4. a \in Nat /\ b \in Nat
        BY <1>10, <2>1, <3>3
      <3>5. CASE e[2] = 1
        <4>1. y[2] \in 1..a /\ z[2] \in (a + 1)..(a + b)
          BY <1>2, <2>1, <3>2, <3>3, <3>5
        <4> QED
          BY <2>2, <3>4, <4>1
      <3>6. CASE e[2] = 2
        <4>1. z[2] \in 1..a /\ y[2] \in (a + 1)..(a + b)
          BY <1>2, <2>1, <3>2, <3>3, <3>6
        <4> QED
          BY <2>2, <3>4, <4>1
      <3> QED
        BY <2>1, <3>5, <3>6
    <2> QED
      BY <2>2
  <1>13. IsFiniteSet(Pieces(d, S))
    BY SumIsNat
  <1>14. SumOver(v, P \cup Q) <= Cardinality(Pieces(d, S))
    BY <1>9, <1>11, <1>12, <1>13, SumFits
  <1> QED
    BY <1>9, <1>14 DEF SumOver

-------------------------------------------------------------------------------
(* New tasks are for as many units as were asked for.                       *)

LEMMA OnceInSequence ==
  ASSUME NEW S, IsFiniteSet(S)
  PROVE  SetToSeq(S) \in Bijection(1..Cardinality(S), S)
PROOF
  <1>1. PICK f, n : f = SetToSeq(S) /\ n = Cardinality(S)
    OBVIOUS
  <1>2. n \in Nat /\ f \in [1..n -> S] /\ \A i, j \in 1..n : f[i] = f[j] => i = j
    BY <1>1, InSequence
  <1>3. f \in Injection(1..n, S)
    BY <1>2 DEF Injection, IsInjective
  <1>4. Cardinality(1..n) = n
    <2>1. 1 \in Int /\ n \in Int
      BY <1>2
    <2>2. Cardinality(1..n) = IF 1 > n THEN 0 ELSE n - 1 + 1
      BY ONLY <2>1, FS_Interval
    <2> QED
      BY <1>2, <2>2
  <1>5. f \in Surjection(1..n, S)
    BY <1>1, <1>3, <1>4, FS_Injection
  <1> QED
    BY <1>1, <1>3, <1>5 DEF Bijection

(* What the bins offer lies one after the other.                            *)
LEMMA OffersApart ==
  ASSUME BinsOK, NEW us \in SUBSET Place, NEW p \in us, NEW q \in us, WalkRank[p[1]] < WalkRank[q[1]]
  PROVE  FreeBefore(p, us) + FreeIn(p) <= FreeBefore(q, us)
PROOF
  <1>1. PICK n, E, F : /\ n = [e \in Place |-> FreeIn(e)]
                       /\ E = {e \in us : WalkRank[e[1]] < WalkRank[p[1]]}
                       /\ F = {e \in us : WalkRank[e[1]] < WalkRank[q[1]]}
    OBVIOUS
  <1>2. \A e \in us : e \in Place /\ e[1] \in Bin /\ WalkRank[e[1]] \in Nat
    BY WarehouseAssumption DEF Place
  <1>3. E \cup {p} \in SUBSET F /\ p \notin E /\ E \in SUBSET us /\ F \in SUBSET us
    <2>1. \A e \in us : WalkRank[e[1]] < WalkRank[p[1]] => WalkRank[e[1]] < WalkRank[q[1]]
      BY <1>2
    <2>2. ~(WalkRank[p[1]] < WalkRank[p[1]])
      BY <1>2
    <2> QED
      BY <1>1, <2>1, <2>2
  <1>4. Countable(n, E) /\ Countable(n, F) /\ n[p] = FreeIn(p) /\ n[p] \in Nat
    <2>1. IsFiniteSet(us)
      BY Finite, FS_Subset
    <2>2. IsFiniteSet(E) /\ IsFiniteSet(F)
      BY <1>3, <2>1, FS_Subset
    <2>3. \A e \in us : n[e] \in Nat /\ n[e] = FreeIn(e)
      BY <1>1, BinAt
    <2> QED
      BY <1>3, <2>2, <2>3 DEF Countable
  <1>5. SumOver(n, E \cup {p}) = SumOver(n, E) + n[p]
    BY <1>3, <1>4, SumAdded
  <1>6. SumOver(n, E \cup {p}) <= SumOver(n, F)
    BY <1>3, <1>4, SumOfPart
  <1> QED
    BY <1>1, <1>4, <1>5, <1>6 DEF FreeBefore

(* No more units are allocated than were asked for.                         *)
LEMMA SharesFit ==
  ASSUME BinsOK, NEW us \in SUBSET Place, NEW s, \A p \in us : p[2] = s,
         NEW before \in Nat, NEW n \in Nat, NEW share, share = [p \in us |-> Share(p, before, n, us)]
  PROVE  Countable(share, us) /\ SumOver(share, us) \in Nat /\ SumOver(share, us) <= n
PROOF
  <1>1. \A p \in us : p \in Place /\ p[1] \in Bin /\ p = <<p[1], s>>
    BY DEF Place
  <1>2. IsFiniteSet(us)
    BY Finite, FS_Subset
  <1>3. \A p \in us : share[p] \in Nat /\ share[p] = Cardinality(Wanted(before, n) \cap OfferedIn(p, us))
    BY <1>1, ShareCounts
  <1>4. Countable(share, us)
    BY <1>2, <1>3 DEF Countable
  <1>5. PICK A, J : A = [p \in us |-> Wanted(before, n) \cap OfferedIn(p, us)] /\ J = Wanted(before, n)
    OBVIOUS
  <1>6. IsFiniteSet(J) /\ Cardinality(J) = n
    <2>1. before + 1 \in Int /\ before + n \in Int
      OBVIOUS
    <2>2. /\ IsFiniteSet((before + 1)..(before + n))
          /\ Cardinality((before + 1)..(before + n))
               = IF before + 1 > before + n THEN 0 ELSE (before + n) - (before + 1) + 1
      BY <2>1, FS_Interval
    <2> QED
      BY <1>5, <2>2 DEF Wanted
  <1>7. \A p \in us : A[p] \in SUBSET J /\ Cardinality(A[p]) = share[p]
    BY <1>3, <1>5
  <1>8. ASSUME NEW p \in us, NEW q \in us, WalkRank[p[1]] < WalkRank[q[1]]
        PROVE  OfferedIn(p, us) \cap OfferedIn(q, us) = {}
    <2>1. PICK a, b, c, d : /\ a = FreeBefore(p, us) /\ b = FreeIn(p)
                            /\ c = FreeBefore(q, us) /\ d = FreeIn(q)
      OBVIOUS
    <2>2. a \in Nat /\ b \in Nat /\ c \in Nat /\ d \in Nat
      BY <1>1, <2>1, FreeBeforeIsNat, BinAt
    <2>3. a + b <= c
      BY <1>8, <2>1, OffersApart
    <2>4. ((a + 1)..(a + b)) \cap ((c + 1)..(c + d)) = {}
      BY <2>2, <2>3
    <2> QED
      BY <2>1, <2>4 DEF OfferedIn
  <1>9. ASSUME NEW p \in us, NEW q \in us, p # q PROVE A[p] \cap A[q] = {}
    <2>1. WalkRank[p[1]] \in Nat /\ WalkRank[q[1]] \in Nat /\ WalkRank[p[1]] # WalkRank[q[1]]
      BY <1>1, <1>9, WarehouseAssumption
    <2>2. WalkRank[p[1]] < WalkRank[q[1]] \/ WalkRank[q[1]] < WalkRank[p[1]]
      BY <2>1
    <2>3. OfferedIn(p, us) \cap OfferedIn(q, us) = {}
      BY <1>8, <2>2
    <2> QED
      BY <1>5, <2>3
  <1>10. SumOver(share, us) <= Cardinality(J)
    BY <1>4, <1>6, <1>7, <1>9, SumFits
  <1> QED
    BY <1>4, <1>6, <1>10, SumIsNat

(* The new tasks for n units are for n units.                               *)
LEMMA NewTasksCount ==
  ASSUME BinsOK, NEW o \in Order, NEW s \in Sku, NEW before \in Nat, NEW n \in Nat, NEW w \in Nat,
         NEW us \in SUBSET Place, \A p \in us : p[2] = s,
         NEW T, T = NewTasks(o, s, before, n, us, w), NEW q, \A k \in T : q[k] = k.quantity
  PROVE  SumOver(q, T) = n
PROOF
  <1> DEFINE task(b, u) == [order |-> o, sku |-> s, from |-> b, wave |-> w, quantity |-> u,
                            done |-> 0, status |-> "OPEN", exc |-> "NONE"]
  <1>1. PICK share : share = [p \in us |-> Share(p, before, n, us)]
    OBVIOUS
  <1>2. PICK rest : rest = n - SumOver(share, us)
    OBVIOUS
  <1>3. PICK P : P = {p \in us : share[p] > 0}
    OBVIOUS
  <1>4. PICK A, B : A = {task(p[1], share[p]) : p \in P} /\ B = (IF rest > 0 THEN {task(None, rest)} ELSE {})
    OBVIOUS
  <1>5. T = A \cup B
    BY <1>1, <1>2, <1>3, <1>4 DEF NewTasks
  <1>6. Countable(share, us) /\ SumOver(share, us) \in Nat /\ rest \in Nat /\ rest + SumOver(share, us) = n
    <2>1. Countable(share, us) /\ SumOver(share, us) \in Nat /\ SumOver(share, us) <= n
      BY <1>1, SharesFit
    <2> QED
      BY <1>2, <2>1
  <1>7. ASSUME NEW p \in us PROVE p = <<p[1], s>> /\ p[1] \in Bin /\ p[1] # None
    BY WarehouseAssumption DEF Place
  <1> HIDE DEF task
  <1>8. \A b, u : task(b, u).quantity = u /\ task(b, u).from = b
    BY DEF task
  <1>9. PICK f : f = [p \in P |-> task(p[1], share[p])]
    OBVIOUS
  <1>10. f \in Bijection(P, A)
    <2>1. f \in [P -> A]
      BY <1>4, <1>9
    <2>2. ASSUME NEW p \in P, NEW r \in P, f[p] = f[r] PROVE p = r
      <3>1. f[p].from = p[1] /\ f[r].from = r[1]
        BY <1>8, <1>9
      <3>2. p = <<p[1], s>> /\ r = <<r[1], s>>
        BY <1>3, <1>7
      <3> QED
        BY <2>2, <3>1, <3>2
    <2>3. \A k \in A : \E p \in P : f[p] = k
      BY <1>4, <1>9
    <2> QED
      BY <2>1, <2>2, <2>3 DEF Bijection, Injection, Surjection, IsInjective
  <1>11. P \in SUBSET us /\ Countable(share, P) /\ Countable(share, us \ P)
    <2>1. P \in SUBSET us /\ us \ P \in SUBSET us
      BY <1>3
    <2> QED
      BY <1>6, <2>1, SumOfPart
  <1>12. \A p \in P : q[f[p]] = share[p]
    BY <1>4, <1>5, <1>8, <1>9
  <1>13. Countable(q, A) /\ SumOver(q, A) = SumOver(share, P)
    BY <1>10, <1>11, <1>12, SumRenamed
  <1>14. SumOver(share, us) = SumOver(share, P)
    <2>1. \A p \in us \ P : share[p] = 0
      BY <1>3, <1>6 DEF Countable
    <2>2. SumOver(share, us \ P) = 0
      BY <2>1, SumOfZeros
    <2>3. P \cup (us \ P) = us /\ P \cap (us \ P) = {}
      BY <1>3
    <2>4. SumOver(share, us) = SumOver(share, P) + SumOver(share, us \ P)
      BY <1>11, <2>3, SumUnion
    <2>5. SumOver(share, P) \in Nat
      BY <1>11, SumIsNat
    <2> QED
      BY <2>2, <2>4, <2>5
  <1>15. CASE rest > 0
    <2>1. PICK e : e = task(None, rest)
      OBVIOUS
    <2>2. B = {e} /\ e \in T /\ e.quantity = rest /\ e.from = None
      BY <1>4, <1>5, <1>8, <1>15, <2>1
    <2>3. e \notin A
      <3>1. \A p \in P : task(p[1], share[p]).from # None
        BY <1>3, <1>7, <1>8
      <3> QED
        BY <1>4, <2>2, <3>1
    <2>4. q[e] = rest
      BY <2>2
    <2>5. SumOver(q, A \cup {e}) = SumOver(q, A) + q[e]
      BY <1>6, <1>13, <2>3, <2>4, SumAdded
    <2> QED
      BY <1>5, <1>6, <1>13, <1>14, <2>2, <2>4, <2>5
  <1>16. CASE ~(rest > 0)
    <2>1. rest = 0 /\ T = A
      BY <1>4, <1>5, <1>6, <1>16
    <2> QED
      BY <1>6, <1>13, <1>14, <2>1
  <1> QED
    BY <1>15, <1>16

(* The new tasks T in sequence, and their quantities.                       *)
NewlyMade(T, ls, q) ==
  /\ IsFiniteSet(T) /\ ls = SetToSeq(T) /\ Wellformed(ls)
  /\ \A k \in T : k.done = 0 /\ k.exc = "NONE" /\ k.quantity \in Nat
  /\ q = [k \in T |-> k.quantity]

(* What they add to the totals.                                             *)
LEMMA NewTotals ==
  ASSUME NEW T, NEW ls, NEW q, NewlyMade(T, ls, q), NEW o, NEW s
  PROVE  /\ Total(ls, Dones(ls), o, s) = 0 /\ Total(ls, Losts(ls), o, s) = 0
         /\ Total(ls, Dues(ls), o, s) = SumOver(q, {k \in T : IsFor(k, o, s)})
PROOF
  <1>0. /\ IsFiniteSet(T) /\ ls = SetToSeq(T) /\ Wellformed(ls)
        /\ \A k \in T : k.done = 0 /\ k.exc = "NONE" /\ k.quantity \in Nat
        /\ q = [k \in T |-> k.quantity]
    BY DEF NewlyMade
  <1>1. PICK D : D = 1..Cardinality(T)
    OBVIOUS
  <1>2. ls \in Bijection(D, T) /\ ls \in [D -> T] /\ DOMAIN ls = D /\ \A i \in D : ls[i] \in T
    BY <1>0, <1>1, OnceInSequence DEF Bijection, Injection
  <1>3. \A i \in D : Dones(ls)[i] = 0 /\ Losts(ls)[i] = 0 /\ Dues(ls)[i] = ls[i].quantity
    BY <1>0, <1>2 DEF Dones, Losts, Dues, Lost, Due
  <1>4. Total(ls, Dones(ls), o, s) = 0 /\ Total(ls, Losts(ls), o, s) = 0
    <2>1. /\ \A i \in D : Amount(ls, Dones(ls), o, s)[i] = 0
          /\ \A i \in D : Amount(ls, Losts(ls), o, s)[i] = 0
      BY <1>2, <1>3 DEF Amount
    <2> QED
      BY <1>2, <2>1, SumOfZeros DEF Total
  <1>5. PICK m, n : /\ m = [k \in T |-> IF IsFor(k, o, s) THEN k.quantity ELSE 0]
                    /\ n = Amount(ls, Dues(ls), o, s)
    OBVIOUS
  <1>6. \A i \in D : m[ls[i]] = n[i]
    BY <1>2, <1>3, <1>5 DEF Amount
  <1>7. Countable(n, D) /\ Total(ls, Dues(ls), o, s) = SumOver(n, D)
    BY <1>0, <1>2, <1>5, AllRated, AmountsCount DEF Total
  <1>8. Countable(m, T) /\ SumOver(m, T) = SumOver(n, D)
    BY <1>2, <1>6, <1>7, SumRenamed
  <1>9. PICK I : I = {k \in T : IsFor(k, o, s)}
    OBVIOUS
  <1>10. SumOver(m, T) = SumOver(m, I)
    <2>1. I \in SUBSET T /\ T \ I \in SUBSET T /\ I \cup (T \ I) = T /\ I \cap (T \ I) = {}
      BY <1>9
    <2>2. Countable(m, I) /\ Countable(m, T \ I)
      BY <1>8, <2>1, SumOfPart
    <2>3. \A k \in T \ I : m[k] = 0
      BY <1>5, <1>9
    <2>4. SumOver(m, T) = SumOver(m, I) + SumOver(m, T \ I)
      BY <2>1, <2>2, SumUnion
    <2>5. SumOver(m, T \ I) = 0 /\ SumOver(m, I) \in Nat
      BY <2>2, <2>3, SumOfZeros, SumIsNat
    <2> QED
      BY <2>4, <2>5
  <1>11. SumOver(m, I) = SumOver(q, I)
    <2>1. \A k \in I : m[k] = q[k]
      BY <1>0, <1>5, <1>9
    <2> QED
      BY <2>1, SumSame
  <1> QED
    BY <1>4, <1>7, <1>8, <1>9, <1>10, <1>11

-------------------------------------------------------------------------------
(* What is asked for, picked and missing.                                   *)

Waiting == {"NEW", "ALLOCATED"}
Packed == {"PACKING", "READY_TO_SHIP", "SHIPPED"}

(* An order has no tasks before its wave, and from then on tasks for all it *)
(* asks for; everything is picked once packing has begun.                   *)
Demanded ==
  \A o \in Order :
    /\ status[o] \in Waiting => \A i \in DOMAIN tasks : tasks[i].order # o
    /\ status[o] \notin Waiting => \A s \in Sku : Sought(o, s) = Need[o][s]
    /\ status[o] \in Packed => \A s \in Sku : Picked(o, s) = Need[o][s]

LEMMA TotalsHere ==
  ASSUME Inv, NEW o, NEW s
  PROVE  /\ Picked(o, s) \in Nat /\ Missing(o, s) \in Nat /\ Sought(o, s) \in Nat
         /\ Picked(o, s) + Missing(o, s) <= Sought(o, s)
PROOF
  <1>1. Wellformed(tasks)
    BY RowsHere
  <1>2. PICK n, m, d, D : /\ n = Amount(tasks, Dones(tasks), o, s) /\ m = Amount(tasks, Losts(tasks), o, s)
                          /\ d = Amount(tasks, Dues(tasks), o, s) /\ D = DOMAIN tasks
    OBVIOUS
  <1>3. /\ Countable(n, D) /\ Countable(m, D) /\ Countable(d, D)
        /\ SumOver(n, D) \in Nat /\ SumOver(m, D) \in Nat /\ SumOver(d, D) \in Nat
    BY <1>1, <1>2, AllRated, AmountsCount, SumIsNat
  <1>4. ASSUME NEW i \in D PROVE n[i] + m[i] <= d[i]
    <2>1. /\ n[i] = IF IsFor(tasks[i], o, s) THEN tasks[i].done ELSE 0
          /\ m[i] = IF IsFor(tasks[i], o, s) THEN Lost(tasks[i]) ELSE 0
          /\ d[i] = IF IsFor(tasks[i], o, s) THEN Due(tasks[i]) ELSE 0
      BY <1>2 DEF Amount, Dones, Losts, Dues
    <2>2. tasks[i].done + Lost(tasks[i]) <= Due(tasks[i])
      BY <1>1, <1>2, TaskUnits
    <2> QED
      BY <2>1, <2>2
  <1>5. SumOver(n, D) + SumOver(m, D) <= SumOver(d, D)
    BY <1>3, <1>4, SumBelow
  <1>6. /\ SumOver(n, D) = Picked(o, s) /\ SumOver(m, D) = Missing(o, s) /\ SumOver(d, D) = Sought(o, s)
    BY <1>2, SumsAre DEF Total, Sought
  <1> QED
    BY <1>3, <1>5, <1>6

(* There is room for what a task has still to pick.                          *)
LEMMA RoomForTask ==
  ASSUME Inv, NEW i \in DOMAIN tasks, tasks[i].exc # "REPICKED",
         NEW o, o = tasks[i].order, NEW s, s = tasks[i].sku
  PROVE  /\ Picked(o, s) + Missing(o, s) - Lost(tasks[i]) + Remaining(tasks[i]) <= Sought(o, s)
         /\ Lost(tasks[i]) <= Missing(o, s)
PROOF
  <1>1. Wellformed(tasks)
    BY RowsHere
  <1>2. PICK D, l : D = DOMAIN tasks /\ l = [j \in D |-> IF j = i THEN Remaining(tasks[i]) ELSE Lost(tasks[j])]
    OBVIOUS
  <1>3. Rated(tasks, l) /\ Rated(tasks, Losts(tasks))
    <2>1. \A j \in DOMAIN tasks : Remaining(tasks[j]) \in Nat /\ Lost(tasks[j]) \in Nat
      BY <1>1, TaskUnits, TaskAt
    <2> QED
      BY <1>1, <1>2, <2>1, AllRated DEF Rated
  <1>4. /\ \A j \in DOMAIN tasks \ {i} : l[j] = Losts(tasks)[j]
        /\ l[i] = Remaining(tasks[i]) /\ Losts(tasks)[i] = Lost(tasks[i])
    BY <1>2 DEF Losts
  <1>5. IsFor(tasks[i], o, s)
    BY DEF IsFor
  <1>6. Total(tasks, l, o, s) = Total(tasks, Losts(tasks), o, s) + (l[i] - Losts(tasks)[i])
    BY <1>3, <1>4, <1>5, TotalChanged
  <1>7. PICK n, m, d : /\ n = Amount(tasks, Dones(tasks), o, s) /\ m = Amount(tasks, l, o, s)
                       /\ d = Amount(tasks, Dues(tasks), o, s)
    OBVIOUS
  <1>8. Countable(n, D) /\ Countable(m, D) /\ Countable(d, D)
    BY <1>1, <1>2, <1>3, <1>7, AllRated, AmountsCount
  <1>9. ASSUME NEW j \in D PROVE n[j] + m[j] <= d[j]
    <2>1. /\ n[j] = IF IsFor(tasks[j], o, s) THEN tasks[j].done ELSE 0
          /\ m[j] = IF IsFor(tasks[j], o, s) THEN l[j] ELSE 0
          /\ d[j] = IF IsFor(tasks[j], o, s) THEN Due(tasks[j]) ELSE 0
      BY <1>2, <1>7 DEF Amount, Dones, Dues
    <2>2. tasks[j].done + Lost(tasks[j]) <= Due(tasks[j])
      BY <1>1, <1>2, TaskUnits
    <2>3. tasks[i].done + Remaining(tasks[i]) <= Due(tasks[i])
      BY TaskHere DEF Due, Remaining
    <2>4. tasks[j].done + l[j] <= Due(tasks[j])
      BY <1>2, <2>2, <2>3
    <2> QED
      BY <2>1, <2>4
  <1>10. SumOver(n, D) + SumOver(m, D) <= SumOver(d, D)
    BY <1>8, <1>9, SumBelow
  <1>11. /\ SumOver(n, D) = Picked(o, s) /\ SumOver(m, D) = Total(tasks, l, o, s) /\ SumOver(d, D) = Sought(o, s)
         /\ Missing(o, s) = Total(tasks, Losts(tasks), o, s)
    BY <1>2, <1>7, SumsAre DEF Total, Sought
  <1>12. Lost(tasks[i]) <= Missing(o, s)
    <2>1. PICK f : f = Amount(tasks, Losts(tasks), o, s)
      OBVIOUS
    <2>2. Countable(f, D) /\ f[i] = Lost(tasks[i])
      BY <1>2, <1>3, <1>4, <1>5, <2>1, AmountsCount DEF Amount
    <2>3. SumOver(f, D) = SumOver(f, D \ {i}) + f[i] /\ f[i] \in Nat /\ SumOver(f, D \ {i}) \in Nat
      BY <1>2, <2>2, SumSplit
    <2> QED
      BY <1>2, <1>11, <2>1, <2>2, <2>3 DEF Total
  <1>13. Lost(tasks[i]) \in Nat /\ Remaining(tasks[i]) \in Nat
    BY <1>1, TaskUnits, TaskHere
  <1> QED
    BY <1>4, <1>6, <1>10, <1>11, <1>12, <1>13, TotalsHere

(* Only an order that is being picked has tasks with units to pick or to    *)
(* look for.                                                                *)
LEMMA PickingOrder ==
  ASSUME Inv, Demanded, NEW i \in DOMAIN tasks, tasks[i].exc # "REPICKED", tasks[i].status # "DONE",
         NEW o, o = tasks[i].order, NEW s, s = tasks[i].sku
  PROVE  /\ o \in Order /\ s \in Sku /\ status[o] = "PICKING"
         /\ Picked(o, s) + Missing(o, s) - Lost(tasks[i]) + Remaining(tasks[i]) <= Need[o][s]
         /\ Lost(tasks[i]) <= Missing(o, s)
         /\ Remaining(tasks[i]) > 0 /\ Remaining(tasks[i]) \in Nat /\ Lost(tasks[i]) \in Nat
         /\ Need[o][s] \in Nat
PROOF
  <1>1. o \in Order /\ s \in Sku
    BY TaskHere DEF Tasks
  <1>2. /\ Remaining(tasks[i]) > 0 /\ Remaining(tasks[i]) \in Nat /\ Lost(tasks[i]) \in Nat
        /\ Need[o][s] \in Nat
    BY <1>1, TaskHere, RowsHere, TaskUnits, WarehouseAssumption
  <1>3. status[o] \notin Waiting
    BY <1>1 DEF Demanded
  <1>4. Sought(o, s) = Need[o][s]
    BY <1>1, <1>3 DEF Demanded
  <1>5. /\ Picked(o, s) + Missing(o, s) - Lost(tasks[i]) + Remaining(tasks[i]) <= Need[o][s]
        /\ Lost(tasks[i]) <= Missing(o, s)
    BY <1>4, RoomForTask
  <1>6. status[o] \notin Packed
    <2>1. SUFFICES ASSUME status[o] \in Packed PROVE FALSE
      OBVIOUS
    <2>2. Picked(o, s) = Need[o][s]
      BY <1>1, <2>1 DEF Demanded
    <2> QED
      BY <1>2, <1>5, <2>2, TotalsHere
  <1>7. status[o] \in {"NEW", "ALLOCATED", "PICKING", "PACKING", "READY_TO_SHIP", "SHIPPED"}
    BY <1>1, PartsOfInv DEF StatusOK
  <1> QED
    BY <1>1, <1>2, <1>3, <1>5, <1>6, <1>7 DEF Waiting, Packed

(* One task changes.                                                        *)
LEMMA TotalsChanged ==
  ASSUME NEW ks, NEW ls, Wellformed(ks), Wellformed(ls), DOMAIN ls = DOMAIN ks, NEW i \in DOMAIN ks,
         \A j \in DOMAIN ks \ {i} : ls[j] = ks[j],
         ls[i].order = ks[i].order, ls[i].sku = ks[i].sku, NEW o, NEW s
  PROVE  /\ Total(ls, Dones(ls), o, s) = Total(ks, Dones(ks), o, s)
               + (IF IsFor(ks[i], o, s) THEN ls[i].done - ks[i].done ELSE 0)
         /\ Total(ls, Losts(ls), o, s) = Total(ks, Losts(ks), o, s)
               + (IF IsFor(ks[i], o, s) THEN Lost(ls[i]) - Lost(ks[i]) ELSE 0)
         /\ Total(ls, Dues(ls), o, s) = Total(ks, Dues(ks), o, s)
               + (IF IsFor(ks[i], o, s) THEN Due(ls[i]) - Due(ks[i]) ELSE 0)
PROOF
  <1>1. PICK D : D = DOMAIN ks
    OBVIOUS
  <1>2. /\ Rated(ks, Dones(ks)) /\ Rated(ks, Losts(ks)) /\ Rated(ks, Dues(ks))
        /\ Rated(ls, Dones(ls)) /\ Rated(ls, Losts(ls)) /\ Rated(ls, Dues(ls))
    BY AllRated
  <1>3. \A j \in D : /\ Dones(ks)[j] = ks[j].done /\ Losts(ks)[j] = Lost(ks[j]) /\ Dues(ks)[j] = Due(ks[j])
                     /\ Dones(ls)[j] = ls[j].done /\ Losts(ls)[j] = Lost(ls[j]) /\ Dues(ls)[j] = Due(ls[j])
    BY <1>1 DEF Dones, Losts, Dues
  <1>4. \A j \in D \ {i} : /\ ls[j] = ks[j] /\ Dones(ls)[j] = Dones(ks)[j]
                           /\ Losts(ls)[j] = Losts(ks)[j] /\ Dues(ls)[j] = Dues(ks)[j]
    BY <1>1, <1>3
  <1>5. /\ DOMAIN ls = DOMAIN ks /\ i \in DOMAIN ks /\ D = DOMAIN ks
        /\ ls[i].order = ks[i].order /\ ls[i].sku = ks[i].sku
    BY <1>1
  <1>6. Total(ls, Dones(ls), o, s) = Total(ks, Dones(ks), o, s)
               + (IF IsFor(ks[i], o, s) THEN Dones(ls)[i] - Dones(ks)[i] ELSE 0)
    BY ONLY <1>2, <1>4, <1>5, TotalChanged
  <1>7. Total(ls, Losts(ls), o, s) = Total(ks, Losts(ks), o, s)
               + (IF IsFor(ks[i], o, s) THEN Losts(ls)[i] - Losts(ks)[i] ELSE 0)
    BY ONLY <1>2, <1>4, <1>5, TotalChanged
  <1>8. Total(ls, Dues(ls), o, s) = Total(ks, Dues(ks), o, s)
               + (IF IsFor(ks[i], o, s) THEN Dues(ls)[i] - Dues(ks)[i] ELSE 0)
    BY ONLY <1>2, <1>4, <1>5, TotalChanged
  <1> QED
    BY <1>1, <1>3, <1>5, <1>6, <1>7, <1>8

LEMMA OneTaskMoves ==
  ASSUME Wellformed(tasks), Wellformed(tasks'), DOMAIN tasks' = DOMAIN tasks, NEW i \in DOMAIN tasks,
         \A j \in DOMAIN tasks \ {i} : tasks'[j] = tasks[j],
         tasks'[i].order = tasks[i].order, tasks'[i].sku = tasks[i].sku, NEW o, NEW s
  PROVE  /\ Picked(o, s)' = Picked(o, s)
               + (IF IsFor(tasks[i], o, s) THEN tasks'[i].done - tasks[i].done ELSE 0)
         /\ Missing(o, s)' = Missing(o, s)
               + (IF IsFor(tasks[i], o, s) THEN Lost(tasks'[i]) - Lost(tasks[i]) ELSE 0)
         /\ Sought(o, s)' = Sought(o, s)
               + (IF IsFor(tasks[i], o, s) THEN Due(tasks'[i]) - Due(tasks[i]) ELSE 0)
PROOF
  <1>1. PICK ks, ls : ks = tasks /\ ls = tasks'
    OBVIOUS
  <1>2. /\ Total(ls, Dones(ls), o, s) = Total(ks, Dones(ks), o, s)
               + (IF IsFor(ks[i], o, s) THEN ls[i].done - ks[i].done ELSE 0)
        /\ Total(ls, Losts(ls), o, s) = Total(ks, Losts(ks), o, s)
               + (IF IsFor(ks[i], o, s) THEN Lost(ls[i]) - Lost(ks[i]) ELSE 0)
        /\ Total(ls, Dues(ls), o, s) = Total(ks, Dues(ks), o, s)
               + (IF IsFor(ks[i], o, s) THEN Due(ls[i]) - Due(ks[i]) ELSE 0)
    BY <1>1, TotalsChanged
  <1> QED
    BY <1>1, <1>2, SumsAre DEF Sought

-------------------------------------------------------------------------------
(* What PickPromise sees.                                                   *)

PhaseOf(x) == CASE x \in Waiting          -> "waiting"
                [] x = "PICKING"          -> "picking"
                [] x = "PACKING"          -> "packing"
                [] x = "READY_TO_SHIP"    -> "ready"
                [] x = "SHIPPED"          -> "shipped"

Phases  == [o \in Order |-> PickPhase(o)]
Pickeds == [o \in Order |-> [s \in Sku |-> Picked(o, s)]]
Missed  == [o \in Order |-> [s \in Sku |-> Missing(o, s)]]

LEMMA PhasesAre ==
  /\ Phases = [o \in Order |-> PhaseOf(status[o])]
  /\ Phases' = [o \in Order |-> PhaseOf(status'[o])]
  /\ \A x \in Waiting : PhaseOf(x) = "waiting"
  /\ PhaseOf("PICKING") = "picking" /\ PhaseOf("PACKING") = "packing"
  /\ PhaseOf("READY_TO_SHIP") = "ready" /\ PhaseOf("SHIPPED") = "shipped"
PROOF
  <1>1. /\ Phases = [o \in Order |-> PhaseOf(status[o])]
        /\ Phases' = [o \in Order |-> PhaseOf(status'[o])]
    BY DEF Phases, PickPhase, PhaseOf, Waiting
  <1>2. \A x \in Waiting : PhaseOf(x) = "waiting"
    BY DEF PhaseOf, Waiting
  <1>3. /\ PhaseOf("PICKING") = "picking" /\ PhaseOf("PACKING") = "packing"
        /\ PhaseOf("READY_TO_SHIP") = "ready" /\ PhaseOf("SHIPPED") = "shipped"
    BY DEF PhaseOf, Waiting
  <1> QED
    BY <1>1, <1>2, <1>3

LEMMA TalliesAre ==
  /\ \A o \in Order, s \in Sku : Pickeds[o][s] = Picked(o, s) /\ Missed[o][s] = Missing(o, s)
  /\ \A o \in Order, s \in Sku : Pickeds'[o][s] = Picked(o, s)' /\ Missed'[o][s] = Missing(o, s)'
  /\ DOMAIN Pickeds = Order /\ DOMAIN Missed = Order /\ DOMAIN Pickeds' = Order /\ DOMAIN Missed' = Order
  BY DEF Pickeds, Missed

LEMMA TalliesNow == Inv => Pickeds \in [Order -> [Sku -> Nat]] /\ Missed \in [Order -> [Sku -> Nat]]
  BY TotalsHere DEF Pickeds, Missed

LEMMA TalliesCount ==
  /\ Inv => Pickeds \in [Order -> [Sku -> Nat]] /\ Missed \in [Order -> [Sku -> Nat]]
  /\ Inv' => Pickeds' \in [Order -> [Sku -> Nat]] /\ Missed' \in [Order -> [Sku -> Nat]]
PROOF
  <1>1. Inv' => (Pickeds \in [Order -> [Sku -> Nat]] /\ Missed \in [Order -> [Sku -> Nat]])'
    BY TalliesNow, PTL
  <1> QED
    BY <1>1, TalliesNow

(* One tally changes by d.                                                  *)
LEMMA OneTally ==
  ASSUME NEW f \in [Order -> [Sku -> Nat]], NEW g \in [Order -> [Sku -> Nat]],
         NEW o \in Order, NEW s \in Sku, NEW d,
         \A q \in Order, r \in Sku : g[q][r] = IF q = o /\ r = s THEN d ELSE f[q][r]
  PROVE  g = [f EXCEPT ![o][s] = d]
PROOF
  <1>1. PICK h : h = [f EXCEPT ![o][s] = d]
    OBVIOUS
  <1>2. /\ DOMAIN h = Order /\ h[o] = [f[o] EXCEPT ![s] = d]
        /\ \A q \in Order \ {o} : h[q] = f[q]
    BY <1>1
  <1>3. ASSUME NEW q \in Order PROVE g[q] = h[q]
    <2>1. CASE q = o
      <3>1. h[o] = [r \in Sku |-> IF r = s THEN d ELSE f[o][r]]
        BY <1>2
      <3>2. g[o] = [r \in Sku |-> g[o][r]]
        OBVIOUS
      <3> QED
        BY <2>1, <3>1, <3>2
    <2>2. CASE q # o
      <3>1. g[q] = [r \in Sku |-> g[q][r]] /\ f[q] = [r \in Sku |-> f[q][r]]
        OBVIOUS
      <3>2. \A r \in Sku : g[q][r] = f[q][r]
        BY <2>2
      <3> QED
        BY <1>2, <2>2, <3>1, <3>2
    <2> QED
      BY <2>1, <2>2
  <1>4. g = [q \in Order |-> g[q]] /\ h = [q \in Order |-> h[q]]
    BY <1>1
  <1> QED
    BY <1>1, <1>3, <1>4

LEMMA SameTally ==
  ASSUME NEW f \in [Order -> [Sku -> Nat]], NEW g \in [Order -> [Sku -> Nat]],
         \A q \in Order, r \in Sku : g[q][r] = f[q][r]
  PROVE  g = f
PROOF
  <1>1. ASSUME NEW q \in Order PROVE g[q] = f[q]
    <2>1. g[q] = [r \in Sku |-> g[q][r]] /\ f[q] = [r \in Sku |-> f[q][r]]
      OBVIOUS
    <2> QED
      BY <2>1
  <1>2. g = [q \in Order |-> g[q]] /\ f = [q \in Order |-> f[q]]
    OBVIOUS
  <1> QED
    BY <1>1, <1>2

(* The moves of PickPromise.                                                *)
LEMMA PromiseStarts ==
  ASSUME NEW os \in SUBSET Order, \A o \in os : Phases[o] = "waiting",
         Phases' = [o \in Order |-> IF o \in os THEN "picking" ELSE Phases[o]],
         Pickeds' = Pickeds, Missed' = Missed, packed' = packed
  PROVE  Promise!Next
PROOF
  <1>1. Promise!Start(os)
    BY DEF Promise!Start, Promise!Phase, Phases, Pickeds, Missed
  <1> QED
    BY <1>1 DEF Promise!Next

LEMMA PromiseCounts ==
  ASSUME NEW o \in Order, NEW s \in Sku, NEW n \in 1..Need[o][s], Phases[o] = "picking",
         Phases' = Phases, packed' = packed,
         \/ /\ Pickeds[o][s] + Missed[o][s] + n <= Need[o][s]
            /\ Pickeds' = [Pickeds EXCEPT ![o][s] = Pickeds[o][s] + n] /\ Missed' = Missed
         \/ /\ Pickeds[o][s] + Missed[o][s] + n <= Need[o][s]
            /\ Missed' = [Missed EXCEPT ![o][s] = Missed[o][s] + n] /\ Pickeds' = Pickeds
         \/ /\ n <= Missed[o][s]
            /\ Missed' = [Missed EXCEPT ![o][s] = Missed[o][s] - n] /\ Pickeds' = Pickeds
  PROVE  Promise!Next
PROOF
  <1>1. Promise!Pick(o, s, n) \/ Promise!Miss(o, s, n) \/ Promise!SearchAgain(o, s, n)
    <2>1. ASSUME Pickeds[o][s] + Missed[o][s] + n <= Need[o][s],
                 Pickeds' = [Pickeds EXCEPT ![o][s] = Pickeds[o][s] + n], Missed' = Missed
          PROVE  Promise!Pick(o, s, n)
      BY <2>1 DEF Promise!Pick, Promise!Accounted, Phases, Pickeds, Missed
    <2>2. ASSUME Pickeds[o][s] + Missed[o][s] + n <= Need[o][s],
                 Missed' = [Missed EXCEPT ![o][s] = Missed[o][s] + n], Pickeds' = Pickeds
          PROVE  Promise!Miss(o, s, n)
      BY <2>2 DEF Promise!Miss, Promise!Accounted, Phases, Pickeds, Missed
    <2>3. ASSUME n <= Missed[o][s],
                 Missed' = [Missed EXCEPT ![o][s] = Missed[o][s] - n], Pickeds' = Pickeds
          PROVE  Promise!SearchAgain(o, s, n)
      BY <2>3 DEF Promise!SearchAgain, Phases, Pickeds, Missed
    <2> QED
      BY <2>1, <2>2, <2>3
  <1> QED
    BY <1>1 DEF Promise!Next

LEMMA PromiseScans ==
  ASSUME NEW o \in Order, NEW s \in Sku, NEW n \in 1..Need[o][s],
         \/ /\ Phases[o] = "picking" /\ \A r \in Sku : Pickeds[o][r] = Need[o][r]
            /\ Phases' = [q \in Order |-> IF q \in {o} THEN "packing" ELSE Phases[q]]
         \/ Phases[o] = "packing" /\ Phases' = Phases,
         packed[o][s] + n <= Need[o][s], packed' = [packed EXCEPT ![o][s] = packed[o][s] + n],
         Pickeds' = Pickeds, Missed' = Missed
  PROVE  Promise!Next
PROOF
  <1>1. Promise!Scan(o, s, n)
    BY DEF Promise!Scan, Promise!Phase, Phases, Pickeds, Missed
  <1> QED
    BY <1>1 DEF Promise!Next

LEMMA PromiseEnds ==
  ASSUME NEW o \in Order, Pickeds' = Pickeds, Missed' = Missed, packed' = packed,
         \/ /\ Phases[o] = "packing" /\ packed[o] = Need[o] /\ Pickeds[o] = Need[o]
            /\ Phases' = [q \in Order |-> IF q \in {o} THEN "ready" ELSE Phases[q]]
         \/ /\ Phases[o] = "ready"
            /\ Phases' = [q \in Order |-> IF q \in {o} THEN "shipped" ELSE Phases[q]]
  PROVE  Promise!Next
PROOF
  <1>1. Promise!Ready(o) \/ Promise!Ship(o)
    BY DEF Promise!Ready, Promise!Ship, Promise!Phase, Phases, Pickeds, Missed
  <1> QED
    BY <1>1 DEF Promise!Next

LEMMA PromiseRests ==
  ASSUME Phases' = Phases, Pickeds' = Pickeds, Missed' = Missed, packed' = packed
  PROVE  UNCHANGED Promise!vars
  BY DEF Promise!vars, Phases, Pickeds, Missed

-------------------------------------------------------------------------------
(* The steps.                                                               *)

LEMMA TasksNext == Inv' => Wellformed(tasks')
  BY PartsOfInv DEF TasksOK, TaskRow, Wellformed

(* Task k becomes l: n units are picked, or are found missing, or nothing    *)
(* of either.                                                               *)
TaskMove(k, l, n) ==
  \/ /\ l.done = k.done + n /\ n > 0 /\ n <= Remaining(k)
     /\ Lost(k) = 0 /\ Lost(l) = 0
  \/ l.done = k.done /\ n = Remaining(k) /\ Lost(k) = 0 /\ Lost(l) = n
  \/ l.done = k.done /\ Lost(l) = Lost(k)

(* A step of one task that is to be picked, or whose units are missing.      *)
LEMMA OneTaskPromised ==
  ASSUME Inv, Inv', Demanded, NEW i \in DOMAIN tasks, tasks[i].exc # "REPICKED", tasks[i].status # "DONE",
         DOMAIN tasks' = DOMAIN tasks, \A j \in DOMAIN tasks \ {i} : tasks'[j] = tasks[j],
         tasks'[i].order = tasks[i].order, tasks'[i].sku = tasks[i].sku, Due(tasks'[i]) = Due(tasks[i]),
         status' = status, packed' = packed, NEW n \in Nat,
         TaskMove(tasks[i], tasks'[i], n)
  PROVE  Demanded' /\ [Promise!Next]_(Promise!vars)
PROOF
  <1>1. PICK o, s, r : o = tasks[i].order /\ s = tasks[i].sku /\ r = Remaining(tasks[i])
    OBVIOUS
  <1>2. /\ o \in Order /\ s \in Sku /\ status[o] = "PICKING"
        /\ Picked(o, s) + Missing(o, s) - Lost(tasks[i]) + r <= Need[o][s]
        /\ r > 0 /\ r \in Nat /\ Lost(tasks[i]) \in Nat /\ Need[o][s] \in Nat
    BY <1>1, PickingOrder
  <1>3. Wellformed(tasks) /\ Wellformed(tasks')
    BY RowsHere, TasksNext
  <1>4. \A q \in Order, e \in Sku : IsFor(tasks[i], q, e) <=> q = o /\ e = s
    BY <1>1 DEF IsFor
  <1>5. PICK d, l : d = tasks'[i].done - tasks[i].done /\ l = Lost(tasks'[i]) - Lost(tasks[i])
    OBVIOUS
  <1>6. tasks[i].done \in Nat /\ Due(tasks[i]) \in Nat
    BY <1>3, TaskUnits
  <1>7. ASSUME NEW q \in Order, NEW e \in Sku
        PROVE  /\ Picked(q, e)' = Picked(q, e) + (IF q = o /\ e = s THEN d ELSE 0)
               /\ Missing(q, e)' = Missing(q, e) + (IF q = o /\ e = s THEN l ELSE 0)
               /\ Sought(q, e)' = Sought(q, e)
               /\ Picked(q, e) \in Nat /\ Missing(q, e) \in Nat
    BY <1>3, <1>4, <1>5, <1>6, OneTaskMoves, TotalsHere
  <1>8. Demanded'
    <2> SUFFICES ASSUME NEW q \in Order
                 PROVE  /\ status'[q] \in Waiting => \A j \in DOMAIN tasks' : tasks'[j].order # q
                        /\ status'[q] \notin Waiting => \A e \in Sku : Sought(q, e)' = Need[q][e]
                        /\ status'[q] \in Packed => \A e \in Sku : Picked(q, e)' = Need[q][e]
      BY DEF Demanded
    <2>1. \A j \in DOMAIN tasks : tasks'[j].order = tasks[j].order
      OBVIOUS
    <2>2. status'[q] \in Packed => q # o
      BY <1>2 DEF Packed
    <2> QED
      BY <1>7, <2>1, <2>2 DEF Demanded
  <1>9. Phases' = Phases /\ Phases[o] = "picking"
    BY <1>2, PhasesAre
  <1>10. PICK f, g, ff, gg : f = Pickeds /\ g = Missed /\ ff = Pickeds' /\ gg = Missed'
    OBVIOUS
  <1>11. /\ f \in [Order -> [Sku -> Nat]] /\ g \in [Order -> [Sku -> Nat]]
         /\ ff \in [Order -> [Sku -> Nat]] /\ gg \in [Order -> [Sku -> Nat]]
    BY <1>10, TalliesCount
  <1>12. \A q \in Order, e \in Sku :
            /\ ff[q][e] = f[q][e] + (IF q = o /\ e = s THEN d ELSE 0)
            /\ gg[q][e] = g[q][e] + (IF q = o /\ e = s THEN l ELSE 0)
    BY <1>7, <1>10, TalliesAre
  <1>13. f[o][s] = Picked(o, s) /\ g[o][s] = Missing(o, s)
    BY <1>2, <1>10, TalliesAre
  <1>14. CASE /\ d = n /\ n > 0 /\ n <= r /\ l = 0 /\ Lost(tasks[i]) = 0
    <2>1. gg = g
      BY <1>11, <1>12, <1>14, SameTally
    <2>2. ff = [f EXCEPT ![o][s] = f[o][s] + n]
      BY <1>2, <1>11, <1>12, <1>14, OneTally
    <2>3. f[o][s] + g[o][s] + n <= Need[o][s] /\ n \in 1..Need[o][s]
      BY <1>2, <1>11, <1>13, <1>14
    <2> QED
      BY <1>2, <1>8, <1>9, <1>10, <2>1, <2>2, <2>3, PromiseCounts
  <1>15. CASE /\ d = 0 /\ n = r /\ l = n /\ Lost(tasks[i]) = 0
    <2>1. ff = f
      BY <1>11, <1>12, <1>15, SameTally
    <2>2. gg = [g EXCEPT ![o][s] = g[o][s] + n]
      BY <1>2, <1>11, <1>12, <1>15, OneTally
    <2>3. f[o][s] + g[o][s] + n <= Need[o][s] /\ n \in 1..Need[o][s]
      BY <1>2, <1>11, <1>13, <1>15
    <2> QED
      BY <1>2, <1>8, <1>9, <1>10, <2>1, <2>2, <2>3, PromiseCounts
  <1>16. CASE d = 0 /\ l = 0
    <2>1. ff = f /\ gg = g
      BY <1>11, <1>12, <1>16, SameTally
    <2> QED
      BY <1>8, <1>9, <1>10, <2>1, PromiseRests
  <1> QED
    BY <1>1, <1>2, <1>5, <1>6, <1>14, <1>15, <1>16 DEF TaskMove

LEMMA CommitPickPromised ==
  ASSUME Inv, Inv', Demanded, NEW c \in Scanner, CommitPick(c)
  PROVE  Demanded' /\ [Promise!Next]_(Promise!vars)
PROOF
  <1>1. PICK i, q, k : i = scan[c].task /\ q = scan[c].qty /\ k = tasks[i]
    OBVIOUS
  <1>2. /\ scan[c].job = "pick"
        /\ tasks' = [tasks EXCEPT ![i].done = @ + q,
                                  ![i].status = IF q = Remaining(tasks[i]) THEN "DONE" ELSE "IN_PROGRESS"]
        /\ UNCHANGED <<status, packed>>
    BY <1>1 DEF CommitPick, EndScan
  <1>3. i \in DOMAIN tasks /\ IsOpen(k) /\ q \in 1..Remaining(k)
    BY <1>1, <1>2, InHand DEF ScanOK
  <1>4. /\ k \in Tasks /\ k.done \in Nat /\ Remaining(k) \in Nat /\ k.exc = "NONE" /\ k.status # "DONE"
    <2>1. k.exc # "NONE" <=> k.status = "SHORT"
      BY <1>1, <1>3, TaskHere
    <2>2. k.exc = "NONE"
      BY <1>3, <2>1 DEF IsOpen
    <2> QED
      BY <1>1, <1>3, <2>2, TaskHere DEF IsOpen
  <1>5. PICK l : l = [k EXCEPT !.done = @ + q,
                               !.status = IF q = Remaining(k) THEN "DONE" ELSE "IN_PROGRESS"]
    OBVIOUS
  <1>6. tasks' = [tasks EXCEPT ![i] = l]
    BY <1>1, <1>2, <1>3, <1>5
  <1>7. /\ l.done = k.done + q /\ l.exc = "NONE" /\ l.quantity = k.quantity
        /\ l.order = k.order /\ l.sku = k.sku
    BY <1>4, <1>5 DEF Tasks
  <1>8. /\ DOMAIN tasks' = DOMAIN tasks /\ tasks'[i] = l
        /\ \A j \in DOMAIN tasks \ {i} : tasks'[j] = tasks[j]
    BY <1>3, <1>6
  <1>9. Lost(k) = 0 /\ Lost(l) = 0 /\ Due(l) = Due(k)
    BY <1>4, <1>7 DEF Lost, Due
  <1>10. q \in Nat /\ TaskMove(k, l, q)
    BY <1>3, <1>4, <1>7, <1>9 DEF TaskMove
  <1> QED
    BY <1>1, <1>2, <1>3, <1>4, <1>7, <1>8, <1>9, <1>10, OneTaskPromised

LEMMA CommitShortPromised ==
  ASSUME Inv, Inv', Demanded, NEW c \in Scanner, CommitShort(c)
  PROVE  Demanded' /\ [Promise!Next]_(Promise!vars)
PROOF
  <1>1. PICK i, k : i = scan[c].task /\ k = tasks[i]
    OBVIOUS
  <1>2. /\ scan[c].job = "short"
        /\ tasks' = [tasks EXCEPT ![i].status = "SHORT", ![i].exc = "OPEN"]
        /\ UNCHANGED <<status, packed>>
    BY <1>1 DEF CommitShort, EndScan
  <1>3. i \in DOMAIN tasks /\ IsOpen(k)
    BY <1>1, <1>2, InHand DEF ScanOK
  <1>4. /\ k \in Tasks /\ k.done \in Nat /\ Remaining(k) \in Nat /\ k.exc = "NONE" /\ k.status # "DONE"
    <2>1. k.exc # "NONE" <=> k.status = "SHORT"
      BY <1>1, <1>3, TaskHere
    <2>2. k.exc = "NONE"
      BY <1>3, <2>1 DEF IsOpen
    <2> QED
      BY <1>1, <1>3, <2>2, TaskHere DEF IsOpen
  <1>5. PICK l : l = [k EXCEPT !.status = "SHORT", !.exc = "OPEN"]
    OBVIOUS
  <1>6. tasks' = [tasks EXCEPT ![i] = l]
    BY <1>1, <1>2, <1>3, <1>5
  <1>7. /\ l.done = k.done /\ l.exc = "OPEN" /\ l.quantity = k.quantity
        /\ l.order = k.order /\ l.sku = k.sku
    BY <1>4, <1>5 DEF Tasks
  <1>8. /\ DOMAIN tasks' = DOMAIN tasks /\ tasks'[i] = l
        /\ \A j \in DOMAIN tasks \ {i} : tasks'[j] = tasks[j]
    BY <1>3, <1>6
  <1>9. Lost(k) = 0 /\ Lost(l) = Remaining(k) /\ Due(l) = Due(k)
    BY <1>4, <1>7 DEF Lost, Due, Remaining
  <1>10. PICK n : n = Remaining(k)
    OBVIOUS
  <1>11. n \in Nat /\ TaskMove(k, l, n)
    BY <1>4, <1>7, <1>9, <1>10 DEF TaskMove
  <1> QED
    BY <1>1, <1>2, <1>3, <1>4, <1>7, <1>8, <1>9, <1>11, OneTaskPromised

LEMMA ResolvedPromised ==
  ASSUME Inv, Inv', Demanded, NEW i \in DOMAIN tasks, ResolveWithNote(i)
  PROVE  Demanded' /\ [Promise!Next]_(Promise!vars)
PROOF
  <1>1. PICK k, l : k = tasks[i] /\ l = [k EXCEPT !.exc = "NOTED"]
    OBVIOUS
  <1>2. /\ k.exc = "OPEN" /\ tasks' = [tasks EXCEPT ![i] = l] /\ UNCHANGED <<status, packed>>
    BY <1>1 DEF ResolveWithNote
  <1>3. k \in Tasks /\ k.status # "DONE" /\ Remaining(k) \in Nat
    BY <1>1, <1>2, TaskHere
  <1>4. /\ l.done = k.done /\ l.exc = "NOTED" /\ l.quantity = k.quantity
        /\ l.order = k.order /\ l.sku = k.sku
    BY <1>1, <1>3 DEF Tasks
  <1>5. /\ DOMAIN tasks' = DOMAIN tasks /\ tasks'[i] = l
        /\ \A j \in DOMAIN tasks \ {i} : tasks'[j] = tasks[j]
    BY <1>2
  <1>6. Lost(l) = Lost(k) /\ Due(l) = Due(k)
    BY <1>2, <1>4 DEF Lost, Due, Remaining
  <1>7. 0 \in Nat /\ TaskMove(k, l, 0)
    BY <1>4, <1>6 DEF TaskMove
  <1> QED
    BY <1>1, <1>2, <1>3, <1>4, <1>5, <1>6, <1>7, OneTaskPromised

(* New tasks T, after what became of the old ones: ks.                      *)
LEMMA TotalsWithNew ==
  ASSUME NEW ks, Wellformed(ks), NEW T, NEW ls, NEW q, NewlyMade(T, ls, q), tasks' = ks \o ls,
         NEW o, NEW s
  PROVE  /\ Picked(o, s)' = Total(ks, Dones(ks), o, s)
         /\ Missing(o, s)' = Total(ks, Losts(ks), o, s)
         /\ Sought(o, s)' = Total(ks, Dues(ks), o, s) + SumOver(q, {k \in T : IsFor(k, o, s)})
PROOF
  <1>1. /\ Total(ls, Dones(ls), o, s) = 0 /\ Total(ls, Losts(ls), o, s) = 0
        /\ Total(ls, Dues(ls), o, s) = SumOver(q, {k \in T : IsFor(k, o, s)})
    BY NewTotals
  <1>2. /\ Total(ks \o ls, Dones(ks \o ls), o, s) = Total(ks, Dones(ks), o, s) + Total(ls, Dones(ls), o, s)
        /\ Total(ks \o ls, Losts(ks \o ls), o, s) = Total(ks, Losts(ks), o, s) + Total(ls, Losts(ls), o, s)
        /\ Total(ks \o ls, Dues(ks \o ls), o, s) = Total(ks, Dues(ks), o, s) + Total(ls, Dues(ls), o, s)
    BY TotalsJoined DEF NewlyMade
  <1>3. Total(ks, Dones(ks), o, s) \in Nat /\ Total(ks, Losts(ks), o, s) \in Nat
    BY AllRated, AmountsCount
  <1> QED
    BY <1>1, <1>2, <1>3, SumsAre

(* Where the tasks come from when some are added.                           *)
LEMMA OldOrNew ==
  ASSUME NEW ks, NEW ls, Wellformed(ks), Wellformed(ls), tasks' = ks \o ls, NEW j \in DOMAIN tasks'
  PROVE  (\E m \in DOMAIN ks : tasks'[j] = ks[m]) \/ (\E m \in DOMAIN ls : tasks'[j] = ls[m])
PROOF
  <1>1. PICK a, b, js : a = Len(ks) /\ b = Len(ls) /\ js = ks \o ls
    OBVIOUS
  <1>2. /\ a \in Nat /\ b \in Nat /\ DOMAIN ks = 1..a /\ DOMAIN ls = 1..b /\ DOMAIN js = 1..(a + b)
        /\ \A i \in 1..a : js[i] = ks[i]
        /\ \A i \in 1..b : js[a + i] = ls[i]
    BY <1>1, Indices, Joined
  <1>3. j \in 1..(a + b) /\ tasks'[j] = js[j]
    BY <1>1, <1>2
  <1>4. CASE j \in 1..a
    BY <1>2, <1>3, <1>4
  <1>5. CASE j \notin 1..a
    <2>1. PICK m : m = j - a
      OBVIOUS
    <2>2. a \in Nat /\ b \in Nat /\ j \in 1..(a + b) /\ j \notin 1..a
      BY <1>2, <1>3, <1>5
    <2>3. m \in 1..b /\ j = a + m
      BY ONLY <2>1, <2>2
    <2> QED
      BY <1>2, <1>3, <2>3
  <1> QED
    BY <1>4, <1>5

(* The units of task i are looked for again: T are the new tasks.           *)
LEMMA CommitRepickPromised ==
  ASSUME Inv, Inv', Demanded, NEW c \in Scanner, CommitRepick(c)
  PROVE  Demanded' /\ [Promise!Next]_(Promise!vars)
PROOF
  <1>1. PICK i, n, us, k : i = scan[c].task /\ n = scan[c].qty /\ us = scan[c].locked /\ k = tasks[i]
    OBVIOUS
  <1>2. PICK T, ls : T = NewTasks(k.order, k.sku, 0, n, us, k.wave) /\ ls = SetToSeq(T)
    OBVIOUS
  <1>3. /\ scan[c].job = "repick" /\ status' = status /\ packed' = packed
        /\ tasks' = [tasks EXCEPT ![i].exc = "REPICKED"] \o ls
    BY <1>1, <1>2 DEF CommitRepick, EndScan
  <1>4. /\ i \in DOMAIN tasks /\ k.exc = "OPEN" /\ n \in Nat /\ n = Remaining(k) /\ us \in SUBSET Place
        /\ \A p \in us : p[2] = k.sku
    BY <1>1, <1>3, InHand DEF ScanOK
  <1>5. /\ k \in Tasks /\ k.quantity \in Nat /\ k.done \in Nat /\ k.done <= k.quantity /\ k.quantity > 0
        /\ k.status = "SHORT" /\ n > 0 /\ k.wave \in Nat
    BY <1>1, <1>4, TaskHere DEF Tasks
  <1>6. PICK o, s : o = k.order /\ s = k.sku
    OBVIOUS
  <1>7. /\ o \in Order /\ s \in Sku /\ status[o] = "PICKING" /\ Need[o][s] \in Nat
        /\ Picked(o, s) + Missing(o, s) - Lost(k) + n <= Need[o][s] /\ Lost(k) <= Missing(o, s)
    BY <1>1, <1>4, <1>5, <1>6, PickingOrder
  <1>8. PICK l, ks : l = [k EXCEPT !.exc = "REPICKED"] /\ ks = [tasks EXCEPT ![i] = l]
    OBVIOUS
  <1>9. tasks' = ks \o ls
    BY <1>1, <1>3, <1>4, <1>8
  <1>10. /\ l \in Tasks /\ l.quantity = k.quantity /\ l.done = k.done /\ l.status = "SHORT"
         /\ l.order = o /\ l.sku = s /\ l.exc = "REPICKED"
    BY <1>5, <1>6, <1>8 DEF Tasks
  <1>11. /\ DOMAIN ks = DOMAIN tasks /\ ks[i] = l /\ \A j \in DOMAIN tasks \ {i} : ks[j] = tasks[j]
    BY <1>4, <1>8
  <1>12. Wellformed(tasks) /\ Wellformed(ks)
    <2>1. Wellformed(tasks)
      BY RowsHere
    <2>2. ks \in Seq(Tasks)
      BY <1>4, <1>8, <1>10, <2>1, ExceptSeq DEF Wellformed
    <2>3. \A j \in DOMAIN ks : ks[j].done <= ks[j].quantity
      BY <1>5, <1>10, <1>11, <2>1 DEF Wellformed
    <2> QED
      BY <2>1, <2>2, <2>3 DEF Wellformed
  <1>13. Lost(k) = n /\ Lost(l) = 0 /\ Due(k) = k.quantity /\ Due(l) = k.quantity - n
    BY <1>4, <1>5, <1>10 DEF Lost, Due, Remaining
  <1>14. IsFiniteSet(T) /\ \A e \in T : Made(e, o, s, 0, n, us, k.wave)
    BY <1>2, <1>4, <1>5, <1>6, <1>7, PartsOfInv, TasksMade
  <1>15. Wellformed(ls) /\ \A j \in DOMAIN ls : ls[j] \in T
    <2>1. \A e \in T : e \in Tasks /\ e.quantity > 0 /\ e.done = 0
      BY <1>14 DEF Made
    <2> QED
      BY <1>2, <1>14, <2>1, NewSequence
  <1>16. PICK q : q = [e \in T |-> e.quantity]
    OBVIOUS
  <1>17. NewlyMade(T, ls, q)
    <2>1. \A e \in T : e.done = 0 /\ e.exc = "NONE" /\ e.quantity \in Nat
      BY <1>14 DEF Made, Tasks
    <2> QED
      BY <1>2, <1>14, <1>15, <1>16, <2>1 DEF NewlyMade
  <1>18. SumOver(q, T) = n
    <2>1. \A e \in T : q[e] = e.quantity
      BY <1>16
    <2>2. BinsOK /\ 0 \in Nat
      BY PartsOfInv
    <2> QED
      BY <1>2, <1>4, <1>5, <1>6, <1>7, <2>1, <2>2, NewTasksCount
  <1>19. ASSUME NEW u \in Order, NEW e \in Sku
         PROVE  /\ Picked(u, e)' = Picked(u, e)
                /\ Missing(u, e)' = Missing(u, e) - (IF u = o /\ e = s THEN n ELSE 0)
                /\ Sought(u, e)' = Sought(u, e)
    <2>1. /\ Picked(u, e)' = Total(ks, Dones(ks), u, e)
          /\ Missing(u, e)' = Total(ks, Losts(ks), u, e)
          /\ Sought(u, e)' = Total(ks, Dues(ks), u, e) + SumOver(q, {x \in T : IsFor(x, u, e)})
      BY <1>9, <1>12, <1>17, TotalsWithNew
    <2>2. /\ Total(ks, Dones(ks), u, e) = Total(tasks, Dones(tasks), u, e)
               + (IF IsFor(k, u, e) THEN l.done - k.done ELSE 0)
          /\ Total(ks, Losts(ks), u, e) = Total(tasks, Losts(tasks), u, e)
               + (IF IsFor(k, u, e) THEN Lost(l) - Lost(k) ELSE 0)
          /\ Total(ks, Dues(ks), u, e) = Total(tasks, Dues(tasks), u, e)
               + (IF IsFor(k, u, e) THEN Due(l) - Due(k) ELSE 0)
      <3>1. ks[i] = l /\ tasks[i] = k /\ ks[i].order = tasks[i].order /\ ks[i].sku = tasks[i].sku
        BY <1>1, <1>6, <1>10, <1>11
      <3> QED
        BY <1>4, <1>11, <1>12, <3>1, TotalsChanged
    <2>3. IsFor(k, u, e) <=> u = o /\ e = s
      BY <1>6 DEF IsFor
    <2>4. SumOver(q, {x \in T : IsFor(x, u, e)}) = IF u = o /\ e = s THEN n ELSE 0
      <3>1. \A x \in T : IsFor(x, u, e) <=> u = o /\ e = s
        BY <1>14 DEF Made, IsFor
      <3>2. CASE u = o /\ e = s
        <4>1. {x \in T : IsFor(x, u, e)} = T
          BY <3>1, <3>2
        <4> QED
          BY <1>18, <3>2, <4>1
      <3>3. CASE ~(u = o /\ e = s)
        <4>1. {x \in T : IsFor(x, u, e)} = {}
          BY <3>1, <3>3
        <4> QED
          BY <3>3, <4>1, SumOfNone
      <3> QED
        BY <3>2, <3>3
    <2>5. /\ Picked(u, e) = Total(tasks, Dones(tasks), u, e)
          /\ Missing(u, e) = Total(tasks, Losts(tasks), u, e)
          /\ Sought(u, e) = Total(tasks, Dues(tasks), u, e)
          /\ Picked(u, e) \in Nat /\ Missing(u, e) \in Nat /\ Sought(u, e) \in Nat
      BY SumsAre, TotalsHere DEF Sought
    <2>6. /\ l.done - k.done = 0 /\ Lost(l) - Lost(k) = 0 - n /\ Due(l) - Due(k) = 0 - n
          /\ k.quantity \in Nat /\ n \in Nat
      BY <1>4, <1>5, <1>10, <1>13
    <2>7. CASE IsFor(k, u, e)
      BY <2>1, <2>2, <2>3, <2>4, <2>5, <2>6, <2>7
    <2>8. CASE ~IsFor(k, u, e)
      BY <2>1, <2>2, <2>3, <2>4, <2>5, <2>6, <2>8
    <2> QED
      BY <2>7, <2>8
  <1>20. Demanded'
    <2> SUFFICES ASSUME NEW u \in Order
                 PROVE  /\ status'[u] \in Waiting => \A j \in DOMAIN tasks' : tasks'[j].order # u
                        /\ status'[u] \notin Waiting => \A e \in Sku : Sought(u, e)' = Need[u][e]
                        /\ status'[u] \in Packed => \A e \in Sku : Picked(u, e)' = Need[u][e]
      BY DEF Demanded
    <2>1. ASSUME status'[u] \in Waiting, NEW j \in DOMAIN tasks' PROVE tasks'[j].order # u
      <3>1. \A m \in DOMAIN tasks : tasks[m].order # u
        BY <1>3, <2>1 DEF Demanded
      <3>2. u # o
        BY <1>3, <1>7, <2>1 DEF Waiting
      <3>3. \A m \in DOMAIN ks : ks[m].order # u
        BY <1>10, <1>11, <3>1, <3>2
      <3>4. \A m \in DOMAIN ls : ls[m].order # u
        BY <1>14, <1>15, <3>2 DEF Made
      <3> QED
        BY <1>9, <1>12, <1>15, <3>3, <3>4, OldOrNew
    <2> QED
      BY <1>3, <1>19, <2>1 DEF Demanded
  <1>21. Phases' = Phases /\ Phases[o] = "picking"
    BY <1>3, <1>7, PhasesAre
  <1>22. PICK f, g, ff, gg : f = Pickeds /\ g = Missed /\ ff = Pickeds' /\ gg = Missed'
    OBVIOUS
  <1>23. /\ f \in [Order -> [Sku -> Nat]] /\ g \in [Order -> [Sku -> Nat]]
         /\ ff \in [Order -> [Sku -> Nat]] /\ gg \in [Order -> [Sku -> Nat]]
    BY <1>22, TalliesCount
  <1>24. \A u \in Order, e \in Sku :
            ff[u][e] = f[u][e] /\ gg[u][e] = g[u][e] - (IF u = o /\ e = s THEN n ELSE 0)
    BY <1>19, <1>22, TalliesAre
  <1>25. ff = f
    BY <1>23, <1>24, SameTally
  <1>26. gg = [g EXCEPT ![o][s] = g[o][s] - n]
    <2>1. \A u \in Order, e \in Sku : gg[u][e] = IF u = o /\ e = s THEN g[o][s] - n ELSE g[u][e]
      BY <1>23, <1>24
    <2> QED
      BY <1>7, <1>23, <2>1, OneTally
  <1>27. g[o][s] = Missing(o, s) /\ Picked(o, s) \in Nat /\ Missing(o, s) \in Nat
    BY <1>7, <1>22, TalliesAre, TotalsHere
  <1>28. n <= g[o][s] /\ n \in 1..Need[o][s]
    BY <1>4, <1>5, <1>7, <1>13, <1>27
  <1> QED
    BY <1>3, <1>7, <1>20, <1>21, <1>22, <1>25, <1>26, <1>28, PromiseCounts

(* An order that waits for its wave has nothing asked for yet.              *)
LEMMA NothingSought ==
  ASSUME Demanded, NEW o \in Order, status[o] \in Waiting, NEW s
  PROVE  Sought(o, s) = 0
PROOF
  <1>1. PICK n : n = Amount(tasks, Dues(tasks), o, s)
    OBVIOUS
  <1>2. \A i \in DOMAIN tasks : tasks[i].order # o
    BY DEF Demanded
  <1>3. \A i \in DOMAIN tasks : n[i] = 0
    BY <1>1, <1>2 DEF Amount, IsFor
  <1> QED
    BY <1>1, <1>3, SumOfZeros DEF Sought, Total

LEMMA BeforeIsNat ==
  ASSUME NEW os \in SUBSET Order, NEW o, NEW s \in Sku
  PROVE  AskedBefore(os, o, s) \in Nat
PROOF
  <1>1. PICK n, S : n = [q \in Order |-> Need[q][s]] /\ S = {q \in os : q < o}
    OBVIOUS
  <1>2. IsFiniteSet(S) /\ \A q \in S : n[q] \in Nat
    BY <1>1, Finite, FS_Subset, WarehouseAssumption
  <1> QED
    BY <1>1, <1>2, SumIsNat DEF AskedBefore, Countable

LEMMA CreateWavePromised ==
  ASSUME Inv, Inv', Demanded, NEW os \in SUBSET Order, CreateWave(os)
  PROVE  Demanded' /\ [Promise!Next]_(Promise!vars)
PROOF
  <1>1. PICK w : w = Len(waves) + 1
    OBVIOUS
  <1>2. PICK T, ls : T = MadeIn(os, w) /\ ls = SetToSeq(T)
    OBVIOUS
  <1>3. /\ tasks' = tasks \o ls /\ packed' = packed
        /\ status' = [o \in Order |-> IF o \in os THEN "PICKING" ELSE status[o]]
        /\ \A o \in os : status[o] = "ALLOCATED"
    BY <1>1, <1>2 DEF CreateWave, MadeIn, MadeFor, AskedBefore
  <1>4. Wellformed(tasks) /\ w \in Nat
    <2>1. waves \in Seq(WaveStatus)
      BY PartsOfInv DEF TasksOK
    <2> QED
      BY <1>1, <2>1, RowsHere, LenProperties
  <1>5. /\ IsFiniteSet(T)
        /\ \A k \in T : /\ k.order \in os /\ k.sku \in Sku /\ k \in MadeFor(os, k.order, k.sku, w)
                        /\ k \in Tasks /\ k.quantity \in Nat /\ k.quantity > 0 /\ k.done = 0
                        /\ k.exc = "NONE"
        /\ \A o \in os, s \in Sku :
             /\ MadeFor(os, o, s, w) \in SUBSET T
             /\ \A k \in MadeFor(os, o, s, w) : k.order = o /\ k.sku = s
    BY <1>2, <1>4, WaveTasks
  <1>6. Wellformed(ls) /\ \A j \in DOMAIN ls : ls[j] \in T
    BY <1>2, <1>5, NewSequence
  <1>7. PICK q : q = [k \in T |-> k.quantity]
    OBVIOUS
  <1>8. NewlyMade(T, ls, q)
    BY <1>2, <1>5, <1>6, <1>7 DEF NewlyMade
  <1>9. ASSUME NEW o \in Order, NEW s \in Sku
        PROVE  /\ Picked(o, s)' = Picked(o, s) /\ Missing(o, s)' = Missing(o, s)
               /\ Sought(o, s)' = Sought(o, s) + SumOver(q, {k \in T : IsFor(k, o, s)})
               /\ Sought(o, s) \in Nat
    <2>1. /\ Picked(o, s)' = Total(tasks, Dones(tasks), o, s)
          /\ Missing(o, s)' = Total(tasks, Losts(tasks), o, s)
          /\ Sought(o, s)' = Total(tasks, Dues(tasks), o, s) + SumOver(q, {k \in T : IsFor(k, o, s)})
      <3>1. PICK ks : ks = tasks
        OBVIOUS
      <3>2. tasks' = ks \o ls /\ Wellformed(ks) /\ NewlyMade(T, ls, q)
        BY <1>3, <1>4, <1>8, <3>1
      <3>3. /\ Picked(o, s)' = Total(ks, Dones(ks), o, s)
            /\ Missing(o, s)' = Total(ks, Losts(ks), o, s)
            /\ Sought(o, s)' = Total(ks, Dues(ks), o, s) + SumOver(q, {k \in T : IsFor(k, o, s)})
        BY ONLY <3>2, TotalsWithNew
      <3> QED
        BY <3>1, <3>3
    <2>2. /\ Picked(o, s) = Total(tasks, Dones(tasks), o, s)
          /\ Missing(o, s) = Total(tasks, Losts(tasks), o, s)
          /\ Sought(o, s) = Total(tasks, Dues(tasks), o, s)
      BY SumsAre DEF Sought
    <2>3. Sought(o, s) \in Nat
      BY TotalsHere
    <2> QED
      BY <2>1, <2>2, <2>3
  <1>10. ASSUME NEW o \in Order \ os, NEW s \in Sku PROVE Sought(o, s)' = Sought(o, s)
    <2>1. {k \in T : IsFor(k, o, s)} = {}
      BY <1>5 DEF IsFor
    <2>2. SumOver(q, {k \in T : IsFor(k, o, s)}) = 0
      BY <2>1, SumOfNone
    <2> QED
      BY <1>9, <2>2
  <1>11. ASSUME NEW o \in os, NEW s \in Sku PROVE Sought(o, s)' = Need[o][s]
    <2>1. PICK M, us, before, n : /\ M = MadeFor(os, o, s, w) /\ us = Usable(s, {})
                                  /\ before = AskedBefore(os, o, s) /\ n = Need[o][s]
      OBVIOUS
    <2>2. {k \in T : IsFor(k, o, s)} = M
      BY <1>5, <2>1 DEF IsFor
    <2>3. M = NewTasks(o, s, before, n, us, w)
      BY <2>1 DEF MadeFor
    <2>4. us \in SUBSET Place /\ \A p \in us : p[2] = s
      BY <2>1 DEF Usable
    <2>5. before \in Nat /\ n \in Nat /\ BinsOK /\ o \in Order
      BY <2>1, BeforeIsNat, WarehouseAssumption, PartsOfInv
    <2>6. \A k \in M : q[k] = k.quantity
      BY <1>5, <1>7, <2>1
    <2>7. SumOver(q, M) = n
      BY <1>4, <2>3, <2>4, <2>5, <2>6, NewTasksCount
    <2>8. Sought(o, s) = 0
      BY <1>3, <2>5, NothingSought DEF Waiting
    <2> QED
      BY <1>9, <2>1, <2>2, <2>5, <2>7, <2>8
  <1>12. Demanded'
    <2> SUFFICES ASSUME NEW o \in Order
                 PROVE  /\ status'[o] \in Waiting => \A j \in DOMAIN tasks' : tasks'[j].order # o
                        /\ status'[o] \notin Waiting => \A s \in Sku : Sought(o, s)' = Need[o][s]
                        /\ status'[o] \in Packed => \A s \in Sku : Picked(o, s)' = Need[o][s]
      BY DEF Demanded
    <2>1. CASE o \in os
      <3>1. status'[o] = "PICKING"
        BY <1>3, <2>1
      <3> QED
        BY <1>11, <2>1, <3>1 DEF Waiting, Packed
    <2>2. CASE o \notin os
      <3>1. status'[o] = status[o]
        BY <1>3, <2>2
      <3>2. ASSUME status[o] \in Waiting, NEW j \in DOMAIN tasks' PROVE tasks'[j].order # o
        <4>1. \A m \in DOMAIN tasks : tasks[m].order # o
          BY <3>2 DEF Demanded
        <4>2. \A m \in DOMAIN ls : ls[m].order # o
          BY <1>5, <1>6, <2>2
        <4> QED
          BY <1>3, <1>4, <1>6, <4>1, <4>2, OldOrNew
      <3>3. ASSUME status[o] \notin Waiting, NEW s \in Sku PROVE Sought(o, s)' = Need[o][s]
        BY <1>10, <2>2, <3>3 DEF Demanded
      <3>4. ASSUME status[o] \in Packed, NEW s \in Sku PROVE Picked(o, s)' = Need[o][s]
        BY <1>9, <3>4 DEF Demanded
      <3> QED
        BY <3>1, <3>2, <3>3, <3>4
    <2> QED
      BY <2>1, <2>2
  <1>13. /\ Phases' = [o \in Order |-> IF o \in os THEN "picking" ELSE Phases[o]]
         /\ \A o \in os : Phases[o] = "waiting"
    <2>1. \A o \in Order : PhaseOf(status'[o]) = IF o \in os THEN "picking" ELSE PhaseOf(status[o])
      BY <1>3, PhasesAre
    <2>2. Phases = [o \in Order |-> PhaseOf(status[o])] /\ Phases' = [o \in Order |-> PhaseOf(status'[o])]
      BY PhasesAre
    <2>3. \A o \in os : PhaseOf(status[o]) = "waiting"
      BY <1>3, PhasesAre DEF Waiting
    <2> QED
      BY <2>1, <2>2, <2>3
  <1>14. Pickeds' = Pickeds /\ Missed' = Missed
    <2>1. PICK f, g, ff, gg : f = Pickeds /\ g = Missed /\ ff = Pickeds' /\ gg = Missed'
      OBVIOUS
    <2>2. /\ f \in [Order -> [Sku -> Nat]] /\ g \in [Order -> [Sku -> Nat]]
          /\ ff \in [Order -> [Sku -> Nat]] /\ gg \in [Order -> [Sku -> Nat]]
      BY <2>1, TalliesCount
    <2>3. \A o \in Order, s \in Sku : ff[o][s] = f[o][s] /\ gg[o][s] = g[o][s]
      BY <1>9, <2>1, TalliesAre
    <2> QED
      BY <2>1, <2>2, <2>3, SameTally
  <1> QED
    BY <1>3, <1>12, <1>13, <1>14, PromiseStarts

(* Steps that leave the tasks alone.                                        *)
LEMMA TasksKept ==
  ASSUME tasks' = tasks
  PROVE  /\ \A o, s : Picked(o, s)' = Picked(o, s) /\ Sought(o, s)' = Sought(o, s)
         /\ Pickeds' = Pickeds /\ Missed' = Missed
PROOF
  <1>1. \A o, s : /\ Picked(o, s)' = Picked(o, s) /\ Missing(o, s)' = Missing(o, s)
                  /\ Sought(o, s)' = Sought(o, s)
    BY SumsAre DEF Sought
  <1>2. Pickeds' = Pickeds
    BY <1>1 DEF Pickeds
  <1>3. Missed' = Missed
    BY <1>1 DEF Missed
  <1> QED
    BY <1>1, <1>2, <1>3

LEMMA StillDemanded ==
  ASSUME Demanded, tasks' = tasks,
         \A o \in Order : /\ status'[o] \in Waiting <=> status[o] \in Waiting
                          /\ status'[o] \in Packed => \/ status[o] \in Packed
                                                      \/ \A s \in Sku : Picked(o, s) = Need[o][s]
  PROVE  Demanded'
PROOF
  <1> SUFFICES ASSUME NEW o \in Order
               PROVE  /\ status'[o] \in Waiting => \A j \in DOMAIN tasks' : tasks'[j].order # o
                      /\ status'[o] \notin Waiting => \A s \in Sku : Sought(o, s)' = Need[o][s]
                      /\ status'[o] \in Packed => \A s \in Sku : Picked(o, s)' = Need[o][s]
    BY DEF Demanded
  <1>1. \A s \in Sku : Picked(o, s)' = Picked(o, s) /\ Sought(o, s)' = Sought(o, s)
    BY TasksKept
  <1> QED
    BY <1>1 DEF Demanded

(* Neither orders nor tasks change.                                         *)
LEMMA QuietPromised ==
  ASSUME Demanded, UNCHANGED <<status, tasks, packed>>
  PROVE  Demanded' /\ [Promise!Next]_(Promise!vars)
PROOF
  <1>1. Demanded'
    BY StillDemanded
  <1>2. Phases' = Phases
    BY PhasesAre
  <1> QED
    BY <1>1, <1>2, TasksKept, PromiseRests

(* The status of order o changes from x to y.                               *)
LEMMA PhasesMove ==
  ASSUME Inv, NEW o \in Order, NEW y, status' = [status EXCEPT ![o] = y]
  PROVE  /\ Phases[o] = PhaseOf(status[o]) /\ status'[o] = y
         /\ \A q \in Order \ {o} : status'[q] = status[q]
         /\ Phases' = [q \in Order |-> IF q \in {o} THEN PhaseOf(y) ELSE Phases[q]]
PROOF
  <1>1. DOMAIN status = Order
    BY PartsOfInv DEF StatusOK
  <1>2. status'[o] = y /\ \A q \in Order \ {o} : status'[q] = status[q]
    BY <1>1
  <1>3. Phases = [q \in Order |-> PhaseOf(status[q])] /\ Phases' = [q \in Order |-> PhaseOf(status'[q])]
    BY PhasesAre
  <1>4. \A q \in Order : PhaseOf(status'[q]) = IF q \in {o} THEN PhaseOf(y) ELSE Phases[q]
    BY <1>2, <1>3
  <1> QED
    BY <1>2, <1>3, <1>4

LEMMA AllocatePromised ==
  ASSUME Inv, Demanded, NEW o \in Order, Allocate(o)
  PROVE  Demanded' /\ [Promise!Next]_(Promise!vars)
PROOF
  <1>1. /\ status[o] = "NEW" /\ status' = [status EXCEPT ![o] = "ALLOCATED"]
        /\ tasks' = tasks /\ packed' = packed
    BY DEF Allocate
  <1>2. /\ Phases[o] = PhaseOf(status[o]) /\ status'[o] = "ALLOCATED"
        /\ \A q \in Order \ {o} : status'[q] = status[q]
        /\ Phases' = [q \in Order |-> IF q \in {o} THEN PhaseOf("ALLOCATED") ELSE Phases[q]]
    BY <1>1, PhasesMove
  <1>3. Demanded'
    BY <1>1, <1>2, StillDemanded DEF Waiting, Packed
  <1>4. PhaseOf("ALLOCATED") = Phases[o]
    BY <1>1, <1>2, PhasesAre DEF Waiting
  <1>5. Phases' = Phases
    <2>1. Phases = [q \in Order |-> Phases[q]]
      BY PhasesAre
    <2> QED
      BY <1>2, <1>4, <2>1
  <1> QED
    BY <1>1, <1>3, <1>5, TasksKept, PromiseRests

LEMMA ShipPromised ==
  ASSUME Inv, Demanded, NEW o \in Order, Ship(o)
  PROVE  Demanded' /\ [Promise!Next]_(Promise!vars)
PROOF
  <1>1. /\ status[o] = "READY_TO_SHIP" /\ status' = [status EXCEPT ![o] = "SHIPPED"]
        /\ tasks' = tasks /\ packed' = packed
    BY DEF Ship
  <1>2. /\ Phases[o] = PhaseOf(status[o]) /\ status'[o] = "SHIPPED"
        /\ \A q \in Order \ {o} : status'[q] = status[q]
        /\ Phases' = [q \in Order |-> IF q \in {o} THEN PhaseOf("SHIPPED") ELSE Phases[q]]
    BY <1>1, PhasesMove
  <1>3. Demanded'
    BY <1>1, <1>2, StillDemanded DEF Waiting, Packed
  <1>4. Phases[o] = "ready" /\ PhaseOf("SHIPPED") = "shipped"
    BY <1>1, <1>2, PhasesAre
  <1> QED
    BY <1>1, <1>2, <1>3, <1>4, TasksKept, PromiseEnds

LEMMA PackCompletePromised ==
  ASSUME Inv, Demanded, NEW o \in Order, PackComplete(o)
  PROVE  Demanded' /\ [Promise!Next]_(Promise!vars)
PROOF
  <1>1. /\ status[o] = "PACKING" /\ status' = [status EXCEPT ![o] = "READY_TO_SHIP"]
        /\ tasks' = tasks /\ packed' = packed /\ \A s \in Ordered(o) : packed[o][s] >= Need[o][s]
    BY DEF PackComplete
  <1>2. /\ Phases[o] = PhaseOf(status[o]) /\ status'[o] = "READY_TO_SHIP"
        /\ \A q \in Order \ {o} : status'[q] = status[q]
        /\ Phases' = [q \in Order |-> IF q \in {o} THEN PhaseOf("READY_TO_SHIP") ELSE Phases[q]]
    BY <1>1, PhasesMove
  <1>3. Demanded'
    BY <1>1, <1>2, StillDemanded DEF Waiting, Packed
  <1>4. Phases[o] = "packing" /\ PhaseOf("READY_TO_SHIP") = "ready"
    BY <1>1, <1>2, PhasesAre
  <1>5. PICK row, need, got : row = packed[o] /\ need = Need[o] /\ got = Pickeds[o]
    OBVIOUS
  <1>6. need \in [Sku -> Nat] /\ row \in [Sku -> Nat] /\ \A s \in Sku : row[s] <= need[s]
    BY <1>5, PartsOfInv, WarehouseAssumption DEF PackedOK, PackRow
  <1>7. ASSUME NEW s \in Sku PROVE row[s] = need[s]
    <2>1. row[s] \in Nat /\ need[s] \in Nat /\ row[s] <= need[s]
      BY <1>6
    <2>2. need[s] > 0 => row[s] >= need[s]
      BY <1>1, <1>5 DEF Ordered
    <2> QED
      BY ONLY <2>1, <2>2
  <1>8. row = need
    <2>1. row = [s \in Sku |-> row[s]] /\ need = [s \in Sku |-> need[s]]
      BY <1>6
    <2> QED
      BY <1>7, <2>1
  <1>9. got = need
    <2>1. got \in [Sku -> Nat]
      BY <1>5, TalliesNow
    <2>2. \A s \in Sku : got[s] = need[s]
      BY <1>1, <1>5, TalliesAre DEF Demanded, Packed
    <2>3. got = [s \in Sku |-> got[s]] /\ need = [s \in Sku |-> need[s]]
      BY <1>6, <2>1
    <2> QED
      BY <2>2, <2>3
  <1>10. packed[o] = Need[o] /\ Pickeds[o] = Need[o]
    BY <1>5, <1>8, <1>9
  <1> QED
    BY <1>1, <1>2, <1>3, <1>4, <1>10, TasksKept, PromiseEnds

LEMMA PackScanPromised ==
  ASSUME Inv, Demanded, NEW o \in Order, NEW s \in Sku, NEW n \in 1..Need[o][s], PackScan(o, s, n)
  PROVE  Demanded' /\ [Promise!Next]_(Promise!vars)
PROOF
  <1>1. /\ \/ status[o] = "PICKING" /\ \A r \in Ordered(o) : Picked(o, r) >= Need[o][r]
           \/ status[o] = "PACKING"
        /\ packed[o][s] + n <= Need[o][s] /\ packed' = [packed EXCEPT ![o][s] = packed[o][s] + n]
        /\ status' = [status EXCEPT ![o] = "PACKING"] /\ tasks' = tasks
    BY DEF PackScan
  <1>2. /\ Phases[o] = PhaseOf(status[o]) /\ status'[o] = "PACKING"
        /\ \A q \in Order \ {o} : status'[q] = status[q]
        /\ Phases' = [q \in Order |-> IF q \in {o} THEN PhaseOf("PACKING") ELSE Phases[q]]
    BY <1>1, PhasesMove
  <1>3. ASSUME NEW r \in Sku PROVE Picked(o, r) = Need[o][r]
    <2>1. CASE status[o] = "PACKING"
      BY <2>1 DEF Demanded, Packed
    <2>2. CASE status[o] = "PICKING" /\ \A e \in Ordered(o) : Picked(o, e) >= Need[o][e]
      <3>1. PICK a, b, c, d : a = Picked(o, r) /\ b = Missing(o, r) /\ c = Sought(o, r) /\ d = Need[o][r]
        OBVIOUS
      <3>2. a \in Nat /\ b \in Nat /\ c \in Nat /\ a + b <= c /\ d \in Nat
        BY <3>1, TotalsHere, WarehouseAssumption
      <3>3. c = d
        BY <2>2, <3>1 DEF Demanded, Waiting
      <3>4. d > 0 => a >= d
        BY <2>2, <3>1 DEF Ordered
      <3>5. a = d
        BY ONLY <3>2, <3>3, <3>4
      <3> QED
        BY <3>1, <3>5
    <2> QED
      BY <1>1, <2>1, <2>2
  <1>4. Demanded'
    <2>1. \A q \in Order : /\ status'[q] \in Waiting <=> status[q] \in Waiting
                           /\ status'[q] \in Packed => \/ status[q] \in Packed
                                                       \/ \A r \in Sku : Picked(q, r) = Need[q][r]
      BY <1>1, <1>2, <1>3 DEF Waiting, Packed
    <2> QED
      BY <1>1, <2>1, StillDemanded
  <1>5. \A r \in Sku : Pickeds[o][r] = Need[o][r]
    BY <1>3, TalliesAre
  <1>6. PhaseOf("PACKING") = "packing" /\ PhaseOf("PICKING") = "picking"
    BY PhasesAre
  <1>7. CASE status[o] = "PICKING"
    <2>1. Phases[o] = "picking" /\ Phases' = [q \in Order |-> IF q \in {o} THEN "packing" ELSE Phases[q]]
      BY <1>2, <1>6, <1>7
    <2> QED
      BY <1>1, <1>4, <1>5, <2>1, TasksKept, PromiseScans
  <1>8. CASE status[o] = "PACKING"
    <2>1. Phases[o] = "packing" /\ Phases' = [q \in Order |-> IF q \in {o} THEN "packing" ELSE Phases[q]]
      BY <1>2, <1>6, <1>8
    <2>2. Phases' = Phases
      <3>1. Phases = [q \in Order |-> Phases[q]]
        BY PhasesAre
      <3> QED
        BY <2>1, <3>1
    <2> QED
      BY <1>1, <1>4, <2>1, <2>2, TasksKept, PromiseScans
  <1> QED
    BY <1>1, <1>7, <1>8

LEMMA NextPromised == Inv /\ Inv' /\ Demanded /\ [Next]_vars => Demanded' /\ [Promise!Next]_(Promise!vars)
PROOF
  <1> SUFFICES ASSUME Inv, Inv', Demanded, [Next]_vars
               PROVE  Demanded' /\ [Promise!Next]_(Promise!vars)
    OBVIOUS
  <1>1. CASE UNCHANGED vars
    <2>1. UNCHANGED <<status, tasks, packed>>
      BY <1>1 DEF vars
    <2> QED
      BY <2>1, QuietPromised
  <1>2. ASSUME NEW c \in Scanner, Picking(c)
        PROVE  Demanded' /\ [Promise!Next]_(Promise!vars)
    <2>1. CASE \/ \E i \in DOMAIN tasks : \/ \E q \in 1..tasks[i].quantity : Pick(c, i, q)
                                          \/ Short(c, i) \/ Repick(c, i)
               \/ Rollback(c)
      <3>1. UNCHANGED <<status, tasks, packed>>
        BY <2>1 DEF Rollback, Short, Repick, Pick
      <3> QED
        BY <3>1, QuietPromised
    <2> QED
      BY <1>2, <2>1, CommitPickPromised, CommitShortPromised, CommitRepickPromised DEF Picking
  <1>3. CASE Fulfilling
    <2>1. ASSUME NEW o \in Order, \E s \in Sku : \E q \in 1..Need[o][s] : PackScan(o, s, q)
          PROVE  Demanded' /\ [Promise!Next]_(Promise!vars)
      <3>1. PICK s \in Sku : \E q \in 1..Need[o][s] : PackScan(o, s, q)
        BY <2>1
      <3>2. PICK q \in 1..Need[o][s] : PackScan(o, s, q)
        BY <3>1
      <3> QED
        BY <3>2, PackScanPromised
    <2> QED
      BY <1>3, <2>1, AllocatePromised, ShipPromised, PackCompletePromised, CreateWavePromised,
         ResolvedPromised DEF Fulfilling
  <1>4. CASE Receiving
    <2>1. UNCHANGED <<status, tasks, packed>>
      BY <1>4 DEF Receiving, CompleteInbound, CancelInbound, ReceiveScan, PutawayTask, FreePutaway,
                  ReceiveStock, Adjust
    <2> QED
      BY <2>1, QuietPromised
  <1>5. CASE Counting
    <2>1. UNCHANGED <<status, tasks, packed>>
      BY <1>5 DEF Counting, SubmitCount, ApproveCount, CancelCount, CreateCount, RecordCount
    <2> QED
      BY <2>1, QuietPromised
  <1> QED
    BY <1>1, <1>2, <1>3, <1>4, <1>5 DEF Next

LEMMA InitPromised == Init => Demanded /\ Promise!Init
PROOF
  <1> SUFFICES ASSUME Init PROVE Demanded /\ Promise!Init
    OBVIOUS
  <1>1. tasks = <<>> /\ status = [o \in Order |-> "NEW"] /\ packed = [o \in Order |-> [s \in Sku |-> 0]]
    BY DEF Init
  <1>2. Demanded
    BY <1>1 DEF Demanded, Waiting, Packed
  <1>3. \A n : SumOver(n, DOMAIN tasks) = 0
    BY <1>1, SumOfNone
  <1>4. \A o, s : Picked(o, s) = 0 /\ Missing(o, s) = 0
    BY <1>3 DEF Picked, Missing
  <1>5. \A o \in Order : PickPhase(o) = "waiting"
    BY <1>1 DEF PickPhase
  <1> QED
    BY <1>1, <1>2, <1>4, <1>5 DEF Promise!Init, Promise!Nothing

(* No unit of an order is picked twice or forgotten, none is picked once     *)
(* packing has begun, and every parcel is complete, for any numbers of       *)
(* orders, bins, SKUs and scanners and however they are interleaved, rolled  *)
(* back, reported short and picked again.                                    *)
THEOREM PickPromiseKept == Spec => KeepsPickPromise
  BY InitPromised, NextPromised, InvHolds, PTL DEF Spec, KeepsPickPromise, Promise!Spec

-------------------------------------------------------------------------------
(* Waves.  The tasks of a wave are counted, and its status read, without a  *)
(* lock.  Whoever is going to close a wave has seen no task to do in it but *)
(* his own; what is made until he commits is made by those who pick again.  *)

(* Apart from task i, what is to do in wave w looks again for what was missing. *)
OnlyLooksAgain(w, i) == \A j \in InWave(w) \ {i} : IsOpen(tasks[j]) => LooksAgain(j)

(* Who has read x closes a wave, and the last of its tasks.                 *)
Closing(x) == x.job # "idle" /\ x.wave = "DONE"
ClosesLast(x) ==
  /\ x.job = "short" \/ (x.job = "pick" /\ x.qty = Remaining(tasks[x.task]))
  /\ OnlyLooksAgain(tasks[x.task].wave, x.task)

WavesInv == DoneIsNotEarly /\ \A c \in Scanner : Closing(scan[c]) => ClosesLast(scan[c])

(* What may become of a task k: it is not opened again.                     *)
Later(k, l) ==
  /\ l.order = k.order /\ l.sku = k.sku /\ l.wave = k.wave
  /\ k.exc = "REPICKED" => l.exc = "REPICKED"
  /\ IsOpen(l) => IsOpen(k)

TasksMoveOn == \A j \in DOMAIN tasks : j \in DOMAIN tasks' /\ Later(tasks[j], tasks'[j])

NewOnesLookAgain ==
  \A j \in DOMAIN tasks' \ DOMAIN tasks : tasks'[j].wave \in DOMAIN waves => LooksAgain(j)'

LEMMA StillLooksAgain ==
  ASSUME TasksMoveOn, NEW i \in DOMAIN tasks, LooksAgain(i)
  PROVE  LooksAgain(i)'
PROOF
  <1>1. PICK j \in InWave(tasks[i].wave) :
          j < i /\ IsFor(tasks[j], tasks[i].order, tasks[i].sku) /\ tasks[j].exc = "REPICKED"
    BY DEF LooksAgain
  <1>2. Later(tasks[i], tasks'[i]) /\ Later(tasks[j], tasks'[j]) /\ j \in DOMAIN tasks'
    BY <1>1 DEF TasksMoveOn, InWave
  <1>3. j \in InWave(tasks[i].wave)'
    BY <1>1, <1>2 DEF Later, InWave
  <1>4. IsFor(tasks'[j], tasks'[i].order, tasks'[i].sku) /\ tasks'[j].exc = "REPICKED"
    BY <1>1, <1>2 DEF Later, IsFor
  <1> QED
    BY <1>1, <1>3, <1>4 DEF LooksAgain

LEMMA OneLooksAgain ==
  ASSUME TasksMoveOn, NewOnesLookAgain, NEW w \in DOMAIN waves, NEW j \in InWave(w)', IsOpen(tasks'[j]),
         j \in InWave(w) /\ IsOpen(tasks[j]) => LooksAgain(j)
  PROVE  LooksAgain(j)'
PROOF
  <1>1. j \in DOMAIN tasks' /\ tasks'[j].wave = w
    BY DEF InWave
  <1>2. CASE j \in DOMAIN tasks
    <2>1. j \in InWave(w) /\ IsOpen(tasks[j])
      BY <1>1, <1>2 DEF TasksMoveOn, Later, InWave
    <2> QED
      BY <1>2, <2>1, StillLooksAgain
  <1>3. CASE j \notin DOMAIN tasks
    BY <1>1, <1>3 DEF NewOnesLookAgain
  <1> QED
    BY <1>2, <1>3

LEMMA StillOnlyLooksAgain ==
  ASSUME TasksMoveOn, NewOnesLookAgain, NEW w \in DOMAIN waves, NEW i, OnlyLooksAgain(w, i)
  PROVE  OnlyLooksAgain(w, i)'
PROOF
  <1>1. ASSUME NEW j \in InWave(w)', j # i, IsOpen(tasks'[j]) PROVE LooksAgain(j)'
    BY <1>1, OneLooksAgain DEF OnlyLooksAgain
  <1> QED
    BY <1>1 DEF OnlyLooksAgain

(* What a step has to show: whose wave becomes DONE, and whose reading is   *)
(* still true.                                                              *)
LEMMA WavesKept ==
  ASSUME WavesInv, TasksMoveOn, NewOnesLookAgain,
         \A w \in DOMAIN waves' : waves'[w] = "DONE" =>
            /\ w \in DOMAIN waves
            /\ waves[w] = "DONE" \/ \E i \in DOMAIN tasks : OnlyLooksAgain(w, i) /\ ~IsOpen(tasks'[i]),
         \A c \in Scanner : Closing(scan'[c]) =>
            /\ ClosesLast(scan'[c])
            /\ scan'[c].task \in DOMAIN tasks /\ tasks[scan'[c].task].wave \in DOMAIN waves
            /\ Remaining(tasks'[scan'[c].task]) = Remaining(tasks[scan'[c].task])
  PROVE  WavesInv'
PROOF
  <1>1. ASSUME NEW w \in DOMAIN waves', waves'[w] = "DONE", NEW j \in InWave(w)', IsOpen(tasks'[j])
        PROVE  LooksAgain(j)'
    <2>1. CASE waves[w] = "DONE"
      <3>1. w \in DOMAIN waves /\ (j \in InWave(w) /\ IsOpen(tasks[j]) => LooksAgain(j))
        BY <1>1, <2>1 DEF WavesInv, DoneIsNotEarly
      <3> QED
        BY <1>1, <3>1, OneLooksAgain
    <2>2. CASE waves[w] # "DONE"
      <3>1. PICK i \in DOMAIN tasks : OnlyLooksAgain(w, i) /\ ~IsOpen(tasks'[i])
        BY <1>1, <2>2
      <3>2. OnlyLooksAgain(w, i)'
        BY <1>1, <3>1, StillOnlyLooksAgain
      <3> QED
        BY <1>1, <3>1, <3>2 DEF OnlyLooksAgain
    <2> QED
      BY <2>1, <2>2
  <1>2. ASSUME NEW c \in Scanner, Closing(scan'[c]) PROVE ClosesLast(scan[c])'
    <2>1. PICK x, i : x = scan'[c] /\ i = x.task
      OBVIOUS
    <2>2. /\ i \in DOMAIN tasks /\ tasks[i].wave \in DOMAIN waves /\ Remaining(tasks'[i]) = Remaining(tasks[i])
          /\ x.job = "short" \/ (x.job = "pick" /\ x.qty = Remaining(tasks[i]))
          /\ OnlyLooksAgain(tasks[i].wave, i)
      BY <1>2, <2>1 DEF ClosesLast
    <2>3. tasks'[i].wave = tasks[i].wave
      BY <2>2 DEF TasksMoveOn, Later
    <2>4. OnlyLooksAgain(tasks[i].wave, i)'
      BY <2>2, <2>3, StillOnlyLooksAgain
    <2> QED
      BY <2>1, <2>2, <2>3, <2>4 DEF ClosesLast
  <1>3. DoneIsNotEarly'
    BY <1>1 DEF DoneIsNotEarly
  <1>4. \A c \in Scanner : Closing(scan[c])' => ClosesLast(scan[c])'
    BY <1>2 DEF Closing
  <1> QED
    BY <1>3, <1>4 DEF WavesInv

(* The wave of the task in hand, when the scanner commits.                  *)
LEMMA WaveWritten ==
  ASSUME Inv, NEW c \in Scanner, scan[c].job # "idle", EndScan(c), NEW w, w = tasks[scan[c].task].wave
  PROVE  /\ w \in DOMAIN waves /\ DOMAIN waves' = DOMAIN waves
         /\ waves'[w] = IF scan[c].wave = None THEN waves[w] ELSE scan[c].wave
         /\ \A v \in DOMAIN waves \ {w} : waves'[v] = waves[v]
PROOF
  <1>1. waves' = IF scan[c].wave = None THEN waves ELSE [waves EXCEPT ![w] = scan[c].wave]
    BY DEF EndScan
  <1>2. w \in DOMAIN waves
    BY InHand, TaskHere
  <1> QED
    BY <1>1, <1>2

(* The others still work on what they have read, when the task of scanner c *)
(* changes and c is done.                                                   *)
LEMMA OthersScanOn ==
  ASSUME Inv, WavesInv, NEW c \in Scanner, scan[c].job # "idle", scan' = [scan EXCEPT ![c] = Free],
         \A j \in DOMAIN tasks \ {scan[c].task} : tasks'[j] = tasks[j]
  PROVE  \A d \in Scanner : Closing(scan'[d]) =>
            /\ ClosesLast(scan'[d])
            /\ scan'[d].task \in DOMAIN tasks /\ tasks[scan'[d].task].wave \in DOMAIN waves
            /\ Remaining(tasks'[scan'[d].task]) = Remaining(tasks[scan'[d].task])
PROOF
  <1> SUFFICES ASSUME NEW d \in Scanner, Closing(scan'[d])
               PROVE  /\ ClosesLast(scan'[d])
                      /\ scan'[d].task \in DOMAIN tasks /\ tasks[scan'[d].task].wave \in DOMAIN waves
                      /\ Remaining(tasks'[scan'[d].task]) = Remaining(tasks[scan'[d].task])
    OBVIOUS
  <1>1. ScansOK /\ Sane
    BY PartsOfInv
  <1>2. d # c /\ scan'[d] = scan[d]
    BY <1>1 DEF ScansOK, Closing, Free
  <1>3. scan[d].job # "idle" /\ ClosesLast(scan[d])
    BY <1>2 DEF WavesInv, Closing
  <1>4. scan[d].task \in DOMAIN tasks /\ scan[d].task # scan[c].task
    BY <1>1, <1>2, <1>3, InHand DEF Sane, Apart
  <1>5. tasks[scan[d].task].wave \in DOMAIN waves
    BY <1>4, TaskHere
  <1> QED
    BY <1>2, <1>3, <1>4, <1>5

(* Task i is picked or reported short: it is what the scanner has in hand.  *)
LEMMA TaskFinished ==
  ASSUME Inv, WavesInv, NEW c \in Scanner, scan[c].job # "idle", EndScan(c),
         NEW i \in DOMAIN tasks, i = scan[c].task, NEW l, tasks' = [tasks EXCEPT ![i] = l],
         Later(tasks[i], l), ClosesLast(scan[c]) => ~IsOpen(l)
  PROVE  WavesInv'
PROOF
  <1>1. PICK w : w = tasks[i].wave
    OBVIOUS
  <1>2. /\ DOMAIN tasks' = DOMAIN tasks /\ tasks'[i] = l
        /\ \A j \in DOMAIN tasks \ {i} : tasks'[j] = tasks[j]
    OBVIOUS
  <1>3. TasksMoveOn
    BY <1>2 DEF TasksMoveOn, Later
  <1>4. NewOnesLookAgain
    BY <1>2 DEF NewOnesLookAgain
  <1>5. /\ w \in DOMAIN waves /\ DOMAIN waves' = DOMAIN waves
        /\ waves'[w] = IF scan[c].wave = None THEN waves[w] ELSE scan[c].wave
        /\ \A v \in DOMAIN waves \ {w} : waves'[v] = waves[v]
    BY <1>1, WaveWritten
  <1>6. ASSUME NEW v \in DOMAIN waves', waves'[v] = "DONE"
        PROVE  /\ v \in DOMAIN waves
               /\ waves[v] = "DONE" \/ \E j \in DOMAIN tasks : OnlyLooksAgain(v, j) /\ ~IsOpen(tasks'[j])
    <2>1. CASE v # w \/ scan[c].wave = None
      BY <1>5, <1>6, <2>1
    <2>2. CASE v = w /\ scan[c].wave # None
      <3>1. Closing(scan[c])
        BY <1>5, <1>6, <2>2 DEF Closing
      <3>2. ClosesLast(scan[c])
        BY <3>1 DEF WavesInv
      <3>3. OnlyLooksAgain(w, i)
        BY <1>1, <3>2 DEF ClosesLast
      <3> QED
        BY <1>2, <1>5, <2>2, <3>2, <3>3
    <2> QED
      BY <2>1, <2>2
  <1>7. scan' = [scan EXCEPT ![c] = Free]
    BY DEF EndScan
  <1>8. \A d \in Scanner : Closing(scan'[d]) =>
            /\ ClosesLast(scan'[d])
            /\ scan'[d].task \in DOMAIN tasks /\ tasks[scan'[d].task].wave \in DOMAIN waves
            /\ Remaining(tasks'[scan'[d].task]) = Remaining(tasks[scan'[d].task])
    BY <1>2, <1>7, OthersScanOn
  <1> QED
    BY <1>3, <1>4, <1>6, <1>8, WavesKept

LEMMA CommitPickTold ==
  ASSUME Inv, WavesInv, NEW c \in Scanner, CommitPick(c)
  PROVE  WavesInv'
PROOF
  <1>1. PICK x, i, q, k : x = scan[c] /\ i = x.task /\ q = x.qty /\ k = tasks[i]
    OBVIOUS
  <1>2. /\ x.job = "pick" /\ EndScan(c)
        /\ tasks' = [tasks EXCEPT ![i].done = @ + q,
                                  ![i].status = IF q = Remaining(tasks[i]) THEN "DONE" ELSE "IN_PROGRESS"]
    BY <1>1 DEF CommitPick
  <1>3. i \in DOMAIN tasks /\ IsOpen(k) /\ q \in 1..Remaining(k)
    BY <1>1, <1>2, InHand DEF ScanOK
  <1>4. PICK l : l = [k EXCEPT !.done = @ + q,
                               !.status = IF q = Remaining(k) THEN "DONE" ELSE "IN_PROGRESS"]
    OBVIOUS
  <1>5. tasks' = [tasks EXCEPT ![i] = l]
    BY <1>1, <1>2, <1>3, <1>4
  <1>6. Later(k, l) /\ (q = Remaining(k) => ~IsOpen(l))
    BY <1>1, <1>3, <1>4, TaskHere DEF Tasks, IsOpen, Later
  <1>7. ClosesLast(x) => ~IsOpen(l)
    BY <1>1, <1>2, <1>6 DEF ClosesLast
  <1> QED
    BY <1>1, <1>2, <1>3, <1>5, <1>6, <1>7, TaskFinished

LEMMA CommitShortTold ==
  ASSUME Inv, WavesInv, NEW c \in Scanner, CommitShort(c)
  PROVE  WavesInv'
PROOF
  <1>1. PICK x, i, k : x = scan[c] /\ i = x.task /\ k = tasks[i]
    OBVIOUS
  <1>2. /\ x.job = "short" /\ EndScan(c)
        /\ tasks' = [tasks EXCEPT ![i].status = "SHORT", ![i].exc = "OPEN"]
    BY <1>1 DEF CommitShort
  <1>3. i \in DOMAIN tasks /\ IsOpen(k)
    BY <1>1, <1>2, InHand DEF ScanOK
  <1>4. PICK l : l = [k EXCEPT !.status = "SHORT", !.exc = "OPEN"]
    OBVIOUS
  <1>5. tasks' = [tasks EXCEPT ![i] = l]
    BY <1>1, <1>2, <1>3, <1>4
  <1>6. k \in Tasks /\ (k.exc # "NONE" <=> k.status = "SHORT")
    BY <1>1, <1>3, TaskHere
  <1>7. Later(k, l) /\ ~IsOpen(l)
    BY <1>3, <1>4, <1>6 DEF Tasks, IsOpen, Later
  <1> QED
    BY <1>1, <1>2, <1>3, <1>5, <1>7, TaskFinished

(* The tasks T come after those there were.                                 *)
LEMMA NewTasksCome ==
  ASSUME NEW ks, NEW ls, Wellformed(ks), Wellformed(ls), tasks' = ks \o ls,
         NEW T, \A m \in DOMAIN ls : ls[m] \in T
  PROVE  /\ \A j \in DOMAIN ks : j \in DOMAIN tasks' /\ tasks'[j] = ks[j]
         /\ \A j \in DOMAIN tasks' \ DOMAIN ks : tasks'[j] \in T /\ \A m \in DOMAIN ks : m < j
PROOF
  <1>1. PICK a, b, js : a = Len(ks) /\ b = Len(ls) /\ js = ks \o ls
    OBVIOUS
  <1>2. /\ a \in Nat /\ b \in Nat /\ DOMAIN ks = 1..a /\ DOMAIN ls = 1..b /\ DOMAIN js = 1..(a + b)
        /\ \A i \in 1..a : js[i] = ks[i]
        /\ \A i \in 1..b : js[a + i] = ls[i]
    BY <1>1, Indices, Joined
  <1>3. ASSUME NEW j \in 1..(a + b), j \notin 1..a PROVE js[j] \in T /\ \A m \in 1..a : m < j
    <2>1. PICK m : m = j - a
      OBVIOUS
    <2>2. m \in 1..b /\ j = a + m
      BY <1>2, <1>3, <2>1
    <2>3. js[j] \in T
      BY <1>2, <2>2
    <2>4. \A n \in 1..a : n < j
      BY <1>2, <1>3
    <2> QED
      BY <2>3, <2>4
  <1>4. 1..a \in SUBSET 1..(a + b)
    BY <1>2
  <1> QED
    BY <1>1, <1>2, <1>3, <1>4

LEMMA CommitRepickTold ==
  ASSUME Inv, WavesInv, NEW c \in Scanner, CommitRepick(c)
  PROVE  WavesInv'
PROOF
  <1>1. PICK i, n, us, k : i = scan[c].task /\ n = scan[c].qty /\ us = scan[c].locked /\ k = tasks[i]
    OBVIOUS
  <1>2. PICK T, ls : T = NewTasks(k.order, k.sku, 0, n, us, k.wave) /\ ls = SetToSeq(T)
    OBVIOUS
  <1>3. /\ scan[c].job = "repick" /\ EndScan(c)
        /\ tasks' = [tasks EXCEPT ![i].exc = "REPICKED"] \o ls
    BY <1>1, <1>2 DEF CommitRepick
  <1>4. /\ i \in DOMAIN tasks /\ n \in Nat /\ n = Remaining(k) /\ us \in SUBSET Place
        /\ k.exc = "OPEN" /\ \A p \in us : p[2] = k.sku
    BY <1>1, <1>3, InHand DEF ScanOK
  <1>5. /\ k \in Tasks /\ k.quantity \in Nat /\ k.done \in Nat /\ k.quantity > 0 /\ k.done <= k.quantity
        /\ k.status = "SHORT" /\ n > 0 /\ k.order \in Order /\ k.sku \in Sku /\ k.wave \in Nat
    BY <1>1, <1>4, TaskHere DEF Tasks
  <1>6. PICK l, ks : l = [k EXCEPT !.exc = "REPICKED"] /\ ks = [tasks EXCEPT ![i] = l]
    OBVIOUS
  <1>7. tasks' = ks \o ls
    BY <1>1, <1>3, <1>4, <1>6
  <1>8. /\ l \in Tasks /\ l.quantity = k.quantity /\ l.done = k.done /\ l.status = "SHORT"
        /\ l.wave = k.wave /\ l.order = k.order /\ l.sku = k.sku /\ l.exc = "REPICKED"
    BY <1>5, <1>6 DEF Tasks
  <1>9. /\ Wellformed(ks) /\ DOMAIN ks = DOMAIN tasks
        /\ ks[i] = l /\ \A j \in DOMAIN tasks \ {i} : ks[j] = tasks[j]
    <2>1. ExceptionRow(l) /\ Remaining(l) > 0
      BY <1>4, <1>5, <1>8 DEF ExceptionRow, Remaining
    <2>2. l.done <= l.quantity /\ l.quantity > 0 /\ l.wave = tasks[i].wave
      BY <1>1, <1>5, <1>8
    <2> QED
      BY <1>4, <1>6, <1>8, <2>1, <2>2, RowChanged
  <1>10. PICK w : w = k.wave
    OBVIOUS
  <1>11. BinsOK
    BY PartsOfInv
  <1>12. IsFiniteSet(T) /\ \A e \in T : Made(e, k.order, k.sku, 0, n, us, w)
    BY <1>2, <1>4, <1>5, <1>10, <1>11, TasksMade
  <1>13. \A e \in T : /\ e \in Tasks /\ e.quantity > 0 /\ e.done = 0
                      /\ e.wave = w /\ e.order = k.order /\ e.sku = k.sku
    BY <1>12 DEF Made
  <1>14. Wellformed(ls) /\ \A m \in DOMAIN ls : ls[m] \in T
    BY <1>2, <1>12, <1>13, NewSequence
  <1>15. /\ \A j \in DOMAIN ks : j \in DOMAIN tasks' /\ tasks'[j] = ks[j]
         /\ \A j \in DOMAIN tasks' \ DOMAIN ks : tasks'[j] \in T /\ \A m \in DOMAIN ks : m < j
    BY ONLY <1>7, <1>9, <1>14, NewTasksCome
  <1>16. Later(k, l)
    BY <1>5, <1>8 DEF Later, IsOpen
  <1>17. TasksMoveOn
    BY <1>1, <1>9, <1>15, <1>16 DEF TasksMoveOn, Later
  <1>18. NewOnesLookAgain
    <2>1. ASSUME NEW j \in DOMAIN tasks' \ DOMAIN tasks PROVE LooksAgain(j)'
      <3>1. tasks'[j].wave = w /\ tasks'[j].order = k.order /\ tasks'[j].sku = k.sku /\ i < j
        BY <1>4, <1>9, <1>13, <1>15, <2>1
      <3>2. i \in DOMAIN tasks' /\ tasks'[i] = l
        BY <1>4, <1>9, <1>15
      <3>3. i \in InWave(tasks[j].wave)'
        BY <1>8, <1>10, <3>1, <3>2 DEF InWave
      <3>4. IsFor(tasks'[i], tasks'[j].order, tasks'[j].sku) /\ tasks'[i].exc = "REPICKED"
        BY <1>8, <3>1, <3>2 DEF IsFor
      <3> QED
        BY <3>1, <3>3, <3>4 DEF LooksAgain
    <2> QED
      BY <2>1 DEF NewOnesLookAgain
  <1>19. ~Closing(scan[c])
    BY <1>3 DEF WavesInv, ClosesLast
  <1>20. /\ w \in DOMAIN waves /\ DOMAIN waves' = DOMAIN waves
         /\ waves'[w] = IF scan[c].wave = None THEN waves[w] ELSE scan[c].wave
         /\ \A v \in DOMAIN waves \ {w} : waves'[v] = waves[v]
    BY <1>1, <1>3, <1>10, WaveWritten
  <1>21. \A v \in DOMAIN waves' : waves'[v] = "DONE" => v \in DOMAIN waves /\ waves[v] = "DONE"
    BY <1>3, <1>19, <1>20 DEF Closing
  <1>22. scan' = [scan EXCEPT ![c] = Free] /\ \A j \in DOMAIN tasks \ {i} : tasks'[j] = tasks[j]
    BY <1>3, <1>9, <1>15 DEF EndScan
  <1>23. \A d \in Scanner : Closing(scan'[d]) =>
            /\ ClosesLast(scan'[d])
            /\ scan'[d].task \in DOMAIN tasks /\ tasks[scan'[d].task].wave \in DOMAIN waves
            /\ Remaining(tasks'[scan'[d].task]) = Remaining(tasks[scan'[d].task])
    BY <1>1, <1>3, <1>22, OthersScanOn
  <1> QED
    BY <1>17, <1>18, <1>21, <1>23, WavesKept

(* Nobody begins or ends, and no wave is closed.                            *)
LEMMA NobodyScans ==
  ASSUME Inv, WavesInv, TasksMoveOn, NewOnesLookAgain, scan' = scan,
         \A j \in DOMAIN tasks : Remaining(tasks'[j]) = Remaining(tasks[j]),
         \A v \in DOMAIN waves' : waves'[v] = "DONE" => v \in DOMAIN waves /\ waves[v] = "DONE"
  PROVE  WavesInv'
PROOF
  <1>1. ASSUME NEW d \in Scanner, Closing(scan'[d])
        PROVE  /\ ClosesLast(scan'[d])
               /\ scan'[d].task \in DOMAIN tasks /\ tasks[scan'[d].task].wave \in DOMAIN waves
               /\ Remaining(tasks'[scan'[d].task]) = Remaining(tasks[scan'[d].task])
    <2>1. scan'[d] = scan[d] /\ scan[d].job # "idle" /\ ClosesLast(scan[d])
      BY <1>1 DEF WavesInv, Closing
    <2>2. scan[d].task \in DOMAIN tasks
      BY <2>1, InHand
    <2>3. tasks[scan[d].task].wave \in DOMAIN waves
      BY <2>2, TaskHere
    <2> QED
      BY <2>1, <2>2, <2>3
  <1> QED
    BY <1>1, WavesKept

LEMMA ResolvedTold ==
  ASSUME Inv, WavesInv, NEW i \in DOMAIN tasks, ResolveWithNote(i)
  PROVE  WavesInv'
PROOF
  <1>1. PICK k, l : k = tasks[i] /\ l = [k EXCEPT !.exc = "NOTED"]
    OBVIOUS
  <1>2. tasks' = [tasks EXCEPT ![i] = l] /\ waves' = waves /\ scan' = scan /\ k.exc = "OPEN"
    BY <1>1 DEF ResolveWithNote
  <1>3. k \in Tasks
    BY <1>1, TaskHere
  <1>4. Later(k, l) /\ Remaining(l) = Remaining(k)
    BY <1>1, <1>2, <1>3 DEF Later, IsOpen, Remaining, Tasks
  <1>5. /\ DOMAIN tasks' = DOMAIN tasks
        /\ \A j \in DOMAIN tasks : Later(tasks[j], tasks'[j]) /\ Remaining(tasks'[j]) = Remaining(tasks[j])
    BY <1>1, <1>2, <1>4 DEF Later
  <1>6. TasksMoveOn /\ NewOnesLookAgain
    BY <1>5 DEF TasksMoveOn, NewOnesLookAgain
  <1> QED
    BY <1>2, <1>5, <1>6, NobodyScans

LEMMA CreateWaveTold ==
  ASSUME Inv, WavesInv, NEW os \in SUBSET Order, CreateWave(os)
  PROVE  WavesInv'
PROOF
  <1>1. PICK w : w = Len(waves) + 1
    OBVIOUS
  <1>2. PICK T, ls : T = MadeIn(os, w) /\ ls = SetToSeq(T)
    OBVIOUS
  <1>3. /\ tasks' = tasks \o ls /\ waves' = Append(waves, "OPEN") /\ scan' = scan /\ os # {}
    BY <1>1, <1>2 DEF CreateWave, MadeIn, MadeFor, AskedBefore
  <1>4. Wellformed(tasks) /\ waves \in Seq(WaveStatus) /\ BinsOK
    BY RowsHere, PartsOfInv
  <1>5. /\ w \in Nat /\ DOMAIN waves' = DOMAIN waves \cup {w} /\ w \notin DOMAIN waves
        /\ waves'[w] = "OPEN" /\ \A v \in DOMAIN waves : waves'[v] = waves[v]
    <2>1. PICK n : n = Len(waves)
      OBVIOUS
    <2>2. n \in Nat /\ DOMAIN waves = 1..n /\ w = n + 1
      BY <1>1, <1>4, <2>1, LenProperties
    <2>3. "OPEN" \in WaveStatus
      BY DEF WaveStatus
    <2>4. /\ waves' \in Seq(WaveStatus) /\ Len(waves') = n + 1
          /\ \A v \in 1..n : waves'[v] = waves[v]
          /\ waves'[n + 1] = "OPEN"
      BY <1>3, <1>4, <2>1, <2>3, AppendProperties
    <2>5. DOMAIN waves' = 1..(n + 1)
      BY <2>2, <2>4, LenProperties
    <2> QED
      BY <2>2, <2>4, <2>5
  <1>6. /\ IsFiniteSet(T)
        /\ \A k \in T : /\ k \in Tasks /\ k.quantity \in Nat /\ k.quantity > 0 /\ k.done = 0
                        /\ k.status = "OPEN" /\ k.wave = w
        /\ \A o \in os, s \in Sku : MadeFor(os, o, s, w) \in SUBSET T
    <2>1. w \in Nat
      BY <1>5
    <2>2. T = MadeIn(os, w)
      BY <1>2
    <2>3. /\ IsFiniteSet(T)
          /\ \A k \in T : /\ k \in Tasks /\ k.quantity \in Nat /\ k.quantity > 0 /\ k.done = 0
                          /\ k.status = "OPEN" /\ k.wave = w
      BY ONLY Inv, <2>1, <2>2, WaveTasks
    <2>4. \A o \in os, s \in Sku : MadeFor(os, o, s, w) \in SUBSET T
      BY ONLY Inv, <2>1, <2>2, WaveTasks
    <2> QED
      BY <2>3, <2>4
  <1>7. Wellformed(ls) /\ \A m \in DOMAIN ls : ls[m] \in T
    BY <1>2, <1>6, NewSequence
  <1>8. /\ \A j \in DOMAIN tasks : j \in DOMAIN tasks' /\ tasks'[j] = tasks[j]
        /\ \A j \in DOMAIN tasks' \ DOMAIN tasks : tasks'[j] \in T
    BY ONLY <1>3, <1>4, <1>7, NewTasksCome
  <1>9. TasksMoveOn
    BY <1>8 DEF TasksMoveOn, Later
  <1>10. NewOnesLookAgain
    BY <1>5, <1>6, <1>8 DEF NewOnesLookAgain
  <1>11. \A v \in DOMAIN waves' : waves'[v] = "DONE" => v \in DOMAIN waves /\ waves[v] = "DONE"
    BY <1>5
  <1>12. scan' = scan /\ \A j \in DOMAIN tasks : Remaining(tasks'[j]) = Remaining(tasks[j])
    BY <1>3, <1>8
  <1> QED
    BY <1>9, <1>10, <1>11, <1>12, NobodyScans

(* Who begins and is going to close the wave sees no other task to do.      *)
LEMMA SeesNone ==
  ASSUME NEW i, ClosedWave(i) = "DONE"
  PROVE  OnlyLooksAgain(tasks[i].wave, i)
PROOF
  <1>1. None # "DONE"
    BY WarehouseAssumption
  <1>2. \A j \in DOMAIN tasks \ {i} : tasks[j].wave = tasks[i].wave => ~IsOpen(tasks[j])
    BY <1>1 DEF ClosedWave
  <1> QED
    BY <1>2 DEF OnlyLooksAgain, InWave

LEMMA BegunTold ==
  ASSUME Inv, WavesInv, NEW c \in Scanner, NEW i \in DOMAIN tasks,
         (\E q \in 1..tasks[i].quantity : Pick(c, i, q)) \/ Short(c, i) \/ Repick(c, i)
  PROVE  WavesInv'
PROOF
  <1>1. tasks' = tasks /\ waves' = waves
    BY DEF Pick, Short, Repick
  <1>2. ScansOK /\ None # "DONE"
    BY PartsOfInv, WarehouseAssumption
  <1>3. \E x : scan' = [scan EXCEPT ![c] = x] /\ x.task = i /\ (Closing(x) => ClosesLast(x))
    <2>1. ASSUME NEW q, Pick(c, i, q)
          PROVE  \E x : scan' = [scan EXCEPT ![c] = x] /\ x.task = i /\ (Closing(x) => ClosesLast(x))
      <3>1. PICK x : x = [job |-> "pick", task |-> i, qty |-> q, locked |-> Source(tasks[i]),
                          wave |-> IF q = Remaining(tasks[i]) THEN ClosedWave(i) ELSE None]
        OBVIOUS
      <3>2. scan' = [scan EXCEPT ![c] = x] /\ x.task = i
        BY <2>1, <3>1 DEF Pick
      <3>3. Closing(x) => ClosesLast(x)
        BY <1>2, <3>1, SeesNone DEF Closing, ClosesLast
      <3> QED
        BY <3>2, <3>3
    <2>2. ASSUME Short(c, i)
          PROVE  \E x : scan' = [scan EXCEPT ![c] = x] /\ x.task = i /\ (Closing(x) => ClosesLast(x))
      <3>1. PICK x : x = [job |-> "short", task |-> i, qty |-> Remaining(tasks[i]),
                          locked |-> Source(tasks[i]), wave |-> ClosedWave(i)]
        OBVIOUS
      <3>2. scan' = [scan EXCEPT ![c] = x] /\ x.task = i
        BY <2>2, <3>1 DEF Short
      <3>3. Closing(x) => ClosesLast(x)
        BY <3>1, SeesNone DEF Closing, ClosesLast
      <3> QED
        BY <3>2, <3>3
    <2>3. ASSUME Repick(c, i)
          PROVE  \E x : scan' = [scan EXCEPT ![c] = x] /\ x.task = i /\ (Closing(x) => ClosesLast(x))
      <3>1. PICK x : x = [job |-> "repick", task |-> i, qty |-> Remaining(tasks[i]),
                          locked |-> Usable(tasks[i].sku, Excluded(tasks[i])),
                          wave |-> ReopenedWave(tasks[i].wave)]
        OBVIOUS
      <3>2. scan' = [scan EXCEPT ![c] = x] /\ x.task = i
        BY <2>3, <3>1 DEF Repick
      <3>3. ~Closing(x)
        BY <1>2, <3>1 DEF Closing, ReopenedWave
      <3> QED
        BY <3>2, <3>3
    <2> QED
      BY <2>1, <2>2, <2>3
  <1>4. ASSUME NEW d \in Scanner, Closing(scan'[d])
        PROVE  ClosesLast(scan'[d]) /\ scan'[d].task \in DOMAIN tasks
    <2>1. CASE d = c
      BY <1>2, <1>3, <1>4, <2>1 DEF ScansOK
    <2>2. CASE d # c
      <3>1. scan'[d] = scan[d]
        BY <1>2, <1>3, <2>2 DEF ScansOK
      <3>2. scan[d].job # "idle" /\ ClosesLast(scan[d])
        BY <1>4, <3>1 DEF WavesInv, Closing
      <3> QED
        BY <3>1, <3>2, InHand
    <2> QED
      BY <2>1, <2>2
  <1>5. \A j \in DOMAIN tasks : tasks[j].wave \in DOMAIN waves
    BY TaskHere
  <1>6. TasksMoveOn /\ NewOnesLookAgain
    BY <1>1 DEF TasksMoveOn, NewOnesLookAgain, Later
  <1>7. \A v \in DOMAIN waves' : waves'[v] = "DONE" => v \in DOMAIN waves /\ waves[v] = "DONE"
    BY <1>1
  <1>8. \A d \in Scanner : Closing(scan'[d]) =>
            /\ ClosesLast(scan'[d])
            /\ scan'[d].task \in DOMAIN tasks /\ tasks[scan'[d].task].wave \in DOMAIN waves
            /\ Remaining(tasks'[scan'[d].task]) = Remaining(tasks[scan'[d].task])
    BY <1>1, <1>4, <1>5
  <1> QED
    BY <1>6, <1>7, <1>8, WavesKept

(* Nothing happens to tasks and waves, and nobody begins.                   *)
LEMMA SameWaves ==
  ASSUME WavesInv, tasks' = tasks, waves' = waves,
         \A d \in Scanner : scan'[d] = scan[d] \/ ~Closing(scan'[d])
  PROVE  WavesInv'
PROOF
  <1>1. DoneIsNotEarly'
    BY DEF WavesInv, DoneIsNotEarly, InWave, LooksAgain
  <1>2. ASSUME NEW d \in Scanner, Closing(scan'[d]) PROVE ClosesLast(scan[d])'
    <2>1. scan'[d] = scan[d] /\ ClosesLast(scan[d])
      BY <1>2 DEF WavesInv
    <2> QED
      BY <2>1 DEF ClosesLast, OnlyLooksAgain, InWave, LooksAgain
  <1>3. \A d \in Scanner : Closing(scan[d])' => ClosesLast(scan[d])'
    BY <1>2 DEF Closing
  <1> QED
    BY <1>1, <1>3 DEF WavesInv

LEMMA RollbackTold ==
  ASSUME Inv, WavesInv, NEW c \in Scanner, Rollback(c)
  PROVE  WavesInv'
PROOF
  <1>1. tasks' = tasks /\ waves' = waves /\ scan' = [scan EXCEPT ![c] = Free]
    BY DEF Rollback
  <1>2. ScansOK
    BY PartsOfInv
  <1>3. \A d \in Scanner : scan'[d] = scan[d] \/ ~Closing(scan'[d])
    BY <1>1, <1>2 DEF ScansOK, Free, Closing
  <1> QED
    BY <1>1, <1>3, SameWaves

LEMMA NextTold == Inv /\ WavesInv /\ [Next]_vars => WavesInv'
PROOF
  <1> SUFFICES ASSUME Inv, WavesInv, [Next]_vars
               PROVE  WavesInv'
    OBVIOUS
  <1>1. ASSUME UNCHANGED <<tasks, waves, scan>> PROVE WavesInv'
    <2>1. tasks' = tasks /\ waves' = waves /\ \A d \in Scanner : scan'[d] = scan[d]
      BY <1>1
    <2> QED
      BY <2>1, SameWaves
  <1>2. CASE UNCHANGED vars
    BY <1>1, <1>2 DEF vars
  <1>3. ASSUME NEW c \in Scanner, Picking(c) PROVE WavesInv'
    BY <1>3, BegunTold, CommitPickTold, CommitShortTold, CommitRepickTold, RollbackTold DEF Picking
  <1>4. CASE Fulfilling
    <2>1. ASSUME NEW o \in Order, \/ Allocate(o) \/ Ship(o) \/ PackComplete(o)
                                  \/ \E s \in Sku : \E q \in 1..Need[o][s] : PackScan(o, s, q)
          PROVE  UNCHANGED <<tasks, waves, scan>>
      BY <2>1 DEF Allocate, Ship, PackComplete, PackScan
    <2> QED
      BY <1>1, <1>4, <2>1, CreateWaveTold, ResolvedTold DEF Fulfilling
  <1>5. CASE Receiving
    <2>1. UNCHANGED <<tasks, waves, scan>>
      BY <1>5 DEF Receiving, CompleteInbound, CancelInbound, ReceiveScan, PutawayTask, FreePutaway,
                  ReceiveStock, Adjust
    <2> QED
      BY <1>1, <2>1
  <1>6. CASE Counting
    <2>1. UNCHANGED <<tasks, waves, scan>>
      BY <1>6 DEF Counting, SubmitCount, ApproveCount, CancelCount, CreateCount, RecordCount
    <2> QED
      BY <1>1, <2>1
  <1> QED
    BY <1>2, <1>3, <1>4, <1>5, <1>6 DEF Next

LEMMA InitTold == Init => WavesInv
  BY DEF Init, WavesInv, DoneIsNotEarly, Closing, Free

(* No wave is DONE while a task of it is to do, except one that was made, as  *)
(* the wave was being closed, to look again for units that were missing: for *)
(* any numbers of scanners, waves, orders and bins, through partial picks,    *)
(* shorts, picking again and requests that are lost.                         *)
THEOREM DoneCorrect == Spec => []DoneIsNotEarly
PROOF
  <1>1. WavesInv => DoneIsNotEarly
    BY DEF WavesInv
  <1> QED
    BY <1>1, InitTold, NextTold, InvHolds, PTL DEF Spec
================================================================================
