--------------------------- MODULE DeliveryProofs ---------------------------
(***************************************************************************)
(* Orders, parcels and returns, for any orders, couriers and manifests and *)
(* any number of reports and returns.                                      *)
(***************************************************************************)
EXTENDS Delivery, TotalsProofs

-------------------------------------------------------------------------------
(* An order never has two returns at work at once.  The argument does not   *)
(* look at what a refresh has read of the order, which may be outdated: it  *)
(* rests on the returns being looked up once the order is locked.           *)

AtWork(o, i) == returns[o][i].status \in InReturn

(* What is needed of the returns: sequences of records with a status, and   *)
(* two places of a sequence that both hold an open return are the same.     *)
WellFormed ==
  /\ returns = [o \in Order |-> returns[o]]
  /\ \A o \in Order :
       /\ returns[o] \in Seq({returns[o][i] : i \in DOMAIN returns[o]})
       /\ \A i \in DOMAIN returns[o] : "status" \in DOMAIN returns[o][i]

SinglyAtWork ==
  \A o \in Order : \A i, j \in DOMAIN returns[o] : AtWork(o, i) /\ AtWork(o, j) => i = j

ReturnsInv == WellFormed /\ SinglyAtWork

-------------------------------------------------------------------------------
(* A sequence of anything is a sequence of its own elements. *)
LEMMA OwnElements ==
  ASSUME NEW s, NEW n \in Nat, s = [i \in 1..n |-> s[i]]
  PROVE  s \in Seq({s[i] : i \in DOMAIN s}) /\ DOMAIN s = 1..n
  <1> DEFINE S == {s[i] : i \in DOMAIN s}
  <1>1. DOMAIN s = 1..n
    OBVIOUS
  <1>2. s \in [1..n -> S]
    BY <1>1
  <1> QED
    BY <1>1, <1>2

(* A new return, when none is open. *)
LEMMA AppendKeeps ==
  ASSUME ReturnsInv, NEW o \in Order, ~HasOpenReturn(o),
         NEW st, NEW seen, NEW q,
         returns' = [returns EXCEPT ![o] = Append(@, NewReturn(st, seen, q))]
  PROVE  ReturnsInv'
  <1> DEFINE r == NewReturn(st, seen, q)
             s == returns[o]
             S == {s[i] : i \in DOMAIN s}
  <1>1. s \in Seq(S)
    BY DEF ReturnsInv, WellFormed
  <1>2. /\ returns' = [p \in Order |-> returns'[p]]
        /\ \A p \in Order \ {o} : returns'[p] = returns[p]
        /\ returns'[o] = Append(s, r)
    BY DEF ReturnsInv, WellFormed
  <1>3. /\ Append(s, r) \in Seq(S \cup {r})
        /\ Len(Append(s, r)) = Len(s) + 1 /\ Len(s) \in Nat
        /\ DOMAIN s = 1..Len(s) /\ DOMAIN Append(s, r) = 1..(Len(s) + 1)
        /\ \A i \in 1..Len(s) : Append(s, r)[i] = s[i]
        /\ Append(s, r)[Len(s) + 1] = r
    <2> HIDE DEF S, r, s
    <2> QED BY <1>1
  <1>4. "status" \in DOMAIN r
    BY DEF NewReturn
  <1>5. WellFormed'
    <2>1. ASSUME NEW p \in Order
          PROVE  /\ returns'[p] \in Seq({returns'[p][i] : i \in DOMAIN returns'[p]})
                 /\ \A i \in DOMAIN returns'[p] : "status" \in DOMAIN returns'[p][i]
      <3>1. CASE p # o
        <4>1. returns'[p] = returns[p] BY <3>1, <1>2
        <4>2. /\ returns[p] \in Seq({returns[p][i] : i \in DOMAIN returns[p]})
              /\ \A i \in DOMAIN returns[p] : "status" \in DOMAIN returns[p][i]
          BY DEF ReturnsInv, WellFormed
        <4> QED BY <4>1, <4>2
      <3>2. CASE p = o
        <4>1. Append(s, r) = [i \in 1..(Len(s) + 1) |-> Append(s, r)[i]]
          <5> HIDE DEF S, r, s
          <5>1. \A x : x \in Seq(S \cup {r}) => x = [i \in 1..Len(x) |-> x[i]]
            OBVIOUS
          <5> QED BY <5>1, <1>3
        <4>2. returns'[o] = [i \in 1..(Len(s) + 1) |-> returns'[o][i]]
          BY <4>1, <1>2
        <4>3. returns'[o] \in Seq({returns'[o][i] : i \in DOMAIN returns'[o]})
          BY <4>2, <1>3, OwnElements
        <4>4. \A i \in DOMAIN s : "status" \in DOMAIN s[i]
          BY DEF ReturnsInv, WellFormed
        <4>5. ASSUME NEW i \in DOMAIN returns'[o]
              PROVE  "status" \in DOMAIN returns'[o][i]
          <5> HIDE DEF S, r, s
          <5>1. i \in 1..(Len(s) + 1) BY <1>2, <1>3
          <5>2. CASE i \in 1..Len(s) BY <5>2, <1>2, <1>3, <4>4
          <5>3. CASE i = Len(s) + 1 BY <5>3, <1>2, <1>3, <1>4
          <5> QED BY <5>1, <5>2, <5>3, <1>3
        <4> QED BY <3>2, <4>3, <4>5
      <3> QED BY <3>1, <3>2
    <2> QED BY <2>1, <1>2 DEF WellFormed
  <1>6. SinglyAtWork'
    <2> SUFFICES ASSUME NEW p \in Order, NEW i \in DOMAIN returns'[p], NEW j \in DOMAIN returns'[p],
                        returns'[p][i].status \in InReturn, returns'[p][j].status \in InReturn
                 PROVE  i = j
      BY DEF SinglyAtWork, AtWork
    <2>1. CASE p # o
      BY <2>1, <1>2 DEF ReturnsInv, SinglyAtWork, AtWork
    <2>2. CASE p = o
      <3>1. \A k \in 1..Len(s) : s[k].status \notin InReturn
        BY <1>3 DEF HasOpenReturn
      <3> HIDE DEF S, r, s
      <3>2. \A k \in 1..Len(s) : returns'[o][k].status \notin InReturn
        BY <3>1, <1>2, <1>3
      <3>3. i \in 1..(Len(s) + 1) /\ j \in 1..(Len(s) + 1)
        BY <2>2, <1>2, <1>3
      <3>4. i \notin 1..Len(s) /\ j \notin 1..Len(s)
        BY <2>2, <3>2
      <3> QED BY <3>3, <3>4, <1>3
    <2> QED BY <2>1, <2>2
  <1> QED
    BY <1>5, <1>6 DEF ReturnsInv

(* A return changes; one that is not open stays so. *)
LEMMA ChangeKeeps ==
  ASSUME ReturnsInv, NEW o \in Order, NEW i \in DOMAIN returns[o], NEW r,
         returns' = [returns EXCEPT ![o] = [@ EXCEPT ![i] = r]],
         "status" \in DOMAIN r,
         r.status \in InReturn => AtWork(o, i)
  PROVE  ReturnsInv'
  <1>1. /\ returns' = [p \in Order |-> returns'[p]]
        /\ \A p \in Order \ {o} : returns'[p] = returns[p]
        /\ returns'[o] = [returns[o] EXCEPT ![i] = r]
    BY DEF ReturnsInv, WellFormed
  <1>2. /\ returns[o] \in Seq({returns[o][k] : k \in DOMAIN returns[o]})
        /\ Len(returns[o]) \in Nat /\ DOMAIN returns[o] = 1..Len(returns[o])
    BY DEF ReturnsInv, WellFormed
  <1>3. /\ DOMAIN returns'[o] = DOMAIN returns[o]
        /\ returns'[o][i] = r
        /\ \A k \in DOMAIN returns[o] \ {i} : returns'[o][k] = returns[o][k]
    BY <1>1
  <1>4. returns'[o] = [k \in 1..Len(returns[o]) |-> returns'[o][k]]
    BY <1>1, <1>2
  <1>5. WellFormed'
    <2>1. returns'[o] \in Seq({returns'[o][k] : k \in DOMAIN returns'[o]})
      BY <1>2, <1>4, OwnElements
    <2>2. \A k \in DOMAIN returns'[o] : "status" \in DOMAIN returns'[o][k]
      BY <1>3 DEF ReturnsInv, WellFormed
    <2>3. ASSUME NEW p \in Order
          PROVE  /\ returns'[p] \in Seq({returns'[p][k] : k \in DOMAIN returns'[p]})
                 /\ \A k \in DOMAIN returns'[p] : "status" \in DOMAIN returns'[p][k]
      <3>1. CASE p = o BY <3>1, <2>1, <2>2
      <3>2. CASE p # o
        <4>1. returns'[p] = returns[p] BY <3>2, <1>1
        <4>2. /\ returns[p] \in Seq({returns[p][k] : k \in DOMAIN returns[p]})
              /\ \A k \in DOMAIN returns[p] : "status" \in DOMAIN returns[p][k]
          BY DEF ReturnsInv, WellFormed
        <4> QED BY <4>1, <4>2
      <3> QED BY <3>1, <3>2
    <2> QED BY <2>3, <1>1 DEF WellFormed
  <1>6. SinglyAtWork'
    <2>1. \A k \in DOMAIN returns[o] : returns'[o][k].status \in InReturn => AtWork(o, k)
      BY <1>3 DEF AtWork
    <2> QED
      BY <2>1, <1>1, <1>3 DEF ReturnsInv, SinglyAtWork, AtWork
  <1> QED
    BY <1>5, <1>6 DEF ReturnsInv

LEMMA UnchangedKeeps ==
  ASSUME ReturnsInv, UNCHANGED returns
  PROVE  ReturnsInv'
  <1>1. WellFormed'
    <2>1. returns' = [o \in Order |-> returns'[o]]
      BY DEF ReturnsInv, WellFormed
    <2>2. ASSUME NEW o \in Order
          PROVE  /\ returns'[o] \in Seq({returns'[o][i] : i \in DOMAIN returns'[o]})
                 /\ \A i \in DOMAIN returns'[o] : "status" \in DOMAIN returns'[o][i]
      <3>1. /\ returns[o] \in Seq({returns[o][i] : i \in DOMAIN returns[o]})
            /\ \A i \in DOMAIN returns[o] : "status" \in DOMAIN returns[o][i]
        BY DEF ReturnsInv, WellFormed
      <3>2. returns'[o] = returns[o]
        OBVIOUS
      <3> QED BY <3>1, <3>2
    <2> QED BY <2>1, <2>2 DEF WellFormed
  <1>2. SinglyAtWork'
    BY DEF ReturnsInv, SinglyAtWork, AtWork
  <1> QED BY <1>1, <1>2 DEF ReturnsInv

(* When an order follows its shipment, it gets at most one new return. *)
LEMMA FollowKeeps ==
  ASSUME ReturnsInv, NEW o \in Order, NEW st, NEW seen, Follow(o, st, seen)
  PROVE  ReturnsInv'
  <1> DEFINE back == st = "RETURNED_TO_SENDER" /\ ReturnsToSender(o, seen) /\ ~NothingLeft(o)
  <1>1. CASE ~back
    <2>1. UNCHANGED returns BY <1>1 DEF Follow
    <2> QED BY <2>1, UnchangedKeeps
  <1>2. CASE back
    <2>1. ~HasOpenReturn(o) BY <1>2 DEF ReturnsToSender
    <2>2. returns' = [returns EXCEPT ![o] =
            Append(@, NewReturn("APPROVED", seen, Units[o] - ReturnedBefore(o)))]
      BY <1>2 DEF Follow
    <2> QED BY <2>1, <2>2, AppendKeeps
  <1> QED BY <1>1, <1>2

-------------------------------------------------------------------------------
LEMMA ReturnsInvInit == Init => ReturnsInv
  <1> SUFFICES ASSUME Init PROVE ReturnsInv
    OBVIOUS
  <1>1. \A o \in Order : returns[o] = <<>> /\ DOMAIN returns[o] = {}
    BY DEF Init
  <1>2. returns = [o \in Order |-> returns[o]]
    BY DEF Init
  <1>3. \A S : <<>> \in Seq(S)
    OBVIOUS
  <1>4. \A o \in Order : returns[o] \in Seq({returns[o][i] : i \in DOMAIN returns[o]})
    BY <1>1, <1>3
  <1> QED
    BY <1>1, <1>2, <1>4 DEF ReturnsInv, WellFormed, SinglyAtWork

LEMMA ReturningKeeps ==
  ASSUME ReturnsInv, NEW o \in Order, Returning(o)
  PROVE  ReturnsInv'
  <1>1. ASSUME NEW q, RequestReturn(o, q)
        PROVE  ReturnsInv'
    <2>1. returns' = [returns EXCEPT ![o] = Append(@, NewReturn("REQUESTED", status[o], q))]
      BY <1>1 DEF RequestReturn
    <2>2. ~HasOpenReturn(o)
      BY <1>1 DEF RequestReturn
    <2> QED BY <2>1, <2>2, AppendKeeps
  <1>2. ASSUME NEW i \in DOMAIN returns[o]
        PROVE  "status" \in DOMAIN returns[o][i]
    BY DEF ReturnsInv, WellFormed
  <1>3. ASSUME NEW i \in DOMAIN returns[o], Approve(o, i)
        PROVE  ReturnsInv'
    <2>1. PICK r : r = [returns[o][i] EXCEPT !.status = "APPROVED"]
      OBVIOUS
    <2>2. returns' = [returns EXCEPT ![o] = [@ EXCEPT ![i] = r]]
      BY <1>3, <2>1 DEF Approve
    <2>3. "status" \in DOMAIN r
      BY <2>1, <1>2
    <2>4. AtWork(o, i)
      BY <1>3 DEF Approve, AtWork, InReturn
    <2> QED BY <2>2, <2>3, <2>4, ChangeKeeps
  <1>4. ASSUME NEW i \in DOMAIN returns[o], Reject(o, i)
        PROVE  ReturnsInv'
    <2>1. PICK r : r = [returns[o][i] EXCEPT !.status = "REJECTED"]
      OBVIOUS
    <2>2. returns' = [returns EXCEPT ![o] = [@ EXCEPT ![i] = r]]
      BY <1>4, <2>1 DEF Reject
    <2>3. "status" \in DOMAIN r
      BY <2>1, <1>2
    <2>4. AtWork(o, i)
      BY <1>4 DEF Reject, AtWork, InReturn
    <2> QED BY <2>2, <2>3, <2>4, ChangeKeeps
  <1>5. ASSUME NEW i \in DOMAIN returns[o], Close(o, i)
        PROVE  ReturnsInv'
    <2>1. PICK r : r = [returns[o][i] EXCEPT !.status = "CLOSED"]
      OBVIOUS
    <2>2. returns' = [returns EXCEPT ![o] = [@ EXCEPT ![i] = r]]
      BY <1>5, <2>1 DEF Close
    <2>3. "status" \in DOMAIN r
      BY <2>1, <1>2
    <2>4. AtWork(o, i)
      BY <1>5 DEF Close, AtWork, InReturn
    <2> QED BY <2>2, <2>3, <2>4, ChangeKeeps
  <1>6. ASSUME NEW i \in DOMAIN returns[o], NEW q, Receive(o, i, q)
        PROVE  ReturnsInv'
    <2>1. PICK r : r = [returns[o][i] EXCEPT !.status = "RECEIVED", !.received = q]
      OBVIOUS
    <2>2. returns' = [returns EXCEPT ![o] = [@ EXCEPT ![i] = r]]
      BY <1>6, <2>1 DEF Receive
    <2>3. "status" \in DOMAIN r
      BY <2>1, <1>2
    <2>4. AtWork(o, i)
      BY <1>6 DEF Receive, AtWork, InReturn
    <2> QED BY <2>2, <2>3, <2>4, ChangeKeeps
  <1>7. ASSUME NEW i \in DOMAIN returns[o], NEW restock, Inspect(o, i, restock)
        PROVE  ReturnsInv'
    <2>1. PICK r : r = [returns[o][i] EXCEPT !.status = "INSPECTED"]
      OBVIOUS
    <2>2. returns' = [returns EXCEPT ![o] = [@ EXCEPT ![i] = r]]
      BY <1>7, <2>1 DEF Inspect
    <2>3. "status" \in DOMAIN r
      BY <2>1, <1>2
    <2>4. AtWork(o, i)
      BY <1>7 DEF Inspect, AtWork, InReturn
    <2> QED BY <2>2, <2>3, <2>4, ChangeKeeps
  <1>8. ASSUME NEW i \in DOMAIN returns[o], NEW amount, Refund(o, i, amount)
        PROVE  ReturnsInv'
    <2>1. PICK r : r = [returns[o][i] EXCEPT !.status = "CLOSED", !.refund = amount]
      OBVIOUS
    <2>2. returns' = [returns EXCEPT ![o] = [@ EXCEPT ![i] = r]]
      BY <1>8, <2>1 DEF Refund
    <2>3. "status" \in DOMAIN r
      BY <2>1, <1>2
    <2>4. AtWork(o, i)
      BY <1>8 DEF Refund, AtWork, InReturn
    <2> QED BY <2>2, <2>3, <2>4, ChangeKeeps
  <1> QED
    BY <1>1, <1>3, <1>4, <1>5, <1>6, <1>7, <1>8 DEF Returning

LEMMA ReturnsInvStep ==
  ASSUME ReturnsInv, [Next]_vars
  PROVE  ReturnsInv'
  <1>1. ASSUME UNCHANGED returns
        PROVE  ReturnsInv'
    BY <1>1, UnchangedKeeps
  <1>2. ASSUME NEW o \in Order, Delivering(o)
        PROVE  ReturnsInv'
    <2>1. CASE \/ CancelShipment(o) \/ ShipOrder(o) \/ DeliverOrder(o)
               \/ \E p \in Providers, resi \in BOOLEAN : CreateShipment(o, p, resi)
               \/ StartRefresh(o) \/ AbortRefresh(o)
      BY <2>1, <1>1 DEF CancelShipment, ShipOrder, DeliverOrder, CreateShipment, StartRefresh,
                        AbortRefresh
    <2>2. CASE \E st \in Underway : ManualTracking(o, st)
      BY <2>2, FollowKeeps DEF ManualTracking
    <2>3. CASE \E h \in Told(ship[o]), resi \in BOOLEAN : FinishRefresh(o, h, resi)
      BY <2>3, FollowKeeps DEF FinishRefresh
    <2> QED BY <1>2, <2>1, <2>2, <2>3 DEF Delivering
  <1>3. ASSUME NEW m \in Manifest, Handing(m)
        PROVE  ReturnsInv'
    BY <1>1, <1>3 DEF Handing, CreateManifest, ManifestCancel, ManifestScan, ManifestRemove,
                      StartHandover, FinishHandover, AbortHandover
  <1>4. CASE UNCHANGED vars
    BY <1>1, <1>4 DEF vars
  <1> QED
    BY <1>2, <1>3, <1>4, ReturningKeeps DEF Next

(* The two formulations say the same. *)
LEMMA SinglyIsOne == ReturnsInv => OneOpenReturn
  <1> SUFFICES ASSUME ReturnsInv, NEW o \in Order
               PROVE  Cardinality({i \in DOMAIN returns[o] : returns[o][i].status \in InReturn}) <= 1
    BY DEF OneOpenReturn
  <1> DEFINE T == {i \in DOMAIN returns[o] : returns[o][i].status \in InReturn}
  <1>1. ASSUME T = {} PROVE Cardinality(T) <= 1
    <2>1. Cardinality({}) = 0 BY FS_EmptySet
    <2>2. Cardinality(T) = 0 BY <1>1, <2>1, Zenon
    <2> HIDE DEF T
    <2> QED BY <2>2
  <1>2. ASSUME T # {} PROVE Cardinality(T) <= 1
    <2>1. PICK i \in T : TRUE BY <1>2
    <2>2. T = {i} BY <2>1 DEF ReturnsInv, SinglyAtWork, AtWork
    <2>3. Cardinality({i}) = 1 BY FS_Singleton
    <2>4. Cardinality(T) = 1 BY <2>2, <2>3, Zenon
    <2> HIDE DEF T
    <2> QED BY <2>4
  <1>3. Cardinality(T) <= 1
    <2> HIDE DEF T
    <2> QED BY <1>1, <1>2
  <1> QED BY <1>3

(* At any time at most one return of an order is open, although a refresh   *)
(* that runs beside create() decides with an outdated order.                *)
THEOREM OneReturnAtATime == Spec => []OneOpenReturn
  <1>1. ReturnsInv /\ [Next]_vars => ReturnsInv'
    BY ReturnsInvStep
  <1> QED
    BY <1>1, ReturnsInvInit, SinglyIsOne, PTL DEF Spec

-------------------------------------------------------------------------------
(* What a refresh makes of a shipment: Tracked is a recursive function, and *)
(* it exists because the sets it is about are finite.                       *)

(* One step of the recursion.                                               *)
Track(g, from, h, S) ==
  IF S = {} THEN from ELSE Advance(g[S \ {LastOf(h, S)}], h[LastOf(h, S)])

(* What couriers tell.                                                      *)
Tellable == DOMAIN Rank \ {"CREATED", "HANDED_OVER"}

LEMMA Ranks ==
  /\ DOMAIN Rank = {"CREATED", "LABEL_READY", "HANDED_OVER", "IN_TRANSIT", "OUT_FOR_DELIVERY",
                    "FAILED_DELIVERY", "DELIVERED", "RETURNED_TO_SENDER", "CANCELLED"}
  /\ Rank["CREATED"] = 0 /\ Rank["LABEL_READY"] = 1 /\ Rank["HANDED_OVER"] = 2
  /\ Rank["IN_TRANSIT"] = 3 /\ Rank["OUT_FOR_DELIVERY"] = 4 /\ Rank["FAILED_DELIVERY"] = 4
  /\ Rank["DELIVERED"] = 9 /\ Rank["RETURNED_TO_SENDER"] = 9 /\ Rank["CANCELLED"] = 9
  BY DEF Rank

LEMMA RankIsSmall == \A st \in DOMAIN Rank : Rank[st] \in Nat /\ Rank[st] <= 9
  BY Ranks

LEMMA LastIsOne ==
  ASSUME NEW h \in Seq(Tellable), NEW S \in SUBSET DOMAIN h, S # {}
  PROVE  LastOf(h, S) \in S
PROOF
  <1>1. PICK n \in Nat : DOMAIN h = 1..n
    OBVIOUS
  <1>2. \A i \in S : i \in Nat /\ i <= n /\ h[i] \in DOMAIN Rank
    BY <1>1 DEF Tellable
  <1>3. PICK r : r = [i \in S |-> Rank[h[i]]]
    OBVIOUS
  <1>4. \A i \in S : r[i] = Rank[h[i]] /\ r[i] \in Nat /\ r[i] <= 9
    BY <1>2, <1>3, RankIsSmall
  <1>5. PICK a \in S : \A j \in S : r[j] <= r[a]
    BY <1>4, LargestExists
  <1>6. PICK T : T = {i \in S : r[i] = r[a]}
    OBVIOUS
  <1>7. PICK k : k = [i \in T |-> i]
    OBVIOUS
  <1>8. T # {} /\ \A i \in T : k[i] \in Nat /\ k[i] <= n
    BY <1>2, <1>6, <1>7
  <1>9. PICK b \in T : \A j \in T : k[j] <= k[b]
    BY <1>8, LargestExists
  <1>10. b \in S /\ r[b] = r[a] /\ \A j \in T : j <= b
    BY <1>6, <1>7, <1>9
  <1>11. \A j \in S : r[j] < r[b] \/ (r[j] = r[b] /\ j <= b)
    BY <1>4, <1>5, <1>6, <1>10
  <1>12. \A j \in S : Rank[h[j]] < Rank[h[b]] \/ (Rank[h[j]] = Rank[h[b]] /\ j <= b)
    BY <1>4, <1>10, <1>11
  <1> QED
    BY <1>10, <1>12 DEF LastOf

LEMMA TrackExists ==
  ASSUME NEW from, NEW h \in Seq(Tellable)
  PROVE  \E g : g = [S \in SUBSET DOMAIN h |-> Track(g, from, h, S)]
PROOF
  <1>0. PICK D : D = DOMAIN h
    OBVIOUS
  <1>1. PICK n \in Nat : D = DOMAIN h /\ D = 1..n
    BY <1>0
  <1>2. IsFiniteSet(D) /\ Cardinality(D) = n
    BY <1>1, FS_Interval
  <1>3. \A S \in SUBSET D : IsFiniteSet(S) /\ Cardinality(S) \in Nat /\ Cardinality(S) <= n
    BY <1>2, FS_Subset, FS_CardinalityType
  <1> DEFINE Sized(k) == {S \in SUBSET D : Cardinality(S) <= k}
             Bad == {k \in Nat : ~\E g : g = [S \in Sized(k) |-> Track(g, from, h, S)]}
  <1>4. ASSUME NEW k \in Nat, k \notin Bad PROVE k + 1 \notin Bad
    <2>1. PICK g : g = [S \in Sized(k) |-> Track(g, from, h, S)]
      BY <1>4
    <2>2. PICK f : f = [S \in Sized(k + 1) |-> Track(g, from, h, S)]
      OBVIOUS
    <2>3. ASSUME NEW S \in Sized(k + 1) PROVE Track(f, from, h, S) = Track(g, from, h, S)
      <3>1. CASE S = {}
        BY <3>1 DEF Track
      <3>2. CASE S # {}
        <4>1. PICK T : T = S \ {LastOf(h, S)}
          OBVIOUS
        <4>2. LastOf(h, S) \in S
          BY <1>1, <3>2, LastIsOne
        <4>3. Cardinality(T) = Cardinality(S) - 1
          BY <1>3, <4>1, <4>2, FS_RemoveElement
        <4>4. T \in Sized(k) /\ T \in Sized(k + 1)
          BY <1>3, <4>1, <4>3
        <4>5. f[T] = g[T]
          BY <2>1, <2>2, <4>4
        <4> QED
          BY <4>1, <4>5 DEF Track
      <3> QED
        BY <3>1, <3>2
    <2>4. f = [S \in Sized(k + 1) |-> Track(f, from, h, S)]
      BY <2>2, <2>3
    <2> QED
      BY <2>4
  <1>5. 0 \notin Bad
    <2>1. PICK f : f = [S \in Sized(0) |-> from]
      OBVIOUS
    <2>2. ASSUME NEW S \in Sized(0) PROVE Track(f, from, h, S) = from
      <3>1. S = {}
        BY <1>3, FS_EmptySet
      <3> QED
        BY <3>1 DEF Track
    <2>3. f = [S \in Sized(0) |-> Track(f, from, h, S)]
      BY <2>1, <2>2
    <2> QED
      BY <2>3
  <1>6. Bad = {}
    <2>1. ASSUME Bad # {} PROVE FALSE
      <3>0. Bad \in SUBSET Nat
        OBVIOUS
      <3>1. PICK k \in Bad : \A j \in Bad : k <= j
        BY <2>1, <3>0, LeastExists
      <3>2. k \in Nat /\ k # 0
        BY <1>5, <3>0
      <3> HIDE DEF Bad
      <3>3. k - 1 \in Nat /\ k - 1 \notin Bad
        BY <3>1, <3>2
      <3>4. (k - 1) + 1 \notin Bad
        BY <1>4, <3>3
      <3>5. (k - 1) + 1 = k
        BY <3>2
      <3> QED
        BY <3>1, <3>4, <3>5
    <2> QED
      BY <2>1
  <1>7. Sized(n) = SUBSET D
    BY <1>3
  <1>8. PICK g : g = [S \in Sized(n) |-> Track(g, from, h, S)]
    BY <1>6
  <1> HIDE DEF Sized, Bad
  <1> QED
    BY <1>1, <1>7, <1>8

(* What is true of a status and remains true whatever is told is true of    *)
(* the status after a refresh.                                              *)
LEMMA TrackedStays ==
  ASSUME NEW C, NEW from \in C, NEW h \in Seq(Tellable),
         \A st \in C, to \in Tellable : Advance(st, to) \in C
  PROVE  Tracked(from, h) \in C
PROOF
  <1>0. PICK D : D = DOMAIN h
    OBVIOUS
  <1>1. PICK n \in Nat : D = DOMAIN h /\ D = 1..n
    BY <1>0
  <1>2. IsFiniteSet(D)
    BY <1>1, FS_Interval
  <1>3. PICK g : g = [S \in SUBSET D |-> Track(g, from, h, S)] /\ Tracked(from, h) = g[D]
    <2>1. PICK t : /\ t = (CHOOSE g : g = [S \in SUBSET DOMAIN h |->
                              IF S = {} THEN from ELSE Advance(g[S \ {LastOf(h, S)}], h[LastOf(h, S)])])
                   /\ Tracked(from, h) = t[DOMAIN h]
      BY DEF Tracked
    <2>2. \E g : g = [S \in SUBSET DOMAIN h |->
                        IF S = {} THEN from ELSE Advance(g[S \ {LastOf(h, S)}], h[LastOf(h, S)])]
      <3>1. \E g : g = [S \in SUBSET DOMAIN h |-> Track(g, from, h, S)]
        BY TrackExists
      <3> QED
        BY <3>1, Zenon DEF Track
    <2>3. t = [S \in SUBSET DOMAIN h |->
                 IF S = {} THEN from ELSE Advance(t[S \ {LastOf(h, S)}], h[LastOf(h, S)])]
      BY <2>1, <2>2
    <2> QED
      BY <1>1, <2>1, <2>3 DEF Track
  <1>4. \A S \in SUBSET D : IsFiniteSet(S) /\ Cardinality(S) \in Nat
    BY <1>2, FS_Subset, FS_CardinalityType
  <1> DEFINE Bad == {Cardinality(S) : S \in {T \in SUBSET D : g[T] \notin C}}
  <1>5. ASSUME Bad # {} PROVE FALSE
    <2>1. Bad \in SUBSET Nat
      BY <1>4
    <2>2. PICK k \in Bad : \A j \in Bad : k <= j
      BY <1>5, <2>1, LeastExists
    <2>3. PICK S \in SUBSET D : g[S] \notin C /\ k = Cardinality(S)
      BY <2>2
    <2>4. g[S] = Track(g, from, h, S)
      BY <1>3
    <2>5. S # {}
      BY <2>3, <2>4 DEF Track
    <2>6. LastOf(h, S) \in S
      BY <1>1, <2>5, LastIsOne
    <2>7. PICK T : T = S \ {LastOf(h, S)}
      OBVIOUS
    <2>8. T \in SUBSET D /\ Cardinality(T) = k - 1 /\ k \in Nat
      <3>1. IsFiniteSet(S) /\ k \in Nat
        BY <1>4, <2>3
      <3>2. Cardinality(T) = Cardinality(S) - 1
        <4>1. PICK x : x = LastOf(h, S)
          OBVIOUS
        <4>2. x \in S /\ T = S \ {x}
          BY <2>6, <2>7, <4>1
        <4> QED
          BY ONLY <3>1, <4>2, FS_RemoveElement
      <3> QED
        BY <2>3, <2>7, <3>1, <3>2
    <2>9. g[T] \in C
      <3>1. ASSUME g[T] \notin C PROVE FALSE
        <4>1. Cardinality(T) \in Bad
          BY <2>8, <3>1
        <4> QED
          BY <2>2, <2>8, <4>1
      <3> QED
        BY <3>1
    <2>10. h[LastOf(h, S)] \in Tellable
      <3>1. \A i \in DOMAIN h : h[i] \in Tellable
        OBVIOUS
      <3>2. LastOf(h, S) \in DOMAIN h
        BY <1>1, <2>6
      <3> QED
        BY <3>1, <3>2
    <2>11. g[S] = Advance(g[T], h[LastOf(h, S)])
      BY <2>4, <2>5, <2>7 DEF Track
    <2> QED
      BY <2>3, <2>9, <2>10, <2>11
  <1>6. g[D] \in C
    BY <1>5
  <1> QED
    BY <1>3, <1>6

(* A parcel that waits for its courier goes on waiting or is cancelled, and *)
(* one that has left does not come to wait again.                           *)
LEMMA AdvanceKinds ==
  /\ \A to \in Tellable : \A st \in Waiting \cup {"CANCELLED"} : Advance(st, to) \in Waiting \cup {"CANCELLED"}
  /\ \A to \in Tellable : \A st \in {"LABEL_READY", "CANCELLED"} : Advance(st, to) \in {"LABEL_READY", "CANCELLED"}
  /\ \A to \in Tellable : \A st \in DOMAIN Rank \ Waiting : Advance(st, to) \in DOMAIN Rank \ Waiting
  BY Ranks DEF Tellable, Waiting, Advance, Accepts, Terminal, Underway

LEMMA TrackedKinds ==
  ASSUME NEW from \in DOMAIN Rank, NEW h \in Seq(Tellable)
  PROVE  /\ Tracked(from, h) \in DOMAIN Rank
         /\ from \in Waiting => Tracked(from, h) \in Waiting \cup {"CANCELLED"}
         /\ from = "LABEL_READY" => Tracked(from, h) \in {"LABEL_READY", "CANCELLED"}
         /\ from \notin Waiting => Tracked(from, h) \notin Waiting
PROOF
  <1>1. CASE from \in Waiting
    <2>1. Tracked(from, h) \in Waiting \cup {"CANCELLED"}
      BY <1>1, AdvanceKinds, TrackedStays
    <2>2. from = "LABEL_READY" => Tracked(from, h) \in {"LABEL_READY", "CANCELLED"}
      BY <1>1, AdvanceKinds, TrackedStays
    <2>3. Waiting \cup {"CANCELLED"} \in SUBSET DOMAIN Rank
      BY Ranks DEF Waiting
    <2> QED
      BY <1>1, <2>1, <2>2, <2>3
  <1>2. CASE from \notin Waiting
    <2>1. Tracked(from, h) \in DOMAIN Rank \ Waiting
      BY <1>2, AdvanceKinds, TrackedStays
    <2> QED
      BY <1>2, <2>1 DEF Waiting
  <1> QED
    BY <1>1, <1>2

-------------------------------------------------------------------------------
(* The invariant of parcels and returns.                                    *)

ParcelTypes ==
  /\ status \in [Order -> OrderStatuses]
  /\ DOMAIN ship = Order
  /\ manifests \in [Manifest -> {"NEW"} \cup ManifestStatuses]
  /\ refreshing \in [Order -> OrderStatuses \cup {None}]
  /\ handing \in [Manifest -> SUBSET Order]

(* One order, its shipment x and what a refresh that runs has read.         *)
ParcelOK(st, x, seen) ==
  /\ ShipmentRow(x) /\ x.history \in Seq(Tellable)
  /\ IF st = "READY_TO_SHIP" THEN x.status \in Waiting \cup {"NONE", "CANCELLED"}
                             ELSE x.status \notin Waiting \cup {"NONE"}
  /\ seen # None => x.status \notin Terminal \cup {"NONE"}
  /\ x.manifest # None /\ x.status \in Waiting => x.status = "LABEL_READY"

(* The package of x lies in manifest m.                                     *)
Lies(x, m) == x.manifest = m /\ x.status \in Waiting

(* A manifest is open while it is handed over and has the packages that     *)
(* were read, and none afterwards.                                          *)
ManifestOK(m) ==
  /\ handing[m] # {} => /\ manifests[m] = "OPEN"
                        /\ \A o \in Order : Lies(ship[o], m) => o \in handing[m]
  /\ manifests[m] = "HANDED_OVER" => \A o \in Order : ~Lies(ship[o], m)

ParcelInv ==
  /\ ParcelTypes
  /\ \A o \in Order : ParcelOK(status[o], ship[o], refreshing[o])
  /\ \A m \in Manifest : ManifestOK(m)

(* What has come back of the returns rs of one order.                       *)
Came(rs) == SumOver([i \in DOMAIN rs |-> rs[i].received], DOMAIN rs)

Announced(rs) ==
  SumOver([i \in DOMAIN rs |-> rs[i].quantity], {i \in DOMAIN rs : rs[i].status # "REJECTED"})

PaidBack(rs) == SumOver([i \in DOMAIN rs |-> rs[i].refund], DOMAIN rs)

(* The returns of order o: not more than was sent or paid.                  *)
ReturnsOK(o, st, rs) ==
  /\ rs \in Seq(Returns)
  /\ \A i \in DOMAIN rs : ReturnRow(rs[i]) /\ ReturnLineRow(rs[i])
  /\ st = "READY_TO_SHIP" => rs = <<>>
  /\ Announced(rs) <= Units[o] /\ PaidBack(rs) <= Total[o]

Waits == {o \in Order : status[o] = "READY_TO_SHIP"}

(* The units a balance has.                                                 *)
Held(b) == b.on_hand + b.returned + b.damaged

(* The balance has what has not left and what came back.                    *)
StockInv ==
  /\ bal \in Balances
  /\ bal.reserved = SumOver(Units, Waits)
  /\ Held(bal) = SumOver(Units, Waits) + SumOver([o \in Order |-> Came(returns[o])], Order)

GoodsInv ==
  /\ returns \in [Order -> Seq(Returns)]
  /\ \A o \in Order : ReturnsOK(o, status[o], returns[o])
  /\ StockInv

DeliveryInv == ParcelInv /\ GoodsInv

-------------------------------------------------------------------------------
(* Steps of one parcel.                                                     *)

LEMMA Constants ==
  /\ IsFiniteSet(Order) /\ None \notin Manifest /\ None \notin OrderStatuses /\ None \notin Providers
  /\ None \notin {"manual", "simulator", "biteship"}
  /\ \A o \in Order : Units[o] \in Nat /\ Units[o] > 0 /\ Total[o] \in Nat
  /\ Reports \in SUBSET Tellable
PROOF
  <1>1. /\ IsFiniteSet(Order) /\ Units \in [Order -> Nat \ {0}] /\ Total \in [Order -> Nat]
        /\ Providers \in SUBSET {"manual", "simulator", "biteship"}
        /\ Reports \in SUBSET Tellable
        /\ None \notin Manifest \cup OrderStatuses \cup {"manual", "simulator", "biteship"}
    BY DeliveryAssumption DEF Tellable
  <1>2. \A o \in Order : Units[o] \in Nat \ {0} /\ Total[o] \in Nat
    BY <1>1
  <1>3. \A o \in Order : Units[o] \in Nat /\ Units[o] > 0
    BY <1>2
  <1> QED
    BY <1>1, <1>2, <1>3

(* Only order o, its shipment and its refresh change.                       *)
MovesTo(o, st, x, seen) ==
  /\ status' \in [Order -> OrderStatuses] /\ DOMAIN ship' = Order
  /\ refreshing' \in [Order -> OrderStatuses \cup {None}]
  /\ status'[o] = st /\ ship'[o] = x /\ refreshing'[o] = seen
  /\ \A p \in Order \ {o} : status'[p] = status[p] /\ ship'[p] = ship[p] /\ refreshing'[p] = refreshing[p]
  /\ UNCHANGED <<manifests, handing>>

LEMMA ParcelMoves ==
  ASSUME ParcelInv, NEW o \in Order, NEW st, NEW x, NEW seen, MovesTo(o, st, x, seen), ParcelOK(st, x, seen),
         \A m \in Manifest : Lies(x, m) => Lies(ship[o], m) \/ (manifests[m] = "OPEN" /\ handing[m] = {})
  PROVE  ParcelInv'
PROOF
  <1>1. /\ status' \in [Order -> OrderStatuses] /\ DOMAIN ship' = Order
        /\ refreshing' \in [Order -> OrderStatuses \cup {None}]
        /\ status'[o] = st /\ ship'[o] = x /\ refreshing'[o] = seen
        /\ \A p \in Order \ {o} : status'[p] = status[p] /\ ship'[p] = ship[p] /\ refreshing'[p] = refreshing[p]
        /\ manifests' = manifests /\ handing' = handing
    BY DEF MovesTo
  <1>2. ParcelTypes'
    BY <1>1 DEF ParcelInv, ParcelTypes
  <1>3. ASSUME NEW p \in Order PROVE ParcelOK(status'[p], ship'[p], refreshing'[p])
    BY <1>1 DEF ParcelInv
  <1>4. ASSUME NEW m \in Manifest PROVE ManifestOK(m)'
    <2>1. ManifestOK(m)
      BY DEF ParcelInv
    <2>2. ASSUME NEW p \in Order, Lies(ship'[p], m)
          PROVE  Lies(ship[p], m) \/ (manifests[m] = "OPEN" /\ handing[m] = {})
      BY <1>1, <2>2
    <2> QED
      BY <1>1, <2>1, <2>2 DEF ManifestOK
  <1> QED
    BY <1>2, <1>3, <1>4 DEF ParcelInv

(* What is known of the parcel of an order.                                 *)
LEMMA ParcelOf ==
  ASSUME ParcelInv, NEW o \in Order
  PROVE  /\ ShipmentRow(ship[o]) /\ ship[o] \in Shipments /\ ship[o].history \in Seq(Tellable)
         /\ status[o] \in OrderStatuses /\ refreshing[o] \in OrderStatuses \cup {None}
         /\ ship[o].status \in DOMAIN Rank \cup {"NONE"}
         /\ ParcelOK(status[o], ship[o], refreshing[o])
  BY DEF ParcelInv, ParcelTypes, ParcelOK, ShipmentRow, Shipments

(* The shipment alone changes, a refresh does not run.                      *)
LEMMA ShipmentStep ==
  ASSUME ParcelInv, NEW o \in Order, NEW x, ship' = [ship EXCEPT ![o] = x],
         UNCHANGED <<status, manifests, refreshing, handing>>,
         ParcelOK(status[o], x, refreshing[o]),
         \A m \in Manifest : Lies(x, m) => Lies(ship[o], m) \/ (manifests[m] = "OPEN" /\ handing[m] = {})
  PROVE  ParcelInv'
PROOF
  <1>1. MovesTo(o, status[o], x, refreshing[o])
    BY DEF MovesTo, ParcelInv, ParcelTypes
  <1> QED
    BY <1>1, ParcelMoves

(* A row of a shipment with another status.                                 *)
LEMMA RowWith ==
  ASSUME NEW x, ShipmentRow(x), x.status # "NONE", NEW st \in DOMAIN Rank, NEW y, y = [x EXCEPT !.status = st]
  PROVE  /\ ShipmentRow(y) /\ y.status = st /\ y.history = x.history /\ y.manifest = x.manifest
         /\ y.provider = x.provider /\ y.resi = x.resi
PROOF
  <1>1. x \in Shipments /\ x.provider # None
    BY DEF ShipmentRow
  <1>2. /\ y \in Shipments /\ y.status = st /\ y.history = x.history /\ y.manifest = x.manifest
        /\ y.provider = x.provider /\ y.resi = x.resi
    BY <1>1 DEF Shipments
  <1>3. st # "NONE"
    BY Ranks
  <1> QED
    BY <1>1, <1>2, <1>3 DEF ShipmentRow

LEMMA CreateShipmentStep ==
  ASSUME ParcelInv, NEW o \in Order, NEW p \in Providers, NEW resi \in BOOLEAN, CreateShipment(o, p, resi)
  PROVE  ParcelInv'
PROOF
  <1>1. /\ status[o] = "READY_TO_SHIP" /\ ship[o].status \in {"NONE", "CANCELLED"}
        /\ UNCHANGED <<status, manifests, refreshing, handing>>
    BY DEF CreateShipment
  <1>2. PICK st : st = (IF resi THEN "LABEL_READY" ELSE "CREATED")
    OBVIOUS
  <1>3. PICK x : x = [NoShipment EXCEPT !.status = st, !.provider = p, !.resi = resi]
    OBVIOUS
  <1>4. ship' = [ship EXCEPT ![o] = x]
    BY <1>2, <1>3 DEF CreateShipment
  <1>5. x = [status |-> st, provider |-> p, resi |-> resi, manifest |-> None, history |-> <<>>]
    BY <1>3 DEF NoShipment
  <1>6. /\ x.status = st /\ x.provider = p /\ x.manifest = None /\ x.history = <<>>
        /\ st \in DOMAIN Rank /\ st \in Waiting /\ st # "NONE"
    BY <1>2, <1>5, Ranks DEF Waiting
  <1>7. p # None
    BY Constants
  <1>8. x \in Shipments /\ x.history \in Seq(Tellable)
    BY <1>5, <1>6 DEF Shipments
  <1>9. refreshing[o] = None
    BY <1>1, ParcelOf DEF ParcelOK, Terminal
  <1>10. ParcelOK(status[o], x, refreshing[o])
    BY <1>1, <1>6, <1>7, <1>8, <1>9 DEF ParcelOK, ShipmentRow
  <1>11. \A m \in Manifest : ~Lies(x, m)
    BY <1>6, Constants DEF Lies
  <1> QED
    BY <1>1, <1>4, <1>10, <1>11, ShipmentStep

LEMMA CancelShipmentStep ==
  ASSUME ParcelInv, NEW o \in Order, CancelShipment(o)
  PROVE  ParcelInv'
PROOF
  <1>1. /\ refreshing[o] = None /\ ship[o].status \in Waiting
        /\ ship' = [ship EXCEPT ![o] = [ship[o] EXCEPT !.status = "CANCELLED"]]
        /\ UNCHANGED <<status, manifests, refreshing, handing>>
    BY DEF CancelShipment, ShipmentFree
  <1>2. PICK x : x = [ship[o] EXCEPT !.status = "CANCELLED"]
    OBVIOUS
  <1>3. ship[o].status # "NONE"
    BY <1>1 DEF Waiting
  <1>4. /\ ShipmentRow(x) /\ x.status = "CANCELLED" /\ x.history \in Seq(Tellable)
    BY <1>2, <1>3, ParcelOf, RowWith, Ranks
  <1>5. ParcelOK(status[o], x, refreshing[o])
    BY <1>1, <1>4, ParcelOf DEF ParcelOK, Waiting
  <1>6. \A m \in Manifest : ~Lies(x, m)
    BY <1>4 DEF Lies, Waiting
  <1>7. ship' = [ship EXCEPT ![o] = x]
    BY <1>1, <1>2
  <1> QED
    BY <1>1, <1>5, <1>6, <1>7, ShipmentStep

(* A row of a shipment in another manifest, or in none.                     *)
LEMMA RowIn ==
  ASSUME NEW x, ShipmentRow(x), x.status # "NONE", NEW m \in Manifest \cup {None},
         NEW y, y = [x EXCEPT !.manifest = m]
  PROVE  /\ ShipmentRow(y) /\ y.status = x.status /\ y.history = x.history /\ y.manifest = m
PROOF
  <1>1. x \in Shipments /\ x.provider # None
    BY DEF ShipmentRow
  <1>2. /\ y \in Shipments /\ y.status = x.status /\ y.history = x.history /\ y.manifest = m
        /\ y.provider = x.provider
    BY <1>1 DEF Shipments
  <1> QED
    BY <1>1, <1>2 DEF ShipmentRow

LEMMA ManifestScanStep ==
  ASSUME ParcelInv, NEW m \in Manifest, NEW o \in Order, ManifestScan(m, o)
  PROVE  ParcelInv'
PROOF
  <1>1. /\ handing[m] = {} /\ refreshing[o] = None /\ manifests[m] = "OPEN"
        /\ ship[o].status = "LABEL_READY"
        /\ ship' = [ship EXCEPT ![o] = [ship[o] EXCEPT !.manifest = m]]
        /\ UNCHANGED <<status, manifests, refreshing, handing>>
    BY DEF ManifestScan, ManifestFree, ShipmentFree
  <1>2. PICK x : x = [ship[o] EXCEPT !.manifest = m]
    OBVIOUS
  <1>3. /\ ShipmentRow(x) /\ x.status = "LABEL_READY" /\ x.history \in Seq(Tellable) /\ x.manifest = m
    BY <1>1, <1>2, ParcelOf, RowIn
  <1>4. ParcelOK(status[o], x, refreshing[o])
    BY <1>1, <1>3, ParcelOf DEF ParcelOK
  <1>5. \A n \in Manifest : Lies(x, n) => manifests[n] = "OPEN" /\ handing[n] = {}
    BY <1>1, <1>3 DEF Lies
  <1>6. ship' = [ship EXCEPT ![o] = x]
    BY <1>1, <1>2
  <1> QED
    BY <1>1, <1>4, <1>5, <1>6, ShipmentStep

LEMMA ManifestRemoveStep ==
  ASSUME ParcelInv, NEW m \in Manifest, NEW o \in Order, ManifestRemove(m, o)
  PROVE  ParcelInv'
PROOF
  <1>1. /\ refreshing[o] = None /\ ship[o].manifest = m
        /\ ship' = [ship EXCEPT ![o] = [ship[o] EXCEPT !.manifest = None]]
        /\ UNCHANGED <<status, manifests, refreshing, handing>>
    BY DEF ManifestRemove, ShipmentFree
  <1>2. PICK x : x = [ship[o] EXCEPT !.manifest = None]
    OBVIOUS
  <1>3. ship[o].status # "NONE"
    BY <1>1, ParcelOf, Constants DEF ShipmentRow, NoShipment
  <1>4. /\ ShipmentRow(x) /\ x.status = ship[o].status /\ x.history \in Seq(Tellable) /\ x.manifest = None
    BY <1>2, <1>3, ParcelOf, RowIn
  <1>5. ParcelOK(status[o], x, refreshing[o])
    BY <1>1, <1>4, ParcelOf DEF ParcelOK
  <1>6. \A n \in Manifest : ~Lies(x, n)
    BY <1>4, Constants DEF Lies
  <1>7. ship' = [ship EXCEPT ![o] = x]
    BY <1>1, <1>2
  <1> QED
    BY <1>1, <1>5, <1>6, <1>7, ShipmentStep

(* Many shipments change at once.                                           *)
LEMMA ManyMove ==
  ASSUME ParcelInv, ParcelTypes', \A o \in Order : ParcelOK(status'[o], ship'[o], refreshing'[o]),
         \A m \in Manifest : ManifestOK(m)'
  PROVE  ParcelInv'
  BY DEF ParcelInv

LEMMA ManifestCancelStep ==
  ASSUME ParcelInv, NEW m \in Manifest, ManifestCancel(m)
  PROVE  ParcelInv'
PROOF
  <1>1. /\ handing[m] = {} /\ manifests[m] = "OPEN"
        /\ \A o \in Order : ship[o].manifest = m => refreshing[o] = None
        /\ ship' = [o \in Order |-> IF ship[o].manifest = m THEN [ship[o] EXCEPT !.manifest = None] ELSE ship[o]]
        /\ manifests' = [manifests EXCEPT ![m] = "CANCELLED"]
        /\ UNCHANGED <<status, refreshing, handing>>
    BY DEF ManifestCancel, ManifestFree, ShipmentFree
  <1>2. ASSUME NEW o \in Order, ship[o].manifest = m
        PROVE  ParcelOK(status[o], ship'[o], refreshing[o]) /\ ship'[o].manifest = None
    <2>1. PICK x : x = [ship[o] EXCEPT !.manifest = None] /\ x = ship'[o]
      BY <1>1, <1>2
    <2>2. ship[o].status # "NONE"
      BY <1>2, ParcelOf, Constants DEF ShipmentRow, NoShipment
    <2>3. /\ ShipmentRow(x) /\ x.status = ship[o].status /\ x.history \in Seq(Tellable) /\ x.manifest = None
      BY <2>1, <2>2, ParcelOf, RowIn
    <2> QED
      BY <2>1, <2>3, ParcelOf DEF ParcelOK
  <1>3. \A o \in Order : ship[o].manifest # m => ship'[o] = ship[o]
    BY <1>1
  <1>4. ParcelTypes'
    BY <1>1 DEF ParcelInv, ParcelTypes, ManifestStatuses
  <1>5. \A o \in Order : ParcelOK(status'[o], ship'[o], refreshing'[o])
    BY <1>1, <1>2, <1>3 DEF ParcelInv
  <1>6. ASSUME NEW n \in Manifest PROVE ManifestOK(n)'
    <2>1. \A o \in Order : Lies(ship'[o], n) => Lies(ship[o], n)
      BY <1>2, <1>3, Constants DEF Lies
    <2>2. manifests'[m] = "CANCELLED" /\ (n # m => manifests'[n] = manifests[n])
      BY <1>1 DEF ParcelInv, ParcelTypes
    <2>3. ManifestOK(n)
      BY DEF ParcelInv
    <2> QED
      BY <1>1, <2>1, <2>2, <2>3 DEF ManifestOK
  <1> QED
    BY <1>4, <1>5, <1>6, ManyMove

LEMMA ManifestOnly ==
  ASSUME ParcelInv, UNCHANGED <<status, ship, refreshing>>,
         manifests' \in [Manifest -> {"NEW"} \cup ManifestStatuses], handing' \in [Manifest -> SUBSET Order],
         \A m \in Manifest : ManifestOK(m)'
  PROVE  ParcelInv'
  BY DEF ParcelInv, ParcelTypes

LEMMA CreateManifestStep ==
  ASSUME ParcelInv, NEW m \in Manifest, CreateManifest(m)
  PROVE  ParcelInv'
PROOF
  <1>1. /\ manifests[m] = "NEW" /\ manifests' = [manifests EXCEPT ![m] = "OPEN"]
        /\ UNCHANGED <<status, ship, refreshing, handing>>
        /\ manifests \in [Manifest -> {"NEW"} \cup ManifestStatuses] /\ handing \in [Manifest -> SUBSET Order]
    BY DEF CreateManifest, ParcelInv, ParcelTypes
  <1>2. ASSUME NEW n \in Manifest PROVE ManifestOK(n)'
    <2>1. ManifestOK(n) /\ manifests'[m] = "OPEN" /\ (n # m => manifests'[n] = manifests[n])
      BY <1>1 DEF ParcelInv
    <2> QED
      BY <1>1, <2>1 DEF ManifestOK
  <1> QED
    BY <1>1, <1>2, ManifestOnly DEF ManifestStatuses

LEMMA StartHandoverStep ==
  ASSUME ParcelInv, NEW m \in Manifest, StartHandover(m)
  PROVE  ParcelInv'
PROOF
  <1>1. PICK os : os = {o \in Order : ship[o].manifest = m /\ ship[o].status = "LABEL_READY"}
    OBVIOUS
  <1>2. /\ manifests[m] = "OPEN" /\ handing' = [handing EXCEPT ![m] = os]
        /\ UNCHANGED <<status, ship, manifests, refreshing>>
        /\ manifests \in [Manifest -> {"NEW"} \cup ManifestStatuses] /\ handing \in [Manifest -> SUBSET Order]
    BY <1>1 DEF StartHandover, ParcelInv, ParcelTypes
  <1>3. \A o \in Order : Lies(ship[o], m) => o \in os
    BY <1>1, Constants, ParcelOf DEF Lies, ParcelOK
  <1>4. ASSUME NEW n \in Manifest PROVE ManifestOK(n)'
    <2>1. ManifestOK(n) /\ handing'[m] = os /\ (n # m => handing'[n] = handing[n])
      BY <1>2 DEF ParcelInv
    <2>2. \A o \in Order : Lies(ship'[o], n) => Lies(ship[o], n)
      BY <1>2
    <2> QED
      BY <1>2, <1>3, <2>1, <2>2 DEF ManifestOK
  <1>5. handing' \in [Manifest -> SUBSET Order]
    BY <1>1, <1>2
  <1> QED
    BY <1>2, <1>4, <1>5, ManifestOnly

LEMMA AbortHandoverStep ==
  ASSUME ParcelInv, NEW m \in Manifest, AbortHandover(m)
  PROVE  ParcelInv'
PROOF
  <1>1. /\ handing' = [handing EXCEPT ![m] = {}]
        /\ UNCHANGED <<status, ship, manifests, refreshing>>
        /\ manifests \in [Manifest -> {"NEW"} \cup ManifestStatuses] /\ handing \in [Manifest -> SUBSET Order]
    BY DEF AbortHandover, ParcelInv, ParcelTypes
  <1>2. ASSUME NEW n \in Manifest PROVE ManifestOK(n)'
    <2>1. ManifestOK(n) /\ handing'[m] = {} /\ (n # m => handing'[n] = handing[n])
      BY <1>1 DEF ParcelInv
    <2> QED
      BY <1>1, <2>1 DEF ManifestOK
  <1> QED
    BY <1>1, <1>2, ManifestOnly

(* The orders os leave; a manifest of which they are the packages, too.     *)
LEMMA LeaveStep ==
  ASSUME ParcelInv, NEW os \in SUBSET Order, Leave(os), refreshing' = refreshing,
         manifests' \in [Manifest -> {"NEW"} \cup ManifestStatuses], handing' \in [Manifest -> SUBSET Order],
         \A m \in Manifest : \/ manifests'[m] = manifests[m] /\ handing'[m] = handing[m]
                             \/ handing[m] = os /\ handing[m] # {} /\ handing'[m] = {}
  PROVE  ParcelInv'
PROOF
  <1>1. /\ \A o \in os : /\ status[o] = "READY_TO_SHIP" /\ refreshing[o] = None
                         /\ ship[o].status = "LABEL_READY"
        /\ ship' = [o \in Order |-> IF o \in os THEN [ship[o] EXCEPT !.status = "HANDED_OVER"] ELSE ship[o]]
        /\ status' = [o \in Order |-> IF o \in os THEN "SHIPPED" ELSE status[o]]
    BY DEF Leave, CanLeave, ShipmentFree
  <1>2. ASSUME NEW o \in os
        PROVE  ParcelOK("SHIPPED", ship'[o], refreshing[o]) /\ ship'[o].status = "HANDED_OVER"
    <2>1. PICK x : x = [ship[o] EXCEPT !.status = "HANDED_OVER"] /\ x = ship'[o]
      BY <1>1
    <2>2. /\ ShipmentRow(x) /\ x.status = "HANDED_OVER" /\ x.history \in Seq(Tellable)
      BY <1>1, <2>1, ParcelOf, RowWith, Ranks
    <2> QED
      BY <1>1, <2>1, <2>2 DEF ParcelOK, Waiting
  <1>3. \A o \in Order \ os : ship'[o] = ship[o] /\ status'[o] = status[o]
    BY <1>1
  <1>4. ParcelTypes'
    <2>1. status' \in [Order -> OrderStatuses]
      BY <1>1 DEF ParcelInv, ParcelTypes, OrderStatuses
    <2> QED
      BY <1>1, <2>1 DEF ParcelInv, ParcelTypes
  <1>5. \A o \in Order : ParcelOK(status'[o], ship'[o], refreshing'[o])
    <2>1. \A o \in os : status'[o] = "SHIPPED"
      BY <1>1
    <2> QED
      BY <1>2, <1>3, <2>1 DEF ParcelInv
  <1>6. ASSUME NEW m \in Manifest PROVE ManifestOK(m)'
    <2>1. \A o \in Order : Lies(ship'[o], m) => o \notin os /\ Lies(ship[o], m)
      BY <1>2, <1>3 DEF Lies, Waiting
    <2>2. ManifestOK(m)
      BY DEF ParcelInv
    <2> QED
      BY <2>1, <2>2 DEF ManifestOK
  <1> QED
    BY <1>4, <1>5, <1>6, ManyMove

LEMMA ShipOrderStep ==
  ASSUME ParcelInv, NEW o \in Order, ShipOrder(o)
  PROVE  ParcelInv'
PROOF
  <1>1. Leave({o}) /\ UNCHANGED <<manifests, refreshing, handing>> /\ {o} \in SUBSET Order
    BY DEF ShipOrder
  <1> QED
    BY <1>1, LeaveStep DEF ParcelInv, ParcelTypes

LEMMA FinishHandoverStep ==
  ASSUME ParcelInv, NEW m \in Manifest, FinishHandover(m)
  PROVE  ParcelInv'
PROOF
  <1>1. PICK os : os = handing[m]
    OBVIOUS
  <1>2. /\ os # {} /\ Leave(os) /\ refreshing' = refreshing
        /\ manifests' = [manifests EXCEPT ![m] = "HANDED_OVER"] /\ handing' = [handing EXCEPT ![m] = {}]
        /\ manifests \in [Manifest -> {"NEW"} \cup ManifestStatuses] /\ handing \in [Manifest -> SUBSET Order]
    BY <1>1 DEF FinishHandover, ParcelInv, ParcelTypes
  <1>3. /\ os \in SUBSET Order
        /\ manifests' \in [Manifest -> {"NEW"} \cup ManifestStatuses] /\ handing' \in [Manifest -> SUBSET Order]
        /\ \A n \in Manifest : \/ manifests'[n] = manifests[n] /\ handing'[n] = handing[n]
                               \/ handing[n] = os /\ handing[n] # {} /\ handing'[n] = {}
    BY <1>1, <1>2 DEF ManifestStatuses
  <1> QED
    BY <1>2, <1>3, LeaveStep

LEMMA DeliverOrderStep ==
  ASSUME ParcelInv, NEW o \in Order, DeliverOrder(o)
  PROVE  ParcelInv'
PROOF
  <1>1. /\ status[o] = "SHIPPED" /\ refreshing[o] = None
        /\ status' = [status EXCEPT ![o] = "DELIVERED"]
        /\ ship' = [ship EXCEPT ![o] = [ship[o] EXCEPT !.status = Advance(ship[o].status, "DELIVERED")]]
        /\ UNCHANGED <<manifests, refreshing, handing>>
    BY DEF DeliverOrder, ShipmentFree
  <1>2. PICK st, x : st = Advance(ship[o].status, "DELIVERED") /\ x = [ship[o] EXCEPT !.status = st]
    OBVIOUS
  <1>3. ship[o].status \in DOMAIN Rank \ Waiting
    BY <1>1, ParcelOf DEF ParcelOK
  <1>4. st \in DOMAIN Rank \ Waiting /\ ship[o].status # "NONE" /\ "NONE" \notin DOMAIN Rank
    <2>1. "DELIVERED" \in Tellable
      BY Ranks DEF Tellable
    <2> QED
      BY <1>2, <1>3, <2>1, AdvanceKinds, Ranks
  <1>5. /\ ShipmentRow(x) /\ x.status = st /\ x.history \in Seq(Tellable)
    BY <1>2, <1>4, ParcelOf, RowWith
  <1>6. ParcelOK("DELIVERED", x, None) /\ \A m \in Manifest : ~Lies(x, m)
    BY <1>4, <1>5 DEF ParcelOK, Lies
  <1>7. MovesTo(o, "DELIVERED", x, None)
    BY <1>1, <1>2 DEF MovesTo, ParcelInv, ParcelTypes, OrderStatuses
  <1> QED
    BY <1>6, <1>7, ParcelMoves

(* What an order makes of its shipment's move.                              *)
LEMMA FollowStatus ==
  ASSUME ParcelInv, NEW o \in Order, NEW st, NEW seen, Follow(o, st, seen)
  PROVE  /\ status' \in [Order -> OrderStatuses] /\ \A p \in Order \ {o} : status'[p] = status[p]
         /\ status'[o] \in {status[o], "RETURN_REQUESTED", "DELIVERED"}
         /\ st \notin {"RETURNED_TO_SENDER", "DELIVERED"} => status'[o] = status[o]
PROOF
  <1>1. PICK back : back = (st = "RETURNED_TO_SENDER" /\ ReturnsToSender(o, seen) /\ ~NothingLeft(o))
    OBVIOUS
  <1>2. PICK new : new = IF back THEN "RETURN_REQUESTED"
                         ELSE IF st = "DELIVERED" /\ seen = "SHIPPED" THEN "DELIVERED" ELSE status[o]
    OBVIOUS
  <1>3. status' = [status EXCEPT ![o] = new]
    BY <1>1, <1>2 DEF Follow
  <1>4. new \in {status[o], "RETURN_REQUESTED", "DELIVERED"}
        /\ (st \notin {"RETURNED_TO_SENDER", "DELIVERED"} => new = status[o])
    BY <1>1, <1>2
  <1>5. status \in [Order -> OrderStatuses] /\ new \in OrderStatuses
    BY <1>4 DEF ParcelInv, ParcelTypes, OrderStatuses
  <1> QED
    BY <1>3, <1>4, <1>5

LEMMA ManualTrackingParcel ==
  ASSUME ParcelInv, NEW o \in Order, NEW st \in Underway, ManualTracking(o, st)
  PROVE  ParcelInv' /\ status[o] # "READY_TO_SHIP" /\ status'[o] # "READY_TO_SHIP"
PROOF
  <1>1. /\ refreshing[o] = None /\ ship[o].provider \in {"manual", "simulator"}
        /\ Accepts(ship[o].status, st) /\ Follow(o, st, status[o])
        /\ ship' = [ship EXCEPT ![o] = [ship[o] EXCEPT !.status = st]]
        /\ UNCHANGED <<manifests, refreshing, handing>>
    BY DEF ManualTracking, ShipmentFree
  <1>2. PICK x : x = [ship[o] EXCEPT !.status = st]
    OBVIOUS
  <1>3. ship[o].status # "NONE"
    BY <1>1, ParcelOf, Constants DEF ShipmentRow, NoShipment
  <1>4. ship[o].status \notin Waiting /\ ship[o].status # "CANCELLED"
    BY <1>1 DEF Accepts, Terminal
  <1>5. status[o] # "READY_TO_SHIP"
    BY <1>3, <1>4, ParcelOf DEF ParcelOK
  <1>6. st \in DOMAIN Rank /\ st \notin Waiting \cup {"NONE"}
    BY Ranks DEF Underway, Waiting
  <1>7. ShipmentRow(x) /\ x.status = st /\ x.history \in Seq(Tellable)
    BY <1>2, <1>3, <1>6, ParcelOf, RowWith
  <1>8. /\ status' \in [Order -> OrderStatuses] /\ \A p \in Order \ {o} : status'[p] = status[p]
        /\ status'[o] # "READY_TO_SHIP"
    BY <1>1, <1>5, FollowStatus
  <1>9. ParcelOK(status'[o], x, None) /\ \A m \in Manifest : ~Lies(x, m)
    BY <1>6, <1>7, <1>8 DEF ParcelOK, Lies
  <1>10. MovesTo(o, status'[o], x, None)
    BY <1>1, <1>2, <1>8 DEF MovesTo, ParcelInv, ParcelTypes
  <1> QED
    BY <1>5, <1>8, <1>9, <1>10, ParcelMoves

LEMMA StartRefreshStep ==
  ASSUME ParcelInv, NEW o \in Order, StartRefresh(o)
  PROVE  ParcelInv'
PROOF
  <1>1. /\ ship[o].provider \in {"simulator", "biteship"} /\ ship[o].status \notin Terminal
        /\ refreshing' = [refreshing EXCEPT ![o] = status[o]]
        /\ UNCHANGED <<status, ship, manifests, handing>>
    BY DEF StartRefresh
  <1>2. ship[o].status # "NONE"
    BY <1>1, ParcelOf, Constants DEF ShipmentRow, NoShipment
  <1>3. ParcelOK(status[o], ship[o], status[o])
    BY <1>1, <1>2, ParcelOf DEF ParcelOK
  <1>4. MovesTo(o, status[o], ship[o], status[o])
    BY <1>1 DEF MovesTo, ParcelInv, ParcelTypes
  <1> QED
    BY <1>3, <1>4, ParcelMoves

LEMMA AbortRefreshStep ==
  ASSUME ParcelInv, NEW o \in Order, AbortRefresh(o)
  PROVE  ParcelInv'
PROOF
  <1>1. /\ refreshing' = [refreshing EXCEPT ![o] = None]
        /\ UNCHANGED <<status, ship, manifests, handing>>
    BY DEF AbortRefresh
  <1>2. ParcelOK(status[o], ship[o], None)
    BY ParcelOf DEF ParcelOK
  <1>3. MovesTo(o, status[o], ship[o], None)
    BY <1>1 DEF MovesTo, ParcelInv, ParcelTypes
  <1> QED
    BY <1>2, <1>3, ParcelMoves

LEMMA ToldTyped ==
  ASSUME NEW x \in Shipments, x.history \in Seq(Tellable), NEW h \in Told(x)
  PROVE  h \in Seq(Tellable)
PROOF
  <1>1. CASE x.provider = "simulator"
    <2>1. Steps = <<"IN_TRANSIT", "OUT_FOR_DELIVERY", "DELIVERED">>
          /\ {"IN_TRANSIT", "OUT_FOR_DELIVERY", "DELIVERED"} \in SUBSET Tellable
      BY Ranks DEF Steps, Tellable
    <2>2. PICK n \in IF x.status \in Waiting THEN {0} ELSE Len(x.history)..3 : h = SubSeq(Steps, 1, n)
      BY <1>1 DEF Told
    <2>3. Len(x.history) \in Nat
      OBVIOUS
    <2>4. n \in Nat /\ n <= 3
      BY <2>2, <2>3
    <2>5. h = [i \in 1..n |-> Steps[i]]
      BY <2>1, <2>2, <2>4
    <2>6. \A i \in 1..n : Steps[i] \in Tellable
      BY <2>1, <2>4
    <2> QED
      BY <2>4, <2>5, <2>6
  <1>2. CASE x.provider # "simulator"
    <2>1. PICK more \in BoundedSeq(Reports, MaxReports - Len(x.history)) : h = x.history \o more
      BY <1>2 DEF Told
    <2>2. PICK n \in 0..(MaxReports - Len(x.history)) : more \in [1..n -> Reports]
      BY DEF BoundedSeq, SeqOf
    <2>3. more \in Seq(Tellable)
      BY <2>2, Constants
    <2> QED
      BY <2>1, <2>3
  <1> QED
    BY <1>1, <1>2

LEMMA FinishRefreshParcel ==
  ASSUME ParcelInv, NEW o \in Order, NEW h \in Told(ship[o]), NEW resi \in BOOLEAN, FinishRefresh(o, h, resi)
  PROVE  /\ ParcelInv' /\ (status'[o] = "READY_TO_SHIP" <=> status[o] = "READY_TO_SHIP")
         /\ \E st : /\ Follow(o, st, refreshing[o])
                    /\ st = "RETURNED_TO_SENDER" => status[o] # "READY_TO_SHIP"
PROOF
  <1>0. PICK x : x = ship[o]
    OBVIOUS
  <1>1. PICK st : st = Tracked(x.status, h)
    OBVIOUS
  <1>2. PICK y : y = [x EXCEPT !.status = st, !.history = h, !.resi = resi]
    OBVIOUS
  <1>3. /\ refreshing[o] # None /\ ship' = [ship EXCEPT ![o] = y]
        /\ Follow(o, st, refreshing[o])
        /\ refreshing' = [refreshing EXCEPT ![o] = None]
        /\ UNCHANGED <<manifests, handing>>
    BY <1>0, <1>1, <1>2 DEF FinishRefresh
  <1>4. /\ ShipmentRow(x) /\ x \in Shipments /\ x.history \in Seq(Tellable)
        /\ x.status \in DOMAIN Rank \cup {"NONE"} /\ ParcelOK(status[o], x, refreshing[o])
    BY <1>0, ParcelOf
  <1>5. x.status \in DOMAIN Rank /\ x.status \notin Terminal /\ x.status # "NONE"
    BY <1>3, <1>4 DEF ParcelOK
  <1>6. h \in Seq(Tellable)
    BY <1>0, <1>4, ToldTyped
  <1>7. /\ st \in DOMAIN Rank
        /\ x.status \in Waiting => st \in Waiting \cup {"CANCELLED"}
        /\ x.status = "LABEL_READY" => st \in {"LABEL_READY", "CANCELLED"}
        /\ x.status \notin Waiting => st \notin Waiting
    BY <1>1, <1>5, <1>6, TrackedKinds
  <1>8. st # "NONE"
    BY <1>7, Ranks
  <1>9. /\ ShipmentRow(y) /\ y.status = st /\ y.history = h /\ y.manifest = x.manifest
    <2>1. h \in Seq(DOMAIN Rank)
      BY <1>6 DEF Tellable
    <2>2. x.provider # None
      BY <1>4, <1>5 DEF ShipmentRow
    <2>3. /\ y \in Shipments /\ y.status = st /\ y.history = h /\ y.manifest = x.manifest
          /\ y.provider = x.provider
      BY <1>2, <1>4, <1>7, <2>1 DEF Shipments
    <2> QED
      BY <1>8, <2>2, <2>3 DEF ShipmentRow
  <1>10. /\ status' \in [Order -> OrderStatuses] /\ \A p \in Order \ {o} : status'[p] = status[p]
         /\ status'[o] \in {status[o], "RETURN_REQUESTED", "DELIVERED"}
         /\ st \notin {"RETURNED_TO_SENDER", "DELIVERED"} => status'[o] = status[o]
    BY <1>3, FollowStatus
  <1>11. status[o] = "READY_TO_SHIP" => x.status \in Waiting /\ st \in Waiting \cup {"CANCELLED"} /\ status'[o] = status[o]
    BY <1>4, <1>5, <1>7, <1>10 DEF ParcelOK, Terminal, Waiting
  <1>12. status[o] # "READY_TO_SHIP" => x.status \notin Waiting /\ st \notin Waiting /\ status'[o] # "READY_TO_SHIP"
    BY <1>4, <1>7, <1>10 DEF ParcelOK
  <1>13. ParcelOK(status'[o], y, None)
    <2>1. IF status'[o] = "READY_TO_SHIP" THEN st \in Waiting \cup {"NONE", "CANCELLED"}
                                          ELSE st \notin Waiting \cup {"NONE"}
      BY <1>8, <1>11, <1>12
    <2>2. x.manifest # None /\ st \in Waiting => st = "LABEL_READY"
      BY <1>4, <1>7 DEF ParcelOK, Waiting
    <2> QED
      BY <1>6, <1>9, <2>1, <2>2 DEF ParcelOK
  <1>14. \A m \in Manifest : Lies(y, m) => Lies(ship[o], m)
    BY <1>0, <1>7, <1>9 DEF Lies
  <1>15. MovesTo(o, status'[o], y, None)
    BY <1>3, <1>10 DEF MovesTo, ParcelInv, ParcelTypes
  <1>16. ParcelInv'
    BY <1>13, <1>14, <1>15, ParcelMoves
  <1>17. st = "RETURNED_TO_SENDER" => status[o] # "READY_TO_SHIP"
    BY <1>11 DEF Waiting
  <1> QED
    BY <1>3, <1>11, <1>12, <1>16, <1>17

(* An order that has left moves on, its parcel stays.                       *)
LEMMA StatusStep ==
  ASSUME ParcelInv, NEW o \in Order, NEW st \in OrderStatuses, status' = [status EXCEPT ![o] = st],
         status[o] # "READY_TO_SHIP", st # "READY_TO_SHIP",
         UNCHANGED <<ship, manifests, refreshing, handing>>
  PROVE  ParcelInv'
PROOF
  <1>1. ParcelOK(st, ship[o], refreshing[o])
    BY ParcelOf DEF ParcelOK
  <1>2. MovesTo(o, st, ship[o], refreshing[o])
    BY DEF MovesTo, ParcelInv, ParcelTypes
  <1> QED
    BY <1>1, <1>2, ParcelMoves

-------------------------------------------------------------------------------
(* The sums of the returns of an order.                                     *)

LEMMA ReturnParts ==
  ASSUME NEW r \in Returns
  PROVE  /\ r.quantity \in Nat /\ r.received \in Nat /\ r.refund \in Nat
         /\ r.status \in {"REQUESTED", "APPROVED", "REJECTED", "RECEIVED", "INSPECTED", "CLOSED"}
         /\ r.before \in {"SHIPPED", "DELIVERED"}
  BY DEF Returns

LEMMA ReturnSums ==
  ASSUME NEW rs \in Seq(Returns)
  PROVE  /\ Len(rs) \in Nat /\ DOMAIN rs = 1..Len(rs) /\ IsFiniteSet(DOMAIN rs)
         /\ \A i \in DOMAIN rs : rs[i] \in Returns
         /\ \A S \in SUBSET DOMAIN rs : /\ Countable([i \in DOMAIN rs |-> rs[i].quantity], S)
                                        /\ Countable([i \in DOMAIN rs |-> rs[i].received], S)
                                        /\ Countable([i \in DOMAIN rs |-> rs[i].refund], S)
         /\ Came(rs) \in Nat /\ Announced(rs) \in Nat /\ PaidBack(rs) \in Nat
PROOF
  <1>1. /\ Len(rs) \in Nat /\ DOMAIN rs = 1..Len(rs)
        /\ \A i \in DOMAIN rs : rs[i] \in Returns
    OBVIOUS
  <1>2. IsFiniteSet(DOMAIN rs)
    BY <1>1, FS_Interval
  <1>3. ASSUME NEW S \in SUBSET DOMAIN rs
        PROVE  /\ Countable([i \in DOMAIN rs |-> rs[i].quantity], S)
               /\ Countable([i \in DOMAIN rs |-> rs[i].received], S)
               /\ Countable([i \in DOMAIN rs |-> rs[i].refund], S)
    <2>1. IsFiniteSet(S)
      BY <1>2, FS_Subset
    <2>2. \A i \in S : /\ rs[i].quantity \in Nat /\ rs[i].received \in Nat /\ rs[i].refund \in Nat
                       /\ i \in DOMAIN rs
      BY <1>1, ReturnParts
    <2> QED
      BY <2>1, <2>2 DEF Countable
  <1>4. Came(rs) \in Nat /\ PaidBack(rs) \in Nat
    BY <1>3, SumIsNat DEF Came, PaidBack
  <1>5. PICK S : S = {i \in DOMAIN rs : rs[i].status # "REJECTED"}
    OBVIOUS
  <1>6. S \in SUBSET DOMAIN rs
    BY <1>5
  <1>7. SumOver([i \in DOMAIN rs |-> rs[i].quantity], S) \in Nat
    BY <1>3, <1>6, SumIsNat
  <1>8. Announced(rs) \in Nat
    BY <1>5, <1>7 DEF Announced
  <1> QED
    BY <1>1, <1>2, <1>3, <1>4, <1>8

(* The sum over a set and one more.                                         *)
LEMMA SumAppended ==
  ASSUME NEW S, NEW e, e \notin S, NEW v, NEW w, NEW T, T = S \cup {e},
         Countable(v, S), \A i \in S : w[i] = v[i], w[e] \in Nat
  PROVE  SumOver(w, T) = SumOver(v, S) + w[e]
PROOF
  <1>2. Countable(w, S)
    BY DEF Countable
  <1>3. SumOver(w, S) = SumOver(v, S)
    BY SumSame
  <1> QED
    BY <1>2, <1>3, SumAdded

(* The returns rs of order o become s: a new return of what has not been    *)
(* announced yet ...                                                        *)
Extends(o, st, rs, r, s) ==
  /\ ReturnsOK(o, st, rs) /\ r \in Returns /\ ReturnRow(r) /\ ReturnLineRow(r)
  /\ r.received = 0 /\ r.refund = 0 /\ r.status # "REJECTED"
  /\ Announced(rs) + r.quantity <= Units[o]
  /\ s = Append(rs, r)

LEMMA AppendedReturn ==
  ASSUME NEW o \in Order, NEW st, NEW rs, NEW r, NEW s, Extends(o, st, rs, r, s)
  PROVE  Came(s) = Came(rs) /\ \A new : new # "READY_TO_SHIP" => ReturnsOK(o, new, s)
PROOF
  <1>0. /\ ReturnsOK(o, st, rs) /\ r \in Returns /\ ReturnRow(r) /\ ReturnLineRow(r)
        /\ r.received = 0 /\ r.refund = 0 /\ r.status # "REJECTED"
        /\ Announced(rs) + r.quantity <= Units[o]
        /\ s = Append(rs, r)
    BY DEF Extends
  <1>1. rs \in Seq(Returns) /\ \A i \in DOMAIN rs : ReturnRow(rs[i]) /\ ReturnLineRow(rs[i])
    BY <1>0 DEF ReturnsOK
  <1>2. PICK n \in Nat : n = Len(rs) /\ DOMAIN rs = 1..n
    BY <1>1, ReturnSums
  <1>3. /\ s \in Seq(Returns) /\ DOMAIN s = 1..(n + 1) /\ s[n + 1] = r
        /\ \A i \in 1..n : s[i] = rs[i]
    BY <1>0, <1>1, <1>2
  <1>4. \A i \in DOMAIN s : i \in 1..n \/ i = n + 1
    BY <1>3
  <1>5. \A i \in DOMAIN s : ReturnRow(s[i]) /\ ReturnLineRow(s[i])
    BY <1>0, <1>1, <1>2, <1>3, <1>4
  <1>6. Came(s) = Came(rs)
    <2>1. PICK v, w : v = [i \in DOMAIN rs |-> rs[i].received] /\ w = [i \in DOMAIN s |-> s[i].received]
      OBVIOUS
    <2>2. Countable(v, 1..n)
      BY <1>1, <1>2, <2>1, ReturnSums
    <2>3. (\A i \in 1..n : w[i] = v[i]) /\ w[n + 1] = 0 /\ w[n + 1] \in Nat /\ n + 1 \notin 1..n
      BY <1>0, <1>2, <1>3, <2>1
    <2>4. 1..(n + 1) = (1..n) \cup {n + 1}
      OBVIOUS
    <2>5. SumOver(w, 1..(n + 1)) = SumOver(v, 1..n) + w[n + 1]
      <3>1. PICK S, T, e : S = 1..n /\ T = 1..(n + 1) /\ e = n + 1
        OBVIOUS
      <3>2. /\ e \notin S /\ T = S \cup {e} /\ Countable(v, S) /\ w[e] \in Nat
            /\ \A i \in S : w[i] = v[i]
        BY <2>2, <2>3, <2>4, <3>1
      <3>3. SumOver(w, T) = SumOver(v, S) + w[e]
        BY ONLY <3>2, SumAppended
      <3> QED
        BY <3>1, <3>3
    <2>6. SumOver(v, 1..n) \in Nat
      BY <2>2, SumIsNat
    <2>7. SumOver(w, 1..(n + 1)) = SumOver(v, 1..n)
      BY <2>3, <2>5, <2>6
    <2> QED
      BY <1>2, <1>3, <2>1, <2>7 DEF Came
  <1>7. PaidBack(s) = PaidBack(rs)
    <2>1. PICK v, w : v = [i \in DOMAIN rs |-> rs[i].refund] /\ w = [i \in DOMAIN s |-> s[i].refund]
      OBVIOUS
    <2>2. Countable(v, 1..n)
      BY <1>1, <1>2, <2>1, ReturnSums
    <2>3. (\A i \in 1..n : w[i] = v[i]) /\ w[n + 1] = 0 /\ w[n + 1] \in Nat /\ n + 1 \notin 1..n
      BY <1>0, <1>2, <1>3, <2>1
    <2>4. 1..(n + 1) = (1..n) \cup {n + 1}
      OBVIOUS
    <2>5. SumOver(w, 1..(n + 1)) = SumOver(v, 1..n) + w[n + 1]
      <3>1. PICK S, T, e : S = 1..n /\ T = 1..(n + 1) /\ e = n + 1
        OBVIOUS
      <3>2. /\ e \notin S /\ T = S \cup {e} /\ Countable(v, S) /\ w[e] \in Nat
            /\ \A i \in S : w[i] = v[i]
        BY <2>2, <2>3, <2>4, <3>1
      <3>3. SumOver(w, T) = SumOver(v, S) + w[e]
        BY ONLY <3>2, SumAppended
      <3> QED
        BY <3>1, <3>3
    <2>6. SumOver(v, 1..n) \in Nat
      BY <2>2, SumIsNat
    <2>7. SumOver(w, 1..(n + 1)) = SumOver(v, 1..n)
      BY <2>3, <2>5, <2>6
    <2> QED
      BY <1>2, <1>3, <2>1, <2>7 DEF PaidBack
  <1>8. Announced(s) = Announced(rs) + r.quantity
    <2>1. PICK v, w : v = [i \in DOMAIN rs |-> rs[i].quantity] /\ w = [i \in DOMAIN s |-> s[i].quantity]
      OBVIOUS
    <2>2. PICK S, T : /\ S = {i \in DOMAIN rs : rs[i].status # "REJECTED"}
                      /\ T = {i \in DOMAIN s : s[i].status # "REJECTED"}
      OBVIOUS
    <2>3. S \in SUBSET (1..n) /\ T = S \cup {n + 1} /\ n + 1 \notin S
      BY <1>0, <1>2, <1>3, <1>4, <2>2
    <2>4. Countable(v, S)
      BY <1>1, <1>2, <2>1, <2>3, ReturnSums
    <2>5. (\A i \in S : w[i] = v[i]) /\ w[n + 1] = r.quantity /\ r.quantity \in Nat /\ w[n + 1] \in Nat
      BY <1>0, <1>2, <1>3, <2>1, <2>3, ReturnParts
    <2>6. SumOver(w, T) = SumOver(v, S) + w[n + 1]
      <3>1. PICK e : e = n + 1
        OBVIOUS
      <3>2. /\ e \notin S /\ T = S \cup {e} /\ Countable(v, S) /\ w[e] \in Nat
            /\ \A i \in S : w[i] = v[i]
        BY <2>3, <2>4, <2>5, <3>1
      <3>3. SumOver(w, T) = SumOver(v, S) + w[e]
        BY ONLY <3>2, SumAppended
      <3> QED
        BY <3>1, <3>3
    <2>7. Announced(s) = SumOver(w, T) /\ Announced(rs) = SumOver(v, S)
      BY <2>1, <2>2 DEF Announced
    <2> QED
      BY <2>5, <2>6, <2>7
  <1> QED
    BY <1>0, <1>3, <1>5, <1>6, <1>7, <1>8 DEF ReturnsOK

(* ... or one that changes: what was announced stays, what came is counted. *)
Alters(o, st, rs, i, r, s) ==
  /\ ReturnsOK(o, st, rs) /\ i \in DOMAIN rs /\ r \in Returns /\ ReturnRow(r) /\ ReturnLineRow(r)
  /\ r.quantity = rs[i].quantity /\ rs[i].status # "REJECTED"
  /\ PaidBack(rs) - rs[i].refund + r.refund <= Total[o]
  /\ s = [rs EXCEPT ![i] = r]

LEMMA ChangedReturn ==
  ASSUME NEW o \in Order, NEW st, NEW rs, NEW i, NEW r, NEW s, Alters(o, st, rs, i, r, s)
  PROVE  /\ Came(s) = Came(rs) - rs[i].received + r.received
         /\ \A new : new # "READY_TO_SHIP" => ReturnsOK(o, new, s)
PROOF
  <1>0. /\ ReturnsOK(o, st, rs) /\ i \in DOMAIN rs /\ r \in Returns /\ ReturnRow(r) /\ ReturnLineRow(r)
        /\ r.quantity = rs[i].quantity /\ rs[i].status # "REJECTED"
        /\ PaidBack(rs) - rs[i].refund + r.refund <= Total[o]
        /\ s = [rs EXCEPT ![i] = r]
    BY DEF Alters
  <1>1. rs \in Seq(Returns) /\ \A k \in DOMAIN rs : ReturnRow(rs[k]) /\ ReturnLineRow(rs[k])
    BY <1>0 DEF ReturnsOK
  <1>2. PICK D : D = DOMAIN rs
    OBVIOUS
  <1>3. /\ s \in Seq(Returns) /\ DOMAIN s = D /\ s[i] = r /\ i \in D
        /\ \A k \in D \ {i} : s[k] = rs[k]
    BY <1>0, <1>1, <1>2
  <1>4. \A k \in DOMAIN s : ReturnRow(s[k]) /\ ReturnLineRow(s[k])
    BY <1>0, <1>1, <1>2, <1>3
  <1>5. Came(s) = Came(rs) - rs[i].received + r.received
    <2>1. PICK v, w : v = [k \in DOMAIN rs |-> rs[k].received] /\ w = [k \in DOMAIN s |-> s[k].received]
      OBVIOUS
    <2>2. Countable(v, D) /\ Countable(w, D)
      BY <1>1, <1>2, <1>3, <2>1, ReturnSums
    <2>3. v[i] = rs[i].received /\ w[i] = r.received /\ \A k \in D \ {i} : v[k] = w[k]
      BY <1>0, <1>2, <1>3, <2>1
    <2>4. SumOver(w, D) = SumOver(v, D) - v[i] + w[i]
      <3>1. i \in D /\ \A k \in D \ {i} : v[k] = w[k]
        BY <1>3, <2>3
      <3> QED
        BY ONLY <2>2, <3>1, SumChanged
    <2> QED
      BY <1>2, <1>3, <2>1, <2>3, <2>4 DEF Came
  <1>6. PaidBack(s) = PaidBack(rs) - rs[i].refund + r.refund
    <2>1. PICK v, w : v = [k \in DOMAIN rs |-> rs[k].refund] /\ w = [k \in DOMAIN s |-> s[k].refund]
      OBVIOUS
    <2>2. Countable(v, D) /\ Countable(w, D)
      BY <1>1, <1>2, <1>3, <2>1, ReturnSums
    <2>3. v[i] = rs[i].refund /\ w[i] = r.refund /\ \A k \in D \ {i} : v[k] = w[k]
      BY <1>0, <1>2, <1>3, <2>1
    <2>4. SumOver(w, D) = SumOver(v, D) - v[i] + w[i]
      <3>1. i \in D /\ \A k \in D \ {i} : v[k] = w[k]
        BY <1>3, <2>3
      <3> QED
        BY ONLY <2>2, <3>1, SumChanged
    <2> QED
      BY <1>2, <1>3, <2>1, <2>3, <2>4 DEF PaidBack
  <1>7. Announced(s) <= Announced(rs)
    <2>1. PICK v, w : v = [k \in DOMAIN rs |-> rs[k].quantity] /\ w = [k \in DOMAIN s |-> s[k].quantity]
      OBVIOUS
    <2>2. PICK S, T : /\ S = {k \in DOMAIN rs : rs[k].status # "REJECTED"}
                      /\ T = {k \in DOMAIN s : s[k].status # "REJECTED"}
      OBVIOUS
    <2>3. S \in SUBSET D /\ T \in SUBSET S
      BY <1>0, <1>2, <1>3, <2>2
    <2>4. Countable(v, S)
      BY <1>1, <1>2, <2>1, <2>3, ReturnSums
    <2>5. \A k \in T : w[k] = v[k]
      BY <1>0, <1>2, <1>3, <2>1, <2>3
    <2>6. SumOver(w, T) = SumOver(v, T) /\ SumOver(v, T) <= SumOver(v, S)
      BY <2>3, <2>4, <2>5, SumSame, SumOfPart
    <2>7. Announced(s) = SumOver(w, T) /\ Announced(rs) = SumOver(v, S)
      BY <2>1, <2>2 DEF Announced
    <2> QED
      BY <2>6, <2>7
  <1>8. Announced(s) \in Nat /\ Announced(rs) \in Nat /\ Announced(rs) <= Units[o] /\ Units[o] \in Nat
    BY <1>0, <1>1, <1>3, ReturnSums, Constants DEF ReturnsOK
  <1>9. Announced(s) <= Units[o]
    BY <1>7, <1>8
  <1>10. PaidBack(s) <= Total[o]
    BY <1>0, <1>6
  <1> QED
    BY <1>3, <1>4, <1>5, <1>9, <1>10 DEF ReturnsOK

(* No more came of the returns of an order than was announced.              *)
LEMMA CameIsAnnounced ==
  ASSUME NEW o \in Order, NEW st, NEW rs, ReturnsOK(o, st, rs)
  PROVE  Came(rs) \in Nat /\ Came(rs) <= Units[o]
PROOF
  <1>1. rs \in Seq(Returns) /\ \A i \in DOMAIN rs : ReturnLineRow(rs[i])
    BY DEF ReturnsOK
  <1>2. PICK D, S : D = DOMAIN rs /\ S = {i \in DOMAIN rs : rs[i].status # "REJECTED"}
    OBVIOUS
  <1>3. PICK v, w : v = [i \in DOMAIN rs |-> rs[i].received] /\ w = [i \in DOMAIN rs |-> rs[i].quantity]
    OBVIOUS
  <1>4. S \in SUBSET D /\ (D \ S) \in SUBSET D /\ S \cap (D \ S) = {} /\ S \cup (D \ S) = D
    BY <1>2
  <1>5. Countable(v, S) /\ Countable(v, D \ S) /\ Countable(w, S)
    BY <1>1, <1>2, <1>3, <1>4, ReturnSums
  <1>6. SumOver(v, D) = SumOver(v, S) + SumOver(v, D \ S)
    BY <1>4, <1>5, SumUnion
  <1>7. \A i \in D : /\ v[i] = rs[i].received /\ w[i] = rs[i].quantity /\ v[i] \in Nat
                     /\ rs[i].received <= rs[i].quantity
                     /\ rs[i].received > 0 => rs[i].status \in {"RECEIVED", "INSPECTED", "CLOSED"}
    BY <1>1, <1>2, <1>3, ReturnSums, ReturnParts DEF ReturnLineRow
  <1>8. \A i \in D \ S : v[i] = 0
    BY <1>2, <1>7
  <1>9. SumOver(v, D \ S) = 0
    BY <1>8, SumOfZeros
  <1>10. \A i \in S : v[i] \in Nat /\ v[i] <= w[i]
    BY <1>4, <1>7
  <1>11. SumOver(v, S) <= SumOver(w, S) /\ SumOver(v, S) \in Nat
    BY <1>5, <1>10, SumGrows, SumIsNat
  <1>12. Came(rs) = SumOver(v, D) /\ Announced(rs) = SumOver(w, S)
    BY <1>2, <1>3 DEF Came, Announced
  <1>13. Announced(rs) \in Nat /\ Announced(rs) <= Units[o] /\ Units[o] \in Nat
    BY <1>1, ReturnSums, Constants DEF ReturnsOK
  <1> QED
    BY <1>6, <1>9, <1>11, <1>12, <1>13

-------------------------------------------------------------------------------
(* Steps of the goods.                                                      *)

LEMMA HeldIsNat == \A b \in Balances : Held(b) \in Nat
  BY DEF Balances, Held

LEMMA GoodsParts ==
  ASSUME GoodsInv, NEW o \in Order
  PROVE  /\ returns[o] \in Seq(Returns) /\ ReturnsOK(o, status[o], returns[o])
         /\ Came(returns[o]) \in Nat /\ Announced(returns[o]) \in Nat /\ PaidBack(returns[o]) \in Nat
         /\ \A i \in DOMAIN returns[o] : /\ returns[o][i] \in Returns /\ ReturnRow(returns[o][i])
                                         /\ ReturnLineRow(returns[o][i]) /\ status[o] # "READY_TO_SHIP"
PROOF
  <1>1. returns[o] \in Seq(Returns) /\ ReturnsOK(o, status[o], returns[o])
    BY DEF GoodsInv
  <1>2. status[o] = "READY_TO_SHIP" => DOMAIN returns[o] = {}
    BY <1>1 DEF ReturnsOK
  <1> QED
    BY <1>1, <1>2, ReturnSums DEF ReturnsOK

(* The returns of one order change.                                         *)
LEMMA ReturnsMove ==
  ASSUME GoodsInv, NEW o \in Order, NEW rs, returns' = [returns EXCEPT ![o] = rs],
         \A p \in Order \ {o} : status'[p] = status[p],
         status'[o] = "READY_TO_SHIP" <=> status[o] = "READY_TO_SHIP",
         ReturnsOK(o, status'[o], rs),
         bal' \in Balances, bal'.reserved = bal.reserved,
         Held(bal') = Held(bal) - Came(returns[o]) + Came(rs)
  PROVE  GoodsInv'
PROOF
  <1>1. rs \in Seq(Returns) /\ returns \in [Order -> Seq(Returns)]
    BY DEF ReturnsOK, GoodsInv
  <1>2. /\ returns' \in [Order -> Seq(Returns)] /\ returns'[o] = rs
        /\ \A p \in Order \ {o} : returns'[p] = returns[p]
    BY <1>1
  <1>3. ASSUME NEW p \in Order PROVE ReturnsOK(p, status'[p], returns'[p])
    <2>1. CASE p = o
      BY <1>2, <2>1
    <2>2. CASE p # o
      BY <1>2, <2>2, GoodsParts
    <2> QED
      BY <2>1, <2>2
  <1>4. Waits' = Waits
    BY DEF Waits
  <1>5. PICK v, w : v = [p \in Order |-> Came(returns[p])] /\ w = [p \in Order |-> Came(returns'[p])]
    OBVIOUS
  <1>6. Countable(v, Order) /\ Countable(w, Order)
    <2>1. ASSUME NEW p \in Order PROVE v[p] \in Nat /\ w[p] \in Nat
      <3>1. returns[p] \in Seq(Returns) /\ returns'[p] \in Seq(Returns)
        BY <1>1, <1>2
      <3> QED
        BY <1>5, <3>1, ReturnSums
    <2> QED
      BY <2>1, Constants DEF Countable
  <1>7. SumOver(w, Order) = SumOver(v, Order) - Came(returns[o]) + Came(rs)
    <2>1. v[o] = Came(returns[o]) /\ w[o] = Came(rs) /\ \A p \in Order \ {o} : v[p] = w[p]
      BY <1>2, <1>5
    <2>2. SumOver(w, Order) = SumOver(v, Order) - v[o] + w[o]
      BY ONLY <1>6, <2>1, o \in Order, SumChanged
    <2> QED
      BY <2>1, <2>2
  <1>8. SumOver(v, Order) \in Nat /\ SumOver(Units, Waits) \in Nat
    <2>1. Countable(Units, Waits)
      BY Constants, FS_Subset DEF Countable, Waits
    <2> QED
      BY <1>6, <2>1, SumIsNat
  <1>9. /\ bal \in Balances /\ bal.reserved = SumOver(Units, Waits)
        /\ Held(bal) = SumOver(Units, Waits) + SumOver(v, Order)
    BY <1>5 DEF GoodsInv, StockInv
  <1>10. Came(returns[o]) \in Nat /\ Came(rs) \in Nat
    BY <1>1, GoodsParts, ReturnSums
  <1>11. Held(bal') = SumOver(Units, Waits) + SumOver(w, Order)
    <2>1. PICK a, b, c, d : /\ a = SumOver(Units, Waits) /\ b = SumOver(v, Order)
                            /\ c = Came(returns[o]) /\ d = Came(rs)
      OBVIOUS
    <2>2. a \in Nat /\ b \in Nat /\ c \in Nat /\ d \in Nat
      BY <1>8, <1>10, <2>1
    <2>3. PICK t : t = Held(bal)
      OBVIOUS
    <2>4. Held(bal') = t - c + d
      BY <2>1, <2>3
    <2>5. SumOver(w, Order) = b - c + d /\ t = a + b
      BY <1>7, <1>9, <2>1, <2>3
    <2>6. t - c + d = a + (b - c + d)
      BY <2>2, <2>5
    <2> QED
      BY <2>1, <2>4, <2>5, <2>6
  <1>12. StockInv'
    BY <1>4, <1>5, <1>9, <1>11 DEF StockInv
  <1> QED
    BY <1>2, <1>3, <1>12 DEF GoodsInv

(* Neither returns nor the balance change, and nothing leaves.              *)
LEMMA GoodsStay ==
  ASSUME GoodsInv, UNCHANGED <<returns, bal>>,
         \A p \in Order : status'[p] = "READY_TO_SHIP" <=> status[p] = "READY_TO_SHIP"
  PROVE  GoodsInv'
PROOF
  <1>1. Waits' = Waits
    BY DEF Waits
  <1>2. StockInv'
    BY <1>1 DEF GoodsInv, StockInv
  <1>3. \A p \in Order : ReturnsOK(p, status'[p], returns'[p])
    BY DEF GoodsInv, ReturnsOK
  <1> QED
    BY <1>2, <1>3 DEF GoodsInv

LEMMA LeaveGoods ==
  ASSUME GoodsInv, NEW os \in SUBSET Order, Leave(os), returns' = returns
  PROVE  GoodsInv'
PROOF
  <1>1. PICK q : q = SumOver(Units, os)
    OBVIOUS
  <1>2. /\ \A o \in os : status[o] = "READY_TO_SHIP"
        /\ CanApply(bal, Shipping(q)) /\ bal' = Plus(bal, Shipping(q))
        /\ status' = [o \in Order |-> IF o \in os THEN "SHIPPED" ELSE status[o]]
    BY <1>1 DEF Leave, CanLeave
  <1>3. os \in SUBSET Waits /\ Waits' = Waits \ os
    BY <1>2 DEF Waits
  <1>4. Countable(Units, os) /\ Countable(Units, Waits \ os)
    BY Constants, FS_Subset DEF Countable, Waits
  <1>5. SumOver(Units, Waits) = SumOver(Units, os) + SumOver(Units, Waits \ os)
    <2>1. os \cap (Waits \ os) = {} /\ os \cup (Waits \ os) = Waits
      BY <1>3
    <2> QED
      BY <1>4, <2>1, SumUnion
  <1>6. PICK a : a = SumOver(Units, Waits \ os)
    OBVIOUS
  <1>7. a \in Nat /\ q \in Nat /\ SumOver(Units, Waits) = q + a
    BY <1>1, <1>4, <1>5, <1>6, SumIsNat
  <1>8. /\ bal'.on_hand = bal.on_hand - q /\ bal'.reserved = bal.reserved - q
        /\ bal'.damaged = bal.damaged /\ bal'.returned = bal.returned
        /\ bal' \in Balances
    <2>1. bal \in Balances
      BY DEF GoodsInv, StockInv
    <2>2. bal' = [on_hand |-> bal.on_hand - q, reserved |-> bal.reserved - q,
                  damaged |-> bal.damaged, returned |-> bal.returned]
      <3>1. bal.on_hand \in Nat /\ bal.reserved \in Nat /\ bal.damaged \in Nat /\ bal.returned \in Nat
        BY <2>1 DEF Balances
      <3>2. bal' = [on_hand |-> bal.on_hand + (-q), reserved |-> bal.reserved + (-q),
                    damaged |-> bal.damaged + 0, returned |-> bal.returned + 0]
        BY <1>2 DEF Plus, Shipping
      <3>3. /\ bal.on_hand + (-q) = bal.on_hand - q /\ bal.reserved + (-q) = bal.reserved - q
            /\ bal.damaged + 0 = bal.damaged /\ bal.returned + 0 = bal.returned
        BY <1>7, <3>1
      <3> QED
        BY <3>2, <3>3
    <2>3. bal.on_hand - q >= 0 /\ bal.reserved - q >= 0
      BY <1>2, <2>2 DEF CanApply, Sound
    <2> QED
      BY <1>7, <2>1, <2>2, <2>3 DEF Balances
  <1>9. StockInv'
    <2>1. PICK b : b = SumOver([o \in Order |-> Came(returns[o])], Order)
      OBVIOUS
    <2>2. /\ bal \in Balances /\ bal.reserved = q + a
          /\ Held(bal) = q + a + b
      BY <1>7, <2>1 DEF GoodsInv, StockInv
    <2>3. b \in Nat
      <3>1. PICK v : v = [o \in Order |-> Came(returns[o])]
        OBVIOUS
      <3>2. Countable(v, Order)
        BY <3>1, GoodsParts, Constants DEF Countable
      <3> QED
        BY <2>1, <3>1, <3>2, SumIsNat
    <2>4. bal'.reserved = a
      BY <1>7, <1>8, <2>2
    <2>5. Held(bal') = a + b
      BY <1>7, <1>8, <2>2, <2>3 DEF Balances, Held
    <2> QED
      BY <1>3, <1>6, <1>8, <2>1, <2>4, <2>5 DEF StockInv
  <1>10. ASSUME NEW p \in Order PROVE ReturnsOK(p, status'[p], returns'[p])
    <2>1. status'[p] = "READY_TO_SHIP" => status[p] = "READY_TO_SHIP"
      BY <1>2
    <2> QED
      BY <2>1 DEF GoodsInv, ReturnsOK
  <1> QED
    BY <1>9, <1>10 DEF GoodsInv

(* Of the order of a return only the status changes, if anything does.      *)
NewStatus(o, st) ==
  /\ st # "READY_TO_SHIP" /\ status[o] # "READY_TO_SHIP" /\ status'[o] = st
  /\ \A p \in Order \ {o} : status'[p] = status[p]

(* A return is made by a courier or a user.                                 *)
LEMMA MadeReturn ==
  ASSUME GoodsInv, NEW o \in Order, NEW st, NewStatus(o, st), UNCHANGED bal,
         NEW kind \in {"REQUESTED", "APPROVED"}, NEW seen, Returnable(seen),
         NEW q \in Nat, q > 0, q <= Units[o] - ReturnedBefore(o),
         returns' = [returns EXCEPT ![o] = Append(@, NewReturn(kind, seen, q))]
  PROVE  GoodsInv'
PROOF
  <1>1. PICK r : r = [status |-> kind, before |-> seen, quantity |-> q, received |-> 0, refund |-> 0]
    OBVIOUS
  <1>2. PICK s : s = Append(returns[o], r)
    OBVIOUS
  <1>3. returns' = [returns EXCEPT ![o] = s]
    BY <1>1, <1>2 DEF NewReturn
  <1>4. r \in Returns /\ r.received = 0 /\ r.refund = 0 /\ r.status # "REJECTED" /\ r.quantity = q
    BY <1>1 DEF Returns, Returnable
  <1>5. ReturnRow(r) /\ ReturnLineRow(r)
    BY <1>4 DEF ReturnRow, ReturnLineRow
  <1>6. Announced(returns[o]) = ReturnedBefore(o)
    BY DEF Announced, ReturnedBefore, Quantity
  <1>7. Announced(returns[o]) + r.quantity <= Units[o]
    BY <1>4, <1>6, GoodsParts, Constants
  <1>8. ReturnsOK(o, st, s) /\ Came(s) = Came(returns[o])
    <2>1. PICK rs, old : rs = returns[o] /\ old = status[o]
      OBVIOUS
    <2>2. Extends(o, old, rs, r, s)
      BY <1>2, <1>4, <1>5, <1>7, <2>1, GoodsParts DEF Extends
    <2>3. Came(s) = Came(rs) /\ \A new : new # "READY_TO_SHIP" => ReturnsOK(o, new, s)
      BY <2>2, AppendedReturn
    <2> QED
      BY <2>1, <2>3 DEF NewStatus
  <1>9. bal \in Balances /\ Came(returns[o]) \in Nat
    BY GoodsParts DEF GoodsInv, StockInv
  <1>10. Held(bal) = Held(bal) - Came(returns[o]) + Came(s)
    <2>1. PICK u, c : u = Held(bal) /\ c = Came(returns[o]) /\ c = Came(s)
      BY <1>8
    <2>2. u \in Nat /\ c \in Nat
      BY <1>9, <2>1, HeldIsNat
    <2>3. u = u - c + c
      BY <2>2
    <2> QED
      BY <2>1, <2>3
  <1> QED
    BY <1>3, <1>8, <1>9, <1>10, ReturnsMove DEF NewStatus

(* A return goes on: t units of it come in.                                 *)
LEMMA ChangedGoods ==
  ASSUME GoodsInv, NEW o \in Order, NEW st, NewStatus(o, st), NEW i \in DOMAIN returns[o], NEW r \in Returns,
         ReturnRow(r), ReturnLineRow(r), r.quantity = returns[o][i].quantity,
         returns[o][i].status # "REJECTED",
         PaidBack(returns[o]) - returns[o][i].refund + r.refund <= Total[o],
         returns' = [returns EXCEPT ![o] = [returns[o] EXCEPT ![i] = r]],
         bal' \in Balances, bal'.reserved = bal.reserved, NEW t \in Nat, r.received = returns[o][i].received + t,
         Held(bal') = Held(bal) + t
  PROVE  GoodsInv'
PROOF
  <1>1. PICK s : s = [returns[o] EXCEPT ![i] = r]
    OBVIOUS
  <1>2. returns' = [returns EXCEPT ![o] = s]
    BY <1>1
  <1>3. ReturnsOK(o, st, s) /\ Came(s) = Came(returns[o]) - returns[o][i].received + r.received
    <2>1. PICK rs, old : rs = returns[o] /\ old = status[o]
      OBVIOUS
    <2>2. Alters(o, old, rs, i, r, s)
      BY <1>1, <2>1, GoodsParts DEF Alters
    <2>3. /\ Came(s) = Came(rs) - rs[i].received + r.received
          /\ \A new : new # "READY_TO_SHIP" => ReturnsOK(o, new, s)
      BY <2>2, ChangedReturn
    <2> QED
      BY <2>1, <2>3 DEF NewStatus
  <1>4. /\ Came(returns[o]) \in Nat /\ returns[o][i].received \in Nat
        /\ bal \in Balances
    BY GoodsParts, ReturnParts DEF GoodsInv, StockInv
  <1>5. Came(s) = Came(returns[o]) + t
    BY <1>3, <1>4
  <1>6. Held(bal') = Held(bal) - Came(returns[o]) + Came(s)
    <2>1. PICK u, c, d : u = Held(bal) /\ c = Came(returns[o]) /\ d = Came(s)
      OBVIOUS
    <2>2. u \in Nat /\ c \in Nat /\ d = c + t
      BY <1>4, <1>5, <2>1, HeldIsNat
    <2>3. u + t = u - c + d
      BY <2>2
    <2>4. Held(bal') = u + t
      BY <2>1
    <2> QED
      BY <2>1, <2>3, <2>4
  <1> QED
    BY <1>2, <1>3, <1>6, ReturnsMove DEF NewStatus

(* ... or none.                                                             *)
LEMMA ChangedOnly ==
  ASSUME GoodsInv, NEW o \in Order, NEW st, NewStatus(o, st), NEW i \in DOMAIN returns[o], NEW r \in Returns,
         ReturnRow(r), ReturnLineRow(r), r.quantity = returns[o][i].quantity,
         returns[o][i].status # "REJECTED", r.received = returns[o][i].received,
         PaidBack(returns[o]) - returns[o][i].refund + r.refund <= Total[o],
         returns' = [returns EXCEPT ![o] = [returns[o] EXCEPT ![i] = r]],
         bal' \in Balances, bal'.reserved = bal.reserved,
         Held(bal') = Held(bal)
  PROVE  GoodsInv'
PROOF
  <1>1. bal \in Balances /\ returns[o][i].received \in Nat
    BY GoodsParts, ReturnParts DEF GoodsInv, StockInv
  <1>2. /\ r.received = returns[o][i].received + 0
        /\ Held(bal') = Held(bal) + 0
    BY <1>1, HeldIsNat
  <1> QED
    BY <1>2, ChangedGoods, 0 \in Nat

(* The status of a return changes, and what was received and paid back      *)
(* stays.                                                                   *)
LEMMA RestatedReturn ==
  ASSUME GoodsInv, NEW o \in Order, NEW st, NewStatus(o, st), NEW i \in DOMAIN returns[o],
         NEW old, old = returns[o][i].status, NEW new, UNCHANGED bal,
         returns' = [returns EXCEPT ![o][i].status = new],
         \/ old = "REQUESTED" /\ new \in {"APPROVED", "REJECTED"}
         \/ old = "INSPECTED" /\ new = "CLOSED"
  PROVE  GoodsInv'
PROOF
  <1>1. PICK x : x = returns[o][i]
    OBVIOUS
  <1>2. PICK r : r = [x EXCEPT !.status = new]
    OBVIOUS
  <1>3. returns' = [returns EXCEPT ![o] = [returns[o] EXCEPT ![i] = r]]
    BY <1>1, <1>2
  <1>4. x \in Returns /\ ReturnRow(x) /\ ReturnLineRow(x)
    BY <1>1, GoodsParts
  <1>5. /\ r \in Returns /\ r.status = new /\ r.quantity = x.quantity
        /\ r.received = x.received /\ r.refund = x.refund
    BY <1>2, <1>4 DEF Returns
  <1>6. ReturnRow(r) /\ ReturnLineRow(r) /\ x.status # "REJECTED" /\ x.refund = 0
    BY <1>1, <1>4, <1>5, ReturnParts DEF ReturnRow, ReturnLineRow
  <1>7. PaidBack(returns[o]) - x.refund + r.refund <= Total[o]
    <2>1. PaidBack(returns[o]) \in Nat /\ PaidBack(returns[o]) <= Total[o]
      BY GoodsParts DEF ReturnsOK
    <2> QED
      BY <1>5, <1>6, <2>1
  <1>8. bal \in Balances
    BY DEF GoodsInv, StockInv
  <1> QED
    BY <1>1, <1>3, <1>5, <1>6, <1>7, <1>8, ChangedOnly

LEMMA AnnouncedIs ==
  ASSUME GoodsInv, NEW o \in Order
  PROVE  ReturnedBefore(o) = Announced(returns[o]) /\ ReturnedBefore(o) \in Nat
PROOF
  <1>1. ReturnedBefore(o) = Announced(returns[o])
    BY DEF Announced, ReturnedBefore, Quantity
  <1> QED
    BY <1>1, GoodsParts

(* An order follows its shipment.                                           *)
LEMMA FollowGoods ==
  ASSUME ParcelInv, GoodsInv, NEW o \in Order, NEW st, NEW seen, Follow(o, st, seen), UNCHANGED bal,
         status'[o] = "READY_TO_SHIP" <=> status[o] = "READY_TO_SHIP",
         st = "RETURNED_TO_SENDER" => status[o] # "READY_TO_SHIP"
  PROVE  GoodsInv'
PROOF
  <1>1. \A p \in Order \ {o} : status'[p] = status[p]
    BY FollowStatus
  <1>2. PICK back : back = (st = "RETURNED_TO_SENDER" /\ ReturnsToSender(o, seen) /\ ~NothingLeft(o))
    OBVIOUS
  <1>3. CASE ~back
    <2>1. UNCHANGED <<returns, bal>>
      BY <1>2, <1>3 DEF Follow
    <2> QED
      BY <1>1, <2>1, GoodsStay
  <1>4. CASE back
    <2>1. PICK q : q = Units[o] - ReturnedBefore(o)
      OBVIOUS
    <2>2. /\ returns' = [returns EXCEPT ![o] = Append(@, NewReturn("APPROVED", seen, q))]
          /\ Returnable(seen) /\ status[o] # "READY_TO_SHIP"
          /\ ~(ReturnedBefore(o) >= Units[o])
      BY <1>2, <1>4, <2>1 DEF Follow, ReturnsToSender, NothingLeft
    <2>3. q \in Nat /\ q > 0 /\ q <= Units[o] - ReturnedBefore(o)
      BY <2>1, <2>2, AnnouncedIs, Constants
    <2>4. NewStatus(o, status'[o])
      BY <1>1, <2>2 DEF NewStatus
    <2> QED
      BY <2>2, <2>3, <2>4, MadeReturn
  <1> QED
    BY <1>3, <1>4

(* A step of a return leaves the parcels alone.                             *)
LEMMA ParcelsStay ==
  ASSUME ParcelInv, UNCHANGED <<ship, manifests, refreshing, handing>>, NEW o \in Order,
         \/ status' = status
         \/ /\ status[o] # "READY_TO_SHIP"
            /\ \E st \in OrderStatuses : st # "READY_TO_SHIP" /\ status' = [status EXCEPT ![o] = st]
  PROVE  ParcelInv'
PROOF
  <1>1. CASE status' = status
    BY <1>1, ParcelOf, ManifestOnly DEF ParcelInv, ParcelTypes, ManifestOK
  <1>2. CASE /\ status[o] # "READY_TO_SHIP"
             /\ \E st \in OrderStatuses : st # "READY_TO_SHIP" /\ status' = [status EXCEPT ![o] = st]
    BY <1>2, StatusStep
  <1> QED
    BY <1>1, <1>2

LEMMA RequestReturnStep ==
  ASSUME DeliveryInv, NEW o \in Order, NEW q \in 1..Units[o], RequestReturn(o, q)
  PROVE  DeliveryInv'
PROOF
  <1>1. /\ Returnable(status[o]) /\ q \in 1..(Units[o] - ReturnedBefore(o))
        /\ returns' = [returns EXCEPT ![o] = Append(@, NewReturn("REQUESTED", status[o], q))]
        /\ status' = [status EXCEPT ![o] = "RETURN_REQUESTED"]
        /\ UNCHANGED <<ship, manifests, bal, refreshing, handing>>
    BY DEF RequestReturn
  <1>2. ParcelInv /\ GoodsInv /\ status \in [Order -> OrderStatuses]
    BY DEF DeliveryInv, ParcelInv, ParcelTypes
  <1>3. status[o] # "READY_TO_SHIP"
    BY <1>1 DEF Returnable
  <1>4. NewStatus(o, "RETURN_REQUESTED")
    BY <1>1, <1>2, <1>3 DEF NewStatus
  <1>5. q \in Nat /\ q > 0 /\ q <= Units[o] - ReturnedBefore(o)
    BY <1>1, <1>2, AnnouncedIs, Constants
  <1>6. GoodsInv'
    BY <1>1, <1>2, <1>4, <1>5, MadeReturn
  <1>7. ParcelInv'
    BY <1>1, <1>2, <1>3, ParcelsStay DEF OrderStatuses
  <1> QED
    BY <1>6, <1>7 DEF DeliveryInv

(* What the steps of return i of order o start from.                        *)
LEMMA ReturnOf ==
  ASSUME DeliveryInv, NEW o \in Order, NEW i \in DOMAIN returns[o]
  PROVE  /\ ParcelInv /\ GoodsInv /\ status \in [Order -> OrderStatuses] /\ status[o] # "READY_TO_SHIP"
         /\ returns[o][i] \in Returns /\ ReturnRow(returns[o][i]) /\ ReturnLineRow(returns[o][i])
         /\ bal \in Balances
  BY GoodsParts DEF DeliveryInv, ParcelInv, ParcelTypes, GoodsInv, StockInv

LEMMA RestateStep ==
  ASSUME DeliveryInv, NEW o \in Order, NEW i \in DOMAIN returns[o],
         Approve(o, i) \/ Reject(o, i) \/ Close(o, i)
  PROVE  DeliveryInv'
PROOF
  <1>1. PICK old : old = returns[o][i].status
    OBVIOUS
  <1>2. /\ ParcelInv /\ GoodsInv /\ status \in [Order -> OrderStatuses] /\ status[o] # "READY_TO_SHIP"
        /\ returns[o][i] \in Returns
    BY ReturnOf
  <1>3. returns[o][i].before \in {"SHIPPED", "DELIVERED"}
    BY <1>2, ReturnParts
  <1>4. CASE Approve(o, i)
    <2>1. /\ old = "REQUESTED" /\ returns' = [returns EXCEPT ![o][i].status = "APPROVED"]
          /\ UNCHANGED <<status, ship, manifests, bal, refreshing, handing>>
      BY <1>1, <1>4 DEF Approve
    <2>2. NewStatus(o, status[o])
      BY <1>2, <2>1 DEF NewStatus
    <2>3. GoodsInv'
      BY <1>1, <1>2, <2>1, <2>2, RestatedReturn
    <2>4. ParcelInv'
      BY <1>2, <2>1, ParcelsStay
    <2> QED
      BY <2>3, <2>4 DEF DeliveryInv
  <1>5. CASE Reject(o, i)
    <2>1. PICK st : st = returns[o][i].before
      OBVIOUS
    <2>2. /\ old = "REQUESTED" /\ returns' = [returns EXCEPT ![o][i].status = "REJECTED"]
          /\ status' = [status EXCEPT ![o] = st]
          /\ UNCHANGED <<ship, manifests, bal, refreshing, handing>>
      BY <1>1, <1>5, <2>1 DEF Reject
    <2>3. st \in OrderStatuses /\ st # "READY_TO_SHIP"
      BY <1>3, <2>1 DEF OrderStatuses
    <2>4. NewStatus(o, st)
      BY <1>2, <2>2, <2>3 DEF NewStatus
    <2>5. GoodsInv'
      BY <1>1, <1>2, <2>2, <2>4, RestatedReturn
    <2>6. ParcelInv'
      BY <1>2, <2>2, <2>3, ParcelsStay
    <2> QED
      BY <2>5, <2>6 DEF DeliveryInv
  <1>6. CASE Close(o, i)
    <2>1. /\ old = "INSPECTED" /\ returns' = [returns EXCEPT ![o][i].status = "CLOSED"]
          /\ UNCHANGED <<status, ship, manifests, bal, refreshing, handing>>
      BY <1>1, <1>6 DEF Close
    <2>2. NewStatus(o, status[o])
      BY <1>2, <2>1 DEF NewStatus
    <2>3. GoodsInv'
      BY <1>1, <1>2, <2>1, <2>2, RestatedReturn
    <2>4. ParcelInv'
      BY <1>2, <2>1, ParcelsStay
    <2> QED
      BY <2>3, <2>4 DEF DeliveryInv
  <1> QED
    BY <1>4, <1>5, <1>6

LEMMA ReceiveStep ==
  ASSUME DeliveryInv, NEW o \in Order, NEW i \in DOMAIN returns[o], NEW q \in 1..Units[o], Receive(o, i, q)
  PROVE  DeliveryInv'
PROOF
  <1>1. PICK x : x = returns[o][i]
    OBVIOUS
  <1>2. /\ ParcelInv /\ GoodsInv /\ status \in [Order -> OrderStatuses] /\ status[o] # "READY_TO_SHIP"
        /\ x \in Returns /\ ReturnRow(x) /\ ReturnLineRow(x) /\ bal \in Balances
    BY <1>1, ReturnOf
  <1>3. PICK r : r = [x EXCEPT !.status = "RECEIVED", !.received = q]
    OBVIOUS
  <1>4. /\ x.status = "APPROVED" /\ q \in 1..x.quantity
        /\ returns' = [returns EXCEPT ![o] = [returns[o] EXCEPT ![i] = r]]
        /\ bal' = Plus(bal, [Zero EXCEPT !.returned = q])
        /\ status' = [status EXCEPT ![o] = "RETURNED"]
        /\ UNCHANGED <<ship, manifests, refreshing, handing>>
    BY <1>1, <1>3 DEF Receive
  <1>5. /\ x.quantity \in Nat /\ x.received \in Nat /\ x.refund \in Nat /\ x.received = 0 /\ x.refund = 0
    BY <1>2, <1>4, ReturnParts DEF ReturnRow, ReturnLineRow
  <1>6. /\ r \in Returns /\ r.status = "RECEIVED" /\ r.quantity = x.quantity
        /\ r.received = q /\ r.refund = x.refund /\ q \in Nat
    <2>1. q \in Nat /\ x.before \in {"SHIPPED", "DELIVERED"}
      BY <1>2, <1>4, <1>5, ReturnParts
    <2>2. r = [status |-> "RECEIVED", before |-> x.before, quantity |-> x.quantity,
               received |-> q, refund |-> x.refund]
      BY <1>2, <1>3 DEF Returns
    <2> QED
      BY <1>5, <2>1, <2>2 DEF Returns
  <1>7. ReturnRow(r) /\ ReturnLineRow(r)
    BY <1>2, <1>4, <1>5, <1>6 DEF ReturnRow, ReturnLineRow
  <1>8. /\ bal.on_hand \in Nat /\ bal.reserved \in Nat /\ bal.damaged \in Nat /\ bal.returned \in Nat
    BY <1>2 DEF Balances
  <1>9. bal' = [on_hand |-> bal.on_hand, reserved |-> bal.reserved,
                damaged |-> bal.damaged, returned |-> bal.returned + q]
    <2>1. bal' = [on_hand |-> bal.on_hand + 0, reserved |-> bal.reserved + 0,
                  damaged |-> bal.damaged + 0, returned |-> bal.returned + q]
      BY <1>4 DEF Plus, Zero
    <2>2. /\ bal.on_hand + 0 = bal.on_hand /\ bal.reserved + 0 = bal.reserved
          /\ bal.damaged + 0 = bal.damaged
      BY <1>8
    <2> QED
      BY <2>1, <2>2
  <1>10. /\ bal' \in Balances /\ bal'.reserved = bal.reserved /\ Held(bal') = Held(bal) + q
    BY <1>6, <1>8, <1>9 DEF Balances, Held
  <1>11. PaidBack(returns[o]) - x.refund + r.refund <= Total[o]
    <2>1. PaidBack(returns[o]) \in Nat /\ PaidBack(returns[o]) <= Total[o]
      BY <1>2, GoodsParts DEF ReturnsOK
    <2> QED
      BY <1>5, <1>6, <2>1
  <1>12. NewStatus(o, "RETURNED")
    BY <1>2, <1>4 DEF NewStatus
  <1>13. r.received = x.received + q /\ x.status # "REJECTED"
    BY <1>4, <1>5, <1>6
  <1>14. GoodsInv'
    BY <1>1, <1>2, <1>4, <1>6, <1>7, <1>10, <1>11, <1>12, <1>13, ChangedGoods
  <1>15. ParcelInv'
    BY <1>2, <1>4, ParcelsStay DEF OrderStatuses
  <1> QED
    BY <1>14, <1>15 DEF DeliveryInv

LEMMA InspectStep ==
  ASSUME DeliveryInv, NEW o \in Order, NEW i \in DOMAIN returns[o],
         NEW restock \in 0..returns[o][i].received, Inspect(o, i, restock)
  PROVE  DeliveryInv'
PROOF
  <1>1. PICK x : x = returns[o][i]
    OBVIOUS
  <1>2. /\ ParcelInv /\ GoodsInv /\ status \in [Order -> OrderStatuses] /\ status[o] # "READY_TO_SHIP"
        /\ x \in Returns /\ ReturnRow(x) /\ ReturnLineRow(x) /\ bal \in Balances
    BY <1>1, ReturnOf
  <1>3. PICK r, q : r = [x EXCEPT !.status = "INSPECTED"] /\ q = x.received
    OBVIOUS
  <1>4. PICK d : d = [Zero EXCEPT !.returned = -q, !.on_hand = restock, !.damaged = q - restock]
    OBVIOUS
  <1>5. /\ x.status = "RECEIVED" /\ restock <= q
        /\ returns' = [returns EXCEPT ![o] = [returns[o] EXCEPT ![i] = r]]
        /\ CanApply(bal, d) /\ bal' = Plus(bal, d)
        /\ UNCHANGED <<status, ship, manifests, refreshing, handing>>
    BY <1>1, <1>3, <1>4 DEF Inspect
  <1>6. /\ x.quantity \in Nat /\ x.received \in Nat /\ x.refund \in Nat /\ x.refund = 0
        /\ q \in Nat /\ restock \in Nat
    BY <1>1, <1>2, <1>3, <1>5, ReturnParts DEF ReturnRow
  <1>7. /\ r \in Returns /\ r.status = "INSPECTED" /\ r.quantity = x.quantity
        /\ r.received = x.received /\ r.refund = x.refund
    BY <1>2, <1>3 DEF Returns
  <1>8. ReturnRow(r) /\ ReturnLineRow(r)
    BY <1>2, <1>6, <1>7 DEF ReturnRow, ReturnLineRow
  <1>9. /\ bal.on_hand \in Nat /\ bal.reserved \in Nat /\ bal.damaged \in Nat /\ bal.returned \in Nat
    BY <1>2 DEF Balances
  <1>10. d = [on_hand |-> restock, reserved |-> 0, damaged |-> q - restock, returned |-> -q]
    BY <1>4 DEF Zero
  <1>11. /\ bal'.on_hand = bal.on_hand + restock /\ bal'.reserved = bal.reserved
         /\ bal'.damaged = bal.damaged + (q - restock) /\ bal'.returned = bal.returned - q
         /\ bal' = [on_hand |-> bal'.on_hand, reserved |-> bal'.reserved,
                    damaged |-> bal'.damaged, returned |-> bal'.returned]
    <2>1. bal' = [on_hand |-> bal.on_hand + restock, reserved |-> bal.reserved + 0,
                  damaged |-> bal.damaged + (q - restock), returned |-> bal.returned + (-q)]
      BY <1>5, <1>10 DEF Plus
    <2>2. bal.reserved + 0 = bal.reserved /\ bal.returned + (-q) = bal.returned - q
      BY <1>6, <1>9
    <2> QED
      BY <2>1, <2>2
  <1>12. bal'.returned >= 0
    BY <1>5 DEF CanApply, Sound
  <1>13. /\ bal' \in Balances /\ bal'.reserved = bal.reserved /\ Held(bal') = Held(bal)
    BY <1>5, <1>6, <1>9, <1>11, <1>12 DEF Balances, Held
  <1>14. PaidBack(returns[o]) - x.refund + r.refund <= Total[o]
    <2>1. PaidBack(returns[o]) \in Nat /\ PaidBack(returns[o]) <= Total[o]
      BY <1>2, GoodsParts DEF ReturnsOK
    <2> QED
      BY <1>6, <1>7, <2>1
  <1>15. NewStatus(o, status[o])
    BY <1>2, <1>5 DEF NewStatus
  <1>16. GoodsInv'
    BY <1>1, <1>2, <1>5, <1>7, <1>8, <1>13, <1>14, <1>15, ChangedOnly
  <1>17. ParcelInv'
    BY <1>2, <1>5, ParcelsStay
  <1> QED
    BY <1>16, <1>17 DEF DeliveryInv

LEMMA RefundStep ==
  ASSUME DeliveryInv, NEW o \in Order, NEW i \in DOMAIN returns[o], NEW amount \in 1..Total[o],
         Refund(o, i, amount)
  PROVE  DeliveryInv'
PROOF
  <1>1. PICK x : x = returns[o][i]
    OBVIOUS
  <1>2. /\ ParcelInv /\ GoodsInv /\ status \in [Order -> OrderStatuses] /\ status[o] # "READY_TO_SHIP"
        /\ x \in Returns /\ ReturnRow(x) /\ ReturnLineRow(x) /\ bal \in Balances
    BY <1>1, ReturnOf
  <1>3. PICK r : r = [x EXCEPT !.status = "CLOSED", !.refund = amount]
    OBVIOUS
  <1>4. /\ x.status = "INSPECTED" /\ amount <= Total[o] - Refunded(o)
        /\ returns' = [returns EXCEPT ![o] = [returns[o] EXCEPT ![i] = r]]
        /\ status' = [status EXCEPT ![o] = "REFUNDED"]
        /\ UNCHANGED <<ship, manifests, bal, refreshing, handing>>
    BY <1>1, <1>3 DEF Refund
  <1>5. /\ x.quantity \in Nat /\ x.received \in Nat /\ x.refund = 0 /\ amount \in Nat
    BY <1>2, <1>4, ReturnParts, Constants DEF ReturnRow
  <1>6. /\ r \in Returns /\ r.status = "CLOSED" /\ r.quantity = x.quantity
        /\ r.received = x.received /\ r.refund = amount
    BY <1>2, <1>3, <1>5 DEF Returns
  <1>7. ReturnRow(r) /\ ReturnLineRow(r)
    BY <1>2, <1>6 DEF ReturnRow, ReturnLineRow
  <1>8. PaidBack(returns[o]) - x.refund + r.refund <= Total[o]
    <2>1. PaidBack(returns[o]) = Refunded(o)
      BY DEF PaidBack, Refunded
    <2>2. PaidBack(returns[o]) \in Nat /\ Total[o] \in Nat
      BY <1>2, GoodsParts, Constants
    <2> QED
      BY <1>4, <1>5, <1>6, <2>1, <2>2
  <1>9. NewStatus(o, "REFUNDED")
    BY <1>2, <1>4 DEF NewStatus
  <1>10. GoodsInv'
    BY <1>1, <1>2, <1>4, <1>6, <1>7, <1>8, <1>9, ChangedOnly
  <1>11. ParcelInv'
    BY <1>2, <1>4, ParcelsStay DEF OrderStatuses
  <1> QED
    BY <1>10, <1>11 DEF DeliveryInv

-------------------------------------------------------------------------------
LEMMA InitInv == Init => DeliveryInv
PROOF
  <1> SUFFICES ASSUME Init PROVE DeliveryInv
    OBVIOUS
  <1>1. /\ status = [o \in Order |-> "READY_TO_SHIP"] /\ ship = [o \in Order |-> NoShipment]
        /\ manifests = [m \in Manifest |-> "NEW"] /\ returns = [o \in Order |-> <<>>]
        /\ bal = [Zero EXCEPT !.on_hand = SumOver(Units, Order), !.reserved = SumOver(Units, Order)]
        /\ refreshing = [o \in Order |-> None] /\ handing = [m \in Manifest |-> {}]
    BY DEF Init
  <1>2. NoShipment.status = "NONE" /\ NoShipment.history = <<>> /\ NoShipment.manifest = None
    BY DEF NoShipment
  <1>3. ShipmentRow(NoShipment) /\ NoShipment.history \in Seq(Tellable)
    BY DEF ShipmentRow, NoShipment, Shipments
  <1>4. ParcelTypes
    BY <1>1 DEF ParcelTypes, OrderStatuses, ManifestStatuses
  <1>5. ParcelOK("READY_TO_SHIP", NoShipment, None)
    BY <1>2, <1>3 DEF ParcelOK, Waiting
  <1>6. ASSUME NEW m \in Manifest PROVE ManifestOK(m)
    BY <1>1 DEF ManifestOK
  <1>7. ParcelInv
    BY <1>1, <1>4, <1>5, <1>6 DEF ParcelInv
  <1>8. Came(<<>>) = 0 /\ Announced(<<>>) = 0 /\ PaidBack(<<>>) = 0
    <2>1. DOMAIN <<>> = {}
      OBVIOUS
    <2>2. {i \in DOMAIN <<>> : <<>>[i].status # "REJECTED"} = {}
      BY <2>1
    <2>3. \A n : SumOver(n, {}) = 0
      BY SumOfNone
    <2>4. Came(<<>>) = 0 /\ PaidBack(<<>>) = 0
      BY <2>1, <2>3 DEF Came, PaidBack
    <2>5. Announced(<<>>) = 0
      BY <2>2, <2>3 DEF Announced
    <2> QED
      BY <2>4, <2>5
  <1>9. ASSUME NEW o \in Order PROVE ReturnsOK(o, "READY_TO_SHIP", <<>>)
    <2>1. Units[o] \in Nat /\ Total[o] \in Nat /\ <<>> \in Seq(Returns) /\ DOMAIN <<>> = {}
      BY Constants
    <2> QED
      BY <1>8, <2>1 DEF ReturnsOK
  <1>10. PICK t, v : t = SumOver(Units, Order) /\ v = [o \in Order |-> Came(returns[o])]
    OBVIOUS
  <1>11. t \in Nat /\ SumOver(v, Order) = 0
    <2>1. Countable(Units, Order)
      BY Constants DEF Countable
    <2>2. \A o \in Order : v[o] = 0
      BY <1>1, <1>8, <1>10
    <2> QED
      BY <1>10, <2>1, <2>2, SumIsNat, SumOfZeros
  <1>12. bal = [on_hand |-> t, reserved |-> t, damaged |-> 0, returned |-> 0]
    BY <1>1, <1>10 DEF Zero
  <1>13. Waits = Order
    BY <1>1 DEF Waits
  <1>14. bal \in Balances /\ bal.reserved = t /\ Held(bal) = t
    BY <1>11, <1>12 DEF Balances, Held
  <1>15. StockInv
    <2>1. t = t + 0
      BY <1>11
    <2> QED
      BY <1>10, <1>11, <1>13, <1>14, <2>1 DEF StockInv
  <1>16. GoodsInv
    <2>1. returns \in [Order -> Seq(Returns)]
      BY <1>1
    <2>2. \A o \in Order : ReturnsOK(o, status[o], returns[o])
      BY <1>1, <1>9
    <2> QED
      BY <1>15, <2>1, <2>2 DEF GoodsInv
  <1> QED
    BY <1>7, <1>16 DEF DeliveryInv

LEMMA DeliveringInv ==
  ASSUME DeliveryInv, NEW o \in Order, Delivering(o)
  PROVE  DeliveryInv'
PROOF
  <1>1. ParcelInv /\ GoodsInv
    BY DEF DeliveryInv
  <1>2. CASE CancelShipment(o)
    <2>1. GoodsInv'
      BY <1>1, <1>2, GoodsStay DEF CancelShipment
    <2> QED
      BY <1>1, <1>2, <2>1, CancelShipmentStep DEF DeliveryInv
  <1>3. CASE ShipOrder(o)
    <2>1. Leave({o}) /\ returns' = returns /\ {o} \in SUBSET Order
      BY <1>3 DEF ShipOrder
    <2> QED
      BY <1>1, <1>3, <2>1, ShipOrderStep, LeaveGoods DEF DeliveryInv
  <1>4. CASE DeliverOrder(o)
    <2>1. /\ UNCHANGED <<returns, bal>> /\ status[o] = "SHIPPED"
          /\ status' = [status EXCEPT ![o] = "DELIVERED"]
      BY <1>4 DEF DeliverOrder
    <2>2. \A p \in Order : status'[p] = "READY_TO_SHIP" <=> status[p] = "READY_TO_SHIP"
      BY <1>1, <2>1 DEF ParcelInv, ParcelTypes
    <2>3. GoodsInv'
      BY <1>1, <2>1, <2>2, GoodsStay
    <2> QED
      BY <1>1, <1>4, <2>3, DeliverOrderStep DEF DeliveryInv
  <1>5. CASE \E p \in Providers, resi \in BOOLEAN : CreateShipment(o, p, resi)
    <2>1. PICK p \in Providers, resi \in BOOLEAN : CreateShipment(o, p, resi)
      BY <1>5
    <2>2. GoodsInv'
      BY <1>1, <2>1, GoodsStay DEF CreateShipment
    <2> QED
      BY <1>1, <2>1, <2>2, CreateShipmentStep DEF DeliveryInv
  <1>6. CASE \E st \in Underway : ManualTracking(o, st)
    <2>1. PICK st \in Underway : ManualTracking(o, st)
      BY <1>6
    <2>2. ParcelInv' /\ status[o] # "READY_TO_SHIP" /\ status'[o] # "READY_TO_SHIP"
      BY <1>1, <2>1, ManualTrackingParcel
    <2>3. Follow(o, st, status[o]) /\ UNCHANGED bal
      BY <2>1 DEF ManualTracking
    <2>4. GoodsInv'
      BY <1>1, <2>2, <2>3, FollowGoods
    <2> QED
      BY <2>2, <2>4 DEF DeliveryInv
  <1>7. CASE StartRefresh(o)
    <2>1. GoodsInv'
      BY <1>1, <1>7, GoodsStay DEF StartRefresh
    <2> QED
      BY <1>1, <1>7, <2>1, StartRefreshStep DEF DeliveryInv
  <1>8. CASE AbortRefresh(o)
    <2>1. GoodsInv'
      BY <1>1, <1>8, GoodsStay DEF AbortRefresh
    <2> QED
      BY <1>1, <1>8, <2>1, AbortRefreshStep DEF DeliveryInv
  <1>9. CASE \E h \in Told(ship[o]), resi \in BOOLEAN : FinishRefresh(o, h, resi)
    <2>1. PICK h \in Told(ship[o]), resi \in BOOLEAN : FinishRefresh(o, h, resi)
      BY <1>9
    <2>2. ParcelInv' /\ (status'[o] = "READY_TO_SHIP" <=> status[o] = "READY_TO_SHIP")
      BY <1>1, <2>1, FinishRefreshParcel
    <2>3. PICK st : Follow(o, st, refreshing[o]) /\ (st = "RETURNED_TO_SENDER" => status[o] # "READY_TO_SHIP")
      BY <1>1, <2>1, FinishRefreshParcel
    <2>4. UNCHANGED bal
      BY <2>1 DEF FinishRefresh
    <2>5. GoodsInv'
      BY <1>1, <2>2, <2>3, <2>4, FollowGoods
    <2> QED
      BY <2>2, <2>5 DEF DeliveryInv
  <1> QED
    BY <1>2, <1>3, <1>4, <1>5, <1>6, <1>7, <1>8, <1>9 DEF Delivering

LEMMA HandingInv ==
  ASSUME DeliveryInv, NEW m \in Manifest, Handing(m)
  PROVE  DeliveryInv'
PROOF
  <1>1. ParcelInv /\ GoodsInv
    BY DEF DeliveryInv
  <1>2. ASSUME UNCHANGED <<status, returns, bal>> PROVE GoodsInv'
    BY <1>1, <1>2, GoodsStay
  <1>3. CASE CreateManifest(m)
    BY <1>1, <1>2, <1>3, CreateManifestStep DEF CreateManifest, DeliveryInv
  <1>4. CASE ManifestCancel(m)
    BY <1>1, <1>2, <1>4, ManifestCancelStep DEF ManifestCancel, DeliveryInv
  <1>5. ASSUME NEW o \in Order, ManifestScan(m, o) PROVE DeliveryInv'
    BY <1>1, <1>2, <1>5, ManifestScanStep DEF ManifestScan, DeliveryInv
  <1>6. ASSUME NEW o \in Order, ManifestRemove(m, o) PROVE DeliveryInv'
    BY <1>1, <1>2, <1>6, ManifestRemoveStep DEF ManifestRemove, DeliveryInv
  <1>7. CASE StartHandover(m)
    BY <1>1, <1>2, <1>7, StartHandoverStep DEF StartHandover, DeliveryInv
  <1>8. CASE FinishHandover(m)
    <2>1. PICK os : os = handing[m]
      OBVIOUS
    <2>2. os \in SUBSET Order /\ Leave(os) /\ returns' = returns
      BY <1>1, <1>8, <2>1 DEF FinishHandover, ParcelInv, ParcelTypes
    <2> QED
      BY <1>1, <1>8, <2>2, FinishHandoverStep, LeaveGoods DEF DeliveryInv
  <1>9. CASE AbortHandover(m)
    BY <1>1, <1>2, <1>9, AbortHandoverStep DEF AbortHandover, DeliveryInv
  <1> QED
    BY <1>3, <1>4, <1>5, <1>6, <1>7, <1>8, <1>9 DEF Handing

LEMMA ReturningInv ==
  ASSUME DeliveryInv, NEW o \in Order, Returning(o)
  PROVE  DeliveryInv'
  BY RequestReturnStep, RestateStep, ReceiveStep, InspectStep, RefundStep DEF Returning

LEMMA NextInv ==
  ASSUME DeliveryInv, [Next]_vars
  PROVE  DeliveryInv'
PROOF
  <1>1. CASE Next
    BY <1>1, DeliveringInv, ReturningInv, HandingInv DEF Next
  <1>2. CASE UNCHANGED vars
    <2>1. UNCHANGED <<status, ship, manifests, returns, bal, refreshing, handing>>
      BY <1>2 DEF vars
    <2>2. ParcelInv'
      BY <2>1, ManifestOnly DEF DeliveryInv, ParcelInv, ParcelTypes, ManifestOK
    <2>3. GoodsInv'
      BY <2>1, GoodsStay DEF DeliveryInv
    <2> QED
      BY <2>2, <2>3 DEF DeliveryInv
  <1> QED
    BY <1>1, <1>2

LEMMA DeliveryIsSafe == Spec => []DeliveryInv
PROOF
  <1>1. DeliveryInv /\ [Next]_vars => DeliveryInv'
    BY NextInv
  <1> QED
    BY <1>1, InitInv, PTL DEF Spec

LEMMA InvIsTypeOK == DeliveryInv => TypeOK
PROOF
  <1> SUFFICES ASSUME DeliveryInv PROVE TypeOK
    OBVIOUS
  <1>1. ParcelInv /\ GoodsInv
    BY DEF DeliveryInv
  <1>2. \A o \in Order : ShipmentRow(ship[o])
    BY <1>1, ParcelOf
  <1>3. \A o \in Order : \A i \in DOMAIN returns[o] :
          ReturnRow(returns[o][i]) /\ ReturnLineRow(returns[o][i])
    BY <1>1, GoodsParts
  <1> QED
    BY <1>1, <1>2, <1>3 DEF TypeOK, ParcelInv, ParcelTypes, GoodsInv, StockInv

LEMMA InvIsLeaving == DeliveryInv => OrderLeavesWithParcel
  BY DEF DeliveryInv, ParcelInv, ParcelOK, OrderLeavesWithParcel

LEMMA InvIsComplete == DeliveryInv => ManifestTakesAll
  BY DEF DeliveryInv, ParcelInv, ManifestOK, Lies, ManifestTakesAll

LEMMA InvIsOnce == DeliveryInv => NothingComesBackTwice
PROOF
  <1> SUFFICES ASSUME DeliveryInv PROVE NothingComesBackTwice
    OBVIOUS
  <1>1. GoodsInv
    BY DEF DeliveryInv
  <1>2. PICK v, N : /\ v = [o \in Order |-> Came(returns[o])]
                    /\ N = {o \in Order : status[o] # "READY_TO_SHIP"}
    OBVIOUS
  <1>3. N \in SUBSET Order /\ Waits \in SUBSET Order /\ N \cup Waits = Order /\ N \cap Waits = {}
    BY <1>2 DEF Waits
  <1>4. ASSUME NEW o \in Order
        PROVE  /\ v[o] \in Nat /\ v[o] <= Units[o] /\ Units[o] \in Nat
               /\ o \in Waits => v[o] = 0
    <2>1. v[o] = Came(returns[o]) /\ ReturnsOK(o, status[o], returns[o])
      BY <1>1, <1>2, GoodsParts
    <2>2. o \in Waits => returns[o] = <<>>
      BY <2>1 DEF Waits, ReturnsOK
    <2>3. Came(<<>>) = 0
      <3>1. DOMAIN <<>> = {}
        OBVIOUS
      <3> QED
        BY <3>1, SumOfNone DEF Came
    <2> QED
      BY <2>1, <2>2, <2>3, CameIsAnnounced, Constants
  <1>5. Countable(v, N) /\ Countable(v, Waits) /\ Countable(Units, N) /\ Countable(Units, Waits)
    BY <1>3, <1>4, Constants, FS_Subset DEF Countable
  <1>6. SumOver(v, Order) = SumOver(v, N) + SumOver(v, Waits)
    <2>1. SumOver(v, N \cup Waits) = SumOver(v, N) + SumOver(v, Waits)
      BY <1>3, <1>5, SumUnion
    <2> QED
      BY <1>3, <2>1
  <1>7. SumOver(v, Waits) = 0
    BY <1>3, <1>4, SumOfZeros
  <1>8. SumOver(v, N) <= SumOver(Units, N)
    BY <1>3, <1>4, <1>5, SumGrows
  <1>9. /\ SumOver(v, N) \in Nat /\ SumOver(Units, N) \in Nat /\ SumOver(Units, Waits) \in Nat
    BY <1>5, SumIsNat
  <1>10. PICK a, b, c : a = SumOver(Units, Waits) /\ b = SumOver(v, N) /\ c = SumOver(Units, N)
    OBVIOUS
  <1>11. bal \in Balances /\ bal.reserved = a /\ Held(bal) = a + SumOver(v, Order)
    BY <1>1, <1>2, <1>10 DEF GoodsInv, StockInv
  <1>12. a \in Nat /\ b \in Nat /\ c \in Nat /\ b <= c /\ SumOver(v, Order) = b
    BY <1>6, <1>7, <1>8, <1>9, <1>10
  <1>13. Held(bal) = a + b
    BY <1>11, <1>12
  <1>14. bal.on_hand - a + bal.returned + bal.damaged <= c
    BY <1>11, <1>12, <1>13 DEF Balances, Held
  <1>15. NoUnitComesBackTwice
    BY <1>2, <1>10, <1>11, <1>14 DEF NoUnitComesBackTwice, Waits
  <1>16. RefundedWithinTotal
    <2>1. ASSUME NEW o \in Order PROVE Refunded(o) <= Total[o]
      <3>1. PaidBack(returns[o]) = Refunded(o)
        BY DEF PaidBack, Refunded
      <3>2. PaidBack(returns[o]) <= Total[o]
        BY <1>1, GoodsParts DEF ReturnsOK
      <3> QED
        BY <3>1, <3>2
    <2> QED
      BY <2>1 DEF RefundedWithinTotal
  <1> QED
    BY <1>15, <1>16 DEF NothingComesBackTwice

(* Every variable has its type, and every row of shipments and returns is   *)
(* one its table accepts.                                                   *)
THEOREM TypeCorrect == Spec => []TypeOK
  BY DeliveryIsSafe, InvIsTypeOK, PTL

(* Whatever couriers tell and whenever they are asked, no parcel is on its  *)
(* way before its order has left and no order leaves without one.           *)
THEOREM LeavesWithParcel == Spec => []OrderLeavesWithParcel
  BY DeliveryIsSafe, InvIsLeaving, PTL

(* The handover of a manifest leaves none of its packages behind, although  *)
(* it reads them before it locks their orders.                              *)
THEOREM ManifestComplete == Spec => []ManifestTakesAll
  BY DeliveryIsSafe, InvIsComplete, PTL

(* Over all its returns, no more of an order comes back to the stock than   *)
(* was shipped and no more money than was paid, whatever a refresh has read *)
(* of the order before.                                                     *)
THEOREM NothingTwice == Spec => []NothingComesBackTwice
  BY DeliveryIsSafe, InvIsOnce, PTL
==============================================================================
