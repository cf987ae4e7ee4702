------------------------------- MODULE Couriers -------------------------------
(***************************************************************************)
(* The courier accounts of one tenant (app/modules/shipping/router.py and  *)
(* get_or_create_manual_account() of service.py) and which courier is      *)
(* recommended (app/modules/ai/courier.py).                                *)
(*                                                                         *)
(* One account is the default.  Nothing but the handlers keeps it so: who  *)
(* makes an account the default takes it from all the others he sees, and  *)
(* waits for those that somebody else has locked.                          *)
(***************************************************************************)
EXTENDS FiniteSets, Sequences, Totals

CONSTANTS
  Account,
  Carrier,     \* couriers, with a service of theirs
  City,
  Duration,    \* days a parcel can take
  Cost,
  MinCity,     \* parcels to a city before they are looked at alone (5)
  MaxParcels   \* bound

ASSUME CouriersAssumption ==
  Duration \subseteq Nat /\ Cost \subseteq Nat /\ MinCity \in Nat /\ MaxParcels \in Nat

VARIABLES
  courierAcc,  \* the accounts there are
  edit,        \* the request that makes or changes each account
  crossed,     \* two were made the default, of which one was inserted, unseen
  parcel       \* the shipments of the last 120 days that were not cancelled

couriersVars == <<courierAcc, edit, crossed, parcel>>

AccountRow == [exists : BOOLEAN, manual : BOOLEAN, active : BOOLEAN, default : BOOLEAN]
NoAccount  == [exists |-> FALSE, manual |-> FALSE, active |-> FALSE, default |-> FALSE]

(* row: what is going to be written; others: the accounts it was taken from, *)
(* or is going to be.                                                        *)
Changes  == [at : {"nowhere", "locked", "waiting", "ready"}, row : AccountRow, others : SUBSET Account]
NoChange == [at |-> "nowhere", row |-> NoAccount, others |-> {}]

(* days, if it was delivered. *)
Parcels == [carrier : Carrier, city : City, status : {"UNDERWAY", "DELIVERED", "FAILED"},
            days : Duration, cost : Cost]

Existing == {a \in Account : courierAcc[a].exists}

(* The rows the request about a has locked. *)
Holds(a) ==
  (IF edit[a].at = "nowhere" THEN {} ELSE {a} \cap Existing)
  \cup (IF edit[a].at = "ready" THEN edit[a].others ELSE {})

CouriersTypeOK ==
  /\ courierAcc \in [Account -> AccountRow]
  /\ edit \in [Account -> Changes]
  /\ \A a \in Account : courierAcc[a].default => courierAcc[a].exists
  /\ \A a, c \in Account : a # c => Holds(a) \cap Holds(c) = {}
  /\ crossed \in BOOLEAN
  /\ parcel \in Seq(Parcels) /\ Len(parcel) <= MaxParcels

CouriersInit ==
  /\ courierAcc = [a \in Account |-> NoAccount]
  /\ edit = [a \in Account |-> NoChange]
  /\ crossed = FALSE
  /\ parcel = <<>>

-----------------------------------------------------------------------------
Unheld(rows, a) == \A c \in Account \ {a} : Holds(c) \cap rows = {}

(* The request about a has taken the default from the others it saw, for an  *)
(* account that did not have it.                                             *)
MakesDefault(a) ==
  edit[a].at \in {"waiting", "ready"} /\ edit[a].row.default /\ ~courierAcc[a].default

Inserts(a) == ~courierAcc[a].exists

(* Neither saw the other's account, as it was not there yet. *)
Unseen(a, c) == (Inserts(a) \/ Inserts(c)) /\ c \notin edit[a].others /\ a \notin edit[c].others

Will(a, at, row, others) == edit' = [edit EXCEPT ![a] = [at |-> at, row |-> row, others |-> others]]

\* Mutant: another default is not taken away.
NobodyElse(a) == {}

(* What the UPDATE sees when it begins. *)
AllOthers(a) == Existing \ {a}

(* create_account(): the others are no longer the default, if this one is.   *)
CreateAccount(a, manual, default) ==
  /\ ~courierAcc[a].exists /\ edit[a] = NoChange
  /\ Will(a, IF default THEN "waiting" ELSE "ready",
          [exists |-> TRUE, manual |-> manual, active |-> TRUE, default |-> default],
          IF default THEN AllOthers(a) ELSE {})
  /\ UNCHANGED <<courierAcc, crossed, parcel>>

(* get_or_create_manual_account(), as every list of the accounts and every   *)
(* shipment without a default calls it.  The first account is the default.   *)
CreateManual(a) ==
  /\ ~courierAcc[a].exists /\ edit[a] = NoChange
  /\ \A c \in Existing : ~courierAcc[c].manual
  /\ Will(a, "ready",
          [exists |-> TRUE, manual |-> TRUE, active |-> TRUE, default |-> (Existing = {})], {})
  /\ UNCHANGED <<courierAcc, crossed, parcel>>

(* update_account(): the row is locked first. *)
UpdateAccount(a, active, default) ==
  /\ courierAcc[a].exists /\ edit[a] = NoChange /\ Unheld({a}, a)
  /\ Will(a, IF default THEN "locked" ELSE "ready",
          [courierAcc[a] EXCEPT !.active = active, !.default = (@ \/ default)], {})
  /\ UNCHANGED <<courierAcc, crossed, parcel>>

ClearOthers(a) ==
  /\ edit[a].at = "locked"
  /\ Will(a, "waiting", edit[a].row, AllOthers(a))
  /\ UNCHANGED <<courierAcc, crossed, parcel>>

(* The UPDATE has all its rows. *)
HaveOthers(a) ==
  /\ edit[a].at = "waiting" /\ Unheld(edit[a].others, a)
  /\ Will(a, "ready", edit[a].row, edit[a].others)
  /\ UNCHANGED <<courierAcc, crossed, parcel>>

CommitAccount(a) ==
  /\ edit[a].at = "ready"
  /\ courierAcc' = [c \in Account |-> IF c = a THEN edit[a].row
                                   ELSE IF c \in edit[a].others THEN [courierAcc[c] EXCEPT !.default = FALSE]
                                   ELSE courierAcc[c]]
  /\ crossed' = (crossed \/ \E c \in Account \ {a} : MakesDefault(a) /\ MakesDefault(c) /\ Unseen(a, c))
  /\ edit' = [edit EXCEPT ![a] = NoChange]
  /\ UNCHANGED parcel

(* An error, or two requests that wait for one another. *)
AbortAccount(a) ==
  /\ edit[a] # NoChange
  /\ edit' = [edit EXCEPT ![a] = NoChange]
  /\ UNCHANGED <<courierAcc, crossed, parcel>>

-----------------------------------------------------------------------------
(* _stats(): the parcels of a carrier among those numbered in S. *)
Of(c, S)        == {i \in S : parcel[i].carrier = c}
Finished(c, S, st) == {i \in Of(c, S) : parcel[i].status = st}

(* Averages in hundredths; the carrier has such parcels. *)
AvgDays(c, S) ==
  (100 * SumOver([i \in S |-> parcel[i].days], Finished(c, S, "DELIVERED")))
    \div Cardinality(Finished(c, S, "DELIVERED"))
AvgCost(c, S) ==
  (100 * SumOver([i \in S |-> parcel[i].cost], Of(c, S))) \div Cardinality(Of(c, S))

Candidates(S) == {parcel[i].carrier : i \in S}
Timed(S)      == {c \in Candidates(S) : Finished(c, S, "DELIVERED") # {}}

(* Thousandths: 1000 for the lowest x, 0 for the highest. *)
Scaled(x, all) ==
  LET lo == CHOOSE v \in all : \A w \in all : v <= w
      hi == CHOOSE v \in all : \A w \in all : w <= v
  IN  IF hi = lo THEN 1000 ELSE (1000 * (hi - x)) \div (hi - lo)

(* The part that arrived, of those that ended and two more of which one did. *)
Reliability(c, S) ==
  LET good == Cardinality(Finished(c, S, "DELIVERED"))
      bad == Cardinality(Finished(c, S, "FAILED"))
  IN  (1000 * (good + 1)) \div (good + bad + 2)

Speed(c, S) ==
  IF c \notin Timed(S) THEN 1000
  ELSE Scaled(AvgDays(c, S), {AvgDays(d, S) : d \in Timed(S)})

Cheapness(c, S) == Scaled(AvgCost(c, S), {AvgCost(d, S) : d \in Candidates(S)})

(* _score() *)
Score(c, S) == (55 * Reliability(c, S) + 25 * Speed(c, S) + 20 * Cheapness(c, S)) \div 100

(* recommend(): the parcels it looks at, and which carrier may come first. *)
Basis(city) ==
  LET there == {i \in DOMAIN parcel : parcel[i].city = city}
  IN  IF Cardinality(there) < MinCity THEN DOMAIN parcel ELSE there

Recommended(city) ==
  {c \in Candidates(Basis(city)) :
     \A d \in Candidates(Basis(city)) : Score(c, Basis(city)) >= Score(d, Basis(city))}

Deliver(p) ==
  /\ Len(parcel) < MaxParcels
  /\ parcel' = Append(parcel, p)
  /\ UNCHANGED <<courierAcc, edit, crossed>>

CouriersNext ==
  \/ \E a \in Account :
       \/ \E x, default \in BOOLEAN : CreateAccount(a, x, default) \/ UpdateAccount(a, x, default)
       \/ CreateManual(a) \/ ClearOthers(a) \/ HaveOthers(a) \/ CommitAccount(a) \/ AbortAccount(a)
  \/ \E p \in Parcels : Deliver(p)

CouriersSpec == CouriersInit /\ [][CouriersNext]_couriersVars

-----------------------------------------------------------------------------
(***************************************************************************)
(* A tenant has one default account at most, whichever requests make       *)
(* accounts the default at the same time (create_account, update_account), *)
(* unless one of two inserts an account the other's UPDATE does not see:   *)
(* nothing makes it wait for a row that is not there yet.  A request that  *)
(* leaves the default as it was is no such race.                           *)
(***************************************************************************)
OneDefaultAccount ==
  crossed \/ Cardinality({a \in Account : courierAcc[a].default}) <= 1

(* d has delivered as much as c and failed no more, no slower and for no     *)
(* more.  Who has delivered nothing yet counts as the fastest.               *)
NoWorse(d, c, S) ==
  /\ Cardinality(Finished(d, S, "DELIVERED")) >= Cardinality(Finished(c, S, "DELIVERED"))
  /\ Cardinality(Finished(d, S, "FAILED")) <= Cardinality(Finished(c, S, "FAILED"))
  /\ c \in Timed(S) /\ AvgDays(d, S) <= AvgDays(c, S)
  /\ AvgCost(d, S) <= AvgCost(c, S)

(***************************************************************************)
(* Of the couriers to a city, or to anywhere if few parcels went there, one *)
(* that is no worse in anything than one that is recommended first is      *)
(* recommended too, and is not more reliable but for the rounding of       *)
(* scores (recommend).                                                     *)
(***************************************************************************)
NoBetterCourier ==
  \A city \in City : \A c \in Recommended(city) : \A d \in Candidates(Basis(city)) :
    NoWorse(d, c, Basis(city))
      => /\ d \in Recommended(city)
         /\ Reliability(d, Basis(city)) <= Reliability(c, Basis(city)) + 1

(* What the choice of a courier rests on: its account and its parcels. *)
CouriersHold == OneDefaultAccount /\ NoBetterCourier
=============================================================================
