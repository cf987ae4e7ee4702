------------------------- MODULE MCWarehouseStories -------------------------
(* Two stories of Warehouse for TLC, in one run. *)
EXTENDS MCWarehouse, FiniteSetsExt

(* What a behaviour is about; the rest of the warehouse stands still. *)
VARIABLE story

MCInit == Init /\ story \in {"wave", "bins"}

(* Two scanners, and orders of one unit in one wave or two, until they are    *)
(* picked.                                                                   *)
OneUnitEach ==
  /\ status'[1] = "NEW"
  /\ UNCHANGED <<docs, counts, packed>>
  /\ \A s \in Sku : bal'[s].damaged = 0

(* One scanner at a time, and one order of two units.  Goods come in twos.   *)
(* A count is of all bins.  What was counted matters no more once it is       *)
(* cancelled.                                                                *)
OneOrder ==
  /\ \A o \in Order \ {1} : status'[o] = "NEW"
  /\ Len(tasks') <= 2 /\ Cardinality({c \in Scanner : scan'[c] # Free}) <= 1
  /\ \A d \in Inbound, s \in Sku : docs'[d].received[s] # 1 /\ docs'[d].damaged[s] # 1
  /\ UNCHANGED <<tasks, counts>> =>
       /\ \A p \in Place : bin'[p].quantity - bin[p].quantity \notin {-1, 1}
       /\ \A s \in Sku : /\ bal'[s].on_hand - bal[s].on_hand \notin {-1, 1}
                        /\ bal'[s].damaged - bal[s].damaged \notin {-1, 1}
  /\ \A n \in Count :
       /\ counts'[n].scope \in {{}, Bin}
       /\ counts'[n].status = "CANCELLED" => \A p \in DOMAIN counts'[n].lines : counts'[n].lines[p] = None

MCNext ==
  /\ Next
  /\ story = "wave" => OneUnitEach
  /\ story = "bins" => OneOrder
  /\ UNCHANGED story

MCSpec == MCInit /\ [][MCNext]_<<vars, story>>
=============================================================================
