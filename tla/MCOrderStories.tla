---------------------------- MODULE MCOrderStories ----------------------------
(* Two stories of OrderStock in one run: "places", one user beside the      *)
(* worker and stock in two warehouses; "users", two users beside the worker *)
(* and stock in one warehouse, where one user at a time finds a unit        *)
(* damaged, while the worker rests.  Nothing grows old in either.           *)
EXTENDS MCOrderStock

VARIABLE story

Corrections == {t \in Request : tx[t].job = "adjust"}

Told ==
  /\ stale = {}
  /\ story = "places" => /\ Cardinality({t \in Request : tx[t] # Idle}) <= 1
                         /\ Corrections = {}
  /\ story = "users" => /\ \A t \in Request, s \in Sku : tx[t].lines[<<w2, s>>] = Zero
                        /\ Cardinality(Corrections) <= 1
                        /\ Corrections # {} => tx[Worker] = Idle
                        /\ \A p \in Pair : mem[p].damaged <= 1

MCInit == Init /\ story \in {"places", "users"}
MCNext == Next /\ UNCHANGED story /\ Told'
MCSpec == MCInit /\ [][MCNext]_<<vars, story>>
==============================================================================
