------------------------------- MODULE Catalog -------------------------------
(***************************************************************************)
(* SKUs, users and warehouses of one tenant, the limits of its plan and    *)
(* the import of files: app/modules/catalog, users, warehouses, imports    *)
(* and enforce_limit() of app/core/entitlements.py.                        *)
(*                                                                         *)
(* Editors create and activate things; the limit is counted before the     *)
(* write and nothing is locked.  An import is examined first and committed *)
(* later, by whoever holds its row: all its lines or none, in one          *)
(* transaction.                                                            *)
(***************************************************************************)
EXTENDS Naturals, FiniteSets

CONSTANTS
  Item,     \* everything that can be created, by its unique code
  KindOf,   \* [Item -> {"skus", "users", "warehouses"}]
  Limit,    \* [Kinds of items -> Nat]: the plan
  Editor,   \* requests at the same time
  Job,      \* imports
  Noone

ItemKind == {"skus", "users", "warehouses"}

ASSUME CatalogAssumption ==
  /\ KindOf \in [Item -> ItemKind] /\ Limit \in [ItemKind -> Nat] /\ Noone \notin Editor
  /\ IsFiniteSet(Item) /\ IsFiniteSet(Job)

VARIABLES
  item,      \* the state of each
  editor,    \* what each editor has passed the limit for
  job,       \* the imports
  received,  \* the stock each SKU has received, in lines of imports
  raced      \* kinds of which two were counted at once, or that were imported

catalogVars == <<item, editor, job, received, raced>>

Sku == {i \in Item : KindOf[i] = "skus"}

Edits  == [wants : {"nothing", "create", "activate"}, item : Item \cup {Noone}]
NoEdit == [wants |-> "nothing", item |-> Noone]

(* good: the lines to apply; errors: whether lines were reported; by: who    *)
(* holds the row and has read that the SKUs missing do not exist.            *)
Jobs  == [status : {"NONE", "PREVIEW", "COMMITTED"}, kind : {"products", "stock"},
          good : SUBSET Sku, errors : BOOLEAN, by : Editor \cup {Noone}, missing : SUBSET Sku]
NoJob == [status |-> "NONE", kind |-> "products", good |-> {}, errors |-> FALSE, by |-> Noone,
          missing |-> {}]

CatalogTypeOK ==
  /\ item \in [Item -> {"NONE", "ACTIVE", "INACTIVE"}]
  /\ editor \in [Editor -> Edits]
  /\ job \in [Job -> Jobs]
  /\ \A j \in Job : job[j].by # Noone => job[j].status = "PREVIEW" /\ job[j].missing \subseteq job[j].good
  /\ received \in [Sku -> Nat]
  /\ raced \subseteq ItemKind

CatalogInit ==
  /\ item = [i \in Item |-> "NONE"]
  /\ editor = [e \in Editor |-> NoEdit]
  /\ job = [j \in Job |-> NoJob]
  /\ received = [i \in Sku |-> 0]
  /\ raced = {}

-----------------------------------------------------------------------------
(* usage() *)
ActiveOf(kind) == {i \in Item : KindOf[i] = kind /\ item[i] = "ACTIVE"}

(* enforce_limit() *)
WithinLimit(kind) == Cardinality(ActiveOf(kind)) + 1 <= Limit[kind]

Idling(e) == editor[e] = NoEdit /\ \A j \in Job : job[j].by # e

Passes(e, i, wants) ==
  /\ Idling(e)
  /\ WithinLimit(KindOf[i])
  /\ editor' = [editor EXCEPT ![e] = [wants |-> wants, item |-> i]]
  /\ UNCHANGED <<item, job, received, raced>>

(* create_sku(), create_user(), create_warehouse(), up to the INSERT. *)
CreateSku(e, i)       == KindOf[i] = "skus" /\ Passes(e, i, "create")
CreateUser(e, i)      == KindOf[i] = "users" /\ Passes(e, i, "create")
CreateWarehouse(e, i) == KindOf[i] = "warehouses" /\ Passes(e, i, "create")

(* update_sku(), update_user(), update_warehouse() with is_active. *)
Reactivates(i) == item[i] = "INACTIVE"
UpdateSku(e, i)       == KindOf[i] = "skus" /\ Reactivates(i) /\ Passes(e, i, "activate")
UpdateUser(e, i)      == KindOf[i] = "users" /\ Reactivates(i) /\ Passes(e, i, "activate")
UpdateWarehouse(e, i) == KindOf[i] = "warehouses" /\ Reactivates(i) /\ Passes(e, i, "activate")

(* Others of the same kind that have been counted and not written. *)
Races(e, kind) ==
  \E d \in Editor \ {e} : editor[d].wants # "nothing" /\ KindOf[editor[d].item] = kind

(* A code that exists by now is refused by its unique index. *)
Write(e) ==
  LET i == editor[e].item IN
  /\ editor[e].wants # "nothing"
  /\ editor[e].wants = "create" => item[i] = "NONE"
  /\ item' = [item EXCEPT ![i] = "ACTIVE"]
  /\ raced' = IF Races(e, KindOf[i]) THEN raced \cup {KindOf[i]} ELSE raced
  /\ editor' = [editor EXCEPT ![e] = NoEdit]
  /\ UNCHANGED <<job, received>>

(* A refusal, or a lost connection. *)
Withdraw(e) ==
  /\ editor[e].wants # "nothing"
  /\ editor' = [editor EXCEPT ![e] = NoEdit]
  /\ UNCHANGED <<item, job, received, raced>>

Deactivate(i) ==
  /\ item[i] = "ACTIVE"
  /\ item' = [item EXCEPT ![i] = "INACTIVE"]
  /\ UNCHANGED <<editor, job, received, raced>>

-----------------------------------------------------------------------------
(* validate(): the lines of a file for these SKUs; a line of a stock file    *)
(* needs a SKU that is active.                                               *)
Valid(kind, lines) == IF kind = "products" THEN lines ELSE lines \cap ActiveOf("skus")

(* preview(): bad tells of lines that cannot be read. *)
Preview(j, kind, lines, bad) ==
  /\ job[j].status = "NONE"
  /\ job' = [job EXCEPT ![j] = [NoJob EXCEPT !.status = "PREVIEW", !.kind = kind,
                                             !.good = Valid(kind, lines),
                                             !.errors = (bad \/ Valid(kind, lines) # lines)]]
  /\ UNCHANGED <<item, editor, received, raced>>

\* Mutant: the row of the import is not locked.
TakenOrNot(j) == job[j].status # "NONE"

Untaken(j) == job[j].by = Noone /\ job[j].status = "PREVIEW"

(* commit(): the row is locked, and the SKUs there are are read. *)
BeginCommit(e, j, skipErrors) ==
  /\ Idling(e) /\ Untaken(j)
  /\ job[j].errors => skipErrors
  /\ job' = [job EXCEPT ![j].by = e, ![j].missing = {i \in job[j].good : item[i] = "NONE"}]
  /\ UNCHANGED <<item, editor, received, raced>>

(* A SKU that was created meanwhile stops the import of products. *)
CommitProducts(j) ==
  /\ job[j].by # Noone /\ job[j].kind = "products"
  /\ \A i \in job[j].missing : item[i] = "NONE"
  /\ item' = [i \in Item |-> IF i \in job[j].missing THEN "ACTIVE" ELSE item[i]]
  /\ raced' = raced \cup {"skus"}
  /\ job' = [job EXCEPT ![j].status = "COMMITTED", ![j].by = Noone, ![j].missing = {}]
  /\ UNCHANGED <<editor, received>>

CommitStock(j) ==
  /\ job[j].by # Noone /\ job[j].kind = "stock"
  /\ received' = [i \in Sku |-> IF i \in job[j].good THEN received[i] + 1 ELSE received[i]]
  /\ job' = [job EXCEPT ![j].status = "COMMITTED", ![j].by = Noone, ![j].missing = {}]
  /\ UNCHANGED <<item, editor, raced>>

RollBackImport(j) ==
  /\ job[j].by # Noone
  /\ job' = [job EXCEPT ![j].by = Noone, ![j].missing = {}]
  /\ UNCHANGED <<item, editor, received, raced>>

CatalogNext ==
  \/ \E e \in Editor, i \in Item :
       \/ CreateSku(e, i) \/ CreateUser(e, i) \/ CreateWarehouse(e, i)
       \/ UpdateSku(e, i) \/ UpdateUser(e, i) \/ UpdateWarehouse(e, i)
  \/ \E e \in Editor : Write(e) \/ Withdraw(e)
  \/ \E i \in Item : Deactivate(i)
  \/ \E j \in Job :
       \/ \E kind \in {"products", "stock"}, lines \in SUBSET Sku, bad \in BOOLEAN :
            Preview(j, kind, lines, bad)
       \/ \E e \in Editor, skipErrors \in BOOLEAN : BeginCommit(e, j, skipErrors)
       \/ CommitProducts(j) \/ CommitStock(j) \/ RollBackImport(j)

CatalogSpec == CatalogInit /\ [][CatalogNext]_catalogVars

-----------------------------------------------------------------------------
(***************************************************************************)
(* A tenant has no more active things of a kind than its plan allows, as   *)
(* long as no two of them were counted at the same time and none came from *)
(* a file: an import of products does not count (enforce_limit).           *)
(***************************************************************************)
LimitHolds ==
  \A kind \in ItemKind \ raced : Cardinality(ActiveOf(kind)) <= Limit[kind]

(***************************************************************************)
(* An import is applied once and as a whole, however often its commit is   *)
(* sent and whichever of them fail: the stock received is what the         *)
(* committed imports say, and their SKUs exist.                            *)
(***************************************************************************)
ImportedOnce ==
  \A i \in Sku :
    LET told(kind) == {j \in Job : job[j].status = "COMMITTED" /\ job[j].kind = kind /\ i \in job[j].good}
    IN  /\ received[i] = Cardinality(told("stock"))
        /\ told("products") \cup told("stock") # {} => item[i] # "NONE"

(* The plan is kept to and imports are applied once, whoever else edits or   *)
(* commits (enforce_limit, commit).                                          *)
CatalogHolds == LimitHolds /\ ImportedOnce
=============================================================================
