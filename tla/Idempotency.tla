----------------------------- MODULE Idempotency -----------------------------
(***************************************************************************)
(* One Idempotency-Key: app/core/idempotency.py, as create_order() of      *)
(* app/modules/orders/router.py and the scanner of the warehouse use it.   *)
(*                                                                         *)
(* The senders share the key: one client that repeats a request whose      *)
(* answer it did not get, or several.  A request is a transaction; it      *)
(* inserts the key, does its work and writes its answer beside the key.    *)
(* An INSERT of a key somebody else has inserted waits for his commit.     *)
(***************************************************************************)
EXTENDS Naturals, Sequences

CONSTANTS
  Sender,    \* who uses the key
  Body,      \* what can be asked with it
  MaxMade,   \* bound: how often it is done
  Nothing

ASSUME IdempotencyAssumption ==
  /\ MaxMade \in Nat /\ Nothing \notin Body /\ Nothing \notin Sender
  /\ Nothing \notin [body : Body, answer : 0..MaxMade]

VARIABLES
  keyRow,     \* the committed row of the key: its body and its answer
  inserting,  \* the request whose row is not committed yet
  sender,     \* the request of each sender
  did,        \* what was done, in the order of the commits
  purged      \* the key was purged since

idempotencyVars == <<keyRow, inserting, sender, did, purged>>

(* An answer is the number of what was done; 0 is none. *)
Answer == 0..MaxMade

KeyRows == [body : Body, answer : Answer] \cup {Nothing}

Requests == [at : {"nowhere", "sent", "found", "working", "answered", "refused"},
             body : Body \cup {Nothing}, owns : BOOLEAN, answer : Answer]
NotSent  == [at |-> "nowhere", body |-> Nothing, owns |-> FALSE, answer |-> 0]

IdempotencyTypeOK ==
  /\ keyRow \in KeyRows
  /\ inserting \in Sender \cup {Nothing}
  /\ sender \in [Sender -> Requests]
  /\ did \in Seq(Body) /\ Len(did) <= MaxMade
  /\ purged \in BOOLEAN

IdempotencyInit ==
  /\ keyRow = Nothing /\ inserting = Nothing
  /\ sender = [s \in Sender |-> NotSent]
  /\ did = <<>>
  /\ purged = FALSE

-----------------------------------------------------------------------------
(* A sender that has its answer sends no more; one that has none asks the    *)
(* same again.                                                               *)
Send(s, body) ==
  /\ sender[s].at = "nowhere"
  /\ sender[s].body \in {Nothing, body}
  /\ sender' = [sender EXCEPT ![s].at = "sent", ![s].body = body]
  /\ UNCHANGED <<keyRow, inserting, did, purged>>

NobodyInserts == inserting = Nothing

(* begin(): INSERT ... ON CONFLICT DO NOTHING, once nobody else inserts. *)
InsertKey(s) ==
  /\ sender[s].at = "sent" /\ NobodyInserts
  /\ IF keyRow = Nothing
     THEN /\ inserting' = s
          /\ sender' = [sender EXCEPT ![s].at = "working", ![s].owns = TRUE]
     ELSE /\ sender' = [sender EXCEPT ![s].at = "found"]
          /\ UNCHANGED inserting
  /\ UNCHANGED <<keyRow, did, purged>>

\* Mutant: what was asked is not compared.
AnyRequest(row, body) == TRUE

SameRequest(row, body) == row.body = body

(* begin(): the row of the key.  It may have been purged meanwhile: the      *)
(* request goes on as a new one, without a row of its own.                   *)
LookAtKey(s) ==
  /\ sender[s].at = "found"
  /\ sender' = [sender EXCEPT ![s] =
       IF keyRow = Nothing THEN [@ EXCEPT !.at = "working"]
       ELSE IF ~SameRequest(keyRow, @.body) \/ keyRow.answer = 0 THEN [@ EXCEPT !.at = "refused"]
       ELSE [@ EXCEPT !.at = "answered", !.answer = keyRow.answer]]
  /\ UNCHANGED <<keyRow, inserting, did, purged>>

(* complete() and the commit.  A request without a row of its own writes its *)
(* answer into the row it finds.                                             *)
Completed(s, n) ==
  IF sender[s].owns THEN [body |-> sender[s].body, answer |-> n]
  ELSE IF keyRow # Nothing THEN [keyRow EXCEPT !.answer = n]
  ELSE Nothing

Complete(s) ==
  /\ sender[s].at = "working" /\ Len(did) < MaxMade
  /\ did' = Append(did, sender[s].body)
  /\ keyRow' = Completed(s, Len(did) + 1)
  /\ inserting' = IF sender[s].owns THEN Nothing ELSE inserting
  /\ sender' \in {[sender EXCEPT ![s] = [@ EXCEPT !.at = "answered", !.owns = FALSE, !.answer = Len(did) + 1]],
                  [sender EXCEPT ![s] = [NotSent EXCEPT !.body = sender[s].body]]}
  /\ UNCHANGED purged

(* The work fails, or the connection is lost before the commit. *)
FailWork(s) ==
  /\ sender[s].at \in {"sent", "found", "working"}
  /\ inserting' = IF inserting = s THEN Nothing ELSE inserting
  /\ sender' = [sender EXCEPT ![s] = [NotSent EXCEPT !.body = sender[s].body]]
  /\ UNCHANGED <<keyRow, did, purged>>

(* run_maintenance(): the key is older than idempotency_ttl_hours. *)
Purge ==
  /\ keyRow # Nothing /\ ~purged
  /\ keyRow' = Nothing /\ purged' = TRUE
  /\ UNCHANGED <<inserting, sender, did>>

IdempotencyNext ==
  \/ Purge
  \/ \E s \in Sender :
       \/ InsertKey(s) \/ LookAtKey(s) \/ Complete(s) \/ FailWork(s)
       \/ \E body \in Body : Send(s, body)

IdempotencySpec == IdempotencyInit /\ [][IdempotencyNext]_idempotencyVars

-----------------------------------------------------------------------------
(***************************************************************************)
(* What is asked with one key is done once while the key is kept, however  *)
(* often it is sent and whatever fails in between (begin).                 *)
(***************************************************************************)
DoneOnce == ~purged => Len(did) <= 1

(***************************************************************************)
(* A sender is told of something that was done, never of what was rolled   *)
(* back, and while the key is kept of what it asked for.  (A request that  *)
(* found its key purged has no row of its own: its answer goes to whoever  *)
(* has taken the key meanwhile.)                                           *)
(***************************************************************************)
AnswersAreTrue ==
  \A s \in Sender : sender[s].at = "answered"
    => /\ sender[s].answer \in DOMAIN did
       /\ ~purged => did[sender[s].answer] = sender[s].body

(***************************************************************************)
(* A key that can be found has its answer: it is committed with what was   *)
(* done, and IDEMPOTENCY_IN_PROGRESS is told to nobody.                    *)
(***************************************************************************)
FoundKeysAreAnswered == keyRow # Nothing => keyRow.answer \in DOMAIN did

(***************************************************************************)
(* What a client may rely on when it repeats a request with its key.       *)
(***************************************************************************)
KeyHolds == DoneOnce /\ AnswersAreTrue /\ FoundKeysAreAnswered
=============================================================================
