------------------------------ MODULE Assistant ------------------------------
(***************************************************************************)
(* The assistant (app/modules/assistant) as one user sees it in the        *)
(* windows he has open: what he asks is saved, answered by a language      *)
(* model that calls tools or by rules, and a tool that changes data is     *)
(* offered, to be confirmed with a request of its own.                     *)
(*                                                                         *)
(* A request is one transaction, also while the model is asked; it has     *)
(* the rights the user had when it began.  Orders move by the handlers of  *)
(* app/modules/orders; the stock that goes with them is OrderStock's.      *)
(***************************************************************************)
EXTENDS Naturals, Sequences, FiniteSets
LOCAL INSTANCE TLC

CONSTANTS
  Window,       \* where the user has the assistant open
  Spoken,       \* the orders he speaks of
  Saying,       \* what he says, as the rules see it
  Rights,       \* what he may do, from time to time
  Unnamed,      \* no order is named
  Remembered,   \* messages read for the model, the question too (11)
  MaxRounds,    \* calls of the model for a question (4)
  MaxMessages   \* bound

ASSUME AssistantAssumption ==
  /\ Remembered \in Nat \ {0} /\ MaxRounds \in Nat /\ MaxMessages \in Nat
  /\ Unnamed \notin Spoken
  /\ \A s \in Saying : s.order \in Spoken \cup {Unnamed}
  /\ Rights # {} /\ \A r \in Rights : r.readOnly \in BOOLEAN

VARIABLES
  standing,     \* status of each order
  rights,       \* what the user may do now
  thread,       \* the messages that are saved
  lastId,       \* identity of the last message, saved or not
  talk,         \* the request under way of each window
  screen,       \* the offers each window shows with a button to confirm
  executed,     \* commands of the assistant that took effect
  audited       \* entries of assistant.action in the audit log

assistantVars == <<standing, rights, thread, lastId, talk, screen, executed, audited>>

-----------------------------------------------------------------------------
(* The tools: what a user must be allowed, and his plan contain. *)
Anyone == ""
Asks(permission, feature) == [permission |-> permission, feature |-> feature]

OrderTools == [ringkasan_hari_ini |-> Asks("order:read", Anyone),
               cari_order         |-> Asks("order:read", Anyone),
               detail_order       |-> Asks("order:read", Anyone)]

FigureTools == [stok_sku        |-> Asks("inventory:read", Anyone),
                kinerja         |-> Asks("analytics:read", Anyone),
                order_terlambat |-> Asks("analytics:read", "analytics")]

ParcelTools == [lacak_paket   |-> Asks("shipping:read", Anyone),
                retur_terbuka |-> Asks("returns:read", Anyone)]

AiTools == [risiko_stok    |-> Asks("ai:read", "ai"),
            kurir_terbaik  |-> Asks("ai:read", "ai"),
            temuan_anomali |-> Asks("ai:read", "ai")]

WriteTools == [tandai_dibayar |-> Asks("order:write", Anyone),
               mulai_picking  |-> Asks("order:fulfill", Anyone),
               batalkan_order |-> Asks("order:write", Anyone)]

Registry == OrderTools @@ FigureTools @@ ParcelTools @@ AiTools @@ WriteTools

Has(r, feature) == feature \in r.features \cup {Anyone}

(* Without a tool's right it is neither shown nor run. *)
MayUse(r, t) == Registry[t].permission \in r.may /\ Has(r, Registry[t].feature)

Offered(r) == {t \in DOMAIN Registry : MayUse(r, t)}

(* What a command must pass on top of that (order:* is part of "oms"). *)
MayWrite(r, t) == Has(r, "oms") /\ ~r.readOnly

(* The statuses a command starts from and leads to: a paid order is allocated *)
(* at once when there is stock.                                               *)
Moves == [tandai_dibayar |-> [from |-> {"CREATED"}, to |-> {"PAID", "ALLOCATED"}],
          mulai_picking  |-> [from |-> {"ALLOCATED"}, to |-> {"PICKING"}],
          batalkan_order |-> [from |-> {"CREATED", "PAID", "ALLOCATED"}, to |-> {"CANCELLED"}]]

(* Others also allocate, or retry and find stock, and mark a payment failed. *)
OthersMoves == {Moves[t] : t \in DOMAIN Moves}
                 \cup {[from |-> {"PAID"}, to |-> {"ALLOCATED"}],
                       [from |-> {"CREATED", "PAID"}, to |-> {"FAILED"}]}

Standings == {"CREATED", "PAID", "ALLOCATED", "PICKING", "CANCELLED", "FAILED"}

Commands  == [tool : DOMAIN WriteTools, order : Spoken]
NoCommand == [tool |-> "none", order |-> Unnamed]

(* What the rules look for, in this order: with an order's number commands    *)
(* come first.                                                                *)
WithNumber == <<<<"cancel", "batalkan_order">>, <<"start picking", "mulai_picking">>,
                <<"mark paid", "tandai_dibayar">>, <<"parcel", "lacak_paket">>, <<"", "detail_order">>>>
WithoutNumber ==
  <<<<"parcel code", "lacak_paket">>, <<"odd", "temuan_anomali">>, <<"return", "retur_terbuka">>,
    <<"late", "order_terlambat">>, <<"runs out", "risiko_stok">>, <<"courier", "kurir_terbaik">>,
    <<"stock of", "stok_sku">>, <<"stock", "risiko_stok">>, <<"figures", "kinerja">>,
    <<"today", "ringkasan_hari_ini">>, <<"orders like", "cari_order">>, <<"orders", "ringkasan_hari_ini">>>>

Parse(s) ==
  LET rules == IF s.order = Unnamed THEN WithoutNumber ELSE WithNumber
      found == {k \in DOMAIN rules : rules[k][1] \in s.words \cup {""}}
      first == CHOOSE k \in found : \A j \in found : k <= j
  IN IF found = {} THEN NoCommand ELSE [tool |-> rules[first][2], order |-> s.order]

-----------------------------------------------------------------------------
MessageId == 1..MaxMessages

(* of: the question that is asked or answered, a command's own message. *)
Messages == [id : MessageId, role : {"user", "assistant"}, of : MessageId]

(* question: its message; context: the messages read for the model; rounds:  *)
(* calls of the model; offer: the command to be confirmed; failed: a         *)
(* statement failed and the transaction can only be rolled back; did, was:   *)
(* the command that is carried out, and the order's status before.           *)
Idle == [at |-> "idle", rights |-> CHOOSE r \in Rights : TRUE, question |-> 0, context |-> {}, rounds |-> 0,
         offer |-> NoCommand, failed |-> FALSE, did |-> NoCommand, was |-> "CREATED"]

Asking == {"asked", "thinking", "without model", "answered"}

Requests == [at : Asking \cup {"idle", "acting", "acted"}, rights : Rights, question : 0..MaxMessages,
             context : SUBSET MessageId, rounds : 0..MaxRounds, offer : Commands \cup {NoCommand},
             failed : BOOLEAN, did : Commands \cup {NoCommand}, was : Standings]

Records == [command : Commands, rights : Rights]

(* The rows are those of assistant_messages, a message is saved once, and the *)
(* model is given no more of them than the code reads.                        *)
AssistantTypeOK ==
  /\ standing \in [Spoken -> Standings]
  /\ rights \in Rights
  /\ thread \subseteq Messages /\ \A m, n \in thread : m.id = n.id => m = n
  /\ lastId \in 0..MaxMessages /\ \A m \in thread : m.id <= lastId
  /\ talk \in [Window -> Requests]
  /\ \A w \in Window : Cardinality(talk[w].context) < Remembered
  /\ screen \in [Window -> SUBSET Commands]
  /\ executed \in Seq(Records) /\ audited \in Seq(Records)

AssistantInit ==
  /\ standing \in [Spoken -> {"CREATED", "ALLOCATED"}]
  /\ rights \in Rights
  /\ thread = {} /\ lastId = 0
  /\ talk = [w \in Window |-> Idle]
  /\ screen \in [Window -> SUBSET Commands]
  /\ executed = <<>> /\ audited = <<>>

-----------------------------------------------------------------------------
Now(w, q) == talk' = [talk EXCEPT ![w] = q]

(* The orders are locked by the requests that carry out a command. *)
NotLocked(o) == \A w \in Window : talk[w].did.order # o

\* Mutant: the order is read without a lock.
OnlyRead(o) == TRUE

LockFree(o) == NotLocked(o)

(* run() of a tool: a command locks its order and moves it when its status   *)
(* allows it; a tool that reads changes nothing, or fails in the database.   *)
Ran(q, c) ==
  IF c.tool \notin DOMAIN WriteTools THEN {q, [q EXCEPT !.failed = TRUE]}
  ELSE IF LockFree(c.order) /\ standing[c.order] \in Moves[c.tool].from
       THEN {[q EXCEPT !.did = c, !.was = standing[c.order]]} ELSE {q}

(* The transaction of w is committed, with what it did. *)
TakesEffect(q) ==
  IF q.did = NoCommand THEN UNCHANGED <<standing, executed>>
  ELSE /\ \E st \in Moves[q.did.tool].to : standing' = [standing EXCEPT ![q.did.order] = st]
       /\ executed' = Append(executed, [command |-> q.did, rights |-> q.rights])

(* POST /chat: the question is saved, the rights are those of this moment. *)
BeginChat(w) ==
  /\ talk[w].at = "idle" /\ lastId < MaxMessages - 1
  /\ lastId' = lastId + 1
  /\ Now(w, [Idle EXCEPT !.at = "asked", !.rights = rights, !.question = lastId + 1])
  /\ UNCHANGED <<standing, rights, thread, screen, executed, audited>>

(* No more than so many. *)
Latest(ids) == {i \in ids : Cardinality({j \in ids : j > i}) < Remembered}

\* Mutant: the question stays among the messages before it.
AllRead(ids) == ids

(* The last one read is taken for the question. *)
Before(ids) == {i \in ids : \E j \in ids : j > i}

(* What is read is what others saved and the own question. *)
ReadHistory(w) ==
  /\ talk[w].at = "asked"
  /\ Now(w, [talk[w] EXCEPT !.at = "thinking",
                            !.context = Before(Latest({m.id : m \in thread} \cup {talk[w].question}))])
  /\ UNCHANGED <<standing, rights, thread, lastId, screen, executed, audited>>

\* Mutant: a command is not told from a tool that reads.
Questions(t) == FALSE

(* The tools that are offered and not run. *)
Writes(t) == t \in DOMAIN WriteTools

(* The model answers with calls: c is the first of an answer, which counts,  *)
(* or one more of the same.  A tool he may not use is refused; of the        *)
(* commands the last one is offered.                                         *)
CallTool(w, c) ==
  /\ talk[w].at = "thinking"
  /\ \E first \in {0, 1}, q \in IF c.tool \notin Offered(talk[w].rights) THEN {talk[w]}
              ELSE IF Writes(c.tool) THEN {[talk[w] EXCEPT !.offer = c]}
              ELSE Ran(talk[w], c) :
       /\ q.rounds + first \in 1..MaxRounds
       /\ Now(w, [q EXCEPT !.rounds = @ + first])
  /\ UNCHANGED <<standing, rights, thread, lastId, screen, executed, audited>>

(* The model is asked, again after its calls, and cannot be reached, refuses *)
(* or takes too long.                                                        *)
ModelFails(w) ==
  /\ talk[w].at = "thinking" /\ talk[w].rounds < MaxRounds
  /\ Now(w, [talk[w] EXCEPT !.at = "without model", !.offer = NoCommand])
  /\ UNCHANGED <<standing, rights, thread, lastId, screen, executed, audited>>

(* The rules answer, where there is no model or it failed. *)
RulesAnswer(w, s) ==
  /\ talk[w].at \in {"asked", "without model"}
  /\ LET c == Parse(s) IN
     \E q \in IF c = NoCommand THEN {talk[w]}
              ELSE IF Writes(c.tool) THEN {[talk[w] EXCEPT !.offer = c]}
              ELSE IF ~MayUse(talk[w].rights, c.tool) THEN {talk[w]}
              ELSE Ran(talk[w], c) :
       Now(w, [q EXCEPT !.at = "answered"])
  /\ UNCHANGED <<standing, rights, thread, lastId, screen, executed, audited>>

Pair(q, n) == {[id |-> q.question, role |-> "user", of |-> q.question],
               [id |-> n, role |-> "assistant", of |-> q.question]}

(* The answer cannot be saved in a transaction that failed, nor the question. *)
Saved(q, n) == IF q.failed THEN {} ELSE Pair(q, n)

(* The answer is saved and the request committed.  The window shows the      *)
(* offer, unless the answer is lost on its way.                              *)
EndChat(w) ==
  LET q == talk[w] IN
  /\ q.at \in {"thinking", "answered"} /\ lastId < MaxMessages
  /\ thread' = thread \cup Saved(q, lastId + 1)
  /\ lastId' = IF q.failed THEN lastId ELSE lastId + 1
  /\ TakesEffect(q)
  /\ screen' \in {screen, [screen EXCEPT ![w] = @ \cup ({q.offer} \ {NoCommand})]}
  /\ q.failed => screen' = screen
  /\ Now(w, Idle)
  /\ UNCHANGED <<rights, audited>>

(* POST /act, as the button sends it.  The offer is not known to the server. *)
Confirm(w, c) ==
  /\ talk[w].at = "idle" /\ c \in screen[w] /\ lastId < MaxMessages
  /\ MayWrite(rights, c.tool) /\ MayUse(rights, c.tool)
  /\ Now(w, [Idle EXCEPT !.at = "acting", !.rights = rights, !.offer = c])
  /\ UNCHANGED <<standing, rights, thread, lastId, screen, executed, audited>>

LockOrder(w) ==
  /\ talk[w].at = "acting"
  /\ \E q \in Ran(talk[w], talk[w].offer) : q.did # NoCommand /\ Now(w, [q EXCEPT !.at = "acted"])
  /\ UNCHANGED <<standing, rights, thread, lastId, screen, executed, audited>>

(* The command, its entry in the audit log and the reply are committed.  A   *)
(* window that does not get the answer goes on showing the offer.            *)
CommitAct(w) ==
  LET q == talk[w] IN
  /\ q.at = "acted" /\ lastId < MaxMessages
  /\ TakesEffect(q)
  /\ audited' = Append(audited, [command |-> q.did, rights |-> q.rights])
  /\ thread' = thread \cup {[id |-> lastId + 1, role |-> "assistant", of |-> lastId + 1]}
  /\ lastId' = lastId + 1
  /\ screen' \in {screen, [screen EXCEPT ![w] = @ \ {q.offer}]}
  /\ Now(w, Idle)
  /\ UNCHANGED rights

(* Refused for the order's status or its stock, or broken off. *)
Abort(w) ==
  /\ talk[w].at # "idle"
  /\ Now(w, Idle)
  /\ UNCHANGED <<standing, rights, thread, lastId, screen, executed, audited>>

(* The user declines. *)
Dismiss(w, c) ==
  /\ talk[w].at = "idle" /\ c \in screen[w]
  /\ screen' = [screen EXCEPT ![w] = @ \ {c}]
  /\ UNCHANGED <<standing, rights, thread, lastId, talk, executed, audited>>

ClearHistory ==
  /\ thread # {} /\ thread' = {}
  /\ UNCHANGED <<standing, rights, lastId, talk, screen, executed, audited>>

(* Other requests move the same orders, with the same handlers. *)
OthersMove(m, o) ==
  /\ NotLocked(o) /\ standing[o] \in m.from
  /\ \E st \in m.to : standing' = [standing EXCEPT ![o] = st]
  /\ UNCHANGED <<rights, thread, lastId, talk, screen, executed, audited>>

(* The user's roles, the tenant's plan or its subscription change. *)
RightsChange(r) ==
  /\ rights # r /\ rights' = r
  /\ UNCHANGED <<standing, thread, lastId, talk, screen, executed, audited>>

AssistantNext ==
  \/ \E w \in Window :
       \/ BeginChat(w) \/ ReadHistory(w) \/ ModelFails(w) \/ EndChat(w)
       \/ LockOrder(w) \/ CommitAct(w) \/ Abort(w)
       \/ \E s \in Saying : RulesAnswer(w, s)
       \/ \E t \in DOMAIN Registry, o \in Spoken : CallTool(w, [tool |-> t, order |-> o])
       \/ \E c \in Commands : Confirm(w, c) \/ Dismiss(w, c)
  \/ ClearHistory
  \/ \E m \in OthersMoves, o \in Spoken : OthersMove(m, o)
  \/ \E r \in Rights : RightsChange(r)

AssistantSpec == AssistantInit /\ [][AssistantNext]_assistantVars

-----------------------------------------------------------------------------
(* docs/ASISTEN.md: a command is never carried out by a question, and every  *)
(* one that was carried out is in the audit log: both go through the same    *)
(* run(), and only /act writes the entry.                                    *)
CommandsAreRecorded == executed = audited

(* The assistant has no rights of its own: a command that took effect was    *)
(* allowed when it was confirmed, whatever was allowed when it was offered,  *)
(* and never while the subscription is read only.                            *)
CommandsAreAllowed ==
  \A i \in DOMAIN executed :
    LET e == executed[i] IN
    /\ e.rights.readOnly = FALSE /\ "oms" \in e.rights.features
    /\ Registry[e.command.tool].permission \in e.rights.may

(* An offer confirmed in two windows, or once more because the answer was    *)
(* lost, takes effect once; after a cancellation nothing does.               *)
CommandsTakeEffectOnce ==
  \A i, j \in DOMAIN executed :
    i < j /\ executed[i].command.order = executed[j].command.order =>
      executed[i].command.tool \notin {executed[j].command.tool, "batalkan_order"}

(* No question is kept without its answer, and no answer without its         *)
(* question, also when a tool or the model failed or the history was cleared *)
(* while the model was asked.                                                *)
QuestionsKeepAnswers ==
  \A m \in thread : m.of # m.id \/ m.role = "user" =>
    \E n \in thread : n.of = m.of /\ n.role # m.role

(* The model is given the question once, after what was said before it, if   *)
(* no other request of the user takes a later identity for a message of its  *)
(* own: a second window that does so and commits first makes the code take   *)
(* that message for the question, and give the model the question twice.     *)
QuestionIsAskedOnce ==
  \A w \in Window :
    talk[w].at = "thinking" /\ talk[w].question \in talk[w].context => lastId > talk[w].question

(* Whatever the assistant has done was allowed to somebody, and is known. *)
CommandsAreAccountedFor == CommandsAreRecorded /\ CommandsAreAllowed

(* The conversation is kept whole and, unless two windows save messages at   *)
(* once, given to the model in its order.                                    *)
ConversationIsKept == QuestionsKeepAnswers /\ QuestionIsAskedOnce
=============================================================================
