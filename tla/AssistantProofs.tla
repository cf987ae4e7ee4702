--------------------------- MODULE AssistantProofs ---------------------------
(***************************************************************************)
(* Theorems about Assistant for any number of windows, orders, messages    *)
(* and calls of the model, by one inductive invariant, and about the types *)
(* of all that Insight puts together.                                      *)
(***************************************************************************)
EXTENDS Insight, DeliveryProofs, InsightProofs

-----------------------------------------------------------------------------
(* What a request may be about: the rules name orders that he spoke of, and *)
(* the model any of them.                                                    *)
Speakable == Commands \cup {NoCommand} \cup {Parse(s) : s \in Saying}

Shape == [at : Asking \cup {"idle", "acting", "acted"}, rights : Rights, question : Nat, context : SUBSET Nat,
          rounds : Nat, offer : Speakable, failed : BOOLEAN, did : Commands \cup {NoCommand}, was : Standings]

Typed ==
  /\ standing \in [Spoken -> Standings]
  /\ rights \in Rights
  /\ lastId \in Nat /\ \A m \in thread : m.id \in Nat
  /\ talk \in [Window -> Shape]
  /\ executed \in Seq(Records)

(* Only a confirmed command is carried out, from a status that allows it, *)
(* and by who may when it is confirmed.                                      *)
Allowed(q) == /\ q.offer \in Commands
              /\ MayWrite(q.rights, q.offer.tool)
              /\ MayUse(q.rights, q.offer.tool)

SaneRequest(q) ==
  /\ q.did # NoCommand => q.at = "acted"
  /\ q.at \in {"acting", "acted"} => Allowed(q)
  /\ q.at = "acted" => q.did = q.offer /\ q.was \in Moves[q.did.tool].from

(* An order that a command is carried out on stays as it was found, and no *)
(* other request carries out one on it.                                      *)
Locks ==
  \A w \in Window : talk[w].at = "acted" =>
    /\ standing[talk[w].did.order] = talk[w].was
    /\ \A v \in Window : talk[v].at = "acted" /\ talk[v].did.order = talk[w].did.order => v = w

(* Where an order can be after a command. *)
Past == [tandai_dibayar |-> {"PAID", "ALLOCATED", "PICKING", "CANCELLED", "FAILED"},
         mulai_picking  |-> {"PICKING"},
         batalkan_order |-> {"CANCELLED"}]

Behind == \A i \in DOMAIN executed :
  standing[executed[i].command.order] \in Past[executed[i].command.tool]

Good ==
  /\ Typed
  /\ \A w \in Window : SaneRequest(talk[w])
  /\ Locks
  /\ Behind
  /\ CommandsAreRecorded
  /\ CommandsAreAllowed
  /\ CommandsTakeEffectOnce

-----------------------------------------------------------------------------
(* The commands that change data, by name. *)
LEMMA WriteNames == DOMAIN WriteTools = {"tandai_dibayar", "mulai_picking", "batalkan_order"}
  BY DEF WriteTools

(* No command is not a command. *)
LEMMA NoneIsNone == NoCommand \notin Commands /\ NoCommand.tool \notin DOMAIN WriteTools
  BY WriteNames DEF NoCommand, Commands

(* No command starts from where an order is after the same command, or after  *)
(* a cancellation.                                                           *)
LEMMA NoWayBack ==
  ASSUME NEW t \in DOMAIN WriteTools, NEW u \in DOMAIN WriteTools, NEW st \in Past[t], st \in Moves[u].from
  PROVE  /\ t # u /\ t # "batalkan_order"
         /\ Moves[u].to \subseteq Past[t]
  BY WriteNames DEF Past, Moves

(* Nor do others take an order back. *)
LEMMA NoneTakesBack ==
  ASSUME NEW t \in DOMAIN WriteTools, NEW m \in OthersMoves, NEW st \in Past[t], st \in m.from
  PROVE  m.to \subseteq Past[t]
  <1>1. CASE m \in {Moves[u] : u \in DOMAIN Moves}
    <2>1. PICK u \in DOMAIN WriteTools : m = Moves[u]
      BY <1>1, WriteNames DEF Moves
    <2> QED
      BY <2>1, NoWayBack
  <1>2. CASE m \in {[from |-> {"PAID"}, to |-> {"ALLOCATED"}], [from |-> {"CREATED", "PAID"}, to |-> {"FAILED"}]}
    BY <1>2, WriteNames DEF Past
  <1> QED
    BY <1>1, <1>2 DEF OthersMoves

LEMMA OthersLead == \A m \in OthersMoves : m.to \subseteq Standings
  BY DEF OthersMoves, Moves, Standings

(* Where a command leads to is behind it. *)
LEMMA LeadsPast ==
  ASSUME NEW t \in DOMAIN WriteTools
  PROVE  Moves[t].to \subseteq Past[t] /\ Moves[t].to \subseteq Standings
  BY WriteNames DEF Past, Moves, Standings

(* A request that is not under way. *)
LEMMA IdleShape == Idle \in Shape /\ Idle.at = "idle" /\ Idle.did = NoCommand /\ SaneRequest(Idle)
  <1>1. (CHOOSE r \in Rights : TRUE) \in Rights
    BY AssistantAssumption
  <1>2. Idle \in Shape
    BY <1>1 DEF Idle, Shape, Speakable, Asking, Standings
  <1>3. Idle.at = "idle" /\ Idle.did = NoCommand
    BY DEF Idle
  <1> QED
    BY <1>2, <1>3 DEF SaneRequest

(* The invariant holds at first. *)
LEMMA GoodAtFirst == AssistantInit => Good
  <1> SUFFICES ASSUME AssistantInit PROVE Good
    OBVIOUS
  <1>1. Typed
    BY IdleShape DEF AssistantInit, Typed, Standings
  <1>2. \A w \in Window : talk[w] = Idle
    BY DEF AssistantInit
  <1>3. (\A w \in Window : SaneRequest(talk[w])) /\ Locks
    BY <1>2, IdleShape DEF Locks
  <1>4. executed = <<>> /\ audited = <<>>
    BY DEF AssistantInit
  <1>5. Behind /\ CommandsAreRecorded /\ CommandsAreAllowed /\ CommandsTakeEffectOnce
    BY <1>4 DEF Behind, CommandsAreRecorded, CommandsAreAllowed, CommandsTakeEffectOnce
  <1> QED
    BY <1>1, <1>3, <1>5 DEF Good

(* A step that only brings one request to where nothing is carried out. *)
LEMMA TalkKeeps ==
  ASSUME Good, NEW w \in Window, NEW q \in Shape, q.at # "acted", SaneRequest(q), Now(w, q),
         UNCHANGED <<standing, executed, audited>>,
         rights' \in Rights, lastId' \in Nat, \A m \in thread' : m.id \in Nat
  PROVE  Good'
  <1>1. \A v \in Window : talk'[v] = IF v = w THEN q ELSE talk[v]
    BY DEF Good, Typed, Now
  <1>2. Typed'
    BY DEF Good, Typed, Now
  <1>3. \A v \in Window : SaneRequest(talk[v])'
    BY <1>1 DEF Good, SaneRequest, Allowed
  <1>4. Locks'
    BY <1>1 DEF Good, Locks
  <1>5. Behind' /\ CommandsAreRecorded' /\ CommandsAreAllowed' /\ CommandsTakeEffectOnce'
    BY DEF Good, Behind, CommandsAreRecorded, CommandsAreAllowed, CommandsTakeEffectOnce
  <1> QED
    BY <1>2, <1>3, <1>4, <1>5 DEF Good

(* A step that touches no order and no request. *)
LEMMA StillKeeps ==
  ASSUME Good, UNCHANGED <<standing, talk, executed, audited>>,
         rights' \in Rights, lastId' \in Nat, \A m \in thread' : m.id \in Nat
  PROVE  Good'
  <1>1. Typed'
    BY DEF Good, Typed
  <1>2. (\A v \in Window : SaneRequest(talk[v])') /\ Locks'
    BY DEF Good, SaneRequest, Allowed, Locks
  <1>3. Behind' /\ CommandsAreRecorded' /\ CommandsAreAllowed' /\ CommandsTakeEffectOnce'
    BY DEF Good, Behind, CommandsAreRecorded, CommandsAreAllowed, CommandsTakeEffectOnce
  <1> QED
    BY <1>1, <1>2, <1>3 DEF Good

(* An order that no request has locked is moved, by a command or by others. *)
LEMMA MoveTells ==
  ASSUME Good, NEW m \in OthersMoves, NEW o \in Spoken, standing[o] \in m.from,
         NEW st \in m.to, standing' = [standing EXCEPT ![o] = st]
  PROVE  /\ standing' \in [Spoken -> Standings]
         /\ \A i \in DOMAIN executed :
              standing'[executed[i].command.order] \in Past[executed[i].command.tool]
  <1>2. standing' \in [Spoken -> Standings]
    BY OthersLead DEF Good, Typed
  <1>3. ASSUME NEW i \in DOMAIN executed
        PROVE  standing'[executed[i].command.order] \in Past[executed[i].command.tool]
    <2> DEFINE e == executed[i].command
    <2>0. executed[i] \in Records
      BY DEF Good, Typed
    <2>1. e \in Commands
      BY <2>0 DEF Records
    <2>2. e.tool \in DOMAIN WriteTools /\ e.order \in Spoken
      BY <2>1 DEF Commands
    <2>3. standing[e.order] \in Past[e.tool]
      BY DEF Good, Behind
    <2>4. standing'[e.order] = IF e.order = o THEN st ELSE standing[e.order]
      BY <2>2 DEF Good, Typed
    <2> HIDE DEF e
    <2>5. CASE e.order = o
      <3>1. m.to \subseteq Past[e.tool]
        BY <2>2, <2>3, <2>5, NoneTakesBack
      <3>2. standing'[e.order] \in Past[e.tool]
        BY <2>4, <2>5, <3>1
      <3> QED
        BY <3>2 DEF e
    <2>6. CASE e.order # o
      <3>1. standing'[e.order] \in Past[e.tool]
        BY <2>3, <2>4, <2>6
      <3> QED
        BY <3>1 DEF e
    <2> QED
      BY <2>5, <2>6
  <1> QED
    BY <1>2, <1>3

LEMMA CommandTells ==
  ASSUME Good, NEW c \in Commands, standing[c.order] \in Moves[c.tool].from,
         NEW st \in Moves[c.tool].to, standing' = [standing EXCEPT ![c.order] = st]
  PROVE  /\ standing' \in [Spoken -> Standings]
         /\ \A i \in DOMAIN executed :
              standing'[executed[i].command.order] \in Past[executed[i].command.tool]
  <1>1. c.tool \in DOMAIN Moves /\ c.order \in Spoken
    BY WriteNames DEF Commands, Moves
  <1>2. Moves[c.tool] \in OthersMoves
    BY <1>1 DEF OthersMoves
  <1>3. PICK m, o : m = Moves[c.tool] /\ o = c.order
    OBVIOUS
  <1> QED
    BY <1>1, <1>2, <1>3, MoveTells

(* Others leave alone what a request has locked. *)
LEMMA OthersKeep ==
  ASSUME Good, NEW m \in OthersMoves, NEW o \in Spoken, OthersMove(m, o)
  PROVE  Good'
  <1>0. /\ standing[o] \in m.from
        /\ UNCHANGED <<rights, thread, lastId, talk, executed, audited>>
        /\ \A w \in Window : talk[w].did.order # o
    BY DEF OthersMove, NotLocked
  <1>1. PICK st \in m.to : standing' = [standing EXCEPT ![o] = st]
    BY DEF OthersMove
  <1>2. standing' \in [Spoken -> Standings] /\ Behind'
    BY <1>0, <1>1, MoveTells DEF Behind
  <1>3. Typed'
    BY <1>0, <1>2 DEF Good, Typed
  <1>5. (\A w \in Window : SaneRequest(talk[w])') /\ Locks'
    BY <1>0, <1>1 DEF Good, SaneRequest, Allowed, Locks, Typed
  <1>6. CommandsAreRecorded' /\ CommandsAreAllowed' /\ CommandsTakeEffectOnce'
    BY <1>0 DEF Good, CommandsAreRecorded, CommandsAreAllowed, CommandsTakeEffectOnce
  <1> QED
    BY <1>2, <1>3, <1>5, <1>6 DEF Good

(* A confirmed command finds its order free and in a status that allows it. *)
LEMMA LockKeeps ==
  ASSUME Good, NEW w \in Window, LockOrder(w)
  PROVE  Good'
  <1>0. /\ talk[w].at = "acting" /\ talk[w] \in Shape /\ SaneRequest(talk[w])
        /\ UNCHANGED <<standing, rights, thread, lastId, executed, audited>>
    BY DEF LockOrder, Good, Typed
  <1> DEFINE c == talk[w].offer
             q == [talk[w] EXCEPT !.did = c, !.was = standing[c.order], !.at = "acted"]
  <1>1. c \in Commands /\ Allowed(talk[w]) /\ talk[w].did = NoCommand
    BY <1>0 DEF SaneRequest, Allowed
  <1>2. c.tool \in DOMAIN WriteTools /\ c.order \in Spoken
    BY <1>1 DEF Commands
  <1>3. PICK r \in Ran(talk[w], c) : r.did # NoCommand /\ Now(w, [r EXCEPT !.at = "acted"])
    BY DEF LockOrder
  <1>4. /\ LockFree(c.order) /\ standing[c.order] \in Moves[c.tool].from
        /\ r = [talk[w] EXCEPT !.did = c, !.was = standing[c.order]]
    BY <1>1, <1>2, <1>3 DEF Ran
  <1>5. Now(w, q) /\ \A v \in Window : talk[v].did.order # c.order
    BY <1>3, <1>4 DEF LockFree, NotLocked, Now
  <1>6. standing[c.order] \in Standings
    BY <1>2 DEF Good, Typed
  <1>7. /\ q \in Shape /\ q.at = "acted" /\ q.did = c /\ q.offer = c
        /\ q.was = standing[c.order] /\ q.rights = talk[w].rights
    BY <1>0, <1>1, <1>6 DEF Shape
  <1> HIDE DEF q
  <1>8. \A v \in Window : talk'[v] = IF v = w THEN q ELSE talk[v]
    BY <1>5 DEF Good, Typed, Now
  <1>9. Typed'
    BY <1>0, <1>5, <1>7 DEF Good, Typed, Now
  <1>10. SaneRequest(q)
    BY <1>1, <1>4, <1>7 DEF SaneRequest, Allowed
  <1>11. \A v \in Window : SaneRequest(talk[v])'
    BY <1>8, <1>10 DEF Good, SaneRequest, Allowed
  <1>12. Locks'
    BY <1>0, <1>5, <1>7, <1>8 DEF Good, Locks
  <1>13. Behind' /\ CommandsAreRecorded' /\ CommandsAreAllowed' /\ CommandsTakeEffectOnce'
    BY <1>0 DEF Good, Behind, CommandsAreRecorded, CommandsAreAllowed, CommandsTakeEffectOnce
  <1> QED
    BY <1>9, <1>11, <1>12, <1>13 DEF Good

(* A command takes effect once more than before, and not after its like. *)
LEMMA AppendTells ==
  ASSUME Good, NEW e \in Records, executed' = Append(executed, e),
         standing[e.command.order] \in Moves[e.command.tool].from,
         NEW st \in Moves[e.command.tool].to, standing' = [standing EXCEPT ![e.command.order] = st],
         MayWrite(e.rights, e.command.tool), MayUse(e.rights, e.command.tool)
  PROVE  Behind' /\ CommandsAreAllowed' /\ CommandsTakeEffectOnce'
  <1>1. e.command \in Commands
    BY DEF Records
  <1>2. e.command.tool \in DOMAIN WriteTools /\ e.command.order \in Spoken
    BY <1>1 DEF Commands
  <1>3. executed \in Seq(Records)
    BY DEF Good, Typed
  <1>4. /\ executed' \in Seq(Records) /\ DOMAIN executed' = 1..(Len(executed) + 1)
        /\ DOMAIN executed = 1..Len(executed) /\ Len(executed) \in Nat
        /\ \A i \in DOMAIN executed : executed'[i] = executed[i]
        /\ executed'[Len(executed) + 1] = e
    BY <1>3
  <1>5. \A i \in DOMAIN executed' : i \in DOMAIN executed \/ i = Len(executed) + 1
    BY <1>4
  <1>6. \A i \in DOMAIN executed :
          standing'[executed[i].command.order] \in Past[executed[i].command.tool]
    BY <1>1, CommandTells
  <1>7. standing'[e.command.order] \in Past[e.command.tool]
    <2>1. standing'[e.command.order] = st
      BY <1>2 DEF Good, Typed
    <2> QED
      BY <1>2, <2>1, LeadsPast
  <1>8. Behind'
    BY <1>4, <1>5, <1>6, <1>7 DEF Behind
  <1>9. CommandsAreAllowed'
    <2>1. e.rights \in Rights
      BY DEF Records
    <2>2. e.rights.readOnly = FALSE /\ "oms" \in e.rights.features
      BY <2>1, AssistantAssumption DEF MayWrite, Has, Anyone
    <2>3. Registry[e.command.tool].permission \in e.rights.may
      BY DEF MayUse
    <2> QED
      BY <1>4, <1>5, <2>2, <2>3 DEF Good, CommandsAreAllowed
  <1>10. ASSUME NEW i \in DOMAIN executed, executed[i].command.order = e.command.order
         PROVE  executed[i].command.tool \notin {e.command.tool, "batalkan_order"}
    <2>1. executed[i] \in Records
      BY <1>3
    <2>2. executed[i].command.tool \in DOMAIN WriteTools
      BY <2>1 DEF Records, Commands
    <2>3. standing[e.command.order] \in Past[executed[i].command.tool]
      BY <1>10 DEF Good, Behind
    <2> QED
      BY <1>2, <2>2, <2>3, NoWayBack
  <1>11. CommandsTakeEffectOnce'
    <2> SUFFICES ASSUME NEW i \in DOMAIN executed', NEW j \in DOMAIN executed', i < j,
                        executed'[i].command.order = executed'[j].command.order
                 PROVE  executed'[i].command.tool \notin {executed'[j].command.tool, "batalkan_order"}
      BY DEF CommandsTakeEffectOnce
    <2>1. i \in DOMAIN executed
      BY <1>4
    <2>2. CASE j \in DOMAIN executed
      BY <1>4, <2>1, <2>2 DEF Good, CommandsTakeEffectOnce
    <2>3. CASE j = Len(executed) + 1
      BY <1>4, <1>10, <2>1, <2>3
    <2> QED
      BY <1>5, <2>2, <2>3
  <1> QED
    BY <1>8, <1>9, <1>11

(* A confirmed command is committed with its entry. *)
LEMMA CommitActKeeps ==
  ASSUME Good, NEW w \in Window, CommitAct(w)
  PROVE  Good'
  <1> DEFINE q == talk[w]
             e == [command |-> q.did, rights |-> q.rights]
  <1>0. q.at = "acted" /\ q \in Shape /\ SaneRequest(q) /\ TakesEffect(q) /\ Now(w, Idle) /\ rights' = rights
    BY DEF CommitAct, Good, Typed
  <1>1. q.did = q.offer /\ q.did \in Commands /\ q.rights \in Rights
    BY <1>0 DEF SaneRequest, Allowed, Shape
  <1>2. q.did # NoCommand /\ q.did.tool \in DOMAIN WriteTools /\ q.did.order \in Spoken
    BY <1>1, NoneIsNone DEF Commands
  <1>3. executed' = Append(executed, e) /\ audited' = Append(audited, e)
    BY <1>2, <1>0 DEF TakesEffect, CommitAct
  <1>4. PICK st \in Moves[q.did.tool].to : standing' = [standing EXCEPT ![q.did.order] = st]
    BY <1>2, <1>0 DEF TakesEffect
  <1>5. /\ standing[q.did.order] = q.was /\ q.was \in Moves[q.did.tool].from
        /\ \A v \in Window : talk[v].at = "acted" /\ talk[v].did.order = q.did.order => v = w
    BY <1>0 DEF Good, Locks, SaneRequest
  <1>6. e \in Records /\ e.command = q.did /\ e.rights = q.rights
    BY <1>1 DEF Records
  <1>7. MayWrite(e.rights, e.command.tool) /\ MayUse(e.rights, e.command.tool)
    BY <1>0, <1>1, <1>6 DEF SaneRequest, Allowed
  <1> HIDE DEF e
  <1>8. Behind' /\ CommandsAreAllowed' /\ CommandsTakeEffectOnce'
    BY <1>3, <1>4, <1>5, <1>6, <1>7, AppendTells
  <1>9. CommandsAreRecorded'
    BY <1>3 DEF Good, CommandsAreRecorded
  <1>10. \A v \in Window : talk'[v] = IF v = w THEN Idle ELSE talk[v]
    BY <1>0 DEF Good, Typed, Now
  <1>11. Typed'
    <2>1. standing' \in [Spoken -> Standings]
      BY <1>1, <1>4, <1>5, CommandTells
    <2>2. executed' \in Seq(Records)
      BY <1>3, <1>6 DEF Good, Typed
    <2>3. lastId' \in Nat /\ \A m \in thread' : m.id \in Nat
      BY DEF CommitAct, Good, Typed
    <2>4. talk' \in [Window -> Shape]
      BY <1>0, IdleShape DEF Good, Typed, Now
    <2> QED
      BY <1>0, <2>1, <2>2, <2>3, <2>4 DEF Good, Typed
  <1>12. \A v \in Window : SaneRequest(talk[v])'
    <2>1. \A v \in Window : SaneRequest(talk'[v])
      BY <1>10, IdleShape DEF Good
    <2> QED
      BY <2>1 DEF SaneRequest, Allowed
  <1>13. Locks'
    <2>1. \A o : o # q.did.order => standing'[o] = standing[o]
      BY <1>4 DEF Good, Typed
    <2>2. \A v \in Window : talk'[v].at = "acted" =>
            v # w /\ talk'[v] = talk[v] /\ talk[v].did.order # q.did.order
      BY <1>5, <1>10, IdleShape
    <2> QED
      BY <2>1, <2>2 DEF Good, Locks
  <1> QED
    BY <1>8, <1>9, <1>11, <1>12, <1>13 DEF Good

-----------------------------------------------------------------------------
(* A question carries out nothing: the tools it runs read. *)
LEMMA ReadsOnly ==
  ASSUME NEW q \in Shape, NEW c, ~Writes(c.tool), NEW r \in Ran(q, c)
  PROVE  r \in Shape /\ r.did = q.did /\ r.at = q.at /\ r.offer = q.offer
  <1>1. r = q \/ r = [q EXCEPT !.failed = TRUE]
    BY DEF Ran, Writes
  <1> QED
    BY <1>1 DEF Shape

LEMMA BeginChatKeeps ==
  ASSUME Good, NEW w \in Window, BeginChat(w)
  PROVE  Good'
  <1> DEFINE q == [Idle EXCEPT !.at = "asked", !.rights = rights, !.question = lastId + 1]
  <1>1. q \in Shape /\ q.at = "asked" /\ q.did = NoCommand
    <2>1. rights \in Rights /\ lastId + 1 \in Nat
      BY DEF Good, Typed
    <2> QED
      BY <2>1, IdleShape DEF Shape, Asking
  <1>2. Now(w, q) /\ UNCHANGED <<standing, rights, thread, executed, audited>> /\ lastId' = lastId + 1
    BY DEF BeginChat
  <1> HIDE DEF q
  <1>3. SaneRequest(q)
    BY <1>1 DEF SaneRequest
  <1> QED
    BY <1>1, <1>2, <1>3, TalkKeeps DEF Good, Typed

LEMMA ReadKeeps ==
  ASSUME Good, NEW w \in Window, ReadHistory(w)
  PROVE  Good'
  <1> DEFINE ids == Before(Latest({m.id : m \in thread} \cup {talk[w].question}))
             q == [talk[w] EXCEPT !.at = "thinking", !.context = ids]
  <1>0. talk[w] \in Shape /\ talk[w].at = "asked" /\ talk[w].did = NoCommand
    BY DEF Good, Typed, ReadHistory, SaneRequest
  <1>1. ids \subseteq Nat
    <2>1. {m.id : m \in thread} \cup {talk[w].question} \subseteq Nat
      BY <1>0 DEF Good, Typed, Shape
    <2> QED
      BY <2>1 DEF Before, Latest
  <1>2. Now(w, q) /\ UNCHANGED <<standing, rights, thread, lastId, executed, audited>>
    BY DEF ReadHistory
  <1> HIDE DEF ids
  <1>3. q \in Shape /\ q.at = "thinking" /\ q.did = NoCommand
    BY <1>0, <1>1 DEF Shape, Asking
  <1> HIDE DEF q
  <1>4. SaneRequest(q)
    BY <1>3 DEF SaneRequest
  <1> QED
    BY <1>2, <1>3, <1>4, TalkKeeps DEF Good, Typed

LEMMA CallKeeps ==
  ASSUME Good, NEW w \in Window, NEW t \in DOMAIN Registry, NEW o \in Spoken,
         CallTool(w, [tool |-> t, order |-> o])
  PROVE  Good'
  <1> DEFINE c == [tool |-> t, order |-> o]
             q == talk[w]
  <1>0. q \in Shape /\ q.at = "thinking" /\ q.did = NoCommand
    BY DEF Good, Typed, CallTool, SaneRequest
  <1>1. PICK first \in {0, 1},
             r \in IF c.tool \notin Offered(q.rights) THEN {q}
                   ELSE IF Writes(c.tool) THEN {[q EXCEPT !.offer = c]} ELSE Ran(q, c) :
          Now(w, [r EXCEPT !.rounds = @ + first])
    BY DEF CallTool
  <1>2. r \in Shape /\ r.at = "thinking" /\ r.did = NoCommand
    <2>1. CASE c.tool \notin Offered(q.rights)
      BY <1>0, <1>1, <2>1
    <2>2. CASE c.tool \in Offered(q.rights) /\ Writes(c.tool)
      <3>1. c \in Speakable
        BY <2>2 DEF Speakable, Commands, Writes
      <3>2. r = [q EXCEPT !.offer = c]
        BY <1>1, <2>2
      <3> HIDE DEF c
      <3> QED
        BY <1>0, <3>1, <3>2 DEF Shape
    <2>3. CASE c.tool \in Offered(q.rights) /\ ~Writes(c.tool)
      <3>1. r \in Ran(q, c)
        BY <1>1, <2>3
      <3> QED
        BY <1>0, <2>3, <3>1, ReadsOnly
    <2> QED
      BY <2>1, <2>2, <2>3
  <1> DEFINE p == [r EXCEPT !.rounds = @ + first]
  <1>3. p \in Shape /\ p.at = "thinking" /\ p.did = NoCommand
    BY <1>2 DEF Shape
  <1>4. Now(w, p) /\ UNCHANGED <<standing, rights, thread, lastId, executed, audited>>
    BY <1>1 DEF CallTool
  <1> HIDE DEF p
  <1>5. SaneRequest(p)
    BY <1>3 DEF SaneRequest
  <1> QED
    BY <1>3, <1>4, <1>5, TalkKeeps DEF Good, Typed

LEMMA FailsKeeps ==
  ASSUME Good, NEW w \in Window, ModelFails(w)
  PROVE  Good'
  <1> DEFINE q == [talk[w] EXCEPT !.at = "without model", !.offer = NoCommand]
  <1>0. talk[w] \in Shape /\ talk[w].at = "thinking" /\ talk[w].did = NoCommand
    BY DEF Good, Typed, ModelFails, SaneRequest
  <1>1. q \in Shape /\ q.at = "without model" /\ q.did = NoCommand
    BY <1>0 DEF Shape, Asking, Speakable
  <1>2. Now(w, q) /\ UNCHANGED <<standing, rights, thread, lastId, executed, audited>>
    BY DEF ModelFails
  <1> HIDE DEF q
  <1>3. SaneRequest(q)
    BY <1>1 DEF SaneRequest
  <1> QED
    BY <1>1, <1>2, <1>3, TalkKeeps DEF Good, Typed

LEMMA RulesKeep ==
  ASSUME Good, NEW w \in Window, NEW s \in Saying, RulesAnswer(w, s)
  PROVE  Good'
  <1> DEFINE c == Parse(s)
             q == talk[w]
  <1>0. q \in Shape /\ q.at \in {"asked", "without model"} /\ q.did = NoCommand
    BY DEF Good, Typed, RulesAnswer, SaneRequest
  <1>1. PICK r \in IF c = NoCommand THEN {q}
                   ELSE IF Writes(c.tool) THEN {[q EXCEPT !.offer = c]}
                   ELSE IF ~MayUse(q.rights, c.tool) THEN {q} ELSE Ran(q, c) :
          Now(w, [r EXCEPT !.at = "answered"])
    BY DEF RulesAnswer
  <1>2. c \in Speakable
    BY DEF Speakable
  <1> HIDE DEF c
  <1>3. r \in Shape /\ r.did = NoCommand
    <2>1. CASE r = q
      BY <1>0, <2>1
    <2>2. CASE r = [q EXCEPT !.offer = c]
      BY <1>0, <1>2, <2>2 DEF Shape
    <2>3. CASE ~Writes(c.tool) /\ r \in Ran(q, c)
      BY <1>0, <2>3, ReadsOnly
    <2> QED
      BY <1>1, <2>1, <2>2, <2>3
  <1> DEFINE p == [r EXCEPT !.at = "answered"]
  <1>4. p \in Shape /\ p.at = "answered" /\ p.did = NoCommand
    BY <1>3 DEF Shape, Asking
  <1>5. Now(w, p) /\ UNCHANGED <<standing, rights, thread, lastId, executed, audited>>
    BY <1>1 DEF RulesAnswer
  <1> HIDE DEF p
  <1>6. SaneRequest(p)
    BY <1>4 DEF SaneRequest
  <1> QED
    BY <1>4, <1>5, <1>6, TalkKeeps DEF Good, Typed

(* A question that is answered was about nothing that is carried out. *)
LEMMA EndKeeps ==
  ASSUME Good, NEW w \in Window, EndChat(w)
  PROVE  Good'
  <1> DEFINE q == talk[w]
  <1>0. q \in Shape /\ q.did = NoCommand
    BY DEF Good, Typed, EndChat, SaneRequest
  <1>1. UNCHANGED <<standing, rights, executed, audited>> /\ Now(w, Idle)
    BY <1>0 DEF EndChat, TakesEffect
  <1>2. lastId' \in Nat
    BY DEF EndChat, Good, Typed
  <1>3. \A m \in thread' : m.id \in Nat
    <2>1. thread' = thread \cup Saved(q, lastId + 1)
      BY DEF EndChat
    <2>2. \A m \in Saved(q, lastId + 1) : m.id \in {q.question, lastId + 1}
      BY DEF Saved, Pair
    <2>3. q.question \in Nat /\ lastId + 1 \in Nat
      BY <1>0 DEF Shape, Good, Typed
    <2> QED
      BY <2>1, <2>2, <2>3 DEF Good, Typed
  <1> QED
    BY <1>1, <1>2, <1>3, IdleShape, TalkKeeps DEF Good, Typed

(* The rights are those of the moment of confirmation. *)
LEMMA ConfirmKeeps ==
  ASSUME Good, NEW w \in Window, NEW c \in Commands, Confirm(w, c)
  PROVE  Good'
  <1> DEFINE q == [Idle EXCEPT !.at = "acting", !.rights = rights, !.offer = c]
  <1>1. q \in Shape /\ q.at = "acting" /\ q.did = NoCommand /\ q.offer = c /\ q.rights = rights
    BY IdleShape DEF Shape, Speakable, Good, Typed
  <1>2. Now(w, q) /\ UNCHANGED <<standing, rights, thread, lastId, executed, audited>>
    BY DEF Confirm
  <1> HIDE DEF q
  <1>3. SaneRequest(q)
    BY <1>1 DEF SaneRequest, Allowed, Confirm
  <1> QED
    BY <1>1, <1>2, <1>3, TalkKeeps DEF Good, Typed

LEMMA AbortKeeps ==
  ASSUME Good, NEW w \in Window, Abort(w)
  PROVE  Good'
  BY IdleShape, TalkKeeps DEF Abort, Good, Typed

(* What moves no order and begins no request. *)
LEMMA OutsideMoves ==
  ASSUME Good,
         \/ ClearHistory
         \/ \E w \in Window, c \in Commands : Dismiss(w, c)
         \/ \E r \in Rights : RightsChange(r)
         \/ UNCHANGED assistantVars
  PROVE  Good'
  <1>1. UNCHANGED <<standing, talk, lastId, executed, audited>> /\ rights' \in Rights /\ thread' \subseteq thread
    BY DEF ClearHistory, Dismiss, RightsChange, assistantVars, Good, Typed
  <1>2. lastId' \in Nat /\ \A m \in thread' : m.id \in Nat
    BY <1>1 DEF Good, Typed
  <1> QED
    BY <1>1, <1>2, StillKeeps

LEMMA GoodForever == AssistantSpec => []Good
  <1>1. Good /\ [AssistantNext]_assistantVars => Good'
    <2> SUFFICES ASSUME Good, [AssistantNext]_assistantVars PROVE Good'
      OBVIOUS
    <2>1. ASSUME NEW w \in Window, BeginChat(w) PROVE Good'
      BY <2>1, BeginChatKeeps
    <2>2. ASSUME NEW w \in Window, ReadHistory(w) PROVE Good'
      BY <2>2, ReadKeeps
    <2>3. ASSUME NEW w \in Window, ModelFails(w) PROVE Good'
      BY <2>3, FailsKeeps
    <2>4. ASSUME NEW w \in Window, EndChat(w) PROVE Good'
      BY <2>4, EndKeeps
    <2>5. ASSUME NEW w \in Window, LockOrder(w) PROVE Good'
      BY <2>5, LockKeeps
    <2>6. ASSUME NEW w \in Window, CommitAct(w) PROVE Good'
      BY <2>6, CommitActKeeps
    <2>7. ASSUME NEW w \in Window, Abort(w) PROVE Good'
      BY <2>7, AbortKeeps
    <2>8. ASSUME NEW w \in Window, NEW s \in Saying, RulesAnswer(w, s) PROVE Good'
      BY <2>8, RulesKeep
    <2>9. ASSUME NEW w \in Window, NEW t \in DOMAIN Registry, NEW o \in Spoken,
                 CallTool(w, [tool |-> t, order |-> o])
          PROVE  Good'
      BY <2>9, CallKeeps
    <2>10. ASSUME NEW w \in Window, NEW c \in Commands, Confirm(w, c) PROVE Good'
      BY <2>10, ConfirmKeeps
    <2>11. ASSUME NEW m \in OthersMoves, NEW o \in Spoken, OthersMove(m, o) PROVE Good'
      BY <2>11, OthersKeep
    <2>12. CASE \/ ClearHistory
                \/ \E w \in Window, c \in Commands : Dismiss(w, c)
                \/ \E r \in Rights : RightsChange(r)
                \/ UNCHANGED assistantVars
      BY <2>12, OutsideMoves
    <2> QED
      BY <2>1, <2>2, <2>3, <2>4, <2>5, <2>6, <2>7, <2>8, <2>9, <2>10, <2>11, <2>12 DEF AssistantNext
  <1> QED
    BY <1>1, GoodAtFirst, PTL DEF AssistantSpec

-----------------------------------------------------------------------------
(* Every command of the assistant that took effect is in the audit log, as   *)
(* nothing else is, and was allowed to who confirmed it, when he did.        *)
THEOREM CommandsAccounted == AssistantSpec => []CommandsAreAccountedFor
  <1>1. Good => CommandsAreAccountedFor
    BY DEF Good, CommandsAreAccountedFor
  <1> QED
    BY <1>1, GoodForever, PTL

(* However many windows confirm it, and however often, it takes effect once. *)
THEOREM CommandsOnce == AssistantSpec => []CommandsTakeEffectOnce
  <1>1. Good => CommandsTakeEffectOnce
    BY DEF Good
  <1> QED
    BY <1>1, GoodForever, PTL

(* Questions and answers are saved and cleared together. *)
LEMMA AnswersKept == AssistantSpec => []QuestionsKeepAnswers
  <1>1. AssistantInit => QuestionsKeepAnswers
    BY DEF AssistantInit, QuestionsKeepAnswers
  <1>2. QuestionsKeepAnswers /\ [AssistantNext]_assistantVars => QuestionsKeepAnswers'
    <2> SUFFICES ASSUME QuestionsKeepAnswers, [AssistantNext]_assistantVars PROVE QuestionsKeepAnswers'
      OBVIOUS
    <2>1. ASSUME NEW w \in Window, EndChat(w) PROVE QuestionsKeepAnswers'
      <3> DEFINE q == talk[w].question
                 a == lastId + 1
      <3>1. CASE Saved(talk[w], a) = {}
        BY <2>1, <3>1 DEF EndChat, QuestionsKeepAnswers
      <3>2. CASE Saved(talk[w], a) = Pair(talk[w], a)
        <4> DEFINE mine == [id |-> q, role |-> "user", of |-> q]
                   its  == [id |-> a, role |-> "assistant", of |-> q]
        <4>1. thread' = thread \cup {mine, its}
          BY <2>1, <3>2 DEF EndChat, Pair
        <4>2. mine.of = its.of /\ mine.role # its.role
          OBVIOUS
        <4> HIDE DEF mine, its
        <4> QED
          BY <4>1, <4>2 DEF QuestionsKeepAnswers
      <3> QED
        BY <3>1, <3>2 DEF Saved
    <2>2. ASSUME NEW w \in Window, CommitAct(w) PROVE QuestionsKeepAnswers'
      <3> DEFINE m == [id |-> lastId + 1, role |-> "assistant", of |-> lastId + 1]
      <3>1. thread' = thread \cup {m}
        BY <2>2 DEF CommitAct
      <3>2. m.of = m.id /\ m.role # "user"
        OBVIOUS
      <3> HIDE DEF m
      <3> QED
        BY <3>1, <3>2 DEF QuestionsKeepAnswers
    <2>3. CASE ClearHistory
      BY <2>3 DEF ClearHistory, QuestionsKeepAnswers
    <2>4. CASE UNCHANGED thread
      BY <2>4 DEF QuestionsKeepAnswers
    <2>5. \/ \E w \in Window : EndChat(w) \/ CommitAct(w)
          \/ ClearHistory
          \/ UNCHANGED thread
      BY DEF AssistantNext, assistantVars, BeginChat, ReadHistory, ModelFails, LockOrder, Abort, RulesAnswer,
             CallTool, Confirm, Dismiss, OthersMove, RightsChange
    <2> QED
      BY <2>1, <2>2, <2>3, <2>4, <2>5
  <1> QED
    BY <1>1, <1>2, PTL DEF AssistantSpec

(* No message is younger than the last one, and a question that is among the  *)
(* messages read before it was not the youngest of them.                     *)
Numbered ==
  /\ lastId \in Nat /\ \A m \in thread : m.id \in Nat /\ m.id <= lastId
  /\ \A w \in Window : /\ talk[w].question \in Nat /\ talk[w].question <= lastId
                       /\ talk[w].question \in talk[w].context => lastId > talk[w].question

(* What a request was about stays, or is gone. *)
StaysOrGoes(w) ==
  \/ talk'[w].question = talk[w].question /\ talk'[w].context = talk[w].context
  \/ talk'[w].question = 0 /\ talk'[w].context = {}

LEMMA NumbersKeep ==
  ASSUME Numbered, lastId' \in Nat, lastId' >= lastId,
         \A m \in thread' : m \in thread \/ (m.id \in Nat /\ m.id <= lastId'),
         \A w \in Window : StaysOrGoes(w)
  PROVE  Numbered'
  <1>0. lastId \in Nat
    BY DEF Numbered
  <1>1. \A m \in thread' : m.id \in Nat /\ m.id <= lastId'
    BY <1>0 DEF Numbered
  <1>2. ASSUME NEW w \in Window
        PROVE  /\ talk'[w].question \in Nat /\ talk'[w].question <= lastId'
               /\ talk'[w].question \in talk'[w].context => lastId' > talk'[w].question
    <2>1. CASE talk'[w].question = talk[w].question /\ talk'[w].context = talk[w].context
      BY <1>0, <2>1 DEF Numbered
    <2>2. CASE talk'[w].question = 0 /\ talk'[w].context = {}
      BY <2>2
    <2> QED
      BY <2>1, <2>2 DEF StaysOrGoes
  <1> QED
    BY <1>1, <1>2 DEF Numbered

(* The request of one window goes on, or ends. *)
LEMMA OneGoesOn ==
  ASSUME Good, NEW w \in Window, NEW q, Now(w, q),
         \/ q.question = talk[w].question /\ q.context = talk[w].context
         \/ q = Idle
  PROVE  \A v \in Window : StaysOrGoes(v)
  <1>1. \A v \in Window : talk'[v] = IF v = w THEN q ELSE talk[v]
    BY DEF Now, Good, Typed
  <1>2. Idle.question = 0 /\ Idle.context = {}
    BY DEF Idle
  <1> QED
    BY <1>1, <1>2 DEF StaysOrGoes

LEMMA BeginNumbers ==
  ASSUME Good, Numbered, NEW w \in Window, BeginChat(w)
  PROVE  Numbered'
  <1>1. lastId' = lastId + 1 /\ thread' = thread /\ lastId \in Nat
    BY DEF BeginChat, Numbered
  <1> DEFINE q == [Idle EXCEPT !.at = "asked", !.rights = rights, !.question = lastId + 1]
  <1>2. \A v \in Window : talk'[v] = IF v = w THEN q ELSE talk[v]
    BY DEF BeginChat, Now, Good, Typed
  <1>3. q.question = lastId + 1 /\ q.context = {}
    BY DEF Idle
  <1> HIDE DEF q
  <1> QED
    BY <1>1, <1>2, <1>3 DEF Numbered

(* The youngest message is left out, and the question is no older than that. *)
LEMMA ReadNumbers ==
  ASSUME Good, Numbered, NEW w \in Window, ReadHistory(w)
  PROVE  Numbered'
  <1> DEFINE ids == {m.id : m \in thread} \cup {talk[w].question}
             q == [talk[w] EXCEPT !.at = "thinking", !.context = Before(Latest(ids))]
  <1>1. lastId' = lastId /\ thread' = thread /\ lastId \in Nat
    BY DEF ReadHistory, Numbered
  <1>2. \A v \in Window : talk'[v] = IF v = w THEN q ELSE talk[v]
    BY DEF ReadHistory, Now, Good, Typed
  <1>3. talk[w] \in Shape
    BY DEF Good, Typed
  <1>4. q.question = talk[w].question /\ q.context = Before(Latest(ids))
    BY <1>3 DEF Shape
  <1>5. \A i \in ids : i \in Nat /\ i <= lastId
    BY DEF Numbered
  <1>6. \A i \in Before(Latest(ids)) : i \in ids /\ \E j \in ids : j > i
    BY DEF Before, Latest
  <1> HIDE DEF ids
  <1>7. \A i \in Before(Latest(ids)) : lastId > i
    BY <1>1, <1>5, <1>6
  <1> HIDE DEF q
  <1> QED
    BY <1>1, <1>2, <1>4, <1>7 DEF Numbered

LEMMA EndNumbers ==
  ASSUME Good, Numbered, NEW w \in Window, EndChat(w)
  PROVE  Numbered'
  <1>1. /\ lastId \in Nat /\ lastId' \in Nat /\ lastId' >= lastId
        /\ talk[w].question \in Nat /\ talk[w].question <= lastId
    BY DEF EndChat, Numbered
  <1>2. \A m \in Saved(talk[w], lastId + 1) : m.id \in Nat /\ m.id <= lastId'
    <2>1. Saved(talk[w], lastId + 1) # {} => ~talk[w].failed
      BY DEF Saved
    <2>2. ~talk[w].failed => lastId' = lastId + 1
      BY DEF EndChat
    <2>3. \A m \in Saved(talk[w], lastId + 1) : m.id \in {talk[w].question, lastId + 1}
      BY DEF Saved, Pair
    <2> QED
      BY <1>1, <2>1, <2>2, <2>3
  <1>3. thread' = thread \cup Saved(talk[w], lastId + 1) /\ Now(w, Idle)
    BY DEF EndChat
  <1>4. \A v \in Window : StaysOrGoes(v)
    BY <1>3, OneGoesOn
  <1> QED
    BY <1>1, <1>2, <1>3, <1>4, NumbersKeep

LEMMA CommitNumbers ==
  ASSUME Good, Numbered, NEW w \in Window, CommitAct(w)
  PROVE  Numbered'
  <1>1. /\ lastId' = lastId + 1 /\ lastId \in Nat /\ Now(w, Idle)
        /\ \A m \in thread' : m \in thread \/ m.id = lastId + 1
    BY DEF CommitAct, Numbered
  <1>2. \A v \in Window : StaysOrGoes(v)
    BY <1>1, OneGoesOn
  <1> QED
    BY <1>1, <1>2, NumbersKeep

(* The other steps of a request save nothing. *)
LEMMA OthersNumber ==
  ASSUME Good, Numbered, NEW w \in Window, UNCHANGED <<thread, lastId>>,
         \/ ModelFails(w) \/ LockOrder(w) \/ Abort(w)
         \/ \E s \in Saying : RulesAnswer(w, s)
         \/ \E t \in DOMAIN Registry, o \in Spoken : CallTool(w, [tool |-> t, order |-> o])
  PROVE  Numbered'
  <1>1. talk[w] \in Shape
    BY DEF Good, Typed
  <1>2. lastId \in Nat
    BY DEF Numbered
  <1>3. \A v \in Window : StaysOrGoes(v)
    <2>1. CASE Abort(w)
      BY <2>1, OneGoesOn DEF Abort
    <2>2. CASE ModelFails(w)
      BY <2>2, <1>1, OneGoesOn DEF ModelFails, Shape
    <2>3. CASE LockOrder(w)
      <3>1. PICK q \in Ran(talk[w], talk[w].offer) : Now(w, [q EXCEPT !.at = "acted"])
        BY <2>3 DEF LockOrder
      <3> DEFINE p == [q EXCEPT !.at = "acted"]
      <3>2. p.question = talk[w].question /\ p.context = talk[w].context
        BY <1>1, <3>1 DEF Ran, Shape
      <3>3. Now(w, p)
        BY <3>1
      <3> HIDE DEF p
      <3> QED
        BY <3>2, <3>3, OneGoesOn
    <2>4. ASSUME NEW s \in Saying, RulesAnswer(w, s) PROVE \A v \in Window : StaysOrGoes(v)
      <3> DEFINE c == Parse(s)
      <3>1. PICK q \in IF c = NoCommand THEN {talk[w]}
                       ELSE IF Writes(c.tool) THEN {[talk[w] EXCEPT !.offer = c]}
                       ELSE IF ~MayUse(talk[w].rights, c.tool) THEN {talk[w]}
                       ELSE Ran(talk[w], c) :
               Now(w, [q EXCEPT !.at = "answered"])
        BY <2>4 DEF RulesAnswer
      <3> HIDE DEF c
      <3>2. q \in {talk[w], [talk[w] EXCEPT !.offer = c]} \cup Ran(talk[w], c)
        BY <3>1
      <3> DEFINE p == [q EXCEPT !.at = "answered"]
      <3>3. p.question = talk[w].question /\ p.context = talk[w].context
        BY <1>1, <3>2 DEF Ran, Shape
      <3>4. Now(w, p)
        BY <3>1
      <3> HIDE DEF p
      <3> QED
        BY <3>3, <3>4, OneGoesOn
    <2>5. ASSUME NEW t \in DOMAIN Registry, NEW o \in Spoken, CallTool(w, [tool |-> t, order |-> o])
          PROVE  \A v \in Window : StaysOrGoes(v)
      <3> DEFINE c == [tool |-> t, order |-> o]
      <3>1. PICK first \in {0, 1},
                 q \in IF c.tool \notin Offered(talk[w].rights) THEN {talk[w]}
                       ELSE IF Writes(c.tool) THEN {[talk[w] EXCEPT !.offer = c]}
                       ELSE Ran(talk[w], c) :
               Now(w, [q EXCEPT !.rounds = @ + first])
        BY <2>5 DEF CallTool
      <3> HIDE DEF c
      <3>2. q \in {talk[w], [talk[w] EXCEPT !.offer = c]} \cup Ran(talk[w], c)
        BY <3>1
      <3> DEFINE p == [q EXCEPT !.rounds = @ + first]
      <3>3. p.question = talk[w].question /\ p.context = talk[w].context
        BY <1>1, <3>2 DEF Ran, Shape
      <3>4. Now(w, p)
        BY <3>1
      <3> HIDE DEF p
      <3> QED
        BY <3>3, <3>4, OneGoesOn
    <2> QED
      BY <2>1, <2>2, <2>3, <2>4, <2>5
  <1> QED
    BY <1>2, <1>3, NumbersKeep

LEMMA OrderKept == AssistantSpec => []QuestionIsAskedOnce
  <1>1. AssistantInit => Numbered
    BY DEF AssistantInit, Numbered, Idle
  <1>2. Good /\ Numbered /\ [AssistantNext]_assistantVars => Numbered'
    <2> SUFFICES ASSUME Good, Numbered, [AssistantNext]_assistantVars PROVE Numbered'
      OBVIOUS
    <2>1. ASSUME NEW w \in Window, BeginChat(w) PROVE Numbered'
      BY <2>1, BeginNumbers
    <2>2. ASSUME NEW w \in Window, ReadHistory(w) PROVE Numbered'
      BY <2>2, ReadNumbers
    <2>3. ASSUME NEW w \in Window, EndChat(w) PROVE Numbered'
      BY <2>3, EndNumbers
    <2>4. ASSUME NEW w \in Window, CommitAct(w) PROVE Numbered'
      BY <2>4, CommitNumbers
    <2>5. ASSUME NEW w \in Window,
                 \/ ModelFails(w) \/ LockOrder(w) \/ Abort(w)
                 \/ \E s \in Saying : RulesAnswer(w, s)
                 \/ \E t \in DOMAIN Registry, o \in Spoken : CallTool(w, [tool |-> t, order |-> o])
          PROVE  Numbered'
      <3>1. UNCHANGED <<thread, lastId>>
        BY <2>5 DEF ModelFails, LockOrder, Abort, RulesAnswer, CallTool
      <3> QED
        BY <2>5, <3>1, OthersNumber
    <2>6. ASSUME NEW w \in Window, NEW c \in Commands, Confirm(w, c) PROVE Numbered'
      <3> DEFINE q == [Idle EXCEPT !.at = "acting", !.rights = rights, !.offer = c]
      <3>1. lastId' = lastId /\ thread' = thread /\ lastId \in Nat
        BY <2>6 DEF Confirm, Numbered
      <3>2. q.question = 0 /\ q.context = {}
        BY DEF Idle
      <3>3. \A v \in Window : talk'[v] = IF v = w THEN q ELSE talk[v]
        BY <2>6 DEF Confirm, Now, Good, Typed
      <3> HIDE DEF q
      <3>4. \A v \in Window : StaysOrGoes(v)
        BY <3>2, <3>3 DEF StaysOrGoes
      <3> QED
        BY <3>1, <3>4, NumbersKeep
    <2>7. CASE UNCHANGED <<lastId, talk>> /\ thread' \subseteq thread
      <3>1. lastId \in Nat /\ \A v \in Window : StaysOrGoes(v)
        BY <2>7 DEF StaysOrGoes, Numbered
      <3> QED
        BY <2>7, <3>1, NumbersKeep
    <2>8. \/ \E w \in Window : \/ BeginChat(w) \/ ReadHistory(w) \/ EndChat(w) \/ CommitAct(w)
                               \/ ModelFails(w) \/ LockOrder(w) \/ Abort(w)
                               \/ \E s \in Saying : RulesAnswer(w, s)
                               \/ \E t \in DOMAIN Registry, o \in Spoken : CallTool(w, [tool |-> t, order |-> o])
                               \/ \E c \in Commands : Confirm(w, c)
          \/ UNCHANGED <<lastId, talk>> /\ thread' \subseteq thread
      <3>1. ASSUME \/ \E w \in Window, c \in Commands : Dismiss(w, c)
                   \/ ClearHistory
                   \/ \E m \in OthersMoves, o \in Spoken : OthersMove(m, o)
                   \/ \E r \in Rights : RightsChange(r)
                   \/ UNCHANGED assistantVars
            PROVE  UNCHANGED <<lastId, talk>> /\ thread' \subseteq thread
        BY <3>1 DEF Dismiss, ClearHistory, OthersMove, RightsChange, assistantVars
      <3> QED
        BY <3>1 DEF AssistantNext
    <2> QED
      BY <2>1, <2>2, <2>3, <2>4, <2>5, <2>6, <2>7, <2>8
  <1>3. Numbered => QuestionIsAskedOnce
    BY DEF Numbered, QuestionIsAskedOnce
  <1> QED
    BY <1>1, <1>2, <1>3, GoodForever, PTL DEF AssistantSpec

(* Questions and answers are saved and cleared together (router.py chat,     *)
(* clear_history).  Unless another request of the same user took a later     *)
(* identity for a message after the question's, as a second window can, the  *)
(* question is not among the messages the model is given before it.          *)
THEOREM ConversationKept == AssistantSpec => []ConversationIsKept
  <1>1. QuestionsKeepAnswers /\ QuestionIsAskedOnce => ConversationIsKept
    BY DEF ConversationIsKept
  <1> QED
    BY <1>1, AnswersKept, OrderKept, PTL

-----------------------------------------------------------------------------
(* Without an order's number no rule names a command. *)
LEMMA RulesThatRead ==
  /\ DOMAIN WithNumber = 1..5 /\ DOMAIN WithoutNumber = 1..12
  /\ \A k \in 1..12 : WithoutNumber[k][2] \notin {"tandai_dibayar", "mulai_picking", "batalkan_order"}
  <1>1. DOMAIN WithNumber = 1..5
    BY DEF WithNumber
  <1>2. DOMAIN WithoutNumber = 1..12
    BY DEF WithoutNumber
  <1>3. ASSUME NEW k \in 1..12
        PROVE  WithoutNumber[k][2] \notin {"tandai_dibayar", "mulai_picking", "batalkan_order"}
    <2>1. k \in {1, 2, 3, 4, 5, 6, 7, 8, 9, 10, 11, 12}
      OBVIOUS
    <2>2. /\ WithoutNumber[1][2] = "lacak_paket"
          /\ WithoutNumber[2][2] = "temuan_anomali"
          /\ WithoutNumber[3][2] = "retur_terbuka"
          /\ WithoutNumber[4][2] = "order_terlambat"
      BY DEF WithoutNumber
    <2>3. /\ WithoutNumber[5][2] = "risiko_stok"
          /\ WithoutNumber[6][2] = "kurir_terbaik"
          /\ WithoutNumber[7][2] = "stok_sku"
          /\ WithoutNumber[8][2] = "risiko_stok"
      BY DEF WithoutNumber
    <2>4. /\ WithoutNumber[9][2] = "kinerja"
          /\ WithoutNumber[10][2] = "ringkasan_hari_ini"
          /\ WithoutNumber[11][2] = "cari_order"
          /\ WithoutNumber[12][2] = "ringkasan_hari_ini"
      BY DEF WithoutNumber
    <2> QED
      BY ONLY <2>1, <2>2, <2>3, <2>4
  <1> QED
    BY <1>1, <1>2, <1>3

LEMMA FirstIsThere ==
  ASSUME NEW found \in SUBSET Nat, found # {}
  PROVE  (CHOOSE k \in found : \A j \in found : k <= j) \in found
  <1>1. \E k \in found : \A j \in found : k <= j
    BY LeastExists
  <1> QED
    BY <1>1

(* The rules name a command only where an order is named. *)
LEMMA ParseTells ==
  ASSUME NEW s \in Saying, Writes(Parse(s).tool)
  PROVE  Parse(s) \in Commands
  <1>1. PICK rules, found, first :
          /\ rules = IF s.order = Unnamed THEN WithoutNumber ELSE WithNumber
          /\ found = {k \in DOMAIN rules : rules[k][1] \in s.words \cup {""}}
          /\ first = CHOOSE k \in found : \A j \in found : k <= j
    OBVIOUS
  <1>2. Parse(s) = IF found = {} THEN NoCommand ELSE [tool |-> rules[first][2], order |-> s.order]
    BY <1>1 DEF Parse
  <1>3. Parse(s) # NoCommand
    BY NoneIsNone DEF Writes
  <1>4. found # {} /\ Parse(s) = [tool |-> rules[first][2], order |-> s.order]
    BY <1>2, <1>3
  <1>5. DOMAIN rules \subseteq Nat
    <2>1. DOMAIN WithoutNumber \subseteq Nat /\ DOMAIN WithNumber \subseteq Nat
      BY ONLY RulesThatRead
    <2>2. rules = WithoutNumber \/ rules = WithNumber
      BY ONLY <1>1
    <2> QED
      BY ONLY <2>1, <2>2
  <1>6. first \in found
    <2>1. found \in SUBSET Nat
      BY <1>1, <1>5
    <2> QED
      BY ONLY <1>1, <1>4, <2>1, FirstIsThere
  <1>7. CASE s.order # Unnamed
    <2>1. s.order \in Spoken
      BY <1>7, AssistantAssumption
    <2> QED
      BY <1>4, <2>1 DEF Writes, Commands
  <1>8. CASE s.order = Unnamed
    <2>1. first \in 1..12 /\ rules = WithoutNumber
      <3>1. rules = WithoutNumber
        BY ONLY <1>1, <1>8
      <3>2. found \subseteq DOMAIN rules
        BY <1>1
      <3>3. first \in DOMAIN rules
        BY ONLY <1>6, <3>2
      <3> QED
        BY ONLY <3>1, <3>3, RulesThatRead
    <2>2. Parse(s).tool = WithoutNumber[first][2]
      BY ONLY <1>4, <2>1
    <2> QED
      BY ONLY <2>1, <2>2, RulesThatRead, WriteNames, Writes(Parse(s).tool) DEF Writes
  <1> QED
    BY <1>7, <1>8

(* Of the last messages that are read one is left out, so that there are     *)
(* fewer than so many.                                                       *)
LEMMA FewAreGiven ==
  ASSUME NEW ids, ids \subseteq MessageId, ids # {}
  PROVE  /\ Before(Latest(ids)) \subseteq MessageId
         /\ Cardinality(Before(Latest(ids))) < Remembered
  <1>0. Remembered \in Nat /\ Remembered > 0 /\ MaxMessages \in Nat
    BY AssistantAssumption
  <1>1. ids \subseteq Nat /\ IsFiniteSet(ids)
    <2>1. MessageId \subseteq Nat /\ IsFiniteSet(MessageId)
      BY <1>0, FS_Interval DEF MessageId
    <2> QED
      BY <2>1, FS_Subset
  <1>9. PICK B : B = Before(Latest(ids))
    OBVIOUS
  <1>2. \A i \in B : i \in ids /\ \E j \in ids : j > i
    BY <1>9 DEF Before, Latest
  <1>3. \A i \in B : Cardinality({j \in ids : j > i}) < Remembered
    BY <1>9 DEF Before, Latest
  <1>4. PICK m \in ids : \A i \in ids : i <= m
    <2>1. PICK f : f = [i \in ids |-> i]
      OBVIOUS
    <2>2. \A i \in ids : f[i] \in Nat /\ f[i] = i
      BY ONLY <1>1, <2>1
    <2>3. \E n \in ids : \A i \in ids : f[i] <= f[n]
      BY ONLY <1>1, <2>2, ids # {}, LargestOfFinite
    <2> QED
      BY ONLY <2>2, <2>3
  <1>5. ASSUME B = {} PROVE Cardinality(B) < Remembered
    BY <1>0, <1>5, FS_EmptySet
  <1>6. ASSUME B # {} PROVE Cardinality(B) < Remembered
    <2>1. B \in SUBSET Nat
      BY <1>1, <1>2
    <2>2. PICK k \in B : \A i \in B : k <= i
      BY <1>6, <2>1, LeastExists
    <2>3. PICK J : J = {j \in ids : j > k}
      OBVIOUS
    <2>4. Cardinality(J) < Remembered
      BY <1>3, <2>3
    <2>5. \A i \in B : i < m /\ k <= i /\ i \in ids
      BY ONLY <1>1, <1>2, <1>4, <2>1, <2>2
    <2>6. IsFiniteSet(J) /\ m \in J /\ k \notin J
      <3>1. J \in SUBSET ids
        BY <2>3
      <3>2. m \in J /\ k \notin J
        BY ONLY <1>1, <1>4, <2>1, <2>2, <2>3, <2>5
      <3> QED
        BY <1>1, <3>1, <3>2, FS_Subset
    <2>7. PICK K : K = J \ {m}
      OBVIOUS
    <2>8. IsFiniteSet(K) /\ Cardinality(K) = Cardinality(J) - 1 /\ k \notin K
      BY ONLY <2>6, <2>7, FS_RemoveElement
    <2>9. Cardinality(J) \in Nat
      BY ONLY <2>6, FS_CardinalityType
    <2>10. PICK L : L = K \cup {k}
      OBVIOUS
    <2>11. IsFiniteSet(L) /\ Cardinality(L) = Cardinality(J)
      BY ONLY <2>8, <2>9, <2>10, FS_AddElement
    <2>12. B \in SUBSET L
      BY ONLY <1>1, <1>4, <2>1, <2>2, <2>3, <2>5, <2>7, <2>10
    <2>13. IsFiniteSet(B) /\ Cardinality(B) <= Cardinality(J)
      BY ONLY <2>11, <2>12, FS_Subset
    <2>14. Cardinality(B) \in Nat
      BY ONLY <2>13, FS_CardinalityType
    <2> QED
      BY ONLY <1>0, <2>4, <2>9, <2>13, <2>14
  <1>7. Cardinality(B) < Remembered
    BY <1>5, <1>6
  <1>8. B \subseteq MessageId
    BY <1>2
  <1> QED
    BY ONLY <1>9, <1>7, <1>8

-----------------------------------------------------------------------------
(* The numbers of a request stay within what the code allows, and its        *)
(* question has an identity that was given out.                              *)
Fits(q, last) ==
  /\ q.question \in 0..MaxMessages
  /\ q.context \subseteq MessageId /\ Cardinality(q.context) < Remembered
  /\ q.rounds \in 0..MaxRounds
  /\ q.offer \in Commands \cup {NoCommand}
  /\ q.at \in Asking => q.question \in MessageId /\ q.question <= last

(* A question belongs to one request until it is saved, once. *)
OwnQuestion ==
  \A w \in Window : talk[w].at \in Asking =>
    /\ \A m \in thread : m.id # talk[w].question
    /\ \A v \in Window : v # w /\ talk[v].at \in Asking => talk[v].question # talk[w].question

Filed ==
  /\ lastId \in 0..MaxMessages
  /\ thread \subseteq Messages
  /\ \A m, n \in thread : m.id = n.id => m = n
  /\ \A m \in thread : m.id <= lastId
  /\ \A w \in Window : Fits(talk[w], lastId)
  /\ OwnQuestion
  /\ screen \in [Window -> SUBSET Commands]

LEMMA IdleFits == \A last : Fits(Idle, last)
  <1>1. Remembered \in Nat /\ Remembered > 0 /\ MaxRounds \in Nat /\ MaxMessages \in Nat
    BY AssistantAssumption
  <1>2. /\ Idle.question = 0 /\ Idle.context = {} /\ Idle.rounds = 0 /\ Idle.offer = NoCommand
        /\ Idle.at \notin Asking
    BY DEF Idle, Asking
  <1> QED
    BY <1>1, <1>2, FS_EmptySet DEF Fits

(* A request that goes on with its own question, or is not about one. *)
GoesOn(w, q) == q.at \in Asking => talk[w].at \in Asking /\ q.question = talk[w].question

LEMMA QuestionsStay ==
  ASSUME Good, OwnQuestion, NEW w \in Window, NEW q, Now(w, q), GoesOn(w, q), thread' \subseteq thread
  PROVE  OwnQuestion'
  <1>1. \A v \in Window : talk'[v] = IF v = w THEN q ELSE talk[v]
    BY DEF Now, Good, Typed
  <1>2. \A v \in Window : talk'[v].at \in Asking => talk[v].at \in Asking /\ talk'[v].question = talk[v].question
    BY <1>1 DEF GoesOn
  <1>3. ASSUME NEW v \in Window, talk'[v].at \in Asking
        PROVE  /\ \A m \in thread' : m.id # talk'[v].question
               /\ \A u \in Window : u # v /\ talk'[u].at \in Asking => talk'[u].question # talk'[v].question
    <2>1. talk[v].at \in Asking /\ talk'[v].question = talk[v].question
      BY <1>2, <1>3
    <2> QED
      BY <1>2, <2>1 DEF OwnQuestion
  <1> QED
    BY <1>3 DEF OwnQuestion

(* One request moves and no message is saved. *)
LEMMA RequestFits ==
  ASSUME Good, Filed, NEW w \in Window, NEW q, Now(w, q), Fits(q, lastId), GoesOn(w, q),
         UNCHANGED <<thread, lastId>>, screen' \in [Window -> SUBSET Commands]
  PROVE  Filed'
  <1>1. \A v \in Window : talk'[v] = IF v = w THEN q ELSE talk[v]
    BY DEF Now, Good, Typed
  <1>2. \A v \in Window : Fits(talk'[v], lastId')
    BY <1>1 DEF Filed
  <1>3. OwnQuestion'
    BY QuestionsStay DEF Filed
  <1> QED
    BY <1>2, <1>3 DEF Filed

(* No request moves. *)
LEMMA NoRequestFits ==
  ASSUME Filed, UNCHANGED <<talk, lastId>>, thread' \subseteq thread, screen' \in [Window -> SUBSET Commands]
  PROVE  Filed'
  <1>1. OwnQuestion'
    BY DEF Filed, OwnQuestion
  <1> QED
    BY <1>1 DEF Filed

(* A tool changes neither the question nor what goes with it. *)
LEMMA RanFits ==
  ASSUME NEW q \in Shape, NEW c, NEW r \in Ran(q, c)
  PROVE  /\ r.question = q.question /\ r.context = q.context /\ r.rounds = q.rounds
         /\ r.offer = q.offer /\ r.at = q.at
         /\ DOMAIN r = DOMAIN q
  <1>1. \/ r = q
        \/ r = [q EXCEPT !.failed = TRUE]
        \/ r = [q EXCEPT !.did = c, !.was = standing[c.order]]
    BY DEF Ran
  <1> QED
    BY <1>1 DEF Shape

(* What a tool or the rules make of a request: it may show an offer. *)
LEMMA AnsweredFits ==
  ASSUME NEW q \in Shape, NEW last, Fits(q, last), NEW c, Writes(c.tool) => c \in Commands,
         NEW r, r = q \/ (Writes(c.tool) /\ r = [q EXCEPT !.offer = c]) \/ r \in Ran(q, c)
  PROVE  /\ Fits(r, last)
         /\ r.question = q.question /\ r.rounds = q.rounds /\ r.at = q.at /\ DOMAIN r = DOMAIN q
  <1>1. CASE r = q
    BY <1>1
  <1>2. CASE Writes(c.tool) /\ r = [q EXCEPT !.offer = c]
    BY <1>2 DEF Fits, Shape
  <1>3. CASE r \in Ran(q, c)
    <2>1. /\ r.question = q.question /\ r.context = q.context /\ r.rounds = q.rounds
          /\ r.offer = q.offer /\ r.at = q.at
          /\ DOMAIN r = DOMAIN q
      BY <1>3, RanFits
    <2> QED
      BY <2>1 DEF Fits
  <1> QED
    BY <1>1, <1>2, <1>3

(* The request of a window ends and messages are saved: a new one and, of a  *)
(* question, its own.                                                        *)
LEMMA SavedIsFiled ==
  ASSUME Good, Filed, NEW w \in Window, Now(w, Idle), lastId < MaxMessages, lastId' = lastId + 1,
         NEW more \in SUBSET Messages, thread' = thread \cup more,
         \A m, n \in more : m.id = n.id => m = n,
         \A m \in more : m.id = lastId + 1 \/ (talk[w].at \in Asking /\ m.id = talk[w].question),
         screen' \in [Window -> SUBSET Commands]
  PROVE  Filed'
  <1>0. /\ lastId \in Nat /\ MaxMessages \in Nat /\ lastId' \in 0..MaxMessages
        /\ \A m \in thread : m.id \in Nat /\ m.id <= lastId
    BY AssistantAssumption DEF Filed, Messages, MessageId
  <1>1. \A v \in Window : talk'[v] = IF v = w THEN Idle ELSE talk[v]
    BY DEF Now, Good, Typed
  <1>2. Idle.at \notin Asking
    BY DEF Idle, Asking
  <1>3. \A v \in Window : talk[v].at \in Asking => talk[v].question \in Nat /\ talk[v].question <= lastId
    BY <1>0 DEF Filed, Fits, MessageId
  <1>4. \A m \in more : m.id \in Nat /\ m.id <= lastId' /\ \A n \in thread : m.id # n.id
    BY <1>0, <1>3 DEF Filed, OwnQuestion
  <1>5. /\ thread' \subseteq Messages
        /\ \A m, n \in thread' : m.id = n.id => m = n
        /\ \A m \in thread' : m.id <= lastId'
    <2>1. \A m \in thread : m.id <= lastId'
      BY <1>0
    <2>2. \A m, n \in thread : m.id = n.id => m = n
      BY DEF Filed
    <2>3. thread \subseteq Messages
      BY DEF Filed
    <2> QED
      BY <1>4, <2>1, <2>2, <2>3
  <1>6. \A v \in Window : Fits(talk'[v], lastId')
    <2>1. ASSUME NEW v \in Window, v # w PROVE Fits(talk[v], lastId')
      <3>1. Fits(talk[v], lastId)
        BY DEF Filed
      <3> QED
        BY <1>0, <1>3, <3>1 DEF Fits
    <2> QED
      BY <1>1, <2>1, IdleFits
  <1>7. ASSUME NEW v \in Window, talk'[v].at \in Asking
        PROVE  /\ \A m \in thread' : m.id # talk'[v].question
               /\ \A u \in Window : u # v /\ talk'[u].at \in Asking => talk'[u].question # talk'[v].question
    <2>1. v # w /\ talk'[v] = talk[v]
      BY <1>1, <1>2, <1>7
    <2>2. \A m \in thread : m.id # talk[v].question
      BY <1>7, <2>1 DEF Filed, OwnQuestion
    <2>3. ASSUME NEW m \in more PROVE m.id # talk[v].question
      <3>1. CASE m.id = lastId + 1
        BY <1>0, <1>3, <1>7, <2>1, <3>1
      <3>2. CASE talk[w].at \in Asking /\ m.id = talk[w].question
        BY <1>7, <2>1, <3>2 DEF Filed, OwnQuestion
      <3> QED
        BY <3>1, <3>2
    <2>4. ASSUME NEW u \in Window, u # v, talk'[u].at \in Asking PROVE talk'[u].question # talk'[v].question
      <3>1. u # w /\ talk'[u] = talk[u]
        BY <1>1, <1>2, <2>4
      <3> QED
        BY <1>7, <2>1, <2>4, <3>1 DEF Filed, OwnQuestion
    <2> QED
      BY <2>1, <2>2, <2>3, <2>4
  <1>8. OwnQuestion'
    BY <1>7 DEF OwnQuestion
  <1> QED
    BY <1>0, <1>5, <1>6, <1>8 DEF Filed

LEMMA EndIsFiled ==
  ASSUME Good, Filed, NEW w \in Window, EndChat(w)
  PROVE  Filed'
  <1>1. PICK q : q = talk[w]
    OBVIOUS
  <1>2. /\ q.at \in {"thinking", "answered"} /\ lastId < MaxMessages
        /\ thread' = thread \cup Saved(q, lastId + 1)
        /\ lastId' = (IF q.failed THEN lastId ELSE lastId + 1)
        /\ screen' \in {screen, [screen EXCEPT ![w] = @ \cup ({q.offer} \ {NoCommand})]}
        /\ Now(w, Idle)
    BY <1>1 DEF EndChat
  <1>3. Fits(q, lastId) /\ q.at \in Asking /\ q.failed \in BOOLEAN
    BY <1>1, <1>2 DEF Filed, Asking, Good, Typed, Shape
  <1>4. screen' \in [Window -> SUBSET Commands]
    <2>1. {q.offer} \ {NoCommand} \subseteq Commands
      BY <1>3 DEF Fits
    <2> QED
      BY <1>2, <2>1 DEF Filed
  <1>5. CASE q.failed
    <2>1. UNCHANGED <<thread, lastId>>
      BY <1>2, <1>5 DEF Saved
    <2>2. GoesOn(w, Idle)
      BY DEF GoesOn, Idle, Asking
    <2> QED
      BY <1>2, <1>4, <2>1, <2>2, IdleFits, RequestFits
  <1>6. CASE ~q.failed
    <2>1. PICK a, more : a = lastId + 1 /\ more = Pair(q, a)
      OBVIOUS
    <2>2. thread' = thread \cup more /\ lastId' = lastId + 1
      BY <1>2, <1>6, <2>1 DEF Saved
    <2>3. a \in MessageId /\ q.question \in MessageId /\ q.question <= lastId /\ lastId \in Nat
      BY <1>2, <1>3, <2>1, AssistantAssumption DEF Fits, Filed, MessageId
    <2>4. PICK m, n : /\ m = [id |-> q.question, role |-> "user", of |-> q.question]
                      /\ n = [id |-> a, role |-> "assistant", of |-> q.question]
      OBVIOUS
    <2>5. more = {m, n}
      BY <2>1, <2>4 DEF Pair
    <2>6. m \in Messages /\ n \in Messages /\ m.id = q.question /\ n.id = a /\ q.question # a
      BY <2>1, <2>3, <2>4 DEF Messages, MessageId
    <2>7. more \in SUBSET Messages
      BY <2>5, <2>6
    <2>8. \A x, y \in more : x.id = y.id => x = y
      BY <2>5, <2>6
    <2>9. \A x \in more : x.id = lastId + 1 \/ (talk[w].at \in Asking /\ x.id = talk[w].question)
      BY <1>1, <1>3, <2>1, <2>5, <2>6
    <2> QED
      BY <1>2, <1>4, <2>2, <2>7, <2>8, <2>9, SavedIsFiled
  <1> QED
    BY <1>3, <1>5, <1>6

LEMMA CommitIsFiled ==
  ASSUME Good, Filed, NEW w \in Window, CommitAct(w)
  PROVE  Filed'
  <1>1. PICK m : m = [id |-> lastId + 1, role |-> "assistant", of |-> lastId + 1]
    OBVIOUS
  <1>2. /\ lastId < MaxMessages /\ thread' = thread \cup {m} /\ lastId' = lastId + 1 /\ Now(w, Idle)
        /\ screen' \in {screen, [screen EXCEPT ![w] = @ \ {talk[w].offer}]}
    BY <1>1 DEF CommitAct
  <1>3. m \in Messages /\ m.id = lastId + 1
    <2>1. lastId + 1 \in MessageId
      BY <1>2, AssistantAssumption DEF Filed, MessageId
    <2> QED
      BY <1>1, <2>1 DEF Messages
  <1>4. screen' \in [Window -> SUBSET Commands]
    BY <1>2 DEF Filed
  <1>5. PICK more : more = {m}
    OBVIOUS
  <1>6. /\ more \in SUBSET Messages /\ thread' = thread \cup more
        /\ \A x, y \in more : x.id = y.id => x = y
        /\ \A x \in more : x.id = lastId + 1 \/ (talk[w].at \in Asking /\ x.id = talk[w].question)
    BY <1>2, <1>3, <1>5
  <1> QED
    BY <1>2, <1>4, <1>6, SavedIsFiled

LEMMA BeginIsFiled ==
  ASSUME Good, Filed, NEW w \in Window, BeginChat(w)
  PROVE  Filed'
  <1>1. PICK q : q = [Idle EXCEPT !.at = "asked", !.rights = rights, !.question = lastId + 1]
    OBVIOUS
  <1>2. /\ Now(w, q) /\ lastId < MaxMessages - 1 /\ lastId' = lastId + 1 /\ UNCHANGED <<thread, screen>>
    BY <1>1 DEF BeginChat
  <1>3. /\ lastId \in Nat /\ MaxMessages \in Nat /\ lastId' \in 0..MaxMessages /\ lastId + 1 \in MessageId
        /\ \A m \in thread : m.id \in Nat /\ m.id <= lastId
    BY <1>2, AssistantAssumption DEF Filed, Messages, MessageId
  <1>4. /\ q.question = lastId + 1 /\ q.context = {} /\ q.rounds = 0 /\ q.offer = NoCommand
    BY <1>1 DEF Idle
  <1>5. Fits(q, lastId')
    BY <1>2, <1>3, <1>4, FS_EmptySet, AssistantAssumption DEF Fits, MessageId
  <1>6. \A v \in Window : talk'[v] = IF v = w THEN q ELSE talk[v]
    BY <1>2 DEF Now, Good, Typed
  <1>7. \A v \in Window : talk[v].at \in Asking => talk[v].question \in Nat /\ talk[v].question <= lastId
    BY <1>3 DEF Filed, Fits, MessageId
  <1>8. \A v \in Window : Fits(talk'[v], lastId')
    <2>1. ASSUME NEW v \in Window, v # w PROVE Fits(talk[v], lastId')
      <3>1. Fits(talk[v], lastId)
        BY DEF Filed
      <3> QED
        BY <1>2, <1>3, <1>7, <3>1 DEF Fits
    <2> QED
      BY <1>5, <1>6, <2>1
  <1>9. OwnQuestion'
    <2>1. ASSUME NEW v \in Window, talk'[v].at \in Asking
          PROVE  /\ \A m \in thread : m.id # talk'[v].question
                 /\ \A u \in Window : u # v /\ talk'[u].at \in Asking => talk'[u].question # talk'[v].question
      <3>1. CASE v = w
        <4>1. talk'[v].question = lastId + 1
          BY <1>4, <1>6, <3>1
        <4>2. ASSUME NEW u \in Window, u # v, talk'[u].at \in Asking PROVE talk'[u].question # talk'[v].question
          <5>1. talk'[u] = talk[u]
            BY <1>6, <3>1, <4>2
          <5> QED
            BY <1>3, <1>7, <4>1, <4>2, <5>1
        <4> QED
          BY <1>3, <4>1, <4>2
      <3>2. CASE v # w
        <4>1. talk'[v] = talk[v]
          BY <1>6, <3>2
        <4>2. ASSUME NEW u \in Window, u # v, talk'[u].at \in Asking PROVE talk'[u].question # talk'[v].question
          <5>1. CASE u = w
            BY <1>3, <1>4, <1>6, <1>7, <2>1, <4>1, <5>1
          <5>2. CASE u # w
            <6>1. talk'[u] = talk[u]
              BY <1>6, <5>2
            <6> QED
              BY <2>1, <4>1, <4>2, <6>1 DEF Filed, OwnQuestion
          <5> QED
            BY <5>1, <5>2
        <4> QED
          BY <2>1, <4>1, <4>2 DEF Filed, OwnQuestion
      <3> QED
        BY <3>1, <3>2
    <2> QED
      BY <1>2, <2>1 DEF OwnQuestion
  <1> QED
    BY <1>2, <1>3, <1>8, <1>9 DEF Filed

LEMMA ReadIsFiled ==
  ASSUME Good, Filed, NEW w \in Window, ReadHistory(w)
  PROVE  Filed'
  <1>1. PICK ids : ids = {m.id : m \in thread} \cup {talk[w].question}
    OBVIOUS
  <1>2. PICK q : q = [talk[w] EXCEPT !.at = "thinking", !.context = Before(Latest(ids))]
    OBVIOUS
  <1>3. talk[w].at = "asked" /\ Now(w, q) /\ UNCHANGED <<thread, lastId, screen>>
    BY <1>1, <1>2 DEF ReadHistory
  <1>4. talk[w] \in Shape /\ Fits(talk[w], lastId)
    BY DEF Good, Typed, Filed
  <1>5. ids \subseteq MessageId /\ ids # {}
    <2>1. talk[w].question \in MessageId
      BY <1>3, <1>4 DEF Fits, Asking
    <2>2. \A m \in thread : m.id \in MessageId
      BY DEF Filed, Messages
    <2> QED
      BY <1>1, <2>1, <2>2
  <1>6. PICK B : B = Before(Latest(ids))
    OBVIOUS
  <1>7. B \subseteq MessageId /\ Cardinality(B) < Remembered
    BY ONLY <1>5, <1>6, FewAreGiven
  <1>8. /\ q.question = talk[w].question /\ q.context = B /\ q.rounds = talk[w].rounds
        /\ q.offer = talk[w].offer /\ q.at = "thinking"
    BY <1>2, <1>4, <1>6 DEF Shape
  <1>9. Fits(q, lastId) /\ GoesOn(w, q)
    BY <1>3, <1>4, <1>7, <1>8 DEF Fits, GoesOn, Asking
  <1> QED
    BY <1>3, <1>9, RequestFits DEF Filed

LEMMA CallIsFiled ==
  ASSUME Good, Filed, NEW w \in Window, NEW t \in DOMAIN Registry, NEW o \in Spoken,
         CallTool(w, [tool |-> t, order |-> o])
  PROVE  Filed'
  <1>1. PICK c, q : c = [tool |-> t, order |-> o] /\ q = talk[w]
    OBVIOUS
  <1>2. q.at = "thinking" /\ UNCHANGED <<thread, lastId, screen>>
    BY <1>1 DEF CallTool
  <1>3. PICK first \in {0, 1},
             r \in IF c.tool \notin Offered(q.rights) THEN {q}
                   ELSE IF Writes(c.tool) THEN {[q EXCEPT !.offer = c]} ELSE Ran(q, c) :
             r.rounds + first \in 1..MaxRounds /\ Now(w, [r EXCEPT !.rounds = @ + first])
    BY <1>1 DEF CallTool
  <1>4. q \in Shape /\ Fits(q, lastId)
    BY <1>1 DEF Good, Typed, Filed
  <1>5. Writes(c.tool) => c \in Commands
    BY <1>1 DEF Writes, Commands
  <1>6. r = q \/ (Writes(c.tool) /\ r = [q EXCEPT !.offer = c]) \/ r \in Ran(q, c)
    BY <1>3
  <1>7. /\ Fits(r, lastId)
        /\ r.question = q.question /\ r.rounds = q.rounds /\ r.at = q.at /\ DOMAIN r = DOMAIN q
    BY <1>4, <1>5, <1>6, AnsweredFits
  <1>8. PICK p : p = [r EXCEPT !.rounds = @ + first]
    OBVIOUS
  <1>9. /\ p.question = r.question /\ p.context = r.context /\ p.offer = r.offer /\ p.at = r.at
        /\ p.rounds = r.rounds + first
    <2>1. DOMAIN q = {"at", "rights", "question", "context", "rounds", "offer", "failed", "did", "was"}
      BY <1>4 DEF Shape
    <2> QED
      BY <1>7, <1>8, <2>1
  <1>10. Fits(p, lastId) /\ GoesOn(w, p)
    <2>1. p.rounds \in 0..MaxRounds
      BY <1>3, <1>9, AssistantAssumption
    <2> QED
      BY <1>1, <1>2, <1>7, <1>9, <2>1 DEF Fits, GoesOn, Asking
  <1>11. Now(w, p)
    BY <1>3, <1>8
  <1> QED
    BY <1>2, <1>10, <1>11, RequestFits DEF Filed

LEMMA RulesAreFiled ==
  ASSUME Good, Filed, NEW w \in Window, NEW s \in Saying, RulesAnswer(w, s)
  PROVE  Filed'
  <1>1. PICK c, q : c = Parse(s) /\ q = talk[w]
    OBVIOUS
  <1>2. /\ q.at \in {"asked", "without model"} /\ UNCHANGED <<thread, lastId, screen>>
        /\ \E r \in IF c = NoCommand THEN {q}
                    ELSE IF Writes(c.tool) THEN {[q EXCEPT !.offer = c]}
                    ELSE IF ~MayUse(q.rights, c.tool) THEN {q} ELSE Ran(q, c) :
             Now(w, [r EXCEPT !.at = "answered"])
    BY <1>1 DEF RulesAnswer
  <1>3. PICK r \in IF c = NoCommand THEN {q}
                   ELSE IF Writes(c.tool) THEN {[q EXCEPT !.offer = c]}
                   ELSE IF ~MayUse(q.rights, c.tool) THEN {q} ELSE Ran(q, c) :
             Now(w, [r EXCEPT !.at = "answered"])
    BY <1>2
  <1>4. q \in Shape /\ Fits(q, lastId)
    BY <1>1 DEF Good, Typed, Filed
  <1>5. Writes(c.tool) => c \in Commands
    BY <1>1, ParseTells
  <1>6. r = q \/ (Writes(c.tool) /\ r = [q EXCEPT !.offer = c]) \/ r \in Ran(q, c)
    BY <1>3
  <1>7. /\ Fits(r, lastId)
        /\ r.question = q.question /\ r.rounds = q.rounds /\ r.at = q.at /\ DOMAIN r = DOMAIN q
    BY <1>4, <1>5, <1>6, AnsweredFits
  <1>8. PICK p : p = [r EXCEPT !.at = "answered"]
    OBVIOUS
  <1>9. /\ p.question = r.question /\ p.context = r.context /\ p.offer = r.offer /\ p.rounds = r.rounds
        /\ p.at = "answered"
    <2>1. DOMAIN q = {"at", "rights", "question", "context", "rounds", "offer", "failed", "did", "was"}
      BY <1>4 DEF Shape
    <2> QED
      BY <1>7, <1>8, <2>1
  <1>10. Fits(p, lastId) /\ GoesOn(w, p)
    BY <1>1, <1>2, <1>4, <1>7, <1>9 DEF Fits, GoesOn, Asking
  <1>11. Now(w, p)
    BY <1>3, <1>8
  <1> QED
    BY <1>2, <1>10, <1>11, RequestFits DEF Filed

(* The model fails, a command is confirmed or locks its order, or a request  *)
(* is broken off.                                                            *)
LEMMA OthersAreFiled ==
  ASSUME Good, Filed, NEW w \in Window,
         \/ ModelFails(w) \/ LockOrder(w) \/ Abort(w)
         \/ \E c \in Commands : Confirm(w, c)
  PROVE  Filed'
  <1>1. UNCHANGED <<thread, lastId, screen>> /\ talk[w] \in Shape /\ Fits(talk[w], lastId)
    BY DEF ModelFails, LockOrder, Abort, Confirm, Good, Typed, Filed
  <1>2. CASE ModelFails(w)
    <2>1. PICK q : q = [talk[w] EXCEPT !.at = "without model", !.offer = NoCommand]
      OBVIOUS
    <2>2. /\ q.question = talk[w].question /\ q.context = talk[w].context /\ q.rounds = talk[w].rounds
          /\ q.offer = NoCommand /\ q.at = "without model"
      BY <1>1, <2>1 DEF Shape
    <2>3. talk[w].at = "thinking" /\ Now(w, q)
      BY <1>2, <2>1 DEF ModelFails
    <2>4. Fits(q, lastId) /\ GoesOn(w, q)
      BY <1>1, <2>2, <2>3 DEF Fits, GoesOn, Asking
    <2> QED
      BY <1>1, <2>3, <2>4, RequestFits DEF Filed
  <1>3. CASE LockOrder(w)
    <2>1. PICK r \in Ran(talk[w], talk[w].offer) : Now(w, [r EXCEPT !.at = "acted"])
      BY <1>3 DEF LockOrder
    <2>2. /\ r.question = talk[w].question /\ r.context = talk[w].context /\ r.rounds = talk[w].rounds
          /\ r.offer = talk[w].offer /\ DOMAIN r = DOMAIN talk[w]
      BY <1>1, <2>1, RanFits
    <2>3. PICK p : p = [r EXCEPT !.at = "acted"]
      OBVIOUS
    <2>4. /\ p.question = r.question /\ p.context = r.context /\ p.offer = r.offer /\ p.rounds = r.rounds
          /\ p.at = "acted"
      <3>1. DOMAIN talk[w] = {"at", "rights", "question", "context", "rounds", "offer", "failed", "did", "was"}
        BY <1>1 DEF Shape
      <3> QED
        BY <2>2, <2>3, <3>1
    <2>5. Fits(p, lastId) /\ GoesOn(w, p)
      BY <1>1, <2>2, <2>4 DEF Fits, GoesOn, Asking
    <2>6. Now(w, p)
      BY <2>1, <2>3
    <2> QED
      BY <1>1, <2>5, <2>6, RequestFits DEF Filed
  <1>4. CASE Abort(w)
    <2>1. Now(w, Idle)
      BY <1>4 DEF Abort
    <2>2. GoesOn(w, Idle)
      BY DEF GoesOn, Idle, Asking
    <2> QED
      BY <1>1, <2>1, <2>2, IdleFits, RequestFits DEF Filed
  <1>5. ASSUME NEW c \in Commands, Confirm(w, c) PROVE Filed'
    <2>1. PICK q : q = [Idle EXCEPT !.at = "acting", !.rights = rights, !.offer = c]
      OBVIOUS
    <2>2. q.question = 0 /\ q.context = {} /\ q.rounds = 0 /\ q.offer = c /\ q.at = "acting"
      BY <2>1 DEF Idle
    <2>3. Now(w, q)
      BY <1>5, <2>1 DEF Confirm
    <2>4. Fits(q, lastId) /\ GoesOn(w, q)
      BY <2>2, FS_EmptySet, AssistantAssumption DEF Fits, GoesOn, Asking
    <2> QED
      BY <1>1, <2>3, <2>4, RequestFits DEF Filed
  <1> QED
    BY <1>2, <1>3, <1>4, <1>5

LEMMA FiledStep == Good /\ Filed /\ [AssistantNext]_assistantVars => Filed'
  <1> SUFFICES ASSUME Good, Filed, [AssistantNext]_assistantVars PROVE Filed'
    OBVIOUS
  <1>1. ASSUME NEW w \in Window, BeginChat(w) \/ ReadHistory(w) \/ EndChat(w) \/ CommitAct(w) PROVE Filed'
    BY <1>1, BeginIsFiled, ReadIsFiled, EndIsFiled, CommitIsFiled
  <1>2. ASSUME NEW w \in Window,
               \/ ModelFails(w) \/ LockOrder(w) \/ Abort(w)
               \/ \E c \in Commands : Confirm(w, c)
        PROVE  Filed'
    BY <1>2, OthersAreFiled
  <1>3. ASSUME NEW w \in Window, NEW s \in Saying, RulesAnswer(w, s) PROVE Filed'
    BY <1>3, RulesAreFiled
  <1>4. ASSUME NEW w \in Window, NEW t \in DOMAIN Registry, NEW o \in Spoken,
               CallTool(w, [tool |-> t, order |-> o])
        PROVE  Filed'
    BY <1>4, CallIsFiled
  <1>5. ASSUME \/ \E w \in Window, c \in Commands : Dismiss(w, c)
               \/ ClearHistory
               \/ \E m \in OthersMoves, o \in Spoken : OthersMove(m, o)
               \/ \E r \in Rights : RightsChange(r)
               \/ UNCHANGED assistantVars
        PROVE  Filed'
    <2>1. UNCHANGED <<talk, lastId>> /\ thread' \subseteq thread
      BY <1>5 DEF Dismiss, ClearHistory, OthersMove, RightsChange, assistantVars
    <2>2. \/ screen' = screen
          \/ \E w \in Window, c \in Commands : screen' = [screen EXCEPT ![w] = @ \ {c}]
      BY <1>5 DEF Dismiss, ClearHistory, OthersMove, RightsChange, assistantVars
    <2>3. screen' \in [Window -> SUBSET Commands]
      BY <2>2 DEF Filed
    <2> QED
      BY <2>1, <2>3, NoRequestFits
  <1> QED
    BY <1>1, <1>2, <1>3, <1>4, <1>5 DEF AssistantNext

(* Every message and every request is well formed, a message is saved once,  *)
(* and the model is given no more of them than the code reads, for any       *)
(* number of windows, orders, messages and calls.                            *)
THEOREM AssistantTypes == AssistantSpec => []AssistantTypeOK
  <1>1. AssistantInit => Filed
    <2> SUFFICES ASSUME AssistantInit PROVE Filed
      OBVIOUS
    <2>1. \A w \in Window : talk[w] = Idle /\ Idle.at \notin Asking
      BY DEF AssistantInit, Idle, Asking
    <2>2. OwnQuestion
      BY <2>1 DEF OwnQuestion
    <2> QED
      BY <2>1, <2>2, IdleFits, AssistantAssumption DEF AssistantInit, Filed
  <1>2. Good /\ Filed => AssistantTypeOK
    <2> SUFFICES ASSUME Good, Filed PROVE AssistantTypeOK
      OBVIOUS
    <2>1. /\ standing \in [Spoken -> Standings] /\ rights \in Rights
          /\ executed \in Seq(Records) /\ audited \in Seq(Records)
      BY DEF Good, Typed, CommandsAreRecorded
    <2>2. ASSUME NEW w \in Window PROVE talk[w] \in Requests /\ Cardinality(talk[w].context) < Remembered
      <3>1. talk[w] \in Shape /\ Fits(talk[w], lastId)
        BY DEF Good, Typed, Filed
      <3> QED
        BY <3>1 DEF Shape, Fits, Requests
    <2>3. talk \in [Window -> Requests]
      BY <2>2 DEF Good, Typed
    <2> QED
      BY <2>1, <2>2, <2>3 DEF AssistantTypeOK, Filed
  <1> QED
    BY <1>1, <1>2, FiledStep, GoodForever, PTL DEF AssistantSpec

-----------------------------------------------------------------------------
(* Parcels, the findings, the forecasts, the couriers and the                *)
(* assistant keep their types, for all values of all their constants:        *)
(* InsightTypeOK.                                                            *)
THEOREM InsightTypes == InsightSpec => []InsightTypeOK
  <1>1. FindingsInv => AnomaliesTypeOK
    BY DEF FindingsInv
  <1>2. AnomaliesSpec => []AnomaliesTypeOK
    BY <1>1, AnomaliesBegin, AnomaliesStep, PTL DEF AnomaliesSpec
  <1>3. InsightTypeOK <=> (TypeOK /\ AnomaliesTypeOK /\ ForecastTypeOK /\ CouriersTypeOK /\ AssistantTypeOK)
    BY DEF InsightTypeOK
  <1> QED
    BY <1>2, <1>3, TypeCorrect, ForecastTypes, CouriersTypes, AssistantTypes, PTL DEF InsightSpec
=============================================================================
