------------------------------- MODULE Outbox -------------------------------
(***************************************************************************)
(* Events, notifications and webhooks: app/core/events.py,                 *)
(* app/workers/jobs.py and app/modules/notifications.                      *)
(*                                                                         *)
(* A request writes its events with the change they tell of.  The          *)
(* dispatcher job publishes them on the bus and turns status changes into  *)
(* notifications; the maintenance job notifies of facts it finds in the    *)
(* database (an order on hold, low stock) and sends what is due to the     *)
(* channels.  A job is one transaction: what it has sent stays sent when   *)
(* it is rolled back, what it has written does not.                        *)
(*                                                                         *)
(* run_job() holds an advisory lock to the end of its transaction, so a    *)
(* job has at most one run at a time however many replicas there are.      *)
(***************************************************************************)
EXTENDS Naturals, FiniteSets

CONSTANTS
  Order,      \* the orders events are about
  MaxEvents,  \* bound: event ids
  Fact,       \* what scan_all() can find: a held order, a low balance, ...
  Daily,      \* the facts notified once a day; the others once
  MaxDay,     \* bound: the last day
  Channel,    \* e-mail addresses and webhooks
  Choices,    \* the lists of events they may be given
  EventType,  \* what is emitted
  Batch,      \* rows a run takes at most
  Backoff,    \* length of BACKOFF in jobs.py
  Retries,    \* length of BACKOFF in notifications/service.py
  MaxCrashes, \* bound: runs that are lost
  None

Kind  == {"ORDER_STATUS", "ALERT"}  \* EVENTS: for integrations only, or for the inbox too
Event == 1..MaxEvents
Day   == 0..MaxDay
Note  == (Event \cup Fact) \X Day
Post  == Note \X Channel

ASSUME OutboxAssumption ==
  /\ MaxEvents \in Nat /\ MaxDay \in Nat /\ MaxCrashes \in Nat
  /\ Batch \in Nat \ {0} /\ Backoff \in Nat /\ Retries \in Nat
  /\ Daily \subseteq Fact
  /\ Choices \subseteq SUBSET Kind
  /\ Fact \cap Nat = {} /\ None \notin Order

VARIABLES
  outbox,    \* outbox_events by id
  note,      \* rows of notifications by subject and day of creation
  post,      \* notification_deliveries by notification and channel
  channel,   \* notification_channels: state and events
  fact,      \* the facts that hold in the database
  day,       \* the date
  dispatch,  \* the run of the dispatcher: rows taken, left, written
  maint,     \* the run of the maintenance job, likewise
  published, \* how often each event reached the bus
  received,  \* how often each delivery reached its channel
  crashes    \* runs lost so far

vars == <<outbox, note, post, channel, fact, day, dispatch, maint, published, received, crashes>>

(***************************************************************************)
(* Rows                                                                    *)
(***************************************************************************)
EventStatus == {"NONE", "UNCOMMITTED", "GONE", "PENDING", "PUBLISHED", "FAILED"}
EventRow    == [of: Order \cup {None}, type: EventType \cup {None}, status: EventStatus,
                attempts: 0..(Backoff + 1), due: BOOLEAN]

PostStatus == {"NONE", "PENDING", "SENT", "FAILED"}
PostRow    == [status: PostStatus, attempts: 0..(Retries + 1), due: BOOLEAN]

ChannelRow == [state: {"NONE", "ACTIVE", "INACTIVE"}, events: SUBSET Kind]

KindOf(x) == IF x \in Event THEN "ORDER_STATUS" ELSE "ALERT"

NoEvent == [of |-> None, type |-> None, status |-> "NONE", attempts |-> 0, due |-> FALSE]
NoPost  == [status |-> "NONE", attempts |-> 0, due |-> FALSE]
NewPost == [status |-> "PENDING", attempts |-> 0, due |-> TRUE]

Idle == [on |-> FALSE, left |-> {}, rows |-> [x \in {} |-> x], notes |-> {}, posts |-> {}]

(* A run: is one under way, what it has still to visit, the rows it has locked *)
(* as it has written them so far, and what it has inserted.                    *)
RunOK(r, S, R) ==
  /\ DOMAIN r = {"on", "left", "rows", "notes", "posts"} /\ r.on \in BOOLEAN
  /\ r.left \subseteq DOMAIN r.rows /\ DOMAIN r.rows \subseteq S
  /\ \A x \in DOMAIN r.rows : r.rows[x] \in R
  /\ r.notes \subseteq Note /\ r.posts \subseteq Post

TypeOK ==
  /\ outbox \in [Event -> EventRow]
  /\ note \in [Note -> Nat]
  /\ post \in [Post -> PostRow]
  /\ channel \in [Channel -> ChannelRow]
  /\ fact \subseteq Fact /\ day \in Day
  /\ RunOK(dispatch, Event, EventRow) /\ RunOK(maint, Post, PostRow)
  /\ published \in [Event -> Nat] /\ received \in [Post -> Nat]
  /\ crashes \in 0..MaxCrashes

Init ==
  /\ outbox = [n \in Event |-> NoEvent]
  /\ note = [x \in Note |-> 0]
  /\ post = [p \in Post |-> NoPost]
  /\ channel = [c \in Channel |-> [state |-> "NONE", events |-> {}]]
  /\ fact = {} /\ day = 0
  /\ dispatch = Idle /\ maint = Idle
  /\ published = [n \in Event |-> 0] /\ received = [p \in Post |-> 0]
  /\ crashes = 0

-----------------------------------------------------------------------------
(***************************************************************************)
(* Requests.  The request holds the lock of its order, so the events of    *)
(* one order are numbered in the order of their commits.                   *)
(***************************************************************************)
Emit(o, type) ==
  /\ \E n \in Event :
       /\ outbox[n].status = "NONE"
       /\ \A m \in 1..(n - 1) : outbox[m].status # "NONE"
       /\ outbox' = [outbox EXCEPT ![n] = [NoEvent EXCEPT !.of = o, !.type = type, !.status = "UNCOMMITTED"]]
  /\ UNCHANGED <<note, post, channel, fact, day, dispatch, maint, published, received, crashes>>

EndRequest(o, status, due) ==
  LET mine == {n \in Event : outbox[n].of = o /\ outbox[n].status = "UNCOMMITTED"}
  IN  /\ mine # {}
      /\ outbox' = [n \in Event |-> IF n \in mine THEN [outbox[n] EXCEPT !.status = status, !.due = due]
                                                  ELSE outbox[n]]
      /\ UNCHANGED <<note, post, channel, fact, day, dispatch, maint, published, received, crashes>>

CommitRequest(o)   == EndRequest(o, "PENDING", TRUE)
RollbackRequest(o) == EndRequest(o, "GONE", FALSE)

CreateChannel(c, events) ==
  /\ channel[c].state = "NONE"
  /\ channel' = [channel EXCEPT ![c] = [state |-> "ACTIVE", events |-> events]]
  /\ UNCHANGED <<outbox, note, post, fact, day, dispatch, maint, published, received, crashes>>

UpdateChannel(c, state, events) ==
  /\ channel[c].state # "NONE"
  /\ channel' = [channel EXCEPT ![c] = [state |-> state, events |-> events]]
  /\ UNCHANGED <<outbox, note, post, fact, day, dispatch, maint, published, received, crashes>>

(***************************************************************************)
(* The rest of the system, as the scan sees it, and the calendar.          *)
(***************************************************************************)
FactArises(f) ==
  /\ f \notin fact
  /\ fact' = fact \cup {f}
  /\ UNCHANGED <<outbox, note, post, channel, day, dispatch, maint, published, received, crashes>>

FactEnds(f) ==
  /\ f \in fact
  /\ fact' = fact \ {f}
  /\ UNCHANGED <<outbox, note, post, channel, day, dispatch, maint, published, received, crashes>>

NextDay ==
  /\ day < MaxDay
  /\ day' = day + 1
  /\ UNCHANGED <<outbox, note, post, channel, fact, dispatch, maint, published, received, crashes>>

-----------------------------------------------------------------------------
(***************************************************************************)
(* notify(): the rows a run inserts for the subjects in S.  Its dedup_key  *)
(* contains the date for a daily fact; the unique index leaves out what    *)
(* is there already.                                                       *)
(***************************************************************************)
\* Mutant: every key has a date.
DatedKey(x, d) == <<x, d>>
DedupKey(x, d) == IF x \in Daily THEN <<x, d>> ELSE <<x, 0>>

IsNew(x) == \A d \in Day : note[<<x, d>>] > 0 => DedupKey(x, d) # DedupKey(x, day)

Listening(x) == {c \in Channel : channel[c].state = "ACTIVE" /\ KindOf(x) \in channel[c].events}

\* Mutant: no inbox.
NotifiedIfListening(S) == {<<x, day>> : x \in {y \in S : IsNew(y) /\ Listening(y) # {}}}
Notified(S) == {<<x, day>> : x \in {y \in S : IsNew(y) /\ (y \in Event => Listening(y) # {})}}

Posts(notes) == {p \in notes \X Channel : p[2] \in Listening(p[1][1])}

(* A failed attempt: wait for the next back-off, or give up. *)
FailedAttempt(row, givenUp) ==
  [row EXCEPT !.attempts = @ + 1, !.due = FALSE, !.status = IF givenUp THEN "FAILED" ELSE @]

\* Mutant: checked before it is counted.
AgainOnceMore(row, limit)  == FailedAttempt(row, row.attempts > limit)
\* Mutant: attempts not counted.
AgainUncounted(row, limit) == [row EXCEPT !.due = FALSE]
Again(row, limit)          == FailedAttempt(row, row.attempts + 1 > limit)

Done(row, status) == [row EXCEPT !.attempts = @ + 1, !.due = FALSE, !.status = status]

(***************************************************************************)
(* run_dispatcher(): the oldest due events, in the order of their ids.     *)
(***************************************************************************)
DueEvents == {n \in Event : outbox[n].status = "PENDING" /\ outbox[n].due}

Oldest(S) == {n \in S : Cardinality({m \in S : m < n}) < Batch}

StartDispatch ==
  /\ ~dispatch.on /\ DueEvents # {}
  /\ dispatch' = [Idle EXCEPT !.on = TRUE, !.left = Oldest(DueEvents),
                              !.rows = [n \in Oldest(DueEvents) |-> outbox[n]]]
  /\ UNCHANGED <<outbox, note, post, channel, fact, day, maint, published, received, crashes>>

Next1(S) == {n \in S : \A m \in S : n <= m}

Publish(n) ==
  LET told == IF outbox[n].type = "order.status_changed" THEN Notified({n}) ELSE {}
  IN  /\ published' = [published EXCEPT ![n] = @ + 1]
      /\ dispatch' = [dispatch EXCEPT !.left = @ \ {n}, !.rows[n] = Done(@, "PUBLISHED"),
                                      !.notes = @ \cup told, !.posts = @ \cup Posts(told)]
      /\ UNCHANGED <<outbox, note, post, channel, fact, day, maint, received, crashes>>

(* The bus may have taken the event although its answer is lost. *)
PublishFails(n, arrives) ==
  /\ published' = [published EXCEPT ![n] = IF arrives THEN @ + 1 ELSE @]
  /\ dispatch' = [dispatch EXCEPT !.left = @ \ {n}, !.rows[n] = Again(@, Backoff)]
  /\ UNCHANGED <<outbox, note, post, channel, fact, day, maint, received, crashes>>

\* Mutant: the rows are not written.
CommitWithoutStatus ==
  /\ dispatch.on /\ dispatch.left = {}
  /\ dispatch' = Idle
  /\ UNCHANGED <<outbox, note, post, channel, fact, day, maint, published, received, crashes>>

CommitDispatch ==
  /\ dispatch.on /\ dispatch.left = {}
  /\ outbox' = [n \in Event |-> IF n \in DOMAIN dispatch.rows THEN dispatch.rows[n] ELSE outbox[n]]
  /\ note' = [x \in Note |-> IF x \in dispatch.notes THEN note[x] + 1 ELSE note[x]]
  /\ post' = [p \in Post |-> IF p \in dispatch.posts THEN NewPost ELSE post[p]]
  /\ dispatch' = Idle
  /\ UNCHANGED <<channel, fact, day, maint, published, received, crashes>>

CrashDispatch ==
  /\ dispatch.on /\ crashes < MaxCrashes
  /\ dispatch' = Idle /\ crashes' = crashes + 1
  /\ UNCHANGED <<outbox, note, post, channel, fact, day, maint, published, received>>

EventBackoffEnds(n) ==
  /\ outbox[n].status = "PENDING" /\ ~outbox[n].due
  /\ outbox' = [outbox EXCEPT ![n].due = TRUE]
  /\ UNCHANGED <<note, post, channel, fact, day, dispatch, maint, published, received, crashes>>

-----------------------------------------------------------------------------
(***************************************************************************)
(* run_maintenance(): scan_all(), then deliver_due().  The deliveries the  *)
(* scan has inserted are due in the same run.  Rows due at the same time   *)
(* come in any order.                                                      *)
(***************************************************************************)
DuePosts == {p \in Post : post[p].status = "PENDING" /\ post[p].due}

StartMaintenance ==
  LET told == Notified(fact)
      due  == DuePosts \cup Posts(told)
  IN  /\ ~maint.on /\ told \cup due # {}
      /\ \E S \in SUBSET due :
           /\ Cardinality(S) = Batch \/ (S = due /\ Cardinality(S) < Batch)
           /\ maint' = [Idle EXCEPT !.on = TRUE, !.left = S, !.notes = told, !.posts = Posts(told),
                                    !.rows = [p \in S |-> IF p \in Posts(told) THEN NewPost ELSE post[p]]]
      /\ UNCHANGED <<outbox, note, post, channel, fact, day, dispatch, published, received, crashes>>

Attempt(p, arrives, row) ==
  /\ p \in maint.left
  /\ received' = [received EXCEPT ![p] = IF arrives THEN @ + 1 ELSE @]
  /\ maint' = [maint EXCEPT !.left = @ \ {p}, !.rows[p] = row]
  /\ UNCHANGED <<outbox, note, post, channel, fact, day, dispatch, published, crashes>>

\* Mutant: the status of the answer is ignored.
DeliverUnanswered(p) ==
  /\ channel[p[2]].state = "ACTIVE"
  /\ \E arrives \in BOOLEAN : Attempt(p, arrives, Done(maint.rows[p], "SENT"))

(* A message may arrive although its answer is lost. *)
Deliver(p) ==
  /\ channel[p[2]].state = "ACTIVE"
  /\ \/ Attempt(p, TRUE, Done(maint.rows[p], "SENT"))
     \/ \E arrives \in BOOLEAN : Attempt(p, arrives, Again(maint.rows[p], Retries))

(* Wrong configuration, or a channel switched off: not tried again. *)
GiveUp(p) == Attempt(p, FALSE, Done(maint.rows[p], "FAILED"))

CommitMaintenance ==
  /\ maint.on /\ maint.left = {}
  /\ note' = [x \in Note |-> IF x \in maint.notes THEN note[x] + 1 ELSE note[x]]
  /\ post' = [p \in Post |-> CASE p \in DOMAIN maint.rows -> maint.rows[p]
                               [] p \in maint.posts \ DOMAIN maint.rows -> NewPost
                               [] OTHER -> post[p]]
  /\ maint' = Idle
  /\ UNCHANGED <<outbox, channel, fact, day, dispatch, published, received, crashes>>

(* The process stops, or a later part of the job raises. *)
CrashMaintenance ==
  /\ maint.on /\ crashes < MaxCrashes
  /\ maint' = Idle /\ crashes' = crashes + 1
  /\ UNCHANGED <<outbox, note, post, channel, fact, day, dispatch, published, received>>

PostBackoffEnds(p) ==
  /\ post[p].status = "PENDING" /\ ~post[p].due
  /\ post' = [post EXCEPT ![p].due = TRUE]
  /\ UNCHANGED <<outbox, note, channel, fact, day, dispatch, maint, published, received, crashes>>

-----------------------------------------------------------------------------
Emits    == \E o \in Order, type \in EventType : Emit(o, type)
Requests == \E o \in Order : CommitRequest(o) \/ RollbackRequest(o)
Settings ==
  \E c \in Channel, events \in Choices :
    CreateChannel(c, events) \/ \E state \in {"ACTIVE", "INACTIVE"} : UpdateChannel(c, state, events)
World    == NextDay \/ \E f \in Fact : FactArises(f) \/ FactEnds(f)

PublishNext ==
  \E n \in Next1(dispatch.left) : Publish(n) \/ \E arrives \in BOOLEAN : PublishFails(n, arrives)

DeliverNext == \E p \in maint.left : Deliver(p) \/ GiveUp(p)

BackoffEnds ==
  \/ \E n \in Event : EventBackoffEnds(n)
  \/ \E p \in Post : PostBackoffEnds(p)

Jobs ==
  \/ StartDispatch \/ PublishNext \/ CommitDispatch \/ CrashDispatch
  \/ StartMaintenance \/ DeliverNext \/ CommitMaintenance \/ CrashMaintenance
  \/ BackoffEnds

Next == Emits \/ Requests \/ Settings \/ World \/ Jobs

Spec == Init /\ [][Next]_vars

(* The worker's loop runs its jobs again and again, and time passes. *)
Fairness ==
  /\ WF_vars(StartDispatch) /\ WF_vars(PublishNext) /\ WF_vars(CommitDispatch)
  /\ WF_vars(StartMaintenance) /\ WF_vars(DeliverNext) /\ WF_vars(CommitMaintenance)
  /\ WF_vars(BackoffEnds)

FairSpec == Spec /\ Fairness

-----------------------------------------------------------------------------
(***************************************************************************)
(* What is marked as sent has been sent: the mark and the sending are two  *)
(* steps, and only the mark can be lost (run_dispatcher, deliver_due).     *)
(* And what is sent was committed: nobody is told of what a request has    *)
(* rolled back, or of an event that was not published (core/events.py).    *)
(***************************************************************************)
SentIsOut ==
  /\ \A n \in Event : outbox[n].status = "PUBLISHED" => published[n] > 0
  /\ \A p \in Post : post[p].status = "SENT" => received[p] > 0
  /\ \A n \in Event : published[n] > 0 => outbox[n].status \in {"PENDING", "PUBLISHED", "FAILED"}
  /\ \A p \in Post : received[p] > 0 /\ p[1][1] \in Event => published[p[1][1]] > 0

(***************************************************************************)
(* An event or a delivery goes out more often than its back-off table      *)
(* allows attempts only when a lost run has to be made up for.             *)
(***************************************************************************)
RepeatsOnlyAfterCrash ==
  /\ \A n \in Event : published[n] <= 1 + Backoff + crashes
  /\ \A p \in Post : received[p] <= 1 + Retries + crashes

(***************************************************************************)
(* A fact is notified once, a daily one once a day, however often the scan *)
(* finds it and whatever runs are lost (dedup_key).                        *)
(***************************************************************************)
ToldOnce ==
  \A x \in Event \cup Fact :
    /\ \A d \in Day : note[<<x, d>>] <= 1
    /\ x \notin Daily => Cardinality({d \in Day : note[<<x, d>>] > 0}) <= 1

(***************************************************************************)
(* Every committed event is published or given up in the end, and every    *)
(* delivery sent or given up, crashes and back-offs included.              *)
(***************************************************************************)
EverythingSettles ==
  /\ \A n \in Event : outbox[n].status = "PENDING" ~> outbox[n].status \in {"PUBLISHED", "FAILED"}
  /\ \A p \in Post : post[p].status = "PENDING" ~> post[p].status \in {"SENT", "FAILED"}

(***************************************************************************)
(* A fact that lasts is notified in the end (scan_all).                    *)
(***************************************************************************)
LastingFactIsTold ==
  \A f \in Fact : f \in fact ~> f \notin fact \/ \E d \in Day : note[<<f, d>>] > 0

(***************************************************************************)
(* core/events.py: the order of events is kept.  An event of an order is   *)
(* published after the older ones of the same order, unless they were      *)
(* given up.                                                               *)
(***************************************************************************)
PublishedInOrder ==
  [][\A m, n \in Event :
       /\ m < n /\ outbox[m].of = outbox[n].of /\ outbox[m].status = "PENDING"
       /\ published[n] = 0 /\ published'[n] > 0
       => published[m] > 0]_vars
=============================================================================
