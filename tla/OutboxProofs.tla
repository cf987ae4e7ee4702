----------------------------- MODULE OutboxProofs -----------------------------
(***************************************************************************)
(* What is sent and what is marked as sent, for any numbers of orders,     *)
(* events, facts, channels and lost runs.                                  *)
(***************************************************************************)
EXTENDS Outbox, FiniteSetTheorems, TLAPS

-------------------------------------------------------------------------------
(* The invariant.                                                           *)

(* A row as the run under way has written it so far.                        *)
EventNow(n) == IF n \in DOMAIN dispatch.rows THEN dispatch.rows[n] ELSE outbox[n]
PostNow(p)  == IF p \in DOMAIN maint.rows THEN maint.rows[p] ELSE post[p]

(* An event goes out only once it is committed, and the attempts count how  *)
(* often, apart from lost runs.                                             *)
EventsInv ==
  \A n \in Event :
    /\ outbox[n].status = "PUBLISHED" => published[n] > 0
    /\ published[n] > 0 => outbox[n].status \in {"PENDING", "PUBLISHED", "FAILED"}
    /\ outbox[n].status \in {"UNCOMMITTED", "PENDING"} => outbox[n].attempts <= Backoff
    /\ published[n] <= EventNow(n).attempts + crashes

(* Notifications have different keys and are of what has happened.          *)
NotesInv ==
  /\ \A x \in Note : note[x] <= 1 /\ (note[x] > 0 /\ x[1] \in Event => published[x[1]] > 0)
  /\ \A x, y \in Note : note[x] > 0 /\ note[y] > 0 /\ x[1] = y[1] /\ x[1] \notin Daily => x = y

(* A delivery belongs to a notification; its attempts count likewise.       *)
PostsInv ==
  \A p \in Post :
    /\ post[p].status = "SENT" => received[p] > 0
    /\ post[p].status = "PENDING" => post[p].attempts <= Retries
    /\ post[p].status = "NONE" => post[p].attempts = 0
    /\ post[p].status # "NONE" => note[p[1]] > 0
    /\ received[p] > 0 /\ p[1][1] \in Event => published[p[1][1]] > 0
    /\ received[p] <= PostNow(p).attempts + crashes

(* What a run of the dispatcher has taken is still to be published by it    *)
(* alone, and what it is going to insert is not there.                      *)
DispatchInv ==
  /\ \A n \in DOMAIN dispatch.rows :
       /\ outbox[n].status = "PENDING"
       /\ dispatch.rows[n].status \in {"PENDING", "PUBLISHED", "FAILED"}
       /\ dispatch.rows[n].status = "PUBLISHED" => published[n] > 0
       /\ dispatch.rows[n].status = "PENDING" => dispatch.rows[n].attempts <= Backoff
       /\ dispatch.rows[n].attempts <= outbox[n].attempts + 1
  /\ \A n \in dispatch.left :
       dispatch.rows[n].status = "PENDING" /\ dispatch.rows[n].attempts = outbox[n].attempts
  /\ \A x \in dispatch.notes :
       /\ x[1] \in Event /\ x[1] \notin dispatch.left /\ published[x[1]] > 0
       /\ \A d \in Day : note[<<x[1], d>>] = 0
  /\ \A x, y \in dispatch.notes : x[1] = y[1] => x = y
  /\ \A p \in dispatch.posts : p[1] \in dispatch.notes
  /\ ~dispatch.on => dispatch = Idle

(* The same of the maintenance job.                                         *)
MaintInv ==
  /\ \A p \in DOMAIN maint.rows :
       /\ post[p].status = "PENDING" \/ (post[p].status = "NONE" /\ p \in maint.posts)
       /\ maint.rows[p].status \in {"PENDING", "SENT", "FAILED"}
       /\ maint.rows[p].status = "SENT" => received[p] > 0
       /\ maint.rows[p].status = "PENDING" => maint.rows[p].attempts <= Retries
       /\ maint.rows[p].attempts <= post[p].attempts + 1
  /\ \A p \in maint.left :
       maint.rows[p].status = "PENDING" /\ maint.rows[p].attempts = post[p].attempts
  /\ \A x \in maint.notes :
       /\ x[1] \in Fact /\ note[x] = 0
       /\ x[1] \notin Daily => \A d \in Day : note[<<x[1], d>>] = 0
  /\ \A x, y \in maint.notes : x[1] = y[1] => x = y
  /\ \A p \in maint.posts : p[1] \in maint.notes
  /\ ~maint.on => maint = Idle

Inv == TypeOK /\ EventsInv /\ NotesInv /\ PostsInv /\ DispatchInv /\ MaintInv

-------------------------------------------------------------------------------
(* Keys, new notifications and their deliveries.                            *)

LEMMA Numbers ==
  /\ Event \in SUBSET Nat /\ Day \in SUBSET Nat /\ 0 \in Day
  /\ Event \cap Fact = {} /\ Daily \in SUBSET Fact
  /\ Backoff \in Nat /\ Retries \in Nat /\ MaxCrashes \in Nat
  BY OutboxAssumption DEF Event, Day

LEMMA PairOf ==
  ASSUME NEW x \in Note
  PROVE  x = <<x[1], x[2]>> /\ x[1] \in Event \cup Fact /\ x[2] \in Day
  BY DEF Note

LEMMA NewMeans ==
  ASSUME TypeOK, NEW x \in Event \cup Fact, IsNew(x)
  PROVE  /\ note[<<x, day>>] = 0
         /\ x \notin Daily => \A d \in Day : note[<<x, d>>] = 0
PROOF
  <1>1. \A d \in Day : <<x, d>> \in Note /\ note[<<x, d>>] \in Nat
    BY DEF TypeOK, Note
  <1>2. day \in Day
    BY DEF TypeOK
  <1>3. DedupKey(x, day) = DedupKey(x, day)
    OBVIOUS
  <1>4. ~(note[<<x, day>>] > 0)
    BY <1>2, <1>3 DEF IsNew
  <1>5. ASSUME x \notin Daily, NEW d \in Day PROVE note[<<x, d>>] = 0
    <2>1. DedupKey(x, d) = <<x, 0>> /\ DedupKey(x, day) = <<x, 0>>
      BY <1>5 DEF DedupKey
    <2>2. ~(note[<<x, d>>] > 0)
      BY <2>1 DEF IsNew
    <2> QED
      BY <1>1, <2>2
  <1> QED
    BY <1>1, <1>2, <1>4, <1>5

(* The notifications of the subjects S.                                     *)
LEMMA NotifiedIs ==
  ASSUME TypeOK, NEW S \in SUBSET (Event \cup Fact)
  PROVE  /\ \A x \in Notified(S) : /\ x \in Note /\ x[1] \in S /\ x[2] = day
                                   /\ note[x] = 0
                                   /\ x[1] \notin Daily => \A d \in Day : note[<<x[1], d>>] = 0
         /\ \A x, y \in Notified(S) : x[1] = y[1] => x = y
PROOF
  <1>1. day \in Day
    BY DEF TypeOK
  <1>2. ASSUME NEW x \in Notified(S)
        PROVE  x = <<x[1], day>> /\ x[1] \in S /\ IsNew(x[1])
    BY DEF Notified
  <1>3. ASSUME NEW x \in Notified(S)
        PROVE  /\ x \in Note /\ x[2] = day /\ note[x] = 0
               /\ x[1] \notin Daily => \A d \in Day : note[<<x[1], d>>] = 0
    <2>1. PICK e : e = x[1]
      OBVIOUS
    <2>2. e \in Event \cup Fact /\ IsNew(e) /\ x = <<e, day>>
      BY <1>2, <2>1
    <2>3. x \in Note /\ x[2] = day
      BY <1>1, <2>2 DEF Note
    <2>4. /\ note[<<e, day>>] = 0
          /\ e \notin Daily => \A d \in Day : note[<<e, d>>] = 0
      BY <2>2, NewMeans
    <2> QED
      BY <2>1, <2>2, <2>3, <2>4
  <1>4. ASSUME NEW x \in Notified(S), NEW y \in Notified(S), x[1] = y[1] PROVE x = y
    <2>1. x = <<x[1], day>> /\ y = <<y[1], day>>
      BY <1>2
    <2> QED
      BY <1>4, <2>1
  <1> QED
    BY <1>2, <1>3, <1>4

LEMMA PostsAre ==
  ASSUME NEW notes \in SUBSET Note
  PROVE  \A p \in Posts(notes) : p \in Post /\ p[1] \in notes
  BY DEF Posts, Post

LEMMA PostOf ==
  ASSUME NEW p \in Post
  PROVE  p[1] \in Note /\ p[1][1] \in Event \cup Fact
  BY DEF Post, Note

LEMMA RowTypes ==
  ASSUME TypeOK
  PROVE  /\ \A n \in Event : /\ outbox[n].status \in EventStatus /\ outbox[n].attempts \in Nat
                             /\ outbox[n].attempts <= Backoff + 1 /\ outbox[n] \in EventRow
                             /\ published[n] \in Nat
         /\ \A p \in Post : /\ post[p].status \in PostStatus /\ post[p].attempts \in Nat
                            /\ post[p].attempts <= Retries + 1 /\ post[p] \in PostRow
                            /\ received[p] \in Nat
         /\ \A x \in Note : note[x] \in Nat
         /\ crashes \in Nat
PROOF
  <1>1. \A n \in Event : outbox[n] \in EventRow /\ published[n] \in Nat
    BY DEF TypeOK
  <1>2. \A p \in Post : post[p] \in PostRow /\ received[p] \in Nat
    BY DEF TypeOK
  <1>3. \A r \in EventRow : r.status \in EventStatus /\ r.attempts \in Nat /\ r.attempts <= Backoff + 1
    BY Numbers DEF EventRow
  <1>4. \A r \in PostRow : r.status \in PostStatus /\ r.attempts \in Nat /\ r.attempts <= Retries + 1
    BY Numbers DEF PostRow
  <1>5. crashes \in Nat
    BY Numbers DEF TypeOK
  <1>6. \A x \in Note : note[x] \in Nat
    BY DEF TypeOK
  <1> QED
    BY <1>1, <1>2, <1>3, <1>4, <1>5, <1>6

LEMMA RunTypes ==
  ASSUME TypeOK
  PROVE  /\ \A n \in DOMAIN dispatch.rows : /\ n \in Event /\ dispatch.rows[n] \in EventRow
                                            /\ dispatch.rows[n].attempts \in Nat
         /\ \A p \in DOMAIN maint.rows : /\ p \in Post /\ maint.rows[p] \in PostRow
                                         /\ maint.rows[p].attempts \in Nat
         /\ dispatch.left \in SUBSET DOMAIN dispatch.rows /\ maint.left \in SUBSET DOMAIN maint.rows
         /\ dispatch.notes \in SUBSET Note /\ maint.notes \in SUBSET Note
         /\ dispatch.posts \in SUBSET Post /\ maint.posts \in SUBSET Post
         /\ DOMAIN dispatch = {"on", "left", "rows", "notes", "posts"}
         /\ DOMAIN maint = {"on", "left", "rows", "notes", "posts"}
         /\ dispatch.on \in BOOLEAN /\ maint.on \in BOOLEAN
PROOF
  <1>1. RunOK(dispatch, Event, EventRow) /\ RunOK(maint, Post, PostRow)
    BY DEF TypeOK
  <1>2. (\A r \in EventRow : r.attempts \in Nat) /\ (\A r \in PostRow : r.attempts \in Nat)
    BY DEF EventRow, PostRow
  <1> QED
    BY <1>1, <1>2 DEF RunOK

-------------------------------------------------------------------------------
(* What a step leaves alone.                                                *)

LEMMA EventsKept ==
  ASSUME EventsInv, UNCHANGED <<outbox, published, dispatch, crashes>>
  PROVE  EventsInv'
  BY DEF EventsInv, EventNow

LEMMA NotesKept ==
  ASSUME NotesInv, UNCHANGED <<note, published>>
  PROVE  NotesInv'
  BY DEF NotesInv

LEMMA PostsKept ==
  ASSUME PostsInv, UNCHANGED <<post, note, received, published, maint, crashes>>
  PROVE  PostsInv'
  BY DEF PostsInv, PostNow

LEMMA DispatchKept ==
  ASSUME DispatchInv, UNCHANGED <<dispatch, outbox, published, note>>
  PROVE  DispatchInv'
  BY DEF DispatchInv

LEMMA MaintKept ==
  ASSUME MaintInv, UNCHANGED <<maint, post, received, note>>
  PROVE  MaintInv'
  BY DEF MaintInv

(* A run that starts or ends is one of no rows.                             *)
LEMMA NoRun == RunOK(Idle, Event, EventRow) /\ RunOK(Idle, Post, PostRow)
               /\ DOMAIN Idle.rows = {} /\ Idle.left = {} /\ Idle.notes = {} /\ Idle.posts = {}
  BY DEF RunOK, Idle

-------------------------------------------------------------------------------
(* Requests, settings and the world.                                        *)

LEMMA OutboxChanged ==
  ASSUME Inv, outbox' \in [Event -> EventRow],
         \A n \in Event : \/ outbox'[n] = outbox[n]
                          \/ outbox[n].status \notin {"PENDING", "PUBLISHED", "FAILED"}
                             /\ outbox'[n].status \in {"UNCOMMITTED", "PENDING", "GONE"}
                             /\ outbox'[n].attempts <= Backoff
                          \/ outbox'[n].status = outbox[n].status /\ outbox'[n].attempts = outbox[n].attempts,
         UNCHANGED <<note, post, channel, fact, day, dispatch, maint, published, received, crashes>>
  PROVE  Inv'
PROOF
  <1>1. TypeOK'
    BY DEF Inv, TypeOK
  <1>2. DispatchInv'
    <2>1. ASSUME NEW n \in DOMAIN dispatch.rows
          PROVE  outbox'[n].status = outbox[n].status /\ outbox'[n].attempts = outbox[n].attempts
      BY RunTypes DEF Inv, DispatchInv
    <2>2. dispatch.left \in SUBSET DOMAIN dispatch.rows
      BY RunTypes DEF Inv
    <2> QED
      BY <2>1, <2>2 DEF Inv, DispatchInv
  <1>3. EventsInv'
    <2> SUFFICES ASSUME NEW n \in Event
                 PROVE  /\ outbox'[n].status = "PUBLISHED" => published[n] > 0
                        /\ published[n] > 0 => outbox'[n].status \in {"PENDING", "PUBLISHED", "FAILED"}
                        /\ outbox'[n].status \in {"UNCOMMITTED", "PENDING"} => outbox'[n].attempts <= Backoff
                        /\ published[n] <= EventNow(n)'.attempts + crashes
      BY DEF EventsInv
    <2>1. CASE outbox'[n].status = outbox[n].status /\ outbox'[n].attempts = outbox[n].attempts
      BY <2>1 DEF Inv, EventsInv, EventNow
    <2>2. CASE /\ outbox[n].status \notin {"PENDING", "PUBLISHED", "FAILED"}
               /\ outbox'[n].status \in {"UNCOMMITTED", "PENDING", "GONE"}
               /\ outbox'[n].attempts <= Backoff
      <3>1. published[n] = 0 /\ crashes \in Nat
        BY <2>2, RowTypes DEF Inv, EventsInv
      <3>2. n \notin DOMAIN dispatch.rows
        BY <2>2 DEF Inv, DispatchInv
      <3>3. EventNow(n)' = outbox'[n]
        BY <3>2 DEF EventNow
      <3>4. outbox'[n].attempts \in Nat
        BY DEF EventRow
      <3> QED
        BY <2>2, <3>1, <3>3, <3>4, Numbers
    <2> QED
      BY <2>1, <2>2
  <1> QED
    BY <1>1, <1>2, <1>3, NotesKept, PostsKept, MaintKept DEF Inv

LEMMA EmitStep ==
  ASSUME Inv, NEW o \in Order, NEW type \in EventType, Emit(o, type)
  PROVE  Inv'
PROOF
  <1>1. PICK n \in Event :
           /\ outbox[n].status = "NONE"
           /\ outbox' = [outbox EXCEPT ![n] =
                           [NoEvent EXCEPT !.of = o, !.type = type, !.status = "UNCOMMITTED"]]
    BY DEF Emit
  <1>2. PICK r : r = [NoEvent EXCEPT !.of = o, !.type = type, !.status = "UNCOMMITTED"]
    OBVIOUS
  <1>3. r \in EventRow /\ r.status = "UNCOMMITTED" /\ r.attempts <= Backoff
    <2>1. r = [of |-> o, type |-> type, status |-> "UNCOMMITTED", attempts |-> 0, due |-> FALSE]
      BY <1>2 DEF NoEvent
    <2>2. 0 \in 0..(Backoff + 1) /\ 0 <= Backoff
      BY Numbers
    <2> QED
      BY <2>1, <2>2 DEF EventRow, EventStatus
  <1>4. outbox \in [Event -> EventRow]
    BY DEF Inv, TypeOK
  <1>5. outbox' \in [Event -> EventRow] /\ outbox'[n] = r /\ \A m \in Event \ {n} : outbox'[m] = outbox[m]
    BY <1>1, <1>2, <1>3, <1>4
  <1> QED
    BY <1>1, <1>3, <1>5, OutboxChanged DEF Emit

LEMMA EndRequestStep ==
  ASSUME Inv, NEW o \in Order, NEW st \in {"PENDING", "GONE"}, NEW due \in BOOLEAN, EndRequest(o, st, due)
  PROVE  Inv'
PROOF
  <1>1. PICK mine : /\ mine = {n \in Event : outbox[n].of = o /\ outbox[n].status = "UNCOMMITTED"}
                    /\ outbox' = [n \in Event |-> IF n \in mine THEN [outbox[n] EXCEPT !.status = st, !.due = due]
                                                              ELSE outbox[n]]
    BY DEF EndRequest
  <1>2. ASSUME NEW n \in mine
        PROVE  /\ outbox'[n] \in EventRow /\ outbox'[n].status = st
               /\ outbox'[n].attempts <= Backoff /\ outbox[n].status = "UNCOMMITTED"
    <2>1. n \in Event /\ outbox[n] \in EventRow /\ outbox[n].status = "UNCOMMITTED"
      BY <1>1, RowTypes DEF Inv
    <2>2. outbox'[n] = [outbox[n] EXCEPT !.status = st, !.due = due]
      BY <1>1, <2>1
    <2>3. outbox'[n] \in EventRow /\ outbox'[n].status = st /\ outbox'[n].attempts = outbox[n].attempts
      BY <2>1, <2>2 DEF EventRow, EventStatus
    <2> QED
      BY <2>1, <2>3 DEF Inv, EventsInv
  <1>3. \A n \in Event \ mine : outbox'[n] = outbox[n] /\ outbox[n] \in EventRow
    BY <1>1, RowTypes DEF Inv
  <1>4. outbox' \in [Event -> EventRow]
    BY <1>1, <1>2, <1>3
  <1> QED
    BY <1>2, <1>3, <1>4, OutboxChanged DEF EndRequest

LEMMA EventBackoffStep ==
  ASSUME Inv, NEW n \in Event, EventBackoffEnds(n)
  PROVE  Inv'
PROOF
  <1>1. outbox' = [outbox EXCEPT ![n] = [outbox[n] EXCEPT !.due = TRUE]]
    BY DEF EventBackoffEnds
  <1>2. PICK r : r = [outbox[n] EXCEPT !.due = TRUE]
    OBVIOUS
  <1>3. outbox[n] \in EventRow
    BY RowTypes DEF Inv
  <1>4. r \in EventRow /\ r.status = outbox[n].status /\ r.attempts = outbox[n].attempts
    BY <1>2, <1>3 DEF EventRow
  <1>5. outbox \in [Event -> EventRow]
    BY DEF Inv, TypeOK
  <1>6. outbox' \in [Event -> EventRow] /\ outbox'[n] = r /\ \A m \in Event \ {n} : outbox'[m] = outbox[m]
    BY <1>1, <1>2, <1>4, <1>5
  <1> QED
    BY <1>4, <1>6, OutboxChanged DEF EventBackoffEnds

(* Settings, facts and days: nothing else.                                  *)
LEMMA WorldStep ==
  ASSUME Inv, channel' \in [Channel -> ChannelRow], fact' \in SUBSET Fact, day' \in Day,
         UNCHANGED <<outbox, note, post, dispatch, maint, published, received, crashes>>
  PROVE  Inv'
PROOF
  <1>1. TypeOK'
    BY DEF Inv, TypeOK
  <1> QED
    BY <1>1, EventsKept, NotesKept, PostsKept, DispatchKept, MaintKept DEF Inv

-------------------------------------------------------------------------------
(* The dispatcher.                                                          *)

LEMMA StartDispatchStep ==
  ASSUME Inv, StartDispatch
  PROVE  Inv'
PROOF
  <1>1. PICK L : L = Oldest(DueEvents)
    OBVIOUS
  <1>2. /\ ~dispatch.on
        /\ dispatch' = [Idle EXCEPT !.on = TRUE, !.left = L, !.rows = [n \in L |-> outbox[n]]]
        /\ UNCHANGED <<outbox, note, post, channel, fact, day, maint, published, received, crashes>>
    BY <1>1 DEF StartDispatch
  <1>3. \A n \in L : n \in Event /\ outbox[n].status = "PENDING"
    BY <1>1 DEF Oldest, DueEvents
  <1>4. dispatch' = [on |-> TRUE, left |-> L, rows |-> [n \in L |-> outbox[n]], notes |-> {}, posts |-> {}]
    BY <1>2 DEF Idle
  <1>5. /\ dispatch'.on /\ dispatch'.left = L /\ dispatch'.rows = [n \in L |-> outbox[n]]
        /\ dispatch'.notes = {} /\ dispatch'.posts = {}
        /\ DOMAIN dispatch' = {"on", "left", "rows", "notes", "posts"} /\ dispatch'.on \in BOOLEAN
    BY <1>4
  <1>6. DOMAIN dispatch.rows = {}
    BY <1>2 DEF Inv, DispatchInv, Idle
  <1>7. \A n \in L : /\ n \in DOMAIN dispatch'.rows /\ dispatch'.rows[n] = outbox[n] /\ outbox[n] \in EventRow
                     /\ outbox[n].attempts \in Nat /\ outbox[n].attempts <= Backoff
    BY <1>3, <1>5, RowTypes DEF Inv, EventsInv
  <1>8. TypeOK'
    <2>1. RunOK(dispatch', Event, EventRow)
      BY <1>3, <1>5, <1>7 DEF RunOK
    <2> QED
      BY <1>2, <2>1 DEF Inv, TypeOK
  <1>9. EventsInv'
    <2>1. \A n \in Event : EventNow(n)' = outbox[n] /\ EventNow(n) = outbox[n]
      BY <1>2, <1>5, <1>6 DEF EventNow
    <2> QED
      BY <1>2, <2>1 DEF Inv, EventsInv
  <1>10. DispatchInv'
    <2>1. \A n \in L : outbox[n].attempts <= outbox[n].attempts + 1
      BY <1>7
    <2>2. DOMAIN dispatch'.rows = L
      BY <1>5
    <2> QED
      BY <1>2, <1>3, <1>5, <1>7, <2>1, <2>2 DEF DispatchInv
  <1> QED
    BY <1>2, <1>8, <1>9, <1>10, NotesKept, PostsKept, MaintKept DEF Inv

(* Event n gets the row r, and told are the notifications of it; out: it has *)
(* reached the bus.                                                         *)
Visits(n, r, told, out) ==
  /\ n \in dispatch.left /\ r \in EventRow /\ r.status \in {"PENDING", "PUBLISHED", "FAILED"}
  /\ r.attempts = dispatch.rows[n].attempts + 1
  /\ r.status = "PENDING" => r.attempts <= Backoff
  /\ told = {} \/ told = Notified({n})
  /\ r.status = "PUBLISHED" \/ told # {} => out
  /\ published' = [published EXCEPT ![n] = IF out THEN @ + 1 ELSE @]
  /\ DOMAIN dispatch' = DOMAIN dispatch /\ dispatch'.on = dispatch.on
  /\ dispatch'.left = dispatch.left \ {n} /\ dispatch'.rows = [dispatch.rows EXCEPT ![n] = r]
  /\ dispatch'.notes = dispatch.notes \cup told /\ dispatch'.posts = dispatch.posts \cup Posts(told)
  /\ UNCHANGED <<outbox, note, post, channel, fact, day, maint, received, crashes>>

LEMMA VisitStep ==
  ASSUME Inv, NEW n, NEW r, NEW told, NEW out \in BOOLEAN, Visits(n, r, told, out)
  PROVE  Inv'
PROOF
  <1>1. /\ n \in dispatch.left /\ r \in EventRow /\ r.status \in {"PENDING", "PUBLISHED", "FAILED"}
        /\ r.attempts = dispatch.rows[n].attempts + 1
        /\ r.status = "PENDING" => r.attempts <= Backoff
        /\ told = {} \/ told = Notified({n})
        /\ r.status = "PUBLISHED" \/ told # {} => out
        /\ published' = [published EXCEPT ![n] = IF out THEN published[n] + 1 ELSE published[n]]
        /\ DOMAIN dispatch' = DOMAIN dispatch /\ dispatch'.on = dispatch.on
        /\ dispatch'.left = dispatch.left \ {n} /\ dispatch'.rows = [dispatch.rows EXCEPT ![n] = r]
        /\ dispatch'.notes = dispatch.notes \cup told /\ dispatch'.posts = dispatch.posts \cup Posts(told)
        /\ UNCHANGED <<outbox, note, post, channel, fact, day, maint, received, crashes>>
    BY DEF Visits
  <1>2. n \in Event /\ n \in DOMAIN dispatch.rows /\ n \notin Daily
    BY <1>1, RunTypes, Numbers DEF Inv
  <1>3. /\ outbox[n].status = "PENDING" /\ dispatch.rows[n].attempts = outbox[n].attempts
        /\ outbox[n].attempts \in Nat /\ published[n] \in Nat /\ crashes \in Nat
    BY <1>1, <1>2, RowTypes DEF Inv, DispatchInv
  <1>4. /\ published' \in [Event -> Nat] /\ \A m \in Event \ {n} : published'[m] = published[m]
        /\ published'[n] = IF out THEN published[n] + 1 ELSE published[n]
    <2>1. published \in [Event -> Nat]
      BY DEF Inv, TypeOK
    <2> QED
      BY <1>1, <1>2, <1>3, <2>1
  <1>5. \A m \in Event : published[m] > 0 => published'[m] > 0
    BY <1>3, <1>4
  <1>6. /\ DOMAIN dispatch'.rows = DOMAIN dispatch.rows /\ dispatch'.rows[n] = r
        /\ \A m \in DOMAIN dispatch.rows \ {n} : dispatch'.rows[m] = dispatch.rows[m]
    BY <1>1, <1>2
  <1>7. /\ told \in SUBSET Note
        /\ \A x \in told : /\ x[1] = n /\ out /\ \A d \in Day : note[<<x[1], d>>] = 0
        /\ \A x, y \in told : x[1] = y[1] => x = y
    <2>1. CASE told = {}
      BY <2>1
    <2>2. CASE told = Notified({n}) /\ told # {}
      <3>1. PICK S : S = {n}
        OBVIOUS
      <3>2. S \in SUBSET (Event \cup Fact) /\ told = Notified(S)
        BY <1>2, <2>2, <3>1
      <3>3. /\ \A x \in told : /\ x \in Note /\ x[1] \in S /\ x[2] = day
                               /\ x[1] \notin Daily => \A d \in Day : note[<<x[1], d>>] = 0
            /\ \A x, y \in told : x[1] = y[1] => x = y
        BY <3>2, NotifiedIs DEF Inv
      <3> QED
        BY <1>1, <1>2, <2>2, <3>1, <3>3
    <2> QED
      BY <1>1, <2>1, <2>2
  <1>8. \A p \in Posts(told) : p \in Post /\ p[1] \in told
    BY <1>7, PostsAre
  <1>9. \A x \in dispatch.notes : x \in Note /\ x[1] \in Event /\ x[1] # n
    BY <1>1, RunTypes DEF Inv, DispatchInv
  <1>10. TypeOK'
    <2>1. RunOK(dispatch, Event, EventRow)
      BY DEF Inv, TypeOK
    <2>2. RunOK(dispatch', Event, EventRow)
      BY <1>1, <1>6, <1>7, <1>8, <2>1 DEF RunOK
    <2> QED
      BY <1>1, <1>4, <2>2 DEF Inv, TypeOK
  <1>11. EventsInv'
    <2> SUFFICES ASSUME NEW m \in Event
                 PROVE  /\ outbox[m].status = "PUBLISHED" => published'[m] > 0
                        /\ published'[m] > 0 => outbox[m].status \in {"PENDING", "PUBLISHED", "FAILED"}
                        /\ outbox[m].status \in {"UNCOMMITTED", "PENDING"} => outbox[m].attempts <= Backoff
                        /\ published'[m] <= EventNow(m)'.attempts + crashes
      BY <1>1 DEF EventsInv
    <2>1. CASE m = n
      <3>1. EventNow(n)' = r /\ EventNow(n) = dispatch.rows[n]
        BY <1>2, <1>6 DEF EventNow
      <3>2. published[n] <= dispatch.rows[n].attempts + crashes
        BY <1>2, <3>1 DEF Inv, EventsInv
      <3>3. published'[n] <= r.attempts + crashes
        BY <1>1, <1>3, <1>4, <3>2
      <3>4. outbox[n].attempts <= Backoff
        BY <1>2, <1>3 DEF Inv, EventsInv
      <3> QED
        BY <1>3, <2>1, <3>1, <3>3, <3>4
    <2>2. CASE m # n
      <3>1. EventNow(m)' = EventNow(m)
        BY <1>1, <1>6, <2>2 DEF EventNow
      <3> QED
        BY <1>4, <2>2, <3>1 DEF Inv, EventsInv
    <2> QED
      BY <2>1, <2>2
  <1>12. NotesInv'
    BY <1>1, <1>5 DEF Inv, NotesInv
  <1>13. PostsInv'
    <2>1. \A p \in Post : PostNow(p)' = PostNow(p)
      BY <1>1 DEF PostNow
    <2> QED
      BY <1>1, <1>5, <2>1 DEF Inv, PostsInv
  <1>14. DispatchInv'
    <2>1. ASSUME NEW m \in DOMAIN dispatch'.rows
          PROVE  /\ outbox[m].status = "PENDING"
                 /\ dispatch'.rows[m].status \in {"PENDING", "PUBLISHED", "FAILED"}
                 /\ dispatch'.rows[m].status = "PUBLISHED" => published'[m] > 0
                 /\ dispatch'.rows[m].status = "PENDING" => dispatch'.rows[m].attempts <= Backoff
                 /\ dispatch'.rows[m].attempts <= outbox[m].attempts + 1
      <3>1. CASE m = n
        <4>1. r.status = "PUBLISHED" => published'[n] > 0
          BY <1>1, <1>3, <1>4
        <4>2. r.attempts <= outbox[n].attempts + 1
          BY <1>1, <1>3
        <4> QED
          BY <1>1, <1>3, <1>6, <3>1, <4>1, <4>2
      <3>2. CASE m # n
        <4>1. m \in DOMAIN dispatch.rows /\ dispatch'.rows[m] = dispatch.rows[m] /\ published'[m] = published[m]
          BY <1>4, <1>6, <3>2, RunTypes DEF Inv
        <4> QED
          BY <4>1 DEF Inv, DispatchInv
      <3> QED
        BY <3>1, <3>2
    <2>2. \A m \in dispatch'.left :
             dispatch'.rows[m].status = "PENDING" /\ dispatch'.rows[m].attempts = outbox[m].attempts
      BY <1>1, <1>6, RunTypes DEF Inv, DispatchInv
    <2>3. ASSUME NEW x \in dispatch'.notes
          PROVE  /\ x[1] \in Event /\ x[1] \notin dispatch'.left /\ published'[x[1]] > 0
                 /\ \A d \in Day : note[<<x[1], d>>] = 0
      <3>1. CASE x \in told
        BY <1>1, <1>2, <1>3, <1>4, <1>7, <3>1
      <3>2. CASE x \in dispatch.notes
        BY <1>1, <1>5, <3>2 DEF Inv, DispatchInv
      <3> QED
        BY <1>1, <3>1, <3>2
    <2>4. ASSUME NEW x \in dispatch'.notes, NEW y \in dispatch'.notes, x[1] = y[1] PROVE x = y
      BY <1>1, <1>7, <1>9, <2>4 DEF Inv, DispatchInv
    <2>5. \A p \in dispatch'.posts : p[1] \in dispatch'.notes
      BY <1>1, <1>8 DEF Inv, DispatchInv
    <2>6. dispatch'.on
      BY <1>1, <1>2 DEF Inv, DispatchInv, Idle
    <2> QED
      BY <1>1, <2>1, <2>2, <2>3, <2>4, <2>5, <2>6 DEF DispatchInv
  <1> QED
    BY <1>1, <1>10, <1>11, <1>12, <1>13, <1>14, MaintKept DEF Inv

(* What an attempt makes of a row.                                          *)
LEMMA DoneEvent ==
  ASSUME NEW r \in EventRow, r.attempts <= Backoff
  PROVE  /\ Done(r, "PUBLISHED") \in EventRow /\ Done(r, "PUBLISHED").status = "PUBLISHED"
         /\ Done(r, "PUBLISHED").attempts = r.attempts + 1
PROOF
  <1>1. r.attempts \in Nat /\ r.attempts + 1 \in 0..(Backoff + 1)
    BY Numbers DEF EventRow
  <1>2. PICK e : e = Done(r, "PUBLISHED")
    OBVIOUS
  <1>3. e = [r EXCEPT !.attempts = r.attempts + 1, !.due = FALSE, !.status = "PUBLISHED"]
    BY <1>2 DEF Done
  <1>4. e \in EventRow /\ e.status = "PUBLISHED" /\ e.attempts = r.attempts + 1
    BY <1>1, <1>3 DEF EventRow, EventStatus
  <1> QED
    BY <1>2, <1>4

LEMMA AgainEvent ==
  ASSUME NEW r \in EventRow, r.attempts <= Backoff, r.status = "PENDING"
  PROVE  /\ Again(r, Backoff) \in EventRow /\ Again(r, Backoff).status \in {"PENDING", "FAILED"}
         /\ Again(r, Backoff).attempts = r.attempts + 1
         /\ Again(r, Backoff).status = "PENDING" => r.attempts + 1 <= Backoff
PROOF
  <1>1. r.attempts \in Nat /\ r.attempts + 1 \in 0..(Backoff + 1) /\ Backoff \in Nat
    BY Numbers DEF EventRow
  <1>2. PICK e, s : e = Again(r, Backoff) /\ s = (IF r.attempts + 1 > Backoff THEN "FAILED" ELSE "PENDING")
    OBVIOUS
  <1>3. e = [r EXCEPT !.attempts = r.attempts + 1, !.due = FALSE, !.status = s]
    BY <1>2 DEF Again, FailedAttempt
  <1>4. e \in EventRow /\ e.status = s /\ e.attempts = r.attempts + 1
    BY <1>1, <1>2, <1>3 DEF EventRow, EventStatus
  <1> QED
    BY <1>1, <1>2, <1>4

LEMMA Visited ==
  ASSUME Inv, NEW n \in dispatch.left
  PROVE  /\ n \in DOMAIN dispatch.rows /\ dispatch.rows[n] \in EventRow /\ dispatch.rows[n].status = "PENDING"
         /\ dispatch.rows[n].attempts <= Backoff
         /\ DOMAIN dispatch = {"on", "left", "rows", "notes", "posts"}
  BY RunTypes DEF Inv, DispatchInv

LEMMA PublishStep ==
  ASSUME Inv, NEW n \in Next1(dispatch.left), Publish(n)
  PROVE  Inv'
PROOF
  <1>0. n \in dispatch.left
    BY DEF Next1
  <1>1. PICK told, r : /\ told = (IF outbox[n].type = "order.status_changed" THEN Notified({n}) ELSE {})
                       /\ r = Done(dispatch.rows[n], "PUBLISHED")
    OBVIOUS
  <1>2. /\ published' = [published EXCEPT ![n] = published[n] + 1]
        /\ dispatch' = [dispatch EXCEPT !.left = dispatch.left \ {n}, !.rows = [dispatch.rows EXCEPT ![n] = r],
                                        !.notes = dispatch.notes \cup told, !.posts = dispatch.posts \cup Posts(told)]
        /\ UNCHANGED <<outbox, note, post, channel, fact, day, maint, received, crashes>>
    BY <1>0, <1>1, Visited DEF Publish
  <1>3. /\ r \in EventRow /\ r.status = "PUBLISHED" /\ r.attempts = dispatch.rows[n].attempts + 1
    BY <1>0, <1>1, Visited, DoneEvent
  <1>4. /\ DOMAIN dispatch' = DOMAIN dispatch /\ dispatch'.on = dispatch.on
        /\ dispatch'.left = dispatch.left \ {n} /\ dispatch'.rows = [dispatch.rows EXCEPT ![n] = r]
        /\ dispatch'.notes = dispatch.notes \cup told /\ dispatch'.posts = dispatch.posts \cup Posts(told)
    BY <1>0, <1>2, Visited
  <1>5. Visits(n, r, told, TRUE)
    BY <1>0, <1>1, <1>2, <1>3, <1>4 DEF Visits
  <1> QED
    BY <1>5, VisitStep

LEMMA PublishFailsStep ==
  ASSUME Inv, NEW n \in Next1(dispatch.left), NEW arrives \in BOOLEAN, PublishFails(n, arrives)
  PROVE  Inv'
PROOF
  <1>0. n \in dispatch.left
    BY DEF Next1
  <1>1. PICK r : r = Again(dispatch.rows[n], Backoff)
    OBVIOUS
  <1>2. /\ published' = [published EXCEPT ![n] = IF arrives THEN published[n] + 1 ELSE published[n]]
        /\ dispatch' = [dispatch EXCEPT !.left = dispatch.left \ {n}, !.rows = [dispatch.rows EXCEPT ![n] = r]]
        /\ UNCHANGED <<outbox, note, post, channel, fact, day, maint, received, crashes>>
    BY <1>0, <1>1, Visited DEF PublishFails
  <1>3. /\ r \in EventRow /\ r.status \in {"PENDING", "FAILED"} /\ r.attempts = dispatch.rows[n].attempts + 1
        /\ r.status = "PENDING" => dispatch.rows[n].attempts + 1 <= Backoff
    BY <1>0, <1>1, Visited, AgainEvent
  <1>4. /\ DOMAIN dispatch' = DOMAIN dispatch /\ dispatch'.on = dispatch.on
        /\ dispatch'.left = dispatch.left \ {n} /\ dispatch'.rows = [dispatch.rows EXCEPT ![n] = r]
        /\ dispatch'.notes = dispatch.notes /\ dispatch'.posts = dispatch.posts
    BY <1>0, <1>2, Visited
  <1>5. Posts({}) = {}
    BY DEF Posts
  <1>6. Visits(n, r, {}, arrives)
    BY <1>0, <1>2, <1>3, <1>4, <1>5 DEF Visits
  <1> QED
    BY <1>6, VisitStep

(* What a run has written; what it inserts is new.                          *)
LEMMA DispatchAdds ==
  ASSUME Inv
  PROVE  /\ \A x \in dispatch.notes : /\ x \in Note /\ x[1] \in Event /\ published[x[1]] > 0
                                      /\ \A d \in Day : note[<<x[1], d>>] = 0
                                      /\ note[x] = 0 /\ x \notin maint.notes
         /\ \A p \in dispatch.posts : /\ p \in Post /\ p[1] \in dispatch.notes
                                      /\ post[p].status = "NONE" /\ post[p].attempts = 0
                                      /\ p \notin DOMAIN maint.rows /\ p \notin maint.posts
PROOF
  <1>1. ASSUME NEW x \in dispatch.notes
        PROVE  /\ x \in Note /\ x[1] \in Event /\ published[x[1]] > 0
               /\ \A d \in Day : note[<<x[1], d>>] = 0
               /\ note[x] = 0 /\ x \notin maint.notes
    <2>1. /\ x \in Note /\ x[1] \in Event /\ published[x[1]] > 0
          /\ \A d \in Day : note[<<x[1], d>>] = 0
      BY RunTypes DEF Inv, DispatchInv
    <2>2. note[x] = 0
      BY <2>1, PairOf
    <2>3. x \notin maint.notes
      BY <2>1, Numbers DEF Inv, MaintInv
    <2> QED
      BY <2>1, <2>2, <2>3
  <1>2. ASSUME NEW p \in dispatch.posts
        PROVE  /\ p \in Post /\ p[1] \in dispatch.notes
               /\ post[p].status = "NONE" /\ post[p].attempts = 0
               /\ p \notin DOMAIN maint.rows /\ p \notin maint.posts
    <2>1. p \in Post /\ p[1] \in dispatch.notes
      BY RunTypes DEF Inv, DispatchInv
    <2>2. note[p[1]] = 0 /\ p[1] \notin maint.notes
      BY <1>1, <2>1
    <2>3. post[p].status = "NONE" /\ post[p].attempts = 0
      BY <2>1, <2>2 DEF Inv, PostsInv
    <2>4. p \notin maint.posts
      BY <2>2 DEF Inv, MaintInv
    <2>5. p \notin DOMAIN maint.rows
      BY <2>3, <2>4 DEF Inv, MaintInv
    <2> QED
      BY <2>1, <2>3, <2>4, <2>5
  <1> QED
    BY <1>1, <1>2

LEMMA NewPostTyped ==
  /\ NewPost \in PostRow /\ NewPost.status = "PENDING" /\ NewPost.attempts = 0
  /\ NewPost.attempts <= Retries /\ NewPost.due
PROOF
  <1>1. 0 \in 0..(Retries + 1) /\ 0 <= Retries
    BY Numbers
  <1> QED
    BY <1>1 DEF NewPost, PostRow, PostStatus

LEMMA IdleNow ==
  /\ DOMAIN Idle.rows = {} /\ Idle.left = {} /\ Idle.notes = {} /\ Idle.posts = {} /\ ~Idle.on
  BY DEF Idle

LEMMA CommitDispatchStep ==
  ASSUME Inv, CommitDispatch
  PROVE  Inv'
PROOF
  <1>1. /\ dispatch.on /\ dispatch.left = {}
        /\ outbox' = [n \in Event |-> IF n \in DOMAIN dispatch.rows THEN dispatch.rows[n] ELSE outbox[n]]
        /\ note' = [x \in Note |-> IF x \in dispatch.notes THEN note[x] + 1 ELSE note[x]]
        /\ post' = [p \in Post |-> IF p \in dispatch.posts THEN NewPost ELSE post[p]]
        /\ dispatch' = Idle
        /\ UNCHANGED <<channel, fact, day, maint, published, received, crashes>>
    BY DEF CommitDispatch
  <1>2. /\ \A n \in Event : outbox'[n] = EventNow(n)
        /\ \A n \in Event : EventNow(n)' = EventNow(n)
    BY <1>1, IdleNow DEF EventNow
  <1>3. /\ \A x \in dispatch.notes : /\ x \in Note /\ x[1] \in Event /\ published[x[1]] > 0
                                     /\ \A d \in Day : note[<<x[1], d>>] = 0
                                     /\ note[x] = 0 /\ x \notin maint.notes
        /\ \A p \in dispatch.posts : /\ p \in Post /\ p[1] \in dispatch.notes
                                     /\ post[p].status = "NONE" /\ post[p].attempts = 0
                                     /\ p \notin DOMAIN maint.rows /\ p \notin maint.posts
    BY DispatchAdds
  <1>4. /\ \A x \in dispatch.notes : note'[x] = 1
        /\ \A x \in Note \ dispatch.notes : note'[x] = note[x]
        /\ \A x \in Note : note[x] \in Nat
    BY <1>1, <1>3, RowTypes DEF Inv
  <1>5. /\ \A p \in dispatch.posts : post'[p] = NewPost
        /\ \A p \in Post \ dispatch.posts : post'[p] = post[p]
    BY <1>1, <1>3
  <1>6. TypeOK'
    <2>1. outbox' \in [Event -> EventRow]
      BY <1>1, RowTypes, RunTypes DEF Inv
    <2>2. note' \in [Note -> Nat]
      BY <1>1, <1>4
    <2>3. post' \in [Post -> PostRow]
      BY <1>1, RowTypes, NewPostTyped DEF Inv
    <2> QED
      BY <1>1, <2>1, <2>2, <2>3, NoRun DEF Inv, TypeOK
  <1>7. EventsInv'
    <2> SUFFICES ASSUME NEW n \in Event
                 PROVE  /\ outbox'[n].status = "PUBLISHED" => published[n] > 0
                        /\ published[n] > 0 => outbox'[n].status \in {"PENDING", "PUBLISHED", "FAILED"}
                        /\ outbox'[n].status \in {"UNCOMMITTED", "PENDING"} => outbox'[n].attempts <= Backoff
                        /\ published[n] <= EventNow(n)'.attempts + crashes
      BY <1>1 DEF EventsInv
    <2>1. published[n] <= EventNow(n)'.attempts + crashes
      BY <1>2 DEF Inv, EventsInv
    <2>2. CASE n \in DOMAIN dispatch.rows
      <3>1. outbox'[n] = dispatch.rows[n]
        BY <1>1, <2>2
      <3> QED
        BY <2>1, <2>2, <3>1 DEF Inv, DispatchInv
    <2>3. CASE n \notin DOMAIN dispatch.rows
      BY <1>1, <2>1, <2>3 DEF Inv, EventsInv
    <2> QED
      BY <2>2, <2>3
  <1>8. NotesInv'
    <2>1. ASSUME NEW x \in Note
          PROVE  note'[x] <= 1 /\ (note'[x] > 0 /\ x[1] \in Event => published[x[1]] > 0)
      BY <1>3, <1>4 DEF Inv, NotesInv
    <2>2. ASSUME NEW x \in Note, NEW y \in Note, note'[x] > 0, note'[y] > 0, x[1] = y[1], x[1] \notin Daily
          PROVE  x = y
      <3>1. x = <<x[1], x[2]>> /\ y = <<y[1], y[2]>> /\ x[2] \in Day /\ y[2] \in Day
        BY PairOf
      <3>2. CASE x \in dispatch.notes /\ y \in dispatch.notes
        BY <2>2, <3>2 DEF Inv, DispatchInv
      <3>3. CASE x \in dispatch.notes /\ y \notin dispatch.notes
        <4>1. note[<<x[1], y[2]>>] = 0
          BY <1>3, <3>1, <3>3
        <4>2. note[y] = 0
          BY <2>2, <3>1, <4>1
        <4> QED
          BY <1>4, <2>2, <3>3, <4>2
      <3>4. CASE x \notin dispatch.notes /\ y \in dispatch.notes
        <4>1. note[<<y[1], x[2]>>] = 0
          BY <1>3, <3>1, <3>4
        <4>2. note[x] = 0
          BY <2>2, <3>1, <4>1
        <4> QED
          BY <1>4, <2>2, <3>4, <4>2
      <3>5. CASE x \notin dispatch.notes /\ y \notin dispatch.notes
        BY <1>4, <2>2, <3>5 DEF Inv, NotesInv
      <3> QED
        BY <3>2, <3>3, <3>4, <3>5
    <2> QED
      BY <1>1, <2>1, <2>2 DEF NotesInv
  <1>9. PostsInv'
    <2> SUFFICES ASSUME NEW p \in Post
                 PROVE  /\ post'[p].status = "SENT" => received[p] > 0
                        /\ post'[p].status = "PENDING" => post'[p].attempts <= Retries
                        /\ post'[p].status = "NONE" => post'[p].attempts = 0
                        /\ post'[p].status # "NONE" => note'[p[1]] > 0
                        /\ received[p] > 0 /\ p[1][1] \in Event => published[p[1][1]] > 0
                        /\ received[p] <= PostNow(p)'.attempts + crashes
      BY <1>1 DEF PostsInv
    <2>1. CASE p \in dispatch.posts
      <3>1. post'[p] = NewPost /\ p \notin DOMAIN maint.rows /\ p[1] \in dispatch.notes /\ post[p].attempts = 0
        BY <1>3, <1>5, <2>1
      <3>2. PostNow(p)' = NewPost /\ PostNow(p) = post[p]
        BY <1>1, <3>1 DEF PostNow
      <3>3. note'[p[1]] > 0
        BY <1>4, <3>1
      <3>4. received[p] <= NewPost.attempts + crashes
        BY <3>1, <3>2, NewPostTyped DEF Inv, PostsInv
      <3> QED
        BY <3>1, <3>2, <3>3, <3>4, NewPostTyped DEF Inv, PostsInv
    <2>2. CASE p \notin dispatch.posts
      <3>1. post'[p] = post[p]
        BY <1>5, <2>2
      <3>2. PostNow(p)' = PostNow(p)
        BY <1>1, <3>1 DEF PostNow
      <3>3. p[1] \in Note
        BY PostOf
      <3>4. note[p[1]] > 0 => note'[p[1]] > 0
        BY <1>4, <3>3
      <3> QED
        BY <3>1, <3>2, <3>4 DEF Inv, PostsInv
    <2> QED
      BY <2>1, <2>2
  <1>10. DispatchInv'
    BY <1>1, IdleNow DEF DispatchInv
  <1>11. MaintInv'
    <2>1. \A p \in DOMAIN maint.rows : post'[p] = post[p]
      BY <1>3, <1>5, RunTypes DEF Inv
    <2>2. \A p \in maint.left : post'[p] = post[p]
      BY <2>1, RunTypes DEF Inv
    <2>3. ASSUME NEW x \in maint.notes
          PROVE  /\ x[1] \in Fact /\ note'[x] = 0
                 /\ x[1] \notin Daily => \A d \in Day : note'[<<x[1], d>>] = 0
      <3>1. /\ x \in Note /\ x[1] \in Fact /\ note[x] = 0
            /\ x[1] \notin Daily => \A d \in Day : note[<<x[1], d>>] = 0
        BY RunTypes DEF Inv, MaintInv
      <3>2. ASSUME NEW y \in Note, y[1] = x[1] PROVE note'[y] = note[y]
        BY <1>3, <1>4, <3>1, <3>2, Numbers
      <3>3. \A d \in Day : <<x[1], d>> \in Note /\ <<x[1], d>>[1] = x[1]
        BY <3>1 DEF Note
      <3> QED
        BY <3>1, <3>2, <3>3
    <2>4. ASSUME NEW p \in DOMAIN maint.rows
          PROVE  /\ post'[p].status = "PENDING" \/ (post'[p].status = "NONE" /\ p \in maint.posts)
                 /\ maint.rows[p].status \in {"PENDING", "SENT", "FAILED"}
                 /\ maint.rows[p].status = "SENT" => received[p] > 0
                 /\ maint.rows[p].status = "PENDING" => maint.rows[p].attempts <= Retries
                 /\ maint.rows[p].attempts <= post'[p].attempts + 1
      BY <2>1 DEF Inv, MaintInv
    <2>5. \A p \in maint.left :
             maint.rows[p].status = "PENDING" /\ maint.rows[p].attempts = post'[p].attempts
      BY <2>2 DEF Inv, MaintInv
    <2>6. /\ \A x, y \in maint.notes : x[1] = y[1] => x = y
          /\ \A p \in maint.posts : p[1] \in maint.notes
          /\ ~maint.on => maint = Idle
      BY DEF Inv, MaintInv
    <2> QED
      BY <1>1, <2>3, <2>4, <2>5, <2>6 DEF MaintInv
  <1> QED
    BY <1>6, <1>7, <1>8, <1>9, <1>10, <1>11 DEF Inv

LEMMA CrashDispatchStep ==
  ASSUME Inv, CrashDispatch
  PROVE  Inv'
PROOF
  <1>1. /\ crashes < MaxCrashes /\ dispatch' = Idle /\ crashes' = crashes + 1
        /\ UNCHANGED <<outbox, note, post, channel, fact, day, maint, published, received>>
    BY DEF CrashDispatch
  <1>2. crashes \in Nat /\ crashes' \in 0..MaxCrashes
    BY <1>1, RowTypes, Numbers DEF Inv
  <1>3. TypeOK'
    BY <1>1, <1>2, NoRun DEF Inv, TypeOK
  <1>4. EventsInv'
    <2>1. ASSUME NEW n \in Event PROVE published[n] <= EventNow(n)'.attempts + crashes'
      <3>1. EventNow(n)' = outbox[n]
        BY <1>1, IdleNow DEF EventNow
      <3>2. /\ published[n] \in Nat /\ outbox[n].attempts \in Nat
            /\ published[n] <= EventNow(n).attempts + crashes
        BY RowTypes DEF Inv, EventsInv
      <3>3. EventNow(n).attempts \in Nat /\ EventNow(n).attempts <= outbox[n].attempts + 1
        BY <3>2, RunTypes DEF Inv, DispatchInv, EventNow
      <3> QED
        BY <1>1, <1>2, <3>1, <3>2, <3>3
    <2> QED
      BY <1>1, <2>1 DEF Inv, EventsInv
  <1>5. PostsInv'
    <2>1. ASSUME NEW p \in Post PROVE received[p] <= PostNow(p)'.attempts + crashes'
      <3>1. PostNow(p)' = PostNow(p)
        BY <1>1 DEF PostNow
      <3>2. received[p] \in Nat /\ PostNow(p).attempts \in Nat /\ received[p] <= PostNow(p).attempts + crashes
        BY RowTypes, RunTypes DEF Inv, PostsInv, PostNow
      <3> QED
        BY <1>1, <1>2, <3>1, <3>2
    <2> QED
      BY <1>1, <2>1 DEF Inv, PostsInv
  <1>6. DispatchInv'
    BY <1>1, IdleNow DEF DispatchInv
  <1> QED
    BY <1>1, <1>3, <1>4, <1>5, <1>6, NotesKept, MaintKept DEF Inv

-------------------------------------------------------------------------------
(* The maintenance job.                                                     *)

LEMMA StartMaintenanceStep ==
  ASSUME Inv, StartMaintenance
  PROVE  Inv'
PROOF
  <1>1. PICK told : told = Notified(fact)
    OBVIOUS
  <1>2. PICK P : P = Posts(told)
    OBVIOUS
  <1>3. PICK S \in SUBSET (DuePosts \cup P) :
           maint' = [Idle EXCEPT !.on = TRUE, !.left = S, !.notes = told, !.posts = P,
                                 !.rows = [p \in S |-> IF p \in P THEN NewPost ELSE post[p]]]
    <2>1. PICK S \in SUBSET (DuePosts \cup Posts(Notified(fact))) :
             maint' = [Idle EXCEPT !.on = TRUE, !.left = S, !.notes = Notified(fact),
                                   !.posts = Posts(Notified(fact)),
                                   !.rows = [p \in S |-> IF p \in Posts(Notified(fact)) THEN NewPost ELSE post[p]]]
      BY Zenon DEF StartMaintenance
    <2> QED
      BY <1>1, <1>2, <2>1
  <1>4. /\ ~maint.on
        /\ UNCHANGED <<outbox, note, post, channel, fact, day, dispatch, published, received, crashes>>
    BY DEF StartMaintenance
  <1>5. maint' = [on |-> TRUE, left |-> S, rows |-> [p \in S |-> IF p \in P THEN NewPost ELSE post[p]],
                  notes |-> told, posts |-> P]
    BY <1>3 DEF Idle
  <1>6. /\ maint'.on /\ maint'.left = S /\ maint'.notes = told /\ maint'.posts = P
        /\ maint'.rows = [p \in S |-> IF p \in P THEN NewPost ELSE post[p]]
        /\ DOMAIN maint' = {"on", "left", "rows", "notes", "posts"} /\ maint'.on \in BOOLEAN
    BY <1>5
  <1>7. DOMAIN maint.rows = {}
    BY <1>4, IdleNow DEF Inv, MaintInv
  <1>8. /\ \A x \in told : /\ x \in Note /\ x[1] \in Fact /\ note[x] = 0
                           /\ x[1] \notin Daily => \A d \in Day : note[<<x[1], d>>] = 0
        /\ \A x, y \in told : x[1] = y[1] => x = y
    <2>1. PICK F : F = fact
      OBVIOUS
    <2>2. F \in SUBSET Fact /\ F \in SUBSET (Event \cup Fact) /\ told = Notified(F)
      BY <1>1, <2>1 DEF Inv, TypeOK
    <2>3. /\ \A x \in told : /\ x \in Note /\ x[1] \in F /\ note[x] = 0
                             /\ x[1] \notin Daily => \A d \in Day : note[<<x[1], d>>] = 0
          /\ \A x, y \in told : x[1] = y[1] => x = y
      BY <2>2, NotifiedIs DEF Inv
    <2> QED
      BY <2>2, <2>3
  <1>9. \A p \in P : p \in Post /\ p[1] \in told /\ post[p].status = "NONE" /\ post[p].attempts = 0
    <2>1. told \in SUBSET Note
      BY <1>8
    <2>2. \A p \in P : p \in Post /\ p[1] \in told /\ note[p[1]] = 0
      BY <1>2, <1>8, <2>1, PostsAre
    <2> QED
      BY <2>2 DEF Inv, PostsInv
  <1>10. ASSUME NEW p \in S
         PROVE  /\ p \in Post /\ p \in DOMAIN maint'.rows /\ maint'.rows[p] \in PostRow
                /\ post[p].status = "PENDING" \/ (post[p].status = "NONE" /\ p \in P)
                /\ maint'.rows[p].status = "PENDING" /\ maint'.rows[p].attempts = post[p].attempts
                /\ maint'.rows[p].attempts <= Retries /\ maint'.rows[p].attempts \in Nat
    <2>1. CASE p \in P
      <3>1. maint'.rows[p] = NewPost /\ p \in DOMAIN maint'.rows
        BY <1>6, <2>1
      <3> QED
        BY <1>9, <2>1, <3>1, NewPostTyped
    <2>2. CASE p \notin P
      <3>1. maint'.rows[p] = post[p] /\ p \in DOMAIN maint'.rows
        BY <1>6, <2>2
      <3>2. p \in Post /\ post[p].status = "PENDING"
        BY <1>3, <2>2 DEF DuePosts
      <3>3. post[p] \in PostRow /\ post[p].attempts \in Nat
        BY <3>2, RowTypes DEF Inv
      <3>4. post[p].attempts <= Retries
        BY <3>2 DEF Inv, PostsInv
      <3> QED
        BY <3>1, <3>2, <3>3, <3>4
    <2> QED
      BY <2>1, <2>2
  <1>11. DOMAIN maint'.rows = S
    BY <1>6
  <1>12. TypeOK'
    <2>1. RunOK(maint', Post, PostRow)
      BY <1>6, <1>8, <1>9, <1>10, <1>11 DEF RunOK
    <2> QED
      BY <1>4, <2>1 DEF Inv, TypeOK
  <1>13. PostsInv'
    <2>1. ASSUME NEW p \in Post PROVE PostNow(p)'.attempts = PostNow(p).attempts
      <3>1. PostNow(p) = post[p]
        BY <1>7 DEF PostNow
      <3>2. PostNow(p)' = IF p \in S THEN maint'.rows[p] ELSE post[p]
        BY <1>4, <1>11 DEF PostNow
      <3> QED
        BY <1>10, <3>1, <3>2
    <2> QED
      BY <1>4, <2>1 DEF Inv, PostsInv
  <1>14. MaintInv'
    <2>1. ASSUME NEW p \in S PROVE maint'.rows[p].attempts <= post[p].attempts + 1
      BY <1>10, <2>1
    <2>2. \A p \in P : p[1] \in told
      BY <1>9
    <2> QED
      BY <1>4, <1>6, <1>8, <1>10, <1>11, <2>1, <2>2 DEF MaintInv
  <1> QED
    BY <1>4, <1>12, <1>13, <1>14, EventsKept, NotesKept, DispatchKept DEF Inv

(* Delivery p gets the row r; out: it has reached its channel.              *)
Tries(p, r, out) ==
  /\ r \in PostRow /\ r.status \in {"PENDING", "SENT", "FAILED"}
  /\ r.attempts = maint.rows[p].attempts + 1
  /\ r.status = "PENDING" => r.attempts <= Retries
  /\ r.status = "SENT" => out
  /\ Attempt(p, out, r)

LEMMA TryStep ==
  ASSUME Inv, NEW p \in maint.left, NEW r, NEW out \in BOOLEAN, Tries(p, r, out)
  PROVE  Inv'
PROOF
  <1>1. /\ r \in PostRow /\ r.status \in {"PENDING", "SENT", "FAILED"}
        /\ r.attempts = maint.rows[p].attempts + 1
        /\ r.status = "PENDING" => r.attempts <= Retries
        /\ r.status = "SENT" => out
    BY DEF Tries
  <1>2. /\ received' = [received EXCEPT ![p] = IF out THEN received[p] + 1 ELSE received[p]]
        /\ maint' = [maint EXCEPT !.left = maint.left \ {p}, !.rows = [maint.rows EXCEPT ![p] = r]]
        /\ UNCHANGED <<outbox, note, post, channel, fact, day, dispatch, published, crashes>>
    <2>1. /\ received \in [Post -> Nat] /\ p \in Post /\ p \in DOMAIN maint.rows
          /\ DOMAIN maint = {"on", "left", "rows", "notes", "posts"}
      BY RunTypes DEF Inv, TypeOK
    <2>2. Attempt(p, out, r)
      BY DEF Tries
    <2> QED
      BY <2>1, <2>2 DEF Attempt
  <1>3. p \in Post /\ p \in DOMAIN maint.rows /\ DOMAIN maint = {"on", "left", "rows", "notes", "posts"}
    BY RunTypes DEF Inv
  <1>4. /\ post[p].status = "PENDING" \/ (post[p].status = "NONE" /\ p \in maint.posts)
        /\ maint.rows[p].attempts = post[p].attempts
        /\ post[p].attempts \in Nat /\ received[p] \in Nat /\ crashes \in Nat
    BY <1>3, RowTypes DEF Inv, MaintInv
  <1>5. /\ received' \in [Post -> Nat] /\ \A q \in Post \ {p} : received'[q] = received[q]
        /\ received'[p] = IF out THEN received[p] + 1 ELSE received[p]
    <2>1. received \in [Post -> Nat]
      BY DEF Inv, TypeOK
    <2> QED
      BY <1>2, <1>3, <1>4, <2>1
  <1>6. /\ DOMAIN maint' = DOMAIN maint /\ maint'.on = maint.on
        /\ maint'.left = maint.left \ {p} /\ maint'.rows = [maint.rows EXCEPT ![p] = r]
        /\ maint'.notes = maint.notes /\ maint'.posts = maint.posts
    BY <1>2, <1>3
  <1>7. /\ DOMAIN maint'.rows = DOMAIN maint.rows /\ maint'.rows[p] = r
        /\ \A q \in DOMAIN maint.rows \ {p} : maint'.rows[q] = maint.rows[q]
    BY <1>3, <1>6
  <1>8. TypeOK'
    <2>1. RunOK(maint, Post, PostRow)
      BY DEF Inv, TypeOK
    <2>2. RunOK(maint', Post, PostRow)
      BY <1>1, <1>3, <1>6, <1>7, <2>1 DEF RunOK
    <2> QED
      BY <1>2, <1>5, <2>2 DEF Inv, TypeOK
  <1>9. PostsInv'
    <2> SUFFICES ASSUME NEW q \in Post
                 PROVE  /\ post[q].status = "SENT" => received'[q] > 0
                        /\ post[q].status = "PENDING" => post[q].attempts <= Retries
                        /\ post[q].status = "NONE" => post[q].attempts = 0
                        /\ post[q].status # "NONE" => note[q[1]] > 0
                        /\ received'[q] > 0 /\ q[1][1] \in Event => published[q[1][1]] > 0
                        /\ received'[q] <= PostNow(q)'.attempts + crashes
      BY <1>2 DEF PostsInv
    <2>1. CASE q = p
      <3>1. PostNow(p)' = r /\ PostNow(p) = maint.rows[p]
        BY <1>3, <1>7 DEF PostNow
      <3>2. received[p] <= maint.rows[p].attempts + crashes
        BY <1>3, <3>1 DEF Inv, PostsInv
      <3>3. received'[p] <= r.attempts + crashes
        BY <1>1, <1>4, <1>5, <3>2
      <3>4. p[1][1] \in Event => published[p[1][1]] > 0
        <4>1. p[1] \in Note /\ p[1][1] \in Event \cup Fact
          BY <1>3, PostOf
        <4>2. CASE post[p].status = "PENDING"
          <5>1. note[p[1]] > 0
            BY <1>3, <4>2 DEF Inv, PostsInv
          <5> QED
            BY <4>1, <5>1 DEF Inv, NotesInv
        <4>3. CASE p \in maint.posts
          <5>1. p[1][1] \in Fact
            BY <4>3 DEF Inv, MaintInv
          <5> QED
            BY <5>1, Numbers
        <4> QED
          BY <1>4, <4>2, <4>3
      <3>5. post[p].status # "SENT"
        BY <1>4
      <3>6. /\ post[p].status = "PENDING" => post[p].attempts <= Retries
            /\ post[p].status = "NONE" => post[p].attempts = 0
            /\ post[p].status # "NONE" => note[p[1]] > 0
        BY <1>3 DEF Inv, PostsInv
      <3> QED
        BY <2>1, <3>1, <3>3, <3>4, <3>5, <3>6
    <2>2. CASE q # p
      <3>1. PostNow(q)' = PostNow(q)
        BY <1>2, <1>7, <2>2 DEF PostNow
      <3> QED
        BY <1>5, <2>2, <3>1 DEF Inv, PostsInv
    <2> QED
      BY <2>1, <2>2
  <1>10. MaintInv'
    <2>1. ASSUME NEW q \in DOMAIN maint'.rows
          PROVE  /\ post[q].status = "PENDING" \/ (post[q].status = "NONE" /\ q \in maint.posts)
                 /\ maint'.rows[q].status \in {"PENDING", "SENT", "FAILED"}
                 /\ maint'.rows[q].status = "SENT" => received'[q] > 0
                 /\ maint'.rows[q].status = "PENDING" => maint'.rows[q].attempts <= Retries
                 /\ maint'.rows[q].attempts <= post[q].attempts + 1
      <3>1. CASE q = p
        <4>1. r.status = "SENT" => received'[p] > 0
          BY <1>1, <1>4, <1>5
        <4>2. r.attempts <= post[p].attempts + 1
          BY <1>1, <1>4
        <4> QED
          BY <1>1, <1>4, <1>7, <3>1, <4>1, <4>2
      <3>2. CASE q # p
        <4>1. q \in DOMAIN maint.rows /\ maint'.rows[q] = maint.rows[q] /\ received'[q] = received[q]
          BY <1>5, <1>7, <3>2, RunTypes DEF Inv
        <4> QED
          BY <4>1 DEF Inv, MaintInv
      <3> QED
        BY <3>1, <3>2
    <2>2. \A q \in maint'.left :
             maint'.rows[q].status = "PENDING" /\ maint'.rows[q].attempts = post[q].attempts
      BY <1>6, <1>7, RunTypes DEF Inv, MaintInv
    <2>3. maint'.on
      BY <1>6, IdleNow DEF Inv, MaintInv
    <2>4. /\ \A x \in maint.notes :
               /\ x[1] \in Fact /\ note[x] = 0
               /\ x[1] \notin Daily => \A d \in Day : note[<<x[1], d>>] = 0
          /\ \A x, y \in maint.notes : x[1] = y[1] => x = y
          /\ \A q \in maint.posts : q[1] \in maint.notes
      BY DEF Inv, MaintInv
    <2> QED
      BY <1>2, <1>6, <2>1, <2>2, <2>3, <2>4 DEF MaintInv
  <1> QED
    BY <1>2, <1>8, <1>9, <1>10, EventsKept, NotesKept, DispatchKept DEF Inv

LEMMA DonePost ==
  ASSUME NEW r \in PostRow, r.attempts <= Retries, NEW st \in {"SENT", "FAILED"}
  PROVE  Done(r, st) \in PostRow /\ Done(r, st).status = st /\ Done(r, st).attempts = r.attempts + 1
PROOF
  <1>1. r.attempts \in Nat /\ r.attempts + 1 \in 0..(Retries + 1)
    BY Numbers DEF PostRow
  <1>2. PICK e : e = Done(r, st)
    OBVIOUS
  <1>3. e = [r EXCEPT !.attempts = r.attempts + 1, !.due = FALSE, !.status = st]
    BY <1>2 DEF Done
  <1>4. e \in PostRow /\ e.status = st /\ e.attempts = r.attempts + 1
    BY <1>1, <1>3 DEF PostRow, PostStatus
  <1> QED
    BY <1>2, <1>4

LEMMA AgainPost ==
  ASSUME NEW r \in PostRow, r.attempts <= Retries, r.status = "PENDING"
  PROVE  /\ Again(r, Retries) \in PostRow /\ Again(r, Retries).status \in {"PENDING", "FAILED"}
         /\ Again(r, Retries).attempts = r.attempts + 1
         /\ Again(r, Retries).status = "PENDING" => r.attempts + 1 <= Retries
PROOF
  <1>1. r.attempts \in Nat /\ r.attempts + 1 \in 0..(Retries + 1) /\ Retries \in Nat
    BY Numbers DEF PostRow
  <1>2. PICK e, s : e = Again(r, Retries) /\ s = (IF r.attempts + 1 > Retries THEN "FAILED" ELSE "PENDING")
    OBVIOUS
  <1>3. e = [r EXCEPT !.attempts = r.attempts + 1, !.due = FALSE, !.status = s]
    BY <1>2 DEF Again, FailedAttempt
  <1>4. e \in PostRow /\ e.status = s /\ e.attempts = r.attempts + 1
    BY <1>1, <1>2, <1>3 DEF PostRow, PostStatus
  <1> QED
    BY <1>1, <1>2, <1>4

LEMMA Tried ==
  ASSUME Inv, NEW p \in maint.left
  PROVE  /\ maint.rows[p] \in PostRow /\ maint.rows[p].status = "PENDING"
         /\ maint.rows[p].attempts <= Retries
  BY RunTypes DEF Inv, MaintInv

LEMMA DeliverStep ==
  ASSUME Inv, NEW p \in maint.left, Deliver(p)
  PROVE  Inv'
PROOF
  <1>1. CASE Attempt(p, TRUE, Done(maint.rows[p], "SENT"))
    <2>1. Tries(p, Done(maint.rows[p], "SENT"), TRUE)
      BY <1>1, Tried, DonePost DEF Tries
    <2> QED
      BY <2>1, TryStep
  <1>2. ASSUME NEW out \in BOOLEAN, Attempt(p, out, Again(maint.rows[p], Retries)) PROVE Inv'
    <2>1. PICK r : r = Again(maint.rows[p], Retries)
      OBVIOUS
    <2>2. /\ r \in PostRow /\ r.status \in {"PENDING", "FAILED"} /\ r.attempts = maint.rows[p].attempts + 1
          /\ r.status = "PENDING" => maint.rows[p].attempts + 1 <= Retries
      BY <2>1, Tried, AgainPost
    <2>3. Tries(p, r, out)
      BY <1>2, <2>1, <2>2 DEF Tries
    <2> QED
      BY <2>3, TryStep
  <1> QED
    BY <1>1, <1>2 DEF Deliver

LEMMA GiveUpStep ==
  ASSUME Inv, NEW p \in maint.left, GiveUp(p)
  PROVE  Inv'
PROOF
  <1>1. Tries(p, Done(maint.rows[p], "FAILED"), FALSE)
    BY Tried, DonePost DEF Tries, GiveUp
  <1> QED
    BY <1>1, TryStep

LEMMA CommitMaintenanceStep ==
  ASSUME Inv, CommitMaintenance
  PROVE  Inv'
PROOF
  <1>1. /\ note' = [x \in Note |-> IF x \in maint.notes THEN note[x] + 1 ELSE note[x]]
        /\ maint' = Idle
        /\ UNCHANGED <<outbox, channel, fact, day, dispatch, published, received, crashes>>
    BY DEF CommitMaintenance
  <1>2. post' = [p \in Post |-> CASE p \in DOMAIN maint.rows -> maint.rows[p]
                                  [] p \in maint.posts \ DOMAIN maint.rows -> NewPost
                                  [] OTHER -> post[p]]
    BY DEF CommitMaintenance
  <1>3. /\ \A p \in Post : p \in DOMAIN maint.rows => post'[p] = maint.rows[p]
        /\ \A p \in Post : p \in maint.posts /\ p \notin DOMAIN maint.rows => post'[p] = NewPost
        /\ \A p \in Post : p \notin maint.posts /\ p \notin DOMAIN maint.rows => post'[p] = post[p]
    BY <1>2
  <1>4. /\ \A x \in maint.notes : /\ x \in Note /\ x[1] \in Fact /\ note[x] = 0 /\ note'[x] = 1
        /\ \A x \in Note \ maint.notes : note'[x] = note[x]
        /\ \A x \in Note : note[x] \in Nat
    <2>1. \A x \in maint.notes : x \in Note /\ x[1] \in Fact /\ note[x] = 0
      BY RunTypes DEF Inv, MaintInv
    <2> QED
      BY <1>1, <2>1, RowTypes DEF Inv
  <1>5. \A p \in maint.posts : p \in Post /\ p[1] \in maint.notes /\ post[p].status = "NONE" /\ post[p].attempts = 0
    <2>1. \A p \in maint.posts : p \in Post /\ p[1] \in maint.notes
      BY RunTypes DEF Inv, MaintInv
    <2> QED
      BY <1>4, <2>1 DEF Inv, PostsInv
  <1>6. TypeOK'
    <2>1. note' \in [Note -> Nat]
      BY <1>1, <1>4
    <2>2. \A p \in Post : post'[p] \in PostRow
      BY <1>3, RowTypes, RunTypes, NewPostTyped DEF Inv
    <2>3. post' \in [Post -> PostRow]
      BY <1>2, <2>2
    <2> QED
      BY <1>1, <2>1, <2>3, NoRun DEF Inv, TypeOK
  <1>7. NotesInv'
    <2>1. ASSUME NEW x \in Note
          PROVE  note'[x] <= 1 /\ (note'[x] > 0 /\ x[1] \in Event => published[x[1]] > 0)
      <3>1. CASE x \in maint.notes
        <4>1. x[1] \notin Event /\ note'[x] = 1
          BY <1>4, <3>1, Numbers
        <4> QED
          BY <4>1
      <3>2. CASE x \notin maint.notes
        BY <1>4, <3>2 DEF Inv, NotesInv
      <3> QED
        BY <3>1, <3>2
    <2>2. ASSUME NEW x \in Note, NEW y \in Note, note'[x] > 0, note'[y] > 0, x[1] = y[1], x[1] \notin Daily
          PROVE  x = y
      <3>1. x = <<x[1], x[2]>> /\ y = <<y[1], y[2]>> /\ x[2] \in Day /\ y[2] \in Day
        BY PairOf
      <3>2. CASE x \in maint.notes /\ y \in maint.notes
        BY <2>2, <3>2 DEF Inv, MaintInv
      <3>3. CASE x \in maint.notes /\ y \notin maint.notes
        <4>1. note[<<x[1], y[2]>>] = 0
          BY <2>2, <3>1, <3>3 DEF Inv, MaintInv
        <4>2. note[y] = 0
          BY <2>2, <3>1, <4>1
        <4> QED
          BY <1>4, <2>2, <3>3, <4>2
      <3>4. CASE x \notin maint.notes /\ y \in maint.notes
        <4>1. note[<<y[1], x[2]>>] = 0
          BY <2>2, <3>1, <3>4 DEF Inv, MaintInv
        <4>2. note[x] = 0
          BY <2>2, <3>1, <4>1
        <4> QED
          BY <1>4, <2>2, <3>4, <4>2
      <3>5. CASE x \notin maint.notes /\ y \notin maint.notes
        BY <1>4, <2>2, <3>5 DEF Inv, NotesInv
      <3> QED
        BY <3>2, <3>3, <3>4, <3>5
    <2> QED
      BY <1>1, <2>1, <2>2 DEF NotesInv
  <1>8. PostsInv'
    <2> SUFFICES ASSUME NEW p \in Post
                 PROVE  /\ post'[p].status = "SENT" => received[p] > 0
                        /\ post'[p].status = "PENDING" => post'[p].attempts <= Retries
                        /\ post'[p].status = "NONE" => post'[p].attempts = 0
                        /\ post'[p].status # "NONE" => note'[p[1]] > 0
                        /\ received[p] > 0 /\ p[1][1] \in Event => published[p[1][1]] > 0
                        /\ received[p] <= PostNow(p)'.attempts + crashes
      BY <1>1 DEF PostsInv
    <2>0. /\ PostNow(p)' = post'[p] /\ p[1] \in Note
          /\ received[p] <= PostNow(p).attempts + crashes
          /\ received[p] > 0 /\ p[1][1] \in Event => published[p[1][1]] > 0
          /\ note[p[1]] > 0 => note'[p[1]] > 0
      <3>1. PostNow(p)' = post'[p] /\ p[1] \in Note
        BY <1>1, IdleNow, PostOf DEF PostNow
      <3>2. note[p[1]] > 0 => note'[p[1]] > 0
        BY <1>4, <3>1
      <3> QED
        BY <3>1, <3>2 DEF Inv, PostsInv
    <2>1. CASE p \in DOMAIN maint.rows
      <3>1. post'[p] = maint.rows[p] /\ PostNow(p) = maint.rows[p]
        BY <1>3, <2>1 DEF PostNow
      <3>2. /\ maint.rows[p].status \in {"PENDING", "SENT", "FAILED"}
            /\ maint.rows[p].status = "SENT" => received[p] > 0
            /\ maint.rows[p].status = "PENDING" => maint.rows[p].attempts <= Retries
            /\ post[p].status = "PENDING" \/ p \in maint.posts
        BY <2>1 DEF Inv, MaintInv
      <3>3. note'[p[1]] > 0
        <4>1. CASE post[p].status = "PENDING"
          <5>1. note[p[1]] > 0
            BY <4>1 DEF Inv, PostsInv
          <5> QED
            BY <2>0, <5>1
        <4>2. CASE p \in maint.posts
          BY <1>4, <1>5, <4>2
        <4> QED
          BY <3>2, <4>1, <4>2
      <3> QED
        BY <2>0, <3>1, <3>2, <3>3
    <2>2. CASE p \notin DOMAIN maint.rows /\ p \in maint.posts
      <3>1. post'[p] = NewPost /\ PostNow(p) = post[p] /\ post[p].attempts = 0 /\ note'[p[1]] > 0
        BY <1>3, <1>4, <1>5, <2>2 DEF PostNow
      <3> QED
        BY <2>0, <3>1, NewPostTyped
    <2>3. CASE p \notin DOMAIN maint.rows /\ p \notin maint.posts
      <3>1. post'[p] = post[p] /\ PostNow(p) = post[p]
        BY <1>3, <2>3 DEF PostNow
      <3> QED
        BY <2>0, <3>1 DEF Inv, PostsInv
    <2> QED
      BY <2>1, <2>2, <2>3
  <1>9. DispatchInv'
    <2>1. ASSUME NEW x \in dispatch.notes, NEW d \in Day PROVE note'[<<x[1], d>>] = 0
      <3>1. x[1] \in Event /\ note[<<x[1], d>>] = 0
        BY DEF Inv, DispatchInv
      <3>2. <<x[1], d>> \in Note /\ <<x[1], d>>[1] = x[1]
        BY <3>1 DEF Note
      <3>3. <<x[1], d>> \notin maint.notes
        BY <1>4, <3>1, <3>2, Numbers
      <3> QED
        BY <1>4, <3>1, <3>2, <3>3
    <2> QED
      BY <1>1, <2>1 DEF Inv, DispatchInv
  <1>10. MaintInv'
    BY <1>1, IdleNow DEF MaintInv
  <1> QED
    BY <1>1, <1>6, <1>7, <1>8, <1>9, <1>10, EventsKept DEF Inv

LEMMA CrashMaintenanceStep ==
  ASSUME Inv, CrashMaintenance
  PROVE  Inv'
PROOF
  <1>1. /\ crashes < MaxCrashes /\ maint' = Idle /\ crashes' = crashes + 1
        /\ UNCHANGED <<outbox, note, post, channel, fact, day, dispatch, published, received>>
    BY DEF CrashMaintenance
  <1>2. crashes \in Nat /\ crashes' \in 0..MaxCrashes
    BY <1>1, RowTypes, Numbers DEF Inv
  <1>3. TypeOK'
    BY <1>1, <1>2, NoRun DEF Inv, TypeOK
  <1>4. EventsInv'
    <2>1. ASSUME NEW n \in Event PROVE published[n] <= EventNow(n)'.attempts + crashes'
      <3>1. EventNow(n)' = EventNow(n)
        BY <1>1 DEF EventNow
      <3>2. published[n] \in Nat /\ EventNow(n).attempts \in Nat /\ published[n] <= EventNow(n).attempts + crashes
        BY RowTypes, RunTypes DEF Inv, EventsInv, EventNow
      <3> QED
        BY <1>1, <1>2, <3>1, <3>2
    <2> QED
      BY <1>1, <2>1 DEF Inv, EventsInv
  <1>5. PostsInv'
    <2>1. ASSUME NEW p \in Post PROVE received[p] <= PostNow(p)'.attempts + crashes'
      <3>1. PostNow(p)' = post[p]
        BY <1>1, IdleNow DEF PostNow
      <3>2. /\ received[p] \in Nat /\ post[p].attempts \in Nat
            /\ received[p] <= PostNow(p).attempts + crashes
        BY RowTypes DEF Inv, PostsInv
      <3>3. PostNow(p).attempts \in Nat /\ PostNow(p).attempts <= post[p].attempts + 1
        BY <3>2, RunTypes DEF Inv, MaintInv, PostNow
      <3> QED
        BY <1>1, <1>2, <3>1, <3>2, <3>3
    <2> QED
      BY <1>1, <2>1 DEF Inv, PostsInv
  <1>6. MaintInv'
    BY <1>1, IdleNow DEF MaintInv
  <1> QED
    BY <1>1, <1>3, <1>4, <1>5, <1>6, NotesKept, DispatchKept DEF Inv

LEMMA PostBackoffStep ==
  ASSUME Inv, NEW p \in Post, PostBackoffEnds(p)
  PROVE  Inv'
PROOF
  <1>1. /\ post' = [post EXCEPT ![p] = [post[p] EXCEPT !.due = TRUE]]
        /\ UNCHANGED <<outbox, note, channel, fact, day, dispatch, maint, published, received, crashes>>
    BY DEF PostBackoffEnds
  <1>2. PICK r : r = [post[p] EXCEPT !.due = TRUE]
    OBVIOUS
  <1>3. post[p] \in PostRow
    BY RowTypes DEF Inv
  <1>4. r \in PostRow /\ r.status = post[p].status /\ r.attempts = post[p].attempts
    BY <1>2, <1>3 DEF PostRow
  <1>5. post \in [Post -> PostRow]
    BY DEF Inv, TypeOK
  <1>6. post' \in [Post -> PostRow] /\ post'[p] = r /\ \A q \in Post \ {p} : post'[q] = post[q]
    BY <1>1, <1>2, <1>4, <1>5
  <1>7. \A q \in Post : post'[q].status = post[q].status /\ post'[q].attempts = post[q].attempts
    BY <1>4, <1>6
  <1>8. TypeOK'
    BY <1>1, <1>6 DEF Inv, TypeOK
  <1>9. PostsInv'
    <2>1. \A q \in Post : PostNow(q)'.attempts = PostNow(q).attempts
      BY <1>1, <1>7 DEF PostNow
    <2> QED
      BY <1>1, <1>7, <2>1 DEF Inv, PostsInv
  <1>10. MaintInv'
    <2>1. DOMAIN maint.rows \in SUBSET Post /\ maint.left \in SUBSET Post
      BY RunTypes DEF Inv
    <2>2. /\ \A q \in DOMAIN maint.rows : post'[q].status = post[q].status /\ post'[q].attempts = post[q].attempts
          /\ \A q \in maint.left : post'[q].status = post[q].status /\ post'[q].attempts = post[q].attempts
      BY <1>7, <2>1
    <2> QED
      BY <1>1, <2>2 DEF Inv, MaintInv
  <1> QED
    BY <1>1, <1>8, <1>9, <1>10, EventsKept, NotesKept, DispatchKept DEF Inv

-------------------------------------------------------------------------------
(* The invariant holds.                                                     *)

LEMMA InitInv == Init => Inv
PROOF
  <1> SUFFICES ASSUME Init PROVE Inv
    OBVIOUS
  <1>1. /\ outbox = [n \in Event |-> NoEvent] /\ note = [x \in Note |-> 0] /\ post = [p \in Post |-> NoPost]
        /\ channel = [c \in Channel |-> [state |-> "NONE", events |-> {}]]
        /\ fact = {} /\ day = 0 /\ dispatch = Idle /\ maint = Idle
        /\ published = [n \in Event |-> 0] /\ received = [p \in Post |-> 0] /\ crashes = 0
    BY DEF Init
  <1>2. 0 \in 0..(Backoff + 1) /\ 0 \in 0..(Retries + 1) /\ 0 \in 0..MaxCrashes /\ 0 \in Day
    BY Numbers
  <1>3. NoEvent \in EventRow /\ NoEvent.status = "NONE" /\ NoEvent.attempts = 0
    BY <1>2 DEF NoEvent, EventRow, EventStatus
  <1>4. NoPost \in PostRow /\ NoPost.status = "NONE" /\ NoPost.attempts = 0
    BY <1>2 DEF NoPost, PostRow, PostStatus
  <1>5. channel \in [Channel -> ChannelRow]
    BY <1>1 DEF ChannelRow
  <1>6. TypeOK
    BY <1>1, <1>2, <1>3, <1>4, <1>5, NoRun DEF TypeOK
  <1>7. EventsInv
    BY <1>1, <1>3, IdleNow DEF EventsInv, EventNow
  <1>8. NotesInv
    BY <1>1 DEF NotesInv
  <1>9. PostsInv
    BY <1>1, <1>4, IdleNow DEF PostsInv, PostNow
  <1>10. DispatchInv /\ MaintInv
    BY <1>1, IdleNow DEF DispatchInv, MaintInv
  <1> QED
    BY <1>6, <1>7, <1>8, <1>9, <1>10 DEF Inv

LEMMA SettingsStep ==
  ASSUME Inv, Settings
  PROVE  Inv'
PROOF
  <1>1. PICK c \in Channel, events \in Choices, state \in {"ACTIVE", "INACTIVE"} :
           /\ channel' = [channel EXCEPT ![c] = [state |-> state, events |-> events]]
           /\ UNCHANGED <<outbox, note, post, fact, day, dispatch, maint, published, received, crashes>>
    BY DEF Settings, CreateChannel, UpdateChannel
  <1>2. [state |-> state, events |-> events] \in ChannelRow
    BY OutboxAssumption DEF ChannelRow
  <1>3. channel \in [Channel -> ChannelRow] /\ fact \in SUBSET Fact /\ day \in Day
    BY DEF Inv, TypeOK
  <1>4. channel' \in [Channel -> ChannelRow]
    BY <1>1, <1>2, <1>3
  <1> QED
    BY <1>1, <1>3, <1>4, WorldStep

LEMMA WorldsStep ==
  ASSUME Inv, World
  PROVE  Inv'
PROOF
  <1>1. channel \in [Channel -> ChannelRow] /\ fact \in SUBSET Fact /\ day \in Day
    BY DEF Inv, TypeOK
  <1>2. ASSUME NextDay PROVE Inv'
    <2>1. /\ day' \in Day
          /\ UNCHANGED <<outbox, note, post, channel, fact, dispatch, maint, published, received, crashes>>
      BY <1>1, <1>2, OutboxAssumption DEF NextDay, Day
    <2> QED
      BY <1>1, <2>1, WorldStep
  <1>3. ASSUME NEW f \in Fact, FactArises(f) \/ FactEnds(f) PROVE Inv'
    <2>1. /\ fact' \in SUBSET Fact
          /\ UNCHANGED <<outbox, note, post, channel, day, dispatch, maint, published, received, crashes>>
      BY <1>1, <1>3 DEF FactArises, FactEnds
    <2> QED
      BY <1>1, <2>1, WorldStep
  <1> QED
    BY <1>2, <1>3 DEF World

LEMMA StutterStep ==
  ASSUME Inv, UNCHANGED vars
  PROVE  Inv'
PROOF
  <1>1. UNCHANGED <<outbox, note, post, channel, fact, day, dispatch, maint, published, received, crashes>>
    BY DEF vars
  <1>2. channel' \in [Channel -> ChannelRow] /\ fact' \in SUBSET Fact /\ day' \in Day
    BY <1>1 DEF Inv, TypeOK
  <1> QED
    BY <1>1, <1>2, WorldStep

LEMMA NextInv == Inv /\ [Next]_vars => Inv'
PROOF
  <1> SUFFICES ASSUME Inv, [Next]_vars PROVE Inv'
    OBVIOUS
  <1>1. CASE Emits
    BY <1>1, EmitStep DEF Emits
  <1>2. CASE Requests
    BY <1>2, EndRequestStep DEF Requests, CommitRequest, RollbackRequest
  <1>3. CASE Settings
    BY <1>3, SettingsStep
  <1>4. CASE World
    BY <1>4, WorldsStep
  <1>5. CASE StartDispatch
    BY <1>5, StartDispatchStep
  <1>6. CASE PublishNext
    BY <1>6, PublishStep, PublishFailsStep DEF PublishNext
  <1>7. CASE CommitDispatch
    BY <1>7, CommitDispatchStep
  <1>8. CASE CrashDispatch
    BY <1>8, CrashDispatchStep
  <1>9. CASE StartMaintenance
    BY <1>9, StartMaintenanceStep
  <1>10. CASE DeliverNext
    BY <1>10, DeliverStep, GiveUpStep DEF DeliverNext
  <1>11. CASE CommitMaintenance
    BY <1>11, CommitMaintenanceStep
  <1>12. CASE CrashMaintenance
    BY <1>12, CrashMaintenanceStep
  <1>13. CASE BackoffEnds
    BY <1>13, EventBackoffStep, PostBackoffStep DEF BackoffEnds
  <1>14. CASE UNCHANGED vars
    BY <1>14, StutterStep
  <1> QED
    BY <1>1, <1>2, <1>3, <1>4, <1>5, <1>6, <1>7, <1>8, <1>9, <1>10, <1>11, <1>12, <1>13, <1>14
       DEF Next, Jobs

LEMMA InvHolds == Spec => []Inv
PROOF
  <1> QED
    BY InitInv, NextInv, PTL DEF Spec

-------------------------------------------------------------------------------
(* Every row, run and counter keeps its type; the attempts of an event or of *)
(* a delivery never exceed its back-off table by more than one.             *)
THEOREM TypeCorrect == Spec => []TypeOK
PROOF
  <1>1. Inv => TypeOK
    BY DEF Inv
  <1> QED
    BY <1>1, InvHolds, PTL

(* What is marked as sent has been sent, and only what was committed goes   *)
(* out, whatever runs are lost (run_dispatcher, deliver_due).               *)
THEOREM SentCorrect == Spec => []SentIsOut
PROOF
  <1>1. Inv => SentIsOut
    BY DEF Inv, EventsInv, PostsInv, SentIsOut
  <1> QED
    BY <1>1, InvHolds, PTL

(* What goes out more often than it may be tried makes up for a lost run    *)
(* (run_dispatcher, deliver_due).                                           *)
THEOREM RepeatsBounded == Spec => []RepeatsOnlyAfterCrash
PROOF
  <1>1. Inv => RepeatsOnlyAfterCrash
    <2> SUFFICES ASSUME Inv PROVE RepeatsOnlyAfterCrash
      OBVIOUS
    <2>0. (\A r \in EventRow : r.attempts \in Nat /\ r.attempts <= Backoff + 1)
          /\ (\A r \in PostRow : r.attempts \in Nat /\ r.attempts <= Retries + 1)
      BY Numbers DEF EventRow, PostRow
    <2>1. ASSUME NEW n \in Event PROVE published[n] <= 1 + Backoff + crashes
      <3>1. EventNow(n) \in EventRow /\ published[n] \in Nat /\ crashes \in Nat
        BY RowTypes, RunTypes DEF Inv, EventNow
      <3>2. EventNow(n).attempts \in Nat /\ EventNow(n).attempts <= Backoff + 1
        BY <2>0, <3>1
      <3>3. published[n] <= EventNow(n).attempts + crashes
        BY DEF Inv, EventsInv
      <3> QED
        BY <3>1, <3>2, <3>3, Numbers
    <2>2. ASSUME NEW p \in Post PROVE received[p] <= 1 + Retries + crashes
      <3>1. PostNow(p) \in PostRow /\ received[p] \in Nat /\ crashes \in Nat
        BY RowTypes, RunTypes DEF Inv, PostNow
      <3>2. PostNow(p).attempts \in Nat /\ PostNow(p).attempts <= Retries + 1
        BY <2>0, <3>1
      <3>3. received[p] <= PostNow(p).attempts + crashes
        BY DEF Inv, PostsInv
      <3> QED
        BY <3>1, <3>2, <3>3, Numbers
    <2> QED
      BY <2>1, <2>2 DEF RepeatsOnlyAfterCrash
  <1> QED
    BY <1>1, InvHolds, PTL

(* A fact is notified once, a daily one once a day, however the scan and the *)
(* lost runs fall (notify).                                                 *)
THEOREM ToldCorrect == Spec => []ToldOnce
PROOF
  <1>1. Inv => ToldOnce
    <2> SUFFICES ASSUME Inv, NEW x \in Event \cup Fact
                 PROVE  /\ \A d \in Day : note[<<x, d>>] <= 1
                        /\ x \notin Daily => Cardinality({d \in Day : note[<<x, d>>] > 0}) <= 1
      BY DEF ToldOnce
    <2>1. \A d \in Day : <<x, d>> \in Note /\ <<x, d>>[1] = x /\ <<x, d>>[2] = d
      BY DEF Note
    <2>2. \A d \in Day : note[<<x, d>>] <= 1
      BY <2>1 DEF Inv, NotesInv
    <2>3. ASSUME x \notin Daily PROVE Cardinality({d \in Day : note[<<x, d>>] > 0}) <= 1
      <3>1. PICK D : D = {d \in Day : note[<<x, d>>] > 0}
        OBVIOUS
      <3>2. ASSUME NEW a \in D, NEW b \in D PROVE a = b
        <4>1. <<x, a>> \in Note /\ <<x, b>> \in Note /\ note[<<x, a>>] > 0 /\ note[<<x, b>>] > 0
          BY <2>1, <3>1
        <4>2. <<x, a>> = <<x, b>>
          BY <2>1, <2>3, <3>1, <4>1 DEF Inv, NotesInv
        <4> QED
          BY <4>2
      <3>3. CASE D = {}
        <4>1. Cardinality(D) = 0
          BY <3>3, FS_EmptySet
        <4> QED
          BY <3>1, <4>1
      <3>4. CASE D # {}
        <4>1. PICK a : a \in D
          BY <3>4
        <4>2. D = {a}
          BY <3>2, <4>1
        <4>3. Cardinality(D) = 1
          BY <4>2, FS_Singleton
        <4> QED
          BY <3>1, <4>3
      <3> QED
        BY <3>3, <3>4
    <2> QED
      BY <2>2, <2>3
  <1> QED
    BY <1>1, InvHolds, PTL

===============================================================================
