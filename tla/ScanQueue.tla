------------------------------- MODULE ScanQueue -------------------------------
(***************************************************************************)
(* The scanner out of reach: the queue of web/src/lib/wms.ts, flushed by   *)
(* the pages under /scan (app/scan/layout.tsx), and scan_event() of        *)
(* app/modules/wms/common.py, which knows a scan by its client_event_id.   *)
(*                                                                         *)
(* A scan is sent at once; when the network fails it is stored on the      *)
(* device and sent again, every twenty seconds, until it is answered.  A   *)
(* request whose connection is lost may still arrive, and what was done    *)
(* for it is not told.  The server is that of Idempotency, seen from one   *)
(* client: a request is done once, or answered as before.                  *)
(***************************************************************************)
EXTENDS Naturals, Sequences

CONSTANTS
  Scan,      \* the scans, by their client_event_id
  Tab,       \* tabs with the scanner open on the same device
  Hand,      \* the call that sends a scan at once
  Forgotten  \* nobody waits for the answer

ASSUME ScanQueueAssumption ==
  Hand # Forgotten /\ Hand \notin Tab /\ Forgotten \notin Tab

VARIABLES
  queue,    \* nx_scan_queue in the storage of the device
  flushing, \* what the flush of each tab has still to send; the first is being sent
  shown,    \* what the user was told of each scan
  wire,     \* requests on their way
  answers,  \* answers on their way
  kept,     \* the scans whose key the server keeps
  applied,  \* how often each was applied
  expired,  \* the scans whose key was purged
  unwritten \* the scans the device could not store

scanVars == <<queue, flushing, shown, wire, answers, kept, applied, expired, unwritten>>

Asker == Tab \cup {Hand, Forgotten}

ShownAs == {"nothing", "sending", "queued", "sent", "refused", "left"}

ScanQueueTypeOK ==
  /\ queue \in Seq(Scan)
  /\ \A i, j \in DOMAIN queue : queue[i] = queue[j] => i = j
  /\ flushing \in [Tab -> Seq(Scan)]
  /\ shown \in [Scan -> ShownAs]
  /\ wire \subseteq [scan : Scan, by : Asker]
  /\ answers \subseteq [scan : Scan, by : Asker \ {Forgotten}, ok : BOOLEAN]
  /\ kept \subseteq Scan /\ expired \subseteq Scan /\ unwritten \subseteq Scan
  /\ applied \in [Scan -> Nat]

ScanQueueInit ==
  /\ queue = <<>> /\ flushing = [t \in Tab |-> <<>>]
  /\ shown = [x \in Scan |-> "nothing"]
  /\ wire = {} /\ answers = {}
  /\ kept = {} /\ expired = {} /\ unwritten = {}
  /\ applied = [x \in Scan |-> 0]

-----------------------------------------------------------------------------
Sent(x, by) == [scan |-> x, by |-> by]

(* The caller waits no more: the request goes on, its answer is lost.  Two   *)
(* forgotten requests of a scan are one: the second finds the key.           *)
Forget(by) ==
  /\ wire' = {r \in wire : r.by # by} \cup {Sent(r.scan, Forgotten) : r \in {q \in wire : q.by = by}}
  /\ answers' = {a \in answers : a.by # by}

(* The same for the scan that is sent at once: there may be several. *)
ForgetScan(x) ==
  /\ wire' = (wire \ {Sent(x, Hand)})
             \cup {Sent(r.scan, Forgotten) : r \in wire \cap {Sent(x, Hand)}}
  /\ answers' = {a \in answers : a.scan # x \/ a.by # Hand}

-----------------------------------------------------------------------------
(***************************************************************************)
(* sendOrQueue()                                                           *)
(***************************************************************************)
SendScan(x) ==
  /\ shown[x] = "nothing"
  /\ shown' = [shown EXCEPT ![x] = "sending"]
  /\ wire' = wire \cup {Sent(x, Hand)}
  /\ UNCHANGED <<queue, flushing, answers, kept, applied, expired, unwritten>>

(* An answer with an error is thrown: the scan is not stored. *)
ScanAnswered(x, ok) ==
  /\ [scan |-> x, by |-> Hand, ok |-> ok] \in answers
  /\ answers' = answers \ {[scan |-> x, by |-> Hand, ok |-> ok]}
  /\ shown' = [shown EXCEPT ![x] = IF ok THEN "sent" ELSE "refused"]
  /\ UNCHANGED <<queue, flushing, wire, kept, applied, expired, unwritten>>

(* writeQueue(): when the storage is full or switched off, the failure is    *)
(* ignored and the queue stays as it was.                                    *)
Written(q, stored) == IF stored THEN q ELSE queue

(* The network fails before there is an answer: the scan is said to be       *)
(* stored, whether it could be or not.                                       *)
QueueScan(x, stored) ==
  /\ shown[x] = "sending"
  /\ ForgetScan(x)
  /\ queue' = Written(Append(queue, x), stored)
  /\ shown' = [shown EXCEPT ![x] = "queued"]
  /\ unwritten' = IF stored THEN unwritten ELSE unwritten \cup {x}
  /\ UNCHANGED <<flushing, kept, applied, expired>>

(* The page is left or the device restarts before. *)
LeavePage(x) ==
  /\ shown[x] = "sending"
  /\ ForgetScan(x)
  /\ shown' = [shown EXCEPT ![x] = "left"]
  /\ UNCHANGED <<queue, flushing, kept, applied, expired, unwritten>>

-----------------------------------------------------------------------------
(***************************************************************************)
(* flushQueue(): the scans that were stored when it began, one by one.     *)
(***************************************************************************)
StartFlush(t) ==
  /\ flushing[t] = <<>> /\ queue # <<>>
  /\ flushing' = [flushing EXCEPT ![t] = queue]
  /\ wire' = wire \cup {Sent(Head(queue), t)}
  /\ UNCHANGED <<queue, shown, answers, kept, applied, expired, unwritten>>

\* Mutant: what was stored since the flush began is overwritten.
RestOfFlush(t) == Tail(flushing[t])

Position(x) == CHOOSE i \in DOMAIN queue : queue[i] = x

(* The queue without the scan that was answered, which is in it once at most, *)
(* whatever was stored meanwhile.                                             *)
Unqueued(t) ==
  LET x == Head(flushing[t])
  IN  IF \A i \in DOMAIN queue : queue[i] # x THEN queue
      ELSE [i \in 1..(Len(queue) - 1) |-> IF i < Position(x) THEN queue[i] ELSE queue[i + 1]]

(* An answer with an error is the last word on a scan, too.  When the queue  *)
(* cannot be written, the scan stays in it and is sent again.                *)
FlushAnswered(t, ok, stored) ==
  LET x == Head(flushing[t])
      rest == Tail(flushing[t])
  IN  /\ flushing[t] # <<>>
      /\ [scan |-> x, by |-> t, ok |-> ok] \in answers
      /\ answers' = answers \ {[scan |-> x, by |-> t, ok |-> ok]}
      /\ queue' = Written(Unqueued(t), stored)
      /\ shown' = [shown EXCEPT ![x] = IF ok THEN "sent" ELSE "refused"]
      /\ flushing' = [flushing EXCEPT ![t] = rest]
      /\ wire' = IF rest = <<>> THEN wire ELSE wire \cup {Sent(Head(rest), t)}
      /\ UNCHANGED <<kept, applied, expired, unwritten>>

(* Out of reach again, or the tab is closed: what is left stays stored. *)
StopFlush(t) ==
  /\ flushing[t] # <<>>
  /\ Forget(t)
  /\ flushing' = [flushing EXCEPT ![t] = <<>>]
  /\ UNCHANGED <<queue, shown, kept, applied, expired, unwritten>>

-----------------------------------------------------------------------------
(***************************************************************************)
(* scan_event(), and the proxy before it (app/api/v1/.../route.ts), which  *)
(* answers with an error when it does not get the API's answer.            *)
(***************************************************************************)
Answered(r, ok) ==
  answers' = IF r.by = Forgotten THEN answers
             ELSE answers \cup {[scan |-> r.scan, by |-> r.by, ok |-> ok]}

Known(x) == x \in kept

(* The scan is applied and its key kept, unless it was applied before. *)
Apply(r, ok) ==
  /\ r \in wire /\ wire' = wire \ {r}
  /\ applied' = IF Known(r.scan) THEN applied ELSE [applied EXCEPT ![r.scan] = @ + 1]
  /\ kept' = kept \cup {r.scan}
  /\ Answered(r, ok)
  /\ UNCHANGED <<queue, flushing, shown, expired, unwritten>>

(* The API refuses it or fails, or is not there. *)
Refuse(r) ==
  /\ r \in wire /\ wire' = wire \ {r}
  /\ Answered(r, FALSE)
  /\ UNCHANGED <<queue, flushing, shown, kept, applied, expired, unwritten>>

(* run_maintenance(): the key is older than idempotency_ttl_hours. *)
PurgeKey(x) ==
  /\ x \in kept /\ x \notin expired
  /\ kept' = kept \ {x} /\ expired' = expired \cup {x}
  /\ UNCHANGED <<queue, flushing, shown, wire, answers, applied, unwritten>>

-----------------------------------------------------------------------------
Serve == \E r \in wire : Refuse(r) \/ \E ok \in BOOLEAN : Apply(r, ok)

ScanQueueNext ==
  \/ \E x \in Scan : SendScan(x) \/ LeavePage(x) \/ PurgeKey(x)
  \/ \E x \in Scan, yes \in BOOLEAN : ScanAnswered(x, yes) \/ QueueScan(x, yes)
  \/ \E t \in Tab : StartFlush(t) \/ StopFlush(t) \/ \E ok, yes \in BOOLEAN : FlushAnswered(t, ok, yes)
  \/ Serve

ScanQueueSpec == ScanQueueInit /\ [][ScanQueueNext]_scanVars

-----------------------------------------------------------------------------
(***************************************************************************)
(* "pengiriman ulang tidak pernah mencatat stok dua kali": a scan is       *)
(* applied once as long as its key is kept, through lost answers, closed   *)
(* tabs and two tabs that flush at once, though the document says it       *)
(* without that condition; and what the user was told is true, of a scan   *)
(* that was sent and of one that waits in the device, but for one that the *)
(* device could not store, of which the user is told that it waits         *)
(* (sendOrQueue, writeQueue).                                              *)
(***************************************************************************)
ScansHold ==
  \A x \in Scan :
    /\ x \notin expired => applied[x] <= 1
    /\ shown[x] = "sent" => applied[x] > 0
    /\ shown[x] = "queued" /\ x \notin unwritten => \E i \in DOMAIN queue : queue[i] = x
=============================================================================
