------------------------------ MODULE MCOutbox ------------------------------
(* Small instances of Outbox for TLC. *)
EXTENDS Outbox, TLC

CONSTANTS o1, f1, f2, c1

(* What happens in a behaviour: events, or one fact that comes and goes. *)
VARIABLE story

MCInit == Init /\ story \in {{x} : x \in Fact} \cup {{}}

MCNext ==
  /\ \/ story = {} /\ Emits
     \/ story # {} /\ World /\ fact' \subseteq story
     \/ Requests \/ Settings \/ Jobs
  /\ UNCHANGED story

MCSpec == MCInit /\ [][MCNext]_<<vars, story>> /\ Fairness
=============================================================================
