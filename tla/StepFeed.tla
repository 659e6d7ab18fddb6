----------------------------- MODULE StepFeed -----------------------------
(***************************************************************************)
(* What a match promises to those who follow it: there is one feed of      *)
(* steps, it only grows at the end, and a subscriber sees a part of it     *)
(* from the beginning, without a gap, a repetition or a reordering.        *)
(***************************************************************************)
EXTENDS Naturals, Sequences

CONSTANTS Subscribers, Packets
VARIABLES feed, view

Init ==
    /\ feed = <<>>
    /\ view = [s \in Subscribers |-> <<>>]

\* One more step, sent to some of the subscribers who are up to date.
Publish(to) ==
    /\ \A s \in to : view[s] = feed
    /\ feed' \in Seq(Packets)
    /\ Len(feed') = Len(feed) + 1
    /\ \A k \in 1..Len(feed) : feed'[k] = feed[k]
    /\ view' = [s \in Subscribers |-> IF s \in to THEN feed' ELSE view[s]]

\* A subscriber who has seen nothing is sent everything so far.
CatchUp(s) ==
    /\ view[s] = <<>>
    /\ view' = [view EXCEPT ![s] = feed]
    /\ UNCHANGED feed

Next ==
    \/ \E to \in SUBSET Subscribers : Publish(to)
    \/ \E s \in Subscribers : CatchUp(s)

Spec == Init /\ [][Next]_<<feed, view>>
=============================================================================
