--------------------------- MODULE ReplyContract ---------------------------
(***************************************************************************)
(* What a person may observe of the gateway's work on a turn, whatever     *)
(* crashes: the turn is submitted to the model at most once; its reply is  *)
(* posted at most once, after the submission; and the outcome of the post  *)
(* is known, or known to be unknown, never forgotten.                      *)
(***************************************************************************)
EXTENDS Naturals

CONSTANT Turns

VARIABLES
  prompts,  \* submissions to the model, per turn
  posts,    \* posts on the person's channel, per turn
  reply     \* what is known about the reply, per turn

vars == <<prompts, posts, reply>>

Init ==
  /\ prompts = [t \in Turns |-> 0]
  /\ posts   = [t \in Turns |-> 0]
  /\ reply   = [t \in Turns |-> "none"]

Submit(t) ==
  /\ prompts[t] = 0
  /\ prompts' = [prompts EXCEPT ![t] = 1]
  /\ UNCHANGED <<posts, reply>>

Post(t) ==
  /\ prompts[t] = 1
  /\ posts[t] = 0
  /\ posts' = [posts EXCEPT ![t] = 1]
  /\ reply' = [reply EXCEPT ![t] = "posting"]
  /\ UNCHANGED prompts

\* The post is acknowledged.
Deliver(t) ==
  /\ reply[t] = "posting"
  /\ reply' = [reply EXCEPT ![t] = "delivered"]
  /\ UNCHANGED <<prompts, posts>>

\* The post fails, or the gateway died with it: it may have been delivered.  A
\* restart settles all such replies in one step.
Lose(S) ==
  /\ \A t \in S : reply[t] = "posting"
  /\ reply' = [t \in Turns |-> IF t \in S THEN "unknown" ELSE reply[t]]
  /\ UNCHANGED <<prompts, posts>>

Next ==
  \/ \E t \in Turns : Submit(t) \/ Post(t) \/ Deliver(t)
  \/ \E S \in SUBSET Turns : Lose(S)

Spec == Init /\ [][Next]_vars
=============================================================================
