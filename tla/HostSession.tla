---------------------------- MODULE HostSession ----------------------------
(***************************************************************************)
(* The OpenCode host session of one conversation, as far as                *)
(* gateway/sessions.ts uses it (external code: promptAsync, messages,      *)
(* status, abort).  Every turn is submitted as one prompt of the same      *)
(* session.  A prompt is "inflight" from the moment the gateway sends the  *)
(* request until the host stores the user message.                         *)
(***************************************************************************)
EXTENDS TurnStore

VARIABLE host

PromptState == {"none", "inflight", "running", "answered", "failed"}

HostTypeOK == host \in [Turns -> PromptState]

HostInit == host = [t \in Turns |-> "none"]

\* The user message of turn t is in session.messages.
Accepted(t) == host[t] \in {"running", "answered", "failed"}

\* session.status reports the session idle.
Idle == \A t \in Turns : host[t] # "running"

\* promptAsync is on its way.
Send(t) == host' = [host EXCEPT ![t] = "inflight"]

\* An abort that took effect: everything running ends with an error.  A
\* request still on its way is not running yet and is not touched.
AbortEffect ==
  [t \in Turns |-> IF host[t] = "running" THEN "failed" ELSE host[t]]

\* The host stores the user message and starts to work on it.
HostAccepts(t) ==
  /\ host[t] = "inflight"
  /\ host' = [host EXCEPT ![t] = "running"]
  /\ UNCHANGED store

\* The request is lost on the way.
HostMisses(t) ==
  /\ host[t] = "inflight"
  /\ host' = [host EXCEPT ![t] = "none"]
  /\ UNCHANGED store

\* The model's turn ends, with a final answer or with an error.
HostFinishes(t) ==
  /\ host[t] = "running"
  /\ \E r \in {"answered", "failed"} : host' = [host EXCEPT ![t] = r]
  /\ UNCHANGED store
=============================================================================
