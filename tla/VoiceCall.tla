----------------------------- MODULE VoiceCall -----------------------------
(***************************************************************************)
(* One live call (gateway/voice): the upgrade that tries a realtime session *)
(* and falls back to text, the tool calls of the realtime model, the two    *)
(* presses that hang up and wait for work in progress, and the follow-up    *)
(* turn after the call.                                                     *)
(***************************************************************************)
EXTENDS Naturals, Sequences

CONSTANTS
  Work,       \* ids of consult and contact calls the model may make
  MaxPresses, \* bound: presses of hang_up_call
  MaxActions, \* bound: follow-up actions queued
  MaxOwn      \* bound: responses the realtime server starts on its own

NoOwner == "nobody"
ASSUME WorkAssumption ==
  NoOwner \notin Work /\ MaxPresses \in Nat /\ MaxActions \in Nat /\ MaxOwn \in Nat

VARIABLES
  phase,     \* "upgrade", "parties", "try1", "try2", "shake", "join", "live", "stored", "post", "over", "failed", "refused"
  sock,      \* the caller's socket: "raw" during the upgrade, "gone", "open", "closing", "closed"
  rt,        \* the realtime session: "none", "opening", "ready", "rejected", "dead", "closed"
  ended,     \* callEnded is resolved
  armed,     \* the first press was made within the last ten seconds
  requested, \* hangupRequested
  delivered, \* hangupDelivered
  pending,   \* pendingWork
  owners,    \* responseOwners
  owned,     \* ownedResponses: by owner, what has come of its response
  jobs,      \* each call: "idle", "running", "answered", "finished"
  asked,     \* the number of responses requested and not yet created by the server
  actions,   \* the queued follow-up actions
  follow,    \* the turn after the call: "none", "actions", "reflection"
  bounds     \* presses made, responses the server started on its own

voiceVars == <<phase, sock, rt, ended, armed, requested, delivered, pending, owners, owned, jobs,
               asked, actions, follow, bounds>>
callTools == <<armed, requested, delivered, pending, owners, owned, jobs, asked, actions>>
callEnd == <<ended, follow>>

NoResponse == {"none"}
All == {"done", "audio", "text"}

VoiceTypeOK ==
  /\ phase \in {"upgrade", "parties", "try1", "try2", "shake", "join", "live", "stored", "post", "over",
               "failed", "refused"}
  /\ sock \in {"raw", "gone", "open", "closing", "closed"}
  /\ rt \in {"none", "opening", "ready", "rejected", "dead", "closed"}
  /\ {ended, armed, requested, delivered} \subseteq BOOLEAN
  /\ follow \in {"none", "actions", "reflection"}
  /\ pending \subseteq Work
  /\ owners \in Seq(Work \cup {NoOwner}) /\ asked \in Nat
  /\ owned \in [Work -> (SUBSET All) \cup {NoResponse}]
  /\ jobs \in [Work -> {"idle", "running", "answered", "finished"}]
  /\ actions \in 0 .. MaxActions
  /\ bounds \in [presses : 0 .. MaxPresses, own : 0 .. MaxOwn]

VoiceInit ==
  /\ phase = "upgrade" /\ sock = "raw" /\ rt = "none" /\ ended = FALSE
  /\ armed = FALSE /\ requested = FALSE /\ delivered = FALSE
  /\ pending = {} /\ owners = <<>> /\ owned = [w \in Work |-> NoResponse]
  /\ jobs = [w \in Work |-> "idle"] /\ asked = 0 /\ actions = 0
  /\ follow = "none"
  /\ bounds = [presses |-> 0, own |-> 0]

-----------------------------------------------------------------------------
(* The upgrade *)

\* A bad signature is refused.
Authenticates ==
  /\ phase = "upgrade" /\ phase' \in {"refused", "parties"}
  /\ UNCHANGED <<sock, rt, callTools, callEnd, bounds>>

\* Who is on the call is looked up, every failure tolerated; then realtime is
\* tried when it is configured.
PartiesKnown ==
  /\ phase = "parties"
  /\ \/ phase' = "try1" /\ rt' = "opening"
     \/ phase' = "shake" /\ UNCHANGED rt
  /\ UNCHANGED <<sock, callTools, callEnd, bounds>>

\* session.updated, or an error event or a close before it.
SessionAnswers ==
  /\ rt = "opening" /\ rt' \in {"ready", "rejected"}
  /\ UNCHANGED <<phase, sock, callTools, callEnd, bounds>>

TryWorks ==
  /\ phase \in {"try1", "try2"} /\ rt = "ready" /\ phase' = "shake"
  /\ UNCHANGED <<sock, rt, callTools, callEnd, bounds>>

\* A failed try is closed: a fast rejection is tried once more, anything else
\* falls back to text or is refused.
TryFails ==
  /\ phase \in {"try1", "try2"}
  /\ \/ phase = "try1" /\ rt = "rejected" /\ phase' = "try2" /\ rt' = "opening"
     \/ rt # "ready" /\ phase' \in {"shake", "refused"} /\ rt' = "closed"
  /\ UNCHANGED <<sock, callTools, callEnd, bounds>>

CallerGone ==
  /\ sock = "raw" /\ phase \in {"upgrade", "parties", "try1", "try2", "shake"} /\ sock' = "gone"
  /\ UNCHANGED <<phase, rt, callTools, callEnd, bounds>>

\* The handshake of a socket that is gone has no effect and no callback.
Handshake ==
  /\ phase = "shake"
  /\ IF sock = "gone" THEN phase' = "over" /\ sock' = sock ELSE phase' = "join" /\ sock' = "open"
  /\ UNCHANGED <<rt, callTools, callEnd, bounds>>

-----------------------------------------------------------------------------
(* The call *)

Connected == phase \in {"join", "live"} /\ ~ended
Speaking == rt = "ready" /\ phase \in {"join", "live"}  \* the session is open and not closed by us

\* The client for the status poll, before callEnded is awaited; without it the
\* call fails.
CallJoins ==
  /\ phase = "join" /\ phase' = "live"
  /\ UNCHANGED <<sock, rt, callTools, callEnd, bounds>>

CloseRealtime ==
  /\ rt' = IF rt = "none" THEN "none" ELSE "closed"
  /\ pending' = {} /\ owners' = <<>> /\ owned' = [w \in Work |-> NoResponse] /\ asked' = 0
  /\ UNCHANGED <<armed, requested, delivered, jobs, actions>>

CallFails ==
  /\ phase \in {"join", "stored"} /\ phase' = "failed"
  /\ sock' = "closed" /\ CloseRealtime
  /\ UNCHANGED <<callEnd, bounds>>

\* A stop frame or unsupported audio, the end of the socket, or the status poll.
CallEnds ==
  /\ Connected /\ ended' = TRUE
  /\ \/ sock' = "closed"
     \/ phase = "live" /\ UNCHANGED sock
  /\ UNCHANGED <<phase, rt, callTools, follow, bounds>>

\* The session ends under a call: nobody is told.
SessionDies ==
  /\ rt = "ready" /\ phase \in {"join", "live"} /\ rt' = "dead"
  /\ UNCHANGED <<phase, sock, callTools, callEnd, bounds>>

-----------------------------------------------------------------------------
(* The realtime model's tools *)

\* Variant: a press does not look at the work in progress.
HangsUpAtOnce(left, wish) ==
  LET now == wish /\ ~delivered IN
  /\ delivered' = (delivered \/ now)
  /\ sock' = IF now /\ sock = "open" THEN "closing" ELSE sock

\* maybeHangup, given the work that is pending and the wish.
HangsUp(left, wish) ==
  LET now == wish /\ ~delivered /\ left = {} IN
  /\ delivered' = (delivered \/ now)
  /\ sock' = IF now /\ sock = "open" THEN "closing" ELSE sock

\* finishWork
WorkEnds(w) ==
  /\ pending' = pending \ {w} /\ jobs' = [jobs EXCEPT ![w] = "finished"]
  /\ HangsUp(pending', requested)

\* respond: the answer of a tool, and the request to speak it.
Respond(who) == owners' = Append(owners, who) /\ asked' = asked + 1

WorkBegins(w) ==
  /\ Connected /\ Speaking /\ jobs[w] = "idle" /\ jobs' = [jobs EXCEPT ![w] = "running"]
  /\ pending' = pending \cup {w}
  /\ UNCHANGED <<phase, sock, rt, armed, requested, delivered, owners, owned, asked, actions,
                 callEnd, bounds>>

\* An answer, a failure or the time limit of the tool; a closed session takes no answer.
WorkAnswers(w) ==
  /\ jobs[w] = "running"
  /\ IF Speaking
     THEN /\ Respond(w) /\ jobs' = [jobs EXCEPT ![w] = "answered"]
          /\ UNCHANGED <<sock, pending, delivered>>
     ELSE WorkEnds(w) /\ UNCHANGED <<owners, asked>>
  /\ UNCHANGED <<phase, rt, armed, requested, owned, actions, callEnd, bounds>>

\* The answer is not spoken in time.
GivesUpOn(w) ==
  /\ jobs[w] = "answered" /\ w \in pending
  /\ WorkEnds(w)
  /\ UNCHANGED <<phase, rt, armed, requested, owners, owned, asked, actions, callEnd, bounds>>

\* response.created: of a request, in their order, of the server's own accord
\* (when the caller spoke) or of the greeting.  The first owner in line takes it, whoever asked.
Created ==
  /\ Speaking
  /\ owners' = IF owners = <<>> THEN owners ELSE Tail(owners)
  /\ owned' = IF owners = <<>> \/ Head(owners) = NoOwner THEN owned
              ELSE [owned EXCEPT ![Head(owners)] = {}]
  /\ UNCHANGED <<phase, sock, rt, armed, requested, delivered, pending, jobs, actions, callEnd>>

CreatedAsked == /\ asked > 0 /\ Created /\ asked' = asked - 1 /\ UNCHANGED bounds
CreatedOwn == /\ bounds.own < MaxOwn /\ Created /\ asked' = asked
              /\ bounds' = [bounds EXCEPT !.own = @ + 1]

\* The parts of a response come in any order; one that is not completed is over
\* at once.
Comes(w, part) ==
  /\ Speaking /\ owned[w] # NoResponse /\ part \in All \ owned[w]
  /\ LET got == owned[w] \cup {part} IN
     \E failed \in {part = "done", FALSE} :
       IF got = All \/ failed
       THEN owned' = [owned EXCEPT ![w] = NoResponse] /\ WorkEnds(w)
       ELSE owned' = [owned EXCEPT ![w] = got] /\ UNCHANGED <<sock, pending, delivered, jobs>>
  /\ UNCHANGED <<phase, rt, armed, requested, owners, asked, actions, callEnd, bounds>>

Presses ==
  /\ Connected /\ Speaking /\ bounds.presses < MaxPresses
  /\ bounds' = [bounds EXCEPT !.presses = @ + 1]
  /\ IF armed
     THEN armed' = FALSE /\ requested' = TRUE /\ HangsUp(pending, TRUE) /\ UNCHANGED <<owners, asked>>
     ELSE armed' = TRUE /\ Respond(NoOwner) /\ UNCHANGED <<requested, delivered, sock>>
  /\ UNCHANGED <<phase, rt, pending, owned, jobs, actions, callEnd>>

WindowPasses ==
  /\ armed /\ armed' = FALSE
  /\ UNCHANGED <<phase, sock, rt, requested, delivered, pending, owners, owned, jobs, asked,
                 actions, callEnd, bounds>>

\* register_post_call_action, delete_post_call_action
Notes ==
  /\ Connected /\ Speaking
  /\ \/ actions < MaxActions /\ actions' = actions + 1
     \/ actions > 0 /\ actions' = actions - 1
  /\ Respond(NoOwner)
  /\ UNCHANGED <<phase, sock, rt, armed, requested, delivered, pending, owned, jobs, callEnd, bounds>>

\* The socket that was closed from here reports its end.
SocketEnds ==
  /\ sock = "closing" /\ sock' = "closed" /\ ended' = TRUE
  /\ UNCHANGED <<phase, rt, callTools, follow, bounds>>

-----------------------------------------------------------------------------
(* After the call *)

TearsDown ==
  /\ phase = "live" /\ ended /\ phase' = "stored"
  /\ sock' = "closed" /\ CloseRealtime
  /\ UNCHANGED <<callEnd, bounds>>

\* The stored transcript replaces the local one, if there is one after a few
\* tries; without actions and without a transcript there is no turn.
FetchesTranscript ==
  /\ phase = "stored" /\ phase' = "post"
  /\ follow' \in IF actions > 0 THEN {"actions"} ELSE {"reflection", "none"}
  /\ UNCHANGED <<sock, rt, callTools, ended, bounds>>

FollowUpEnds ==
  /\ phase = "post" /\ phase' = "over"
  /\ UNCHANGED <<sock, rt, callTools, callEnd, bounds>>

-----------------------------------------------------------------------------
VoiceNext ==
  \/ Authenticates \/ PartiesKnown \/ SessionAnswers \/ TryWorks \/ TryFails \/ CallerGone \/ Handshake
  \/ CallJoins \/ CallFails \/ CallEnds \/ SessionDies
  \/ CreatedAsked \/ CreatedOwn \/ Presses \/ WindowPasses \/ Notes \/ SocketEnds
  \/ \E w \in Work : \/ WorkBegins(w) \/ WorkAnswers(w) \/ GivesUpOn(w)
                     \/ \E output \in All : Comes(w, output)
  \/ TearsDown \/ FetchesTranscript \/ FollowUpEnds

VoiceSpec == VoiceInit /\ [][VoiceNext]_voiceVars

-----------------------------------------------------------------------------
(* The model's wish to hang up waits for every tool call it began: none is  *)
(* still running, and none has an answer that waits to be spoken.  And      *)
(* however a call ends, is refused or fails, its realtime session is closed *)
(* (but for a caller who is gone before the handshake).                     *)
GoodbyeAfterWork ==
  /\ [][delivered' /\ ~delivered /\ phase \in {"join", "live"}
          => \A w \in Work : jobs'[w] \in {"idle", "finished"}]_voiceVars
  /\ [](phase \in {"over", "failed", "refused"} /\ sock # "gone" => rt \in {"none", "closed"})
=============================================================================
