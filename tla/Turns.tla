------------------------------- MODULE Turns -------------------------------
(***************************************************************************)
(* The turn lifecycle of gateway/sessions.ts: how gateways take the queued *)
(* turns of one conversation, submit each to the host once, wait for the   *)
(* answer, post it on the turn's channel at most once, and stop, replace,  *)
(* retry, fence or recover turns while gateways crash, restart and close.  *)
(*                                                                         *)
(* A step is the code between two awaits of one asynchronous call chain:   *)
(* JavaScript interleaves nothing else there.  Every gateway has one drain *)
(* chain for the conversation (keys.get(chatKey).runningId), whose program *)
(* counter is pc, and one command chain for /stop, whose counter is spc.   *)
(***************************************************************************)
EXTENDS HostSession, Sequences

CONSTANTS
  MaxRetry,     \* retries before a turn fails (5 in the code)
  MaxStops,     \* how many /stop commands arrive (bounds the model)
  MaxCloses,    \* how many gateways close gracefully (bounds the model)
  Native,       \* channel with native replies: a message never interrupts
                \* (Slack, WhatsApp, threaded iMessage)
  Lapse,        \* a live gateway's unrenewed lease may run out while it waits
  Overlap       \* a gateway may start while another one still admits work

ASSUME BoundAssumption ==
  MaxRetry \in Nat /\ MaxStops \in Nat /\ MaxCloses \in Nat
ASSUME SwitchAssumption ==
  Native \in BOOLEAN /\ Lapse \in BOOLEAN /\ Overlap \in BOOLEAN

NoTurn == 0

VARIABLES
  retries,      \* durable turn.retryCount
  prompts,      \* how many times promptAsync was called for the turn
  posts,        \* how many times send() was called for the turn's reply
  up,           \* life of each gateway
  queue,        \* entry.queue of the conversation, per gateway
  timers,       \* turns a gateway re-enqueues when a setTimeout fires
  wake,         \* what will run drain() next: it is "ready" to run, a "timer"
                \* will start it, or only another enqueue will ("parked")
  arriving,     \* messages saved by handleInbound that wait for session.abort
  pc, cur,      \* drain chain: position, and entry.runningId
  on, ctx,      \* turn that rescue or finish works on, and for which caller
  blk, todo,    \* blockers captured by drain, and those not tried yet
  seen,         \* rescue read a finished answer in session.messages
  spc, son,     \* command chain: position, and the turn being stopped
  targets,      \* turns /stop has yet to look at
  stops, closes \* how many /stop commands and graceful closes so far

work    == <<cur, on, ctx, blk, todo, seen>>
frame   == <<pc, cur, on, ctx, blk, todo, seen>>
command == <<spc, son, targets>>
sched   == <<queue, timers, wake, arriving>>
counts  == <<stops, closes>>
past    == <<prompts, posts>>
rest    == <<host, retries, prompts, posts, up, queue, timers, wake, arriving,
             spc, son, targets, stops, closes>>
hold    == <<unc, fenced, owner, lease>>
vars    == <<st, unc, fenced, owner, lease, host, retries, prompts, posts, up,
             queue, timers, wake, arriving, pc, cur, on, ctx, blk, todo, seen,
             spc, son, targets, stops, closes>>

DrainStep == {"idle", "blockers", "claim", "prep", "prompt", "recheck",
              "verify", "poll", "saved", "stuck", "ambiguous",
              "messages", "status", "abort", "confirm",
              "prepare", "send", "rescued", "returned", "threw", "lost"}

\* Inside process(id): the interval that renews the lease is set.
Processing == DrainStep \ {"idle", "blockers", "claim"}

PastTypeOK ==
  /\ retries \in [Turns -> 0..MaxRetry]
  /\ prompts \in [Turns -> Nat]
  /\ posts   \in [Turns -> Nat]
  /\ up      \in [Procs -> {"off", "up", "closing", "closed", "gone"}]

SchedTypeOK ==
  /\ queue    \in [Procs -> Seq(Turns)]
  /\ timers   \in [Procs -> SUBSET Turns]
  /\ wake     \in [Procs -> {"ready", "timer", "parked"}]
  /\ arriving \in [Procs -> SUBSET Turns]

FrameTypeOK ==
  /\ pc   \in [Procs -> DrainStep]
  /\ cur  \in [Procs -> Turns \cup {NoTurn}]
  /\ on   \in [Procs -> Turns \cup {NoTurn}]
  /\ ctx  \in [Procs -> {"turn", "drain", "submit", "paused"}]
  /\ blk  \in [Procs -> SUBSET Turns]
  /\ todo \in [Procs -> SUBSET Turns]
  /\ seen \in [Procs -> BOOLEAN]

CommandTypeOK ==
  /\ spc     \in [Procs -> {"idle", "next", "abort", "confirm"}]
  /\ son     \in [Procs -> Turns \cup {NoTurn}]
  /\ targets \in [Procs -> SUBSET Turns]
  /\ stops   \in 0..MaxStops
  /\ closes  \in 0..MaxCloses

TypeOK ==
  /\ StoreTypeOK /\ HostTypeOK /\ PastTypeOK
  /\ SchedTypeOK /\ FrameTypeOK /\ CommandTypeOK

Init ==
  /\ StoreInit
  /\ HostInit
  /\ retries  = [t \in Turns |-> 0]
  /\ prompts  = [t \in Turns |-> 0]
  /\ posts    = [t \in Turns |-> 0]
  /\ up       = [p \in Procs |-> "off"]
  /\ queue    = [p \in Procs |-> <<>>]
  /\ timers   = [p \in Procs |-> {}]
  /\ wake     = [p \in Procs |-> "ready"]
  /\ arriving = [p \in Procs |-> {}]
  /\ pc       = [p \in Procs |-> "idle"]
  /\ cur      = [p \in Procs |-> NoTurn]
  /\ on       = [p \in Procs |-> NoTurn]
  /\ ctx      = [p \in Procs |-> "turn"]
  /\ blk      = [p \in Procs |-> {}]
  /\ todo     = [p \in Procs |-> {}]
  /\ seen     = [p \in Procs |-> FALSE]
  /\ spc      = [p \in Procs |-> "idle"]
  /\ son      = [p \in Procs |-> NoTurn]
  /\ targets  = [p \in Procs |-> {}]
  /\ stops    = 0
  /\ closes   = 0

----------------------------------------------------------------------------
(***************************************************************************)
(* Shared vocabulary.                                                      *)
(***************************************************************************)

\* The gateway's code still runs: close() stops admission, not the promises.
Running(p) == up[p] \in {"up", "closing", "closed"}
Closing(p) == up[p] # "up"

\* The next turn to be created.
Fresh == {t \in Turns : /\ st[t] = "absent"
                        /\ \A u \in 1..(t - 1) : st[u] # "absent"}

At(p, l)   == Running(p) /\ pc[p] = l
Goto(p, l) == pc' = [pc EXCEPT ![p] = l]

\* enqueue(): no duplicates, and drain() is called at once; a drain that is
\* already running is left alone.
Queued(q, p, t) == cur[p] = t \/ \E i \in 1..Len(q) : q[i] = t
Enqueue(p, t) ==
  /\ queue' = [queue EXCEPT ![p] = IF Queued(@, p, t) THEN @ ELSE Append(@, t)]
  /\ wake'  = [wake EXCEPT ![p] = IF pc[p] = "idle" THEN "ready" ELSE @]

SetState(t, s) == st' = [st EXCEPT ![t] = s]

\* Where finish() leaves the chain when it returns, or throws l.  It is called
\* by process ("turn") or by the rescue; drain and submit discard what a rescue
\* throws, process does not ("paused").
Done(c)      == IF c = "turn" THEN "returned" ELSE "rescued"
Thrown(c, l) == IF c \in {"turn", "paused"} THEN l ELSE "rescued"

----------------------------------------------------------------------------
(***************************************************************************)
(* Life of a gateway.                                                      *)
(***************************************************************************)

\* The turns catchUp recovers, oldest first.
Recoverable == {t \in Turns : st[t] \in Active}
Orders(S) == {q \in [1..Cardinality(S) -> S] :
                 \A i, j \in DOMAIN q : i < j => q[i] < q[j]}

StartReplays(p) ==
  /\ up[p] = "off"
  /\ up' = [up EXCEPT ![p] = "up"]
  /\ st' = [t \in Turns |->
              IF st[t] = "delivery_started" THEN "completed" ELSE st[t]]
  /\ \E q \in Orders(Recoverable) : queue' = [queue EXCEPT ![p] = q]
  /\ UNCHANGED <<hold, host, retries, past, timers, wake, arriving, frame,
                 command, counts>>

\* A gateway starts and catches up: a reply that was being posted has an
\* unknown outcome and is never posted again, everything else is enqueued.
Start(p) ==
  LET crossed == {t \in Turns : st[t] = "delivery_started"}
  IN  /\ up[p] = "off"
      /\ Overlap \/ \A q \in Procs : up[q] \notin {"up", "closing"}
      /\ up'     = [up EXCEPT ![p] = "up"]
      /\ st'     = [t \in Turns |-> IF t \in crossed THEN "failed" ELSE st[t]]
      /\ unc'    = [t \in Turns |-> IF t \in crossed THEN "delivery" ELSE unc[t]]
      /\ fenced' = [t \in Turns |-> fenced[t] \/ t \in crossed]
      /\ \E q \in Orders(Recoverable \ crossed) :
           queue' = [queue EXCEPT ![p] = q]
      /\ UNCHANGED <<owner, lease, host, retries, past, timers, wake, arriving,
                     frame, command, counts>>

\* Everything in the memory of gateway p is lost.
Forget(p) ==
  /\ queue'    = [queue EXCEPT ![p] = <<>>]
  /\ timers'   = [timers EXCEPT ![p] = {}]
  /\ wake'     = [wake EXCEPT ![p] = "ready"]
  /\ arriving' = [arriving EXCEPT ![p] = {}]
  /\ pc'       = [pc EXCEPT ![p] = "idle"]
  /\ cur'      = [cur EXCEPT ![p] = NoTurn]
  /\ on'       = [on EXCEPT ![p] = NoTurn]
  /\ ctx'      = [ctx EXCEPT ![p] = "turn"]
  /\ blk'      = [blk EXCEPT ![p] = {}]
  /\ todo'     = [todo EXCEPT ![p] = {}]
  /\ seen'     = [seen EXCEPT ![p] = FALSE]
  /\ spc'      = [spc EXCEPT ![p] = "idle"]
  /\ son'      = [son EXCEPT ![p] = NoTurn]
  /\ targets'  = [targets EXCEPT ![p] = {}]

\* The process dies; its leases stay in the journal until they run out.
Crash(p) ==
  /\ Running(p)
  /\ up' = [up EXCEPT ![p] = "gone"]
  /\ Forget(p)
  /\ UNCHANGED <<store, host, retries, past, counts>>

\* freezeAdmission(): closing = true.
Close(p) ==
  /\ up[p] = "up"
  /\ closes < MaxCloses
  /\ closes' = closes + 1
  /\ up' = [up EXCEPT ![p] = "closing"]
  /\ UNCHANGED <<store, host, retries, past, sched, frame, command, stops>>

\* The end of close(): the leases are given up, but a call that is waiting for
\* the host or for Inkbox resumes later all the same.
Release(p) ==
  /\ up[p] = "closing"
  /\ up' = [up EXCEPT ![p] = "closed"]
  /\ ReleaseAll(p)
  /\ UNCHANGED <<st, unc, fenced, host, retries, past, sched, frame, command,
                 counts>>

\* process() renews the lease of its turn three times per lease.
Renewed(p, t) == Running(p) /\ cur[p] = t /\ pc[p] \in Processing
\* drain() works on a blocker under a lease that nothing renews.
Rescuing(p, t) == Running(p) /\ on[p] = t /\ ctx[p] = "drain"

LeaseExpires(t) ==
  /\ lease[t]
  /\ ~Renewed(owner[t], t)
  /\ Lapse \/ ~Rescuing(owner[t], t)
  /\ lease' = [lease EXCEPT ![t] = FALSE]
  /\ UNCHANGED <<st, unc, fenced, owner, rest, frame>>

\* The renewal interval fires when it has something to change.
Renew(p) ==
  /\ Renewed(p, cur[p])
  /\ ~(owner[cur[p]] = p /\ lease[cur[p]])
  /\ Claim(p, cur[p])
  /\ UNCHANGED <<st, unc, fenced, rest, frame>>

----------------------------------------------------------------------------
(***************************************************************************)
(* New turns.                                                              *)
(***************************************************************************)

\* A capture turn (runText) or, on a native channel, a message.
Arrive(p, t) ==
  /\ up[p] = "up"
  /\ t \in Fresh
  /\ Native \/ t \in Capture
  /\ SetState(t, "queued")
  /\ Enqueue(p, t)
  /\ UNCHANGED <<hold, host, retries, past, up, timers, arriving, frame,
                 command, counts>>

\* Work a new message of the person replaces: turns some gateway took up.
Replaced == {u \in Turns : u \notin Capture /\ owner[u] # NoProc
                                            /\ st[u] \in Interruptible}

\* A message on any other channel: the person's running and claimed turns are
\* interrupted in the journal, the message is saved, and the host is asked to
\* abort before the new turn is enqueued.
Message(p, t) ==
  /\ up[p] = "up"
  /\ t \in Fresh
  /\ ~Native /\ t \notin Capture
  /\ st' = [u \in Turns |-> IF u = t THEN "queued"
                            ELSE IF u \in Replaced THEN "interrupted" ELSE st[u]]
  /\ \/ /\ Replaced = {}
        /\ Enqueue(p, t)
        /\ UNCHANGED arriving
     \/ /\ Replaced # {}
        /\ arriving' = [arriving EXCEPT ![p] = @ \cup {t}]
        /\ UNCHANGED <<queue, wake>>
  /\ UNCHANGED <<hold, host, retries, past, up, timers, frame, command, counts>>

\* session.abort comes back, whatever it did: its errors are ignored.
MessageAborts(p, t) ==
  /\ Running(p)
  /\ t \in arriving[p]
  /\ host' \in {host, AbortEffect}
  /\ arriving' = [arriving EXCEPT ![p] = @ \ {t}]
  /\ Enqueue(p, t)
  /\ UNCHANGED <<store, retries, past, up, timers, frame, command, counts>>

----------------------------------------------------------------------------
(***************************************************************************)
(* drain(): one turn after the other, behind a gate.                       *)
(***************************************************************************)

\* A turn that may still be executing in the host session, unconfirmed.
Blocker(t) == ~fenced[t] /\ (st[t] = "paused" \/ unc[t] = "submission")

Blockers(t) == {b \in Turns \ {t} : Blocker(b)}

DrainNext(p) ==
  /\ At(p, "idle")
  /\ up[p] = "up"
  /\ wake[p] = "ready"
  /\ queue[p] # <<>>
  /\ LET t        == Head(queue[p])
         blockers == Blockers(t)
     IN  /\ queue' = [queue EXCEPT ![p] = Tail(@)]
         /\ \/ /\ st[t] \in Terminal
               /\ UNCHANGED frame
            \/ /\ st[t] \notin Terminal
               /\ blockers = {}
               /\ cur' = [cur EXCEPT ![p] = t]
               /\ Goto(p, "claim")
               /\ UNCHANGED <<on, ctx, blk, todo, seen>>
            \/ /\ st[t] \notin Terminal
               /\ blockers # {}
               /\ cur'  = [cur EXCEPT ![p] = t]
               /\ blk'  = [blk EXCEPT ![p] = blockers]
               /\ todo' = [todo EXCEPT ![p] = blockers]
               /\ Goto(p, "blockers")
               /\ UNCHANGED <<on, ctx, seen>>
  /\ UNCHANGED <<store, host, retries, past, up, timers, wake, arriving,
                 command, counts>>

\* rescueUnconfirmed(t) up to its first await, for caller c.  The turn the
\* caller captured decides where it goes after the claim: l.
BeginRescue(p, t, c, l) ==
  /\ on'   = [on EXCEPT ![p] = t]
  /\ ctx'  = [ctx EXCEPT ![p] = c]
  /\ seen' = [seen EXCEPT ![p] = FALSE]
  /\ \/ Claim(p, t) /\ Goto(p, l)
     \/ ~Claimable(p, t) /\ Goto(p, "rescued") /\ UNCHANGED <<owner, lease>>

\* The next blocker, in order: it was captured unfenced and unconfirmed.
RescueBlocker(p) ==
  /\ At(p, "blockers")
  /\ \E b \in todo[p] :
       /\ \A c \in todo[p] : b <= c
       /\ todo' = [todo EXCEPT ![p] = @ \ {b}]
       /\ BeginRescue(p, b, "drain", "messages")
  /\ UNCHANGED <<st, unc, fenced, rest, cur, blk>>

\* Every blocker captured is fenced by now.
GateOpenIfSettled(p) == \A b \in blk[p] : fenced[b] \/ st[b] \in Terminal
GateOpen(p) == \A b \in blk[p] : fenced[b]

\* All tried: if one is still not fenced the turn goes back to the head of the
\* queue for five seconds, otherwise it is processed.
PassGate(p) ==
  /\ At(p, "blockers")
  /\ todo[p] = {}
  /\ \/ /\ ~GateOpen(p)
        /\ queue' = [queue EXCEPT ![p] = <<cur[p]>> \o @]
        /\ wake'  = [wake EXCEPT ![p] = "timer"]
        /\ cur'   = [cur EXCEPT ![p] = NoTurn]
        /\ Goto(p, "idle")
     \/ /\ GateOpen(p)
        /\ Goto(p, "claim")
        /\ UNCHANGED <<queue, wake, cur>>
  /\ blk' = [blk EXCEPT ![p] = {}]
  /\ UNCHANGED <<store, host, retries, past, up, timers, arriving, on, ctx,
                 todo, seen, command, counts>>

\* setTimeout(() => drain(chatKey)).
WakeUp(p) ==
  /\ Running(p)
  /\ wake[p] = "timer"
  /\ wake' = [wake EXCEPT ![p] = "ready"]
  /\ UNCHANGED <<store, host, retries, past, up, queue, timers, arriving, frame,
                 command, counts>>

\* setTimeout(() => enqueue(current)) of a turn another gateway held; the call
\* that set the timer has long returned.
Reenqueue(p, t) ==
  /\ up[p] = "up"
  /\ t \in timers[p]
  /\ cur[p] # t
  /\ timers' = [timers EXCEPT ![p] = @ \ {t}]
  /\ Enqueue(p, t)
  /\ UNCHANGED <<store, host, retries, past, up, arriving, frame, command,
                 counts>>

----------------------------------------------------------------------------
(***************************************************************************)
(* process(id): claim, submit, completion.                                 *)
(***************************************************************************)

\* Where the claimed turn's captured state sends the chain.
Route(t) ==
  CASE st[t] \in Terminal          -> "returned"
    [] st[t] = "queued"            -> "prep"
    [] st[t] = "submitting"        -> "verify"
    [] st[t] = "submitted"         -> "poll"
    [] st[t] = "completed"         -> "saved"
    [] st[t] = "paused"            -> IF Blocker(t) THEN "stuck" ELSE "returned"
    [] st[t] = "delivery_started"  -> "ambiguous"

\* The timers once p is refused turn t.
NeverLookAgain(p, t) == timers[p]
LookAgain(p, t) ==
  IF st[t] \in Active /\ ~Closing(p) THEN timers[p] \cup {t} ELSE timers[p]

\* Claim the turn, or leave it to its owner and look again after the lease.
ProcessClaim(p) ==
  /\ At(p, "claim")
  /\ LET t == cur[p]
     IN  \/ /\ Claim(p, t)
            /\ Goto(p, Route(t))
            /\ UNCHANGED timers
         \/ /\ ~Claimable(p, t)
            /\ timers' = [timers EXCEPT ![p] = LookAgain(p, t)]
            /\ Goto(p, "returned")
            /\ UNCHANGED <<owner, lease>>
  /\ UNCHANGED <<st, unc, fenced, host, retries, past, up, queue, wake,
                 arriving, work, command, counts>>

\* Any read or authorization awaited here fails.
ReadFails(p) ==
  /\ \E l \in {"prep", "poll", "verify"} : At(p, l)
  /\ Goto(p, "threw")
  /\ UNCHANGED <<store, rest, work>>

\* submit(): session, prompt body and message id are ready.  The checkpoint
\* comes before the request: queued -> submitting, then promptAsync.
Checkpoint(p) ==
  /\ At(p, "prep")
  /\ LET t == cur[p]
     IN  \/ /\ Closing(p)
            /\ Goto(p, "threw")
            /\ UNCHANGED <<st, owner, lease, host, prompts>>
         \/ /\ ~Closing(p) /\ ~Claimable(p, t)
            /\ Goto(p, "lost")
            /\ UNCHANGED <<st, owner, lease, host, prompts>>
         \/ /\ ~Closing(p) /\ st[t] = "queued"
            /\ Claim(p, t)
            /\ SetState(t, "submitting")
            /\ Send(t)
            /\ prompts' = [prompts EXCEPT ![t] = @ + 1]
            /\ Goto(p, "prompt")
         \/ /\ ~Closing(p) /\ st[t] # "queued"
            /\ Claim(p, t)
            /\ Goto(p, IF st[t] = "interrupted" THEN "returned" ELSE "threw")
            /\ UNCHANGED <<st, host, prompts>>
  /\ UNCHANGED <<unc, fenced, retries, posts, up, sched, work, command, counts>>

ConfirmedAnyway(p, l) == SetState(cur[p], "submitted") /\ Goto(p, "poll")

\* The prompt is known to be accepted: submitting -> submitted, unless the turn
\* was interrupted (return it) or changed otherwise (l).
Confirmed(p, l) ==
  LET t == cur[p]
  IN  \/ /\ st[t] = "submitting"
         /\ SetState(t, "submitted")
         /\ Goto(p, "poll")
      \/ /\ st[t] # "submitting"
         /\ Goto(p, IF st[t] = "interrupted" THEN "returned" ELSE l)
         /\ UNCHANGED st

PromptAcknowledged(p) ==
  /\ At(p, "prompt")
  /\ Accepted(cur[p])
  /\ Confirmed(p, "recheck")
  /\ UNCHANGED <<hold, rest, work>>

\* promptAsync reports an error; the request may have been accepted, may be
\* lost, or may still be on its way.
PromptFails(p) ==
  /\ At(p, "prompt")
  /\ Goto(p, "recheck")
  /\ UNCHANGED <<store, rest, work>>

\* wasAccepted() finds the user message after all.
RecheckAccepted(p) ==
  /\ At(p, "recheck")
  /\ Accepted(cur[p])
  /\ Confirmed(p, "threw")
  /\ UNCHANGED <<hold, rest, work>>

\* wasAccepted() finds nothing or fails: the submission is uncertain, and the
\* turn as it now stands in the journal is rescued.
RecheckUncertain(p) ==
  /\ At(p, "recheck")
  /\ LET t      == cur[p]
         unsure == st[t] = "submitting"
     IN  /\ st'  = IF unsure THEN [st EXCEPT ![t] = "failed"] ELSE st
         /\ unc' = IF unsure THEN [unc EXCEPT ![t] = "submission"] ELSE unc
         /\ BeginRescue(p, t, "submit",
                        IF fenced[t] \/ unc'[t] = "delivery" THEN "rescued"
                        ELSE IF unc'[t] = "submission" THEN "messages" ELSE "abort")
  /\ UNCHANGED <<fenced, rest, cur, blk, todo>>

\* Where a recovered turn goes on when its confirmation found it changed.
Resume(t) == IF st[t] \in {"submitted", "completed", "delivery_started"}
             THEN Route(t) ELSE "returned"

VerifyResubmits(p) ==
  /\ At(p, "verify")
  /\ ~Accepted(cur[p])
  /\ SetState(cur[p], "queued")
  /\ Goto(p, "threw")
  /\ UNCHANGED <<hold, rest, work>>

\* A recovered turn stands at submitting: was its prompt accepted?
Verify(p) ==
  /\ At(p, "verify")
  /\ \/ /\ Closing(p)
        /\ Goto(p, "returned")
        /\ UNCHANGED st
     \/ /\ ~Closing(p) /\ Accepted(cur[p])
        /\ Confirmed(p, Resume(cur[p]))
     \/ /\ ~Closing(p) /\ ~Accepted(cur[p])
        /\ Goto(p, "threw")
        /\ UNCHANGED st
  /\ UNCHANGED <<hold, rest, work>>

\* finish(t) up to its first await, for caller c that captured the turn in
\* state captured while it stands at now.  A capture turn ends here; so does
\* one without any answer.
BeginFinish(p, t, c, captured, now) ==
  /\ on'  = [on EXCEPT ![p] = t]
  /\ ctx' = [ctx EXCEPT ![p] = c]
  /\ \/ /\ Closing(p)
        /\ SetState(t, now)
        /\ Goto(p, Done(c))
        /\ UNCHANGED <<owner, lease>>
     \/ /\ ~Closing(p) /\ ~Claimable(p, t)
        /\ SetState(t, now)
        /\ Goto(p, Thrown(c, "lost"))
        /\ UNCHANGED <<owner, lease>>
     \/ /\ ~Closing(p) /\ now = "interrupted"
        /\ Claim(p, t)
        /\ SetState(t, now)
        /\ Goto(p, Done(c))
     \/ /\ ~Closing(p) /\ captured = "submitted"
        /\ now \notin {"submitted", "interrupted"}
        /\ Claim(p, t)
        /\ SetState(t, now)
        /\ Goto(p, Thrown(c, "threw"))
     \/ /\ ~Closing(p) /\ now # "interrupted"
        /\ captured = "submitted" => now = "submitted"
        /\ Claim(p, t)
        /\ LET s == IF captured = "submitted" THEN "completed" ELSE now
           IN  \/ /\ t \in Capture
                  /\ SetState(t, s)
                  /\ Goto(p, Done(c))
               \/ /\ t \notin Capture
                  /\ \/ SetState(t, "delivered") /\ Goto(p, Done(c))
                     \/ SetState(t, s)           /\ Goto(p, "prepare")

FinishUnchanged == <<unc, fenced, rest, cur, blk, todo, seen>>

\* completion() sees the final answer and an idle session.
PollAnswered(p) ==
  /\ At(p, "poll")
  /\ host[cur[p]] = "answered" /\ Idle
  /\ BeginFinish(p, cur[p], "turn", "submitted", st[cur[p]])
  /\ UNCHANGED FinishUnchanged

\* completion() gives up: the answer is an error, the lease is gone, the turn
\* was interrupted, or the gateway closes.
PollEnds(p) ==
  /\ At(p, "poll")
  /\ \/ host[cur[p]] = "failed" /\ Idle     /\ Goto(p, "threw")
     \/ ~Claimable(p, cur[p])               /\ Goto(p, "lost")
     \/ st[cur[p]] = "interrupted"          /\ Goto(p, "returned")
     \/ Closing(p)                          /\ Goto(p, "returned")
  /\ UNCHANGED <<store, rest, work>>

\* A recovered turn whose answer was already saved.
Saved(p) ==
  /\ At(p, "saved")
  /\ BeginFinish(p, cur[p], "turn", "completed", st[cur[p]])
  /\ UNCHANGED FinishUnchanged

\* A recovered turn that waits for confirmation that its execution ended.
Stuck(p) ==
  /\ At(p, "stuck")
  /\ \/ /\ Closing(p)
        /\ Goto(p, "returned")
        /\ UNCHANGED <<owner, lease, on, ctx, seen>>
     \/ /\ ~Closing(p)
        /\ BeginRescue(p, cur[p], "paused", "messages")
  /\ UNCHANGED <<st, unc, fenced, rest, cur, blk, todo>>

\* The reply's outcome is unknown: never post again.
LosesReply(t) ==
  /\ SetState(t, "failed")
  /\ unc'    = [unc EXCEPT ![t] = "delivery"]
  /\ fenced' = [fenced EXCEPT ![t] = TRUE]

\* A recovered turn whose reply was being posted.
Ambiguous(p) ==
  /\ At(p, "ambiguous")
  /\ \/ Closing(p)  /\ UNCHANGED <<st, unc, fenced>>
     \/ ~Closing(p) /\ LosesReply(cur[p])
  /\ Goto(p, "returned")
  /\ UNCHANGED <<owner, lease, rest, work>>

\* retryCount; what is transient is retried without a limit, so it is capped.
UncappedRetry(t) == retries[t] + 1
NextRetry(t) == IF retries[t] < MaxRetry THEN retries[t] + 1 ELSE retries[t]

\* process() caught an error ("threw"), or a lost lease ("lost").
Catch(p) ==
  /\ At(p, "threw") \/ At(p, "lost")
  /\ LET t      == cur[p]
         ours   == pc[p] = "threw" /\ ~Closing(p)
         again  == ours /\ st[t] \in {"queued", "submitted", "completed"}
     IN  \/ /\ ~ours \/ st[t] \in Terminal
            /\ Goto(p, "returned")
            /\ UNCHANGED <<st, fenced, retries, queue, wake, cur, on, ctx>>
         \/ \* Try again later, for ever when the error is transient.
            /\ again
            /\ retries' = [retries EXCEPT ![t] = NextRetry(t)]
            /\ queue'   = [queue EXCEPT ![p] = <<t>> \o @]
            /\ wake'    = [wake EXCEPT ![p] = "timer"]
            /\ cur'     = [cur EXCEPT ![p] = NoTurn]
            /\ on'      = [on EXCEPT ![p] = NoTurn]
            /\ ctx'     = [ctx EXCEPT ![p] = "turn"]
            /\ Goto(p, "idle")
            /\ UNCHANGED <<st, fenced>>
         \/ /\ again
            /\ retries[t] = MaxRetry
            /\ SetState(t, "failed")
            /\ fenced' =
                 [fenced EXCEPT ![t] = @ \/ (st[t] = "queued" /\ unc[t] = "none")]
            /\ Goto(p, "returned")
            /\ UNCHANGED <<retries, queue, wake, cur, on, ctx>>
         \/ /\ ours /\ ~again /\ st[t] \notin Terminal
            /\ SetState(t, "failed")
            /\ Goto(p, "returned")
            /\ UNCHANGED <<fenced, retries, queue, wake, cur, on, ctx>>
  /\ UNCHANGED <<unc, owner, lease, host, past, up, timers, arriving, blk, todo,
                 seen, command, counts>>

\* Back in drain(): it goes on with the queue, except behind a turn that is
\* paused and not fenced.
Returned(p) ==
  /\ At(p, "returned")
  /\ wake' = [wake EXCEPT ![p] =
                IF st[cur[p]] = "paused" /\ ~fenced[cur[p]] THEN "parked" ELSE @]
  /\ cur'  = [cur EXCEPT ![p] = NoTurn]
  /\ on'   = [on EXCEPT ![p] = NoTurn]
  /\ ctx'  = [ctx EXCEPT ![p] = "turn"]
  /\ seen' = [seen EXCEPT ![p] = FALSE]
  /\ Goto(p, "idle")
  /\ UNCHANGED <<store, host, retries, past, up, queue, timers, arriving, blk,
                 todo, command, counts>>

----------------------------------------------------------------------------
(***************************************************************************)
(* finish(): prepare, checkpoint, post.                                    *)
(***************************************************************************)

\* The reply failed for good; on a channel without native replies a new turn
\* may tell the agent so (recoverReply, until the delivery policy gives up).
ReplyFails(p, t) ==
  \/ SetState(t, "failed") /\ UNCHANGED queue
  \/ /\ ~Native
     /\ \E f \in Fresh \ Capture :
          /\ st'    = [st EXCEPT ![t] = "failed", ![f] = "queued"]
          /\ queue' = [queue EXCEPT ![p] = Append(@, f)]

\* prepareReply() refuses the answer.
PrepareRefuses(p) ==
  /\ At(p, "prepare")
  /\ ReplyFails(p, on[p])
  /\ Goto(p, Done(ctx[p]))
  /\ UNCHANGED <<hold, host, retries, past, up, timers, wake, arriving, work,
                 command, counts>>

\* prepareReply() or an authorization fails: the saved answer stays.
PrepareFails(p) ==
  /\ At(p, "prepare")
  /\ Goto(p, Thrown(ctx[p], "threw"))
  /\ UNCHANGED <<store, rest, work>>

\* The reply is ready.  After a last look at closing and at the turn, the
\* checkpoint completed -> delivery_started is taken by the lease's owner
\* only, and send() is called.
Post(p) ==
  /\ At(p, "prepare")
  /\ LET t == on[p]
     IN  \/ /\ Closing(p) \/ st[t] = "interrupted"
            /\ Goto(p, Done(ctx[p]))
            /\ UNCHANGED <<st, posts>>
         \/ /\ ~Closing(p) /\ OwnedIn(p, t, {"completed"})
            /\ SetState(t, "delivery_started")
            /\ posts' = [posts EXCEPT ![t] = @ + 1]
            /\ Goto(p, "send")
         \/ /\ ~Closing(p) /\ st[t] # "interrupted"
            /\ ~OwnedIn(p, t, {"completed"})
            /\ Goto(p, Thrown(ctx[p], "lost"))
            /\ UNCHANGED <<st, posts>>
  /\ UNCHANGED <<hold, host, retries, prompts, up, sched, work, command,
                 counts>>

PostSucceeds(p) ==
  /\ At(p, "send")
  /\ SetState(on[p], "delivered")
  /\ Goto(p, Done(ctx[p]))
  /\ UNCHANGED <<hold, rest, work>>

PostFailsRetries(p) ==
  /\ At(p, "send")
  /\ SetState(on[p], "completed")
  /\ Goto(p, Done(ctx[p]))
  /\ UNCHANGED <<hold, rest, work>>

\* The POST reports an error: it may have been delivered all the same.
PostFails(p) ==
  /\ At(p, "send")
  /\ ReplyFails(p, on[p])
  /\ unc'    = [unc EXCEPT ![on[p]] = "delivery"]
  /\ fenced' = [fenced EXCEPT ![on[p]] = TRUE]
  /\ Goto(p, Done(ctx[p]))
  /\ UNCHANGED <<owner, lease, host, retries, past, up, timers, wake, arriving,
                 work, command, counts>>

----------------------------------------------------------------------------
(***************************************************************************)
(* rescueUnconfirmed() and fenceUnconfirmed(), one await at a time.        *)
(***************************************************************************)

MessagesUnread(p) ==
  /\ At(p, "messages")
  /\ seen' = [seen EXCEPT ![p] = Accepted(on[p])]
  /\ Goto(p, "status")
  /\ UNCHANGED <<store, rest, cur, on, ctx, blk, todo>>

\* session.messages: is there a final answer to this turn's prompt?
Messages(p) ==
  /\ At(p, "messages")
  /\ seen' = [seen EXCEPT ![p] = host[on[p]] = "answered"]
  /\ Goto(p, "status")
  /\ UNCHANGED <<store, rest, cur, on, ctx, blk, todo>>

\* An answer and an idle session: the turn is completed and fenced, whatever
\* its state is by now, and finished.  Otherwise the host is asked to abort.
Status(p) ==
  /\ At(p, "status")
  /\ \/ /\ seen[p] /\ Idle
        /\ fenced' = [fenced EXCEPT ![on[p]] = TRUE]
        /\ BeginFinish(p, on[p], ctx[p], "completed", "completed")
     \/ /\ ~(seen[p] /\ Idle)
        /\ Goto(p, "abort")
        /\ UNCHANGED <<st, fenced, owner, lease, on, ctx>>
  /\ seen' = [seen EXCEPT ![p] = FALSE]
  /\ UNCHANGED <<unc, rest, cur, blk, todo>>

\* session.abort is acknowledged.
AbortAcknowledged(p) ==
  /\ At(p, "abort")
  /\ host' = AbortEffect
  /\ Goto(p, "confirm")
  /\ UNCHANGED <<store, retries, past, up, sched, work, command, counts>>

\* session.status confirms that nothing runs any more.
ConfirmIdle(p) ==
  /\ At(p, "confirm")
  /\ fenced' = [fenced EXCEPT ![on[p]] = @ \/ Idle]
  /\ Goto(p, "rescued")
  /\ UNCHANGED <<st, unc, owner, lease, rest, work>>

\* A read fails, or the abort is not acknowledged (it may work all the same).
RescueFails(p) ==
  /\ \E l \in {"messages", "status", "abort", "confirm"} : At(p, l)
  /\ host' \in IF pc[p] = "abort" THEN {host, AbortEffect} ELSE {host}
  /\ \/ Goto(p, Thrown(ctx[p], "threw"))
     \/ pc[p] = "abort" /\ Goto(p, "rescued")
  /\ seen' = [seen EXCEPT ![p] = FALSE]
  /\ UNCHANGED <<store, retries, past, up, sched, cur, on, ctx, blk, todo,
                 command, counts>>

\* The rescue is over: drain tries the next blocker, process returns, and
\* submit either carries on with the rescued answer or rethrows its error.
Rescued(p) ==
  /\ At(p, "rescued")
  /\ \/ /\ ctx[p] \in {"drain", "paused"}
        /\ Goto(p, IF ctx[p] = "drain" THEN "blockers" ELSE "returned")
        /\ on'  = [on EXCEPT ![p] = NoTurn]
        /\ ctx' = [ctx EXCEPT ![p] = "turn"]
        /\ UNCHANGED <<st, owner, lease>>
     \/ /\ ctx[p] = "submit"
        /\ st[cur[p]] = "completed"
        /\ BeginFinish(p, cur[p], "turn", "completed", st[cur[p]])
     \/ /\ ctx[p] = "submit"
        /\ st[cur[p]] # "completed"
        /\ Goto(p, IF st[cur[p]] = "delivered" THEN "returned" ELSE "threw")
        /\ UNCHANGED <<st, owner, lease, on, ctx>>
  /\ UNCHANGED FinishUnchanged

----------------------------------------------------------------------------
(***************************************************************************)
(* /stop (abortTurn): every active turn of the person, one after another.  *)
(***************************************************************************)

StopBegins(p) ==
  /\ up[p] = "up" /\ spc[p] = "idle"
  /\ stops < MaxStops
  /\ stops'   = stops + 1
  /\ targets' =
       [targets EXCEPT ![p] = {t \in Turns \ Capture : st[t] \in Active}]
  /\ spc'     = [spc EXCEPT ![p] = "next"]
  /\ UNCHANGED <<store, host, retries, past, up, sched, frame, son, closes>>

\* Work that may be running in the host.
Executing(t) == \/ st[t] \in {"submitting", "submitted"}
                \/ unc[t] = "submission" /\ ~fenced[t]
\* A reply that crossed its checkpoint cannot be retracted.
Crossed(t)   == st[t] = "delivery_started" \/ unc[t] = "delivery"
Stoppable(t) == st[t] \in Active /\ ~Crossed(t)

\* Not executing: stopped at once.  Executing: paused until the host confirms.
StopNext(p) ==
  /\ Running(p) /\ spc[p] = "next"
  /\ \/ /\ targets[p] = {}
        /\ spc' = [spc EXCEPT ![p] = "idle"]
        /\ UNCHANGED <<st, unc, fenced, son, targets>>
     \/ \E t \in targets[p] :
          /\ \A u \in targets[p] : t <= u
          /\ targets' = [targets EXCEPT ![p] = @ \ {t}]
          /\ \/ /\ ~Stoppable(t)
                /\ UNCHANGED <<st, unc, fenced, spc, son>>
             \/ /\ Stoppable(t) /\ ~Executing(t)
                /\ SetState(t, "interrupted")
                /\ fenced' = [fenced EXCEPT ![t] = TRUE]
                /\ UNCHANGED <<unc, spc, son>>
             \/ /\ Stoppable(t) /\ Executing(t)
                /\ SetState(t, "paused")
                /\ unc' = [unc EXCEPT ![t] = "submission"]
                /\ spc' = [spc EXCEPT ![p] = "abort"]
                /\ son' = [son EXCEPT ![p] = t]
                /\ UNCHANGED fenced
  /\ UNCHANGED <<owner, lease, host, retries, past, up, sched, frame, counts>>

StopAborts(p) ==
  /\ Running(p) /\ spc[p] = "abort"
  /\ host' = AbortEffect
  /\ spc'  = [spc EXCEPT ![p] = "confirm"]
  /\ UNCHANGED <<store, retries, past, up, sched, frame, son, targets, counts>>

\* The host is idle: the turn is fenced, and interrupted unless it moved on.
StopConfirms(p) ==
  /\ Running(p) /\ spc[p] = "confirm"
  /\ Idle
  /\ LET t == son[p]
     IN  /\ fenced' = [fenced EXCEPT ![t] = TRUE]
         /\ st' = IF Stoppable(t) THEN [st EXCEPT ![t] = "interrupted"] ELSE st
  /\ spc' = [spc EXCEPT ![p] = "next"]
  /\ son' = [son EXCEPT ![p] = NoTurn]
  /\ UNCHANGED <<unc, owner, lease, host, retries, past, up, sched, frame,
                 targets, counts>>

\* Not confirmed: the turn stays paused, and the person is told so.
StopUnconfirmed(p) ==
  /\ Running(p) /\ spc[p] \in {"abort", "confirm"}
  /\ host' \in IF spc[p] = "abort" THEN {host, AbortEffect} ELSE {host}
  /\ spc' = [spc EXCEPT ![p] = "next"]
  /\ son' = [son EXCEPT ![p] = NoTurn]
  /\ UNCHANGED <<store, retries, past, up, sched, frame, targets, counts>>

----------------------------------------------------------------------------
\* What the host does with the prompts it was sent.
HostStep(t) ==
  /\ HostAccepts(t) \/ HostMisses(t) \/ HostFinishes(t)
  /\ UNCHANGED <<retries, past, up, sched, frame, command, counts>>

DrainStepOf(p) ==
  \/ DrainNext(p) \/ RescueBlocker(p) \/ PassGate(p)
  \/ ProcessClaim(p) \/ ReadFails(p) \/ Checkpoint(p)
  \/ PromptAcknowledged(p) \/ PromptFails(p)
  \/ RecheckAccepted(p) \/ RecheckUncertain(p) \/ Verify(p)
  \/ PollAnswered(p) \/ PollEnds(p)
  \/ Saved(p) \/ Stuck(p) \/ Ambiguous(p) \/ Catch(p) \/ Returned(p)
  \/ PrepareRefuses(p) \/ PrepareFails(p) \/ Post(p)
  \/ PostSucceeds(p) \/ PostFails(p)
  \/ Messages(p) \/ Status(p)
  \/ AbortAcknowledged(p) \/ ConfirmIdle(p) \/ RescueFails(p) \/ Rescued(p)

CommandStepOf(p) ==
  \/ StopBegins(p) \/ StopNext(p) \/ StopAborts(p) \/ StopConfirms(p)
  \/ StopUnconfirmed(p)

Next ==
  \/ \E p \in Procs :
       \/ Start(p) \/ Crash(p) \/ Close(p) \/ Release(p)
       \/ Renew(p) \/ WakeUp(p)
       \/ \E t \in Turns : \/ Arrive(p, t) \/ Message(p, t)
                           \/ MessageAborts(p, t) \/ Reenqueue(p, t)
       \/ DrainStepOf(p)
       \/ CommandStepOf(p)
  \/ \E t \in Turns : LeaseExpires(t) \/ HostStep(t)

Spec == Init /\ [][Next]_vars

----------------------------------------------------------------------------
(***************************************************************************)
(* Fairness.  Promises settle and timers fire, leases that nobody renews   *)
(* run out, the host works on what it was sent; and the reads and aborts   *)
(* that the code makes again and again do not fail for ever.  Nothing is   *)
(* assumed of messages, of crashes or of /stop.                            *)
(***************************************************************************)
Progress(p) ==
  /\ WF_vars(DrainStepOf(p))
  /\ WF_vars(WakeUp(p))
  /\ WF_vars(\E t \in Turns : Reenqueue(p, t))
  /\ WF_vars(\E t \in Turns : MessageAborts(p, t))
  /\ WF_vars(\/ StopNext(p) \/ StopAborts(p)
             \/ StopConfirms(p) \/ StopUnconfirmed(p))

CallFails == \E p \in Procs : ReadFails(p) \/ PrepareFails(p) \/ RescueFails(p)

FairSpec ==
  /\ Spec
  /\ \A p \in Procs : Progress(p)
  /\ \A t \in Turns : WF_vars(LeaseExpires(t)) /\ WF_vars(HostStep(t))
  /\ <>[][~CallFails]_vars

----------------------------------------------------------------------------
(***************************************************************************)
(* What the lifecycle promises.                                            *)
(***************************************************************************)

\* The outside world sees one reply per turn: see ReplyContract.
Reply == [t \in Turns |->
            IF posts[t] = 0 THEN "none"
            ELSE CASE st[t] = "delivery_started" -> "posting"
                   [] st[t] = "delivered"        -> "delivered"
                   [] OTHER -> IF unc[t] = "delivery" /\ fenced[t] THEN "unknown"
                                                                   ELSE "forgotten"]

Contract == INSTANCE ReplyContract WITH reply <- Reply

\* However gateways crash, restart and retry, every turn is submitted and
\* posted at most once, a reply follows its prompt, and a reply whose outcome
\* is unknown is remembered as such (submit, finish, catchUp).
ImplementsContract == Contract!Spec

\* A turn is submitted to the host at most once, whatever goes wrong with the
\* request, the gateway or the lease.
PromptedOnce == \A t \in Turns : prompts[t] <= 1

\* A reply is posted at most once.
PostedOnce == \A t \in Turns : posts[t] <= 1

\* What is saved as a turn's answer, and what was ever posted for it, is a
\* final answer of the host to that turn's own prompt.
AnswerBacksReply ==
  \A t \in Turns :
    st[t] \in {"completed", "delivery_started"} \/ posts[t] > 0
      => host[t] = "answered"

\* drain() lets nothing through while another turn may still be executing in
\* the host session without confirmation.
GateHolds ==
  [][\A t \in Turns : prompts'[t] # prompts[t] =>
        \A b \in Turns \ {t} : ~Blocker(b)]_vars

\* No two gateways hold live leases on turns that occupy the conversation.
SoleOwner ==
  \A t, u \in {v \in Turns : Occupies(v) /\ lease[v]} : owner[t] = owner[u]

\* A turn that a newer message interrupted stays interrupted, as long as nobody sends /stop:
\* a turn that /stop interrupted may yet be completed by a rescue that had read its answer
\* (NoRevival, which turns_revive refutes).
InterruptedIsFinal ==
  [][\A t \in Turns : st[t] = "interrupted" => st'[t] = "interrupted"]_vars

\* A turn that was stopped never comes back to life: it may still be recorded
\* as failed, but nothing is saved or posted as its answer.
NoRevival ==
  [][\A t \in Turns : st[t] = "interrupted" => st'[t] \in Terminal]_vars

\* Follow-ups queue: a turn is submitted only when no other turn of the
\* conversation is submitted or being submitted.
FollowUpsQueue ==
  [][\A t \in Turns : prompts'[t] # prompts[t] =>
        \A u \in Turns \ {t} : st[u] \notin {"submitting", "submitted"}]_vars

\* Every turn ends, or its answer is saved, if its gateway lives on: the queue
\* never stalls behind leases, retries, blockers or timers (process, drain).
Alive == \E p \in Procs : up[p] = "up"

EveryTurnEnds ==
  \A t \in Turns : st[t] # "absent" /\ Alive ~>
                     st[t] \in Terminal \cup {"completed"} \/ ~Alive

\* A saved answer is posted or given up in the end, if its gateway lives on: a
\* failed preparation is tried again (finish, rescueUnconfirmed).
SavedAnswerIsPosted ==
  \A t \in Turns : st[t] = "completed" /\ Alive ~> st[t] # "completed" \/ ~Alive

\* A queued turn leaves the queue, unless an unconfirmed execution stands in
\* the way: a stop that is verified in the end releases it (abortTurn, drain).
StopReleasesQueue ==
  \A t \in Turns : st[t] = "queued" /\ Alive ~>
                     st[t] # "queued" \/ ~Alive \/ \E b \in Turns : Blocker(b)
=============================================================================
