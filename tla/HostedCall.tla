----------------------------- MODULE HostedCall -----------------------------
(***************************************************************************)
(* Reconciliation of one hosted call: gateway/hosted-call-completion.ts,   *)
(* the journal of gateway/hosted-call-registry.ts, the hosted captures of  *)
(* gateway/sessions.ts and the guarded tool of tools/send-sms.ts.  After   *)
(* the call a gateway submits an initial capture turn, in which the model  *)
(* keeps what the caller was promised; if a promised SMS was not attempted *)
(* or was rejected before it left, one correction turn follows.  The model *)
(* may send one SMS per phase, journalled before the request.              *)
(*                                                                         *)
(* A step is the code between two awaits, split where a crash between two  *)
(* writes of different files matters.  Leases, which only delay a turn     *)
(* while one gateway admits work, and the other turns of the chat, behind  *)
(* which a capture may wait, are left out; whether an SMS was promised is  *)
(* read once, where the code reads it again on every run.                  *)
(***************************************************************************)
EXTENDS Naturals, FiniteSets

CONSTANTS
  Procs,      \* gateway incarnations, numbered in the order they start
  Promised,   \* an open action or the transcript commits to an SMS
  MaxTries,   \* retries of a failed preparation (two in the code)
  MaxCloses,  \* how many gateways close gracefully (bounds the model)
  MaxLoose    \* turns that send an SMS outside the journal (bounds the model)

ASSUME ProcAssumption  == Procs \subseteq Nat \ {0}
ASSUME PromisedAssumption == Promised \in BOOLEAN
ASSUME BoundAssumption ==
  MaxTries \in Nat /\ MaxCloses \in Nat /\ MaxLoose \in Nat

Phase  == {"initial", "correction"}
NoProc == 0
NoPhase == "none"

VARIABLES
  entry,    \* the journal's entry: state, and outcome as what of which phase
  att,      \* its smsAttempts, one per phase
  cap,      \* its active capture: phase and owner
  turn,     \* the latest capture turn of each phase in the turn journal
  host,     \* its prompt in the host
  sending,  \* phases whose journalled attempt is being sent
  aside,    \* phases whose turn is sending an SMS outside the journal
  up,       \* life of each gateway
  caught,   \* gateways that have caught up
  run,      \* where the reconciliation of the call stands, per gateway
  phase,    \* the phase it is in
  tries,    \* its failed preparations
  work,     \* where the session manager stands with the capture it awaits
  prompts,  \* history: submissions of each phase
  sms,      \* history: SMS accepted by the provider, per phase
  loose,    \* history: phases whose turn had such an SMS accepted
  closes    \* how many graceful closes so far

journal == <<entry, att, cap>>
model   == <<turn, host, sending, aside, prompts, sms, loose>>
chain   == <<run, phase, tries>>
life    == <<up, caught, closes>>
vars    == <<entry, att, cap, turn, host, sending, aside, up, caught, run, phase,
             tries, work, prompts, sms, loose, closes>>

NoCap == [phase |-> NoPhase, owner |-> NoProc]

TypeOK ==
  /\ entry \in [state : {"none", "queued", "running", "completed", "failed"},
                what  : {"none", "started", "deferred", "exhausted", "final"},
                phase : Phase \cup {NoPhase}]
  /\ att   \in [Phase -> {"none", "pending", "success", "rejected", "failed"}]
  /\ cap   \in [phase : Phase \cup {NoPhase}, owner : Procs \cup {NoProc}]
  /\ turn  \in [Phase -> {"none", "queued", "submitting", "submitted",
                          "completed", "failed"}]
  /\ host  \in [Phase -> {"none", "coming", "running", "answered", "failed"}]
  /\ sending \subseteq Phase
  /\ aside   \subseteq Phase
  /\ up    \in [Procs -> {"off", "up", "closed", "gone"}]
  /\ caught \subseteq Procs
  /\ run   \in [Procs -> {"idle", "start", "prep", "dispatch", "wait",
                          "answer", "deferred", "error"}]
  /\ phase \in [Procs -> Phase]
  /\ tries \in [Procs -> 0..MaxTries]
  /\ work  \in [Procs -> {"idle", "queue", "prep", "prompt", "verify", "poll",
                          "retry"}]
  /\ prompts \in [Phase -> Nat]
  /\ sms     \in [Phase -> Nat]
  /\ loose   \subseteq Phase
  /\ closes  \in 0..MaxCloses

Init ==
  /\ entry   = [state |-> "none", what |-> "none", phase |-> NoPhase]
  /\ att     = [f \in Phase |-> "none"]
  /\ cap     = NoCap
  /\ turn    = [f \in Phase |-> "none"]
  /\ host    = [f \in Phase |-> "none"]
  /\ sending = {}
  /\ aside   = {}
  /\ up      = [p \in Procs |-> "off"]
  /\ caught  = {}
  /\ run     = [p \in Procs |-> "idle"]
  /\ phase   = [p \in Procs |-> "initial"]
  /\ tries   = [p \in Procs |-> 0]
  /\ work    = [p \in Procs |-> "idle"]
  /\ prompts = [f \in Phase |-> 0]
  /\ sms     = [f \in Phase |-> 0]
  /\ loose   = {}
  /\ closes  = 0

Running(p) == up[p] \in {"up", "closed"}
Closing(p) == up[p] # "up"

RunsAt(p, l) == Running(p) /\ run[p] = l
Goto(p, l)   == run' = [run EXCEPT ![p] = l]
Over(p)      == /\ run'   = [run EXCEPT ![p] = "idle"]
                /\ phase' = [phase EXCEPT ![p] = "initial"]
                /\ tries' = [tries EXCEPT ![p] = 0]

----------------------------------------------------------------------------
(***************************************************************************)
(* Life of a gateway.  A closed one no longer admits work, but its         *)
(* outstanding calls return until its process ends; the next gateway is    *)
(* taken to start after that, so nobody else moves a turn that it awaits.  *)
(***************************************************************************)
Start(p) ==
  /\ up[p] = "off"
  /\ \A o \in Procs : ~Running(o) /\ (o < p => up[o] # "off")
  /\ up' = [up EXCEPT ![p] = "up"]
  /\ UNCHANGED <<journal, model, chain, work, caught, closes>>

Crash(p) ==
  /\ Running(p)
  /\ up'    = [up EXCEPT ![p] = "gone"]
  /\ Over(p)
  /\ work'  = [work EXCEPT ![p] = "idle"]
  /\ UNCHANGED <<journal, model, caught, closes>>

Close(p) ==
  /\ up[p] = "up"
  /\ closes < MaxCloses
  /\ closes' = closes + 1
  /\ up' = [up EXCEPT ![p] = "closed"]
  /\ UNCHANGED <<journal, model, chain, work, caught>>

----------------------------------------------------------------------------
(***************************************************************************)
(* Admission: the call.ended webhook, its redeliveries, and catchUp.       *)
(***************************************************************************)

\* saveHostedCall replaces the entry but keeps its attempts and its capture.
Save(s, w, f) == entry' = [state |-> s, what |-> w, phase |-> f]

Retryable   == entry.what \in {"deferred", "exhausted"}
Recoverable == \/ entry.state \in {"queued", "running"}
               \/ entry.state = "failed" /\ Retryable

\* A capture turn of the phase is still pending or completed.
Durable(f) == turn[f] \notin {"none", "failed"}

Attempted == {f \in Phase : att[f] # "none"}

\* Variant: a dispatch is taken up whether or not its turn is known.
RecoveryReplays ==
  CASE \E f \in Phase : att[f] = "success" -> "complete"
    [] OTHER -> IF entry.what # "none" THEN entry.phase ELSE "initial"

\* Where a run takes up what the journal says.
Recovery ==
  IF \E f \in Phase : att[f] = "success" THEN "complete"
  ELSE IF Retryable THEN entry.phase
  ELSE IF entry.what = "started" THEN IF Durable(entry.phase) THEN entry.phase
                                                              ELSE "terminal"
  ELSE IF Attempted = {} THEN "initial"
  ELSE IF Attempted = {"initial"} /\ att["initial"] = "rejected" THEN "correction"
  ELSE "terminal"

Schedule(p, f) ==
  /\ run' = [run EXCEPT ![p] = IF @ = "idle" THEN "start" ELSE @]
  /\ phase' = [phase EXCEPT ![p] = IF run[p] = "idle" THEN f ELSE @]

Recover(p) ==
  \/ /\ Recovery = "complete"
     /\ Save("completed", "final", NoPhase)
     /\ UNCHANGED chain
  \/ /\ Recovery = "terminal"
     /\ Save("failed", "final", NoPhase)
     /\ UNCHANGED chain
  \/ /\ Recovery \in Phase
     /\ Schedule(p, Recovery)
     /\ UNCHANGED <<entry, tries>>

\* ingest(): nothing happens while a run is under way or when it is over.
Ingest(p) ==
  /\ Running(p) /\ run[p] = "idle"
  /\ \/ /\ entry.state = "none"
        /\ Save("queued", "none", NoPhase)
        /\ Schedule(p, "initial")
        /\ UNCHANGED tries
     \/ Recoverable /\ Recover(p)
  /\ UNCHANGED <<att, cap, model, work, life>>

CatchUp(p) ==
  /\ Running(p) /\ p \notin caught
  /\ caught' = caught \cup {p}
  /\ \/ Recoverable /\ Recover(p)
     \/ ~Recoverable /\ UNCHANGED <<entry, chain>>
  /\ UNCHANGED <<att, cap, model, work, up, closes>>

----------------------------------------------------------------------------
(***************************************************************************)
(* run(): prepare, checkpoint, dispatch, decide.                           *)
(***************************************************************************)
\* A save that finds the journal locked throws.
Begin(p) ==
  /\ RunsAt(p, "start")
  /\ Save("running", "none", NoPhase)
  /\ Goto(p, "prep")
  /\ UNCHANGED <<att, cap, model, phase, tries, work, life>>

\* Variant: one retry too many.
TriesAlways(p) == tries[p] <= MaxTries

\* PRE_DISPATCH_RETRY_DELAYS_MS.
TriesLeft(p) == tries[p] < MaxTries

\* A read or the first save fails: start over, or leave it to a later event.
PrepFails(p) ==
  /\ RunsAt(p, "start") \/ RunsAt(p, "prep")
  /\ \/ /\ TriesLeft(p)
        /\ tries' = [tries EXCEPT ![p] = @ + 1]
        /\ Goto(p, "start")
        /\ UNCHANGED <<entry, phase>>
     \/ /\ ~TriesLeft(p)
        /\ Over(p)
        /\ Save("failed", "exhausted", phase[p]) \/ UNCHANGED entry
  /\ UNCHANGED <<att, cap, model, work, life>>

\* The call turns out not to be a hosted one.
NotHosted(p) ==
  /\ RunsAt(p, "prep")
  /\ Save("failed", "final", NoPhase)
  /\ Over(p)
  /\ UNCHANGED <<att, cap, model, work, life>>

\* The journal says "started" before the model may use a tool.
Checkpoint(p) ==
  /\ RunsAt(p, "prep")
  /\ Save("running", "started", phase[p])
  /\ Goto(p, "dispatch")
  /\ tries' = [tries EXCEPT ![p] = 0]
  /\ UNCHANGED <<att, cap, model, phase, work, life>>

CheckpointFails(p) ==
  /\ RunsAt(p, "prep")
  /\ \/ phase[p] = "initial" /\ Save("failed", "final", NoPhase)
     \/ UNCHANGED entry
  /\ Over(p)
  /\ UNCHANGED <<att, cap, model, work, life>>

\* runHostedCapture: the phase's turn, if it is durable, or a new one.
Dispatch(p) ==
  LET f == phase[p]
  IN  /\ RunsAt(p, "dispatch")
      /\ \/ /\ Closing(p)
            /\ Goto(p, "deferred")
            /\ UNCHANGED <<turn, work>>
         \/ /\ ~Closing(p) /\ turn[f] = "completed"
            /\ Goto(p, "answer")
            /\ UNCHANGED <<turn, work>>
         \/ /\ ~Closing(p) /\ turn[f] # "completed"
            /\ turn' = IF Durable(f) THEN turn ELSE [turn EXCEPT ![f] = "queued"]
            /\ work' = [work EXCEPT ![p] = "queue"]
            /\ Goto(p, "wait")
      /\ UNCHANGED <<journal, host, sending, aside, prompts, sms, loose, phase,
                     tries, life>>

\* Variant: an attempt whose outcome is not known will do.
SucceededMaybe(f) == att[f] \in {"success", "pending"}
Succeeded(f) == att[f] = "success"

\* Variant: any failure is corrected.
CorrectableFailed(f) == f = "initial" /\ att[f] \in {"none", "rejected", "failed"}
Correctable(f) == f = "initial" /\ att[f] \in {"none", "rejected"}

\* The turn was answered: what does the attempt of its phase say?
Decide(p) ==
  LET f == phase[p]
  IN  /\ RunsAt(p, "answer")
      /\ \/ /\ ~Promised \/ Succeeded(f)
            /\ Save("completed", "final", NoPhase)
            /\ Over(p)
         \/ /\ Promised /\ ~Succeeded(f) /\ Correctable(f)
            /\ Save("running", "started", "correction")
            /\ Goto(p, "dispatch")
            /\ phase' = [phase EXCEPT ![p] = "correction"]
            /\ UNCHANGED tries
         \/ /\ Promised /\ ~Succeeded(f) /\ ~Correctable(f)
            /\ Save("failed", "final", NoPhase)
            /\ Over(p)
      /\ UNCHANGED <<att, cap, model, work, life>>

\* A capture that was deferred for a shutdown is taken up later; any other
\* error is ambiguous and final.
Conclude(p) ==
  /\ \/ RunsAt(p, "deferred") /\ Save("failed", "deferred", phase[p])
     \/ RunsAt(p, "error") /\ Save("failed", "final", NoPhase)
  /\ Over(p)
  /\ UNCHANGED <<att, cap, model, work, life>>

SaveFails(p) ==
  /\ \E l \in {"answer", "deferred", "error"} : RunsAt(p, l)
  /\ Over(p)
  /\ UNCHANGED <<journal, model, work, life>>

----------------------------------------------------------------------------
(***************************************************************************)
(* The session manager's side of the capture: drain, process, submit,      *)
(* completion and finish.                                                  *)
(***************************************************************************)
WorksAt(p, l) == Running(p) /\ work[p] = l
Work(p, l)    == work' = [work EXCEPT ![p] = l]
SetTurn(p, s) == turn' = [turn EXCEPT ![phase[p]] = s]
Accepted(f)   == host[f] \in {"running", "answered", "failed"}

Activate(p) == cap' = [phase |-> phase[p], owner |-> p]

\* process ends: its own capture goes, unless the gateway closes over an active
\* turn or the journal is locked.
Clear(p, s) ==
  cap' \in {cap} \cup
           (IF cap.owner = p /\ ~(Closing(p) /\ s # "failed") THEN {NoCap} ELSE {})

Ends(p, l) == Work(p, "idle") /\ Goto(p, l)

WorkUnchanged ==
  <<entry, att, sending, aside, prompts, sms, loose, phase, tries, life>>

\* drain takes the turn up.
TakeUp(p) ==
  /\ WorksAt(p, "queue") /\ ~Closing(p)
  /\ \/ turn[phase[p]] = "queued"     /\ Work(p, "prep")   /\ UNCHANGED cap
     \/ turn[phase[p]] = "submitting" /\ Work(p, "verify") /\ UNCHANGED cap
     \/ turn[phase[p]] = "submitted"  /\ Work(p, "poll")   /\ Activate(p)
  /\ UNCHANGED <<run, turn, host, WorkUnchanged>>

\* queued -> submitting, the capture is activated, then promptAsync.
Submit(p) ==
  LET f == phase[p]
  IN  /\ WorksAt(p, "prep") /\ ~Closing(p)
      /\ SetTurn(p, "submitting")
      /\ Activate(p)
      /\ host'    = [host EXCEPT ![f] = "coming"]
      /\ prompts' = [prompts EXCEPT ![f] = @ + 1]
      /\ Work(p, "prompt")
      /\ UNCHANGED <<entry, att, sending, aside, sms, loose, chain, life>>

\* Variant: the timer is forgotten.
RetryNever(p) == Work(p, "idle")
RetryLater(p) == Work(p, "retry")

\* A read before the checkpoint fails, or the gateway closes meanwhile.
SubmitFails(p) ==
  /\ WorksAt(p, "prep")
  /\ \/ /\ Closing(p)
        /\ Ends(p, "deferred")
        /\ UNCHANGED <<turn, cap>>
     \/ /\ ~Closing(p)
        /\ RetryLater(p)
        /\ Clear(p, "queued")
        /\ UNCHANGED <<turn, run>>
     \/ /\ ~Closing(p)
        /\ SetTurn(p, "failed")
        /\ Ends(p, "error")
        /\ Clear(p, "failed")
  /\ UNCHANGED <<host, WorkUnchanged>>

PromptReturns(p) ==
  /\ WorksAt(p, "prompt")
  /\ Accepted(phase[p])
  /\ SetTurn(p, "submitted")
  /\ Activate(p)
  /\ Work(p, "poll")
  /\ UNCHANGED <<run, host, WorkUnchanged>>

\* The request fails and its message is not found: the turn failed with an
\* uncertain submission, and what may be running is asked to stop; an answer
\* found by then is taken after all (rescueUnconfirmed).
PromptFails(p) ==
  LET f == phase[p]
  IN  /\ WorksAt(p, "prompt")
      /\ \/ /\ SetTurn(p, "failed")
            /\ Ends(p, "error")
            /\ Clear(p, "failed")
            /\ \/ UNCHANGED host
               \/ host[f] = "running" /\ host' = [host EXCEPT ![f] = "failed"]
         \/ /\ host[f] = "answered"
            /\ SetTurn(p, "completed")
            /\ IF Closing(p) THEN Work(p, "idle") /\ UNCHANGED run
                             ELSE Ends(p, "answer")
            /\ Clear(p, "completed")
            /\ UNCHANGED host
      /\ UNCHANGED WorkUnchanged

\* The turn of an earlier gateway stands at submitting: was it accepted?
Verify(p) ==
  /\ WorksAt(p, "verify")
  /\ \/ /\ Closing(p)
        /\ Work(p, "idle")
        /\ UNCHANGED <<cap, turn, run>>
     \/ /\ ~Closing(p) /\ Accepted(phase[p])
        /\ SetTurn(p, "submitted")
        /\ Activate(p)
        /\ Work(p, "poll")
        /\ UNCHANGED run
     \/ /\ ~Closing(p)
        /\ SetTurn(p, "failed")
        /\ Ends(p, "error")
        /\ Clear(p, "failed")
  /\ UNCHANGED <<host, WorkUnchanged>>

\* The final answer: finish() completes the turn.
PollAnswered(p) ==
  /\ WorksAt(p, "poll") /\ ~Closing(p)
  /\ host[phase[p]] = "answered"
  /\ SetTurn(p, "completed")
  /\ Ends(p, "answer")
  /\ Clear(p, "completed")
  /\ UNCHANGED <<host, WorkUnchanged>>

\* completion() stops for a shutdown: it tells the waiter so, or returns
\* nothing, which leaves the turn and the waiter as they are.
PollStops(p) ==
  /\ WorksAt(p, "poll") /\ Closing(p)
  /\ \/ Ends(p, "deferred")
     \/ Work(p, "idle") /\ UNCHANGED run
  /\ UNCHANGED <<turn, cap, host, WorkUnchanged>>

\* A read fails: the turn is tried again later.
PollFails(p) ==
  /\ WorksAt(p, "poll") /\ ~Closing(p)
  /\ RetryLater(p)
  /\ Clear(p, "submitted")
  /\ UNCHANGED <<turn, run, host, WorkUnchanged>>

\* The host reports an error, or the retries are exhausted.
PollEnds(p) ==
  /\ WorksAt(p, "poll") /\ ~Closing(p)
  /\ SetTurn(p, "failed")
  /\ Ends(p, "error")
  /\ Clear(p, "failed")
  /\ UNCHANGED <<host, WorkUnchanged>>

Retry(p) ==
  /\ WorksAt(p, "retry") /\ ~Closing(p)
  /\ Work(p, "queue")
  /\ UNCHANGED <<journal, model, chain, life>>

----------------------------------------------------------------------------
(***************************************************************************)
(* The model's turn in the host, and the SMS tool it calls.                *)
(***************************************************************************)
HostUnchanged == <<entry, cap, turn, prompts, chain, work, life>>

HostAccepts(f) ==
  /\ host[f] = "coming"
  /\ host' = [host EXCEPT ![f] = "running"]
  /\ UNCHANGED <<att, sending, aside, sms, loose, HostUnchanged>>

HostMisses(f) ==
  /\ host[f] = "coming"
  /\ host' = [host EXCEPT ![f] = "none"]
  /\ UNCHANGED <<att, sending, aside, sms, loose, HostUnchanged>>

\* An answer follows the calls it made.
HostFinishes(f) ==
  /\ host[f] = "running"
  /\ \E r \in {"answered", "failed"} :
       /\ r = "answered" => sending \cup aside = {}
       /\ host' = [host EXCEPT ![f] = r]
  /\ UNCHANGED <<att, sending, aside, sms, loose, HostUnchanged>>

\* Variant: the attempts of the phase are not looked at.
UnattemptedAlways(f) == f \in Phase
Unattempted(f) == f \in Phase /\ att[f] = "none"

\* beginHostedSmsAttempt: without an active capture the send is an ordinary
\* one; a capture whose owner died lets nothing through; otherwise the attempt
\* is journalled, one per phase, and without the caller's number it fails here.
ToolBegins(f) ==
  /\ host[f] = "running"
  /\ \/ /\ cap = NoCap
        /\ Cardinality(loose) < MaxLoose
        /\ aside' = aside \cup {f}
        /\ UNCHANGED <<att, sending>>
     \/ /\ cap # NoCap /\ up[cap.owner] # "gone"
        /\ Unattempted(cap.phase)
        /\ \/ /\ att' = [att EXCEPT ![cap.phase] = "pending"]
              /\ sending' = sending \cup {cap.phase}
           \/ /\ \E r \in {"rejected", "failed"} :
                   att' = [att EXCEPT ![cap.phase] = r]
              /\ UNCHANGED sending
        /\ UNCHANGED aside
  /\ UNCHANGED <<host, sms, loose, HostUnchanged>>

\* The provider accepts; the settlement may fail, or the tool's process die.
ToolAccepted(f) ==
  /\ f \in sending
  /\ sending' = sending \ {f}
  /\ sms' = [sms EXCEPT ![f] = @ + 1]
  /\ \E r \in {"success", "failed", "pending"} : att' = [att EXCEPT ![f] = r]
  /\ UNCHANGED <<host, aside, loose, HostUnchanged>>

\* Nothing was sent: the error tells a rejection from an unknown outcome.
ToolFails(f) ==
  /\ f \in sending
  /\ sending' = sending \ {f}
  /\ \E r \in {"rejected", "failed", "pending"} : att' = [att EXCEPT ![f] = r]
  /\ UNCHANGED <<host, aside, sms, loose, HostUnchanged>>

\* An ordinary send is accepted, or not.
LooseSend(f) ==
  /\ f \in aside
  /\ aside' = aside \ {f}
  /\ loose' \in {loose, loose \cup {f}}
  /\ UNCHANGED <<host, att, sending, sms, HostUnchanged>>

----------------------------------------------------------------------------
RunStep(p) ==
  \/ Begin(p) \/ PrepFails(p) \/ NotHosted(p) \/ Checkpoint(p)
  \/ CheckpointFails(p) \/ Dispatch(p) \/ Decide(p) \/ Conclude(p)
  \/ SaveFails(p)

WorkStep(p) ==
  \/ TakeUp(p) \/ Submit(p) \/ SubmitFails(p) \/ PromptReturns(p)
  \/ PromptFails(p) \/ Verify(p) \/ PollAnswered(p) \/ PollStops(p)
  \/ PollFails(p) \/ PollEnds(p) \/ Retry(p)

HostStep(f) == HostAccepts(f) \/ HostMisses(f) \/ HostFinishes(f)
ToolEnds == \E f \in Phase : ToolAccepted(f) \/ ToolFails(f) \/ LooseSend(f)

Next ==
  \/ \E p \in Procs :
       \/ Start(p) \/ Crash(p) \/ Close(p)
       \/ Ingest(p) \/ CatchUp(p)
       \/ RunStep(p) \/ WorkStep(p)
  \/ \E f \in Phase : HostStep(f) \/ ToolBegins(f)
  \/ ToolEnds

Spec == Init /\ [][Next]_vars

(***************************************************************************)
(* Fairness: promises settle, timers fire, the host and the provider       *)
(* answer, and the reads the code repeats do not fail for ever.  Nothing   *)
(* is assumed of webhooks, of the model's tools or of crashes.             *)
(***************************************************************************)
ReadFails(p) ==
  PollFails(p) \/ SubmitFails(p)

Fairness ==
  /\ \A p \in Procs : WF_vars(RunStep(p)) /\ WF_vars(WorkStep(p))
  /\ \A f \in Phase : WF_vars(HostStep(f))
  /\ WF_vars(ToolEnds)
  /\ <>[][\A p \in Procs : ~ReadFails(p)]_vars

FairSpec == Spec /\ Fairness

----------------------------------------------------------------------------
(***************************************************************************)
(* What the reconciliation promises.                                       *)
(***************************************************************************)

\* Through the journal at most one SMS is accepted for the call, whatever the
\* model tries, whatever the provider reports and whoever takes over: the
\* correction follows only what certainly did not leave.
GuardedOnce == sms["initial"] + sms["correction"] <= 1

\* A promised call is reported as completed only on the journal's evidence of an
\* accepted SMS (decision, runCorrection, recovery).
CompletedHasEvidence ==
  Promised /\ entry.state = "completed" => \E f \in Phase : att[f] = "success"

\* No phase is submitted twice: what may have run before a process death or a
\* shutdown is not replayed by the next gateway (recovery, hostedMatch).
NeverReplayed ==
  \A f \in Phase : prompts[f] <= 1

\* A correction is submitted only when the initial turn's SMS certainly did not
\* leave: it was rejected, or the turn was answered without an attempt.
CorrectionIsWarranted ==
  [][prompts'["correction"] # prompts["correction"] =>
       \/ att["initial"] = "rejected"
       \/ att["initial"] = "none" /\ host["initial"] = "answered"]_vars

\* A reconciliation ends, if its gateway lives on: it never blocks the calls
\* behind it (run, schedule, process).
ReconciliationEnds ==
  \A p \in Procs :
    run[p] # "idle" ~> run[p] = "idle" \/ up[p] # "up"

\* No correction repeats an SMS that the initial turn has already sent, in the
\* journal or not: the caller gets one SMS.
NothingSentTwice ==
  sms["correction"] > 0 => sms["initial"] = 0 /\ "initial" \notin loose
=============================================================================
