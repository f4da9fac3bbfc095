# Formal models of the Inkbox OpenCode plugin

The plugin connects a person's channels (SMS, email, iMessage, WhatsApp, Slack,
calls, agent-to-agent tasks) with an OpenCode host that runs a model.  A
long-lived *gateway* process turns inbound messages into *turns*, submits each to
the host once, waits for the answer and posts it back.  Everything it sends is
hard to take back and nothing it calls is transactional, so almost all of its
logic is about one question: *what may still be done when it is not known whether
the last attempt took effect?*  These modules model that logic, TLC explores it
on small instances, and TLAPS proves most of its safety for all instances.

Paths below are relative to `src/src/` of the repository, line numbers are those
of the modelled commit.

## 1. The system

### Components

| component | code | state it keeps | operations | module |
|---|---|---|---|---|
| Turn journal | `gateway/state.ts` | JSON file: turns, sessions, receipts, permissions, sends; every mutation under a lock file and committed by rename | `saveTurn`, `claimTurn`, `updateTurn`, `transitionTurn`, `removePermission`, `mutate` | `TurnStore`, `Journals` |
| Session manager | `gateway/sessions.ts` | per conversation a queue, one running turn, timers; poll waiters | `handleInbound`, `enqueue`, `drain`, `process`, `submit`, `completion`, `finish`, `rescueUnconfirmed`, `fenceUnconfirmed`, `abortTurn`, `catchUp`, `close` | `Turns` |
| Companion groups | `gateway/sessions.ts` (`acceptCompanion`, `hydrateCompanion`, `resetSession`), `gateway/companion.ts`, `response-policy.ts` | history anchor, contexts, sessions and generations | accept, hydrate, submit, control, reset, recover | `Companion` |
| Permission escalation | `gateway/escalation.ts`, `pending.ts`, `permission-inventory.ts`, `events.ts` | questions under way, waiters, generations; durable permission records | admission, relay, answer, deadline, cancel, response, `retire`, `reconcile`, `close` | `Escalation` |
| Hosted calls | `gateway/hosted-call-completion.ts`, `hosted-call-registry.ts`, `tools/send-sms.ts` | registry file: phase, outcome, one SMS attempt per phase, active capture | `ingest`, `run`, `catchUp`, `beginHostedSmsAttempt`, settlement | `HostedCall` |
| A2A tasks | `gateway/a2a.ts`, `a2a-progress.ts`, `tools/a2a.ts` | task registry with the reply-intent fence, progress records, drain files, locks and supervisors in memory | admission, acknowledgement, `runTurn`, progress loop, outcome tools, cancellation, `close`, `catchUp` | `A2ATask` |
| A2A delegations | `a2a-delegations.ts`, `a2a-context.ts` | tasks given to others | record, promote, match | file steps in `Journals` |
| Slack progress | `slack-progress.ts` | journal of one card: wanted and applied revision, pending effect | notify, `apply`, lookup, poll, recover, `close` | `SlackProgress`, `Journals` |
| Slack activity | `slack-activity.ts` | indicator record per thread and its file | `notify`, `schedule`, `recover`, `flush` | `SlackActivity` |
| Native sends | `whatsapp-native.ts`, `imessage-native.ts`, `slack-upload.ts` and their tools | send journal: started, sent, rejected | claim, request, settle, look up | `NativeSend` |
| Webhook ingress | `gateway/server.ts`, `dedup.ts`, `dispatch.ts`, `burst.ts`, `delivery-policy.ts` | request claims, batches, failure memory | claim, dispatch, gather, commit, roll back | `Ingress` |
| In-band controls | `gateway/index.ts`, `commands.ts`, `whatsapp-native.ts` (`reserveWhatsAppIngress`) | one receipt per message | reserve, answer, `/stop`, `/clear`, complete | `Controls` |
| Subscriptions | `gateway/subscriptions.ts`, `slack.ts` | none (the server's rows) | `reconcileSubscriptions`, `reconcileSlackSubscription`, `wireIncomingCalls` | `Subscriptions` |
| Realtime voice | `gateway/voice/bridge.ts`, `realtime.ts`, `post-call.ts` | call state, pending tool work, response owners, follow-up actions | upgrade, tools, hang-up in two presses, tear-down, follow-up | `VoiceCall` |
| Gateway start and owner | `gateway/index.ts`, `transport.ts`, `host/gateway-owner.ts`, `index.ts`, `v2.ts`, `cli/run.ts`, `cli/serve.ts` | one slot per configuration in a host process, a flag per V1 process, the managed server | start in stages, register, reconcile, release, close | `GatewayLife` |
| Replies and policy | `gateway/reply.ts`, `media.ts`, `prompts.ts` | none | prepare, classify | a nondeterministic step of `Turns` |
| V2 binding, contacts, configuration | `host/v2-*.ts`, `gateway/contacts.ts`, `config.ts`, ... | caches | adapters | not modelled |
| Command line, other tools | `cli/*.ts`, `tools/*.ts` | pid and unit files | set-up, supervision, request wrappers | not modelled |

### How they interact

* A webhook passes `server.ts` (signature), `dedup.ts` (claim) and `dispatch.ts`
  (which conversation, which sender), perhaps `burst.ts` (fragments of one thought),
  and ends in `sessions.handleInbound`, which saves a *turn* and enqueues it.  Native
  and Companion messages bypass the claim: a receipt or a turn in the journal is
  their memory.  Answers and commands leave the path in `index.ts`.
* The *session manager* is one asynchronous call chain per conversation
  (`drain` -> `process` -> `submit` -> `completion` -> `finish`) plus one chain per
  chat command.  Chains interleave only at awaits; different gateway processes
  interleave at every journal mutation.
* The *journal* is the only state that survives a process.  A turn carries an
  owner and a lease; `claimTurn` grants a turn only if no live lease of another
  owner stands on it or on a sibling that still occupies the conversation.
* While the host works on a turn it may ask for a *permission*.  The escalation
  bridge learns of it through the event stream, or by listing the host's
  inventory on each poll, and puts the question to the person through
  `pending.ts`, which holds one open prompt per conversation and takes the
  person's next message as its answer.
* Hosted calls, A2A tasks and voice calls submit *capture* turns (`deliver:
  false`) through the same session manager and take the answer themselves.
* Tools run in the host's process, automatic replies in the gateway's.  They meet in
  files: the send journal (a WhatsApp source is answered by one of them), the task
  registry and its drain requests (the tool's outcome and the gateway's progress).
* Slack hears of a turn twice: `slack-progress.ts` edits one card, `slack-activity.ts`
  switches an indicator.  Both keep a file for the gateway that comes after a crash.
* `index.ts` `close()` shuts the parts down in a fixed order: escalation, pending
  prompts, events, ..., A2A, sessions, server, transport.

### What is hard

Crashes between a checkpoint and the call it announces; calls that report an
error and take effect all the same, or later; two processes around a restart;
leases that run out under a live but slow owner; state captured before an await
and used after it; timers that are the only thing that keeps a turn alive; an
event stream that loses events; an answer that races a deadline, a cancel, or
another client.  `PROJECT.json` lists these hazards one by one at their lines, with the
properties that would catch each.

### What makes each part correct

* Journal: no two live owners inside one conversation.
* Turns: one submission and one post per turn, whatever crashes; the posted text
  answers that very prompt; an unconfirmed execution keeps the next prompt
  back; what was interrupted stays so; every turn ends.
* Permissions: nothing is approved that the person did not approve; a response
  whose outcome is unknown is never sent again; every question ends.
* Hosted calls: at most one accepted SMS of the journalled kind; the initial turn
  is never replayed; `completed` only with evidence.
* Companion groups: every message is told to the agent at most once, after the
  history, and what a `/clear` cut off stays cut off.
* A2A tasks: no progress during or after an outcome, a canceled message is not
  worked on, a fenced one never again, every job ends.
* Native sends and Slack progress: a started effect is looked up, never sent again;
  the final update is not blocked for ever by an unknown one; the indicator goes out.
* Ingress and controls: what the provider will not repeat is in a turn or done; a
  repeated control or answer acts on what it first meant.
* Subscriptions: starting gateways lose no event of each other's.
* Voice: the line is not cut while a tool works; a realtime session is closed.
* Shared files: no writer's change is lost to another one.
* Gateway owner: at most one gateway admits work, and a successor starts.

## 2. Modules

| module | role |
|---|---|
| `TurnStore` | the durable turns of one conversation and the store's mutations |
| `HostSession` | the host's side of the conversation (external code, as `sessions.ts` uses it) |
| `ReplyContract` | abstract: what a person can observe of a turn's reply |
| `Turns` | the session manager over both, with gateways that start, crash and close |
| `MCTurns` | symmetry for TLC |
| `TurnsProofs`, `SoleGatewayProofs` | theorems about `Turns`: always; when gateways follow each other, with its second part for when nobody sends `/stop` either |
| `Escalation` | permissions: host, event stream, bridge, prompts |
| `MCEscalation`, `EscalationProofs` | the bounds of its run; theorems about `Escalation` |
| `HostedCall`, `MCHostedCall` | reconciliation of one hosted call and its guarded SMS |
| `HostedCallProofs` | theorems about `HostedCall` |
| `A2ATask` | one inbound task: gateway, outcome tool in another process, caller |
| `Companion` | one activation of a Companion group |
| `NativeSend` | the send journal between tool calls and the automatic reply |
| `SlackProgress`, `SlackActivity` | the progress card; the indicator |
| `SlackProofs` | theorems about the two journals of effects, `NativeSend` and `SlackProgress` |
| `Ingress`, `Controls` | webhook events to turns; answers and commands |
| `InboundProofs` | theorems about what comes in: `A2ATask`, `Ingress`, `Controls`, `Subscriptions` |
| `Journals` | the lock files around shared files |
| `Subscriptions` | webhook subscriptions of gateways that start |
| `VoiceCall` | one live call |
| `ConversationProofs` | theorems about `Companion` and `VoiceCall` |
| `GatewayLife` | starts, owners, disposals and closes of gateways |
| `ProcessProofs` | theorems about `Journals` and `GatewayLife` |
| `MCParts`, `MCPartsLive` | instances of these for TLC, one component per behaviour |

### Turns

One conversation (`chatKey`); every rule of the store that relates two turns
relates turns of the same conversation.  Turns are numbered in creation order.
A *step* is the code between two awaits of one call chain.

| model | code |
|---|---|
| `st`, `unc`, `fenced`, `owner`, `retries` | `turn.state`, `uncertainStage`, `executionFenced`, `ownerId`, `retryCount` |
| `lease` | `turn.leaseUntil > now`, as a boolean |
| `host` | the host's user message of the turn: not there, on its way, running, answered, failed |
| `queue`, `timers`, `wake` | `entry.queue`, the `setTimeout`s that re-enqueue, what calls `drain` next |
| `arriving` | messages saved by `handleInbound` that wait for `session.abort` |
| `pc`, `cur`, `on`, `ctx`, `blk`, `todo`, `seen` | the position and the locals of the `drain` chain |
| `spc`, `son`, `targets` | the `/stop` chain (`abortTurn`) |
| `prompts`, `posts` | history: calls of `promptAsync` and of the channel's send |
| `DrainNext`, `RescueBlocker`, `PassGate` | `drain` and its gate |
| `ProcessClaim`, `Checkpoint`, `PromptAcknowledged`, `PromptFails`, `Recheck*`, `Verify` | `process`, `submit` |
| `Poll*`, `Saved`, `Stuck`, `Ambiguous`, `Catch`, `Returned` | `completion`, `process` |
| `Prepare*`, `Post*` | `finish` |
| `Messages`, `Status`, `Abort*`, `ConfirmIdle`, `RescueFails`, `Rescued` | `rescueUnconfirmed`, `fenceUnconfirmed` |
| `Start`, `Crash`, `Close`, `Release` | `catchUp`, process death, `freezeAdmission`, `close` |

An owner id is drawn afresh by every session manager, so a restarted gateway is
another member of `Procs`.  `Overlap = FALSE` (a gateway starts only when no other
admits work) is what `host/gateway-owner.ts` guarantees inside one host process;
a gateway that has closed or crashed may still have calls and leases outstanding.
`Lapse = TRUE` lets a live gateway's lease run out while it works on a blocker,
where nothing renews it.

Abstractions.  A burst of messages is one turn; `retryAt` instants are dropped, so
a retry timer may fire at any time; the poll's own claim is the same step as the
interval's (`Renew`); a read or an authorization that may fail is one step that
fails nondeterministically; silent output follows the path of a post;
`recoverReply` creates a new ordinary turn and leaves the choice whether it does
open; `/stop` skips capture turns, as it does from a native channel.  A closed
gateway's outstanding calls still return.

### Escalation

| model | code |
|---|---|
| `record`, `response`, `late` | the durable permission: state, response, deadline passed |
| `native`, `wire` | the host's permission; responses on their way to it |
| `holder` | the gateway that owns the submitted turn by a live lease |
| `news`, `told`, `list` | unread `permission.asked` and `permission.replied` events; what the inventory read returned |
| `adm` | admissions waiting for the owner read |
| `chain` | what `runPermission` or `retire` waits for |
| `line`, `who`, `sending`, `waiting`, `text`, `cut` | `pending.ts`: queue, current ask, its send, its waiter, its answer, the cancel generation |
| `unsure`, `replayed`, `given` | history: outcome unknown; answered again; approved by the person |

"Always" and "once" are both `approve`: the difference is in what the host
remembers.  Who may answer (author checks, Slack authorization) and the wording
are left out.  Admissions that `catchUp` starts before a turn is claimed are
refused by the owner read and change nothing, so they are left out.
`PostReturns` also accepts "not found", which is an error for `retire`: an
over-approximation.  A prompt's waiter is registered before the prompt is sent,
and the deadline of a queued question runs while it waits: both are in the model.

### HostedCall

One call whose notes commit to an SMS (`Promised`).  `run` of
`hosted-call-completion.ts` and the session manager's handling of its capture
turns are two chains of a gateway; the model's turn and its SMS tool run in the
host and outlive every gateway.

| model | code |
|---|---|
| `entry`, `att`, `cap` | the registry entry: state and outcome; `smsAttempts`, one per phase; `active` |
| `turn` | the latest capture turn of each phase in the turn journal |
| `host`, `sending`, `aside` | the turn's prompt in the host; its SMS under way, with and without a guard |
| `run`, `phase`, `tries` | where `run` stands, `resume`, `preparationAttempt` |
| `work` | where `drain` and `process` stand with the awaited capture |
| `prompts`, `sms`, `loose` | history: submissions, SMS accepted with and without a guard |
| `Ingest`, `CatchUp`, `Recovery` | `ingest`, `catchUp`, `recovery` |
| `Begin` to `SaveFails` | `run` and `runCorrection` |
| `TakeUp` to `Retry` | `drain`, `process`, `submit`, `completion`, `finish` for a capture turn |
| `ToolBegins`, `ToolAccepted`, `ToolFails`, `LooseSend` | `send-sms.ts` with `beginHostedSmsAttempt`, `settleHostedSmsAttempt`, `classifyHostedSmsError` |

Attempt outcomes are grouped by what `decision` tells apart: success, rejected
(`pre_send_validation`, `content_rejected`), failed (any other error, a wrong target),
pending.  The next gateway is taken to start after the process of the closed one
has ended.  Where it outlives that start, a late prompt error of the old gateway can
fail the turn the new one relies on, after `hostedCaptureState` was read; that
is left out for its state space and stands in the plan.

### A2ATask

One task of one context; its caller messages are numbered.  A step is the code
between two awaits of one promise chain; the tool that gives an outcome runs in the
host's process and meets the gateway in the registry and the drain files.

| model | code |
|---|---|
| `task`, `greeted` | the platform's task and its history (external) |
| `entry`, `fence`, `prog`, `acked` | registry entry, `replyIntentFenced`, progress record, `acknowledgementDelivered` |
| `req`, `ack` | drain request and acknowledgement files |
| `adm`, `lock`, `job` | admission chain, task lock, where `runTurn` of a message stands |
| `runtime`, `stopping`, `loop`, `coord`, `mon`, `waits` | the progress supervisor, its flag, loop, coordinated tokens and monitor |
| `barred`, `keys`, `settling` | `canceledTasks`, its `messageKeys`, `settlingTasks` |
| `todo`, `stale`, `catching`, `saw` | the snapshot `catchUp` works through, and what it has read of the task |
| `revoked`, `belated` | history: canceled messages; those put to work by a stale read of `catchUp` |

`catchUp` is not awaited (`gateway/index.ts:384`), takes no admission lock and does not look
into `canceledTasks`: its read (`CatchUpReads`, `Discovers`) and what it does with it
(`CatchUp`, `Discover`) are two steps, between which a cancellation may be handled from
end to end.  A message it then puts to work is in `belated`, the exception `CanceledStays` names.

A request may fail and have landed.  Tokens of drain requests count up from the ones in the
files (`AsksAnew`): the code draws them at random, so none is ever met again.  `turn` stands for
what `Turns` models in full.

### Companion

The first message to be prepared loads the group's history and keeps it as a turn of
its own; messages that do not address the agent are contexts.  `slot` is the turn
of a message (`ctx`, `fixed` its `contextIds`), `prelude` the history's turn, `spent`
`consumedBy`, `bond` and `epoch` the session and the `generations` map, `runner` and
`control` the queue's runner and the executions of a command.  `reached`, `briefed`,
`cut` and `wiped` are history: what the host got, and what a stop, a loss, a host that could
not be asked, or a reset excuses.  `Resumes` has all that `process` does with a turn found
`submitting`: the host has it, has it not, or does not answer, and the last two pause it.

### NativeSend

`sends` is the journal, `at` and `wire` where each call and its request are, `origin`,
`holder`, `leased` the originating turn.  A tool call resolves its turn, looks for a
claim, claims, checks the turn again and posts; the gateway completes the turn, then
looks for a claim and posts.  One request of the SDK is one request; the platform's
own idempotency is not used by the property.

### SlackProgress and SlackActivity

`card` is the journal entry of one source: wanted (`rev`) and applied revision, the
`pending` effect with its lookups and polls, retries of the last update.  `wants`,
`timer`, `runs`, `place`, `snap` are a process's chain of intents, its timer, its
queued runs of `apply`, where the present one stands and the entry it has read.
`log` is history: effects dispatched and what became of them.  In `SlackActivity`,
`mark` is `records[id]`, `disk` its file, `writes` the snapshots on their way, `chain`
and `step` the tail of tasks of the thread.

### Ingress and Controls

`Ingress`: `claim` is `dedup.ts`'s memory of a request, `workers`, `checked`, `woken` its
handlers between awaits, `batch` the burst buffer, `given` the turns made, `noted` and
`strikes` `delivery-policy.ts`'s memory.  A request carries a fragment, a plain message, a
failure notice, or a message the journal keeps under its id: one that addresses the agent
(`native`), one of a group that does not (`overheard`, saved as `context_only` without a
second look) or one of WhatsApp, which takes no claim, is reserved in the journal in one
write and acknowledged after that (`RecordsFirst`).  A Companion message bypasses the
claim as well (`server.ts:100-106`); what becomes of it is in `Companion`.  Reaction
revisions, by which a newer WhatsApp reaction supersedes an older one, are left out.
`Controls` follows the native messages of one
author: `receipt` says what a message was taken for when it first came (its waiter,
its targets, its session generation) and whether it is done; `gen` grows whenever a turn
takes the session, so that a `/clear` captured before cannot drop it; `hand`, `shaky` are its
handler, `left` the turns a command has yet to stop, which it takes in the order they came.

### Journals

Every call of the file system is a step.  `protocol` selects the code: a lock judged by
its age with waiting (`state.ts`) or without (`hosted-call-registry.ts`), a lock that names
its owner with recovery locks (`slack-progress.ts`), none (`a2a-delegations.ts`).

### Subscriptions, VoiceCall, GatewayLife

`Subscriptions`: `rows` are the server's subscriptions by id (a deleted one leaves a gap, `Gone`),
`known` the events its version has (both of A2A or neither, and no reactions without messages, as
the fallbacks for older servers expect), `stage`, `visiting`, `wish`, `view` a
starting gateway's place, channel, wanted events and what it made of the list it
read.  `VoiceCall`: `phase` follows `handleUpgrade` and `runCall`, `pending`, `owners`,
`owned`, `requested`, `delivered` are the variables of `realtime.ts`, `asked` the responses
the realtime server (external) still owes.  `GatewayLife`: `stage` and `held` follow
`startGateway` and its clean-up, `latch` is `inPluginStarted` of V1, `owner`, `chosen`, `turn2`
and the counters are the slot of `gateway-owner.ts` and its chain of reconciles,
`managed` the server `cli/serve.ts` starts.  A close may throw in its parts or at the tunnel; who
hears of it depends on who closes: the disposal (it fails, and the flag of V1 stays), a
reconcile, or, when a V1 instance is disposed during its start, the start itself, whose
`catch` takes the error, clears the flag and lets the disposal succeed (`Breaks`, `late`).  A failed
start takes the errors of its clean-up in the same way.  `leaks` is what is then still open.

## 3. What is model-checked

All runs have `CHECK_DEADLOCK FALSE`: messages, permissions and gateways are
bounded, and when all have come and gone the model rightly stops.

| run | instance | shows |
|---|---|---|
| `turns_queue` | 2 turns, 2 gateways one after the other (crash at any step), native channel; fairness | `TypeOK`, `SoleOwner`, `ImplementsContract`, `EveryTurnEnds` |
| `turns_replace` | 2 turns on a channel where messages replace work, a retry, a crash and restart, no `/stop` | `GateHolds`, `InterruptedIsFinal` |
| `turns_overlap` | 1 turn, 2 gateways at once, lapsing leases, a stop, a shutdown, a retry | `PromptedOnce`, `PostedOnce`, `AnswerBacksReply` |
| `perm_restart` | 1 permission, 2 gateways, lossy events and inventory; fairness.  Or 2 permissions of one person, 1 gateway, one deadline passes (`PairBound`) | `TypeOK`, `Retained`, `NeverReplayed`, `EveryQuestionEnds`; `ApprovalWasGiven`, `WaiterIsLive` |
| `hosted_restart` | 1 call, 2 gateways one after the other (a crash or a close at any step) or an unguarded send; fairness | `TypeOK`, `GuardedOnce`, `CompletedHasEvidence`, `NeverReplayed`, `CorrectionIsWarranted`, `ReconciliationEnds` |
| `parts_live` | one of: an A2A task, a Slack card, a Slack indicator, the gateways of a process; fairness | `EveryJobEnds`, `FinalShown`, `LampGoesOut`, `AtMostOneGateway`, `NothingIsLeft`, `CleanSuccession` |
| `parts` | one of nine components (below) | their safety properties |
| `turns_overtake`, `turns_revive`, `turns_parked`, `turns_stranded`, `hosted_loose` | expected violations | the findings of section 6 |

`ImplementsContract` is a refinement: `ReplyContract` is stated without gateways,
leases or journals, and `Turns` implements it under the mapping `reply <- Reply`.
The contract is checked on a channel whose messages queue and the gate on one whose
messages replace the work; the theorems of section 4 are about both kinds.

In `perm_restart` the flag `reading` chooses between the two instances at the start.  The
fairness is that of gateways that read the inventory, so the behaviours of the pair are
checked for safety only.

### Runs of several components

`MCParts` and `MCPartsLive` put components side by side that meet only through the
platform or a file system.  A variable `focus`, chosen at the start, says which one takes
the steps; the others stay at one initial state.  So a run explores the sum of the
state spaces, each property is about the one component it names, and the steps of
each are exactly those of its module.  `parts` with its bounds (each is an operator of
`MCParts` with its comment):

| focus | instance and bound | properties |
|---|---|---|
| `task` | 2 messages, 2 starts, 1 outcome call; two of: second message, restart, outcome tool, cancellation | `NoProgressDuringOutcome`, `CanceledStays`, `OutcomeIsFinal` |
| `send` | 2 calls and the reply, 3 keys, 2 contents, every kind of send; one of: lost lease, stop, refused or dying call | `SentOnce` |
| `card` | 2 gateways, 2 notifications, limits 1; two of the effects that fail or get lost, polls, retries; the second gateway early in the card's life | `NeverReplays` |
| `control` | 3 messages; two or three of: second message, second question, another gateway's message, restart, second delivery | `ControlsActOnThePast`, `AnswersStayAnswers` |
| `ingress` | 2 requests of one message or two, of any sort, each posted twice; one of: lapsed claim, restart, close | `HandledOnce` |
| `files` | 3 writers, 2 deaths, recovery locks two deep | `NoUpdateLost` |
| `companion` | trigger and 2 messages; one failed try, host that cannot be asked, rebinding, restart or command | `ToldOnce`, `CutIsClean` |
| `rows` | 2 gateways, 12 initial sets of rows, 3 versions of the server | `AllDelivered` |
| `call` | 2 tool calls, 2 presses, one of: second tool call, follow-up action, response of the server's own, death of the session | `GoodbyeAfterWork` |

The bounds count *troubles*: each single one is explored in every position, and the
pairs that the code relates to each other.  What three at once do is not checked.

### Bounds

`N`: rules that relate turns relate two of them (an owner and a sibling, a
blocker and the turn it blocks, an interrupted turn and its replacement).
`turns_overlap` has one turn: two gateways at once over two turns are out of TLC's reach here,
so a lapsing lease with a sibling turn is not exercised by it.  `PromptedOnce` and
`AnswerBacksReply` are proved for any number of turns with overlap; `PostedOnce` does
not hold of two (section 6).  The liveness of the Slack card is checked with one gateway, a
restart of it in `parts` only, for safety.  Two
gateways: the one that leaves a state behind and the one that finds it; the
journals do not distinguish a third from the second.  `MaxRetry`, `LookupLimit`,
`PollLimit`, `RetryLimit`, `PauseLimit`: 0 makes the first error final, 1 has one retry and
then the limit; the code's larger numbers add only repetitions.  `MaxStops`, `MaxCloses`:
each command is independent of earlier ones once it has ended.  Two permissions: one
prompt and one that waits.  One hosted call, one task, one card, one thread: the
journals key everything by them.  `MaxTries` 1 for the code's 2: a retry and the limit.
`MaxLoose` 1: one phase's turn sends outside the journal; in `hosted_restart` it does so only
while there is no second gateway.  Three writers: one dies, one cleans up, one
writes.  Two instances of a plugin: the one that leaves and its successor.

### Fairness

A promise settles, a timer fires, an unrenewed lease runs out, a host that took a
prompt ends it: weak fairness of each chain of each gateway, of each turn's
lease and host step, of each permission's deadline.  Chains are independent, so
each has its own condition.  Reads the code repeats on every poll or retry are
assumed not to fail for ever (`<>[][~CallFails]_vars`, `<>[][~ReadFails]_vars`,
`<>[][~GreetFails]_vars`, and in `HostedCall` the same of the polls and the preparation of a
capture): without it no retry loop ends.  `SlackProgress` and `SlackActivity` have a state
of the network instead (`calm`, `steady`): their properties ask only of what is recorded after
requests have stopped failing.  Strong fairness stands where a chain
waits for a lock that others take again and again, which the code hands out first
come, first served: the task lock of `A2ATask`.  Nothing is assumed of the person, of
new messages, of webhooks, of `/stop`, of crashes, or of a post, whose failure is
final.

## 4. What is proved

Each theorem holds for every value of the constants (any number of turns,
permissions, gateways, messages, requests, keys, retries, stops and closes), under the
assumptions the modules name: counts are naturals, switches are booleans, there
is a first gateway to start, and the values that stand for nobody, no entry and no turn are
none of the others.  Two groups of theorems about `Turns` have a hypothesis
besides, stated in each of them.

* `TurnsProofs`.  `TypeCorrect`, `PromptedAtMostOnce`, `RepliesAreAnswers`, the last two also with
  overlapping gateways and lapsing leases.  The invariant `IInv` adds to the
  properties: `Focus` (a chain that is at work has a turn, a rescue and a stop have a
  target), `Unsent` (a turn that is absent or queued was never submitted, and the
  host knows nothing of it) and `SeenIsTrue` (an answer a rescue has read stays in
  the host session).  `PromptedOnce` alone is not inductive: the checkpoint
  `queued` -> `submitting` protects it only because nothing brings a submitted turn
  back to `queued`; likewise a rescue saves an answer it read two awaits before.
* `SoleGatewayProofs`.  `OneOwner`, `PostedAtMostOnce` and `ContractIsImplemented`, the
  refinement of `ReplyContract`, step by step.  They assume `OneGateway`: a gateway starts after
  the one before has died (`~Overlap`), and none closes with calls outstanding (`MaxCloses =
  0`); leases may lapse and `/stop` may come at any time.  Neither can be dropped: section 6
  names the two posts of overlapping gateways, and the rescue of a closed gateway may still
  complete a reply that its successor has rescued and posted. `SoleInv` adds to `IInv`: `Alone`
  (only the live gateway has anything under way), `Tenure` and `Exclusive` (a lease belongs to a
  started gateway, and a live one's keeps all others away from the conversation, which makes
  `claimTurn` exclusive), `Sending` (a turn in `delivery_started` is in the hands of the live
  chain, or of a dead one), `Posted` (what was posted once never returns to a state from which
  it could be posted) and `InHand` (what a chain may still complete or give up is its own, and
  was not posted).  `SoleKept` is the lemma each step of a chain cites: a step that claims,
  enters and spares as it should keeps all of them.
* `SoleGatewayProofs`, second part.  `TheGateHolds` and `InterruptionsAreFinal`, two action
  properties, under `NoStop`: `OneGateway`, and nobody sends `/stop`.  With `/stop` both fail: a
  stop's paused turn is rescued to `completed` (`turns_revive`), and a turn that was captured in
  front of the gate is paused while its chain passes it.  `GateInv` adds `Upright`: behind the
  gate no other turn may be executing, and in front of it those that may are among the blockers
  the chain captured, so the gate looks at all of them.
* `EscalationProofs`.  `TypeCorrect`, `UnsureIsRetained`, `ResponsesAreNotReplayed`,
  `ApprovalsAreGiven`, `WaitersAreLive`.  `IInv` ties each gateway's prompt state to the durable
  record: `Sure` (the record says "responding" exactly while the outcome is unknown), `OneUp`
  and `RelayOpen` (only the one admitting gateway relays, and no question that is over),
  `HolderAdmits` (while a closed gateway owns the turn nobody relays), `Lined` (the current ask
  and those in line are relayed questions, each once) and `Kept` (an approval that waits for its
  prompt was given to this waiter).  `PromoteMoves` and `DismissMoves` are the lemmas about the
  line that every prompt step cites.
* `HostedCallProofs`.  `TypeCorrect`, `OneGuardedMessage`, `CompletionsHaveEvidence`,
  `SubmissionsAreNotRepeated`, `CorrectionsAreWarranted` (an action property), for any number of
  gateways, closes, retries and unguarded sends.  Two conjuncts of `IInv` carry the
  argument.  `Warranted`: a run, an entry or a turn of the correction exists only
  once the initial attempt is `Harmless`: rejected, or missing with the initial turn
  completed.  `Covered` keeps it so: the turn that could still make an attempt for
  the initial phase would be the correction, and that runs under its own
  capture.  `Settled` and `Underway` follow the entry: from the checkpoint on it says
  "started" for the phase, so a turn that failed is never submitted again.
* `ProcessProofs`, lock files.  `NoChangeIsLost`, for any number of writers, deaths and recovery
  locks.  `JournalIInv` adds `Held` (whoever is behind a lock still has it, as long as
  none was taken from a living process), `Fresh` (what was read is what the file says
  when it is written), `OwnedIsFair` (a lock that names its owner is never so taken) and
  `Abandoned`: the lock a process is about to reclaim belongs to the dead *still*,
  because two processes that reclaim one lock would hold the same recovery lock.  That
  conjunct is what the second look under the recovery lock is for; the variant
  `JudgesOwnerAlone` without it loses a change.
* `ProcessProofs`, gateways of a process.  `GatewaysAreOne` and `NothingStaysBehind`, for any
  number of plugin instances.  `LifeInv` says what each stage holds (`HeldByStage`), and for
  each kind of host who may act.  V1 (`V1Knows`): while a gateway acts the flag is set, until
  an instance clears the flag of another one (`stray`).  V2 (`V2Knows`): what acts is the
  owner or the candidate being started, never both, and an instance that waits for its
  disposal either waits for a reconcile that is still to be served (its `ticket`
  exceeds `served`) or for one that failed: so a disposal that reports success has found its
  gateway closed, whoever's reconcile closed it.  `LeaksKnown` says where a swallowed error may
  have left something open: the tunnel after any failed start, the listener only after a start
  that had to close its own result.  Foreground (`CliKnows`): one instance, and
  its server is stopped before it leaves.  "The first candidate" is a `CHOOSE` of a
  minimum; that there is one for every set of instances follows from the
  well-ordering of the naturals (`LeastIsThere`).
* `ConversationProofs`, Companion groups.  `NothingIsToldTwice` and `ClearsStayClean` (an action
  property).  Both are about what reached the host, over any number of messages, handlers,
  bindings, failed tries, restarts, stops and clears; the invariant is about what is
  written in the journal, which a prompt may come from at any later time.  `ToldApart` is the
  core: two turns whose prompt the host has, or may get, carry nothing in common that is not
  cut.  It holds because a context is chosen (`Frames`) from what is not yet consumed
  while no other such turn is alive that has not consumed its own: `RunnerIsFirst` (until its
  context is chosen the runner's turn precedes every other that has one), `ToldIsSpent`
  (what the host has been told is consumed, or cut, or its turn is still under way) and
  `ContextIsKept` (what is kept as context stays that).  `RunnerKnows` and `ControlKnows`
  say which of the things read before an await are still true after it: a command's
  snapshot covers what it has to stop (`met`, `todo`), unless the host refused to confirm.
  `Briefing` and `Cleared` are the properties' own strengthenings.  Steps that choose no
  context and tell nothing are all treated by one group of lemmas (`Eases`).
* `ConversationProofs`, calls.  `GoodbyesWait`.  `WorkIsPending` says that during a call
  `pending` holds the tool calls that run or whose answer waits to be spoken, and no other,
  whichever of the responses, timeouts and ends of the session finished them; `SessionShape`
  what each phase of a call has done with its realtime session.
* `SlackProofs`, two journals that know one effect in three states.  `SendsHappenOnce`:
  `SendInv` says that a request that is out, or was, is the journal entry's (`Journalled`,
  `WirePlace`), one attempt holds a key (`OneHolder`), and the automatic reply of a turn waits
  for the tool's claim or excludes it (`ReplyPlace`, `ReplyYields`).  `EffectsAreNotReplayed`:
  `NeverReplays` is not inductive because a run works on an entry (`snap`) it read earlier.
  `CardInv` says that the pending effect is the last one of the log and its revision is
  ahead of what is applied (`Current`), every other effect is known and applied
  (`SettledBefore`), the surface once chosen stays (`Surface`: a platform that refuses
  streams gives a message), and what a run looks up was really dispatched
  (`Reading`), so that a late lookup settles only an effect that is the pending one still.
* `InboundProofs`, what comes in.
  * A2A tasks: `OutcomesAreUndisturbed`, `CancellationHolds`, `OutcomesAreFinal` (an action
    property).  The heart of `TaskInv` is `Unhurried`: while the progress loop holds the task
    lock, who has fenced the newest message has not been told that the loop is at rest: the
    tool's request is not acknowledged, the gateway's own token is still waited for.  `Barred`
    is the cancellation's: every job of a message it revokes, unless `catchUp` began it on a
    stale read, is among those it waits for, and no revoked message is the newest while the task
    may run.  `Unhurried` failed on a first version of the model, in which a tool reused its
    token and found an old acknowledgement; the code draws tokens at random, and `AsksAnew` says
    so.
  * Webhooks: `EventsAreHandledOnce`.  `JournalledOnce` is about messages, whatever requests
    carry them: of two handlers that both found one new, the second finds the other's turn when
    it looks again, or the reservation is one write.  `ClaimsCount` is a count: the turns a
    request is in, its places in the batch and its handlers are together at most its forgotten
    claims and the one it has.  `NoneForgotten` says the converse, of what is claimed as well as
    of what was agreed, as a repeat is agreed on the strength of a claim alone.
  * Controls: `ControlsAreInTime`, `AnswersHold`.  The properties are about deeds;
    `ControlInv` is about receipts, which a deed may come from at any later time:
    `InTime` (the targets on a receipt came before it, and if its generation is still the
    session's, that session was made before it), `Answering` (who came to a question is kept
    as its answer, and what was answered is not open), `TakenAs` and `Settled`.
    `HandlingKeeps` is the lemma for every handler that takes a message for something.
  * Subscriptions: `EventsAreDelivered`, for any rows to begin with and any number of
    gateways that start at once.  `RowsInv` says what may have become of each row
    (`Remains`), what a gateway that is between its calls knows of the server
    (`Viewing`) and that the channels behind it are served (`Serving`).  The last one is
    kept because rows of this URL only grow (`Grows`): each gateway adds to what it read,
    and nobody deletes such a row.  A gateway that writes a row back after another one
    has changed it breaks that (`crossed`), and the theorem excludes it by name.

Every inductive invariant was checked by TLC, on the instance of its run, before it
was proved.

Four proofs found something in the model that TLC had not shown.  Three: the token of a drain
request (above); cases of the mapping `Reply` that overlapped, of which TLC takes the
first and the semantics of `CASE` any; and ids of subscriptions that were given out again,
so that a gateway could delete, by an id it had read long before, a row another one had
just created.  A server does not reuse an id, and `Gone` says so.

A fourth found a case of the model that was wrong.  The exception of `ToldOnce` (`cut`) did
not cover a turn whose gateway died between the two writes that follow an accepted prompt
and that is stopped before it is resumed; the invariant `ToldIsSpent` failed there, with a
restart and a command, a pair the bounds of `parts` leave out.  The code really tells such a
context again (section 6), so `Loose` now names the case.

Every safety property of a passing run is stated by a theorem.  Only model-checked: the
liveness properties (`EveryTurnEnds`, `EveryQuestionEnds`, `ReconciliationEnds`,
`EveryJobEnds`, `FinalShown`, `LampGoesOut`, `CleanSuccession`), which the proof system does not
treat, and `PostedOnce` with overlapping gateways and closes, which holds of one turn
(`turns_overlap`) and not of two.  `ImplementsContract`, `GateHolds` and `InterruptedIsFinal` are
checked by runs that satisfy the hypotheses of their theorems; nothing is claimed beyond them.

## 5. What is not modelled, and why

* Interactive set-up, process supervision, diagnostics (`cli/` but for `run.ts` and
  `serve.ts`), configuration, audio conversion, wording, the tools that only wrap a request,
  contacts and readiness checks: sequential code without protocol state.
* The V2 host binding (`host/v2-*.ts`): adapters of one host API to the other;
  `HostSession` says what the session manager relies on.
* `A2ATask`: several tasks of one context and their order, restricted callers.
* A2A delegations beyond their file (matching an update to a delegation).
* `HostedCall`: a closed gateway that outlives the next start, calls in line.
* `Turns`: capture turns of A2A, channel disabling; `retryAt` instants.
* Several cards, threads or calls at once: nothing relates them but the file.
* `parts_live` lets no further message come while a cancellation of the task is handled
  (`Patient`): the supervisor's `stopping` flag can be cleared under a cancellation
  that awaits `settleProgress`, see section 6.

## 6. Findings

* **Follow-ups can overtake a restart** (`turns_overtake`, `FollowUpsQueue`,
  `gateway/sessions.ts:1083`).  The turn in progress is re-enqueued after its old
  lease, a follow-up is retried every poll: the follow-up is submitted first.
* **A stopped turn comes back** (`turns_revive`, `NoRevival`, `sessions.ts:631`).  The rescue
  writes `completed` unconditionally after two awaits.
* **A verified stop leaves the queue parked** (`turns_parked`, `StopReleasesQueue`,
  `sessions.ts:1302`).  Nobody calls `drain` after the stop is confirmed.
* **A failed poll opens the SMS guard** (`hosted_loose`, `NothingSentTwice`, `sessions.ts:1214`).
  The `finally` of `process` clears the active capture although the submitted turn
  runs on in the host; the SMS it then sends is not journalled and counts as
  missing, and the correction sends it again.
* **A rescued answer is stranded** (`turns_stranded`, `SavedAnswerIsPosted`,
  `sessions.ts:1270`).  A failed preparation inside a rescue is discarded.

Consequences of the design that the model shows and no document rules out: with
`Overlap = TRUE` and two turns two gateways can post the same reply; a graceful
close hands the conversation on while a call is outstanding; a prompt that
reaches the host after an acknowledged abort runs although its turn is fenced; a
permission whose response never settles stays on record as "responding"
(documented in the repository's README, "Permissions").

Seen while modelling, each a behaviour of a module here or of the code beside it; the
properties name the case as an exception, or the bounds leave it out, and no
run asks for it:

* A2A: a second outcome of one task can be sent when the first one's answer got lost
  (`gateway/a2a.ts:738-757`); `persist` can overwrite a fence set by the tool's process
  meanwhile (`a2a.ts:131-159`) and `catchUp` works from a snapshot (`stale` in
  `OutcomeIsFinal`); a follow-up during a cancellation is swallowed (`a2a.ts:861-880`).
  `catchUp` reads a task (`a2a.ts:954`, `1003`), a cancellation of it is handled to the end, and
  `catchUp` puts the canceled message to work on what it had read (`belated` in
  `CanceledStays`).
* Companion: a message of an earlier sequence number that arrives while a later one's turn runs
  makes `claimTurn` refuse the running turn (`gateway/state.ts:458-475`, `sessions.ts:886-890`),
  whose reply then waits for a restart; contexts it carried are told again (`cut`); a gateway
  that dies between writing `submitted` and `consumedBy` (`sessions.ts:532-545`, `664`) leaves
  contexts that nobody consumes if a `/stop`, or a failed authorization before the last try,
  ends the turn before it is resumed, and the next prompt carries them again (`Loose`); the
  trigger is lost when another message seeds the history (`sessions.ts:822-828`); a webhook sent
  again during hydration executes a command twice (`sessions.ts:1580-1637`, `index.ts:158-172`);
  after a restart a turn found `submitting` is paused when `listMessages` fails
  (`sessions.ts:436-452`, `1123`, `1193-1197`), also when the host has its prompt, and the next
  prompt carries its contexts again (`cut`); a message that arrives while `/clear` awaits the
  abort may carry old contexts (`sessions.ts:2049-2071`; `late` in `CutIsClean`).
* Ingress: a repeat is acknowledged while the first attempt can still fail
  (`gateway/server.ts:107`, `dedup.ts:20-21`); fragments flushed at shutdown and events
  handled while the gateway closes are refused after their acknowledgement
  (`index.ts:737`, `746`); a failure notice is counted before its contact is resolved
  (`dispatch.ts:628-632`).  These are the `edges` of `HandledOnce`.  Two requests of one group
  message that does not address the agent can both find it new, await the identity and save
  it (`sessions.ts:1852-1864`): the context holds it twice.
* Slack: a card can be created after the end of its turn (`slack-progress.ts:312-324`); a
  new gateway's first write may leave out records it has not yet acted on
  (`slack-activity.ts:148-171`; `unsaved` in `LampGoesOut`).
* Shared files: a lock older than a minute is removed although its owner lives, or by
  two that found it old at once (`state.ts:212-216`; `slip` in `NoUpdateLost`); the
  `finally` of a slow writer then removes its successor's lock; the delegations file has no
  lock.
* Subscriptions: two gateways that start together read one row and overwrite it with
  their own unions (`subscriptions.ts:136-204`; `crossed` in `AllDelivered`).
* Gateway owner: in V1 the disposal of an instance that had not started the gateway clears
  the flag of the one that had (`src/index.ts:21-24`, `42`; `stray` in `AtMostOneGateway`); an
  in-plugin gateway does not observe `handle.failed` (`gateway/transport.ts:131-133`).  A V1
  instance disposed while its gateway starts: the start closes its own result, and where that
  throws, the `catch` of the start takes the error, so that the disposal succeeds with the
  listener or the tunnel open (`src/index.ts:26-31`, `64-67`).  The comment at `src/index.ts:38-39`
  says the disposal awaits the start so as not to "leak the tunnel / webhook listener"; this
  path is where it still can (`leaks` in `NothingIsLeft`).  After a failed start the tunnel may
  stay open as well (`gateway/index.ts:298-304`, `transport.ts:164-171`).
* Voice: responses are matched to tool calls by their order alone
  (`voice/realtime.ts:290-302`); a caller who is gone before the handshake leaves the realtime
  session open.

## 7. Plan

1. Proofs: `GateHolds` with `/stop`, for turns that no command touches; the contract of
   `Turns` with closes, for turns that no closed gateway has in hand.
2. `A2ATask` with two tasks of one context; delegations as a module of their own.
3. `HostedCall` with a closed gateway that outlives the next start (a run of its own, with
   the host's side cut down).
4. A refinement of one journalled-effect contract (started, known, unknown; never
   twice) by `NativeSend` and `SlackProgress`.
