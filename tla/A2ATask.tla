------------------------------ MODULE A2ATask ------------------------------
(***************************************************************************)
(* An inbound agent-to-agent task as gateway/a2a.ts handles it: admission, *)
(* acknowledgement, the turn of each caller message, periodic progress,    *)
(* the outcome (given by a tool of the turn, in another process, or by     *)
(* default), cancellation, shutdown and restart.                           *)
(*                                                                         *)
(* One task of one context.  Its caller messages are numbered in order.    *)
(* A step is the code between two awaits of one promise chain; a request   *)
(* that fails may have landed all the same.                                *)
(***************************************************************************)
EXTENDS Naturals, FiniteSets

CONSTANTS MaxMsg,     \* caller messages
          MaxStarts,  \* starts of a gateway
          MaxCalls    \* outcome calls of the tools, in total

ASSUME TaskAssumption == /\ MaxMsg \in Nat \ {0}
                         /\ MaxStarts \in Nat
                         /\ MaxCalls \in Nat

Msgs == 1 .. MaxMsg
Token == {"job", "tool"} \X Msgs
Waiter == {"job", "cancel", "monitor", "recover"} \X (0 .. MaxMsg)

VARIABLES
  task,       \* the platform: "active", "asked" (input required), "closed", "canceled"
  sent,       \* caller messages so far
  cancelHook, \* the webhook of the cancellation: "none", "pending", "done"
  greeted,    \* acknowledgements that reached the task's history
  entry,      \* registry: state of each message
  newest,     \* the message whose entry has the highest generation, 0 for none
  fence,      \* replyIntentFenced of each entry
  prog,       \* the progress record: "none", "active", "idle"
  acked,      \* its acknowledgementDelivered
  turn,       \* session manager: the latest turn of each message
  req, ack,   \* drain files: requests and acknowledgements, by token
  gate,       \* the gateway: "down", "up", "closing"
  starts,     \* starts so far
  adm, guest, \* the admission lock: "free", "message" (of guest), a stage of the cancellation
  awaits,     \* jobs the cancellation waits for
  barred, keys, \* canceledTasks: present, and its messageKeys
  settling,   \* the task is in settlingTasks
  lock,       \* the task lock is held
  job,        \* where runTurn of each message stands
  runtime, stopping, loop, \* the progress supervisor, its flag, its loop
  coord,      \* coordinatedTokens of the supervisor
  mon,        \* its monitor: "watch" or "settle"
  waits,      \* who awaits the promise of the present loop
  todo, stale, \* catchUp: entries left, and those that were fenced when it began
  catching,   \* catchUp is settling the progress
  saw,       \* what it has read of the task: for which message, over or not, the latest message
  tool,       \* the outcome tool of each message's turn ("done": its outcome is committed)
  calls,      \* its calls so far
  revoked,    \* history: messages the caller canceled
  belated     \* history: those that catchUp put to work from a read older than the cancellation

platform == <<task, sent, cancelHook, greeted>>
registry == <<entry, newest, fence, turn>>
record == <<prog, acked>>
files == <<req, ack>>
process == <<gate, starts>>
cancellation == <<adm, guest, awaits, barred, keys>>
supervisor == <<runtime, stopping, loop, coord, mon, waits>>
recovery == <<todo, stale, catching, saw>>
tools == <<tool, calls>>
history == <<revoked, belated>>
taskVars == <<platform, registry, record, files, process, cancellation, settling, lock,
              job, supervisor, recovery, tools, history>>

EntryState == {"absent", "queued", "running", "finalized"}
TurnState == {"none", "live", "answered", "ended"}
Sight == [on : 0 .. MaxMsg, over : BOOLEAN, last : 0 .. MaxMsg]
NoSight == [on |-> 0, over |-> FALSE, last |-> 0]
JobState == {"none", "greet", "greeting", "greetSend", "check", "go", "turn", "quiet", "sending",
             "last", "settle"}

TaskTypeOK ==
  /\ task \in {"active", "asked", "closed", "canceled"} /\ sent \in 0 .. MaxMsg
  /\ cancelHook \in {"none", "pending", "done"} /\ greeted \in Nat
  /\ entry \in [Msgs -> EntryState] /\ newest \in 0 .. MaxMsg /\ fence \in [Msgs -> BOOLEAN]
  /\ turn \in [Msgs -> TurnState]
  /\ prog \in {"none", "active", "idle"} /\ acked \in BOOLEAN
  /\ req \subseteq Token /\ ack \subseteq Token
  /\ gate \in {"down", "up", "closing"} /\ starts \in 0 .. MaxStarts
  /\ adm \in {"free", "message", "settle", "abort", "wait"} /\ guest \in 0 .. MaxMsg
  /\ awaits \subseteq Msgs /\ barred \in BOOLEAN /\ keys \subseteq Msgs
  /\ settling \in BOOLEAN /\ lock \in BOOLEAN
  /\ job \in [Msgs -> JobState]
  /\ runtime \in BOOLEAN /\ stopping \in BOOLEAN /\ coord \subseteq Token
  /\ loop \in {"off", "wait", "held", "send"} /\ mon \in {"watch", "drain", "settle"}
  /\ waits \subseteq Waiter
  /\ todo \subseteq Msgs /\ stale \subseteq Msgs /\ catching \in BOOLEAN
  /\ saw \in Sight
  /\ tool \in [Msgs -> {"idle", "waiting", "sending", "done"}] /\ calls \in 0 .. MaxCalls
  /\ belated \subseteq Msgs /\ revoked \subseteq Msgs

TaskInit ==
  /\ task = "closed" /\ sent = 0 /\ cancelHook = "none" /\ greeted = 0
  /\ entry = [m \in Msgs |-> "absent"] /\ newest = 0 /\ fence = [m \in Msgs |-> FALSE]
  /\ turn = [m \in Msgs |-> "none"]
  /\ prog = "none" /\ acked = FALSE /\ req = {} /\ ack = {}
  /\ gate = "down" /\ starts = 0
  /\ adm = "free" /\ guest = 0 /\ awaits = {} /\ barred = FALSE /\ keys = {}
  /\ settling = FALSE /\ lock = FALSE /\ job = [m \in Msgs |-> "none"]
  /\ runtime = FALSE /\ stopping = FALSE /\ loop = "off" /\ coord = {} /\ mon = "watch"
  /\ waits = {} /\ todo = {} /\ stale = {} /\ catching = FALSE /\ saw = NoSight
  /\ tool = [m \in Msgs |-> "idle"] /\ calls = 0
  /\ revoked = {} /\ belated = {}

-----------------------------------------------------------------------------
(* Helpers                                                                 *)

\* TURN_STOPPED: every state of the task but submitted and working.
Stopped == task # "active"

\* latestTaskEntry: the entry of the highest generation.
Newest(m) == m = newest
Fenced == \E m \in Msgs : Newest(m) /\ fence[m]

\* ensureProgressRecord: a record that is not active is (re)activated, which forgets
\* drains and the settling mark of the task's earlier life.
EnsureRecord ==
  /\ prog' = "active" /\ UNCHANGED acked
  /\ IF prog = "active" THEN UNCHANGED <<req, ack, settling>>
                        ELSE req' = {} /\ ack' = {} /\ settling' = FALSE

\* Variant: the stop flag is cleared although a drain was requested.
SuperviseAnyway(p, r, fenced) ==
  IF gate # "up" \/ p # "active" \/ fenced
  THEN UNCHANGED supervisor
  ELSE /\ runtime' = TRUE /\ stopping' = FALSE
       /\ loop' = IF loop = "off" THEN "wait" ELSE loop
       /\ UNCHANGED <<coord, mon, waits>>

\* ensureProgressSupervisor, in the state with record p, requests r and that fence.
Supervise(p, r, fenced) ==
  IF gate # "up" \/ p # "active" \/ fenced
  THEN UNCHANGED supervisor
  ELSE LET stop == r # {} /\ (stopping \/ ~runtime)
       IN /\ runtime' = TRUE /\ stopping' = stop
          /\ loop' = IF ~stop /\ loop = "off" THEN "wait" ELSE loop
          /\ UNCHANGED <<coord, mon, waits>>

\* Variant: the loop is told to stop, and nobody waits until it has.
DrainAtOnce(w) == stopping' = runtime /\ UNCHANGED waits

\* drainProgress asks the loop to stop and waits for the loop there is, if any.
Drain(w) ==
  /\ stopping' = runtime
  /\ waits' = IF loop = "off" THEN waits ELSE waits \cup {w}

\* synchronizeProgressDrain waits for the loop, and answers the requests when it has returned.
Coordinating == <<"monitor", 0>> \in waits
Acknowledge == ack' = ack \cup req

\* The loop returns, which resumes those who wait for it; its supervisor goes with it when
\* the record, p, is not active.
EndLoop(p) ==
  /\ loop' = "off" /\ waits' = {}
  /\ LET drained == mon = "watch" /\ Coordinating
     IN /\ IF drained THEN Acknowledge ELSE UNCHANGED ack
        /\ runtime' = (p = "active" /\ runtime) /\ stopping' = (p = "active" /\ stopping)
        /\ coord' = IF p # "active" THEN {} ELSE IF drained THEN coord \cup req ELSE coord
  /\ UNCHANGED <<req, mon>>

\* A request has a token of its own: an answer to an earlier one says nothing of it.
AsksAnew(t) == /\ req' = req \cup {t} /\ ack' = ack \ {t} /\ coord' = coord \ {t}

\* settleProgress: it marks the task, drains, and then takes the lock.
SettleBegins(w) == settling' = TRUE /\ Drain(w)
CanSettle(w) == w \notin waits /\ ~lock
Settle ==
  /\ prog' = (IF prog = "active" THEN "idle" ELSE prog)
  /\ runtime' = FALSE /\ stopping' = FALSE /\ coord' = {}
  /\ req' = {} /\ ack' = {}
  /\ UNCHANGED <<acked, loop, waits>>

\* start: nothing while closing or settling, or when the message has a job already.
Started(m, settles) ==
  IF gate # "up" \/ settles \/ job[m] # "none" THEN job ELSE [job EXCEPT ![m] = "greet"]

\* A chain of the gateway stands right before a persist, which rewrites the whole
\* registry from an unlocked read.
Persisting == /\ gate # "down"
              /\ adm = "message" \/ todo # {} \/ saw # NoSight
                 \/ \E m \in Msgs : job[m] \in {"go", "last"}

-----------------------------------------------------------------------------
(* The caller and the platform                                             *)

CallerWrites ==
  /\ sent < MaxMsg /\ (sent = 0 \/ task # "closed")
  /\ sent' = sent + 1 /\ task' = "active"
  /\ UNCHANGED <<cancelHook, greeted, registry, record, files, process, cancellation, settling,
                 lock, job, supervisor, recovery, tools, history>>

CallerCancels ==
  /\ task \in {"active", "asked"} /\ cancelHook = "none"
  /\ task' = "canceled" /\ cancelHook' = "pending" /\ revoked' = 1 .. sent /\ UNCHANGED belated
  /\ UNCHANGED <<sent, greeted, registry, record, files, process, cancellation, settling, lock,
                 job, supervisor, recovery, tools>>

-----------------------------------------------------------------------------
(* Admission: webhooks of messages, in any order and repeatedly            *)

\* The handler enters serializeAdmission and reads the task: only its own latest caller
\* message counts.
AdmitBegin(m) ==
  /\ gate = "up" /\ adm = "free" /\ ~Stopped /\ m = sent
  /\ entry[m] = "absent" \/ (entry[m] # "finalized" /\ ~fence[m] /\ job[m] = "none")
  /\ adm' = "message" /\ guest' = m
  /\ UNCHANGED <<platform, registry, record, files, process, awaits, barred, keys, settling,
                 lock, job, supervisor, recovery, tools, history>>

\* A canceled task takes only a follow-up it has not seen.
Admissible(m) == barred => m # 1 /\ m \notin keys

\* The task was read before: its caller may have written again or canceled since.
AdmitEnd(m) ==
  /\ gate # "down" /\ adm = "message" /\ guest = m /\ adm' = "free" /\ guest' = 0
  /\ IF ~Admissible(m)
     THEN UNCHANGED <<entry, newest, record, files, settling, job, barred, keys>>
     ELSE /\ barred' = FALSE /\ keys' = {}
          /\ IF entry[m] = "absent"
             THEN /\ entry' = [entry EXCEPT ![m] = "queued"] /\ newest' = m /\ EnsureRecord
                  /\ job' = Started(m, settling')
             ELSE /\ job' = (IF entry[m] = "finalized" \/ fence[m] THEN job
                             ELSE Started(m, settling))
                  /\ UNCHANGED <<entry, newest, record, files, settling>>
  /\ UNCHANGED <<platform, fence, turn, process, awaits, lock, supervisor, recovery, tools,
                 history>>

-----------------------------------------------------------------------------
(* runTurn of a message                                                    *)

\* The chain leaves its loop when the gateway closes.
JobLeaves(m) ==
  /\ gate = "closing" /\ job[m] \in {"greet", "go"}
  /\ job' = [job EXCEPT ![m] = "none"]
  /\ UNCHANGED <<platform, registry, record, files, process, cancellation, settling, lock,
                 supervisor, recovery, tools, history>>

\* ensureAcknowledgement takes the task lock and looks at the record.
GreetBegin(m) ==
  /\ gate = "up" /\ job[m] = "greet" /\ ~lock
  /\ EnsureRecord
  /\ IF settling' THEN lock' = FALSE /\ job' = [job EXCEPT ![m] = "check"]
     ELSE IF acked THEN lock' = FALSE /\ job' = [job EXCEPT ![m] = "go"]
     ELSE lock' = TRUE /\ job' = [job EXCEPT ![m] = "greeting"]
  /\ UNCHANGED <<platform, registry, process, cancellation, supervisor, recovery, tools,
                 history>>

\* It has read the task: over, acknowledged already (the response was lost), or to do.
GreetRead(m) ==
  /\ gate # "down" /\ job[m] = "greeting"
  /\ LET no == Stopped \/ gate = "closing" \/ settling
         seen == ~no /\ greeted > 0
     IN /\ acked' = (acked \/ seen)
        /\ job' = [job EXCEPT ![m] = IF no THEN "check" ELSE IF seen THEN "go" ELSE "greetSend"]
        /\ lock' = (~no /\ ~seen)
  /\ UNCHANGED <<platform, registry, prog, files, process, cancellation, settling, supervisor,
                 recovery, tools, history>>

GreetSent(m) ==
  /\ gate # "down" /\ job[m] = "greetSend" /\ lock' = FALSE
  /\ \E landed \in IF Stopped THEN {FALSE} ELSE BOOLEAN :
       /\ greeted' = IF landed THEN greeted + 1 ELSE greeted
       /\ \/ /\ landed /\ acked' = TRUE
             /\ prog' = IF gate = "closing" \/ settling THEN "idle" ELSE prog
             /\ job' = [job EXCEPT ![m] = "go"]
          \/ /\ UNCHANGED record
             /\ job' = [job EXCEPT ![m] = "check"]
  /\ UNCHANGED <<task, sent, cancelHook, registry, files, process, cancellation, settling,
                 supervisor, recovery, tools, history>>

\* Not acknowledged: give up if the task is settling, settle it if it is over, else retry.
Check(m) ==
  /\ gate # "down" /\ job[m] = "check"
  /\ IF settling
     THEN job' = [job EXCEPT ![m] = "none"] /\ UNCHANGED <<settling, stopping, waits>>
     ELSE IF Stopped
     THEN job' = [job EXCEPT ![m] = "settle"] /\ SettleBegins(<<"job", m>>)
     ELSE job' = [job EXCEPT ![m] = "greet"] /\ UNCHANGED <<settling, stopping, waits>>
  /\ UNCHANGED <<platform, registry, record, files, process, cancellation, lock, runtime, loop,
                 coord, mon, recovery, tools, history>>

JobSettles(m) ==
  /\ gate # "down" /\ job[m] = "settle" /\ CanSettle(<<"job", m>>) /\ Settle
  /\ entry' = [entry EXCEPT ![m] = "finalized"] /\ job' = [job EXCEPT ![m] = "none"]
  /\ UNCHANGED <<platform, newest, fence, turn, process, cancellation, settling, lock, mon,
                 recovery, tools, history>>

\* The turn is handed to the session manager, which resumes an earlier one of the message
\* unless that failed or was interrupted.
JobStarts(m) ==
  /\ gate = "up" /\ job[m] = "go"
  /\ entry' = [entry EXCEPT ![m] = "running"]
  /\ turn' = [turn EXCEPT ![m] = IF @ = "answered" THEN @ ELSE "live"]
  /\ job' = [job EXCEPT ![m] = "turn"]
  /\ tool' = [tool EXCEPT ![m] = IF @ = "done" THEN "idle" ELSE @]
  /\ Supervise(prog, req, Fenced)
  /\ UNCHANGED <<platform, newest, fence, record, files, process, cancellation, settling, lock,
                 recovery, calls, history>>

\* The session manager ends the turn, with an answer or without.
TurnEnds(m) ==
  /\ gate # "down" /\ turn[m] = "live" /\ tool[m] \in {"idle", "done"}
  /\ \E s \in {"answered", "ended"} : turn' = [turn EXCEPT ![m] = s]
  /\ UNCHANGED <<platform, entry, newest, fence, record, files, process, cancellation, settling,
                 lock, job, supervisor, recovery, tools, history>>

\* The turn's answer is the outcome by default.  replyIntentCommitted is never seen here:
\* the journal holds a copy of the context.
JobAnswers(m) ==
  /\ gate = "up" /\ job[m] = "turn" /\ turn[m] = "answered" /\ ~settling
  /\ fence' = [fence EXCEPT ![m] = TRUE] /\ AsksAnew(<<"job", m>>)
  /\ Drain(<<"job", m>>) /\ job' = [job EXCEPT ![m] = "quiet"]
  /\ UNCHANGED <<platform, entry, newest, turn, record, process, cancellation, settling, lock,
                 runtime, loop, mon, recovery, tools, history>>

\* No answer, or nothing to say.
JobSilent(m) ==
  /\ gate # "down" /\ job[m] = "turn" /\ turn[m] \in {"answered", "ended"}
  /\ IF gate = "closing" \/ settling
     THEN job' = [job EXCEPT ![m] = "none"] /\ UNCHANGED entry
     ELSE job' = [job EXCEPT ![m] = "last"] /\ entry' = [entry EXCEPT ![m] = "finalized"]
  /\ UNCHANGED <<platform, newest, fence, turn, record, files, process, cancellation, settling,
                 lock, supervisor, recovery, tools, history>>

\* The task is read once more: over, unreadable, or still waiting for its outcome.
JobOutcome(m) ==
  /\ gate # "down" /\ job[m] = "quiet" /\ <<"job", m>> \notin waits
  /\ \/ /\ ~Stopped /\ job' = [job EXCEPT ![m] = "sending"] /\ ack' = ack \cup {<<"job", m>>}
        /\ UNCHANGED <<req, entry>>
     \/ /\ req' = req \ {<<"job", m>>} /\ ack' = ack \ {<<"job", m>>}
        /\ \/ /\ Stopped /\ entry' = [entry EXCEPT ![m] = "finalized"]
              /\ job' = [job EXCEPT ![m] = "last"]
           \/ job' = [job EXCEPT ![m] = "none"] /\ UNCHANGED entry
  /\ UNCHANGED <<platform, newest, fence, turn, record, process, cancellation, settling, lock,
                 supervisor, recovery, tools, history>>

JobSent(m) ==
  /\ gate # "down" /\ job[m] = "sending"
  /\ \E landed \in IF Stopped THEN {FALSE} ELSE BOOLEAN :
       /\ task' = IF landed THEN "closed" ELSE task
       /\ \/ /\ landed /\ entry' = [entry EXCEPT ![m] = "finalized"]
             /\ job' = [job EXCEPT ![m] = "last"]
          \/ job' = [job EXCEPT ![m] = "none"] /\ UNCHANGED entry
  /\ UNCHANGED <<sent, cancelHook, greeted, newest, fence, turn, record, files, process,
                 cancellation, settling, lock, supervisor, recovery, tools, history>>

JobLast(m) ==
  /\ gate # "down" /\ job[m] = "last"
  /\ \/ /\ Stopped /\ job' = [job EXCEPT ![m] = "settle"] /\ SettleBegins(<<"job", m>>)
     \/ job' = [job EXCEPT ![m] = "none"] /\ UNCHANGED <<settling, stopping, waits>>
  /\ UNCHANGED <<platform, registry, record, files, process, cancellation, lock, runtime, loop,
                 coord, mon, recovery, tools, history>>

-----------------------------------------------------------------------------
(* Periodic progress                                                       *)

\* The loop's due time: it stops, or emitProgress takes the lock.
LoopDue ==
  /\ gate # "down" /\ loop = "wait"
  /\ IF stopping \/ gate = "closing" \/ prog # "active" THEN EndLoop(prog) /\ UNCHANGED lock
     ELSE IF ~lock /\ ~Fenced
     THEN /\ loop' = "held" /\ lock' = TRUE
          /\ UNCHANGED <<files, runtime, stopping, coord, mon, waits>>
     ELSE Fenced /\ ~lock /\ EndLoop(prog) /\ UNCHANGED lock
  /\ UNCHANGED <<platform, registry, record, process, cancellation, settling, job, recovery,
                 tools, history>>

\* The summary is there: nothing is sent once a stop was asked for or the task is over.
EmitReady ==
  /\ gate # "down" /\ loop = "held"
  /\ IF stopping \/ gate = "closing"
     THEN EndLoop(prog) /\ lock' = FALSE /\ UNCHANGED prog
     ELSE IF Stopped
     THEN prog' = "idle" /\ EndLoop("idle") /\ lock' = FALSE
     ELSE /\ loop' = "send"
          /\ UNCHANGED <<lock, prog, files, runtime, stopping, coord, mon, waits>>
  /\ UNCHANGED <<platform, registry, acked, process, cancellation, settling, job, recovery,
                 tools, history>>

\* Delivered, or failed: the record is written back as it was read, the text is kept for a
\* retry, and the loop waits again.
EmitSent ==
  /\ gate # "down" /\ loop = "send" /\ loop' = "wait" /\ lock' = FALSE
  /\ UNCHANGED <<platform, registry, record, files, process, cancellation, settling, job,
                 runtime, stopping, coord, mon, waits, recovery, tools, history>>

\* synchronizeProgressDrain: a fence or a new request stops the loop; the requests are
\* acknowledged when it has returned.
MonitorStops ==
  /\ gate = "up" /\ runtime /\ mon = "watch" /\ ~Coordinating
  /\ req \ coord # {} \/ (Fenced /\ (~stopping \/ req \ ack # {}))
  /\ Drain(<<"monitor", 0>>)
  /\ IF loop = "off" THEN Acknowledge /\ coord' = coord \cup req ELSE UNCHANGED <<ack, coord>>
  /\ UNCHANGED <<platform, registry, record, req, process, cancellation, settling, lock, job,
                 runtime, loop, mon, recovery, tools, history>>

\* Nobody renews this request: it is dropped, or the task turns out to be over.
MonitorDrops(t) ==
  /\ gate = "up" /\ runtime /\ mon = "watch" /\ ~Coordinating /\ ~Fenced /\ t \in req
  /\ IF t[1] = "tool" THEN \/ tool[t[2]] \in {"idle", "done"}
                           \/ tool[t[2]] = "waiting" /\ t \notin ack
                      ELSE job[t[2]] \notin {"quiet", "sending"}
  /\ IF Stopped
     THEN mon' = "settle" /\ SettleBegins(<<"monitor", 0>>) /\ UNCHANGED files
     ELSE req' = req \ {t} /\ ack' = ack \ {t} /\ UNCHANGED <<mon, settling, stopping, waits>>
  /\ UNCHANGED <<platform, registry, record, process, cancellation, lock, job, runtime, loop,
                 coord, recovery, tools, history>>

MonitorSettles ==
  /\ gate # "down" /\ mon = "settle" /\ CanSettle(<<"monitor", 0>>) /\ Settle /\ mon' = "watch"
  /\ UNCHANGED <<platform, registry, process, cancellation, settling, lock, job, recovery,
                 tools, history>>

\* All drains are gone: progress resumes.
MonitorResumes ==
  /\ gate = "up" /\ runtime /\ mon = "watch" /\ ~Coordinating /\ coord # {} /\ req = {} /\ ~Fenced
  /\ prog = "active"
  /\ coord' = {} /\ stopping' = FALSE
  /\ loop' = IF loop = "off" THEN "wait" ELSE loop
  /\ UNCHANGED <<platform, registry, record, files, process, cancellation, settling, lock, job,
                 runtime, mon, waits, recovery, tools, history>>

-----------------------------------------------------------------------------
(* The outcome tools, in the process of the OpenCode server                *)

\* inboundIntent fences the entry and requests a drain.  Its write of the fence is lost
\* when a chain of the gateway rewrites the registry from an older read.
ToolCalls(m) ==
  /\ turn[m] = "live" /\ tool[m] = "idle" /\ calls < MaxCalls
  /\ calls' = calls + 1 /\ tool' = [tool EXCEPT ![m] = "waiting"]
  /\ AsksAnew(<<"tool", m>>)
  /\ \/ fence' = [fence EXCEPT ![m] = TRUE]
     \/ Persisting /\ UNCHANGED fence
  /\ UNCHANGED <<platform, entry, newest, turn, record, process, cancellation, settling, lock,
                 job, runtime, stopping, loop, mon, waits, recovery, history>>

ToolProceeds(m) ==
  /\ tool[m] = "waiting" /\ <<"tool", m>> \in ack
  /\ tool' = [tool EXCEPT ![m] = "sending"]
  /\ UNCHANGED <<platform, registry, record, files, process, cancellation, settling, lock, job,
                 supervisor, recovery, calls, history>>

ToolGivesUp(m) ==
  /\ tool[m] = "waiting" /\ <<"tool", m>> \notin ack
  /\ tool' = [tool EXCEPT ![m] = "idle"]
  /\ req' = req \ {<<"tool", m>>} /\ ack' = ack \ {<<"tool", m>>}
  /\ UNCHANGED <<platform, registry, record, process, cancellation, settling, lock, job,
                 supervisor, recovery, calls, history>>

ToolSent(m) ==
  /\ tool[m] = "sending"
  /\ \/ /\ ~Stopped /\ task' \in {"asked", "closed"}
        /\ \E s \in {"done", "idle"} : tool' = [tool EXCEPT ![m] = s]
     \/ tool' = [tool EXCEPT ![m] = "idle"] /\ UNCHANGED task
  /\ UNCHANGED <<sent, cancelHook, greeted, registry, record, files, process, cancellation,
                 settling, lock, job, supervisor, recovery, calls, history>>

-----------------------------------------------------------------------------
(* Cancellation                                                            *)

CancelBegin ==
  /\ gate = "up" /\ adm = "free" /\ cancelHook = "pending"
  /\ cancelHook' = "done" /\ adm' = "settle" /\ SettleBegins(<<"cancel", 0>>)
  /\ keys' = keys \cup {m \in Msgs : entry[m] # "absent"}
  /\ awaits' = {m \in Msgs : job[m] # "none"}
  /\ UNCHANGED <<task, sent, greeted, registry, record, files, process, guest, barred, lock,
                 job, runtime, loop, coord, mon, recovery, tools, history>>

CancelSettles ==
  /\ gate # "down" /\ adm = "settle" /\ CanSettle(<<"cancel", 0>>) /\ Settle /\ adm' = "abort"
  /\ UNCHANGED <<platform, registry, process, guest, awaits, barred, keys, settling, lock, job,
                 mon, recovery, tools, history>>

\* abortA2A interrupts the turns of the task.  A job that has its acknowledgement goes on
\* at once, before the identity is read for it.
Aborted == [m \in Msgs |-> IF turn[m] \in {"live", "answered"} THEN "ended" ELSE turn[m]]

CancelAborts ==
  /\ gate # "down" /\ adm = "abort" /\ \A m \in Msgs : job[m] # "go"
  /\ adm' = "wait" /\ turn' = Aborted
  /\ UNCHANGED <<platform, entry, newest, fence, record, files, process, guest, awaits, barred,
                 keys, settling, lock, job, supervisor, recovery, tools, history>>

\* Variant: the cancellation does not wait for the jobs it found.
CancelEndsAtOnce ==
  /\ gate # "down" /\ adm = "wait"
  /\ adm' = "free" /\ awaits' = {} /\ barred' = TRUE
  /\ \/ keys' = keys \cup {sent}
     \/ UNCHANGED keys
  /\ UNCHANGED <<platform, registry, record, files, process, guest, settling, lock, job,
                 supervisor, recovery, tools, history>>

\* The jobs have ended; the task's own latest caller message is barred as well.
CancelEnds ==
  /\ gate # "down" /\ adm = "wait" /\ \A m \in awaits : job[m] = "none"
  /\ adm' = "free" /\ awaits' = {} /\ barred' = TRUE
  /\ \/ keys' = keys \cup {sent}
     \/ UNCHANGED keys
  /\ UNCHANGED <<platform, registry, record, files, process, guest, settling, lock, job,
                 supervisor, recovery, tools, history>>

-----------------------------------------------------------------------------
(* Start, recovery, shutdown, crash                                        *)

Start ==
  /\ gate = "down" /\ starts < MaxStarts
  /\ gate' = "up" /\ starts' = starts + 1
  /\ todo' = {m \in Msgs : entry[m] \in {"queued", "running"}}
  /\ stale' = {m \in Msgs : fence[m]} /\ UNCHANGED <<catching, saw>>
  /\ UNCHANGED <<platform, registry, record, files, cancellation, settling, lock, job,
                 supervisor, tools, history>>

\* catchUp reads the task of an entry that was not finalized when it began; one whose task
\* cannot be read is left.
CatchUpReads(m) ==
  /\ gate # "down" /\ ~catching /\ saw = NoSight /\ m \in todo
  /\ \/ saw' = [on |-> m, over |-> Stopped, last |-> sent] /\ UNCHANGED todo
     \/ todo' = todo \ {m} /\ UNCHANGED saw
  /\ UNCHANGED <<platform, registry, record, files, process, cancellation, settling, lock, job,
                 supervisor, stale, catching, tools, history>>

\* Work begun from what was read before the cancellation was handled: catchUp takes no
\* admission lock and does not look into canceledTasks.
MarksBelated(m) ==
  belated' = IF cancelHook = "done" /\ m \in revoked THEN belated \cup {m} ELSE belated

\* The entry is written back with the state it had when catchUp began.
WritesBack(m) == entry' = [entry EXCEPT ![m] = IF @ = "finalized" THEN "queued" ELSE @]

\* Variant: catchUp starts every entry whose task still waits for this message.
CatchUpUnfenced(m) ==
  /\ gate # "down" /\ saw.on = m /\ saw' = NoSight /\ m \in todo /\ todo' = todo \ {m}
  /\ ~saw.over /\ m = saw.last
  /\ WritesBack(m) /\ MarksBelated(m)
  /\ EnsureRecord /\ job' = Started(m, settling') /\ Supervise(prog', req', Fenced)
  /\ UNCHANGED <<platform, newest, fence, turn, process, cancellation, lock, stale, catching,
                 tools, revoked>>

\* The read returns: the entry is over, fenced, or taken up again.  (The acknowledgement
\* catchUp waits for before it starts the job is the one the job begins with.)
CatchUp(m) ==
  /\ gate # "down" /\ saw.on = m /\ saw' = NoSight /\ m \in todo /\ todo' = todo \ {m}
  /\ IF saw.over \/ m # saw.last
     THEN /\ entry' = [entry EXCEPT ![m] = "finalized"]
          /\ UNCHANGED <<job, record, files, belated>>
          /\ IF saw.over THEN SettleBegins(<<"recover", 0>>) /\ catching' = TRUE
                          ELSE UNCHANGED <<settling, stopping, catching, waits>>
          /\ UNCHANGED <<runtime, loop, coord, mon>>
     ELSE IF m \in stale
     THEN /\ WritesBack(m) /\ SettleBegins(<<"recover", 0>>) /\ catching' = TRUE
          /\ UNCHANGED <<job, record, files, runtime, loop, coord, mon, belated>>
     ELSE /\ WritesBack(m) /\ MarksBelated(m)
          /\ EnsureRecord /\ job' = Started(m, settling') /\ Supervise(prog', req', Fenced)
          /\ UNCHANGED catching
  /\ UNCHANGED <<platform, newest, fence, turn, process, cancellation, lock, stale, tools,
                 revoked>>

CatchUpSettles ==
  /\ gate # "down" /\ catching /\ CanSettle(<<"recover", 0>>) /\ Settle /\ catching' = FALSE
  /\ UNCHANGED <<platform, registry, process, cancellation, settling, lock, job, mon, todo,
                 stale, saw, tools, history>>

\* Then it looks for active tasks, and reads one whose latest message is not known.
Discovers ==
  /\ gate # "down" /\ todo = {} /\ ~catching /\ saw = NoSight
  /\ ~Stopped /\ entry[sent] = "absent"
  /\ saw' = [on |-> sent, over |-> FALSE, last |-> sent]
  /\ UNCHANGED <<platform, registry, record, files, process, cancellation, settling, lock, job,
                 supervisor, todo, stale, catching, tools, history>>

\* The message is taken up, unless a webhook has brought it meanwhile.
Discover(m) ==
  /\ gate # "down" /\ todo = {} /\ saw.on = m /\ saw' = NoSight
  /\ IF entry[m] # "absent"
     THEN UNCHANGED <<entry, newest, job, record, files, settling, supervisor, belated>>
     ELSE /\ entry' = [entry EXCEPT ![m] = "queued"] /\ newest' = m /\ EnsureRecord
          /\ job' = Started(m, settling') /\ MarksBelated(m)
          /\ Supervise(prog', req', FALSE)
  /\ UNCHANGED <<platform, fence, turn, process, cancellation, lock, todo, stale, catching,
                 tools, revoked>>

Close ==
  /\ gate = "up" /\ gate' = "closing"
  /\ UNCHANGED <<platform, registry, record, files, starts, cancellation, settling, lock, job,
                 supervisor, recovery, tools, history>>

\* close aborts the turns of the jobs it finds once the admissions are done ...
CloseAborts ==
  /\ gate = "closing" /\ adm = "free"
  /\ \E m \in Msgs : job[m] # "none" /\ turn[m] \in {"live", "answered"}
  /\ turn' = [m \in Msgs |-> IF job[m] = "none" THEN turn[m] ELSE Aborted[m]]
  /\ UNCHANGED <<platform, entry, newest, fence, record, files, process, cancellation, settling,
                 lock, job, supervisor, recovery, tools, history>>

\* What a process keeps in memory is gone; a webhook that was not answered comes again.
Forget ==
  /\ gate' = "down" /\ adm' = "free" /\ guest' = 0 /\ awaits' = {}
  /\ barred' = FALSE /\ keys' = {}
  /\ settling' = FALSE /\ lock' = FALSE /\ job' = [m \in Msgs |-> "none"]
  /\ runtime' = FALSE /\ stopping' = FALSE /\ loop' = "off" /\ coord' = {} /\ mon' = "watch"
  /\ waits' = {} /\ todo' = {} /\ stale' = {} /\ catching' = FALSE /\ saw' = NoSight
  /\ cancelHook' = (IF adm \in {"settle", "abort", "wait"} THEN "pending" ELSE cancelHook)
  /\ UNCHANGED <<sent, registry, record, files, starts, tools, history>>

\* ... and ends when jobs, locks and loops have.
CloseEnds ==
  /\ gate = "closing" /\ adm = "free" /\ ~lock /\ loop = "off" /\ \A m \in Msgs : job[m] = "none"
  /\ Forget /\ UNCHANGED <<task, greeted>>

\* A crash: requests under way have landed, or not.
Crash ==
  /\ gate # "down" /\ Forget
  /\ \/ UNCHANGED <<task, greeted>>
     \/ /\ ~Stopped /\ \E m \in Msgs : job[m] = "sending"
        /\ task' = "closed" /\ UNCHANGED greeted
     \/ /\ ~Stopped /\ \E m \in Msgs : job[m] = "greetSend"
        /\ greeted' = greeted + 1 /\ UNCHANGED task

-----------------------------------------------------------------------------
Job(m) ==
  \/ JobLeaves(m) \/ GreetBegin(m) \/ GreetRead(m) \/ GreetSent(m) \/ Check(m) \/ JobSettles(m)
  \/ JobStarts(m) \/ JobAnswers(m) \/ JobSilent(m) \/ JobOutcome(m) \/ JobSent(m)
  \/ JobLast(m)
Progress == LoopDue \/ EmitReady \/ EmitSent
Monitor == \/ MonitorStops \/ MonitorSettles \/ MonitorResumes
           \/ \E t \in Token : MonitorDrops(t)
Tool(m) == ToolProceeds(m) \/ ToolGivesUp(m) \/ ToolSent(m)
Cancel == CancelSettles \/ CancelAborts \/ CancelEnds
Recover == \/ Discovers \/ CatchUpSettles
           \/ \E m \in Msgs : CatchUpReads(m) \/ CatchUp(m) \/ Discover(m)

TaskNext ==
  \/ CallerWrites \/ CallerCancels \/ Start \/ Close \/ CloseAborts \/ CloseEnds \/ Crash
  \/ Progress \/ Monitor \/ CancelBegin \/ Cancel \/ Recover
  \/ \E m \in Msgs : \/ AdmitBegin(m) \/ AdmitEnd(m) \/ Job(m) \/ TurnEnds(m)
                     \/ ToolCalls(m) \/ Tool(m)

TaskSpec == TaskInit /\ [][TaskNext]_taskVars

\* Promises settle and timers fire; the host ends the turns it is given; the task lock is
\* first come, first served; the acknowledgement does not fail for ever.
GreetFails(m) == job[m] = "greetSend" /\ job'[m] = "check"

TaskFairness ==
  /\ WF_taskVars(Progress) /\ SF_taskVars(Cancel) /\ SF_taskVars(MonitorSettles)
  /\ SF_taskVars(CatchUpSettles) /\ WF_taskVars(CloseAborts)
  /\ WF_taskVars(\E m \in Msgs : AdmitEnd(m))
  /\ \A m \in Msgs : /\ SF_taskVars(Job(m)) /\ WF_taskVars(TurnEnds(m)) /\ WF_taskVars(Tool(m))
                     /\ <>[][~GreetFails(m)]_taskVars

-----------------------------------------------------------------------------
(* Properties                                                              *)

\* No progress update is under way while the fenced outcome of the newest message is,
\* whoever sends it: drain requests, acknowledgements, stop flag and fence keep them apart.
NoProgressDuringOutcome ==
  loop = "send" =>
    \A m \in Msgs : Newest(m) /\ fence[m] => tool[m] # "sending" /\ job[m] # "sending"

\* Once the cancellation has been handled, no canceled message is at work or will be; the
\* exception is one that catchUp puts to work from what it had read before.
CanceledStays ==
  cancelHook = "done" /\ adm = "free"
    => \A m \in revoked \ belated : job[m] \notin {"turn", "quiet", "sending"}

\* A message whose outcome was fenced is not worked on again, whatever webhooks, restarts
\* and catch-ups follow; the exception is a fence set after catchUp took its snapshot.
OutcomeIsFinal ==
  [][\A m \in Msgs :
       fence[m] /\ m \notin todo \ stale /\ job[m] = "none" => job'[m] = "none"]_taskVars

\* Every job ends, and when no more messages come none is left: nobody waits for ever on
\* a lock, a loop, a drain or a cancellation.
EveryJobEnds == (\E m \in Msgs : job[m] # "none") ~> (\A m \in Msgs : job[m] = "none")
=============================================================================
