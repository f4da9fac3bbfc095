--------------------------- MODULE InboundProofs ---------------------------
(***************************************************************************)
(* What comes in, for any number of messages, deliveries, requests and      *)
(* gateways: A2A tasks, webhooks, the controls of a conversation, and the   *)
(* subscriptions that make it come.                                         *)
(***************************************************************************)
EXTENDS A2ATask, Ingress, Controls, Subscriptions, FiniteSetTheorems, TLAPS

-----------------------------------------------------------------------------
(***************************************************************************)
(* A2A tasks: an invariant of the drains, fences and cancellations.        *)
(***************************************************************************)
\* The part of the type invariant the argument needs.
Shapes ==
  /\ sent \in 0 .. MaxMsg /\ (sent = 0 => Stopped)
  /\ entry \in [Msgs -> EntryState] /\ fence \in [Msgs -> BOOLEAN]
  /\ turn \in [Msgs -> TurnState] /\ job \in [Msgs -> JobState]
  /\ tool \in [Msgs -> {"idle", "waiting", "sending", "done"}]
  /\ newest \in 0 .. MaxMsg

\* A message has a job, a turn and a fence only once it is in the registry, which
\* holds nothing the caller has not sent; nor does anybody work from a read of more.
Known == \A m \in Msgs :
           /\ job[m] # "none" \/ turn[m] # "none" \/ fence[m] \/ m \in todo => entry[m] # "absent"
           /\ entry[m] # "absent" \/ saw.on = m => m <= sent
           /\ adm = "message" /\ guest = m => m <= sent

\* No outcome tool is at work once the turn's answer is there, and the default
\* outcome is not begun without the fence.
Fencing == \A m \in Msgs : /\ turn[m] = "answered" => tool[m] \in {"idle", "done"}
                           /\ job[m] \in {"quiet", "sending"} => fence[m]

\* While the loop holds the task lock, whoever has fenced the newest message has
\* not been told yet that the loop is at rest.
Unhurried ==
  loop \in {"held", "send"} =>
    \A m \in Msgs : Newest(m) /\ fence[m] =>
      /\ tool[m] # "sending" /\ job[m] # "sending"
      /\ tool[m] = "waiting" => <<"tool", m>> \notin ack
      /\ job[m] = "quiet" => <<"job", m>> \in waits

\* The cancellation waits for every job of a message it revokes; the task is
\* stopped until the caller writes again, and no revoked message is the latest then.
\* None is admitted any more; catchUp alone may have read the task before.
Canceling == adm \in {"settle", "abort", "wait"}
Barred ==
  /\ revoked \subseteq 1 .. sent
  /\ cancelHook = "none" => revoked = {}
  /\ sent \in revoked => Stopped
  /\ Canceling => cancelHook = "done"
  /\ cancelHook = "done" /\ adm = "message" => guest \notin revoked
  /\ cancelHook = "done"
       => \A m \in revoked \ belated : job[m] # "none" => Canceling /\ m \in awaits

TaskInv == Shapes /\ Known /\ Fencing /\ Unhurried /\ Barred

\* What OutcomeIsFinal says of one step.
Final == \A m \in Msgs : fence[m] /\ m \notin todo \ stale /\ job[m] = "none" => job'[m] = "none"

\* The caller sends another message.
LEMMA CallerWritesStep ==
  ASSUME TaskInv, CallerWrites
  PROVE  TaskInv' /\ Final
<1>1. Shapes'
  BY TaskAssumption DEF Shapes, Stopped, TaskInv, Msgs, EntryState, TurnState, JobState,
       registry, record, files, process, cancellation, supervisor, recovery, tools, history,
       CallerWrites
<1>2. Known'
  BY DEF Known, TaskInv, Shapes, Msgs, EntryState, TurnState, JobState,
       registry, record, files, process, cancellation, supervisor, recovery, tools, history,
       CallerWrites
<1>3. Fencing'
  BY DEF Fencing, TaskInv, Shapes, Msgs, EntryState, TurnState, JobState,
       registry, record, files, process, cancellation, supervisor, recovery, tools, history,
       CallerWrites
<1>4. Unhurried'
  BY DEF Unhurried, Newest, Fenced, TaskInv, Shapes, Msgs, EntryState,
       TurnState, JobState, registry, record, files, process, cancellation, supervisor,
       recovery, tools, history, CallerWrites
<1>5. Barred'
  BY DEF Barred, Canceling, Stopped, TaskInv, Shapes, Msgs, EntryState,
       TurnState, JobState, registry, record, files, process, cancellation, supervisor,
       recovery, tools, history, CallerWrites
<1>6. Final
  BY DEF Final, Known, TaskInv, Shapes, Msgs, EntryState, TurnState, JobState,
       registry, record, files, process, cancellation, supervisor, recovery, tools, history,
       CallerWrites
<1> QED
  BY <1>1, <1>2, <1>3, <1>4, <1>5, <1>6 DEF TaskInv

\* The caller cancels the task.
LEMMA CallerCancelsStep ==
  ASSUME TaskInv, CallerCancels
  PROVE  TaskInv' /\ Final
<1>1. Shapes'
  BY DEF Shapes, Stopped, TaskInv, Msgs, EntryState, TurnState, JobState,
       registry, record, files, process, cancellation, supervisor, recovery, tools,
       CallerCancels
<1>2. Known'
  BY DEF Known, TaskInv, Shapes, Msgs, EntryState, TurnState, JobState,
       registry, record, files, process, cancellation, supervisor, recovery, tools,
       CallerCancels
<1>3. Fencing'
  BY DEF Fencing, TaskInv, Shapes, Msgs, EntryState, TurnState, JobState,
       registry, record, files, process, cancellation, supervisor, recovery, tools,
       CallerCancels
<1>4. Unhurried'
  BY DEF Unhurried, Newest, Fenced, TaskInv, Shapes, Msgs, EntryState,
       TurnState, JobState, registry, record, files, process, cancellation, supervisor,
       recovery, tools, CallerCancels
<1>5. Barred'
  BY DEF Barred, Canceling, Stopped, TaskInv, Shapes, Msgs, EntryState,
       TurnState, JobState, registry, record, files, process, cancellation, supervisor,
       recovery, tools, CallerCancels
<1>6. Final
  BY DEF Final, Known, TaskInv, Shapes, Msgs, EntryState, TurnState, JobState,
       registry, record, files, process, cancellation, supervisor, recovery, tools,
       CallerCancels
<1> QED
  BY <1>1, <1>2, <1>3, <1>4, <1>5, <1>6 DEF TaskInv

\* A webhook is admitted in turn: the task is read.
LEMMA AdmitBeginStep ==
  ASSUME NEW m \in Msgs, TaskInv, AdmitBegin(m)
  PROVE  TaskInv' /\ Final
<1>1. Shapes'
  BY DEF Shapes, Stopped, TaskInv, Msgs, EntryState, TurnState, JobState,
       platform, registry, record, files, process, supervisor, recovery, tools, history,
       AdmitBegin
<1>2. Known'
  BY DEF Known, TaskInv, Shapes, Msgs, EntryState, TurnState, JobState,
       platform, registry, record, files, process, supervisor, recovery, tools, history,
       AdmitBegin
<1>3. Fencing'
  BY DEF Fencing, TaskInv, Shapes, Msgs, EntryState, TurnState, JobState,
       platform, registry, record, files, process, supervisor, recovery, tools, history,
       AdmitBegin
<1>4. Unhurried'
  BY DEF Unhurried, Newest, Fenced, TaskInv, Shapes, Msgs, EntryState,
       TurnState, JobState, platform, registry, record, files, process, supervisor, recovery,
       tools, history, AdmitBegin
<1>5. Barred'
  BY DEF Barred, Canceling, Stopped, TaskInv, Shapes, Msgs, EntryState,
       TurnState, JobState, platform, registry, record, files, process, supervisor, recovery,
       tools, history, AdmitBegin
<1>6. Final
  BY DEF Final, Known, TaskInv, Shapes, Msgs, EntryState, TurnState, JobState,
       platform, registry, record, files, process, supervisor, recovery, tools, history,
       AdmitBegin
<1> QED
  BY <1>1, <1>2, <1>3, <1>4, <1>5, <1>6 DEF TaskInv

\* A new message gets an entry and a job: it was not there, and has no fence.
LEMMA AdmitEndStep ==
  ASSUME NEW m \in Msgs, TaskInv, AdmitEnd(m)
  PROVE  TaskInv' /\ Final
<1>1. Shapes'
  BY DEF Shapes, Stopped, TaskInv, Msgs, EntryState, TurnState, JobState,
       platform, record, files, process, supervisor, recovery, tools, history, AdmitEnd,
       Admissible, EnsureRecord, Started
<1>2. Known'
  BY TaskAssumption DEF Known, TaskInv, Shapes, Msgs, EntryState, TurnState, JobState,
       platform, record, files, process, supervisor, recovery, tools, history, AdmitEnd,
       Admissible, EnsureRecord, Started
<1>3. Fencing'
  BY DEF Fencing, TaskInv, Shapes, Msgs, EntryState, TurnState, JobState,
       platform, record, files, process, supervisor, recovery, tools, history, AdmitEnd,
       Admissible, EnsureRecord, Started
<1>4. Unhurried'
  <2>1. \A k \in Msgs : Newest(k)' => Newest(k) \/ ~fence[k]
    BY DEF Newest, Known, TaskInv, Shapes, Msgs, EntryState, TurnState,
         JobState, platform, record, files, process, supervisor, recovery, tools, history,
         AdmitEnd, Admissible, EnsureRecord, Started
  <2> QED
    BY <2>1, TaskAssumption DEF Unhurried, TaskInv, Shapes, Msgs, EntryState, TurnState,
         JobState, platform, record, files, process, supervisor, recovery, tools, history,
         AdmitEnd, Admissible, EnsureRecord, Started
<1>5. Barred'
  BY TaskAssumption DEF Barred, Canceling, Stopped, TaskInv, Shapes, Msgs, EntryState,
       TurnState, JobState, platform, record, files, process, supervisor, recovery, tools,
       history, AdmitEnd, Admissible, EnsureRecord, Started
<1>6. Final
  BY DEF Final, Known, TaskInv, Shapes, Msgs, EntryState, TurnState, JobState,
       platform, record, files, process, supervisor, recovery, tools, history, AdmitEnd,
       Admissible, EnsureRecord, Started
<1> QED
  BY <1>1, <1>2, <1>3, <1>4, <1>5, <1>6 DEF TaskInv

\* A chain ends with the gateway.
LEMMA JobLeavesStep ==
  ASSUME NEW m \in Msgs, TaskInv, JobLeaves(m)
  PROVE  TaskInv' /\ Final
<1>1. Shapes'
  BY DEF Shapes, Stopped, TaskInv, Msgs, EntryState, TurnState, JobState,
       platform, registry, record, files, process, cancellation, supervisor, recovery, tools,
       history, JobLeaves
<1>2. Known'
  BY DEF Known, TaskInv, Shapes, Msgs, EntryState, TurnState, JobState,
       platform, registry, record, files, process, cancellation, supervisor, recovery, tools,
       history, JobLeaves
<1>3. Fencing'
  BY DEF Fencing, TaskInv, Shapes, Msgs, EntryState, TurnState, JobState,
       platform, registry, record, files, process, cancellation, supervisor, recovery, tools,
       history, JobLeaves
<1>4. Unhurried'
  BY DEF Unhurried, Newest, Fenced, TaskInv, Shapes, Msgs, EntryState,
       TurnState, JobState, platform, registry, record, files, process, cancellation,
       supervisor, recovery, tools, history, JobLeaves
<1>5. Barred'
  BY DEF Barred, Canceling, Stopped, TaskInv, Shapes, Msgs, EntryState,
       TurnState, JobState, platform, registry, record, files, process, cancellation,
       supervisor, recovery, tools, history, JobLeaves
<1>6. Final
  BY DEF Final, Known, TaskInv, Shapes, Msgs, EntryState, TurnState, JobState,
       platform, registry, record, files, process, cancellation, supervisor, recovery, tools,
       history, JobLeaves
<1> QED
  BY <1>1, <1>2, <1>3, <1>4, <1>5, <1>6 DEF TaskInv

\* The acknowledgement takes the task lock.
LEMMA GreetBeginStep ==
  ASSUME NEW m \in Msgs, TaskInv, GreetBegin(m)
  PROVE  TaskInv' /\ Final
<1>1. Shapes'
  BY DEF Shapes, Stopped, TaskInv, Msgs, EntryState, TurnState, JobState,
       platform, registry, process, cancellation, supervisor, recovery, tools, history,
       GreetBegin, EnsureRecord
<1>2. Known'
  BY DEF Known, TaskInv, Shapes, Msgs, EntryState, TurnState, JobState,
       platform, registry, process, cancellation, supervisor, recovery, tools, history,
       GreetBegin, EnsureRecord
<1>3. Fencing'
  BY DEF Fencing, TaskInv, Shapes, Msgs, EntryState, TurnState, JobState,
       platform, registry, process, cancellation, supervisor, recovery, tools, history,
       GreetBegin, EnsureRecord
<1>4. Unhurried'
  BY ZenonT(40) DEF Unhurried, Newest, Fenced, TaskInv, Shapes, Msgs, EntryState,
       TurnState, JobState, platform, registry, process, cancellation, supervisor, recovery,
       tools, history, GreetBegin, EnsureRecord
<1>5. Barred'
  BY TaskAssumption DEF Barred, Canceling, Stopped, TaskInv, Shapes, Msgs, EntryState,
       TurnState, JobState, platform, registry, process, cancellation, supervisor, recovery,
       tools, history, GreetBegin, EnsureRecord
<1>6. Final
  BY DEF Final, Known, TaskInv, Shapes, Msgs, EntryState, TurnState, JobState,
       platform, registry, process, cancellation, supervisor, recovery, tools, history,
       GreetBegin, EnsureRecord
<1> QED
  BY <1>1, <1>2, <1>3, <1>4, <1>5, <1>6 DEF TaskInv

\* It has read the task.
LEMMA GreetReadStep ==
  ASSUME NEW m \in Msgs, TaskInv, GreetRead(m)
  PROVE  TaskInv' /\ Final
<1>1. Shapes'
  BY DEF Shapes, Stopped, TaskInv, Msgs, EntryState, TurnState, JobState,
       platform, registry, files, process, cancellation, supervisor, recovery, tools, history,
       GreetRead
<1>2. Known'
  BY DEF Known, TaskInv, Shapes, Msgs, EntryState, TurnState, JobState,
       platform, registry, files, process, cancellation, supervisor, recovery, tools, history,
       GreetRead
<1>3. Fencing'
  BY DEF Fencing, TaskInv, Shapes, Msgs, EntryState, TurnState, JobState,
       platform, registry, files, process, cancellation, supervisor, recovery, tools, history,
       GreetRead
<1>4. Unhurried'
  BY DEF Unhurried, Newest, Fenced, TaskInv, Shapes, Msgs, EntryState,
       TurnState, JobState, platform, registry, files, process, cancellation, supervisor,
       recovery, tools, history, GreetRead
<1>5. Barred'
  BY DEF Barred, Canceling, Stopped, TaskInv, Shapes, Msgs, EntryState,
       TurnState, JobState, platform, registry, files, process, cancellation, supervisor,
       recovery, tools, history, GreetRead
<1>6. Final
  BY DEF Final, Known, TaskInv, Shapes, Msgs, EntryState, TurnState, JobState,
       platform, registry, files, process, cancellation, supervisor, recovery, tools, history,
       GreetRead
<1> QED
  BY <1>1, <1>2, <1>3, <1>4, <1>5, <1>6 DEF TaskInv

\* It has landed, or not.
LEMMA GreetSentStep ==
  ASSUME NEW m \in Msgs, TaskInv, GreetSent(m)
  PROVE  TaskInv' /\ Final
<1>1. Shapes'
  BY DEF Shapes, Stopped, TaskInv, Msgs, EntryState, TurnState, JobState,
       registry, record, files, process, cancellation, supervisor, recovery, tools, history,
       GreetSent
<1>2. Known'
  BY DEF Known, TaskInv, Shapes, Msgs, EntryState, TurnState, JobState,
       registry, record, files, process, cancellation, supervisor, recovery, tools, history,
       GreetSent
<1>3. Fencing'
  BY DEF Fencing, TaskInv, Shapes, Msgs, EntryState, TurnState, JobState,
       registry, record, files, process, cancellation, supervisor, recovery, tools, history,
       GreetSent
<1>4. Unhurried'
  BY DEF Unhurried, Newest, Fenced, TaskInv, Shapes, Msgs, EntryState,
       TurnState, JobState, registry, record, files, process, cancellation, supervisor,
       recovery, tools, history, GreetSent
<1>5. Barred'
  BY TaskAssumption DEF Barred, Canceling, Stopped, TaskInv, Shapes, Msgs, EntryState,
       TurnState, JobState, registry, record, files, process, cancellation, supervisor,
       recovery, tools, history, GreetSent
<1>6. Final
  BY DEF Final, Known, TaskInv, Shapes, Msgs, EntryState, TurnState, JobState,
       registry, record, files, process, cancellation, supervisor, recovery, tools, history,
       GreetSent
<1> QED
  BY <1>1, <1>2, <1>3, <1>4, <1>5, <1>6 DEF TaskInv

\* Without it the job gives up, settles or retries.
LEMMA CheckStep ==
  ASSUME NEW m \in Msgs, TaskInv, Check(m)
  PROVE  TaskInv' /\ Final
<1>1. Shapes'
  BY DEF Shapes, Stopped, TaskInv, Msgs, EntryState, TurnState, JobState,
       platform, registry, record, files, process, cancellation, recovery, tools, history,
       Check, SettleBegins, Drain
<1>2. Known'
  BY DEF Known, TaskInv, Shapes, Msgs, EntryState, TurnState, JobState,
       platform, registry, record, files, process, cancellation, recovery, tools, history,
       Check, SettleBegins, Drain
<1>3. Fencing'
  BY ZenonT(40) DEF Fencing, TaskInv, Shapes, Msgs, EntryState, TurnState, JobState,
       platform, registry, record, files, process, cancellation, recovery, tools, history,
       Check, SettleBegins, Drain
<1>4. Unhurried'
  BY ZenonT(40) DEF Unhurried, Newest, Fenced, TaskInv, Shapes, Msgs, EntryState,
       TurnState, JobState, platform, registry, record, files, process, cancellation, recovery,
       tools, history, Check, SettleBegins, Drain
<1>5. Barred'
  BY TaskAssumption DEF Barred, Canceling, Stopped, TaskInv, Shapes, Msgs, EntryState,
       TurnState, JobState, platform, registry, record, files, process, cancellation, recovery,
       tools, history, Check, SettleBegins, Drain
<1>6. Final
  BY DEF Final, Known, TaskInv, Shapes, Msgs, EntryState, TurnState, JobState,
       platform, registry, record, files, process, cancellation, recovery, tools, history,
       Check, SettleBegins, Drain
<1> QED
  BY <1>1, <1>2, <1>3, <1>4, <1>5, <1>6 DEF TaskInv

\* The job settles the task.
LEMMA JobSettlesStep ==
  ASSUME NEW m \in Msgs, TaskInv, JobSettles(m)
  PROVE  TaskInv' /\ Final
<1>1. Shapes'
  BY DEF Shapes, Stopped, TaskInv, Msgs, EntryState, TurnState, JobState,
       platform, process, cancellation, recovery, tools, history, JobSettles, Settle, CanSettle
<1>2. Known'
  BY DEF Known, TaskInv, Shapes, Msgs, EntryState, TurnState, JobState,
       platform, process, cancellation, recovery, tools, history, JobSettles, Settle, CanSettle
<1>3. Fencing'
  BY DEF Fencing, TaskInv, Shapes, Msgs, EntryState, TurnState, JobState,
       platform, process, cancellation, recovery, tools, history, JobSettles, Settle, CanSettle
<1>4. Unhurried'
  <2>1. \A k \in Msgs : Newest(k)' => Newest(k)
    BY DEF Newest, Known, TaskInv, Shapes, Msgs, EntryState, TurnState,
         JobState, platform, process, cancellation, recovery, tools, history, JobSettles,
         Settle, CanSettle
  <2> QED
    BY <2>1, TaskAssumption DEF Unhurried, TaskInv, Shapes, Msgs, EntryState, TurnState,
         JobState, platform, process, cancellation, recovery, tools, history, JobSettles,
         Settle, CanSettle
<1>5. Barred'
  BY DEF Barred, Canceling, Stopped, TaskInv, Shapes, Msgs, EntryState,
       TurnState, JobState, platform, process, cancellation, recovery, tools, history,
       JobSettles, Settle, CanSettle
<1>6. Final
  BY DEF Final, Known, TaskInv, Shapes, Msgs, EntryState, TurnState, JobState,
       platform, process, cancellation, recovery, tools, history, JobSettles, Settle, CanSettle
<1> QED
  BY <1>1, <1>2, <1>3, <1>4, <1>5, <1>6 DEF TaskInv

\* The turn begins.
LEMMA JobStartsStep ==
  ASSUME NEW m \in Msgs, TaskInv, JobStarts(m)
  PROVE  TaskInv' /\ Final
<1>1. Shapes'
  BY DEF Shapes, Stopped, TaskInv, Msgs, EntryState, TurnState, JobState,
       platform, record, files, process, cancellation, supervisor, recovery, history,
       JobStarts, Supervise
<1>2. Known'
  BY DEF Known, TaskInv, Shapes, Msgs, EntryState, TurnState, JobState,
       platform, record, files, process, cancellation, supervisor, recovery, history,
       JobStarts, Supervise
<1>3. Fencing'
  BY DEF Fencing, TaskInv, Shapes, Msgs, EntryState, TurnState, JobState,
       platform, record, files, process, cancellation, supervisor, recovery, history,
       JobStarts, Supervise
<1>4. Unhurried'
  <2>1. \A k \in Msgs : Newest(k)' => Newest(k)
    BY DEF Newest, Known, TaskInv, Shapes, Msgs, EntryState, TurnState,
         JobState, platform, record, files, process, cancellation, supervisor, recovery,
         history, JobStarts, Supervise
  <2> QED
    BY <2>1, TaskAssumption DEF Unhurried, Fenced, TaskInv, Shapes, Msgs, EntryState,
         TurnState, JobState, platform, record, files, process, cancellation, supervisor,
         recovery, history, JobStarts, Supervise
<1>5. Barred'
  BY DEF Barred, Canceling, Stopped, TaskInv, Shapes, Msgs, EntryState,
       TurnState, JobState, platform, record, files, process, cancellation, supervisor,
       recovery, history, JobStarts, Supervise
<1>6. Final
  BY DEF Final, Known, TaskInv, Shapes, Msgs, EntryState, TurnState, JobState,
       platform, record, files, process, cancellation, supervisor, recovery, history,
       JobStarts, Supervise
<1> QED
  BY <1>1, <1>2, <1>3, <1>4, <1>5, <1>6 DEF TaskInv

\* The turn ends; its tools have ended before.
LEMMA TurnEndsStep ==
  ASSUME NEW m \in Msgs, TaskInv, TurnEnds(m)
  PROVE  TaskInv' /\ Final
<1>1. Shapes'
  BY DEF Shapes, Stopped, TaskInv, Msgs, EntryState, TurnState, JobState,
       platform, record, files, process, cancellation, supervisor, recovery, tools, history,
       TurnEnds
<1>2. Known'
  BY DEF Known, TaskInv, Shapes, Msgs, EntryState, TurnState, JobState,
       platform, record, files, process, cancellation, supervisor, recovery, tools, history,
       TurnEnds
<1>3. Fencing'
  BY DEF Fencing, TaskInv, Shapes, Msgs, EntryState, TurnState, JobState,
       platform, record, files, process, cancellation, supervisor, recovery, tools, history,
       TurnEnds
<1>4. Unhurried'
  BY DEF Unhurried, Newest, Fenced, TaskInv, Shapes, Msgs, EntryState,
       TurnState, JobState, platform, record, files, process, cancellation, supervisor,
       recovery, tools, history, TurnEnds
<1>5. Barred'
  BY DEF Barred, Canceling, Stopped, TaskInv, Shapes, Msgs, EntryState,
       TurnState, JobState, platform, record, files, process, cancellation, supervisor,
       recovery, tools, history, TurnEnds
<1>6. Final
  BY DEF Final, Known, TaskInv, Shapes, Msgs, EntryState, TurnState, JobState,
       platform, record, files, process, cancellation, supervisor, recovery, tools, history,
       TurnEnds
<1> QED
  BY <1>1, <1>2, <1>3, <1>4, <1>5, <1>6 DEF TaskInv

\* The default outcome sets the fence and asks for a drain, with a token nobody has answered.
LEMMA JobAnswersStep ==
  ASSUME NEW m \in Msgs, TaskInv, JobAnswers(m)
  PROVE  TaskInv' /\ Final
<1>1. Shapes'
  BY DEF Shapes, Stopped, TaskInv, Msgs, EntryState, TurnState, JobState,
       platform, record, process, cancellation, recovery, tools, history, JobAnswers, AsksAnew,
       Drain
<1>2. Known'
  BY DEF Known, TaskInv, Shapes, Msgs, EntryState, TurnState, JobState,
       platform, record, process, cancellation, recovery, tools, history, JobAnswers, AsksAnew,
       Drain
<1>3. Fencing'
  BY DEF Fencing, TaskInv, Shapes, Msgs, EntryState, TurnState, JobState,
       platform, record, process, cancellation, recovery, tools, history, JobAnswers, AsksAnew,
       Drain
<1>4. Unhurried'
  <2>1. \A k \in Msgs : Newest(k)' = Newest(k)
    BY DEF Newest, TaskInv, Shapes, Msgs, EntryState, TurnState, JobState,
         platform, record, process, cancellation, recovery, tools, history, JobAnswers,
         AsksAnew, Drain
  <2>2. tool[m] \in {"idle", "done"} /\ (loop # "off" => <<"job", m>> \in waits')
    BY DEF Fencing, TaskInv, Shapes, Msgs, EntryState, TurnState, JobState,
         platform, record, process, cancellation, recovery, tools, history, JobAnswers,
         AsksAnew, Drain
  <2>3. \A k \in Msgs : <<"tool", k>> \in ack' => <<"tool", k>> \in ack
    BY DEF TaskInv, Shapes, Msgs, EntryState, TurnState, JobState, platform,
         record, process, cancellation, recovery, tools, history, JobAnswers, AsksAnew, Drain
  <2> QED
    BY <2>1, <2>2, <2>3, TaskAssumption DEF Unhurried, TaskInv, Shapes, Msgs, EntryState,
         TurnState, JobState, platform, record, process, cancellation, recovery, tools,
         history, JobAnswers, AsksAnew, Drain
<1>5. Barred'
  BY DEF Barred, Canceling, Stopped, TaskInv, Shapes, Msgs, EntryState,
       TurnState, JobState, platform, record, process, cancellation, recovery, tools, history,
       JobAnswers, AsksAnew, Drain
<1>6. Final
  BY DEF Final, Known, TaskInv, Shapes, Msgs, EntryState, TurnState, JobState,
       platform, record, process, cancellation, recovery, tools, history, JobAnswers, AsksAnew,
       Drain
<1> QED
  BY <1>1, <1>2, <1>3, <1>4, <1>5, <1>6 DEF TaskInv

\* There is no answer to send.
LEMMA JobSilentStep ==
  ASSUME NEW m \in Msgs, TaskInv, JobSilent(m)
  PROVE  TaskInv' /\ Final
<1>1. Shapes'
  BY DEF Shapes, Stopped, TaskInv, Msgs, EntryState, TurnState, JobState,
       platform, record, files, process, cancellation, supervisor, recovery, tools, history,
       JobSilent
<1>2. Known'
  BY DEF Known, TaskInv, Shapes, Msgs, EntryState, TurnState, JobState,
       platform, record, files, process, cancellation, supervisor, recovery, tools, history,
       JobSilent
<1>3. Fencing'
  BY DEF Fencing, TaskInv, Shapes, Msgs, EntryState, TurnState, JobState,
       platform, record, files, process, cancellation, supervisor, recovery, tools, history,
       JobSilent
<1>4. Unhurried'
  <2>1. \A k \in Msgs : Newest(k)' => Newest(k)
    BY DEF Newest, Known, TaskInv, Shapes, Msgs, EntryState, TurnState,
         JobState, platform, record, files, process, cancellation, supervisor, recovery, tools,
         history, JobSilent
  <2> QED
    BY <2>1, TaskAssumption DEF Unhurried, TaskInv, Shapes, Msgs, EntryState, TurnState,
         JobState, platform, record, files, process, cancellation, supervisor, recovery, tools,
         history, JobSilent
<1>5. Barred'
  BY TaskAssumption DEF Barred, Canceling, Stopped, TaskInv, Shapes, Msgs, EntryState,
       TurnState, JobState, platform, record, files, process, cancellation, supervisor,
       recovery, tools, history, JobSilent
<1>6. Final
  BY DEF Final, Known, TaskInv, Shapes, Msgs, EntryState, TurnState, JobState,
       platform, record, files, process, cancellation, supervisor, recovery, tools, history,
       JobSilent
<1> QED
  BY <1>1, <1>2, <1>3, <1>4, <1>5, <1>6 DEF TaskInv

\* The outcome is sent, once the drain was answered.
LEMMA JobOutcomeStep ==
  ASSUME NEW m \in Msgs, TaskInv, JobOutcome(m)
  PROVE  TaskInv' /\ Final
<1>1. Shapes'
  BY DEF Shapes, Stopped, TaskInv, Msgs, EntryState, TurnState, JobState,
       platform, record, process, cancellation, supervisor, recovery, tools, history,
       JobOutcome
<1>2. Known'
  BY DEF Known, TaskInv, Shapes, Msgs, EntryState, TurnState, JobState,
       platform, record, process, cancellation, supervisor, recovery, tools, history,
       JobOutcome
<1>3. Fencing'
  BY DEF Fencing, TaskInv, Shapes, Msgs, EntryState, TurnState, JobState,
       platform, record, process, cancellation, supervisor, recovery, tools, history,
       JobOutcome
<1>4. Unhurried'
  <2>1. \A k \in Msgs : Newest(k)' => Newest(k)
    BY DEF Newest, Known, TaskInv, Shapes, Msgs, EntryState, TurnState,
         JobState, platform, record, process, cancellation, supervisor, recovery, tools,
         history, JobOutcome
  <2> QED
    BY <2>1, TaskAssumption DEF Unhurried, TaskInv, Shapes, Msgs, EntryState, TurnState,
         JobState, platform, record, process, cancellation, supervisor, recovery, tools,
         history, JobOutcome
<1>5. Barred'
  BY TaskAssumption DEF Barred, Canceling, Stopped, TaskInv, Shapes, Msgs, EntryState,
       TurnState, JobState, platform, record, process, cancellation, supervisor, recovery,
       tools, history, JobOutcome
<1>6. Final
  BY DEF Final, Known, TaskInv, Shapes, Msgs, EntryState, TurnState, JobState,
       platform, record, process, cancellation, supervisor, recovery, tools, history,
       JobOutcome
<1> QED
  BY <1>1, <1>2, <1>3, <1>4, <1>5, <1>6 DEF TaskInv

\* It has landed, or not.
LEMMA JobSentStep ==
  ASSUME NEW m \in Msgs, TaskInv, JobSent(m)
  PROVE  TaskInv' /\ Final
<1>1. Shapes'
  BY DEF Shapes, Stopped, TaskInv, Msgs, EntryState, TurnState, JobState,
       record, files, process, cancellation, supervisor, recovery, tools, history, JobSent
<1>2. Known'
  BY DEF Known, TaskInv, Shapes, Msgs, EntryState, TurnState, JobState, record,
       files, process, cancellation, supervisor, recovery, tools, history, JobSent
<1>3. Fencing'
  BY DEF Fencing, TaskInv, Shapes, Msgs, EntryState, TurnState, JobState,
       record, files, process, cancellation, supervisor, recovery, tools, history, JobSent
<1>4. Unhurried'
  <2>1. \A k \in Msgs : Newest(k)' => Newest(k)
    BY DEF Newest, Known, TaskInv, Shapes, Msgs, EntryState, TurnState,
         JobState, record, files, process, cancellation, supervisor, recovery, tools, history,
         JobSent
  <2> QED
    BY <2>1, TaskAssumption DEF Unhurried, Fencing, TaskInv, Shapes, Msgs, EntryState,
         TurnState, JobState, record, files, process, cancellation, supervisor, recovery,
         tools, history, JobSent
<1>5. Barred'
  BY TaskAssumption DEF Barred, Canceling, Stopped, TaskInv, Shapes, Msgs, EntryState,
       TurnState, JobState, record, files, process, cancellation, supervisor, recovery, tools,
       history, JobSent
<1>6. Final
  BY DEF Final, Known, TaskInv, Shapes, Msgs, EntryState, TurnState, JobState,
       record, files, process, cancellation, supervisor, recovery, tools, history, JobSent
<1> QED
  BY <1>1, <1>2, <1>3, <1>4, <1>5, <1>6 DEF TaskInv

\* The last attempt.
LEMMA JobLastStep ==
  ASSUME NEW m \in Msgs, TaskInv, JobLast(m)
  PROVE  TaskInv' /\ Final
<1>1. Shapes'
  BY DEF Shapes, Stopped, TaskInv, Msgs, EntryState, TurnState, JobState,
       platform, registry, record, files, process, cancellation, recovery, tools, history,
       JobLast, SettleBegins, Drain
<1>2. Known'
  BY DEF Known, TaskInv, Shapes, Msgs, EntryState, TurnState, JobState,
       platform, registry, record, files, process, cancellation, recovery, tools, history,
       JobLast, SettleBegins, Drain
<1>3. Fencing'
  BY DEF Fencing, TaskInv, Shapes, Msgs, EntryState, TurnState, JobState,
       platform, registry, record, files, process, cancellation, recovery, tools, history,
       JobLast, SettleBegins, Drain
<1>4. Unhurried'
  BY ZenonT(40) DEF Unhurried, Newest, Fenced, TaskInv, Shapes, Msgs, EntryState,
       TurnState, JobState, platform, registry, record, files, process, cancellation, recovery,
       tools, history, JobLast, SettleBegins, Drain
<1>5. Barred'
  BY TaskAssumption DEF Barred, Canceling, Stopped, TaskInv, Shapes, Msgs, EntryState,
       TurnState, JobState, platform, registry, record, files, process, cancellation, recovery,
       tools, history, JobLast, SettleBegins, Drain
<1>6. Final
  BY DEF Final, Known, TaskInv, Shapes, Msgs, EntryState, TurnState, JobState,
       platform, registry, record, files, process, cancellation, recovery, tools, history,
       JobLast, SettleBegins, Drain
<1> QED
  BY <1>1, <1>2, <1>3, <1>4, <1>5, <1>6 DEF TaskInv

\* The loop stops, or takes the lock for an update.
LEMMA LoopDueStep ==
  ASSUME TaskInv, LoopDue
  PROVE  TaskInv' /\ Final
<1>1. Shapes'
  BY DEF Shapes, Stopped, TaskInv, Msgs, EntryState, TurnState, JobState,
       platform, registry, record, files, process, cancellation, recovery, tools, history,
       LoopDue, EndLoop, Acknowledge, Coordinating
<1>2. Known'
  BY DEF Known, TaskInv, Shapes, Msgs, EntryState, TurnState, JobState,
       platform, registry, record, files, process, cancellation, recovery, tools, history,
       LoopDue, EndLoop, Acknowledge, Coordinating
<1>3. Fencing'
  BY DEF Fencing, TaskInv, Shapes, Msgs, EntryState, TurnState, JobState,
       platform, registry, record, files, process, cancellation, recovery, tools, history,
       LoopDue, EndLoop, Acknowledge, Coordinating
<1>4. Unhurried'
  BY DEF Unhurried, Newest, Fenced, TaskInv, Shapes, Msgs, EntryState,
       TurnState, JobState, platform, registry, record, files, process, cancellation, recovery,
       tools, history, LoopDue, EndLoop, Acknowledge, Coordinating
<1>5. Barred'
  BY DEF Barred, Canceling, Stopped, TaskInv, Shapes, Msgs, EntryState,
       TurnState, JobState, platform, registry, record, files, process, cancellation, recovery,
       tools, history, LoopDue, EndLoop, Acknowledge, Coordinating
<1>6. Final
  BY DEF Final, Known, TaskInv, Shapes, Msgs, EntryState, TurnState, JobState,
       platform, registry, record, files, process, cancellation, recovery, tools, history,
       LoopDue, EndLoop, Acknowledge, Coordinating
<1> QED
  BY <1>1, <1>2, <1>3, <1>4, <1>5, <1>6 DEF TaskInv

\* The update leaves, unless a stop was asked for by then.
LEMMA EmitReadyStep ==
  ASSUME TaskInv, EmitReady
  PROVE  TaskInv' /\ Final
<1>1. Shapes'
  BY DEF Shapes, Stopped, TaskInv, Msgs, EntryState, TurnState, JobState,
       platform, registry, files, process, cancellation, recovery, tools, history, EmitReady,
       EndLoop, Acknowledge, Coordinating
<1>2. Known'
  BY DEF Known, TaskInv, Shapes, Msgs, EntryState, TurnState, JobState,
       platform, registry, files, process, cancellation, recovery, tools, history, EmitReady,
       EndLoop, Acknowledge, Coordinating
<1>3. Fencing'
  BY DEF Fencing, TaskInv, Shapes, Msgs, EntryState, TurnState, JobState,
       platform, registry, files, process, cancellation, recovery, tools, history, EmitReady,
       EndLoop, Acknowledge, Coordinating
<1>4. Unhurried'
  BY DEF Unhurried, Newest, Fenced, TaskInv, Shapes, Msgs, EntryState,
       TurnState, JobState, platform, registry, files, process, cancellation, recovery, tools,
       history, EmitReady, EndLoop, Acknowledge, Coordinating
<1>5. Barred'
  BY DEF Barred, Canceling, Stopped, TaskInv, Shapes, Msgs, EntryState,
       TurnState, JobState, platform, registry, files, process, cancellation, recovery, tools,
       history, EmitReady, EndLoop, Acknowledge, Coordinating
<1>6. Final
  BY DEF Final, Known, TaskInv, Shapes, Msgs, EntryState, TurnState, JobState,
       platform, registry, files, process, cancellation, recovery, tools, history, EmitReady,
       EndLoop, Acknowledge, Coordinating
<1> QED
  BY <1>1, <1>2, <1>3, <1>4, <1>5, <1>6 DEF TaskInv

\* The update has landed, or not.
LEMMA EmitSentStep ==
  ASSUME TaskInv, EmitSent
  PROVE  TaskInv' /\ Final
<1>1. Shapes'
  BY DEF Shapes, Stopped, TaskInv, Msgs, EntryState, TurnState, JobState,
       platform, registry, record, files, process, cancellation, recovery, tools, history,
       EmitSent
<1>2. Known'
  BY DEF Known, TaskInv, Shapes, Msgs, EntryState, TurnState, JobState,
       platform, registry, record, files, process, cancellation, recovery, tools, history,
       EmitSent
<1>3. Fencing'
  BY DEF Fencing, TaskInv, Shapes, Msgs, EntryState, TurnState, JobState,
       platform, registry, record, files, process, cancellation, recovery, tools, history,
       EmitSent
<1>4. Unhurried'
  BY DEF Unhurried, Newest, Fenced, TaskInv, Shapes, Msgs, EntryState,
       TurnState, JobState, platform, registry, record, files, process, cancellation, recovery,
       tools, history, EmitSent
<1>5. Barred'
  BY DEF Barred, Canceling, Stopped, TaskInv, Shapes, Msgs, EntryState,
       TurnState, JobState, platform, registry, record, files, process, cancellation, recovery,
       tools, history, EmitSent
<1>6. Final
  BY DEF Final, Known, TaskInv, Shapes, Msgs, EntryState, TurnState, JobState,
       platform, registry, record, files, process, cancellation, recovery, tools, history,
       EmitSent
<1> QED
  BY <1>1, <1>2, <1>3, <1>4, <1>5, <1>6 DEF TaskInv

\* A fence or a request stops the loop.
LEMMA MonitorStopsStep ==
  ASSUME TaskInv, MonitorStops
  PROVE  TaskInv' /\ Final
<1>1. Shapes'
  BY DEF Shapes, Stopped, TaskInv, Msgs, EntryState, TurnState, JobState,
       platform, registry, record, process, cancellation, recovery, tools, history,
       MonitorStops, Drain, Acknowledge
<1>2. Known'
  BY DEF Known, TaskInv, Shapes, Msgs, EntryState, TurnState, JobState,
       platform, registry, record, process, cancellation, recovery, tools, history,
       MonitorStops, Drain, Acknowledge
<1>3. Fencing'
  BY DEF Fencing, TaskInv, Shapes, Msgs, EntryState, TurnState, JobState,
       platform, registry, record, process, cancellation, recovery, tools, history,
       MonitorStops, Drain, Acknowledge
<1>4. Unhurried'
  BY DEF Unhurried, Newest, Fenced, TaskInv, Shapes, Msgs, EntryState,
       TurnState, JobState, platform, registry, record, process, cancellation, recovery, tools,
       history, MonitorStops, Drain, Acknowledge
<1>5. Barred'
  BY DEF Barred, Canceling, Stopped, TaskInv, Shapes, Msgs, EntryState,
       TurnState, JobState, platform, registry, record, process, cancellation, recovery, tools,
       history, MonitorStops, Drain, Acknowledge
<1>6. Final
  BY DEF Final, Known, TaskInv, Shapes, Msgs, EntryState, TurnState, JobState,
       platform, registry, record, process, cancellation, recovery, tools, history,
       MonitorStops, Drain, Acknowledge
<1> QED
  BY <1>1, <1>2, <1>3, <1>4, <1>5, <1>6 DEF TaskInv

\* A request nobody renews is dropped.
LEMMA MonitorDropsStep ==
  ASSUME NEW t \in Token, TaskInv, MonitorDrops(t)
  PROVE  TaskInv' /\ Final
<1>1. Shapes'
  BY DEF Shapes, Stopped, TaskInv, Msgs, EntryState, TurnState, JobState,
       platform, registry, record, files, process, cancellation, recovery, tools, history,
       MonitorDrops, SettleBegins, Drain
<1>2. Known'
  BY DEF Known, TaskInv, Shapes, Msgs, EntryState, TurnState, JobState,
       platform, registry, record, files, process, cancellation, recovery, tools, history,
       MonitorDrops, SettleBegins, Drain
<1>3. Fencing'
  BY DEF Fencing, TaskInv, Shapes, Msgs, EntryState, TurnState, JobState,
       platform, registry, record, files, process, cancellation, recovery, tools, history,
       MonitorDrops, SettleBegins, Drain
<1>4. Unhurried'
  BY DEF Unhurried, Newest, Fenced, TaskInv, Shapes, Msgs, EntryState,
       TurnState, JobState, platform, registry, record, files, process, cancellation, recovery,
       tools, history, MonitorDrops, SettleBegins, Drain
<1>5. Barred'
  BY DEF Barred, Canceling, Stopped, TaskInv, Shapes, Msgs, EntryState,
       TurnState, JobState, platform, registry, record, files, process, cancellation, recovery,
       tools, history, MonitorDrops, SettleBegins, Drain
<1>6. Final
  BY DEF Final, Known, TaskInv, Shapes, Msgs, EntryState, TurnState, JobState,
       platform, registry, record, files, process, cancellation, recovery, tools, history,
       MonitorDrops, SettleBegins, Drain
<1> QED
  BY <1>1, <1>2, <1>3, <1>4, <1>5, <1>6 DEF TaskInv

\* The task turns out to be over.
LEMMA MonitorSettlesStep ==
  ASSUME TaskInv, MonitorSettles
  PROVE  TaskInv' /\ Final
<1>1. Shapes'
  BY DEF Shapes, Stopped, TaskInv, Msgs, EntryState, TurnState, JobState,
       platform, registry, process, cancellation, recovery, tools, history, MonitorSettles,
       Settle, CanSettle
<1>2. Known'
  BY DEF Known, TaskInv, Shapes, Msgs, EntryState, TurnState, JobState,
       platform, registry, process, cancellation, recovery, tools, history, MonitorSettles,
       Settle, CanSettle
<1>3. Fencing'
  BY DEF Fencing, TaskInv, Shapes, Msgs, EntryState, TurnState, JobState,
       platform, registry, process, cancellation, recovery, tools, history, MonitorSettles,
       Settle, CanSettle
<1>4. Unhurried'
  BY DEF Unhurried, Newest, Fenced, TaskInv, Shapes, Msgs, EntryState,
       TurnState, JobState, platform, registry, process, cancellation, recovery, tools,
       history, MonitorSettles, Settle, CanSettle
<1>5. Barred'
  BY DEF Barred, Canceling, Stopped, TaskInv, Shapes, Msgs, EntryState,
       TurnState, JobState, platform, registry, process, cancellation, recovery, tools,
       history, MonitorSettles, Settle, CanSettle
<1>6. Final
  BY DEF Final, Known, TaskInv, Shapes, Msgs, EntryState, TurnState, JobState,
       platform, registry, process, cancellation, recovery, tools, history, MonitorSettles,
       Settle, CanSettle
<1> QED
  BY <1>1, <1>2, <1>3, <1>4, <1>5, <1>6 DEF TaskInv

\* Progress resumes when no request is left.
LEMMA MonitorResumesStep ==
  ASSUME TaskInv, MonitorResumes
  PROVE  TaskInv' /\ Final
<1>1. Shapes'
  BY DEF Shapes, Stopped, TaskInv, Msgs, EntryState, TurnState, JobState,
       platform, registry, record, files, process, cancellation, recovery, tools, history,
       MonitorResumes
<1>2. Known'
  BY DEF Known, TaskInv, Shapes, Msgs, EntryState, TurnState, JobState,
       platform, registry, record, files, process, cancellation, recovery, tools, history,
       MonitorResumes
<1>3. Fencing'
  BY DEF Fencing, TaskInv, Shapes, Msgs, EntryState, TurnState, JobState,
       platform, registry, record, files, process, cancellation, recovery, tools, history,
       MonitorResumes
<1>4. Unhurried'
  BY DEF Unhurried, Newest, Fenced, TaskInv, Shapes, Msgs, EntryState,
       TurnState, JobState, platform, registry, record, files, process, cancellation, recovery,
       tools, history, MonitorResumes
<1>5. Barred'
  BY DEF Barred, Canceling, Stopped, TaskInv, Shapes, Msgs, EntryState,
       TurnState, JobState, platform, registry, record, files, process, cancellation, recovery,
       tools, history, MonitorResumes
<1>6. Final
  BY DEF Final, Known, TaskInv, Shapes, Msgs, EntryState, TurnState, JobState,
       platform, registry, record, files, process, cancellation, recovery, tools, history,
       MonitorResumes
<1> QED
  BY <1>1, <1>2, <1>3, <1>4, <1>5, <1>6 DEF TaskInv

\* A tool sets the fence and asks for a drain, with a token nobody has answered.
LEMMA ToolCallsStep ==
  ASSUME NEW m \in Msgs, TaskInv, ToolCalls(m)
  PROVE  TaskInv' /\ Final
<1>1. Shapes'
  BY DEF Shapes, Stopped, TaskInv, Msgs, EntryState, TurnState, JobState,
       platform, record, process, cancellation, recovery, history, ToolCalls, AsksAnew
<1>2. Known'
  BY DEF Known, TaskInv, Shapes, Msgs, EntryState, TurnState, JobState,
       platform, record, process, cancellation, recovery, history, ToolCalls, AsksAnew
<1>3. Fencing'
  BY DEF Fencing, TaskInv, Shapes, Msgs, EntryState, TurnState, JobState,
       platform, record, process, cancellation, recovery, history, ToolCalls, AsksAnew
<1>4. Unhurried'
  <2>1. \A k \in Msgs : Newest(k)' = Newest(k)
    BY DEF Newest, TaskInv, Shapes, Msgs, EntryState, TurnState, JobState,
         platform, record, process, cancellation, recovery, history, ToolCalls, AsksAnew
  <2>2. job[m] \in {"quiet", "sending"} => fence[m]
    BY DEF Fencing, TaskInv, Shapes, Msgs, EntryState, TurnState, JobState,
         platform, record, process, cancellation, recovery, history, ToolCalls, AsksAnew
  <2>3. <<"tool", m>> \notin ack' /\ ack' \subseteq ack
    BY DEF TaskInv, Shapes, Msgs, EntryState, TurnState, JobState, platform,
         record, process, cancellation, recovery, history, ToolCalls, AsksAnew
  <2> QED
    BY <2>1, <2>2, <2>3, TaskAssumption DEF Unhurried, TaskInv, Shapes, Msgs, EntryState,
         TurnState, JobState, platform, record, process, cancellation, recovery, history,
         ToolCalls, AsksAnew
<1>5. Barred'
  BY DEF Barred, Canceling, Stopped, TaskInv, Shapes, Msgs, EntryState,
       TurnState, JobState, platform, record, process, cancellation, recovery, history,
       ToolCalls, AsksAnew
<1>6. Final
  BY DEF Final, Known, TaskInv, Shapes, Msgs, EntryState, TurnState, JobState,
       platform, record, process, cancellation, recovery, history, ToolCalls, AsksAnew
<1> QED
  BY <1>1, <1>2, <1>3, <1>4, <1>5, <1>6 DEF TaskInv

\* It goes on once the drain was acknowledged.
LEMMA ToolProceedsStep ==
  ASSUME NEW m \in Msgs, TaskInv, ToolProceeds(m)
  PROVE  TaskInv' /\ Final
<1>1. Shapes'
  BY DEF Shapes, Stopped, TaskInv, Msgs, EntryState, TurnState, JobState,
       platform, registry, record, files, process, cancellation, supervisor, recovery, history,
       ToolProceeds
<1>2. Known'
  BY DEF Known, TaskInv, Shapes, Msgs, EntryState, TurnState, JobState,
       platform, registry, record, files, process, cancellation, supervisor, recovery, history,
       ToolProceeds
<1>3. Fencing'
  BY DEF Fencing, TaskInv, Shapes, Msgs, EntryState, TurnState, JobState,
       platform, registry, record, files, process, cancellation, supervisor, recovery, history,
       ToolProceeds
<1>4. Unhurried'
  BY DEF Unhurried, Newest, Fenced, TaskInv, Shapes, Msgs, EntryState,
       TurnState, JobState, platform, registry, record, files, process, cancellation,
       supervisor, recovery, history, ToolProceeds
<1>5. Barred'
  BY DEF Barred, Canceling, Stopped, TaskInv, Shapes, Msgs, EntryState,
       TurnState, JobState, platform, registry, record, files, process, cancellation,
       supervisor, recovery, history, ToolProceeds
<1>6. Final
  BY DEF Final, Known, TaskInv, Shapes, Msgs, EntryState, TurnState, JobState,
       platform, registry, record, files, process, cancellation, supervisor, recovery, history,
       ToolProceeds
<1> QED
  BY <1>1, <1>2, <1>3, <1>4, <1>5, <1>6 DEF TaskInv

\* It gives up and takes the request back.
LEMMA ToolGivesUpStep ==
  ASSUME NEW m \in Msgs, TaskInv, ToolGivesUp(m)
  PROVE  TaskInv' /\ Final
<1>1. Shapes'
  BY DEF Shapes, Stopped, TaskInv, Msgs, EntryState, TurnState, JobState,
       platform, registry, record, process, cancellation, supervisor, recovery, history,
       ToolGivesUp
<1>2. Known'
  BY DEF Known, TaskInv, Shapes, Msgs, EntryState, TurnState, JobState,
       platform, registry, record, process, cancellation, supervisor, recovery, history,
       ToolGivesUp
<1>3. Fencing'
  BY DEF Fencing, TaskInv, Shapes, Msgs, EntryState, TurnState, JobState,
       platform, registry, record, process, cancellation, supervisor, recovery, history,
       ToolGivesUp
<1>4. Unhurried'
  BY DEF Unhurried, Newest, Fenced, TaskInv, Shapes, Msgs, EntryState,
       TurnState, JobState, platform, registry, record, process, cancellation, supervisor,
       recovery, history, ToolGivesUp
<1>5. Barred'
  BY DEF Barred, Canceling, Stopped, TaskInv, Shapes, Msgs, EntryState,
       TurnState, JobState, platform, registry, record, process, cancellation, supervisor,
       recovery, history, ToolGivesUp
<1>6. Final
  BY DEF Final, Known, TaskInv, Shapes, Msgs, EntryState, TurnState, JobState,
       platform, registry, record, process, cancellation, supervisor, recovery, history,
       ToolGivesUp
<1> QED
  BY <1>1, <1>2, <1>3, <1>4, <1>5, <1>6 DEF TaskInv

\* Its outcome has landed, or not.
LEMMA ToolSentStep ==
  ASSUME NEW m \in Msgs, TaskInv, ToolSent(m)
  PROVE  TaskInv' /\ Final
<1>1. Shapes'
  <2>0. PICK s \in {"done", "idle"} : tool' = [tool EXCEPT ![m] = s]
    BY DEF TaskInv, Shapes, Msgs, EntryState, TurnState, JobState, registry,
         record, files, process, cancellation, supervisor, recovery, ToolSent, Stopped
  <2>1. tool' \in [Msgs -> {"idle", "waiting", "sending", "done"}]
    BY <2>0, TaskAssumption DEF Shapes, TaskInv, Msgs, EntryState, TurnState, JobState,
         registry, record, files, process, cancellation, supervisor, recovery, ToolSent,
         Stopped
  <2>2. sent' = 0 => Stopped'
    BY DEF Shapes, Stopped, TaskInv, Msgs, EntryState, TurnState, JobState,
         registry, record, files, process, cancellation, supervisor, recovery, ToolSent
  <2> QED
    BY <2>1, <2>2, TaskAssumption DEF Shapes, TaskInv, Msgs, EntryState, TurnState, JobState,
         registry, record, files, process, cancellation, supervisor, recovery, ToolSent,
         Stopped
<1>2. Known'
  BY DEF Known, TaskInv, Shapes, Msgs, EntryState, TurnState, JobState,
       registry, record, files, process, cancellation, supervisor, recovery, ToolSent, Stopped
<1>3. Fencing'
  BY DEF Fencing, TaskInv, Shapes, Msgs, EntryState, TurnState, JobState,
       registry, record, files, process, cancellation, supervisor, recovery, ToolSent, Stopped
<1>4. Unhurried'
  BY DEF Unhurried, Newest, Fenced, TaskInv, Shapes, Msgs, EntryState,
       TurnState, JobState, registry, record, files, process, cancellation, supervisor,
       recovery, ToolSent, Stopped
<1>5. Barred'
  BY DEF Barred, Canceling, Stopped, TaskInv, Shapes, Msgs, EntryState,
       TurnState, JobState, registry, record, files, process, cancellation, supervisor,
       recovery, history, ToolSent
<1>6. Final
  BY DEF Final, Known, TaskInv, Shapes, Msgs, EntryState, TurnState, JobState,
       registry, record, files, process, cancellation, supervisor, recovery, ToolSent, Stopped
<1> QED
  BY <1>1, <1>2, <1>3, <1>4, <1>5, <1>6 DEF TaskInv

\* The cancellation revokes the messages and settles the task.
LEMMA CancelBeginStep ==
  ASSUME TaskInv, CancelBegin
  PROVE  TaskInv' /\ Final
<1>1. Shapes'
  BY DEF Shapes, Stopped, TaskInv, Msgs, EntryState, TurnState, JobState,
       registry, record, files, process, recovery, tools, history, CancelBegin, SettleBegins,
       Drain
<1>2. Known'
  BY DEF Known, TaskInv, Shapes, Msgs, EntryState, TurnState, JobState,
       registry, record, files, process, recovery, tools, history, CancelBegin, SettleBegins,
       Drain
<1>3. Fencing'
  BY DEF Fencing, TaskInv, Shapes, Msgs, EntryState, TurnState, JobState,
       registry, record, files, process, recovery, tools, history, CancelBegin, SettleBegins,
       Drain
<1>4. Unhurried'
  BY DEF Unhurried, Newest, Fenced, TaskInv, Shapes, Msgs, EntryState,
       TurnState, JobState, registry, record, files, process, recovery, tools, history,
       CancelBegin, SettleBegins, Drain
<1>5. Barred'
  BY TaskAssumption DEF Barred, Canceling, Stopped, TaskInv, Shapes, Msgs, EntryState,
       TurnState, JobState, registry, record, files, process, recovery, tools, history,
       CancelBegin, SettleBegins, Drain
<1>6. Final
  BY DEF Final, Known, TaskInv, Shapes, Msgs, EntryState, TurnState, JobState,
       registry, record, files, process, recovery, tools, history, CancelBegin, SettleBegins,
       Drain
<1> QED
  BY <1>1, <1>2, <1>3, <1>4, <1>5, <1>6 DEF TaskInv

\* The task is settled.
LEMMA CancelSettlesStep ==
  ASSUME TaskInv, CancelSettles
  PROVE  TaskInv' /\ Final
<1>1. Shapes'
  BY DEF Shapes, Stopped, TaskInv, Msgs, EntryState, TurnState, JobState,
       platform, registry, process, recovery, tools, history, CancelSettles, Settle, CanSettle
<1>2. Known'
  BY DEF Known, TaskInv, Shapes, Msgs, EntryState, TurnState, JobState,
       platform, registry, process, recovery, tools, history, CancelSettles, Settle, CanSettle
<1>3. Fencing'
  BY DEF Fencing, TaskInv, Shapes, Msgs, EntryState, TurnState, JobState,
       platform, registry, process, recovery, tools, history, CancelSettles, Settle, CanSettle
<1>4. Unhurried'
  BY DEF Unhurried, Newest, Fenced, TaskInv, Shapes, Msgs, EntryState,
       TurnState, JobState, platform, registry, process, recovery, tools, history,
       CancelSettles, Settle, CanSettle
<1>5. Barred'
  BY DEF Barred, Canceling, Stopped, TaskInv, Shapes, Msgs, EntryState,
       TurnState, JobState, platform, registry, process, recovery, tools, history,
       CancelSettles, Settle, CanSettle
<1>6. Final
  BY DEF Final, Known, TaskInv, Shapes, Msgs, EntryState, TurnState, JobState,
       platform, registry, process, recovery, tools, history, CancelSettles, Settle, CanSettle
<1> QED
  BY <1>1, <1>2, <1>3, <1>4, <1>5, <1>6 DEF TaskInv

\* Its turns are interrupted.
LEMMA CancelAbortsStep ==
  ASSUME TaskInv, CancelAborts
  PROVE  TaskInv' /\ Final
<1>1. Shapes'
  BY DEF Shapes, Stopped, TaskInv, Msgs, EntryState, TurnState, JobState,
       platform, record, files, process, supervisor, recovery, tools, history, CancelAborts,
       Aborted
<1>2. Known'
  BY DEF Known, TaskInv, Shapes, Msgs, EntryState, TurnState, JobState,
       platform, record, files, process, supervisor, recovery, tools, history, CancelAborts,
       Aborted
<1>3. Fencing'
  BY DEF Fencing, TaskInv, Shapes, Msgs, EntryState, TurnState, JobState,
       platform, record, files, process, supervisor, recovery, tools, history, CancelAborts,
       Aborted
<1>4. Unhurried'
  BY DEF Unhurried, Newest, Fenced, TaskInv, Shapes, Msgs, EntryState,
       TurnState, JobState, platform, record, files, process, supervisor, recovery, tools,
       history, CancelAborts, Aborted
<1>5. Barred'
  BY DEF Barred, Canceling, Stopped, TaskInv, Shapes, Msgs, EntryState,
       TurnState, JobState, platform, record, files, process, supervisor, recovery, tools,
       history, CancelAborts, Aborted
<1>6. Final
  BY DEF Final, Known, TaskInv, Shapes, Msgs, EntryState, TurnState, JobState,
       platform, record, files, process, supervisor, recovery, tools, history, CancelAborts,
       Aborted
<1> QED
  BY <1>1, <1>2, <1>3, <1>4, <1>5, <1>6 DEF TaskInv

\* The jobs it waited for have ended.
LEMMA CancelEndsStep ==
  ASSUME TaskInv, CancelEnds
  PROVE  TaskInv' /\ Final
<1>1. Shapes'
  BY DEF Shapes, Stopped, TaskInv, Msgs, EntryState, TurnState, JobState,
       platform, registry, record, files, process, supervisor, recovery, tools, history,
       CancelEnds
<1>2. Known'
  BY DEF Known, TaskInv, Shapes, Msgs, EntryState, TurnState, JobState,
       platform, registry, record, files, process, supervisor, recovery, tools, history,
       CancelEnds
<1>3. Fencing'
  BY DEF Fencing, TaskInv, Shapes, Msgs, EntryState, TurnState, JobState,
       platform, registry, record, files, process, supervisor, recovery, tools, history,
       CancelEnds
<1>4. Unhurried'
  BY DEF Unhurried, Newest, Fenced, TaskInv, Shapes, Msgs, EntryState,
       TurnState, JobState, platform, registry, record, files, process, supervisor, recovery,
       tools, history, CancelEnds
<1>5. Barred'
  BY DEF Barred, Canceling, Stopped, TaskInv, Shapes, Msgs, EntryState,
       TurnState, JobState, platform, registry, record, files, process, supervisor, recovery,
       tools, history, CancelEnds
<1>6. Final
  BY DEF Final, Known, TaskInv, Shapes, Msgs, EntryState, TurnState, JobState,
       platform, registry, record, files, process, supervisor, recovery, tools, history,
       CancelEnds
<1> QED
  BY <1>1, <1>2, <1>3, <1>4, <1>5, <1>6 DEF TaskInv

\* A gateway starts.
LEMMA StartStep ==
  ASSUME TaskInv, Start
  PROVE  TaskInv' /\ Final
<1>1. Shapes'
  BY DEF Shapes, Stopped, TaskInv, Msgs, EntryState, TurnState, JobState,
       platform, registry, record, files, cancellation, supervisor, tools, history, Start
<1>2. Known'
  BY DEF Known, TaskInv, Shapes, Msgs, EntryState, TurnState, JobState,
       platform, registry, record, files, cancellation, supervisor, tools, history, Start
<1>3. Fencing'
  BY DEF Fencing, TaskInv, Shapes, Msgs, EntryState, TurnState, JobState,
       platform, registry, record, files, cancellation, supervisor, tools, history, Start
<1>4. Unhurried'
  BY DEF Unhurried, Newest, Fenced, TaskInv, Shapes, Msgs, EntryState,
       TurnState, JobState, platform, registry, record, files, cancellation, supervisor, tools,
       history, Start
<1>5. Barred'
  BY DEF Barred, Canceling, Stopped, TaskInv, Shapes, Msgs, EntryState,
       TurnState, JobState, platform, registry, record, files, cancellation, supervisor, tools,
       history, Start
<1>6. Final
  BY DEF Final, Known, TaskInv, Shapes, Msgs, EntryState, TurnState, JobState,
       platform, registry, record, files, cancellation, supervisor, tools, history, Start
<1> QED
  BY <1>1, <1>2, <1>3, <1>4, <1>5, <1>6 DEF TaskInv

\* The task of an entry is read.
LEMMA CatchUpReadsStep ==
  ASSUME NEW m \in Msgs, TaskInv, CatchUpReads(m)
  PROVE  TaskInv' /\ Final
<1>1. Shapes'
  BY TaskAssumption DEF Shapes, Stopped, NoSight, TaskInv, Msgs, EntryState, TurnState,
       JobState, platform, registry, record, files, process, cancellation, supervisor, tools,
       history, CatchUpReads
<1>2. Known'
  BY TaskAssumption DEF Known, NoSight, TaskInv, Shapes, Msgs, EntryState, TurnState, JobState,
       platform, registry, record, files, process, cancellation, supervisor, tools, history,
       CatchUpReads
<1>3. Fencing'
  BY TaskAssumption DEF Fencing, TaskInv, Shapes, Msgs, EntryState, TurnState, JobState,
       platform, registry, record, files, process, cancellation, supervisor, tools, history,
       CatchUpReads
<1>4. Unhurried'
  BY TaskAssumption DEF Unhurried, Newest, Fenced, TaskInv, Shapes, Msgs, EntryState,
       TurnState, JobState, platform, registry, record, files, process, cancellation,
       supervisor, tools, history, CatchUpReads
<1>5. Barred'
  BY TaskAssumption DEF Barred, Canceling, Stopped, TaskInv, Shapes, Msgs, EntryState,
       TurnState, JobState, platform, registry, record, files, process, cancellation,
       supervisor, tools, history, CatchUpReads
<1>6. Final
  BY TaskAssumption DEF Final, Known, TaskInv, Shapes, Msgs, EntryState, TurnState, JobState,
       platform, registry, record, files, process, cancellation, supervisor, tools, history,
       CatchUpReads
<1> QED
  BY <1>1, <1>2, <1>3, <1>4, <1>5, <1>6 DEF TaskInv

\* An entry is finalized, settled or taken up again, on what was read of its task.
LEMMA CatchUpStep ==
  ASSUME NEW m \in Msgs, TaskInv, CatchUp(m)
  PROVE  TaskInv' /\ Final
<1>0. /\ entry' \in [Msgs -> EntryState] /\ entry[m] # "absent"
      /\ \A k \in Msgs : entry'[k] = "absent" <=> entry[k] = "absent"
  BY DEF Shapes, Known, TaskInv, Msgs, EntryState, CatchUp, WritesBack
<1>a. /\ job' \in [Msgs -> JobState]
      /\ \A k \in Msgs : \/ job'[k] = job[k]
                         \/ /\ k = m /\ job'[k] = "greet"
                            /\ m \notin stale /\ MarksBelated(m)
  BY DEF Shapes, TaskInv, Msgs, JobState, CatchUp, Started
<1>b. UNCHANGED <<fence, turn, tool, sent, task, newest, adm, guest, awaits, cancelHook, revoked>>
      /\ saw' = NoSight /\ todo' = todo \ {m} /\ stale' = stale
  BY DEF CatchUp, platform, process, cancellation, tools
<1>c. belated \subseteq belated'
  BY DEF CatchUp, MarksBelated
<1>1. Shapes'
  BY <1>0, <1>a, <1>b DEF Shapes, Stopped, TaskInv
<1>2. Known'
  BY <1>0, <1>a, <1>b DEF Known, TaskInv, NoSight, Msgs
<1>3. Fencing'
  BY <1>a, <1>b DEF Fencing, TaskInv
<1>4. Unhurried'
  <2>1. \A k \in Msgs : Newest(k)' => Newest(k)
    BY <1>b DEF Newest
  <2> QED
    BY <2>1, TaskAssumption DEF Unhurried, Fenced, TaskInv, Shapes, Msgs, EntryState,
         TurnState, JobState, platform, record, files, process, cancellation, supervisor,
         tools, history, CatchUp, SettleBegins, Drain, EnsureRecord, Started, Supervise,
         WritesBack, MarksBelated, NoSight
<1>5. Barred'
  BY <1>a, <1>b, <1>c, TaskAssumption DEF Barred, Canceling, Stopped, TaskInv, Shapes, Msgs,
       MarksBelated
<1>6. Final
  BY <1>a, <1>b DEF Final, TaskInv, CatchUp
<1> QED
  BY <1>1, <1>2, <1>3, <1>4, <1>5, <1>6 DEF TaskInv

\* A task that is over is settled.
LEMMA CatchUpSettlesStep ==
  ASSUME TaskInv, CatchUpSettles
  PROVE  TaskInv' /\ Final
<1>1. Shapes'
  BY DEF Shapes, Stopped, TaskInv, Msgs, EntryState, TurnState, JobState, platform, registry,
       process, cancellation, tools, history, CatchUpSettles, Settle, CanSettle
<1>2. Known'
  BY DEF Known, TaskInv, Shapes, Msgs, EntryState, TurnState, JobState, platform, registry,
       process, cancellation, tools, history, CatchUpSettles, Settle, CanSettle
<1>3. Fencing'
  BY DEF Fencing, TaskInv, Shapes, Msgs, EntryState, TurnState, JobState, platform, registry,
       process, cancellation, tools, history, CatchUpSettles, Settle, CanSettle
<1>4. Unhurried'
  BY DEF Unhurried, Newest, Fenced, TaskInv, Shapes, Msgs, EntryState, TurnState, JobState,
       platform, registry, process, cancellation, tools, history, CatchUpSettles, Settle,
       CanSettle
<1>5. Barred'
  BY DEF Barred, Canceling, Stopped, TaskInv, Shapes, Msgs, EntryState, TurnState, JobState,
       platform, registry, process, cancellation, tools, history, CatchUpSettles, Settle,
       CanSettle
<1>6. Final
  BY DEF Final, Known, TaskInv, Shapes, Msgs, EntryState, TurnState, JobState, platform,
       registry, process, cancellation, tools, history, CatchUpSettles, Settle, CanSettle
<1> QED
  BY <1>1, <1>2, <1>3, <1>4, <1>5, <1>6 DEF TaskInv

\* A task the registry does not know is read.
LEMMA DiscoversStep ==
  ASSUME TaskInv, Discovers
  PROVE  TaskInv' /\ Final
<1>1. Shapes'
  BY TaskAssumption DEF Shapes, Stopped, NoSight, TaskInv, Msgs, EntryState, TurnState,
       JobState, platform, registry, record, files, process, cancellation, supervisor, tools,
       history, Discovers
<1>2. Known'
  BY TaskAssumption DEF Known, NoSight, TaskInv, Shapes, Msgs, EntryState, TurnState, JobState,
       platform, registry, record, files, process, cancellation, supervisor, tools, history,
       Discovers
<1>3. Fencing'
  BY TaskAssumption DEF Fencing, TaskInv, Shapes, Msgs, EntryState, TurnState, JobState,
       platform, registry, record, files, process, cancellation, supervisor, tools, history,
       Discovers
<1>4. Unhurried'
  BY TaskAssumption DEF Unhurried, Newest, Fenced, TaskInv, Shapes, Msgs, EntryState,
       TurnState, JobState, platform, registry, record, files, process, cancellation,
       supervisor, tools, history, Discovers
<1>5. Barred'
  BY TaskAssumption DEF Barred, Canceling, Stopped, TaskInv, Shapes, Msgs, EntryState,
       TurnState, JobState, platform, registry, record, files, process, cancellation,
       supervisor, tools, history, Discovers
<1>6. Final
  BY TaskAssumption DEF Final, Known, TaskInv, Shapes, Msgs, EntryState, TurnState, JobState,
       platform, registry, record, files, process, cancellation, supervisor, tools, history,
       Discovers
<1> QED
  BY <1>1, <1>2, <1>3, <1>4, <1>5, <1>6 DEF TaskInv

\* A task the registry does not know is taken up.
LEMMA DiscoverStep ==
  ASSUME NEW m \in Msgs, TaskInv, Discover(m)
  PROVE  TaskInv' /\ Final
<1>1. Shapes'
  BY TaskAssumption DEF Shapes, Stopped, NoSight, TaskInv, Msgs, EntryState, TurnState,
       JobState, platform, process, cancellation, supervisor, tools, record, files, Discover,
       EnsureRecord, Started, Supervise, MarksBelated
<1>2. Known'
  BY TaskAssumption DEF Known, NoSight, TaskInv, Shapes, Msgs, EntryState, TurnState, JobState,
       platform, process, cancellation, supervisor, tools, record, files, Discover,
       EnsureRecord, Started, Supervise, MarksBelated
<1>3. Fencing'
  <2>1. \A k \in Msgs : job'[k] = job[k] \/ job'[k] = "greet"
    BY DEF Shapes, TaskInv, Msgs, JobState, Discover, Started
  <2>2. UNCHANGED <<fence, turn, tool>>
    BY DEF Discover, tools
  <2> QED
    BY <2>1, <2>2 DEF Fencing, TaskInv
<1>4. Unhurried'
  <2>1. \A k \in Msgs : Newest(k)' /\ fence'[k] => Newest(k) /\ fence[k]
    BY DEF Newest, Known, TaskInv, Discover
  <2>2. \A k \in Msgs : job'[k] = job[k] \/ job'[k] = "greet"
    BY DEF Shapes, TaskInv, Msgs, JobState, Discover, Started
  <2>3. UNCHANGED <<tool, waits>> /\ (ack' = ack \/ ack' = {})
    BY DEF Discover, tools, files, supervisor, EnsureRecord, Supervise
  <2>4. loop' \in {"held", "send"} => loop' = loop
    BY DEF Discover, supervisor, Supervise
  <2> QED
    BY <2>1, <2>2, <2>3, <2>4 DEF Unhurried, TaskInv
<1>5. Barred'
  BY TaskAssumption DEF Barred, Canceling, Stopped, TaskInv, Shapes, Msgs, EntryState,
       TurnState, JobState, platform, process, cancellation, supervisor, tools, record, files,
       Discover, NoSight, EnsureRecord, Started, Supervise, MarksBelated
<1>6. Final
  BY TaskAssumption DEF Final, Known, TaskInv, Shapes, Msgs, EntryState, TurnState, JobState,
       platform, process, cancellation, supervisor, tools, record, files, Discover, NoSight,
       EnsureRecord, Started, Supervise, MarksBelated
<1> QED
  BY <1>1, <1>2, <1>3, <1>4, <1>5, <1>6 DEF TaskInv

\* The gateway closes.
LEMMA CloseStep ==
  ASSUME TaskInv, Close
  PROVE  TaskInv' /\ Final
<1>1. Shapes'
  BY DEF Shapes, Stopped, TaskInv, Msgs, EntryState, TurnState, JobState,
       platform, registry, record, files, cancellation, supervisor, recovery, tools, history,
       Close
<1>2. Known'
  BY DEF Known, TaskInv, Shapes, Msgs, EntryState, TurnState, JobState,
       platform, registry, record, files, cancellation, supervisor, recovery, tools, history,
       Close
<1>3. Fencing'
  BY DEF Fencing, TaskInv, Shapes, Msgs, EntryState, TurnState, JobState,
       platform, registry, record, files, cancellation, supervisor, recovery, tools, history,
       Close
<1>4. Unhurried'
  BY DEF Unhurried, Newest, Fenced, TaskInv, Shapes, Msgs, EntryState,
       TurnState, JobState, platform, registry, record, files, cancellation, supervisor,
       recovery, tools, history, Close
<1>5. Barred'
  BY DEF Barred, Canceling, Stopped, TaskInv, Shapes, Msgs, EntryState,
       TurnState, JobState, platform, registry, record, files, cancellation, supervisor,
       recovery, tools, history, Close
<1>6. Final
  BY DEF Final, Known, TaskInv, Shapes, Msgs, EntryState, TurnState, JobState,
       platform, registry, record, files, cancellation, supervisor, recovery, tools, history,
       Close
<1> QED
  BY <1>1, <1>2, <1>3, <1>4, <1>5, <1>6 DEF TaskInv

\* The turns of its jobs are interrupted.
LEMMA CloseAbortsStep ==
  ASSUME TaskInv, CloseAborts
  PROVE  TaskInv' /\ Final
<1>1. Shapes'
  BY DEF Shapes, Stopped, TaskInv, Msgs, EntryState, TurnState, JobState,
       platform, record, files, process, cancellation, supervisor, recovery, tools, history,
       CloseAborts, Aborted
<1>2. Known'
  BY DEF Known, TaskInv, Shapes, Msgs, EntryState, TurnState, JobState,
       platform, record, files, process, cancellation, supervisor, recovery, tools, history,
       CloseAborts, Aborted
<1>3. Fencing'
  BY DEF Fencing, TaskInv, Shapes, Msgs, EntryState, TurnState, JobState,
       platform, record, files, process, cancellation, supervisor, recovery, tools, history,
       CloseAborts, Aborted
<1>4. Unhurried'
  BY DEF Unhurried, Newest, Fenced, TaskInv, Shapes, Msgs, EntryState,
       TurnState, JobState, platform, record, files, process, cancellation, supervisor,
       recovery, tools, history, CloseAborts, Aborted
<1>5. Barred'
  BY DEF Barred, Canceling, Stopped, TaskInv, Shapes, Msgs, EntryState,
       TurnState, JobState, platform, record, files, process, cancellation, supervisor,
       recovery, tools, history, CloseAborts, Aborted
<1>6. Final
  BY DEF Final, Known, TaskInv, Shapes, Msgs, EntryState, TurnState, JobState,
       platform, record, files, process, cancellation, supervisor, recovery, tools, history,
       CloseAborts, Aborted
<1> QED
  BY <1>1, <1>2, <1>3, <1>4, <1>5, <1>6 DEF TaskInv

\* The process ends after a close.
LEMMA CloseEndsStep ==
  ASSUME TaskInv, CloseEnds
  PROVE  TaskInv' /\ Final
<1>1. Shapes'
  BY DEF Shapes, Stopped, TaskInv, Msgs, EntryState, TurnState, JobState,
       registry, record, files, tools, history, CloseEnds, Forget
<1>2. Known'
  BY DEF Known, TaskInv, Shapes, Msgs, EntryState, TurnState, JobState,
       registry, record, files, tools, history, CloseEnds, Forget, NoSight
<1>3. Fencing'
  BY DEF Fencing, TaskInv, Shapes, Msgs, EntryState, TurnState, JobState,
       registry, record, files, tools, history, CloseEnds, Forget
<1>4. Unhurried'
  BY DEF Unhurried, Newest, Fenced, TaskInv, Shapes, Msgs, EntryState,
       TurnState, JobState, registry, record, files, tools, history, CloseEnds, Forget
<1>5. Barred'
  BY DEF Barred, Canceling, Stopped, TaskInv, Shapes, Msgs, EntryState,
       TurnState, JobState, registry, record, files, tools, history, CloseEnds, Forget
<1>6. Final
  BY DEF Final, Known, TaskInv, Shapes, Msgs, EntryState, TurnState, JobState,
       registry, record, files, tools, history, CloseEnds, Forget
<1> QED
  BY <1>1, <1>2, <1>3, <1>4, <1>5, <1>6 DEF TaskInv

\* The process ends anywhere.
LEMMA CrashStep ==
  ASSUME TaskInv, Crash
  PROVE  TaskInv' /\ Final
<1>1. Shapes'
  BY DEF Shapes, Stopped, TaskInv, Msgs, EntryState, TurnState, JobState,
       registry, record, files, tools, history, Crash, Forget
<1>2. Known'
  BY DEF Known, TaskInv, Shapes, Msgs, EntryState, TurnState, JobState,
       registry, record, files, tools, history, Crash, Forget, NoSight
<1>3. Fencing'
  BY DEF Fencing, TaskInv, Shapes, Msgs, EntryState, TurnState, JobState,
       registry, record, files, tools, history, Crash, Forget
<1>4. Unhurried'
  BY DEF Unhurried, Newest, Fenced, TaskInv, Shapes, Msgs, EntryState,
       TurnState, JobState, registry, record, files, tools, history, Crash, Forget
<1>5. Barred'
  BY TaskAssumption DEF Barred, Canceling, Stopped, TaskInv, Shapes, Msgs, EntryState,
       TurnState, JobState, registry, record, files, tools, history, Crash, Forget
<1>6. Final
  BY DEF Final, Known, TaskInv, Shapes, Msgs, EntryState, TurnState, JobState,
       registry, record, files, tools, history, Crash, Forget
<1> QED
  BY <1>1, <1>2, <1>3, <1>4, <1>5, <1>6 DEF TaskInv

\* Nothing is there in the beginning.
LEMMA InitIsFresh == TaskInit => TaskInv
<1>1. TaskInit => Shapes /\ Known
  BY TaskAssumption DEF Shapes, Known, Stopped, TaskInit, Msgs, EntryState, TurnState, JobState,
       NoSight
<1>2. TaskInit => Fencing /\ Unhurried
  BY DEF Fencing, Unhurried, TaskInit, Msgs, EntryState, TurnState, JobState
<1>3. TaskInit => Barred
  BY DEF Barred, Canceling, TaskInit, Msgs, EntryState, TurnState, JobState
<1> QED
  BY <1>1, <1>2, <1>3 DEF TaskInv

\* What nobody touches stays.
LEMMA TaskStutters ==
  ASSUME TaskInv, UNCHANGED taskVars
  PROVE  TaskInv'
<1>1. Shapes' /\ Known'
  BY DEF Shapes, Known, Stopped, TaskInv, taskVars, platform, registry, record, files, process,
       cancellation, supervisor, recovery, tools, history
<1>2. Fencing' /\ Unhurried'
  BY DEF Fencing, Unhurried, Newest, TaskInv, taskVars, platform, registry, record, files,
       process, cancellation, supervisor, recovery, tools, history
<1>3. Barred'
  BY DEF Barred, Canceling, Stopped, TaskInv, taskVars, platform, registry, record, files,
       process, cancellation, supervisor, recovery, tools, history
<1> QED
  BY <1>1, <1>2, <1>3 DEF TaskInv

\* Every step of the caller, of the gateway and of its jobs and tools keeps the invariant.
LEMMA TaskInductive ==
  ASSUME TaskInv, TaskNext
  PROVE  TaskInv' /\ Final
<1>1. CASE CallerWrites \/ CallerCancels \/ Start \/ Close \/ CloseAborts \/ CloseEnds \/ Crash
  BY <1>1, CallerWritesStep, CallerCancelsStep, StartStep, CloseStep, CloseAbortsStep,
     CloseEndsStep, CrashStep
<1>2. CASE Progress
  BY <1>2, LoopDueStep, EmitReadyStep, EmitSentStep DEF Progress
<1>3. CASE Monitor
  BY <1>3, MonitorStopsStep, MonitorSettlesStep, MonitorResumesStep, MonitorDropsStep
  DEF Monitor
<1>4. CASE CancelBegin \/ Cancel
  BY <1>4, CancelBeginStep, CancelSettlesStep, CancelAbortsStep, CancelEndsStep DEF Cancel
<1>5. CASE Recover
  BY <1>5, DiscoversStep, DiscoverStep, CatchUpSettlesStep, CatchUpReadsStep, CatchUpStep
  DEF Recover
<1>6. ASSUME NEW m \in Msgs, AdmitBegin(m) \/ AdmitEnd(m)
      PROVE  TaskInv' /\ Final
  BY <1>6, AdmitBeginStep, AdmitEndStep
<1>7. ASSUME NEW m \in Msgs, Job(m)
      PROVE  TaskInv' /\ Final
  BY <1>7, JobLeavesStep, GreetBeginStep, GreetReadStep, GreetSentStep, CheckStep,
     JobSettlesStep, JobStartsStep, JobAnswersStep, JobSilentStep, JobOutcomeStep,
     JobSentStep, JobLastStep
  DEF Job
<1>8. ASSUME NEW m \in Msgs, TurnEnds(m) \/ ToolCalls(m) \/ Tool(m)
      PROVE  TaskInv' /\ Final
  BY <1>8, TurnEndsStep, ToolCallsStep, ToolProceedsStep, ToolGivesUpStep, ToolSentStep
  DEF Tool
<1> QED
  BY <1>1, <1>2, <1>3, <1>4, <1>5, <1>6, <1>7, <1>8 DEF TaskNext

\* The inductive invariant of an A2A task, for any number of messages, starts and
\* outcome calls.
THEOREM TaskHolds == TaskSpec => []TaskInv
<1>1. TaskInv /\ [TaskNext]_taskVars => TaskInv'
  BY TaskInductive, TaskStutters
<1> QED
  BY <1>1, InitIsFresh, PTL DEF TaskSpec

\* No progress update is on its way while the outcome of the newest message is, whether
\* a tool or the gateway sends it (synchronizeProgressDrain, inboundIntent, runTurn).
THEOREM OutcomesAreUndisturbed == TaskSpec => []NoProgressDuringOutcome
<1>1. TaskInv => NoProgressDuringOutcome
  BY DEF TaskInv, Unhurried, NoProgressDuringOutcome
<1> QED
  BY <1>1, TaskHolds, PTL

\* A canceled message is at work no more once the cancellation was handled (handle,
\* a2a.task.canceled), whatever is admitted, recovered or restarted afterwards, but for one
\* that catchUp puts to work from a read of the task older than the handling.
THEOREM CancellationHolds == TaskSpec => []CanceledStays
<1>1. TaskInv => CanceledStays
  BY DEF TaskInv, Barred, Canceling, CanceledStays
<1> QED
  BY <1>1, TaskHolds, PTL

\* A message whose outcome was fenced is not taken up again (start, catchUp).
THEOREM OutcomesAreFinal == TaskSpec => OutcomeIsFinal
<1>1. TaskInv /\ [TaskNext]_taskVars => [Final]_taskVars
  BY TaskInductive
<1>2. TaskInv /\ [TaskNext]_taskVars
        => [\A m \in Msgs : fence[m] /\ m \notin todo \ stale /\ job[m] = "none"
              => job'[m] = "none"]_taskVars
  BY <1>1 DEF Final
<1> QED
  BY <1>2, TaskHolds, PTL DEF TaskSpec, OutcomeIsFinal

-----------------------------------------------------------------------------
(***************************************************************************)
(* Webhooks: an invariant of the claims and the turns they are worth.      *)
(***************************************************************************)
\* What a turn is made from.
Batches == Seq(Requests) \ {<<>>}

\* The part of the type invariant the argument needs.
EventNumbers ==
  /\ posted \in [Requests -> Nat] /\ lapses \in [Requests -> Nat]
  /\ workers \in [Requests -> Nat] /\ checked \in [Requests -> Nat] /\ woken \in [Requests -> Nat]
EventMarks ==
  /\ sort \in [Requests -> Sort \cup {"none"}] /\ body \in [Requests -> Texts]
  /\ agreed \in [Requests -> BOOLEAN] /\ claim \in [Requests -> {"free", "inflight", "recent"}]
  /\ edges \in [Requests -> SUBSET Edge]
EventShapes ==
  /\ EventNumbers /\ EventMarks
  /\ batch \in Seq(Requests) /\ given \in Seq(Batches)

\* What is at work, waits or is in a turn was posted, and is handled as its sort asks.
Awaited == {"native", "overheard"}
EventsArePosted ==
  /\ \A r \in Requests :
       /\ claim[r] # "free" \/ agreed[r] \/ workers[r] + checked[r] + woken[r] > 0 => posted[r] > 0
       /\ checked[r] > 0 => sort[r] \in Awaited
       /\ woken[r] > 0 => sort[r] = "failure"
       /\ posted[r] > 0 <=> sort[r] # "none"
       /\ sort[r] = "whatsapp" => claim[r] = "free"
  /\ \A i \in DOMAIN batch : sort[batch[i]] = "fragment"
  /\ \A i \in DOMAIN given : \A j \in DOMAIN given[i] : posted[given[i][j]] > 0

\* A journalled message that is not merely overheard makes one turn.
Unique == {"native", "whatsapp"}
JournalledOnce ==
  \A i, j \in DOMAIN given : \A p \in ToSet(given[i]), q \in ToSet(given[j]) :
    {sort[p], sort[q]} \subseteq Unique /\ body[p] = body[q] => i = j

\* A claim is worth one handler, one place in the batch or one turn, and a
\* forgotten one is counted.
Places(r) == {i \in DOMAIN batch : batch[i] = r}
Turned(r) == {i \in DOMAIN given : r \in ToSet(given[i])}
Claimed(r) == IF claim[r] = "free" THEN 0 ELSE 1
ClaimsCount ==
  \A r \in Requests : sort[r] # "whatsapp" =>
    Cardinality(Turned(r)) + Cardinality(Places(r)) + workers[r] + checked[r] + woken[r]
      <= lapses[r] + Claimed(r)

\* What became of a request that the provider, or a claim, holds for handled.
Accounted(r) ==
  \/ sort[r] \in Lasting /\ Journalled(body[r])
  \/ /\ sort[r] # "whatsapp"
     /\ \/ \E i \in DOMAIN given : r \in ToSet(given[i])
        \/ r \in ToSet(batch)
        \/ workers[r] + checked[r] > 0
        \/ edges[r] # {}
NoneForgotten ==
  \A r \in Requests : (agreed[r] \/ claim[r] # "free") /\ sort[r] # "failure" => Accounted(r)

EventInv == EventShapes /\ EventsArePosted /\ JournalledOnce /\ ClaimsCount /\ NoneForgotten

----------------------------------------------------------------------------
(* Counting *)

\* What Append adds to a sequence.
LEMMA AppendAdds ==
  ASSUME NEW S, NEW q \in Seq(S), NEW e \in S
  PROVE  /\ Append(q, e) \in Seq(S) /\ Len(q) \in Nat /\ DOMAIN q = 1 .. Len(q)
         /\ DOMAIN Append(q, e) = 1 .. Len(q) + 1 /\ Append(q, e)[Len(q) + 1] = e
         /\ Len(Append(q, e)) = Len(q) + 1
         /\ \A i \in DOMAIN q : /\ Append(q, e)[i] = q[i] /\ i # Len(q) + 1
                               /\ i \in DOMAIN Append(q, e)
  OBVIOUS

\* A set of positions that gains the last one at most.
LEMMA OneMore ==
  ASSUME NEW n \in Nat, NEW A, NEW B, A \subseteq 1 .. n, B \subseteq A \cup {n + 1}
  PROVE  /\ Cardinality(A) \in Nat /\ Cardinality(B) \in Nat
         /\ Cardinality(B) <= Cardinality(A) + 1
         /\ B \subseteq A => Cardinality(B) <= Cardinality(A)
<1>1. IsFiniteSet(1 .. n)
  BY FS_Interval
<1>2. IsFiniteSet(A)
  BY <1>1, FS_Subset
<1>3. IsFiniteSet(A \cup {n + 1}) /\ Cardinality(A) \in Nat
      /\ Cardinality(A \cup {n + 1}) \in {Cardinality(A), Cardinality(A) + 1}
  BY <1>2, FS_AddElement, FS_CardinalityType
<1>4. IsFiniteSet(B) /\ Cardinality(B) <= Cardinality(A \cup {n + 1})
  BY <1>3, FS_Subset
<1>5. B \subseteq A => Cardinality(B) <= Cardinality(A)
  BY <1>2, FS_Subset
<1> QED
  BY <1>3, <1>4, <1>5, FS_CardinalityType

\* The turns a request is in, and its places in the batch, can be counted.
LEMMA EventCounts ==
  ASSUME EventInv, NEW r \in Requests
  PROVE  /\ IsFiniteSet(Turned(r)) /\ Cardinality(Turned(r)) \in Nat
         /\ IsFiniteSet(Places(r)) /\ Cardinality(Places(r)) \in Nat
         /\ Turned(r) \subseteq 1 .. Len(given) /\ Places(r) \subseteq 1 .. Len(batch)
         /\ r \in ToSet(batch) => Cardinality(Places(r)) >= 1
<1>1. /\ Turned(r) \subseteq 1 .. Len(given) /\ Places(r) \subseteq 1 .. Len(batch)
      /\ Len(given) \in Nat /\ Len(batch) \in Nat
  <2>1. given \in Seq(Batches) /\ batch \in Seq(Requests)
    BY DEF EventInv, EventShapes
  <2> QED
    BY <2>1 DEF Turned, Places
<1>2. IsFiniteSet(1 .. Len(given)) /\ IsFiniteSet(1 .. Len(batch))
  BY <1>1, FS_Interval
<1>3. IsFiniteSet(Turned(r)) /\ IsFiniteSet(Places(r))
  BY <1>1, <1>2, FS_Subset
<1>4. Cardinality(Turned(r)) \in Nat /\ Cardinality(Places(r)) \in Nat
  BY <1>3, FS_CardinalityType
<1>5. r \in ToSet(batch) => Places(r) # {}
  BY DEF ToSet, Places
<1>6. Places(r) # {} => Cardinality(Places(r)) # 0
  BY <1>3, FS_EmptySet
<1> QED
  BY <1>1, <1>3, <1>4, <1>5, <1>6

\* A turn made from s: it counts once for each request of s.
LEMMA TurnMade ==
  ASSUME EventInv, NEW s \in Seq(Requests), s # <<>>, given' = Append(given, s), NEW r \in Requests
  PROVE  /\ Cardinality(Turned(r))' \in Nat
         /\ Cardinality(Turned(r))' <= Cardinality(Turned(r)) + IF r \in ToSet(s) THEN 1 ELSE 0
<1>1. /\ given \in Seq(Batches) /\ Len(given) \in Nat
      /\ DOMAIN given' = 1 .. Len(given) + 1 /\ given'[Len(given) + 1] = s
      /\ \A i \in DOMAIN given : given'[i] = given[i] /\ i # Len(given) + 1
      /\ DOMAIN given = 1 .. Len(given)
  <2>1. given \in Seq(Batches) /\ s \in Batches
    BY DEF EventInv, EventShapes, Batches
  <2> QED
    BY <2>1, AppendAdds
<1>2. Turned(r) \subseteq 1 .. Len(given)
  BY <1>1 DEF Turned
<1>3. Turned(r)' \subseteq Turned(r) \cup {Len(given) + 1}
  BY <1>1 DEF Turned
<1>4. r \notin ToSet(s) => Turned(r)' \subseteq Turned(r)
  BY <1>1 DEF Turned
<1> QED
  BY <1>1, <1>2, <1>3, <1>4, OneMore

\* A fragment joins the batch.
LEMMA PlaceTaken ==
  ASSUME EventInv, NEW q \in Requests, batch' = Append(batch, q), NEW r \in Requests
  PROVE  /\ Cardinality(Places(r))' \in Nat
         /\ Cardinality(Places(r))' <= Cardinality(Places(r)) + IF r = q THEN 1 ELSE 0
<1>1. /\ batch \in Seq(Requests) /\ Len(batch) \in Nat
      /\ DOMAIN batch' = 1 .. Len(batch) + 1 /\ batch'[Len(batch) + 1] = q
      /\ \A i \in DOMAIN batch : batch'[i] = batch[i] /\ i # Len(batch) + 1
      /\ DOMAIN batch = 1 .. Len(batch)
  <2>1. batch \in Seq(Requests)
    BY DEF EventInv, EventShapes
  <2> QED
    BY <2>1, AppendAdds
<1>2. Places(r) \subseteq 1 .. Len(batch)
  BY <1>1 DEF Places
<1>3. Places(r)' \subseteq Places(r) \cup {Len(batch) + 1}
  BY <1>1 DEF Places
<1>4. r # q => Places(r)' \subseteq Places(r)
  BY <1>1 DEF Places
<1> QED
  BY <1>1, <1>2, <1>3, <1>4, OneMore

----------------------------------------------------------------------------
(* The actions *)

\* What a turn made from s leaves true: its requests were posted, and a
\* journalled message has no other turn.
LEMMA TurnFits ==
  ASSUME EventInv, NEW s \in Seq(Requests), s # <<>>, given' = Append(given, s),
         UNCHANGED <<sort, body, posted>>,
         \A j \in DOMAIN s : posted[s[j]] > 0,
         \A p \in ToSet(s) : sort[p] \in Unique =>
           ~Journalled(body[p]) /\ \A q \in ToSet(s) : q = p
  PROVE  /\ given' \in Seq(Batches)
         /\ \A i \in DOMAIN given' : \A j \in DOMAIN given'[i] : posted[given'[i][j]] > 0
         /\ JournalledOnce'
         /\ \A i \in DOMAIN given : i \in DOMAIN given' /\ given'[i] = given[i]
         /\ \E i \in DOMAIN given' : given'[i] = s
         /\ \A t \in Texts : Journalled(t) => Journalled(t)'
<1>1. /\ given \in Seq(Batches) /\ Len(given) \in Nat
      /\ DOMAIN given' = 1 .. Len(given) + 1 /\ given'[Len(given) + 1] = s
      /\ \A i \in DOMAIN given : given'[i] = given[i] /\ i # Len(given) + 1
      /\ DOMAIN given = 1 .. Len(given)
      /\ given' \in Seq(Batches)
  <2>1. given \in Seq(Batches) /\ s \in Batches
    BY DEF EventInv, EventShapes, Batches
  <2> QED
    BY <2>1, AppendAdds
<1>3. \A i \in DOMAIN given' : \A j \in DOMAIN given'[i] : posted[given'[i][j]] > 0
  BY <1>1 DEF EventInv, EventsArePosted
<1>4. JournalledOnce'
  <2>1. ASSUME NEW i \in DOMAIN given, NEW p \in ToSet(given[i]), NEW q \in ToSet(s),
               sort[p] \in Unique, sort[q] \in Unique
        PROVE  body[p] # body[q]
    <3>1. PICK j \in DOMAIN given[i] : given[i][j] = p
      BY DEF ToSet
    <3>2. Journalled(body[p])
      BY <2>1, <3>1 DEF Journalled, Unique, Lasting
    <3> QED
      BY <2>1, <3>2
  <2> SUFFICES ASSUME NEW i \in DOMAIN given', NEW j \in DOMAIN given',
                      NEW p \in ToSet(given'[i]), NEW q \in ToSet(given'[j]),
                      {sort[p], sort[q]} \subseteq Unique, body[p] = body[q]
               PROVE  i = j
    BY DEF JournalledOnce
  <2>2. CASE i \in DOMAIN given /\ j \in DOMAIN given
    BY <1>1, <2>2 DEF EventInv, JournalledOnce
  <2>3. CASE i \in DOMAIN given /\ j = Len(given) + 1
    BY <1>1, <2>1, <2>3
  <2>4. CASE j \in DOMAIN given /\ i = Len(given) + 1
    BY <1>1, <2>1, <2>4
  <2> QED
    BY <1>1, <2>2, <2>3, <2>4
<1>5. \A t \in Texts : Journalled(t) => Journalled(t)'
  <2> SUFFICES ASSUME NEW t \in Texts, NEW i \in DOMAIN given, NEW j \in DOMAIN given[i],
                      sort[given[i][j]] \in Lasting, body[given[i][j]] = t
               PROVE  Journalled(t)'
    BY DEF Journalled
  <2> QED
    BY <1>1 DEF Journalled
<1> QED
  BY <1>1, <1>3, <1>4, <1>5

\* The given turns stay: nothing that was accounted for by them is lost.
StillGiven ==
  /\ \A i \in DOMAIN given : i \in DOMAIN given' /\ given'[i] = given[i]
  /\ \A t \in Texts : Journalled(t) => Journalled(t)'

\* Turns are never taken back: nothing is lost while none is made.
LEMMA GivenStays ==
  ASSUME EventInv, UNCHANGED <<given, sort, body>>
  PROVE  StillGiven
  BY DEF StillGiven, Journalled

\* A counter of handlers goes up, or down, by one.
LEMMA Counted ==
  ASSUME NEW f \in [Requests -> Nat], NEW r \in Requests
  PROVE  /\ More(f, r) \in [Requests -> Nat] /\ More(f, r)[r] = f[r] + 1
         /\ \A q \in Requests : q # r => More(f, r)[q] = f[q]
         /\ f[r] > 0 => Less(f, r) \in [Requests -> Nat]
         /\ Less(f, r)[r] = f[r] - 1
         /\ \A q \in Requests : q # r => Less(f, r)[q] = f[q]
  BY DEF More, Less

\* A loss is noted for the requests concerned and for no other.
LEMMA LossNoted ==
  ASSUME EventMarks, NEW S, NEW how \in Edge, Lost(S, how)
  PROVE  /\ edges' \in [Requests -> SUBSET Edge]
         /\ \A q \in Requests : edges[q] \subseteq edges'[q]
         /\ \A q \in Requests : q \in S => edges'[q] # {}
         /\ \A q \in Requests : q \notin S => edges'[q] = edges[q]
<1>1. \A q \in Requests : edges'[q] = edges[q] \cup IF q \in S THEN {how} ELSE {}
  BY DEF Lost
<1>2. edges \in [Requests -> SUBSET Edge]
  BY DEF EventMarks
<1>3. \A q \in Requests : edges'[q] \in SUBSET Edge
  BY <1>1, <1>2
<1>4. edges' \in [Requests -> SUBSET Edge]
  BY <1>3 DEF Lost
<1> QED
  BY <1>1, <1>4

\* The claim of r after a handler of it ended.
LEMMA ClaimEnds ==
  ASSUME EventMarks, NEW r \in Requests
  PROVE  /\ \A told \in BOOLEAN : Commits(r, told) =>
              /\ claim' \in [Requests -> {"free", "inflight", "recent"}]
              /\ agreed' \in [Requests -> BOOLEAN] /\ claim'[r] = "recent"
              /\ agreed[r] => agreed'[r]
              /\ \A q \in Requests : q # r => claim'[q] = claim[q] /\ agreed'[q] = agreed[q]
         /\ RollsBack(r) =>
              /\ claim' \in [Requests -> {"free", "inflight", "recent"}] /\ claim'[r] = "free"
              /\ \A q \in Requests : q # r => claim'[q] = claim[q] /\ edges'[q] = edges[q]
              /\ edges' \in [Requests -> SUBSET Edge]
              /\ agreed[r] => edges'[r] # {}
              /\ edges[r] \subseteq edges'[r]
<1>1. ASSUME NEW told \in BOOLEAN, Commits(r, told)
      PROVE  /\ claim' \in [Requests -> {"free", "inflight", "recent"}]
             /\ agreed' \in [Requests -> BOOLEAN] /\ claim'[r] = "recent"
             /\ agreed[r] => agreed'[r]
             /\ \A q \in Requests : q # r => claim'[q] = claim[q] /\ agreed'[q] = agreed[q]
  BY <1>1 DEF EventMarks, Commits
<1>2. ASSUME RollsBack(r)
      PROVE  /\ claim' \in [Requests -> {"free", "inflight", "recent"}] /\ claim'[r] = "free"
             /\ \A q \in Requests : q # r => claim'[q] = claim[q] /\ edges'[q] = edges[q]
             /\ edges' \in [Requests -> SUBSET Edge]
             /\ agreed[r] => edges'[r] # {}
             /\ edges[r] \subseteq edges'[r]
  <2>1. "failed after a repeat was told" \in Edge
    BY DEF Edge
  <2>2. claim' = [claim EXCEPT ![r] = "free"]
    BY <1>2 DEF RollsBack
  <2>3. /\ edges' \in [Requests -> SUBSET Edge] /\ edges[r] \subseteq edges'[r]
        /\ agreed[r] => edges'[r] # {}
        /\ \A q \in Requests : q # r => edges'[q] = edges[q]
    <3> DEFINE S == IF agreed[r] THEN {r} ELSE {}
    <3>1. Lost(S, "failed after a repeat was told")
      BY <1>2 DEF RollsBack
    <3>2. (agreed[r] => r \in S) /\ \A q \in Requests : q # r => q \notin S
      OBVIOUS
    <3> HIDE DEF S
    <3> QED
      BY <2>1, <3>1, <3>2, LossNoted
  <2> QED
    BY <2>2, <2>3 DEF EventMarks
<1> QED
  BY <1>1, <1>2

\* What is known of the numbers of one request.
LEMMA Counts ==
  ASSUME EventInv, NEW q \in Requests
  PROVE  /\ workers[q] \in Nat /\ checked[q] \in Nat /\ woken[q] \in Nat /\ lapses[q] \in Nat
         /\ posted[q] \in Nat
         /\ Claimed(q) \in Nat /\ Claimed(q)' \in Nat
         /\ Cardinality(Turned(q)) \in Nat /\ Cardinality(Places(q)) \in Nat
         /\ sort[q] # "whatsapp" =>
              Cardinality(Turned(q)) + Cardinality(Places(q)) + workers[q] + checked[q] + woken[q]
                <= lapses[q] + Claimed(q)
  BY EventCounts DEF EventInv, EventShapes, EventNumbers, ClaimsCount, Claimed

\* The provider posts: a free claim is taken, a taken one is answered for.
LEMMA ReceivesStep ==
  ASSUME EventInv, NEW r \in Requests, NEW s \in Sort, Receives(r, s)
  PROVE  EventInv'
<1> USE DEF EventInv, Receives
<1>1. s # "none"
  BY DEF Sort, Lasting
<1>2. /\ \A q \in Requests : posted[q] > 0 => sort'[q] = sort[q]
      /\ \A q \in Requests : q # r => sort'[q] = sort[q]
      /\ sort' \in [Requests -> Sort \cup {"none"}] /\ sort'[r] = s
  <2>1. /\ sort \in [Requests -> Sort \cup {"none"}] /\ sort' = [sort EXCEPT ![r] = s]
        /\ posted[r] \in Nat /\ (posted[r] = 0 \/ sort[r] = s)
    BY Counts DEF EventShapes, EventMarks
  <2> QED
    BY <2>1
<1>a. /\ agreed' \in [Requests -> BOOLEAN]
      /\ claim' \in [Requests -> {"free", "inflight", "recent"}]
      /\ \/ /\ agreed' = agreed /\ claim[r] = "free" /\ claim'[r] = "inflight"
            /\ workers' = [workers EXCEPT ![r] = @ + 1] /\ s # "whatsapp"
         \/ claim' = claim /\ claim[r] # "free" /\ workers' = workers /\ s # "whatsapp"
         \/ /\ claim' = claim /\ agreed' = agreed /\ s = "whatsapp"
            /\ workers' = [workers EXCEPT ![r] = @ + 1]
      /\ \A q \in Requests : q # r => claim'[q] = claim[q] /\ agreed'[q] = agreed[q]
  BY DEF EventShapes, EventMarks, Tells
<1>b. /\ posted' \in [Requests -> Nat] /\ posted'[r] > 0
      /\ \A q \in Requests : q # r => posted'[q] = posted[q]
      /\ workers' \in [Requests -> Nat]
      /\ workers'[r] = workers[r] + 1 \/ workers' = workers
      /\ workers' = [workers EXCEPT ![r] = @ + 1] => workers'[r] = workers[r] + 1
      /\ \A q \in Requests : q # r => workers'[q] = workers[q]
  <2>1. /\ posted \in [Requests -> Nat] /\ workers \in [Requests -> Nat]
        /\ posted' = [posted EXCEPT ![r] = @ + 1]
    BY DEF EventShapes, EventNumbers
  <2> QED
    BY <1>a, <2>1
<1>3. EventShapes'
  BY <1>2, <1>a, <1>b DEF EventShapes, EventNumbers, EventMarks
<1>4. \A i \in DOMAIN given : \A j \in DOMAIN given[i] :
        given[i][j] \in Requests /\ posted[given[i][j]] > 0
  BY DEF EventShapes, EventsArePosted, Batches
<1>5. \A i \in DOMAIN batch : batch[i] \in Requests /\ posted[batch[i]] > 0
  BY DEF EventShapes, EventsArePosted
<1>6. EventsArePosted'
  <2>1. \A i \in DOMAIN batch : sort'[batch[i]] = "fragment"
    BY <1>2, <1>5 DEF EventsArePosted
  <2>2. \A i \in DOMAIN given : \A j \in DOMAIN given[i] : posted'[given[i][j]] > 0
    BY <1>4, <1>b
  <2>3. ASSUME NEW q \in Requests
        PROVE  /\ claim'[q] # "free" \/ agreed'[q] \/ workers'[q] + checked[q] + woken[q] > 0
                    => posted'[q] > 0
               /\ checked[q] > 0 => sort'[q] \in Awaited
               /\ woken[q] > 0 => sort'[q] = "failure"
               /\ posted'[q] > 0 <=> sort'[q] # "none"
               /\ sort'[q] = "whatsapp" => claim'[q] = "free"
    <3>1. CASE q = r
      <4>1. workers[q] \in Nat /\ checked[q] \in Nat /\ woken[q] \in Nat
        BY Counts
      <4>2. checked[q] > 0 \/ woken[q] > 0 => posted[q] > 0
        BY <4>1 DEF EventsArePosted
      <4>3. s = "whatsapp" => claim'[q] = "free"
        <5>1. CASE posted[r] > 0
          BY <1>2, <1>a, <3>1, <5>1 DEF EventsArePosted
        <5>2. CASE posted[r] = 0
          BY <1>a, <3>1, <5>2 DEF EventsArePosted
        <5> QED
          BY <5>1, <5>2, Counts
      <4> QED
        BY <1>1, <1>2, <1>b, <3>1, <4>1, <4>2, <4>3 DEF EventsArePosted
    <3>2. CASE q # r
      BY <1>2, <1>a, <1>b, <3>2 DEF EventsArePosted
    <3> QED
      BY <3>1, <3>2
  <2> QED
    BY <2>1, <2>2, <2>3 DEF EventsArePosted
<1>8. JournalledOnce'
  <2>1. \A i \in DOMAIN given : \A p \in ToSet(given[i]) : sort'[p] = sort[p]
    BY <1>2, <1>4 DEF ToSet
  <2> QED
    BY <2>1 DEF JournalledOnce
<1>9. ClaimsCount'
  <2> SUFFICES ASSUME NEW q \in Requests, sort'[q] # "whatsapp"
               PROVE  Cardinality(Turned(q)) + Cardinality(Places(q))
                        + workers'[q] + checked[q] + woken[q] <= lapses[q] + Claimed(q)'
    BY DEF ClaimsCount, Turned, Places
  <2>1. workers'[q] + Claimed(q) = workers[q] + Claimed(q)' /\ workers'[q] \in Nat
    BY <1>2, <1>a, <1>b, Counts DEF Claimed
  <2>2. sort[q] # "whatsapp"
    <3>1. posted[q] > 0 \/ sort[q] = "none"
      BY DEF EventsArePosted, EventShapes, EventMarks, Sort
    <3> QED
      BY <1>2, <3>1
  <2> QED
    BY <2>1, <2>2, Counts
<1>10. \A t \in Texts : Journalled(t) => Journalled(t)'
  BY <1>2, <1>4 DEF Journalled
<1>11. NoneForgotten'
  <2> SUFFICES ASSUME NEW q \in Requests,
                      (agreed'[q] = TRUE \/ claim'[q] # "free"), sort'[q] # "failure"
               PROVE  Accounted(q)'
    BY <1>a DEF NoneForgotten
  <2>1. workers'[q] + checked'[q] >= workers[q] + checked[q] /\ edges'[q] = edges[q]
    BY <1>a, <1>b, Counts
  <2>2. CASE agreed[q] \/ claim[q] # "free"
    <3>1. posted[q] > 0
      BY <2>2 DEF EventsArePosted
    <3>2. Accounted(q) /\ body[q] \in Texts
      BY <1>2, <2>2, <3>1 DEF NoneForgotten, EventShapes, EventMarks
    <3>3. workers[q] + checked[q] > 0 => workers'[q] + checked'[q] > 0
      BY <1>b, <2>1, Counts
    <3> QED
      BY <1>2, <1>10, <2>1, <3>1, <3>2, <3>3 DEF Accounted
  <2>3. CASE ~(agreed[q] \/ claim[q] # "free")
    <3>1. q = r /\ workers'[r] = workers[r] + 1 /\ sort'[q] # "whatsapp"
      BY <1>2, <1>a, <1>b, <2>3
    <3>2. workers'[q] + checked'[q] > 0
      BY <3>1, Counts
    <3> QED
      BY <3>1, <3>2 DEF Accounted
  <2> QED
    BY <2>2, <2>3
<1> QED
  BY <1>3, <1>6, <1>8, <1>9, <1>11

\* A handler of r goes on, or ends: what is left to show when no turn is made.
LEMMA NoTurnKept ==
  ASSUME EventInv, UNCHANGED <<given, batch, sort, body, posted>>,
         EventShapes',
         \A q \in Requests :
           /\ agreed'[q] => agreed[q] \/ claim[q] # "free" \/ workers[q] + checked[q] + woken[q] > 0
           /\ claim'[q] # "free" => claim[q] # "free" \/ workers[q] + checked[q] + woken[q] > 0
           /\ workers'[q] + checked'[q] + woken'[q] > 0 => workers[q] + checked[q] + woken[q] > 0
           /\ checked'[q] > 0 => sort[q] \in Awaited
           /\ woken'[q] > 0 => sort[q] = "failure"
           /\ sort[q] = "whatsapp" => claim'[q] = "free"
           /\ workers'[q] + checked'[q] + woken'[q] + lapses[q] + Claimed(q)
                <= workers[q] + checked[q] + woken[q] + lapses'[q] + Claimed(q)'
           /\ edges[q] \subseteq edges'[q]
           /\ (agreed'[q] \/ claim'[q] # "free") /\ sort[q] # "failure" =>
                \/ sort[q] \in Lasting /\ Journalled(body[q])
                \/ /\ sort[q] # "whatsapp"
                   /\ workers'[q] + checked'[q] > 0 \/ edges'[q] # {}
                \/ /\ agreed[q] \/ claim[q] # "free"
                   /\ workers'[q] + checked'[q] = workers[q] + checked[q]
  PROVE  EventInv'
<1> USE DEF EventInv
<1>0. \A q \in Requests : /\ workers'[q] \in Nat /\ checked'[q] \in Nat
                         /\ woken'[q] \in Nat /\ lapses'[q] \in Nat
  BY DEF EventShapes, EventNumbers
<1>1. EventsArePosted'
  BY DEF EventsArePosted
<1>2. JournalledOnce'
  BY DEF JournalledOnce
<1>3. ClaimsCount'
  <2> SUFFICES ASSUME NEW q \in Requests, sort[q] # "whatsapp"
               PROVE  Cardinality(Turned(q)) + Cardinality(Places(q))
                        + workers'[q] + checked'[q] + woken'[q] <= lapses'[q] + Claimed(q)'
    BY DEF ClaimsCount, Turned, Places
  <2> QED
    BY <1>0, Counts
<1>4. NoneForgotten'
  <2> SUFFICES ASSUME NEW q \in Requests, (agreed'[q] \/ claim'[q] # "free"), sort[q] # "failure"
               PROVE  Accounted(q)'
    BY DEF NoneForgotten
  <2>1. Journalled(body[q]) => Journalled(body[q])'
    BY DEF Journalled
  <2>2. CASE \/ sort[q] \in Lasting /\ Journalled(body[q])
             \/ /\ sort[q] # "whatsapp"
                /\ workers'[q] + checked'[q] > 0 \/ edges'[q] # {}
    BY <2>1, <2>2 DEF Accounted
  <2>3. CASE (agreed[q] \/ claim[q] # "free")
               /\ workers'[q] + checked'[q] = workers[q] + checked[q]
    BY <2>1, <2>3 DEF NoneForgotten, Accounted
  <2> QED
    BY <2>2, <2>3
<1> QED
  BY <1>1, <1>2, <1>3, <1>4

\* One handler of r is fewer.
Leaves(r) ==
  \/ workers[r] > 0 /\ workers' = Less(workers, r) /\ UNCHANGED <<checked, woken>>
  \/ checked[r] > 0 /\ checked' = Less(checked, r) /\ UNCHANGED <<workers, woken>>
  \/ woken[r] > 0 /\ woken' = Less(woken, r) /\ UNCHANGED <<workers, checked>>

\* One handler of r ends.
LEMMA OneLeaves ==
  ASSUME EventInv, NEW r \in Requests, Leaves(r)
  PROVE  /\ workers' \in [Requests -> Nat] /\ checked' \in [Requests -> Nat]
         /\ woken' \in [Requests -> Nat]
         /\ \A q \in Requests : q # r => /\ workers'[q] = workers[q] /\ checked'[q] = checked[q]
                                         /\ woken'[q] = woken[q]
         /\ workers'[r] <= workers[r] /\ checked'[r] <= checked[r] /\ woken'[r] <= woken[r]
         /\ workers'[r] + checked'[r] + woken'[r] + 1 = workers[r] + checked[r] + woken[r]
         /\ posted[r] > 0
<1>1. /\ workers \in [Requests -> Nat] /\ checked \in [Requests -> Nat]
      /\ woken \in [Requests -> Nat]
  BY DEF EventInv, EventShapes, EventNumbers
<1>2. workers[r] + checked[r] + woken[r] > 0 => posted[r] > 0
  BY DEF EventInv, EventsArePosted
<1>3. CASE workers[r] > 0 /\ workers' = Less(workers, r) /\ UNCHANGED <<checked, woken>>
  BY <1>1, <1>2, <1>3, Counted
<1>4. CASE checked[r] > 0 /\ checked' = Less(checked, r) /\ UNCHANGED <<workers, woken>>
  BY <1>1, <1>2, <1>4, Counted
<1>5. CASE woken[r] > 0 /\ woken' = Less(woken, r) /\ UNCHANGED <<workers, checked>>
  BY <1>1, <1>2, <1>5, Counted
<1> QED
  BY <1>3, <1>4, <1>5 DEF Leaves

\* A handler of r ends without a turn: it tells the provider why, or rolls back.
LEMMA EndKept ==
  ASSUME EventInv, NEW r \in Requests, Leaves(r),
         UNCHANGED <<given, batch, sort, body, posted, lapses>>,
         claim' \in [Requests -> {"free", "inflight", "recent"}],
         agreed' \in [Requests -> BOOLEAN], edges' \in [Requests -> SUBSET Edge],
         \A q \in Requests : q # r => claim'[q] = claim[q] /\ agreed'[q] = agreed[q],
         \A q \in Requests : edges[q] \subseteq edges'[q],
         \/ /\ claim'[r] = "recent" /\ sort[r] # "whatsapp"
            /\ \/ sort[r] \in Lasting /\ Journalled(body[r])
               \/ sort[r] = "failure"
               \/ edges'[r] # {}
         \/ /\ claim'[r] = "free" /\ sort[r] # "whatsapp" /\ agreed' = agreed
            /\ agreed[r] => edges'[r] # {}
         \/ /\ claim' = claim /\ sort[r] = "whatsapp"
            /\ agreed'[r] => Journalled(body[r])
  PROVE  EventInv'
<1>1. EventShapes'
  BY OneLeaves DEF EventInv, EventShapes, EventNumbers, EventMarks
<1>2. (checked[r] > 0 => sort[r] \in Awaited) /\ (sort[r] = "whatsapp" => claim[r] = "free")
  BY DEF EventInv, EventsArePosted
<1>3. woken[r] > 0 => sort[r] = "failure"
  BY DEF EventInv, EventsArePosted
<1>4. ASSUME NEW q \in Requests
      PROVE  /\ agreed'[q] =>
                  agreed[q] \/ claim[q] # "free" \/ workers[q] + checked[q] + woken[q] > 0
             /\ claim'[q] # "free" => claim[q] # "free" \/ workers[q] + checked[q] + woken[q] > 0
             /\ workers'[q] + checked'[q] + woken'[q] > 0 => workers[q] + checked[q] + woken[q] > 0
             /\ checked'[q] > 0 => sort[q] \in Awaited
             /\ woken'[q] > 0 => sort[q] = "failure"
             /\ sort[q] = "whatsapp" => claim'[q] = "free"
             /\ workers'[q] + checked'[q] + woken'[q] + lapses[q] + Claimed(q)
                  <= workers[q] + checked[q] + woken[q] + lapses'[q] + Claimed(q)'
             /\ edges[q] \subseteq edges'[q]
             /\ (agreed'[q] \/ claim'[q] # "free") /\ sort[q] # "failure" =>
                  \/ sort[q] \in Lasting /\ Journalled(body[q])
                  \/ /\ sort[q] # "whatsapp"
                     /\ workers'[q] + checked'[q] > 0 \/ edges'[q] # {}
                  \/ /\ agreed[q] \/ claim[q] # "free"
                     /\ workers'[q] + checked'[q] = workers[q] + checked[q]
  <2>1. CASE q = r
    <3>1. workers'[r] \in Nat /\ checked'[r] \in Nat /\ woken'[r] \in Nat
      BY OneLeaves
    <3>2. Claimed(r) <= 1 + Claimed(r)'
      BY DEF Claimed
    <3>3. sort[r] = "whatsapp" => claim'[r] = "free" /\ (agreed'[r] => Journalled(body[r]))
      BY <1>2
    <3>4. sort[r] = "whatsapp" => sort[r] \in Lasting
      BY DEF Lasting
    <3> QED
      BY <1>2, <1>3, <2>1, <3>1, <3>2, <3>3, <3>4, OneLeaves, Counts
  <2>2. CASE q # r
    <3>1. Claimed(q)' = Claimed(q) /\ claim'[q] = claim[q] /\ agreed'[q] = agreed[q]
          /\ workers'[q] = workers[q] /\ checked'[q] = checked[q] /\ woken'[q] = woken[q]
      BY <2>2, OneLeaves DEF Claimed
    <3>2. /\ (checked[q] > 0 => sort[q] \in Awaited) /\ (woken[q] > 0 => sort[q] = "failure")
          /\ (sort[q] = "whatsapp" => claim[q] = "free")
      BY DEF EventInv, EventsArePosted
    <3> QED
      BY <3>1, <3>2, Counts
  <2> QED
    BY <2>1, <2>2
<1> QED
  BY <1>1, <1>4, NoTurnKept

\* A contact, an identity or an attachment cannot be read: the claim is given back.
LEMMA BreaksStep ==
  ASSUME EventInv, NEW r \in Requests, Breaks(r)
  PROVE  EventInv'
<1>1. /\ Leaves(r) /\ UNCHANGED <<given, batch, sort, body, posted, lapses, agreed>>
      /\ IF sort[r] = "whatsapp" THEN UNCHANGED <<claim, edges>> ELSE RollsBack(r)
  BY DEF Breaks, Leaves
<1>2. EventMarks
  BY DEF EventInv, EventShapes
<1>3. /\ agreed \in [Requests -> BOOLEAN] /\ edges \in [Requests -> SUBSET Edge]
      /\ claim \in [Requests -> {"free", "inflight", "recent"}]
  BY <1>2 DEF EventMarks
<1>4. CASE sort[r] # "whatsapp"
  BY <1>1, <1>2, <1>3, <1>4, EndKept, ClaimEnds
<1>5. CASE sort[r] = "whatsapp"
  <2>1. agreed[r] => Journalled(body[r])
    BY <1>5 DEF EventInv, NoneForgotten, Accounted
  <2> QED
    BY <1>1, <1>3, <1>5, <2>1, EndKept
<1> QED
  BY <1>4, <1>5

\* A handler of r has decided, and awaits what it needs next.
LEMMA MoveKept ==
  ASSUME EventInv, NEW r \in Requests, workers[r] > 0, workers' = Less(workers, r),
         \/ sort[r] \in Awaited /\ checked' = More(checked, r) /\ woken' = woken
         \/ sort[r] = "failure" /\ woken' = More(woken, r) /\ checked' = checked,
         UNCHANGED <<given, batch, sort, body, posted, lapses, claim, agreed, edges>>
  PROVE  EventInv'
<1>1. /\ workers \in [Requests -> Nat] /\ checked \in [Requests -> Nat]
      /\ woken \in [Requests -> Nat]
  BY DEF EventInv, EventShapes, EventNumbers
<1>0. sort[r] \in Awaited => sort[r] # "failure"
  BY DEF Awaited
<1>2. /\ workers' \in [Requests -> Nat] /\ checked' \in [Requests -> Nat]
      /\ woken' \in [Requests -> Nat]
      /\ \A q \in Requests : q # r => /\ workers'[q] = workers[q] /\ checked'[q] = checked[q]
                                      /\ woken'[q] = woken[q]
      /\ workers'[r] + checked'[r] + woken'[r] = workers[r] + checked[r] + woken[r]
      /\ sort[r] \in Awaited => /\ workers'[r] + checked'[r] = workers[r] + checked[r]
                                /\ woken'[r] = woken[r]
      /\ sort[r] = "failure" => checked'[r] = checked[r]
  <2>1. /\ workers' \in [Requests -> Nat] /\ workers'[r] = workers[r] - 1
        /\ \A q \in Requests : q # r => workers'[q] = workers[q]
        /\ workers[r] \in Nat /\ checked[r] \in Nat /\ woken[r] \in Nat
    BY <1>1, Counted
  <2>2. CASE sort[r] \in Awaited /\ checked' = More(checked, r) /\ woken' = woken
    <3>1. /\ checked' \in [Requests -> Nat] /\ checked'[r] = checked[r] + 1
          /\ \A q \in Requests : q # r => checked'[q] = checked[q]
      BY <1>1, <2>2, Counted
    <3> QED
      BY <1>0, <1>1, <2>1, <2>2, <3>1
  <2>3. CASE sort[r] = "failure" /\ woken' = More(woken, r) /\ checked' = checked
    <3>1. /\ woken' \in [Requests -> Nat] /\ woken'[r] = woken[r] + 1
          /\ \A q \in Requests : q # r => woken'[q] = woken[q]
      BY <1>1, <2>3, Counted
    <3> QED
      BY <1>0, <1>1, <2>1, <2>3, <3>1
  <2> QED
    BY <2>2, <2>3
<1>3. EventShapes'
  BY <1>2 DEF EventInv, EventShapes, EventNumbers, EventMarks
<1>4. ASSUME NEW q \in Requests
      PROVE  /\ workers'[q] + checked'[q] + woken'[q] = workers[q] + checked[q] + woken[q]
             /\ checked'[q] > 0 => sort[q] \in Awaited
             /\ woken'[q] > 0 => sort[q] = "failure"
             /\ sort[q] = "whatsapp" => claim'[q] = "free"
             /\ sort[q] # "failure" => workers'[q] + checked'[q] = workers[q] + checked[q]
             /\ Claimed(q)' = Claimed(q)
  <2>1. /\ (checked[q] > 0 => sort[q] \in Awaited) /\ (woken[q] > 0 => sort[q] = "failure")
        /\ (sort[q] = "whatsapp" => claim[q] = "free")
    BY DEF EventInv, EventsArePosted
  <2>2. Claimed(q)' = Claimed(q)
    BY DEF Claimed
  <2>3. CASE q = r
    BY <1>2, <2>1, <2>2, <2>3
  <2>4. CASE q # r
    BY <1>2, <2>1, <2>2, <2>4
  <2> QED
    BY <2>3, <2>4
<1>5. \A q \in Requests :
        /\ workers'[q] + checked'[q] + woken'[q] + lapses[q] + Claimed(q)
                <= workers[q] + checked[q] + woken[q] + lapses'[q] + Claimed(q)'
        /\ workers'[q] + checked'[q] + woken'[q] > 0 => workers[q] + checked[q] + woken[q] > 0
  BY <1>4, Counts
<1> QED
  BY <1>3, <1>4, <1>5, NoTurnKept

\* A journalled message is looked for, and waited for when it is new.
LEMMA LooksStep ==
  ASSUME EventInv, NEW r \in Requests, NEW told \in BOOLEAN, Looks(r, told)
  PROVE  EventInv'
<1>1. EventMarks
  BY DEF EventInv, EventShapes
<1>2. /\ agreed \in [Requests -> BOOLEAN] /\ edges \in [Requests -> SUBSET Edge]
      /\ sort[r] \in Awaited /\ sort[r] \in Lasting /\ sort[r] # "whatsapp"
  BY <1>1 DEF EventMarks, Looks, Awaited, Lasting
<1>3. CASE RollsBack(r) /\ UNCHANGED <<agreed, checked>>
  <2>1. Leaves(r) /\ UNCHANGED <<given, batch, sort, body, posted, lapses>>
    BY <1>3 DEF Looks, Leaves
  <2> QED
    BY <1>1, <1>2, <1>3, <2>1, EndKept, ClaimEnds
<1>4. CASE Journalled(body[r]) /\ Commits(r, told) /\ UNCHANGED <<checked, edges>>
  <2>1. Leaves(r) /\ UNCHANGED <<given, batch, sort, body, posted, lapses>>
    BY <1>4 DEF Looks, Leaves
  <2> QED
    BY <1>1, <1>2, <1>4, <2>1, EndKept, ClaimEnds
<1>5. CASE checked' = More(checked, r) /\ UNCHANGED <<claim, agreed, edges>>
  <2>1. /\ workers[r] > 0 /\ workers' = Less(workers, r) /\ woken' = woken
        /\ UNCHANGED <<given, batch, sort, body, posted, lapses>>
    BY DEF Looks
  <2> QED
    BY <1>2, <1>5, <2>1, MoveKept
<1> QED
  BY <1>3, <1>4, <1>5 DEF Looks

\* A failed delivery is noted.
LEMMA NoticesStep ==
  ASSUME EventInv, NEW r \in Requests, NEW told \in BOOLEAN, Notices(r, told)
  PROVE  EventInv'
<1>1. EventMarks
  BY DEF EventInv, EventShapes
<1>2. agreed \in [Requests -> BOOLEAN] /\ edges \in [Requests -> SUBSET Edge]
  BY <1>1 DEF EventMarks
<1>3. CASE body[r] \in noted
  <2>1. /\ Leaves(r) /\ Commits(r, told) /\ sort[r] = "failure"
        /\ UNCHANGED <<given, batch, sort, body, posted, lapses, edges>>
    BY <1>3 DEF Notices, Leaves
  <2> QED
    BY <1>1, <1>2, <2>1, EndKept, ClaimEnds
<1>4. CASE body[r] \notin noted
  BY <1>4, MoveKept DEF Notices
<1> QED
  BY <1>3, <1>4

\* The time of a claim is over, and counted.
LEMMA ClaimLapsesStep ==
  ASSUME EventInv, NEW r \in Requests, ClaimLapses(r)
  PROVE  EventInv'
<1>1. /\ lapses' = More(lapses, r) /\ claim' = [claim EXCEPT ![r] = "free"] /\ claim[r] # "free"
      /\ UNCHANGED <<given, batch, sort, body, posted, agreed, edges, workers, checked, woken>>
  BY DEF ClaimLapses
<1>2. /\ lapses \in [Requests -> Nat]
      /\ claim \in [Requests -> {"free", "inflight", "recent"}]
  BY DEF EventInv, EventShapes, EventNumbers, EventMarks
<1>3. /\ lapses' \in [Requests -> Nat] /\ lapses'[r] = lapses[r] + 1
      /\ \A q \in Requests : q # r => lapses'[q] = lapses[q]
  BY <1>1, <1>2, Counted
<1>4. EventShapes'
  BY <1>1, <1>2, <1>3 DEF EventInv, EventShapes, EventNumbers, EventMarks
<1>5. ASSUME NEW q \in Requests
      PROVE  /\ lapses[q] + Claimed(q) = lapses'[q] + Claimed(q)' /\ lapses'[q] \in Nat
             /\ claim'[q] # "free" => claim[q] # "free"
             /\ (checked[q] > 0 => sort[q] \in Awaited) /\ (woken[q] > 0 => sort[q] = "failure")
             /\ sort[q] = "whatsapp" => claim'[q] = "free"
  BY <1>1, <1>2, <1>3, Counts DEF Claimed, EventInv, EventsArePosted
<1>6. \A q \in Requests :
        workers'[q] + checked'[q] + woken'[q] + lapses[q] + Claimed(q)
                <= workers[q] + checked[q] + woken[q] + lapses'[q] + Claimed(q)'
  BY <1>1, <1>5, Counts
<1> QED
  BY <1>1, <1>4, <1>5, <1>6, NoTurnKept

\* A fragment joins the batch.
LEMMA GathersStep ==
  ASSUME EventInv, NEW r \in Requests, NEW told \in BOOLEAN, Gathers(r, told)
  PROVE  EventInv'
<1>1. /\ batch \in Seq(Requests) /\ batch' = Append(batch, r) /\ Leaves(r) /\ Commits(r, told)
      /\ sort[r] = "fragment"
      /\ UNCHANGED <<given, sort, body, posted, lapses, edges, checked, woken>>
  BY DEF Gathers, Leaves, EventInv, EventShapes
<1>2. EventMarks
  BY DEF EventInv, EventShapes
<1>3. /\ claim' \in [Requests -> {"free", "inflight", "recent"}]
      /\ agreed' \in [Requests -> BOOLEAN] /\ claim'[r] = "recent"
      /\ \A q \in Requests : q # r => claim'[q] = claim[q] /\ agreed'[q] = agreed[q]
  BY <1>1, <1>2, ClaimEnds
<1>4. /\ batch' \in Seq(Requests)
      /\ DOMAIN batch' = DOMAIN batch \cup {Len(batch) + 1} /\ batch'[Len(batch) + 1] = r
      /\ \A i \in DOMAIN batch : batch'[i] = batch[i]
  BY <1>1, AppendAdds
<1>5. EventShapes'
  BY <1>1, <1>2, <1>3, <1>4, OneLeaves
  DEF EventInv, EventShapes, EventNumbers, EventMarks
<1>6. EventsArePosted'
  <2>1. \A i \in DOMAIN batch' : sort'[batch'[i]] = "fragment"
    BY <1>1, <1>4 DEF EventInv, EventsArePosted
  <2>2. \A i \in DOMAIN given : \A j \in DOMAIN given[i] : posted'[given[i][j]] > 0
    BY <1>1 DEF EventInv, EventsArePosted
  <2>3. ASSUME NEW q \in Requests
        PROVE  /\ claim'[q] # "free" \/ agreed'[q] \/ workers'[q] + checked'[q] + woken'[q] > 0
                    => posted[q] > 0
               /\ checked[q] > 0 => sort[q] \in Awaited
               /\ woken[q] > 0 => sort[q] = "failure"
               /\ posted[q] > 0 <=> sort[q] # "none"
               /\ sort[q] = "whatsapp" => claim'[q] = "free"
    BY <1>1, <1>3, OneLeaves DEF EventInv, EventsArePosted
  <2> QED
    BY <1>1, <2>1, <2>2, <2>3 DEF EventsArePosted
<1>7. JournalledOnce'
  BY <1>1 DEF EventInv, JournalledOnce
<1>8. ClaimsCount'
  <2> SUFFICES ASSUME NEW q \in Requests, sort[q] # "whatsapp"
               PROVE  Cardinality(Turned(q)) + Cardinality(Places(q))'
                        + workers'[q] + checked'[q] + woken'[q] <= lapses[q] + Claimed(q)'
    BY <1>1 DEF ClaimsCount, Turned
  <2>1. /\ Cardinality(Places(q))' \in Nat
        /\ Cardinality(Places(q))' <= Cardinality(Places(q)) + IF q = r THEN 1 ELSE 0
    BY <1>1, PlaceTaken
  <2>2. Claimed(q)' >= Claimed(q)
    BY <1>3 DEF Claimed
  <2>c. /\ workers[q] \in Nat /\ checked[q] \in Nat /\ woken[q] \in Nat /\ lapses[q] \in Nat
        /\ Claimed(q) \in Nat /\ Claimed(q)' \in Nat
        /\ Cardinality(Turned(q)) \in Nat /\ Cardinality(Places(q)) \in Nat
        /\ Cardinality(Turned(q)) + Cardinality(Places(q)) + workers[q] + checked[q] + woken[q]
             <= lapses[q] + Claimed(q)
    BY Counts
  <2>d. workers'[q] \in Nat /\ checked'[q] \in Nat /\ woken'[q] \in Nat
    BY <1>1, OneLeaves
  <2>3. CASE q = r
    <3>1. workers'[q] + checked'[q] + woken'[q] + 1 = workers[q] + checked[q] + woken[q]
      BY <1>1, <2>3, OneLeaves
    <3> QED
      BY <2>1, <2>2, <2>3, <2>c, <2>d, <3>1
  <2>4. CASE q # r
    <3>1. workers'[q] = workers[q] /\ checked'[q] = checked[q] /\ woken'[q] = woken[q]
      BY <1>1, <2>4, OneLeaves
    <3> QED
      BY <2>1, <2>2, <2>4, <2>c, <2>d, <3>1
  <2> QED
    BY <2>3, <2>4
<1>9. NoneForgotten'
  <2> SUFFICES ASSUME NEW q \in Requests, (agreed'[q] \/ claim'[q] # "free"), sort[q] # "failure"
               PROVE  Accounted(q)'
    BY <1>1 DEF NoneForgotten
  <2>1. CASE q = r
    BY <1>1, <1>4, <2>1 DEF Accounted, ToSet
  <2>2. CASE q # r
    <3>1. Accounted(q)
      BY <1>3, <2>2 DEF EventInv, NoneForgotten
    <3>2. q \in ToSet(batch) => q \in ToSet(batch')
      BY <1>4 DEF ToSet
    <3>3. Journalled(body[q])' = Journalled(body[q])
      BY <1>1 DEF Journalled
    <3>4. workers'[q] + checked'[q] = workers[q] + checked[q]
      BY <1>1, <2>2, OneLeaves
    <3> QED
      BY <1>1, <2>2, <3>1, <3>2, <3>3, <3>4 DEF Accounted
  <2> QED
    BY <2>1, <2>2
<1> QED
  BY <1>5, <1>6, <1>7, <1>8, <1>9 DEF EventInv

\* Sums of handlers, compared.
LEMMA SumGrows ==
  ASSUME NEW p \in Nat, NEW w \in Nat, NEW c \in Nat, NEW k \in Nat,
         NEW w2 \in Nat, NEW c2 \in Nat, NEW k2 \in Nat, NEW d \in Nat
  PROVE  /\ w2 + c2 + k2 + d <= w + c + k => p + w2 + c2 + k2 + d <= p + w + c + k
         /\ w2 <= w /\ c2 <= c /\ k2 <= k /\ w2 + c2 + k2 > 0 => w + c + k > 0
  OBVIOUS

\* What becomes of the requests when a turn is made from s.
TurnTakes(s) ==
  \A q \in Requests :
    /\ agreed'[q] => agreed[q] \/ q \in ToSet(s)
    /\ claim'[q] # "free" => claim[q] # "free" \/ q \in ToSet(s)
    /\ checked'[q] <= checked[q] /\ woken'[q] <= woken[q]
    /\ workers'[q] <= workers[q] /\ edges'[q] = edges[q]
    /\ q \notin ToSet(s) => /\ workers'[q] + checked'[q] = workers[q] + checked[q]
                            /\ q \in ToSet(batch) => q \in ToSet(batch)'
    /\ Cardinality(Places(q))' \in Nat
    /\ Claimed(q)' >= Claimed(q)
    /\ Cardinality(Places(q))' + workers'[q] + checked'[q] + woken'[q]
         + (IF q \in ToSet(s) THEN 1 ELSE 0)
       <= Cardinality(Places(q)) + workers[q] + checked[q] + woken[q]

\* A turn is made from s, by the handler of one of its requests or by the batch.
LEMMA TurnKept ==
  ASSUME EventInv, NEW s \in Seq(Requests), s # <<>>, given' = Append(given, s),
         UNCHANGED <<sort, body, posted, lapses>>, EventShapes',
         \A j \in DOMAIN s : posted[s[j]] > 0,
         \A p \in ToSet(s) : sort[p] \in Unique =>
           ~Journalled(body[p]) /\ \A q \in ToSet(s) : q = p,
         TurnTakes(s), \A q \in Requests : sort[q] = "whatsapp" => claim'[q] = "free",
         \A i \in DOMAIN batch' : sort[batch'[i]] = "fragment"
  PROVE  EventInv'
<1> USE DEF EventInv
<1>1. /\ \A i \in DOMAIN given' : \A j \in DOMAIN given'[i] : posted[given'[i][j]] > 0
      /\ JournalledOnce'
      /\ \A i \in DOMAIN given : i \in DOMAIN given' /\ given'[i] = given[i]
      /\ \E i \in DOMAIN given' : given'[i] = s
      /\ \A t \in Texts : Journalled(t) => Journalled(t)'
  BY TurnFits
<1>2. \A q \in Requests : q \in ToSet(s) => posted[q] > 0
  BY DEF ToSet
<1>n. \A q \in Requests : workers'[q] \in Nat /\ checked'[q] \in Nat /\ woken'[q] \in Nat
  BY DEF EventShapes, EventNumbers
<1>3. EventsArePosted'
  <2>1. ASSUME NEW q \in Requests
        PROVE  /\ claim'[q] # "free" \/ agreed'[q] \/ workers'[q] + checked'[q] + woken'[q] > 0
                    => posted[q] > 0
               /\ checked'[q] > 0 => sort[q] \in Awaited
               /\ woken'[q] > 0 => sort[q] = "failure"
               /\ posted[q] > 0 <=> sort[q] # "none"
               /\ sort[q] = "whatsapp" => claim'[q] = "free"
    <3>1. workers[q] \in Nat /\ checked[q] \in Nat /\ woken[q] \in Nat
      BY Counts
    <3>2. /\ claim[q] # "free" \/ agreed[q] \/ workers[q] + checked[q] + woken[q] > 0
               => posted[q] > 0
          /\ checked[q] > 0 => sort[q] \in Awaited
          /\ woken[q] > 0 => sort[q] = "failure"
          /\ posted[q] > 0 <=> sort[q] # "none"
      BY DEF EventsArePosted
    <3>a. /\ workers'[q] <= workers[q] /\ checked'[q] <= checked[q] /\ woken'[q] <= woken[q]
          /\ agreed'[q] => agreed[q] \/ q \in ToSet(s)
          /\ claim'[q] # "free" => claim[q] # "free" \/ q \in ToSet(s)
      BY DEF TurnTakes
    <3>3. /\ workers'[q] + checked'[q] + woken'[q] > 0 => workers[q] + checked[q] + woken[q] > 0
          /\ checked'[q] > 0 => checked[q] > 0
          /\ woken'[q] > 0 => woken[q] > 0
      <4>1. /\ workers'[q] \in Nat /\ checked'[q] \in Nat /\ woken'[q] \in Nat
        BY <1>n
      <4>2. workers'[q] + checked'[q] + woken'[q] > 0 => workers[q] + checked[q] + woken[q] > 0
        BY <3>1, <3>a, <4>1, SumGrows
      <4> QED
        BY <3>1, <3>a, <4>1, <4>2
    <3> QED
      BY <1>2, <3>2, <3>3, <3>a
  <2> QED
    BY <1>1, <2>1 DEF EventsArePosted
<1>4. ClaimsCount'
  <2> SUFFICES ASSUME NEW q \in Requests, sort[q] # "whatsapp"
               PROVE  Cardinality(Turned(q))' + Cardinality(Places(q))'
                        + workers'[q] + checked'[q] + woken'[q] <= lapses[q] + Claimed(q)'
    BY DEF ClaimsCount
  <2>1. Cardinality(Turned(q)) \in Nat /\ Cardinality(Places(q)) \in Nat
    BY EventCounts
  <2>2. /\ Cardinality(Turned(q))' \in Nat
        /\ Cardinality(Turned(q))' <= Cardinality(Turned(q)) + IF q \in ToSet(s) THEN 1 ELSE 0
    BY TurnMade
  <2>3. /\ workers[q] \in Nat /\ checked[q] \in Nat /\ woken[q] \in Nat /\ lapses[q] \in Nat
        /\ Claimed(q) \in Nat /\ Claimed(q)' \in Nat
        /\ Cardinality(Turned(q)) + Cardinality(Places(q)) + workers[q] + checked[q] + woken[q]
             <= lapses[q] + Claimed(q)
    BY Counts
  <2>4. /\ workers'[q] \in Nat /\ checked'[q] \in Nat /\ woken'[q] \in Nat
        /\ Cardinality(Places(q))' \in Nat
        /\ Claimed(q)' >= Claimed(q)
        /\ Cardinality(Places(q))' + workers'[q] + checked'[q] + woken'[q]
             + (IF q \in ToSet(s) THEN 1 ELSE 0)
           <= Cardinality(Places(q)) + workers[q] + checked[q] + woken[q]
    BY <1>n DEF TurnTakes
  <2>5. PICK d \in Nat : d = IF q \in ToSet(s) THEN 1 ELSE 0
    OBVIOUS
  <2>6. /\ Cardinality(Turned(q))' <= Cardinality(Turned(q)) + d
        /\ Cardinality(Places(q))' + workers'[q] + checked'[q] + woken'[q] + d
             <= Cardinality(Places(q)) + workers[q] + checked[q] + woken[q]
    BY <2>2, <2>4, <2>5
  <2>7. PICK t \in Nat, p \in Nat, w \in Nat, c \in Nat, k \in Nat, u \in Nat :
          /\ t = Cardinality(Turned(q)) /\ p = Cardinality(Places(q))
          /\ w = workers[q] /\ c = checked[q] /\ k = woken[q] /\ u = Claimed(q)
    BY <2>1, <2>3
  <2>8. PICK t2 \in Nat, p2 \in Nat, w2 \in Nat, c2 \in Nat, k2 \in Nat, u2 \in Nat :
          /\ t2 = Cardinality(Turned(q))' /\ p2 = Cardinality(Places(q))'
          /\ w2 = workers'[q] /\ c2 = checked'[q] /\ k2 = woken'[q] /\ u2 = Claimed(q)'
    BY <2>2, <2>3, <2>4
  <2>9. PICK l \in Nat : l = lapses[q]
    BY <2>3
  <2>10. /\ t + p + w + c + k <= l + u /\ u2 >= u /\ t2 <= t + d
         /\ p2 + w2 + c2 + k2 + d <= p + w + c + k
    BY <2>3, <2>4, <2>6, <2>7, <2>8, <2>9
  <2>11. t2 + p2 + w2 + c2 + k2 <= l + u2
    BY <2>10
  <2> QED
    BY <2>8, <2>9, <2>11
<1>5. NoneForgotten'
  <2> SUFFICES ASSUME NEW q \in Requests, (agreed'[q] \/ claim'[q] # "free"), sort[q] # "failure"
               PROVE  Accounted(q)'
    BY DEF NoneForgotten
  <2>1. CASE q \in ToSet(s)
    <3>1. PICK i \in DOMAIN given' : q \in ToSet(given'[i])
      BY <1>1, <2>1
    <3>2. sort[q] = "whatsapp" => sort[q] \in Lasting
      BY DEF Lasting
    <3>3. \E j \in DOMAIN given'[i] : given'[i][j] = q
      BY <3>1 DEF ToSet
    <3>4. sort[q] = "whatsapp" => Journalled(body[q])'
      BY <3>1, <3>2, <3>3 DEF Journalled
    <3> QED
      BY <3>1, <3>2, <3>4 DEF Accounted
  <2>2. CASE q \notin ToSet(s)
    <3>0. /\ agreed'[q] => agreed[q]
          /\ claim'[q] # "free" => claim[q] # "free"
          /\ workers'[q] + checked'[q] = workers[q] + checked[q]
          /\ q \in ToSet(batch) => q \in ToSet(batch)'
          /\ edges'[q] = edges[q]
      BY <2>2 DEF TurnTakes
    <3>1. Accounted(q) /\ body[q] \in Texts
      BY <3>0 DEF NoneForgotten, EventShapes, EventMarks
    <3> QED
      BY <1>1, <3>0, <3>1 DEF Accounted
  <2> QED
    BY <2>1, <2>2
<1> QED
  BY <1>1, <1>3, <1>4, <1>5

\* A turn of one request, made by its handler.
LEMMA OneKept ==
  ASSUME EventInv, NEW r \in Requests, NEW told \in BOOLEAN, given' = Append(given, <<r>>),
         UNCHANGED <<sort, body, posted, lapses, batch, edges>>, Leaves(r),
         \/ sort[r] # "whatsapp" /\ Commits(r, told)
         \/ sort[r] = "whatsapp" /\ claim' = claim /\ agreed' = [agreed EXCEPT ![r] = @ \/ told],
         sort[r] \in Unique => ~Journalled(body[r])
  PROVE  EventInv'
<1>1. <<r>> \in Seq(Requests) /\ <<r>> # <<>> /\ <<r>>[1] = r /\ DOMAIN <<r>> = {1}
      /\ ToSet(<<r>>) = {r}
  BY DEF ToSet
<1>2. given' \in Seq(Batches)
  <2>1. given \in Seq(Batches) /\ <<r>> \in Batches
    BY <1>1 DEF EventInv, EventShapes, Batches
  <2> QED
    BY <2>1
<1>0. EventMarks /\ \A q \in Requests : sort[q] = "whatsapp" => claim[q] = "free"
  BY DEF EventInv, EventShapes, EventsArePosted
<1>3. /\ claim' \in [Requests -> {"free", "inflight", "recent"}]
      /\ agreed' \in [Requests -> BOOLEAN]
      /\ claim'[r] = "recent" \/ claim' = claim
      /\ \A q \in Requests : q # r => claim'[q] = claim[q] /\ agreed'[q] = agreed[q]
      /\ \A q \in Requests : sort[q] = "whatsapp" => claim'[q] = "free"
  <2>1. CASE sort[r] # "whatsapp" /\ Commits(r, told)
    BY <1>0, <2>1, ClaimEnds
  <2>2. CASE sort[r] = "whatsapp" /\ claim' = claim /\ agreed' = [agreed EXCEPT ![r] = @ \/ told]
    BY <1>0, <2>2 DEF EventMarks
  <2> QED
    BY <2>1, <2>2
<1>4. EventShapes'
  BY <1>0, <1>2, <1>3, OneLeaves DEF EventInv, EventShapes, EventNumbers, EventMarks
<1> DEFINE s == <<r>>
<1>5. /\ s \in Seq(Requests) /\ s # <<>> /\ ToSet(s) = {r} /\ given' = Append(given, s)
      /\ \A j \in DOMAIN s : posted[s[j]] > 0
      /\ \A p \in ToSet(s) : sort[p] \in Unique =>
           ~Journalled(body[p]) /\ \A q \in ToSet(s) : q = p
      /\ \A i \in DOMAIN batch' : sort[batch'[i]] = "fragment"
  BY SMTT(20), <1>1, OneLeaves DEF EventInv, EventsArePosted
<1> HIDE DEF s
<1>6. ASSUME NEW q \in Requests
      PROVE  /\ agreed'[q] => agreed[q] \/ q \in ToSet(s)
             /\ claim'[q] # "free" => claim[q] # "free" \/ q \in ToSet(s)
             /\ checked'[q] <= checked[q] /\ woken'[q] <= woken[q]
             /\ workers'[q] <= workers[q] /\ edges'[q] = edges[q]
             /\ q \notin ToSet(s) => /\ workers'[q] + checked'[q] = workers[q] + checked[q]
                                     /\ q \in ToSet(batch) => q \in ToSet(batch)'
             /\ Cardinality(Places(q))' \in Nat
             /\ Claimed(q)' >= Claimed(q)
             /\ Cardinality(Places(q))' + workers'[q] + checked'[q] + woken'[q]
                  + (IF q \in ToSet(s) THEN 1 ELSE 0)
                <= Cardinality(Places(q)) + workers[q] + checked[q] + woken[q]
  <2>1. Claimed(q)' >= Claimed(q)
    BY <1>3 DEF Claimed
  <2>2. Cardinality(Places(q))' = Cardinality(Places(q))
    BY DEF Places
  <2>c. /\ workers[q] \in Nat /\ checked[q] \in Nat /\ woken[q] \in Nat
        /\ Cardinality(Places(q)) \in Nat
    BY Counts
  <2>d. workers'[q] \in Nat /\ checked'[q] \in Nat /\ woken'[q] \in Nat
    BY OneLeaves
  <2>3. CASE q = r
    <3>1. /\ workers'[q] + checked'[q] + woken'[q] + 1 = workers[q] + checked[q] + woken[q]
          /\ workers'[q] <= workers[q] /\ checked'[q] <= checked[q] /\ woken'[q] <= woken[q]
      BY <2>3, OneLeaves
    <3>2. (IF q \in ToSet(s) THEN 1 ELSE 0) = 1 /\ edges'[q] = edges[q] /\ q \in ToSet(s)
      BY <1>5, <2>3
    <3>3. workers'[q] + checked'[q] + woken'[q] + 1 <= workers[q] + checked[q] + woken[q]
      BY <2>3, <2>c, <2>d, <3>1
    <3>4. Cardinality(Places(q)) + workers'[q] + checked'[q] + woken'[q] + 1
            <= Cardinality(Places(q)) + workers[q] + checked[q] + woken[q]
      BY <2>c, <2>d, <3>3, SumGrows
    <3> QED
      BY <2>1, <2>2, <2>3, <2>c, <3>1, <3>2, <3>4
  <2>4. CASE q # r
    <3>1. workers'[q] = workers[q] /\ checked'[q] = checked[q] /\ woken'[q] = woken[q]
      BY <2>4, OneLeaves
    <3> QED
      BY <1>3, <1>5, <2>1, <2>2, <2>4, <2>c, <2>d, <3>1
  <2> QED
    BY <2>3, <2>4
<1> QED
  BY <1>3, <1>4, <1>5, <1>6, TurnKept DEF TurnTakes

\* A message makes a turn.
LEMMA PassesStep ==
  ASSUME EventInv, NEW r \in Requests, NEW told \in BOOLEAN, Passes(r, told)
  PROVE  EventInv'
<1>1. /\ Leaves(r) /\ Commits(r, told) /\ sort[r] = "plain" /\ EventMarks
      /\ UNCHANGED <<batch, sort, body, posted, lapses>>
  BY DEF Passes, Leaves, EventInv, EventShapes
<1>2. CASE door = "closing"
  <2>1. given' = given /\ Lost({r}, "refused at the close")
    BY <1>2 DEF Passes, Hands
  <2>2. "refused at the close" \in Edge
    BY DEF Edge
  <2> QED
    BY <1>1, <2>1, <2>2, EndKept, ClaimEnds, LossNoted
<1>3. CASE door # "closing"
  <2>1. given' = Append(given, <<r>>) /\ Lost({}, "refused at the close")
    BY <1>3 DEF Passes, Hands
  <2>2. edges' = edges
    BY <1>1, <2>1 DEF Lost, EventMarks
  <2>3. sort[r] \notin Unique
    BY <1>1 DEF Unique
  <2> QED
    BY <1>1, <2>1, <2>2, <2>3, OneKept
<1> QED
  BY <1>2, <1>3

\* A journalled message makes a turn, unless the journal has it by now or it is overheard.
LEMMA SavesStep ==
  ASSUME EventInv, NEW r \in Requests, NEW told \in BOOLEAN, Saves(r, told)
  PROVE  EventInv'
<1>1. /\ Leaves(r) /\ Commits(r, told) /\ sort[r] \in Awaited /\ EventMarks
      /\ UNCHANGED <<batch, sort, body, posted, lapses, edges>>
  BY DEF Saves, Leaves, EventInv, EventShapes, EventsArePosted
<1>2. /\ edges \in [Requests -> SUBSET Edge]
      /\ sort[r] # "whatsapp" /\ sort[r] \in Lasting
      /\ sort[r] \in Unique => sort[r] = "native"
  BY <1>1 DEF EventMarks, Awaited, Lasting, Unique
<1>3. CASE sort[r] = "native" /\ Journalled(body[r])
  <2>1. given' = given
    BY <1>3 DEF Saves
  <2> QED
    BY <1>1, <1>2, <1>3, <2>1, EndKept, ClaimEnds
<1>4. CASE ~(sort[r] = "native" /\ Journalled(body[r]))
  <2>1. given' = Append(given, <<r>>)
    BY <1>4 DEF Saves
  <2> QED
    BY <1>1, <1>2, <1>4, <2>1, OneKept
<1> QED
  BY <1>3, <1>4

\* A WhatsApp message is reserved, or refused, or the journal has it.
LEMMA RecordsFirstStep ==
  ASSUME EventInv, NEW r \in Requests, NEW told \in BOOLEAN, RecordsFirst(r, told)
  PROVE  EventInv'
<1>1. /\ Leaves(r) /\ sort[r] = "whatsapp" /\ EventMarks
      /\ UNCHANGED <<batch, sort, body, posted, lapses, edges, claim>>
  BY DEF RecordsFirst, Leaves, EventInv, EventShapes
<1>2. /\ edges \in [Requests -> SUBSET Edge] /\ agreed \in [Requests -> BOOLEAN]
      /\ claim \in [Requests -> {"free", "inflight", "recent"}]
  BY <1>1 DEF EventMarks
<1>3. agreed[r] => Journalled(body[r])
  BY <1>1 DEF EventInv, NoneForgotten, Accounted
<1>4. CASE UNCHANGED <<agreed, given>>
  BY <1>1, <1>2, <1>3, <1>4, EndKept
<1>5. CASE agreed' = [agreed EXCEPT ![r] = @ \/ told] /\ Journalled(body[r]) /\ given' = given
  <2>1. /\ agreed' \in [Requests -> BOOLEAN]
        /\ \A q \in Requests : q # r => agreed'[q] = agreed[q]
    BY <1>2, <1>5
  <2> QED
    BY <1>1, <1>2, <1>5, <2>1, EndKept
<1>6. CASE /\ agreed' = [agreed EXCEPT ![r] = @ \/ told] /\ ~Journalled(body[r])
           /\ given' = Append(given, <<r>>)
  BY <1>1, <1>6, OneKept
<1> QED
  BY <1>4, <1>5, <1>6 DEF RecordsFirst

\* The notice of a failed delivery makes a turn.
LEMMA WakesStep ==
  ASSUME EventInv, NEW r \in Requests, NEW told \in BOOLEAN, Wakes(r, told)
  PROVE  EventInv'
<1>1. /\ Leaves(r) /\ Commits(r, told) /\ sort[r] = "failure" /\ EventMarks
      /\ UNCHANGED <<batch, sort, body, posted, lapses, edges>>
      /\ given' = given \/ given' = Append(given, <<r>>)
  BY DEF Wakes, Leaves, EventInv, EventShapes, EventsArePosted
<1>2. edges \in [Requests -> SUBSET Edge]
  BY <1>1 DEF EventMarks
<1>3. CASE given' = given
  BY <1>1, <1>2, <1>3, EndKept, ClaimEnds
<1>4. CASE given' = Append(given, <<r>>)
  <2>1. sort[r] \notin Unique
    BY <1>1 DEF Unique
  <2> QED
    BY <1>1, <1>4, <2>1, OneKept
<1> QED
  BY <1>1, <1>3, <1>4

\* The batch is empty from now on.
LEMMA EmptyBatch ==
  ASSUME batch' = <<>>, NEW q
  PROVE  Cardinality(Places(q))' = 0
<1>1. Places(q)' = {}
  BY DEF Places
<1> QED
  BY <1>1, FS_EmptySet

\* The batch makes a turn, or is lost with a gateway that closes.
LEMMA FlushStep ==
  ASSUME EventInv, Flush
  PROVE  EventInv'
<1>0. /\ batch \in Seq(Requests) /\ batch # <<>> /\ given \in Seq(Batches) /\ batch' = <<>>
      /\ EventNumbers /\ EventMarks
      /\ UNCHANGED <<sort, body, posted, agreed, claim, workers, checked, woken, lapses>>
  BY DEF Flush, EventInv, EventShapes
<1>1. /\ 1 \in DOMAIN batch /\ batch[1] \in Requests
      /\ \A i \in DOMAIN batch : batch[i] \in Requests /\ sort[batch[i]] = "fragment"
  BY <1>0 DEF EventInv, EventsArePosted
<1>2. \A q \in Requests : Cardinality(Places(q))' = 0
  BY <1>0, EmptyBatch
<1>3. \A q \in Requests : Claimed(q)' = Claimed(q)
  BY <1>0 DEF Claimed
<1>4. CASE door = "closing"
  <2>1. given' = given /\ Lost(ToSet(batch), "waited in the batch")
    BY <1>4 DEF Flush, Hands
  <2>2. /\ edges' \in [Requests -> SUBSET Edge]
        /\ \A q \in Requests : edges[q] \subseteq edges'[q]
        /\ \A q \in Requests : q \in ToSet(batch) => edges'[q] # {}
    <3>1. "waited in the batch" \in Edge
      BY DEF Edge
    <3> QED
      BY <1>0, <2>1, <3>1, LossNoted
  <2>3. EventShapes'
    <3>1. batch' \in Seq(Requests)
      BY <1>0
    <3> QED
      BY <1>0, <2>1, <2>2, <3>1 DEF EventShapes, EventNumbers, EventMarks
  <2>4. EventsArePosted'
    <3>1. DOMAIN batch' = {}
      BY <1>0
    <3> QED
      BY <1>0, <2>1, <3>1 DEF EventInv, EventsArePosted
  <2>5. JournalledOnce'
    <3>1. UNCHANGED <<given, sort, body>>
      BY <1>0, <2>1
    <3> QED
      BY <3>1 DEF EventInv, JournalledOnce
  <2>6. ClaimsCount'
    <3> SUFFICES ASSUME NEW q \in Requests, sort[q] # "whatsapp"
                 PROVE  Cardinality(Turned(q)) + 0 + workers[q] + checked[q] + woken[q]
                          <= lapses[q] + Claimed(q)
      BY <1>0, <1>2, <1>3, <2>1 DEF ClaimsCount, Turned
    <3> QED
      BY Counts
  <2>7. NoneForgotten'
    <3> SUFFICES ASSUME NEW q \in Requests, agreed[q] \/ claim[q] # "free", sort[q] # "failure"
                 PROVE  Accounted(q)'
      BY <1>0 DEF NoneForgotten
    <3>1. Accounted(q)
      BY DEF EventInv, NoneForgotten
    <3>2. Journalled(body[q])' = Journalled(body[q])
      BY <1>0, <2>1 DEF Journalled
    <3> QED
      BY <1>0, <2>1, <2>2, <3>1, <3>2 DEF Accounted
  <2> QED
    BY <2>3, <2>4, <2>5, <2>6, <2>7 DEF EventInv
<1>5. CASE door # "closing"
  <2>1. given' = Append(given, batch) /\ Lost({}, "waited in the batch")
    BY <1>5 DEF Flush, Hands
  <2>2. edges' = edges
    BY <1>0, <2>1 DEF Lost, EventMarks
  <2>3. given' \in Seq(Batches)
    <3>1. batch \in Batches
      BY <1>0 DEF Batches
    <3> QED
      BY <1>0, <2>1, <3>1, AppendAdds
  <2>4. EventShapes'
    BY SMTT(20), <1>0, <2>2, <2>3 DEF EventShapes, EventNumbers, EventMarks
  <2>5. posted[batch[1]] > 0 /\ \A i \in DOMAIN batch : posted[batch[i]] > 0
    BY <1>1 DEF EventInv, EventsArePosted
  <2> DEFINE s == batch
  <2>6. /\ s \in Seq(Requests) /\ s # <<>> /\ given' = Append(given, s)
        /\ \A j \in DOMAIN s : posted[s[j]] > 0
        /\ \A p \in ToSet(s) : sort[p] \notin Unique
    BY <1>0, <1>1, <2>1, <2>5 DEF ToSet, Unique
  <2>7. \A i \in DOMAIN batch' : sort[batch'[i]] = "fragment"
    BY <1>0
  <2>8. ASSUME NEW q \in Requests
        PROVE  /\ agreed'[q] => agreed[q] \/ q \in ToSet(s)
               /\ claim'[q] # "free" => claim[q] # "free" \/ q \in ToSet(s)
               /\ checked'[q] <= checked[q] /\ woken'[q] <= woken[q]
               /\ workers'[q] <= workers[q] /\ edges'[q] = edges[q]
               /\ q \notin ToSet(s) =>
                    /\ workers'[q] + checked'[q] = workers[q] + checked[q]
                    /\ q \in ToSet(batch) => q \in ToSet(batch)'
               /\ Cardinality(Places(q))' \in Nat
               /\ Claimed(q)' >= Claimed(q)
               /\ Cardinality(Places(q))' + workers'[q] + checked'[q] + woken'[q]
                    + (IF q \in ToSet(s) THEN 1 ELSE 0)
                  <= Cardinality(Places(q)) + workers[q] + checked[q] + woken[q]
    <3>1. /\ workers[q] \in Nat /\ checked[q] \in Nat /\ woken[q] \in Nat /\ Claimed(q) \in Nat
      BY Counts
    <3>2. /\ Cardinality(Places(q)) \in Nat
          /\ q \in ToSet(s) => Cardinality(Places(q)) >= 1
      BY EventCounts
    <3> HIDE DEF s
    <3>3. workers'[q] = workers[q] /\ checked'[q] = checked[q] /\ woken'[q] = woken[q]
      BY <1>0
    <3>4. Cardinality(Places(q))' + workers'[q] + checked'[q] + woken'[q]
                    + (IF q \in ToSet(s) THEN 1 ELSE 0)
                  <= Cardinality(Places(q)) + workers[q] + checked[q] + woken[q]
      BY <1>2, <3>1, <3>2, <3>3
    <3> QED
      BY <1>0, <1>2, <1>3, <2>2, <3>1, <3>3, <3>4 DEF s
  <2> HIDE DEF s
  <2>9. \A q \in Requests : sort[q] = "whatsapp" => claim'[q] = "free"
    BY <1>0 DEF EventInv, EventsArePosted
  <2> QED
    BY <1>0, <2>4, <2>6, <2>7, <2>8, <2>9, TurnKept DEF TurnTakes
<1> QED
  BY <1>4, <1>5

\* The gateway closes, or nothing happens.
LEMMA ShutsStep ==
  ASSUME EventInv, Shuts \/ UNCHANGED ingressVars
  PROVE  EventInv'
<1>1. UNCHANGED <<sort, body, posted, agreed, claim, workers, checked, woken, batch, given,
                  lapses, edges>>
  BY DEF Shuts, memory, ingressVars
<1>2. EventShapes'
  BY <1>1 DEF EventInv, EventShapes, EventNumbers, EventMarks
<1>3. EventsArePosted'
  BY <1>1 DEF EventInv, EventsArePosted
<1>4. JournalledOnce'
  BY <1>1 DEF EventInv, JournalledOnce
<1>5. ClaimsCount'
  BY <1>1 DEF EventInv, ClaimsCount, Turned, Places, Claimed
<1>6. NoneForgotten'
  BY <1>1 DEF EventInv, NoneForgotten, Accounted, Journalled
<1> QED
  BY <1>2, <1>3, <1>4, <1>5, <1>6 DEF EventInv

\* The process ends and another one starts: claims are counted as lapsed, handlers are lost.
LEMMA RestartsStep ==
  ASSUME EventInv, Restarts
  PROVE  EventInv'
<1>0. /\ batch' = <<>> /\ UNCHANGED <<sort, body, posted, agreed, given>>
      /\ \A q \in Requests : /\ claim'[q] = "free" /\ workers'[q] = 0 /\ checked'[q] = 0
                             /\ woken'[q] = 0
                             /\ lapses'[q] = lapses[q] + Claimed(q)
  <2>1. \A q \in Requests : lapses[q] \in Nat
    BY DEF EventInv, EventShapes, EventNumbers
  <2>2. /\ claim' = [q \in Requests |-> "free"] /\ workers' = [q \in Requests |-> 0]
        /\ checked' = [q \in Requests |-> 0] /\ woken' = [q \in Requests |-> 0]
        /\ lapses' = [q \in Requests |-> IF claim[q] = "free" THEN lapses[q] ELSE lapses[q] + 1]
        /\ batch' = <<>> /\ UNCHANGED <<sort, body, posted, agreed, given>>
    BY DEF Restarts
  <2> QED
    BY <2>1, <2>2 DEF Claimed
<1>1. /\ edges' \in [Requests -> SUBSET Edge]
      /\ \A q \in Requests :
           /\ edges[q] \subseteq edges'[q]
           /\ q \in ToSet(batch) => edges'[q] # {}
           /\ sort[q] # "whatsapp" /\ agreed[q] /\ workers[q] + checked[q] + woken[q] > 0
                => edges'[q] # {}
  <2>1. edges \in [Requests -> SUBSET Edge]
    BY DEF EventInv, EventShapes, EventMarks
  <2>2. {"waited in the batch", "failed after a repeat was told"} \subseteq Edge
    BY DEF Edge
  <2>3. edges' = [r \in Requests |-> edges[r]
                   \cup (IF r \in ToSet(batch) THEN {"waited in the batch"} ELSE {})
                   \cup (IF /\ sort[r] # "whatsapp" /\ agreed[r]
                            /\ workers[r] + checked[r] + woken[r] > 0
                         THEN {"failed after a repeat was told"} ELSE {})]
    BY DEF Restarts
  <2> QED
    BY <2>1, <2>2, <2>3
<1>2. EventShapes'
  <2>1. /\ claim' = [r \in Requests |-> "free"] /\ workers' = [r \in Requests |-> 0]
        /\ checked' = [r \in Requests |-> 0] /\ woken' = [r \in Requests |-> 0]
        /\ lapses' = [r \in Requests |-> IF claim[r] = "free" THEN lapses[r] ELSE lapses[r] + 1]
    BY DEF Restarts
  <2>2. EventNumbers'
    BY <1>0, <2>1 DEF EventInv, EventShapes, EventNumbers
  <2>3. EventMarks'
    BY <1>0, <1>1, <2>1 DEF EventInv, EventShapes, EventMarks
  <2> QED
    BY <1>0, <2>2, <2>3 DEF EventInv, EventShapes
<1>3. EventsArePosted'
  BY <1>0 DEF EventInv, EventsArePosted
<1>4. JournalledOnce'
  BY <1>0 DEF EventInv, JournalledOnce
<1>5. ClaimsCount'
  <2> SUFFICES ASSUME NEW q \in Requests, sort[q] # "whatsapp"
               PROVE  Cardinality(Turned(q)) + Cardinality(Places(q))' + 0 + 0 + 0
                        <= lapses'[q] + Claimed(q)'
    BY <1>0 DEF ClaimsCount, Turned
  <2>1. Claimed(q)' = 0
    BY <1>0 DEF Claimed
  <2>2. Cardinality(Places(q))' = 0
    BY <1>0, EmptyBatch
  <2>3. /\ workers[q] \in Nat /\ checked[q] \in Nat /\ woken[q] \in Nat /\ lapses[q] \in Nat
        /\ Claimed(q) \in Nat
        /\ Cardinality(Turned(q)) \in Nat /\ Cardinality(Places(q)) \in Nat
        /\ Cardinality(Turned(q)) + Cardinality(Places(q)) + workers[q] + checked[q] + woken[q]
             <= lapses[q] + Claimed(q)
    BY Counts
  <2> QED
    BY SMTT(20), <1>0, <2>1, <2>2, <2>3
<1>6. NoneForgotten'
  <2> SUFFICES ASSUME NEW q \in Requests, agreed[q], sort[q] # "failure"
               PROVE  Accounted(q)'
    BY <1>0 DEF NoneForgotten
  <2>1. Accounted(q)
    BY DEF EventInv, NoneForgotten
  <2>2. Journalled(body[q])' = Journalled(body[q])
    BY <1>0 DEF Journalled
  <2>3. sort[q] # "whatsapp" /\ workers[q] + checked[q] > 0 => edges'[q] # {}
    <3>1. workers[q] \in Nat /\ checked[q] \in Nat /\ woken[q] \in Nat
      BY Counts
    <3> QED
      BY <1>1, <3>1
  <2> QED
    BY <1>0, <1>1, <2>1, <2>2, <2>3 DEF Accounted
<1> QED
  BY <1>2, <1>3, <1>4, <1>5, <1>6 DEF EventInv

\* The inductive invariant of the webhook ingress, for any number of requests and repeats.
THEOREM EventsHold == IngressSpec => []EventInv
<1>1. IngressInit => EventInv
  <2> SUFFICES ASSUME IngressInit PROVE EventInv
    OBVIOUS
  <2> USE DEF IngressInit
  <2>1. EventShapes
    BY DEF EventShapes, EventNumbers, EventMarks
  <2>2. EventsArePosted /\ JournalledOnce /\ NoneForgotten
    BY DEF EventsArePosted, JournalledOnce, NoneForgotten
  <2>3. ClaimsCount
    <3>1. \A q \in Requests : Turned(q) = {} /\ Places(q) = {} /\ Claimed(q) = 0
      BY DEF Turned, Places, Claimed
    <3>2. Cardinality({}) = 0
      BY FS_EmptySet
    <3> SUFFICES ASSUME NEW q \in Requests
                 PROVE  Cardinality(Turned(q)) + Cardinality(Places(q))
                          + workers[q] + checked[q] + woken[q] <= lapses[q] + Claimed(q)
      BY DEF ClaimsCount
    <3>3. workers[q] = 0 /\ checked[q] = 0 /\ woken[q] = 0 /\ lapses[q] = 0
      OBVIOUS
    <3>4. Cardinality(Turned(q)) = 0 /\ Cardinality(Places(q)) = 0 /\ Claimed(q) = 0
      BY <3>1, <3>2
    <3> HIDE DEF IngressInit
    <3> QED
      BY <3>3, <3>4
  <2> QED
    BY <2>1, <2>2, <2>3 DEF EventInv
<1>2. EventInv /\ [IngressNext]_ingressVars => EventInv'
  <2> SUFFICES ASSUME EventInv, [IngressNext]_ingressVars PROVE EventInv'
    OBVIOUS
  <2>1. ASSUME NEW r \in Requests, NEW s \in Sort, Receives(r, s) PROVE EventInv'
    BY <2>1, ReceivesStep
  <2>2. ASSUME NEW r \in Requests, Breaks(r) \/ ClaimLapses(r) PROVE EventInv'
    BY <2>2, BreaksStep, ClaimLapsesStep
  <2>3. ASSUME NEW r \in Requests, NEW h \in BOOLEAN,
               \/ Gathers(r, h) \/ Passes(r, h) \/ Looks(r, h)
               \/ Saves(r, h) \/ RecordsFirst(r, h) \/ Notices(r, h) \/ Wakes(r, h)
        PROVE  EventInv'
    BY <2>3, GathersStep, PassesStep, LooksStep, SavesStep, RecordsFirstStep,
       NoticesStep, WakesStep
  <2>4. CASE Flush \/ Shuts \/ Restarts \/ UNCHANGED ingressVars
    BY <2>4, FlushStep, ShutsStep, RestartsStep
  <2> QED
    BY <2>1, <2>2, <2>3, <2>4 DEF IngressNext
<1> QED
  BY <1>1, <1>2, PTL DEF IngressSpec

\* A journalled message that is not merely overheard makes one turn, a claimed request one per
\* claim it was given, and what the provider was told is done is in the journal, in a turn, at
\* work, or lost in a way the code allows; a WhatsApp message is in the journal (commit,
\* rollback, reserveWhatsAppTurn).
THEOREM EventsAreHandledOnce == IngressSpec => []HandledOnce
<1>1. EventInv => HandledOnce
  <2> SUFFICES ASSUME EventInv PROVE HandledOnce
    OBVIOUS
  <2>0. \A i, j \in DOMAIN given : \A p \in ToSet(given[i]), q \in ToSet(given[j]) :
          {sort[p], sort[q]} \subseteq {"native", "whatsapp"} /\ body[p] = body[q] => i = j
    BY DEF EventInv, JournalledOnce, Unique
  <2>1. ASSUME NEW r \in Requests, sort[r] # "whatsapp"
        PROVE  InTurns(r) + Cardinality({i \in DOMAIN batch : batch[i] = r}) <= 1 + lapses[r]
    <3>1. InTurns(r) = Cardinality(Turned(r))
      BY DEF InTurns, Turned
    <3>2. Cardinality({i \in DOMAIN batch : batch[i] = r}) = Cardinality(Places(r))
      BY DEF Places
    <3>3. /\ workers[r] \in Nat /\ checked[r] \in Nat /\ woken[r] \in Nat /\ lapses[r] \in Nat
          /\ Cardinality(Turned(r)) + Cardinality(Places(r)) + workers[r] + checked[r] + woken[r]
               <= lapses[r] + Claimed(r)
      BY <2>1, Counts
    <3>4. Claimed(r) \in {0, 1} /\ Cardinality(Turned(r)) \in Nat /\ Cardinality(Places(r)) \in Nat
      BY Counts DEF Claimed
    <3> QED
      BY <3>1, <3>2, <3>3, <3>4
  <2>2. ASSUME NEW r \in Requests, agreed[r], sort[r] # "failure"
        PROVE  \/ sort[r] \in Lasting /\ Journalled(body[r])
               \/ /\ sort[r] # "whatsapp"
                  /\ \/ InTurns(r) > 0 \/ r \in ToSet(batch) \/ workers[r] + checked[r] > 0
                     \/ edges[r] # {}
    <3>1. Accounted(r)
      BY <2>2 DEF EventInv, NoneForgotten
    <3>2. ASSUME NEW i \in DOMAIN given, r \in ToSet(given[i]) PROVE InTurns(r) > 0
      <4>1. Turned(r) # {}
        BY <3>2 DEF Turned
      <4>2. IsFiniteSet(Turned(r)) /\ Cardinality(Turned(r)) \in Nat
        BY EventCounts
      <4>3. Cardinality(Turned(r)) > 0
        BY <4>1, <4>2, FS_EmptySet
      <4> QED
        BY <4>3 DEF InTurns, Turned
    <3> QED
      BY <3>1, <3>2 DEF Accounted
  <2> QED
    BY <2>0, <2>1, <2>2 DEF HandledOnce
<1> QED
  BY <1>1, EventsHold, PTL

-----------------------------------------------------------------------------
(***************************************************************************)
(* Controls: an invariant of the receipts and of the time they were written.*)
(***************************************************************************)
\* The message has come.
Came(m) == \E i \in DOMAIN heard : heard[i] = m

\* A message comes once, to a receipt or from elsewhere; only what came is a turn.
ComesOnce ==
  /\ \A i, j \in DOMAIN heard : heard[i] = heard[j] => i = j
  /\ \A m \in Messages : Came(m) <=> receipt[m].kind # "none" \/ what[m] = "foreign"
  /\ \A m \in Messages : work[m] # "none" => Came(m)

\* What a message was taken for agrees with what it is, with its turn and its handler.
TakenAs ==
  \A m \in Messages :
    /\ receipt[m].kind = "none" =>
         /\ receipt[m] = Unread /\ open[m] = 0
         /\ part[m] # Nil => what[m] = "foreign"
    /\ due[m] > 0 \/ receipt[m].kind # "none" => what[m] \notin {"nothing", "foreign"}
    /\ due[m] <= tries[m] /\ (what[m] = "nothing" => part[m] = Nil)
    /\ what[m] = "foreign" => open[m] = 0
    /\ hand[m] = "adding" => receipt[m].kind = "normal" /\ part[m] # Nil
    /\ hand[m] \in {"fencing", "replying"} => receipt[m].kind = "command"

\* An answer that came to a question is no turn; what was answered is not open.
Answering ==
  /\ question <= asks
  /\ \A m \in Messages :
       /\ receipt[m].kind = "permission" =>
            what[m] = "answer" /\ receipt[m].waiter = open[m] /\ open[m] # 0 /\ part[m] = Nil
       /\ what[m] = "answer" /\ receipt[m].kind = "normal" => open[m] = 0
       /\ what[m] = "answer" => receipt[m].kind # "command"
       /\ what[m] = "answer" /\ part[m] # Nil => receipt[m].kind = "normal"
  /\ \A d \in deeds : d.did = "answered" =>
       /\ receipt[d.by].kind = "permission" /\ d.to = open[d.by]
       /\ d.to \in 1 .. asks /\ d.to # question
  /\ \A d, e \in deeds : d.did = "answered" /\ e.did = "answered" /\ d.to = e.to => d = e

\* A command keeps the turns that came before it, and the session while that is the same.
InTime ==
  /\ born <= Len(heard)
  /\ \A m \in Messages :
       /\ receipt[m].gen <= gen /\ left[m] \subseteq receipt[m].turns
       /\ \A t \in receipt[m].turns : Came(t) /\ Since(t) < Since(m)
       /\ receipt[m].kind = "command" /\ receipt[m].gen = gen /\ bound => born < Since(m)
  /\ \A d \in deeds : Came(d.by)
  /\ \A d \in deeds : d.did = "stopped" =>
       d.to \in Messages /\ Came(d.to) /\ Since(d.to) < Since(d.by)
  /\ \A d \in deeds : d.did = "cleared" => d.to \in Nat /\ d.to < Since(d.by)

\* What is done, or acknowledged, is in a turn or has had its effect.
Settled ==
  \A m \in Messages :
    /\ receipt[m].done /\ receipt[m].kind = "normal" => part[m] # Nil
    /\ confirmed[m] => receipt[m].done
    /\ hand[m] = "fencing" => ~receipt[m].done

ControlInv == ControlTypeOK /\ ComesOnce /\ TakenAs /\ Answering /\ InTime /\ Settled
----------------------------------------------------------------------------
(* Time *)

\* What comes has the next place.
Comes(m) == heard' = Append(heard, m) /\ ~Came(m)
Elapses(m) == heard' = heard \/ Comes(m)

\* What time leaves alone.
Kept ==
  /\ heard' \in Seq(Messages) /\ Len(heard) \in Nat /\ Len(heard') \in Nat
  /\ Len(heard) <= Len(heard')
  /\ \A i, j \in DOMAIN heard' : heard'[i] = heard'[j] => i = j
  /\ \A t \in Messages : Came(t) => Came(t)' /\ Since(t)' = Since(t) /\ Since(t) \in 1 .. Len(heard)

\* Where no value occurs twice, each has one place.
LEMMA PlaceIsUnique ==
  ASSUME NEW S, NEW q \in Seq(S), NEW i \in DOMAIN q, \A j, k \in DOMAIN q : q[j] = q[k] => j = k
  PROVE  (CHOOSE j \in DOMAIN q : q[j] = q[i]) = i
  OBVIOUS

\* Sequences of different lengths differ.
LEMMA LongerDiffers ==
  ASSUME NEW q, NEW r, Len(q) \in Nat, Len(r) = Len(q) + 1
  PROVE  r # q
<1>1. Len(r) # Len(q)
  OBVIOUS
<1>2. QED
  BY <1>1

\* A message that comes takes the next place, and no other message loses its own.
LEMMA TimeKeeps ==
  ASSUME ControlTypeOK, ComesOnce, NEW m \in Messages, Elapses(m)
  PROVE  /\ Kept /\ \A t \in Messages : Came(t)' => Came(t) \/ (Comes(m) /\ t = m)
         /\ Comes(m) => Came(m)' /\ Since(m)' = Len(heard) + 1 /\ Len(heard') = Len(heard) + 1
<1>0. /\ heard \in Seq(Messages) /\ \A i, j \in DOMAIN heard : heard[i] = heard[j] => i = j
      /\ Len(heard) \in Nat /\ DOMAIN heard = 1 .. Len(heard)
  BY DEF ControlTypeOK, ComesOnce
<1>1. \A t \in Messages : Came(t) => Since(t) \in 1 .. Len(heard)
  BY <1>0, PlaceIsUnique DEF Came, Since
<1>2. CASE heard' = heard
  <2>1. \A t \in Messages : (Came(t)' <=> Came(t)) /\ Since(t)' = Since(t)
    BY <1>2 DEF Came, Since
  <2>2. ~Comes(m)
    <3>1. Len(Append(heard, m)) = Len(heard) + 1
      BY <1>0, AppendAdds
    <3>2. Append(heard, m) # heard
      BY <1>0, <3>1, LongerDiffers
    <3>3. QED
      BY <1>2, <3>2 DEF Comes
  <2>3. Kept
    <3>1. \A i, j \in DOMAIN heard' : heard'[i] = heard'[j] => i = j
      BY <1>0, <1>2
    <3>2. Len(heard') \in Nat /\ Len(heard) <= Len(heard')
      BY <1>0, <1>2
    <3>3. QED
      BY <1>0, <1>1, <1>2, <2>1, <3>1, <3>2 DEF Kept
  <2>4. QED
    BY <2>1, <2>2, <2>3
<1>3. CASE Comes(m)
  <2>0. heard' = Append(heard, m) /\ \A i \in DOMAIN heard : heard[i] # m
    BY <1>3 DEF Comes, Came
  <2>1. /\ heard' \in Seq(Messages) /\ Len(heard') = Len(heard) + 1
        /\ DOMAIN heard' = 1 .. Len(heard) + 1 /\ heard'[Len(heard) + 1] = m
        /\ \A i \in DOMAIN heard : heard'[i] = heard[i]
    BY <1>0, <2>0, AppendAdds
  <2>2. \A i, j \in DOMAIN heard' : heard'[i] = heard'[j] => i = j
    BY <1>0, <2>0, <2>1
  <2>3. Came(m)' /\ Since(m)' = Len(heard) + 1
    <3>1. Len(heard) + 1 \in DOMAIN heard'
      BY <1>0, <2>1
    <3>2. (CHOOSE j \in DOMAIN heard' : heard'[j] = heard'[Len(heard) + 1]) = Len(heard) + 1
      BY <2>1, <2>2, <3>1, PlaceIsUnique
    <3>3. QED
      BY <2>1, <3>1, <3>2 DEF Came, Since
  <2>4. ASSUME NEW t \in Messages, Came(t)  PROVE Came(t)' /\ Since(t)' = Since(t)
    <3>1. PICK i \in DOMAIN heard : heard[i] = t
      BY <2>4 DEF Came
    <3>2. i \in DOMAIN heard' /\ heard'[i] = t
      BY <1>0, <2>1, <3>1
    <3>3. Since(t) = i
      BY <1>0, <3>1, PlaceIsUnique DEF Since
    <3>4. Since(t)' = i
      <4>1. (CHOOSE j \in DOMAIN heard' : heard'[j] = heard'[i]) = i
        BY <2>1, <2>2, <3>2, PlaceIsUnique
      <4>2. QED
        BY <3>2, <4>1 DEF Since
    <3>5. QED
      BY <3>2, <3>3, <3>4 DEF Came
  <2>5. ASSUME NEW t \in Messages, Came(t)'  PROVE Came(t) \/ t = m
    <3>1. PICK i \in DOMAIN heard' : heard'[i] = t
      BY <2>5 DEF Came
    <3>2. i \in DOMAIN heard \/ i = Len(heard) + 1
      BY <1>0, <2>1, <3>1
    <3>3. QED
      BY <2>1, <3>1, <3>2 DEF Came
  <2>6. QED
    BY <1>0, <1>1, <1>3, <2>1, <2>2, <2>3, <2>4, <2>5 DEF Kept
<1>4. QED
  BY <1>2, <1>3 DEF Elapses

----------------------------------------------------------------------------
(* The steps that take nothing new *)

\* A receipt that is marked done says what it said.
LEMMA MarkDone ==
  ASSUME NEW r \in Receipt, NEW b \in BOOLEAN
  PROVE  /\ [r EXCEPT !.done = b] \in Receipt /\ [r EXCEPT !.done = b].kind = r.kind
         /\ [r EXCEPT !.done = b].waiter = r.waiter /\ [r EXCEPT !.done = b].turns = r.turns
         /\ [r EXCEPT !.done = b].gen = r.gen /\ [r EXCEPT !.done = b].done = b
  BY DEF Receipt

\* A delivery that begins leaves fewer to come.
LEMMA DeliveryIsSpent ==
  ASSUME ControlTypeOK, NEW m \in Messages, Begins(m)
  PROVE  /\ due' \in [Messages -> 0 .. MaxDeliveries]
         /\ \A t \in Messages : /\ due[t] \in Nat /\ due'[t] \in Nat /\ due'[t] <= due[t]
                                /\ due'[t] > 0 => due[t] > 0
<1>1. due \in [Messages -> 0 .. MaxDeliveries] /\ due[m] > 0 /\ MaxDeliveries \in Nat
  BY ControlAssumption DEF ControlTypeOK, Begins
<1>2. due' = [due EXCEPT ![m] = due[m] - 1]
  BY DEF Begins
<1>3. due[m] - 1 \in 0 .. MaxDeliveries /\ due[m] - 1 <= due[m]
  BY <1>1
<1> QED
  BY <1>1, <1>2, <1>3

\* The provider sends a message, or sends it again.
LEMMA DeliverStep ==
  ASSUME ControlInv, NEW m \in Messages,
         NEW k \in {"text", "answer", "stop", "clear"}, Deliver(m, k)
  PROVE  ControlInv'
<1>0. /\ ControlTypeOK /\ ComesOnce /\ TakenAs /\ Answering /\ InTime /\ Settled
      /\ \A d \in deeds : d.by \in Messages
      /\ \A t \in Messages : receipt[t].turns \subseteq Messages /\ receipt[t].gen \in Nat
  BY DEF ControlInv, ControlTypeOK, Deed, Receipt
<1>1. heard' = heard /\ \A t \in Messages : (Came(t)' <=> Came(t)) /\ Since(t)' = Since(t)
  BY DEF Deliver, past, Came, Since
<1>2. ControlTypeOK'
  BY <1>0, <1>1, ControlAssumption
  DEF ControlTypeOK, TakenAs, journal, handler, past, Deliver
<1>3. ComesOnce'
  BY <1>0, <1>1 DEF ComesOnce, journal, Deliver
<1>4. TakenAs'
  BY <1>0, <1>1 DEF TakenAs, ControlTypeOK, journal, handler, past, Deliver
<1>5. Answering'
  BY <1>0, <1>1 DEF Answering, TakenAs, journal, past, Deliver
<1>6. InTime'
  BY <1>0, <1>1 DEF InTime, WorkState, HandState, journal, handler, past, Deliver
<1>7. Settled'
  BY <1>0, <1>1 DEF Settled, journal, handler, Deliver
<1>8. QED
  BY <1>2, <1>3, <1>4, <1>5, <1>6, <1>7 DEF ControlInv

\* A turn is taken up and takes the generation, so no command heard so far drops its session.
LEMMA TakeStep ==
  ASSUME ControlInv, NEW m \in Messages, Take(m)
  PROVE  ControlInv'
<1>0. /\ ControlTypeOK /\ ComesOnce /\ TakenAs /\ Answering /\ InTime /\ Settled
      /\ \A d \in deeds : d.by \in Messages
      /\ \A t \in Messages : receipt[t].turns \subseteq Messages /\ receipt[t].gen \in Nat
  BY DEF ControlInv, ControlTypeOK, Deed, Receipt
<1>1. heard' = heard /\ \A t \in Messages : (Came(t)' <=> Came(t)) /\ Since(t)' = Since(t)
  BY DEF Take, Came, Since
<1>2. ControlTypeOK'
  BY <1>0, <1>1, ControlAssumption
  DEF ControlTypeOK, WorkState, HandState, link, handler, Take
<1>3. ComesOnce'
  BY <1>0, <1>1 DEF ComesOnce, link, Take
<1>4. TakenAs'
  BY <1>0, <1>1 DEF TakenAs, link, handler, Take
<1>5. Answering'
  BY <1>0, <1>1 DEF Answering, link, Take
<1>6. InTime'
  <2>1. UNCHANGED <<receipt, left, deeds>> /\ Len(heard) \in Nat /\ born \in Nat /\ gen \in Nat
    BY <1>0 DEF Take, handler, ControlTypeOK
  <2>2. gen' = gen + 1 /\ (born' = born \/ born' = Len(heard))
    BY DEF Take
  <2>3. \A t \in Messages : receipt[t].gen # gen' /\ receipt[t].gen <= gen'
    BY <1>0, <2>1, <2>2 DEF InTime
  <2>4. QED
    BY <1>0, <1>1, <2>1, <2>2, <2>3 DEF InTime
<1>7. Settled'
  BY <1>0, <1>1 DEF Settled, link, handler, Take
<1>8. QED
  BY <1>2, <1>3, <1>4, <1>5, <1>6, <1>7 DEF ControlInv

\* A turn goes on.
LEMMA HandlerStepsStep ==
  ASSUME ControlInv, NEW m \in Messages, HandlerSteps(m)
  PROVE  ControlInv'
<1>0. /\ ControlTypeOK /\ ComesOnce /\ TakenAs /\ Answering /\ InTime /\ Settled
      /\ \A d \in deeds : d.by \in Messages
      /\ \A t \in Messages : receipt[t].turns \subseteq Messages /\ receipt[t].gen \in Nat
  BY DEF ControlInv, ControlTypeOK, Deed, Receipt
<1>1. heard' = heard /\ \A t \in Messages : (Came(t)' <=> Came(t)) /\ Since(t)' = Since(t)
  BY DEF HandlerSteps, past, Came, Since
<1>2. ControlTypeOK'
  <2>1. work' \in [Messages -> WorkState]
    BY ZenonT(40), <1>0 DEF ControlTypeOK, WorkState, HandState, HandlerSteps
  <2>2. QED
    BY <1>0, <1>1, <2>1 DEF ControlTypeOK, link, handler, past, HandlerSteps
<1>3. ComesOnce'
  BY <1>0, <1>1 DEF ComesOnce, ControlTypeOK, link, HandlerSteps
<1>4. TakenAs'
  BY <1>0, <1>1 DEF TakenAs, link, handler, past, HandlerSteps
<1>5. Answering'
  BY <1>0, <1>1 DEF Answering, link, past, HandlerSteps
<1>6. InTime'
  BY <1>0, <1>1 DEF InTime, HandState, handler, past, HandlerSteps
<1>7. Settled'
  BY <1>0, <1>1 DEF Settled, link, handler, HandlerSteps
<1>8. QED
  BY <1>2, <1>3, <1>4, <1>5, <1>6, <1>7 DEF ControlInv

\* The human is asked something new.
LEMMA AskStep ==
  ASSUME ControlInv, Ask
  PROVE  ControlInv'
<1>0. /\ ControlTypeOK /\ ComesOnce /\ TakenAs /\ Answering /\ InTime /\ Settled
      /\ \A d \in deeds : d.by \in Messages
      /\ \A t \in Messages : receipt[t].turns \subseteq Messages /\ receipt[t].gen \in Nat
  BY DEF ControlInv, ControlTypeOK, Deed, Receipt
<1>1. heard' = heard /\ \A t \in Messages : (Came(t)' <=> Came(t)) /\ Since(t)' = Since(t)
  BY DEF Ask, past, Came, Since
<1>2. ControlTypeOK'
  BY <1>0, <1>1, ControlAssumption DEF ControlTypeOK, link, journal, handler, past, Ask
<1>3. ComesOnce'
  BY <1>0, <1>1 DEF ComesOnce, link, journal, Ask
<1>4. TakenAs'
  BY <1>0, <1>1 DEF TakenAs, link, journal, handler, past, Ask
<1>5. Answering'
  BY <1>0, <1>1 DEF Answering, ControlTypeOK, link, journal, past, Ask
<1>6. InTime'
  BY <1>0, <1>1 DEF InTime, WorkState, HandState, journal, handler, past, Ask
<1>7. Settled'
  BY <1>0, <1>1 DEF Settled, link, journal, handler, Ask
<1>8. QED
  BY <1>2, <1>3, <1>4, <1>5, <1>6, <1>7 DEF ControlInv

\* A question ends without an answer.
LEMMA WithdrawStep ==
  ASSUME ControlInv, Withdraw
  PROVE  ControlInv'
<1>0. /\ ControlTypeOK /\ ComesOnce /\ TakenAs /\ Answering /\ InTime /\ Settled
      /\ \A d \in deeds : d.by \in Messages
      /\ \A t \in Messages : receipt[t].turns \subseteq Messages /\ receipt[t].gen \in Nat
  BY DEF ControlInv, ControlTypeOK, Deed, Receipt
<1>1. heard' = heard /\ \A t \in Messages : (Came(t)' <=> Came(t)) /\ Since(t)' = Since(t)
  BY DEF Withdraw, past, Came, Since
<1>2. ControlTypeOK'
  BY <1>0, <1>1, ControlAssumption DEF ControlTypeOK, link, journal, handler, past, Withdraw
<1>3. ComesOnce'
  BY <1>0, <1>1 DEF ComesOnce, link, journal, Withdraw
<1>4. TakenAs'
  BY <1>0, <1>1 DEF TakenAs, link, journal, handler, past, Withdraw
<1>5. Answering'
  BY <1>0, <1>1 DEF Answering, ControlTypeOK, link, journal, past, Withdraw
<1>6. InTime'
  BY <1>0, <1>1 DEF InTime, journal, handler, past, Withdraw
<1>7. Settled'
  BY <1>0, <1>1 DEF Settled, link, journal, handler, Withdraw
<1>8. QED
  BY <1>2, <1>3, <1>4, <1>5, <1>6, <1>7 DEF ControlInv

\* A delivery ends before its message was looked at.
LEMMA FailsEarlyStep ==
  ASSUME ControlInv, NEW m \in Messages, FailsEarly(m)
  PROVE  ControlInv'
<1>0. /\ ControlTypeOK /\ ComesOnce /\ TakenAs /\ Answering /\ InTime /\ Settled
      /\ \A d \in deeds : d.by \in Messages
      /\ \A t \in Messages : receipt[t].turns \subseteq Messages /\ receipt[t].gen \in Nat
  BY DEF ControlInv, ControlTypeOK, Deed, Receipt
<1>1. heard' = heard /\ \A t \in Messages : (Came(t)' <=> Came(t)) /\ Since(t)' = Since(t)
  BY DEF FailsEarly, past, Came, Since
<1>2. ControlTypeOK'
  <2>1. due' \in [Messages -> 0 .. MaxDeliveries]
    BY <1>0, DeliveryIsSpent DEF FailsEarly
  <2>2. QED
    BY <1>0, <2>1 DEF ControlTypeOK, journal, handler, past, FailsEarly
<1>3. ComesOnce'
  BY <1>0, <1>1 DEF ComesOnce, journal, FailsEarly
<1>4. TakenAs'
  BY SMTT(20), <1>0, <1>1 DEF TakenAs, ControlTypeOK, journal, handler, past, FailsEarly, Begins
<1>5. Answering'
  BY <1>0, <1>1 DEF Answering, journal, past, FailsEarly
<1>6. InTime'
  BY <1>0, <1>1 DEF InTime, journal, handler, past, FailsEarly
<1>7. Settled'
  BY <1>0, <1>1 DEF Settled, journal, handler, FailsEarly
<1>8. QED
  BY <1>2, <1>3, <1>4, <1>5, <1>6, <1>7 DEF ControlInv

\* A control that is done is acknowledged.
LEMMA AlreadyDoneStep ==
  ASSUME ControlInv, NEW m \in Messages, AlreadyDone(m)
  PROVE  ControlInv'
<1>0. /\ ControlTypeOK /\ ComesOnce /\ TakenAs /\ Answering /\ InTime /\ Settled
      /\ \A d \in deeds : d.by \in Messages
      /\ \A t \in Messages : receipt[t].turns \subseteq Messages /\ receipt[t].gen \in Nat
  BY DEF ControlInv, ControlTypeOK, Deed, Receipt
<1>1. heard' = heard /\ \A t \in Messages : (Came(t)' <=> Came(t)) /\ Since(t)' = Since(t)
  BY DEF AlreadyDone, past, Came, Since
<1>2. ControlTypeOK'
  <2>1. due' \in [Messages -> 0 .. MaxDeliveries] /\ confirmed' \in [Messages -> BOOLEAN]
    BY <1>0, DeliveryIsSpent DEF AlreadyDone, Acks, ControlTypeOK
  <2>2. QED
    BY <1>0, <1>1, <2>1
    DEF ControlTypeOK, journal, handler, past, AlreadyDone
<1>3. ComesOnce'
  BY <1>0, <1>1 DEF ComesOnce, journal, AlreadyDone
<1>4. TakenAs'
  BY <1>0, <1>1 DEF TakenAs, ControlTypeOK, journal, handler, past, AlreadyDone, Begins
<1>5. Answering'
  BY <1>0, <1>1 DEF Answering, journal, past, AlreadyDone
<1>6. InTime'
  BY <1>0, <1>1 DEF InTime, WorkState, HandState, journal, handler, past, AlreadyDone
<1>7. Settled'
  BY <1>0, <1>1 DEF Settled, journal, handler, AlreadyDone, Acks
<1>8. QED
  BY <1>2, <1>3, <1>4, <1>5, <1>6, <1>7 DEF ControlInv

\* The turn of a text is saved, and the delivery acknowledged.
LEMMA AddedStep ==
  ASSUME ControlInv, NEW m \in Messages, Added(m)
  PROVE  ControlInv'
<1>0. /\ ControlTypeOK /\ ComesOnce /\ TakenAs /\ Answering /\ InTime /\ Settled
      /\ \A d \in deeds : d.by \in Messages
      /\ \A t \in Messages : receipt[t].turns \subseteq Messages /\ receipt[t].gen \in Nat
  BY DEF ControlInv, ControlTypeOK, Deed, Receipt
<1>1. heard' = heard /\ \A t \in Messages : (Came(t)' <=> Came(t)) /\ Since(t)' = Since(t)
  BY DEF Added, past, Came, Since
<1>2. receipt' \in [Messages -> Receipt]
  BY <1>0, MarkDone DEF ControlTypeOK, Added, Knows, Acks, Quiet
<1>3. /\ \A t \in Messages : t # m => receipt'[t] = receipt[t]
      /\ receipt'[m].kind = receipt[m].kind /\ receipt'[m].waiter = receipt[m].waiter
      /\ receipt'[m].turns = receipt[m].turns /\ receipt'[m].gen = receipt[m].gen
      /\ receipt'[m].done
  BY <1>0, MarkDone DEF ControlTypeOK, Added, Knows
<1>4. /\ \A t \in Messages :
             /\ receipt'[t].kind = receipt[t].kind /\ receipt'[t].waiter = receipt[t].waiter
             /\ receipt'[t].turns = receipt[t].turns /\ receipt'[t].gen = receipt[t].gen
      /\ receipt[m].kind # "none"
  BY <1>0, <1>3 DEF TakenAs, Added
<1>5. ControlTypeOK'
  BY <1>0, <1>1, <1>2, <1>3, <1>4, ControlAssumption
  DEF ControlTypeOK, WorkState, HandState, past, Added, Acks, Quiet
<1>6. ComesOnce'
  BY <1>0, <1>1, <1>2, <1>3, <1>4 DEF ComesOnce, WorkState, HandState, Added
<1>7. TakenAs'
  BY <1>0, <1>1, <1>2, <1>3, <1>4 DEF TakenAs, WorkState, HandState, past, Added, Quiet
<1>8. Answering'
  <2>1. UNCHANGED <<question, asks, deeds, open, what, part>>
    BY DEF past, Added
  <2>2. QED
    BY <1>0, <1>4, <2>1 DEF Answering
<1>9. InTime'
  BY <1>0, <1>1, <1>2, <1>3, <1>4 DEF InTime, WorkState, HandState, past, Added, Quiet
<1>10. Settled'
  <2>1. part' = part /\ hand'[m] = "idle" /\ part[m] # Nil
    BY <1>0 DEF TakenAs, ControlTypeOK, Added, Quiet
  <2>2. \A t \in Messages : t # m => hand'[t] = hand[t] /\ confirmed'[t] = confirmed[t]
    BY <1>0 DEF Added, Acks, Quiet
  <2>3. QED
    BY <1>0, <1>3, <2>1, <2>2 DEF Settled
<1>11. QED
  BY <1>5, <1>6, <1>7, <1>8, <1>9, <1>10 DEF ControlInv

\* The reply to a command leaves, or fails.
LEMMA RepliedStep ==
  ASSUME ControlInv, NEW m \in Messages, NEW b \in BOOLEAN, Replied(m, b)
  PROVE  ControlInv'
<1>0. /\ ControlTypeOK /\ ComesOnce /\ TakenAs /\ Answering /\ InTime /\ Settled
      /\ \A d \in deeds : d.by \in Messages
      /\ \A t \in Messages : receipt[t].turns \subseteq Messages /\ receipt[t].gen \in Nat
  BY DEF ControlInv, ControlTypeOK, Deed, Receipt
<1>1. heard' = heard /\ \A t \in Messages : (Came(t)' <=> Came(t)) /\ Since(t)' = Since(t)
  BY DEF Replied, past, Came, Since
<1>2. receipt' \in [Messages -> Receipt]
  BY <1>0, MarkDone DEF ControlTypeOK, Replied, Quiet
<1>3. /\ \A t \in Messages : t # m => receipt'[t] = receipt[t]
      /\ receipt'[m].kind = receipt[m].kind /\ receipt'[m].waiter = receipt[m].waiter
      /\ receipt'[m].turns = receipt[m].turns /\ receipt'[m].gen = receipt[m].gen
      /\ receipt[m].done => receipt'[m].done
  <2>1. PICK d \in BOOLEAN : d = (receipt[m].done \/ b)
    BY <1>0 DEF ControlTypeOK, Receipt
  <2>2. receipt' = [receipt EXCEPT ![m] = [receipt[m] EXCEPT !.done = d]]
    BY <1>0, <2>1 DEF ControlTypeOK, Replied
  <2>3. receipt'[m] = [receipt[m] EXCEPT !.done = d] /\ receipt[m] \in Receipt
    BY <1>0, <2>2 DEF ControlTypeOK
  <2>4. receipt[m].done => d = TRUE
    BY <2>1
  <2>5. QED
    BY <1>0, <2>1, <2>2, <2>3, <2>4, MarkDone DEF ControlTypeOK
<1>4. /\ \A t \in Messages :
             /\ receipt'[t].kind = receipt[t].kind /\ receipt'[t].waiter = receipt[t].waiter
             /\ receipt'[t].turns = receipt[t].turns /\ receipt'[t].gen = receipt[t].gen
      /\ receipt[m].kind # "none"
  BY <1>0, <1>3 DEF TakenAs, Replied
<1>5. ControlTypeOK'
  BY <1>0, <1>1, <1>2, <1>3, <1>4, ControlAssumption
  DEF ControlTypeOK, HandState, past, Replied, Quiet
<1>6. ComesOnce'
  BY <1>0, <1>1, <1>2, <1>3, <1>4 DEF ComesOnce, Replied
<1>7. TakenAs'
  BY <1>0, <1>1, <1>2, <1>3, <1>4 DEF TakenAs, past, Replied, Quiet
<1>8. Answering'
  <2>1. UNCHANGED <<question, asks, deeds, open, what, part>>
    BY DEF past, Replied
  <2>2. QED
    BY <1>0, <1>4, <2>1 DEF Answering
<1>9. InTime'
  BY <1>0, <1>1, <1>2, <1>3, <1>4 DEF InTime, WorkState, HandState, past, Replied, Quiet
<1>10. Settled'
  BY <1>0, <1>1, <1>2, <1>3, <1>4 DEF Settled, TakenAs, Replied, Quiet
<1>11. QED
  BY <1>5, <1>6, <1>7, <1>8, <1>9, <1>10 DEF ControlInv

\* The gateway closes.
LEMMA FreezeStep ==
  ASSUME ControlInv, Freeze
  PROVE  ControlInv'
<1>0. /\ ControlTypeOK /\ ComesOnce /\ TakenAs /\ Answering /\ InTime /\ Settled
      /\ \A d \in deeds : d.by \in Messages
      /\ \A t \in Messages : receipt[t].turns \subseteq Messages /\ receipt[t].gen \in Nat
  BY DEF ControlInv, ControlTypeOK, Deed, Receipt
<1>1. heard' = heard /\ \A t \in Messages : (Came(t)' <=> Came(t)) /\ Since(t)' = Since(t)
  BY DEF Freeze, past, Came, Since
<1>2. ControlTypeOK'
  BY <1>0, <1>1, ControlAssumption DEF ControlTypeOK, link, journal, handler, past, Freeze
<1>3. ComesOnce'
  BY <1>0, <1>1 DEF ComesOnce, link, journal, Freeze
<1>4. TakenAs'
  BY <1>0, <1>1 DEF TakenAs, link, journal, handler, past, Freeze
<1>5. Answering'
  BY <1>0, <1>1 DEF Answering, ControlTypeOK, link, journal, past, Freeze
<1>6. InTime'
  BY <1>0, <1>1 DEF InTime, journal, handler, past, Freeze
<1>7. Settled'
  BY <1>0, <1>1 DEF Settled, link, journal, handler, Freeze
<1>8. QED
  BY <1>2, <1>3, <1>4, <1>5, <1>6, <1>7 DEF ControlInv

\* The gateway ends.
LEMMA GoesDownStep ==
  ASSUME ControlInv, GoesDown
  PROVE  ControlInv'
<1>0. /\ ControlTypeOK /\ ComesOnce /\ TakenAs /\ Answering /\ InTime /\ Settled
      /\ \A d \in deeds : d.by \in Messages
      /\ \A t \in Messages : receipt[t].turns \subseteq Messages /\ receipt[t].gen \in Nat
  BY DEF ControlInv, ControlTypeOK, Deed, Receipt
<1>1. heard' = heard /\ \A t \in Messages : (Came(t)' <=> Came(t)) /\ Since(t)' = Since(t)
  BY DEF GoesDown, past, Came, Since
<1>2. ControlTypeOK'
  BY <1>0, <1>1, ControlAssumption
  DEF ControlTypeOK, HandState, journal, past, GoesDown, Forgets
<1>3. ComesOnce'
  BY <1>0, <1>1 DEF ComesOnce, journal, GoesDown
<1>4. TakenAs'
  BY <1>0, <1>1 DEF TakenAs, ControlTypeOK, journal, past, GoesDown, Forgets
<1>5. Answering'
  BY <1>0, <1>1 DEF Answering, ControlTypeOK, journal, past, GoesDown, Forgets
<1>6. InTime'
  BY <1>0, <1>1 DEF InTime, journal, past, GoesDown, Forgets
<1>7. Settled'
  BY <1>0, <1>1 DEF Settled, journal, GoesDown, Forgets
<1>8. QED
  BY <1>2, <1>3, <1>4, <1>5, <1>6, <1>7 DEF ControlInv

\* Another gateway starts.
LEMMA BootStep ==
  ASSUME ControlInv, Boot
  PROVE  ControlInv'
<1>0. /\ ControlTypeOK /\ ComesOnce /\ TakenAs /\ Answering /\ InTime /\ Settled
      /\ \A d \in deeds : d.by \in Messages
      /\ \A t \in Messages : receipt[t].turns \subseteq Messages /\ receipt[t].gen \in Nat
  BY DEF ControlInv, ControlTypeOK, Deed, Receipt
<1>1. heard' = heard /\ \A t \in Messages : (Came(t)' <=> Came(t)) /\ Since(t)' = Since(t)
  BY DEF Boot, past, Came, Since
<1>2. ControlTypeOK'
  BY <1>0, <1>1, ControlAssumption DEF ControlTypeOK, link, journal, handler, past, Boot
<1>3. ComesOnce'
  BY <1>0, <1>1 DEF ComesOnce, link, journal, Boot
<1>4. TakenAs'
  BY <1>0, <1>1 DEF TakenAs, link, journal, handler, past, Boot
<1>5. Answering'
  BY <1>0, <1>1 DEF Answering, link, journal, past, Boot
<1>6. InTime'
  BY <1>0, <1>1 DEF InTime, journal, handler, past, Boot
<1>7. Settled'
  BY <1>0, <1>1 DEF Settled, link, journal, handler, Boot
<1>8. QED
  BY <1>2, <1>3, <1>4, <1>5, <1>6, <1>7 DEF ControlInv

----------------------------------------------------------------------------
(* The steps that take a message *)

\* Deeds and receipts are about messages.
LEMMA DeedsHaveAuthors ==
  ASSUME ControlInv
  PROVE  /\ \A d \in deeds : d.by \in Messages
         /\ \A t \in Messages : /\ receipt[t].turns \subseteq Messages /\ receipt[t].gen \in Nat
                                /\ receipt[t].waiter \in 0 .. MaxAsks /\ receipt[t] \in Receipt
  BY DEF ControlInv, ControlTypeOK, Deed, Receipt

\* A receipt that suits the message it is kept for, seen when it is written.
Suits(m, r) ==
  /\ r \in Receipt /\ r.kind # "none" /\ (r.done => receipt[m].done) /\ left[m] \subseteq r.turns
  /\ receipt[m].kind = "none" \/ r.kind = receipt[m].kind
  /\ r.kind = "permission" =>
       what[m] = "answer" /\ r.waiter = open'[m] /\ open'[m] # 0 /\ part[m] = Nil
  /\ what[m] = "answer" /\ r.kind = "normal" => open'[m] = 0
  /\ what[m] = "answer" => r.kind # "command"
  /\ what[m] = "answer" /\ part[m] # Nil => r.kind = "normal"
  /\ r.gen <= gen
  /\ \A t \in r.turns : t \in Messages /\ Came(t)' /\ Since(t)' < Since(m)'
  /\ r.kind = "command" /\ r.gen = gen /\ bound => born < Since(m)'

\* What a reservation leaves alone.
Reserves(m) ==
  /\ Elapses(m) /\ Kept /\ Came(m)'
  /\ \A t \in Messages : Came(t)' => Came(t) \/ t = m
  /\ open' \in [Messages -> 0 .. MaxAsks]
  /\ \A t \in Messages : receipt[t].kind # "none" \/ t # m => open'[t] = open[t]

\* A receipt suits its message, whether it is written now or was kept (reserveWhatsAppIngress).
LEMMA ReservationSuits ==
  ASSUME ControlInv, NEW m \in Messages, Hears(m),
         due[m] > 0 \/ receipt[m].kind # "none"
  PROVE  Reserves(m) /\ Suits(m, Reserved(m))
<1>0. /\ ControlTypeOK /\ ComesOnce /\ TakenAs /\ Answering /\ InTime /\ Settled
      /\ heard \in Seq(Messages) /\ Len(heard) \in Nat /\ question \in 0 .. MaxAsks
      /\ open \in [Messages -> 0 .. MaxAsks] /\ gen \in Nat /\ born \in Nat
      /\ receipt[m] \in Receipt
  BY DEF ControlInv, ControlTypeOK
<1>1. CASE receipt[m].kind = "none"
  <2>1. /\ receipt[m] = Unread /\ what[m] # "foreign" /\ ~Came(m) /\ part[m] = Nil
        /\ what[m] # "nothing" /\ left[m] = {}
    BY <1>0, <1>1 DEF TakenAs, ComesOnce, InTime, Unread
  <2>2. Comes(m) /\ open' = [open EXCEPT ![m] = question]
    BY <2>1 DEF Hears, Comes
  <2>3. /\ Kept /\ Came(m)' /\ Since(m)' = Len(heard) + 1
        /\ \A t \in Messages : Came(t)' => Came(t) \/ t = m
    BY <1>0, <2>2, TimeKeeps DEF Elapses
  <2>4. Reserves(m)
    BY <1>0, <1>1, <2>2, <2>3 DEF Reserves, Elapses
  <2>5. \A t \in Messages : work[t] # "none" => Came(t)' /\ Since(t)' < Since(m)'
    BY <1>0, <2>3 DEF ComesOnce, Kept
  <2>6. born < Since(m)'
    BY <1>0, <2>3 DEF InTime
  <2>7. Reserved(m) = Disposition(m)
    BY <2>1 DEF Reserved
  <2>8. Suits(m, Disposition(m))
    <3>1. CASE what[m] = "answer" /\ question # 0
      <4>1. Disposition(m) = [kind |-> "permission", waiter |-> question,
                              turns |-> {}, gen |-> 0, done |-> FALSE]
        BY <3>1 DEF Disposition, Unread
      <4>2. QED
        BY <1>0, <1>1, <2>1, <2>2, <3>1, <4>1 DEF Suits, Receipt
    <3>2. CASE what[m] \in {"stop", "clear"}
      <4>1. Disposition(m) = [kind |-> "command", waiter |-> question,
                              turns |-> {t \in Messages : work[t] # "none" /\ Own(t)},
                              gen |-> gen, done |-> FALSE]
        BY <3>2 DEF Disposition, Unread
      <4>2. QED
        BY <1>0, <1>1, <2>1, <2>2, <2>5, <2>6, <3>2, <4>1 DEF Suits, Receipt
    <3>3. CASE ~(what[m] = "answer" /\ question # 0) /\ what[m] \notin {"stop", "clear"}
      <4>1. Disposition(m) = [kind |-> "normal", waiter |-> question,
                              turns |-> {}, gen |-> 0, done |-> FALSE]
        BY <3>3 DEF Disposition, Unread
      <4>2. QED
        BY <1>0, <1>1, <2>1, <2>2, <3>3, <4>1 DEF Suits, Receipt
    <3>4. QED
      BY <3>1, <3>2, <3>3
  <2>9. QED
    BY <2>4, <2>7, <2>8
<1>2. CASE receipt[m].kind # "none"
  <2>1. receipt[m] # Unread /\ heard' = heard /\ open' = open /\ Came(m) /\ Reserved(m) = receipt[m]
    BY <1>0, <1>2 DEF Unread, Hears, Reserved, ComesOnce
  <2>2. Elapses(m) /\ Kept /\ \A t \in Messages : Came(t)' => Came(t) \/ t = m
    BY <1>0, <2>1, TimeKeeps DEF Elapses
  <2>3. Reserves(m)
    BY <1>0, <2>1, <2>2 DEF Reserves, Kept
  <2>4. \A t \in receipt[m].turns : t \in Messages /\ Came(t)' /\ Since(t)' < Since(m)'
    BY <1>0, <2>1, <2>2 DEF InTime, Kept, Receipt
  <2>5. receipt[m].kind = "command" /\ receipt[m].gen = gen /\ bound => born < Since(m)'
    BY <1>0, <2>1, <2>2 DEF InTime, Kept
  <2>6. Suits(m, receipt[m])
    BY <1>0, <1>2, <2>1, <2>4, <2>5 DEF Suits, InTime, Answering
  <2>7. QED
    BY <2>1, <2>3, <2>6
<1>3. QED
  BY <1>1, <1>2

\* What is filed keeps what the message was taken for.
Files(m, r) ==
  /\ receipt' \in [Messages -> Receipt] /\ \A t \in Messages : t # m => receipt'[t] = receipt[t]
  /\ receipt'[m].kind = r.kind /\ receipt'[m].waiter = r.waiter
  /\ receipt'[m].turns = r.turns /\ receipt'[m].gen = r.gen

\* What a message may do for the receipt it has.
Does(m, r, d) ==
  \/ r.kind = "permission" /\ question' = 0 /\ question = r.waiter
     /\ d = [by |-> m, did |-> "answered", to |-> question]
  \/ \E t \in r.turns : d = [by |-> m, did |-> "stopped", to |-> t]
  \/ r.kind = "command" /\ bound /\ gen = r.gen /\ d = [by |-> m, did |-> "cleared", to |-> born]

Handles(m, r) ==
  /\ Reserves(m) /\ Suits(m, r) /\ Files(m, r)
  /\ what' = what /\ asks' = asks /\ born' = born /\ question' \in {0, question}
  /\ (gen' = gen /\ bound' = bound) \/ (gen' = gen + 1 /\ bound' = FALSE)
  /\ \A t \in Messages : part'[t] = part[t] \/ (t = m /\ r.kind = "normal")
  /\ \A t \in Messages : work'[t] # "none" => work[t] # "none" \/ Came(t)'
  /\ \A t \in Messages : left'[t] \subseteq left[t] \/ (t = m /\ left'[t] \subseteq r.turns)
  /\ \A d \in deeds' : d \in deeds \/ Does(m, r, d)

\* Whoever acts on a receipt that suits, acts in time and on the question it came for.
LEMMA HandlingKeeps ==
  ASSUME ControlInv, NEW m \in Messages, NEW r, Handles(m, r)
  PROVE  ComesOnce' /\ Answering' /\ InTime' /\ deeds' \subseteq Deed
<1>0. /\ ControlTypeOK /\ ComesOnce /\ TakenAs /\ Answering /\ InTime /\ Settled
      /\ Reserves(m) /\ Suits(m, r) /\ Files(m, r)
      /\ r \in Receipt /\ r.gen \in Nat /\ r.turns \subseteq Messages /\ gen \in Nat /\ born \in Nat
      /\ Len(heard) \in Nat /\ Len(heard') \in Nat
      /\ open \in [Messages -> 0 .. MaxAsks] /\ question \in 0 .. MaxAsks /\ asks \in 0 .. MaxAsks
      /\ \A t \in Messages :
           Came(t) => Came(t)' /\ Since(t)' = Since(t) /\ Since(t) \in 1 .. Len(heard)
  BY DEF ControlInv, ControlTypeOK, WorkState, HandState, Handles, Suits, Receipt,
         Reserves, Kept
<1>1. /\ \A d \in deeds : d.by \in Messages
      /\ \A t \in Messages : receipt[t].turns \subseteq Messages /\ receipt[t].gen \in Nat
  BY DeedsHaveAuthors
<1>2. \A d \in deeds' : d \in deeds \/ Does(m, r, d)
  BY DEF Handles
<1>3. ComesOnce'
  <2>1. \A i, j \in DOMAIN heard' : heard'[i] = heard'[j] => i = j
    BY <1>0 DEF Reserves, Kept
  <2>2. \A t \in Messages : Came(t)' <=> receipt'[t].kind # "none" \/ what'[t] = "foreign"
    BY <1>0 DEF ComesOnce, Reserves, Files, Suits, Handles
  <2>3. \A t \in Messages : work'[t] # "none" => Came(t)'
    BY <1>0 DEF ComesOnce, Handles
  <2>4. QED
    BY <2>1, <2>2, <2>3 DEF ComesOnce
<1>4. deeds' \subseteq Deed
  <2>1. ASSUME NEW d \in deeds'  PROVE d \in Deed
    BY <1>0, <1>2, <2>1 DEF Does, Deed, ControlTypeOK
  <2>2. QED
    BY <2>1
<1>5. Answering'
  <2>1. question' <= asks'
    BY <1>0 DEF Answering, Handles
  <2>2. ASSUME NEW t \in Messages
        PROVE  /\ receipt'[t].kind = "permission" =>
                    /\ what'[t] = "answer" /\ receipt'[t].waiter = open'[t]
                    /\ open'[t] # 0 /\ part'[t] = Nil
               /\ what'[t] = "answer" /\ receipt'[t].kind = "normal" => open'[t] = 0
               /\ what'[t] = "answer" => receipt'[t].kind # "command"
               /\ what'[t] = "answer" /\ part'[t] # Nil => receipt'[t].kind = "normal"
    <3>1. CASE t = m
      BY <1>0, <3>1 DEF Suits, Files, Handles
    <3>2. CASE t # m
      <4>1. receipt'[t] = receipt[t] /\ part'[t] = part[t] /\ what'[t] = what[t]
        BY <1>0, <3>2 DEF Files, Handles
      <4>2. CASE receipt[t].kind = "none"
        BY <1>0, <4>1, <4>2 DEF Answering
      <4>3. CASE receipt[t].kind # "none"
        <5>1. open'[t] = open[t]
          BY <1>0, <4>3 DEF Reserves
        <5>2. QED
          BY <1>0, <4>1, <5>1 DEF Answering
      <4>4. QED
        BY <4>2, <4>3
    <3>3. QED
      BY <3>1, <3>2
  <2>3. ASSUME NEW d \in deeds', d.did = "answered"
        PROVE  /\ receipt'[d.by].kind = "permission" /\ d.to = open'[d.by]
               /\ d.to \in 1 .. asks' /\ d.to # question'
    <3>1. CASE d \in deeds
      <4>1. /\ receipt[d.by].kind = "permission" /\ d.to = open[d.by]
            /\ d.to \in 1 .. asks /\ d.to # question /\ d.by \in Messages
        BY <1>0, <1>1, <2>3, <3>1 DEF Answering
      <4>2. open'[d.by] = open[d.by] /\ receipt'[d.by].kind = receipt[d.by].kind
        <5>1. open'[d.by] = open[d.by]
          BY <1>0, <4>1 DEF Reserves
        <5>2. CASE d.by = m
          BY <1>0, <4>1, <5>1, <5>2 DEF Suits, Files
        <5>3. CASE d.by # m
          BY <1>0, <4>1, <5>1, <5>3 DEF Files
        <5>4. QED
          BY <5>2, <5>3
      <4>3. QED
        BY <4>1, <4>2, <1>0 DEF Handles
    <3>2. CASE Does(m, r, d)
      <4>1. /\ r.kind = "permission" /\ question' = 0 /\ question = r.waiter
            /\ d.by = m /\ d.to = question
        BY <2>3, <3>2 DEF Does
      <4>2. QED
        BY <1>0, <4>1 DEF Suits, Files, Answering, Handles
    <3>3. QED
      BY <1>2, <3>1, <3>2
  <2>4. ASSUME NEW d \in deeds', NEW e \in deeds', d.did = "answered", e.did = "answered",
               d.to = e.to
        PROVE  d = e
    <3>1. \A x \in deeds : x.did = "answered" => x.to # question
      BY <1>0 DEF Answering
    <3>2. \A x : Does(m, r, x) /\ x.did = "answered" =>
                   x = [by |-> m, did |-> "answered", to |-> question]
      BY DEF Does
    <3>3. \A x, y \in deeds : x.did = "answered" /\ y.did = "answered" /\ x.to = y.to => x = y
      BY <1>0 DEF Answering
    <3>4. [by |-> m, did |-> "answered", to |-> question].to = question
      OBVIOUS
    <3>5. QED
      BY <1>2, <2>4, <3>1, <3>2, <3>3, <3>4
  <2>5. QED
    BY <2>1, <2>2, <2>3, <2>4 DEF Answering
<1>6. InTime'
  <2>1. born' <= Len(heard')
    BY <1>0 DEF InTime, Handles, Reserves, Kept
  <2>2. gen' \in Nat /\ gen <= gen' /\ (gen' = gen /\ bound' => bound)
        /\ (gen' # gen => ~bound' /\ gen' = gen + 1)
    BY <1>0 DEF Handles
  <2>3. ASSUME NEW t \in Messages
        PROVE  /\ receipt'[t].gen <= gen' /\ left'[t] \subseteq receipt'[t].turns
               /\ \A u \in receipt'[t].turns : Came(u)' /\ Since(u)' < Since(t)'
               /\ receipt'[t].kind = "command" /\ receipt'[t].gen = gen' /\ bound'
                    => born' < Since(t)'
    <3>1. CASE t = m
      <4>1. receipt'[t].kind = r.kind /\ receipt'[t].turns = r.turns /\ receipt'[t].gen = r.gen
        BY <1>0, <3>1 DEF Files
      <4>2. left'[t] \subseteq left[t] \/ left'[t] \subseteq r.turns
        BY <3>1 DEF Handles
      <4>3. left[t] \subseteq r.turns
        BY <1>0, <3>1 DEF Suits
      <4>4. r.gen <= gen' /\ (r.gen = gen' /\ bound' => r.gen = gen /\ bound)
        BY <1>0, <2>2 DEF Suits
      <4>5. QED
        BY <1>0, <3>1, <4>1, <4>2, <4>3, <4>4 DEF Suits, Handles
    <3>2. CASE t # m
      <4>1. receipt'[t] = receipt[t] /\ left'[t] \subseteq left[t] /\ born' = born
        BY <1>0, <3>2 DEF Files, Handles
      <4>2. /\ receipt[t].gen <= gen'
            /\ receipt[t].gen = gen' /\ bound' => receipt[t].gen = gen /\ bound
        BY <1>0, <1>1, <2>2 DEF InTime
      <4>3. receipt[t].kind = "command" \/ receipt[t].turns # {} => Came(t)
        BY <1>0 DEF ComesOnce, TakenAs, Unread
      <4>4. QED
        BY <1>0, <1>1, <4>1, <4>2, <4>3 DEF InTime
    <3>3. QED
      BY <3>1, <3>2
  <2>4. ASSUME NEW d \in deeds'
        PROVE  /\ Came(d.by)'
               /\ d.did = "stopped" =>
                    d.to \in Messages /\ Came(d.to)' /\ Since(d.to)' < Since(d.by)'
               /\ d.did = "cleared" => d.to \in Nat /\ d.to < Since(d.by)'
    <3>1. CASE d \in deeds
      BY <1>0, <1>1, <3>1 DEF InTime
    <3>2. CASE Does(m, r, d)
      BY <1>0, <3>2 DEF Does, Suits, Reserves
    <3>3. QED
      BY <1>2, <3>1, <3>2
  <2>5. QED
    BY <2>1, <2>3, <2>4 DEF InTime
<1>7. QED
  BY <1>3, <1>4, <1>5, <1>6

\* The process ends between the receipt and the effect.
LEMMA DiesReservingStep ==
  ASSUME ControlInv, NEW m \in Messages, DiesReserving(m)
  PROVE  ControlInv'
<1>0. ControlTypeOK /\ TakenAs /\ Settled /\ heard \in Seq(Messages) /\ receipt[m] = Unread
      /\ ~receipt[m].done /\ due[m] > 0
  BY DEF ControlInv, ControlTypeOK, DiesReserving, Unread
<1>1. PICK r : r = Reserved(m)
  OBVIOUS
<1>2. Reserves(m) /\ Suits(m, r) /\ receipt' = [receipt EXCEPT ![m] = r]
  BY <1>0, <1>1, ReservationSuits DEF DiesReserving, Reserved, Knows
<1>3. receipt' \in [Messages -> Receipt] /\ Files(m, r) /\ receipt'[m] = r
  BY <1>0, <1>2 DEF ControlTypeOK, Suits, Files
<1>4. Handles(m, r)
  BY <1>0, <1>2, <1>3 DEF Handles, DiesReserving, Forgets
<1>5. ComesOnce' /\ Answering' /\ InTime'
  BY <1>4, HandlingKeeps
<1>6. ControlTypeOK'
  BY <1>0, <1>2, <1>3, ControlAssumption
  DEF ControlTypeOK, DiesReserving, Forgets, Reserves, Kept
<1>7. TakenAs'
  BY <1>0, <1>2, <1>3 DEF TakenAs, DiesReserving, Forgets, ControlTypeOK, Reserves, Suits
<1>8. Settled'
  BY <1>0, <1>2, <1>3 DEF Settled, DiesReserving, Forgets, Suits
<1>9. QED
  BY <1>5, <1>6, <1>7, <1>8 DEF ControlInv

\* An answer goes to its question, or nowhere.
LEMMA TakeAnswerStep ==
  ASSUME ControlInv, NEW m \in Messages, TakeAnswer(m)
  PROVE  ControlInv'
<1>0. ControlTypeOK /\ TakenAs /\ Settled /\ heard \in Seq(Messages) /\ ~receipt[m].done
      /\ due[m] > 0 /\ hand[m] = "idle"
  BY DEF ControlInv, ControlTypeOK, WorkState, TakeAnswer, Begins
<1>1. PICK r : r = Reserved(m)
  OBVIOUS
<1>2. Reserves(m) /\ Suits(m, r) /\ receipt' = [receipt EXCEPT ![m] = [r EXCEPT !.done = TRUE]]
      /\ r.kind = "permission"
  BY <1>0, <1>1, ReservationSuits DEF TakeAnswer, Knows
<1>3. /\ receipt' \in [Messages -> Receipt] /\ Files(m, r) /\ receipt'[m].done
  BY <1>0, <1>2, MarkDone DEF ControlTypeOK, WorkState, HandState, Suits, Files
<1>4. Handles(m, r)
  <2>1. question' \in {0, question} /\ \A d \in deeds' : d \in deeds \/ Does(m, r, d)
    BY <1>1, <1>2 DEF TakeAnswer, Does
  <2>2. QED
    BY <1>0, <1>2, <1>3, <2>1 DEF Handles, TakeAnswer, handler
<1>5. ComesOnce' /\ Answering' /\ InTime' /\ deeds' \subseteq Deed
  BY <1>4, HandlingKeeps
<1>6. ControlTypeOK'
  <2>1. /\ due' \in [Messages -> 0 .. MaxDeliveries] /\ \A t \in Messages : due'[t] <= due[t]
        /\ question' \in 0 .. MaxAsks
    <3>1. question' \in {0, question}
      BY DEF TakeAnswer
    <3>2. 0 \in 0 .. MaxAsks
      BY ControlAssumption
    <3> QED
      BY <1>0, <3>1, <3>2, DeliveryIsSpent DEF ControlTypeOK, TakeAnswer
  <2>2. QED
    BY <1>0, <1>2, <1>3, <1>5, <2>1
    DEF ControlTypeOK, WorkState, HandState, TakeAnswer, Acks, handler, Reserves, Kept
<1>7. TakenAs'
  BY SMTT(20), <1>0, <1>2, <1>3
  DEF TakenAs, TakeAnswer, Begins, handler, ControlTypeOK, WorkState, Reserves
<1>8. Settled'
  BY <1>0, <1>2, <1>3 DEF Settled, TakeAnswer, Acks, handler
<1>9. QED
  BY <1>5, <1>6, <1>7, <1>8 DEF ControlInv

\* A text becomes a turn, or part of one.
LEMMA TakeTextStep ==
  ASSUME ControlInv, NEW m \in Messages, TakeText(m)
  PROVE  ControlInv'
<1>0. /\ ControlTypeOK /\ TakenAs /\ Settled /\ heard \in Seq(Messages)
      /\ due[m] > 0 /\ hand[m] = "idle"
  BY DEF ControlInv, ControlTypeOK, TakeText, Begins
<1>1. PICK r : r = Reserved(m)
  OBVIOUS
<1>2. Reserves(m) /\ Suits(m, r) /\ receipt' = [receipt EXCEPT ![m] = r] /\ r.kind = "normal"
  BY <1>0, <1>1, ReservationSuits DEF TakeText, Knows
<1>3. receipt' \in [Messages -> Receipt] /\ Files(m, r) /\ receipt'[m] = r
  BY <1>0, <1>2 DEF ControlTypeOK, Suits, Files
<1>4. /\ question' \in {0, question} /\ work' \in [Messages -> WorkState]
      /\ part' \in [Messages -> Messages \cup {Nil}]
      /\ \A t \in Messages : t # m => part'[t] = part[t] /\ work'[t] = work[t]
      /\ part[m] # Nil => part'[m] = part[m]
  <2>1. question' \in {0, question}
    BY DEF TakeText
  <2>2. CASE power = "closing"
    BY <1>0, <2>1, <2>2 DEF TakeText, ControlTypeOK
  <2>3. CASE power # "closing"
    <3>1. PICK t \in {m} \cup Joins(m) :
            IF part[m] # Nil THEN UNCHANGED <<work, part>>
            ELSE /\ part' = [part EXCEPT ![m] = t]
                 /\ work' = IF t = m THEN [work EXCEPT ![m] = "queued"] ELSE work
      BY <2>3 DEF TakeText
    <3>2. t \in Messages
      BY <3>1 DEF Joins
    <3>3. CASE part[m] # Nil
      BY <1>0, <2>1, <3>1, <3>3 DEF ControlTypeOK
    <3>4. CASE part[m] = Nil
      <4>1. part' = [part EXCEPT ![m] = t] /\ work' \in {work, [work EXCEPT ![m] = "queued"]}
        BY <3>1, <3>4
      <4>2. QED
        BY ZenonT(40), <1>0, <2>1, <3>2, <3>4, <4>1 DEF ControlTypeOK, WorkState, HandState
    <3>5. QED
      BY <3>3, <3>4
  <2>4. QED
    BY <2>2, <2>3
<1>5. hand' = hand \/ (hand' = [hand EXCEPT ![m] = "adding"] /\ part'[m] # Nil)
  BY <1>0, ControlAssumption DEF TakeText, Joins, ControlTypeOK
<1>6. Handles(m, r)
  BY <1>0, <1>2, <1>3, <1>4 DEF Handles, TakeText, Reserves
<1>7. ComesOnce' /\ Answering' /\ InTime'
  BY <1>6, HandlingKeeps
<1>8. ControlTypeOK'
  <2>1. /\ due' \in [Messages -> 0 .. MaxDeliveries] /\ \A t \in Messages : due'[t] <= due[t]
        /\ question' \in 0 .. MaxAsks
    BY SMTT(20), <1>0, <1>4, DeliveryIsSpent, ControlAssumption DEF ControlTypeOK, TakeText
  <2>2. hand' \in [Messages -> HandState]
    BY ZenonT(40), <1>0, <1>5 DEF ControlTypeOK, WorkState, HandState
  <2>3. QED
    BY <1>0, <1>2, <1>3, <1>4, <2>1, <2>2
    DEF ControlTypeOK, WorkState, HandState, TakeText, Reserves, Kept
<1>9. TakenAs'
  <2>1. /\ due \in [Messages -> 0 .. MaxDeliveries] /\ hand \in [Messages -> HandState]
        /\ UNCHANGED <<what, tries>>
        /\ \A t \in Messages : due'[t] > 0 => due[t] > 0
    BY <1>0, DeliveryIsSpent DEF ControlTypeOK, TakeText
  <2>2. \A t \in Messages : open'[t] = open[t] \/ (t = m /\ r.kind = "normal")
    BY <1>2 DEF Reserves
  <2>3. ASSUME NEW t \in Messages, t # m
        PROVE  /\ hand'[t] = hand[t] /\ open'[t] = open[t] /\ part'[t] = part[t]
               /\ receipt'[t] = receipt[t]
    BY <1>3, <1>4, <1>5, <2>1, <2>2, <2>3 DEF Files
  <2>4. /\ hand'[m] # "fencing" /\ hand'[m] # "replying" /\ receipt'[m].kind = "normal"
        /\ hand'[m] = "adding" => part'[m] # Nil
        /\ what[m] \notin {"nothing", "foreign"}
    BY <1>0, <1>2, <1>3, <1>5, <2>1 DEF TakenAs
  <2>5. \A t \in Messages : due'[t] <= tries[t]
    <3>1. \A t \in Messages : /\ tries[t] \in Nat /\ due[t] \in Nat /\ due'[t] \in Nat
                              /\ due[t] <= tries[t] /\ due'[t] <= due[t]
      BY SMTT(20), <1>0, DeliveryIsSpent DEF ControlTypeOK, TakenAs, TakeText
    <3> QED
      BY <3>1
  <2>6. QED
    BY <1>0, <2>1, <2>3, <2>4, <2>5 DEF TakenAs
<1>10. Settled'
  <2>1. confirmed' = confirmed /\ (r.done => receipt[m].done)
    BY <1>2 DEF TakeText, Suits
  <2>2. receipt[m].done => receipt[m].kind = "normal"
    BY <1>0, <1>2 DEF TakenAs, Suits, Unread
  <2>3. confirmed[m] => r.done
    BY <1>0, <1>1 DEF Settled, Reserved, Unread
  <2>4. ASSUME NEW t \in Messages, t # m
        PROVE  hand'[t] = hand[t] /\ part'[t] = part[t] /\ receipt'[t] = receipt[t]
    BY <1>0, <1>3, <1>4, <1>5, <2>4 DEF Files, ControlTypeOK
  <2>5. hand'[m] # "fencing"
    BY <1>0, <1>5 DEF ControlTypeOK
  <2>6. QED
    BY <1>0, <1>3, <1>4, <2>1, <2>2, <2>3, <2>4, <2>5 DEF Settled
<1>11. QED
  BY <1>7, <1>8, <1>9, <1>10 DEF ControlInv

\* A message of another channel becomes a turn of the conversation.
LEMMA ForeignComesStep ==
  ASSUME ControlInv, NEW m \in Messages, ForeignComes(m)
  PROVE  ControlInv'
<1>0. /\ ControlTypeOK /\ ComesOnce /\ TakenAs /\ Answering /\ InTime /\ Settled
      /\ what[m] = "nothing" /\ receipt[m] = Unread /\ due[m] = 0 /\ heard \in Seq(Messages)
      /\ born \in Nat /\ Len(heard) \in Nat
  <2>1. ControlTypeOK /\ TakenAs /\ what[m] = "nothing" /\ heard \in Seq(Messages) /\ born \in Nat
        /\ due[m] \in Nat
    BY DEF ControlInv, ControlTypeOK, ForeignComes
  <2>2. due[m] = 0 /\ receipt[m] = Unread
    BY <2>1 DEF TakenAs
  <2>3. QED
    BY <2>1, <2>2 DEF ControlInv
<1>1. /\ \A d \in deeds : d.by \in Messages
      /\ \A t \in Messages : receipt[t].turns \subseteq Messages
  BY DeedsHaveAuthors
<1>2. Comes(m)
  BY <1>0 DEF ComesOnce, Unread, ForeignComes, Comes
<1>3. /\ Kept /\ Came(m)' /\ \A t \in Messages : Came(t)' => Came(t) \/ t = m
      /\ \A t \in Messages :
           Came(t) => Came(t)' /\ Since(t)' = Since(t) /\ Since(t) \in 1 .. Len(heard)
  BY <1>0, <1>2, TimeKeeps DEF Elapses, Kept
<1>4. /\ what' = [what EXCEPT ![m] = "foreign"] /\ work' = [work EXCEPT ![m] = "queued"]
      /\ part' = [part EXCEPT ![m] = m]
      /\ UNCHANGED <<due, tries, confirmed, receipt, gen, bound, question, asks, hand, left,
                     shaky,
                     open, born, deeds>>
  BY DEF ForeignComes, handler
<1>5. ControlTypeOK'
  BY <1>0, <1>3, <1>4 DEF ControlTypeOK, WorkState, ForeignComes
<1>6. ComesOnce'
  BY <1>0, <1>3, <1>4 DEF ComesOnce, ControlTypeOK, Kept
<1>7. TakenAs'
  BY <1>0, <1>4 DEF TakenAs, ControlTypeOK
<1>8. Answering'
  BY <1>0, <1>1, <1>4 DEF Answering
<1>9. InTime'
  <2>1. born' <= Len(heard')
    BY <1>0, <1>3, <1>4 DEF InTime, Kept
  <2>2. \A t \in Messages : receipt[t].kind = "command" \/ receipt[t].turns # {} => Came(t)
    BY <1>0 DEF ComesOnce, TakenAs, Unread
  <2>3. \A t \in Messages :
          /\ \A u \in receipt'[t].turns : Came(u)' /\ Since(u)' < Since(t)'
          /\ receipt'[t].kind = "command" /\ receipt'[t].gen = gen' /\ bound' => born' < Since(t)'
    BY <1>0, <1>1, <1>3, <1>4, <2>2 DEF InTime
  <2>4. QED
    BY <1>0, <1>1, <1>3, <1>4, <2>1, <2>3 DEF InTime
<1>10. Settled'
  BY <1>0, <1>4 DEF Settled, Unread
<1>11. QED
  BY <1>5, <1>6, <1>7, <1>8, <1>9, <1>10 DEF ControlInv

----------------------------------------------------------------------------
(* The commands *)

CommandHands == {"idle", "fencing", "replying"}

\* What a command that goes on leaves.
Orders(m, r) ==
  /\ Files(m, r) /\ born' = born
  /\ hand' \in [Messages -> HandState] /\ hand'[m] \in CommandHands
  /\ hand'[m] = "fencing" => (receipt'[m].done => r.done)
  /\ \A t \in Messages : t # m => hand'[t] = hand[t]
  /\ work' \in [Messages -> WorkState]
  /\ \A t \in Messages : work'[t] # "none" => work[t] # "none" \/ t \in r.turns
  /\ (gen' = gen /\ bound' = bound) \/ (gen' = gen + 1 /\ bound' = FALSE)
  /\ bound' \in BOOLEAN
  /\ left' \in [Messages -> SUBSET Messages] /\ shaky' \in [Messages -> BOOLEAN]
  /\ \A t \in Messages : t # m => left'[t] = left[t]
  /\ left'[m] \subseteq left[m] \/ left'[m] \subseteq r.turns
  /\ \A d \in deeds' : d \in deeds \/ Does(m, r, d)

\* The end of a command does what its receipt allows.
LEMMA ConcludingOrders ==
  ASSUME ControlTypeOK, NEW m \in Messages, NEW r \in Receipt, r.kind = "command",
         NEW failed, NEW stopped,
         \A d \in stopped : Does(m, r, d), Concludes(m, r, failed, stopped), born' = born,
         work' \in [Messages -> WorkState],
         \A t \in Messages : work'[t] # "none" => work[t] # "none" \/ t \in r.turns
  PROVE  Orders(m, r)
<1>1. PICK fails \in BOOLEAN : fails = ((what[m] = "clear" /\ failed) \/ Refused(m))
  OBVIOUS
<1>2. PICK drops \in BOOLEAN : drops = (~fails /\ Drops(m, r))
  OBVIOUS
<1>0. PICK ok \in BOOLEAN : ok = ~fails
  OBVIOUS
<1>3. /\ receipt' = [receipt EXCEPT ![m] = [r EXCEPT !.done = ok]]
      /\ hand' = [hand EXCEPT ![m] = IF fails THEN "idle" ELSE "replying"]
      /\ left' = [left EXCEPT ![m] = {}] /\ shaky' = [shaky EXCEPT ![m] = FALSE]
      /\ bound' = (bound /\ ~drops) /\ gen' = IF drops THEN gen + 1 ELSE gen
      /\ deeds' = deeds \cup stopped
                       \cup {[by |-> m, did |-> "cleared", to |-> n] :
                               n \in IF drops /\ bound THEN {born} ELSE {}}
  BY <1>0, <1>1, <1>2 DEF Concludes
<1>4. Files(m, r)
  BY <1>3, MarkDone DEF ControlTypeOK, Files
<1>5. \A d \in deeds' : d \in deeds \/ Does(m, r, d)
  BY <1>2, <1>3 DEF Does, Drops
<1>6. bound' \in BOOLEAN /\ ((gen' = gen /\ bound' = bound) \/ (gen' = gen + 1 /\ bound' = FALSE))
  BY <1>2, <1>3 DEF ControlTypeOK, WorkState, HandState
<1>7. QED
  BY <1>3, <1>4, <1>5, <1>6 DEF Orders, CommandHands, ControlTypeOK, HandState

\* A stretch of abortTurn stops turns of the receipt, and no other.
LEMMA HaltingOrders ==
  ASSUME ControlTypeOK, NEW m \in Messages, NEW r \in Receipt, r.kind = "command",
         NEW S, S \subseteq r.turns, NEW ended, ended \subseteq r.turns, NEW failed \in BOOLEAN,
         Halts(m, r, S, failed, ended), born' = born
  PROVE  Orders(m, r)
<1>1. PICK before : before = {t \in S : \A u \in S : work[u] \in {"active", "paused"} =>
                                                      Since(t) < Since(u)}
  OBVIOUS
<1>2. PICK rest : rest = S \ before
  OBVIOUS
<1>3. PICK gone : gone = {t \in before : work[t] = "queued"} \cup ended
  OBVIOUS
<1>4. PICK stopped : stopped = {[by |-> m, did |-> "stopped", to |-> t] : t \in gone}
  OBVIOUS
<1>5. gone \subseteq r.turns /\ rest \subseteq r.turns /\ r.turns \subseteq Messages
  BY <1>1, <1>2, <1>3 DEF Receipt
<1>6. \A d \in stopped : Does(m, r, d)
  BY <1>4, <1>5 DEF Does
<1>7. /\ work' = [t \in Messages |-> IF t \in gone THEN "stopped"
                                   ELSE IF t \in First(rest) THEN "paused" ELSE work[t]]
      /\ IF rest = {} THEN Concludes(m, r, failed, stopped)
         ELSE /\ receipt' = [receipt EXCEPT ![m] = r]
              /\ hand' = [hand EXCEPT ![m] = "fencing"] /\ left' = [left EXCEPT ![m] = rest]
              /\ shaky' = [shaky EXCEPT ![m] = failed]
              /\ deeds' = deeds \cup stopped /\ UNCHANGED <<gen, bound>>
  BY <1>1, <1>2, <1>3, <1>4 DEF Halts
<1>8. /\ work' \in [Messages -> WorkState]
      /\ \A t \in Messages : work'[t] # "none" => work[t] # "none" \/ t \in r.turns
  BY <1>5, <1>7 DEF First, ControlTypeOK, WorkState
<1>9. CASE rest = {}
  BY <1>6, <1>7, <1>8, <1>9, ConcludingOrders
<1>10. CASE rest # {}
  <2>0. receipt \in [Messages -> Receipt] /\ receipt' = [receipt EXCEPT ![m] = r]
    BY <1>7, <1>10 DEF ControlTypeOK
  <2>1. Files(m, r)
    BY <2>0 DEF Files
  <2>2. receipt'[m] = r
    BY <1>7, <1>10 DEF ControlTypeOK
  <2>3. QED
    <3>1. /\ hand' \in [Messages -> HandState] /\ hand'[m] = "fencing"
          /\ \A t \in Messages : t # m => hand'[t] = hand[t]
      BY ZenonT(40), <1>7, <1>10 DEF ControlTypeOK, WorkState, HandState
    <3>2. /\ left' \in [Messages -> SUBSET Messages] /\ left'[m] = rest
          /\ \A t \in Messages : t # m => left'[t] = left[t]
      <4>1. rest \in SUBSET Messages /\ left' = [left EXCEPT ![m] = rest]
        BY <1>5, <1>7, <1>10
      <4>2. QED
        BY <4>1 DEF ControlTypeOK
    <3>3. shaky' \in [Messages -> BOOLEAN] /\ gen' = gen /\ bound' = bound /\ bound \in BOOLEAN
      BY <1>7, <1>10 DEF ControlTypeOK, WorkState, HandState
    <3>4. \A d \in deeds' : d \in deeds \/ Does(m, r, d)
      BY <1>6, <1>7, <1>10
    <3>5. QED
      BY <1>5, <1>8, <2>1, <2>2, <3>1, <3>2, <3>3, <3>4 DEF Orders, CommandHands
<1>11. QED
  BY <1>9, <1>10

\* A command that keeps to its receipt keeps the invariant.
LEMMA OrdersKeep ==
  ASSUME ControlInv, NEW m \in Messages, NEW r, Reserves(m), Suits(m, r), Orders(m, r),
         r.kind = "command", ~receipt[m].done, ~r.done,
         UNCHANGED <<what, part, asks, tries, confirmed, power, boots>>,
         question' \in {0, question},
         what[m] \notin {"nothing", "foreign"},
         due' \in [Messages -> 0 .. MaxDeliveries], \A t \in Messages : due'[t] <= due[t]
  PROVE  ControlInv'
<1>0. ControlTypeOK /\ TakenAs /\ Settled /\ receipt[m].kind \in {"none", "command"}
  BY DEF ControlInv, Suits
<1>1. Handles(m, r)
  BY DEF Handles, Orders, Suits
<1>2. ComesOnce' /\ Answering' /\ InTime' /\ deeds' \subseteq Deed
  BY <1>1, HandlingKeeps
<1>3. ControlTypeOK'
  <2>1. question' \in 0 .. MaxAsks /\ gen' \in Nat
    BY <1>0, ControlAssumption DEF ControlTypeOK, Orders
  <2>2. heard' \in Seq(Messages) /\ open' \in [Messages -> 0 .. MaxAsks]
    BY DEF Reserves, Kept
  <2>3. QED
    BY <1>0, <1>2, <2>1, <2>2 DEF ControlTypeOK, WorkState, Orders, Files
<1>4. TakenAs'
  <2>1. ASSUME NEW t \in Messages, t # m
        PROVE  hand'[t] = hand[t] /\ open'[t] = open[t] /\ receipt'[t] = receipt[t]
    BY <2>1 DEF Orders, Files, Reserves
  <2>2. receipt'[m].kind = "command" /\ hand'[m] # "adding" /\ what[m] \notin {"nothing", "foreign"}
    BY <1>0 DEF Orders, Files, CommandHands
  <2>3. QED
    <3>1. \A t \in Messages : due[t] \in Nat /\ due'[t] \in Nat /\ tries[t] \in Nat
      BY <1>0 DEF ControlTypeOK
    <3>2. \A t \in Messages : due'[t] > 0 => due[t] > 0
      BY <3>1
    <3>3. \A t \in Messages : due'[t] <= tries'[t]
      BY <1>0, <3>1 DEF TakenAs
    <3>4. QED
      BY <1>0, <2>1, <2>2, <3>2, <3>3 DEF TakenAs
<1>5. Settled'
  <2>1. ASSUME NEW t \in Messages, t # m
        PROVE  hand'[t] = hand[t] /\ receipt'[t] = receipt[t]
    BY <2>1 DEF Orders, Files
  <2>2. receipt'[m].kind = "command" /\ (hand'[m] = "fencing" => ~receipt'[m].done)
    BY DEF Orders, Files
  <2>3. ~confirmed[m]
    BY <1>0 DEF Settled
  <2>4. QED
    BY <1>0, <2>1, <2>2, <2>3 DEF Settled
<1>6. QED
  BY <1>2, <1>3, <1>4, <1>5 DEF ControlInv

\* /stop or /clear is taken up.
LEMMA TakeCommandStep ==
  ASSUME ControlInv, NEW m \in Messages, TakeCommand(m)
  PROVE  ControlInv'
<1>0. ControlTypeOK /\ TakenAs /\ Settled /\ due[m] > 0 /\ hand[m] = "idle" /\ ~receipt[m].done
  BY DEF ControlInv, TakeCommand, Begins
<1>1. PICK r : r = Reserved(m)
  OBVIOUS
<1>2. Reserves(m) /\ Suits(m, r) /\ r.kind = "command" /\ r \in Receipt /\ ~r.done
  BY <1>0, <1>1, ReservationSuits DEF TakeCommand, Suits
<1>3. /\ due' \in [Messages -> 0 .. MaxDeliveries] /\ \A t \in Messages : due'[t] <= due[t]
      /\ UNCHANGED <<what, part, asks, tries, confirmed, power, boots, born>>
      /\ question' \in {0, question}
  <2>1. /\ due' \in [Messages -> 0 .. MaxDeliveries] /\ \A t \in Messages : due'[t] <= due[t]
    <3>1. due' = [due EXCEPT ![m] = due[m] - 1]
      BY DEF TakeCommand, Begins
    <3>2. QED
      BY <1>0, <3>1, ControlAssumption DEF ControlTypeOK, HandState
  <2>2. UNCHANGED <<what, part, asks, tries, confirmed, power, boots, born>>
    BY DEF TakeCommand
  <2>3. question' \in {0, question}
    BY DEF TakeCommand
  <2>4. QED
    BY <2>1, <2>2, <2>3
<1>4. Orders(m, r)
  <2>1. CASE Refused(m) \/ (what[m] = "clear" /\ ~Drops(m, r))
    <3>1. PICK ok \in BOOLEAN : ok = ~Refused(m)
      OBVIOUS
    <3>2. /\ receipt' = [receipt EXCEPT ![m] = [r EXCEPT !.done = ok]]
          /\ hand' = [hand EXCEPT ![m] = "replying"]
          /\ UNCHANGED <<work, gen, bound, left, shaky, deeds>>
      BY <1>1, <2>1, <3>1 DEF TakeCommand
    <3>3. Files(m, r)
      BY <1>0, <1>2, <3>2, MarkDone DEF ControlTypeOK, Files
    <3>4. QED
      BY <1>0, <1>3, <3>2, <3>3 DEF Orders, CommandHands, ControlTypeOK, HandState
  <2>2. CASE ~(Refused(m) \/ (what[m] = "clear" /\ ~Drops(m, r)))
    <3>1. Halts(m, r, Captured(r), FALSE, {})
      BY <1>1, <2>2 DEF TakeCommand
    <3>2. Captured(r) \subseteq r.turns
      BY DEF Captured
    <3>3. QED
      BY <1>0, <1>2, <1>3, <3>1, <3>2, HaltingOrders
  <2>3. QED
    BY <2>1, <2>2
<1>5. what[m] \notin {"nothing", "foreign"}
  BY <1>0 DEF TakenAs
<1>6. QED
  BY <1>0, <1>2, <1>3, <1>4, <1>5, OrdersKeep

\* The host has answered for one turn; the command goes on.
LEMMA FencedTurnStep ==
  ASSUME ControlInv, NEW m \in Messages, NEW b \in BOOLEAN, FencedTurn(m, b)
  PROVE  ControlInv'
<1>0. /\ ControlTypeOK /\ TakenAs /\ Settled /\ hand[m] = "fencing" /\ receipt[m].kind = "command"
      /\ ~receipt[m].done /\ receipt[m] \in Receipt /\ left[m] \subseteq receipt[m].turns
  BY DEF ControlInv, FencedTurn, TakenAs, Settled, InTime, ControlTypeOK
<1>1. Hears(m) /\ Reserved(m) = receipt[m]
  BY <1>0 DEF Hears, Reserved, Unread, FencedTurn
<1>2. Reserves(m) /\ Suits(m, receipt[m])
  BY <1>0, <1>1, ReservationSuits
<1>3. /\ due' \in [Messages -> 0 .. MaxDeliveries] /\ \A t \in Messages : due'[t] <= due[t]
      /\ UNCHANGED <<what, part, asks, tries, confirmed, power, boots, born>>
      /\ question' \in {0, question}
  BY <1>0 DEF ControlTypeOK, FencedTurn, link
<1>4. PICK t \in First(left[m]) :
        Halts(m, receipt[m], left[m] \ {t}, shaky[m] \/ ~b,
              IF b /\ work[t] = "paused" THEN {t} ELSE {})
  BY DEF FencedTurn
<1>5. Orders(m, receipt[m])
  <2>1. PICK failed \in BOOLEAN : failed = (shaky[m] \/ ~b)
    OBVIOUS
  <2>2. PICK ended : ended = IF b /\ work[t] = "paused" THEN {t} ELSE {}
    OBVIOUS
  <2>3. ended \subseteq receipt[m].turns /\ left[m] \ {t} \subseteq receipt[m].turns
    BY <1>0, <2>2 DEF First
  <2>4. Halts(m, receipt[m], left[m] \ {t}, failed, ended)
    BY <1>4, <2>1, <2>2
  <2>5. QED
    BY <1>0, <1>3, <2>3, <2>4, HaltingOrders
<1>6. what[m] \notin {"nothing", "foreign"}
  BY <1>0 DEF TakenAs
<1>7. QED
  BY <1>0, <1>2, <1>3, <1>5, <1>6, OrdersKeep

----------------------------------------------------------------------------
\* The inductive invariant of the controls, for any number of messages, deliveries, questions
\* and gateways.
THEOREM ControlHolds == ControlSpec => []ControlInv
<1>1. ControlInit => ControlInv
  <2>1. ASSUME ControlInit  PROVE ControlInv
    <3>1. ControlTypeOK
      <4>1. Unread \in Receipt
        BY ControlAssumption DEF Unread, Receipt
      <4>2. heard \in Seq(Messages)
        BY <2>1 DEF ControlInit
      <4>3. /\ due \in [Messages -> 0 .. MaxDeliveries]
            /\ tries \in [Messages -> 0 .. MaxDeliveries]
            /\ boots \in 0 .. MaxBoots /\ question \in 0 .. MaxAsks /\ asks \in 0 .. MaxAsks
            /\ open \in [Messages -> 0 .. MaxAsks]
        BY <2>1, ControlAssumption DEF ControlInit
      <4>4. QED
        BY <2>1, <4>1, <4>2, <4>3, ControlAssumption
        DEF ControlInit, ControlTypeOK, WorkState, HandState
    <3>2. ComesOnce
      BY <2>1 DEF ControlInit, ComesOnce, Came, Unread
    <3>3. TakenAs /\ Answering /\ Settled
      BY <2>1 DEF ControlInit, TakenAs, Answering, Settled, Unread
    <3>4. InTime
      BY <2>1 DEF ControlInit, InTime, Unread
    <3>5. QED
      BY <3>1, <3>2, <3>3, <3>4 DEF ControlInv
  <2>2. QED
    BY <2>1
<1>2. ControlInv /\ [ControlNext]_controlVars => ControlInv'
  <2> SUFFICES ASSUME ControlInv, [ControlNext]_controlVars  PROVE ControlInv'
    OBVIOUS
  <2>1. CASE ControlNext
    <3>1. CASE Ask \/ Withdraw \/ Freeze \/ GoesDown \/ Boot
      BY <3>1, AskStep, WithdrawStep, FreezeStep, GoesDownStep, BootStep
    <3>2. ASSUME NEW m \in Messages,
                 \/ \E k \in {"text", "answer", "stop", "clear"} : Deliver(m, k)
                 \/ ForeignComes(m) \/ Take(m) \/ HandlerSteps(m)
                 \/ FailsEarly(m) \/ AlreadyDone(m) \/ TakeAnswer(m) \/ TakeText(m) \/ Added(m)
                 \/ TakeCommand(m) \/ DiesReserving(m)
                 \/ \E b \in BOOLEAN : FencedTurn(m, b) \/ Replied(m, b)
          PROVE  ControlInv'
      BY <3>2, DeliverStep, ForeignComesStep, TakeStep, HandlerStepsStep, FailsEarlyStep,
         AlreadyDoneStep, TakeAnswerStep, TakeTextStep, AddedStep, TakeCommandStep,
         DiesReservingStep, FencedTurnStep, RepliedStep
    <3>3. QED
      BY <2>1, <3>1, <3>2 DEF ControlNext
  <2>2. CASE UNCHANGED controlVars
    <3>1. \A t : (Came(t)' <=> Came(t)) /\ Since(t)' = Since(t)
      BY <2>2 DEF Came, Since, controlVars
    <3>2. ControlTypeOK'
      BY <2>2 DEF ControlInv, ControlTypeOK, controlVars
    <3>3. ComesOnce' /\ TakenAs' /\ Answering' /\ Settled'
      BY <2>2, <3>1 DEF ControlInv, ComesOnce, TakenAs, Answering, Settled, controlVars
    <3>4. InTime'
      BY <2>2, <3>1 DEF ControlInv, InTime, controlVars
    <3>5. QED
      BY <3>2, <3>3, <3>4 DEF ControlInv
  <2>3. QED
    BY <2>1, <2>2
<1>3. QED
  BY <1>1, <1>2, PTL DEF ControlSpec

\* /stop ends no turn that began after it first came and /clear drops no session that was made
\* later, however often they are delivered (reserveWhatsAppIngress, abortTurn, clearSession); and
\* what was acknowledged is in a turn, or done.
THEOREM ControlsAreInTime == ControlSpec => []ControlsActOnThePast
<1>1. ControlInv => ControlsActOnThePast
  BY DEF ControlInv, InTime, TakenAs, Settled, Unread, ControlsActOnThePast
<1>2. QED
  BY <1>1, ControlHolds, PTL

\* A permission answer goes to the question that was open when it first came, once, and never
\* becomes an instruction (reserveWhatsAppIngress, pending.ts).
THEOREM AnswersHold == ControlSpec => []AnswersStayAnswers
<1>1. ControlInv => AnswersStayAnswers
  <2>1. ASSUME ControlInv  PROVE AnswersStayAnswers
    BY <2>1, DeedsHaveAuthors DEF ControlInv, Answering, AnswersStayAnswers
  <2>2. QED
    BY <2>1
<1>2. QED
  BY <1>1, ControlHolds, PTL

-----------------------------------------------------------------------------
(***************************************************************************)
(* Subscriptions: an invariant of the rows and of what the gateways made of*)
(* them.                                                                   *)
(***************************************************************************)
\* The events the gateways ask for.
Asked == {"mailbox", "a2a", "whatsapp", "calls", "slack"} \X {1, 2}
ReconcileStage == {"new", "list", "write", "prune", "wire", "done", "skipped", "failed"}

\* What a gateway can know of the server: a row, what it read there, what to write, what to
\* delete.
AView == [row : 0 .. MaxRows, read : SUBSET known, types : SUBSET (known \cup Asked),
          stale : SUBSET RowIds]

\* The type invariant of the argument, and what the versions of the server have in common.
RowShapes ==
  /\ atFirst \in [RowIds -> Existing \cup {NoRow}]
  /\ rows \in [RowIds -> Existing \cup {NoRow, Gone}]
  /\ wired \in BOOLEAN /\ crossed \in BOOLEAN
Versions ==
  /\ Events("a2a") \subseteq known \/ Events("a2a") \cap known = {}
  /\ Reactions \in known => Events("whatsapp") \subseteq known
StarterShapes ==
  /\ stage \in [Starters -> ReconcileStage] /\ visiting \in [Starters -> 1 .. 5]
  /\ wish \in [Starters -> SUBSET Asked] /\ again \in [Starters -> SUBSET {"conflict", "reactions"}]
  /\ view \in [Starters -> AView]

\* A row of an old query string with mailbox events alone: the only ones that are deleted.
Obsolete(id) == atFirst[id].owner = "mailbox" /\ atFirst[id].url = "query"
                /\ Families(atFirst[id].types) = {"mailbox"}

\* What has become of a row: it is as it was, it was obsolete, a gateway created it, or
\* updated it, and then an identity's row has lost nothing.
Remains(id) ==
  \/ rows[id] = atFirst[id]
  \/ rows[id] = Gone /\ Obsolete(id)
  \/ rows[id].url = "ours" /\ atFirst[id] = NoRow
  \/ /\ rows[id].url = "ours" /\ atFirst[id].url = "ours" /\ rows[id].owner = atFirst[id].owner
     /\ ~crossed /\ rows[id].owner = "identity" => atFirst[id].types \subseteq rows[id].types

\* The server sends an event, and all it knows of a channel.
Sends(owner, e) ==
  \E id \in RowIds : rows[id].url = "ours" /\ rows[id].owner = owner /\ e \in rows[id].types
Served(channel) == \A e \in Events(channel) \cap known : Sends(OwnerOf(channel), e)

\* What a gateway asks for is its channel's, but for reactions the server does not know.
Wishing(g) ==
  /\ stage[g] = "new" => visiting[g] = 1
  /\ "reactions" \in again[g] => wish[g] = Events(Channel(g))
  /\ "reactions" \notin again[g] =>
       /\ Channel(g) = "whatsapp" /\ Reactions \notin known
       /\ wish[g] = Events("whatsapp") \ {Reactions}

\* The row it is about to write is there and its channel's, and takes nothing away
\* but from a mailbox; what it will delete is obsolete.
Viewing(g) ==
  /\ stage[g] = "write" =>
       /\ view[g].row # 0 => /\ rows[view[g].row].url = "ours"
                             /\ rows[view[g].row].owner = OwnerOf(Channel(g))
       /\ view[g].row # 0 /\ ~crossed =>
            /\ Channel(g) # "mailbox" => view[g].read \subseteq rows[view[g].row].types
            /\ view[g].read \cap Events("mailbox") \subseteq rows[view[g].row].types
       /\ Channel(g) = "mailbox" => view[g].types = wish[g]
       /\ Channel(g) \in {"a2a", "whatsapp", "calls"} => view[g].types = view[g].read \cup wish[g]
       /\ Channel(g) = "slack" => view[g].read \subseteq view[g].types
       /\ Channel(g) = "slack" /\ ~crossed =>
            \A e \in Events("slack") \cap known : e \in view[g].types \/ Sends("identity", e)
  /\ \A id \in view[g].stale : Obsolete(id) /\ rows[id] \in {Gone, atFirst[id]}

\* The channels behind it are served.
Serving(g) ==
  /\ ~crossed => \A i \in 1 .. visiting[g] - 1 : Served(Channels[i])
  /\ ~crossed /\ stage[g] \in {"prune", "wire", "done"} => Served(Channel(g))
  /\ stage[g] \in {"wire", "done"} => visiting[g] = 5
  /\ stage[g] = "done" => wired

RowsInv ==
  /\ RowShapes /\ Versions /\ StarterShapes /\ \A id \in RowIds : Remains(id)
  /\ \A g \in Starters : Wishing(g) /\ Viewing(g) /\ Serving(g)

\* The channels and their events, one by one.
LEMMA ChannelsAre ==
  /\ Len(Channels) = 5
  /\ Channels[1] = "mailbox" /\ Channels[2] = "a2a" /\ Channels[3] = "whatsapp"
  /\ Channels[4] = "calls" /\ Channels[5] = "slack"
  BY DEF Channels

\* Every channel asks for two events of its own.
LEMMA EventsAre ==
  /\ \A c \in {"mailbox", "a2a", "whatsapp", "calls", "slack"} : Events(c) \subseteq Asked
  /\ \A e \in Events("whatsapp") : e = Reactions \/ e = <<"whatsapp", 1>>
  /\ Reactions \in Events("whatsapp") /\ <<"whatsapp", 1>> \in Events("whatsapp")
  /\ Reactions # <<"whatsapp", 1>>
  BY DEF Events, Asked, Reactions

\* A row of this URL stays one, its owner's, and keeps what it is needed for.
Grows ==
  \A id \in RowIds :
    /\ rows[id].url = "ours" =>
         /\ rows'[id].url = "ours" /\ rows'[id].owner = rows[id].owner
         /\ ~crossed' /\ rows[id].owner = "identity" => rows[id].types \subseteq rows'[id].types
         /\ ~crossed' => rows[id].types \cap Events("mailbox") \subseteq rows'[id].types
    /\ rows[id] = Gone => rows'[id] = Gone
    /\ Obsolete(id) => rows'[id] \in {Gone, rows[id]}

\* The step is one of g's.
Steps(g) ==
  /\ UNCHANGED <<known, atFirst>> /\ (crossed => crossed') /\ (wired => wired') /\ Grows
  /\ \A h \in Starters \ {g} :
       /\ stage'[h] = stage[h] /\ visiting'[h] = visiting[h] /\ wish'[h] = wish[h]
       /\ again'[h] = again[h] /\ view'[h] = view[h]

\* What the server sends it goes on sending.
LEMMA ServiceIsKept ==
  ASSUME Grows, UNCHANGED known, ~crossed'
  PROVE  /\ \A e : Sends("identity", e) => Sends("identity", e)'
         /\ \A c \in {"mailbox", "a2a", "whatsapp", "calls", "slack"} : Served(c) => Served(c)'
<1>1. \A e : Sends("identity", e) => Sends("identity", e)'
  BY DEF Grows, Sends
<1>2. \A e \in Events("mailbox") : Sends("mailbox", e) => Sends("mailbox", e)'
  BY DEF Grows, Sends
<1> QED
  BY <1>1, <1>2 DEF Served, OwnerOf

\* A step of one gateway leaves what is said of another one true.
LEMMA OthersAreKept ==
  ASSUME RowsInv, NEW g \in Starters, Steps(g), NEW h \in Starters \ {g}
  PROVE  (Wishing(h) /\ Viewing(h) /\ Serving(h))'
<1>1. /\ Wishing(h) /\ Viewing(h) /\ Serving(h) /\ visiting[h] \in 1 .. 5
      /\ view[h].row \in 0 .. MaxRows /\ view[h].stale \subseteq RowIds
      /\ RowShapes /\ Versions
  BY DEF RowsInv, StarterShapes, AView
<1>2. /\ stage'[h] = stage[h] /\ visiting'[h] = visiting[h] /\ wish'[h] = wish[h]
      /\ again'[h] = again[h] /\ view'[h] = view[h] /\ Channel(h)' = Channel(h)
      /\ UNCHANGED <<known, atFirst>> /\ (crossed => crossed') /\ (wired => wired') /\ Grows
  BY DEF Steps, Channel
<1>3. \A i \in 1 .. 5 : Channels[i] \in {"mailbox", "a2a", "whatsapp", "calls", "slack"}
  BY ChannelsAre
<1>4. Wishing(h)'
  BY <1>1, <1>2 DEF Wishing
<1>5. Viewing(h)'
  <2>1. ASSUME stage'[h] = "write", view'[h].row # 0
        PROVE  rows'[view'[h].row].url = "ours" /\ rows'[view'[h].row].owner = OwnerOf(Channel(h)')
    <3>1. view[h].row \in RowIds
      BY <1>1, <1>2, <2>1, SubscriptionAssumption DEF RowIds
    <3> QED
      BY <1>1, <1>2, <2>1, <3>1 DEF Viewing, Grows
  <2>2. \A id \in view'[h].stale : Obsolete(id)' /\ rows'[id] \in {Gone, atFirst'[id]}
    BY <1>1, <1>2 DEF Viewing, Grows, Obsolete
  <2>3. ASSUME stage'[h] = "write", Channel(h)' = "slack", ~crossed'
        PROVE  \A e \in Events("slack") \cap known' : e \in view'[h].types \/ Sends("identity", e)'
    BY <1>1, <1>2, <2>3, ServiceIsKept DEF Viewing
  <2>4. ASSUME stage'[h] = "write", view'[h].row # 0, ~crossed'
        PROVE  /\ Channel(h)' # "mailbox" => view'[h].read \subseteq rows'[view'[h].row].types
               /\ view'[h].read \cap Events("mailbox") \subseteq rows'[view'[h].row].types
    <3>1. view[h].row \in RowIds
      BY <1>1, <1>2, <2>4, SubscriptionAssumption DEF RowIds
    <3>2. /\ rows[view[h].row].types \cap Events("mailbox") \subseteq rows'[view[h].row].types
          /\ Channel(h) # "mailbox" => rows[view[h].row].types \subseteq rows'[view[h].row].types
      BY <1>1, <1>2, <2>4, <3>1 DEF Viewing, Grows, OwnerOf
    <3> QED
      BY <1>1, <1>2, <2>4, <3>2 DEF Viewing
  <2> QED
    BY <1>1, <1>2, <2>1, <2>2, <2>3, <2>4 DEF Viewing
<1>6. Serving(h)'
  <2>1. CASE crossed'
    BY <1>1, <1>2, <2>1 DEF Serving
  <2>2. CASE ~crossed'
    <3>1. \A i \in 1 .. 5 : Served(Channels[i]) => Served(Channels[i])'
      BY <1>2, <1>3, <2>2, ServiceIsKept
    <3> QED
      BY <1>1, <1>2, <2>2, <3>1 DEF Serving, Channel
  <2> QED
    BY <2>1, <2>2, <1>1 DEF RowShapes
<1> QED
  BY <1>4, <1>5, <1>6

\* The parts of one step together.
LEMMA StepKeeps ==
  ASSUME RowsInv, NEW g \in Starters, Steps(g), RowShapes', StarterShapes',
         \A id \in RowIds : Remains(id)', Wishing(g)', Viewing(g)', Serving(g)'
  PROVE  RowsInv'
<1>1. Versions'
  BY DEF RowsInv, Versions, Steps
<1> QED
  BY <1>1, OthersAreKept DEF RowsInv

\* The next channel is asked for everything; the one behind is served.
LEMMA AdvanceKeeps ==
  ASSUME RowsInv, NEW g \in Starters, Steps(g), Advances(g), stage[g] # "new", RowShapes',
         \A id \in RowIds : Remains(id)', view' \in [Starters -> AView],
         view'[g].stale \subseteq view[g].stale,
         NEW c, c = Channel(g), ~crossed' => Served(c)'
  PROVE  RowsInv'
<1>1. /\ RowShapes /\ StarterShapes /\ Versions /\ Wishing(g) /\ Viewing(g) /\ Serving(g)
      /\ visiting[g] \in 1 .. 5 /\ view[g].stale \subseteq RowIds
      /\ UNCHANGED <<known, atFirst>> /\ (crossed => crossed') /\ (wired => wired') /\ Grows
      /\ crossed \in BOOLEAN /\ crossed' \in BOOLEAN
  BY DEF RowsInv, StarterShapes, AView, Steps, RowShapes
<1>2. ASSUME ~crossed'
      PROVE  \A i \in 1 .. 5 : Served(Channels[i]) => Served(Channels[i])'
  BY <1>1, <1>2, ServiceIsKept, ChannelsAre
<1>3. \A id \in view'[g].stale : Obsolete(id)' /\ rows'[id] \in {Gone, atFirst'[id]}
  BY <1>1 DEF Viewing, Grows, Obsolete
<1>4. CASE visiting[g] = 5
  <2>1. /\ stage' = [stage EXCEPT ![g] = "wire"] /\ UNCHANGED <<visiting, wish, again>>
    BY <1>4, ChannelsAre DEF Advances, At
  <2>2. StarterShapes'
    BY <1>1, <2>1 DEF StarterShapes, ReconcileStage, AView
  <2>3. stage'[g] = "wire" /\ Channel(g)' = Channel(g)
    BY <1>1, <2>1 DEF StarterShapes, Channel
  <2>4. Wishing(g)' /\ Viewing(g)'
    BY <1>1, <1>3, <2>1, <2>3 DEF Wishing, Viewing
  <2>5. Serving(g)'
    BY <1>1, <1>2, <1>4, <2>1, <2>3 DEF Serving, Channel
  <2> QED
    BY <2>2, <2>4, <2>5, StepKeeps
<1>5. CASE visiting[g] # 5
  <2>1. /\ stage' = [stage EXCEPT ![g] = "list"]
        /\ visiting' = [visiting EXCEPT ![g] = @ + 1]
        /\ wish' = [wish EXCEPT ![g] = Events(Channels[visiting[g] + 1])]
        /\ again' = [again EXCEPT ![g] = {"conflict", "reactions"}]
    BY <1>5, ChannelsAre DEF Advances, At
  <2>2. StarterShapes'
    <3>1. visiting[g] + 1 \in 1 .. 5 /\ Events(Channels[visiting[g] + 1]) \subseteq Asked
      BY <1>1, <1>5, ChannelsAre, EventsAre
    <3> QED
      BY <1>1, <2>1, <3>1 DEF StarterShapes, ReconcileStage, AView
  <2>3. /\ stage'[g] = "list" /\ visiting'[g] = visiting[g] + 1 /\ "reactions" \in again'[g]
        /\ wish'[g] = Events(Channel(g)')
    BY <1>1, <2>1 DEF StarterShapes, Channel
  <2>4. Wishing(g)' /\ Viewing(g)'
    BY <1>3, <2>3 DEF Wishing, Viewing
  <2>5. ASSUME ~crossed', NEW i \in 1 .. visiting[g]
        PROVE  Served(Channels[i])'
    <3>1. CASE i = visiting[g]
      BY <2>5, <3>1 DEF Channel
    <3>2. CASE i # visiting[g]
      BY <1>1, <1>2, <2>5, <3>2 DEF Serving
    <3> QED
      BY <3>1, <3>2
  <2>6. Serving(g)'
    BY <1>1, <2>3, <2>5 DEF Serving
  <2> QED
    BY <2>2, <2>4, <2>6, StepKeeps
<1> QED
  BY <1>4, <1>5

\* Rows that stay as they are.
LEMMA RowsRemain ==
  ASSUME RowsInv, UNCHANGED <<rows, atFirst, known, wired, crossed>>
  PROVE  RowShapes' /\ Grows /\ \A id \in RowIds : Remains(id)'
<1>1. RowShapes' /\ \A id \in RowIds : Remains(id)'
  BY DEF RowsInv, RowShapes, Remains, Obsolete, Existing, RowIds
<1>2. Grows
  <2>1. \A id \in RowIds : Obsolete(id) => rows[id] \in {Gone, atFirst[id]}
    BY DEF RowsInv, Remains, Obsolete, NoRow
  <2> QED
    BY <2>1 DEF Grows
<1> QED
  BY <1>1, <1>2

\* The first channel's turn comes.
LEMMA BeginsStep ==
  ASSUME RowsInv, NEW g \in Starters, BeginsReconcile(g)
  PROVE  RowsInv'
<1>1. /\ RowShapes' /\ Grows /\ \A id \in RowIds : Remains(id)'
  BY RowsRemain DEF BeginsReconcile, Server
<1>2. PICK s \in {"skipped", "list", "failed"} : stage' = [stage EXCEPT ![g] = s]
  BY DEF BeginsReconcile, At
<1>3. /\ StarterShapes /\ Wishing(g) /\ Viewing(g) /\ Serving(g)
      /\ Channel(g)' = Channel(g) /\ visiting[g] = 1
  BY DEF RowsInv, BeginsReconcile, Channel, Wishing
<1>4. StarterShapes'
  BY <1>2, <1>3 DEF StarterShapes, AView, ReconcileStage, BeginsReconcile, Server
<1>5. Steps(g)
  BY <1>1, <1>2, <1>3 DEF Steps, BeginsReconcile, Server, StarterShapes
<1>6. Wishing(g)' /\ Viewing(g)' /\ Serving(g)'
  <2>1. stage'[g] = s
    BY <1>2, <1>3 DEF StarterShapes
  <2>2. \A i \in 1 .. visiting[g] - 1 : FALSE
    BY <1>3
  <2>3. \A id \in RowIds : Obsolete(id)' <=> Obsolete(id)
    BY DEF BeginsReconcile, Server, Obsolete
  <2> QED
    BY <1>3, <2>1, <2>2, <2>3 DEF Wishing, Viewing, Serving, BeginsReconcile, Server, Obsolete
<1> QED
  BY <1>1, <1>4, <1>5, <1>6, StepKeeps

\* A step that only moves g to another stage, or has it list once more.
LEMMA StageKeeps ==
  ASSUME RowsInv, NEW g \in Starters, NEW s \in {"list", "failed"}, stage[g] # "new",
         At(g, s), UNCHANGED <<Server, visiting, wish, view>>,
         again' = again \/ again' = [again EXCEPT ![g] = @ \ {"conflict"}]
  PROVE  RowsInv'
<1>1. /\ RowShapes' /\ Grows /\ \A id \in RowIds : Remains(id)'
  BY RowsRemain DEF Server
<1>2. /\ StarterShapes /\ Wishing(g) /\ Viewing(g) /\ Serving(g) /\ Channel(g)' = Channel(g)
      /\ stage' = [stage EXCEPT ![g] = s] /\ UNCHANGED <<rows, atFirst, known, wired, crossed>>
  BY DEF RowsInv, Channel, At, Server
<1>3. StarterShapes' /\ Steps(g)
  BY <1>1, <1>2 DEF StarterShapes, AView, ReconcileStage, Steps
<1>4. stage'[g] = s /\ ("reactions" \in again'[g] <=> "reactions" \in again[g])
  BY <1>2 DEF StarterShapes
<1>5. \A id \in RowIds : Obsolete(id)' <=> Obsolete(id)
  BY <1>2 DEF Obsolete
<1>6. Wishing(g)' /\ Viewing(g)' /\ Serving(g)'
  <2>1. \A c : Served(c)' <=> Served(c)
    BY <1>2 DEF Served, Sends
  <2> QED
    BY <1>2, <1>4, <1>5, <2>1 DEF Wishing, Viewing, Serving, Obsolete
<1> QED
  BY <1>1, <1>3, <1>6, StepKeeps

\* The row exists by now: the list is read once more.
LEMMA ConflictsStep ==
  ASSUME RowsInv, NEW g \in Starters, Conflicts(g)
  PROVE  RowsInv'
<1>1. stage[g] # "new" /\ UNCHANGED <<Server, visiting, wish, view>>
  BY DEF Conflicts
<1>2. /\ At(g, "list") \/ At(g, "failed")
      /\ again' = again \/ again' = [again EXCEPT ![g] = @ \ {"conflict"}]
  BY DEF Conflicts
<1> QED
  BY <1>1, <1>2, StageKeeps

\* A call that fails ends the start.
LEMMA ErrsStep ==
  ASSUME RowsInv, NEW g \in Starters, CallErrs(g)
  PROVE  RowsInv'
  BY StageKeeps DEF CallErrs

\* The calls reach a gateway that is through with the channels.
LEMMA WiresStep ==
  ASSUME RowsInv, NEW g \in Starters, WiresCalls(g)
  PROVE  RowsInv'
<1>1. /\ StarterShapes /\ Wishing(g) /\ Viewing(g) /\ Serving(g) /\ Channel(g)' = Channel(g)
      /\ stage' = [stage EXCEPT ![g] = "done"] /\ stage[g] = "wire" /\ wired' = TRUE
      /\ UNCHANGED <<rows, atFirst, known, visiting, wish, again, view, crossed>>
      /\ RowShapes /\ \A id \in RowIds : Remains(id)
  BY DEF RowsInv, Channel, At, WiresCalls
<1>2. RowShapes' /\ \A id \in RowIds : Remains(id)'
  BY <1>1 DEF RowShapes, Remains, Obsolete, Existing
<1>3. Grows
  BY <1>1 DEF Grows, Obsolete, Remains, NoRow
<1>4. StarterShapes' /\ Steps(g)
  BY <1>1, <1>3 DEF StarterShapes, AView, ReconcileStage, Steps
<1>5. stage'[g] = "done"
  BY <1>1 DEF StarterShapes
<1>6. Wishing(g)' /\ Viewing(g)' /\ Serving(g)'
  <2>1. \A c : Served(c)' <=> Served(c)
    BY <1>1 DEF Served, Sends
  <2>2. \A id \in RowIds : Obsolete(id)' <=> Obsolete(id)
    BY <1>1 DEF Obsolete
  <2> QED
    BY <1>1, <1>5, <2>1, <2>2 DEF Wishing, Viewing, Serving, Obsolete
<1> QED
  BY <1>2, <1>4, <1>6, StepKeeps

\* Reading the list of a channel but Slack's.
LEMMA ListsStep ==
  ASSUME RowsInv, NEW g \in Starters, ListsRows(g)
  PROVE  RowsInv'
<1>1. /\ RowShapes' /\ Grows /\ \A id \in RowIds : Remains(id)'
  BY RowsRemain DEF ListsRows, Server
<1>2. /\ StarterShapes /\ Wishing(g) /\ Viewing(g) /\ Serving(g) /\ Channel(g)' = Channel(g)
      /\ stage' = [stage EXCEPT ![g] = "write"] /\ stage[g] = "list" /\ Channel(g) # "slack"
      /\ UNCHANGED <<rows, atFirst, known, wired, visiting, wish, again, crossed>>
      /\ wish[g] \subseteq Asked /\ RowShapes /\ \A id \in RowIds : Remains(id)
      /\ Channel(g) \in {"mailbox", "a2a", "whatsapp", "calls", "slack"}
  BY ChannelsAre DEF RowsInv, Channel, At, ListsRows, StarterShapes, Server
<1>3. PICK row, older :
        /\ row = 0 \/ row \in Rows(OwnerOf(Channel(g)), "ours", Channel(g))
        /\ older \subseteq RowIds
        /\ older # {} => OwnerOf(Channel(g)) = "mailbox"
        /\ older \subseteq {id \in Rows("mailbox", "query", Channel(g)) :
                              Families(rows[id].types) = {Channel(g)}}
        /\ view' = [view EXCEPT ![g] =
                      [row |-> row, read |-> ReadTypes(row),
                       types |-> IF OwnerOf(Channel(g)) = "identity"
                                 THEN ReadTypes(row) \cup wish[g] ELSE wish[g],
                       stale |-> older]]
  BY DEF ListsRows, Rows, OwnerOf
<1>4. ReadTypes(row) \subseteq known /\ row \in 0 .. MaxRows
  BY <1>2, <1>3, SubscriptionAssumption
     DEF Rows, RowShapes, RowIds, Existing, NoRow, Gone, ReadTypes
<1>5. StarterShapes' /\ Steps(g)
  BY <1>1, <1>2, <1>3, <1>4 DEF StarterShapes, AView, ReconcileStage, Steps
<1>6. /\ stage'[g] = "write" /\ view'[g].row = row /\ view'[g].read = ReadTypes(row)
      /\ view'[g].types = IF OwnerOf(Channel(g)) = "identity"
                         THEN ReadTypes(row) \cup wish[g] ELSE wish[g]
      /\ view'[g].stale = older
  BY <1>2, <1>3 DEF StarterShapes
<1>7. Wishing(g)' /\ Serving(g)'
  <2>1. \A c : Served(c)' <=> Served(c)
    BY <1>2 DEF Served, Sends
  <2> QED
    BY <1>2, <1>6, <2>1 DEF Wishing, Serving
<1>8. Viewing(g)'
  <2>1. \A id \in older : Obsolete(id)' /\ rows'[id] \in {Gone, atFirst'[id]}
    <3>1. \A id \in older : /\ rows[id].url = "query" /\ rows[id].owner = "mailbox"
                           /\ Families(rows[id].types) = {"mailbox"}
      BY <1>2, <1>3 DEF Rows, OwnerOf
    <3>2. \A id \in older : rows[id] = atFirst[id]
      BY <1>2, <1>3, <3>1 DEF Remains, Gone
    <3> QED
      BY <1>2, <3>1, <3>2 DEF Obsolete
  <2>2. row # 0 => rows[row].url = "ours" /\ rows[row].owner = OwnerOf(Channel(g))
    BY <1>3 DEF Rows
  <2> QED
    BY <1>2, <1>6, <2>1, <2>2 DEF Viewing, OwnerOf, ReadTypes
<1> QED
  BY <1>1, <1>5, <1>7, <1>8, StepKeeps

\* What follows a row that is as it should be.
LEMMA SettleKeeps ==
  ASSUME RowsInv, NEW g \in Starters, Steps(g), RowSettled(g), stage[g] = "write", RowShapes',
         \A id \in RowIds : Remains(id)', view' = view,
         NEW c, c = Channel(g), ~crossed' => Served(c)'
  PROVE  RowsInv'
<1>1. /\ StarterShapes /\ Wishing(g) /\ Viewing(g) /\ Serving(g) /\ visiting[g] \in 1 .. 5
      /\ UNCHANGED <<known, atFirst>> /\ (crossed => crossed') /\ (wired => wired') /\ Grows
      /\ crossed \in BOOLEAN /\ crossed' \in BOOLEAN /\ view[g].stale \subseteq RowIds
  BY DEF RowsInv, Steps, RowShapes, StarterShapes, AView
<1>2. CASE c = "slack"
  <2>1. Advances(g)
    BY <1>2 DEF RowSettled
  <2>2. view' \in [Starters -> AView]
    BY <1>1 DEF StarterShapes
  <2> QED
    BY <2>1, <2>2, AdvanceKeeps
<1>3. CASE c # "slack"
  <2>1. stage' = [stage EXCEPT ![g] = "prune"] /\ UNCHANGED <<visiting, wish, again>>
    BY <1>3 DEF RowSettled, At
  <2>2. StarterShapes' /\ stage'[g] = "prune" /\ Channel(g)' = c
    BY <1>1, <2>1 DEF StarterShapes, AView, ReconcileStage, Channel
  <2>3. Wishing(g)'
    BY <1>1, <2>1, <2>2 DEF Wishing
  <2>4. Viewing(g)'
    <3>1. \A id \in view'[g].stale : Obsolete(id)' /\ rows'[id] \in {Gone, atFirst'[id]}
      BY <1>1 DEF Viewing, Grows, Obsolete
    <3> QED
      BY <2>2, <3>1 DEF Viewing
  <2>5. Serving(g)'
    <3>1. ASSUME ~crossed'
          PROVE  \A j \in 1 .. 5 : Served(Channels[j]) => Served(Channels[j])'
      BY <1>1, <3>1, ServiceIsKept, ChannelsAre
    <3> QED
      BY <1>1, <2>1, <2>2, <3>1 DEF Serving
  <2> QED
    BY <2>2, <2>3, <2>4, <2>5, StepKeeps
<1> QED
  BY <1>2, <1>3

\* Reading the list for Slack.
LEMMA ListsSlackStep ==
  ASSUME RowsInv, NEW g \in Starters, ListsSlack(g)
  PROVE  RowsInv'
<1>1. /\ RowShapes' /\ Grows /\ \A id \in RowIds : Remains(id)'
  BY RowsRemain DEF ListsSlack, Server
<1>2. /\ StarterShapes /\ Wishing(g) /\ Viewing(g) /\ Serving(g)
      /\ stage[g] = "list" /\ Channel(g) = "slack" /\ RowShapes
      /\ UNCHANGED <<rows, atFirst, known, wired, crossed>>
  BY DEF RowsInv, ListsSlack, Server
<1>3. PICK ours : ours = Rows("identity", "ours", "slack")
  OBVIOUS
<1>4. PICK missing : missing = Events("slack") \ UNION {rows[id].types : id \in ours}
  OBVIOUS
<1>5. PICK messages :
        messages = {id \in ours : rows[id].types \cap (Events("slack") \ {SlackStop}) # {}}
  OBVIOUS
<1>6. \A e \in Events("slack") : e \in missing \/ Sends("identity", e)
  BY <1>3, <1>4 DEF Rows, Sends
<1>7. \/ At(g, "failed") /\ UNCHANGED <<visiting, wish, again, view>>
      \/ missing = {} /\ Advances(g) /\ UNCHANGED view
      \/ /\ missing # {} /\ At(g, "write") /\ UNCHANGED <<visiting, wish, again>>
         /\ \E row \in {0} \cup ours :
              view' = [view EXCEPT ![g] = [row |-> row, read |-> ReadTypes(row),
                                           types |-> ReadTypes(row) \cup missing, stale |-> {}]]
  BY <1>3, <1>4, <1>5 DEF ListsSlack
<1>8. CASE At(g, "failed") /\ UNCHANGED <<visiting, wish, again, view>>
  BY <1>2, <1>8, StageKeeps DEF Server
<1>9. CASE missing = {} /\ Advances(g) /\ UNCHANGED view
  <2>1. Steps(g)
    BY <1>1, <1>2, <1>9 DEF Steps, Advances, At, StarterShapes
  <2>2. Served("slack")'
    BY <1>2, <1>6, <1>9 DEF Served, Sends, OwnerOf
  <2>3. view' \in [Starters -> AView]
    BY <1>2, <1>9 DEF StarterShapes, AView
  <2> QED
    BY <1>1, <1>2, <1>9, <2>1, <2>2, <2>3, AdvanceKeeps
<1>10. CASE /\ missing # {} /\ At(g, "write") /\ UNCHANGED <<visiting, wish, again>>
            /\ \E row \in {0} \cup ours :
                 view' = [view EXCEPT ![g] = [row |-> row, read |-> ReadTypes(row),
                                              types |-> ReadTypes(row) \cup missing, stale |-> {}]]
  <2>1. PICK row \in {0} \cup ours :
          view' = [view EXCEPT ![g] = [row |-> row, read |-> ReadTypes(row),
                                       types |-> ReadTypes(row) \cup missing, stale |-> {}]]
    BY <1>10
  <2>2. ReadTypes(row) \subseteq known /\ row \in 0 .. MaxRows /\ missing \subseteq Asked
    BY <1>2, <1>3, <1>4, <2>1, EventsAre, SubscriptionAssumption
    DEF Rows, RowShapes, RowIds, Existing, NoRow, Gone, ReadTypes
  <2>3. StarterShapes' /\ Steps(g) /\ Channel(g)' = Channel(g)
    BY <1>1, <1>2, <1>10, <2>1, <2>2
    DEF StarterShapes, AView, ReconcileStage, Steps, At, Channel
  <2>4. /\ stage'[g] = "write" /\ view'[g].row = row /\ view'[g].read = ReadTypes(row)
        /\ view'[g].types = ReadTypes(row) \cup missing /\ view'[g].stale = {}
    BY <1>2, <1>10, <2>1 DEF StarterShapes, At
  <2>5. Wishing(g)' /\ Serving(g)'
    <3>1. \A c : Served(c)' <=> Served(c)
      BY <1>2 DEF Served, Sends
    <3> QED
      BY <1>2, <1>10, <2>3, <2>4, <3>1 DEF Wishing, Serving
  <2>6. Viewing(g)'
    <3>1. row # 0 => rows[row].url = "ours" /\ rows[row].owner = "identity"
      BY <1>3, <2>1 DEF Rows
    <3>2. \A e \in Events("slack") \cap known' : e \in view'[g].types \/ Sends("identity", e)'
      BY <1>2, <1>6, <2>4 DEF Sends
    <3> QED
      BY <1>2, <2>3, <2>4, <3>1, <3>2 DEF Viewing, OwnerOf, ReadTypes
  <2> QED
    BY <1>1, <2>3, <2>5, <2>6, StepKeeps
<1> QED
  BY <1>7, <1>8, <1>9, <1>10

\* An older server: nothing of the channel is known to it.
LEMMA NotUnderstoodStep ==
  ASSUME RowsInv, NEW g \in Starters, NotUnderstood(g)
  PROVE  RowsInv'
<1>1. /\ RowShapes' /\ Grows /\ \A id \in RowIds : Remains(id)'
  BY RowsRemain DEF NotUnderstood, Server
<1>2. /\ StarterShapes /\ Wishing(g) /\ Viewing(g) /\ Serving(g) /\ Versions
      /\ stage[g] = "write" /\ view[g].read \subseteq known /\ ~(view[g].types \subseteq known)
      /\ UNCHANGED <<rows, atFirst, known, wired, crossed, view>> /\ view \in [Starters -> AView]
  BY DEF RowsInv, NotUnderstood, Server, Understood, StarterShapes, AView
<1>3. ASSUME Channel(g) \in {"whatsapp", "a2a"}, Advances(g),
             Channel(g) = "whatsapp" => ~("reactions" \in again[g] /\ Reactions \notin known)
      PROVE  RowsInv'
  <2>1. Steps(g)
    BY <1>1, <1>2, <1>3 DEF Steps, Advances, At, StarterShapes
  <2>2. ~(wish[g] \subseteq known)
    BY <1>2, <1>3 DEF Viewing
  <2>3. Events(Channel(g)) \cap known = {}
    <3>1. CASE Channel(g) = "a2a"
      BY <1>2, <2>2, <3>1 DEF Wishing, Versions
    <3>2. CASE Channel(g) = "whatsapp"
      BY <1>2, <1>3, <2>2, <3>2, EventsAre DEF Wishing, Versions
    <3> QED
      BY <1>3, <3>1, <3>2
  <2>4. PICK c : c = Channel(g)
    OBVIOUS
  <2>5. Served(c)'
    BY <1>2, <2>3, <2>4 DEF Served
  <2> QED
    BY <1>1, <1>2, <1>3, <2>1, <2>4, <2>5, AdvanceKeeps
<1>4. ASSUME Channel(g) = "whatsapp", Reactions \notin known, At(g, "list"), UNCHANGED visiting,
             wish' = [wish EXCEPT ![g] = Events("whatsapp") \ {Reactions}],
             again' = [again EXCEPT ![g] = {"conflict"}]
      PROVE  RowsInv'
  <2>1. StarterShapes' /\ Steps(g) /\ Channel(g)' = Channel(g)
    BY <1>1, <1>2, <1>4, EventsAre DEF StarterShapes, AView, ReconcileStage, Steps, At, Channel
  <2>2. /\ stage'[g] = "list" /\ "reactions" \notin again'[g]
        /\ wish'[g] = Events("whatsapp") \ {Reactions}
    BY <1>2, <1>4 DEF StarterShapes, At
  <2>3. Wishing(g)' /\ Viewing(g)' /\ Serving(g)'
    <3>1. \A c : Served(c)' <=> Served(c)
      BY <1>2 DEF Served, Sends
    <3>2. \A id \in RowIds : Obsolete(id)' <=> Obsolete(id)
      BY <1>2 DEF Obsolete
    <3> QED
      BY <1>2, <1>4, <2>1, <2>2, <3>1, <3>2 DEF Wishing, Viewing, Serving, Obsolete
  <2> QED
    BY <1>1, <2>1, <2>3, StepKeeps
<1>5. CASE At(g, "failed") /\ UNCHANGED <<visiting, wish, again>>
  BY <1>2, <1>5, StageKeeps DEF Server
<1> QED
  BY <1>3, <1>4, <1>5 DEF NotUnderstood

\* Creating a subscription.
LEMMA CreatesStep ==
  ASSUME RowsInv, NEW g \in Starters, CreatesRow(g)
  PROVE  RowsInv'
<1>1. /\ StarterShapes /\ Wishing(g) /\ Viewing(g) /\ RowShapes /\ \A id \in RowIds : Remains(id)
      /\ stage[g] = "write" /\ view[g].types \subseteq known /\ RowSettled(g) /\ view[g].row = 0
      /\ UNCHANGED <<atFirst, known, wired, view, crossed>> /\ crossed \in BOOLEAN
      /\ Channel(g) \in {"mailbox", "a2a", "whatsapp", "calls", "slack"}
  BY ChannelsAre DEF RowsInv, CreatesRow, Understood, RowShapes, StarterShapes, Channel
<1>2. PICK c : c = Channel(g)
  OBVIOUS
<1>3. PICK new \in RowIds :
        /\ rows[new] = NoRow
        /\ rows' = [rows EXCEPT ![new] = [owner |-> OwnerOf(c), url |-> "ours",
                                          types |-> view[g].types, active |-> TRUE]]
  BY <1>2 DEF CreatesRow
<1>4. RowShapes'
  BY <1>1, <1>3 DEF RowShapes, Existing, OwnerOf
<1>5. atFirst[new] = NoRow
  BY <1>1, <1>3 DEF Remains, NoRow, Gone
<1>6. \A id \in RowIds : Remains(id)'
  BY <1>1, <1>3, <1>5 DEF Remains, RowShapes, Obsolete
<1>7. Grows
  <2>1. \A id \in RowIds : id # new => rows'[id] = rows[id]
    BY <1>1, <1>3 DEF RowShapes
  <2>2. rows[new].url # "ours" /\ rows[new] # Gone /\ ~Obsolete(new)
    BY <1>3, <1>5 DEF Obsolete, NoRow, Gone
  <2> QED
    BY <2>1, <2>2 DEF Grows
<1>8. Steps(g)
  BY <1>1, <1>7 DEF Steps, RowSettled, Advances, At, StarterShapes
<1>9. ASSUME ~crossed'
      PROVE  Served(c)'
  <2>1. \A e \in view[g].types : Sends(OwnerOf(c), e)'
    BY <1>1, <1>3 DEF Sends, RowShapes
  <2>2. CASE c = "slack"
    <3>1. \A e \in Events("slack") \cap known : e \in view[g].types \/ Sends("identity", e)
      BY <1>1, <1>2, <1>9, <2>2 DEF Viewing
    <3> QED
      BY <1>1, <1>7, <1>9, <2>1, <2>2, <3>1, ServiceIsKept DEF Served, OwnerOf
  <2>3. CASE c # "slack"
    <3>1. wish[g] \subseteq view[g].types
      BY <1>1, <1>2, <2>3 DEF Viewing
    <3>2. Events(c) \cap known \subseteq wish[g]
      BY <1>1, <1>2 DEF Wishing
    <3> QED
      BY <1>1, <2>1, <3>1, <3>2 DEF Served
  <2> QED
    BY <2>2, <2>3
<1> QED
  BY <1>1, <1>2, <1>4, <1>6, <1>8, <1>9, SettleKeeps

\* Overwriting the events of one, or leaving it alone.
LEMMA UpdatesStep ==
  ASSUME RowsInv, NEW g \in Starters, UpdatesRow(g)
  PROVE  RowsInv'
<1>1. /\ StarterShapes /\ Wishing(g) /\ Viewing(g) /\ RowShapes /\ \A id \in RowIds : Remains(id)
      /\ stage[g] = "write" /\ view[g].types \subseteq known /\ RowSettled(g) /\ view[g].row # 0
      /\ UNCHANGED <<atFirst, known, wired, view>> /\ crossed \in BOOLEAN
      /\ Channel(g) \in {"mailbox", "a2a", "whatsapp", "calls", "slack"}
  BY ChannelsAre DEF RowsInv, UpdatesRow, Understood, RowShapes, StarterShapes, Channel
<1>2. PICK c : c = Channel(g)
  OBVIOUS
<1>3. PICK r \in RowIds : r = view[g].row
  BY <1>1, SubscriptionAssumption DEF StarterShapes, AView, RowIds
<1>4. /\ rows[r].url = "ours" /\ rows[r].owner = OwnerOf(c) /\ rows[r] \in Existing
      /\ ~crossed /\ c # "mailbox" => view[g].read \subseteq rows[r].types
      /\ ~crossed => view[g].read \cap Events("mailbox") \subseteq rows[r].types
      /\ c = "mailbox" => view[g].types = Events("mailbox")
      /\ c # "mailbox" => view[g].read \subseteq view[g].types
  BY <1>1, <1>2, <1>3 DEF Viewing, Wishing, RowShapes, NoRow, Gone
<1>5. /\ \/ rows' = rows /\ view[g].types = view[g].read
         \/ rows' = [rows EXCEPT ![r].types = view[g].types]
      /\ crossed' = (crossed \/ (rows' # rows /\ rows[r].types # view[g].read))
  BY <1>3 DEF UpdatesRow
<1>6. crossed' \in BOOLEAN /\ (crossed => crossed')
  BY <1>1, <1>5
<1>7. /\ rows' \in [RowIds -> Existing \cup {NoRow, Gone}]
      /\ \A id \in RowIds : id # r => rows'[id] = rows[id]
      /\ rows'[r].url = "ours" /\ rows'[r].owner = OwnerOf(c)
      /\ rows'[r].types \in {rows[r].types, view[g].types}
  BY <1>1, <1>4, <1>5 DEF RowShapes, Existing
<1>8. RowShapes'
  BY <1>1, <1>6, <1>7 DEF RowShapes, Existing
<1>9. /\ ~crossed' /\ c # "mailbox" => rows[r].types \subseteq rows'[r].types
      /\ ~crossed' => rows[r].types \cap Events("mailbox") \subseteq rows'[r].types
  <2>1. CASE rows' = rows
    BY <2>1
  <2>2. CASE rows' # rows
    BY <1>1, <1>4, <1>5, <1>7, <2>2
  <2> QED
    BY <2>1, <2>2
<1>10. ~Obsolete(r) /\ rows[r] # Gone
  BY <1>1, <1>4 DEF Remains, Obsolete, Gone, NoRow
<1>11. Grows
  <2>1. \A id \in RowIds : Obsolete(id) /\ id # r => rows'[id] \in {Gone, rows[id]}
    BY <1>7
  <2> QED
    BY <1>4, <1>7, <1>9, <1>10, <2>1 DEF Grows, OwnerOf
<1>12. \A id \in RowIds : Remains(id)'
  <2>1. ASSUME NEW id \in RowIds, id # r
        PROVE  Remains(id)'
    BY <1>1, <1>6, <1>7, <2>1 DEF Remains, Obsolete
  <2>2. Remains(r)'
    <3>1. /\ atFirst[r] # NoRow => atFirst[r].url = "ours" /\ rows[r].owner = atFirst[r].owner
          /\ atFirst[r] # NoRow /\ ~crossed /\ rows[r].owner = "identity" =>
               atFirst[r].types \subseteq rows[r].types
      BY <1>1, <1>4, <1>10 DEF Remains
    <3>2. ~crossed' /\ rows[r].owner = "identity" => rows[r].types \subseteq rows'[r].types
      BY <1>4, <1>9 DEF OwnerOf
    <3> QED
      BY <1>1, <1>4, <1>6, <1>7, <3>1, <3>2 DEF Remains
  <2> QED
    BY <2>1, <2>2
<1>13. Steps(g)
  BY <1>1, <1>6, <1>11 DEF Steps, RowSettled, Advances, At, StarterShapes
<1>14. ASSUME ~crossed'
       PROVE  Served(c)'
  <2>1. \A e \in view[g].types : c = "mailbox" => e \in Events("mailbox")
    BY <1>4
  <2>2. view[g].types \subseteq rows'[r].types
    BY <1>4, <1>5, <1>6, <1>7, <1>14, <2>1 DEF Existing
  <2>3. \A e \in view[g].types : Sends(OwnerOf(c), e)'
    BY <1>7, <2>2 DEF Sends
  <2>4. CASE c = "slack"
    <3>1. \A e \in Events("slack") \cap known : e \in view[g].types \/ Sends("identity", e)
      BY <1>1, <1>2, <1>6, <1>14, <2>4 DEF Viewing
    <3> QED
      BY <1>1, <1>11, <1>14, <2>3, <2>4, <3>1, ServiceIsKept DEF Served, OwnerOf
  <2>5. CASE c # "slack"
    <3>1. wish[g] \subseteq view[g].types
      BY <1>1, <1>2, <2>5 DEF Viewing
    <3>2. Events(c) \cap known \subseteq wish[g]
      BY <1>1, <1>2 DEF Wishing
    <3> QED
      BY <1>1, <2>3, <3>1, <3>2 DEF Served
  <2> QED
    BY <2>4, <2>5
<1> QED
  BY <1>1, <1>2, <1>8, <1>12, <1>13, <1>14, SettleKeeps

\* Deleting an obsolete row, or one that is gone already.
LEMMA PrunesStep ==
  ASSUME RowsInv, NEW g \in Starters, Prunes(g)
  PROVE  RowsInv'
<1>1. /\ StarterShapes /\ Wishing(g) /\ Viewing(g) /\ Serving(g) /\ RowShapes
      /\ \A id \in RowIds : Remains(id)
      /\ stage[g] = "prune" /\ UNCHANGED <<atFirst, known, wired, crossed>> /\ crossed \in BOOLEAN
      /\ view[g].stale \subseteq RowIds /\ view \in [Starters -> AView]
  BY DEF RowsInv, Prunes, RowShapes, StarterShapes, AView
<1>2. CASE Advances(g) /\ UNCHANGED <<rows, view>>
  <2>1. /\ RowShapes' /\ Grows /\ \A id \in RowIds : Remains(id)'
    BY <1>1, <1>2, RowsRemain
  <2>2. Steps(g)
    BY <1>1, <1>2, <2>1 DEF Steps, Advances, At, StarterShapes
  <2>3. PICK c : c = Channel(g)
    OBVIOUS
  <2>4. ~crossed' => Served(c)'
    BY <1>1, <1>2, <2>3 DEF Serving, Served, Sends
  <2> QED
    BY <1>1, <1>2, <2>1, <2>2, <2>3, <2>4, AdvanceKeeps
<1>3. CASE At(g, "failed") /\ UNCHANGED <<rows, view, visiting, wish, again>>
  BY <1>1, <1>3, StageKeeps DEF Server
<1>4. ASSUME NEW old \in view[g].stale, rows' = [rows EXCEPT ![old] = Gone],
             view' = [view EXCEPT ![g].stale = @ \ {old}],
             UNCHANGED <<stage, visiting, wish, again>>
      PROVE  RowsInv'
  <2>1. old \in RowIds /\ Obsolete(old) /\ rows[old] \in {Gone, atFirst[old]}
    BY <1>1 DEF Viewing
  <2>2. /\ rows[old].url # "ours" /\ rows'[old] = Gone
        /\ \A id \in RowIds : id # old => rows'[id] = rows[id]
    BY <1>1, <1>4, <2>1 DEF RowShapes, Obsolete, Gone
  <2>3. RowShapes'
    BY <1>1, <1>4 DEF RowShapes, Existing
  <2>4. \A id \in RowIds : Remains(id)'
    BY <1>1, <2>1, <2>2 DEF Remains, Obsolete
  <2>5. Grows
    <3>1. \A id \in RowIds : Obsolete(id) => rows'[id] \in {Gone, rows[id]}
      BY <2>2
    <3> QED
      BY <2>1, <2>2, <3>1 DEF Grows
  <2>6. /\ view' \in [Starters -> AView] /\ view'[g].stale \subseteq view[g].stale
        /\ \A h \in Starters \ {g} : view'[h] = view[h]
    BY <1>1, <1>4 DEF AView
  <2>7. StarterShapes' /\ Steps(g) /\ Channel(g)' = Channel(g)
    BY <1>1, <1>4, <2>5, <2>6 DEF StarterShapes, AView, Steps, Channel
  <2>8. Wishing(g)'
    BY <1>1, <1>4, <2>7 DEF Wishing
  <2>9. Viewing(g)'
    <3>1. \A id \in view'[g].stale : Obsolete(id)' /\ rows'[id] \in {Gone, atFirst'[id]}
      BY <1>1, <2>2, <2>6 DEF Viewing, Obsolete
    <3> QED
      BY <1>1, <1>4, <3>1 DEF Viewing
  <2>10. Serving(g)'
    <3>1. ASSUME ~crossed'
          PROVE  \A j \in 1 .. 5 : Served(Channels[j]) => Served(Channels[j])'
      BY <1>1, <2>5, <3>1, ServiceIsKept, ChannelsAre
    <3>2. visiting[g] \in 1 .. 5
      BY <1>1 DEF StarterShapes
    <3> QED
      BY <1>1, <1>4, <3>1, <3>2 DEF Serving, Channel
  <2> QED
    BY <2>3, <2>4, <2>7, <2>8, <2>9, <2>10, StepKeeps
<1> QED
  BY <1>2, <1>3, <1>4 DEF Prunes

\* Nothing is served in the beginning, and nothing was to be.
LEMMA RowsBegin == SubscriptionInit => RowsInv
<1> SUFFICES ASSUME SubscriptionInit PROVE RowsInv
  OBVIOUS
<1>1. RowShapes /\ Versions
  BY DEF SubscriptionInit, RowShapes, Versions
<1>2. StarterShapes
  <2>1. Events(Channels[1]) \subseteq Asked
    BY ChannelsAre, EventsAre
  <2> QED
    BY <2>1, SubscriptionAssumption DEF SubscriptionInit, StarterShapes, AView, ReconcileStage
<1>3. \A id \in RowIds : Remains(id)
  BY DEF SubscriptionInit, Remains
<1>4. \A g \in Starters : Wishing(g) /\ Viewing(g) /\ Serving(g)
  BY DEF SubscriptionInit, Wishing, Viewing, Serving, Channel
<1> QED
  BY <1>1, <1>2, <1>3, <1>4 DEF RowsInv

\* The inductive invariant of the subscriptions.
THEOREM RowsHold == SubscriptionSpec => []RowsInv
<1>1. RowsInv /\ [SubscriptionNext]_subscriptionVars => RowsInv'
  <2> SUFFICES ASSUME RowsInv, [SubscriptionNext]_subscriptionVars PROVE RowsInv'
    OBVIOUS
  <2>1. CASE UNCHANGED subscriptionVars
    <3>1. RowShapes' /\ \A id \in RowIds : Remains(id)'
      BY <2>1, RowsRemain DEF subscriptionVars
    <3>2. Versions' /\ StarterShapes'
      BY <2>1 DEF subscriptionVars, RowsInv, Versions, StarterShapes, AView
    <3>3. \A g \in Starters : Wishing(g)' /\ Viewing(g)'
      BY <2>1 DEF subscriptionVars, RowsInv, Wishing, Viewing, Obsolete, Sends, Channel
    <3>4. \A g \in Starters : Serving(g)'
      BY <2>1 DEF subscriptionVars, RowsInv, Serving, Served, Sends, Channel
    <3> QED
      BY <3>1, <3>2, <3>3, <3>4 DEF RowsInv
  <2>2. ASSUME NEW g \in Starters,
               \/ BeginsReconcile(g) \/ ListsRows(g) \/ ListsSlack(g) \/ CreatesRow(g)
               \/ Conflicts(g)
               \/ UpdatesRow(g) \/ NotUnderstood(g) \/ Prunes(g) \/ WiresCalls(g) \/ CallErrs(g)
        PROVE  RowsInv'
    BY <2>2, BeginsStep, ListsStep, ListsSlackStep, CreatesStep, ConflictsStep, UpdatesStep,
       NotUnderstoodStep, PrunesStep, WiresStep, ErrsStep
  <2> QED
    BY <2>1, <2>2 DEF SubscriptionNext
<1> QED
  BY <1>1, RowsBegin, PTL DEF SubscriptionSpec

\* When all gateways that started have succeeded, every event is sent and nobody else's row or
\* event was taken away, unless one of them overwrote a row that another had changed.
THEOREM EventsAreDelivered == SubscriptionSpec => []AllDelivered
<1>1. RowsInv => AllDelivered
  <2> SUFFICES ASSUME RowsInv, ~crossed, NEW g \in Starters, stage[g] = "done"
               PROVE  /\ (UNION {Events(Channels[i]) : i \in 1 .. Len(Channels)}) \cap known
                           \subseteq UNION {rows[id].types :
                                             id \in {i \in RowIds : rows[i].url = "ours"}}
                      /\ wired
                      /\ \A id \in RowIds :
                           /\ atFirst[id].owner = "identity" =>
                                atFirst[id].types \subseteq rows[id].types
                           /\ atFirst[id].url = "other"
                                \/ Cardinality(Families(atFirst[id].types)) > 1
                              => rows[id].url = atFirst[id].url
    BY DEF AllDelivered
  <2>1. Serving(g) /\ RowShapes /\ \A id \in RowIds : Remains(id)
    BY DEF RowsInv
  <2>2. ASSUME NEW i \in 1 .. 5, NEW e \in Events(Channels[i]) \cap known
        PROVE  \E id \in RowIds : rows[id].url = "ours" /\ e \in rows[id].types
    <3>1. Served(Channels[i])
      BY <2>1 DEF Serving, Channel
    <3> QED
      BY <2>2, <3>1 DEF Served, Sends
  <2>3. ASSUME NEW id \in RowIds, atFirst[id].owner = "identity"
        PROVE  atFirst[id].types \subseteq rows[id].types
    BY <2>1, <2>3 DEF Remains, Obsolete, NoRow
  <2>4. ASSUME NEW id \in RowIds,
               atFirst[id].url = "other" \/ Cardinality(Families(atFirst[id].types)) > 1
        PROVE  rows[id].url = atFirst[id].url
    <3>1. Cardinality({"mailbox"}) = 1
      BY FS_Singleton
    <3>2. ~Obsolete(id)
      BY <2>4, <3>1 DEF Obsolete
    <3>3. atFirst[id] # NoRow
      <4>1. Families({}) = {}
        BY DEF Families
      <4>2. Cardinality({}) = 0
        BY FS_EmptySet
      <4> QED
        BY <2>4, <4>1, <4>2 DEF NoRow
    <3> QED
      BY <2>1, <3>2, <3>3 DEF Remains
  <2>5. (UNION {Events(Channels[i]) : i \in 1 .. Len(Channels)}) \cap known
          \subseteq UNION {rows[id].types : id \in {i \in RowIds : rows[i].url = "ours"}}
    BY <2>2, ChannelsAre
  <2> QED
    BY <2>1, <2>3, <2>4, <2>5 DEF Serving
<1> QED
  BY <1>1, RowsHold, PTL

=============================================================================
