-------------------------- MODULE HostedCallProofs --------------------------
(***************************************************************************)
(* The safety properties of HostedCall, proved for any gateways and any    *)
(* bounds.  The argument for a second SMS follows the correction: whatever *)
(* makes one possible (a run, the journal, its turn) is there only once    *)
(* the attempt of the initial turn is certain not to have left, and then   *)
(* the initial turn can make no attempt any more.  The argument against a  *)
(* replay follows the entry: from the checkpoint on it says "started", and *)
(* a turn that failed leaves it there or final.                            *)
(***************************************************************************)
EXTENDS HostedCall, TLAPS

\* One gateway runs at a time, and the others do nothing.
Alone ==
  /\ \A p, o \in Procs : Running(p) /\ Running(o) => p = o
  /\ \A p \in Procs : ~Running(p) => run[p] = "idle" /\ work[p] = "idle"

\* The session manager works on a turn that its run waits for.
WorkedOn ==
  [idle   |-> {"none", "queued", "submitting", "submitted", "completed",
               "failed"},
   queue  |-> {"queued", "submitting", "submitted"},
   prep   |-> {"queued"},
   prompt |-> {"submitting"},
   verify |-> {"submitting"},
   poll   |-> {"submitted"},
   retry  |-> {"queued", "submitted"}]

AtWork ==
  \A p \in Procs :
    work[p] # "idle" => run[p] = "wait" /\ turn[phase[p]] \in WorkedOn[work[p]]

\* What counts as completed was answered.
Answered ==
  /\ \A p \in Procs : run[p] = "answer" => turn[phase[p]] = "completed"
  /\ \A f \in Phase : turn[f] = "completed" => host[f] = "answered"

\* Nothing of a turn exists before it.
Unborn ==
  /\ turn["correction"] = "none" =>
       /\ host["correction"] = "none" /\ att["correction"] = "none"
       /\ cap.phase # "correction"
  /\ \A f \in Phase : turn[f] \in {"none", "queued"} => prompts[f] = 0

\* The initial turn's SMS did not leave, and no attempt follows.
Harmless ==
  \/ att["initial"] = "rejected"
  \/ att["initial"] = "none" /\ turn["initial"] = "completed"

\* Whatever makes a correction possible comes after that.
Warranted ==
  /\ \A p \in Procs : phase[p] = "correction" => Harmless
  /\ entry.phase = "correction" => Harmless
  /\ turn["correction"] # "none" => Harmless

\* The correction runs under its own capture, or the initial attempt is spent.
Covered ==
  /\ host["correction"] \in {"coming", "running"}
  /\ cap.phase = "initial" /\ turn["initial"] = "completed"
  => att["initial"] = "rejected"

\* An accepted SMS is on record, once.
Counted ==
  \A f \in Phase :
    /\ sms[f] \in {0, 1}
    /\ f \in sending => att[f] = "pending" /\ sms[f] = 0
    /\ att[f] \in {"none", "rejected"} => sms[f] = 0

\* The forms of a journal entry.
Shaped ==
  /\ entry.what = "started" => entry.state = "running"
  /\ entry.what \in {"deferred", "exhausted"} => entry.state = "failed"
  /\ entry.what = "final" => entry.state \in {"completed", "failed"}
  /\ entry.state = "failed" => entry.what # "none"

\* From the checkpoint on the entry names the phase, unless it is final.
Named(f) == entry.what = "final" \/ (entry.what = "started" /\ entry.phase = f)

Underway ==
  \A p \in Procs :
    run[p] \in {"dispatch", "wait", "answer", "deferred", "error"} =>
      Named(phase[p])

\* Once a turn failed, nothing follows.
Settled ==
  \A f \in Phase : turn[f] = "failed" =>
    /\ Named(f) /\ entry.state # "none"
    /\ \A p \in Procs : run[p] \in {"idle", "error"}

IInv ==
  /\ TypeOK /\ Alone /\ AtWork /\ Answered /\ Unborn /\ Warranted /\ Covered
  /\ Counted /\ Shaped /\ Underway /\ Settled
  /\ CompletedHasEvidence /\ NeverReplayed

----------------------------------------------------------------------------

\* Nothing has happened yet.
LEMMA InitHolds == Init => IInv
  BY BoundAssumption
  DEF Init, IInv, TypeOK, Alone, AtWork, WorkedOn, Answered, Unborn, Harmless,
      Warranted, Covered, Counted, Shaped, Named, Underway, Settled, Running,
      NoCap, NoProc, NoPhase, Phase, CompletedHasEvidence, NeverReplayed

\* A gateway that starts finds nobody running; one that dies leaves no chain.
LEMMA LifeKeeps ==
  IInv /\ (\E p \in Procs : Start(p) \/ Crash(p) \/ Close(p)) => IInv'
<1> USE DEF IInv, TypeOK, Alone, AtWork, WorkedOn, Answered, Unborn, Harmless,
        Warranted, Covered, Counted, Shaped, Named, Underway, Settled,
        CompletedHasEvidence, NeverReplayed, Phase, NoPhase, Running, Closing,
        Over, journal, model, chain
<1>1. ASSUME IInv, NEW p \in Procs, Start(p) PROVE IInv'
  BY <1>1 DEF Start
<1>2. ASSUME IInv, NEW p \in Procs, Crash(p) PROVE IInv'
  BY <1>2, BoundAssumption DEF Crash
<1>3. ASSUME IInv, NEW p \in Procs, Close(p) PROVE IInv'
  BY <1>3, BoundAssumption DEF Close
<1> HIDE DEF IInv
<1> QED
  BY <1>1, <1>2, <1>3

\* An entry of a turn that failed is final, or recovery finds no turn and makes
\* it final; a correction is taken up only where one was possible already, or
\* from a certain rejection.
LEMMA RecoverKeeps ==
  ASSUME IInv, NEW p \in Procs, Running(p), Recoverable, Recover(p),
         caught' \subseteq Procs,
         UNCHANGED <<att, cap, model, work, up, closes>>
  PROVE  IInv'
<1> USE DEF IInv, TypeOK, Alone, AtWork, WorkedOn, Answered, Unborn, Harmless,
        Warranted, Covered, Counted, Shaped, Named, Underway, Settled,
        CompletedHasEvidence, NeverReplayed, Phase, NoPhase, Running,
        Recoverable, Retryable, model
<1>1. CASE Recovery \in {"complete", "terminal"}
  <2>1. /\ entry' \in [state : {"completed", "failed"}, what : {"final"},
                      phase : {NoPhase}]
        /\ UNCHANGED chain
    BY <1>1 DEF Recover, Save
  <2>2. entry'.state = "completed" => \E f \in Phase : att[f] = "success"
    BY <1>1 DEF Recover, Save, Recovery
  <2> QED
    BY <2>1, <2>2, BoundAssumption DEF chain
<1>2. CASE Recovery \in Phase
  <2>1. Schedule(p, Recovery) /\ UNCHANGED <<entry, tries>>
    BY <1>2 DEF Recover
  <2>2. Recovery = "correction" => Harmless
    BY DEF Recovery, Attempted
  <2>3. \A f \in Phase : turn[f] # "failed"
    BY <1>2 DEF Recovery, Durable
  <2> QED
    BY <1>2, <2>1, <2>2, <2>3, BoundAssumption DEF Schedule
<1> QED
  BY <1>1, <1>2 DEF Recover

\* Admission: a new entry has no turn, and any other recovers.
LEMMA AdmissionKeeps ==
  IInv /\ (\E p \in Procs : Ingest(p) \/ CatchUp(p)) => IInv'
<1>1. ASSUME IInv, NEW p \in Procs, Ingest(p) PROVE IInv'
  <2>1. CASE Recoverable /\ Recover(p)
    BY <1>1, <2>1, RecoverKeeps DEF Ingest, life, IInv, TypeOK
  <2>2. CASE entry.state = "none" /\ Save("queued", "none", NoPhase)
             /\ Schedule(p, "initial") /\ UNCHANGED tries
    BY <1>1, <2>2, BoundAssumption
    DEF Ingest, Save, Schedule, model, life, IInv, TypeOK, Alone, AtWork,
        WorkedOn, Answered, Unborn, Harmless, Warranted, Covered, Counted,
        Shaped, Named, Underway, Settled, CompletedHasEvidence, NeverReplayed,
        Phase, NoPhase, Running
  <2> QED
    BY <1>1, <2>1, <2>2 DEF Ingest
<1>2. ASSUME IInv, NEW p \in Procs, CatchUp(p) PROVE IInv'
  <2>1. CASE Recoverable /\ Recover(p)
    BY <1>2, <2>1, RecoverKeeps DEF CatchUp, IInv, TypeOK
  <2>2. CASE UNCHANGED <<entry, chain>>
    BY <1>2, <2>2
    DEF CatchUp, model, chain, IInv, TypeOK, Alone, AtWork, WorkedOn,
        Answered, Unborn, Harmless, Warranted, Covered, Counted, Shaped,
        Named, Underway, Settled, CompletedHasEvidence, NeverReplayed, Running
  <2> QED
    BY <1>2, <2>1, <2>2 DEF CatchUp
<1> QED
  BY <1>1, <1>2

\* A run that leaves its phase saves first what the journal has to say of it.
LEMMA RunKeeps == IInv /\ (\E p \in Procs : RunStep(p)) => IInv'
<1> USE DEF IInv, TypeOK, Alone, AtWork, WorkedOn, Answered, Unborn, Harmless,
        Warranted, Covered, Counted, Shaped, Named, Underway, Settled,
        CompletedHasEvidence, NeverReplayed, Phase, NoPhase, Running, Closing,
        RunsAt, Goto, Over, Save, journal, model, life
<1>1. ASSUME IInv, NEW p \in Procs, Begin(p) PROVE IInv'
  BY <1>1 DEF Begin
<1>2. ASSUME IInv, NEW p \in Procs, PrepFails(p) PROVE IInv'
  BY <1>2, BoundAssumption DEF PrepFails, TriesLeft
<1>3. ASSUME IInv, NEW p \in Procs, NotHosted(p) PROVE IInv'
  BY <1>3, BoundAssumption DEF NotHosted
<1>4. ASSUME IInv, NEW p \in Procs, Checkpoint(p) PROVE IInv'
  BY <1>4, BoundAssumption DEF Checkpoint
<1>5. ASSUME IInv, NEW p \in Procs, CheckpointFails(p) PROVE IInv'
  BY <1>5, BoundAssumption DEF CheckpointFails
<1>6. ASSUME IInv, NEW p \in Procs, Dispatch(p) PROVE IInv'
  BY <1>6 DEF Dispatch, Durable
<1>7. ASSUME IInv, NEW p \in Procs, Decide(p) PROVE IInv'
  <2>1. turn[phase[p]] = "completed"
    BY <1>7 DEF Decide
  <2>2. (phase'[p] = "correction" \/ entry'.phase = "correction") => Harmless
    BY <1>7, <2>1 DEF Decide, Correctable
  <2>3. entry'.state = "completed" /\ Promised =>
          \E f \in Phase : att[f] = "success"
    BY <1>7 DEF Decide, Succeeded
  <2> QED
    BY <1>7, <2>2, <2>3, BoundAssumption DEF Decide
<1>8. ASSUME IInv, NEW p \in Procs, Conclude(p) PROVE IInv'
  BY <1>8, BoundAssumption DEF Conclude
<1>9. ASSUME IInv, NEW p \in Procs, SaveFails(p) PROVE IInv'
  BY <1>9, BoundAssumption DEF SaveFails
<1> HIDE DEF IInv
<1> QED
  BY <1>1, <1>2, <1>3, <1>4, <1>5, <1>6, <1>7, <1>8, <1>9 DEF RunStep

\* Only the running gateway moves turns, and only the one its run waits for.
LEMMA WorkKeeps == IInv /\ (\E p \in Procs : WorkStep(p)) => IInv'
<1> USE DEF IInv, TypeOK, Alone, AtWork, WorkedOn, Answered, Unborn, Harmless,
        Warranted, Covered, Counted, Shaped, Named, Underway, Settled,
        CompletedHasEvidence, NeverReplayed, Phase, NoPhase, Running, Closing,
        WorksAt, Work, SetTurn, Accepted, Activate, Clear, NoCap, NoProc,
        Ends, RetryLater, WorkUnchanged, journal, model, chain, life, Goto
<1>1. ASSUME IInv, NEW p \in Procs, TakeUp(p) PROVE IInv'
  BY <1>1 DEF TakeUp
<1>2. ASSUME IInv, NEW p \in Procs, Submit(p) PROVE IInv'
  <2>1. turn[phase[p]] = "queued" /\ prompts[phase[p]] = 0
    BY <1>2 DEF Submit
  <2>2. Covered' /\ Warranted'
    BY <1>2, <2>1 DEF Submit
  <2> QED
    BY <1>2, <2>1, <2>2 DEF Submit
<1>3. ASSUME IInv, NEW p \in Procs, SubmitFails(p) PROVE IInv'
  BY <1>3 DEF SubmitFails
<1>4. ASSUME IInv, NEW p \in Procs, PromptReturns(p) PROVE IInv'
  BY <1>4 DEF PromptReturns
<1>5. ASSUME IInv, NEW p \in Procs, PromptFails(p) PROVE IInv'
  BY <1>5 DEF PromptFails
<1>6. ASSUME IInv, NEW p \in Procs, Verify(p) PROVE IInv'
  BY <1>6 DEF Verify
<1>7. ASSUME IInv, NEW p \in Procs, PollAnswered(p) PROVE IInv'
  <2>1. turn[phase[p]] = "submitted" /\ host[phase[p]] = "answered"
    BY <1>7 DEF PollAnswered
  <2>2. Covered'
    BY <1>7, <2>1 DEF PollAnswered
  <2> QED
    BY <1>7, <2>1, <2>2 DEF PollAnswered
<1>8. ASSUME IInv, NEW p \in Procs, PollStops(p) PROVE IInv'
  BY <1>8 DEF PollStops
<1>9. ASSUME IInv, NEW p \in Procs, PollFails(p) PROVE IInv'
  BY <1>9 DEF PollFails
<1>10. ASSUME IInv, NEW p \in Procs, PollEnds(p) PROVE IInv'
  BY <1>10 DEF PollEnds
<1>11. ASSUME IInv, NEW p \in Procs, Retry(p) PROVE IInv'
  BY <1>11 DEF Retry
<1> HIDE DEF IInv
<1> QED
  BY <1>1, <1>2, <1>3, <1>4, <1>5, <1>6, <1>7, <1>8, <1>9, <1>10,
     <1>11 DEF WorkStep

\* The host touches neither turn nor journal.
LEMMA HostKeeps == IInv /\ (\E f \in Phase : HostStep(f)) => IInv'
<1> USE DEF IInv, TypeOK, Alone, AtWork, WorkedOn, Answered, Unborn, Harmless,
        Warranted, Covered, Counted, Shaped, Named, Underway, Settled,
        CompletedHasEvidence, NeverReplayed, Phase, NoPhase, Running, Closing,
        HostUnchanged, chain, life
<1>1. ASSUME IInv, NEW f \in Phase, HostAccepts(f) PROVE IInv'
  BY <1>1 DEF HostAccepts
<1>2. ASSUME IInv, NEW f \in Phase, HostMisses(f) PROVE IInv'
  BY <1>2 DEF HostMisses
<1>3. ASSUME IInv, NEW f \in Phase, HostFinishes(f) PROVE IInv'
  BY <1>3 DEF HostFinishes
<1> HIDE DEF IInv
<1> QED
  BY <1>1, <1>2, <1>3 DEF HostStep

\* The tool journals an attempt of the captured phase.  It is never one of the
\* initial turn once that is harmless: the turn that calls it would be the
\* correction, which runs under its own capture.
LEMMA ToolBeginsKeeps == ASSUME IInv, NEW f \in Phase, ToolBegins(f) PROVE IInv'
<1> DEFINE g == cap.phase
<1> USE DEF IInv, TypeOK, Alone, AtWork, WorkedOn, Answered, Unborn, Harmless,
        Warranted, Covered, Counted, Shaped, Named, Underway, Settled,
        CompletedHasEvidence, NeverReplayed, Phase, NoPhase, Running,
        HostUnchanged, chain, life
<1>1. CASE cap = NoCap
  <2>1. aside' \subseteq Phase /\ UNCHANGED <<att, sending>>
    BY <1>1 DEF ToolBegins
  <2> QED
    BY <2>1 DEF ToolBegins
<1>2. CASE cap # NoCap
  <2>1. PICK r \in {"pending", "rejected", "failed"} :
          /\ att' = [att EXCEPT ![g] = r]
          /\ sending' = IF r = "pending" THEN sending \cup {g} ELSE sending
    BY <1>2 DEF ToolBegins
  <2>2. g \in Phase /\ att[g] = "none" /\ host[f] = "running"
    BY <1>2 DEF ToolBegins, Unattempted
  <2>3. g = "initial" => ~Harmless
    BY <2>2
  <2>4. Harmless => Harmless'
    BY <2>1, <2>2, <2>3 DEF ToolBegins
  <2>5. Warranted' /\ Covered'
    <3>1. CASE g = "initial"
      BY <2>1, <2>2, <2>3, <3>1 DEF ToolBegins
    <3>2. CASE g = "correction"
      BY <2>1, <2>2, <2>4, <3>2 DEF ToolBegins
    <3> QED
      BY <2>2, <3>1, <3>2
  <2>6. Counted'
    BY <2>1, <2>2 DEF ToolBegins
  <2>7. Unborn'
    <3>1. turn["correction"] = "none" => g = "initial"
      BY <2>2
    <3> QED
      BY <2>1, <3>1 DEF ToolBegins
  <2>8. CompletedHasEvidence'
    BY <2>1, <2>2 DEF ToolBegins
  <2>9. TypeOK'
    <3>1. att' \in [Phase -> {"none", "pending", "success", "rejected",
                               "failed"}]
      BY <2>1, <2>2
    <3>2. sending' \subseteq Phase /\ aside' \subseteq Phase
      BY <2>1, <2>2 DEF ToolBegins
    <3> QED
      BY <3>1, <3>2 DEF ToolBegins
  <2> QED
    BY <2>5, <2>6, <2>7, <2>8, <2>9 DEF ToolBegins
<1> QED
  BY <1>1, <1>2

\* An attempt settles once, from "pending", and success is evidence for good.
LEMMA ToolKeeps ==
  IInv /\ ((\E f \in Phase : ToolBegins(f)) \/ ToolEnds) => IInv'
<1> USE DEF IInv, TypeOK, Alone, AtWork, WorkedOn, Answered, Unborn, Harmless,
        Warranted, Covered, Counted, Shaped, Named, Underway, Settled,
        CompletedHasEvidence, NeverReplayed, Phase, NoPhase, Running,
        HostUnchanged, chain, life
<1>1. ASSUME IInv, NEW f \in Phase, ToolBegins(f) PROVE IInv'
  BY <1>1, ToolBeginsKeeps
<1>2. ASSUME IInv, NEW f \in Phase, ToolAccepted(f) PROVE IInv'
  BY <1>2 DEF ToolAccepted
<1>3. ASSUME IInv, NEW f \in Phase, ToolFails(f) PROVE IInv'
  BY <1>3 DEF ToolFails
<1>4. ASSUME IInv, NEW f \in Phase, LooseSend(f) PROVE IInv'
  BY <1>4 DEF LooseSend
<1> HIDE DEF IInv
<1> QED
  BY <1>1, <1>2, <1>3, <1>4 DEF ToolEnds

\* Every step keeps the invariant.
LEMMA NextKeeps == IInv /\ [Next]_vars => IInv'
<1>1. IInv /\ UNCHANGED vars => IInv'
  BY DEF vars, journal, model, chain, life, IInv, TypeOK, Alone, AtWork,
      WorkedOn, Answered, Unborn, Harmless, Warranted, Covered, Counted,
      Shaped, Named, Underway, Settled, CompletedHasEvidence, NeverReplayed,
      Running
<1> QED
  BY <1>1, LifeKeeps, AdmissionKeeps, RunKeeps, WorkKeeps, HostKeeps, ToolKeeps
  DEF Next

----------------------------------------------------------------------------

\* The invariant holds in every reachable state.
THEOREM Invariant == Spec => []IInv
<1>1. Init => IInv
  BY InitHolds
<1>2. IInv /\ [Next]_vars => IInv'
  BY NextKeeps
<1> QED
  BY <1>1, <1>2, PTL DEF Spec

\* Every variable keeps its type.
THEOREM TypeCorrect == Spec => []TypeOK
<1>1. IInv => TypeOK
  BY DEF IInv
<1> QED
  BY <1>1, Invariant, PTL

\* Through the journal at most one SMS of the call is accepted by the provider,
\* whatever crashes, closes, is retried or stays without an answer.
THEOREM OneGuardedMessage == Spec => []GuardedOnce
<1>1. ASSUME IInv PROVE GuardedOnce
  <2>1. /\ sms["initial"] \in {0, 1} /\ sms["correction"] \in {0, 1}
    BY <1>1 DEF IInv, Counted, Phase
  <2>2. sms["correction"] # 0 => turn["correction"] # "none"
    BY <1>1 DEF IInv, Counted, Unborn, Phase
  <2>3. sms["correction"] # 0 => sms["initial"] = 0
    BY <1>1, <2>2 DEF IInv, Warranted, Harmless, Counted, Phase
  <2> QED
    BY <2>1, <2>3 DEF GuardedOnce
<1>2. IInv => GuardedOnce
  BY <1>1
<1> QED
  BY <1>2, Invariant, PTL

\* A promised call is completed only on the evidence of an accepted SMS.
THEOREM CompletionsHaveEvidence == Spec => []CompletedHasEvidence
<1>1. IInv => CompletedHasEvidence
  BY DEF IInv
<1> QED
  BY <1>1, Invariant, PTL

\* No phase is submitted twice, however often gateways take the call over.
THEOREM SubmissionsAreNotRepeated == Spec => []NeverReplayed
<1>1. IInv => NeverReplayed
  BY DEF IInv
<1> QED
  BY <1>1, Invariant, PTL

\* A correction is submitted only when the initial turn's SMS was rejected, or
\* that turn was answered without an attempt.
THEOREM CorrectionsAreWarranted == Spec => CorrectionIsWarranted
<1> DEFINE OK == prompts'["correction"] # prompts["correction"] =>
                   \/ att["initial"] = "rejected"
                   \/ att["initial"] = "none" /\ host["initial"] = "answered"
<1>1. ASSUME IInv, [Next]_vars PROVE OK
  <2>1. ASSUME NEW p \in Procs, Submit(p), phase[p] = "correction" PROVE OK
    BY <1>1, <2>1 DEF IInv, Warranted, Harmless, Answered, Phase
  <2>2. ASSUME prompts'["correction"] # prompts["correction"]
        PROVE  \E p \in Procs : Submit(p) /\ phase[p] = "correction"
    BY <1>1, <2>2
    DEF IInv, TypeOK, Next, vars, RunStep, WorkStep, HostStep, ToolEnds,
        journal, model, chain, life, Phase, Start, Crash, Close, Ingest,
        CatchUp, Begin, PrepFails, NotHosted, Checkpoint, CheckpointFails,
        Dispatch, Decide, Conclude, SaveFails, TakeUp, Submit, SubmitFails,
        PromptReturns, PromptFails, Verify, PollAnswered, PollStops,
        PollFails, PollEnds, Retry, HostAccepts, HostMisses, HostFinishes,
        ToolBegins, ToolAccepted, ToolFails, LooseSend, WorkUnchanged,
        HostUnchanged
  <2> QED
    BY <2>1, <2>2
<1>2. IInv /\ [Next]_vars => [OK]_vars
  BY <1>1
<1> QED
  BY <1>2, Invariant, PTL DEF Spec, CorrectionIsWarranted

=============================================================================
