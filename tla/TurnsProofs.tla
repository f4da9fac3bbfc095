---------------------------- MODULE TurnsProofs ----------------------------
(***************************************************************************)
(* What holds of the turn lifecycle for every number of turns, gateways,   *)
(* retries, stops and closes, with or without native replies, lapsing      *)
(* leases and overlapping gateways: types, one prompt per turn, and        *)
(* answers that are the host's own.                                        *)
(***************************************************************************)
EXTENDS Turns, FiniteSetTheorems, TLAPS

----------------------------------------------------------------------------
(***************************************************************************)
(* The inductive invariant.  PromptedOnce and AnswerBacksReply are not     *)
(* inductive: they rest on where a program counter implies a turn is in    *)
(* hand, on a turn being untouched by the host until its checkpoint, and   *)
(* on a rescue's reading of the host staying true while it waits.          *)
(***************************************************************************)

\* The steps of rescue and finish that work on the turn on[p].
OnSteps == {"messages", "status", "abort", "confirm", "prepare",
            "send"}

\* A chain that is under way has its turn at hand.
Focus ==
  \A p \in Procs : /\ pc[p] # "idle" => cur[p] \in Turns
                   /\ pc[p] \in OnSteps => on[p] \in Turns
                   /\ spc[p] \in {"abort", "confirm"} => son[p] \in Turns

\* Before its checkpoint a turn was never submitted: nothing is known of it to
\* the host.
Unsent ==
  \A t \in Turns : st[t] \in {"absent", "queued"} => host[t] = "none" /\ prompts[t] = 0

\* The answer a rescue has read stays in the host session.
SeenIsTrue ==
  \A p \in Procs : pc[p] = "status" /\ seen[p] => host[on[p]] = "answered"

IInv ==
  /\ TypeOK /\ Focus /\ Unsent
  /\ PromptedOnce /\ SeenIsTrue /\ AnswerBacksReply

----------------------------------------------------------------------------
(***************************************************************************)
(* Lemmas about the operators.                                             *)
(***************************************************************************)

\* What catchUp enqueues, in creation order, is a queue of turns.
LEMMA OrderIsQueue ==
  ASSUME NEW S \in SUBSET Turns, NEW q \in Orders(S)
  PROVE  q \in Seq(Turns)
<1>1. IsFiniteSet(Turns)
  BY FS_Interval, CountAssumption DEF Turns
<1>2. Cardinality(S) \in Nat
  BY <1>1, FS_Subset, FS_CardinalityType
<1>3. q \in [1..Cardinality(S) -> Turns]
  BY DEF Orders
<1> QED
  BY <1>2, <1>3

\* A claimed turn's state leads somewhere in process(), never into a rescue.
LEMMA RouteLeads ==
  ASSUME StoreTypeOK, NEW t \in Turns, st[t] # "absent"
  PROVE  Route(t) \in {"returned", "prep", "verify", "poll", "saved", "stuck",
                       "ambiguous"}
<1>1. st[t] \in Terminal \cup Active
  BY DEF StoreTypeOK, State
<1> QED
  BY <1>1 DEF Route, Terminal, Active

\* claimTurn writes an incarnation and a live lease, or nothing.
LEMMA ClaimKeepsType ==
  ASSUME StoreTypeOK, NEW p \in Procs, NEW t \in Turns,
         Claim(p, t) \/ UNCHANGED <<owner, lease>>
  PROVE  owner' \in [Turns -> Procs \cup {NoProc}] /\ lease' \in [Turns -> BOOLEAN]
<1>1. CASE Claim(p, t)
  <2>1. owner' = [owner EXCEPT ![t] = p] /\ lease' = [lease EXCEPT ![t] = TRUE]
    BY <1>1 DEF Claim
  <2>2. owner \in [Turns -> Procs \cup {NoProc}] /\ lease \in [Turns -> BOOLEAN]
    BY DEF StoreTypeOK
  <2> QED
    BY <2>1, <2>2
<1>2. CASE UNCHANGED <<owner, lease>>
  BY <1>2 DEF StoreTypeOK
<1> QED
  BY <1>1, <1>2

\* The first step of a rescue claims at most.
LEMMA RescueKeepsType ==
  ASSUME StoreTypeOK, NEW p \in Procs, NEW t \in Turns, NEW c, NEW l,
         BeginRescue(p, t, c, l)
  PROVE  owner' \in [Turns -> Procs \cup {NoProc}] /\ lease' \in [Turns -> BOOLEAN]
<1>1. Claim(p, t) \/ UNCHANGED <<owner, lease>>
  BY DEF BeginRescue
<1> QED
  BY <1>1, ClaimKeepsType

\* The first step of finish() claims at most, and saves a state of a turn.
LEMMA FinishKeepsType ==
  ASSUME StoreTypeOK, NEW p \in Procs, NEW t \in Turns, NEW c, NEW captured,
         NEW now \in State, BeginFinish(p, t, c, captured, now)
  PROVE  /\ st' \in [Turns -> State]
         /\ owner' \in [Turns -> Procs \cup {NoProc}]
         /\ lease' \in [Turns -> BOOLEAN]
<1>1. Claim(p, t) \/ UNCHANGED <<owner, lease>>
  BY DEF BeginFinish
<1>2. st' \in [Turns -> State]
  BY DEF BeginFinish, SetState, StoreTypeOK, State, Terminal, Active
<1> QED
  BY <1>1, <1>2, ClaimKeepsType

\* The queue takes a turn at either end.
LEMMA QueueTakes ==
  ASSUME SchedTypeOK, NEW p \in Procs, NEW t \in Turns
  PROVE  <<t>> \o queue[p] \in Seq(Turns) /\ Append(queue[p], t) \in Seq(Turns)
<1>1. queue[p] \in Seq(Turns)
  BY DEF SchedTypeOK
<1>2. <<t>> \in Seq(Turns)
  OBVIOUS
<1> QED
  BY <1>1, <1>2

\* enqueue() adds a turn of the conversation, if anything.
LEMMA EnqueueKeepsType ==
  ASSUME SchedTypeOK, NEW p \in Procs, NEW t \in Turns, Enqueue(p, t)
  PROVE  /\ queue' \in [Procs -> Seq(Turns)]
         /\ wake' \in [Procs -> {"ready", "timer", "parked"}]
<1>1. queue' = [queue EXCEPT ![p] = queue[p]]
      \/ queue' = [queue EXCEPT ![p] = Append(queue[p], t)]
  BY DEF Enqueue
<1>2. Append(queue[p], t) \in Seq(Turns)
  BY QueueTakes
<1> QED
  BY <1>1, <1>2 DEF SchedTypeOK, Enqueue

\* A failed reply leaves states of turns, and at most one more in the queue.
LEMMA FailureKeepsQueue ==
  ASSUME SchedTypeOK, NEW p \in Procs, NEW t \in Turns, ReplyFails(p, t)
  PROVE  queue' \in [Procs -> Seq(Turns)]
<1>1. CASE UNCHANGED queue
  BY <1>1 DEF SchedTypeOK
<1>2. CASE \E f \in Turns : queue' = [queue EXCEPT ![p] = Append(queue[p], f)]
  <2>1. PICK f \in Turns : queue' = [queue EXCEPT ![p] = Append(queue[p], f)]
    BY <1>2
  <2>2. Append(queue[p], f) \in Seq(Turns)
    BY QueueTakes
  <2> QED
    BY <2>1, <2>2 DEF SchedTypeOK
<1> QED
  BY <1>1, <1>2 DEF ReplyFails, Fresh

----------------------------------------------------------------------------
(***************************************************************************)
(* Every action keeps the invariant.  Per action, one step for each        *)
(* conjunct it can disturb and one for all it cannot.                      *)
(***************************************************************************)
LEMMA StepKeepsIInv == IInv /\ [Next]_vars => IInv'
<1> SUFFICES ASSUME IInv, [Next]_vars PROVE IInv'
  OBVIOUS
<1>0. /\ StoreTypeOK /\ HostTypeOK /\ PastTypeOK /\ SchedTypeOK /\ FrameTypeOK
      /\ CommandTypeOK /\ Focus /\ Unsent /\ PromptedOnce /\ SeenIsTrue
      /\ AnswerBacksReply
  BY DEF IInv, TypeOK
<1>1. ASSUME NEW p \in Procs, Start(p)
      PROVE  IInv'
  <2>1. StoreTypeOK'
    BY <1>0, <1>1 DEF StoreTypeOK, State, Terminal, Active, Start, hold
  <2>2. PastTypeOK'
    BY <1>0, <1>1 DEF PastTypeOK, Start, past, rest
  <2>3. SchedTypeOK'
    BY <1>0, <1>1, OrderIsQueue DEF SchedTypeOK, Start, Recoverable, rest,
       sched, StoreTypeOK
  <2>4. Unsent'
    BY <1>0, <1>1 DEF Unsent, StoreTypeOK, HostTypeOK, PastTypeOK, Start,
       past, rest
  <2>5. AnswerBacksReply'
    BY <1>0, <1>1 DEF AnswerBacksReply, StoreTypeOK, HostTypeOK,
       PastTypeOK, Start, past, rest
  <2>6. /\ HostTypeOK'
       /\ FrameTypeOK'
       /\ CommandTypeOK'
       /\ Focus'
       /\ PromptedOnce'
       /\ SeenIsTrue'
    BY <1>0, <1>1 DEF HostTypeOK, FrameTypeOK, CommandTypeOK, Focus,
       PromptedOnce, SeenIsTrue, Start, command, counts, frame, past, rest
  <2> QED
    BY <2>1, <2>2, <2>3, <2>4, <2>5, <2>6 DEF IInv, TypeOK
<1>2. ASSUME NEW p \in Procs, Crash(p)
      PROVE  IInv'
  <2>1. PastTypeOK'
    BY <1>0, <1>2 DEF PastTypeOK, Crash, past
  <2>2. SchedTypeOK'
    BY <1>0, <1>2 DEF SchedTypeOK, Crash, Forget
  <2>3. FrameTypeOK'
    BY <1>0, <1>2 DEF FrameTypeOK, DrainStep, NoTurn, Crash, Forget
  <2>4. CommandTypeOK'
    BY <1>0, <1>2 DEF CommandTypeOK, NoTurn, Crash, Forget, counts
  <2>5. Focus'
    BY <1>0, <1>2 DEF Focus, OnSteps, FrameTypeOK, CommandTypeOK,
       DrainStep, Crash, Forget
  <2>6. SeenIsTrue'
    BY <1>0, <1>2 DEF SeenIsTrue, Focus, OnSteps, FrameTypeOK, HostTypeOK,
       Crash, Forget
  <2>7. /\ StoreTypeOK'
       /\ HostTypeOK'
       /\ Unsent'
       /\ PromptedOnce'
       /\ AnswerBacksReply'
    BY <1>0, <1>2 DEF StoreTypeOK, HostTypeOK, Unsent, PromptedOnce,
       AnswerBacksReply, Crash, past, store
  <2> QED
    BY <2>1, <2>2, <2>3, <2>4, <2>5, <2>6, <2>7 DEF IInv, TypeOK
<1>3. ASSUME NEW p \in Procs, Close(p)
      PROVE  IInv'
  <2>1. PastTypeOK'
    BY <1>0, <1>3 DEF PastTypeOK, Close, past, rest
  <2>2. CommandTypeOK'
    BY <1>0, <1>3, BoundAssumption DEF CommandTypeOK, NoTurn, Close,
       command, counts, rest
  <2>3. /\ StoreTypeOK'
       /\ HostTypeOK'
       /\ SchedTypeOK'
       /\ FrameTypeOK'
       /\ Focus'
       /\ Unsent'
       /\ PromptedOnce'
       /\ SeenIsTrue'
       /\ AnswerBacksReply'
    BY <1>0, <1>3 DEF StoreTypeOK, HostTypeOK, SchedTypeOK, FrameTypeOK,
       Focus, Unsent, PromptedOnce, SeenIsTrue, AnswerBacksReply, Close,
       command, frame, hold, past, rest, sched, store
  <2> QED
    BY <2>1, <2>2, <2>3 DEF IInv, TypeOK
<1>4. ASSUME NEW p \in Procs, Release(p)
      PROVE  IInv'
  <2>1. StoreTypeOK'
    BY <1>0, <1>4 DEF StoreTypeOK, State, Terminal, Active, Release,
       ReleaseAll, hold
  <2>2. PastTypeOK'
    BY <1>0, <1>4 DEF PastTypeOK, Release, past, rest
  <2>3. /\ HostTypeOK'
       /\ SchedTypeOK'
       /\ FrameTypeOK'
       /\ CommandTypeOK'
       /\ Focus'
       /\ Unsent'
       /\ PromptedOnce'
       /\ SeenIsTrue'
       /\ AnswerBacksReply'
    BY <1>0, <1>4 DEF HostTypeOK, SchedTypeOK, FrameTypeOK, CommandTypeOK,
       Focus, Unsent, PromptedOnce, SeenIsTrue, AnswerBacksReply, Release,
       command, counts, frame, past, rest, sched
  <2> QED
    BY <2>1, <2>2, <2>3 DEF IInv, TypeOK
<1>5. ASSUME NEW p \in Procs, Renew(p)
      PROVE  IInv'
  <2>1. StoreTypeOK'
    BY <1>0, <1>5 DEF StoreTypeOK, State, Terminal, Active, Renew, Claim
  <2>2. /\ HostTypeOK'
       /\ PastTypeOK'
       /\ SchedTypeOK'
       /\ FrameTypeOK'
       /\ CommandTypeOK'
       /\ Focus'
       /\ Unsent'
       /\ PromptedOnce'
       /\ SeenIsTrue'
       /\ AnswerBacksReply'
    BY <1>0, <1>5 DEF HostTypeOK, PastTypeOK, SchedTypeOK, FrameTypeOK,
       CommandTypeOK, Focus, Unsent, PromptedOnce, SeenIsTrue,
       AnswerBacksReply, Renew, frame, rest
  <2> QED
    BY <2>1, <2>2 DEF IInv, TypeOK
<1>6. ASSUME NEW p \in Procs, WakeUp(p)
      PROVE  IInv'
  <2>1. SchedTypeOK'
    BY <1>0, <1>6 DEF SchedTypeOK, WakeUp, rest, sched
  <2>2. /\ StoreTypeOK'
       /\ HostTypeOK'
       /\ PastTypeOK'
       /\ FrameTypeOK'
       /\ CommandTypeOK'
       /\ Focus'
       /\ Unsent'
       /\ PromptedOnce'
       /\ SeenIsTrue'
       /\ AnswerBacksReply'
    BY <1>0, <1>6 DEF StoreTypeOK, HostTypeOK, PastTypeOK, FrameTypeOK,
       CommandTypeOK, Focus, Unsent, PromptedOnce, SeenIsTrue,
       AnswerBacksReply, WakeUp, command, counts, frame, hold, past, rest,
       store
  <2> QED
    BY <2>1, <2>2 DEF IInv, TypeOK
<1>7. ASSUME NEW p \in Procs, NEW t \in Turns, Arrive(p, t)
      PROVE  IInv'
  <2>1. StoreTypeOK'
    BY <1>0, <1>7 DEF StoreTypeOK, State, Terminal, Active, Arrive, Fresh,
       SetState, hold
  <2>2. SchedTypeOK'
    BY <1>0, <1>7, EnqueueKeepsType DEF SchedTypeOK, Arrive, rest, sched
  <2>3. Unsent'
    BY <1>0, <1>7 DEF Unsent, StoreTypeOK, HostTypeOK, PastTypeOK, Arrive,
       Fresh, SetState, past, rest
  <2>4. AnswerBacksReply'
    BY <1>0, <1>7 DEF AnswerBacksReply, StoreTypeOK, HostTypeOK,
       PastTypeOK, Arrive, Fresh, SetState, past, rest
  <2>5. /\ HostTypeOK'
       /\ PastTypeOK'
       /\ FrameTypeOK'
       /\ CommandTypeOK'
       /\ Focus'
       /\ PromptedOnce'
       /\ SeenIsTrue'
    BY <1>0, <1>7 DEF HostTypeOK, PastTypeOK, FrameTypeOK, CommandTypeOK,
       Focus, PromptedOnce, SeenIsTrue, Arrive, command, counts, frame,
       past, rest
  <2> QED
    BY <2>1, <2>2, <2>3, <2>4, <2>5 DEF IInv, TypeOK
<1>8. ASSUME NEW p \in Procs, NEW t \in Turns, Message(p, t)
      PROVE  IInv'
  <2>1. StoreTypeOK'
    BY <1>0, <1>8 DEF StoreTypeOK, State, Terminal, Active, Message,
       Fresh, hold
  <2>2. SchedTypeOK'
    <3>1. CASE Enqueue(p, t) /\ UNCHANGED arriving
      BY <1>0, <1>8, <3>1, EnqueueKeepsType DEF SchedTypeOK, Message
    <3>2. CASE /\ arriving' = [arriving EXCEPT ![p] = @ \cup {t}]
               /\ UNCHANGED <<queue, wake>>
      BY <1>0, <1>8, <3>2 DEF SchedTypeOK, Message
    <3> QED
      BY <1>8, <3>1, <3>2 DEF Message
  <2>3. Unsent'
    BY <1>0, <1>8 DEF Unsent, StoreTypeOK, HostTypeOK, PastTypeOK,
       Message, Fresh, past, rest
  <2>4. AnswerBacksReply'
    BY <1>0, <1>8 DEF AnswerBacksReply, StoreTypeOK, HostTypeOK,
       PastTypeOK, Message, Fresh, past, rest
  <2>5. /\ HostTypeOK'
       /\ PastTypeOK'
       /\ FrameTypeOK'
       /\ CommandTypeOK'
       /\ Focus'
       /\ PromptedOnce'
       /\ SeenIsTrue'
    BY <1>0, <1>8 DEF HostTypeOK, PastTypeOK, FrameTypeOK, CommandTypeOK,
       Focus, PromptedOnce, SeenIsTrue, Message, command, counts, frame,
       past, rest
  <2> QED
    BY <2>1, <2>2, <2>3, <2>4, <2>5 DEF IInv, TypeOK
<1>9. ASSUME NEW p \in Procs, NEW t \in Turns, MessageAborts(p, t)
      PROVE  IInv'
  <2>1. HostTypeOK'
    BY <1>0, <1>9 DEF HostTypeOK, PromptState, MessageAborts, AbortEffect,
       rest
  <2>2. SchedTypeOK'
    BY <1>0, <1>9, EnqueueKeepsType DEF SchedTypeOK, MessageAborts, rest,
       sched
  <2>3. Unsent'
    BY <1>0, <1>9 DEF Unsent, StoreTypeOK, HostTypeOK, PastTypeOK,
       MessageAborts, AbortEffect, past, rest, store
  <2>4. SeenIsTrue'
    BY <1>0, <1>9 DEF SeenIsTrue, Focus, OnSteps, FrameTypeOK, HostTypeOK,
       MessageAborts, AbortEffect, frame, rest
  <2>5. AnswerBacksReply'
    BY <1>0, <1>9 DEF AnswerBacksReply, StoreTypeOK, HostTypeOK,
       PastTypeOK, MessageAborts, AbortEffect, past, rest, store
  <2>6. /\ StoreTypeOK'
       /\ PastTypeOK'
       /\ FrameTypeOK'
       /\ CommandTypeOK'
       /\ Focus'
       /\ PromptedOnce'
    BY <1>0, <1>9 DEF StoreTypeOK, PastTypeOK, FrameTypeOK, CommandTypeOK,
       Focus, PromptedOnce, MessageAborts, command, counts, frame, hold,
       past, rest, store
  <2> QED
    BY <2>1, <2>2, <2>3, <2>4, <2>5, <2>6 DEF IInv, TypeOK
<1>10. ASSUME NEW p \in Procs, NEW t \in Turns, Reenqueue(p, t)
      PROVE  IInv'
  <2>1. SchedTypeOK'
    BY <1>0, <1>10, EnqueueKeepsType DEF SchedTypeOK, Reenqueue, rest,
       sched
  <2>2. /\ StoreTypeOK'
       /\ HostTypeOK'
       /\ PastTypeOK'
       /\ FrameTypeOK'
       /\ CommandTypeOK'
       /\ Focus'
       /\ Unsent'
       /\ PromptedOnce'
       /\ SeenIsTrue'
       /\ AnswerBacksReply'
    BY <1>0, <1>10 DEF StoreTypeOK, HostTypeOK, PastTypeOK, FrameTypeOK,
       CommandTypeOK, Focus, Unsent, PromptedOnce, SeenIsTrue,
       AnswerBacksReply, Reenqueue, command, counts, frame, hold, past,
       rest, store
  <2> QED
    BY <2>1, <2>2 DEF IInv, TypeOK
<1>11. ASSUME NEW p \in Procs, DrainNext(p)
      PROVE  IInv'
  <2>1. Head(queue[p]) \in Turns /\ Tail(queue[p]) \in Seq(Turns)
    <3>1. queue[p] \in Seq(Turns) /\ queue[p] # <<>>
      BY <1>0, <1>11 DEF SchedTypeOK, DrainNext
    <3> QED
      BY <3>1
  <2>2. SchedTypeOK'
    BY <1>0, <1>11, <2>1 DEF SchedTypeOK, DrainNext, rest, sched
  <2>3. FrameTypeOK'
    <3> DEFINE bs == Blockers(Head(queue[p]))
    <3>1. bs \in SUBSET Turns
      BY DEF Blockers
    <3>2. CASE UNCHANGED frame
      BY <1>0, <3>2 DEF FrameTypeOK, frame
    <3>3. CASE /\ cur' = [cur EXCEPT ![p] = Head(queue[p])]
               /\ Goto(p, "claim")
               /\ UNCHANGED <<on, ctx, blk, todo, seen>>
      BY <1>0, <2>1, <3>3 DEF FrameTypeOK, Goto, DrainStep
    <3>4. CASE /\ cur'  = [cur EXCEPT ![p] = Head(queue[p])]
               /\ blk'  = [blk EXCEPT ![p] = bs]
               /\ todo' = [todo EXCEPT ![p] = bs]
               /\ Goto(p, "blockers")
               /\ UNCHANGED <<on, ctx, seen>>
      BY <1>0, <2>1, <3>1, <3>4 DEF FrameTypeOK, Goto, DrainStep
    <3> QED
      BY <1>11, <3>2, <3>3, <3>4 DEF DrainNext
  <2>4. Focus'
    BY <1>0, <1>11, <2>1 DEF Focus, OnSteps, FrameTypeOK, CommandTypeOK,
       DrainStep, DrainNext, Goto, command, frame, rest
  <2>5. SeenIsTrue'
    BY <1>0, <1>11, <2>1 DEF SeenIsTrue, Focus, OnSteps, FrameTypeOK,
       HostTypeOK, DrainNext, Goto, frame, rest
  <2>6. /\ StoreTypeOK'
       /\ HostTypeOK'
       /\ PastTypeOK'
       /\ CommandTypeOK'
       /\ Unsent'
       /\ PromptedOnce'
       /\ AnswerBacksReply'
    BY <1>0, <1>11 DEF StoreTypeOK, HostTypeOK, PastTypeOK, CommandTypeOK,
       Unsent, PromptedOnce, AnswerBacksReply, DrainNext, command, counts,
       hold, past, rest, store
  <2> QED
    BY <2>2, <2>3, <2>4, <2>5, <2>6 DEF IInv, TypeOK
<1>12. ASSUME NEW p \in Procs, RescueBlocker(p)
      PROVE  IInv'
  <2>1. cur[p] \in Turns
    BY <1>0, <1>12 DEF Focus, OnSteps, RescueBlocker, At
  <2>2. StoreTypeOK'
    <3>1. PICK b \in todo[p] : BeginRescue(p, b, "drain", "messages")
      BY <1>12 DEF RescueBlocker
    <3>2. b \in Turns
      BY <1>0, <3>1 DEF FrameTypeOK
    <3> QED
      BY <1>0, <1>12, <3>1, <3>2, RescueKeepsType DEF StoreTypeOK, RescueBlocker
  <2>3. FrameTypeOK'
    BY <1>0, <1>12, <2>1 DEF FrameTypeOK, DrainStep, NoTurn,
       RescueBlocker, BeginRescue, Goto
  <2>4. Focus'
    BY <1>0, <1>12, <2>1 DEF Focus, OnSteps, FrameTypeOK, CommandTypeOK,
       DrainStep, RescueBlocker, BeginRescue, Goto, rest
  <2>5. SeenIsTrue'
    BY <1>0, <1>12, <2>1 DEF SeenIsTrue, Focus, OnSteps, FrameTypeOK,
       HostTypeOK, RescueBlocker, BeginRescue, Goto, rest
  <2>6. /\ HostTypeOK'
       /\ PastTypeOK'
       /\ SchedTypeOK'
       /\ CommandTypeOK'
       /\ Unsent'
       /\ PromptedOnce'
       /\ AnswerBacksReply'
    BY <1>0, <1>12 DEF HostTypeOK, PastTypeOK, SchedTypeOK, CommandTypeOK,
       Unsent, PromptedOnce, AnswerBacksReply, RescueBlocker, rest
  <2> QED
    BY <2>2, <2>3, <2>4, <2>5, <2>6 DEF IInv, TypeOK
<1>13. ASSUME NEW p \in Procs, PassGate(p)
      PROVE  IInv'
  <2>1. cur[p] \in Turns
    BY <1>0, <1>13 DEF Focus, OnSteps, PassGate, At
  <2>2. SchedTypeOK'
    <3>1. <<cur[p]>> \o queue[p] \in Seq(Turns)
      BY <1>0, <2>1, QueueTakes
    <3> QED
      BY <1>0, <1>13, <3>1 DEF SchedTypeOK, PassGate
  <2>3. FrameTypeOK'
    BY <1>0, <1>13, <2>1 DEF FrameTypeOK, DrainStep, NoTurn, PassGate,
       Goto
  <2>4. Focus'
    BY <1>0, <1>13, <2>1 DEF Focus, OnSteps, FrameTypeOK, CommandTypeOK,
       DrainStep, PassGate, Goto, command, rest
  <2>5. SeenIsTrue'
    BY <1>0, <1>13, <2>1 DEF SeenIsTrue, Focus, OnSteps, FrameTypeOK,
       HostTypeOK, PassGate, Goto, rest
  <2>6. /\ StoreTypeOK'
       /\ HostTypeOK'
       /\ PastTypeOK'
       /\ CommandTypeOK'
       /\ Unsent'
       /\ PromptedOnce'
       /\ AnswerBacksReply'
    BY <1>0, <1>13 DEF StoreTypeOK, HostTypeOK, PastTypeOK, CommandTypeOK,
       Unsent, PromptedOnce, AnswerBacksReply, PassGate, command, counts,
       hold, past, rest, store
  <2> QED
    BY <2>2, <2>3, <2>4, <2>5, <2>6 DEF IInv, TypeOK
<1>14. ASSUME NEW p \in Procs, ProcessClaim(p)
      PROVE  IInv'
  <2>1. cur[p] \in Turns
    BY <1>0, <1>14 DEF Focus, OnSteps, ProcessClaim, At
  <2>2. StoreTypeOK'
    BY <1>0, <1>14, <2>1 DEF StoreTypeOK, State, Terminal, Active,
       ProcessClaim, Claim, hold
  <2>3. SchedTypeOK'
    BY <1>0, <1>14, <2>1 DEF SchedTypeOK, ProcessClaim, LookAgain, rest,
       sched
  <2>4. FrameTypeOK'
    BY <1>0, <1>14, <2>1, RouteLeads DEF FrameTypeOK, DrainStep, NoTurn,
       ProcessClaim, Goto, work, Claim, Claimable
  <2>5. Focus'
    BY <1>0, <1>14, <2>1, RouteLeads DEF Focus, OnSteps, FrameTypeOK,
       CommandTypeOK, DrainStep, ProcessClaim, Goto, command, rest, work,
       Claim, Claimable
  <2>6. SeenIsTrue'
    BY <1>0, <1>14, <2>1, RouteLeads DEF SeenIsTrue, Focus, OnSteps,
       FrameTypeOK, HostTypeOK, ProcessClaim, Goto, rest, work, Claim,
       Claimable
  <2>7. /\ HostTypeOK'
       /\ PastTypeOK'
       /\ CommandTypeOK'
       /\ Unsent'
       /\ PromptedOnce'
       /\ AnswerBacksReply'
    BY <1>0, <1>14 DEF HostTypeOK, PastTypeOK, CommandTypeOK, Unsent,
       PromptedOnce, AnswerBacksReply, ProcessClaim, command, counts,
       past, rest
  <2> QED
    BY <2>2, <2>3, <2>4, <2>5, <2>6, <2>7 DEF IInv, TypeOK
<1>15. ASSUME NEW p \in Procs, ReadFails(p)
      PROVE  IInv'
  <2>1. cur[p] \in Turns
    BY <1>0, <1>15 DEF Focus, OnSteps, ReadFails, At
  <2>2. FrameTypeOK'
    BY <1>0, <1>15, <2>1 DEF FrameTypeOK, DrainStep, NoTurn, ReadFails,
       Goto, work
  <2>3. Focus'
    BY <1>0, <1>15, <2>1 DEF Focus, OnSteps, FrameTypeOK, CommandTypeOK,
       DrainStep, ReadFails, Goto, rest, work
  <2>4. SeenIsTrue'
    BY <1>0, <1>15, <2>1 DEF SeenIsTrue, Focus, OnSteps, FrameTypeOK,
       HostTypeOK, ReadFails, Goto, rest, work
  <2>5. /\ StoreTypeOK'
       /\ HostTypeOK'
       /\ PastTypeOK'
       /\ SchedTypeOK'
       /\ CommandTypeOK'
       /\ Unsent'
       /\ PromptedOnce'
       /\ AnswerBacksReply'
    BY <1>0, <1>15 DEF StoreTypeOK, HostTypeOK, PastTypeOK, SchedTypeOK,
       CommandTypeOK, Unsent, PromptedOnce, AnswerBacksReply, ReadFails,
       rest, store
  <2> QED
    BY <2>2, <2>3, <2>4, <2>5 DEF IInv, TypeOK
<1>16. ASSUME NEW p \in Procs, Checkpoint(p)
      PROVE  IInv'
  <2>1. cur[p] \in Turns
    BY <1>0, <1>16 DEF Focus, OnSteps, Checkpoint, At
  <2>2. StoreTypeOK'
    BY <1>0, <1>16, <2>1 DEF StoreTypeOK, State, Terminal, Active,
       Checkpoint, Claim, SetState, hold
  <2>3. HostTypeOK'
    BY <1>0, <1>16, <2>1 DEF HostTypeOK, PromptState, Checkpoint, Send,
       rest
  <2>4. PastTypeOK'
    BY <1>0, <1>16, <2>1 DEF PastTypeOK, Checkpoint, past, rest
  <2>5. FrameTypeOK'
    BY <1>0, <1>16, <2>1 DEF FrameTypeOK, DrainStep, NoTurn, Checkpoint,
       Done, Goto, work
  <2>6. Focus'
    BY <1>0, <1>16, <2>1 DEF Focus, OnSteps, FrameTypeOK, CommandTypeOK,
       DrainStep, Checkpoint, Done, Goto, command, rest, work
  <2>7. Unsent'
    BY <1>0, <1>16, <2>1 DEF Unsent, StoreTypeOK, HostTypeOK, PastTypeOK,
       Checkpoint, Send, SetState, past, rest
  <2>8. PromptedOnce'
    BY <1>0, <1>16, <2>1 DEF PromptedOnce, Unsent, PastTypeOK, Checkpoint,
       past, rest
  <2>9. SeenIsTrue'
    BY <1>0, <1>16, <2>1 DEF SeenIsTrue, Focus, OnSteps, FrameTypeOK,
       HostTypeOK, Checkpoint, Done, Goto, Send, rest, work, Unsent,
       StoreTypeOK
  <2>10. AnswerBacksReply'
    BY <1>0, <1>16, <2>1 DEF AnswerBacksReply, StoreTypeOK, HostTypeOK,
       PastTypeOK, Checkpoint, Send, SetState, past, rest, Unsent
  <2>11. SchedTypeOK' /\ CommandTypeOK'
    BY <1>0, <1>16 DEF SchedTypeOK, CommandTypeOK, Checkpoint, command,
       counts, rest, sched
  <2> QED
    BY <2>2, <2>3, <2>4, <2>5, <2>6, <2>7, <2>8, <2>9, <2>10, <2>11 DEF
       IInv, TypeOK
<1>17. ASSUME NEW p \in Procs, PromptAcknowledged(p)
      PROVE  IInv'
  <2>1. cur[p] \in Turns
    BY <1>0, <1>17 DEF Focus, OnSteps, PromptAcknowledged, At
  <2>2. StoreTypeOK'
    BY <1>0, <1>17, <2>1 DEF StoreTypeOK, State, Terminal, Active,
       PromptAcknowledged, Confirmed, SetState, hold
  <2>3. FrameTypeOK'
    BY <1>0, <1>17, <2>1 DEF FrameTypeOK, DrainStep, NoTurn,
       PromptAcknowledged, Confirmed, Done, Goto, work
  <2>4. Focus'
    BY <1>0, <1>17, <2>1 DEF Focus, OnSteps, FrameTypeOK, CommandTypeOK,
       DrainStep, PromptAcknowledged, Confirmed, Done, Goto, rest, work
  <2>5. Unsent'
    BY <1>0, <1>17, <2>1 DEF Unsent, StoreTypeOK, HostTypeOK, PastTypeOK,
       PromptAcknowledged, Confirmed, SetState, rest
  <2>6. SeenIsTrue'
    BY <1>0, <1>17, <2>1 DEF SeenIsTrue, Focus, OnSteps, FrameTypeOK,
       HostTypeOK, PromptAcknowledged, Confirmed, Done, Goto, rest, work
  <2>7. AnswerBacksReply'
    BY <1>0, <1>17, <2>1 DEF AnswerBacksReply, StoreTypeOK, HostTypeOK,
       PastTypeOK, PromptAcknowledged, Confirmed, SetState, rest
  <2>8. /\ HostTypeOK'
       /\ PastTypeOK'
       /\ SchedTypeOK'
       /\ CommandTypeOK'
       /\ PromptedOnce'
    BY <1>0, <1>17 DEF HostTypeOK, PastTypeOK, SchedTypeOK, CommandTypeOK,
       PromptedOnce, PromptAcknowledged, rest
  <2> QED
    BY <2>2, <2>3, <2>4, <2>5, <2>6, <2>7, <2>8 DEF IInv, TypeOK
<1>18. ASSUME NEW p \in Procs, PromptFails(p)
      PROVE  IInv'
  <2>1. cur[p] \in Turns
    BY <1>0, <1>18 DEF Focus, OnSteps, PromptFails, At
  <2>2. FrameTypeOK'
    BY <1>0, <1>18, <2>1 DEF FrameTypeOK, DrainStep, NoTurn, PromptFails,
       Goto, work
  <2>3. Focus'
    BY <1>0, <1>18, <2>1 DEF Focus, OnSteps, FrameTypeOK, CommandTypeOK,
       DrainStep, PromptFails, Goto, rest, work
  <2>4. SeenIsTrue'
    BY <1>0, <1>18, <2>1 DEF SeenIsTrue, Focus, OnSteps, FrameTypeOK,
       HostTypeOK, PromptFails, Goto, rest, work
  <2>5. /\ StoreTypeOK'
       /\ HostTypeOK'
       /\ PastTypeOK'
       /\ SchedTypeOK'
       /\ CommandTypeOK'
       /\ Unsent'
       /\ PromptedOnce'
       /\ AnswerBacksReply'
    BY <1>0, <1>18 DEF StoreTypeOK, HostTypeOK, PastTypeOK, SchedTypeOK,
       CommandTypeOK, Unsent, PromptedOnce, AnswerBacksReply, PromptFails,
       rest, store
  <2> QED
    BY <2>2, <2>3, <2>4, <2>5 DEF IInv, TypeOK
<1>19. ASSUME NEW p \in Procs, RecheckAccepted(p)
      PROVE  IInv'
  <2>1. cur[p] \in Turns
    BY <1>0, <1>19 DEF Focus, OnSteps, RecheckAccepted, At
  <2>2. StoreTypeOK'
    BY <1>0, <1>19, <2>1 DEF StoreTypeOK, State, Terminal, Active,
       RecheckAccepted, Confirmed, SetState, hold
  <2>3. FrameTypeOK'
    BY <1>0, <1>19, <2>1 DEF FrameTypeOK, DrainStep, NoTurn,
       RecheckAccepted, Confirmed, Done, Goto, work
  <2>4. Focus'
    BY <1>0, <1>19, <2>1 DEF Focus, OnSteps, FrameTypeOK, CommandTypeOK,
       DrainStep, RecheckAccepted, Confirmed, Done, Goto, rest, work
  <2>5. Unsent'
    BY <1>0, <1>19, <2>1 DEF Unsent, StoreTypeOK, HostTypeOK, PastTypeOK,
       RecheckAccepted, Confirmed, SetState, rest
  <2>6. SeenIsTrue'
    BY <1>0, <1>19, <2>1 DEF SeenIsTrue, Focus, OnSteps, FrameTypeOK,
       HostTypeOK, RecheckAccepted, Confirmed, Done, Goto, rest, work
  <2>7. AnswerBacksReply'
    BY <1>0, <1>19, <2>1 DEF AnswerBacksReply, StoreTypeOK, HostTypeOK,
       PastTypeOK, RecheckAccepted, Confirmed, SetState, rest
  <2>8. /\ HostTypeOK'
       /\ PastTypeOK'
       /\ SchedTypeOK'
       /\ CommandTypeOK'
       /\ PromptedOnce'
    BY <1>0, <1>19 DEF HostTypeOK, PastTypeOK, SchedTypeOK, CommandTypeOK,
       PromptedOnce, RecheckAccepted, rest
  <2> QED
    BY <2>2, <2>3, <2>4, <2>5, <2>6, <2>7, <2>8 DEF IInv, TypeOK
<1>20. ASSUME NEW p \in Procs, RecheckUncertain(p)
      PROVE  IInv'
  <2>1. cur[p] \in Turns
    BY <1>0, <1>20 DEF Focus, OnSteps, RecheckUncertain, At
  <2>2. StoreTypeOK'
    BY <1>0, <1>20, <2>1, RescueKeepsType DEF StoreTypeOK, State,
       Terminal, Active, RecheckUncertain
  <2>3. FrameTypeOK'
    BY <1>0, <1>20, <2>1 DEF FrameTypeOK, DrainStep, NoTurn,
       RecheckUncertain, BeginRescue, Goto
  <2>4. Focus'
    BY <1>0, <1>20, <2>1 DEF Focus, OnSteps, FrameTypeOK, CommandTypeOK,
       DrainStep, RecheckUncertain, BeginRescue, Goto, rest
  <2>5. Unsent'
    BY <1>0, <1>20, <2>1 DEF Unsent, StoreTypeOK, HostTypeOK, PastTypeOK,
       RecheckUncertain, rest
  <2>6. SeenIsTrue'
    BY <1>0, <1>20, <2>1 DEF SeenIsTrue, Focus, OnSteps, FrameTypeOK,
       HostTypeOK, RecheckUncertain, BeginRescue, Goto, rest
  <2>7. AnswerBacksReply'
    BY <1>0, <1>20, <2>1 DEF AnswerBacksReply, StoreTypeOK, HostTypeOK,
       PastTypeOK, RecheckUncertain, rest
  <2>8. /\ HostTypeOK'
       /\ PastTypeOK'
       /\ SchedTypeOK'
       /\ CommandTypeOK'
       /\ PromptedOnce'
    BY <1>0, <1>20 DEF HostTypeOK, PastTypeOK, SchedTypeOK, CommandTypeOK,
       PromptedOnce, RecheckUncertain, rest
  <2> QED
    BY <2>2, <2>3, <2>4, <2>5, <2>6, <2>7, <2>8 DEF IInv, TypeOK
<1>21. ASSUME NEW p \in Procs, Verify(p)
      PROVE  IInv'
  <2>1. cur[p] \in Turns
    BY <1>0, <1>21 DEF Focus, OnSteps, Verify, At
  <2>2. StoreTypeOK'
    BY <1>0, <1>21, <2>1 DEF StoreTypeOK, State, Terminal, Active, Verify,
       Confirmed, SetState, hold
  <2>3. FrameTypeOK'
    BY <1>0, <1>21, <2>1 DEF FrameTypeOK, DrainStep, NoTurn, Verify,
       Confirmed, Done, Goto, Resume, Route, work
  <2>4. Focus'
    BY <1>0, <1>21, <2>1 DEF Focus, OnSteps, FrameTypeOK, CommandTypeOK,
       DrainStep, Verify, Confirmed, Done, Goto, Resume, Route, rest, work
  <2>5. Unsent'
    BY <1>0, <1>21, <2>1 DEF Unsent, StoreTypeOK, HostTypeOK, PastTypeOK,
       Verify, Confirmed, SetState, rest
  <2>6. SeenIsTrue'
    BY <1>0, <1>21, <2>1 DEF SeenIsTrue, Focus, OnSteps, FrameTypeOK,
       HostTypeOK, Verify, Confirmed, Done, Goto, Resume, Route, rest,
       work
  <2>7. AnswerBacksReply'
    BY <1>0, <1>21, <2>1 DEF AnswerBacksReply, StoreTypeOK, HostTypeOK,
       PastTypeOK, Verify, Confirmed, SetState, rest
  <2>8. /\ HostTypeOK'
       /\ PastTypeOK'
       /\ SchedTypeOK'
       /\ CommandTypeOK'
       /\ PromptedOnce'
    BY <1>0, <1>21 DEF HostTypeOK, PastTypeOK, SchedTypeOK, CommandTypeOK,
       PromptedOnce, Verify, rest
  <2> QED
    BY <2>2, <2>3, <2>4, <2>5, <2>6, <2>7, <2>8 DEF IInv, TypeOK
<1>22. ASSUME NEW p \in Procs, PollAnswered(p)
      PROVE  IInv'
  <2>1. cur[p] \in Turns
    BY <1>0, <1>22 DEF Focus, OnSteps, PollAnswered, At
  <2>2. StoreTypeOK'
    BY <1>0, <1>22, <2>1, FinishKeepsType DEF StoreTypeOK, State,
       Terminal, Active, PollAnswered, FinishUnchanged
  <2>3. FrameTypeOK'
    BY <1>0, <1>22, <2>1 DEF FrameTypeOK, DrainStep, NoTurn, PollAnswered,
       BeginFinish, Done, FinishUnchanged, Goto, Thrown
  <2>4. Focus'
    BY <1>0, <1>22, <2>1 DEF Focus, OnSteps, FrameTypeOK, CommandTypeOK,
       DrainStep, PollAnswered, BeginFinish, Done, FinishUnchanged, Goto,
       Thrown, rest
  <2>5. Unsent'
    BY <1>0, <1>22, <2>1 DEF Unsent, StoreTypeOK, HostTypeOK, PastTypeOK,
       PollAnswered, BeginFinish, FinishUnchanged, SetState, rest
  <2>6. SeenIsTrue'
    BY <1>0, <1>22, <2>1 DEF SeenIsTrue, Focus, OnSteps, FrameTypeOK,
       HostTypeOK, PollAnswered, BeginFinish, Done, FinishUnchanged, Goto,
       Thrown, rest
  <2>7. AnswerBacksReply'
    BY <1>0, <1>22, <2>1 DEF AnswerBacksReply, StoreTypeOK, HostTypeOK,
       PastTypeOK, PollAnswered, BeginFinish, FinishUnchanged, SetState,
       rest
  <2>8. /\ HostTypeOK'
       /\ PastTypeOK'
       /\ SchedTypeOK'
       /\ CommandTypeOK'
       /\ PromptedOnce'
    BY <1>0, <1>22 DEF HostTypeOK, PastTypeOK, SchedTypeOK, CommandTypeOK,
       PromptedOnce, PollAnswered, FinishUnchanged, rest
  <2> QED
    BY <2>2, <2>3, <2>4, <2>5, <2>6, <2>7, <2>8 DEF IInv, TypeOK
<1>23. ASSUME NEW p \in Procs, PollEnds(p)
      PROVE  IInv'
  <2>1. cur[p] \in Turns
    BY <1>0, <1>23 DEF Focus, OnSteps, PollEnds, At
  <2>2. FrameTypeOK'
    BY <1>0, <1>23, <2>1 DEF FrameTypeOK, DrainStep, NoTurn, PollEnds,
       Goto, work
  <2>3. Focus'
    BY <1>0, <1>23, <2>1 DEF Focus, OnSteps, FrameTypeOK, CommandTypeOK,
       DrainStep, PollEnds, Goto, rest, work
  <2>4. SeenIsTrue'
    BY <1>0, <1>23, <2>1 DEF SeenIsTrue, Focus, OnSteps, FrameTypeOK,
       HostTypeOK, PollEnds, Goto, rest, work
  <2>5. /\ StoreTypeOK'
       /\ HostTypeOK'
       /\ PastTypeOK'
       /\ SchedTypeOK'
       /\ CommandTypeOK'
       /\ Unsent'
       /\ PromptedOnce'
       /\ AnswerBacksReply'
    BY <1>0, <1>23 DEF StoreTypeOK, HostTypeOK, PastTypeOK, SchedTypeOK,
       CommandTypeOK, Unsent, PromptedOnce, AnswerBacksReply, PollEnds,
       rest, store
  <2> QED
    BY <2>2, <2>3, <2>4, <2>5 DEF IInv, TypeOK
<1>24. ASSUME NEW p \in Procs, Saved(p)
      PROVE  IInv'
  <2>1. cur[p] \in Turns
    BY <1>0, <1>24 DEF Focus, OnSteps, Saved, At
  <2>2. StoreTypeOK'
    BY <1>0, <1>24, <2>1, FinishKeepsType DEF StoreTypeOK, State,
       Terminal, Active, Saved, FinishUnchanged
  <2>3. FrameTypeOK'
    BY <1>0, <1>24, <2>1 DEF FrameTypeOK, DrainStep, NoTurn, Saved,
       BeginFinish, Done, FinishUnchanged, Goto, Thrown
  <2>4. Focus'
    BY <1>0, <1>24, <2>1 DEF Focus, OnSteps, FrameTypeOK, CommandTypeOK,
       DrainStep, Saved, BeginFinish, Done, FinishUnchanged, Goto, Thrown,
       rest
  <2>5. Unsent'
    BY <1>0, <1>24, <2>1 DEF Unsent, StoreTypeOK, HostTypeOK, PastTypeOK,
       Saved, BeginFinish, FinishUnchanged, SetState, rest
  <2>6. SeenIsTrue'
    BY <1>0, <1>24, <2>1 DEF SeenIsTrue, Focus, OnSteps, FrameTypeOK,
       HostTypeOK, Saved, BeginFinish, Done, FinishUnchanged, Goto,
       Thrown, rest
  <2>7. AnswerBacksReply'
    BY <1>0, <1>24, <2>1 DEF AnswerBacksReply, StoreTypeOK, HostTypeOK,
       PastTypeOK, Saved, BeginFinish, FinishUnchanged, SetState, rest
  <2>8. /\ HostTypeOK'
       /\ PastTypeOK'
       /\ SchedTypeOK'
       /\ CommandTypeOK'
       /\ PromptedOnce'
    BY <1>0, <1>24 DEF HostTypeOK, PastTypeOK, SchedTypeOK, CommandTypeOK,
       PromptedOnce, Saved, FinishUnchanged, rest
  <2> QED
    BY <2>2, <2>3, <2>4, <2>5, <2>6, <2>7, <2>8 DEF IInv, TypeOK
<1>25. ASSUME NEW p \in Procs, Stuck(p)
      PROVE  IInv'
  <2>1. cur[p] \in Turns
    BY <1>0, <1>25 DEF Focus, OnSteps, Stuck, At
  <2>2. StoreTypeOK'
    BY <1>0, <1>25, <2>1, RescueKeepsType DEF StoreTypeOK, State,
       Terminal, Active, Stuck
  <2>3. FrameTypeOK'
    BY <1>0, <1>25, <2>1 DEF FrameTypeOK, DrainStep, NoTurn, Stuck,
       BeginRescue, Goto
  <2>4. Focus'
    BY <1>0, <1>25, <2>1 DEF Focus, OnSteps, FrameTypeOK, CommandTypeOK,
       DrainStep, Stuck, BeginRescue, Goto, rest
  <2>5. SeenIsTrue'
    BY <1>0, <1>25, <2>1 DEF SeenIsTrue, Focus, OnSteps, FrameTypeOK,
       HostTypeOK, Stuck, BeginRescue, Goto, rest
  <2>6. /\ HostTypeOK'
       /\ PastTypeOK'
       /\ SchedTypeOK'
       /\ CommandTypeOK'
       /\ Unsent'
       /\ PromptedOnce'
       /\ AnswerBacksReply'
    BY <1>0, <1>25 DEF HostTypeOK, PastTypeOK, SchedTypeOK, CommandTypeOK,
       Unsent, PromptedOnce, AnswerBacksReply, Stuck, rest
  <2> QED
    BY <2>2, <2>3, <2>4, <2>5, <2>6 DEF IInv, TypeOK
<1>26. ASSUME NEW p \in Procs, Ambiguous(p)
      PROVE  IInv'
  <2>1. cur[p] \in Turns
    BY <1>0, <1>26 DEF Focus, OnSteps, Ambiguous, At
  <2>2. StoreTypeOK'
    BY <1>0, <1>26, <2>1 DEF StoreTypeOK, State, Terminal, Active,
       Ambiguous, LosesReply, SetState
  <2>3. FrameTypeOK'
    BY <1>0, <1>26, <2>1 DEF FrameTypeOK, DrainStep, NoTurn, Ambiguous,
       Done, Goto, work
  <2>4. Focus'
    BY <1>0, <1>26, <2>1 DEF Focus, OnSteps, FrameTypeOK, CommandTypeOK,
       DrainStep, Ambiguous, Done, Goto, rest, work
  <2>5. Unsent'
    BY <1>0, <1>26, <2>1 DEF Unsent, StoreTypeOK, HostTypeOK, PastTypeOK,
       Ambiguous, LosesReply, SetState, rest
  <2>6. SeenIsTrue'
    BY <1>0, <1>26, <2>1 DEF SeenIsTrue, Focus, OnSteps, FrameTypeOK,
       HostTypeOK, Ambiguous, Done, Goto, rest, work
  <2>7. AnswerBacksReply'
    BY <1>0, <1>26, <2>1 DEF AnswerBacksReply, StoreTypeOK, HostTypeOK,
       PastTypeOK, Ambiguous, LosesReply, SetState, rest
  <2>8. /\ HostTypeOK'
       /\ PastTypeOK'
       /\ SchedTypeOK'
       /\ CommandTypeOK'
       /\ PromptedOnce'
    BY <1>0, <1>26 DEF HostTypeOK, PastTypeOK, SchedTypeOK, CommandTypeOK,
       PromptedOnce, Ambiguous, rest
  <2> QED
    BY <2>2, <2>3, <2>4, <2>5, <2>6, <2>7, <2>8 DEF IInv, TypeOK
<1>27. ASSUME NEW p \in Procs, Catch(p)
      PROVE  IInv'
  <2>1. cur[p] \in Turns
    BY <1>0, <1>27 DEF Focus, OnSteps, Catch, At
  <2>2. StoreTypeOK'
    BY <1>0, <1>27, <2>1 DEF StoreTypeOK, State, Terminal, Active, Catch,
       SetState, hold
  <2>3. PastTypeOK'
    BY <1>0, <1>27, <2>1, BoundAssumption DEF PastTypeOK, Catch,
       NextRetry, past, rest
  <2>4. SchedTypeOK'
    <3>1. <<cur[p]>> \o queue[p] \in Seq(Turns)
      BY <1>0, <2>1, QueueTakes
    <3> QED
      BY <1>0, <1>27, <3>1 DEF SchedTypeOK, Catch
  <2>5. FrameTypeOK'
    BY <1>0, <1>27, <2>1 DEF FrameTypeOK, DrainStep, NoTurn, Catch, Done,
       Goto
  <2>6. Focus'
    BY <1>0, <1>27, <2>1 DEF Focus, OnSteps, FrameTypeOK, CommandTypeOK,
       DrainStep, Catch, Done, Goto, command, rest
  <2>7. Unsent'
    BY <1>0, <1>27, <2>1 DEF Unsent, StoreTypeOK, HostTypeOK, PastTypeOK,
       Catch, SetState, past, rest
  <2>8. SeenIsTrue'
    BY <1>0, <1>27, <2>1 DEF SeenIsTrue, Focus, OnSteps, FrameTypeOK,
       HostTypeOK, Catch, Done, Goto, rest
  <2>9. AnswerBacksReply'
    BY <1>0, <1>27, <2>1 DEF AnswerBacksReply, StoreTypeOK, HostTypeOK,
       PastTypeOK, Catch, SetState, past, rest
  <2>10. HostTypeOK' /\ CommandTypeOK' /\ PromptedOnce'
    BY <1>0, <1>27 DEF HostTypeOK, CommandTypeOK, PromptedOnce, Catch,
       command, counts, past, rest
  <2> QED
    BY <2>2, <2>3, <2>4, <2>5, <2>6, <2>7, <2>8, <2>9, <2>10 DEF IInv,
       TypeOK
<1>28. ASSUME NEW p \in Procs, Returned(p)
      PROVE  IInv'
  <2>1. cur[p] \in Turns
    BY <1>0, <1>28 DEF Focus, OnSteps, Returned, At
  <2>2. SchedTypeOK'
    BY <1>0, <1>28, <2>1 DEF SchedTypeOK, Returned, rest, sched
  <2>3. FrameTypeOK'
    BY <1>0, <1>28, <2>1 DEF FrameTypeOK, DrainStep, NoTurn, Returned,
       Goto
  <2>4. Focus'
    BY <1>0, <1>28, <2>1 DEF Focus, OnSteps, FrameTypeOK, CommandTypeOK,
       DrainStep, Returned, Goto, command, rest
  <2>5. SeenIsTrue'
    BY <1>0, <1>28, <2>1 DEF SeenIsTrue, Focus, OnSteps, FrameTypeOK,
       HostTypeOK, Returned, Goto, rest
  <2>6. /\ StoreTypeOK'
       /\ HostTypeOK'
       /\ PastTypeOK'
       /\ CommandTypeOK'
       /\ Unsent'
       /\ PromptedOnce'
       /\ AnswerBacksReply'
    BY <1>0, <1>28 DEF StoreTypeOK, HostTypeOK, PastTypeOK, CommandTypeOK,
       Unsent, PromptedOnce, AnswerBacksReply, Returned, command, counts,
       hold, past, rest, store
  <2> QED
    BY <2>2, <2>3, <2>4, <2>5, <2>6 DEF IInv, TypeOK
<1>29. ASSUME NEW p \in Procs, Rescued(p)
      PROVE  IInv'
  <2>1. cur[p] \in Turns
    BY <1>0, <1>29 DEF Focus, OnSteps, Rescued, At
  <2>2. StoreTypeOK'
    BY <1>0, <1>29, <2>1, FinishKeepsType DEF StoreTypeOK, State,
       Terminal, Active, Rescued, FinishUnchanged
  <2>3. FrameTypeOK'
    BY <1>0, <1>29, <2>1 DEF FrameTypeOK, DrainStep, NoTurn, Rescued,
       BeginFinish, Done, FinishUnchanged, Goto, Thrown
  <2>4. Focus'
    BY <1>0, <1>29, <2>1 DEF Focus, OnSteps, FrameTypeOK, CommandTypeOK,
       DrainStep, Rescued, BeginFinish, Done, FinishUnchanged, Goto,
       Thrown, rest
  <2>5. Unsent'
    BY <1>0, <1>29, <2>1 DEF Unsent, StoreTypeOK, HostTypeOK, PastTypeOK,
       Rescued, BeginFinish, FinishUnchanged, SetState, rest
  <2>6. SeenIsTrue'
    BY <1>0, <1>29, <2>1 DEF SeenIsTrue, Focus, OnSteps, FrameTypeOK,
       HostTypeOK, Rescued, BeginFinish, Done, FinishUnchanged, Goto,
       Thrown, rest
  <2>7. AnswerBacksReply'
    BY <1>0, <1>29, <2>1 DEF AnswerBacksReply, StoreTypeOK, HostTypeOK,
       PastTypeOK, Rescued, BeginFinish, FinishUnchanged, SetState, rest
  <2>8. /\ HostTypeOK'
       /\ PastTypeOK'
       /\ SchedTypeOK'
       /\ CommandTypeOK'
       /\ PromptedOnce'
    BY <1>0, <1>29 DEF HostTypeOK, PastTypeOK, SchedTypeOK, CommandTypeOK,
       PromptedOnce, Rescued, FinishUnchanged, rest
  <2> QED
    BY <2>2, <2>3, <2>4, <2>5, <2>6, <2>7, <2>8 DEF IInv, TypeOK
<1>30. ASSUME NEW p \in Procs, PrepareRefuses(p)
      PROVE  IInv'
  <2>1. cur[p] \in Turns /\ on[p] \in Turns
    BY <1>0, <1>30 DEF Focus, OnSteps, PrepareRefuses, At
  <2>2. StoreTypeOK'
    BY <1>0, <1>30, <2>1 DEF StoreTypeOK, State, Terminal, Active,
       PrepareRefuses, Fresh, ReplyFails, SetState, hold
  <2>3. SchedTypeOK'
    BY <1>0, <1>30, <2>1, FailureKeepsQueue DEF SchedTypeOK,
       PrepareRefuses, rest, sched
  <2>4. FrameTypeOK'
    BY <1>0, <1>30, <2>1 DEF FrameTypeOK, DrainStep, NoTurn,
       PrepareRefuses, Done, Goto, work
  <2>5. Focus'
    BY <1>0, <1>30, <2>1 DEF Focus, OnSteps, FrameTypeOK, CommandTypeOK,
       DrainStep, PrepareRefuses, Done, Goto, command, rest, work
  <2>6. Unsent'
    BY <1>0, <1>30, <2>1 DEF Unsent, StoreTypeOK, HostTypeOK, PastTypeOK,
       PrepareRefuses, Fresh, ReplyFails, SetState, past, rest
  <2>7. SeenIsTrue'
    BY <1>0, <1>30, <2>1 DEF SeenIsTrue, Focus, OnSteps, FrameTypeOK,
       HostTypeOK, PrepareRefuses, Done, Goto, rest, work
  <2>8. AnswerBacksReply'
    BY <1>0, <1>30, <2>1 DEF AnswerBacksReply, StoreTypeOK, HostTypeOK,
       PastTypeOK, PrepareRefuses, Fresh, ReplyFails, SetState, past, rest
  <2>9. HostTypeOK' /\ PastTypeOK' /\ CommandTypeOK' /\ PromptedOnce'
    BY <1>0, <1>30 DEF HostTypeOK, PastTypeOK, CommandTypeOK,
       PromptedOnce, PrepareRefuses, command, counts, past, rest
  <2> QED
    BY <2>2, <2>3, <2>4, <2>5, <2>6, <2>7, <2>8, <2>9 DEF IInv, TypeOK
<1>31. ASSUME NEW p \in Procs, PrepareFails(p)
      PROVE  IInv'
  <2>1. cur[p] \in Turns /\ on[p] \in Turns
    BY <1>0, <1>31 DEF Focus, OnSteps, PrepareFails, At
  <2>2. FrameTypeOK'
    BY <1>0, <1>31, <2>1 DEF FrameTypeOK, DrainStep, NoTurn, PrepareFails,
       Goto, Thrown, work
  <2>3. Focus'
    BY <1>0, <1>31, <2>1 DEF Focus, OnSteps, FrameTypeOK, CommandTypeOK,
       DrainStep, PrepareFails, Goto, Thrown, rest, work
  <2>4. SeenIsTrue'
    BY <1>0, <1>31, <2>1 DEF SeenIsTrue, Focus, OnSteps, FrameTypeOK,
       HostTypeOK, PrepareFails, Goto, Thrown, rest, work
  <2>5. /\ StoreTypeOK'
       /\ HostTypeOK'
       /\ PastTypeOK'
       /\ SchedTypeOK'
       /\ CommandTypeOK'
       /\ Unsent'
       /\ PromptedOnce'
       /\ AnswerBacksReply'
    BY <1>0, <1>31 DEF StoreTypeOK, HostTypeOK, PastTypeOK, SchedTypeOK,
       CommandTypeOK, Unsent, PromptedOnce, AnswerBacksReply,
       PrepareFails, rest, store
  <2> QED
    BY <2>2, <2>3, <2>4, <2>5 DEF IInv, TypeOK
<1>32. ASSUME NEW p \in Procs, Post(p)
      PROVE  IInv'
  <2>1. cur[p] \in Turns /\ on[p] \in Turns
    BY <1>0, <1>32 DEF Focus, OnSteps, Post, At
  <2>2. StoreTypeOK'
    BY <1>0, <1>32, <2>1 DEF StoreTypeOK, State, Terminal, Active, Post,
       OwnedIn, SetState, hold
  <2>3. PastTypeOK'
    BY <1>0, <1>32, <2>1 DEF PastTypeOK, Post, past, rest
  <2>4. FrameTypeOK'
    BY <1>0, <1>32, <2>1 DEF FrameTypeOK, DrainStep, NoTurn, Post, Done,
       Goto, Thrown, work
  <2>5. Focus'
    BY <1>0, <1>32, <2>1 DEF Focus, OnSteps, FrameTypeOK, CommandTypeOK,
       DrainStep, Post, Done, Goto, Thrown, command, rest, work
  <2>6. Unsent'
    BY <1>0, <1>32, <2>1 DEF Unsent, StoreTypeOK, HostTypeOK, PastTypeOK,
       Post, OwnedIn, SetState, past, rest
  <2>7. SeenIsTrue'
    BY <1>0, <1>32, <2>1 DEF SeenIsTrue, Focus, OnSteps, FrameTypeOK,
       HostTypeOK, Post, Done, Goto, Thrown, rest, work
  <2>8. AnswerBacksReply'
    BY <1>0, <1>32, <2>1 DEF AnswerBacksReply, StoreTypeOK, HostTypeOK,
       PastTypeOK, Post, OwnedIn, SetState, past, rest
  <2>9. HostTypeOK' /\ SchedTypeOK' /\ CommandTypeOK' /\ PromptedOnce'
    BY <1>0, <1>32 DEF HostTypeOK, SchedTypeOK, CommandTypeOK,
       PromptedOnce, Post, command, counts, past, rest, sched
  <2> QED
    BY <2>2, <2>3, <2>4, <2>5, <2>6, <2>7, <2>8, <2>9 DEF IInv, TypeOK
<1>33. ASSUME NEW p \in Procs, PostSucceeds(p)
      PROVE  IInv'
  <2>1. cur[p] \in Turns /\ on[p] \in Turns
    BY <1>0, <1>33 DEF Focus, OnSteps, PostSucceeds, At
  <2>2. StoreTypeOK'
    BY <1>0, <1>33, <2>1 DEF StoreTypeOK, State, Terminal, Active,
       PostSucceeds, SetState, hold
  <2>3. FrameTypeOK'
    BY <1>0, <1>33, <2>1 DEF FrameTypeOK, DrainStep, NoTurn, PostSucceeds,
       Done, Goto, work
  <2>4. Focus'
    BY <1>0, <1>33, <2>1 DEF Focus, OnSteps, FrameTypeOK, CommandTypeOK,
       DrainStep, PostSucceeds, Done, Goto, rest, work
  <2>5. Unsent'
    BY <1>0, <1>33, <2>1 DEF Unsent, StoreTypeOK, HostTypeOK, PastTypeOK,
       PostSucceeds, SetState, rest
  <2>6. SeenIsTrue'
    BY <1>0, <1>33, <2>1 DEF SeenIsTrue, Focus, OnSteps, FrameTypeOK,
       HostTypeOK, PostSucceeds, Done, Goto, rest, work
  <2>7. AnswerBacksReply'
    BY <1>0, <1>33, <2>1 DEF AnswerBacksReply, StoreTypeOK, HostTypeOK,
       PastTypeOK, PostSucceeds, SetState, rest
  <2>8. /\ HostTypeOK'
       /\ PastTypeOK'
       /\ SchedTypeOK'
       /\ CommandTypeOK'
       /\ PromptedOnce'
    BY <1>0, <1>33 DEF HostTypeOK, PastTypeOK, SchedTypeOK, CommandTypeOK,
       PromptedOnce, PostSucceeds, rest
  <2> QED
    BY <2>2, <2>3, <2>4, <2>5, <2>6, <2>7, <2>8 DEF IInv, TypeOK
<1>34. ASSUME NEW p \in Procs, PostFails(p)
      PROVE  IInv'
  <2>1. cur[p] \in Turns /\ on[p] \in Turns
    BY <1>0, <1>34 DEF Focus, OnSteps, PostFails, At
  <2>2. StoreTypeOK'
    BY <1>0, <1>34, <2>1 DEF StoreTypeOK, State, Terminal, Active,
       PostFails, Fresh, ReplyFails, SetState, hold
  <2>3. SchedTypeOK'
    BY <1>0, <1>34, <2>1, FailureKeepsQueue DEF SchedTypeOK, PostFails,
       rest, sched
  <2>4. FrameTypeOK'
    BY <1>0, <1>34, <2>1 DEF FrameTypeOK, DrainStep, NoTurn, PostFails,
       Done, Goto, work
  <2>5. Focus'
    BY <1>0, <1>34, <2>1 DEF Focus, OnSteps, FrameTypeOK, CommandTypeOK,
       DrainStep, PostFails, Done, Goto, command, rest, work
  <2>6. Unsent'
    BY <1>0, <1>34, <2>1 DEF Unsent, StoreTypeOK, HostTypeOK, PastTypeOK,
       PostFails, Fresh, ReplyFails, SetState, past, rest
  <2>7. SeenIsTrue'
    BY <1>0, <1>34, <2>1 DEF SeenIsTrue, Focus, OnSteps, FrameTypeOK,
       HostTypeOK, PostFails, Done, Goto, rest, work
  <2>8. AnswerBacksReply'
    BY <1>0, <1>34, <2>1 DEF AnswerBacksReply, StoreTypeOK, HostTypeOK,
       PastTypeOK, PostFails, Fresh, ReplyFails, SetState, past, rest
  <2>9. HostTypeOK' /\ PastTypeOK' /\ CommandTypeOK' /\ PromptedOnce'
    BY <1>0, <1>34 DEF HostTypeOK, PastTypeOK, CommandTypeOK,
       PromptedOnce, PostFails, command, counts, past, rest
  <2> QED
    BY <2>2, <2>3, <2>4, <2>5, <2>6, <2>7, <2>8, <2>9 DEF IInv, TypeOK
<1>35. ASSUME NEW p \in Procs, Messages(p)
      PROVE  IInv'
  <2>1. cur[p] \in Turns /\ on[p] \in Turns
    BY <1>0, <1>35 DEF Focus, OnSteps, Messages, At
  <2>2. FrameTypeOK'
    BY <1>0, <1>35, <2>1 DEF FrameTypeOK, DrainStep, NoTurn, Messages,
       Goto
  <2>3. Focus'
    BY <1>0, <1>35, <2>1 DEF Focus, OnSteps, FrameTypeOK, CommandTypeOK,
       DrainStep, Messages, Goto, rest
  <2>4. SeenIsTrue'
    BY <1>0, <1>35, <2>1 DEF SeenIsTrue, Focus, OnSteps, FrameTypeOK,
       HostTypeOK, Messages, Goto, rest
  <2>5. /\ StoreTypeOK'
       /\ HostTypeOK'
       /\ PastTypeOK'
       /\ SchedTypeOK'
       /\ CommandTypeOK'
       /\ Unsent'
       /\ PromptedOnce'
       /\ AnswerBacksReply'
    BY <1>0, <1>35 DEF StoreTypeOK, HostTypeOK, PastTypeOK, SchedTypeOK,
       CommandTypeOK, Unsent, PromptedOnce, AnswerBacksReply, Messages,
       rest, store
  <2> QED
    BY <2>2, <2>3, <2>4, <2>5 DEF IInv, TypeOK
<1>36. ASSUME NEW p \in Procs, Status(p)
      PROVE  IInv'
  <2>1. cur[p] \in Turns /\ on[p] \in Turns
    BY <1>0, <1>36 DEF Focus, OnSteps, Status, At
  <2>2. StoreTypeOK'
    BY <1>0, <1>36, <2>1, FinishKeepsType DEF StoreTypeOK, State,
       Terminal, Active, Status
  <2>3. FrameTypeOK'
    BY <1>0, <1>36, <2>1 DEF FrameTypeOK, DrainStep, NoTurn, Status,
       BeginFinish, Done, Goto, Thrown
  <2>4. Focus'
    BY <1>0, <1>36, <2>1 DEF Focus, OnSteps, FrameTypeOK, CommandTypeOK,
       DrainStep, Status, BeginFinish, Done, Goto, Thrown, rest
  <2>5. Unsent'
    BY <1>0, <1>36, <2>1 DEF Unsent, StoreTypeOK, HostTypeOK, PastTypeOK,
       Status, BeginFinish, SetState, rest
  <2>6. SeenIsTrue'
    BY <1>0, <1>36, <2>1 DEF SeenIsTrue, Focus, OnSteps, FrameTypeOK,
       HostTypeOK, Status, BeginFinish, Done, Goto, Thrown, rest
  <2>7. AnswerBacksReply'
    <3>1. UNCHANGED <<host, posts>>
      BY <1>36 DEF Status, rest
    <3>2. CASE seen[p] /\ Idle
      <4>1. host[on[p]] = "answered"
        BY <1>0, <1>36, <3>2 DEF SeenIsTrue, Status, At
      <4>2. \E s \in State : st' = [st EXCEPT ![on[p]] = s]
        BY <1>36, <3>2 DEF Status, BeginFinish, SetState, State, Terminal, Active
      <4> QED
        BY <1>0, <2>1, <3>1, <4>1, <4>2 DEF AnswerBacksReply, StoreTypeOK
    <3>3. CASE UNCHANGED st
      BY <1>0, <3>1, <3>3 DEF AnswerBacksReply
    <3> QED
      BY <1>36, <3>2, <3>3 DEF Status
  <2>8. /\ HostTypeOK'
       /\ PastTypeOK'
       /\ SchedTypeOK'
       /\ CommandTypeOK'
       /\ PromptedOnce'
    BY <1>0, <1>36 DEF HostTypeOK, PastTypeOK, SchedTypeOK, CommandTypeOK,
       PromptedOnce, Status, rest
  <2> QED
    BY <2>2, <2>3, <2>4, <2>5, <2>6, <2>7, <2>8 DEF IInv, TypeOK
<1>37. ASSUME NEW p \in Procs, AbortAcknowledged(p)
      PROVE  IInv'
  <2>1. cur[p] \in Turns /\ on[p] \in Turns
    BY <1>0, <1>37 DEF Focus, OnSteps, AbortAcknowledged, At
  <2>2. HostTypeOK'
    BY <1>0, <1>37, <2>1 DEF HostTypeOK, PromptState, AbortAcknowledged,
       AbortEffect, rest
  <2>3. FrameTypeOK'
    BY <1>0, <1>37, <2>1 DEF FrameTypeOK, DrainStep, NoTurn,
       AbortAcknowledged, Goto, work
  <2>4. Focus'
    BY <1>0, <1>37, <2>1 DEF Focus, OnSteps, FrameTypeOK, CommandTypeOK,
       DrainStep, AbortAcknowledged, Goto, command, rest, work
  <2>5. Unsent'
    BY <1>0, <1>37, <2>1 DEF Unsent, StoreTypeOK, HostTypeOK, PastTypeOK,
       AbortAcknowledged, AbortEffect, past, rest, store
  <2>6. SeenIsTrue'
    BY <1>0, <1>37, <2>1 DEF SeenIsTrue, Focus, OnSteps, FrameTypeOK,
       HostTypeOK, AbortAcknowledged, AbortEffect, Goto, rest, work
  <2>7. AnswerBacksReply'
    BY <1>0, <1>37, <2>1 DEF AnswerBacksReply, StoreTypeOK, HostTypeOK,
       PastTypeOK, AbortAcknowledged, AbortEffect, past, rest, store
  <2>8. /\ StoreTypeOK'
       /\ PastTypeOK'
       /\ SchedTypeOK'
       /\ CommandTypeOK'
       /\ PromptedOnce'
    BY <1>0, <1>37 DEF StoreTypeOK, PastTypeOK, SchedTypeOK,
       CommandTypeOK, PromptedOnce, AbortAcknowledged, command, counts,
       hold, past, rest, sched, store
  <2> QED
    BY <2>2, <2>3, <2>4, <2>5, <2>6, <2>7, <2>8 DEF IInv, TypeOK
<1>38. ASSUME NEW p \in Procs, ConfirmIdle(p)
      PROVE  IInv'
  <2>1. cur[p] \in Turns /\ on[p] \in Turns
    BY <1>0, <1>38 DEF Focus, OnSteps, ConfirmIdle, At
  <2>2. StoreTypeOK'
    BY <1>0, <1>38, <2>1 DEF StoreTypeOK, State, Terminal, Active,
       ConfirmIdle
  <2>3. FrameTypeOK'
    BY <1>0, <1>38, <2>1 DEF FrameTypeOK, DrainStep, NoTurn, ConfirmIdle,
       Goto, work
  <2>4. Focus'
    BY <1>0, <1>38, <2>1 DEF Focus, OnSteps, FrameTypeOK, CommandTypeOK,
       DrainStep, ConfirmIdle, Goto, rest, work
  <2>5. SeenIsTrue'
    BY <1>0, <1>38, <2>1 DEF SeenIsTrue, Focus, OnSteps, FrameTypeOK,
       HostTypeOK, ConfirmIdle, Goto, rest, work
  <2>6. /\ HostTypeOK'
       /\ PastTypeOK'
       /\ SchedTypeOK'
       /\ CommandTypeOK'
       /\ Unsent'
       /\ PromptedOnce'
       /\ AnswerBacksReply'
    BY <1>0, <1>38 DEF HostTypeOK, PastTypeOK, SchedTypeOK, CommandTypeOK,
       Unsent, PromptedOnce, AnswerBacksReply, ConfirmIdle, rest
  <2> QED
    BY <2>2, <2>3, <2>4, <2>5, <2>6 DEF IInv, TypeOK
<1>39. ASSUME NEW p \in Procs, RescueFails(p)
      PROVE  IInv'
  <2>1. cur[p] \in Turns /\ on[p] \in Turns
    BY <1>0, <1>39 DEF Focus, OnSteps, RescueFails, At
  <2>2. HostTypeOK'
    BY <1>0, <1>39, <2>1 DEF HostTypeOK, PromptState, RescueFails,
       AbortEffect, rest
  <2>3. FrameTypeOK'
    BY <1>0, <1>39, <2>1 DEF FrameTypeOK, DrainStep, NoTurn, RescueFails,
       Goto, Thrown
  <2>4. Focus'
    BY <1>0, <1>39, <2>1 DEF Focus, OnSteps, FrameTypeOK, CommandTypeOK,
       DrainStep, RescueFails, Goto, Thrown, command, rest
  <2>5. Unsent'
    BY <1>0, <1>39, <2>1 DEF Unsent, StoreTypeOK, HostTypeOK, PastTypeOK,
       RescueFails, AbortEffect, past, rest, store
  <2>6. SeenIsTrue'
    BY <1>0, <1>39, <2>1 DEF SeenIsTrue, Focus, OnSteps, FrameTypeOK,
       HostTypeOK, RescueFails, AbortEffect, Goto, Thrown, rest
  <2>7. AnswerBacksReply'
    BY <1>0, <1>39, <2>1 DEF AnswerBacksReply, StoreTypeOK, HostTypeOK,
       PastTypeOK, RescueFails, AbortEffect, past, rest, store
  <2>8. /\ StoreTypeOK'
       /\ PastTypeOK'
       /\ SchedTypeOK'
       /\ CommandTypeOK'
       /\ PromptedOnce'
    BY <1>0, <1>39 DEF StoreTypeOK, PastTypeOK, SchedTypeOK,
       CommandTypeOK, PromptedOnce, RescueFails, command, counts, hold,
       past, rest, sched, store
  <2> QED
    BY <2>2, <2>3, <2>4, <2>5, <2>6, <2>7, <2>8 DEF IInv, TypeOK
<1>40. ASSUME NEW p \in Procs, StopBegins(p)
      PROVE  IInv'
  <2>1. CommandTypeOK'
    BY <1>0, <1>40, BoundAssumption DEF CommandTypeOK, NoTurn, StopBegins
  <2>2. Focus'
    BY <1>0, <1>40 DEF Focus, OnSteps, FrameTypeOK, CommandTypeOK,
       DrainStep, StopBegins, frame
  <2>3. /\ StoreTypeOK'
       /\ HostTypeOK'
       /\ PastTypeOK'
       /\ SchedTypeOK'
       /\ FrameTypeOK'
       /\ Unsent'
       /\ PromptedOnce'
       /\ SeenIsTrue'
       /\ AnswerBacksReply'
    BY <1>0, <1>40 DEF StoreTypeOK, HostTypeOK, PastTypeOK, SchedTypeOK,
       FrameTypeOK, Unsent, PromptedOnce, SeenIsTrue, AnswerBacksReply,
       StopBegins, frame, past, sched, store
  <2> QED
    BY <2>1, <2>2, <2>3 DEF IInv, TypeOK
<1>41. ASSUME NEW p \in Procs, StopNext(p)
      PROVE  IInv'
  <2>1. StoreTypeOK'
    BY <1>0, <1>41 DEF StoreTypeOK, State, Terminal, Active, StopNext,
       SetState
  <2>2. CommandTypeOK'
    BY <1>0, <1>41 DEF CommandTypeOK, NoTurn, StopNext, counts
  <2>3. Focus'
    BY <1>0, <1>41 DEF Focus, OnSteps, FrameTypeOK, CommandTypeOK,
       DrainStep, StopNext, Done, frame
  <2>4. Unsent'
    BY <1>0, <1>41 DEF Unsent, StoreTypeOK, HostTypeOK, PastTypeOK,
       StopNext, SetState, past
  <2>5. AnswerBacksReply'
    BY <1>0, <1>41 DEF AnswerBacksReply, StoreTypeOK, HostTypeOK,
       PastTypeOK, StopNext, SetState, past
  <2>6. /\ HostTypeOK'
       /\ PastTypeOK'
       /\ SchedTypeOK'
       /\ FrameTypeOK'
       /\ PromptedOnce'
       /\ SeenIsTrue'
    BY <1>0, <1>41 DEF HostTypeOK, PastTypeOK, SchedTypeOK, FrameTypeOK,
       PromptedOnce, SeenIsTrue, StopNext, frame, past, sched
  <2> QED
    BY <2>1, <2>2, <2>3, <2>4, <2>5, <2>6 DEF IInv, TypeOK
<1>42. ASSUME NEW p \in Procs, StopAborts(p)
      PROVE  IInv'
  <2>1. son[p] \in Turns
    BY <1>0, <1>42 DEF Focus, OnSteps, StopAborts
  <2>2. HostTypeOK'
    BY <1>0, <1>42, <2>1 DEF HostTypeOK, PromptState, StopAborts,
       AbortEffect
  <2>3. CommandTypeOK'
    BY <1>0, <1>42, <2>1 DEF CommandTypeOK, NoTurn, StopAborts, counts
  <2>4. Focus'
    BY <1>0, <1>42, <2>1 DEF Focus, OnSteps, FrameTypeOK, CommandTypeOK,
       DrainStep, StopAborts, frame
  <2>5. Unsent'
    BY <1>0, <1>42, <2>1 DEF Unsent, StoreTypeOK, HostTypeOK, PastTypeOK,
       StopAborts, AbortEffect, past, store
  <2>6. SeenIsTrue'
    BY <1>0, <1>42, <2>1 DEF SeenIsTrue, Focus, OnSteps, FrameTypeOK,
       HostTypeOK, StopAborts, AbortEffect, frame
  <2>7. AnswerBacksReply'
    BY <1>0, <1>42, <2>1 DEF AnswerBacksReply, StoreTypeOK, HostTypeOK,
       PastTypeOK, StopAborts, AbortEffect, past, store
  <2>8. /\ StoreTypeOK'
       /\ PastTypeOK'
       /\ SchedTypeOK'
       /\ FrameTypeOK'
       /\ PromptedOnce'
    BY <1>0, <1>42 DEF StoreTypeOK, PastTypeOK, SchedTypeOK, FrameTypeOK,
       PromptedOnce, StopAborts, frame, past, sched, store
  <2> QED
    BY <2>2, <2>3, <2>4, <2>5, <2>6, <2>7, <2>8 DEF IInv, TypeOK
<1>43. ASSUME NEW p \in Procs, StopConfirms(p)
      PROVE  IInv'
  <2>1. son[p] \in Turns
    BY <1>0, <1>43 DEF Focus, OnSteps, StopConfirms
  <2>2. StoreTypeOK'
    BY <1>0, <1>43, <2>1 DEF StoreTypeOK, State, Terminal, Active,
       StopConfirms
  <2>3. CommandTypeOK'
    BY <1>0, <1>43, <2>1 DEF CommandTypeOK, NoTurn, StopConfirms, counts
  <2>4. Focus'
    BY <1>0, <1>43, <2>1 DEF Focus, OnSteps, FrameTypeOK, CommandTypeOK,
       DrainStep, StopConfirms, frame
  <2>5. Unsent'
    BY <1>0, <1>43, <2>1 DEF Unsent, StoreTypeOK, HostTypeOK, PastTypeOK,
       StopConfirms, past
  <2>6. AnswerBacksReply'
    BY <1>0, <1>43, <2>1 DEF AnswerBacksReply, StoreTypeOK, HostTypeOK,
       PastTypeOK, StopConfirms, past
  <2>7. /\ HostTypeOK'
       /\ PastTypeOK'
       /\ SchedTypeOK'
       /\ FrameTypeOK'
       /\ PromptedOnce'
       /\ SeenIsTrue'
    BY <1>0, <1>43 DEF HostTypeOK, PastTypeOK, SchedTypeOK, FrameTypeOK,
       PromptedOnce, SeenIsTrue, StopConfirms, frame, past, sched
  <2> QED
    BY <2>2, <2>3, <2>4, <2>5, <2>6, <2>7 DEF IInv, TypeOK
<1>44. ASSUME NEW p \in Procs, StopUnconfirmed(p)
      PROVE  IInv'
  <2>1. HostTypeOK'
    BY <1>0, <1>44 DEF HostTypeOK, PromptState, StopUnconfirmed,
       AbortEffect
  <2>2. CommandTypeOK'
    BY <1>0, <1>44 DEF CommandTypeOK, NoTurn, StopUnconfirmed, counts
  <2>3. Focus'
    BY <1>0, <1>44 DEF Focus, OnSteps, FrameTypeOK, CommandTypeOK,
       DrainStep, StopUnconfirmed, frame
  <2>4. Unsent'
    BY <1>0, <1>44 DEF Unsent, StoreTypeOK, HostTypeOK, PastTypeOK,
       StopUnconfirmed, AbortEffect, past, store
  <2>5. SeenIsTrue'
    BY <1>0, <1>44 DEF SeenIsTrue, Focus, OnSteps, FrameTypeOK,
       HostTypeOK, StopUnconfirmed, AbortEffect, frame
  <2>6. AnswerBacksReply'
    BY <1>0, <1>44 DEF AnswerBacksReply, StoreTypeOK, HostTypeOK,
       PastTypeOK, StopUnconfirmed, AbortEffect, past, store
  <2>7. /\ StoreTypeOK'
       /\ PastTypeOK'
       /\ SchedTypeOK'
       /\ FrameTypeOK'
       /\ PromptedOnce'
    BY <1>0, <1>44 DEF StoreTypeOK, PastTypeOK, SchedTypeOK, FrameTypeOK,
       PromptedOnce, StopUnconfirmed, frame, past, sched, store
  <2> QED
    BY <2>1, <2>2, <2>3, <2>4, <2>5, <2>6, <2>7 DEF IInv, TypeOK
<1>45. ASSUME NEW t \in Turns, LeaseExpires(t)
      PROVE  IInv'
  <2>1. StoreTypeOK'
    BY <1>0, <1>45 DEF StoreTypeOK, State, Terminal, Active, LeaseExpires
  <2>2. /\ HostTypeOK'
       /\ PastTypeOK'
       /\ SchedTypeOK'
       /\ FrameTypeOK'
       /\ CommandTypeOK'
       /\ Focus'
       /\ Unsent'
       /\ PromptedOnce'
       /\ SeenIsTrue'
       /\ AnswerBacksReply'
    BY <1>0, <1>45 DEF HostTypeOK, PastTypeOK, SchedTypeOK, FrameTypeOK,
       CommandTypeOK, Focus, Unsent, PromptedOnce, SeenIsTrue,
       AnswerBacksReply, LeaseExpires, frame, rest
  <2> QED
    BY <2>1, <2>2 DEF IInv, TypeOK
<1>46. ASSUME NEW t \in Turns, HostStep(t)
      PROVE  IInv'
  <2>1. HostTypeOK'
    BY <1>0, <1>46 DEF HostTypeOK, PromptState, HostStep, HostAccepts,
       HostFinishes, HostMisses, rest
  <2>2. Unsent'
    BY <1>0, <1>46 DEF Unsent, StoreTypeOK, HostTypeOK, PastTypeOK,
       HostStep, HostAccepts, HostFinishes, HostMisses, past, rest, store
  <2>3. SeenIsTrue'
    BY <1>0, <1>46 DEF SeenIsTrue, Focus, OnSteps, FrameTypeOK,
       HostTypeOK, HostStep, HostAccepts, HostFinishes, HostMisses, frame,
       rest
  <2>4. AnswerBacksReply'
    BY <1>0, <1>46 DEF AnswerBacksReply, StoreTypeOK, HostTypeOK,
       PastTypeOK, HostStep, HostAccepts, HostFinishes, HostMisses, past,
       rest, store
  <2>5. /\ StoreTypeOK'
       /\ PastTypeOK'
       /\ SchedTypeOK'
       /\ FrameTypeOK'
       /\ CommandTypeOK'
       /\ Focus'
       /\ PromptedOnce'
    BY <1>0, <1>46 DEF StoreTypeOK, PastTypeOK, SchedTypeOK, FrameTypeOK,
       CommandTypeOK, Focus, PromptedOnce, HostStep, command, counts,
       frame, hold, past, rest, sched, store, HostAccepts, HostMisses,
       HostFinishes, store
  <2> QED
    BY <2>1, <2>2, <2>3, <2>4, <2>5 DEF IInv, TypeOK
<1>47. CASE UNCHANGED vars
  BY <1>0, <1>47 DEF IInv, TypeOK, StoreTypeOK, HostTypeOK, PastTypeOK,
     SchedTypeOK, FrameTypeOK, CommandTypeOK, Focus, Unsent, PromptedOnce,
     SeenIsTrue, AnswerBacksReply, vars
<1> QED
  BY <1>1, <1>2, <1>3, <1>4, <1>5, <1>6, <1>7, <1>8, <1>9, <1>10, <1>11, <1>12, <1>13, <1>14,
    <1>15, <1>16, <1>17, <1>18, <1>19, <1>20, <1>21, <1>22, <1>23, <1>24, <1>25, <1>26, <1>27,
    <1>28, <1>29, <1>30, <1>31, <1>32, <1>33, <1>34, <1>35, <1>36, <1>37, <1>38, <1>39, <1>40,
    <1>41, <1>42, <1>43, <1>44, <1>45, <1>46, <1>47 DEF Next, DrainStepOf, CommandStepOf
----------------------------------------------------------------------------
\* The journal is empty and the host was sent nothing.
LEMMA InitHasIInv == Init => IInv
<1> SUFFICES ASSUME Init PROVE IInv
  OBVIOUS
<1> USE DEF Init, StoreInit, HostInit
<1>1. StoreTypeOK /\ HostTypeOK
  BY DEF StoreTypeOK, HostTypeOK, State, PromptState
<1>2. PastTypeOK /\ CommandTypeOK
  BY BoundAssumption DEF PastTypeOK, CommandTypeOK, NoTurn
<1>3. SchedTypeOK /\ FrameTypeOK
  BY DEF SchedTypeOK, FrameTypeOK, DrainStep, NoTurn
<1>4. Focus /\ Unsent /\ PromptedOnce /\ SeenIsTrue /\ AnswerBacksReply
  BY DEF Focus, OnSteps, Unsent, PromptedOnce, SeenIsTrue, AnswerBacksReply
<1> QED
  BY <1>1, <1>2, <1>3, <1>4 DEF IInv, TypeOK

\* The inductive invariant holds in every reachable state.
LEMMA IInvHolds == Spec => []IInv
<1> QED
  BY InitHasIInv, StepKeepsIInv, PTL DEF Spec

\* Every variable of the lifecycle keeps its type: in particular a stored turn
\* never leaves the states that gateway/state.ts declares, and retryCount
\* never exceeds its bound.
THEOREM TypeCorrect == Spec => []TypeOK
<1>1. IInv => TypeOK
  BY DEF IInv
<1> QED
  BY <1>1, IInvHolds, PTL

\* submit() calls promptAsync at most once for a turn, for any number of
\* gateways, crashes, restarts, lapsed leases and retries.
THEOREM PromptedAtMostOnce == Spec => []PromptedOnce
<1>1. IInv => PromptedOnce
  BY DEF IInv
<1> QED
  BY <1>1, IInvHolds, PTL

\* finish() saves and posts only a final answer of the host to the turn's own
\* prompt, also when a rescue recovered it or several gateways were at work.
THEOREM RepliesAreAnswers == Spec => []AnswerBacksReply
<1>1. IInv => AnswerBacksReply
  BY DEF IInv
<1> QED
  BY <1>1, IInvHolds, PTL
=============================================================================
