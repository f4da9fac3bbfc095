------------------------- MODULE SoleGatewayProofs -------------------------
(***************************************************************************)
(* What holds of the turn lifecycle when its gateways follow each other:   *)
(* each one starts only after the one before has died, and none closes     *)
(* while its calls are outstanding.  For every number of turns, gateways,  *)
(* retries and stops, lapsing leases or not: one owner of the              *)
(* conversation, one post per reply, and the contract with the person.     *)
(* And what the gate of drain() achieves when besides nobody sends /stop:  *)
(* no turn is submitted while another one may still be executing, and what *)
(* a newer message interrupted stays so.                                   *)
(***************************************************************************)
EXTENDS TurnsProofs

\* The hypothesis, about the constants.
OneGateway == ~Overlap /\ MaxCloses = 0

----------------------------------------------------------------------------
(***************************************************************************)
(* The inductive invariant.                                                *)
(***************************************************************************)

\* At most one gateway is up; the others have nothing under way.
Alone ==
  /\ closes = 0
  /\ \A p \in Procs : up[p] \in {"off", "up", "gone"}
  /\ \A p, q \in Procs : up[p] = "up" /\ up[q] = "up" => p = q
  /\ \A p \in Procs : up[p] # "up" => pc[p] = "idle" /\ spc[p] = "idle" /\ arriving[p] = {}

\* Nothing belongs to a gateway that has not started; a lease has an owner, and
\* its turn is saved.
Tenure ==
  /\ \A t \in Turns : owner[t] \in Procs => up[owner[t]] # "off"
  /\ \A t \in Turns : owner[t] = NoProc \/ st[t] = "absent" => ~lease[t]

\* A turn whose reply was posted was submitted, and stands where its outcome
\* is awaited, is known, or is known to be unknown.
Posted ==
  \A t \in Turns : posts[t] > 0 =>
    /\ posts[t] = 1 /\ prompts[t] = 1
    /\ st[t] \in {"delivery_started", "delivered", "failed"}
    /\ st[t] = "failed" => unc[t] = "delivery" /\ fenced[t]

\* A turn that waits for the confirmation of its submission is paused or has failed.
Marked == \A t \in Turns : unc[t] = "submission" /\ ~fenced[t] => st[t] \in {"paused", "failed"}

\* The host knows of a turn only what it was sent.
Asked == \A t \in Turns : host[t] # "none" => prompts[t] > 0

\* A reply that is being posted is the one the live gateway's chain is posting.
Sending ==
  /\ \A p \in Procs : pc[p] = "send" => st[on[p]] = "delivery_started"
  /\ \A t \in Turns : st[t] = "delivery_started" =>
       /\ posts[t] > 0
       /\ \A p \in Procs : up[p] = "up" => pc[p] = "send" /\ on[p] = t

\* What a chain has in hand: the blockers still to be tried are others than its
\* turn; nothing that it may yet complete or give up has been posted; and what
\* it rescues or finishes is its own.
InHand(p) ==
  /\ todo[p] # {} => pc[p] = "blockers" \/ ctx[p] = "drain"
  /\ ctx[p] = "drain" => pc[p] \in OnSteps \cup {"rescued"}
  /\ cur[p] \notin todo[p]
  /\ pc[p] \in OnSteps => on[p] \notin todo[p]
  /\ \A b \in todo[p] : posts[b] = 0
  /\ pc[p] \in {"messages", "status", "prepare"} => posts[on[p]] = 0
  /\ pc[p] = "stuck" => posts[cur[p]] = 0
  /\ pc[p] = "saved" => st[cur[p]] \in {"completed", "interrupted"}
  /\ pc[p] # "ambiguous"
  /\ pc[p] \in OnSteps => owner[on[p]] = p

Hands == \A p \in Procs : InHand(p)

\* Once a live gateway owns anything, the conversation is its own.
Exclusive ==
  \A t, u \in Turns :
    lease[t] /\ lease[u] /\ Occupies(u)
      /\ (Occupies(t) \/ \E p \in Procs : owner[t] = p /\ up[p] = "up")
    => owner[t] = owner[u]

SoleInv ==
  /\ IInv /\ Alone /\ Tenure /\ Posted /\ Marked /\ Asked
  /\ Sending /\ Hands /\ Exclusive

----------------------------------------------------------------------------
(***************************************************************************)
(* What most steps have in common.                                         *)
(***************************************************************************)

\* A step of the live gateway p, all others have nothing under way.
LiveStep(p) ==
  /\ up[p] = "up" /\ UNCHANGED <<up, closes>>
  /\ \A q \in Procs \ {p} : /\ pc'[q] = pc[q] /\ cur'[q] = cur[q] /\ on'[q] = on[q]
                            /\ ctx'[q] = ctx[q] /\ todo'[q] = todo[q]
                            /\ spc'[q] = spc[q] /\ arriving'[q] = arriving[q]

\* It claims a turn, if anything; no saved turn vanishes.
Grants(p) ==
  /\ (\E t \in Turns : Claim(p, t)) \/ UNCHANGED <<owner, lease>>
  /\ \A t \in Turns : st'[t] = "absent" => st[t] = "absent"

\* It leaves alone what was posted, and neither begins nor ends a post.
Spares(p) ==
  /\ UNCHANGED posts
  /\ \A t \in Turns : prompts[t] = 1 => prompts'[t] = 1
  /\ \A t \in Turns : posts[t] > 0 =>
       st'[t] = st[t] /\ unc'[t] = unc[t] /\ (fenced[t] => fenced'[t])
  /\ \A t \in Turns : st'[t] = "delivery_started" => st[t] = "delivery_started"
  /\ pc[p] = "send" \/ pc'[p] = "send" => pc'[p] = pc[p] /\ on'[p] = on[p]

\* A turn that comes to occupy the conversation is its own, or has no lease.
Enters(p) ==
  \A t \in Turns : Occupies(t)' => Occupies(t) \/ ~lease'[t] \/ owner'[t] = p

\* What a granted claim leaves.
LEMMA ClaimGrants ==
  ASSUME StoreTypeOK, NEW p \in Procs, NEW t \in Turns, Claim(p, t)
  PROVE  /\ owner'[t] = p /\ lease'[t] = TRUE
         /\ \A u \in Turns \ {t} : owner'[u] = owner[u] /\ lease'[u] = lease[u]
         /\ st[t] # "absent"
         /\ \A u \in Turns : Occupies(u) /\ lease[u] => owner[u] \in {NoProc, p}
BY DEF Claim, Claimable, HeldByOther, StoreTypeOK

\* Nobody else comes up.
LEMMA AloneKept ==
  ASSUME Alone, NEW p \in Procs, LiveStep(p)
  PROVE  Alone'
BY DEF Alone, LiveStep

\* Leases are still those of gateways that hold the conversation.
LEMMA TenureKept ==
  ASSUME StoreTypeOK, StoreTypeOK', Tenure, NEW p \in Procs, LiveStep(p), Grants(p)
  PROVE  Tenure'
<1>1. CASE UNCHANGED <<owner, lease>>
  BY <1>1 DEF Tenure, LiveStep, Grants
<1>2. ASSUME NEW t \in Turns, Claim(p, t) PROVE Tenure'
  <2>1. /\ owner'[t] = p /\ st[t] # "absent"
        /\ \A u \in Turns \ {t} : owner'[u] = owner[u] /\ lease'[u] = lease[u]
    BY <1>2, ClaimGrants
  <2>2. p # NoProc
    BY OwnerAssumption
  <2> QED
    BY <2>1, <2>2 DEF Tenure, LiveStep, Grants
<1> QED
  BY <1>1, <1>2 DEF Grants

\* What was posted stays so.
LEMMA PostedKept ==
  ASSUME Posted, NEW p \in Procs, Spares(p)
  PROVE  Posted'
BY DEF Posted, Spares

\* The reply being sent is still the only one.
LEMMA SendingKept ==
  ASSUME Alone, Sending, Focus', NEW p \in Procs, LiveStep(p), Spares(p)
  PROVE  Sending'
<1>1. ASSUME NEW q \in Procs, pc'[q] = "send" PROVE st'[on'[q]] = "delivery_started"
  <2>1. pc[q] = "send" /\ on'[q] = on[q]
    BY <1>1 DEF LiveStep, Spares
  <2>2. on[q] \in Turns
    BY <1>1, <2>1 DEF Focus, OnSteps
  <2> QED
    BY <2>1, <2>2 DEF Sending, Spares
<1>2. ASSUME NEW t \in Turns, st'[t] = "delivery_started"
      PROVE  /\ posts'[t] > 0
             /\ \A q \in Procs : up'[q] = "up" => pc'[q] = "send" /\ on'[q] = t
  <2>1. posts[t] > 0 /\ pc[p] = "send" /\ on[p] = t
    BY <1>2 DEF Sending, LiveStep, Spares
  <2>2. \A q \in Procs : up'[q] = "up" => q = p
    BY DEF Alone, LiveStep
  <2> QED
    BY <2>1, <2>2 DEF Spares
<1> QED
  BY <1>1, <1>2 DEF Sending

\* A gateway still has its turn in hand.
LEMMA HandsKept ==
  ASSUME IInv, IInv', Alone, Hands, NEW p \in Procs, LiveStep(p), UNCHANGED posts, InHand(p)'
  PROVE  Hands'
<1>1. ASSUME NEW q \in Procs, q # p PROVE InHand(q)'
  <2>1. pc[q] = "idle"
    BY <1>1 DEF Alone, LiveStep
  <2> QED
    BY <1>1, <2>1 DEF Hands, InHand, LiveStep, OnSteps
<1> QED
  BY <1>1 DEF Hands

\* The conversation is still leased to one gateway.
LEMMA ExclusiveKept ==
  ASSUME StoreTypeOK, StoreTypeOK', Alone, Tenure, Exclusive, NEW p \in Procs,
         LiveStep(p), Grants(p), Enters(p)
  PROVE  Exclusive'
<1> SUFFICES ASSUME NEW t \in Turns, NEW u \in Turns, lease'[t], lease'[u], Occupies(u)',
                    Occupies(t)' \/ \E q \in Procs : owner'[t] = q /\ up'[q] = "up"
             PROVE  owner'[t] = owner'[u]
  BY DEF Exclusive
<1>0. Occupies(t)' \/ owner'[t] = p
  BY DEF Alone, LiveStep
<1>1. CASE UNCHANGED <<owner, lease>>
  <2>1. lease[t] /\ lease[u] /\ owner'[t] = owner[t] /\ owner'[u] = owner[u]
    BY <1>1
  <2>2. (Occupies(u) \/ owner[u] = p) /\ (Occupies(t) \/ owner[t] = p)
    BY <1>0, <2>1 DEF Enters
  <2>3. up[p] = "up"
    BY DEF LiveStep
  <2> QED
    BY <2>1, <2>2, <2>3 DEF Exclusive
<1>2. ASSUME NEW x \in Turns, Claim(p, x) PROVE owner'[t] = owner'[u]
  <2>1. /\ owner'[x] = p
        /\ \A v \in Turns \ {x} : owner'[v] = owner[v] /\ lease'[v] = lease[v]
        /\ \A v \in Turns : Occupies(v) /\ lease[v] => owner[v] \in {NoProc, p}
    BY <1>2, ClaimGrants
  <2>2. ASSUME NEW v \in Turns, lease'[v], Occupies(v)' \/ owner'[v] = p
        PROVE  owner'[v] = p
    BY <2>1, <2>2 DEF Enters, Tenure
  <2> QED
    BY <1>0, <2>2
<1> QED
  BY <1>1, <1>2 DEF Grants

\* The five effects together.
LEMMA SoleKept ==
  ASSUME SoleInv, IInv', NEW p \in Procs,
         LiveStep(p), Grants(p), Spares(p), Enters(p), InHand(p)', Marked', Asked'
  PROVE  SoleInv'
<1>1. /\ IInv /\ StoreTypeOK /\ Focus /\ Alone /\ Tenure /\ Posted /\ Sending
      /\ Hands /\ Exclusive /\ StoreTypeOK' /\ Focus'
  BY DEF SoleInv, IInv, TypeOK
<1>2. Alone' /\ Tenure' /\ Posted'
  BY <1>1, AloneKept, TenureKept, PostedKept
<1>3. Sending' /\ Exclusive'
  BY <1>1, SendingKept, ExclusiveKept
<1>4. Hands'
  BY <1>1, HandsKept DEF Spares
<1> QED
  BY <1>2, <1>3, <1>4 DEF SoleInv

\* The host moves, or nothing.
LEMMA SoleStutters ==
  ASSUME SoleInv, IInv', UNCHANGED <<store, past, up, sched, frame, command, counts>>, Asked'
  PROVE  SoleInv'
<1>1. Alone' /\ Tenure' /\ Posted' /\ Marked'
  BY DEF SoleInv, Alone, Tenure, Posted, Marked, store, past, sched, frame, command, counts
<1>2. Sending' /\ Hands' /\ Exclusive'
  BY DEF SoleInv, Sending, Hands, InHand, Exclusive, Occupies, store, past, frame
<1> QED
  BY <1>1, <1>2 DEF SoleInv

\* What is known of a reply depends on nothing but what such steps leave alone.
LEMMA ReplyKept ==
  ASSUME SoleInv, SoleInv', NEW p \in Procs, Spares(p), UNCHANGED prompts
  PROVE  UNCHANGED Contract!vars
<1>1. ASSUME NEW t \in Turns PROVE Reply'[t] = Reply[t]
  <2>1. CASE posts[t] = 0
    BY <2>1 DEF Reply, Spares
  <2>2. CASE posts[t] # 0
    <3>1. posts[t] > 0
      BY <2>2 DEF SoleInv, IInv, TypeOK, PastTypeOK
    <3>2. st'[t] = st[t] /\ unc'[t] = unc[t] /\ posts'[t] = posts[t]
      BY <3>1 DEF Spares
    <3>3. st[t] \in {"delivery_started", "delivered"} \/ (fenced[t] /\ fenced'[t])
      BY <3>1 DEF SoleInv, Posted, Spares
    <3> QED
      BY <3>2, <3>3 DEF Reply
  <2> QED
    BY <2>1, <2>2
<1>2. Reply' = Reply
  BY <1>1 DEF Reply
<1> QED
  BY <1>2 DEF Contract!vars, Spares

----------------------------------------------------------------------------

\* A gateway starts after the one before has died, and gives up what was being posted.
LEMMA StartStep ==
  ASSUME OneGateway, SoleInv, IInv', NEW p \in Procs, Start(p)
  PROVE  SoleInv' /\ [Contract!Next]_(Contract!vars)
<1>0. /\ StoreTypeOK /\ HostTypeOK /\ PastTypeOK /\ SchedTypeOK /\ FrameTypeOK /\ CommandTypeOK
      /\ Focus /\ Unsent /\ AnswerBacksReply
      /\ Alone /\ Tenure /\ Posted /\ Marked /\ Asked /\ Sending /\ Hands /\ Exclusive
  BY DEF SoleInv, IInv, TypeOK
<1>1. /\ up[p] = "off" /\ up' = [up EXCEPT ![p] = "up"]
      /\ UNCHANGED <<owner, lease, posts, prompts, frame, spc, arriving, closes>>
  BY DEF Start, past, command, counts
<1>2. \A q \in Procs : up[q] # "up"
  BY DEF OneGateway, Start
<1>3. \A t \in Turns : IF st[t] = "delivery_started"
                       THEN st'[t] = "failed" /\ unc'[t] = "delivery" /\ fenced'[t]
                       ELSE st'[t] = st[t] /\ unc'[t] = unc[t] /\ fenced'[t] = fenced[t]
  BY <1>0 DEF Start, StoreTypeOK
<1>4. \A q \in Procs : pc[q] = "idle" /\ spc[q] = "idle"
  BY <1>0, <1>2 DEF Alone
<1>5. \A q \in Procs : (q # p => up'[q] = up[q]) /\ up'[p] = "up"
  BY <1>0, <1>1 DEF PastTypeOK
<1>6. Alone'
  BY <1>0, <1>1, <1>2, <1>4, <1>5 DEF Alone, frame
<1>7. Tenure'
  BY <1>0, <1>1, <1>3, <1>5 DEF Tenure
<1>8. Posted' /\ Marked' /\ Asked'
  BY <1>0, <1>1, <1>3 DEF Posted, Marked, Asked, Start
<1>9. Sending'
  BY <1>1, <1>3, <1>4 DEF Sending, frame
<1>10. Hands'
  BY <1>0, <1>1, <1>4 DEF Hands, InHand, OnSteps, frame
<1>11. Exclusive'
  BY <1>0, <1>1, <1>2, <1>3, <1>5 DEF Exclusive, Tenure, Occupies
<1>12. SoleInv'
  BY <1>6, <1>7, <1>8, <1>9, <1>10, <1>11 DEF SoleInv
<1>13. Contract!Lose({t \in Turns : st[t] = "delivery_started"})
  <2> DEFINE crossed == {t \in Turns : st[t] = "delivery_started"}
  <2>1. ASSUME NEW t \in Turns
        PROVE  Reply'[t] = IF t \in crossed THEN "unknown" ELSE Reply[t]
    <3>1. CASE t \in crossed
      BY <1>0, <1>1, <1>3, <3>1 DEF Reply, Sending, PastTypeOK
    <3>2. CASE t \notin crossed
      BY <1>1, <1>3, <3>2 DEF Reply
    <3> QED
      BY <3>1, <3>2
  <2>2. \A t \in crossed : Reply[t] = "posting"
    BY <1>0 DEF Reply, Sending, PastTypeOK
  <2>3. Reply' = [t \in Turns |-> IF t \in crossed THEN "unknown" ELSE Reply[t]]
    BY <2>1 DEF Reply
  <2> QED
    BY <1>1, <2>2, <2>3 DEF Contract!Lose
<1> QED
  BY <1>12, <1>13 DEF Contract!Next

\* The gateway dies: its leases stay.
LEMMA CrashStep ==
  ASSUME SoleInv, IInv', NEW p \in Procs, Crash(p)
  PROVE  SoleInv' /\ [Contract!Next]_(Contract!vars)
<1>0. /\ StoreTypeOK /\ HostTypeOK /\ PastTypeOK /\ SchedTypeOK /\ FrameTypeOK /\ CommandTypeOK
      /\ Focus /\ Unsent /\ AnswerBacksReply
      /\ Alone /\ Tenure /\ Posted /\ Marked /\ Asked /\ Sending /\ Hands /\ Exclusive
  BY DEF SoleInv, IInv, TypeOK
<1>1. UNCHANGED <<store, past, counts>> /\ up' = [up EXCEPT ![p] = "gone"]
  BY DEF Crash
<1>2. up[p] = "up"
  BY <1>0 DEF Alone, Crash, Running
<1>3. /\ \A q \in Procs \ {p} : /\ pc'[q] = pc[q] /\ cur'[q] = cur[q] /\ on'[q] = on[q]
                               /\ ctx'[q] = ctx[q] /\ todo'[q] = todo[q]
                               /\ spc'[q] = spc[q] /\ arriving'[q] = arriving[q]
      /\ pc'[p] = "idle" /\ spc'[p] = "idle" /\ arriving'[p] = {}
      /\ todo'[p] = {} /\ ctx'[p] = "turn"
  BY <1>0 DEF Crash, Forget, FrameTypeOK, CommandTypeOK, SchedTypeOK
<1>4. \A q \in Procs : up'[q] # "up" /\ pc'[q] = "idle"
  BY <1>0, <1>1, <1>2, <1>3 DEF Alone, PastTypeOK
<1>5. Alone'
  BY <1>0, <1>1, <1>3 DEF Alone, PastTypeOK, counts
<1>6. Tenure' /\ Posted' /\ Marked' /\ Asked'
  BY <1>0, <1>1 DEF Tenure, Posted, Marked, Asked, Crash, store, past
<1>7. Sending'
  BY <1>0, <1>1, <1>4 DEF Sending, store, past
<1>8. Hands'
  <2>1. InHand(p)'
    BY <1>3 DEF InHand, OnSteps
  <2>2. ASSUME NEW q \in Procs \ {p} PROVE InHand(q)'
    BY <1>0, <1>1, <1>3, <1>4 DEF Hands, InHand, OnSteps, past
  <2> QED
    BY <2>1, <2>2 DEF Hands
<1>9. Exclusive'
  BY <1>0, <1>1, <1>4 DEF Exclusive, Occupies, store
<1>10. UNCHANGED Contract!vars
  BY <1>1 DEF Contract!vars, Reply, store, past
<1> QED
  BY <1>5, <1>6, <1>7, <1>8, <1>9, <1>10 DEF SoleInv

\* None closes.
LEMMA CloseStep ==
  ASSUME OneGateway, SoleInv, NEW p \in Procs, Close(p)
  PROVE  SoleInv' /\ [Contract!Next]_(Contract!vars)
<1>0. /\ StoreTypeOK /\ HostTypeOK /\ PastTypeOK /\ SchedTypeOK /\ FrameTypeOK /\ CommandTypeOK
      /\ Focus /\ Unsent /\ AnswerBacksReply
      /\ Alone /\ Tenure /\ Posted /\ Marked /\ Asked /\ Sending /\ Hands /\ Exclusive
  BY DEF SoleInv, IInv, TypeOK
<1>1. FALSE
  BY <1>0 DEF OneGateway, CommandTypeOK, Close
<1> QED
  BY <1>1

\* None closes.
LEMMA ReleaseStep ==
  ASSUME SoleInv, NEW p \in Procs, Release(p)
  PROVE  SoleInv' /\ [Contract!Next]_(Contract!vars)
<1>0. /\ StoreTypeOK /\ HostTypeOK /\ PastTypeOK /\ SchedTypeOK /\ FrameTypeOK /\ CommandTypeOK
      /\ Focus /\ Unsent /\ AnswerBacksReply
      /\ Alone /\ Tenure /\ Posted /\ Marked /\ Asked /\ Sending /\ Hands /\ Exclusive
  BY DEF SoleInv, IInv, TypeOK
<1>1. FALSE
  BY <1>0 DEF Alone, Release
<1> QED
  BY <1>1

\* The lease of the turn in hand is renewed.
LEMMA RenewStep ==
  ASSUME SoleInv, IInv', NEW p \in Procs, Renew(p)
  PROVE  SoleInv' /\ UNCHANGED Contract!vars
<1>0. /\ StoreTypeOK /\ HostTypeOK /\ PastTypeOK /\ SchedTypeOK /\ FrameTypeOK /\ CommandTypeOK
      /\ Focus /\ Unsent /\ AnswerBacksReply
      /\ Alone /\ Tenure /\ Posted /\ Marked /\ Asked /\ Sending /\ Hands /\ Exclusive
  BY DEF SoleInv, IInv, TypeOK
<1>1. LiveStep(p)
  BY <1>0 DEF LiveStep, Alone, Renew, rest, frame, Renewed, Processing
<1>2. Grants(p)
  BY <1>0
  DEF Grants, StoreTypeOK, Focus, Renew, rest, frame, Renewed, Running, Processing,
      DrainStep
<1>3. Spares(p)
  BY <1>0 DEF Spares, Renew, rest, frame
<1>4. Enters(p)
  BY <1>0 DEF Enters, Occupies, Renew, Running, Claim
<1>5. InHand(p)'
  BY <1>0 DEF InHand, Hands, Renew, rest, frame, Claim
<1>6. Marked'
  BY <1>0 DEF Marked, StoreTypeOK, Renew, Running, Claim
<1>7. Asked'
  BY <1>0 DEF Asked, Renew, rest
<1>8. SoleInv'
  BY <1>1, <1>2, <1>3, <1>4, <1>5, <1>6, <1>7, SoleKept
<1>9. UNCHANGED prompts
  BY DEF Renew, rest
<1> QED
  BY <1>3, <1>8, <1>9, ReplyKept

\* A timer.
LEMMA WakeUpStep ==
  ASSUME SoleInv, IInv', NEW p \in Procs, WakeUp(p)
  PROVE  SoleInv' /\ UNCHANGED Contract!vars
<1>0. /\ StoreTypeOK /\ HostTypeOK /\ PastTypeOK /\ SchedTypeOK /\ FrameTypeOK /\ CommandTypeOK
      /\ Focus /\ Unsent /\ AnswerBacksReply
      /\ Alone /\ Tenure /\ Posted /\ Marked /\ Asked /\ Sending /\ Hands /\ Exclusive
  BY DEF SoleInv, IInv, TypeOK
<1>1. LiveStep(p)
  BY <1>0 DEF LiveStep, Alone, WakeUp, frame, counts, command, Running
<1>2. Grants(p)
  BY <1>0 DEF Grants, WakeUp, store, Running
<1>3. Spares(p)
  BY <1>0 DEF Spares, WakeUp, store, past, frame
<1>4. Enters(p)
  BY <1>0 DEF Enters, Occupies, WakeUp, store, Running
<1>5. InHand(p)'
  BY <1>0 DEF InHand, Hands, WakeUp, store, past, frame
<1>6. Marked'
  BY <1>0 DEF Marked, StoreTypeOK, WakeUp, store, Running
<1>7. Asked'
  BY <1>0 DEF Asked, WakeUp, past
<1>8. SoleInv'
  BY <1>1, <1>2, <1>3, <1>4, <1>5, <1>6, <1>7, SoleKept
<1>9. UNCHANGED prompts
  BY DEF WakeUp, past
<1> QED
  BY <1>3, <1>8, <1>9, ReplyKept

\* A new turn has no owner.
LEMMA ArriveStep ==
  ASSUME SoleInv, IInv', NEW p \in Procs, NEW t \in Turns, Arrive(p, t)
  PROVE  SoleInv' /\ UNCHANGED Contract!vars
<1>0. /\ StoreTypeOK /\ HostTypeOK /\ PastTypeOK /\ SchedTypeOK /\ FrameTypeOK /\ CommandTypeOK
      /\ Focus /\ Unsent /\ AnswerBacksReply
      /\ Alone /\ Tenure /\ Posted /\ Marked /\ Asked /\ Sending /\ Hands /\ Exclusive
  BY DEF SoleInv, IInv, TypeOK
<1>a0. posts[t] = 0
  BY <1>0 DEF Posted, PastTypeOK, Arrive, Fresh
<1>1. LiveStep(p)
  BY <1>0, <1>a0 DEF LiveStep, Arrive, frame, counts, command
<1>2. Grants(p)
  BY <1>0, <1>a0 DEF Grants, Arrive, hold, SetState
<1>3. Spares(p)
  BY <1>0, <1>a0 DEF Spares, Arrive, SetState, hold, frame, past
<1>4. Enters(p)
  BY <1>0, <1>a0 DEF Enters, Occupies, Tenure, Arrive, hold, SetState, Fresh
<1>5. InHand(p)'
  BY <1>0, <1>a0 DEF InHand, Hands, Arrive, past, hold, frame, SetState, Fresh
<1>6. Marked'
  BY <1>0, <1>a0 DEF Marked, Arrive, hold, SetState, Fresh
<1>7. Asked'
  BY <1>0, <1>a0 DEF Asked, Arrive, past
<1>8. SoleInv'
  BY <1>1, <1>2, <1>3, <1>4, <1>5, <1>6, <1>7, SoleKept
<1>9. UNCHANGED prompts
  BY DEF Arrive, past
<1> QED
  BY <1>3, <1>8, <1>9, ReplyKept

\* A message interrupts, and posts nothing.
LEMMA MessageStep ==
  ASSUME SoleInv, IInv', NEW p \in Procs, NEW t \in Turns, Message(p, t)
  PROVE  SoleInv' /\ UNCHANGED Contract!vars
<1>0. /\ StoreTypeOK /\ HostTypeOK /\ PastTypeOK /\ SchedTypeOK /\ FrameTypeOK /\ CommandTypeOK
      /\ Focus /\ Unsent /\ AnswerBacksReply
      /\ Alone /\ Tenure /\ Posted /\ Marked /\ Asked /\ Sending /\ Hands /\ Exclusive
  BY DEF SoleInv, IInv, TypeOK
<1>1. LiveStep(p)
  BY <1>0 DEF LiveStep, SchedTypeOK, Message, frame, counts, command
<1>2. Grants(p)
  BY <1>0 DEF Grants, Message, hold
<1>3. Spares(p)
  BY <1>0
  DEF Spares, StoreTypeOK, Posted, Message, past, hold, frame, Replaced, Interruptible,
      Fresh
<1>4. Enters(p)
  BY <1>0 DEF Enters, Occupies, Tenure, Message, hold, Fresh
<1>5. InHand(p)'
  BY <1>0 DEF InHand, Hands, Focus, Message, past, hold, frame, Fresh
<1>6. Marked'
  BY <1>0 DEF Marked, Message, hold, Replaced, Interruptible, Fresh
<1>7. Asked'
  BY <1>0 DEF Asked, HostTypeOK, PastTypeOK, Message, past
<1>8. SoleInv'
  BY <1>1, <1>2, <1>3, <1>4, <1>5, <1>6, <1>7, SoleKept
<1>9. UNCHANGED prompts
  BY DEF Message, past
<1> QED
  BY <1>3, <1>8, <1>9, ReplyKept

\* The abort for a message.
LEMMA MessageAbortsStep ==
  ASSUME SoleInv, IInv', NEW p \in Procs, NEW t \in Turns, MessageAborts(p, t)
  PROVE  SoleInv' /\ UNCHANGED Contract!vars
<1>0. /\ StoreTypeOK /\ HostTypeOK /\ PastTypeOK /\ SchedTypeOK /\ FrameTypeOK /\ CommandTypeOK
      /\ Focus /\ Unsent /\ AnswerBacksReply
      /\ Alone /\ Tenure /\ Posted /\ Marked /\ Asked /\ Sending /\ Hands /\ Exclusive
  BY DEF SoleInv, IInv, TypeOK
<1>1. LiveStep(p)
  BY <1>0 DEF LiveStep, Alone, MessageAborts, frame, counts, command
<1>2. Grants(p)
  BY <1>0 DEF Grants, MessageAborts, store, Running
<1>3. Spares(p)
  BY <1>0 DEF Spares, MessageAborts, store, past, frame
<1>4. Enters(p)
  BY <1>0 DEF Enters, Occupies, MessageAborts, store, Running
<1>5. InHand(p)'
  BY <1>0 DEF InHand, Hands, MessageAborts, store, past, frame
<1>6. Marked'
  BY <1>0 DEF Marked, StoreTypeOK, MessageAborts, store, Running
<1>7. Asked'
  BY <1>0 DEF Asked, MessageAborts, past, AbortEffect
<1>8. SoleInv'
  BY <1>1, <1>2, <1>3, <1>4, <1>5, <1>6, <1>7, SoleKept
<1>9. UNCHANGED prompts
  BY DEF MessageAborts, past
<1> QED
  BY <1>3, <1>8, <1>9, ReplyKept

\* A turn is tried again.
LEMMA ReenqueueStep ==
  ASSUME SoleInv, IInv', NEW p \in Procs, NEW t \in Turns, Reenqueue(p, t)
  PROVE  SoleInv' /\ UNCHANGED Contract!vars
<1>0. /\ StoreTypeOK /\ HostTypeOK /\ PastTypeOK /\ SchedTypeOK /\ FrameTypeOK /\ CommandTypeOK
      /\ Focus /\ Unsent /\ AnswerBacksReply
      /\ Alone /\ Tenure /\ Posted /\ Marked /\ Asked /\ Sending /\ Hands /\ Exclusive
  BY DEF SoleInv, IInv, TypeOK
<1>1. LiveStep(p)
  BY <1>0 DEF LiveStep, Reenqueue, frame, counts, command
<1>2. Grants(p)
  BY <1>0 DEF Grants, Reenqueue, store
<1>3. Spares(p)
  BY <1>0 DEF Spares, Reenqueue, store, past, frame
<1>4. Enters(p)
  BY <1>0 DEF Enters, Occupies, Reenqueue, store
<1>5. InHand(p)'
  BY <1>0 DEF InHand, Hands, Reenqueue, store, past, frame
<1>6. Marked'
  BY <1>0 DEF Marked, StoreTypeOK, Reenqueue, store
<1>7. Asked'
  BY <1>0 DEF Asked, HostTypeOK, PastTypeOK, Reenqueue, past
<1>8. SoleInv'
  BY <1>1, <1>2, <1>3, <1>4, <1>5, <1>6, <1>7, SoleKept
<1>9. UNCHANGED prompts
  BY DEF Reenqueue, past
<1> QED
  BY <1>3, <1>8, <1>9, ReplyKept

\* The next turn is taken from the queue, with its blockers.
LEMMA DrainNextStep ==
  ASSUME SoleInv, IInv', NEW p \in Procs, DrainNext(p)
  PROVE  SoleInv' /\ UNCHANGED Contract!vars
<1>0. /\ StoreTypeOK /\ HostTypeOK /\ PastTypeOK /\ SchedTypeOK /\ FrameTypeOK /\ CommandTypeOK
      /\ Focus /\ Unsent /\ AnswerBacksReply
      /\ Alone /\ Tenure /\ Posted /\ Marked /\ Asked /\ Sending /\ Hands /\ Exclusive
  BY DEF SoleInv, IInv, TypeOK
<1>1. LiveStep(p)
  BY <1>0 DEF LiveStep, FrameTypeOK, DrainNext, frame, counts, command, Goto
<1>2. Grants(p)
  BY <1>0 DEF Grants, DrainNext, store
<1>3. Spares(p)
  BY <1>0 DEF Spares, FrameTypeOK, DrainNext, store, past, frame, Goto, At
<1>4. Enters(p)
  BY <1>0 DEF Enters, Occupies, DrainNext, store
<1>5. InHand(p)'
  <2>1. \A b \in Turns : Blocker(b) => posts[b] = 0
    BY <1>0 DEF Posted, Marked, Blocker, StoreTypeOK, PastTypeOK
  <2>2. /\ pc[p] = "idle" /\ UNCHANGED <<posts, on, ctx>>
        /\ \/ UNCHANGED frame
           \/ /\ pc' = [pc EXCEPT ![p] = "claim"] /\ UNCHANGED todo
              /\ cur' = [cur EXCEPT ![p] = Head(queue[p])]
           \/ /\ pc' = [pc EXCEPT ![p] = "blockers"]
              /\ cur' = [cur EXCEPT ![p] = Head(queue[p])]
              /\ todo' = [todo EXCEPT ![p] = Blockers(Head(queue[p]))]
    BY DEF DrainNext, At, Goto, frame, past
  <2>3. \A t : Blockers(t) \subseteq Turns \ {t} /\ \A b \in Blockers(t) : posts[b] = 0
    BY <2>1 DEF Blockers
  <2>4. todo[p] = {} /\ ctx[p] # "drain"
    BY <1>0, <2>2 DEF Hands, InHand, OnSteps
  <2> QED
    BY <1>0, <2>2, <2>3, <2>4 DEF Hands, InHand, OnSteps, FrameTypeOK, frame
<1>6. Marked'
  BY <1>0 DEF Marked, DrainNext, store
<1>7. Asked'
  BY <1>0 DEF Asked, DrainNext, past
<1>8. SoleInv'
  BY <1>1, <1>2, <1>3, <1>4, <1>5, <1>6, <1>7, SoleKept
<1>9. UNCHANGED prompts
  BY DEF DrainNext, past
<1> QED
  BY <1>3, <1>8, <1>9, ReplyKept

\* A blocker is claimed and rescued.
LEMMA RescueBlockerStep ==
  ASSUME SoleInv, IInv', NEW p \in Procs, RescueBlocker(p)
  PROVE  SoleInv' /\ UNCHANGED Contract!vars
<1>0. /\ StoreTypeOK /\ HostTypeOK /\ PastTypeOK /\ SchedTypeOK /\ FrameTypeOK /\ CommandTypeOK
      /\ Focus /\ Unsent /\ AnswerBacksReply
      /\ Alone /\ Tenure /\ Posted /\ Marked /\ Asked /\ Sending /\ Hands /\ Exclusive
  BY DEF SoleInv, IInv, TypeOK
<1>1. LiveStep(p)
  BY <1>0 DEF LiveStep, Alone, FrameTypeOK, RescueBlocker, rest, BeginRescue, Goto, At
<1>2. Grants(p)
  BY <1>0 DEF Grants, StoreTypeOK, RescueBlocker, BeginRescue, Claim
<1>3. Spares(p)
  BY <1>0 DEF Spares, FrameTypeOK, RescueBlocker, rest, BeginRescue, Goto, At
<1>4. Enters(p)
  BY <1>0 DEF Enters, Occupies, RescueBlocker
<1>5. InHand(p)'
  BY <1>0
  DEF InHand, OnSteps, Hands, FrameTypeOK, StoreTypeOK, RescueBlocker, rest, BeginRescue,
      Goto, Claim
<1>6. Marked'
  BY <1>0 DEF Marked, RescueBlocker
<1>7. Asked'
  BY <1>0 DEF Asked, RescueBlocker, rest
<1>8. SoleInv'
  BY <1>1, <1>2, <1>3, <1>4, <1>5, <1>6, <1>7, SoleKept
<1>9. UNCHANGED prompts
  BY DEF RescueBlocker, rest
<1> QED
  BY <1>3, <1>8, <1>9, ReplyKept

\* The gate.
LEMMA PassGateStep ==
  ASSUME SoleInv, IInv', NEW p \in Procs, PassGate(p)
  PROVE  SoleInv' /\ UNCHANGED Contract!vars
<1>0. /\ StoreTypeOK /\ HostTypeOK /\ PastTypeOK /\ SchedTypeOK /\ FrameTypeOK /\ CommandTypeOK
      /\ Focus /\ Unsent /\ AnswerBacksReply
      /\ Alone /\ Tenure /\ Posted /\ Marked /\ Asked /\ Sending /\ Hands /\ Exclusive
  BY DEF SoleInv, IInv, TypeOK
<1>1. LiveStep(p)
  BY <1>0 DEF LiveStep, Alone, FrameTypeOK, PassGate, counts, command, Goto, At
<1>2. Grants(p)
  BY <1>0 DEF Grants, PassGate, store
<1>3. Spares(p)
  BY <1>0 DEF Spares, FrameTypeOK, PassGate, store, past, Goto, At
<1>4. Enters(p)
  BY <1>0 DEF Enters, Occupies, PassGate, store
<1>5. InHand(p)'
  BY <1>0 DEF InHand, OnSteps, Hands, FrameTypeOK, PassGate, Goto, At
<1>6. Marked'
  BY <1>0 DEF Marked, PassGate, store
<1>7. Asked'
  BY <1>0 DEF Asked, PassGate, past
<1>8. SoleInv'
  BY <1>1, <1>2, <1>3, <1>4, <1>5, <1>6, <1>7, SoleKept
<1>9. UNCHANGED prompts
  BY DEF PassGate, past
<1> QED
  BY <1>3, <1>8, <1>9, ReplyKept

\* A turn that is claimed stands where the posting has not begun.
LEMMA ProcessClaimStep ==
  ASSUME SoleInv, IInv', NEW p \in Procs, ProcessClaim(p)
  PROVE  SoleInv' /\ UNCHANGED Contract!vars
<1>0. /\ StoreTypeOK /\ HostTypeOK /\ PastTypeOK /\ SchedTypeOK /\ FrameTypeOK /\ CommandTypeOK
      /\ Focus /\ Unsent /\ AnswerBacksReply
      /\ Alone /\ Tenure /\ Posted /\ Marked /\ Asked /\ Sending /\ Hands /\ Exclusive
  BY DEF SoleInv, IInv, TypeOK
<1>a0. cur[p] \in Turns /\ st[cur[p]] # "delivery_started"
  <2>1. up[p] = "up" /\ pc[p] = "claim" /\ cur[p] \in Turns
    BY <1>0 DEF Focus, Alone, ProcessClaim, At, Running
  <2> QED
    BY <1>0, <2>1 DEF Sending
<1>a1. \/ pc' = [pc EXCEPT ![p] = "returned"]
       \/ st[cur[p]] # "absent" /\ pc' = [pc EXCEPT ![p] = Route(cur[p])]
  BY DEF ProcessClaim, Goto, Claim, Claimable
<1>a2. /\ pc'[p] \in {"returned", "prep", "verify", "poll", "saved", "stuck"}
       /\ pc'[p] = "saved" => st[cur[p]] = "completed"
       /\ pc'[p] = "stuck" => st[cur[p]] = "paused"
       /\ pc[p] = "claim"
  <2>0. pc[p] = "claim" /\ pc \in [Procs -> DrainStep]
    BY <1>0 DEF ProcessClaim, At, FrameTypeOK
  <2>1. CASE pc' = [pc EXCEPT ![p] = "returned"]
    BY <2>0, <2>1
  <2>2. CASE st[cur[p]] # "absent" /\ pc' = [pc EXCEPT ![p] = Route(cur[p])]
    <3>1. pc'[p] = Route(cur[p])
      BY <2>0, <2>2
    <3>2. Route(cur[p]) \in {"returned", "prep", "verify", "poll", "saved", "stuck", "ambiguous"}
      BY <1>0, <1>a0, <2>2, RouteLeads
    <3>3. st[cur[p]] \in State
      BY <1>0, <1>a0 DEF StoreTypeOK
    <3>4. /\ Route(cur[p]) = "saved" => st[cur[p]] = "completed"
          /\ Route(cur[p]) = "stuck" => st[cur[p]] = "paused"
          /\ Route(cur[p]) = "ambiguous" => st[cur[p]] = "delivery_started"
      BY <2>2, <3>3 DEF Route, State, Terminal, Active
    <3> QED
      BY <1>a0, <2>0, <3>1, <3>2, <3>4
  <2> QED
    BY <1>a1, <2>1, <2>2
<1>1. LiveStep(p)
  BY <1>0, <1>a0, <1>a1, <1>a2
  DEF LiveStep, Alone, FrameTypeOK, ProcessClaim, work, counts, command
<1>2. Grants(p)
  BY <1>0, <1>a0, <1>a1, <1>a2 DEF Grants, ProcessClaim
<1>3. Spares(p)
  BY <1>0, <1>a2 DEF Spares, ProcessClaim, past, work
<1>4. Enters(p)
  BY <1>0, <1>a0, <1>a1, <1>a2 DEF Enters, Occupies, ProcessClaim
<1>5. InHand(p)'
  <2>1. UNCHANGED <<st, posts, cur, on, ctx, todo>>
    BY DEF ProcessClaim, past, work
  <2>2. st[cur[p]] \in {"completed", "paused"} => posts[cur[p]] = 0
    BY <1>0, <1>a0 DEF Posted, PastTypeOK
  <2> QED
    BY <1>0, <1>a0, <1>a2, <2>1, <2>2 DEF Hands, InHand, OnSteps
<1>6. Marked'
  BY <1>0, <1>a0, <1>a1, <1>a2 DEF Marked, ProcessClaim
<1>7. Asked'
  BY <1>0, <1>a0, <1>a1, <1>a2 DEF Asked, ProcessClaim, past
<1>8. SoleInv'
  BY <1>1, <1>2, <1>3, <1>4, <1>5, <1>6, <1>7, SoleKept
<1>9. UNCHANGED prompts
  BY DEF ProcessClaim, past
<1> QED
  BY <1>3, <1>8, <1>9, ReplyKept

\* A read fails.
LEMMA ReadFailsStep ==
  ASSUME SoleInv, IInv', NEW p \in Procs, ReadFails(p)
  PROVE  SoleInv' /\ UNCHANGED Contract!vars
<1>0. /\ StoreTypeOK /\ HostTypeOK /\ PastTypeOK /\ SchedTypeOK /\ FrameTypeOK /\ CommandTypeOK
      /\ Focus /\ Unsent /\ AnswerBacksReply
      /\ Alone /\ Tenure /\ Posted /\ Marked /\ Asked /\ Sending /\ Hands /\ Exclusive
  BY DEF SoleInv, IInv, TypeOK
<1>1. LiveStep(p)
  BY <1>0 DEF LiveStep, Alone, ReadFails, work, rest, Goto, At
<1>2. Grants(p)
  BY <1>0 DEF Grants, ReadFails, store
<1>3. Spares(p)
  BY <1>0 DEF Spares, ReadFails, store, rest, Goto, At
<1>4. Enters(p)
  BY <1>0 DEF Enters, Occupies, ReadFails, store
<1>5. InHand(p)'
  BY <1>0 DEF InHand, OnSteps, Hands, ReadFails, work, Goto, At
<1>6. Marked'
  BY <1>0 DEF Marked, ReadFails, store
<1>7. Asked'
  BY <1>0 DEF Asked, ReadFails, rest
<1>8. SoleInv'
  BY <1>1, <1>2, <1>3, <1>4, <1>5, <1>6, <1>7, SoleKept
<1>9. UNCHANGED prompts
  BY DEF ReadFails, rest
<1> QED
  BY <1>3, <1>8, <1>9, ReplyKept

\* The submission.
LEMMA CheckpointStep ==
  ASSUME SoleInv, IInv', NEW p \in Procs, Checkpoint(p)
  PROVE  SoleInv' /\ [Contract!Next]_(Contract!vars)
<1>0. /\ StoreTypeOK /\ HostTypeOK /\ PastTypeOK /\ SchedTypeOK /\ FrameTypeOK /\ CommandTypeOK
      /\ Focus /\ Unsent /\ AnswerBacksReply
      /\ Alone /\ Tenure /\ Posted /\ Marked /\ Asked /\ Sending /\ Hands /\ Exclusive
  BY DEF SoleInv, IInv, TypeOK
<1>a0. cur[p] \in Turns
  BY <1>0 DEF Focus, Checkpoint, At
<1>a1. st[cur[p]] = "queued" => posts[cur[p]] = 0 /\ prompts[cur[p]] = 0
  BY <1>0, <1>a0 DEF Posted, PastTypeOK, Unsent
<1>1. LiveStep(p)
  BY <1>0, <1>a0, <1>a1
  DEF LiveStep, Alone, FrameTypeOK, Checkpoint, work, sched, counts, command, Goto, At
<1>2. Grants(p)
  BY <1>0, <1>a0, <1>a1 DEF Grants, StoreTypeOK, Checkpoint, SetState
<1>3. Spares(p)
  <2>1. pc'[p] # "send" /\ pc[p] # "send" /\ UNCHANGED <<posts, unc, fenced>>
    BY <1>0 DEF Checkpoint, At, Goto, FrameTypeOK
  <2>2. \/ UNCHANGED <<st, prompts>>
        \/ /\ st[cur[p]] = "queued"
           /\ st' = [st EXCEPT ![cur[p]] = "submitting"]
           /\ prompts' = [prompts EXCEPT ![cur[p]] = @ + 1]
    BY DEF Checkpoint, SetState
  <2> QED
    BY <1>0, <1>a0, <1>a1, <2>1, <2>2 DEF Spares, StoreTypeOK, PastTypeOK
<1>4. Enters(p)
  BY <1>0, <1>a0, <1>a1 DEF Enters, Occupies, StoreTypeOK, Checkpoint, SetState
<1>5. InHand(p)'
  BY <1>0, <1>a0, <1>a1 DEF InHand, OnSteps, Hands, FrameTypeOK, Checkpoint, work, Goto, At
<1>6. Marked'
  BY <1>0, <1>a0, <1>a1 DEF Marked, StoreTypeOK, Checkpoint, SetState
<1>7. Asked'
  BY <1>0, <1>a0, <1>a1 DEF Asked, HostTypeOK, PastTypeOK, Checkpoint, Send
<1>8. SoleInv'
  BY <1>1, <1>2, <1>3, <1>4, <1>5, <1>6, <1>7, SoleKept
<1>9. CASE UNCHANGED prompts
  BY <1>3, <1>8, <1>9, ReplyKept
<1>10. CASE ~UNCHANGED prompts
  <2>1. /\ st[cur[p]] = "queued"
        /\ st' = [st EXCEPT ![cur[p]] = "submitting"]
        /\ prompts' = [prompts EXCEPT ![cur[p]] = @ + 1]
    BY <1>10 DEF Checkpoint, SetState, Goto
  <2>2. UNCHANGED <<posts, unc, fenced>>
    BY DEF Checkpoint
  <2>3. prompts' = [prompts EXCEPT ![cur[p]] = 1]
    <3>1. prompts[cur[p]] + 1 = 1
      BY <1>a1, <2>1
    <3> QED
      BY <2>1, <3>1
  <2>4. Reply' = Reply
    <3>1. ASSUME NEW t \in Turns PROVE Reply'[t] = Reply[t]
      <4>1. CASE t = cur[p]
        BY <1>a1, <2>1, <2>2, <4>1 DEF Reply
      <4>2. CASE t # cur[p]
        BY <1>0, <2>1, <2>2, <4>2 DEF Reply, StoreTypeOK
      <4> QED
        BY <4>1, <4>2
    <3> QED
      BY <3>1 DEF Reply
  <2>5. Contract!Submit(cur[p])
    BY <1>a1, <2>1, <2>2, <2>3, <2>4 DEF Contract!Submit
  <2> QED
    BY <1>8, <1>a0, <2>5 DEF Contract!Next
<1> QED
  BY <1>9, <1>10

\* The prompt is acknowledged.
LEMMA PromptAcknowledgedStep ==
  ASSUME SoleInv, IInv', NEW p \in Procs, PromptAcknowledged(p)
  PROVE  SoleInv' /\ UNCHANGED Contract!vars
<1>0. /\ StoreTypeOK /\ HostTypeOK /\ PastTypeOK /\ SchedTypeOK /\ FrameTypeOK /\ CommandTypeOK
      /\ Focus /\ Unsent /\ AnswerBacksReply
      /\ Alone /\ Tenure /\ Posted /\ Marked /\ Asked /\ Sending /\ Hands /\ Exclusive
  BY DEF SoleInv, IInv, TypeOK
<1>1. LiveStep(p)
  BY <1>0
  DEF LiveStep, Alone, FrameTypeOK, PromptAcknowledged, work, rest, Confirmed, Goto, At
<1>2. Grants(p)
  BY <1>0 DEF Grants, StoreTypeOK, PromptAcknowledged, hold, Confirmed, SetState
<1>3. Spares(p)
  BY <1>0
  DEF Spares, StoreTypeOK, FrameTypeOK, Posted, PromptAcknowledged, rest, hold, Confirmed,
      SetState, Goto, At
<1>4. Enters(p)
  BY <1>0 DEF Enters, Occupies, StoreTypeOK, PromptAcknowledged, Confirmed, SetState
<1>5. InHand(p)'
  BY <1>0
  DEF InHand, OnSteps, Hands, FrameTypeOK, PromptAcknowledged, work, Confirmed, Goto, At
<1>6. Marked'
  BY <1>0 DEF Marked, StoreTypeOK, PromptAcknowledged, hold, Confirmed, SetState
<1>7. Asked'
  BY <1>0 DEF Asked, PromptAcknowledged, rest
<1>8. SoleInv'
  BY <1>1, <1>2, <1>3, <1>4, <1>5, <1>6, <1>7, SoleKept
<1>9. UNCHANGED prompts
  BY DEF PromptAcknowledged, rest
<1> QED
  BY <1>3, <1>8, <1>9, ReplyKept

\* The prompt fails.
LEMMA PromptFailsStep ==
  ASSUME SoleInv, IInv', NEW p \in Procs, PromptFails(p)
  PROVE  SoleInv' /\ UNCHANGED Contract!vars
<1>0. /\ StoreTypeOK /\ HostTypeOK /\ PastTypeOK /\ SchedTypeOK /\ FrameTypeOK /\ CommandTypeOK
      /\ Focus /\ Unsent /\ AnswerBacksReply
      /\ Alone /\ Tenure /\ Posted /\ Marked /\ Asked /\ Sending /\ Hands /\ Exclusive
  BY DEF SoleInv, IInv, TypeOK
<1>1. LiveStep(p)
  BY <1>0 DEF LiveStep, Alone, PromptFails, work, rest, Goto, At
<1>2. Grants(p)
  BY <1>0 DEF Grants, PromptFails, store
<1>3. Spares(p)
  BY <1>0 DEF Spares, PromptFails, store, rest, Goto, At
<1>4. Enters(p)
  BY <1>0 DEF Enters, Occupies, PromptFails, store
<1>5. InHand(p)'
  BY <1>0 DEF InHand, OnSteps, Hands, PromptFails, work, Goto, At
<1>6. Marked'
  BY <1>0 DEF Marked, PromptFails, store
<1>7. Asked'
  BY <1>0 DEF Asked, PromptFails, rest
<1>8. SoleInv'
  BY <1>1, <1>2, <1>3, <1>4, <1>5, <1>6, <1>7, SoleKept
<1>9. UNCHANGED prompts
  BY DEF PromptFails, rest
<1> QED
  BY <1>3, <1>8, <1>9, ReplyKept

\* The prompt was accepted.
LEMMA RecheckAcceptedStep ==
  ASSUME SoleInv, IInv', NEW p \in Procs, RecheckAccepted(p)
  PROVE  SoleInv' /\ UNCHANGED Contract!vars
<1>0. /\ StoreTypeOK /\ HostTypeOK /\ PastTypeOK /\ SchedTypeOK /\ FrameTypeOK /\ CommandTypeOK
      /\ Focus /\ Unsent /\ AnswerBacksReply
      /\ Alone /\ Tenure /\ Posted /\ Marked /\ Asked /\ Sending /\ Hands /\ Exclusive
  BY DEF SoleInv, IInv, TypeOK
<1>1. LiveStep(p)
  BY <1>0 DEF LiveStep, Alone, FrameTypeOK, RecheckAccepted, work, rest, Confirmed, Goto, At
<1>2. Grants(p)
  BY <1>0 DEF Grants, StoreTypeOK, RecheckAccepted, hold, Confirmed, SetState
<1>3. Spares(p)
  BY <1>0
  DEF Spares, StoreTypeOK, FrameTypeOK, Posted, RecheckAccepted, rest, hold, Confirmed,
      SetState, Goto, At
<1>4. Enters(p)
  BY <1>0 DEF Enters, Occupies, StoreTypeOK, RecheckAccepted, Confirmed, SetState
<1>5. InHand(p)'
  BY <1>0
  DEF InHand, OnSteps, Hands, FrameTypeOK, RecheckAccepted, work, Confirmed, Goto, At
<1>6. Marked'
  BY <1>0 DEF Marked, StoreTypeOK, RecheckAccepted, hold, Confirmed, SetState
<1>7. Asked'
  BY <1>0 DEF Asked, RecheckAccepted, rest
<1>8. SoleInv'
  BY <1>1, <1>2, <1>3, <1>4, <1>5, <1>6, <1>7, SoleKept
<1>9. UNCHANGED prompts
  BY DEF RecheckAccepted, rest
<1> QED
  BY <1>3, <1>8, <1>9, ReplyKept

\* The submission is uncertain, and the turn is rescued.
LEMMA RecheckUncertainStep ==
  ASSUME SoleInv, IInv', NEW p \in Procs, RecheckUncertain(p)
  PROVE  SoleInv' /\ UNCHANGED Contract!vars
<1>0. /\ StoreTypeOK /\ HostTypeOK /\ PastTypeOK /\ SchedTypeOK /\ FrameTypeOK /\ CommandTypeOK
      /\ Focus /\ Unsent /\ AnswerBacksReply
      /\ Alone /\ Tenure /\ Posted /\ Marked /\ Asked /\ Sending /\ Hands /\ Exclusive
  BY DEF SoleInv, IInv, TypeOK
<1>1. LiveStep(p)
  BY <1>0 DEF LiveStep, Alone, FrameTypeOK, RecheckUncertain, rest, BeginRescue, Goto, At
<1>2. Grants(p)
  BY <1>0 DEF Grants, Focus, RecheckUncertain, BeginRescue, At
<1>3. Spares(p)
  BY <1>0 DEF Spares, FrameTypeOK, Posted, RecheckUncertain, rest, BeginRescue, Goto, At
<1>4. Enters(p)
  BY <1>0 DEF Enters, Occupies, RecheckUncertain
<1>5. InHand(p)'
  <2>1. /\ pc[p] = "recheck" /\ cur[p] \in Turns /\ todo[p] = {} /\ UNCHANGED <<cur, todo, posts>>
    BY <1>0 DEF Hands, InHand, OnSteps, Focus, RecheckUncertain, At, rest
  <2>2. on'[p] = cur[p] /\ ctx'[p] = "submit" /\ pc'[p] \in {"rescued", "messages", "abort"}
    BY <1>0 DEF RecheckUncertain, BeginRescue, Goto, FrameTypeOK
  <2>3. pc'[p] # "rescued" => owner'[cur[p]] = p
    BY <1>0, <2>1 DEF RecheckUncertain, BeginRescue, Goto, Claim, StoreTypeOK, FrameTypeOK
  <2>4. pc'[p] = "messages" => posts[cur[p]] = 0
    <3>1. pc'[p] = "messages" =>
            st[cur[p]] = "submitting" \/ (unc[cur[p]] = "submission" /\ ~fenced[cur[p]])
      BY <1>0, <2>1 DEF RecheckUncertain, BeginRescue, Goto, FrameTypeOK, StoreTypeOK
    <3> QED
      BY <1>0, <2>1, <3>1 DEF Posted, Marked, PastTypeOK
  <2> QED
    BY <2>1, <2>2, <2>3, <2>4 DEF InHand, OnSteps
<1>6. Marked'
  BY <1>0 DEF Marked, StoreTypeOK, RecheckUncertain
<1>7. Asked'
  BY <1>0 DEF Asked, RecheckUncertain, rest
<1>8. SoleInv'
  BY <1>1, <1>2, <1>3, <1>4, <1>5, <1>6, <1>7, SoleKept
<1>9. UNCHANGED prompts
  BY DEF RecheckUncertain, rest
<1> QED
  BY <1>3, <1>8, <1>9, ReplyKept

\* A recovered submission.
LEMMA VerifyStep ==
  ASSUME SoleInv, IInv', NEW p \in Procs, Verify(p)
  PROVE  SoleInv' /\ UNCHANGED Contract!vars
<1>0. /\ StoreTypeOK /\ HostTypeOK /\ PastTypeOK /\ SchedTypeOK /\ FrameTypeOK /\ CommandTypeOK
      /\ Focus /\ Unsent /\ AnswerBacksReply
      /\ Alone /\ Tenure /\ Posted /\ Marked /\ Asked /\ Sending /\ Hands /\ Exclusive
  BY DEF SoleInv, IInv, TypeOK
<1>1. LiveStep(p)
  BY <1>0 DEF LiveStep, Alone, FrameTypeOK, Verify, work, rest, Goto, Confirmed, At
<1>2. Grants(p)
  BY <1>0 DEF Grants, StoreTypeOK, Verify, hold, Confirmed, SetState
<1>3. Spares(p)
  BY <1>0
  DEF Spares, StoreTypeOK, FrameTypeOK, Posted, Verify, rest, hold, Resume, Route, Goto,
      Confirmed, SetState, At
<1>4. Enters(p)
  BY <1>0 DEF Enters, Occupies, StoreTypeOK, Verify, Confirmed, SetState
<1>5. InHand(p)'
  BY <1>0
  DEF InHand, OnSteps, Hands, FrameTypeOK, Focus, Sending, Verify, work, Resume, Route,
      Goto, Confirmed, Closing, At
<1>6. Marked'
  BY <1>0 DEF Marked, StoreTypeOK, Verify, hold, Confirmed, SetState
<1>7. Asked'
  BY <1>0 DEF Asked, Verify, rest
<1>8. SoleInv'
  BY <1>1, <1>2, <1>3, <1>4, <1>5, <1>6, <1>7, SoleKept
<1>9. UNCHANGED prompts
  BY DEF Verify, rest
<1> QED
  BY <1>3, <1>8, <1>9, ReplyKept

\* The answer.
LEMMA PollAnsweredStep ==
  ASSUME SoleInv, IInv', NEW p \in Procs, PollAnswered(p)
  PROVE  SoleInv' /\ UNCHANGED Contract!vars
<1>0. /\ StoreTypeOK /\ HostTypeOK /\ PastTypeOK /\ SchedTypeOK /\ FrameTypeOK /\ CommandTypeOK
      /\ Focus /\ Unsent /\ AnswerBacksReply
      /\ Alone /\ Tenure /\ Posted /\ Marked /\ Asked /\ Sending /\ Hands /\ Exclusive
  BY DEF SoleInv, IInv, TypeOK
<1>1. LiveStep(p)
  BY <1>0
  DEF LiveStep, Alone, FrameTypeOK, PollAnswered, FinishUnchanged, rest, BeginFinish,
      Goto, At
<1>2. Grants(p)
  BY <1>0 DEF Grants, StoreTypeOK, PollAnswered, BeginFinish, SetState, Claim
<1>3. Spares(p)
  <2>1. UNCHANGED <<posts, prompts, unc, fenced>>
    BY <1>0 DEF PollAnswered, FinishUnchanged, rest
  <2>2. st[cur[p]] = "submitted" \/ st' = st
    BY <1>0 DEF StoreTypeOK, PollAnswered, BeginFinish, SetState
  <2>3. \A t \in Turns : t # cur[p] => st'[t] = st[t]
    BY <1>0 DEF StoreTypeOK, PollAnswered, BeginFinish, SetState
  <2>4. \A t \in Turns : posts[t] > 0 => st'[t] = st[t]
    BY <1>0, <2>2, <2>3 DEF Posted
  <2>5. \A t \in Turns : st'[t] = "delivery_started" => st[t] = "delivery_started"
    BY <1>0 DEF StoreTypeOK, PollAnswered, BeginFinish, SetState
  <2>6. pc[p] # "send" /\ pc'[p] # "send"
    BY <1>0 DEF FrameTypeOK, PollAnswered, FinishUnchanged, BeginFinish, Thrown, Goto, Done, At
  <2>7. QED
    BY <1>0, <2>1, <2>4, <2>5, <2>6 DEF Spares
<1>4. Enters(p)
  BY <1>0 DEF Enters, Occupies, StoreTypeOK, PollAnswered, BeginFinish, SetState
<1>5. InHand(p)'
  <2>1. pc'[p] \in {"returned", "threw", "lost", "prepare"}
    BY <1>0 DEF FrameTypeOK, PollAnswered, BeginFinish, Goto, Done, Thrown
  <2>2. ctx'[p] = "turn" /\ on'[p] = cur[p] /\ UNCHANGED <<cur, todo, posts>>
    BY <1>0 DEF FrameTypeOK, PollAnswered, BeginFinish, FinishUnchanged, rest
  <2>3. cur[p] \in Turns /\ todo[p] = {}
    BY <1>0 DEF Hands, InHand, OnSteps, Focus, PollAnswered, At
  <2>4. pc'[p] = "prepare" =>
          /\ owner'[cur[p]] = p
          /\ st[cur[p]] \in {"submitted", "completed"}
    BY <1>0, <2>3
    DEF FrameTypeOK, StoreTypeOK, Hands, InHand, PollAnswered, BeginFinish, Claim, Goto, Done,
      Thrown, At
  <2>5. QED
    BY <1>0, <2>1, <2>2, <2>3, <2>4 DEF InHand, OnSteps, Posted, PastTypeOK
<1>6. Marked'
  BY <1>0 DEF Marked, StoreTypeOK, PollAnswered, FinishUnchanged, BeginFinish, SetState
<1>7. Asked'
  BY <1>0 DEF Asked, PollAnswered, FinishUnchanged, rest
<1>8. SoleInv'
  BY <1>1, <1>2, <1>3, <1>4, <1>5, <1>6, <1>7, SoleKept
<1>9. UNCHANGED prompts
  BY DEF PollAnswered, FinishUnchanged, rest
<1> QED
  BY <1>3, <1>8, <1>9, ReplyKept

\* No answer.
LEMMA PollEndsStep ==
  ASSUME SoleInv, IInv', NEW p \in Procs, PollEnds(p)
  PROVE  SoleInv' /\ UNCHANGED Contract!vars
<1>0. /\ StoreTypeOK /\ HostTypeOK /\ PastTypeOK /\ SchedTypeOK /\ FrameTypeOK /\ CommandTypeOK
      /\ Focus /\ Unsent /\ AnswerBacksReply
      /\ Alone /\ Tenure /\ Posted /\ Marked /\ Asked /\ Sending /\ Hands /\ Exclusive
  BY DEF SoleInv, IInv, TypeOK
<1>1. LiveStep(p)
  BY <1>0 DEF LiveStep, Alone, FrameTypeOK, PollEnds, work, rest, Goto, At
<1>2. Grants(p)
  BY <1>0 DEF Grants, PollEnds, store
<1>3. Spares(p)
  BY <1>0 DEF Spares, FrameTypeOK, PollEnds, store, rest, Goto, At
<1>4. Enters(p)
  BY <1>0 DEF Enters, Occupies, PollEnds, store
<1>5. InHand(p)'
  BY <1>0 DEF InHand, OnSteps, Hands, FrameTypeOK, PollEnds, work, Goto, At
<1>6. Marked'
  BY <1>0 DEF Marked, PollEnds, store
<1>7. Asked'
  BY <1>0 DEF Asked, PollEnds, rest
<1>8. SoleInv'
  BY <1>1, <1>2, <1>3, <1>4, <1>5, <1>6, <1>7, SoleKept
<1>9. UNCHANGED prompts
  BY DEF PollEnds, rest
<1> QED
  BY <1>3, <1>8, <1>9, ReplyKept

\* A saved answer.
LEMMA SavedStep ==
  ASSUME SoleInv, IInv', NEW p \in Procs, Saved(p)
  PROVE  SoleInv' /\ UNCHANGED Contract!vars
<1>0. /\ StoreTypeOK /\ HostTypeOK /\ PastTypeOK /\ SchedTypeOK /\ FrameTypeOK /\ CommandTypeOK
      /\ Focus /\ Unsent /\ AnswerBacksReply
      /\ Alone /\ Tenure /\ Posted /\ Marked /\ Asked /\ Sending /\ Hands /\ Exclusive
  BY DEF SoleInv, IInv, TypeOK
<1>1. LiveStep(p)
  BY <1>0
  DEF LiveStep, Alone, FrameTypeOK, Saved, FinishUnchanged, rest, BeginFinish, Goto, At
<1>2. Grants(p)
  BY <1>0 DEF Grants, StoreTypeOK, Focus, Saved, BeginFinish, SetState, At
<1>3. Spares(p)
  <2>1. UNCHANGED <<posts, prompts, unc, fenced>>
    BY <1>0 DEF Saved, FinishUnchanged, rest
  <2>2. st[cur[p]] \in {"completed", "interrupted"}
    BY <1>0 DEF Hands, InHand, Saved, At
  <2>3. \A t \in Turns : t # cur[p] => st'[t] = st[t]
    BY <1>0 DEF StoreTypeOK, Saved, BeginFinish, SetState
  <2>4. \A t \in Turns : posts[t] > 0 => st'[t] = st[t]
    BY <1>0, <2>2, <2>3 DEF Posted
  <2>5. \A t \in Turns : st'[t] = "delivery_started" => st[t] = "delivery_started"
    BY <1>0 DEF StoreTypeOK, Saved, BeginFinish, SetState
  <2>6. pc[p] # "send" /\ pc'[p] # "send"
    BY <1>0 DEF FrameTypeOK, Saved, FinishUnchanged, BeginFinish, Thrown, Goto, Done, At
  <2>7. QED
    BY <1>0, <2>1, <2>4, <2>5, <2>6 DEF Spares
<1>4. Enters(p)
  BY <1>0 DEF Enters, Occupies, StoreTypeOK, Saved, BeginFinish, SetState
<1>5. InHand(p)'
  <2>1. pc'[p] \in {"returned", "threw", "lost", "prepare"}
    BY <1>0 DEF FrameTypeOK, Saved, BeginFinish, Goto, Done, Thrown
  <2>2. ctx'[p] = "turn" /\ on'[p] = cur[p] /\ UNCHANGED <<cur, todo, posts>>
    BY <1>0 DEF FrameTypeOK, Saved, BeginFinish, FinishUnchanged, rest
  <2>3. cur[p] \in Turns /\ todo[p] = {}
    BY <1>0 DEF Hands, InHand, OnSteps, Focus, Saved, At
  <2>4. pc'[p] = "prepare" =>
          /\ owner'[cur[p]] = p
          /\ st[cur[p]] \in {"submitted", "completed"}
    BY <1>0, <2>3
    DEF FrameTypeOK, StoreTypeOK, Hands, InHand, Saved, BeginFinish, Claim, Goto, Done, Thrown, At
  <2>5. QED
    BY <1>0, <2>1, <2>2, <2>3, <2>4 DEF InHand, OnSteps, Posted, PastTypeOK
<1>6. Marked'
  BY <1>0
  DEF Marked, StoreTypeOK, Hands, InHand, Saved, FinishUnchanged, BeginFinish, SetState,
      At
<1>7. Asked'
  BY <1>0 DEF Asked, Saved, FinishUnchanged, rest
<1>8. SoleInv'
  BY <1>1, <1>2, <1>3, <1>4, <1>5, <1>6, <1>7, SoleKept
<1>9. UNCHANGED prompts
  BY DEF Saved, FinishUnchanged, rest
<1> QED
  BY <1>3, <1>8, <1>9, ReplyKept

\* A paused turn.
LEMMA StuckStep ==
  ASSUME SoleInv, IInv', NEW p \in Procs, Stuck(p)
  PROVE  SoleInv' /\ UNCHANGED Contract!vars
<1>0. /\ StoreTypeOK /\ HostTypeOK /\ PastTypeOK /\ SchedTypeOK /\ FrameTypeOK /\ CommandTypeOK
      /\ Focus /\ Unsent /\ AnswerBacksReply
      /\ Alone /\ Tenure /\ Posted /\ Marked /\ Asked /\ Sending /\ Hands /\ Exclusive
  BY DEF SoleInv, IInv, TypeOK
<1>1. LiveStep(p)
  BY <1>0 DEF LiveStep, Alone, FrameTypeOK, Stuck, rest, Goto, BeginRescue, At
<1>2. Grants(p)
  BY <1>0 DEF Grants, Focus, Stuck, BeginRescue, At
<1>3. Spares(p)
  BY <1>0 DEF Spares, FrameTypeOK, Stuck, rest, Goto, BeginRescue, At
<1>4. Enters(p)
  BY <1>0 DEF Enters, Occupies, Stuck
<1>5. InHand(p)'
  BY <1>0
  DEF InHand, OnSteps, Hands, FrameTypeOK, StoreTypeOK, Focus, Stuck, rest, Goto,
      BeginRescue, Claim, At
<1>6. Marked'
  BY <1>0 DEF Marked, Stuck
<1>7. Asked'
  BY <1>0 DEF Asked, Stuck, rest
<1>8. SoleInv'
  BY <1>1, <1>2, <1>3, <1>4, <1>5, <1>6, <1>7, SoleKept
<1>9. UNCHANGED prompts
  BY DEF Stuck, rest
<1> QED
  BY <1>3, <1>8, <1>9, ReplyKept

\* Never reached: what was being posted has been given up.
LEMMA AmbiguousStep ==
  ASSUME SoleInv, NEW p \in Procs, Ambiguous(p)
  PROVE  SoleInv' /\ [Contract!Next]_(Contract!vars)
<1>0. /\ StoreTypeOK /\ HostTypeOK /\ PastTypeOK /\ SchedTypeOK /\ FrameTypeOK /\ CommandTypeOK
      /\ Focus /\ Unsent /\ AnswerBacksReply
      /\ Alone /\ Tenure /\ Posted /\ Marked /\ Asked /\ Sending /\ Hands /\ Exclusive
  BY DEF SoleInv, IInv, TypeOK
<1>1. FALSE
  BY <1>0 DEF Hands, InHand, Ambiguous, At
<1> QED
  BY <1>1

\* An error.
LEMMA CatchStep ==
  ASSUME SoleInv, IInv', NEW p \in Procs, Catch(p)
  PROVE  SoleInv' /\ UNCHANGED Contract!vars
<1>0. /\ StoreTypeOK /\ HostTypeOK /\ PastTypeOK /\ SchedTypeOK /\ FrameTypeOK /\ CommandTypeOK
      /\ Focus /\ Unsent /\ AnswerBacksReply
      /\ Alone /\ Tenure /\ Posted /\ Marked /\ Asked /\ Sending /\ Hands /\ Exclusive
  BY DEF SoleInv, IInv, TypeOK
<1>1. LiveStep(p)
  BY <1>0 DEF LiveStep, Alone, FrameTypeOK, Catch, counts, command, Goto, At
<1>2. Grants(p)
  BY <1>0 DEF Grants, StoreTypeOK, Catch, SetState
<1>3. Spares(p)
  BY <1>0
  DEF Spares, StoreTypeOK, FrameTypeOK, Posted, Sending, Catch, past, Terminal, SetState,
      Goto, Closing, At
<1>4. Enters(p)
  BY <1>0 DEF Enters, Occupies, StoreTypeOK, Catch, SetState
<1>5. InHand(p)'
  <2>1. /\ pc[p] \in {"threw", "lost"} /\ UNCHANGED <<posts, todo>>
        /\ \/ pc' = [pc EXCEPT ![p] = "returned"] /\ UNCHANGED <<cur, on, ctx>>
           \/ /\ pc' = [pc EXCEPT ![p] = "idle"]
              /\ cur' = [cur EXCEPT ![p] = NoTurn]
              /\ on' = [on EXCEPT ![p] = NoTurn]
              /\ ctx' = [ctx EXCEPT ![p] = "turn"]
    BY DEF Catch, At, Goto, past
  <2>2. todo[p] = {} /\ ctx[p] # "drain"
    BY <1>0, <2>1 DEF Hands, InHand, OnSteps
  <2> QED
    BY <1>0, <2>1, <2>2 DEF Hands, InHand, OnSteps, FrameTypeOK
<1>6. Marked'
  BY <1>0 DEF Marked, StoreTypeOK, Catch, SetState
<1>7. Asked'
  BY <1>0 DEF Asked, Catch, past
<1>8. SoleInv'
  BY <1>1, <1>2, <1>3, <1>4, <1>5, <1>6, <1>7, SoleKept
<1>9. UNCHANGED prompts
  BY DEF Catch, past
<1> QED
  BY <1>3, <1>8, <1>9, ReplyKept

\* Back in the queue.
LEMMA ReturnedStep ==
  ASSUME SoleInv, IInv', NEW p \in Procs, Returned(p)
  PROVE  SoleInv' /\ UNCHANGED Contract!vars
<1>0. /\ StoreTypeOK /\ HostTypeOK /\ PastTypeOK /\ SchedTypeOK /\ FrameTypeOK /\ CommandTypeOK
      /\ Focus /\ Unsent /\ AnswerBacksReply
      /\ Alone /\ Tenure /\ Posted /\ Marked /\ Asked /\ Sending /\ Hands /\ Exclusive
  BY DEF SoleInv, IInv, TypeOK
<1>1. LiveStep(p)
  BY <1>0 DEF LiveStep, Alone, Returned, counts, command, Goto, At
<1>2. Grants(p)
  BY <1>0 DEF Grants, Returned, store
<1>3. Spares(p)
  BY <1>0 DEF Spares, Returned, store, past, Goto, At
<1>4. Enters(p)
  BY <1>0 DEF Enters, Occupies, Returned, store
<1>5. InHand(p)'
  BY <1>0 DEF InHand, OnSteps, Hands, Returned, Goto, At
<1>6. Marked'
  BY <1>0 DEF Marked, Returned, store
<1>7. Asked'
  BY <1>0 DEF Asked, Returned, past
<1>8. SoleInv'
  BY <1>1, <1>2, <1>3, <1>4, <1>5, <1>6, <1>7, SoleKept
<1>9. UNCHANGED prompts
  BY DEF Returned, past
<1> QED
  BY <1>3, <1>8, <1>9, ReplyKept

\* A reply that cannot be prepared.
LEMMA PrepareRefusesStep ==
  ASSUME SoleInv, IInv', NEW p \in Procs, PrepareRefuses(p)
  PROVE  SoleInv' /\ UNCHANGED Contract!vars
<1>0. /\ StoreTypeOK /\ HostTypeOK /\ PastTypeOK /\ SchedTypeOK /\ FrameTypeOK /\ CommandTypeOK
      /\ Focus /\ Unsent /\ AnswerBacksReply
      /\ Alone /\ Tenure /\ Posted /\ Marked /\ Asked /\ Sending /\ Hands /\ Exclusive
  BY DEF SoleInv, IInv, TypeOK
<1>a0. on[p] \in Turns /\ posts[on[p]] = 0
  BY <1>0 DEF Focus, OnSteps, Hands, InHand, PrepareRefuses, At
<1>a1. \A f \in Fresh : posts[f] = 0
  BY <1>0 DEF Posted, PastTypeOK, Fresh
<1>1. LiveStep(p)
  BY <1>0, <1>a0, <1>a1
  DEF LiveStep, Alone, PrepareRefuses, work, counts, command, SetState, Goto, At
<1>2. Grants(p)
  BY <1>0, <1>a0, <1>a1 DEF Grants, StoreTypeOK, PrepareRefuses, hold, ReplyFails, SetState
<1>3. Spares(p)
  <2>1. /\ pc'[p] # "send" /\ pc[p] # "send"
        /\ UNCHANGED <<posts, prompts, unc, fenced>>
    BY <1>0 DEF PrepareRefuses, At, Goto, Done, hold, past
  <2>2. \/ st' = [st EXCEPT ![on[p]] = "failed"]
        \/ \E f \in Fresh : st' = [st EXCEPT ![on[p]] = "failed", ![f] = "queued"]
    BY DEF PrepareRefuses, ReplyFails, SetState
  <2>3. \A f \in Fresh : f \in Turns
    BY DEF Fresh
  <2> QED
    BY <1>0, <1>a0, <1>a1, <2>1, <2>2, <2>3 DEF Spares, StoreTypeOK
<1>4. Enters(p)
  BY <1>0, <1>a0, <1>a1
  DEF Enters, Occupies, StoreTypeOK, Tenure, PrepareRefuses, hold, ReplyFails, SetState,
      Fresh
<1>5. InHand(p)'
  <2>1. /\ pc[p] = "prepare" /\ pc' = [pc EXCEPT ![p] = Done(ctx[p])]
        /\ UNCHANGED <<posts, cur, on, ctx, todo>>
    BY DEF PrepareRefuses, At, Goto, past, work
  <2>2. Done(ctx[p]) = IF ctx[p] = "turn" THEN "returned" ELSE "rescued"
    BY DEF Done
  <2> QED
    BY <1>0, <2>1, <2>2 DEF Hands, InHand, OnSteps, FrameTypeOK
<1>6. Marked'
  BY <1>0, <1>a0, <1>a1
  DEF Marked, StoreTypeOK, PrepareRefuses, hold, ReplyFails, SetState, Fresh
<1>7. Asked'
  BY <1>0, <1>a0, <1>a1 DEF Asked, PrepareRefuses, past
<1>8. SoleInv'
  BY <1>1, <1>2, <1>3, <1>4, <1>5, <1>6, <1>7, SoleKept
<1>9. UNCHANGED prompts
  BY DEF PrepareRefuses, past
<1> QED
  BY <1>3, <1>8, <1>9, ReplyKept

\* A preparation that fails.
LEMMA PrepareFailsStep ==
  ASSUME SoleInv, IInv', NEW p \in Procs, PrepareFails(p)
  PROVE  SoleInv' /\ UNCHANGED Contract!vars
<1>0. /\ StoreTypeOK /\ HostTypeOK /\ PastTypeOK /\ SchedTypeOK /\ FrameTypeOK /\ CommandTypeOK
      /\ Focus /\ Unsent /\ AnswerBacksReply
      /\ Alone /\ Tenure /\ Posted /\ Marked /\ Asked /\ Sending /\ Hands /\ Exclusive
  BY DEF SoleInv, IInv, TypeOK
<1>1. LiveStep(p)
  BY <1>0 DEF LiveStep, Alone, PrepareFails, work, rest, Goto, At
<1>2. Grants(p)
  BY <1>0 DEF Grants, PrepareFails, store
<1>3. Spares(p)
  BY <1>0 DEF Spares, PrepareFails, store, rest, Thrown, Goto, At
<1>4. Enters(p)
  BY <1>0 DEF Enters, Occupies, PrepareFails, store
<1>5. InHand(p)'
  BY <1>0 DEF InHand, OnSteps, Hands, PrepareFails, work, store, rest, Thrown, Goto, At
<1>6. Marked'
  BY <1>0 DEF Marked, PrepareFails, store
<1>7. Asked'
  BY <1>0 DEF Asked, PrepareFails, rest
<1>8. SoleInv'
  BY <1>1, <1>2, <1>3, <1>4, <1>5, <1>6, <1>7, SoleKept
<1>9. UNCHANGED prompts
  BY DEF PrepareFails, rest
<1> QED
  BY <1>3, <1>8, <1>9, ReplyKept

\* The post: of a turn that was not posted before.
LEMMA PostStep ==
  ASSUME SoleInv, IInv', NEW p \in Procs, Post(p)
  PROVE  SoleInv' /\ [Contract!Next]_(Contract!vars)
<1>0. /\ StoreTypeOK /\ HostTypeOK /\ PastTypeOK /\ SchedTypeOK /\ FrameTypeOK /\ CommandTypeOK
      /\ Focus /\ Unsent /\ AnswerBacksReply
      /\ Alone /\ Tenure /\ Posted /\ Marked /\ Asked /\ Sending /\ Hands /\ Exclusive
  BY DEF SoleInv, IInv, TypeOK
<1>1. /\ up[p] = "up" /\ pc[p] = "prepare" /\ on[p] \in Turns /\ owner[on[p]] = p
  BY <1>0 DEF Alone, Focus, Hands, InHand, OnSteps, Post, At
<1>2. LiveStep(p)
  BY <1>0, <1>1 DEF LiveStep, FrameTypeOK, Post, Goto, sched, work, command, counts
<1>3. Grants(p)
  BY <1>0 DEF Grants, StoreTypeOK, Post, SetState, hold
<1>4. CASE pc'[p] # "send"
  <2>1. UNCHANGED <<st, unc, fenced, owner, lease, prompts, posts>>
    BY <1>0, <1>1, <1>4 DEF Post, Goto, FrameTypeOK, hold
  <2>2. pc' = [pc EXCEPT ![p] = Done(ctx[p])] \/ pc' = [pc EXCEPT ![p] = Thrown(ctx[p], "lost")]
    BY <1>0, <1>1, <1>4 DEF Post, Goto, FrameTypeOK
  <2>3. Spares(p) /\ Enters(p)
    BY <1>1, <1>4, <2>1 DEF Spares, Enters, Occupies
  <2>5. Marked' /\ Asked'
    BY <1>0, <2>1 DEF Marked, Asked, Post
  <2>4. InHand(p)'
    <3>1. pc'[p] \in {"returned", "rescued", "lost"} /\ (ctx[p] = "drain" => pc'[p] = "rescued")
      BY <1>0, <2>2 DEF Done, Thrown, FrameTypeOK
    <3>2. UNCHANGED <<posts, cur, on, ctx, todo, owner>>
      BY <2>1 DEF Post, work
    <3> QED
      BY <1>0, <1>1, <3>1, <3>2 DEF Hands, InHand, OnSteps
  <2> QED
    BY <1>2, <1>3, <2>1, <2>3, <2>4, <2>5, SoleKept, ReplyKept
<1>5. CASE pc'[p] = "send"
  <2>1. /\ st[on[p]] = "completed" /\ st' = [st EXCEPT ![on[p]] = "delivery_started"]
        /\ posts' = [posts EXCEPT ![on[p]] = @ + 1]
        /\ UNCHANGED <<unc, fenced, owner, lease, prompts, cur, on, ctx, todo>>
    BY <1>0, <1>5 DEF Post, Goto, Done, Thrown, OwnedIn, SetState, FrameTypeOK, hold, work
  <2>2. /\ posts[on[p]] = 0 /\ on[p] \notin todo[p]
    BY <1>0, <1>1 DEF Hands, InHand, OnSteps
  <2>3. prompts[on[p]] = 1
    BY <1>0, <1>1, <2>1 DEF IInv, PromptedOnce, AnswerBacksReply, Asked, PastTypeOK
  <2>4. Alone' /\ Tenure'
    BY <1>0, <1>2, <1>3, AloneKept, TenureKept DEF IInv, TypeOK
  <2>5. Posted' /\ Marked'
    BY <1>0, <1>1, <2>1, <2>2, <2>3 DEF Posted, Marked, StoreTypeOK, PastTypeOK
  <2>6. Asked'
    BY <1>0, <2>1 DEF Asked, Post
  <2>7. Sending'
    <3>1. ASSUME NEW q \in Procs, pc'[q] = "send" PROVE st'[on'[q]] = "delivery_started"
      BY <1>0, <1>1, <2>1, <3>1, <1>2 DEF Alone, LiveStep, StoreTypeOK
    <3>2. ASSUME NEW t \in Turns, st'[t] = "delivery_started"
          PROVE  t = on[p] /\ posts'[t] > 0
      BY <1>0, <1>1, <2>1, <3>2 DEF Sending, StoreTypeOK, PastTypeOK
    <3>3. \A q \in Procs : up'[q] = "up" => q = p
      BY <1>0, <1>2 DEF Alone, LiveStep
    <3> QED
      BY <1>5, <2>1, <3>1, <3>2, <3>3 DEF Sending
  <2>8. Hands'
    <3>1. InHand(p)'
      BY <1>0, <1>1, <1>5, <2>1, <2>2 DEF Hands, InHand, OnSteps, PastTypeOK
    <3>2. ASSUME NEW q \in Procs, q # p PROVE InHand(q)'
      <4>1. pc[q] = "idle" /\ todo[q] = {} /\ ctx[q] # "drain"
        BY <1>0, <1>1, <3>2 DEF Alone, Hands, InHand, OnSteps
      <4> QED
        BY <1>2, <3>2, <4>1 DEF InHand, LiveStep, OnSteps
    <3> QED
      BY <3>1, <3>2 DEF Hands
  <2>9. Enters(p)
    BY <1>0, <1>1, <2>1 DEF Enters, Occupies, StoreTypeOK
  <2>10. Exclusive'
    BY <1>0, <1>2, <1>3, <2>9, ExclusiveKept DEF IInv, TypeOK
  <2>11. SoleInv'
    BY <2>4, <2>5, <2>6, <2>7, <2>8, <2>10 DEF SoleInv
  <2>12. Reply' = [Reply EXCEPT ![on[p]] = "posting"]
    <3>1. ASSUME NEW t \in Turns
          PROVE  Reply'[t] = IF t = on[p] THEN "posting" ELSE Reply[t]
      <4>1. CASE t = on[p]
        BY <1>0, <1>1, <2>1, <2>2, <4>1 DEF Reply, StoreTypeOK, PastTypeOK
      <4>2. CASE t # on[p]
        BY <1>0, <2>1, <4>2 DEF Reply, StoreTypeOK, PastTypeOK
      <4> QED
        BY <4>1, <4>2
    <3> QED
      BY <3>1 DEF Reply
  <2>13. Contract!Post(on[p])
    BY <1>0, <2>1, <2>2, <2>3, <2>12 DEF Contract!Post, PastTypeOK
  <2> QED
    BY <1>1, <2>11, <2>13 DEF Contract!Next
<1> QED
  BY <1>4, <1>5

\* The reply is delivered.
LEMMA PostSucceedsStep ==
  ASSUME SoleInv, IInv', NEW p \in Procs, PostSucceeds(p)
  PROVE  SoleInv' /\ [Contract!Next]_(Contract!vars)
<1>0. /\ StoreTypeOK /\ HostTypeOK /\ PastTypeOK /\ SchedTypeOK /\ FrameTypeOK /\ CommandTypeOK
      /\ Focus /\ Unsent /\ AnswerBacksReply
      /\ Alone /\ Tenure /\ Posted /\ Marked /\ Asked /\ Sending /\ Hands /\ Exclusive
  BY DEF SoleInv, IInv, TypeOK
<1>1. /\ up[p] = "up" /\ pc[p] = "send" /\ on[p] \in Turns /\ owner[on[p]] = p
  BY <1>0 DEF Alone, Focus, Hands, InHand, OnSteps, PostSucceeds, At
<1>2. LiveStep(p)
  BY <1>0, <1>1 DEF LiveStep, PostSucceeds, Goto, rest, work
<1>3. pc'[p] \in {"returned", "rescued"} /\ (ctx[p] = "drain" => pc'[p] = "rescued")
  BY <1>0 DEF PostSucceeds, Goto, Done, FrameTypeOK
<1>4. UNCHANGED <<owner, lease, posts, prompts, host, cur, on, ctx, todo>>
  BY DEF PostSucceeds, hold, rest, past, work
<1>5. st[on[p]] = "delivery_started" /\ posts[on[p]] = 1 /\ prompts[on[p]] = 1
  BY <1>0, <1>1 DEF Sending, Posted
<1>6. /\ \A t \in Turns \ {on[p]} : st'[t] = st[t]
      /\ st'[on[p]] = "delivered" /\ UNCHANGED <<unc, fenced>>
  BY <1>0, <1>1 DEF PostSucceeds, SetState, StoreTypeOK, hold
<1>7. Alone' /\ Tenure'
  <2>1. Grants(p)
    BY <1>0, <1>4, <1>6 DEF Grants
  <2> QED
    BY <1>0, <1>2, <2>1, AloneKept, TenureKept DEF IInv, TypeOK
<1>8. Posted' /\ Marked' /\ Asked'
  BY <1>0, <1>1, <1>4, <1>5, <1>6 DEF Posted, Marked, Asked
<1>9. Sending'
  <2>1. \A t \in Turns : st'[t] # "delivery_started"
    BY <1>0, <1>1, <1>6 DEF Sending
  <2>2. \A q \in Procs : pc'[q] # "send"
    BY <1>0, <1>1, <1>2, <1>3 DEF Alone, LiveStep
  <2> QED
    BY <2>1, <2>2 DEF Sending
<1>10. Hands'
  <2>1. InHand(p)'
    BY <1>0, <1>1, <1>3, <1>4 DEF Hands, InHand, OnSteps
  <2> QED
    BY <1>0, <1>2, <1>4, <2>1, HandsKept DEF SoleInv
<1>11. Exclusive'
  BY <1>0, <1>4, <1>6, <1>2 DEF Exclusive, Tenure, LiveStep, Occupies
<1>12. SoleInv'
  BY <1>7, <1>8, <1>9, <1>10, <1>11 DEF SoleInv
<1>13. ASSUME NEW t \in Turns \ {on[p]} PROVE Reply'[t] = Reply[t]
  <2>1. posts[t] = 0 \/ st'[t] = st[t]
    BY <1>0, <1>6 DEF Posted, PastTypeOK
  <2>2. posts'[t] = posts[t] /\ unc'[t] = unc[t] /\ fenced'[t] = fenced[t]
    BY <1>4, <1>6
  <2> QED
    BY <2>1, <2>2 DEF Reply
<1>14. Reply[on[p]] = "posting" /\ Reply'[on[p]] = "delivered"
  BY <1>0, <1>1, <1>4, <1>5, <1>6 DEF Reply
<1>15. Reply' = [Reply EXCEPT ![on[p]] = "delivered"]
  BY <1>1, <1>13, <1>14 DEF Reply
<1>16. Contract!Deliver(on[p])
  BY <1>4, <1>14, <1>15 DEF Contract!Deliver
<1> QED
  BY <1>1, <1>12, <1>16 DEF Contract!Next

\* The outcome of the post is unknown.
LEMMA PostFailsStep ==
  ASSUME SoleInv, IInv', NEW p \in Procs, PostFails(p)
  PROVE  SoleInv' /\ [Contract!Next]_(Contract!vars)
<1>0. /\ StoreTypeOK /\ HostTypeOK /\ PastTypeOK /\ SchedTypeOK /\ FrameTypeOK /\ CommandTypeOK
      /\ Focus /\ Unsent /\ AnswerBacksReply
      /\ Alone /\ Tenure /\ Posted /\ Marked /\ Asked /\ Sending /\ Hands /\ Exclusive
  BY DEF SoleInv, IInv, TypeOK
<1>1. /\ up[p] = "up" /\ pc[p] = "send" /\ on[p] \in Turns /\ owner[on[p]] = p
  BY <1>0 DEF Alone, Focus, Hands, InHand, OnSteps, PostFails, At
<1>2. LiveStep(p)
  BY <1>0, <1>1 DEF LiveStep, PostFails, Goto, work, command, counts
<1>3. pc'[p] \in {"returned", "rescued"} /\ (ctx[p] = "drain" => pc'[p] = "rescued")
  BY <1>0 DEF PostFails, Goto, Done, FrameTypeOK
<1>4. UNCHANGED <<owner, lease, posts, prompts, host, cur, on, ctx, todo>>
  BY DEF PostFails, hold, rest, past, work
<1>5. st[on[p]] = "delivery_started" /\ posts[on[p]] = 1 /\ prompts[on[p]] = 1
  BY <1>0, <1>1 DEF Sending, Posted
<1>6. /\ \A t \in Turns \ {on[p]} : st'[t] = st[t] \/ (st[t] = "absent" /\ st'[t] = "queued")
      /\ st'[on[p]] = "failed" /\ unc'[on[p]] = "delivery" /\ fenced'[on[p]]
      /\ \A t \in Turns \ {on[p]} : unc'[t] = unc[t] /\ fenced'[t] = fenced[t]
  <2>1. \/ st' = [st EXCEPT ![on[p]] = "failed"]
        \/ \E f \in Fresh : st' = [st EXCEPT ![on[p]] = "failed", ![f] = "queued"]
    BY DEF PostFails, ReplyFails, SetState
  <2>2. \A f \in Fresh : f \in Turns /\ st[f] = "absent" /\ f # on[p]
    BY <1>0, <1>5 DEF Fresh
  <2>3. /\ unc' = [unc EXCEPT ![on[p]] = "delivery"]
        /\ fenced' = [fenced EXCEPT ![on[p]] = TRUE]
    BY DEF PostFails
  <2>4. /\ \A t \in Turns \ {on[p]} : st'[t] = st[t] \/ (st[t] = "absent" /\ st'[t] = "queued")
        /\ st'[on[p]] = "failed"
    BY <1>0, <1>1, <2>1, <2>2 DEF StoreTypeOK
  <2>5. unc'[on[p]] = "delivery" /\ fenced'[on[p]] = TRUE
    BY <1>0, <1>1, <2>3 DEF StoreTypeOK
  <2>6. \A t \in Turns \ {on[p]} : unc'[t] = unc[t] /\ fenced'[t] = fenced[t]
    BY <1>0, <1>1, <2>3 DEF StoreTypeOK
  <2> QED
    BY <2>4, <2>5, <2>6
<1>7. Alone' /\ Tenure'
  <2>1. Grants(p)
    BY <1>0, <1>4, <1>6 DEF Grants
  <2> QED
    BY <1>0, <1>2, <2>1, AloneKept, TenureKept DEF IInv, TypeOK
<1>8. Posted' /\ Marked' /\ Asked'
  BY <1>0, <1>1, <1>4, <1>5, <1>6 DEF Posted, Marked, Asked
<1>9. Sending'
  <2>1. \A t \in Turns : st'[t] # "delivery_started"
    BY <1>0, <1>1, <1>6 DEF Sending
  <2>2. \A q \in Procs : pc'[q] # "send"
    BY <1>0, <1>1, <1>2, <1>3 DEF Alone, LiveStep
  <2> QED
    BY <2>1, <2>2 DEF Sending
<1>10. Hands'
  <2>1. InHand(p)'
    BY <1>0, <1>1, <1>3, <1>4 DEF Hands, InHand, OnSteps
  <2> QED
    BY <1>0, <1>2, <1>4, <2>1, HandsKept DEF SoleInv
<1>11. Exclusive'
  BY <1>0, <1>4, <1>6, <1>2 DEF Exclusive, Tenure, LiveStep, Occupies
<1>12. SoleInv'
  BY <1>7, <1>8, <1>9, <1>10, <1>11 DEF SoleInv
<1>13. ASSUME NEW t \in Turns \ {on[p]} PROVE Reply'[t] = Reply[t]
  <2>1. posts[t] = 0 \/ st'[t] = st[t]
    BY <1>0, <1>6 DEF Posted, PastTypeOK
  <2>2. posts'[t] = posts[t] /\ unc'[t] = unc[t] /\ fenced'[t] = fenced[t]
    BY <1>4, <1>6
  <2> QED
    BY <2>1, <2>2 DEF Reply
<1>14. Reply[on[p]] = "posting" /\ Reply'[on[p]] = "unknown"
  BY <1>0, <1>1, <1>4, <1>5, <1>6 DEF Reply
<1>15. Reply' = [t \in Turns |-> IF t \in {on[p]} THEN "unknown" ELSE Reply[t]]
  BY <1>1, <1>13, <1>14 DEF Reply
<1>16. Contract!Lose({on[p]})
  BY <1>4, <1>14, <1>15 DEF Contract!Lose
<1> QED
  BY <1>1, <1>12, <1>16 DEF Contract!Next

\* The rescue reads the messages.
LEMMA MessagesStep ==
  ASSUME SoleInv, IInv', NEW p \in Procs, Messages(p)
  PROVE  SoleInv' /\ UNCHANGED Contract!vars
<1>0. /\ StoreTypeOK /\ HostTypeOK /\ PastTypeOK /\ SchedTypeOK /\ FrameTypeOK /\ CommandTypeOK
      /\ Focus /\ Unsent /\ AnswerBacksReply
      /\ Alone /\ Tenure /\ Posted /\ Marked /\ Asked /\ Sending /\ Hands /\ Exclusive
  BY DEF SoleInv, IInv, TypeOK
<1>1. LiveStep(p)
  BY <1>0 DEF LiveStep, Alone, Messages, rest, Goto, At
<1>2. Grants(p)
  BY <1>0 DEF Grants, Messages, store
<1>3. Spares(p)
  BY <1>0 DEF Spares, Messages, store, rest, Goto, At
<1>4. Enters(p)
  BY <1>0 DEF Enters, Occupies, Messages, store
<1>5. InHand(p)'
  BY <1>0 DEF InHand, OnSteps, Hands, Messages, store, rest, Goto, At
<1>6. Marked'
  BY <1>0 DEF Marked, Messages, store
<1>7. Asked'
  BY <1>0 DEF Asked, Messages, rest
<1>8. SoleInv'
  BY <1>1, <1>2, <1>3, <1>4, <1>5, <1>6, <1>7, SoleKept
<1>9. UNCHANGED prompts
  BY DEF Messages, rest
<1> QED
  BY <1>3, <1>8, <1>9, ReplyKept

\* The rescue saves an answer of a turn that was not posted.
LEMMA StatusStep ==
  ASSUME SoleInv, IInv', NEW p \in Procs, Status(p)
  PROVE  SoleInv' /\ UNCHANGED Contract!vars
<1>0. /\ StoreTypeOK /\ HostTypeOK /\ PastTypeOK /\ SchedTypeOK /\ FrameTypeOK /\ CommandTypeOK
      /\ Focus /\ Unsent /\ AnswerBacksReply
      /\ Alone /\ Tenure /\ Posted /\ Marked /\ Asked /\ Sending /\ Hands /\ Exclusive
  BY DEF SoleInv, IInv, TypeOK
<1>1. LiveStep(p)
  BY <1>0 DEF LiveStep, Alone, FrameTypeOK, Status, rest, Goto, BeginFinish, At
<1>2. Grants(p)
  BY <1>0 DEF Grants, StoreTypeOK, Status, BeginFinish, SetState, Claim
<1>3. Spares(p)
  BY <1>0
  DEF Spares, StoreTypeOK, FrameTypeOK, Hands, InHand, Status, rest, Goto, BeginFinish,
      Thrown, SetState, Done, At
<1>4. Enters(p)
  BY <1>0
  DEF Enters, Occupies, StoreTypeOK, Hands, InHand, OnSteps, Status, BeginFinish,
      SetState, Claim, At
<1>5. InHand(p)'
  BY <1>0
  DEF InHand, OnSteps, Hands, FrameTypeOK, StoreTypeOK, Status, rest, Goto, BeginFinish,
      Thrown, Done, Claim, At
<1>6. Marked'
  BY <1>0 DEF Marked, StoreTypeOK, Status, BeginFinish, SetState
<1>7. Asked'
  BY <1>0 DEF Asked, Status, rest
<1>8. SoleInv'
  BY <1>1, <1>2, <1>3, <1>4, <1>5, <1>6, <1>7, SoleKept
<1>9. UNCHANGED prompts
  BY DEF Status, rest
<1> QED
  BY <1>3, <1>8, <1>9, ReplyKept

\* The rescue aborts.
LEMMA AbortAcknowledgedStep ==
  ASSUME SoleInv, IInv', NEW p \in Procs, AbortAcknowledged(p)
  PROVE  SoleInv' /\ UNCHANGED Contract!vars
<1>0. /\ StoreTypeOK /\ HostTypeOK /\ PastTypeOK /\ SchedTypeOK /\ FrameTypeOK /\ CommandTypeOK
      /\ Focus /\ Unsent /\ AnswerBacksReply
      /\ Alone /\ Tenure /\ Posted /\ Marked /\ Asked /\ Sending /\ Hands /\ Exclusive
  BY DEF SoleInv, IInv, TypeOK
<1>1. LiveStep(p)
  BY <1>0 DEF LiveStep, Alone, AbortAcknowledged, work, sched, counts, command, Goto, At
<1>2. Grants(p)
  BY <1>0 DEF Grants, AbortAcknowledged, store
<1>3. Spares(p)
  BY <1>0 DEF Spares, AbortAcknowledged, store, past, Goto, At
<1>4. Enters(p)
  BY <1>0 DEF Enters, Occupies, AbortAcknowledged, store
<1>5. InHand(p)'
  BY <1>0 DEF InHand, OnSteps, Hands, AbortAcknowledged, work, store, past, Goto, At
<1>6. Marked'
  BY <1>0 DEF Marked, AbortAcknowledged, store
<1>7. Asked'
  BY <1>0 DEF Asked, AbortAcknowledged, past, AbortEffect
<1>8. SoleInv'
  BY <1>1, <1>2, <1>3, <1>4, <1>5, <1>6, <1>7, SoleKept
<1>9. UNCHANGED prompts
  BY DEF AbortAcknowledged, past
<1> QED
  BY <1>3, <1>8, <1>9, ReplyKept

\* The rescue fences the turn.
LEMMA ConfirmIdleStep ==
  ASSUME SoleInv, IInv', NEW p \in Procs, ConfirmIdle(p)
  PROVE  SoleInv' /\ UNCHANGED Contract!vars
<1>0. /\ StoreTypeOK /\ HostTypeOK /\ PastTypeOK /\ SchedTypeOK /\ FrameTypeOK /\ CommandTypeOK
      /\ Focus /\ Unsent /\ AnswerBacksReply
      /\ Alone /\ Tenure /\ Posted /\ Marked /\ Asked /\ Sending /\ Hands /\ Exclusive
  BY DEF SoleInv, IInv, TypeOK
<1>1. LiveStep(p)
  BY <1>0 DEF LiveStep, Alone, ConfirmIdle, work, rest, Goto, At
<1>2. Grants(p)
  BY <1>0 DEF Grants, ConfirmIdle, Goto, At, Running
<1>3. Spares(p)
  BY <1>0 DEF Spares, StoreTypeOK, ConfirmIdle, rest, Goto, At
<1>4. Enters(p)
  BY <1>0 DEF Enters, Occupies, ConfirmIdle
<1>5. InHand(p)'
  BY <1>0 DEF InHand, OnSteps, Hands, ConfirmIdle, work, rest, Goto, At
<1>6. Marked'
  BY <1>0 DEF Marked, StoreTypeOK, ConfirmIdle
<1>7. Asked'
  BY <1>0 DEF Asked, ConfirmIdle, rest
<1>8. SoleInv'
  BY <1>1, <1>2, <1>3, <1>4, <1>5, <1>6, <1>7, SoleKept
<1>9. UNCHANGED prompts
  BY DEF ConfirmIdle, rest
<1> QED
  BY <1>3, <1>8, <1>9, ReplyKept

\* The rescue fails.
LEMMA RescueFailsStep ==
  ASSUME SoleInv, IInv', NEW p \in Procs, RescueFails(p)
  PROVE  SoleInv' /\ UNCHANGED Contract!vars
<1>0. /\ StoreTypeOK /\ HostTypeOK /\ PastTypeOK /\ SchedTypeOK /\ FrameTypeOK /\ CommandTypeOK
      /\ Focus /\ Unsent /\ AnswerBacksReply
      /\ Alone /\ Tenure /\ Posted /\ Marked /\ Asked /\ Sending /\ Hands /\ Exclusive
  BY DEF SoleInv, IInv, TypeOK
<1>1. LiveStep(p)
  BY <1>0 DEF LiveStep, Alone, FrameTypeOK, RescueFails, sched, counts, command, Goto, At
<1>2. Grants(p)
  BY <1>0 DEF Grants, RescueFails, store
<1>3. Spares(p)
  BY <1>0 DEF Spares, FrameTypeOK, RescueFails, store, past, Thrown, Goto, At
<1>4. Enters(p)
  BY <1>0 DEF Enters, Occupies, RescueFails, store
<1>5. InHand(p)'
  BY <1>0 DEF InHand, OnSteps, Hands, FrameTypeOK, RescueFails, past, Thrown, Goto, At
<1>6. Marked'
  BY <1>0 DEF Marked, RescueFails, store
<1>7. Asked'
  BY <1>0 DEF Asked, RescueFails, past, AbortEffect
<1>8. SoleInv'
  BY <1>1, <1>2, <1>3, <1>4, <1>5, <1>6, <1>7, SoleKept
<1>9. UNCHANGED prompts
  BY DEF RescueFails, past
<1> QED
  BY <1>3, <1>8, <1>9, ReplyKept

\* The rescue returns.
LEMMA RescuedStep ==
  ASSUME SoleInv, IInv', NEW p \in Procs, Rescued(p)
  PROVE  SoleInv' /\ UNCHANGED Contract!vars
<1>0. /\ StoreTypeOK /\ HostTypeOK /\ PastTypeOK /\ SchedTypeOK /\ FrameTypeOK /\ CommandTypeOK
      /\ Focus /\ Unsent /\ AnswerBacksReply
      /\ Alone /\ Tenure /\ Posted /\ Marked /\ Asked /\ Sending /\ Hands /\ Exclusive
  BY DEF SoleInv, IInv, TypeOK
<1>1. LiveStep(p)
  BY <1>0
  DEF LiveStep, Alone, FrameTypeOK, Rescued, Goto, FinishUnchanged, rest, BeginFinish, At
<1>2. Grants(p)
  BY <1>0 DEF Grants, StoreTypeOK, Rescued, BeginFinish, SetState, Claim
<1>3. Spares(p)
  BY <1>0
  DEF Spares, StoreTypeOK, FrameTypeOK, Posted, Rescued, Goto, FinishUnchanged, rest,
      BeginFinish, Thrown, SetState, Done, At
<1>4. Enters(p)
  BY <1>0 DEF Enters, Occupies, StoreTypeOK, Rescued, BeginFinish, SetState
<1>5. InHand(p)'
  BY <1>0
  DEF InHand, OnSteps, Hands, FrameTypeOK, StoreTypeOK, PastTypeOK, Focus, Posted,
      Rescued, Goto, FinishUnchanged, rest, BeginFinish, Thrown, SetState, Done,
      Claimable, Occupies, Claim, At
<1>6. Marked'
  BY <1>0 DEF Marked, StoreTypeOK, Rescued, FinishUnchanged, BeginFinish, SetState
<1>7. Asked'
  BY <1>0 DEF Asked, Rescued, FinishUnchanged, rest
<1>8. SoleInv'
  BY <1>1, <1>2, <1>3, <1>4, <1>5, <1>6, <1>7, SoleKept
<1>9. UNCHANGED prompts
  BY DEF Rescued, FinishUnchanged, rest
<1> QED
  BY <1>3, <1>8, <1>9, ReplyKept

\* A stop.
LEMMA StopBeginsStep ==
  ASSUME SoleInv, IInv', NEW p \in Procs, StopBegins(p)
  PROVE  SoleInv' /\ UNCHANGED Contract!vars
<1>0. /\ StoreTypeOK /\ HostTypeOK /\ PastTypeOK /\ SchedTypeOK /\ FrameTypeOK /\ CommandTypeOK
      /\ Focus /\ Unsent /\ AnswerBacksReply
      /\ Alone /\ Tenure /\ Posted /\ Marked /\ Asked /\ Sending /\ Hands /\ Exclusive
  BY DEF SoleInv, IInv, TypeOK
<1>1. LiveStep(p)
  BY <1>0 DEF LiveStep, Alone, StopBegins, sched, frame
<1>2. Grants(p)
  BY <1>0 DEF Grants, StopBegins, store
<1>3. Spares(p)
  BY <1>0 DEF Spares, StopBegins, store, past, frame
<1>4. Enters(p)
  BY <1>0 DEF Enters, Occupies, StopBegins, store
<1>5. InHand(p)'
  BY <1>0 DEF InHand, Hands, StopBegins, store, past, frame
<1>6. Marked'
  BY <1>0 DEF Marked, StoreTypeOK, StopBegins, store
<1>7. Asked'
  BY <1>0 DEF Asked, HostTypeOK, PastTypeOK, StopBegins, past
<1>8. SoleInv'
  BY <1>1, <1>2, <1>3, <1>4, <1>5, <1>6, <1>7, SoleKept
<1>9. UNCHANGED prompts
  BY DEF StopBegins, past
<1> QED
  BY <1>3, <1>8, <1>9, ReplyKept

\* A stop leaves replies alone that crossed their checkpoint.
LEMMA StopNextStep ==
  ASSUME SoleInv, IInv', NEW p \in Procs, StopNext(p)
  PROVE  SoleInv' /\ UNCHANGED Contract!vars
<1>0. /\ StoreTypeOK /\ HostTypeOK /\ PastTypeOK /\ SchedTypeOK /\ FrameTypeOK /\ CommandTypeOK
      /\ Focus /\ Unsent /\ AnswerBacksReply
      /\ Alone /\ Tenure /\ Posted /\ Marked /\ Asked /\ Sending /\ Hands /\ Exclusive
  BY DEF SoleInv, IInv, TypeOK
<1>1. LiveStep(p)
  BY <1>0 DEF LiveStep, Alone, CommandTypeOK, StopNext, sched, frame, counts
<1>2. Grants(p)
  BY <1>0 DEF Grants, StoreTypeOK, StopNext, SetState
<1>3. Spares(p)
  BY <1>0
  DEF Spares, StoreTypeOK, Posted, StopNext, past, frame, Stoppable, Crossed, Active,
      SetState
<1>4. Enters(p)
  BY <1>0 DEF Enters, Occupies, StoreTypeOK, StopNext, SetState
<1>5. InHand(p)'
  <2>1. UNCHANGED <<pc, cur, on, ctx, todo, posts, owner>>
    BY DEF StopNext, frame, past
  <2>2. \A t \in Turns : st[t] \in {"completed", "interrupted"} =>
          st'[t] \in {"completed", "interrupted"}
    BY <1>0 DEF Marked, StopNext, Executing, SetState, StoreTypeOK
  <2>3. pc[p] = "saved" => cur[p] \in Turns
    BY <1>0 DEF Focus
  <2> QED
    BY <1>0, <2>1, <2>2, <2>3 DEF Hands, InHand, OnSteps
<1>6. Marked'
  BY <1>0 DEF Marked, StoreTypeOK, StopNext, SetState, Running
<1>7. Asked'
  BY <1>0 DEF Asked, StopNext, past
<1>8. SoleInv'
  BY <1>1, <1>2, <1>3, <1>4, <1>5, <1>6, <1>7, SoleKept
<1>9. UNCHANGED prompts
  BY DEF StopNext, past
<1> QED
  BY <1>3, <1>8, <1>9, ReplyKept

\* A stop aborts.
LEMMA StopAbortsStep ==
  ASSUME SoleInv, IInv', NEW p \in Procs, StopAborts(p)
  PROVE  SoleInv' /\ UNCHANGED Contract!vars
<1>0. /\ StoreTypeOK /\ HostTypeOK /\ PastTypeOK /\ SchedTypeOK /\ FrameTypeOK /\ CommandTypeOK
      /\ Focus /\ Unsent /\ AnswerBacksReply
      /\ Alone /\ Tenure /\ Posted /\ Marked /\ Asked /\ Sending /\ Hands /\ Exclusive
  BY DEF SoleInv, IInv, TypeOK
<1>1. LiveStep(p)
  BY <1>0 DEF LiveStep, Alone, StopAborts, sched, frame, counts
<1>2. Grants(p)
  BY <1>0 DEF Grants, StopAborts, store, Running
<1>3. Spares(p)
  BY <1>0 DEF Spares, StopAborts, store, past, frame
<1>4. Enters(p)
  BY <1>0 DEF Enters, Occupies, StopAborts, store, Running
<1>5. InHand(p)'
  BY <1>0 DEF InHand, Hands, StopAborts, store, past, frame
<1>6. Marked'
  BY <1>0 DEF Marked, StoreTypeOK, StopAborts, store, Running
<1>7. Asked'
  BY <1>0 DEF Asked, StopAborts, past, AbortEffect
<1>8. SoleInv'
  BY <1>1, <1>2, <1>3, <1>4, <1>5, <1>6, <1>7, SoleKept
<1>9. UNCHANGED prompts
  BY DEF StopAborts, past
<1> QED
  BY <1>3, <1>8, <1>9, ReplyKept

\* A stop is confirmed.
LEMMA StopConfirmsStep ==
  ASSUME SoleInv, IInv', NEW p \in Procs, StopConfirms(p)
  PROVE  SoleInv' /\ UNCHANGED Contract!vars
<1>0. /\ StoreTypeOK /\ HostTypeOK /\ PastTypeOK /\ SchedTypeOK /\ FrameTypeOK /\ CommandTypeOK
      /\ Focus /\ Unsent /\ AnswerBacksReply
      /\ Alone /\ Tenure /\ Posted /\ Marked /\ Asked /\ Sending /\ Hands /\ Exclusive
  BY DEF SoleInv, IInv, TypeOK
<1>1. LiveStep(p)
  BY <1>0 DEF LiveStep, Alone, StopConfirms, sched, frame, counts
<1>2. Grants(p)
  BY <1>0 DEF Grants, StopConfirms, Running
<1>3. Spares(p)
  BY <1>0 DEF Spares, Posted, StopConfirms, past, frame, Stoppable, Crossed, Active
<1>4. Enters(p)
  BY <1>0 DEF Enters, Occupies, StopConfirms, Running
<1>5. InHand(p)'
  BY <1>0 DEF InHand, Hands, StopConfirms, past, frame
<1>6. Marked'
  BY <1>0 DEF Marked, StoreTypeOK, StopConfirms, Running
<1>7. Asked'
  BY <1>0 DEF Asked, StopConfirms, past
<1>8. SoleInv'
  BY <1>1, <1>2, <1>3, <1>4, <1>5, <1>6, <1>7, SoleKept
<1>9. UNCHANGED prompts
  BY DEF StopConfirms, past
<1> QED
  BY <1>3, <1>8, <1>9, ReplyKept

\* A stop is not confirmed.
LEMMA StopUnconfirmedStep ==
  ASSUME SoleInv, IInv', NEW p \in Procs, StopUnconfirmed(p)
  PROVE  SoleInv' /\ UNCHANGED Contract!vars
<1>0. /\ StoreTypeOK /\ HostTypeOK /\ PastTypeOK /\ SchedTypeOK /\ FrameTypeOK /\ CommandTypeOK
      /\ Focus /\ Unsent /\ AnswerBacksReply
      /\ Alone /\ Tenure /\ Posted /\ Marked /\ Asked /\ Sending /\ Hands /\ Exclusive
  BY DEF SoleInv, IInv, TypeOK
<1>1. LiveStep(p)
  BY <1>0 DEF LiveStep, Alone, StopUnconfirmed, sched, frame, counts
<1>2. Grants(p)
  BY <1>0 DEF Grants, StopUnconfirmed, store, Running
<1>3. Spares(p)
  BY <1>0 DEF Spares, StopUnconfirmed, store, past, frame
<1>4. Enters(p)
  BY <1>0 DEF Enters, Occupies, StopUnconfirmed, store, Running
<1>5. InHand(p)'
  BY <1>0 DEF InHand, Hands, StopUnconfirmed, store, past, frame
<1>6. Marked'
  BY <1>0 DEF Marked, StoreTypeOK, StopUnconfirmed, store, Running
<1>7. Asked'
  BY <1>0 DEF Asked, StopUnconfirmed, past, AbortEffect
<1>8. SoleInv'
  BY <1>1, <1>2, <1>3, <1>4, <1>5, <1>6, <1>7, SoleKept
<1>9. UNCHANGED prompts
  BY DEF StopUnconfirmed, past
<1> QED
  BY <1>3, <1>8, <1>9, ReplyKept

\* A lease runs out.
LEMMA LeaseExpiresStep ==
  ASSUME SoleInv, IInv', NEW t \in Turns, LeaseExpires(t)
  PROVE  SoleInv' /\ [Contract!Next]_(Contract!vars)
<1>0. /\ StoreTypeOK /\ HostTypeOK /\ PastTypeOK /\ SchedTypeOK /\ FrameTypeOK /\ CommandTypeOK
      /\ Focus /\ Unsent /\ AnswerBacksReply
      /\ Alone /\ Tenure /\ Posted /\ Marked /\ Asked /\ Sending /\ Hands /\ Exclusive
  BY DEF SoleInv, IInv, TypeOK
<1>1. UNCHANGED <<st, unc, fenced, owner, past, up, sched, frame, command, counts>>
  BY DEF LeaseExpires, rest, past, sched, command, counts
<1>2. \A u \in Turns : lease'[u] => lease[u]
  BY <1>0 DEF LeaseExpires, StoreTypeOK
<1>3. Alone' /\ Posted' /\ Marked' /\ Asked' /\ Sending' /\ Hands'
  BY <1>0, <1>1
  DEF Alone, Posted, Marked, Asked, LeaseExpires, rest, Sending, Hands, InHand, frame
<1>4. Tenure'
  BY <1>0, <1>1, <1>2 DEF Tenure
<1>5. Exclusive'
  BY <1>0, <1>1, <1>2 DEF Exclusive, Occupies
<1>6. UNCHANGED Contract!vars
  BY <1>1 DEF Contract!vars, Reply, past
<1> QED
  BY <1>3, <1>4, <1>5, <1>6 DEF SoleInv

\* The host.
LEMMA HostStepStep ==
  ASSUME SoleInv, IInv', NEW t \in Turns, HostStep(t)
  PROVE  SoleInv' /\ [Contract!Next]_(Contract!vars)
<1>0. /\ StoreTypeOK /\ HostTypeOK /\ PastTypeOK /\ SchedTypeOK /\ FrameTypeOK /\ CommandTypeOK
      /\ Focus /\ Unsent /\ AnswerBacksReply
      /\ Alone /\ Tenure /\ Posted /\ Marked /\ Asked /\ Sending /\ Hands /\ Exclusive
  BY DEF SoleInv, IInv, TypeOK
<1>1. UNCHANGED <<store, past, up, sched, frame, command, counts>>
  BY DEF HostStep, HostAccepts, HostMisses, HostFinishes
<1>2. Asked'
  BY <1>0 DEF Asked, HostTypeOK, HostStep, HostAccepts, HostMisses, HostFinishes, past
<1>3. UNCHANGED Contract!vars
  BY <1>1 DEF Contract!vars, Reply, store, past
<1> QED
  BY <1>1, <1>2, <1>3, SoleStutters

----------------------------------------------------------------------------
(***************************************************************************)
(* The theorems.                                                           *)
(***************************************************************************)

\* Every step keeps the invariant, and is one of the contract's or none of them.
LEMMA SoleInductive ==
  ASSUME OneGateway, SoleInv, [Next]_vars
  PROVE  SoleInv' /\ [Contract!Next]_(Contract!vars)
<1>0. IInv /\ IInv'
  BY StepKeepsIInv DEF SoleInv
<1>1. ASSUME NEW p \in Procs,
             Start(p) \/ Crash(p) \/ Close(p) \/ Release(p) \/ Renew(p) \/ WakeUp(p)
      PROVE  SoleInv' /\ [Contract!Next]_(Contract!vars)
  BY <1>0, <1>1, StartStep, CrashStep, CloseStep, ReleaseStep, RenewStep, WakeUpStep
<1>2. ASSUME NEW p \in Procs, NEW t \in Turns,
             Arrive(p, t) \/ Message(p, t) \/ MessageAborts(p, t) \/ Reenqueue(p, t)
      PROVE  SoleInv' /\ [Contract!Next]_(Contract!vars)
  BY <1>0, <1>2, ArriveStep, MessageStep, MessageAbortsStep, ReenqueueStep
<1>3. ASSUME NEW p \in Procs, DrainStepOf(p)
      PROVE  SoleInv' /\ [Contract!Next]_(Contract!vars)
  BY <1>0, <1>3, DrainNextStep, RescueBlockerStep, PassGateStep, ProcessClaimStep,
     ReadFailsStep, CheckpointStep, PromptAcknowledgedStep, PromptFailsStep,
     RecheckAcceptedStep, RecheckUncertainStep, VerifyStep, PollAnsweredStep,
     PollEndsStep, SavedStep, StuckStep, AmbiguousStep, CatchStep, ReturnedStep,
     PrepareRefusesStep, PrepareFailsStep, PostStep, PostSucceedsStep, PostFailsStep,
     MessagesStep, StatusStep, AbortAcknowledgedStep, ConfirmIdleStep, RescueFailsStep,
     RescuedStep DEF DrainStepOf
<1>4. ASSUME NEW p \in Procs, CommandStepOf(p)
      PROVE  SoleInv' /\ [Contract!Next]_(Contract!vars)
  BY <1>0, <1>4, StopBeginsStep, StopNextStep, StopAbortsStep, StopConfirmsStep,
     StopUnconfirmedStep DEF CommandStepOf
<1>5. ASSUME NEW t \in Turns, LeaseExpires(t) \/ HostStep(t)
      PROVE  SoleInv' /\ [Contract!Next]_(Contract!vars)
  BY <1>0, <1>5, LeaseExpiresStep, HostStepStep
<1>6. CASE UNCHANGED vars
  <2>1. UNCHANGED <<store, past, up, sched, frame, command, counts>> /\ host' = host
    BY <1>6 DEF vars, store, past, sched, frame, command, counts
  <2>2. Asked' /\ UNCHANGED Contract!vars
    BY <2>1 DEF SoleInv, Asked, Contract!vars, Reply, store, past
  <2> QED
    BY <1>0, <2>1, <2>2, SoleStutters
<1> QED
  BY <1>1, <1>2, <1>3, <1>4, <1>5, <1>6 DEF Next

\* Nothing is up, owned, sent or posted.
LEMMA InitIsSole == Init => SoleInv /\ Contract!Init
<1> SUFFICES ASSUME Init PROVE SoleInv /\ Contract!Init
  OBVIOUS
<1> USE DEF Init, StoreInit, HostInit
<1>1. IInv
  BY InitHasIInv
<1>2. Alone /\ Tenure /\ Posted /\ Marked /\ Asked
  BY OwnerAssumption DEF Alone, Tenure, Posted, Marked, Asked
<1>3. Sending /\ Hands /\ Exclusive
  BY DEF Sending, Hands, InHand, OnSteps, Exclusive
<1>4. Contract!Init
  BY DEF Contract!Init, Reply
<1> QED
  BY <1>1, <1>2, <1>3, <1>4 DEF SoleInv

\* The gateways follow each other, and each stands alone.
THEOREM SoleHolds ==
  ASSUME OneGateway
  PROVE  Spec => []SoleInv
<1>1. Init => SoleInv
  BY InitIsSole
<1>2. SoleInv /\ [Next]_vars => SoleInv'
  BY SoleInductive
<1> QED
  BY <1>1, <1>2, PTL DEF Spec

\* claimTurn lets a gateway have a turn only while no other one holds a live
\* lease on a turn that occupies the conversation: SoleOwner, for any number of
\* turns and gateways, also when leases lapse under a rescue.
THEOREM OneOwner ==
  ASSUME OneGateway
  PROVE  Spec => []SoleOwner
<1>1. SoleInv => SoleOwner
  BY DEF SoleInv, Exclusive, SoleOwner
<1> QED
  BY <1>1, SoleHolds, PTL

\* finish() calls send() at most once for a turn, whatever crashes, is stopped,
\* rescued or retried in between.
THEOREM PostedAtMostOnce ==
  ASSUME OneGateway
  PROVE  Spec => []PostedOnce
<1>1. SoleInv => PostedOnce
  BY DEF SoleInv, IInv, TypeOK, PastTypeOK, Posted, PostedOnce
<1> QED
  BY <1>1, SoleHolds, PTL

\* What a person observes of the turns is what ReplyContract promises: one
\* submission, then at most one post, whose outcome is known or known to be
\* unknown.
THEOREM ContractIsImplemented ==
  ASSUME OneGateway
  PROVE  Spec => ImplementsContract
<1>1. Init => Contract!Init
  BY InitIsSole
<1>2. SoleInv /\ [Next]_vars => [Contract!Next]_(Contract!vars)
  BY SoleInductive
<1> QED
  BY <1>1, <1>2, SoleHolds, PTL DEF Spec, ImplementsContract, Contract!Spec

----------------------------------------------------------------------------
(***************************************************************************)
(* The gate.                                                               *)
(***************************************************************************)

\* The hypotheses, about the constants.
NoStop == OneGateway /\ MaxStops = 0

----------------------------------------------------------------------------
\* No /stop is under way, so nothing is paused.
Unstopped ==
  /\ stops = 0
  /\ \A p \in Procs : spc[p] = "idle"
  /\ \A t \in Turns : st[t] # "paused"

\* What waits for the confirmation of its submission has failed.
Waiting == \A t \in Turns : unc[t] = "submission" /\ ~fenced[t] => st[t] = "failed"

\* What a chain rescues has failed, what it finishes is complete; behind the
\* gate no other turn may still be executing, and those that may are the
\* blockers that were captured in front of it.
Upright(p) ==
  /\ \A b \in todo[p] : st[b] = "failed"
  /\ pc[p] \in {"messages", "status"} => st[on[p]] = "failed"
  /\ pc[p] = "prepare" => st[on[p]] = "completed"
  /\ pc[p] = "saved" => st[cur[p]] = "completed"
  /\ pc[p] # "stuck"
  /\ pc[p] \in {"claim", "prep"} => \A b \in Turns \ {cur[p]} : ~Blocker(b)
  /\ pc[p] = "blockers" \/ ctx[p] = "drain" =>
       \A b \in Turns \ {cur[p]} : Blocker(b) => b \in blk[p]

GateInv == SoleInv /\ Unstopped /\ Waiting /\ \A p \in Procs : Upright(p)

----------------------------------------------------------------------------
\* What was interrupted stays so.
Final == \A t \in Turns : st[t] = "interrupted" => st'[t] = "interrupted"

\* The live gateway p takes a step that stops nothing.
Calm(p) ==
  /\ up'[p] = "up" /\ spc'[p] = "idle" /\ stops' = 0
  /\ \A t \in Turns : st'[t] # "paused"

\* A gateway that stops nothing leaves the gate as it is.
LEMMA GateKept ==
  ASSUME SoleInv', NEW p \in Procs, Calm(p), Waiting', Upright(p)'
  PROVE  GateInv'
<1>1. ASSUME NEW q \in Procs, q # p PROVE spc'[q] = "idle" /\ Upright(q)'
  <2>1. pc'[q] = "idle" /\ spc'[q] = "idle"
    BY <1>1 DEF Calm, SoleInv, Alone
  <2>2. todo'[q] = {} /\ ctx'[q] # "drain"
    BY <2>1 DEF SoleInv, Hands, InHand, OnSteps
  <2> QED
    BY <2>1, <2>2 DEF Upright
<1> QED
  BY <1>1 DEF Calm, GateInv, Unstopped

----------------------------------------------------------------------------

\* A gateway starts after the one before has died, and gives up what was being posted.
LEMMA StartGate ==
  ASSUME GateInv, SoleInv', NEW p \in Procs, Start(p)
  PROVE  GateInv' /\ Final
<1>1. up'[p] = "up" /\ UNCHANGED <<frame, spc, stops>> /\ up[p] = "off"
  BY DEF SoleInv, IInv, TypeOK, PastTypeOK, Start, command, counts
<1>2. \A t \in Turns : IF st[t] = "delivery_started"
                       THEN st'[t] = "failed" /\ unc'[t] = "delivery"
                       ELSE st'[t] = st[t] /\ unc'[t] = unc[t] /\ fenced'[t] = fenced[t]
  BY DEF GateInv, SoleInv, IInv, TypeOK, StoreTypeOK, Start
<1>3. Calm(p) /\ Final /\ Waiting'
  BY <1>1, <1>2 DEF GateInv, Unstopped, Waiting, Calm, Final
<1>4. pc'[p] = "idle" /\ todo'[p] = {} /\ ctx'[p] # "drain"
  BY <1>1 DEF GateInv, SoleInv, Alone, Hands, InHand, OnSteps, frame
<1>5. Upright(p)'
  BY <1>4 DEF Upright
<1> QED
  BY <1>3, <1>5, GateKept

\* The gateway dies: its leases stay.
LEMMA CrashGate ==
  ASSUME GateInv, SoleInv', NEW p \in Procs, Crash(p)
  PROVE  GateInv' /\ Final
<1>1. UNCHANGED <<store, stops>> /\ up' = [up EXCEPT ![p] = "gone"]
  BY DEF Crash, counts
<1>2. \A q \in Procs : up'[q] # "up"
  BY <1>1 DEF Crash, Running, GateInv, SoleInv, IInv, TypeOK, PastTypeOK, Alone
<1>3. \A q \in Procs : pc'[q] = "idle" /\ spc'[q] = "idle" /\ todo'[q] = {} /\ ctx'[q] # "drain"
  BY <1>2 DEF SoleInv, Alone, Hands, InHand, OnSteps
<1>4. Unstopped' /\ Waiting' /\ Final
  BY <1>1, <1>3 DEF GateInv, Unstopped, Waiting, Final, store
<1>5. \A q \in Procs : Upright(q)'
  BY <1>3 DEF Upright
<1> QED
  BY <1>4, <1>5 DEF GateInv

\* None closes.
LEMMA CloseGate ==
  ASSUME NoStop, GateInv, NEW p \in Procs, Close(p)
  PROVE  FALSE
BY DEF NoStop, OneGateway, GateInv, SoleInv, IInv, TypeOK, CommandTypeOK, Close

\* None closes.
LEMMA ReleaseGate ==
  ASSUME GateInv, NEW p \in Procs, Release(p)
  PROVE  FALSE
BY DEF GateInv, SoleInv, Alone, Release

\* The lease of the turn in hand is renewed.
LEMMA RenewGate ==
  ASSUME GateInv, SoleInv', NEW p \in Procs, Renew(p)
  PROVE  GateInv' /\ Final
<1>0. /\ StoreTypeOK /\ PastTypeOK /\ FrameTypeOK /\ Focus
      /\ Alone /\ Posted /\ Marked /\ Sending /\ Hands
      /\ Unstopped /\ Waiting /\ Upright(p)
  BY DEF GateInv, SoleInv, IInv, TypeOK
<1>1. Calm(p)
  BY <1>0 DEF Calm, Alone, Unstopped, Renew, rest, Renewed, Processing
<1>2. Waiting'
  BY <1>0 DEF Waiting, StoreTypeOK, Renew, Running, Claim
<1>3. Final
  BY <1>0 DEF Final, Renew, Running, Claim
<1>4. Upright(p)'
  BY <1>0 DEF Upright, Blocker, Renew, frame
<1> QED
  BY <1>1, <1>2, <1>3, <1>4, GateKept

\* A timer.
LEMMA WakeUpGate ==
  ASSUME GateInv, SoleInv', NEW p \in Procs, WakeUp(p)
  PROVE  GateInv' /\ Final
<1>0. /\ StoreTypeOK /\ PastTypeOK /\ FrameTypeOK /\ Focus
      /\ Alone /\ Posted /\ Marked /\ Sending /\ Hands
      /\ Unstopped /\ Waiting /\ Upright(p)
  BY DEF GateInv, SoleInv, IInv, TypeOK
<1>1. Calm(p)
  BY <1>0 DEF Calm, Alone, Unstopped, WakeUp, store, counts, command, Running
<1>2. Waiting'
  BY <1>0 DEF Waiting, StoreTypeOK, WakeUp, store, Running
<1>3. Final
  BY <1>0 DEF Final, WakeUp, store, Running
<1>4. Upright(p)'
  BY <1>0 DEF Upright, Blocker, WakeUp, store, frame
<1> QED
  BY <1>1, <1>2, <1>3, <1>4, GateKept

\* A new turn has no owner.
LEMMA ArriveGate ==
  ASSUME GateInv, SoleInv', NEW p \in Procs, NEW t \in Turns, Arrive(p, t)
  PROVE  GateInv' /\ Final
<1>0. /\ StoreTypeOK /\ PastTypeOK /\ FrameTypeOK /\ Focus
      /\ Alone /\ Posted /\ Marked /\ Sending /\ Hands
      /\ Unstopped /\ Waiting /\ Upright(p)
  BY DEF GateInv, SoleInv, IInv, TypeOK
<1>1. Calm(p)
  BY <1>0 DEF Calm, Unstopped, Arrive, counts, command, SetState
<1>2. Waiting'
  BY <1>0 DEF Waiting, Arrive, hold, SetState, Fresh
<1>3. Final
  BY <1>0 DEF Final, Arrive, SetState, Fresh
<1>4. Upright(p)'
  BY <1>0 DEF Upright, Blocker, Arrive, hold, frame, SetState, Fresh
<1> QED
  BY <1>1, <1>2, <1>3, <1>4, GateKept

\* A message interrupts, and posts nothing.
LEMMA MessageGate ==
  ASSUME GateInv, SoleInv', NEW p \in Procs, NEW t \in Turns, Message(p, t)
  PROVE  GateInv' /\ Final
<1>0. /\ StoreTypeOK /\ PastTypeOK /\ FrameTypeOK /\ Focus
      /\ Alone /\ Posted /\ Marked /\ Sending /\ Hands
      /\ Unstopped /\ Waiting /\ Upright(p)
  BY DEF GateInv, SoleInv, IInv, TypeOK
<1>1. Calm(p)
  BY <1>0 DEF Calm, Unstopped, Message, counts, command
<1>2. Waiting'
  BY <1>0 DEF Waiting, Message, hold, Replaced, Interruptible, Fresh
<1>3. Final
  BY <1>0 DEF Final, Message, Fresh
<1>4. Upright(p)'
  BY <1>0
  DEF Upright, OnSteps, FrameTypeOK, Focus, Blocker, Message, hold, frame, Replaced,
      Interruptible, Fresh
<1> QED
  BY <1>1, <1>2, <1>3, <1>4, GateKept

\* The abort for a message.
LEMMA MessageAbortsGate ==
  ASSUME GateInv, SoleInv', NEW p \in Procs, NEW t \in Turns, MessageAborts(p, t)
  PROVE  GateInv' /\ Final
<1>0. /\ StoreTypeOK /\ PastTypeOK /\ FrameTypeOK /\ Focus
      /\ Alone /\ Posted /\ Marked /\ Sending /\ Hands
      /\ Unstopped /\ Waiting /\ Upright(p)
  BY DEF GateInv, SoleInv, IInv, TypeOK
<1>1. Calm(p)
  BY <1>0 DEF Calm, Alone, Unstopped, MessageAborts, store, counts, command
<1>2. Waiting'
  BY <1>0 DEF Waiting, StoreTypeOK, MessageAborts, store, Running
<1>3. Final
  BY <1>0 DEF Final, MessageAborts, store, Running
<1>4. Upright(p)'
  BY <1>0 DEF Upright, Blocker, MessageAborts, store, frame
<1> QED
  BY <1>1, <1>2, <1>3, <1>4, GateKept

\* A turn is tried again.
LEMMA ReenqueueGate ==
  ASSUME GateInv, SoleInv', NEW p \in Procs, NEW t \in Turns, Reenqueue(p, t)
  PROVE  GateInv' /\ Final
<1>0. /\ StoreTypeOK /\ PastTypeOK /\ FrameTypeOK /\ Focus
      /\ Alone /\ Posted /\ Marked /\ Sending /\ Hands
      /\ Unstopped /\ Waiting /\ Upright(p)
  BY DEF GateInv, SoleInv, IInv, TypeOK
<1>1. Calm(p)
  BY <1>0 DEF Calm, Unstopped, Reenqueue, store, counts, command
<1>2. Waiting'
  BY <1>0 DEF Waiting, StoreTypeOK, Reenqueue, store
<1>3. Final
  BY <1>0 DEF Final, Reenqueue, store
<1>4. Upright(p)'
  BY <1>0 DEF Upright, Blocker, Reenqueue, store, frame
<1> QED
  BY <1>1, <1>2, <1>3, <1>4, GateKept

\* The next turn is taken from the queue, with its blockers.
LEMMA DrainNextGate ==
  ASSUME GateInv, SoleInv', NEW p \in Procs, DrainNext(p)
  PROVE  GateInv' /\ Final
<1>0. /\ StoreTypeOK /\ PastTypeOK /\ FrameTypeOK /\ Focus
      /\ Alone /\ Posted /\ Marked /\ Sending /\ Hands
      /\ Unstopped /\ Waiting /\ Upright(p)
  BY DEF GateInv, SoleInv, IInv, TypeOK
<1>1. Calm(p)
  BY <1>0 DEF Calm, Unstopped, DrainNext, store, counts, command
<1>2. Waiting'
  BY <1>0 DEF Waiting, DrainNext, store
<1>3. Final
  BY <1>0 DEF Final, DrainNext, store
<1>4. Upright(p)'
  BY <1>0
  DEF Upright, FrameTypeOK, Waiting, Unstopped, Blocker, DrainNext, store, frame, Goto,
      Blockers
<1> QED
  BY <1>1, <1>2, <1>3, <1>4, GateKept

\* A blocker is claimed and rescued.
LEMMA RescueBlockerGate ==
  ASSUME GateInv, SoleInv', NEW p \in Procs, RescueBlocker(p)
  PROVE  GateInv' /\ Final
<1>0. /\ StoreTypeOK /\ PastTypeOK /\ FrameTypeOK /\ Focus
      /\ Alone /\ Posted /\ Marked /\ Sending /\ Hands
      /\ Unstopped /\ Waiting /\ Upright(p)
  BY DEF GateInv, SoleInv, IInv, TypeOK
<1>1. Calm(p)
  BY <1>0 DEF Calm, Alone, Unstopped, RescueBlocker, rest, At
<1>2. Waiting'
  BY <1>0 DEF Waiting, RescueBlocker
<1>3. Final
  BY <1>0 DEF Final, RescueBlocker
<1>4. Upright(p)'
  BY <1>0 DEF Upright, FrameTypeOK, Blocker, RescueBlocker, BeginRescue, Goto, At
<1> QED
  BY <1>1, <1>2, <1>3, <1>4, GateKept

\* The gate.
LEMMA PassGateGate ==
  ASSUME GateInv, SoleInv', NEW p \in Procs, PassGate(p)
  PROVE  GateInv' /\ Final
<1>0. /\ StoreTypeOK /\ PastTypeOK /\ FrameTypeOK /\ Focus
      /\ Alone /\ Posted /\ Marked /\ Sending /\ Hands
      /\ Unstopped /\ Waiting /\ Upright(p)
  BY DEF GateInv, SoleInv, IInv, TypeOK
<1>1. Calm(p)
  BY <1>0 DEF Calm, Alone, Unstopped, PassGate, store, counts, command, At
<1>2. Waiting'
  BY <1>0 DEF Waiting, PassGate, store
<1>3. Final
  BY <1>0 DEF Final, PassGate, store
<1>4. Upright(p)'
  BY <1>0
  DEF Upright, OnSteps, FrameTypeOK, Hands, InHand, Blocker, PassGate, store, Goto,
      GateOpen, At
<1> QED
  BY <1>1, <1>2, <1>3, <1>4, GateKept

\* A turn that is claimed stands where the posting has not begun.
LEMMA ProcessClaimGate ==
  ASSUME GateInv, SoleInv', NEW p \in Procs, ProcessClaim(p)
  PROVE  GateInv' /\ Final
<1>0. /\ StoreTypeOK /\ PastTypeOK /\ FrameTypeOK /\ Focus
      /\ Alone /\ Posted /\ Marked /\ Sending /\ Hands
      /\ Unstopped /\ Waiting /\ Upright(p)
  BY DEF GateInv, SoleInv, IInv, TypeOK
<1>1. Calm(p)
  BY <1>0 DEF Calm, Alone, Unstopped, ProcessClaim, counts, command, At
<1>2. Waiting'
  BY <1>0 DEF Waiting, ProcessClaim
<1>3. Final
  BY <1>0 DEF Final, ProcessClaim
<1>4. Upright(p)'
  <2>1. /\ pc[p] = "claim" /\ cur[p] \in Turns
        /\ UNCHANGED <<st, unc, fenced, cur, on, ctx, blk, todo>>
    BY <1>0 DEF ProcessClaim, At, Focus, work
  <2>2. \/ pc' = [pc EXCEPT ![p] = "returned"]
        \/ st[cur[p]] # "absent" /\ pc' = [pc EXCEPT ![p] = Route(cur[p])]
    BY DEF ProcessClaim, Goto, Claim, Claimable
  <2>3. st[cur[p]] \in State \ {"paused"}
    BY <1>0, <2>1 DEF Unstopped, StoreTypeOK
  <2>4. st[cur[p]] # "absent" =>
          /\ Route(cur[p]) \in {"returned", "prep", "verify", "poll", "saved", "ambiguous"}
          /\ Route(cur[p]) = "saved" => st[cur[p]] = "completed"
    BY <2>3 DEF Route, State, Terminal, Active
  <2>5. /\ pc'[p] \in {"returned", "prep", "verify", "poll", "saved", "ambiguous"}
        /\ pc'[p] = "saved" => st[cur[p]] = "completed"
    BY <1>0, <2>2, <2>4 DEF FrameTypeOK
  <2>6. ctx[p] # "drain" /\ todo[p] = {}
    BY <1>0, <2>1 DEF Hands, InHand, OnSteps
  <2> QED
    BY <1>0, <2>1, <2>5, <2>6 DEF Upright, Blocker
<1> QED
  BY <1>1, <1>2, <1>3, <1>4, GateKept

\* A read fails.
LEMMA ReadFailsGate ==
  ASSUME GateInv, SoleInv', NEW p \in Procs, ReadFails(p)
  PROVE  GateInv' /\ Final
<1>0. /\ StoreTypeOK /\ PastTypeOK /\ FrameTypeOK /\ Focus
      /\ Alone /\ Posted /\ Marked /\ Sending /\ Hands
      /\ Unstopped /\ Waiting /\ Upright(p)
  BY DEF GateInv, SoleInv, IInv, TypeOK
<1>1. Calm(p)
  BY <1>0 DEF Calm, Alone, Unstopped, ReadFails, store, rest, At
<1>2. Waiting'
  BY <1>0 DEF Waiting, ReadFails, store
<1>3. Final
  BY <1>0 DEF Final, ReadFails, store
<1>4. Upright(p)'
  BY <1>0 DEF Upright, Blocker, ReadFails, work, store, Goto
<1> QED
  BY <1>1, <1>2, <1>3, <1>4, GateKept

\* The submission.
LEMMA CheckpointGate ==
  ASSUME GateInv, SoleInv', NEW p \in Procs, Checkpoint(p)
  PROVE  GateInv' /\ Final
<1>0. /\ StoreTypeOK /\ PastTypeOK /\ FrameTypeOK /\ Focus
      /\ Alone /\ Posted /\ Marked /\ Sending /\ Hands
      /\ Unstopped /\ Waiting /\ Upright(p)
  BY DEF GateInv, SoleInv, IInv, TypeOK
<1>1. Calm(p)
  BY <1>0 DEF Calm, Alone, Unstopped, StoreTypeOK, Checkpoint, counts, command, SetState, At
<1>2. Waiting'
  BY <1>0 DEF Waiting, StoreTypeOK, Checkpoint, SetState
<1>3. Final
  BY <1>0 DEF Final, StoreTypeOK, Checkpoint, SetState
<1>4. Upright(p)'
  BY <1>0 DEF Upright, FrameTypeOK, StoreTypeOK, Blocker, Checkpoint, work, SetState, Goto
<1> QED
  BY <1>1, <1>2, <1>3, <1>4, GateKept

\* The prompt is acknowledged.
LEMMA PromptAcknowledgedGate ==
  ASSUME GateInv, SoleInv', NEW p \in Procs, PromptAcknowledged(p)
  PROVE  GateInv' /\ Final
<1>0. /\ StoreTypeOK /\ PastTypeOK /\ FrameTypeOK /\ Focus
      /\ Alone /\ Posted /\ Marked /\ Sending /\ Hands
      /\ Unstopped /\ Waiting /\ Upright(p)
  BY DEF GateInv, SoleInv, IInv, TypeOK
<1>1. Calm(p)
  BY <1>0
  DEF Calm, Alone, Unstopped, StoreTypeOK, PromptAcknowledged, rest, Confirmed, SetState,
      At
<1>2. Waiting'
  BY <1>0 DEF Waiting, StoreTypeOK, PromptAcknowledged, hold, Confirmed, SetState
<1>3. Final
  BY <1>0 DEF Final, StoreTypeOK, PromptAcknowledged, Confirmed, SetState
<1>4. Upright(p)'
  BY <1>0
  DEF Upright, FrameTypeOK, StoreTypeOK, Blocker, PromptAcknowledged, work, hold,
      Confirmed, SetState, Goto
<1> QED
  BY <1>1, <1>2, <1>3, <1>4, GateKept

\* The prompt fails.
LEMMA PromptFailsGate ==
  ASSUME GateInv, SoleInv', NEW p \in Procs, PromptFails(p)
  PROVE  GateInv' /\ Final
<1>0. /\ StoreTypeOK /\ PastTypeOK /\ FrameTypeOK /\ Focus
      /\ Alone /\ Posted /\ Marked /\ Sending /\ Hands
      /\ Unstopped /\ Waiting /\ Upright(p)
  BY DEF GateInv, SoleInv, IInv, TypeOK
<1>1. Calm(p)
  BY <1>0 DEF Calm, Alone, Unstopped, PromptFails, store, rest, At
<1>2. Waiting'
  BY <1>0 DEF Waiting, PromptFails, store
<1>3. Final
  BY <1>0 DEF Final, PromptFails, store
<1>4. Upright(p)'
  BY <1>0 DEF Upright, Blocker, PromptFails, work, store, Goto
<1> QED
  BY <1>1, <1>2, <1>3, <1>4, GateKept

\* The prompt was accepted.
LEMMA RecheckAcceptedGate ==
  ASSUME GateInv, SoleInv', NEW p \in Procs, RecheckAccepted(p)
  PROVE  GateInv' /\ Final
<1>0. /\ StoreTypeOK /\ PastTypeOK /\ FrameTypeOK /\ Focus
      /\ Alone /\ Posted /\ Marked /\ Sending /\ Hands
      /\ Unstopped /\ Waiting /\ Upright(p)
  BY DEF GateInv, SoleInv, IInv, TypeOK
<1>1. Calm(p)
  BY <1>0
  DEF Calm, Alone, Unstopped, StoreTypeOK, RecheckAccepted, rest, Confirmed, SetState, At
<1>2. Waiting'
  BY <1>0 DEF Waiting, StoreTypeOK, RecheckAccepted, hold, Confirmed, SetState
<1>3. Final
  BY <1>0 DEF Final, StoreTypeOK, RecheckAccepted, Confirmed, SetState
<1>4. Upright(p)'
  BY <1>0
  DEF Upright, FrameTypeOK, StoreTypeOK, Blocker, RecheckAccepted, work, hold, Confirmed,
      SetState, Goto
<1> QED
  BY <1>1, <1>2, <1>3, <1>4, GateKept

\* The submission is uncertain, and the turn is rescued.
LEMMA RecheckUncertainGate ==
  ASSUME GateInv, SoleInv', NEW p \in Procs, RecheckUncertain(p)
  PROVE  GateInv' /\ Final
<1>0. /\ StoreTypeOK /\ PastTypeOK /\ FrameTypeOK /\ Focus
      /\ Alone /\ Posted /\ Marked /\ Sending /\ Hands
      /\ Unstopped /\ Waiting /\ Upright(p)
  BY DEF GateInv, SoleInv, IInv, TypeOK
<1>1. Calm(p)
  BY <1>0 DEF Calm, Alone, Unstopped, RecheckUncertain, rest, At
<1>2. Waiting'
  BY <1>0 DEF Waiting, StoreTypeOK, RecheckUncertain
<1>3. Final
  BY <1>0 DEF Final, RecheckUncertain
<1>4. Upright(p)'
  BY <1>0
  DEF Upright, FrameTypeOK, StoreTypeOK, Focus, Waiting, RecheckUncertain, BeginRescue,
      Goto, At
<1> QED
  BY <1>1, <1>2, <1>3, <1>4, GateKept

\* A recovered submission.
LEMMA VerifyGate ==
  ASSUME GateInv, SoleInv', NEW p \in Procs, Verify(p)
  PROVE  GateInv' /\ Final
<1>0. /\ StoreTypeOK /\ PastTypeOK /\ FrameTypeOK /\ Focus
      /\ Alone /\ Posted /\ Marked /\ Sending /\ Hands
      /\ Unstopped /\ Waiting /\ Upright(p)
  BY DEF GateInv, SoleInv, IInv, TypeOK
<1>1. Calm(p)
  BY <1>0 DEF Calm, Alone, Unstopped, StoreTypeOK, Verify, rest, Confirmed, SetState, At
<1>2. Waiting'
  BY <1>0 DEF Waiting, StoreTypeOK, Verify, hold, Confirmed, SetState
<1>3. Final
  BY <1>0 DEF Final, StoreTypeOK, Verify, Confirmed, SetState
<1>4. Upright(p)'
  BY <1>0
  DEF Upright, FrameTypeOK, StoreTypeOK, Verify, work, hold, Resume, Route, Blocker, Goto,
      Confirmed, SetState
<1> QED
  BY <1>1, <1>2, <1>3, <1>4, GateKept

\* The answer.
LEMMA PollAnsweredGate ==
  ASSUME GateInv, SoleInv', NEW p \in Procs, PollAnswered(p)
  PROVE  GateInv' /\ Final
<1>0. /\ StoreTypeOK /\ PastTypeOK /\ FrameTypeOK /\ Focus
      /\ Alone /\ Posted /\ Marked /\ Sending /\ Hands
      /\ Unstopped /\ Waiting /\ Upright(p)
  BY DEF GateInv, SoleInv, IInv, TypeOK
<1>1. Calm(p)
  BY <1>0
  DEF Calm, Alone, Unstopped, StoreTypeOK, PollAnswered, FinishUnchanged, rest,
      BeginFinish, SetState, At
<1>2. Waiting'
  BY <1>0 DEF Waiting, StoreTypeOK, PollAnswered, FinishUnchanged, BeginFinish, SetState
<1>3. Final
  BY <1>0 DEF Final, StoreTypeOK, PollAnswered, BeginFinish, SetState
<1>4. Upright(p)'
  BY <1>0
  DEF Upright, FrameTypeOK, StoreTypeOK, Focus, PollAnswered, FinishUnchanged,
      BeginFinish, Thrown, SetState, Goto, Done, At
<1> QED
  BY <1>1, <1>2, <1>3, <1>4, GateKept

\* No answer.
LEMMA PollEndsGate ==
  ASSUME GateInv, SoleInv', NEW p \in Procs, PollEnds(p)
  PROVE  GateInv' /\ Final
<1>0. /\ StoreTypeOK /\ PastTypeOK /\ FrameTypeOK /\ Focus
      /\ Alone /\ Posted /\ Marked /\ Sending /\ Hands
      /\ Unstopped /\ Waiting /\ Upright(p)
  BY DEF GateInv, SoleInv, IInv, TypeOK
<1>1. Calm(p)
  BY <1>0 DEF Calm, Alone, Unstopped, PollEnds, store, rest, At
<1>2. Waiting'
  BY <1>0 DEF Waiting, PollEnds, store
<1>3. Final
  BY <1>0 DEF Final, PollEnds, store
<1>4. Upright(p)'
  BY <1>0 DEF Upright, FrameTypeOK, Blocker, PollEnds, work, store, Goto
<1> QED
  BY <1>1, <1>2, <1>3, <1>4, GateKept

\* A saved answer.
LEMMA SavedGate ==
  ASSUME GateInv, SoleInv', NEW p \in Procs, Saved(p)
  PROVE  GateInv' /\ Final
<1>0. /\ StoreTypeOK /\ PastTypeOK /\ FrameTypeOK /\ Focus
      /\ Alone /\ Posted /\ Marked /\ Sending /\ Hands
      /\ Unstopped /\ Waiting /\ Upright(p)
  BY DEF GateInv, SoleInv, IInv, TypeOK
<1>1. Calm(p)
  BY <1>0
  DEF Calm, Alone, Unstopped, StoreTypeOK, Saved, FinishUnchanged, rest, BeginFinish,
      SetState, At
<1>2. Waiting'
  BY <1>0
  DEF Waiting, StoreTypeOK, Hands, InHand, Saved, FinishUnchanged, BeginFinish, SetState,
      At
<1>3. Final
  BY <1>0 DEF Final, StoreTypeOK, Saved, BeginFinish, SetState
<1>4. Upright(p)'
  BY <1>0
  DEF Upright, FrameTypeOK, StoreTypeOK, Saved, FinishUnchanged, BeginFinish, Thrown,
      SetState, Goto, Done, At
<1> QED
  BY <1>1, <1>2, <1>3, <1>4, GateKept

\* A paused turn.
LEMMA StuckGate ==
  ASSUME GateInv, NEW p \in Procs, Stuck(p)
  PROVE  FALSE
BY DEF GateInv, Upright, Stuck, At

\* Never reached: what was being posted has been given up.
LEMMA AmbiguousGate ==
  ASSUME GateInv, NEW p \in Procs, Ambiguous(p)
  PROVE  FALSE
BY DEF GateInv, SoleInv, Hands, InHand, Ambiguous, At

\* An error.
LEMMA CatchGate ==
  ASSUME GateInv, SoleInv', NEW p \in Procs, Catch(p)
  PROVE  GateInv' /\ Final
<1>0. /\ StoreTypeOK /\ PastTypeOK /\ FrameTypeOK /\ Focus
      /\ Alone /\ Posted /\ Marked /\ Sending /\ Hands
      /\ Unstopped /\ Waiting /\ Upright(p)
  BY DEF GateInv, SoleInv, IInv, TypeOK
<1>1. Calm(p)
  BY <1>0 DEF Calm, Alone, Unstopped, StoreTypeOK, Catch, counts, command, SetState, At
<1>2. Waiting'
  BY <1>0 DEF Waiting, StoreTypeOK, Catch, SetState
<1>3. Final
  BY <1>0 DEF Final, StoreTypeOK, Catch, Terminal, SetState
<1>4. Upright(p)'
  BY <1>0 DEF Upright, FrameTypeOK, StoreTypeOK, Blocker, Catch, SetState, Goto
<1> QED
  BY <1>1, <1>2, <1>3, <1>4, GateKept

\* Back in the queue.
LEMMA ReturnedGate ==
  ASSUME GateInv, SoleInv', NEW p \in Procs, Returned(p)
  PROVE  GateInv' /\ Final
<1>0. /\ StoreTypeOK /\ PastTypeOK /\ FrameTypeOK /\ Focus
      /\ Alone /\ Posted /\ Marked /\ Sending /\ Hands
      /\ Unstopped /\ Waiting /\ Upright(p)
  BY DEF GateInv, SoleInv, IInv, TypeOK
<1>1. Calm(p)
  BY <1>0 DEF Calm, Alone, Unstopped, Returned, store, counts, command, At
<1>2. Waiting'
  BY <1>0 DEF Waiting, Returned, store
<1>3. Final
  BY <1>0 DEF Final, Returned, store
<1>4. Upright(p)'
  BY <1>0 DEF Upright, FrameTypeOK, Returned, store, Goto
<1> QED
  BY <1>1, <1>2, <1>3, <1>4, GateKept

\* A reply that cannot be prepared.
LEMMA PrepareRefusesGate ==
  ASSUME GateInv, SoleInv', NEW p \in Procs, PrepareRefuses(p)
  PROVE  GateInv' /\ Final
<1>0. /\ StoreTypeOK /\ PastTypeOK /\ FrameTypeOK /\ Focus
      /\ Alone /\ Posted /\ Marked /\ Sending /\ Hands
      /\ Unstopped /\ Waiting /\ Upright(p)
  BY DEF GateInv, SoleInv, IInv, TypeOK
<1>1. Calm(p)
  BY <1>0
  DEF Calm, Alone, Unstopped, StoreTypeOK, PrepareRefuses, counts, command, ReplyFails,
      SetState, At
<1>2. Waiting'
  BY <1>0 DEF Waiting, StoreTypeOK, PrepareRefuses, hold, ReplyFails, SetState, Fresh
<1>3. Final
  <2>1. st[on[p]] = "completed" /\ on[p] \in Turns
    BY <1>0 DEF PrepareRefuses, At, Upright, Focus, OnSteps
  <2>2. \/ st' = [st EXCEPT ![on[p]] = "failed"]
        \/ \E f \in Fresh : st' = [st EXCEPT ![on[p]] = "failed", ![f] = "queued"]
    BY DEF PrepareRefuses, ReplyFails, SetState
  <2>3. \A f \in Fresh : f \in Turns /\ st[f] = "absent"
    BY DEF Fresh
  <2> QED
    BY <1>0, <2>1, <2>2, <2>3 DEF Final, StoreTypeOK
<1>4. Upright(p)'
  BY <1>0
  DEF Upright, OnSteps, FrameTypeOK, StoreTypeOK, Blocker, PrepareRefuses, work, hold,
      ReplyFails, SetState, Fresh, Goto, Done
<1> QED
  BY <1>1, <1>2, <1>3, <1>4, GateKept

\* A preparation that fails.
LEMMA PrepareFailsGate ==
  ASSUME GateInv, SoleInv', NEW p \in Procs, PrepareFails(p)
  PROVE  GateInv' /\ Final
<1>0. /\ StoreTypeOK /\ PastTypeOK /\ FrameTypeOK /\ Focus
      /\ Alone /\ Posted /\ Marked /\ Sending /\ Hands
      /\ Unstopped /\ Waiting /\ Upright(p)
  BY DEF GateInv, SoleInv, IInv, TypeOK
<1>1. Calm(p)
  BY <1>0 DEF Calm, Alone, Unstopped, PrepareFails, store, rest, At
<1>2. Waiting'
  BY <1>0 DEF Waiting, PrepareFails, store
<1>3. Final
  BY <1>0 DEF Final, PrepareFails, store
<1>4. Upright(p)'
  BY <1>0 DEF Upright, Blocker, PrepareFails, work, store, Thrown, Goto
<1> QED
  BY <1>1, <1>2, <1>3, <1>4, GateKept

\* The post: of a turn that was not posted before.
LEMMA PostGate ==
  ASSUME GateInv, SoleInv', NEW p \in Procs, Post(p)
  PROVE  GateInv' /\ Final
<1>0. /\ StoreTypeOK /\ PastTypeOK /\ FrameTypeOK /\ Focus
      /\ Alone /\ Posted /\ Marked /\ Sending /\ Hands
      /\ Unstopped /\ Waiting /\ Upright(p)
  BY DEF GateInv, SoleInv, IInv, TypeOK
<1>1. Calm(p)
  BY <1>0 DEF Calm, Alone, Unstopped, StoreTypeOK, Post, counts, command, SetState, At
<1>2. Waiting'
  BY <1>0 DEF Waiting, StoreTypeOK, Post, hold, SetState, OwnedIn
<1>3. Final
  BY <1>0 DEF Final, StoreTypeOK, Post, SetState, OwnedIn
<1>4. Upright(p)'
  BY <1>0
  DEF Upright, FrameTypeOK, StoreTypeOK, Blocker, Post, work, hold, Thrown, SetState,
      OwnedIn, Goto, Done
<1> QED
  BY <1>1, <1>2, <1>3, <1>4, GateKept

\* The reply is delivered.
LEMMA PostSucceedsGate ==
  ASSUME GateInv, SoleInv', NEW p \in Procs, PostSucceeds(p)
  PROVE  GateInv' /\ Final
<1>0. /\ StoreTypeOK /\ PastTypeOK /\ FrameTypeOK /\ Focus
      /\ Alone /\ Posted /\ Marked /\ Sending /\ Hands
      /\ Unstopped /\ Waiting /\ Upright(p)
  BY DEF GateInv, SoleInv, IInv, TypeOK
<1>1. Calm(p)
  BY <1>0 DEF Calm, Alone, Unstopped, PostSucceeds, rest, SetState, At
<1>2. Waiting'
  BY <1>0 DEF Waiting, Sending, PostSucceeds, hold, SetState, At
<1>3. Final
  BY <1>0 DEF Final, Sending, PostSucceeds, SetState, At
<1>4. Upright(p)'
  BY <1>0 DEF Upright, Sending, Blocker, PostSucceeds, work, hold, SetState, Goto, Done, At
<1> QED
  BY <1>1, <1>2, <1>3, <1>4, GateKept

\* The outcome of the post is unknown.
LEMMA PostFailsGate ==
  ASSUME GateInv, SoleInv', NEW p \in Procs, PostFails(p)
  PROVE  GateInv' /\ Final
<1>0. /\ StoreTypeOK /\ PastTypeOK /\ FrameTypeOK /\ Focus
      /\ Alone /\ Posted /\ Marked /\ Sending /\ Hands
      /\ Unstopped /\ Waiting /\ Upright(p)
  BY DEF GateInv, SoleInv, IInv, TypeOK
<1>1. Calm(p)
  BY <1>0
  DEF Calm, Alone, Unstopped, StoreTypeOK, PostFails, counts, command, ReplyFails,
      SetState, At
<1>2. Waiting'
  BY <1>0 DEF Waiting, StoreTypeOK, PostFails, ReplyFails, SetState, Fresh
<1>3. Final
  BY <1>0 DEF Final, StoreTypeOK, Sending, PostFails, ReplyFails, SetState, Fresh, At
<1>4. Upright(p)'
  BY <1>0
  DEF Upright, FrameTypeOK, StoreTypeOK, Blocker, PostFails, work, ReplyFails, SetState,
      Fresh, Goto, Done
<1> QED
  BY <1>1, <1>2, <1>3, <1>4, GateKept

\* The rescue reads the messages.
LEMMA MessagesGate ==
  ASSUME GateInv, SoleInv', NEW p \in Procs, Messages(p)
  PROVE  GateInv' /\ Final
<1>0. /\ StoreTypeOK /\ PastTypeOK /\ FrameTypeOK /\ Focus
      /\ Alone /\ Posted /\ Marked /\ Sending /\ Hands
      /\ Unstopped /\ Waiting /\ Upright(p)
  BY DEF GateInv, SoleInv, IInv, TypeOK
<1>1. Calm(p)
  BY <1>0 DEF Calm, Alone, Unstopped, Messages, store, rest, At
<1>2. Waiting'
  BY <1>0 DEF Waiting, Messages, store
<1>3. Final
  BY <1>0 DEF Final, Messages, store
<1>4. Upright(p)'
  BY <1>0 DEF Upright, Blocker, Messages, store, Goto, At
<1> QED
  BY <1>1, <1>2, <1>3, <1>4, GateKept

\* The rescue saves an answer of a turn that was not posted.
LEMMA StatusGate ==
  ASSUME GateInv, SoleInv', NEW p \in Procs, Status(p)
  PROVE  GateInv' /\ Final
<1>0. /\ StoreTypeOK /\ PastTypeOK /\ FrameTypeOK /\ Focus
      /\ Alone /\ Posted /\ Marked /\ Sending /\ Hands
      /\ Unstopped /\ Waiting /\ Upright(p)
  BY DEF GateInv, SoleInv, IInv, TypeOK
<1>1. Calm(p)
  BY <1>0 DEF Calm, Alone, Unstopped, StoreTypeOK, Status, rest, BeginFinish, SetState, At
<1>2. Waiting'
  BY <1>0 DEF Waiting, StoreTypeOK, Status, BeginFinish, SetState
<1>3. Final
  <2>1. st[on[p]] = "failed" /\ on[p] \in Turns
    BY <1>0 DEF Status, At, Upright, Focus, OnSteps
  <2>2. UNCHANGED st \/ \E s \in State : st' = [st EXCEPT ![on[p]] = s]
    BY DEF Status, BeginFinish, SetState, State, Terminal, Active
  <2> QED
    BY <1>0, <2>1, <2>2 DEF Final, StoreTypeOK
<1>4. Upright(p)'
  BY <1>0
  DEF Upright, OnSteps, FrameTypeOK, StoreTypeOK, Focus, Alone, Hands, InHand, Blocker,
      Status, Goto, BeginFinish, Thrown, SetState, Done, At
<1> QED
  BY <1>1, <1>2, <1>3, <1>4, GateKept

\* The rescue aborts.
LEMMA AbortAcknowledgedGate ==
  ASSUME GateInv, SoleInv', NEW p \in Procs, AbortAcknowledged(p)
  PROVE  GateInv' /\ Final
<1>0. /\ StoreTypeOK /\ PastTypeOK /\ FrameTypeOK /\ Focus
      /\ Alone /\ Posted /\ Marked /\ Sending /\ Hands
      /\ Unstopped /\ Waiting /\ Upright(p)
  BY DEF GateInv, SoleInv, IInv, TypeOK
<1>1. Calm(p)
  BY <1>0 DEF Calm, Alone, Unstopped, AbortAcknowledged, store, counts, command, At
<1>2. Waiting'
  BY <1>0 DEF Waiting, AbortAcknowledged, store
<1>3. Final
  BY <1>0 DEF Final, AbortAcknowledged, store
<1>4. Upright(p)'
  BY <1>0 DEF Upright, Blocker, AbortAcknowledged, work, store, Goto
<1> QED
  BY <1>1, <1>2, <1>3, <1>4, GateKept

\* The rescue fences the turn.
LEMMA ConfirmIdleGate ==
  ASSUME GateInv, SoleInv', NEW p \in Procs, ConfirmIdle(p)
  PROVE  GateInv' /\ Final
<1>0. /\ StoreTypeOK /\ PastTypeOK /\ FrameTypeOK /\ Focus
      /\ Alone /\ Posted /\ Marked /\ Sending /\ Hands
      /\ Unstopped /\ Waiting /\ Upright(p)
  BY DEF GateInv, SoleInv, IInv, TypeOK
<1>1. Calm(p)
  BY <1>0 DEF Calm, Alone, Unstopped, ConfirmIdle, rest, At
<1>2. Waiting'
  BY <1>0 DEF Waiting, StoreTypeOK, ConfirmIdle
<1>3. Final
  BY <1>0 DEF Final, ConfirmIdle, Goto, At, Running
<1>4. Upright(p)'
  BY <1>0 DEF Upright, StoreTypeOK, Blocker, ConfirmIdle, work, Goto
<1> QED
  BY <1>1, <1>2, <1>3, <1>4, GateKept

\* The rescue fails.
LEMMA RescueFailsGate ==
  ASSUME GateInv, SoleInv', NEW p \in Procs, RescueFails(p)
  PROVE  GateInv' /\ Final
<1>0. /\ StoreTypeOK /\ PastTypeOK /\ FrameTypeOK /\ Focus
      /\ Alone /\ Posted /\ Marked /\ Sending /\ Hands
      /\ Unstopped /\ Waiting /\ Upright(p)
  BY DEF GateInv, SoleInv, IInv, TypeOK
<1>1. Calm(p)
  BY <1>0 DEF Calm, Alone, Unstopped, RescueFails, store, counts, command, At
<1>2. Waiting'
  BY <1>0 DEF Waiting, RescueFails, store
<1>3. Final
  BY <1>0 DEF Final, RescueFails, store
<1>4. Upright(p)'
  BY <1>0 DEF Upright, FrameTypeOK, Blocker, RescueFails, store, Thrown, Goto
<1> QED
  BY <1>1, <1>2, <1>3, <1>4, GateKept

\* The rescue returns.
LEMMA RescuedGate ==
  ASSUME GateInv, SoleInv', NEW p \in Procs, Rescued(p)
  PROVE  GateInv' /\ Final
<1>0. /\ StoreTypeOK /\ PastTypeOK /\ FrameTypeOK /\ Focus
      /\ Alone /\ Posted /\ Marked /\ Sending /\ Hands
      /\ Unstopped /\ Waiting /\ Upright(p)
  BY DEF GateInv, SoleInv, IInv, TypeOK
<1>1. Calm(p)
  BY <1>0
  DEF Calm, Alone, Unstopped, StoreTypeOK, Rescued, FinishUnchanged, rest, BeginFinish,
      SetState, At
<1>2. Waiting'
  BY <1>0 DEF Waiting, StoreTypeOK, Rescued, FinishUnchanged, BeginFinish, SetState
<1>3. Final
  BY <1>0 DEF Final, StoreTypeOK, Rescued, BeginFinish, SetState
<1>4. Upright(p)'
  BY <1>0
  DEF Upright, FrameTypeOK, StoreTypeOK, Blocker, Rescued, Goto, FinishUnchanged,
      BeginFinish, Thrown, SetState, Done
<1> QED
  BY <1>1, <1>2, <1>3, <1>4, GateKept

\* A stop.
LEMMA StopBeginsGate ==
  ASSUME NoStop, GateInv, NEW p \in Procs, StopBegins(p)
  PROVE  FALSE
BY DEF NoStop, GateInv, Unstopped, StopBegins

\* A stop leaves replies alone that crossed their checkpoint.
LEMMA StopNextGate ==
  ASSUME GateInv, NEW p \in Procs, StopNext(p)
  PROVE  FALSE
BY DEF GateInv, Unstopped, StopNext

\* A stop aborts.
LEMMA StopAbortsGate ==
  ASSUME GateInv, NEW p \in Procs, StopAborts(p)
  PROVE  FALSE
BY DEF GateInv, Unstopped, StopAborts

\* A stop is confirmed.
LEMMA StopConfirmsGate ==
  ASSUME GateInv, NEW p \in Procs, StopConfirms(p)
  PROVE  FALSE
BY DEF GateInv, Unstopped, StopConfirms

\* A stop is not confirmed.
LEMMA StopUnconfirmedGate ==
  ASSUME GateInv, NEW p \in Procs, StopUnconfirmed(p)
  PROVE  FALSE
BY DEF GateInv, Unstopped, StopUnconfirmed

\* A lease runs out.
LEMMA LeaseExpiresGate ==
  ASSUME GateInv, SoleInv', NEW t \in Turns, LeaseExpires(t)
  PROVE  GateInv' /\ Final
<1>1. UNCHANGED <<st, unc, fenced, frame, spc, stops>>
  BY DEF LeaseExpires, rest
<1> QED
  BY <1>1 DEF GateInv, Unstopped, Waiting, Upright, Blocker, Final, frame

\* The host.
LEMMA HostStepGate ==
  ASSUME GateInv, SoleInv', NEW t \in Turns, HostStep(t)
  PROVE  GateInv' /\ Final
<1>1. UNCHANGED <<st, unc, fenced, frame, spc, stops>>
  BY DEF HostStep, HostAccepts, HostMisses, HostFinishes, store, command, counts
<1> QED
  BY <1>1 DEF GateInv, Unstopped, Waiting, Upright, Blocker, Final, frame

----------------------------------------------------------------------------
(***************************************************************************)
(* The theorems.                                                           *)
(***************************************************************************)

\* Every step keeps the invariant and what was interrupted.
LEMMA GateInductive ==
  ASSUME NoStop, GateInv, [Next]_vars
  PROVE  GateInv' /\ Final
<1>0. SoleInv'
  BY SoleInductive DEF NoStop, GateInv
<1>1. ASSUME NEW p \in Procs,
             Start(p) \/ Crash(p) \/ Close(p) \/ Release(p) \/ Renew(p) \/ WakeUp(p)
      PROVE  GateInv' /\ Final
  BY <1>0, <1>1, StartGate, CrashGate, CloseGate, ReleaseGate, RenewGate, WakeUpGate
<1>2. ASSUME NEW p \in Procs, NEW t \in Turns,
             Arrive(p, t) \/ Message(p, t) \/ MessageAborts(p, t) \/ Reenqueue(p, t)
      PROVE  GateInv' /\ Final
  BY <1>0, <1>2, ArriveGate, MessageGate, MessageAbortsGate, ReenqueueGate
<1>3. ASSUME NEW p \in Procs, DrainStepOf(p)
      PROVE  GateInv' /\ Final
  BY <1>0, <1>3, DrainNextGate, RescueBlockerGate, PassGateGate, ProcessClaimGate,
     ReadFailsGate, CheckpointGate, PromptAcknowledgedGate, PromptFailsGate,
     RecheckAcceptedGate, RecheckUncertainGate, VerifyGate, PollAnsweredGate,
     PollEndsGate, SavedGate, StuckGate, AmbiguousGate, CatchGate, ReturnedGate,
     PrepareRefusesGate, PrepareFailsGate, PostGate, PostSucceedsGate, PostFailsGate,
     MessagesGate, StatusGate, AbortAcknowledgedGate, ConfirmIdleGate, RescueFailsGate,
     RescuedGate DEF DrainStepOf
<1>4. ASSUME NEW p \in Procs, CommandStepOf(p)
      PROVE  GateInv' /\ Final
  BY <1>0, <1>4, StopBeginsGate, StopNextGate, StopAbortsGate, StopConfirmsGate,
     StopUnconfirmedGate DEF CommandStepOf
<1>5. ASSUME NEW t \in Turns, LeaseExpires(t) \/ HostStep(t)
      PROVE  GateInv' /\ Final
  BY <1>0, <1>5, LeaseExpiresGate, HostStepGate
<1>6. CASE UNCHANGED vars
  BY <1>0, <1>6 DEF GateInv, Unstopped, Waiting, Upright, Blocker, Final, vars
<1> QED
  BY <1>1, <1>2, <1>3, <1>4, <1>5, <1>6 DEF Next

\* Only submit() submits.
LEMMA OnlyCheckpointSubmits ==
  ASSUME OneGateway, SoleInv, [Next]_vars
  PROVE  UNCHANGED prompts \/ \E p \in Procs : Checkpoint(p)
<1> DEFINE Kept == UNCHANGED prompts
<1>0. IInv /\ IInv'
  BY StepKeepsIInv DEF SoleInv
<1>1. ASSUME NEW p \in Procs,
             Start(p) \/ Crash(p) \/ Close(p) \/ Release(p) \/ Renew(p) \/ WakeUp(p)
      PROVE  Kept
  BY <1>0, <1>1, RenewStep, WakeUpStep DEF Contract!vars, Start, Crash, Close, Release, past
<1>2. ASSUME NEW p \in Procs, NEW t \in Turns,
             Arrive(p, t) \/ Message(p, t) \/ MessageAborts(p, t) \/ Reenqueue(p, t)
      PROVE  Kept
  BY <1>0, <1>2, ArriveStep, MessageStep, MessageAbortsStep, ReenqueueStep
  DEF Contract!vars
<1>3. ASSUME NEW p \in Procs, DrainStepOf(p), ~Checkpoint(p)
      PROVE  Kept
  BY <1>0, <1>3, DrainNextStep, RescueBlockerStep, PassGateStep, ProcessClaimStep,
     ReadFailsStep, PromptAcknowledgedStep, PromptFailsStep, RecheckAcceptedStep,
     RecheckUncertainStep, VerifyStep, PollAnsweredStep, PollEndsStep, SavedStep,
     StuckStep, CatchStep, ReturnedStep, PrepareRefusesStep, PrepareFailsStep,
     MessagesStep, StatusStep, AbortAcknowledgedStep, ConfirmIdleStep, RescueFailsStep,
     RescuedStep
  DEF DrainStepOf, Contract!vars, Ambiguous, Post, PostSucceeds, PostFails, past, rest
<1>4. ASSUME NEW p \in Procs, CommandStepOf(p)
      PROVE  Kept
  BY <1>0, <1>4, StopBeginsStep, StopNextStep, StopAbortsStep, StopConfirmsStep,
     StopUnconfirmedStep DEF CommandStepOf, Contract!vars
<1>5. ASSUME NEW t \in Turns, LeaseExpires(t) \/ HostStep(t)
      PROVE  Kept
  BY <1>5 DEF LeaseExpires, HostStep, rest, past
<1>6. CASE UNCHANGED vars
  BY <1>6 DEF vars
<1> QED
  BY <1>1, <1>2, <1>3, <1>4, <1>5, <1>6 DEF Next

\* Nothing waits at first.
LEMMA InitIsGated == Init => GateInv
<1> SUFFICES ASSUME Init PROVE GateInv
  OBVIOUS
<1>1. SoleInv
  BY InitIsSole
<1>2. Unstopped /\ Waiting
  BY DEF Init, StoreInit, Unstopped, Waiting
<1>3. \A p \in Procs : Upright(p)
  BY DEF Init, Upright
<1> QED
  BY <1>1, <1>2, <1>3 DEF GateInv

\* The gate is kept at all times, when nobody sends /stop.
THEOREM GateInvHolds ==
  ASSUME NoStop
  PROVE  Spec => []GateInv
<1>1. Init => GateInv
  BY InitIsGated
<1>2. GateInv /\ [Next]_vars => GateInv'
  BY GateInductive
<1> QED
  BY <1>1, <1>2, PTL DEF Spec

\* drain() lets nothing through its gate while another turn may still be
\* executing unconfirmed: what was captured as a blocker is fenced before the
\* turn is claimed, and none comes up before it is submitted.
THEOREM TheGateHolds ==
  ASSUME NoStop
  PROVE  Spec => GateHolds
<1> DEFINE Opens == \A t \in Turns : prompts'[t] # prompts[t] =>
                      \A b \in Turns \ {t} : ~Blocker(b)
<1>1. GateInv /\ [Next]_vars => [Opens]_vars
  <2> SUFFICES ASSUME GateInv, [Next]_vars PROVE Opens
    OBVIOUS
  <2>1. CASE UNCHANGED prompts
    BY <2>1
  <2>2. ASSUME NEW p \in Procs, Checkpoint(p) PROVE Opens
    <3>1. \A b \in Turns \ {cur[p]} : ~Blocker(b)
      BY <2>2 DEF Checkpoint, At, GateInv, Upright
    <3>2. UNCHANGED prompts \/ prompts' = [prompts EXCEPT ![cur[p]] = @ + 1]
      BY <2>2 DEF Checkpoint
    <3>3. prompts \in [Turns -> Nat]
      BY DEF GateInv, SoleInv, IInv, TypeOK, PastTypeOK
    <3> QED
      BY <3>1, <3>2, <3>3
  <2> QED
    BY <2>1, <2>2, OnlyCheckpointSubmits DEF NoStop, GateInv
<1> QED
  BY <1>1, GateInvHolds, PTL DEF Spec, GateHolds

\* A turn that a newer message interrupted stays so: no rescue, retry or
\* restart completes, fails or posts it.
THEOREM InterruptionsAreFinal ==
  ASSUME NoStop
  PROVE  Spec => InterruptedIsFinal
<1>1. GateInv /\ [Next]_vars
        => [\A t \in Turns : st[t] = "interrupted" => st'[t] = "interrupted"]_vars
  BY GateInductive DEF Final
<1> QED
  BY <1>1, GateInvHolds, PTL DEF Spec, InterruptedIsFinal
=============================================================================
