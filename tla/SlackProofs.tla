---------------------------- MODULE SlackProofs -----------------------------
(***************************************************************************)
(* What leaves for Slack leaves once: the platform takes one journalled     *)
(* intent at most once, and shows one effect of a progress card at most     *)
(* once, for any number of calls, keys, gateways and notifications.         *)
(***************************************************************************)
EXTENDS NativeSend, SlackProgress, TLAPS

-----------------------------------------------------------------------------
(***************************************************************************)
(* Native sends: an invariant of the journal and the calls that hold an entry.*)
(***************************************************************************)
\* An attempt whose entry is the journal's: its request is about to leave or out.
Holds(a) == at[a] = "post" \/ Out(a)

EntryOf(a) == sends[ask[a].key]

\* The journal answers for every request: same content, and, but for
\* reactions, the very entry of the attempt, not one the platform refused.
Journalled ==
  \A a \in Attempts : Holds(a) =>
    /\ EntryOf(a) # NoEntry
    /\ EntryOf(a).matter = ask[a].matter
    /\ channel # "reaction" => /\ EntryOf(a).src = ask[a].src
                               /\ EntryOf(a).explicit = (a # AutoReply)
                               /\ EntryOf(a).state # "rejected"

\* A key has one attempt, and so has the content of an upload.
OneHolder ==
  \A a, b \in Attempts : Holds(a) /\ Holds(b) =>
    /\ channel # "reaction" /\ ask[a].key = ask[b].key => a = b
    /\ channel = "upload" /\ ask[a].src = ask[b].src /\ ask[a].matter = ask[b].matter => a = b

\* An attempt that has not reached its request has none out, one that waits for
\* an answer has.
WirePlace ==
  \A a \in Attempts :
    /\ at[a] \in {"idle", "judge", "checkpoint", "ready", "claim", "post"} => wire[a] = "quiet"
    /\ at[a] = "asked" => Out(a)

\* The automatic reply goes out only behind the turn's last durable step.
ReplyPlace ==
  /\ at[AutoReply] \in {"ready", "claim", "post", "asked", "done"} \/ Out(AutoReply)
       => origin \in {"delivery", "ended"}
  /\ origin = "submitted" => at[AutoReply] \in {"idle", "gone"}

\* A WhatsApp text of the turn stands in the way of its automatic reply.
ReplyYields ==
  channel = "text" =>
    \A c \in Calls : OfTurn(c) /\ Out(c) =>
      at[AutoReply] \in {"idle", "gone", "judge"} /\ ~Out(AutoReply)

SendInv == SendTypeOK /\ Journalled /\ OneHolder /\ WirePlace /\ ReplyPlace /\ ReplyYields

\* What an attempt writes is an entry.
Written(a, s) == [SendStarted(a) EXCEPT !.state = s]

\* It is one of the journal's, and not the absence of one.
LEMMA EntriesAreWritten ==
  ASSUME SendTypeOK, NEW a \in Attempts, NEW s \in {"started", "sent", "rejected"}
  PROVE  /\ SendStarted(a) \in SendEntry /\ SendStarted(a) # NoEntry
         /\ Written(a, s) \in SendEntry /\ Written(a, s) # NoEntry
<1>1. SendStarted(a) \in SendEntry
  BY DEF SendTypeOK, SendStarted, SendEntry, Request
<1>2. Written(a, s) \in SendEntry
  BY DEF SendTypeOK, SendStarted, SendEntry, Request, Written
<1> QED
  BY <1>1, <1>2, NoEntryAssumption

\* The turn ends: its reply has neither left nor been prepared.
LEMMA TurnFinishesStep ==
  ASSUME SendInv, TurnFinishes
  PROVE  SendInv'
<1> USE SendAssumption, NoEntryAssumption
    DEF SendInv, SendTypeOK, theTurn, Attempts, OriginState, Place, SendKinds,
        SendEntry, Request, TurnFinishes
<1>1. SendTypeOK'
  BY DEF SendTypeOK
<1>2. Journalled'
  BY DEF Journalled, Holds, Out, EntryOf
<1>3. OneHolder'
  BY DEF OneHolder, Holds, Out
<1>4. WirePlace'
  BY DEF WirePlace, Out
<1>5. ReplyPlace'
  <2>1. ~Out(AutoReply)
    BY DEF WirePlace, Out
  <2> QED
    BY <2>1 DEF ReplyPlace, Out
<1>6. ReplyYields'
  BY DEF ReplyYields, Out, OfTurn
<1> QED
  BY <1>1, <1>2, <1>3, <1>4, <1>5, <1>6

\* A stop.
LEMMA TurnStoppedStep ==
  ASSUME SendInv, TurnStopped
  PROVE  SendInv'
<1> USE SendAssumption, NoEntryAssumption
    DEF SendInv, SendTypeOK, theTurn, Attempts, OriginState, Place, SendKinds,
        SendEntry, Request, TurnStopped
<1>1. SendTypeOK'
  BY DEF SendTypeOK
<1>2. Journalled'
  BY DEF Journalled, Holds, Out, EntryOf
<1>3. OneHolder'
  BY DEF OneHolder, Holds, Out
<1>4. WirePlace'
  BY DEF WirePlace, Out
<1>5. ReplyPlace'
  BY DEF ReplyPlace, Out
<1>6. ReplyYields'
  BY DEF ReplyYields, Out, OfTurn
<1> QED
  BY <1>1, <1>2, <1>3, <1>4, <1>5, <1>6

\* The gateway dies or stalls.
LEMMA LeaseRunsOutStep ==
  ASSUME SendInv, LeaseRunsOut
  PROVE  SendInv'
<1> USE SendAssumption, NoEntryAssumption
    DEF SendInv, SendTypeOK, theTurn, Attempts, OriginState, Place, SendKinds,
        SendEntry, Request, LeaseRunsOut
<1>1. SendTypeOK'
  <2>1. at' \in [Attempts -> Place \cup {"judge", "checkpoint"}]
    BY DEF Place
  <2> QED
    BY <2>1
<1>2. Journalled'
  BY DEF Journalled, Holds, Out, EntryOf
<1>3. OneHolder'
  BY DEF OneHolder, Holds, Out
<1>4. WirePlace'
  BY DEF WirePlace, Out
<1>5. ReplyPlace'
  BY DEF ReplyPlace, Out
<1>6. ReplyYields'
  BY DEF ReplyYields, Out, OfTurn
<1> QED
  BY <1>1, <1>2, <1>3, <1>4, <1>5, <1>6

\* A reclaiming gateway starts the reply over only if none is out.
LEMMA ReclaimedStep ==
  ASSUME SendInv, Reclaimed
  PROVE  SendInv'
<1> USE SendAssumption, NoEntryAssumption
    DEF SendInv, SendTypeOK, theTurn, Attempts, OriginState, Place, SendKinds,
        SendEntry, Request, Reclaimed
<1>1. SendTypeOK'
  BY DEF SendTypeOK
<1>2. Journalled'
  BY DEF Journalled, Holds, Out, EntryOf
<1>3. OneHolder'
  BY DEF OneHolder, Holds, Out
<1>4. WirePlace'
  BY DEF WirePlace, ReplyPlace, Out
<1>5. ReplyPlace'
  BY DEF ReplyPlace, Out
<1>6. ReplyYields'
  BY DEF ReplyYields, Out, OfTurn
<1> QED
  BY <1>1, <1>2, <1>3, <1>4, <1>5, <1>6

\* finish looks for an explicit send and finds one that is out.
LEMMA JudgeStep ==
  ASSUME SendInv, Judge
  PROVE  SendInv'
<1> USE SendAssumption, NoEntryAssumption
    DEF SendInv, SendTypeOK, theTurn, Attempts, OriginState, Place, SendKinds,
        SendEntry, Request, Judge, HasExplicit, ExplicitEntry
<1>1. SendTypeOK'
  BY DEF SendTypeOK
<1>2. Journalled'
  BY DEF Journalled, Holds, Out, EntryOf
<1>3. OneHolder'
  BY DEF OneHolder, Holds, Out
<1>4. WirePlace'
  BY DEF WirePlace, Out
<1>5. ReplyPlace'
  BY DEF ReplyPlace, Out
<1>6. ReplyYields'
  <2> SUFFICES ASSUME channel = "text", NEW c \in Calls, OfTurn(c), Out(c)
               PROVE  HasExplicit
    BY DEF ReplyYields, Out, OfTurn
  <2> QED
    BY DEF Journalled, Holds, EntryOf, OfTurn, HasExplicit, ExplicitEntry
<1> QED
  BY <1>1, <1>2, <1>3, <1>4, <1>5, <1>6

\* The last durable step before the reply.
LEMMA CheckpointStep ==
  ASSUME SendInv, Checkpoint
  PROVE  SendInv'
<1> USE SendAssumption, NoEntryAssumption
    DEF SendInv, SendTypeOK, theTurn, Attempts, OriginState, Place, SendKinds,
        SendEntry, Request, Checkpoint
<1>1. SendTypeOK'
  BY DEF SendTypeOK
<1>2. Journalled'
  BY DEF Journalled, Holds, Out, EntryOf
<1>3. OneHolder'
  BY DEF OneHolder, Holds, Out
<1>4. WirePlace'
  BY DEF WirePlace, Out
<1>5. ReplyPlace'
  BY DEF ReplyPlace, Out
<1>6. ReplyYields'
  BY DEF ReplyYields, Out, OfTurn
<1> QED
  BY <1>1, <1>2, <1>3, <1>4, <1>5, <1>6

\* A call resolves its owner.
LEMMA ResolvesStep ==
  ASSUME NEW c \in Calls, NEW ok \in BOOLEAN, SendInv, Resolves(c, ok)
  PROVE  SendInv'
<1> USE SendAssumption, NoEntryAssumption
    DEF SendInv, SendTypeOK, theTurn, Attempts, OriginState, Place, SendKinds,
        SendEntry, Request, Resolves
<1>1. SendTypeOK'
  BY DEF SendTypeOK
<1>2. Journalled'
  BY DEF Journalled, Holds, Out, EntryOf
<1>3. OneHolder'
  BY DEF OneHolder, Holds, Out
<1>4. WirePlace'
  BY DEF WirePlace, Out
<1>5. ReplyPlace'
  BY DEF ReplyPlace, Out
<1>6. ReplyYields'
  BY DEF ReplyYields, Out, OfTurn
<1> QED
  BY <1>1, <1>2, <1>3, <1>4, <1>5, <1>6

\* The last look before the journal.
LEMMA LooksAtStep ==
  ASSUME NEW a \in Attempts, NEW free \in BOOLEAN, SendInv, LooksAt(a, free)
  PROVE  SendInv'
<1> USE SendAssumption, NoEntryAssumption
    DEF SendInv, SendTypeOK, theTurn, Attempts, OriginState, Place, SendKinds,
        SendEntry, Request, LooksAt, OwnerHolds, Executing
<1>1. SendTypeOK'
  <2>1. at' \in [Attempts -> Place \cup {"judge", "checkpoint"}]
    OBVIOUS
  <2>2. busy' \in Calls \cup {NoCall}
    BY DEF OfTurn
  <2> QED
    BY <2>1, <2>2
<1>2. Journalled'
  BY DEF Journalled, Holds, Out, EntryOf
<1>3. OneHolder'
  BY DEF OneHolder, Holds, Out
<1>4. WirePlace'
  BY DEF WirePlace, Out
<1>5. ReplyPlace'
  BY DEF ReplyPlace, Out
<1>6. ReplyYields'
  BY DEF ReplyYields, Out, OfTurn
<1> QED
  BY <1>1, <1>2, <1>3, <1>4, <1>5, <1>6

\* The entry is written where no other attempt has its own.
LEMMA ClaimStep ==
  ASSUME NEW a \in Attempts, SendInv, Claim(a)
  PROVE  SendInv'
<1> USE SendAssumption, NoEntryAssumption
    DEF SendInv, SendTypeOK, theTurn, Attempts, OriginState, Place, SendKinds,
        SendEntry, Request, Claim, SendStarted, MayClaim, Previous, Twins, TextOpen,
        ReactionOpen
<1>1. SendTypeOK'
  BY DEF SendTypeOK
<1>2. Journalled'
  <2>1. \A b \in Attempts : Holds(b)' => Holds(b) \/ b = a
    BY DEF Holds, Out
  <2>2. \A b \in Attempts : Holds(b) /\ ask[b].key = ask[a].key => channel =
       "reaction" /\ ask[b].matter = ask[a].matter
    BY DEF Journalled, EntryOf
  <2>3. \A b \in Attempts : EntryOf(b)' = IF ask[b].key = ask[a].key THEN
       SendStarted(a) ELSE EntryOf(b)
    BY DEF EntryOf
  <2>4. SendStarted(a) # NoEntry
    BY EntriesAreWritten
  <2> QED
    BY <2>1, <2>2, <2>3, <2>4 DEF Journalled
<1>3. OneHolder'
  <2>1. \A b \in Attempts : Holds(b)' => Holds(b) \/ b = a
    BY DEF Holds, Out
  <2>2. \A b \in Attempts : Holds(b) /\ ask[b].key = ask[a].key => channel = "reaction"
    BY DEF Journalled, EntryOf
  <2>3. \A b \in Attempts : Holds(b) /\ channel = "upload" => ~(ask[b].src =
       ask[a].src /\ ask[b].matter = ask[a].matter)
    BY <2>2 DEF Journalled, EntryOf
  <2> QED
    BY <2>1, <2>2, <2>3 DEF OneHolder
<1>4. WirePlace'
  BY DEF WirePlace, Out
<1>5. ReplyPlace'
  BY DEF ReplyPlace, Out
<1>6. ReplyYields'
  BY DEF ReplyYields, Out, OfTurn
<1> QED
  BY <1>1, <1>2, <1>3, <1>4, <1>5, <1>6

\* A refused claim.
LEMMA ClaimFailsStep ==
  ASSUME NEW a \in Attempts, SendInv, ClaimFails(a)
  PROVE  SendInv'
<1> USE SendAssumption, NoEntryAssumption
    DEF SendInv, SendTypeOK, theTurn, Attempts, OriginState, Place, SendKinds,
        SendEntry, Request, ClaimFails, Leave
<1>1. SendTypeOK'
  BY DEF SendTypeOK
<1>2. Journalled'
  BY DEF Journalled, Holds, Out, EntryOf
<1>3. OneHolder'
  BY DEF OneHolder, Holds, Out
<1>4. WirePlace'
  BY DEF WirePlace, Out
<1>5. ReplyPlace'
  BY DEF ReplyPlace, Out
<1>6. ReplyYields'
  BY DEF ReplyYields, Out, OfTurn
<1> QED
  BY <1>1, <1>2, <1>3, <1>4, <1>5, <1>6

\* An upload copies its twin under a key nobody holds.
LEMMA ClaimTwinStep ==
  ASSUME NEW a \in Attempts, SendInv, ClaimTwin(a)
  PROVE  SendInv'
<1> USE SendAssumption, NoEntryAssumption
    DEF SendInv, SendTypeOK, theTurn, Attempts, OriginState, Place, SendKinds,
        SendEntry, Request, ClaimTwin, Leave, Previous, Twins, MayClaim, TextOpen,
        ReactionOpen
<1>1. SendTypeOK'
  BY DEF SendTypeOK
<1>2. Journalled'
  BY DEF Journalled, Holds, Out, EntryOf
<1>3. OneHolder'
  BY DEF OneHolder, Holds, Out
<1>4. WirePlace'
  BY DEF WirePlace, Out
<1>5. ReplyPlace'
  BY DEF ReplyPlace, Out
<1>6. ReplyYields'
  BY DEF ReplyYields, Out, OfTurn
<1> QED
  BY <1>1, <1>2, <1>3, <1>4, <1>5, <1>6

\* The request leaves; a text's only while the turn runs.
LEMMA PostStep ==
  ASSUME NEW a \in Attempts, SendInv, Post(a)
  PROVE  SendInv'
<1> USE SendAssumption, NoEntryAssumption
    DEF SendInv, SendTypeOK, theTurn, Attempts, OriginState, Place, SendKinds,
        SendEntry, Request, Post, Leave, OwnerHolds, Executing
<1>1. SendTypeOK'
  BY DEF SendTypeOK
<1>2. Journalled'
  BY DEF Journalled, Holds, Out, EntryOf
<1>3. OneHolder'
  BY DEF OneHolder, Holds, Out
<1>4. WirePlace'
  BY DEF WirePlace, Out
<1>5. ReplyPlace'
  BY DEF ReplyPlace, Out
<1>6. ReplyYields'
  BY DEF ReplyYields, ReplyPlace, WirePlace, Out, OfTurn
<1> QED
  BY <1>1, <1>2, <1>3, <1>4, <1>5, <1>6

\* The platform takes it.
LEMMA LandsStep ==
  ASSUME NEW a \in Attempts, SendInv, Lands(a)
  PROVE  SendInv'
<1> USE SendAssumption, NoEntryAssumption
    DEF SendInv, SendTypeOK, theTurn, Attempts, OriginState, Place, SendKinds,
        SendEntry, Request, Lands
<1>1. SendTypeOK'
  BY DEF SendTypeOK
<1>2. Journalled'
  BY DEF Journalled, Holds, Out, EntryOf
<1>3. OneHolder'
  BY DEF OneHolder, Holds, Out
<1>4. WirePlace'
  BY DEF WirePlace, Out
<1>5. ReplyPlace'
  BY DEF ReplyPlace, Out
<1>6. ReplyYields'
  BY DEF ReplyYields, Out, OfTurn
<1> QED
  BY <1>1, <1>2, <1>3, <1>4, <1>5, <1>6

\* An answer rewrites the attempt's own entry.
LEMMA AnsweredStep ==
  ASSUME NEW a \in Attempts, SendInv, Answered(a)
  PROVE  SendInv'
<1> USE SendAssumption, NoEntryAssumption
    DEF SendInv, SendTypeOK, theTurn, Attempts, OriginState, Place, SendKinds,
        SendEntry, Request, Answered, Leave, Ended, SendStarted
<1>1. SendTypeOK'
  <2>1. SendStarted(a) \in SendEntry
    BY DEF SendStarted, SendEntry, Request
  <2>2. sends' \in [SendKeys -> SendEntry \cup {NoEntry}]
    BY <2>1 DEF Request, SendEntry, SendStarted
  <2> QED
    BY <2>2
<1>2. Journalled'
  <2>1. \A b \in Attempts : Holds(b)' => Holds(b)
    BY DEF Holds, Out
  <2>2. \A b \in Attempts : Holds(b)' /\ ask[b].key = ask[a].key =>
          ask[b].matter = ask[a].matter /\ (channel # "reaction" => b = a)
    BY <2>1 DEF Journalled, OneHolder, Holds, EntryOf, WirePlace
  <2>3. \A b \in Attempts :
          EntryOf(b)' = IF ask[b].key = ask[a].key THEN Written(a, "sent") ELSE EntryOf(b)
    BY DEF EntryOf, Written
  <2>4. Written(a, "sent") # NoEntry
    BY EntriesAreWritten
  <2> QED
    BY <2>1, <2>2, <2>3, <2>4 DEF Journalled, Written
<1>3. OneHolder'
  BY DEF OneHolder, Holds, Out
<1>4. WirePlace'
  BY DEF WirePlace, Out
<1>5. ReplyPlace'
  BY DEF ReplyPlace, Out
<1>6. ReplyYields'
  BY DEF ReplyYields, Out, OfTurn
<1> QED
  BY <1>1, <1>2, <1>3, <1>4, <1>5, <1>6

\* So does a policy error, and its attempt is out no more.
LEMMA RefusedByPolicyStep ==
  ASSUME NEW a \in Attempts, SendInv, RefusedByPolicy(a)
  PROVE  SendInv'
<1> USE SendAssumption, NoEntryAssumption
    DEF SendInv, SendTypeOK, theTurn, Attempts, OriginState, Place, SendKinds,
        SendEntry, Request, RefusedByPolicy, Refusal, Leave, Ended, SendStarted
<1>1. SendTypeOK'
  <2>1. SendStarted(a) \in SendEntry
    BY DEF SendStarted, SendEntry, Request
  <2>2. sends' \in [SendKeys -> SendEntry \cup {NoEntry}]
    BY <2>1 DEF Request, SendEntry, SendStarted
  <2> QED
    BY <2>2
<1>2. Journalled'
  <2>1. \A b \in Attempts : Holds(b)' => Holds(b) /\ b # a
    BY DEF Holds, Out, WirePlace
  <2>2. \A b \in Attempts : Holds(b)' /\ ask[b].key = ask[a].key =>
          ask[b].matter = ask[a].matter /\ (channel # "reaction" => b = a)
    BY <2>1 DEF Journalled, OneHolder, Holds, EntryOf, WirePlace
  <2>3. \A b \in Attempts : EntryOf(b)' = IF ask[b].key = ask[a].key THEN Written(a,
       "rejected") ELSE EntryOf(b)
    BY DEF EntryOf, Written
  <2>4. Written(a, "rejected") # NoEntry
    BY EntriesAreWritten
  <2> QED
    BY <2>1, <2>2, <2>3, <2>4 DEF Journalled, Written
<1>3. OneHolder'
  BY DEF OneHolder, Holds, Out
<1>4. WirePlace'
  BY DEF WirePlace, Out
<1>5. ReplyPlace'
  BY DEF ReplyPlace, Out
<1>6. ReplyYields'
  BY DEF ReplyYields, Out, OfTurn
<1> QED
  BY <1>1, <1>2, <1>3, <1>4, <1>5, <1>6

\* A refusal that the journal does not tell.
LEMMA RefusedUnreadStep ==
  ASSUME NEW a \in Attempts, SendInv, RefusedUnread(a)
  PROVE  SendInv'
<1> USE SendAssumption, NoEntryAssumption
    DEF SendInv, SendTypeOK, theTurn, Attempts, OriginState, Place, SendKinds,
        SendEntry, Request, RefusedUnread, Refusal, Leave, Ended
<1>1. SendTypeOK'
  BY DEF SendTypeOK
<1>2. Journalled'
  BY DEF Journalled, Holds, Out, EntryOf
<1>3. OneHolder'
  BY DEF OneHolder, Holds, Out
<1>4. WirePlace'
  BY DEF WirePlace, Out
<1>5. ReplyPlace'
  BY DEF ReplyPlace, Out
<1>6. ReplyYields'
  BY DEF ReplyYields, Out, OfTurn
<1> QED
  BY <1>1, <1>2, <1>3, <1>4, <1>5, <1>6

\* An unknown outcome.
LEMMA UnconfirmedStep ==
  ASSUME NEW a \in Attempts, SendInv, Unconfirmed(a)
  PROVE  SendInv'
<1> USE SendAssumption, NoEntryAssumption
    DEF SendInv, SendTypeOK, theTurn, Attempts, OriginState, Place, SendKinds,
        SendEntry, Request, Unconfirmed, Leave, Ended
<1>1. SendTypeOK'
  BY DEF SendTypeOK
<1>2. Journalled'
  BY DEF Journalled, Holds, Out, EntryOf
<1>3. OneHolder'
  BY DEF OneHolder, Holds, Out
<1>4. WirePlace'
  BY DEF WirePlace, Out
<1>5. ReplyPlace'
  BY DEF ReplyPlace, Out
<1>6. ReplyYields'
  BY DEF ReplyYields, Out, OfTurn
<1> QED
  BY <1>1, <1>2, <1>3, <1>4, <1>5, <1>6

\* The process of the attempt dies.
LEMMA DiesStep ==
  ASSUME NEW a \in Attempts, SendInv, Dies(a)
  PROVE  SendInv'
<1> USE SendAssumption, NoEntryAssumption
    DEF SendInv, SendTypeOK, theTurn, Attempts, OriginState, Place, SendKinds,
        SendEntry, Request, Dies, Leave
<1>1. SendTypeOK'
  BY DEF SendTypeOK
<1>2. Journalled'
  BY DEF Journalled, Holds, Out, EntryOf
<1>3. OneHolder'
  BY DEF OneHolder, Holds, Out
<1>4. WirePlace'
  BY DEF WirePlace, Out
<1>5. ReplyPlace'
  BY DEF ReplyPlace, Out
<1>6. ReplyYields'
  BY DEF ReplyYields, Out, OfTurn
<1> QED
  BY <1>1, <1>2, <1>3, <1>4, <1>5, <1>6

-----------------------------------------------------------------------------
\* Nothing was sent in the beginning.
LEMMA SendInitially == SendInit => SendInv
<1> SUFFICES ASSUME SendInit PROVE SendInv
  OBVIOUS
<1>1. SendTypeOK
  BY SendAssumption DEF SendInit, SendTypeOK, Attempts, OriginState, Place, SendKinds
<1>2. \A a \in Attempts : ~Holds(a)
  BY <1>1 DEF SendInit, SendTypeOK, Holds, Out
<1>3. Journalled /\ OneHolder
  BY <1>2 DEF Journalled, OneHolder
<1>4. WirePlace /\ ReplyPlace /\ ReplyYields
  BY <1>1 DEF SendInit, SendTypeOK, WirePlace, ReplyPlace, ReplyYields, Out, OfTurn, Attempts
<1> QED
  BY <1>1, <1>3, <1>4 DEF SendInv

\* Every step of the calls, the gateways and the platform keeps the invariant.
LEMMA SendInductive == SendInv /\ [SendNext]_sendVars => SendInv'
<1> SUFFICES ASSUME SendInv, [SendNext]_sendVars PROVE SendInv'
  OBVIOUS
<1>1. CASE TurnFinishes \/ TurnStopped \/ LeaseRunsOut \/ Reclaimed \/ Judge \/ Checkpoint
  BY <1>1, TurnFinishesStep, TurnStoppedStep, LeaseRunsOutStep, ReclaimedStep, JudgeStep,
     CheckpointStep
<1>2. ASSUME NEW c \in Calls, Resolve(c) \/ ResolveUpload(c) PROVE SendInv'
  BY <1>2, ResolvesStep DEF Resolve, ResolveUpload
<1>3. ASSUME NEW a \in Attempts,
             LookText(a) \/ LookReaction(a) \/ LookIMessage(a) \/ LookUpload(a)
      PROVE  SendInv'
  <2> DEFINE free == ask[a].src = "turn" => ~Unresolved(a)
  <2>1. \E ok \in BOOLEAN : LooksAt(a, ok)
    <3>1. CASE LookText(a)
      <4>1. free \in BOOLEAN /\ LooksAt(a, free)
        BY <3>1 DEF LookText
      <4> QED
        BY <4>1
    <3> QED
      BY <1>3, <3>1 DEF LookReaction, LookIMessage, LookUpload
  <2> QED
    BY <2>1, LooksAtStep
<1>4. ASSUME NEW a \in Attempts,
             \/ Claim(a) \/ ClaimFails(a) \/ ClaimTwin(a) \/ Post(a) \/ Lands(a)
             \/ Answered(a) \/ RefusedByPolicy(a) \/ RefusedUnread(a)
             \/ Unconfirmed(a) \/ Dies(a)
      PROVE  SendInv'
  BY <1>4, ClaimStep, ClaimFailsStep, ClaimTwinStep, PostStep, LandsStep, AnsweredStep,
     RefusedByPolicyStep, RefusedUnreadStep, UnconfirmedStep, DiesStep
<1>5. CASE UNCHANGED sendVars
  BY <1>5 DEF sendVars, SendInv, SendTypeOK, Journalled, OneHolder, WirePlace, ReplyPlace,
     ReplyYields, Holds, Out, EntryOf, OfTurn
<1> QED
  BY <1>1, <1>2, <1>3, <1>4, <1>5 DEF SendNext

\* The inductive invariant of the native sends, for any number of calls, keys and gateways.
THEOREM SendInvariant == SendSpec => []SendInv
BY SendInitially, SendInductive, PTL DEF SendSpec

\* The journal, the attempts and the turn keep their types.
THEOREM SendTypes == SendSpec => []SendTypeOK
<1>1. SendInv => SendTypeOK
  BY DEF SendInv
<1> QED
  BY <1>1, SendInvariant, PTL

\* The platform takes one journalled intent at most once, requests under one
\* key carry one content, and a WhatsApp source is answered by the tool or by
\* the gateway (claimNativeSend, writeNativeSend, finish): SentOnce for any
\* number of calls and gateways.
THEOREM SendsHappenOnce == SendSpec => []SentOnce
<1>1. SendInv => SentOnce
  <2> SUFFICES ASSUME SendInv PROVE SentOnce
    OBVIOUS
  <2> USE DEF SendInv
  <2>1. ASSUME NEW a \in Attempts, NEW b \in Attempts, Out(a), Out(b), SameIntent(a, b)
        PROVE  a = b
    BY <2>1 DEF OneHolder, Holds, SameIntent
  <2>2. ASSUME NEW a \in Attempts, NEW b \in Attempts, Out(a), Out(b), ask[a].key = ask[b].key
        PROVE  ask[a].matter = ask[b].matter
    BY <2>2 DEF Journalled, Holds, EntryOf
  <2>3. channel = "text" => ~ \E c \in Calls : OfTurn(c) /\ Out(c) /\ Out(AutoReply)
    BY DEF ReplyYields
  <2> QED
    BY <2>1, <2>2, <2>3 DEF SentOnce
<1> QED
  BY <1>1, SendInvariant, PTL

-----------------------------------------------------------------------------
(***************************************************************************)
(* The progress card: an invariant of the entry and the effects dispatched.*)
(***************************************************************************)
\* The part of the type invariant the argument needs, without its bounds.
AnEffect == [kind : Kind \cup {"none"}, rev : Nat, terminal : BOOLEAN,
             lookups : Nat, polls : Nat, unknown : BOOLEAN]
AnEntry == [there : BOOLEAN, mode : {"none", "native", "fallback"}, rev : Nat, applied : Nat,
            terminal : BOOLEAN, done : BOOLEAN, pending : AnEffect, stream : BOOLEAN,
            posted : BOOLEAN, cooling : BOOLEAN, retries : Nat]
Dispatched == [kind : Kind, rev : Nat, terminal : BOOLEAN,
               fate : {"flying", "lost", "landed", "failed"}]
Spot == {"idle", "allowed", "looking", "mode", "pick", "dispatch", "asked"}

CardShapes ==
  /\ card \in AnEntry /\ log \in Seq(Dispatched)
  /\ snap \in [Gateways -> AnEntry] /\ place \in [Gateways -> Spot]
  /\ wants \in [Gateways -> Seq(Want)]

\* The effect whose outcome is awaited.
Open(i) == i = Len(log) /\ card.pending # Nothing

\* The pending effect is the last one that was dispatched, its revision is ahead
\* of what is applied, and the card is not done with.
Current ==
  card.pending # Nothing =>
    /\ log # <<>> /\ SameEffect(log[Len(log)], card.pending)
    /\ log[Len(log)].terminal = card.pending.terminal
    /\ card.pending.rev > card.applied /\ ~card.done
    /\ card.pending.kind = "start" => card.mode = "native" /\ ~card.stream
    /\ card.pending.kind \in {"append", "stop"} => card.mode = "native" /\ card.stream
    /\ card.pending.kind = "send" => card.mode = "fallback"

\* A stream the platform does not support: the card is a message from then on.
Unsupported(i) == log[i].kind = "start" /\ log[i].fate = "failed" /\ card.mode = "fallback"

\* The outcome of every other effect is known, and its revision applied.
SettledBefore ==
  \A i \in DOMAIN log : ~Open(i) =>
    /\ log[i].fate \in {"landed", "failed"}
    /\ log[i].rev <= card.applied \/ Unsupported(i)

\* The effects belong to the surface that was chosen, and the entry knows of a
\* card that is there.
Surface ==
  \A i \in DOMAIN log :
    /\ log[i].kind \in {"start", "append", "stop"} => card.mode = "native" \/ Unsupported(i)
    /\ log[i].kind \in {"append", "stop"} => card.stream
    /\ log[i].kind \in {"send", "edit"} => card.mode = "fallback"
    /\ log[i].fate = "landed" /\ ~Open(i) =>
         /\ log[i].kind = "start" => card.stream
         /\ log[i].kind = "send" => card.posted
         /\ log[i].terminal => card.done

\* What NeverReplays says of two effects, whose outcome aside.
Different ==
  \A i, j \in DOMAIN log : i < j =>
    /\ ~SameEffect(log[i], log[j])
    /\ log[i].fate = "landed" =>
         ~log[i].terminal /\ ~({log[i].kind, log[j].kind} \subseteq {"start", "send"})

\* A run works on an entry that is there, and looks for an effect that was dispatched.
Reading ==
  /\ ~card.there => card = Absent
  /\ \A p \in Gateways : place[p] # "idle" => card.there
  /\ \A p \in Gateways : place[p] = "dispatch" \/ snap[p].mode # "none" => card.mode # "none"
  /\ \A p \in Gateways :
       place[p] \in {"looking", "asked"} \/ (place[p] = "allowed" /\ snap[p].pending # Nothing) =>
         \E i \in DOMAIN log : /\ SameEffect(log[i], snap[p].pending)
                               /\ log[i].terminal = snap[p].pending.terminal

CardInv == CardShapes /\ Current /\ SettledBefore /\ Surface /\ Different /\ Reading

\* No entry, and no pending effect, are values of the journal.
LEMMA AbsentIsAnEntry == Absent \in AnEntry /\ Nothing \in AnEffect /\ Absent.mode = "none"
                         /\ Absent.pending = Nothing
  BY DEF Absent, Nothing, AnEntry, AnEffect

\* The outcomes an awaited effect can have.
LEMMA EffectsAreKnown ==
  ASSUME CardInv, NEW x \in AnEffect, NEW i \in DOMAIN log, SameEffect(log[i], x)
  PROVE  /\ Index(x) = i
         /\ log[i] \in Dispatched
         /\ x.kind \in Kind
<1>1. \A j \in DOMAIN log : SameEffect(log[j], x) => j = i
  <2> SUFFICES ASSUME NEW j \in DOMAIN log, SameEffect(log[j], x), j # i
               PROVE  FALSE
    OBVIOUS
  <2>1. i \in Nat /\ j \in Nat
    BY DEF CardInv, CardShapes
  <2>2. SameEffect(log[i], log[j]) /\ SameEffect(log[j], log[i])
    BY DEF SameEffect
  <2> QED
    BY <2>1, <2>2 DEF CardInv, Different
<1>2. log[i] \in Dispatched
  BY DEF CardInv, CardShapes
<1> QED
  BY <1>1, <1>2 DEF Index, Dispatched, SameEffect

\* What is pending was dispatched.
LEMMA PendingIsAnEffect ==
  ASSUME CardInv
  PROVE  card.pending # Nothing <=> card.pending.kind \in Kind
<1>1. ASSUME card.pending # Nothing PROVE card.pending.kind \in Kind
  <2>1. Len(log) \in DOMAIN log /\ SameEffect(log[Len(log)], card.pending)
    BY <1>1 DEF CardInv, CardShapes, Current
  <2>2. log[Len(log)] \in Dispatched
    BY <2>1 DEF CardInv, CardShapes
  <2> QED
    BY <2>1, <2>2 DEF SameEffect, Dispatched
<1>2. Nothing.kind \notin Kind
  BY DEF Nothing, Kind
<1> QED
  BY <1>1, <1>2

\* The entry e is the card's as far as effects are concerned.
Alike(e) ==
  /\ (e.pending # Nothing <=> card.pending # Nothing) /\ SameEffect(e.pending, card.pending)
  /\ e.pending.terminal = card.pending.terminal
  /\ e.mode = card.mode \/ log = <<>>
  /\ card.done => e.done
  /\ e.done => card.done \/ card.pending = Nothing
  /\ e.applied = card.applied
  /\ e.stream = card.stream /\ e.posted = card.posted

Effects == Current /\ SettledBefore /\ Surface /\ Different

\* What holds of the effects reads little of the entry: it outlives what leaves that alone.
LEMMA EffectsKept ==
  ASSUME CardInv, Alike(card'), log' = log
  PROVE  Effects'
<1>1. card'.pending.kind = card.pending.kind /\ card'.pending.rev = card.pending.rev
  BY DEF Alike, SameEffect
<1>2. Current'
  BY <1>1 DEF CardInv, Current, Alike, SameEffect
<1>3. \A i \in DOMAIN log : Open(i)' = Open(i) /\ Unsupported(i)' = Unsupported(i)
  BY DEF Open, Unsupported, Alike
<1>4. SettledBefore'
  BY <1>3 DEF CardInv, SettledBefore, Alike
<1>5. Surface'
  BY <1>3 DEF CardInv, Surface, Alike
<1>6. Different'
  BY DEF CardInv, Different
<1> QED
  BY <1>2, <1>4, <1>5, <1>6 DEF Effects

\* The pending effect i is settled: it has landed or failed, and is applied.
LEMMA SettledNow ==
  ASSUME CardInv, NEW i \in DOMAIN log, i = Len(log), log' = log,
         card.pending # Nothing, card'.pending = Nothing, card'.mode = card.mode,
         log[i].fate \in {"landed", "failed"}, card'.applied = card.pending.rev,
         card \in AnEntry, card' \in AnEntry,
         card.stream => card'.stream, card.posted => card'.posted,
         log[i].fate = "landed" =>
           /\ log[i].kind = "start" => card'.stream
           /\ log[i].kind = "send" => card'.posted
           /\ log[i].terminal => card'.done
  PROVE  Effects'
<1>1. /\ SameEffect(log[i], card.pending) /\ card.pending.rev > card.applied /\ ~card.done
      /\ card.pending.rev \in Nat /\ card.applied \in Nat
  BY DEF CardInv, Current, AnEntry, AnEffect
<1>2. \A k \in DOMAIN log : k # i => ~Open(k) /\ log[k].rev \in Nat
  <2>1. \A k \in DOMAIN log : log[k] \in Dispatched
    BY DEF CardInv, CardShapes
  <2> QED
    BY <2>1 DEF Open, Dispatched
<1>3. \A k \in DOMAIN log : ~Open(k)' /\ Unsupported(k)' = Unsupported(k)
  BY DEF Open, Unsupported
<1>4. Current'
  BY DEF Current
<1>5. SettledBefore'
  <2> SUFFICES ASSUME NEW k \in DOMAIN log
               PROVE  /\ log[k].fate \in {"landed", "failed"}
                      /\ log[k].rev <= card.pending.rev \/ Unsupported(k)
    BY <1>3 DEF SettledBefore
  <2>1. CASE k = i
    BY <1>1, <2>1 DEF SameEffect
  <2>2. CASE k # i
    BY <1>1, <1>2, <2>2 DEF CardInv, SettledBefore
  <2> QED
    BY <2>1, <2>2
<1>6. Surface'
  BY <1>1, <1>2, <1>3 DEF CardInv, Surface
<1>7. Different'
  BY DEF CardInv, Different
<1> QED
  BY <1>4, <1>5, <1>6, <1>7 DEF Effects

\* The platform does not support the pending start: the card becomes a message.
LEMMA UnsupportedNow ==
  ASSUME CardInv, NEW i \in DOMAIN log, i = Len(log), log' = log,
         card.pending # Nothing, card.pending.kind = "start", log[i].fate = "failed",
         card'.pending = Nothing, card'.mode = "fallback", card'.applied = card.applied,
         card'.stream = card.stream, card'.posted = card.posted, card'.done = card.done
  PROVE  Effects'
<1>1. /\ SameEffect(log[i], card.pending) /\ log[i].kind = "start"
      /\ card.mode = "native" /\ ~card.stream /\ ~card.done
  BY DEF CardInv, Current, SameEffect
<1>2. \A k \in DOMAIN log : (k # i => ~Open(k)) /\ ~Open(k)'
  BY DEF Open
<1>3. \A k \in DOMAIN log : log[k].kind = "start" /\ log[k].fate = "failed"
  <2> SUFFICES ASSUME NEW k \in DOMAIN log, k # i
               PROVE  log[k].kind = "start" /\ log[k].fate = "failed"
    BY <1>1
  <2>1. log[k] \in Dispatched
    BY DEF CardInv, CardShapes
  <2>2. log[k].kind = "start"
    BY <1>1, <2>1 DEF CardInv, Surface, Dispatched, Kind
  <2> QED
    BY <1>1, <1>2, <2>2 DEF CardInv, Surface, SettledBefore
<1>4. \A k \in DOMAIN log : Unsupported(k)'
  BY <1>3 DEF Unsupported
<1>5. Current'
  BY DEF Current
<1>6. SettledBefore'
  BY <1>3, <1>4 DEF SettledBefore
<1>7. Surface'
  BY <1>3, <1>4 DEF Surface
<1>8. Different'
  BY DEF CardInv, Different
<1> QED
  BY <1>5, <1>6, <1>7, <1>8 DEF Effects

----------------------------------------------------------------------------
\* An outcome is journalled: x is the effect the run asked about.
LEMMA OutcomeKept ==
  ASSUME CardInv, NEW x \in AnEffect, NEW i \in DOMAIN log, SameEffect(log[i], x),
         log[i].terminal = x.terminal, NEW status \in Status, Says(x, status),
         log' = log, card' = Settled(card, x, status)
  PROVE  /\ card' \in AnEntry /\ Effects'
         /\ card'.there = card.there /\ (card.mode # "none" => card'.mode # "none")
<1> DEFINE hit == SameEffect(card.pending, x) /\ status # "other"
<1>0. card \in AnEntry /\ card.pending \in AnEffect
  BY DEF CardInv, CardShapes, AnEntry
<1>1. Index(x) = i /\ log[i] \in Dispatched /\ x.kind \in Kind
  BY EffectsAreKnown
<1>2. CASE ~hit
  <2>1. card' = card
    BY <1>2 DEF Settled
  <2>2. Alike(card')
    BY <2>1 DEF Alike, SameEffect
  <2> QED
    BY <1>0, <2>1, <2>2, EffectsKept
<1>3. CASE hit
  <2>1. card.pending # Nothing /\ log # <<>> /\ SameEffect(log[Len(log)], card.pending)
    BY <1>1, <1>3, PendingIsAnEffect DEF SameEffect, CardInv, Current
  <2>2. i = Len(log)
    <3>1. Len(log) \in DOMAIN log
      BY <2>1 DEF CardInv, CardShapes
    <3>2. SameEffect(log[Len(log)], x)
      BY <1>3, <2>1 DEF SameEffect
    <3> QED
      BY <1>1, <3>1, <3>2, EffectsAreKnown
  <2>3. CASE status = "succeeded"
    <3>1. card' = Succeeded(card, x) /\ log[i].fate = "landed"
      BY <1>1, <1>3, <2>3 DEF Settled, Says
    <3>2. PICK s \in BOOLEAN, m \in BOOLEAN :
            /\ card' = [card EXCEPT !.stream = s, !.posted = m, !.applied = x.rev,
                                    !.pending = Nothing, !.done = x.terminal]
            /\ card.stream \/ x.kind = "start" => s
            /\ card.posted \/ x.kind = "send" => m
      <4> DEFINE s == card.stream \/ x.kind = "start"
                 m == card.posted \/ x.kind = "send"
      <4>1. s \in BOOLEAN /\ m \in BOOLEAN
        OBVIOUS
      <4>2. card' = [card EXCEPT !.stream = s, !.posted = m, !.applied = x.rev,
                                 !.pending = Nothing, !.done = x.terminal]
        BY <3>1 DEF Succeeded
      <4> QED
        BY <4>1, <4>2
    <3>3. x.rev \in Nat /\ x.terminal \in BOOLEAN
      BY DEF AnEffect
    <3>4. /\ card' \in AnEntry /\ card'.pending = Nothing
          /\ card'.stream = s /\ card'.posted = m
          /\ card'.applied = x.rev /\ card'.done = x.terminal
          /\ card'.mode = card.mode /\ card'.there = card.there
      BY <1>0, <3>2, <3>3, AbsentIsAnEntry DEF AnEntry
    <3>5. /\ x.rev = card.pending.rev /\ log[i].kind = x.kind /\ card.pending # Nothing
          /\ log' = log
      BY <1>3, <2>1 DEF SameEffect
    <3>6. Effects'
      BY <1>0, <2>2, <3>1, <3>2, <3>4, <3>5, SettledNow
    <3> QED
      BY <3>4, <3>6
  <2>4. CASE status \in {"failed", "unsupported", "transient"}
    <3>1. /\ card' = Failed(card, x, status) /\ log[i].fate = "failed"
          /\ status = "unsupported" => x.kind = "start"
      BY <1>1, <1>3, <2>4 DEF Settled, Says
    <3>2. CASE status # "unsupported"
      <4>1. PICK k \in Nat, v \in Nat, over \in BOOLEAN :
              card' = [card EXCEPT !.pending = Nothing, !.applied = x.rev, !.cooling = TRUE,
                                   !.retries = k, !.rev = v, !.done = over]
        <5> DEFINE again == x.terminal /\ status = "transient" /\ card.retries < RetryLimit
                   k == IF again THEN card.retries + 1 ELSE card.retries
                   v == IF again THEN card.rev + 1 ELSE card.rev
                   over == x.terminal /\ ~again
        <5>1. k \in Nat /\ v \in Nat /\ over \in BOOLEAN
          BY <1>0 DEF AnEntry, AnEffect
        <5>2. card' = [card EXCEPT !.pending = Nothing, !.applied = x.rev, !.cooling = TRUE,
                                   !.retries = k, !.rev = v, !.done = over]
          BY <3>1, <3>2 DEF Failed
        <5> QED
          BY <5>1, <5>2
      <4>2. /\ card' \in AnEntry /\ card'.pending = Nothing
            /\ card'.stream = card.stream /\ card'.posted = card.posted
            /\ card'.applied = x.rev /\ card'.mode = card.mode /\ card'.there = card.there
        BY ZenonT(40), <1>0, <4>1, AbsentIsAnEntry DEF AnEntry, AnEffect
      <4>3. x.rev = card.pending.rev /\ log' = log
        BY <1>3 DEF SameEffect
      <4>4. Effects'
        BY <1>0, <2>1, <2>2, <3>1, <4>2, <4>3, SettledNow
      <4> QED
        BY <1>0, <1>1, <1>3, <2>1, <2>2, <3>1, <4>2, <4>4
    <3>3. CASE status = "unsupported"
      <4>1. /\ card' \in AnEntry /\ card'.pending = Nothing /\ card'.mode = "fallback"
            /\ card'.stream = card.stream /\ card'.posted = card.posted
            /\ card'.applied = card.applied /\ card'.done = card.done
            /\ card'.there = card.there
        BY <1>0, <3>1, <3>3, AbsentIsAnEntry DEF Failed, AnEntry
      <4>2. card.pending.kind = "start"
        BY <1>3, <3>1, <3>3 DEF SameEffect
      <4>3. Effects'
        BY <2>1, <2>2, <3>1, <4>1, <4>2, UnsupportedNow
      <4> QED
        BY <4>1, <4>3
    <3> QED
      BY <3>2, <3>3
  <2>5. CASE status \in {"sending", "unknown"}
    <3>1. card' = Uncertain(card, status)
      BY <1>3, <2>5 DEF Settled
    <3>2a. PICK u \in BOOLEAN, n \in Nat :
            card' = [card EXCEPT !.pending = [card.pending EXCEPT !.unknown = u, !.polls = n]]
      <4> DEFINE u == card.pending.unknown \/ status = "unknown"
                 n == IF status = "sending" /\ card.pending.polls < PollLimit
                      THEN card.pending.polls + 1 ELSE card.pending.polls
      <4>1. u \in BOOLEAN /\ n \in Nat
        BY <1>0 DEF AnEffect
      <4>2. card' = [card EXCEPT !.pending = [card.pending EXCEPT !.unknown = u, !.polls = n]]
        <5>1. card' = [card EXCEPT !.pending.unknown = u, !.pending.polls = n]
          BY <3>1 DEF Uncertain
        <5> HIDE DEF u, n
        <5> QED
          BY <1>0, <5>1 DEF AnEntry, AnEffect
      <4> QED
        BY <4>1, <4>2
    <3>2b. PICK e \in AnEffect : e = [card.pending EXCEPT !.unknown = u, !.polls = n]
      <4>1. [card.pending EXCEPT !.unknown = u, !.polls = n] \in AnEffect
        BY <1>0 DEF AnEffect
      <4> QED
        BY <4>1
    <3>2c. /\ e.kind = card.pending.kind /\ e.rev = card.pending.rev
           /\ e.terminal = card.pending.terminal /\ card' = [card EXCEPT !.pending = e]
      BY <1>0, <3>2a, <3>2b DEF AnEffect
    <3>2. /\ card' \in AnEntry /\ card'.there = card.there
          /\ card'.pending.kind = card.pending.kind /\ card'.pending.rev = card.pending.rev
          /\ card'.pending.terminal = card.pending.terminal
          /\ card'.mode = card.mode /\ card'.applied = card.applied /\ card'.done = card.done
          /\ card'.stream = card.stream /\ card'.posted = card.posted
      BY <1>0, <3>2c DEF AnEntry
    <3>3. card'.pending # Nothing
      BY <2>1, <3>2, PendingIsAnEffect DEF Nothing, Kind
    <3> QED
      BY <2>1, <3>2, <3>3, EffectsKept DEF Alike, SameEffect
  <2> QED
    BY <1>3, <2>3, <2>4, <2>5 DEF Status
<1> QED
  BY <1>2, <1>3

----------------------------------------------------------------------------
(* The actions *)

\* A step that touches neither the card nor a run keeps the invariant.
LEMMA QuietKept ==
  ASSUME CardInv, UNCHANGED <<card, log, snap, place>>, wants' \in [Gateways -> Seq(Want)]
  PROVE  CardInv'
<1>1. Alike(card')
  BY DEF Alike, SameEffect
<1>2. CardShapes' /\ Reading'
  BY DEF CardInv, CardShapes, Reading
<1> QED
  BY <1>1, <1>2, EffectsKept DEF CardInv, Effects

\* The run of p moves: the card and the log are as they were.
LEMMA RunKept ==
  ASSUME CardInv, NEW p \in Gateways, NEW s \in Spot, NEW e \in AnEntry,
         UNCHANGED <<card, log>>, wants' \in [Gateways -> Seq(Want)],
         Goto(p, s), snap' = [snap EXCEPT ![p] = e],
         s # "idle" => card.there, s # "dispatch",
         e.mode # "none" => card.mode # "none",
         s \in {"looking", "asked"} \/ (s = "allowed" /\ e.pending # Nothing) =>
           \E i \in DOMAIN log : /\ SameEffect(log[i], e.pending)
                                 /\ log[i].terminal = e.pending.terminal
  PROVE  CardInv'
<1>1. Alike(card')
  BY DEF Alike, SameEffect
<1>2. CardShapes'
  BY DEF CardInv, CardShapes, Goto
<1>3. Reading'
  BY DEF CardInv, CardShapes, Reading, Goto
<1> QED
  BY <1>1, <1>2, <1>3, EffectsKept DEF CardInv, Effects

\* An intent is queued, is taken, or the queue is emptied.
LEMMA WantsKept ==
  ASSUME CardInv, NEW p \in Gateways
  PROVE  /\ \A w \in Want : [wants EXCEPT ![p] = Append(@, w)] \in [Gateways -> Seq(Want)]
         /\ wants[p] # <<>> => /\ Head(wants[p]) \in Want
                               /\ [wants EXCEPT ![p] = Tail(@)] \in [Gateways -> Seq(Want)]
         /\ [wants EXCEPT ![p] = <<>>] \in [Gateways -> Seq(Want)]
         /\ \A w \in Want : [wants EXCEPT ![p] = <<w>>] \in [Gateways -> Seq(Want)]
<1>1. wants \in [Gateways -> Seq(Want)] /\ wants[p] \in Seq(Want)
  BY DEF CardInv, CardShapes
<1>2. \A w \in Want : Append(wants[p], w) \in Seq(Want) /\ <<w>> \in Seq(Want)
  BY <1>1
<1>3. wants[p] # <<>> => Head(wants[p]) \in Want /\ Tail(wants[p]) \in Seq(Want)
  BY <1>1
<1> QED
  BY <1>1, <1>2, <1>3

\* An intent or a timer comes, or a gateway starts or closes (notify, recover, close).
LEMMA QuietStep ==
  ASSUME CardInv, NEW p \in Gateways,
         (\E w \in Want : Notify(p, w)) \/ Unsaved(p) \/ TimerFires(p) \/ Calms
           \/ StartUp(p) \/ ShutDown(p)
  PROVE  CardInv'
<1>0. wants \in [Gateways -> Seq(Want)]
  BY DEF CardInv, CardShapes
<1>1. ASSUME NEW w \in Want, Notify(p, w) PROVE CardInv'
  BY <1>1, WantsKept, QuietKept DEF Notify
<1>2. CASE Unsaved(p)
  BY <1>2, WantsKept, QuietKept DEF Unsaved
<1>3. CASE TimerFires(p)
  BY <1>0, <1>3, QuietKept DEF TimerFires
<1>4. CASE Calms
  BY <1>0, <1>4, QuietKept DEF Calms
<1>5. CASE StartUp(p)
  BY <1>0, <1>5, QuietKept DEF StartUp
<1>6. CASE ShutDown(p)
  <2>1. [terminal |-> FALSE, admit |-> FALSE, differs |-> TRUE] \in Want
    BY DEF Want
  <2>2. wants' \in [Gateways -> Seq(Want)]
    BY <1>0, <1>6, <2>1, WantsKept DEF ShutDown
  <2> QED
    BY <1>6, <2>2, QuietKept DEF ShutDown
<1> QED
  BY <1>1, <1>2, <1>3, <1>4, <1>5, <1>6

\* A run of apply reads the entry.
LEMMA BeginStep ==
  ASSUME CardInv, NEW p \in Gateways, Begin(p)
  PROVE  CardInv'
<1>0. card \in AnEntry /\ wants \in [Gateways -> Seq(Want)]
  BY DEF CardInv, CardShapes
<1> DEFINE goes == HasWork(card) /\ ~HopeLost(card) /\ ~card.cooling
<1>1. CASE goes
  <2>1. Goto(p, "allowed") /\ snap' = [snap EXCEPT ![p] = card] /\ card.there
    BY <1>1 DEF Begin, HasWork
  <2>2. card.pending # Nothing => Len(log) \in DOMAIN log
    BY DEF CardInv, CardShapes, Current
  <2>3. card.pending # Nothing =>
          \E i \in DOMAIN log : /\ SameEffect(log[i], card.pending)
                                /\ log[i].terminal = card.pending.terminal
    BY <2>2 DEF CardInv, Current
  <2> QED
    BY <1>0, <2>1, <2>3, RunKept DEF Begin, Spot
<1>2. CASE ~goes
  <2>1. Goto(p, "idle") /\ snap' = [snap EXCEPT ![p] = Absent]
    BY <1>2 DEF Begin
  <2> QED
    BY <1>0, <2>1, RunKept, AbsentIsAnEntry DEF Begin, Spot
<1> QED
  BY <1>1, <1>2

\* A run ends on what it waits for, or its process does.
LEMMA GivesUpStep ==
  ASSUME CardInv, NEW p \in Gateways, GivesUp(p) \/ Exit(p)
  PROVE  CardInv'
<1>1. wants' \in [Gateways -> Seq(Want)]
  <2>1. wants \in [Gateways -> Seq(Want)] /\ [wants EXCEPT ![p] = <<>>] \in [Gateways -> Seq(Want)]
    BY WantsKept DEF CardInv, CardShapes
  <2> QED
    BY <2>1 DEF GivesUp, Exit
<1>2. /\ Goto(p, "idle") /\ snap' = [snap EXCEPT ![p] = Absent]
      /\ UNCHANGED <<card, log>>
  BY DEF GivesUp, Exit
<1> QED
  BY <1>1, <1>2, RunKept, AbsentIsAnEntry DEF Spot

\* The run decides whether to go on.
LEMMA ChooseModeStep ==
  ASSUME CardInv, NEW p \in Gateways, ChooseMode(p)
  PROVE  CardInv'
<1>0. /\ snap[p] \in AnEntry /\ card.there /\ wants \in [Gateways -> Seq(Want)]
      /\ snap[p].mode # "none" => card.mode # "none"
      /\ snap = [snap EXCEPT ![p] = snap[p]]
  BY DEF CardInv, CardShapes, Reading, ChooseMode
<1>1. CASE Goto(p, "idle") /\ snap' = [snap EXCEPT ![p] = Absent]
  BY <1>0, <1>1, RunKept, AbsentIsAnEntry DEF ChooseMode, Spot
<1>2. CASE Goto(p, "pick") /\ snap' = [snap EXCEPT ![p] = snap[p]]
  BY <1>0, <1>2, RunKept DEF ChooseMode, Spot
<1> QED
  BY <1>1, <1>2 DEF ChooseMode

\* The pause of an entry is over.
LEMMA CoolsDownStep ==
  ASSUME CardInv, CoolsDown
  PROVE  CardInv'
<1>0. card \in AnEntry
  BY DEF CardInv, CardShapes
<1>1. /\ card' \in AnEntry /\ card'.there = card.there /\ card'.mode = card.mode
      /\ card'.applied = card.applied /\ card'.done = card.done
      /\ card'.stream = card.stream /\ card'.posted = card.posted
      /\ card'.pending = card.pending
  BY <1>0 DEF CoolsDown, AnEntry
<1>2. Alike(card')
  BY <1>1 DEF Alike, SameEffect
<1>3. card.there
  BY DEF CardInv, Reading, CoolsDown, Absent
<1>4. CardShapes' /\ Reading'
  BY <1>1, <1>3 DEF CardInv, CardShapes, Reading, CoolsDown
<1> QED
  BY <1>2, <1>4, EffectsKept DEF CardInv, Effects, CoolsDown

\* An intent is saved: the revision it makes is wanted by no effect yet.
LEMMA SaveStep ==
  ASSUME CardInv, NEW p \in Gateways, Save(p)
  PROVE  CardInv'
<1>0. card \in AnEntry /\ (~card.there => card = Absent)
  BY DEF CardInv, CardShapes, Reading
<1>1. PICK w \in Want : card' = Wanted(card, w)
  BY WantsKept DEF Save
<1>2. w.terminal \in BOOLEAN
  BY DEF Want
<1>3. /\ card' \in AnEntry /\ (card.there => card'.there) /\ card'.mode = card.mode
      /\ card'.applied = card.applied /\ card'.done = card.done
      /\ card'.stream = card.stream /\ card'.posted = card.posted
      /\ card'.pending = card.pending
      /\ ~card'.there => card' = card
  <2>1. CASE (~card.there /\ ~w.admit) \/ card.terminal \/ card.done
    BY <1>0, <1>1, <2>1 DEF Wanted
  <2>2. CASE ~((~card.there /\ ~w.admit) \/ card.terminal \/ card.done)
    <3>1. PICK was \in AnEntry, v \in Nat :
            /\ card' = [was EXCEPT !.rev = v, !.terminal = w.terminal]
            /\ was.there /\ was.mode = card.mode /\ was.applied = card.applied
            /\ was.done = card.done /\ was.stream = card.stream /\ was.posted = card.posted
            /\ was.pending = card.pending
      <4> DEFINE was == IF card.there THEN card ELSE [Absent EXCEPT !.there = TRUE, !.rev = 1]
                 new == (card.there /\ w.differs) \/ w.terminal
                 v == IF new THEN was.rev + 1 ELSE was.rev
      <4>1. was \in AnEntry /\ was.there /\ was.rev \in Nat
        BY <1>0, AbsentIsAnEntry DEF AnEntry
      <4>2. /\ was.mode = card.mode /\ was.applied = card.applied
            /\ was.done = card.done /\ was.stream = card.stream /\ was.posted = card.posted
            /\ was.pending = card.pending
        BY <1>0, AbsentIsAnEntry DEF AnEntry
      <4>3. card' = [was EXCEPT !.rev = v, !.terminal = w.terminal]
        BY <1>1, <2>2 DEF Wanted
      <4>4. v \in Nat
        BY <4>1
      <4> HIDE DEF was, v
      <4> QED
        BY <4>1, <4>2, <4>3, <4>4
    <3> QED
      BY <1>2, <3>1 DEF AnEntry
  <2> QED
    BY <2>1, <2>2
<1>4. Alike(card')
  BY <1>3 DEF Alike, SameEffect
<1>5. wants' \in [Gateways -> Seq(Want)] /\ UNCHANGED <<log, snap, place>>
  BY WantsKept DEF Save
<1>6. CardShapes' /\ Reading'
  BY <1>0, <1>3, <1>5 DEF CardInv, CardShapes, Reading
<1> QED
  BY <1>4, <1>5, <1>6, EffectsKept DEF CardInv, Effects

\* The run admits its update, or counts the lookup of a pending effect.
LEMMA ProceedStep ==
  ASSUME CardInv, NEW p \in Gateways, Proceed(p)
  PROVE  CardInv'
<1>0. /\ card \in AnEntry /\ snap[p] \in AnEntry /\ card.there
      /\ wants \in [Gateways -> Seq(Want)] /\ card.pending \in AnEffect
      /\ snap[p].mode # "none" => card.mode # "none"
      /\ snap = [snap EXCEPT ![p] = snap[p]]
  BY DEF CardInv, CardShapes, Reading, Proceed, AnEntry
<1>1. CASE snap[p].pending = Nothing
  BY <1>0, <1>1, RunKept DEF Proceed, Spot
<1>2. CASE snap[p].pending # Nothing
  <2>1. PICK i \in DOMAIN log : /\ SameEffect(log[i], snap[p].pending)
                                /\ log[i].terminal = snap[p].pending.terminal
    BY <1>2 DEF CardInv, Reading, Proceed
  <2>2. log[i] \in Dispatched
    BY DEF CardInv, CardShapes
  <2>3. /\ card' \in AnEntry /\ card'.there /\ card'.mode = card.mode
        /\ card'.applied = card.applied /\ card'.done = card.done
        /\ card'.stream = card.stream /\ card'.posted = card.posted
        /\ SameEffect(card'.pending, card.pending)
        /\ card'.pending.terminal = card.pending.terminal
        /\ card'.pending # Nothing <=> card.pending # Nothing
    <3>1. CASE ~SameEffect(card.pending, snap[p].pending)
      <4>1. card' = card
        BY <1>2, <3>1 DEF Proceed
      <4> QED
        BY <1>0, <4>1 DEF SameEffect
    <3>2. CASE SameEffect(card.pending, snap[p].pending)
      <4>1. card.pending.kind \in Kind
        BY <2>1, <2>2, <3>2 DEF SameEffect, Dispatched
      <4>2. PICK n \in Nat : card' = [card EXCEPT !.pending = [card.pending EXCEPT !.lookups = n]]
        <5> DEFINE n == IF card.pending.lookups < LookupLimit
                        THEN card.pending.lookups + 1 ELSE card.pending.lookups
        <5>1. n \in Nat
          BY <1>0 DEF AnEffect
        <5>2. card' = [card EXCEPT !.pending.lookups = n]
          BY <1>2, <3>2 DEF Proceed
        <5> HIDE DEF n
        <5> QED
          BY <1>0, <5>1, <5>2 DEF AnEntry, AnEffect
      <4>3. [card.pending EXCEPT !.lookups = n] \in AnEffect
        BY <1>0 DEF AnEffect
      <4>4. /\ card'.pending.kind = card.pending.kind /\ card'.pending.rev = card.pending.rev
            /\ card'.pending.terminal = card.pending.terminal
        BY <1>0, <4>2 DEF AnEntry, AnEffect
      <4>5. card'.pending # Nothing /\ card.pending # Nothing
        BY <4>1, <4>4 DEF Nothing, Kind
      <4> QED
        BY <1>0, <4>2, <4>3, <4>4, <4>5 DEF AnEntry, SameEffect
    <3> QED
      BY <3>1, <3>2
  <2>4. Alike(card')
    BY <2>3 DEF Alike
  <2>5. Goto(p, "looking") /\ UNCHANGED <<wants, log, snap>>
    BY <1>2 DEF Proceed
  <2>6. CardShapes'
    BY <2>3, <2>5 DEF CardInv, CardShapes, Goto, Spot
  <2>7. Reading'
    BY <2>1, <2>3, <2>5 DEF CardInv, CardShapes, Reading, Goto
  <2> QED
    BY <2>4, <2>5, <2>6, <2>7, EffectsKept DEF CardInv, Effects
<1> QED
  BY <1>1, <1>2

\* Nothing was dispatched before a surface is chosen.
LEMMA NoSurface == ASSUME CardInv, card.mode = "none" PROVE log = <<>>
<1>1. DOMAIN log = {}
  <2> SUFFICES ASSUME NEW i \in DOMAIN log PROVE FALSE
    OBVIOUS
  <2>1. log[i] \in Dispatched
    BY DEF CardInv, CardShapes
  <2> QED
    BY <2>1 DEF CardInv, Surface, Unsupported, Dispatched, Kind
<1> QED
  BY <1>1 DEF CardInv, CardShapes

\* The surface is chosen, once.
LEMMA PickStep ==
  ASSUME CardInv, NEW p \in Gateways, Pick(p)
  PROVE  CardInv'
<1>0. /\ card \in AnEntry /\ card.there /\ wants' = wants /\ log' = log
      /\ snap[p].mode # "none" => card.mode # "none"
      /\ snap' = [snap EXCEPT ![p] = Absent]
  BY DEF CardInv, CardShapes, Reading, Pick
<1>1. PICK m \in {"none", "native", "fallback"} :
        /\ snap[p].mode = "none" /\ card.mode = "none" => m # "none"
        /\ ~(snap[p].mode = "none" /\ card.mode = "none") => m = card.mode
        /\ LET e == [card EXCEPT !.mode = m]
               stops == e.pending # Nothing \/ e.done \/ ~Behind(e)
               over == ~stops /\ e.terminal /\ ~HasCard(e)
           IN /\ card' = IF over THEN [e EXCEPT !.done = TRUE] ELSE e
              /\ Goto(p, IF stops \/ over THEN "idle" ELSE "dispatch")
  BY <1>0 DEF Pick, AnEntry
<1>2. m # "none" /\ (card.mode # "none" => m = card.mode)
  BY <1>0, <1>1
<1>3. /\ card' \in AnEntry /\ card'.mode = m /\ card'.there
      /\ card'.pending = card.pending /\ card'.applied = card.applied
      /\ card'.stream = card.stream /\ card'.posted = card.posted
      /\ card.done => card'.done
      /\ card'.done => card.done \/ card.pending = Nothing
  BY <1>0, <1>1 DEF AnEntry
<1>4. Alike(card')
  BY <1>2, <1>3, NoSurface DEF Alike, SameEffect
<1>5. \E s \in {"idle", "dispatch"} : Goto(p, s)
  BY <1>1
<1>6. CardShapes'
  BY <1>0, <1>3, <1>5, AbsentIsAnEntry DEF CardInv, CardShapes, Goto, Spot
<1>7. Reading'
  BY <1>0, <1>2, <1>3, <1>5, AbsentIsAnEntry DEF CardInv, CardShapes, Reading, Goto
<1> QED
  BY <1>0, <1>4, <1>6, <1>7, EffectsKept DEF CardInv, Effects

\* The effect is journalled and requested: no earlier one has its kind and revision.
LEMMA DispatchStep ==
  ASSUME CardInv, NEW p \in Gateways, Dispatch(p)
  PROVE  CardInv'
<1>0. /\ card \in AnEntry /\ snap[p] \in AnEntry /\ card.there /\ card.mode # "none"
      /\ wants \in [Gateways -> Seq(Want)] /\ wants' = wants /\ log \in Seq(Dispatched)
      /\ snap[p].mode # "none" => card.mode # "none"
  BY DEF CardInv, CardShapes, Reading, Dispatch
<1>1. CASE card.pending # Nothing \/ card.done \/ ~Behind(card)
  <2>1. Goto(p, "idle") /\ UNCHANGED <<card, snap, log>>
    BY <1>1 DEF Dispatch
  <2>2. snap' = [snap EXCEPT ![p] = snap[p]]
    BY <2>1 DEF CardInv, CardShapes
  <2> QED
    BY <1>0, <2>1, <2>2, RunKept DEF Spot
<1>2. CASE card.pending = Nothing /\ ~card.done /\ Behind(card)
  <2> DEFINE x == [Nothing EXCEPT !.kind = NextKind(card), !.rev = card.rev,
                                  !.terminal = card.terminal]
             d == [kind |-> x.kind, rev |-> x.rev, terminal |-> x.terminal, fate |-> "flying"]
  <2>0. PICK n \in Nat : n = Len(log) + 1
    BY <1>0
  <2>1. /\ x \in AnEffect /\ x.kind = NextKind(card) /\ x.rev = card.rev
        /\ x.terminal = card.terminal /\ x.kind \in Kind
    <3>1. NextKind(card) \in Kind
      BY DEF NextKind, Kind
    <3>2. card.rev \in Nat /\ card.terminal \in BOOLEAN
      BY <1>0 DEF AnEntry
    <3> QED
      BY <3>1, <3>2, AbsentIsAnEntry DEF AnEffect
  <2>2. /\ d \in Dispatched /\ d.kind = NextKind(card) /\ d.rev = card.rev
        /\ d.terminal = card.terminal /\ d.fate = "flying"
    BY <1>0, <2>1 DEF Dispatched, AnEntry
  <2>3. /\ card' = [card EXCEPT !.pending = x] /\ snap' = [snap EXCEPT ![p] = card']
        /\ log' = Append(log, d) /\ Goto(p, "asked")
    BY <1>2 DEF Dispatch
  <2> HIDE DEF x, d
  <2>4. /\ card' \in AnEntry /\ card'.pending = x /\ card'.there /\ card'.mode = card.mode
        /\ card'.applied = card.applied /\ card'.done = card.done
        /\ card'.stream = card.stream /\ card'.posted = card.posted
    BY <1>0, <2>1, <2>3 DEF AnEntry
  <2>5. /\ log' \in Seq(Dispatched) /\ Len(log') = n /\ DOMAIN log' = 1 .. n /\ log'[n] = d
        /\ DOMAIN log = 1 .. Len(log) /\ \A i \in DOMAIN log : log'[i] = log[i] /\ i < n
    BY <1>0, <2>0, <2>2, <2>3
  <2>6. x # Nothing
    BY <2>1 DEF Nothing, Kind
  <2>7. card.rev \in Nat /\ card.applied \in Nat /\ card.rev > card.applied
    BY <1>0, <1>2 DEF AnEntry, Behind
  <2>8. /\ d.kind = "start" => card.mode = "native" /\ ~card.stream
        /\ d.kind \in {"append", "stop"} => card.mode = "native" /\ card.stream
        /\ d.kind = "send" => card.mode = "fallback" /\ ~card.posted
        /\ d.kind = "edit" => card.mode = "fallback" /\ card.posted
    BY <1>0, <2>2 DEF NextKind, AnEntry
  <2>9. Current'
    <3>1. SameEffect(d, x) /\ d.terminal = x.terminal /\ log' # <<>>
      BY <1>0, <2>0, <2>1, <2>2, <2>5 DEF SameEffect
    <3> QED
      BY <1>2, <2>1, <2>2, <2>4, <2>5, <2>7, <2>8, <3>1 DEF Current
  <2>10. \A i \in DOMAIN log : ~Open(i) /\ ~Open(i)' /\ Unsupported(i)' = Unsupported(i)
    BY <1>2, <2>0, <2>4, <2>5 DEF Open, Unsupported
  <2>11. Open(n)'
    BY <2>4, <2>5, <2>6 DEF Open
  <2>12. SettledBefore'
    BY <2>0, <2>4, <2>5, <2>10, <2>11 DEF CardInv, SettledBefore
  <2>13. Surface'
    BY <2>0, <2>2, <2>4, <2>5, <2>8, <2>10, <2>11 DEF CardInv, Surface
  <2>14. ASSUME NEW i \in DOMAIN log
         PROVE  /\ ~SameEffect(log[i], d)
                /\ log[i].fate = "landed" =>
                     ~log[i].terminal /\ ~({log[i].kind, d.kind} \subseteq {"start", "send"})
    <3>0. log[i] \in Dispatched
      BY DEF CardInv, CardShapes
    <3>1. log[i].rev \in Nat
      BY <3>0 DEF Dispatched
    <3>2. ~SameEffect(log[i], d)
      BY <2>2, <2>7, <2>8, <2>10, <3>1 DEF CardInv, SettledBefore, Unsupported, SameEffect
    <3>3. log[i].fate = "landed" => ~log[i].terminal
      BY <1>2, <2>10 DEF CardInv, Surface
    <3>4. log[i].fate = "landed" => ~({log[i].kind, d.kind} \subseteq {"start", "send"})
      BY <2>8, <2>10 DEF CardInv, Surface, Unsupported
    <3> QED
      BY <3>2, <3>3, <3>4
  <2>15. Different'
    <3> SUFFICES ASSUME NEW i \in 1 .. n, NEW j \in 1 .. n, i < j
                 PROVE  /\ ~SameEffect(log'[i], log'[j])
                        /\ log'[i].fate = "landed" =>
                             /\ ~log'[i].terminal
                             /\ ~({log'[i].kind, log'[j].kind} \subseteq {"start", "send"})
      BY <2>5 DEF Different
    <3>1. CASE j = n
      <4>1. i \in DOMAIN log
        BY <2>0, <2>5, <3>1
      <4> QED
        BY <2>5, <2>14, <3>1, <4>1
    <3>2. CASE j # n
      <4>1. i \in DOMAIN log /\ j \in DOMAIN log
        BY <2>0, <2>5, <3>2
      <4> QED
        BY <2>5, <4>1 DEF CardInv, Different
    <3> QED
      BY <3>1, <3>2
  <2>16. CardShapes'
    BY <1>0, <2>3, <2>4, <2>5 DEF CardInv, CardShapes, Goto, Spot
  <2>17. Reading'
    <3>1. /\ SameEffect(log'[n], card'.pending) /\ log'[n].terminal = card'.pending.terminal
          /\ n \in DOMAIN log'
      BY <1>0, <2>0, <2>1, <2>2, <2>4, <2>5 DEF SameEffect
    <3>2. \A q \in Gateways : q # p => place'[q] = place[q] /\ snap'[q] = snap[q]
      BY <2>3 DEF CardInv, CardShapes, Goto
    <3>3. place'[p] = "asked" /\ snap'[p] = card'
      BY <2>3 DEF CardInv, CardShapes, Goto
    <3>4. \A q \in Gateways :
            place'[q] \in {"looking", "asked"}
              \/ (place'[q] = "allowed" /\ snap'[q].pending # Nothing) =>
            \E i \in DOMAIN log' : /\ SameEffect(log'[i], snap'[q].pending)
                                   /\ log'[i].terminal = snap'[q].pending.terminal
      <4>1. TAKE q \in Gateways
      <4>2. CASE q = p
        BY <3>1, <3>3, <4>2
      <4>3. CASE q # p
        <5>1. place[q] \in {"looking", "asked"}
                \/ (place[q] = "allowed" /\ snap[q].pending # Nothing) =>
              \E i \in DOMAIN log : /\ SameEffect(log[i], snap[q].pending)
                                    /\ log[i].terminal = snap[q].pending.terminal
          BY DEF CardInv, Reading
        <5>2. \A i \in DOMAIN log : i \in DOMAIN log' /\ log'[i] = log[i]
          BY <1>0, <2>5
        <5> QED
          BY <3>2, <4>3, <5>1, <5>2
      <4> QED
        BY <4>2, <4>3
    <3> QED
      BY <1>0, <2>4, <3>2, <3>3, <3>4 DEF CardInv, Reading
  <2> QED
    BY <2>9, <2>12, <2>13, <2>15, <2>16, <2>17 DEF CardInv
<1> QED
  BY <1>1, <1>2

\* An outcome reaches the journal, and the run goes where it goes.
LEMMA ResultStep ==
  ASSUME CardInv, NEW p \in Gateways, NEW status \in Status,
         LookedUp(p, status) \/ Answer(p, status)
  PROVE  CardInv'
<1> DEFINE x == snap[p].pending
<1>1. PICK i \in DOMAIN log : SameEffect(log[i], x) /\ log[i].terminal = x.terminal
  BY DEF CardInv, Reading, LookedUp, Answer
<1>2. x \in AnEffect /\ card.there
  BY DEF CardInv, CardShapes, Reading, AnEntry, LookedUp, Answer
<1>3. Says(x, status) /\ card' = Settled(card, x, status) /\ log' = log /\ wants' = wants
  BY DEF LookedUp, Answer
<1>4. /\ card' \in AnEntry /\ Effects' /\ card'.there
      /\ card.mode # "none" => card'.mode # "none"
  BY <1>1, <1>2, <1>3, OutcomeKept
<1>5. /\ \E s \in {"idle", "mode"} : Goto(p, s)
      /\ \E e \in {card', Absent} : snap' = [snap EXCEPT ![p] = e]
  BY DEF LookedUp, Answer
<1>6. CardShapes'
  BY <1>3, <1>4, <1>5, AbsentIsAnEntry DEF CardInv, CardShapes, Goto, Spot
<1>7. Reading'
  BY <1>3, <1>4, <1>5, AbsentIsAnEntry DEF CardInv, CardShapes, Reading, Goto
<1> QED
  BY <1>4, <1>6, <1>7 DEF CardInv, Effects

\* A request lands at the platform, fails, or is lost.
LEMMA ArrivesStep ==
  ASSUME CardInv, NEW i \in DOMAIN log, NEW f \in {"lost", "landed", "failed"}, Arrives(i, f)
  PROVE  CardInv'
<1>1. /\ log \in Seq(Dispatched) /\ log[i] \in Dispatched /\ i \in 1 .. Len(log)
      /\ log' = [log EXCEPT ![i].fate = f] /\ UNCHANGED <<card, snap, place, wants>>
  BY DEF CardInv, CardShapes, Arrives
<1>2. Open(i)
  BY DEF CardInv, SettledBefore, Arrives
<1>3. /\ log' \in Seq(Dispatched) /\ Len(log') = Len(log) /\ DOMAIN log' = DOMAIN log
      /\ \A k \in DOMAIN log : /\ log'[k].kind = log[k].kind /\ log'[k].rev = log[k].rev
                               /\ log'[k].terminal = log[k].terminal
                               /\ k # i => log'[k] = log[k]
  BY SMTT(20), <1>1 DEF Dispatched
<1>4. /\ \A k \in DOMAIN log : Open(k)' = Open(k)
      /\ \A k \in DOMAIN log : k # i => Unsupported(k)' = Unsupported(k)
      /\ \A k, j \in DOMAIN log : SameEffect(log[k], log[j])' = SameEffect(log[k], log[j])
  BY <1>1, <1>3 DEF Open, Unsupported, SameEffect
<1>5. Current'
  BY <1>1, <1>3 DEF CardInv, Current, SameEffect
<1>6. SettledBefore'
  BY <1>1, <1>2, <1>3, <1>4 DEF CardInv, SettledBefore
<1>7. log[i].kind = "start" => card.mode = "native"
  BY <1>2 DEF CardInv, Current, Open, SameEffect
<1>8. Surface'
  BY <1>1, <1>2, <1>3, <1>4, <1>7 DEF CardInv, Surface, Unsupported
<1>9. \A k \in DOMAIN log : k <= i
  BY <1>1, <1>2 DEF Open
<1>10. Different'
  BY <1>1, <1>3, <1>4, <1>9 DEF CardInv, Different
<1>11. CardShapes' /\ Reading'
  BY <1>1, <1>3 DEF CardInv, CardShapes, Reading, SameEffect
<1> QED
  BY <1>5, <1>6, <1>8, <1>10, <1>11 DEF CardInv

\* Every step of the gateways, of the platform and of time keeps the invariant.
LEMMA CardInductive ==
  ASSUME CardInv, CardNext
  PROVE  CardInv'
<1>1. ASSUME NEW p \in Gateways, Apply(p) PROVE CardInv'
  BY <1>1, QuietStep, BeginStep, ProceedStep, ChooseModeStep, PickStep, DispatchStep, ResultStep
  DEF Apply
<1>2. ASSUME NEW p \in Gateways,
             (\E w \in Want : Notify(p, w)) \/ Unsaved(p) \/ StartUp(p) \/ ShutDown(p)
      PROVE  CardInv'
  BY <1>2, QuietStep
<1>3. ASSUME NEW p \in Gateways, Save(p) \/ GivesUp(p) \/ Exit(p) PROVE CardInv'
  BY <1>3, SaveStep, GivesUpStep
<1>4. CASE Calms
  <2>1. wants \in [Gateways -> Seq(Want)]
    BY DEF CardInv, CardShapes
  <2> QED
    BY <1>4, <2>1, QuietKept DEF Calms
<1>5. CASE CoolsDown
  BY <1>5, CoolsDownStep
<1>6. ASSUME NEW i \in DOMAIN log, NEW f \in {"lost", "landed", "failed"}, Arrives(i, f)
      PROVE  CardInv'
  BY <1>6, ArrivesStep
<1> QED
  BY <1>1, <1>2, <1>3, <1>4, <1>5, <1>6 DEF CardNext

\* The inductive invariant of a Slack progress card, for any number of gateways, notifications
\* and retries.
THEOREM CardHolds == CardSpec => []CardInv
<1>1. CardInit => CardInv
  <2> SUFFICES ASSUME CardInit PROVE CardInv
    OBVIOUS
  <2> USE DEF CardInit
  <2>1. CardShapes
    BY AbsentIsAnEntry DEF CardShapes, Spot
  <2>2. Current /\ SettledBefore /\ Surface /\ Different
    BY AbsentIsAnEntry DEF Current, SettledBefore, Surface, Different
  <2>3. Reading
    BY AbsentIsAnEntry DEF Reading
  <2> QED
    BY <2>1, <2>2, <2>3 DEF CardInv
<1>2. CardInv /\ UNCHANGED cardVars => CardInv'
  <2> SUFFICES ASSUME CardInv, UNCHANGED cardVars PROVE CardInv'
    OBVIOUS
  <2> QED
    BY QuietKept DEF cardVars, CardInv, CardShapes
<1>3. CardInv /\ [CardNext]_cardVars => CardInv'
  BY <1>2, CardInductive
<1> QED
  BY <1>1, <1>3, PTL DEF CardSpec

\* No effect reaches the platform twice, none follows one that was final, and a card is made
\* once (apply, settle), whatever is lost, looked up, recovered or restarted.
THEOREM EffectsAreNotReplayed == CardSpec => []NeverReplays
<1>1. CardInv => NeverReplays
  <2> SUFFICES ASSUME CardInv, NEW i \in DOMAIN log, NEW j \in DOMAIN log, i < j
               PROVE  log[i].fate \in {"landed", "failed"}
    BY DEF NeverReplays, CardInv, Different
  <2>1. i # Len(log)
    BY DEF CardInv, CardShapes
  <2> QED
    BY <2>1 DEF CardInv, SettledBefore, Open
<1> QED
  BY <1>1, CardHolds, PTL

=============================================================================
