-------------------------- MODULE EscalationProofs --------------------------
(***************************************************************************)
(* The safety properties of Escalation, proved for any permissions and any *)
(* gateways.  Whether a response may be posted depends on who relays the    *)
(* question, so the inductive invariant follows the question through the    *)
(* prompts: what is asked or in line is relayed, what is relayed is relayed *)
(* by the one gateway that admits work, and what is relayed was not posted. *)
(***************************************************************************)
EXTENDS Escalation, TLAPS

\* A record says "responding" exactly while the outcome is unknown.
Sure == \A q \in Perms : record[q] = "responding" <=> q \in unsure

\* One gateway admits work at a time.
OneUp == \A p, o \in Procs : up[p] = "up" /\ up[o] = "up" => p = o

\* Only an admitting gateway relays, and no question that is over.
RelayOpen ==
  \A p \in Procs, q \in Perms : chain[p][q] = "relay" =>
    up[p] = "up" /\ q \notin unsure /\ q \notin resolved[p]

\* While a gateway that no longer admits work owns the turn, nobody relays.
HolderAdmits ==
  \A o \in Procs : holder = o /\ up[o] # "up" =>
    \A p \in Procs, q \in Perms : chain[p][q] # "relay"

\* The current ask and those in line are relayed questions, each once.
Lined(p) ==
  /\ waiting[p] => who[p] # NoPerm
  /\ who[p] # NoPerm => chain[p][who[p]] = "relay"
  /\ \A i \in DOMAIN line[p] :
       chain[p][line[p][i]] = "relay" /\ line[p][i] # who[p]
  /\ \A i, j \in DOMAIN line[p] : line[p][i] = line[p][j] => i = j

\* An approval that waits for its prompt came from the person, to this waiter.
Kept(p) ==
  /\ text[p] = "approve" => who[p] \in given
  /\ waiting[p] => text[p] = "none"

IInv ==
  /\ TypeOK /\ Sure /\ OneUp /\ RelayOpen /\ HolderAdmits
  /\ \A p \in Procs : Lined(p) /\ Kept(p)
  /\ ApprovalWasGiven /\ NeverReplayed

\* The prompts as one part of the type, and their variables of one gateway.
PromptTypeOK ==
  /\ line    \in [Procs -> Seq(Perms)]
  /\ who     \in [Procs -> Perms \cup {NoPerm}]
  /\ sending \in [Procs -> BOOLEAN]
  /\ waiting \in [Procs -> BOOLEAN]
  /\ text    \in [Procs -> Verdict \cup {"none"}]

\* After a step in which the ask of q leaves the prompts of p: what is asked or
\* in line was relayed before and is not q, and no answer is kept for another
\* question than the one it was given to.
Moved(p, q) ==
  /\ PromptTypeOK'
  /\ \A o \in Procs \ {p} :
       /\ line'[o] = line[o] /\ who'[o] = who[o]
       /\ waiting'[o] = waiting[o] /\ text'[o] = text[o]
  /\ waiting'[p] => who'[p] # NoPerm
  /\ who'[p] # NoPerm => who'[p] # q /\ chain[p][who'[p]] = "relay"
  /\ \A i \in DOMAIN line'[p] :
       /\ line'[p][i] # q /\ line'[p][i] # who'[p]
       /\ chain[p][line'[p][i]] = "relay"
  /\ \A i, j \in DOMAIN line'[p] : line'[p][i] = line'[p][j] => i = j
  /\ text'[p] = "approve" => who'[p] \in given
  /\ waiting'[p] => text'[p] = "none"

\* The part of the invariant that speaks of records, responses and chains.
Book ==
  /\ record   \in [Perms -> {"none", "pending", "relayed", "responding"}]
  /\ response \in [Perms -> Verdict \cup {"none"}]
  /\ chain    \in [Procs -> [Perms -> {"none", "relay", "post", "retire"}]]
  /\ wire     \subseteq Perms
  /\ unsure   \subseteq Perms
  /\ \A q \in Perms : record[q] = "responding" <=> response[q] # "none"
  /\ Sure /\ RelayOpen /\ HolderAdmits /\ ApprovalWasGiven /\ NeverReplayed

----------------------------------------------------------------------------
(***************************************************************************)
(* Lemmas about the prompts.                                               *)
(***************************************************************************)

\* Removing one entry leaves the others in their order.
LEMMA RemoveAtKeeps ==
  ASSUME NEW S, NEW l \in Seq(S), NEW i \in DOMAIN l
  PROVE  /\ RemoveAt(l, i) \in Seq(S)
         /\ DOMAIN RemoveAt(l, i) = 1..(Len(l) - 1)
         /\ \A k \in 1..(Len(l) - 1) :
              RemoveAt(l, i)[k] = IF k < i THEN l[k] ELSE l[k + 1]
<1> DEFINE a == SubSeq(l, 1, i - 1)
           b == SubSeq(l, i + 1, Len(l))
<1>1. i \in 1..Len(l) /\ Len(l) \in Nat
  OBVIOUS
<1>2. /\ a \in Seq(S) /\ Len(a) = i - 1
      /\ \A k \in 1..(i - 1) : a[k] = l[k]
  BY <1>1
<1>3. /\ b \in Seq(S) /\ Len(b) = Len(l) - i
      /\ \A k \in 1..(Len(l) - i) : b[k] = l[k + i]
  BY <1>1
<1>4. RemoveAt(l, i) = a \o b
  BY DEF RemoveAt
<1> HIDE DEF a, b
<1>5. /\ a \o b \in Seq(S)
      /\ Len(a \o b) = Len(l) - 1
      /\ \A k \in 1..Len(l) - 1 :
           (a \o b)[k] = IF k < i THEN a[k] ELSE b[k - (i - 1)]
  BY <1>1, <1>2, <1>3
<1>6. ASSUME NEW k \in 1..(Len(l) - 1)
      PROVE  (a \o b)[k] = IF k < i THEN l[k] ELSE l[k + 1]
  <2>1. CASE k < i
    BY <1>1, <1>2, <1>5, <2>1
  <2>2. CASE ~(k < i)
    <3>1. k - (i - 1) \in 1..(Len(l) - i) /\ (k - (i - 1)) + i = k + 1
      BY <1>1, <2>2
    <3>2. b[k - (i - 1)] = l[k + 1]
      BY <1>3, <3>1
    <3> QED
      BY <1>5, <2>2, <3>2
  <2> QED
    BY <2>1, <2>2
<1> QED
  BY <1>4, <1>5, <1>6

\* The line without one entry is a line of relayed questions, and the entry is
\* gone from it.
LEMMA LineShrinks ==
  ASSUME PromptTypeOK, NEW p \in Procs, Lined(p), NEW i \in DOMAIN line[p],
         NEW l, l = RemoveAt(line[p], i)
  PROVE  /\ l \in Seq(Perms)
         /\ \A k \in DOMAIN l : /\ l[k] # line[p][i] /\ l[k] # who[p]
                                /\ chain[p][l[k]] = "relay"
         /\ \A k, m \in DOMAIN l : l[k] = l[m] => k = m
<1>1. line[p] \in Seq(Perms)
  BY DEF PromptTypeOK
<1>2. /\ l \in Seq(Perms)
      /\ DOMAIN l = 1..(Len(line[p]) - 1)
      /\ \A k \in 1..(Len(line[p]) - 1) :
           l[k] = IF k < i THEN line[p][k] ELSE line[p][k + 1]
  BY <1>1, RemoveAtKeeps
<1>3. DOMAIN line[p] = 1..Len(line[p]) /\ Len(line[p]) \in Nat
  BY <1>1
<1>4. ASSUME NEW k \in DOMAIN l
      PROVE  \E n \in DOMAIN line[p] :
               /\ l[k] = line[p][n] /\ n # i
               /\ n = IF k < i THEN k ELSE k + 1
  BY <1>2, <1>3
<1>5. ASSUME NEW k \in DOMAIN l
      PROVE  /\ l[k] # line[p][i] /\ l[k] # who[p]
             /\ chain[p][l[k]] = "relay"
  BY <1>4 DEF Lined
<1>6. ASSUME NEW k \in DOMAIN l, NEW m \in DOMAIN l, l[k] = l[m]
      PROVE  k = m
  <2>1. PICK n \in DOMAIN line[p] : l[k] = line[p][n] /\ n = IF k < i THEN k ELSE k + 1
    BY <1>4
  <2>2. PICK j \in DOMAIN line[p] : l[m] = line[p][j] /\ j = IF m < i THEN m ELSE m + 1
    BY <1>4
  <2>3. n = j
    BY <1>6, <2>1, <2>2 DEF Lined
  <2>4. k \in Nat /\ m \in Nat /\ i \in Nat
    BY <1>2, <1>3
  <2> QED
    BY <2>1, <2>2, <2>3, <2>4
<1> QED
  BY <1>2, <1>5, <1>6

\* When the next ask begins, or nobody's, the one before has left the prompts.
LEMMA PromoteMoves ==
  ASSUME PromptTypeOK, NEW p \in Procs, Lined(p), Promote(p)
  PROVE  Moved(p, who[p])
<1>1. line[p] \in Seq(Perms)
  BY DEF PromptTypeOK
<1>2. CASE Nobody(p) /\ UNCHANGED line
  <2>1. /\ who' = [who EXCEPT ![p] = NoPerm] /\ waiting' = [waiting EXCEPT ![p] = FALSE]
        /\ sending' = [sending EXCEPT ![p] = FALSE]
        /\ text' = [text EXCEPT ![p] = "none"] /\ line' = line
    BY <1>2 DEF Nobody
  <2>2. ASSUME NEW i \in DOMAIN line[p]
        PROVE  line[p][i] \in Perms /\ chain[p][line[p][i]] = "relay" /\ line[p][i] # who[p]
    BY <1>1 DEF Lined
  <2>3. PromptTypeOK'
    BY <2>1 DEF PromptTypeOK
  <2>4. who'[p] = NoPerm /\ waiting'[p] = FALSE /\ text'[p] = "none"
    BY <2>1 DEF PromptTypeOK
  <2> QED
    BY <2>1, <2>2, <2>3, <2>4, PermAssumption DEF Moved, PromptTypeOK, Lined
<1>3. ASSUME NEW i \in DOMAIN line[p], Begin(p, line[p][i]),
             line' = [line EXCEPT ![p] = RemoveAt(line[p], i)]
      PROVE  Moved(p, who[p])
  <2> DEFINE l == RemoveAt(line[p], i)
  <2>1. /\ l \in Seq(Perms)
        /\ \A k \in DOMAIN l : /\ l[k] # line[p][i] /\ l[k] # who[p]
                               /\ chain[p][l[k]] = "relay"
        /\ \A k, m \in DOMAIN l : l[k] = l[m] => k = m
    BY LineShrinks
  <2> HIDE DEF l
  <2>2. /\ line[p][i] \in Perms /\ line[p][i] # NoPerm
        /\ chain[p][line[p][i]] = "relay" /\ line[p][i] # who[p]
    BY <1>1, PermAssumption DEF Lined
  <2>3. /\ who' = [who EXCEPT ![p] = line[p][i]] /\ waiting' = [waiting EXCEPT ![p] = TRUE]
        /\ sending' = [sending EXCEPT ![p] = TRUE]
        /\ text' = [text EXCEPT ![p] = "none"] /\ line' = [line EXCEPT ![p] = l]
    BY <1>3 DEF Begin, l
  <2>4. PromptTypeOK'
    BY <2>1, <2>2, <2>3 DEF PromptTypeOK
  <2>5. who'[p] = line[p][i] /\ text'[p] = "none" /\ line'[p] = l
    BY <2>3 DEF PromptTypeOK
  <2> QED
    BY <2>1, <2>2, <2>3, <2>4, <2>5 DEF Moved, PromptTypeOK
<1> QED
  BY <1>2, <1>3 DEF Promote

\* An ask that is given up has left the prompts.
LEMMA DismissMoves ==
  ASSUME PromptTypeOK, NEW p \in Procs, Lined(p), Kept(p), NEW q \in Perms, Dismiss(p, q)
  PROVE  Moved(p, q)
<1>1. line[p] \in Seq(Perms) /\ q # NoPerm
  BY PermAssumption DEF PromptTypeOK
<1>2. CASE who[p] = q /\ Promote(p)
  BY <1>2, PromoteMoves
<1>3. CASE /\ who[p] = q
           /\ who' = [who EXCEPT ![p] = NoPerm] /\ waiting' = [waiting EXCEPT ![p] = FALSE]
           /\ text' = [text EXCEPT ![p] = "none"] /\ UNCHANGED <<line, sending>>
  <2>1. PromptTypeOK'
    BY <1>3 DEF PromptTypeOK
  <2>2. who'[p] = NoPerm /\ waiting'[p] = FALSE /\ text'[p] = "none"
    BY <1>3 DEF PromptTypeOK
  <2>3. ASSUME NEW i \in DOMAIN line[p]
        PROVE  line[p][i] \in Perms /\ chain[p][line[p][i]] = "relay" /\ line[p][i] # q
    BY <1>1, <1>3 DEF Lined
  <2> QED
    BY <1>3, <2>1, <2>2, <2>3, PermAssumption DEF Moved, PromptTypeOK, Lined
<1>4. ASSUME NEW i \in DOMAIN line[p], line[p][i] = q,
             line' = [line EXCEPT ![p] = RemoveAt(line[p], i)],
             UNCHANGED <<who, sending, waiting, text>>
      PROVE  Moved(p, q)
  <2> DEFINE l == RemoveAt(line[p], i)
  <2>0. /\ l \in Seq(Perms)
        /\ \A k \in DOMAIN l : /\ l[k] # line[p][i] /\ l[k] # who[p]
                               /\ chain[p][l[k]] = "relay"
        /\ \A k, m \in DOMAIN l : l[k] = l[m] => k = m
    BY LineShrinks
  <2> HIDE DEF l
  <2>2. line' = [line EXCEPT ![p] = l]
    BY <1>4 DEF l
  <2>1. /\ l \in Seq(Perms)
        /\ \A k \in DOMAIN l : /\ l[k] # q /\ l[k] # who[p]
                               /\ chain[p][l[k]] = "relay"
        /\ \A k, m \in DOMAIN l : l[k] = l[m] => k = m
    BY <1>4, <2>0
  <2>3. PromptTypeOK' /\ line'[p] = l
    BY <1>4, <2>1, <2>2 DEF PromptTypeOK
  <2>4. who[p] # q
    BY <1>4 DEF Lined
  <2> QED
    BY <1>4, <2>1, <2>2, <2>3, <2>4 DEF Moved, PromptTypeOK, Lined, Kept
<1> QED
  BY <1>2, <1>3, <1>4 DEF Dismiss

\* The invariant of the prompts survives a step in which the ask of q leaves
\* them and nothing but q may stop being relayed.
LEMMA MovedKeeps ==
  ASSUME NEW p \in Procs, NEW q, Moved(p, q), TypeOK,
         \A o \in Procs : Lined(o) /\ Kept(o),
         \A o \in Procs, x \in Perms : o # p \/ x # q => chain'[o][x] = chain[o][x],
         given \subseteq given'
  PROVE  \A o \in Procs : Lined(o)' /\ Kept(o)'
<1>1. ASSUME NEW o \in Procs, o # p
      PROVE  Lined(o)' /\ Kept(o)'
  <2>1. /\ line'[o] = line[o] /\ who'[o] = who[o]
        /\ waiting'[o] = waiting[o] /\ text'[o] = text[o]
    BY <1>1 DEF Moved
  <2>2. line[o] \in Seq(Perms) /\ who[o] \in Perms \cup {NoPerm}
    BY DEF TypeOK
  <2>3. \A x \in Perms : chain'[o][x] = chain[o][x]
    BY <1>1
  <2>4. \A i \in DOMAIN line[o] : line[o][i] \in Perms
    BY <2>2
  <2> QED
    BY <2>1, <2>2, <2>3, <2>4 DEF Lined, Kept
<1>2. Lined(p)' /\ Kept(p)'
  <2>1. line'[p] \in Seq(Perms) /\ who'[p] \in Perms \cup {NoPerm}
    BY DEF Moved, PromptTypeOK
  <2>2. \A i \in DOMAIN line'[p] : line'[p][i] \in Perms
    BY <2>1
  <2> QED
    BY <2>1, <2>2 DEF Moved, Lined, Kept
<1> QED
  BY <1>1, <1>2

\* Nor is it disturbed by a step that leaves the prompts and the relays alone.
LEMMA StillLined ==
  ASSUME TypeOK, \A o \in Procs : Lined(o) /\ Kept(o), UNCHANGED <<prompt, given>>,
         \A o \in Procs, x \in Perms : chain[o][x] = "relay" => chain'[o][x] = "relay"
  PROVE  \A o \in Procs : Lined(o)' /\ Kept(o)'
<1> TAKE o \in Procs
<1>1. line' = line /\ who' = who /\ waiting' = waiting /\ text' = text /\ given' = given
  BY DEF prompt
<1>2. line[o] \in Seq(Perms) /\ who[o] \in Perms \cup {NoPerm}
  BY DEF TypeOK
<1>3. \A i \in DOMAIN line[o] : line[o][i] \in Perms
  BY <1>2
<1> QED
  BY <1>1, <1>2, <1>3 DEF Lined, Kept

\* A question joins the prompts once it is relayed.
LEMMA JoinKeeps ==
  ASSUME TypeOK, NEW p \in Procs, NEW q \in Perms,
         \A o \in Procs : Lined(o) /\ Kept(o),
         chain[p][q] = "none", chain' = [chain EXCEPT ![p][q] = "relay"],
         Join(p, q), UNCHANGED given
  PROVE  PromptTypeOK' /\ \A o \in Procs : Lined(o)' /\ Kept(o)'
<1>1. /\ \A o \in Procs : line[o] \in Seq(Perms) /\ who[o] \in Perms \cup {NoPerm}
      /\ chain \in [Procs -> [Perms -> {"none", "relay", "post", "retire"}]]
      /\ PromptTypeOK
  BY DEF TypeOK, PromptTypeOK
<1>2. \A o \in Procs, x \in Perms :
        chain'[o][x] = IF o = p /\ x = q THEN "relay" ELSE chain[o][x]
  BY <1>1
<1>3. \A o \in Procs : \A i \in DOMAIN line[o] : line[o][i] \in Perms
  BY <1>1
<1>4. /\ who[p] # q /\ q # NoPerm
      /\ \A i \in DOMAIN line[p] : line[p][i] # q
  BY <1>1, PermAssumption DEF Lined
<1>5. CASE who[p] = NoPerm /\ Begin(p, q) /\ UNCHANGED line
  <2>1. PromptTypeOK'
    BY <1>1, <1>5 DEF PromptTypeOK, Begin
  <2>2. /\ \A o \in Procs : line'[o] = line[o]
        /\ \A o \in Procs \ {p} : who'[o] = who[o] /\ waiting'[o] = waiting[o] /\ text'[o] = text[o]
        /\ who'[p] = q /\ text'[p] = "none"
    BY <1>1, <1>5 DEF PromptTypeOK, Begin
  <2> QED
    BY <1>1, <1>2, <1>3, <1>4, <2>1, <2>2 DEF Lined, Kept
<1>6. CASE /\ line' = [line EXCEPT ![p] = Append(@, q)]
           /\ UNCHANGED <<who, sending, waiting, text>>
  <2>1. PromptTypeOK'
    BY <1>1, <1>6 DEF PromptTypeOK
  <2>2. /\ \A o \in Procs \ {p} : line'[o] = line[o]
        /\ line'[p] = Append(line[p], q)
    BY <1>1, <1>6 DEF PromptTypeOK
  <2>3. ASSUME NEW o \in Procs, o # p
        PROVE  Lined(o)' /\ Kept(o)'
    BY <1>1, <1>2, <1>3, <1>6, <2>2, <2>3 DEF Lined, Kept
  <2>4. /\ DOMAIN line'[p] = 1..(Len(line[p]) + 1) /\ DOMAIN line[p] = 1..Len(line[p])
        /\ Len(line[p]) \in Nat
        /\ \A i \in DOMAIN line'[p] :
             line'[p][i] = IF i = Len(line[p]) + 1 THEN q ELSE line[p][i]
    BY <1>1, <2>2
  <2>5. Kept(p)'
    BY <1>6 DEF Kept
  <2>6. Lined(p)'
    BY <1>1, <1>2, <1>3, <1>4, <1>6, <2>4 DEF Lined
  <2> QED
    BY <2>1, <2>3, <2>5, <2>6
<1> QED
  BY <1>5, <1>6 DEF Join

----------------------------------------------------------------------------
(***************************************************************************)
(* Lemmas about records and responses.                                     *)
(***************************************************************************)

\* Records, responses and chains as a part of the invariant.
LEMMA BookHolds == ASSUME IInv PROVE Book
  BY DEF IInv, TypeOK, Book

\* The parts make up the invariant.
LEMMA PartsSuffice ==
  ASSUME TypeOK', OneUp', Book', \A o \in Procs : Lined(o)' /\ Kept(o)'
  PROVE  IInv'
  BY DEF IInv, Book

\* A step that touches no record, response, chain or prompt is harmless.
LEMMA QuietKeeps ==
  ASSUME IInv, TypeOK',
         UNCHANGED <<holder, record, response, up, resolved, chain, prompt, past>>
  PROVE  IInv'
<1>1. /\ UNCHANGED <<holder, record, response, up, resolved, chain, line, who>>
      /\ UNCHANGED <<waiting, text, unsure, replayed, given>>
  BY DEF prompt, past
<1>2. Sure' /\ OneUp' /\ RelayOpen' /\ HolderAdmits' /\ ApprovalWasGiven' /\ NeverReplayed'
  BY <1>1 DEF IInv, Sure, OneUp, RelayOpen, HolderAdmits, ApprovalWasGiven, NeverReplayed
<1>3. \A o \in Procs : Lined(o)' /\ Kept(o)'
  BY <1>1 DEF IInv, Lined, Kept
<1> QED
  BY <1>2, <1>3 DEF IInv

\* A response may be posted by the owner of the turn if none is unsure, since
\* nobody else relays then.
LEMMA PostKeeps ==
  ASSUME IInv, NEW p \in Procs, NEW q \in Perms, NEW r \in Verdict,
         NEW w \in {"post", "retire"}, Post(p, q, r, w),
         holder = p, record[q] # "responding",
         r = "approve" => q \in given', given \subseteq given',
         UNCHANGED <<holder, up, resolved>>
  PROVE  Book'
<1>1. Book
  BY BookHolds
<1>2. /\ record' = [record EXCEPT ![q] = "responding"]
      /\ response' = [response EXCEPT ![q] = r]
      /\ wire' = wire \cup {q} /\ unsure' = unsure \cup {q}
      /\ replayed' = replayed \cup (unsure \cap {q})
      /\ chain' = [chain EXCEPT ![p][q] = w]
  BY DEF Post, Await
<1>3. r # "none"
  BY DEF Verdict
<1>4. /\ record' \in [Perms -> {"none", "pending", "relayed", "responding"}]
      /\ response' \in [Perms -> Verdict \cup {"none"}]
      /\ \A x \in Perms : record'[x] = IF x = q THEN "responding" ELSE record[x]
      /\ \A x \in Perms : response'[x] = IF x = q THEN r ELSE response[x]
  BY <1>1, <1>2 DEF Book
<1>5. /\ chain' \in [Procs -> [Perms -> {"none", "relay", "post", "retire"}]]
      /\ \A o \in Procs, x \in Perms :
           chain'[o][x] = IF o = p /\ x = q THEN w ELSE chain[o][x]
  BY <1>1, <1>2 DEF Book
<1>6. q \notin unsure
  BY <1>1 DEF Book, Sure
<1>7. ASSUME NEW o \in Procs, chain'[o][q] = "relay"
      PROVE  FALSE
  <2>1. o # p /\ chain[o][q] = "relay"
    BY <1>5, <1>7
  <2>2. up[o] = "up"
    BY <1>1, <2>1 DEF Book, RelayOpen
  <2>3. CASE up[p] = "up"
    BY <2>1, <2>2, <2>3 DEF IInv, OneUp
  <2>4. CASE up[p] # "up"
    BY <2>1, <2>4 DEF IInv, HolderAdmits
  <2> QED
    BY <2>3, <2>4
<1>8. Sure'
  BY <1>1, <1>2, <1>4 DEF Book, Sure
<1>9. RelayOpen'
  <2>1. ASSUME NEW o \in Procs, NEW x \in Perms, chain'[o][x] = "relay"
        PROVE  up[o] = "up" /\ x \notin unsure' /\ x \notin resolved[o]
    <3>1. x # q
      BY <1>7, <2>1
    <3>2. chain[o][x] = "relay"
      BY <1>5, <2>1, <3>1
    <3> QED
      BY <1>1, <1>2, <3>1, <3>2 DEF Book, RelayOpen
  <2> QED
    BY <2>1 DEF RelayOpen
<1>10. HolderAdmits'
  BY <1>1, <1>5 DEF Book, HolderAdmits
<1>11. ApprovalWasGiven'
  BY <1>1, <1>4 DEF Book, ApprovalWasGiven
<1>12. NeverReplayed'
  BY <1>1, <1>2, <1>6 DEF Book, NeverReplayed
<1>13. wire' \subseteq Perms /\ unsure' \subseteq Perms
  BY <1>1, <1>2 DEF Book
<1>14. \A x \in Perms : record'[x] = "responding" <=> response'[x] # "none"
  BY <1>1, <1>3, <1>4 DEF Book
<1> QED
  BY <1>4, <1>5, <1>8, <1>9, <1>10, <1>11, <1>12, <1>13, <1>14 DEF Book

\* A relay, or the wait for a response, may end.
LEMMA WithdrawKeeps ==
  ASSUME IInv,
         UNCHANGED <<holder, record, response, up, resolved, wire, unsure, replayed>>,
         given \subseteq given',
         chain' \in [Procs -> [Perms -> {"none", "relay", "post", "retire"}]],
         \A o \in Procs, x \in Perms : chain'[o][x] = "relay" => chain[o][x] = "relay"
  PROVE  Book'
<1>1. Book
  BY BookHolds
<1>2. Sure' /\ RelayOpen' /\ HolderAdmits' /\ ApprovalWasGiven' /\ NeverReplayed'
  BY <1>1 DEF Book, Sure, RelayOpen, HolderAdmits, ApprovalWasGiven, NeverReplayed
<1> QED
  BY <1>1, <1>2 DEF Book

\* A record may go once nobody but the caller relays the question for it.
LEMMA RemoveKeeps ==
  ASSUME IInv, NEW q \in Perms, RemoveRecord(q),
         UNCHANGED <<holder, up, wire, replayed, given>>,
         chain' \in [Procs -> [Perms -> {"none", "relay", "post", "retire"}]],
         \A o \in Procs, x \in Perms : chain'[o][x] = "relay" =>
           chain[o][x] = "relay" /\ (x \in resolved'[o] => x \in resolved[o])
  PROVE  Book'
<1>1. Book
  BY BookHolds
<1>2. /\ record' = [record EXCEPT ![q] = "none"]
      /\ response' = [response EXCEPT ![q] = "none"]
      /\ unsure' = unsure \ {q}
  BY DEF RemoveRecord
<1>3. /\ record' \in [Perms -> {"none", "pending", "relayed", "responding"}]
      /\ response' \in [Perms -> Verdict \cup {"none"}]
      /\ \A x \in Perms : record'[x] = IF x = q THEN "none" ELSE record[x]
      /\ \A x \in Perms : response'[x] = IF x = q THEN "none" ELSE response[x]
  BY <1>1, <1>2 DEF Book
<1>4. Sure' /\ ApprovalWasGiven'
  BY <1>1, <1>2, <1>3 DEF Book, Sure, ApprovalWasGiven
<1>5. RelayOpen' /\ HolderAdmits' /\ NeverReplayed'
  BY <1>1, <1>2 DEF Book, RelayOpen, HolderAdmits, NeverReplayed
<1>6. \A x \in Perms : record'[x] = "responding" <=> response'[x] # "none"
  BY <1>1, <1>3 DEF Book
<1> QED
  BY <1>1, <1>2, <1>3, <1>4, <1>5, <1>6 DEF Book

\* What a relayed ask returns, or the error it ends with, keeps the invariant:
\* an approval must have been given to it.
LEMMA RespondKeeps ==
  ASSUME IInv, NEW p \in Procs, NEW q \in Perms, NEW r \in Verdict,
         NEW w \in {"post", "retire"}, Respond(p, q, r, w), Moved(p, q),
         chain[p][q] = "relay",
         r = "approve" => q \in given', given \subseteq given', given' \subseteq Perms,
         UNCHANGED <<native, holder, up, feed, adm, resolved>>
  PROVE  IInv'
<1>1. TypeOK /\ Book /\ q \notin unsure /\ record[q] # "responding"
  BY BookHolds DEF IInv, Sure, RelayOpen
<1>2. Post(p, q, r, w) \/ Await(p, q, "none")
  BY DEF Respond
<1>3. /\ chain' \in [Procs -> [Perms -> {"none", "relay", "post", "retire"}]]
      /\ \A o \in Procs, x \in Perms : o # p \/ x # q => chain'[o][x] = chain[o][x]
      /\ chain'[p][q] # "relay"
  BY <1>1, <1>2 DEF Book, Post, Await
<1>4. Book'
  <2>1. CASE /\ Await(p, q, "none")
             /\ UNCHANGED <<record, response, wire, unsure, replayed>>
    <3>1. UNCHANGED <<holder, record, response, up, resolved, wire, unsure, replayed>>
      BY <2>1
    <3>2. \A o \in Procs, x \in Perms : chain'[o][x] = "relay" => chain[o][x] = "relay"
      BY <1>3
    <3> QED
      BY <1>3, <3>1, <3>2, WithdrawKeeps
  <2>2. CASE ~Withdrawn(p, q) /\ Post(p, q, r, w)
    <3>1. holder = p
      BY <2>2 DEF Withdrawn
    <3>2. UNCHANGED <<holder, up, resolved>>
      OBVIOUS
    <3> QED
      BY <1>1, <2>2, <3>1, <3>2, PostKeeps
  <2> QED
    BY <2>1, <2>2 DEF Respond
<1>5. \A o \in Procs : Lined(o)' /\ Kept(o)'
  BY <1>1, <1>3, MovedKeeps DEF IInv
<1>6. /\ cut' \in [Procs -> SUBSET Perms] /\ late' \subseteq Perms
      /\ replayed' \subseteq Perms
  BY <1>1, <1>2, <1>4 DEF TypeOK, Respond, Book, NeverReplayed
<1>7. TypeOK'
  BY <1>1, <1>4, <1>6 DEF TypeOK, Book, Moved, PromptTypeOK, feed
<1>8. OneUp'
  BY DEF IInv, OneUp
<1> QED
  BY <1>4, <1>5, <1>7, <1>8, PartsSuffice

----------------------------------------------------------------------------
(***************************************************************************)
(* Every step keeps the invariant.                                         *)
(***************************************************************************)

\* Admissions that wait for the owner read are of permissions.
LEMMA AdmitTypes ==
  ASSUME TypeOK, NEW p \in Procs, NEW S \in SUBSET Perms, NEW b \in BOOLEAN,
         Admit(p, S, b)
  PROVE  adm' \in [Procs -> SUBSET (Perms \X BOOLEAN)]
<1> DEFINE more == {<<q, b>> : q \in {x \in S : Admissible(p, x)}}
<1>1. more \subseteq Perms \X BOOLEAN
  OBVIOUS
<1>2. adm' = [adm EXCEPT ![p] = @ \cup more]
  BY DEF Admit
<1> HIDE DEF more
<1>3. adm \in [Procs -> SUBSET (Perms \X BOOLEAN)]
  BY DEF TypeOK
<1> QED
  BY <1>1, <1>2, <1>3

\* The host asks, answers or misses an answer, and deadlines pass.
LEMMA HostSteps ==
  ASSUME IInv, NEW q \in Perms,
         NativeAsks(q) \/ Deadline(q) \/ HostTakes(q) \/ HostMisses(q)
  PROVE  IInv'
<1>1. TypeOK
  BY DEF IInv
<1>2. CASE NativeAsks(q)
  <2>1. TypeOK'
    BY <1>1, <1>2 DEF NativeAsks, Announce, TypeOK, durable, prompt, past
  <2> QED
    BY <1>2, <2>1, QuietKeeps DEF NativeAsks, durable, prompt, past
<1>3. CASE Deadline(q)
  <2>1. TypeOK'
    BY <1>1, <1>3 DEF Deadline, TypeOK, feed, prompt, past
  <2> QED
    BY <1>3, <2>1, QuietKeeps DEF Deadline, prompt, past
<1>4. CASE HostTakes(q)
  <2>1. TypeOK'
    BY <1>1, <1>4 DEF HostTakes, Announce, TypeOK, durable, prompt, past
  <2> QED
    BY <1>4, <2>1, QuietKeeps DEF HostTakes, durable, prompt, past
<1>5. CASE HostMisses(q)
  <2>1. TypeOK'
    BY <1>1, <1>5 DEF HostMisses, TypeOK, durable, feed, prompt, past
  <2> QED
    BY <1>5, <2>1, QuietKeeps DEF HostMisses, durable, prompt, past
<1> QED
  BY <1>2, <1>3, <1>4, <1>5

\* The inventory is read, and the event stream breaks.
LEMMA ReadSteps ==
  ASSUME IInv, NEW p \in Procs,
         Reconcile(p) \/ InventoryReturns(p) \/ InventoryFails(p) \/ StreamBreaks(p)
  PROVE  IInv'
<1>1. TypeOK
  BY DEF IInv
<1>2. CASE Reconcile(p)
  <2>1. TypeOK'
    BY <1>1, <1>2 DEF Reconcile, TypeOK, durable, prompt, past
  <2> QED
    BY <1>2, <2>1, QuietKeeps DEF Reconcile, durable, prompt, past
<1>3. CASE InventoryReturns(p)
  <2>1. adm' \in [Procs -> SUBSET (Perms \X BOOLEAN)]
    <3>1. CASE Admit(p, list[p], TRUE)
      <4>1. list[p] \subseteq Perms
        BY <1>1 DEF TypeOK
      <4> QED
        BY <1>1, <3>1, <4>1, AdmitTypes
    <3>2. CASE UNCHANGED adm
      BY <1>1, <3>2 DEF TypeOK
    <3> QED
      BY <1>3, <3>1, <3>2 DEF InventoryReturns
  <2>2. TypeOK'
    BY <1>1, <1>3, <2>1 DEF InventoryReturns, TypeOK, durable, prompt, past
  <2> QED
    BY <1>3, <2>2, QuietKeeps DEF InventoryReturns, durable, prompt, past
<1>4. CASE InventoryFails(p)
  <2>1. TypeOK'
    BY <1>1, <1>4 DEF InventoryFails, TypeOK, durable, prompt, past
  <2> QED
    BY <1>4, <2>1, QuietKeeps DEF InventoryFails, durable, prompt, past
<1>5. CASE StreamBreaks(p)
  <2>1. TypeOK'
    BY <1>1, <1>5 DEF StreamBreaks, TypeOK, durable, prompt, past
  <2> QED
    BY <1>5, <2>1, QuietKeeps DEF StreamBreaks, durable, prompt, past
<1> QED
  BY <1>2, <1>3, <1>4, <1>5

\* A question is noted, or the note is dropped.
LEMMA EventSteps ==
  ASSUME IInv, NEW p \in Procs, NEW q \in Perms, NEW b \in BOOLEAN,
         AskedEvent(p, q) \/ AdmissionDropped(p, q, b)
  PROVE  IInv'
<1>1. TypeOK
  BY DEF IInv
<1>2. CASE AskedEvent(p, q)
  <2>1. adm' \in [Procs -> SUBSET (Perms \X BOOLEAN)]
    <3>1. Admit(p, {q}, FALSE) /\ {q} \subseteq Perms
      BY <1>2 DEF AskedEvent
    <3> QED
      BY <1>1, <3>1, AdmitTypes
  <2>2. TypeOK'
    BY <1>1, <1>2, <2>1 DEF AskedEvent, TypeOK, durable, prompt, past
  <2> QED
    BY <1>2, <2>2, QuietKeeps DEF AskedEvent, durable, prompt, past
<1>3. CASE AdmissionDropped(p, q, b)
  <2>1. TypeOK'
    BY <1>1, <1>3 DEF AdmissionDropped, TypeOK, durable, feed, prompt, past
  <2> QED
    BY <1>3, <2>1, QuietKeeps DEF AdmissionDropped, durable, prompt, past
<1> QED
  BY <1>2, <1>3

\* The lives of the gateways and of the turn.
LEMMA LifeSteps ==
  ASSUME IInv, NEW p \in Procs,
         LoseTurn \/ TakeTurn(p) \/ Start(p) \/ Crash(p)
  PROVE  IInv'
<1>1. TypeOK /\ Book /\ OneUp /\ \A o \in Procs : Lined(o) /\ Kept(o)
  BY BookHolds DEF IInv
<1>2. NoProc \notin Procs
  BY ProcAssumption DEF NoProc
<1>3. CASE LoseTurn \/ TakeTurn(p)
  <2>0. holder' = NoProc \/ (holder' = p /\ up[p] = "up")
    BY <1>3 DEF LoseTurn, TakeTurn
  <2>1. /\ UNCHANGED <<native, wire, record, response, late, up, news, told, list>>
        /\ UNCHANGED <<adm, resolved, chain, line, who, sending, waiting, text, cut>>
        /\ UNCHANGED <<unsure, replayed, given>>
    <3>1. UNCHANGED <<native, wire, durable, up, feed, adm, resolved, chain,
                      prompt, cut, past>>
      BY <1>3 DEF LoseTurn, TakeTurn
    <3> QED
      BY <3>1 DEF durable, feed, prompt, past
  <2>2. TypeOK'
    BY <1>1, <2>0, <2>1 DEF TypeOK
  <2>3. Book'
    <3>1. HolderAdmits'
      BY <1>1, <1>2, <2>0, <2>1 DEF Book, HolderAdmits
    <3>2. Sure' /\ RelayOpen' /\ ApprovalWasGiven' /\ NeverReplayed'
      BY <1>1, <2>0, <2>1 DEF Book, Sure, RelayOpen, ApprovalWasGiven, NeverReplayed
    <3> QED
      BY <1>1, <2>0, <2>1, <3>1, <3>2 DEF Book
  <2>4. OneUp' /\ \A o \in Procs : Lined(o)' /\ Kept(o)'
    BY <1>1, <2>0, <2>1 DEF OneUp, Lined, Kept
  <2> QED
    BY <2>2, <2>3, <2>4, PartsSuffice
<1>4. CASE Start(p)
  <2>1. /\ up[p] = "off" /\ up' = [up EXCEPT ![p] = "up"]
        /\ \A o \in Procs : up[o] # "up"
        /\ UNCHANGED <<native, wire, holder, record, response, late, news, told, list>>
        /\ UNCHANGED <<adm, resolved, chain, line, who, sending, waiting, text, cut>>
        /\ UNCHANGED <<unsure, replayed, given>>
    BY <1>4 DEF Start, durable, feed, prompt, past
  <2>2. TypeOK'
    BY <1>1, <2>1 DEF TypeOK
  <2>3. \A o \in Procs : up'[o] = IF o = p THEN "up" ELSE up[o]
    BY <1>1, <2>1 DEF TypeOK
  <2>4. Book'
    <3>1. RelayOpen' /\ HolderAdmits'
      BY <1>1, <2>1, <2>3 DEF Book, RelayOpen, HolderAdmits
    <3>2. Sure' /\ ApprovalWasGiven' /\ NeverReplayed'
      BY <1>1, <2>1 DEF Book, Sure, ApprovalWasGiven, NeverReplayed
    <3> QED
      BY <1>1, <2>1, <3>1, <3>2 DEF Book
  <2>5. OneUp'
    BY <2>1, <2>3 DEF OneUp
  <2>6. \A o \in Procs : Lined(o)' /\ Kept(o)'
    BY <1>1, <2>1 DEF Lined, Kept
  <2> QED
    BY <2>2, <2>4, <2>5, <2>6, PartsSuffice
<1>5. CASE Crash(p)
  <2>1. /\ up' = [up EXCEPT ![p] = "gone"]
        /\ chain' = [chain EXCEPT ![p] = [q \in Perms |-> "none"]]
        /\ resolved' = [resolved EXCEPT ![p] = {}]
        /\ UNCHANGED <<native, wire, holder, record, response, late>>
        /\ UNCHANGED <<unsure, replayed, given>>
    BY <1>5 DEF Crash, durable, past
  <2>2. PromptTypeOK'
    BY <1>1, <1>5 DEF Crash, PromptTypeOK, TypeOK
  <2>3. TypeOK'
    <3>1. /\ news' \in [Procs -> SUBSET Perms] /\ told' \in [Procs -> SUBSET Perms]
          /\ list' \in [Procs -> SUBSET Perms] /\ cut' \in [Procs -> SUBSET Perms]
          /\ adm' \in [Procs -> SUBSET (Perms \X BOOLEAN)]
      BY <1>1, <1>5 DEF Crash, TypeOK
    <3>2. /\ resolved' \in [Procs -> SUBSET Perms]
          /\ up' \in [Procs -> {"off", "up", "closed", "gone"}]
          /\ chain' \in [Procs -> [Perms -> {"none", "relay", "post", "retire"}]]
      BY <1>1, <2>1 DEF TypeOK
    <3> QED
      BY <1>1, <2>1, <2>2, <3>1, <3>2 DEF TypeOK, PromptTypeOK
  <2>4. /\ \A o \in Procs : up'[o] = IF o = p THEN "gone" ELSE up[o]
        /\ \A o \in Procs : resolved'[o] = IF o = p THEN {} ELSE resolved[o]
        /\ \A o \in Procs, x \in Perms :
             chain'[o][x] = IF o = p THEN "none" ELSE chain[o][x]
    BY <1>1, <2>1 DEF TypeOK
  <2>5. RelayOpen' /\ OneUp'
    BY <1>1, <2>1, <2>4 DEF Book, RelayOpen, OneUp
  <2>6. HolderAdmits'
    <3>1. ASSUME NEW o \in Procs, holder = o, up'[o] # "up",
                 NEW c \in Procs, NEW x \in Perms, chain'[c][x] = "relay"
          PROVE  FALSE
      <4>1. c # p /\ chain[c][x] = "relay" /\ up[c] = "up"
        BY <1>1, <2>4, <3>1 DEF Book, RelayOpen
      <4>2. CASE up[o] = "up"
        BY <1>1, <2>4, <3>1, <4>1, <4>2 DEF OneUp
      <4>3. CASE up[o] # "up"
        BY <1>1, <3>1, <4>1, <4>3 DEF Book, HolderAdmits
      <4> QED
        BY <4>2, <4>3
    <3> QED
      BY <2>1, <3>1 DEF HolderAdmits
  <2>7. Book'
    <3>1. Sure' /\ ApprovalWasGiven' /\ NeverReplayed'
      BY <1>1, <2>1 DEF Book, Sure, ApprovalWasGiven, NeverReplayed
    <3>2. chain' \in [Procs -> [Perms -> {"none", "relay", "post", "retire"}]]
      BY <2>3 DEF TypeOK
    <3> QED
      BY <1>1, <2>1, <2>5, <2>6, <3>1, <3>2 DEF Book
  <2>8. Moved(p, NoPerm)
    <3>1. /\ \A o \in Procs \ {p} :
               /\ line'[o] = line[o] /\ who'[o] = who[o]
               /\ waiting'[o] = waiting[o] /\ text'[o] = text[o]
          /\ line'[p] = <<>> /\ who'[p] = NoPerm /\ waiting'[p] = FALSE
          /\ text'[p] = "none"
      BY <1>1, <1>5 DEF Crash, TypeOK
    <3> QED
      BY <2>2, <3>1 DEF Moved
  <2>9. ASSUME NEW o \in Procs
        PROVE  Lined(o)' /\ Kept(o)'
    <3>1. CASE o = p
      <4>1. line'[p] = <<>> /\ who'[p] = NoPerm /\ waiting'[p] = FALSE /\ text'[p] = "none"
        BY <1>1, <1>5 DEF Crash, TypeOK
      <4> QED
        BY <3>1, <4>1 DEF Lined, Kept
    <3>2. CASE o # p
      <4>1. /\ line'[o] = line[o] /\ who'[o] = who[o]
            /\ waiting'[o] = waiting[o] /\ text'[o] = text[o]
        BY <2>8, <3>2 DEF Moved
      <4>2. line[o] \in Seq(Perms) /\ who[o] \in Perms \cup {NoPerm}
        BY <1>1 DEF TypeOK
      <4>3. \A x \in Perms : chain'[o][x] = chain[o][x]
        BY <2>4, <3>2
      <4>4. \A i \in DOMAIN line[o] : line[o][i] \in Perms
        BY <4>2
      <4> QED
        BY <1>1, <2>1, <4>1, <4>2, <4>3, <4>4 DEF Lined, Kept
    <3> QED
      BY <3>1, <3>2
  <2> QED
    BY <2>3, <2>5, <2>7, <2>9, PartsSuffice
<1> QED
  BY <1>3, <1>4, <1>5

\* The wait for a response ends.
LEMMA PostEnds ==
  ASSUME IInv, NEW p \in Procs, NEW q \in Perms, PostReturns(p, q) \/ PostFails(p, q)
  PROVE  IInv'
<1>1. TypeOK /\ Book /\ \A o \in Procs : Lined(o) /\ Kept(o)
  BY BookHolds DEF IInv
<1>2. /\ chain[p][q] \in {"post", "retire"} /\ chain' = [chain EXCEPT ![p][q] = "none"]
      /\ UNCHANGED <<native, wire, holder, up, feed, adm, resolved, prompt, cut>>
      /\ UNCHANGED <<replayed, given>>
  <2>1. CASE PostReturns(p, q)
    BY <2>1 DEF PostReturns, Await
  <2>2. CASE PostFails(p, q)
    BY <2>2 DEF PostFails, Await, past
  <2> QED
    BY <2>1, <2>2
<1>3. /\ chain' \in [Procs -> [Perms -> {"none", "relay", "post", "retire"}]]
      /\ \A o \in Procs, x \in Perms :
           /\ chain'[o][x] = "relay" => chain[o][x] = "relay"
           /\ chain[o][x] = "relay" => chain'[o][x] = "relay"
  BY <1>1, <1>2 DEF Book
<1>4. Book'
  <2>1. CASE RemoveRecord(q)
    BY <1>2, <1>3, <2>1, RemoveKeeps
  <2>2. CASE UNCHANGED <<durable, past>>
    BY <1>2, <1>3, <2>2, WithdrawKeeps DEF durable, past
  <2> QED
    BY <2>1, <2>2 DEF PostReturns, PostFails
<1>5. late' \subseteq Perms
  BY <1>1 DEF PostReturns, PostFails, RemoveRecord, TypeOK, durable
<1>6. TypeOK'
  BY <1>1, <1>2, <1>4, <1>5 DEF TypeOK, Book, feed, prompt
<1>7. OneUp'
  BY <1>2 DEF IInv, OneUp
<1>8. \A o \in Procs : Lined(o)' /\ Kept(o)'
  BY <1>1, <1>2, <1>3, StillLined
<1> QED
  BY <1>4, <1>6, <1>7, <1>8, PartsSuffice

\* The prompt types hold as part of the type.
LEMMA PromptTypes == ASSUME TypeOK PROVE PromptTypeOK
  BY DEF TypeOK, PromptTypeOK

\* The person answers.
LEMMA AnswerStep ==
  ASSUME IInv, NEW p \in Procs, NEW r \in Verdict, Answer(p, r)
  PROVE  IInv'
<1>1. TypeOK /\ Book /\ PromptTypeOK /\ \A o \in Procs : Lined(o) /\ Kept(o)
  BY BookHolds, PromptTypes DEF IInv
<1>2. /\ who[p] \in Perms /\ chain[p][who[p]] = "relay"
      /\ given' = IF r = "approve" THEN given \cup {who[p]} ELSE given
      /\ UNCHANGED <<native, holder, up, feed, adm, resolved>>
  BY <1>1 DEF Answer, Lined, TypeOK
<1>3. /\ given \subseteq given' /\ given' \subseteq Perms
      /\ r = "approve" => who[p] \in given'
  BY <1>1, <1>2 DEF TypeOK
<1>4. CASE /\ text' = [text EXCEPT ![p] = r] /\ waiting' = [waiting EXCEPT ![p] = FALSE]
           /\ UNCHANGED <<durable, wire, chain, line, who, sending, cut, unsure, replayed>>
  <2>1. PromptTypeOK'
    BY <1>1, <1>4 DEF PromptTypeOK
  <2>2. TypeOK'
    BY <1>1, <1>2, <1>3, <1>4, <2>1 DEF TypeOK, PromptTypeOK, durable, feed
  <2>3. Book'
    <3>1. UNCHANGED <<holder, record, response, up, resolved, wire, unsure, replayed>>
      BY <1>2, <1>4 DEF durable
    <3>2. chain' = chain
      BY <1>4
    <3> QED
      BY <1>1, <1>3, <3>1, <3>2, WithdrawKeeps DEF Book
  <2>4. OneUp'
    BY <1>2 DEF IInv, OneUp
  <2>5. ASSUME NEW o \in Procs
        PROVE  Lined(o)' /\ Kept(o)'
    <3>1. /\ text'[o] = IF o = p THEN r ELSE text[o]
          /\ waiting'[o] = IF o = p THEN FALSE ELSE waiting[o]
          /\ line' = line /\ who' = who /\ chain' = chain
      BY <1>1, <1>4 DEF PromptTypeOK
    <3>2. Lined(o)'
      BY <1>1, <3>1 DEF Lined
    <3>3. Kept(o)'
      BY <1>1, <1>3, <3>1 DEF Kept
    <3> QED
      BY <3>2, <3>3
  <2> QED
    BY <2>2, <2>3, <2>4, <2>5, PartsSuffice
<1>5. CASE Promote(p) /\ Respond(p, who[p], r, "post")
  <2>1. Moved(p, who[p])
    BY <1>1, <1>5, PromoteMoves
  <2> QED
    BY <1>2, <1>3, <1>5, <2>1, RespondKeeps
<1> QED
  BY <1>4, <1>5 DEF Answer

\* A prompt is sent, or is not.
LEMMA SendSteps ==
  ASSUME IInv, NEW p \in Procs, SendReturns(p) \/ SendFails(p)
  PROVE  IInv'
<1>1. TypeOK /\ Book /\ PromptTypeOK /\ \A o \in Procs : Lined(o) /\ Kept(o)
  BY BookHolds, PromptTypes DEF IInv
<1>2. UNCHANGED <<native, holder, up, feed, adm, resolved, given>>
  BY DEF SendReturns, SendFails
<1>3. CASE /\ sending' = [sending EXCEPT ![p] = FALSE]
           /\ UNCHANGED <<durable, wire, chain, line, who, waiting, text, cut, unsure, replayed>>
  <2>1. TypeOK'
    BY <1>1, <1>2, <1>3 DEF TypeOK, durable, feed
  <2>2. Book'
    <3>1. UNCHANGED <<holder, record, response, up, resolved, wire, unsure, replayed>>
      BY <1>2, <1>3 DEF durable
    <3>2. chain' = chain /\ given' = given
      BY <1>2, <1>3
    <3> QED
      BY <1>1, <3>1, <3>2, WithdrawKeeps DEF Book
  <2>3. OneUp'
    BY <1>2 DEF IInv, OneUp
  <2>4. \A o \in Procs : Lined(o)' /\ Kept(o)'
    BY <1>1, <1>2, <1>3 DEF Lined, Kept
  <2> QED
    BY <2>1, <2>2, <2>3, <2>4, PartsSuffice
<1>4. CASE /\ who[p] = NoPerm /\ Promote(p)
           /\ UNCHANGED <<durable, wire, chain, cut, unsure, replayed>>
  <2>1. Moved(p, who[p])
    BY <1>1, <1>4, PromoteMoves
  <2>2. TypeOK'
    BY <1>1, <1>2, <1>4, <2>1 DEF TypeOK, Moved, PromptTypeOK, durable, feed
  <2>3. Book'
    <3>1. UNCHANGED <<holder, record, response, up, resolved, wire, unsure, replayed>>
      BY <1>2, <1>4 DEF durable
    <3>2. chain' = chain /\ given' = given
      BY <1>2, <1>4
    <3> QED
      BY <1>1, <3>1, <3>2, WithdrawKeeps DEF Book
  <2>4. OneUp'
    BY <1>2 DEF IInv, OneUp
  <2>5. \A o \in Procs : Lined(o)' /\ Kept(o)'
    <3>1. chain' = chain /\ given' = given
      BY <1>2, <1>4
    <3> QED
      BY <1>1, <2>1, <3>1, MovedKeeps
  <2> QED
    BY <2>2, <2>3, <2>4, <2>5, PartsSuffice
<1>5. ASSUME NEW r \in Verdict, NEW w \in {"post", "retire"}, who[p] # NoPerm,
             r = "approve" => text[p] = "approve",
             Promote(p), Respond(p, who[p], r, w)
      PROVE  IInv'
  <2>1. Moved(p, who[p])
    BY <1>1, <1>5, PromoteMoves
  <2>2. who[p] \in Perms /\ chain[p][who[p]] = "relay"
    BY <1>1, <1>5 DEF Lined, TypeOK
  <2>3. given' = given /\ given \subseteq Perms
    BY <1>1, <1>2 DEF TypeOK
  <2>4. r = "approve" => who[p] \in given'
    BY <1>1, <1>5, <2>3 DEF Kept
  <2> QED
    BY <1>2, <1>5, <2>1, <2>2, <2>3, <2>4, RespondKeeps
<1>6. CASE who[p] # NoPerm /\ Promote(p) /\ Respond(p, who[p], Reply(p), "post")
  <2>1. Reply(p) \in Verdict /\ (Reply(p) = "approve" => text[p] = "approve")
    BY <1>1 DEF Reply, Verdict, TypeOK
  <2> QED
    BY <1>5, <1>6, <2>1
<1>7. CASE who[p] # NoPerm /\ Promote(p) /\ Respond(p, who[p], "reject", "retire")
  <2>1. "reject" \in Verdict
    BY DEF Verdict
  <2> QED
    BY <1>5, <1>7, <2>1
<1>8. CASE SendReturns(p)
  BY <1>3, <1>4, <1>6, <1>8 DEF SendReturns
<1>9. CASE SendFails(p)
  BY <1>4, <1>7, <1>9 DEF SendFails
<1> QED
  BY <1>8, <1>9

\* An ask ends without an answer.
LEMMA UnansweredStep ==
  ASSUME IInv, NEW p \in Procs, NEW q \in Perms, EndsUnanswered(p, q)
  PROVE  IInv'
<1>1. TypeOK /\ PromptTypeOK /\ Lined(p) /\ Kept(p)
  BY PromptTypes DEF IInv
<1>2. /\ chain[p][q] = "relay" /\ Dismiss(p, q) /\ Respond(p, q, "reject", "post")
      /\ UNCHANGED <<native, holder, up, feed, adm, resolved, given>>
  BY DEF EndsUnanswered
<1>3. Moved(p, q)
  BY <1>1, <1>2, DismissMoves
<1>4. given \subseteq given' /\ given' \subseteq Perms /\ "reject" \in Verdict
  BY <1>1, <1>2 DEF TypeOK, Verdict
<1> QED
  BY <1>2, <1>3, <1>4, RespondKeeps

\* Asks are cut off.
LEMMA CancelStep ==
  ASSUME IInv, NEW p \in Procs, Cancel(p)
  PROVE  IInv'
<1>1. TypeOK /\ Book /\ PromptTypeOK /\ \A o \in Procs : Lined(o) /\ Kept(o)
  BY BookHolds, PromptTypes DEF IInv
<1>2. /\ waiting[p]
      /\ cut' = [cut EXCEPT ![p] = {q \in Perms : chain[p][q] = "relay"}]
      /\ waiting' = [waiting EXCEPT ![p] = FALSE]
      /\ who'  = [who EXCEPT ![p] = IF sending[p] THEN who[p] ELSE NoPerm]
      /\ line' = [line EXCEPT ![p] = IF sending[p] THEN line[p] ELSE Append(line[p], who[p])]
      /\ UNCHANGED <<native, wire, holder, durable, up, feed, adm, resolved>>
      /\ UNCHANGED <<chain, sending, text, past>>
  BY DEF Cancel
<1>3. /\ who[p] \in Perms /\ who[p] # NoPerm /\ chain[p][who[p]] = "relay"
      /\ line[p] \in Seq(Perms) /\ text[p] = "none"
  BY <1>1, <1>2, PermAssumption DEF Lined, Kept, PromptTypeOK
<1>4. PromptTypeOK'
  BY <1>1, <1>2, <1>3 DEF PromptTypeOK
<1>5. TypeOK'
  <2>1. cut' \in [Procs -> SUBSET Perms]
    BY <1>1, <1>2 DEF TypeOK
  <2> QED
    BY <1>1, <1>2, <1>4, <2>1 DEF TypeOK, PromptTypeOK, durable, feed, past
<1>6. Book'
  <2>1. UNCHANGED <<holder, record, response, up, resolved, wire, unsure, replayed>>
    BY <1>2 DEF durable, past
  <2>2. chain' = chain /\ given' = given
    BY <1>2 DEF past
  <2> QED
    BY <1>1, <2>1, <2>2, WithdrawKeeps DEF Book
<1>7. OneUp'
  BY <1>2 DEF IInv, OneUp
<1>8. ASSUME NEW o \in Procs
      PROVE  Lined(o)' /\ Kept(o)'
  <2>1. chain' = chain /\ text' = text /\ given' = given
    BY <1>2 DEF past
  <2>2. CASE o # p
    <3>1. line'[o] = line[o] /\ who'[o] = who[o] /\ waiting'[o] = waiting[o]
      BY <1>1, <1>2, <2>2 DEF PromptTypeOK
    <3> QED
      BY <1>1, <2>1, <3>1 DEF Lined, Kept
  <2>3. CASE o = p /\ sending[p]
    <3>1. line'[p] = line[p] /\ who'[p] = who[p] /\ waiting'[p] = FALSE
      BY <1>1, <1>2, <2>3 DEF PromptTypeOK
    <3> QED
      BY <1>1, <2>1, <2>3, <3>1 DEF Lined, Kept
  <2>4. CASE o = p /\ ~sending[p]
    <3>1. line'[p] = Append(line[p], who[p]) /\ who'[p] = NoPerm /\ waiting'[p] = FALSE
      BY <1>1, <1>2, <2>4 DEF PromptTypeOK
    <3>2. /\ DOMAIN line'[p] = 1..(Len(line[p]) + 1) /\ DOMAIN line[p] = 1..Len(line[p])
          /\ Len(line[p]) \in Nat
          /\ \A i \in DOMAIN line'[p] :
               line'[p][i] = IF i = Len(line[p]) + 1 THEN who[p] ELSE line[p][i]
      BY <1>3, <3>1
    <3>3. \A i \in DOMAIN line[p] :
            /\ line[p][i] \in Perms /\ line[p][i] # NoPerm /\ line[p][i] # who[p]
            /\ chain[p][line[p][i]] = "relay"
      BY <1>1, <1>3, PermAssumption DEF Lined
    <3>4. ASSUME NEW i \in DOMAIN line'[p]
          PROVE  chain[p][line'[p][i]] = "relay" /\ line'[p][i] # NoPerm
      BY <1>3, <3>2, <3>3
    <3>7. ASSUME NEW i \in DOMAIN line'[p], NEW j \in DOMAIN line'[p],
                 line'[p][i] = line'[p][j]
          PROVE  i = j
      <4>1. \A k, m \in DOMAIN line[p] : line[p][k] = line[p][m] => k = m
        BY <1>1 DEF Lined
      <4>2. ASSUME NEW k \in DOMAIN line'[p]
            PROVE  \/ k = Len(line[p]) + 1 /\ line'[p][k] = who[p]
                   \/ k \in DOMAIN line[p] /\ line'[p][k] = line[p][k]
        BY <3>2
      <4> QED
        BY <3>3, <3>7, <4>1, <4>2
    <3>5. Lined(p)'
      BY <2>1, <3>1, <3>4, <3>7 DEF Lined
    <3>6. Kept(p)'
      BY <1>3, <2>1, <3>1 DEF Kept
    <3> QED
      BY <2>4, <3>5, <3>6
  <2> QED
    BY <2>2, <2>3, <2>4
<1> QED
  BY <1>5, <1>6, <1>7, <1>8, PartsSuffice

\* The host tells that a permission was answered.
LEMMA RepliedStep ==
  ASSUME IInv, NEW p \in Procs, NEW q \in Perms, RepliedEvent(p, q)
  PROVE  IInv'
<1>1. TypeOK /\ Book /\ PromptTypeOK /\ \A o \in Procs : Lined(o) /\ Kept(o)
  BY BookHolds, PromptTypes DEF IInv
<1>2. /\ told' = [told EXCEPT ![p] = @ \ {q}]
      /\ resolved' = [resolved EXCEPT ![p] = @ \cup {q}]
      /\ cut' = [cut EXCEPT ![p] = @ \ {q}]
      /\ RemoveRecord(q)
      /\ UNCHANGED <<native, wire, holder, up, news, list, adm, replayed, given>>
  BY DEF RepliedEvent
<1>3. /\ told' \in [Procs -> SUBSET Perms] /\ resolved' \in [Procs -> SUBSET Perms]
      /\ cut' \in [Procs -> SUBSET Perms] /\ late' \subseteq Perms
      /\ \A o \in Procs, x \in Perms :
           x \in resolved'[o] => x \in resolved[o] \/ (o = p /\ x = q)
  BY <1>1, <1>2 DEF TypeOK, RemoveRecord
<1>4. \/ chain[p][q] = "relay" /\ Dismiss(p, q) /\ chain' = [chain EXCEPT ![p][q] = "none"]
      \/ chain[p][q] # "relay" /\ UNCHANGED <<chain, prompt>>
  BY DEF RepliedEvent, Await
<1>5. /\ chain' \in [Procs -> [Perms -> {"none", "relay", "post", "retire"}]]
      /\ chain'[p][q] # "relay"
      /\ \A o \in Procs, x \in Perms : o # p \/ x # q => chain'[o][x] = chain[o][x]
  BY <1>1, <1>4 DEF Book
<1>6. Book'
  <2>1. \A o \in Procs, x \in Perms : chain'[o][x] = "relay" =>
          chain[o][x] = "relay" /\ (x \in resolved'[o] => x \in resolved[o])
    BY <1>3, <1>5
  <2> QED
    BY <1>2, <1>5, <2>1, RemoveKeeps
<1>7. PromptTypeOK' /\ \A o \in Procs : Lined(o)' /\ Kept(o)'
  <2>1. CASE Dismiss(p, q)
    <3>1. Moved(p, q)
      BY <1>1, <2>1, DismissMoves
    <3>2. given \subseteq given'
      BY <1>2
    <3>3. \A o \in Procs : Lined(o)' /\ Kept(o)'
      BY <1>1, <1>5, <3>1, <3>2, MovedKeeps
    <3> QED
      BY <3>1, <3>3 DEF Moved
  <2>2. CASE UNCHANGED <<chain, prompt>>
    <3>1. PromptTypeOK'
      BY <1>1, <2>2 DEF PromptTypeOK, prompt
    <3>2. UNCHANGED <<prompt, given>> /\ chain' = chain
      BY <1>2, <2>2
    <3> QED
      BY <1>1, <3>1, <3>2, StillLined
  <2> QED
    BY <1>4, <2>1, <2>2
<1>8. TypeOK'
  BY <1>1, <1>2, <1>3, <1>6, <1>7 DEF TypeOK, Book, PromptTypeOK
<1>9. OneUp'
  BY <1>2 DEF IInv, OneUp
<1> QED
  BY <1>6, <1>7, <1>8, <1>9, PartsSuffice

\* A question whose owner read confirms it is relayed, or declined.
LEMMA AdmissionStep ==
  ASSUME IInv, NEW p \in Procs, NEW q \in Perms, NEW b \in BOOLEAN, AdmissionOwned(p, q, b)
  PROVE  IInv'
<1>1. TypeOK /\ Book /\ PromptTypeOK /\ \A o \in Procs : Lined(o) /\ Kept(o)
  BY BookHolds, PromptTypes DEF IInv
<1>2. /\ adm' = [adm EXCEPT ![p] = @ \ {<<q, b>>}]
      /\ UNCHANGED <<native, holder, up, feed, resolved, cut, given>>
      /\ Relay(p, q, b) \/ DeclineClosing(p, q)
  BY DEF AdmissionOwned
<1>3. /\ holder = p /\ q \notin resolved[p] /\ chain[p][q] = "none"
      /\ record[q] # "responding" /\ response[q] = "none" /\ q \notin unsure
  BY <1>1, <1>2 DEF Relay, DeclineClosing, Admissible, Book, Sure
<1>4. OneUp'
  BY <1>2 DEF IInv, OneUp
<1>5. late' \subseteq Perms
  BY <1>1, <1>2 DEF Relay, DeclineClosing, TypeOK
<1>6. adm' \in [Procs -> SUBSET (Perms \X BOOLEAN)]
  BY <1>1, <1>2 DEF TypeOK
<1>7. ASSUME Book', PromptTypeOK', replayed' = {}
      PROVE  TypeOK'
  BY <1>1, <1>2, <1>5, <1>6, <1>7 DEF TypeOK, Book, PromptTypeOK, feed
<1>8. ASSUME NEW w \in {"post", "retire"}, Post(p, q, "reject", w), UNCHANGED prompt
      PROVE  IInv'
  <2>1. /\ "reject" \in Verdict /\ "reject" # "approve" /\ given \subseteq given'
        /\ UNCHANGED <<holder, up, resolved>>
    BY <1>2 DEF Verdict
  <2>2. Book'
    BY <1>3, <1>8, <2>1, PostKeeps
  <2>3. chain' = [chain EXCEPT ![p][q] = w]
    BY <1>8 DEF Post, Await
  <2>4. \A o \in Procs, x \in Perms : chain[o][x] = "relay" => chain'[o][x] = "relay"
    BY <1>1, <1>3, <2>3 DEF Book
  <2>5. \A o \in Procs : Lined(o)' /\ Kept(o)'
    <3>1. UNCHANGED <<prompt, given>>
      BY <1>2, <1>8
    <3> QED
      BY <1>1, <2>4, <3>1, StillLined
  <2>6. PromptTypeOK'
    BY <1>1, <1>8 DEF PromptTypeOK, prompt
  <2>7. replayed' = {}
    BY <2>2 DEF Book, NeverReplayed
  <2> QED
    BY <1>4, <1>7, <2>2, <2>5, <2>6, <2>7, PartsSuffice
<1>9. ASSUME up[p] = "up", record' = [record EXCEPT ![q] = "relayed"],
             chain' = [chain EXCEPT ![p][q] = "relay"], Join(p, q),
             UNCHANGED <<response, wire, unsure, replayed>>
      PROVE  IInv'
  <2>1. PromptTypeOK' /\ \A o \in Procs : Lined(o)' /\ Kept(o)'
    <3>1. UNCHANGED given
      BY <1>2
    <3> QED
      BY <1>1, <1>3, <1>9, <3>1, JoinKeeps
  <2>2. /\ chain' \in [Procs -> [Perms -> {"none", "relay", "post", "retire"}]]
        /\ \A o \in Procs, x \in Perms :
             chain'[o][x] = IF o = p /\ x = q THEN "relay" ELSE chain[o][x]
    BY <1>1, <1>9 DEF Book
  <2>3. /\ record' \in [Perms -> {"none", "pending", "relayed", "responding"}]
        /\ \A x \in Perms : record'[x] = IF x = q THEN "relayed" ELSE record[x]
    BY <1>1, <1>9 DEF Book
  <2>4. RelayOpen'
    BY <1>1, <1>2, <1>3, <1>9, <2>2 DEF Book, RelayOpen
  <2>5. HolderAdmits'
    BY <1>1, <1>2, <1>3, <1>9, <2>2 DEF Book, HolderAdmits
  <2>6. Sure' /\ ApprovalWasGiven' /\ NeverReplayed'
    BY <1>1, <1>2, <1>3, <1>9, <2>3 DEF Book, Sure, ApprovalWasGiven, NeverReplayed
  <2>7. \A x \in Perms : record'[x] = "responding" <=> response'[x] # "none"
    BY <1>1, <1>3, <1>9, <2>3 DEF Book
  <2>8. Book'
    BY <1>1, <1>9, <2>2, <2>3, <2>4, <2>5, <2>6, <2>7 DEF Book
  <2>9. replayed' = {}
    BY <2>6 DEF NeverReplayed
  <2> QED
    BY <1>4, <1>7, <2>1, <2>8, <2>9, PartsSuffice
<1>10. ASSUME record' = [record EXCEPT ![q] = "pending"],
              UNCHANGED <<response, wire, unsure, replayed, chain, prompt>>
       PROVE  IInv'
  <2>1. /\ record' \in [Perms -> {"none", "pending", "relayed", "responding"}]
        /\ \A x \in Perms : record'[x] = IF x = q THEN "pending" ELSE record[x]
    BY <1>1, <1>10 DEF Book
  <2>2. RelayOpen' /\ HolderAdmits'
    BY <1>1, <1>2, <1>10 DEF Book, RelayOpen, HolderAdmits
  <2>3. Sure' /\ ApprovalWasGiven' /\ NeverReplayed'
    BY <1>1, <1>2, <1>3, <1>10, <2>1 DEF Book, Sure, ApprovalWasGiven, NeverReplayed
  <2>4. \A x \in Perms : record'[x] = "responding" <=> response'[x] # "none"
    BY <1>1, <1>3, <1>10, <2>1 DEF Book
  <2>5. Book'
    BY <1>1, <1>10, <2>1, <2>2, <2>3, <2>4 DEF Book
  <2>6. PromptTypeOK' /\ replayed' = {}
    BY <1>1, <1>10, <2>3 DEF PromptTypeOK, prompt, NeverReplayed
  <2>7. \A o \in Procs : Lined(o)' /\ Kept(o)'
    <3>1. UNCHANGED <<prompt, given>> /\ chain' = chain
      BY <1>2, <1>10
    <3> QED
      BY <1>1, <3>1, StillLined
  <2> QED
    BY <1>4, <1>7, <2>5, <2>6, <2>7, PartsSuffice
<1>11. CASE Relay(p, q, b)
  BY <1>8, <1>9, <1>11 DEF Relay, Await
<1>12. CASE DeclineClosing(p, q)
  <2>1. UNCHANGED prompt
    BY <1>12 DEF DeclineClosing
  <2>2. CASE Post(p, q, "reject", "retire")
    BY <1>8, <2>1, <2>2
  <2>3. CASE /\ record' = [record EXCEPT ![q] = "pending"]
             /\ UNCHANGED <<response, wire, unsure, replayed, chain>>
    BY <1>10, <2>1, <2>3
  <2> QED
    BY <1>12, <2>2, <2>3 DEF DeclineClosing
<1> QED
  BY <1>2, <1>11, <1>12

\* The gateway closes: it was the only one to relay.
LEMMA CloseStep ==
  ASSUME IInv, NEW p \in Procs, Close(p)
  PROVE  IInv'
<1> DEFINE deny == {q \in Perms : Deniable(p, q)}
           asks == {q \in Perms : chain[p][q] = "relay"}
<1>1. TypeOK /\ Book /\ PromptTypeOK /\ OneUp /\ \A o \in Procs : Lined(o) /\ Kept(o)
  BY BookHolds, PromptTypes DEF IInv
<1>2. /\ up[p] = "up" /\ up' = [up EXCEPT ![p] = "closed"]
      /\ record' = [q \in Perms |-> IF q \in deny THEN "responding" ELSE record[q]]
      /\ response' = [q \in Perms |-> IF q \in deny THEN "reject" ELSE response[q]]
      /\ wire' = wire \cup deny /\ unsure' = unsure \cup deny
      /\ replayed' = replayed \cup (unsure \cap deny)
      /\ chain' = [chain EXCEPT ![p] =
                     [q \in Perms |-> IF q \in deny THEN "retire"
                                      ELSE IF q \in asks THEN "none" ELSE chain[p][q]]]
  BY DEF Close
<1>3. /\ line' = [line EXCEPT ![p] = <<>>] /\ who' = [who EXCEPT ![p] = NoPerm]
      /\ waiting' = [waiting EXCEPT ![p] = FALSE] /\ text' = [text EXCEPT ![p] = "none"]
      /\ cut' = [cut EXCEPT ![p] = {}]
      /\ UNCHANGED <<native, holder, late, feed, adm, resolved, sending, given>>
  BY DEF Close
<1>4. /\ deny \subseteq Perms
      /\ \A q \in deny : chain[p][q] = "relay" /\ q \notin unsure
      /\ \A q \in asks : q \in Perms /\ chain[p][q] = "relay"
      /\ \A q \in Perms : chain[p][q] = "relay" => q \in asks
  BY <1>1 DEF Book, RelayOpen, Deniable
<1> HIDE DEF deny, asks
<1>5. /\ record' \in [Perms -> {"none", "pending", "relayed", "responding"}]
      /\ response' \in [Perms -> Verdict \cup {"none"}]
      /\ \A q \in Perms : record'[q] = IF q \in deny THEN "responding" ELSE record[q]
      /\ \A q \in Perms : response'[q] = IF q \in deny THEN "reject" ELSE response[q]
  BY <1>1, <1>2 DEF Book, Verdict
<1>6. /\ chain' \in [Procs -> [Perms -> {"none", "relay", "post", "retire"}]]
      /\ \A q \in Perms : chain'[p][q] # "relay"
      /\ \A o \in Procs \ {p} : chain'[o] = chain[o]
  <2> DEFINE row == [q \in Perms |-> IF q \in deny THEN "retire"
                                     ELSE IF q \in asks THEN "none" ELSE chain[p][q]]
  <2>1. row \in [Perms -> {"none", "relay", "post", "retire"}]
    BY <1>1 DEF Book
  <2>2. \A q \in Perms : row[q] # "relay"
    BY <1>4
  <2>3. chain' = [chain EXCEPT ![p] = row]
    BY <1>2
  <2> HIDE DEF row
  <2> QED
    BY <1>1, <2>1, <2>2, <2>3 DEF Book
<1>7. \A o \in Procs, q \in Perms : chain'[o][q] # "relay"
  BY <1>1, <1>2, <1>6 DEF Book, RelayOpen, OneUp
<1>8. RelayOpen' /\ HolderAdmits'
  BY <1>7 DEF RelayOpen, HolderAdmits
<1>9. Sure'
  BY <1>1, <1>2, <1>5 DEF Book, Sure
<1>10. ApprovalWasGiven'
  BY <1>1, <1>3, <1>5 DEF Book, ApprovalWasGiven
<1>11. NeverReplayed'
  BY <1>1, <1>2, <1>4 DEF Book, NeverReplayed
<1>12. \A q \in Perms : record'[q] = "responding" <=> response'[q] # "none"
  BY <1>1, <1>5 DEF Book
<1>13. Book'
  <2>1. wire' \subseteq Perms /\ unsure' \subseteq Perms
    BY <1>1, <1>2, <1>4 DEF Book
  <2> QED
    BY <1>5, <1>6, <1>8, <1>9, <1>10, <1>11, <1>12, <2>1 DEF Book
<1>14. PromptTypeOK'
  BY <1>1, <1>3 DEF PromptTypeOK
<1>15. TypeOK'
  <2>1. /\ up' \in [Procs -> {"off", "up", "closed", "gone"}]
        /\ cut' \in [Procs -> SUBSET Perms] /\ replayed' \subseteq Perms
    BY <1>1, <1>2, <1>3, <1>11 DEF TypeOK, NeverReplayed
  <2> QED
    BY <1>1, <1>3, <1>13, <1>14, <2>1 DEF TypeOK, Book, PromptTypeOK, feed
<1>16. OneUp'
  BY <1>1, <1>2 DEF OneUp, TypeOK
<1>17. ASSUME NEW o \in Procs
       PROVE  Lined(o)' /\ Kept(o)'
  <2>1. CASE o = p
    <3>1. line'[p] = <<>> /\ who'[p] = NoPerm /\ waiting'[p] = FALSE /\ text'[p] = "none"
      BY <1>1, <1>3 DEF PromptTypeOK
    <3> QED
      BY <2>1, <3>1 DEF Lined, Kept
  <2>2. CASE o # p
    <3>1. /\ line'[o] = line[o] /\ who'[o] = who[o] /\ waiting'[o] = waiting[o]
          /\ text'[o] = text[o] /\ chain'[o] = chain[o] /\ given' = given
      BY <1>1, <1>3, <1>6, <2>2 DEF PromptTypeOK
    <3> QED
      BY <1>1, <3>1 DEF Lined, Kept
  <2> QED
    BY <2>1, <2>2
<1> QED
  BY <1>13, <1>15, <1>16, <1>17, PartsSuffice

----------------------------------------------------------------------------
(***************************************************************************)
(* The invariant and what follows from it.                                 *)
(***************************************************************************)

\* No question, no gateway: the invariant holds at first.
LEMMA InitHolds == ASSUME Init PROVE IInv
<1>1. TypeOK
  BY DEF Init, TypeOK
<1>2. Sure /\ ApprovalWasGiven /\ NeverReplayed
  BY DEF Init, Sure, ApprovalWasGiven, NeverReplayed
<1>3. OneUp /\ RelayOpen /\ HolderAdmits
  BY DEF Init, OneUp, RelayOpen, HolderAdmits
<1>4. \A p \in Procs : Lined(p) /\ Kept(p)
  BY DEF Init, Lined, Kept
<1> QED
  BY <1>1, <1>2, <1>3, <1>4 DEF IInv

\* Every step of the specification keeps the invariant.
LEMMA NextKeeps == ASSUME IInv, [Next]_vars PROVE IInv'
<1>1. CASE LoseTurn
  <2>1. CASE \E p \in Procs : TRUE
    BY <1>1, <2>1, LifeSteps
  <2>2. CASE Procs = {}
    BY <1>1, <2>2 DEF LoseTurn, IInv, TypeOK
  <2> QED
    BY <2>1, <2>2
<1>2. ASSUME NEW q \in Perms,
             NativeAsks(q) \/ Deadline(q) \/ HostTakes(q) \/ HostMisses(q)
      PROVE  IInv'
  BY <1>2, HostSteps
<1>3. ASSUME NEW p \in Procs,
             \/ TakeTurn(p) \/ Start(p) \/ Crash(p) \/ Close(p)
             \/ Reconcile(p) \/ InventoryReturns(p) \/ InventoryFails(p)
             \/ StreamBreaks(p) \/ SendReturns(p) \/ SendFails(p) \/ Cancel(p)
      PROVE  IInv'
  BY <1>3, LifeSteps, CloseStep, ReadSteps, SendSteps, CancelStep
<1>4. ASSUME NEW p \in Procs, NEW r \in Verdict, Answer(p, r)
      PROVE  IInv'
  BY <1>4, AnswerStep
<1>5. ASSUME NEW p \in Procs, NEW q \in Perms,
             \/ PostReturns(p, q) \/ PostFails(p, q) \/ EndsUnanswered(p, q)
             \/ AskedEvent(p, q) \/ RepliedEvent(p, q)
      PROVE  IInv'
  BY <1>5, PostEnds, UnansweredStep, EventSteps, RepliedStep
<1>6. ASSUME NEW p \in Procs, NEW q \in Perms, NEW b \in BOOLEAN,
             AdmissionOwned(p, q, b) \/ AdmissionDropped(p, q, b)
      PROVE  IInv'
  BY <1>6, AdmissionStep, EventSteps
<1>7. CASE UNCHANGED vars
  BY <1>7 DEF vars, IInv, TypeOK, Sure, OneUp, RelayOpen, HolderAdmits, Lined, Kept,
              ApprovalWasGiven, NeverReplayed
<1> QED
  BY <1>1, <1>2, <1>3, <1>4, <1>5, <1>6, <1>7 DEF Next

\* The invariant holds in every reachable state.
THEOREM Invariant == Spec => []IInv
<1>1. Init => IInv
  BY InitHolds
<1>2. IInv /\ [Next]_vars => IInv'
  BY NextKeeps
<1> QED
  BY <1>1, <1>2, PTL DEF Spec

\* Every variable keeps its type, and a response is saved exactly while the
\* record says that one is under way.
THEOREM TypeCorrect == Spec => []TypeOK
<1>1. IInv => TypeOK
  BY DEF IInv
<1> QED
  BY <1>1, Invariant, PTL

\* A response whose outcome is not known stays on record, whatever closes,
\* crashes or restarts.
THEOREM UnsureIsRetained == Spec => []Retained
<1>1. IInv => Retained
  BY DEF IInv, TypeOK, Sure, Retained
<1> QED
  BY <1>1, Invariant, PTL

\* No gateway posts a response while an earlier one may have taken effect.
THEOREM ResponsesAreNotReplayed == Spec => []NeverReplayed
<1>1. IInv => NeverReplayed
  BY DEF IInv
<1> QED
  BY <1>1, Invariant, PTL

\* What is approved was approved by the person, through the waiter of the very
\* permission.
THEOREM ApprovalsAreGiven == Spec => []ApprovalWasGiven
<1>1. IInv => ApprovalWasGiven
  BY DEF IInv
<1> QED
  BY <1>1, Invariant, PTL

\* A waiter that can take an answer belongs to a question that is still open.
THEOREM WaitersAreLive == Spec => []WaiterIsLive
<1>1. ASSUME IInv, NEW p \in Procs, waiting[p]
      PROVE  /\ record[who[p]] # "responding" /\ chain[p][who[p]] = "relay"
             /\ who[p] \notin resolved[p]
  <2>1. who[p] \in Perms /\ chain[p][who[p]] = "relay"
    BY <1>1 DEF IInv, TypeOK, Lined
  <2> QED
    BY <1>1, <2>1 DEF IInv, RelayOpen, Sure
<1>2. IInv => WaiterIsLive
  BY <1>1 DEF WaiterIsLive
<1> QED
  BY <1>2, Invariant, PTL

=============================================================================
