---------------------------- MODULE MCEscalation ----------------------------
EXTENDS Escalation

\* Whether the host's inventory is read and the stream may break: then one permission
\* and two gateways, otherwise one gateway and two permissions of one person, asked in
\* order, of which one deadline passes.
VARIABLE reading

RestartBound == native'[2] = "unasked"
PairBound ==
  /\ native'[2] # "unasked" => native'[1] # "unasked"
  /\ \A p, q \in late' : p = q
  /\ up'[2] = "off" /\ \A p \in Procs : ~Reconcile(p) /\ ~StreamBreaks(p)

MCInit == Init /\ reading \in BOOLEAN
MCNext == /\ Next /\ UNCHANGED reading
          /\ IF reading THEN RestartBound ELSE PairBound

\* The fairness is that of gateways that read the inventory; the pair is checked for
\* safety.
MCSpec == MCInit /\ [][MCNext]_<<vars, reading>> /\ Fairness
=============================================================================
