---------------------------- MODULE MCHostedCall ----------------------------
EXTENDS HostedCall

\* A phase's turn sends outside the journal, or a second gateway starts, not both.
Bound == (loose = {} /\ aside = {}) \/ up[2] = "off"

BoundSpec == Init /\ [][Next /\ Bound']_vars /\ Fairness
=============================================================================
