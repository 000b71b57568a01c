------------------------- MODULE MCOutboundJournal --------------------------
(* OutboundJournal with two competing senders, two messages, three attempts. *)
EXTENDS OutboundJournal, TLC

CONSTANTS s1, s2, m1, m2, a1, a2, a3

MCSenders == {s1, s2}
MCMessages == {m1, m2}
MCAttempts == {a1, a2, a3}
Symm == Permutations(MCSenders) \cup Permutations(MCMessages) \cup Permutations(MCAttempts)
==============================================================================
