-------------------------- MODULE MCSessionRegistry --------------------------
(* SessionRegistry on three writers, two slots, one known and two new conversations. *)
EXTENDS SessionRegistry

CONSTANTS c1, c2, c3, v1, v2, v3

MCClients == {c1, c2, c3}
MCConvs == {v1, v2, v3}
MCKnownConvs == {v1}
==============================================================================
