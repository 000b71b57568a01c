--------------------------- MODULE MCTrustedSend ---------------------------
(* Two sessions, one with a text and one with a file for its own tab, and a  *)
(* screenshot that shares the tab of the first.                              *)
EXTENDS TrustedSend

CONSTANTS s1, s2, k1, t1, t2

MCTabOf == [w \in {s1, s2, k1} |-> IF w = s2 THEN t2 ELSE t1]
MCMaxTries == [s \in {s1, s2} |-> IF s = s1 THEN 2 ELSE 1]
=============================================================================
