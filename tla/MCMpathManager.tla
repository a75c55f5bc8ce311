--------------------------- MODULE MCMpathManager ---------------------------
(***************************************************************************)
(* Two relays of different bandwidth, of which one alone may or may not    *)
(* meet the requirement of the model checker's configuration.              *)
(***************************************************************************)
EXTENDS MpathManager, FiniteSetsExt

MCBandwidth ==
  LET richest == CHOOSE r \in Relays : TRUE
  IN  [r \in Relays |-> IF r = richest THEN 2 ELSE 1]
=============================================================================
