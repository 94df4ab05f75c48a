--------------------------- MODULE MCSharedGraph ---------------------------
(* Two workers on one database, as every configuration file gives them.    *)
EXTENDS SharedGraph

CONSTANTS w1, w2, d1, d2

OneDatabase == [w \in Workers |-> d1]
=============================================================================
