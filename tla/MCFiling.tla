------------------------------ MODULE MCFiling ------------------------------
(* Filing for TLC: two writers, every pair of commands once. *)
EXTENDS Filing

First == CHOOSE w \in Writer : TRUE

Pairs ==
  {r \in [Writer -> {"filer", "returner", "registrar"}] : \A w \in Writer :
     /\ r[First] = "registrar" => r[w] = "registrar"
     /\ r[First] = "returner" => r[w] # "filer"}
=============================================================================
