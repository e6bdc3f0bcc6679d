-------------------------- MODULE MCFilaConsultas --------------------------
(* Instances of FilaConsultas for TLC. *)
EXTENDS FilaConsultas, TLC

Simetria == Permutations(Workers) \cup Permutations(Certificados)
=============================================================================
