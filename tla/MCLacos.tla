------------------------------ MODULE MCLacos ------------------------------
(***************************************************************************)
(* The loops of the process and what they owe: those that take consultas to *)
(* their end (FilaConsultas) and the supervisor that watches the scheduler  *)
(* (Operacao). They share no state here, so a behaviour is one of them      *)
(* moving: parte says which, and the other stays as it began.               *)
(***************************************************************************)
EXTENDS FilaConsultas, Operacao

VARIABLE parte

MCInit == /\ parte \in {"fila", "operacao"}
          /\ Init /\ InitOperacao
          /\ parte = "fila" => grupos = Grupos

PassoFila == parte = "fila" /\ Next /\ UNCHANGED varsOperacao
PassoOperacao == parte = "operacao" /\ NextOperacao /\ UNCHANGED vars

MCNext == (PassoFila \/ PassoOperacao) /\ UNCHANGED parte

\* The fairness of both: what the queue owes is owed where there are consultas,
\* and the supervisor is the part that moves or owes nothing.
MCSpec == /\ MCInit /\ [][MCNext]_<<vars, varsOperacao, parte>>
          /\ Justica
          /\ WF_varsOperacao(parte = "operacao" /\ Supervisionar)
          /\ WF_varsOperacao(parte = "operacao" /\ Minuto)
=============================================================================
