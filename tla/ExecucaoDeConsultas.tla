------------------------ MODULE ExecucaoDeConsultas ------------------------
(***************************************************************************)
(* What the queue of consultations promises to the ADN and to the operator, *)
(* without rows, locks, heartbeats or recoveries: the engine runs for a     *)
(* certificate at most once at a time, and a consulta whose outcome was     *)
(* written is over.  FilaConsultas is shown to implement it.                *)
(***************************************************************************)
CONSTANTS Executores, Certificados, Consultas

VARIABLES
  execucoes,    \* per certificate, the <<executor, consulta>> under way
  concluidas    \* consultas with an outcome

vars == <<execucoes, concluidas>>

EmCurso(i) == \E c \in Certificados, w \in Executores : <<w, i>> \in execucoes[c]

Init == /\ execucoes = [c \in Certificados |-> {}]
        /\ concluidas = {}

Comecar(w, i, c) ==
  /\ execucoes[c] = {}
  /\ i \notin concluidas
  /\ ~EmCurso(i)
  /\ execucoes' = [execucoes EXCEPT ![c] = {<<w, i>>}]
  /\ UNCHANGED concluidas

\* The engine ended and the outcome of its own consulta is written.
Concluir(w, i, c) ==
  /\ execucoes[c] = {<<w, i>>}
  /\ execucoes' = [execucoes EXCEPT ![c] = {}]
  /\ concluidas' = concluidas \cup {i}

\* Cancelled, or its executor died: no outcome.
Interromper(c) ==
  /\ execucoes[c] # {}
  /\ execucoes' = [execucoes EXCEPT ![c] = {}]
  /\ UNCHANGED concluidas

\* An error before the engine started is an outcome as well.
Recusar(i) ==
  /\ ~EmCurso(i)
  /\ concluidas' = concluidas \cup {i}
  /\ UNCHANGED execucoes

Next ==
  \/ \E c \in Certificados :
       \/ Interromper(c)
       \/ \E w \in Executores, i \in Consultas : Comecar(w, i, c) \/ Concluir(w, i, c)
  \/ \E i \in Consultas : Recusar(i)

Spec == Init /\ [][Next]_vars
=============================================================================
