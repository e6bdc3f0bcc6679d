---------------------------- MODULE MCColetaNsu ----------------------------
(* Instances of ColetaNsu for TLC. *)
EXTENDS ColetaNsu

\* Every shape of the stream, and the one with notas only.
TodosOsAlvos == {f \in [Nsus -> Nsus] : \A n \in Nsus : f[n] <= n /\ f[f[n]] = f[n]}
SoNotasAlvos == {[n \in Nsus |-> n]}
EventoNoFim  == {[n \in Nsus |-> IF n = MaxNsu THEN 1 ELSE n]}
NotasOuEventoNoFim == SoNotasAlvos \cup EventoNoFim
=============================================================================
