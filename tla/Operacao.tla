------------------------------ MODULE Operacao ------------------------------
(*****************************************************************************)
(* The supervisor of the API process (main._supervisionar_grupos) and the     *)
(* watchdog it runs (operacao_service): a round every minute starts another   *)
(* scheduler when the task ended, recovers stuck jobs, warns of what is        *)
(* stopped, and starts workers for the groups created since the startup.       *)
(* A step of a round that raises skips the ones after it.                      *)
(*                                                                            *)
(* Ages are counted in minutes and saturate at the limit of the warning; the   *)
(* queue, the companies and the scheduler are seen through the ages the        *)
(* watchdog reads. The series of failures of an hour is a count like these.    *)
(*****************************************************************************)
EXTENDS Integers, FiniteSets

CONSTANTS Grupos,      \* groups of companies
          Empresas,    \* companies that should be consulted
          Limite,      \* minutes until something stopped is worth a warning
          Intervalo    \* minutes between two warnings of one reason

ASSUME ConstantesOperacao == Limite \in Nat /\ Intervalo \in Nat \ {0}

VARIABLES agendador,   \* the task: "vivo", "pendurado" inside a cycle, "terminado"
          semTick,     \* minutes since the last cycle that ended well, Nunca since the startup
          semCiclo,    \* history: the same, counted from the startup when there was none
          espera,      \* minutes the oldest job waits, SemJob when none does
          rodando,     \* a job runs
          semConsulta, \* by company: minutes since its last finished consulta
          desdeAviso,  \* by reason: minutes since the last warning
          grupos, cobertos, \* groups in the database, groups with workers
          rodada       \* history of the last minute: "nenhuma", "falhou", "completa"

varsOperacao == <<agendador, semTick, semCiclo, espera, rodando, semConsulta, desdeAviso,
                  grupos, cobertos, rodada>>

Motivos == {"agendador_parado", "fila_parada", "empresas_sem_consulta"}
Nunca == -1
SemJob == -1
Idades == 0..Limite
Envelhecer(i) == IF i \in {Nunca, Limite} THEN i ELSE i + 1

InitOperacao ==
    /\ agendador = "vivo" /\ semTick = Nunca /\ semCiclo = 0 /\ espera = SemJob /\ rodando = FALSE
    /\ semConsulta = [e \in Empresas |-> 0] /\ desdeAviso = [m \in Motivos |-> Intervalo]
    /\ grupos \in SUBSET Grupos /\ cobertos = grupos /\ rodada = "nenhuma"

-----------------------------------------------------------------------------
\* The scheduler: a cycle that raises leaves no tick and goes on.

Ciclo == agendador = "vivo" /\ semTick' = 0 /\ semCiclo' = 0 /\ UNCHANGED agendador
Parar(como) == agendador = "vivo" /\ agendador' = como /\ UNCHANGED <<semTick, semCiclo>>

Agendar ==
    /\ Ciclo \/ \E como \in {"pendurado", "terminado"} : Parar(como)
    /\ UNCHANGED <<espera, rodando, semConsulta, desdeAviso, grupos, cobertos, rodada>>

\* The queue and the companies, as the watchdog sees them: a job that ends in
\* error counts for no company.
Fila ==
    /\ \/ espera = SemJob /\ espera' = 0 /\ UNCHANGED <<rodando, semConsulta>>
       \/ espera # SemJob /\ ~rodando /\ espera' = SemJob /\ rodando' = TRUE /\ UNCHANGED semConsulta
       \/ rodando /\ rodando' = FALSE /\ UNCHANGED espera
          /\ \/ UNCHANGED semConsulta
             \/ \E e \in Empresas : semConsulta' = [semConsulta EXCEPT ![e] = 0]
    /\ UNCHANGED <<agendador, semTick, semCiclo, desdeAviso, grupos, cobertos, rodada>>

CriarGrupo(g) ==
    /\ g \notin grupos /\ grupos' = grupos \cup {g}
    /\ UNCHANGED <<agendador, semTick, semCiclo, espera, rodando, semConsulta, desdeAviso, cobertos, rodada>>

-----------------------------------------------------------------------------
\* The round.

\* What estado_operacao and problemas find; a scheduler with no tick yet is not judged.
Problemas == {m \in Motivos :
    CASE m = "agendador_parado" -> semTick = Limite
      [] m = "fila_parada" -> espera = Limite /\ ~rodando
      [] OTHER -> \E e \in Empresas : semConsulta[e] = Limite}

PodeAvisarDefeituoso(m) == \A n \in Motivos : desdeAviso[n] >= Intervalo
PodeAvisar(m) == desdeAviso[m] >= Intervalo

\* Each reason on its own, marked before the warning leaves.
Avisados(ms) == [m \in Motivos |-> IF m \in ms /\ PodeAvisar(m) THEN 0 ELSE desdeAviso[m]]

\* Where a round may raise: recovering the jobs, reading the state, sending the warning of m
\* (the reasons after it wait for another round), reading the groups.
Falhas == {"recuperar", "estado", "grupos", "nenhuma"} \cup Motivos
RecriadoDefeituoso(falha) ==
    IF agendador = "terminado" /\ falha # "recuperar" THEN "vivo" ELSE agendador
Recriado(falha) == IF agendador = "terminado" THEN "vivo" ELSE agendador

Rodada(falha, ate) ==
    /\ rodada = "nenhuma"
    /\ agendador' = Recriado(falha)
    /\ desdeAviso' = CASE falha \in {"recuperar", "estado"} -> desdeAviso
                       [] falha \in Motivos -> Avisados(ate)
                       [] OTHER -> Avisados(Problemas)
    /\ cobertos' = IF falha = "nenhuma" THEN cobertos \cup grupos ELSE cobertos
    /\ rodada' = IF falha = "nenhuma" THEN "completa" ELSE "falhou"
    /\ UNCHANGED <<semTick, semCiclo, espera, rodando, semConsulta, grupos>>

Supervisionar ==
    \E falha \in Falhas, ate \in SUBSET Problemas :
        /\ falha \in Motivos => falha \in ate /\ PodeAvisar(falha)
        /\ falha \notin Motivos => ate = {}
        /\ Rodada(falha, ate)

\* A minute: the supervisor had its turn.
Minuto ==
    /\ rodada # "nenhuma" /\ rodada' = "nenhuma"
    /\ semTick' = Envelhecer(semTick) /\ semCiclo' = Envelhecer(semCiclo)
    /\ espera' = Envelhecer(espera) /\ semConsulta' = [e \in Empresas |-> Envelhecer(semConsulta[e])]
    /\ desdeAviso' = [m \in Motivos |-> IF desdeAviso[m] < Intervalo THEN desdeAviso[m] + 1 ELSE Intervalo]
    /\ UNCHANGED <<agendador, rodando, grupos, cobertos>>

\* The process starts again: the scheduler, the ages it keeps and its workers are new.
Reiniciar ==
    /\ agendador' = "vivo" /\ semTick' = Nunca /\ semCiclo' = 0 /\ cobertos' = grupos
    /\ desdeAviso' = [m \in Motivos |-> Intervalo] /\ rodada' = "nenhuma"
    /\ UNCHANGED <<espera, rodando, semConsulta, grupos>>

NextOperacao == Agendar \/ Fila \/ Supervisionar \/ Minuto \/ Reiniciar \/ \E g \in Grupos : CriarGrupo(g)

\* The loop of the supervisor catches what its calls raise and sleeps a minute: rounds go on,
\* whatever fails in each, and the clock with them. The scheduler owes nothing.
SpecOperacao == /\ InitOperacao /\ [][NextOperacao]_varsOperacao
                /\ WF_varsOperacao(Supervisionar) /\ WF_varsOperacao(Minuto)

-----------------------------------------------------------------------------
\* A task of the scheduler that ended is replaced in the end although every round may fail, by
\* the database away for instance, in the recovery of jobs or anywhere after it: the automatic
\* consultas do not stay stopped until the portal restarts (_recriar_agendador_se_parado).
AgendadorVolta == agendador = "terminado" ~> agendador # "terminado"

Parado(m) == CASE m = "agendador_parado" -> semCiclo = Limite
               [] m = "fila_parada" -> espera = Limite /\ ~rodando
               [] OTHER -> \E e \in Empresas : semConsulta[e] = Limite

\* After a round that did not fail, each thing found stopped was warned of within the interval,
\* one reason never silencing another, and every group has workers.
RodadaCompletaCuida ==
    [][Supervisionar /\ rodada' = "completa" =>
          /\ \A m \in Motivos : Parado(m) /\ (m = "agendador_parado" => semTick # Nunca)
                                  => desdeAviso'[m] < Intervalo
          /\ cobertos' = grupos']_varsOperacao
=============================================================================
