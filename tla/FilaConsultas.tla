--------------------------- MODULE FilaConsultas ---------------------------
(***************************************************************************)
(* The queue of consultations ("consultas") to the ADN: who creates them,  *)
(* who claims them, the lock of a certificate, the heartbeat, the recovery *)
(* of stuck jobs and the cancellations.                                    *)
(*                                                                         *)
(* A consulta is one row of "processos" and its one row of                 *)
(* "processos_jobs": the code always creates the two together.  Every      *)
(* action below is one committed transaction; where the code reads in one  *)
(* transaction (or on one side of a long wait) and writes in another, the  *)
(* two are separate actions and what was read is kept in a variable.       *)
(*                                                                         *)
(* Time is not counted.  What the code compares with the clock is a flag   *)
(* that an action of the environment raises: a heartbeat too old, a lock   *)
(* past its expires_at, a cycle that is due, a job past its available_at.  *)
(*                                                                         *)
(* An operator called XxxDefeituoso is a plausible bug in Xxx, kept next   *)
(* to it to see which property would notice; no specification uses it.     *)
(***************************************************************************)
EXTENDS Naturals, FiniteSets

CONSTANTS
  Workers,        \* worker identities, each one drawn once (uuid) and never reused
  Certificados,   \* eligible certificates of one group
  NumConsultas,   \* bound: consultas the instance may create
  Origens,        \* who enqueues: "agendador" and requests to the API
  MaxFalhas,      \* bound: exceptions that escape the handlers of a job
  MaxAtrasos,     \* bound: heartbeats or locks that lapse under a live execution
  MaxQuedas,      \* bound: workers whose process dies
  MaxCancelamentos, \* bound: requests that cancel consultas
  Nenhum          \* NULL in locked_by

ASSUME ConstantesFila ==
  /\ NumConsultas \in Nat
  /\ MaxFalhas \in Nat /\ MaxAtrasos \in Nat /\ MaxQuedas \in Nat
  /\ MaxCancelamentos \in Nat
  /\ Nenhum \notin Workers
  /\ Nenhum \notin Certificados

Consultas == 1..NumConsultas
SemTarefa == 0
Agendador == "agendador"

VARIABLES
  statusProcesso, statusJob, lockedBy, semBatida, certificadoDe,
  disponivel, ordem,                 \* rank of available_at, 0 while in the future
  titular, lockVencido,              \* locks_processamento
  pc, tarefa, vistoProcesso, vistoJob, resultado, heartbeat,  \* the workers
  pedido,                            \* enqueue requests under way
  cancelando,                        \* processo read by a cancel request
  monitorAtivo, cicloVencido,        \* monitoramento_config
  falhas, atrasos, quedas, cancelamentos   \* how much of each bound was used

varsConsulta == <<statusProcesso, statusJob, lockedBy, semBatida, certificadoDe>>
varsOrdem    == <<disponivel, ordem>>
varsLock     == <<titular, lockVencido>>
varsWorker   == <<pc, tarefa, vistoProcesso, vistoJob, resultado, heartbeat>>
varsPedido   == <<pedido, cancelando, monitorAtivo, cicloVencido>>
varsLimite   == <<falhas, atrasos, quedas, cancelamentos>>
vars == <<varsConsulta, varsOrdem, varsLock, varsWorker, varsPedido, varsLimite>>

Ativos    == {"pendente", "rodando"}
Encerrados == {"finalizado", "erro", "cancelado"}
Status    == Ativos \cup Encerrados
Fases     == {"livre", "reservado", "lido", "executando", "concluindo",
              "falhando", "liberando", "morto"}

Pedido    == [fase : {"nada", "ler", "gravar"},
              modo : {"nada", "ciclo", "avulsa", "automatico", "soma"},
              forcar : BOOLEAN,
              certs : SUBSET Certificados]

TypeOK ==
  /\ statusProcesso \in [Consultas -> Status \cup {"inexistente"}]
  /\ statusJob \in [Consultas -> Status \cup {"inexistente"}]
  /\ lockedBy \in [Consultas -> Workers \cup {Nenhum}]
  /\ semBatida \in [Consultas -> BOOLEAN]
  /\ certificadoDe \in [Consultas -> Certificados \cup {Nenhum}]
  /\ disponivel \in [Consultas -> Nat]
  /\ ordem \in Nat
  /\ titular \in [Certificados -> Workers \cup {Nenhum}]
  /\ lockVencido \in [Certificados -> BOOLEAN]
  /\ pc \in [Workers -> Fases]
  /\ tarefa \in [Workers -> Consultas \cup {SemTarefa}]
  /\ vistoProcesso \in [Workers -> Status \cup {"inexistente"}]
  /\ vistoJob \in [Workers -> Status \cup {"inexistente"}]
  /\ resultado \in [Workers -> {"nada", "finalizado", "erro"}]
  /\ heartbeat \in [Workers -> BOOLEAN]
  /\ pedido \in [Origens -> Pedido]
  /\ cancelando \in Consultas \cup {SemTarefa}
  /\ monitorAtivo \in BOOLEAN
  /\ cicloVencido \in BOOLEAN
  /\ falhas \in Nat /\ atrasos \in Nat /\ quedas \in Nat /\ cancelamentos \in Nat

SemPedido == [fase |-> "nada", modo |-> "nada", forcar |-> FALSE, certs |-> {}]

Init ==
  /\ statusProcesso = [i \in Consultas |-> "inexistente"]
  /\ statusJob = [i \in Consultas |-> "inexistente"]
  /\ lockedBy = [i \in Consultas |-> Nenhum]
  /\ semBatida = [i \in Consultas |-> FALSE]
  /\ certificadoDe = [i \in Consultas |-> Nenhum]
  /\ disponivel = [i \in Consultas |-> 0]
  /\ ordem = 0
  /\ titular = [c \in Certificados |-> Nenhum]
  /\ lockVencido = [c \in Certificados |-> FALSE]
  /\ pc = [w \in Workers |-> "livre"]
  /\ tarefa = [w \in Workers |-> SemTarefa]
  /\ vistoProcesso = [w \in Workers |-> "inexistente"]
  /\ vistoJob = [w \in Workers |-> "inexistente"]
  /\ resultado = [w \in Workers |-> "nada"]
  /\ heartbeat = [w \in Workers |-> FALSE]
  /\ pedido = [o \in Origens |-> SemPedido]
  /\ cancelando = SemTarefa
  /\ monitorAtivo \in BOOLEAN
  /\ cicloVencido = TRUE
  /\ falhas = 0 /\ atrasos = 0 /\ quedas = 0 /\ cancelamentos = 0

-----------------------------------------------------------------------------
(* Enqueueing                                                              *)

Inexistentes == {i \in Consultas : statusProcesso[i] = "inexistente"}

ComConsultaAtivaDefeituosa ==
  {certificadoDe[i] : i \in {k \in Consultas : statusProcesso[k] = "rodando"}}

ComConsultaAtiva ==   \* _active_consulta_certificado_ids
  {certificadoDe[i] : i \in {k \in Consultas : statusProcesso[k] \in Ativos}}

\* The processos P are cancelled, and the jobs J.
CancelarLinhas(P, J) ==
  /\ statusProcesso' = [i \in Consultas |-> IF i \in P THEN "cancelado" ELSE statusProcesso[i]]
  /\ statusJob' = [i \in Consultas |-> IF i \in J THEN "cancelado" ELSE statusJob[i]]
  /\ lockedBy' = [i \in Consultas |-> IF i \in J THEN Nenhum ELSE lockedBy[i]]
  /\ UNCHANGED <<semBatida, certificadoDe>>

\* A request that turns the monitor on has flushed the row of its configuration
\* and keeps it locked until it commits: whoever writes that row waits.
MonitorTravado ==
  \E o \in Origens : pedido[o].fase = "gravar" /\ pedido[o].modo = "automatico"

\* A processo pendente loses only its pending jobs and a processo rodando only
\* its running ones: a job already claimed whose processo still reads pendente
\* escapes both queries.
DesativarConsultas ==
  /\ ~MonitorTravado
  /\ monitorAtivo' = FALSE
  /\ cicloVencido' = TRUE
  /\ LET P == {i \in Consultas : statusProcesso[i] \in Ativos}
     IN CancelarLinhas(P, {i \in P : statusJob[i] = statusProcesso[i]})

CancelarDosCertificados(C) ==
  LET P == {i \in Consultas : statusProcesso[i] \in Ativos /\ certificadoDe[i] \in C}
  IN CancelarLinhas(P, {i \in P : statusJob[i] \in Ativos})

\* One processo and one job per certificate of C.  Ids grow with the order of
\* creation.  With distribuir only the first one is available at once.
CriarConsultas(C, distribuir) ==
  \E novos \in SUBSET Inexistentes : \E g \in [novos -> C] :
    /\ \A i \in novos, k \in Inexistentes \ novos : i < k
    /\ \A c \in C : \E i \in novos : g[i] = c
    /\ \A i, k \in novos : g[i] = g[k] => i = k
    /\ statusProcesso' = [i \in Consultas |-> IF i \in novos THEN "pendente" ELSE statusProcesso[i]]
    /\ statusJob' = [i \in Consultas |-> IF i \in novos THEN "pendente" ELSE statusJob[i]]
    /\ certificadoDe' = [i \in Consultas |-> IF i \in novos THEN g[i] ELSE certificadoDe[i]]
    /\ disponivel' = [i \in Consultas |->
                        IF i \in novos /\ (distribuir => \A k \in novos : i <= k)
                        THEN ordem + 1 ELSE disponivel[i]]
    /\ ordem' = IF novos = {} THEN ordem ELSE ordem + 1
    /\ UNCHANGED <<lockedBy, semBatida>>

\* What enqueue_consultas_pendentes decides before it inserts: the requested
\* certificates without a consulta pendente or rodando, or all with forcar.
LerElegiveis(o, modo, forcar, alvo) ==
  /\ modo = "automatico" => ~MonitorTravado
  /\ pedido' = [pedido EXCEPT ![o] =
    [fase |-> "gravar", modo |-> modo, forcar |-> FALSE,
     certs |-> IF forcar THEN alvo ELSE alvo \ ComConsultaAtiva]]

\* One tick of the scheduler over an active group whose cycle is due.
CicloAgendador ==
  /\ Agendador \in Origens
  /\ pedido[Agendador].fase = "nada"
  /\ monitorAtivo /\ cicloVencido
  /\ LerElegiveis(Agendador, "ciclo", FALSE, Certificados)
  /\ UNCHANGED <<varsConsulta, varsOrdem, varsLock, varsWorker,
                 cancelando, monitorAtivo, cicloVencido, varsLimite>>

\* How the API asks: "avulsa" leaves the monitor alone, "automatico" turns it on
\* and "soma" adds a certificate to a monitor that is on.
Modos == {"avulsa", "automatico"} \cup (IF monitorAtivo THEN {"soma"} ELSE {})

\* POST /consultas/iniciar, /consultas/releitura-mes-anterior and the
\* self-registration of a certificate, without an nsu_inicio.
PedirConsulta(o) ==
  /\ o # Agendador
  /\ pedido[o].fase = "nada"
  /\ \E alvo \in SUBSET Certificados, forcar \in BOOLEAN, modo \in Modos :
       /\ alvo # {}
       /\ LerElegiveis(o, modo, forcar, alvo)
  /\ UNCHANGED <<varsConsulta, varsOrdem, varsLock, varsWorker,
                 cancelando, monitorAtivo, cicloVencido, varsLimite>>

\* The same with an nsu_inicio: the consultas in the way are cancelled and
\* committed first, then the request goes on as above.
PedirConsultaComNsu(o) ==
  /\ o # Agendador
  /\ pedido[o].fase = "nada"
  /\ cancelamentos < MaxCancelamentos
  /\ cancelamentos' = cancelamentos + 1
  /\ \E alvo \in SUBSET Certificados, forcar \in BOOLEAN, modo \in Modos \ {"soma"} :
       /\ alvo # {}
       /\ pedido' = [pedido EXCEPT ![o] =
            [fase |-> "ler", modo |-> modo, forcar |-> forcar, certs |-> alvo]]
       /\ IF modo = "automatico"
          THEN DesativarConsultas
          ELSE CancelarDosCertificados(alvo) /\ UNCHANGED <<monitorAtivo, cicloVencido>>
  /\ UNCHANGED <<varsOrdem, varsLock, varsWorker, cancelando, falhas, atrasos, quedas>>

SeguirPedidoComNsu(o) ==
  /\ pedido[o].fase = "ler"
  /\ LerElegiveis(o, pedido[o].modo, pedido[o].forcar, pedido[o].certs)
  /\ UNCHANGED <<varsConsulta, varsOrdem, varsLock, varsWorker,
                 cancelando, monitorAtivo, cicloVencido, varsLimite>>

\* The insert and commit of enqueue_consultas_pendentes.  Only a scheduler
\* cycle spreads its jobs; a request that is not avulsa also moves the cycle.
GravarConsultas(o) ==
  /\ pedido[o].fase = "gravar"
  /\ MonitorTravado => pedido[o].modo \in {"automatico", "avulsa"}
  /\ CriarConsultas(pedido[o].certs, pedido[o].modo = "ciclo")
  /\ monitorAtivo' = (pedido[o].modo = "automatico" \/ monitorAtivo)
  /\ cicloVencido' = (pedido[o].modo = "avulsa" /\ cicloVencido)
  /\ pedido' = [pedido EXCEPT ![o] = SemPedido]
  /\ UNCHANGED <<varsLock, varsWorker, cancelando, varsLimite>>

\* POST /processos: one consulta for one certificate, with no look at the others.
CriarProcesso(o) ==
  /\ o # Agendador
  /\ \E c \in Certificados : CriarConsultas({c}, FALSE)
  /\ UNCHANGED <<varsLock, varsWorker, varsPedido, varsLimite>>

-----------------------------------------------------------------------------
(* Cancelling                                                              *)

DesativarMonitor ==
  /\ Origens \ {Agendador} # {}
  /\ cancelamentos < MaxCancelamentos
  /\ cancelamentos' = cancelamentos + 1
  /\ DesativarConsultas
  /\ UNCHANGED <<varsOrdem, varsLock, varsWorker, pedido, cancelando,
                 falhas, atrasos, quedas>>

\* cancelar_processo reads the processo and answers at once if it is over...
LerParaCancelar(i) ==
  /\ cancelando = SemTarefa
  /\ cancelamentos < MaxCancelamentos
  /\ statusProcesso[i] \in Ativos
  /\ cancelando' = i
  /\ cancelamentos' = cancelamentos + 1
  /\ UNCHANGED <<varsConsulta, varsOrdem, varsLock, varsWorker, pedido,
                 monitorAtivo, cicloVencido, falhas, atrasos, quedas>>

\* ... and then writes, with the jobs that are pendente by then.
GravarCancelamento ==
  /\ cancelando # SemTarefa
  /\ CancelarLinhas({cancelando}, {i \in {cancelando} : statusJob[i] = "pendente"})
  /\ cancelando' = SemTarefa
  /\ UNCHANGED <<varsOrdem, varsLock, varsWorker, pedido,
                 monitorAtivo, cicloVencido, varsLimite>>

-----------------------------------------------------------------------------
(* The worker                                                              *)

\* An attribute set to the value the session has loaded is not dirty, so the
\* UPDATE leaves that column as it is in the database.
Gravar(visto, atual, novo) == IF visto = novo THEN atual ELSE novo

Vivo(w) == pc[w] # "morto"

\* The worker drops what it knew of its job.
Largar(w, fase) ==
  /\ pc' = [pc EXCEPT ![w] = fase]
  /\ tarefa' = [tarefa EXCEPT ![w] = SemTarefa]
  /\ vistoProcesso' = [vistoProcesso EXCEPT ![w] = "inexistente"]
  /\ vistoJob' = [vistoJob EXCEPT ![w] = "inexistente"]
  /\ resultado' = [resultado EXCEPT ![w] = "nada"]
  /\ heartbeat' = [heartbeat EXCEPT ![w] = FALSE]

\* Head of the queue: the pending job with the oldest available_at, then the
\* lowest id.
NaFilaDefeituosa(i) == statusJob[i] \in {"pendente", "erro"} /\ disponivel[i] > 0

NaFila(i) == statusJob[i] = "pendente" /\ disponivel[i] > 0
Antes(i, k) == \/ disponivel[i] < disponivel[k]
               \/ disponivel[i] = disponivel[k] /\ i <= k
EhPrimeiro(i) == NaFila(i) /\ \A k \in Consultas : NaFila(k) => Antes(i, k)

\* claim_next_pending_job: the conditional UPDATE and its commit.
Reservar(w) ==
  /\ pc[w] = "livre"
  /\ \E i \in Consultas :
       /\ EhPrimeiro(i)
       /\ statusJob' = [statusJob EXCEPT ![i] = "rodando"]
       /\ lockedBy' = [lockedBy EXCEPT ![i] = w]
       /\ semBatida' = [semBatida EXCEPT ![i] = FALSE]
       /\ tarefa' = [tarefa EXCEPT ![w] = i]
  /\ pc' = [pc EXCEPT ![w] = "reservado"]
  /\ UNCHANGED <<statusProcesso, certificadoDe, vistoProcesso, vistoJob, resultado,
                 heartbeat, varsOrdem, varsLock, varsPedido, varsLimite>>

ReservadosPor(w) == {i \in Consultas : statusJob[i] = "rodando" /\ lockedBy[i] = w}

\* The job read back after the claim is the newest one rodando with this
\* worker's name: the one claimed, or an older one left behind if it is gone.
JobLido(w) ==
  IF tarefa[w] \in ReservadosPor(w) THEN {tarefa[w]} ELSE ReservadosPor(w)

LerReserva(w) ==
  /\ pc[w] = "reservado"
  /\ \E i \in JobLido(w) :
       /\ statusProcesso[i] # "cancelado"
       /\ tarefa' = [tarefa EXCEPT ![w] = i]
       /\ vistoProcesso' = [vistoProcesso EXCEPT ![w] = statusProcesso[i]]
       /\ vistoJob' = [vistoJob EXCEPT ![w] = "rodando"]
  /\ pc' = [pc EXCEPT ![w] = "lido"]
  /\ UNCHANGED <<varsConsulta, varsOrdem, varsLock, resultado, heartbeat,
                 varsPedido, varsLimite>>

\* The processo was cancelled while its job waited: the job follows it.
DescartarReserva(w) ==
  /\ pc[w] = "reservado"
  /\ \E i \in JobLido(w) :
       /\ statusProcesso[i] = "cancelado"
       /\ statusJob' = [statusJob EXCEPT ![i] = "cancelado"]
       /\ lockedBy' = [lockedBy EXCEPT ![i] = Nenhum]
  /\ Largar(w, "livre")
  /\ UNCHANGED <<statusProcesso, semBatida, certificadoDe, varsOrdem, varsLock,
                 varsPedido, varsLimite>>

PerderReserva(w) ==
  /\ pc[w] = "reservado"
  /\ JobLido(w) = {}
  /\ Largar(w, "livre")
  /\ UNCHANGED <<varsConsulta, varsOrdem, varsLock, varsPedido, varsLimite>>

CertDe(w) == certificadoDe[tarefa[w]]

EntrarEmExecucaoDefeituosa(w) ==   \* the lock in the name of the job
  /\ titular' = [titular EXCEPT ![CertDe(w)] = tarefa[w]]
  /\ lockVencido' = [lockVencido EXCEPT ![CertDe(w)] = FALSE]
  /\ semBatida' = [semBatida EXCEPT ![tarefa[w]] = FALSE]
  /\ pc' = [pc EXCEPT ![w] = "executando"]
  /\ heartbeat' = [heartbeat EXCEPT ![w] = TRUE]
  /\ UNCHANGED <<certificadoDe, tarefa, vistoProcesso, vistoJob, resultado,
                 varsOrdem, varsPedido, varsLimite>>

EntrarEmExecucao(w) ==
  /\ titular' = [titular EXCEPT ![CertDe(w)] = w]
  /\ lockVencido' = [lockVencido EXCEPT ![CertDe(w)] = FALSE]
  /\ semBatida' = [semBatida EXCEPT ![tarefa[w]] = FALSE]
  /\ pc' = [pc EXCEPT ![w] = "executando"]
  /\ heartbeat' = [heartbeat EXCEPT ![w] = TRUE]
  /\ UNCHANGED <<certificadoDe, tarefa, vistoProcesso, vistoJob, resultado,
                 varsOrdem, varsPedido, varsLimite>>

\* A free lock is inserted; job and processo are written from what was loaded.
IniciarComLockLivre(w) ==
  /\ pc[w] = "lido"
  /\ titular[CertDe(w)] = Nenhum
  /\ statusProcesso' = [statusProcesso EXCEPT ![tarefa[w]] =
                          Gravar(vistoProcesso[w], @, "rodando")]
  /\ statusJob' = [statusJob EXCEPT ![tarefa[w]] = Gravar(vistoJob[w], @, "rodando")]
  /\ UNCHANGED lockedBy
  /\ EntrarEmExecucao(w)

IniciarComLockVencidoDefeituoso(w) ==   \* the UPDATE without expires_at < now
  /\ pc[w] = "lido"
  /\ titular[CertDe(w)] # Nenhum
  /\ statusProcesso' = [statusProcesso EXCEPT ![tarefa[w]] = "rodando"]
  /\ statusJob' = [statusJob EXCEPT ![tarefa[w]] = "rodando"]
  /\ lockedBy' = [lockedBy EXCEPT ![tarefa[w]] = w]
  /\ EntrarEmExecucao(w)

\* An expired lock is taken over by the conditional UPDATE; expire_all makes the
\* session load job and processo again before it writes them.
IniciarComLockVencido(w) ==
  /\ pc[w] = "lido"
  /\ titular[CertDe(w)] # Nenhum
  /\ lockVencido[CertDe(w)]
  /\ statusProcesso' = [statusProcesso EXCEPT ![tarefa[w]] = "rodando"]
  /\ statusJob' = [statusJob EXCEPT ![tarefa[w]] = "rodando"]
  /\ lockedBy' = [lockedBy EXCEPT ![tarefa[w]] = w]
  /\ EntrarEmExecucao(w)

\* The lock is busy: the job goes back to its place in the queue.
DevolverParaFila(w) ==
  /\ pc[w] = "lido"
  /\ titular[CertDe(w)] # Nenhum
  /\ ~lockVencido[CertDe(w)]
  /\ statusJob' = [statusJob EXCEPT ![tarefa[w]] = "pendente"]
  /\ lockedBy' = [lockedBy EXCEPT ![tarefa[w]] = Nenhum]
  /\ semBatida' = [semBatida EXCEPT ![tarefa[w]] = FALSE]
  /\ Largar(w, "livre")
  /\ UNCHANGED <<statusProcesso, certificadoDe, varsOrdem, varsLock,
                 varsPedido, varsLimite>>

\* renovar_lease: conditional on the job still being this worker's; once it is
\* not, the thread ends for good.
Renovar(w) ==
  /\ pc[w] = "executando" /\ heartbeat[w]
  /\ IF tarefa[w] \in ReservadosPor(w)
     THEN /\ semBatida' = [semBatida EXCEPT ![tarefa[w]] = FALSE]
          /\ lockVencido' = [c \in Certificados |->
                               lockVencido[c] /\ ~(c = CertDe(w) /\ titular[c] = w)]
          /\ UNCHANGED heartbeat
     ELSE /\ heartbeat' = [heartbeat EXCEPT ![w] = FALSE]
          /\ UNCHANGED <<semBatida, lockVencido>>
  /\ UNCHANGED <<statusProcesso, statusJob, lockedBy, certificadoDe, titular, pc, tarefa,
                 vistoProcesso, vistoJob, resultado, varsOrdem, varsPedido, varsLimite>>

\* The run of the engine ended, or something raised inside the try block.
FimDaExecucao(w, r) ==
  \/ pc[w] = "executando"
  \/ r = "erro" /\ pc[w] = "lido"
  \/ r = "erro" /\ pc[w] = "concluindo" /\ resultado[w] = "finalizado"

FoiCancelado(w) == \/ statusProcesso[tarefa[w]] = "cancelado"
                   \/ statusJob[tarefa[w]] = "cancelado"

\* _foi_cancelado refreshes both rows; not cancelled: what it saw is kept.
LerCancelamento(w, r) ==
  /\ FimDaExecucao(w, r)
  /\ ~FoiCancelado(w)
  /\ vistoProcesso' = [vistoProcesso EXCEPT ![w] = statusProcesso[tarefa[w]]]
  /\ vistoJob' = [vistoJob EXCEPT ![w] = statusJob[tarefa[w]]]
  /\ resultado' = [resultado EXCEPT ![w] = r]
  /\ pc' = [pc EXCEPT ![w] = IF @ = "lido" THEN "falhando" ELSE "concluindo"]
  /\ heartbeat' = [heartbeat EXCEPT ![w] = FALSE]
  /\ UNCHANGED <<varsConsulta, varsOrdem, varsLock, tarefa, varsPedido, varsLimite>>

\* After the outcome is written the lock is released, if one was acquired.
SairDaExecucao(w) ==
  IF pc[w] \in {"lido", "falhando"}
  THEN Largar(w, "livre")
  ELSE /\ pc' = [pc EXCEPT ![w] = "liberando"]
       /\ heartbeat' = [heartbeat EXCEPT ![w] = FALSE]
       /\ UNCHANGED <<tarefa, vistoProcesso, vistoJob, resultado>>

ConcluirCancelado(w, r) ==
  /\ FimDaExecucao(w, r)
  /\ FoiCancelado(w)
  /\ statusProcesso' = [statusProcesso EXCEPT ![tarefa[w]] = "cancelado"]
  /\ statusJob' = [statusJob EXCEPT ![tarefa[w]] = "cancelado"]
  /\ lockedBy' = [lockedBy EXCEPT ![tarefa[w]] = Nenhum]
  /\ SairDaExecucao(w)
  /\ UNCHANGED <<semBatida, certificadoDe, varsOrdem, varsLock, varsPedido, varsLimite>>

ConcluirDefeituoso(w) ==   \* the outcome of the processo without its job's
  /\ pc[w] \in {"concluindo", "falhando"}
  /\ statusProcesso' = [statusProcesso EXCEPT ![tarefa[w]] =
                          Gravar(vistoProcesso[w], @, resultado[w])]
  /\ SairDaExecucao(w)
  /\ UNCHANGED <<statusJob, lockedBy, semBatida, certificadoDe, varsOrdem, varsLock,
                 varsPedido, varsLimite>>

\* mark_job_finalizado/erro and mark_processo_finalizado/erro: no condition on
\* who owns the job by now.
Concluir(w) ==
  /\ pc[w] \in {"concluindo", "falhando"}
  /\ statusProcesso' = [statusProcesso EXCEPT ![tarefa[w]] =
                          Gravar(vistoProcesso[w], @, resultado[w])]
  /\ statusJob' = [statusJob EXCEPT ![tarefa[w]] = Gravar(vistoJob[w], @, resultado[w])]
  /\ SairDaExecucao(w)
  /\ UNCHANGED <<lockedBy, semBatida, certificadoDe, varsOrdem, varsLock,
                 varsPedido, varsLimite>>

LiberarDefeituoso(w) ==   \* a release on the path of success only
  /\ pc[w] = "liberando"
  /\ titular' = [titular EXCEPT ![CertDe(w)] =
                    IF @ = w /\ resultado[w] = "finalizado" THEN Nenhum ELSE @]
  /\ lockVencido' = [lockVencido EXCEPT ![CertDe(w)] =
                       IF titular[CertDe(w)] = w THEN FALSE ELSE @]
  /\ Largar(w, "livre")
  /\ UNCHANGED <<varsConsulta, varsOrdem, varsPedido, varsLimite>>

\* release_lock: only a lock that still has this worker's name.
Liberar(w) ==
  /\ pc[w] = "liberando"
  /\ titular' = [titular EXCEPT ![CertDe(w)] = IF @ = w THEN Nenhum ELSE @]
  /\ lockVencido' = [lockVencido EXCEPT ![CertDe(w)] =
                       IF titular[CertDe(w)] = w THEN FALSE ELSE @]
  /\ Largar(w, "livre")
  /\ UNCHANGED <<varsConsulta, varsOrdem, varsPedido, varsLimite>>

\* An exception that no handler of the job absorbs (the database is away): the
\* worker goes on with its loop and the rows stay as they were.
Falhar(w) ==
  /\ pc[w] \notin {"livre", "morto"}
  /\ falhas < MaxFalhas
  /\ falhas' = falhas + 1
  /\ Largar(w, "livre")
  /\ UNCHANGED <<varsConsulta, varsOrdem, varsLock, varsPedido, atrasos, quedas, cancelamentos>>

\* The process of the worker dies.  What replaces it has another name.
Cair(w) ==
  /\ Vivo(w)
  /\ quedas < MaxQuedas
  /\ quedas' = quedas + 1
  /\ Largar(w, "morto")
  /\ UNCHANGED <<varsConsulta, varsOrdem, varsLock, varsPedido, falhas, atrasos, cancelamentos>>

-----------------------------------------------------------------------------
(* Time and recovery                                                       *)

\* A live worker is on job i and the job is in its name.
EmMaos(i) == \E w \in Workers : /\ pc[w] \notin {"livre", "morto"}
                                /\ tarefa[w] = i
                                /\ lockedBy[i] = w

\* A live worker holds lock c for the execution it is in.
LockEmUso(c) == \E w \in Workers : /\ pc[w] \in {"executando", "concluindo", "liberando"}
                                   /\ CertDe(w) = c
                                   /\ titular[c] = w

\* A deadline that passes under a live execution uses the bound of delays.
Prazo(emUso) == IF emUso THEN atrasos < MaxAtrasos /\ atrasos' = atrasos + 1
                         ELSE UNCHANGED atrasos

PararDeBater(i) ==
  /\ statusJob[i] = "rodando" /\ ~semBatida[i]
  /\ Prazo(EmMaos(i))
  /\ semBatida' = [semBatida EXCEPT ![i] = TRUE]
  /\ UNCHANGED <<statusProcesso, statusJob, lockedBy, certificadoDe, varsOrdem, varsLock,
                 varsWorker, varsPedido, falhas, quedas, cancelamentos>>

VencerLock(c) ==
  /\ titular[c] # Nenhum /\ ~lockVencido[c]
  /\ Prazo(LockEmUso(c))
  /\ lockVencido' = [lockVencido EXCEPT ![c] = TRUE]
  /\ UNCHANGED <<varsConsulta, varsOrdem, titular, varsWorker, varsPedido,
                 falhas, quedas, cancelamentos>>

VencerCiclo ==
  /\ ~cicloVencido
  /\ cicloVencido' = TRUE
  /\ UNCHANGED <<varsConsulta, varsOrdem, varsLock, varsWorker, pedido, cancelando,
                 monitorAtivo, varsLimite>>

\* The available_at of a spread job arrives; they arrive in the order given.
FicarDisponivel(i) ==
  /\ statusProcesso[i] # "inexistente" /\ disponivel[i] = 0
  /\ \A k \in Consultas : k < i => disponivel[k] > 0
  /\ disponivel' = [disponivel EXCEPT ![i] = ordem + 1]
  /\ ordem' = ordem + 1
  /\ UNCHANGED <<varsConsulta, varsLock, varsWorker, varsPedido, varsLimite>>

TravadosSemBatida == {i \in Consultas : statusJob[i] = "rodando"}   \* no heartbeat asked

TravadosDaCasa ==   \* only jobs claimed by workers of the process that recovers
  {i \in Consultas : statusJob[i] = "rodando" /\ semBatida[i]
                        /\ \E w \in Workers : Vivo(w) /\ lockedBy[i] = w}

Travados == {i \in Consultas : statusJob[i] = "rodando" /\ semBatida[i]}
DonosTravados == {lockedBy[i] : i \in Travados} \ {Nenhum}

\* recuperar_jobs_travados, at start-up and every minute: every stuck job goes
\* back to the queue and every lock of the workers that had one is deleted.
Recuperar ==
  /\ Travados # {}
  /\ statusJob' = [i \in Consultas |-> IF i \in Travados THEN "pendente" ELSE statusJob[i]]
  /\ lockedBy' = [i \in Consultas |-> IF i \in Travados THEN Nenhum ELSE lockedBy[i]]
  /\ semBatida' = [i \in Consultas |-> semBatida[i] /\ i \notin Travados]
  /\ statusProcesso' = [i \in Consultas |->
       IF i \in Travados /\ statusProcesso[i] = "rodando" THEN "pendente" ELSE statusProcesso[i]]
  /\ titular' = [c \in Certificados |-> IF titular[c] \in DonosTravados THEN Nenhum ELSE titular[c]]
  /\ lockVencido' = [c \in Certificados |-> lockVencido[c] /\ titular[c] \notin DonosTravados]
  /\ UNCHANGED <<certificadoDe, varsOrdem, varsWorker, varsPedido, varsLimite>>

-----------------------------------------------------------------------------
PassoDoWorker(w) ==
  \/ LerReserva(w) \/ DescartarReserva(w) \/ PerderReserva(w)
  \/ IniciarComLockLivre(w) \/ IniciarComLockVencido(w) \/ DevolverParaFila(w)
  \/ \E r \in {"finalizado", "erro"} : LerCancelamento(w, r) \/ ConcluirCancelado(w, r)
  \/ Concluir(w) \/ Liberar(w)

Tempo ==
  \/ \E i \in Consultas : PararDeBater(i) \/ FicarDisponivel(i)
  \/ \E c \in Certificados : VencerLock(c)
  \/ VencerCiclo

Pedidos ==
  \/ CicloAgendador
  \/ \E o \in Origens : PedirConsulta(o) \/ PedirConsultaComNsu(o) \/ SeguirPedidoComNsu(o)
                        \/ GravarConsultas(o) \/ CriarProcesso(o)
  \/ DesativarMonitor
  \/ \E i \in Consultas : LerParaCancelar(i)
  \/ GravarCancelamento

Next ==
  \/ Pedidos
  \/ \E w \in Workers : Reservar(w) \/ PassoDoWorker(w) \/ Renovar(w) \/ Falhar(w) \/ Cair(w)
  \/ Tempo
  \/ Recuperar

Spec == Init /\ [][Next]_vars

\* Justified by the loops of the code: the worker loop claims and goes on while
\* there is work, its handlers run to their end, the supervisor recovers every
\* minute, the scheduler ticks, a handler of the API finishes, and time passes
\* for whoever stopped beating.  Nobody is obliged to ask, to cancel, to fail.
Justica ==
  /\ \A w \in Workers : WF_vars(Reservar(w)) /\ WF_vars(PassoDoWorker(w))
  /\ \A i \in Consultas : WF_vars(PararDeBater(i) /\ UNCHANGED atrasos)
                          /\ WF_vars(FicarDisponivel(i))
  /\ \A c \in Certificados : WF_vars(VencerLock(c) /\ UNCHANGED atrasos)
  /\ WF_vars(Recuperar)
  /\ WF_vars(GravarCancelamento)
  /\ \A o \in Origens : WF_vars(SeguirPedidoComNsu(o)) /\ WF_vars(GravarConsultas(o))

FairSpec == Spec /\ Justica

-----------------------------------------------------------------------------
(* Properties                                                              *)

\* Nothing has gone wrong that the lock protocol is not built for: no exception
\* escaped a handler and no deadline passed under a live execution.  Crashes,
\* cancellations and duplicate requests are allowed.
SemDefeitos == falhas = 0 /\ atrasos = 0

EmExecucao(w) == pc[w] \in {"executando", "concluindo"}

\* At most one worker at a time runs the engine for a certificate, whatever
\* crashes, recoveries, cancellations and forced duplicates do: the lock
\* (empresa, certificado) of locks_repo together with its release and recovery.
ExclusaoPorCertificado ==
  SemDefeitos =>
    \A w1, w2 \in Workers :
      EmExecucao(w1) /\ EmExecucao(w2) /\ CertDe(w1) = CertDe(w2) => w1 = w2

\* A job is never in the hands of two live workers: the conditional claim, the
\* return to the queue and the recovery never give out a job someone still has.
JobEmUmSoWorker ==
  SemDefeitos =>
    \A w1, w2 \in Workers :
      tarefa[w1] # SemTarefa /\ tarefa[w1] = tarefa[w2]
        /\ pc[w1] # "liberando" /\ pc[w2] # "liberando" => w1 = w2

\* A processo whose outcome is written is never run again: the only later change
\* is a cancel request that had read it as active (processos_service).
ConcluidaNaoReabre ==
  [][SemDefeitos' =>
       \A i \in Consultas :
         statusProcesso[i] \in {"finalizado", "erro"} =>
           statusProcesso'[i] \in {statusProcesso[i], "cancelado"}]_vars

\* A lock outlives its execution only when its worker died before releasing it.
LockSemExecucaoSoDeMorto ==
  SemDefeitos =>
    \A c \in Certificados :
      titular[c] # Nenhum /\ ~LockEmUso(c) => ~Vivo(titular[c])

\* With the scheduler alone, a certificate never has two consultas under way,
\* whatever workers crash or fail: list_certificados skips a consulta that is
\* pendente, rodando or back in the queue after a recovery.
SemConsultaDuplicada ==
  \A i, k \in Consultas :
    statusProcesso[i] \in Ativos /\ statusProcesso[k] \in Ativos
      /\ certificadoDe[i] = certificadoDe[k] => i = k

\* Every consulta created reaches an outcome, and its job with it, although
\* workers crash, stall and fail, and locks and jobs are left behind.
TodaConsultaTermina ==
  \A i \in Consultas :
    statusProcesso[i] = "pendente" ~>
      (statusProcesso[i] \in Encerrados /\ statusJob[i] \in Encerrados)

\* REG-009: a cancelled processo is over.
CanceladoEhFinal ==
  [][\A i \in Consultas :
       statusProcesso[i] = "cancelado" => statusProcesso'[i] = "cancelado"]_vars

\* REG-011: one lock per certificate, renewed for as long as its execution
\* lasts, so two executions of one certificate never overlap (no delays here).
LockUnicoPorCertificado ==
  atrasos = 0 =>
    \A w1, w2 \in Workers :
      EmExecucao(w1) /\ EmExecucao(w2) /\ CertDe(w1) = CertDe(w2) => w1 = w2

\* Under no defects the queue implements ExecucaoDeConsultas: what runs for a
\* certificate is what live workers run for it, and a job with an outcome is
\* over.  The code has no such object: it is what claim, lock, outcome, release
\* and recovery together amount to.
Execucao == INSTANCE ExecucaoDeConsultas WITH
  Executores <- Workers,
  execucoes  <- [c \in Certificados |->
                   {<<w, tarefa[w]>> : w \in {v \in Workers : EmExecucao(v) /\ CertDe(v) = c}}],
  concluidas <- {i \in Consultas : statusJob[i] \in {"finalizado", "erro"}}

ImplementaExecucao == Execucao!Spec

=============================================================================
