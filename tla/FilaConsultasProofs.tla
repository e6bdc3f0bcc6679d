------------------------ MODULE FilaConsultasProofs ------------------------
(***************************************************************************)
(* The safety of the queue for any number of workers, certificates and      *)
(* consultas, and any bounds.  Estrutura needs no assumption on what goes   *)
(* wrong; Protocolo is what the lock and the claim guarantee while no       *)
(* exception escapes a job and no deadline passes under a live execution.   *)
(***************************************************************************)
EXTENDS FilaConsultas, TLAPS

ComJob  == {"reservado", "lido", "executando", "concluindo", "falhando"}
ComLock == {"executando", "concluindo", "liberando"}
ComTarefa == ComJob \cup ComLock

\* Job and processo exist together and have a certificate, a worker past the
\* claim has a consulta, and one that is about to write an outcome has one.
Estrutura ==
  /\ \A i \in Consultas : statusProcesso[i] = "inexistente" <=> statusJob[i] = "inexistente"
  /\ \A i \in Consultas : statusJob[i] # "inexistente" => certificadoDe[i] \in Certificados
  /\ \A w \in Workers : pc[w] \in ComTarefa =>
       tarefa[w] \in Consultas /\ statusJob[tarefa[w]] # "inexistente"
  /\ \A w \in Workers : pc[w] \notin ComTarefa => tarefa[w] = SemTarefa
  /\ \A w \in Workers : pc[w] \in {"concluindo", "falhando"} => resultado[w] # "nada"
  /\ cancelando # SemTarefa => statusJob[cancelando] # "inexistente"

\* The job of a worker is in its name or was cancelled under it, and it knows
\* the job as rodando.
JobDoWorker ==
  \A w \in Workers : pc[w] \in ComJob =>
    /\ \/ (statusJob[tarefa[w]] = "rodando" /\ lockedBy[tarefa[w]] = w)
       \/ statusJob[tarefa[w]] = "cancelado"
    /\ pc[w] # "reservado" => vistoJob[w] = "rodando"

\* A job rodando is in the hands of who claimed it, unless that one died.
WorkerDoJob ==
  \A i \in Consultas : statusJob[i] = "rodando" =>
    /\ lockedBy[i] \in Workers
    /\ pc[lockedBy[i]] = "morto" \/ (pc[lockedBy[i]] \in ComJob /\ tarefa[lockedBy[i]] = i)

TarefasDistintas ==
  \A w1, w2 \in Workers :
    pc[w1] \in ComJob /\ pc[w2] \in ComJob /\ tarefa[w1] = tarefa[w2] => w1 = w2

LockDoWorker == \A w \in Workers : pc[w] \in ComLock => titular[CertDe(w)] = w

WorkerDoLock ==
  \A c \in Certificados : titular[c] # Nenhum =>
    pc[titular[c]] = "morto" \/ (pc[titular[c]] \in ComLock /\ CertDe(titular[c]) = c)

VencidoSoDeMorto ==
  \A c \in Certificados : lockVencido[c] => titular[c] # Nenhum /\ pc[titular[c]] = "morto"

SemBatidaSoDeMorto ==
  \A i \in Consultas : semBatida[i] /\ statusJob[i] = "rodando" => pc[lockedBy[i]] = "morto"

ConcluidaComJob ==
  \A i \in Consultas : statusProcesso[i] \in {"finalizado", "erro"} =>
                         statusJob[i] \in {"finalizado", "erro"}

ProtocoloJob == JobDoWorker /\ WorkerDoJob /\ TarefasDistintas /\ SemBatidaSoDeMorto

ProtocoloLock == LockDoWorker /\ WorkerDoLock /\ VencidoSoDeMorto

Protocolo == ProtocoloJob /\ ProtocoloLock /\ ConcluidaComJob

Inv == TypeOK /\ Estrutura /\ (SemDefeitos => Protocolo)

USE DEF ComTarefa, ComJob, ComLock, Ativos,
        varsConsulta, varsOrdem, varsLock, varsWorker, varsPedido, varsLimite

\* No consulta is the number that means none, no worker is NULL.
LEMMA ValoresNulos == SemTarefa \notin Consultas /\ Nenhum \notin Workers
BY ConstantesFila DEF Consultas, SemTarefa

\* The empty queue satisfies the invariant.
LEMMA Inicial == Init => Inv
<1> SUFFICES ASSUME Init PROVE Inv
  OBVIOUS
<1> USE ValoresNulos DEF Init
<1>1. TypeOK
  BY DEF TypeOK, Status, Encerrados, Fases, SemPedido, Pedido
<1>2. Estrutura
  BY DEF Estrutura, ComTarefa, ComJob, ComLock
<1>3. Protocolo
  BY DEF Protocolo, ProtocoloJob, ProtocoloLock, JobDoWorker, WorkerDoJob, TarefasDistintas,
         LockDoWorker, WorkerDoLock, VencidoSoDeMorto, SemBatidaSoDeMorto, ConcluidaComJob,
         ComJob, ComLock
<1> QED
  BY <1>1, <1>2, <1>3 DEF Inv

\* The claim: the job was pendente, so in no worker's hands.
LEMMA ReservarPreserva == ASSUME Inv, NEW w \in Workers, Reservar(w) PROVE Inv'
<1> USE ValoresNulos DEF Inv
<1>1. TypeOK'
  BY DEF TypeOK, Reservar, EhPrimeiro, NaFila, Status, Encerrados, Fases, Pedido
<1>2. Estrutura'
  BY DEF TypeOK, Estrutura, Reservar, EhPrimeiro, NaFila
<1>3. ASSUME SemDefeitos' PROVE Protocolo'
  <2>1. SemDefeitos /\ Protocolo
    BY <1>3 DEF SemDefeitos, TypeOK, Reservar, EhPrimeiro, NaFila
  <2>2. ProtocoloJob'
    BY <2>1 DEF TypeOK, Protocolo, Estrutura, ProtocoloJob, JobDoWorker, WorkerDoJob,
           TarefasDistintas, SemBatidaSoDeMorto, Reservar, EhPrimeiro, NaFila
  <2>3. ProtocoloLock'
    BY <2>1 DEF TypeOK, Protocolo, Estrutura, ProtocoloLock, LockDoWorker,
           WorkerDoLock, VencidoSoDeMorto, CertDe, Reservar, EhPrimeiro, NaFila
  <2>4. ConcluidaComJob'
    BY <2>1 DEF TypeOK, Protocolo, ConcluidaComJob, Estrutura, Reservar, EhPrimeiro,
           NaFila
  <2> QED
    BY <2>2, <2>3, <2>4 DEF Protocolo
<1> QED
  BY <1>1, <1>2, <1>3 DEF Inv

\* What is read back is the job that was claimed, or none.
LEMMA LerReservaPreserva == ASSUME Inv, NEW w \in Workers, LerReserva(w) PROVE Inv'
<1> USE ValoresNulos DEF Inv
<1>1. TypeOK'
  BY DEF TypeOK, LerReserva, JobLido, ReservadosPor, Status, Encerrados, Fases, Pedido
<1>2. Estrutura'
  BY DEF TypeOK, Estrutura, LerReserva, JobLido, ReservadosPor
<1>3. ASSUME SemDefeitos' PROVE Protocolo'
  <2>1. SemDefeitos /\ Protocolo
    BY <1>3 DEF SemDefeitos, TypeOK, LerReserva, JobLido, ReservadosPor
  <2>2. ProtocoloJob'
    BY <2>1 DEF TypeOK, Protocolo, Estrutura, ProtocoloJob, JobDoWorker, WorkerDoJob,
           TarefasDistintas, SemBatidaSoDeMorto, LerReserva, JobLido, ReservadosPor
  <2>3. ProtocoloLock'
    BY <2>1 DEF TypeOK, Protocolo, Estrutura, ProtocoloLock, LockDoWorker,
           WorkerDoLock, VencidoSoDeMorto, CertDe, LerReserva, JobLido,
           ReservadosPor, ProtocoloJob, JobDoWorker, WorkerDoJob, TarefasDistintas
  <2>4. ConcluidaComJob'
    BY <2>1 DEF TypeOK, Protocolo, ConcluidaComJob, Estrutura, LerReserva, JobLido,
           ReservadosPor
  <2> QED
    BY <2>2, <2>3, <2>4 DEF Protocolo
<1> QED
  BY <1>1, <1>2, <1>3 DEF Inv

\* A claimed job of a cancelled processo follows it.
LEMMA DescartarReservaPreserva == ASSUME Inv, NEW w \in Workers, DescartarReserva(w) PROVE Inv'
<1> USE ValoresNulos DEF Inv
<1>1. TypeOK'
  BY DEF TypeOK, DescartarReserva, Largar, JobLido, ReservadosPor, Status,
         Encerrados, Fases, Pedido
<1>2. Estrutura'
  BY DEF TypeOK, Estrutura, DescartarReserva, Largar, JobLido, ReservadosPor
<1>3. ASSUME SemDefeitos' PROVE Protocolo'
  <2>1. SemDefeitos /\ Protocolo
    BY <1>3 DEF SemDefeitos, TypeOK, DescartarReserva, Largar, JobLido, ReservadosPor
  <2>2. ProtocoloJob'
    BY <2>1 DEF TypeOK, Protocolo, Estrutura, ProtocoloJob, JobDoWorker, WorkerDoJob,
           TarefasDistintas, SemBatidaSoDeMorto, DescartarReserva, Largar, JobLido,
           ReservadosPor
  <2>3. ProtocoloLock'
    BY <2>1 DEF TypeOK, Protocolo, Estrutura, ProtocoloLock, LockDoWorker,
           WorkerDoLock, VencidoSoDeMorto, CertDe, DescartarReserva, Largar, JobLido,
           ReservadosPor, ProtocoloJob, JobDoWorker, WorkerDoJob, TarefasDistintas
  <2>4. ConcluidaComJob'
    BY <2>1 DEF TypeOK, Protocolo, ConcluidaComJob, Estrutura, DescartarReserva,
           Largar, JobLido, ReservadosPor, ProtocoloJob, JobDoWorker, WorkerDoJob,
           TarefasDistintas
  <2> QED
    BY <2>2, <2>3, <2>4 DEF Protocolo
<1> QED
  BY <1>1, <1>2, <1>3 DEF Inv

\* The claimed job was cancelled before it was read back.
LEMMA PerderReservaPreserva == ASSUME Inv, NEW w \in Workers, PerderReserva(w) PROVE Inv'
<1> USE ValoresNulos DEF Inv
<1>1. TypeOK'
  BY DEF TypeOK, PerderReserva, Largar, JobLido, ReservadosPor, Status, Encerrados,
         Fases, Pedido
<1>2. Estrutura'
  BY DEF TypeOK, Estrutura, PerderReserva, Largar, JobLido, ReservadosPor
<1>3. ASSUME SemDefeitos' PROVE Protocolo'
  <2>1. SemDefeitos /\ Protocolo
    BY <1>3 DEF SemDefeitos, TypeOK, PerderReserva, Largar, JobLido, ReservadosPor
  <2>2. ProtocoloJob'
    BY <2>1 DEF TypeOK, Protocolo, Estrutura, ProtocoloJob, JobDoWorker, WorkerDoJob,
           TarefasDistintas, SemBatidaSoDeMorto, PerderReserva, Largar, JobLido,
           ReservadosPor
  <2>3. ProtocoloLock'
    BY <2>1 DEF TypeOK, Protocolo, Estrutura, ProtocoloLock, LockDoWorker,
           WorkerDoLock, VencidoSoDeMorto, CertDe, PerderReserva, Largar, JobLido,
           ReservadosPor, ProtocoloJob, JobDoWorker, WorkerDoJob, TarefasDistintas
  <2>4. ConcluidaComJob'
    BY <2>1 DEF TypeOK, Protocolo, ConcluidaComJob, Estrutura, PerderReserva, Largar,
           JobLido, ReservadosPor, ProtocoloJob, JobDoWorker, WorkerDoJob,
           TarefasDistintas
  <2> QED
    BY <2>2, <2>3, <2>4 DEF Protocolo
<1> QED
  BY <1>1, <1>2, <1>3 DEF Inv

\* A free lock: nobody executes for the certificate.
LEMMA IniciarComLockLivrePreserva ==
  ASSUME Inv, NEW w \in Workers, IniciarComLockLivre(w)
  PROVE Inv'
<1> USE ValoresNulos DEF Inv
<1>1. TypeOK'
  BY DEF TypeOK, IniciarComLockLivre, EntrarEmExecucao, Gravar, CertDe, Status,
         Encerrados, Fases, Pedido
<1>2. Estrutura'
  BY DEF TypeOK, Estrutura, IniciarComLockLivre, EntrarEmExecucao, Gravar, CertDe
<1>3. ASSUME SemDefeitos' PROVE Protocolo'
  <2>1. SemDefeitos /\ Protocolo
    BY <1>3 DEF SemDefeitos, TypeOK, IniciarComLockLivre, EntrarEmExecucao, Gravar,
           CertDe
  <2>2. ProtocoloJob'
    BY <2>1 DEF TypeOK, Protocolo, Estrutura, ProtocoloJob, JobDoWorker, WorkerDoJob,
           TarefasDistintas, SemBatidaSoDeMorto, IniciarComLockLivre,
           EntrarEmExecucao, Gravar, CertDe
  <2>3. ProtocoloLock'
    BY <2>1 DEF TypeOK, Protocolo, Estrutura, ProtocoloLock, LockDoWorker,
           WorkerDoLock, VencidoSoDeMorto, CertDe, IniciarComLockLivre,
           EntrarEmExecucao, Gravar, ProtocoloJob, JobDoWorker, WorkerDoJob,
           TarefasDistintas
  <2>4. ConcluidaComJob'
    BY <2>1 DEF TypeOK, Protocolo, ConcluidaComJob, Estrutura, IniciarComLockLivre,
           EntrarEmExecucao, Gravar, CertDe, ProtocoloJob, JobDoWorker, WorkerDoJob,
           TarefasDistintas
  <2> QED
    BY <2>2, <2>3, <2>4 DEF Protocolo
<1> QED
  BY <1>1, <1>2, <1>3 DEF Inv

\* An expired lock: its owner is dead.
LEMMA IniciarComLockVencidoPreserva ==
  ASSUME Inv, NEW w \in Workers, IniciarComLockVencido(w)
  PROVE Inv'
<1> USE ValoresNulos DEF Inv
<1>1. TypeOK'
  BY DEF TypeOK, IniciarComLockVencido, EntrarEmExecucao, CertDe, Status, Encerrados,
         Fases, Pedido
<1>2. Estrutura'
  BY DEF TypeOK, Estrutura, IniciarComLockVencido, EntrarEmExecucao, CertDe
<1>3. ASSUME SemDefeitos' PROVE Protocolo'
  <2>1. SemDefeitos /\ Protocolo
    BY <1>3 DEF SemDefeitos, TypeOK, IniciarComLockVencido, EntrarEmExecucao, CertDe
  <2>2. ProtocoloJob'
    BY <2>1 DEF TypeOK, Protocolo, Estrutura, ProtocoloJob, JobDoWorker, WorkerDoJob,
           TarefasDistintas, SemBatidaSoDeMorto, IniciarComLockVencido,
           EntrarEmExecucao, CertDe
  <2>3. ProtocoloLock'
    BY <2>1 DEF TypeOK, Protocolo, Estrutura, ProtocoloLock, LockDoWorker,
           WorkerDoLock, VencidoSoDeMorto, CertDe, IniciarComLockVencido,
           EntrarEmExecucao, ProtocoloJob, JobDoWorker, WorkerDoJob, TarefasDistintas
  <2>4. ConcluidaComJob'
    BY <2>1 DEF TypeOK, Protocolo, ConcluidaComJob, Estrutura, IniciarComLockVencido,
           EntrarEmExecucao, CertDe, ProtocoloJob, JobDoWorker, WorkerDoJob,
           TarefasDistintas
  <2> QED
    BY <2>2, <2>3, <2>4 DEF Protocolo
<1> QED
  BY <1>1, <1>2, <1>3 DEF Inv

\* A busy lock: the job leaves the hands of the worker.
LEMMA DevolverPreserva == ASSUME Inv, NEW w \in Workers, DevolverParaFila(w) PROVE Inv'
<1> USE ValoresNulos DEF Inv
<1>1. TypeOK'
  BY DEF TypeOK, DevolverParaFila, Largar, CertDe, Status, Encerrados, Fases, Pedido
<1>2. Estrutura'
  BY DEF TypeOK, Estrutura, DevolverParaFila, Largar, CertDe
<1>3. ASSUME SemDefeitos' PROVE Protocolo'
  <2>1. SemDefeitos /\ Protocolo
    BY <1>3 DEF SemDefeitos, TypeOK, DevolverParaFila, Largar, CertDe
  <2>2. ProtocoloJob'
    BY <2>1 DEF TypeOK, Protocolo, Estrutura, ProtocoloJob, JobDoWorker, WorkerDoJob,
           TarefasDistintas, SemBatidaSoDeMorto, DevolverParaFila, Largar, CertDe
  <2>3. ProtocoloLock'
    BY <2>1 DEF TypeOK, Protocolo, Estrutura, ProtocoloLock, LockDoWorker,
           WorkerDoLock, VencidoSoDeMorto, CertDe, DevolverParaFila, Largar,
           ProtocoloJob, JobDoWorker, WorkerDoJob, TarefasDistintas
  <2>4. ConcluidaComJob'
    BY <2>1 DEF TypeOK, Protocolo, ConcluidaComJob, Estrutura, DevolverParaFila,
           Largar, CertDe, ProtocoloJob, JobDoWorker, WorkerDoJob, TarefasDistintas
  <2> QED
    BY <2>2, <2>3, <2>4 DEF Protocolo
<1> QED
  BY <1>1, <1>2, <1>3 DEF Inv

\* The heartbeat of an execution.
LEMMA RenovarPreserva == ASSUME Inv, NEW w \in Workers, Renovar(w) PROVE Inv'
<1> USE ValoresNulos DEF Inv
<1>1. TypeOK'
  <2>1. lockVencido' \in [Certificados -> BOOLEAN]
    <3>1. CASE tarefa[w] \in ReservadosPor(w)
      <4>1. lockVencido' = [c \in Certificados |->
                              lockVencido[c] /\ ~(c = CertDe(w) /\ titular[c] = w)]
        BY <3>1, Zenon DEF Renovar
      <4> QED
        BY <4>1, Zenon
    <3>2. CASE tarefa[w] \notin ReservadosPor(w)
      BY <3>2 DEF TypeOK, Renovar
    <3> QED
      BY <3>1, <3>2
  <2>2. semBatida' \in [Consultas -> BOOLEAN] /\ heartbeat' \in [Workers -> BOOLEAN]
    BY DEF TypeOK, Renovar
  <2> QED
    BY <2>1, <2>2 DEF TypeOK, Renovar
<1>2. Estrutura'
  BY DEF TypeOK, Estrutura, Renovar, ReservadosPor, CertDe
<1>3. ASSUME SemDefeitos' PROVE Protocolo'
  <2>1. SemDefeitos /\ Protocolo
    BY <1>3 DEF SemDefeitos, TypeOK, Renovar, ReservadosPor, CertDe
  <2>2. ProtocoloJob'
    BY <2>1 DEF TypeOK, Protocolo, Estrutura, ProtocoloJob, JobDoWorker, WorkerDoJob,
           TarefasDistintas, SemBatidaSoDeMorto, Renovar, ReservadosPor, CertDe
  <2>3. ProtocoloLock'
    BY <2>1 DEF TypeOK, Protocolo, Estrutura, ProtocoloLock, LockDoWorker,
           WorkerDoLock, VencidoSoDeMorto, CertDe, Renovar, ReservadosPor,
           ProtocoloJob, JobDoWorker, WorkerDoJob, TarefasDistintas
  <2>4. ConcluidaComJob'
    BY <2>1 DEF TypeOK, Protocolo, ConcluidaComJob, Estrutura, Renovar,
           ReservadosPor, CertDe, ProtocoloJob, JobDoWorker, WorkerDoJob,
           TarefasDistintas
  <2> QED
    BY <2>2, <2>3, <2>4 DEF Protocolo
<1> QED
  BY <1>1, <1>2, <1>3 DEF Inv

\* The rows are refreshed and not cancelled.
LEMMA LerCancelamentoPreserva ==
  ASSUME Inv, NEW w \in Workers, NEW r \in {"finalizado", "erro"}, LerCancelamento(w, r)
  PROVE Inv'
<1> USE ValoresNulos DEF Inv
<1>1. TypeOK'
  BY DEF TypeOK, Estrutura, LerCancelamento, FimDaExecucao, Status, Encerrados, Fases
<1>2. Estrutura'
  BY DEF TypeOK, Estrutura, LerCancelamento, FimDaExecucao, FoiCancelado
<1>3. ASSUME SemDefeitos' PROVE Protocolo'
  <2>1. SemDefeitos /\ Protocolo
    BY <1>3 DEF SemDefeitos, TypeOK, LerCancelamento, FimDaExecucao, FoiCancelado
  <2>2. ProtocoloJob'
    BY <2>1 DEF TypeOK, Protocolo, Estrutura, ProtocoloJob, JobDoWorker, WorkerDoJob,
           TarefasDistintas, SemBatidaSoDeMorto, LerCancelamento, FimDaExecucao,
           FoiCancelado
  <2>3. ProtocoloLock'
    BY <2>1 DEF TypeOK, Protocolo, Estrutura, ProtocoloLock, LockDoWorker,
           WorkerDoLock, VencidoSoDeMorto, CertDe, LerCancelamento, FimDaExecucao,
           FoiCancelado, ProtocoloJob, JobDoWorker, WorkerDoJob, TarefasDistintas
  <2>4. ConcluidaComJob'
    BY <2>1 DEF TypeOK, Protocolo, ConcluidaComJob, Estrutura, LerCancelamento,
           FimDaExecucao, FoiCancelado, ProtocoloJob, JobDoWorker, WorkerDoJob,
           TarefasDistintas
  <2> QED
    BY <2>2, <2>3, <2>4 DEF Protocolo
<1> QED
  BY <1>1, <1>2, <1>3 DEF Inv

\* The outcome of a cancelled consulta.
LEMMA ConcluirCanceladoPreserva ==
  ASSUME Inv, NEW w \in Workers, NEW r \in {"finalizado", "erro"}, ConcluirCancelado(w, r)
  PROVE Inv'
<1> USE ValoresNulos DEF Inv
<1>1. TypeOK'
  <2>1. CASE pc[w] \in {"lido", "falhando"}
    <3>1. Largar(w, "livre")
      BY <2>1 DEF ConcluirCancelado, SairDaExecucao
    <3> QED
      BY <3>1 DEF TypeOK, ConcluirCancelado, Largar, Status, Encerrados, Fases
  <2>2. CASE pc[w] \notin {"lido", "falhando"}
    BY <2>2, ZenonT(60) DEF TypeOK, ConcluirCancelado, SairDaExecucao, Status, Encerrados, Fases
  <2> QED
    BY <2>1, <2>2
<1>2. Estrutura'
  BY DEF TypeOK, Estrutura, ConcluirCancelado, FimDaExecucao, FoiCancelado,
         SairDaExecucao, Largar
<1>3. ASSUME SemDefeitos' PROVE Protocolo'
  <2>1. SemDefeitos /\ Protocolo
    BY <1>3 DEF SemDefeitos, TypeOK, ConcluirCancelado, FimDaExecucao, FoiCancelado,
           SairDaExecucao, Largar
  <2>2. ProtocoloJob'
    <3>1. JobDoWorker'
      BY <2>1 DEF TypeOK, Protocolo, ProtocoloJob, JobDoWorker, TarefasDistintas, Estrutura,
             ConcluirCancelado, FimDaExecucao, SairDaExecucao, Largar
    <3>2. WorkerDoJob' /\ SemBatidaSoDeMorto'
      BY <2>1 DEF TypeOK, Protocolo, ProtocoloJob, JobDoWorker, WorkerDoJob, SemBatidaSoDeMorto,
             Estrutura, ConcluirCancelado, FimDaExecucao, SairDaExecucao, Largar
    <3>3. TarefasDistintas'
      BY <2>1 DEF TypeOK, Protocolo, ProtocoloJob, TarefasDistintas,
             ConcluirCancelado, FimDaExecucao, SairDaExecucao, Largar
    <3> QED
      BY <3>1, <3>2, <3>3 DEF ProtocoloJob
  <2>3. ProtocoloLock'
    BY <2>1 DEF TypeOK, Protocolo, Estrutura, ProtocoloLock, LockDoWorker,
           WorkerDoLock, VencidoSoDeMorto, CertDe, ConcluirCancelado, FimDaExecucao,
           FoiCancelado, SairDaExecucao, Largar, ProtocoloJob, JobDoWorker,
           WorkerDoJob, TarefasDistintas
  <2>4. ConcluidaComJob'
    BY <2>1 DEF TypeOK, Protocolo, ConcluidaComJob, Estrutura, ConcluirCancelado,
           FimDaExecucao, FoiCancelado, SairDaExecucao, Largar, ProtocoloJob,
           JobDoWorker, WorkerDoJob, TarefasDistintas
  <2> QED
    BY <2>2, <2>3, <2>4 DEF Protocolo
<1> QED
  BY <1>1, <1>2, <1>3 DEF Inv

\* The outcome of a consulta: processo and job together.
LEMMA ConcluirPreserva == ASSUME Inv, NEW w \in Workers, Concluir(w) PROVE Inv'
<1> USE ValoresNulos DEF Inv
<1>0. resultado[w] \in {"finalizado", "erro"} /\ tarefa[w] \in Consultas
  BY DEF TypeOK, Estrutura, Concluir
<1>1. TypeOK'
  <2>1. CASE pc[w] = "falhando"
    <3>1. Largar(w, "livre")
      BY <2>1 DEF Concluir, SairDaExecucao
    <3> QED
      BY <1>0, <3>1 DEF TypeOK, Concluir, Largar, Gravar, Status, Encerrados, Fases
  <2>2. CASE pc[w] = "concluindo"
    BY <1>0, <2>2, ZenonT(60) DEF TypeOK, Concluir, SairDaExecucao, Gravar, Status, Encerrados, Fases
  <2> QED
    BY <2>1, <2>2 DEF Concluir
<1>2. Estrutura'
  BY <1>0 DEF TypeOK, Estrutura, Concluir, SairDaExecucao, Largar, Gravar
<1>3. ASSUME SemDefeitos' PROVE Protocolo'
  <2>1. SemDefeitos /\ Protocolo
    BY <1>3 DEF SemDefeitos, TypeOK, Concluir, SairDaExecucao, Largar, Gravar
  <2>2. ProtocoloJob'
    <3>1. statusJob' = [statusJob EXCEPT ![tarefa[w]] = resultado[w]]
      BY <1>0, <2>1 DEF Protocolo, ProtocoloJob, JobDoWorker, Concluir, Gravar
    <3>2. JobDoWorker'
      BY <1>0, <2>1, <3>1 DEF TypeOK, Protocolo, ProtocoloJob, JobDoWorker, TarefasDistintas,
             Estrutura, Concluir, SairDaExecucao, Largar
    <3>3. WorkerDoJob' /\ SemBatidaSoDeMorto'
      BY <1>0, <2>1, <3>1 DEF TypeOK, Protocolo, ProtocoloJob, JobDoWorker, WorkerDoJob,
             SemBatidaSoDeMorto, Estrutura, Concluir, SairDaExecucao, Largar
    <3>4. TarefasDistintas'
      BY <2>1 DEF TypeOK, Protocolo, ProtocoloJob, TarefasDistintas, Concluir,
             SairDaExecucao, Largar
    <3> QED
      BY <3>2, <3>3, <3>4 DEF ProtocoloJob
  <2>3. ProtocoloLock'
    <3>1. pc' = [pc EXCEPT ![w] = IF @ = "falhando" THEN "livre" ELSE "liberando"]
      BY DEF Concluir, SairDaExecucao, Largar
    <3>2. \A v \in Workers : pc'[v] \in ComLock => pc[v] \in ComLock /\ tarefa'[v] = tarefa[v]
      BY <3>1 DEF TypeOK, Concluir, SairDaExecucao, Largar
    <3>3. \A v \in Workers : pc[v] \in ComLock => pc'[v] \in ComLock /\ tarefa'[v] = tarefa[v]
      BY <3>1 DEF TypeOK, Concluir, SairDaExecucao, Largar
    <3>4. \A v \in Workers : pc[v] = "morto" => pc'[v] = "morto"
      BY <3>1 DEF TypeOK, Concluir
    <3> QED
      BY <2>1, <3>2, <3>3, <3>4 DEF TypeOK, Protocolo, ProtocoloLock, LockDoWorker, WorkerDoLock,
             VencidoSoDeMorto, CertDe, Concluir
  <2>4. ConcluidaComJob'
    BY <2>1 DEF TypeOK, Protocolo, ConcluidaComJob, Estrutura, Concluir,
           SairDaExecucao, Largar, Gravar, ProtocoloJob, JobDoWorker, WorkerDoJob,
           TarefasDistintas
  <2> QED
    BY <2>2, <2>3, <2>4 DEF Protocolo
<1> QED
  BY <1>1, <1>2, <1>3 DEF Inv

\* The lock released is the one of this execution.
LEMMA LiberarPreserva == ASSUME Inv, NEW w \in Workers, Liberar(w) PROVE Inv'
<1> USE ValoresNulos DEF Inv
<1>1. TypeOK'
  BY DEF TypeOK, Liberar, Largar, CertDe, Status, Encerrados, Fases, Pedido
<1>2. Estrutura'
  BY DEF TypeOK, Estrutura, Liberar, Largar, CertDe
<1>3. ASSUME SemDefeitos' PROVE Protocolo'
  <2>1. SemDefeitos /\ Protocolo
    BY <1>3 DEF SemDefeitos, TypeOK, Liberar, Largar, CertDe
  <2>2. ProtocoloJob'
    BY <2>1 DEF TypeOK, Protocolo, Estrutura, ProtocoloJob, JobDoWorker, WorkerDoJob,
           TarefasDistintas, SemBatidaSoDeMorto, Liberar, Largar, CertDe
  <2>3. ProtocoloLock'
    <3>1. /\ pc[w] = "liberando" /\ tarefa[w] \in Consultas /\ CertDe(w) \in Certificados
          /\ titular[CertDe(w)] = w /\ w # Nenhum /\ ~lockVencido[CertDe(w)]
      BY <2>1 DEF TypeOK, Protocolo, Estrutura, ProtocoloLock, LockDoWorker, VencidoSoDeMorto,
             CertDe, Liberar
    <3>2. /\ titular' = [titular EXCEPT ![CertDe(w)] = Nenhum]
          /\ lockVencido' = [lockVencido EXCEPT ![CertDe(w)] = FALSE]
          /\ pc' = [pc EXCEPT ![w] = "livre"] /\ tarefa' = [tarefa EXCEPT ![w] = SemTarefa]
          /\ certificadoDe' = certificadoDe
      BY <3>1 DEF Liberar, Largar
    <3>3. \A v \in Workers \ {w} : pc'[v] = pc[v] /\ CertDe(v)' = CertDe(v)
      BY <3>2 DEF TypeOK, CertDe
    <3>4. \A v \in Workers \ {w} : pc[v] \in ComLock => CertDe(v) # CertDe(w)
      BY <2>1, <3>1 DEF Protocolo, ProtocoloLock, LockDoWorker
    <3>5. LockDoWorker'
      BY <2>1, <3>1, <3>2, <3>3, <3>4 DEF TypeOK, Estrutura, Protocolo, ProtocoloLock, LockDoWorker, CertDe
    <3>6. WorkerDoLock' /\ VencidoSoDeMorto'
      BY <2>1, <3>1, <3>2, <3>3 DEF TypeOK, Protocolo, ProtocoloLock, WorkerDoLock, VencidoSoDeMorto
    <3> QED
      BY <3>5, <3>6 DEF ProtocoloLock
  <2>4. ConcluidaComJob'
    BY <2>1 DEF TypeOK, Protocolo, ConcluidaComJob, Estrutura, Liberar, Largar, CertDe
  <2> QED
    BY <2>2, <2>3, <2>4 DEF Protocolo
<1> QED
  BY <1>1, <1>2, <1>3 DEF Inv

\* An exception that escapes is a defect: only the structure stays.
LEMMA FalharPreserva == ASSUME Inv, NEW w \in Workers, Falhar(w) PROVE Inv'
<1> USE ValoresNulos DEF Inv
<1>1. TypeOK'
  BY DEF TypeOK, Falhar, Largar, Status, Encerrados, Fases, Pedido
<1>2. Estrutura'
  BY DEF TypeOK, Estrutura, Falhar, Largar
<1>3. ~SemDefeitos'
  BY DEF TypeOK, SemDefeitos, Falhar
<1> QED
  BY <1>1, <1>2, <1>3 DEF Inv

\* A crash leaves job and lock in the name of a dead worker.
LEMMA CairPreserva == ASSUME Inv, NEW w \in Workers, Cair(w) PROVE Inv'
<1> USE ValoresNulos DEF Inv
<1>1. TypeOK'
  BY DEF TypeOK, Cair, Vivo, Largar, Status, Encerrados, Fases, Pedido
<1>2. Estrutura'
  BY DEF TypeOK, Estrutura, Cair, Vivo, Largar
<1>3. ASSUME SemDefeitos' PROVE Protocolo'
  <2>1. SemDefeitos /\ Protocolo
    BY <1>3 DEF SemDefeitos, TypeOK, Cair, Vivo, Largar
  <2>2. ProtocoloJob'
    BY <2>1 DEF TypeOK, Protocolo, Estrutura, ProtocoloJob, JobDoWorker, WorkerDoJob,
           TarefasDistintas, SemBatidaSoDeMorto, Cair, Vivo, Largar
  <2>3. ProtocoloLock'
    BY <2>1 DEF TypeOK, Protocolo, Estrutura, ProtocoloLock, LockDoWorker,
           WorkerDoLock, VencidoSoDeMorto, CertDe, Cair, Vivo, Largar, ProtocoloJob,
           JobDoWorker, WorkerDoJob, TarefasDistintas
  <2>4. ConcluidaComJob'
    BY <2>1 DEF TypeOK, Protocolo, ConcluidaComJob, Estrutura, Cair, Vivo, Largar
  <2> QED
    BY <2>2, <2>3, <2>4 DEF Protocolo
<1> QED
  BY <1>1, <1>2, <1>3 DEF Inv

\* Without defects only the job of a dead worker stops beating.
LEMMA PararDeBaterPreserva == ASSUME Inv, NEW i \in Consultas, PararDeBater(i) PROVE Inv'
<1> USE ValoresNulos DEF Inv
<1>1. TypeOK'
  BY DEF TypeOK, PararDeBater, Prazo, EmMaos, Status, Encerrados, Fases, Pedido
<1>2. Estrutura'
  BY DEF TypeOK, Estrutura, PararDeBater, Prazo, EmMaos
<1>3. ASSUME SemDefeitos' PROVE Protocolo'
  <2>1. SemDefeitos /\ Protocolo
    BY <1>3 DEF SemDefeitos, TypeOK, PararDeBater, Prazo, EmMaos
  <2>2. ProtocoloJob'
    <3>1. ~EmMaos(i)
      BY <1>3 DEF TypeOK, SemDefeitos, PararDeBater, Prazo
    <3>2. pc[lockedBy[i]] = "morto"
      BY <2>1, <3>1 DEF Protocolo, ProtocoloJob, WorkerDoJob, PararDeBater, EmMaos
    <3> QED
      BY <2>1, <3>2 DEF TypeOK, Protocolo, ProtocoloJob, JobDoWorker, WorkerDoJob,
             TarefasDistintas, SemBatidaSoDeMorto, PararDeBater
  <2>3. ProtocoloLock'
    BY <2>1 DEF TypeOK, Protocolo, Estrutura, ProtocoloLock, LockDoWorker,
           WorkerDoLock, VencidoSoDeMorto, CertDe, PararDeBater, Prazo, EmMaos
  <2>4. ConcluidaComJob'
    BY <2>1 DEF TypeOK, Protocolo, ConcluidaComJob, Estrutura, PararDeBater, Prazo,
           EmMaos
  <2> QED
    BY <2>2, <2>3, <2>4 DEF Protocolo
<1> QED
  BY <1>1, <1>2, <1>3 DEF Inv

\* Without defects only the lock of a dead worker expires.
LEMMA VencerLockPreserva == ASSUME Inv, NEW c \in Certificados, VencerLock(c) PROVE Inv'
<1> USE ValoresNulos DEF Inv
<1>1. TypeOK'
  BY DEF TypeOK, VencerLock, Prazo, LockEmUso, CertDe, Status, Encerrados, Fases,
         Pedido
<1>2. Estrutura'
  BY DEF TypeOK, Estrutura, VencerLock, Prazo, LockEmUso, CertDe
<1>3. ASSUME SemDefeitos' PROVE Protocolo'
  <2>1. SemDefeitos /\ Protocolo
    BY <1>3 DEF SemDefeitos, TypeOK, VencerLock, Prazo, LockEmUso, CertDe
  <2>2. ProtocoloJob'
    BY <2>1 DEF TypeOK, Protocolo, Estrutura, ProtocoloJob, JobDoWorker, WorkerDoJob,
           TarefasDistintas, SemBatidaSoDeMorto, VencerLock, Prazo, LockEmUso, CertDe
  <2>3. ProtocoloLock'
    <3>1. ~LockEmUso(c)
      BY <1>3 DEF TypeOK, SemDefeitos, VencerLock, Prazo
    <3>2. pc[titular[c]] = "morto"
      BY <2>1, <3>1 DEF TypeOK, Protocolo, ProtocoloLock, WorkerDoLock, VencerLock, LockEmUso
    <3> QED
      BY <2>1, <3>2 DEF TypeOK, Protocolo, ProtocoloLock, LockDoWorker, WorkerDoLock,
             VencidoSoDeMorto, VencerLock, CertDe
  <2>4. ConcluidaComJob'
    BY <2>1 DEF TypeOK, Protocolo, ConcluidaComJob, Estrutura, VencerLock, Prazo,
           LockEmUso, CertDe
  <2> QED
    BY <2>2, <2>3, <2>4 DEF Protocolo
<1> QED
  BY <1>1, <1>2, <1>3 DEF Inv

\* Without defects the recovery frees only what dead workers held.
LEMMA RecuperarPreserva == ASSUME Inv, Recuperar PROVE Inv'
<1> USE ValoresNulos DEF Inv
<1>1. TypeOK'
  BY DEF TypeOK, Recuperar, Travados, DonosTravados, Status, Encerrados, Fases, Pedido
<1>2. Estrutura'
  BY DEF TypeOK, Estrutura, Recuperar, Travados, DonosTravados
<1>3. ASSUME SemDefeitos' PROVE Protocolo'
  <2>1. SemDefeitos /\ Protocolo
    BY <1>3 DEF SemDefeitos, TypeOK, Recuperar, Travados, DonosTravados
  <2>2. ProtocoloJob'
    BY <2>1 DEF TypeOK, Protocolo, Estrutura, ProtocoloJob, JobDoWorker, WorkerDoJob,
           TarefasDistintas, SemBatidaSoDeMorto, Recuperar, Travados, DonosTravados
  <2>3. ProtocoloLock'
    <3>1. \A v \in DonosTravados : pc[v] = "morto"
      BY <2>1 DEF Protocolo, ProtocoloJob, SemBatidaSoDeMorto, DonosTravados, Travados
    <3>2. LockDoWorker'
      <4>1. \A w \in Workers : pc[w] \in ComLock => certificadoDe[tarefa[w]] \in Certificados
        BY DEF TypeOK, Estrutura
      <4> QED
        BY <2>1, <3>1, <4>1 DEF TypeOK, Protocolo, ProtocoloLock, LockDoWorker, Recuperar, CertDe
    <3>3. WorkerDoLock' /\ VencidoSoDeMorto'
      BY <2>1 DEF TypeOK, Protocolo, ProtocoloLock, WorkerDoLock, VencidoSoDeMorto, Recuperar,
             CertDe
    <3> QED
      BY <3>2, <3>3 DEF ProtocoloLock
  <2>4. ConcluidaComJob'
    BY <2>1 DEF TypeOK, Protocolo, ConcluidaComJob, Estrutura, Recuperar, Travados,
           DonosTravados
  <2> QED
    BY <2>2, <2>3, <2>4 DEF Protocolo
<1> QED
  BY <1>1, <1>2, <1>3 DEF Inv

\* The order of the queue is no part of the protocol.
LEMMA FicarDisponivelPreserva == ASSUME Inv, NEW i \in Consultas, FicarDisponivel(i) PROVE Inv'
<1> USE ValoresNulos DEF Inv
<1>1. TypeOK'
  BY DEF TypeOK, FicarDisponivel, Status, Encerrados, Fases, Pedido
<1>2. Estrutura'
  BY DEF TypeOK, Estrutura, FicarDisponivel
<1>3. ASSUME SemDefeitos' PROVE Protocolo'
  <2>1. SemDefeitos /\ Protocolo
    BY <1>3 DEF SemDefeitos, TypeOK, FicarDisponivel
  <2>2. ProtocoloJob'
    BY <2>1 DEF TypeOK, Protocolo, Estrutura, ProtocoloJob, JobDoWorker, WorkerDoJob,
           TarefasDistintas, SemBatidaSoDeMorto, FicarDisponivel
  <2>3. ProtocoloLock'
    BY <2>1 DEF TypeOK, Protocolo, Estrutura, ProtocoloLock, LockDoWorker,
           WorkerDoLock, VencidoSoDeMorto, CertDe, FicarDisponivel
  <2>4. ConcluidaComJob'
    BY <2>1 DEF TypeOK, Protocolo, ConcluidaComJob, Estrutura, FicarDisponivel
  <2> QED
    BY <2>2, <2>3, <2>4 DEF Protocolo
<1> QED
  BY <1>1, <1>2, <1>3 DEF Inv

\* Neither is the cycle of the monitor.
LEMMA VencerCicloPreserva == ASSUME Inv, VencerCiclo PROVE Inv'
<1> USE ValoresNulos DEF Inv
<1>1. TypeOK'
  BY DEF TypeOK, VencerCiclo, Status, Encerrados, Fases, Pedido
<1>2. Estrutura'
  BY DEF TypeOK, Estrutura, VencerCiclo
<1>3. ASSUME SemDefeitos' PROVE Protocolo'
  <2>1. SemDefeitos /\ Protocolo
    BY <1>3 DEF SemDefeitos, TypeOK, VencerCiclo
  <2>2. ProtocoloJob'
    BY <2>1 DEF TypeOK, Protocolo, Estrutura, ProtocoloJob, JobDoWorker, WorkerDoJob,
           TarefasDistintas, SemBatidaSoDeMorto, VencerCiclo
  <2>3. ProtocoloLock'
    BY <2>1 DEF TypeOK, Protocolo, Estrutura, ProtocoloLock, LockDoWorker,
           WorkerDoLock, VencidoSoDeMorto, CertDe, VencerCiclo
  <2>4. ConcluidaComJob'
    BY <2>1 DEF TypeOK, Protocolo, ConcluidaComJob, Estrutura, VencerCiclo
  <2> QED
    BY <2>2, <2>3, <2>4 DEF Protocolo
<1> QED
  BY <1>1, <1>2, <1>3 DEF Inv

\* A tick only decides what to enqueue.
LEMMA CicloAgendadorPreserva == ASSUME Inv, CicloAgendador PROVE Inv'
<1> USE ValoresNulos DEF Inv
<1>1. TypeOK'
  BY DEF TypeOK, CicloAgendador, LerElegiveis, Status, Encerrados, Fases, Pedido
<1>2. Estrutura'
  BY DEF TypeOK, Estrutura, CicloAgendador, LerElegiveis
<1>3. ASSUME SemDefeitos' PROVE Protocolo'
  <2>1. SemDefeitos /\ Protocolo
    BY <1>3 DEF SemDefeitos, TypeOK, CicloAgendador, LerElegiveis
  <2>2. ProtocoloJob'
    BY <2>1 DEF TypeOK, Protocolo, Estrutura, ProtocoloJob, JobDoWorker, WorkerDoJob,
           TarefasDistintas, SemBatidaSoDeMorto, CicloAgendador, LerElegiveis
  <2>3. ProtocoloLock'
    BY <2>1 DEF TypeOK, Protocolo, Estrutura, ProtocoloLock, LockDoWorker,
           WorkerDoLock, VencidoSoDeMorto, CertDe, CicloAgendador, LerElegiveis
  <2>4. ConcluidaComJob'
    BY <2>1 DEF TypeOK, Protocolo, ConcluidaComJob, Estrutura, CicloAgendador,
           LerElegiveis
  <2> QED
    BY <2>2, <2>3, <2>4 DEF Protocolo
<1> QED
  BY <1>1, <1>2, <1>3 DEF Inv

\* So does a request.
LEMMA PedirConsultaPreserva == ASSUME Inv, NEW o \in Origens, PedirConsulta(o) PROVE Inv'
<1> USE ValoresNulos DEF Inv
<1>1. TypeOK'
  BY DEF TypeOK, PedirConsulta, LerElegiveis, Modos, Status, Encerrados, Fases, Pedido
<1>2. Estrutura'
  BY DEF TypeOK, Estrutura, PedirConsulta, LerElegiveis, Modos
<1>3. ASSUME SemDefeitos' PROVE Protocolo'
  <2>1. SemDefeitos /\ Protocolo
    BY <1>3 DEF SemDefeitos, TypeOK, PedirConsulta, LerElegiveis, Modos
  <2>2. ProtocoloJob'
    BY <2>1 DEF TypeOK, Protocolo, Estrutura, ProtocoloJob, JobDoWorker, WorkerDoJob,
           TarefasDistintas, SemBatidaSoDeMorto, PedirConsulta, LerElegiveis, Modos
  <2>3. ProtocoloLock'
    BY <2>1 DEF TypeOK, Protocolo, Estrutura, ProtocoloLock, LockDoWorker,
           WorkerDoLock, VencidoSoDeMorto, CertDe, PedirConsulta, LerElegiveis, Modos
  <2>4. ConcluidaComJob'
    BY <2>1 DEF TypeOK, Protocolo, ConcluidaComJob, Estrutura, PedirConsulta,
           LerElegiveis, Modos
  <2> QED
    BY <2>2, <2>3, <2>4 DEF Protocolo
<1> QED
  BY <1>1, <1>2, <1>3 DEF Inv

\* And one that had to cancel first.
LEMMA SeguirPedidoPreserva == ASSUME Inv, NEW o \in Origens, SeguirPedidoComNsu(o) PROVE Inv'
<1> USE ValoresNulos DEF Inv
<1>1. TypeOK'
  BY DEF TypeOK, SeguirPedidoComNsu, LerElegiveis, Status, Encerrados, Fases, Pedido
<1>2. Estrutura'
  BY DEF TypeOK, Estrutura, SeguirPedidoComNsu, LerElegiveis
<1>3. ASSUME SemDefeitos' PROVE Protocolo'
  <2>1. SemDefeitos /\ Protocolo
    BY <1>3 DEF SemDefeitos, TypeOK, SeguirPedidoComNsu, LerElegiveis
  <2>2. ProtocoloJob'
    BY <2>1 DEF TypeOK, Protocolo, Estrutura, ProtocoloJob, JobDoWorker, WorkerDoJob,
           TarefasDistintas, SemBatidaSoDeMorto, SeguirPedidoComNsu, LerElegiveis
  <2>3. ProtocoloLock'
    BY <2>1 DEF TypeOK, Protocolo, Estrutura, ProtocoloLock, LockDoWorker,
           WorkerDoLock, VencidoSoDeMorto, CertDe, SeguirPedidoComNsu, LerElegiveis
  <2>4. ConcluidaComJob'
    BY <2>1 DEF TypeOK, Protocolo, ConcluidaComJob, Estrutura, SeguirPedidoComNsu,
           LerElegiveis
  <2> QED
    BY <2>2, <2>3, <2>4 DEF Protocolo
<1> QED
  BY <1>1, <1>2, <1>3 DEF Inv

\* New consultas take rows nobody points to.
LEMMA GravarConsultasPreserva == ASSUME Inv, NEW o \in Origens, GravarConsultas(o) PROVE Inv'
<1> USE ValoresNulos DEF Inv
<1>1. TypeOK'
  BY DEF TypeOK, GravarConsultas, CriarConsultas, Inexistentes, SemPedido, Status,
         Encerrados, Fases, Pedido
<1>2. Estrutura'
  <2>1. PICK novos \in SUBSET Inexistentes : \E g \in [novos -> pedido[o].certs] :
          /\ statusProcesso' = [i \in Consultas |->
                                  IF i \in novos THEN "pendente" ELSE statusProcesso[i]]
          /\ statusJob' = [i \in Consultas |-> IF i \in novos THEN "pendente" ELSE statusJob[i]]
          /\ certificadoDe' = [i \in Consultas |->
                                 IF i \in novos THEN g[i] ELSE certificadoDe[i]]
    BY DEF GravarConsultas, CriarConsultas
  <2>2. pedido[o].certs \subseteq Certificados
    BY DEF TypeOK, Pedido
  <2>3. UNCHANGED <<pc, tarefa, resultado, cancelando>>
    BY DEF GravarConsultas
  <2> QED
    BY <2>1, <2>2, <2>3 DEF TypeOK, Estrutura, Inexistentes
<1>3. ASSUME SemDefeitos' PROVE Protocolo'
  <2>1. SemDefeitos /\ Protocolo
    BY <1>3 DEF SemDefeitos, TypeOK, GravarConsultas, CriarConsultas, Inexistentes,
           SemPedido
  <2>2. ProtocoloJob'
    BY <2>1 DEF TypeOK, Protocolo, Estrutura, ProtocoloJob, JobDoWorker, WorkerDoJob,
           TarefasDistintas, SemBatidaSoDeMorto, GravarConsultas, CriarConsultas,
           Inexistentes, SemPedido
  <2>3. ProtocoloLock'
    BY <2>1 DEF TypeOK, Protocolo, Estrutura, ProtocoloLock, LockDoWorker,
           WorkerDoLock, VencidoSoDeMorto, CertDe, GravarConsultas, CriarConsultas,
           Inexistentes, SemPedido
  <2>4. ConcluidaComJob'
    BY <2>1 DEF TypeOK, Protocolo, ConcluidaComJob, Estrutura, GravarConsultas,
           CriarConsultas, Inexistentes, SemPedido
  <2> QED
    BY <2>2, <2>3, <2>4 DEF Protocolo
<1> QED
  BY <1>1, <1>2, <1>3 DEF Inv

\* The same for one certificate.
LEMMA CriarProcessoPreserva == ASSUME Inv, NEW o \in Origens, CriarProcesso(o) PROVE Inv'
<1> USE ValoresNulos DEF Inv
<1>1. TypeOK'
  BY DEF TypeOK, CriarProcesso, CriarConsultas, Inexistentes, Status, Encerrados,
         Fases, Pedido
<1>2. Estrutura'
  BY DEF TypeOK, Estrutura, CriarProcesso, CriarConsultas, Inexistentes
<1>3. ASSUME SemDefeitos' PROVE Protocolo'
  <2>1. SemDefeitos /\ Protocolo
    BY <1>3 DEF SemDefeitos, TypeOK, CriarProcesso, CriarConsultas, Inexistentes
  <2>2. ProtocoloJob'
    BY <2>1 DEF TypeOK, Protocolo, Estrutura, ProtocoloJob, JobDoWorker, WorkerDoJob,
           TarefasDistintas, SemBatidaSoDeMorto, CriarProcesso, CriarConsultas,
           Inexistentes
  <2>3. ProtocoloLock'
    BY <2>1 DEF TypeOK, Protocolo, Estrutura, ProtocoloLock, LockDoWorker,
           WorkerDoLock, VencidoSoDeMorto, CertDe, CriarProcesso, CriarConsultas,
           Inexistentes
  <2>4. ConcluidaComJob'
    BY <2>1 DEF TypeOK, Protocolo, ConcluidaComJob, Estrutura, CriarProcesso,
           CriarConsultas, Inexistentes
  <2> QED
    BY <2>2, <2>3, <2>4 DEF Protocolo
<1> QED
  BY <1>1, <1>2, <1>3 DEF Inv

\* A cancelled job may stay in the hands of its worker.
LEMMA PedirComNsuPreserva == ASSUME Inv, NEW o \in Origens, PedirConsultaComNsu(o) PROVE Inv'
<1> USE ValoresNulos DEF Inv
<1>1. TypeOK'
  <2>1. /\ statusProcesso' \in [Consultas -> Status \cup {"inexistente"}]
        /\ statusJob' \in [Consultas -> Status \cup {"inexistente"}]
        /\ lockedBy' \in [Consultas -> Workers \cup {Nenhum}]
    BY DEF TypeOK, PedirConsultaComNsu, DesativarConsultas, CancelarDosCertificados,
           CancelarLinhas, Status, Encerrados
  <2>2. UNCHANGED <<semBatida, certificadoDe>>
    BY DEF PedirConsultaComNsu, DesativarConsultas, CancelarDosCertificados, CancelarLinhas
  <2>3. /\ pedido' \in [Origens -> Pedido]
        /\ monitorAtivo' \in BOOLEAN /\ cicloVencido' \in BOOLEAN
    <3>1. PICK alvo \in SUBSET Certificados, forcar \in BOOLEAN, modo \in Modos \ {"soma"} :
            /\ pedido' = [pedido EXCEPT ![o] =
                            [fase |-> "ler", modo |-> modo, forcar |-> forcar, certs |-> alvo]]
            /\ \/ modo = "automatico" /\ DesativarConsultas
               \/ UNCHANGED <<monitorAtivo, cicloVencido>>
      BY DEF PedirConsultaComNsu
    <3>2. modo \in {"avulsa", "automatico"}
      BY DEF Modos
    <3> QED
      BY <3>1, <3>2 DEF TypeOK, DesativarConsultas, Pedido
  <2> QED
    BY <2>1, <2>2, <2>3 DEF TypeOK, PedirConsultaComNsu
<1>2. Estrutura'
  BY DEF TypeOK, Estrutura, PedirConsultaComNsu, DesativarConsultas,
         CancelarDosCertificados, CancelarLinhas, Modos
<1>3. ASSUME SemDefeitos' PROVE Protocolo'
  <2>1. SemDefeitos /\ Protocolo
    BY <1>3 DEF SemDefeitos, TypeOK, PedirConsultaComNsu, DesativarConsultas,
           CancelarDosCertificados, CancelarLinhas, Modos
  <2>2. ProtocoloJob'
    BY <2>1 DEF TypeOK, Protocolo, Estrutura, ProtocoloJob, JobDoWorker, WorkerDoJob,
           TarefasDistintas, SemBatidaSoDeMorto, PedirConsultaComNsu,
           DesativarConsultas, CancelarDosCertificados, CancelarLinhas, Modos
  <2>3. ProtocoloLock'
    BY <2>1 DEF TypeOK, Protocolo, Estrutura, ProtocoloLock, LockDoWorker,
           WorkerDoLock, VencidoSoDeMorto, CertDe, PedirConsultaComNsu,
           DesativarConsultas, CancelarDosCertificados, CancelarLinhas, Modos
  <2>4. ConcluidaComJob'
    BY <2>1 DEF TypeOK, Protocolo, ConcluidaComJob, Estrutura, PedirConsultaComNsu,
           DesativarConsultas, CancelarDosCertificados, CancelarLinhas, Modos
  <2> QED
    BY <2>2, <2>3, <2>4 DEF Protocolo
<1> QED
  BY <1>1, <1>2, <1>3 DEF Inv

\* The same when the monitor is turned off.
LEMMA DesativarMonitorPreserva == ASSUME Inv, DesativarMonitor PROVE Inv'
<1> USE ValoresNulos DEF Inv
<1>1. TypeOK'
  <2>1. /\ statusProcesso' \in [Consultas -> Status \cup {"inexistente"}]
        /\ statusJob' \in [Consultas -> Status \cup {"inexistente"}]
        /\ lockedBy' \in [Consultas -> Workers \cup {Nenhum}]
    BY DEF TypeOK, DesativarMonitor, DesativarConsultas,
           CancelarLinhas, Status, Encerrados
  <2>2. UNCHANGED <<semBatida, certificadoDe>>
    BY DEF DesativarMonitor, DesativarConsultas, CancelarLinhas
  <2>3. /\ pedido' \in [Origens -> Pedido]
        /\ monitorAtivo' \in BOOLEAN /\ cicloVencido' \in BOOLEAN
    BY DEF TypeOK, DesativarMonitor, DesativarConsultas, Pedido
  <2> QED
    BY <2>1, <2>2, <2>3 DEF TypeOK, DesativarMonitor
<1>2. Estrutura'
  BY DEF TypeOK, Estrutura, DesativarMonitor, DesativarConsultas, CancelarLinhas
<1>3. ASSUME SemDefeitos' PROVE Protocolo'
  <2>1. SemDefeitos /\ Protocolo
    BY <1>3 DEF SemDefeitos, TypeOK, DesativarMonitor, DesativarConsultas,
           CancelarLinhas
  <2>2. ProtocoloJob'
    BY <2>1 DEF TypeOK, Protocolo, Estrutura, ProtocoloJob, JobDoWorker, WorkerDoJob,
           TarefasDistintas, SemBatidaSoDeMorto, DesativarMonitor,
           DesativarConsultas, CancelarLinhas
  <2>3. ProtocoloLock'
    BY <2>1 DEF TypeOK, Protocolo, Estrutura, ProtocoloLock, LockDoWorker,
           WorkerDoLock, VencidoSoDeMorto, CertDe, DesativarMonitor,
           DesativarConsultas, CancelarLinhas
  <2>4. ConcluidaComJob'
    BY <2>1 DEF TypeOK, Protocolo, ConcluidaComJob, Estrutura, DesativarMonitor,
           DesativarConsultas, CancelarLinhas
  <2> QED
    BY <2>2, <2>3, <2>4 DEF Protocolo
<1> QED
  BY <1>1, <1>2, <1>3 DEF Inv

\* A cancel request reads.
LEMMA LerParaCancelarPreserva == ASSUME Inv, NEW i \in Consultas, LerParaCancelar(i) PROVE Inv'
<1> USE ValoresNulos DEF Inv
<1>1. TypeOK'
  BY DEF TypeOK, LerParaCancelar, Status, Encerrados, Fases, Pedido
<1>2. Estrutura'
  BY DEF TypeOK, Estrutura, LerParaCancelar
<1>3. ASSUME SemDefeitos' PROVE Protocolo'
  <2>1. SemDefeitos /\ Protocolo
    BY <1>3 DEF SemDefeitos, TypeOK, LerParaCancelar
  <2>2. ProtocoloJob'
    BY <2>1 DEF TypeOK, Protocolo, Estrutura, ProtocoloJob, JobDoWorker, WorkerDoJob,
           TarefasDistintas, SemBatidaSoDeMorto, LerParaCancelar
  <2>3. ProtocoloLock'
    BY <2>1 DEF TypeOK, Protocolo, Estrutura, ProtocoloLock, LockDoWorker,
           WorkerDoLock, VencidoSoDeMorto, CertDe, LerParaCancelar
  <2>4. ConcluidaComJob'
    BY <2>1 DEF TypeOK, Protocolo, ConcluidaComJob, Estrutura, LerParaCancelar
  <2> QED
    BY <2>2, <2>3, <2>4 DEF Protocolo
<1> QED
  BY <1>1, <1>2, <1>3 DEF Inv

\* A cancel request writes over whatever the processo is by now.
LEMMA GravarCancelamentoPreserva == ASSUME Inv, GravarCancelamento PROVE Inv'
<1> USE ValoresNulos DEF Inv
<1>1. TypeOK'
  BY DEF TypeOK, GravarCancelamento, CancelarLinhas, Status, Encerrados, Fases, Pedido
<1>2. Estrutura'
  BY DEF TypeOK, Estrutura, GravarCancelamento, CancelarLinhas
<1>3. ASSUME SemDefeitos' PROVE Protocolo'
  <2>1. SemDefeitos /\ Protocolo
    BY <1>3 DEF SemDefeitos, TypeOK, GravarCancelamento, CancelarLinhas
  <2>2. ProtocoloJob'
    BY <2>1 DEF TypeOK, Protocolo, Estrutura, ProtocoloJob, JobDoWorker, WorkerDoJob,
           TarefasDistintas, SemBatidaSoDeMorto, GravarCancelamento, CancelarLinhas
  <2>3. ProtocoloLock'
    BY <2>1 DEF TypeOK, Protocolo, Estrutura, ProtocoloLock, LockDoWorker,
           WorkerDoLock, VencidoSoDeMorto, CertDe, GravarCancelamento, CancelarLinhas
  <2>4. ConcluidaComJob'
    BY <2>1 DEF TypeOK, Protocolo, ConcluidaComJob, Estrutura, GravarCancelamento,
           CancelarLinhas
  <2> QED
    BY <2>2, <2>3, <2>4 DEF Protocolo
<1> QED
  BY <1>1, <1>2, <1>3 DEF Inv


-----------------------------------------------------------------------------
\* A step that changes nothing of the queue keeps the invariant.
LEMMA RepetirPreserva == ASSUME Inv, UNCHANGED vars PROVE Inv'
<1>1. UNCHANGED <<statusProcesso, statusJob, lockedBy, semBatida, certificadoDe, titular,
                  lockVencido, pc, tarefa, vistoProcesso, vistoJob, resultado, heartbeat>>
  BY DEF vars
<1>2. UNCHANGED <<disponivel, ordem, pedido, cancelando, monitorAtivo, cicloVencido,
                  falhas, atrasos, quedas, cancelamentos>>
  BY DEF vars
<1>3. TypeOK' /\ Estrutura' /\ SemDefeitos' = SemDefeitos
  BY <1>1, <1>2 DEF Inv, TypeOK, Estrutura, SemDefeitos
<1>4. Protocolo' <=> Protocolo
  BY <1>1 DEF Protocolo, ProtocoloJob, ProtocoloLock, ConcluidaComJob, JobDoWorker, WorkerDoJob,
         TarefasDistintas, SemBatidaSoDeMorto, LockDoWorker, WorkerDoLock, VencidoSoDeMorto,
         CertDe
<1> QED
  BY <1>3, <1>4 DEF Inv

\* Every step of the queue keeps the invariant, action by action.
LEMMA PassoPreserva == Inv /\ [Next]_vars => Inv'
<1> SUFFICES ASSUME Inv, [Next]_vars PROVE Inv'
  OBVIOUS
<1>1. CASE Pedidos
  BY <1>1, CicloAgendadorPreserva, PedirConsultaPreserva, PedirComNsuPreserva,
     SeguirPedidoPreserva, GravarConsultasPreserva, CriarProcessoPreserva,
     DesativarMonitorPreserva, LerParaCancelarPreserva, GravarCancelamentoPreserva DEF Pedidos
<1>2. ASSUME NEW w \in Workers, PassoDoWorker(w) PROVE Inv'
  BY <1>2, LerReservaPreserva, DescartarReservaPreserva, PerderReservaPreserva,
     IniciarComLockLivrePreserva, IniciarComLockVencidoPreserva, DevolverPreserva,
     LerCancelamentoPreserva, ConcluirCanceladoPreserva, ConcluirPreserva, LiberarPreserva
     DEF PassoDoWorker
<1>3. ASSUME NEW w \in Workers, Reservar(w) \/ Renovar(w) \/ Falhar(w) \/ Cair(w) PROVE Inv'
  BY <1>3, ReservarPreserva, RenovarPreserva, FalharPreserva, CairPreserva
<1>4. CASE Tempo
  BY <1>4, PararDeBaterPreserva, FicarDisponivelPreserva, VencerLockPreserva, VencerCicloPreserva
     DEF Tempo
<1>5. CASE Recuperar
  BY <1>5, RecuperarPreserva
<1>6. CASE UNCHANGED vars
  BY <1>6, RepetirPreserva
<1> QED
  BY <1>1, <1>2, <1>3, <1>4, <1>5, <1>6 DEF Next

\* The invariant of the queue holds in every reachable state, for any number of
\* workers, certificates and consultas and any mix of crashes, delays, failures,
\* cancellations and duplicate requests.
THEOREM Invariancia == Spec => []Inv
BY Inicial, PassoPreserva, PTL DEF Spec

\* Every variable of the queue keeps its type whatever fails.
THEOREM Tipos == Spec => []TypeOK
<1>1. Inv => TypeOK
  BY DEF Inv
<1> QED
  BY <1>1, Invariancia, PTL

\* Without defects at most one worker runs the engine for a certificate: the
\* lock of the certificate is in the name of every worker that runs it, and a
\* lock has one owner.
THEOREM Exclusao == Spec => []ExclusaoPorCertificado
<1>1. Inv => ExclusaoPorCertificado
  BY DEF Inv, Protocolo, ProtocoloLock, LockDoWorker, ExclusaoPorCertificado, EmExecucao
<1> QED
  BY <1>1, Invariancia, PTL

\* Without defects no two workers have the same job in hand.
THEOREM JobUnico == Spec => []JobEmUmSoWorker
<1>1. ASSUME Inv, SemDefeitos, NEW w \in Workers,
             tarefa[w] # SemTarefa, pc[w] # "liberando"
      PROVE  pc[w] \in ComJob
  BY <1>1 DEF Inv, TypeOK, Estrutura, Fases
<1>2. Inv => JobEmUmSoWorker
  BY <1>1 DEF Inv, Protocolo, ProtocoloJob, TarefasDistintas, JobEmUmSoWorker
<1> QED
  BY <1>2, Invariancia, PTL

\* Without defects a lock that no execution uses belongs to a dead worker.
THEOREM LockOrfao == Spec => []LockSemExecucaoSoDeMorto
<1>1. Inv => LockSemExecucaoSoDeMorto
  BY DEF Inv, TypeOK, Protocolo, ProtocoloLock, WorkerDoLock, LockSemExecucaoSoDeMorto,
         LockEmUso, Vivo
<1> QED
  BY <1>1, Invariancia, PTL

\* A defect is never forgotten: after a step without one there was none before.
LEMMA DefeitosFicam == ASSUME Inv, [Next]_vars, SemDefeitos' PROVE SemDefeitos
<1>1. CASE Pedidos
  BY <1>1 DEF SemDefeitos, Pedidos, CicloAgendador, PedirConsulta, PedirConsultaComNsu,
         SeguirPedidoComNsu, GravarConsultas, CriarProcesso, DesativarMonitor, LerParaCancelar,
         GravarCancelamento
<1>2. ASSUME NEW w \in Workers, PassoDoWorker(w) PROVE SemDefeitos
  BY <1>2 DEF SemDefeitos, PassoDoWorker, LerReserva, DescartarReserva, PerderReserva,
         IniciarComLockLivre, IniciarComLockVencido, EntrarEmExecucao, DevolverParaFila,
         LerCancelamento, ConcluirCancelado, Concluir, Liberar
<1>3. ASSUME NEW w \in Workers, Reservar(w) \/ Renovar(w) \/ Falhar(w) \/ Cair(w)
      PROVE  SemDefeitos
  BY <1>3 DEF Inv, TypeOK, SemDefeitos, Reservar, Renovar, Falhar, Cair
<1>4. CASE Tempo
  BY <1>4 DEF Inv, TypeOK, SemDefeitos, Tempo, PararDeBater, FicarDisponivel, VencerLock,
         VencerCiclo, Prazo
<1>5. CASE Recuperar
  BY <1>5 DEF SemDefeitos, Recuperar
<1>6. CASE UNCHANGED vars
  BY <1>6 DEF SemDefeitos, vars
<1> QED
  BY <1>1, <1>2, <1>3, <1>4, <1>5, <1>6 DEF Next

\* Without defects a processo with an outcome is only ever changed by a cancel
\* request that had read it before: no worker has its job in hand any more.
THEOREM NaoReabre == Spec => ConcluidaNaoReabre
<1> DEFINE Final == {"finalizado", "erro"}
           Reabre == \E i \in Consultas : /\ statusProcesso[i] \in Final
                                         /\ statusProcesso'[i] # statusProcesso[i]
                                         /\ statusProcesso'[i] # "cancelado"
<1>1. ASSUME Inv, [Next]_vars, SemDefeitos' PROVE ~Reabre
  <2>1. TypeOK /\ Estrutura /\ Protocolo
    BY <1>1, DefeitosFicam DEF Inv
  <2>2. \A w \in Workers : pc[w] \in ComJob => statusProcesso[tarefa[w]] \notin Final
    BY <2>1 DEF Estrutura, Protocolo, ProtocoloJob, JobDoWorker, ConcluidaComJob
  <2>3. CASE Pedidos
    <3>1. CASE DesativarMonitor \/ GravarCancelamento \/ \E o \in Origens : PedirConsultaComNsu(o)
      BY <2>1, <3>1 DEF TypeOK, DesativarMonitor, GravarCancelamento, PedirConsultaComNsu,
             DesativarConsultas, CancelarDosCertificados, CancelarLinhas
    <3>2. ASSUME NEW C, NEW d, CriarConsultas(C, d) PROVE ~Reabre
      BY <2>1, <3>2 DEF TypeOK, CriarConsultas, Inexistentes
    <3>3. CASE \E o \in Origens : GravarConsultas(o) \/ CriarProcesso(o)
      BY <3>2, <3>3 DEF GravarConsultas, CriarProcesso
    <3>4. CASE \/ CicloAgendador \/ \E i \in Consultas : LerParaCancelar(i)
               \/ \E o \in Origens : PedirConsulta(o) \/ SeguirPedidoComNsu(o)
      BY <3>4 DEF CicloAgendador, LerParaCancelar, PedirConsulta, SeguirPedidoComNsu
    <3> QED
      BY <2>3, <3>1, <3>3, <3>4 DEF Pedidos
  <2>4. ASSUME NEW w \in Workers, PassoDoWorker(w) PROVE ~Reabre
    BY <2>1, <2>2, <2>4 DEF TypeOK, PassoDoWorker, LerReserva, DescartarReserva, PerderReserva,
           IniciarComLockLivre, IniciarComLockVencido, EntrarEmExecucao, DevolverParaFila,
           LerCancelamento, ConcluirCancelado, FimDaExecucao, Concluir, Liberar
  <2>5. ASSUME NEW w \in Workers, Reservar(w) \/ Renovar(w) \/ Falhar(w) \/ Cair(w)
        PROVE  ~Reabre
    BY <2>5 DEF Reservar, Renovar, Falhar, Cair
  <2>6. CASE Tempo
    BY <2>6 DEF Tempo, PararDeBater, FicarDisponivel, VencerLock, VencerCiclo
  <2>7. CASE Recuperar
    BY <2>1, <2>7 DEF TypeOK, Recuperar
  <2>8. CASE UNCHANGED vars
    BY <2>8 DEF vars
  <2> QED
    BY <1>1, <2>3, <2>4, <2>5, <2>6, <2>7, <2>8 DEF Next
<1>2. Inv /\ [Next]_vars => [SemDefeitos' => \A i \in Consultas : statusProcesso[i] \in Final =>
                             statusProcesso'[i] \in {statusProcesso[i], "cancelado"}]_vars
  BY <1>1
<1> QED
  BY <1>2, Invariancia, PTL DEF Spec, ConcluidaNaoReabre

-----------------------------------------------------------------------------
(* The queue implements ExecucaoDeConsultas.  Em(c) and Fim are what the    *)
(* refinement mapping gives the two variables of the abstract module.       *)

Em(c) == {<<w, tarefa[w]>> : w \in {v \in Workers : EmExecucao(v) /\ CertDe(v) = c}}
Fim   == {i \in Consultas : statusJob[i] \in {"finalizado", "erro"}}

\* The hypotheses every step of the implementation has.
Sadio == Inv /\ SemDefeitos

\* The abstract variables depend on who executes what for whom, and on outcomes.
LEMMA MesmaVisao ==
  ASSUME \A w \in Workers : EmExecucao(w)' <=> EmExecucao(w),
         \A w \in Workers : EmExecucao(w) =>
           tarefa'[w] = tarefa[w] /\ CertDe(w)' = CertDe(w),
         Fim' = Fim
  PROVE  [Execucao!Next]_(Execucao!vars)
<1>1. \A c \in Certificados : Em(c)' = Em(c)
  BY DEF Em
<1>2. UNCHANGED Execucao!vars
  BY <1>1 DEF Execucao!vars, Em, Fim
<1> QED
  BY <1>2

\* The consulta a worker executes is one that exists and has a certificate.
LEMMA Executando ==
  ASSUME Sadio, NEW w \in Workers, EmExecucao(w)
  PROVE  /\ CertDe(w) \in Certificados /\ tarefa[w] \in Consultas
         /\ Em(CertDe(w)) = {<<w, tarefa[w]>>}
         /\ statusJob[tarefa[w]] \in {"rodando", "cancelado"}
<1>1. \A v \in Workers : EmExecucao(v) /\ CertDe(v) = CertDe(w) => v = w
  BY DEF Sadio, Inv, Protocolo, ProtocoloLock, LockDoWorker, EmExecucao
<1> QED
  BY <1>1 DEF Sadio, Inv, TypeOK, Estrutura, Protocolo, ProtocoloJob, JobDoWorker, EmExecucao, Em,
         CertDe

\* A consulta in the hands of a worker that does not execute is not executed.
LEMMA NaoExecutada ==
  ASSUME Sadio, NEW w \in Workers, pc[w] \in ComJob, ~EmExecucao(w)
  PROVE  ~Execucao!EmCurso(tarefa[w])
BY DEF Sadio, Inv, Protocolo, ProtocoloJob, TarefasDistintas, EmExecucao, Execucao!EmCurso

\* When w starts or stops, nothing changes for the other certificates.
LEMMA OutrosIguais ==
  ASSUME NEW w \in Workers,
         \A v \in Workers \ {w} : EmExecucao(v)' <=> EmExecucao(v),
         UNCHANGED <<tarefa, certificadoDe>>,
         NEW c \in Certificados, c # CertDe(w)
  PROVE  Em(c)' = Em(c)
BY DEF Em, CertDe

\* A worker that starts to execute its consulta is the abstract Comecar.
LEMMA Comeco ==
  ASSUME Sadio, NEW w \in Workers, pc[w] = "lido", NEW c \in Certificados, c = CertDe(w),
         titular[c] = Nenhum \/ lockVencido[c],
         pc' = [pc EXCEPT ![w] = "executando"],
         UNCHANGED <<tarefa, certificadoDe>>,
         Fim' = Fim
  PROVE  Execucao!Comecar(w, tarefa[w], c)
<1>1. tarefa[w] \in Consultas /\ statusJob[tarefa[w]] \notin {"finalizado", "erro"}
  BY DEF Sadio, Inv, Estrutura, Protocolo, ProtocoloJob, JobDoWorker
<1>2. \A v \in Workers : EmExecucao(v) => CertDe(v) # c
  BY ValoresNulos DEF Sadio, Inv, TypeOK, Protocolo, ProtocoloLock, LockDoWorker, VencidoSoDeMorto,
         EmExecucao
<1>3. Em(c) = {}
  BY <1>2 DEF Em
<1>4. ~Execucao!EmCurso(tarefa[w])
  BY NaoExecutada DEF EmExecucao
<1>5. \A v \in Workers : EmExecucao(v)' <=> EmExecucao(v) \/ v = w
  BY DEF Sadio, Inv, TypeOK, EmExecucao
<1>6. Em(c)' = {<<w, tarefa[w]>>}
  BY <1>2, <1>5 DEF Em, CertDe
<1>7. \A d \in Certificados : d # c => Em(d)' = Em(d)
  BY <1>5, OutrosIguais
<1>8. [d \in Certificados |-> Em(d)]' =
         [[d \in Certificados |-> Em(d)] EXCEPT ![c] = {<<w, tarefa[w]>>}]
  BY <1>6, <1>7
<1> QED
  BY <1>1, <1>3, <1>4, <1>8 DEF Execucao!Comecar, Em, Fim

\* A worker that stops executing is the abstract Concluir or Interromper.
LEMMA Parada ==
  ASSUME Sadio, NEW w \in Workers, EmExecucao(w), NEW c \in Certificados, c = CertDe(w),
         NEW fase \in {"liberando", "morto"},
         pc' = [pc EXCEPT ![w] = fase],
         \A v \in Workers \ {w} : tarefa'[v] = tarefa[v],
         UNCHANGED certificadoDe
  PROVE  [d \in Certificados |-> Em(d)]' = [[d \in Certificados |-> Em(d)] EXCEPT ![c] = {}]
<1>1. \A v \in Workers : EmExecucao(v)' <=> EmExecucao(v) /\ v # w
  BY DEF Sadio, Inv, TypeOK, EmExecucao
<1>2. \A v \in Workers \ {w} : CertDe(v)' = CertDe(v)
  BY DEF CertDe
<1>3. \A d \in Certificados : Em(d)' = Em(d) \ {<<w, tarefa[w]>>}
  BY <1>1, <1>2 DEF Em
<1>4. \A d \in Certificados : d # c => <<w, tarefa[w]>> \notin Em(d)
  BY DEF Em
<1>5. Em(c)' = {}
  BY <1>3, Executando
<1>6. \A d \in Certificados : d # c => Em(d)' = Em(d)
  BY <1>3, <1>4
<1> QED
  BY <1>5, <1>6

\* Steps that only move consultas in and out of the queue.
LEMMA PedidosImplementam ==
  ASSUME Sadio, Pedidos PROVE [Execucao!Next]_(Execucao!vars)
<1>1. UNCHANGED <<pc, tarefa>>
  BY DEF Pedidos, CicloAgendador, PedirConsulta, PedirConsultaComNsu, SeguirPedidoComNsu,
         GravarConsultas, CriarProcesso, DesativarMonitor, LerParaCancelar, GravarCancelamento
<1>2. /\ \A i \in Consultas : statusJob[i] # "inexistente" => certificadoDe'[i] = certificadoDe[i]
      /\ Fim' = Fim
  <2>1. CASE DesativarMonitor \/ GravarCancelamento \/ \E o \in Origens : PedirConsultaComNsu(o)
    <3>1. UNCHANGED certificadoDe
      BY <2>1 DEF DesativarMonitor, GravarCancelamento, PedirConsultaComNsu,
             DesativarConsultas, CancelarDosCertificados, CancelarLinhas
    <3>2. \A i \in Consultas : statusJob'[i] # statusJob[i] =>
            statusJob[i] \in Ativos /\ statusJob'[i] = "cancelado"
      BY <2>1 DEF Sadio, Inv, TypeOK, DesativarMonitor, GravarCancelamento, PedirConsultaComNsu,
             DesativarConsultas, CancelarDosCertificados, CancelarLinhas
    <3> QED
      BY <3>1, <3>2 DEF Fim
  <2>2. ASSUME NEW C, NEW d, CriarConsultas(C, d) PROVE <1>2
    BY <2>2 DEF Sadio, Inv, TypeOK, Estrutura, CriarConsultas, Inexistentes, Fim
  <2>3. CASE \E o \in Origens : GravarConsultas(o) \/ CriarProcesso(o)
    BY <2>2, <2>3 DEF GravarConsultas, CriarProcesso
  <2>4. CASE \/ CicloAgendador \/ \E i \in Consultas : LerParaCancelar(i)
             \/ \E o \in Origens : PedirConsulta(o) \/ SeguirPedidoComNsu(o)
    BY <2>4 DEF CicloAgendador, LerParaCancelar, PedirConsulta, SeguirPedidoComNsu, Fim
  <2> QED
    BY <2>1, <2>3, <2>4 DEF Pedidos
<1>3. \A w \in Workers : EmExecucao(w)' <=> EmExecucao(w)
  BY <1>1 DEF EmExecucao
<1>4. \A w \in Workers : EmExecucao(w) => CertDe(w)' = CertDe(w)
  BY <1>1, <1>2 DEF Sadio, Inv, Estrutura, EmExecucao, CertDe
<1> QED
  BY <1>1, <1>2, <1>3, <1>4, MesmaVisao

\* Steps of a worker that executes neither before nor after, or both before and
\* after, and writes no outcome.
LEMMA NaFilaImplementa ==
  ASSUME Sadio, NEW w \in Workers,
         Reservar(w) \/ Renovar(w) \/ LerReserva(w) \/ DescartarReserva(w) \/ PerderReserva(w)
           \/ DevolverParaFila(w) \/ Liberar(w)
  PROVE  [Execucao!Next]_(Execucao!vars)
<1>1. UNCHANGED certificadoDe
  BY DEF Reservar, Renovar, LerReserva, DescartarReserva, PerderReserva, DevolverParaFila, Liberar
<1>2. \A v \in Workers : /\ EmExecucao(v)' <=> EmExecucao(v)
                         /\ EmExecucao(v) => tarefa'[v] = tarefa[v]
  <2>1. CASE Reservar(w) \/ Renovar(w) \/ LerReserva(w)
    BY <2>1 DEF Sadio, Inv, TypeOK, Reservar, Renovar, LerReserva, EmExecucao
  <2>2. CASE DescartarReserva(w) \/ PerderReserva(w) \/ DevolverParaFila(w) \/ Liberar(w)
    <3>1. ~EmExecucao(w) /\ Largar(w, "livre")
      BY <2>2 DEF DescartarReserva, PerderReserva, DevolverParaFila, Liberar, EmExecucao
    <3> QED
      BY <3>1 DEF Sadio, Inv, TypeOK, Largar, EmExecucao
  <2> QED
    BY <2>1, <2>2
<1>3. \A v \in Workers : EmExecucao(v) => CertDe(v)' = CertDe(v)
  BY <1>1, <1>2 DEF CertDe
<1>4. \A i \in Consultas : statusJob'[i] # statusJob[i] =>
        {statusJob[i], statusJob'[i]} \subseteq Ativos \cup {"cancelado"}
  <2>1. CASE Renovar(w) \/ LerReserva(w) \/ PerderReserva(w) \/ Liberar(w)
    BY <2>1 DEF Renovar, LerReserva, PerderReserva, Liberar
  <2>2. CASE Reservar(w)
    BY <2>2 DEF Sadio, Inv, TypeOK, Reservar, EhPrimeiro, NaFila
  <2>3. CASE DescartarReserva(w)
    BY <2>3 DEF Sadio, Inv, TypeOK, Estrutura, Protocolo, ProtocoloJob, WorkerDoJob,
           DescartarReserva, JobLido, ReservadosPor
  <2>4. CASE DevolverParaFila(w)
    <3>1. statusJob[tarefa[w]] \in {"rodando", "cancelado"}
      BY <2>4 DEF Sadio, Inv, Protocolo, ProtocoloJob, JobDoWorker, DevolverParaFila
    <3> QED
      BY <2>4, <3>1 DEF Sadio, Inv, TypeOK, DevolverParaFila
  <2> QED
    BY <2>1, <2>2, <2>3, <2>4
<1>5. Fim' = Fim
  BY <1>4 DEF Fim
<1> QED
  BY <1>2, <1>3, <1>5, MesmaVisao

\* Both ways of acquiring the lock of the certificate implement Comecar.
LEMMA InicioImplementa ==
  ASSUME Sadio, NEW w \in Workers, IniciarComLockLivre(w) \/ IniciarComLockVencido(w)
  PROVE  [Execucao!Next]_(Execucao!vars)
<1>1. /\ tarefa[w] \in Consultas /\ CertDe(w) \in Certificados
      /\ statusJob[tarefa[w]] \in {"rodando", "cancelado"} /\ vistoJob[w] = "rodando"
  BY DEF Sadio, Inv, Estrutura, Protocolo, ProtocoloJob, JobDoWorker, CertDe, IniciarComLockLivre,
         IniciarComLockVencido
<1>2. Fim' = Fim
  BY <1>1 DEF Sadio, Inv, TypeOK, IniciarComLockLivre, IniciarComLockVencido, Gravar, Fim
<1>3. /\ pc[w] = "lido" /\ pc' = [pc EXCEPT ![w] = "executando"]
      /\ titular[CertDe(w)] = Nenhum \/ lockVencido[CertDe(w)]
      /\ UNCHANGED <<tarefa, certificadoDe>>
  BY DEF IniciarComLockLivre, IniciarComLockVencido, EntrarEmExecucao
<1>4. \E c \in Certificados : Execucao!Comecar(w, tarefa[w], c)
  BY <1>1, <1>2, <1>3, Comeco
<1> QED
  BY <1>1, <1>4 DEF Execucao!Next, Execucao!Comecar

\* Reading whether the consulta was cancelled writes nothing abstract.
LEMMA LerCancelamentoImplementa ==
  ASSUME Sadio, NEW w \in Workers, NEW r \in {"finalizado", "erro"}, LerCancelamento(w, r)
  PROVE  [Execucao!Next]_(Execucao!vars)
<1>1. \A v \in Workers : EmExecucao(v)' <=> EmExecucao(v)
  BY DEF Sadio, Inv, TypeOK, LerCancelamento, FimDaExecucao, EmExecucao
<1> QED
  BY <1>1, MesmaVisao DEF LerCancelamento, CertDe, Fim

\* A step of w that writes the row of its consulta and then, if it executed,
\* goes to release the lock.
LEMMA SaidaSemExecutar ==
  ASSUME Sadio, NEW w \in Workers, pc[w] \in {"lido", "falhando"}, SairDaExecucao(w),
         UNCHANGED certificadoDe
  PROVE  /\ \A v \in Workers : EmExecucao(v)' <=> EmExecucao(v)
         /\ \A v \in Workers : EmExecucao(v) => tarefa'[v] = tarefa[v] /\ CertDe(v)' = CertDe(v)
<1>1. Largar(w, "livre")
  BY DEF SairDaExecucao
<1> QED
  BY <1>1 DEF Sadio, Inv, TypeOK, Largar, EmExecucao, CertDe

\* The outcome of a cancelled consulta interrupts its abstract execution.
LEMMA ConcluirCanceladoImplementa ==
  ASSUME Sadio, NEW w \in Workers, NEW r \in {"finalizado", "erro"}, ConcluirCancelado(w, r)
  PROVE  [Execucao!Next]_(Execucao!vars)
<1>1. /\ tarefa[w] \in Consultas /\ statusJob[tarefa[w]] \in {"rodando", "cancelado"}
      /\ pc[w] \in {"lido", "executando", "concluindo"}
  BY DEF Sadio, Inv, Estrutura, Protocolo, ProtocoloJob, JobDoWorker, ConcluirCancelado,
         FimDaExecucao
<1>2. Fim' = Fim
  BY <1>1 DEF Sadio, Inv, TypeOK, ConcluirCancelado, Fim
<1>3. CASE pc[w] = "lido"
  BY <1>2, <1>3, SaidaSemExecutar, MesmaVisao DEF ConcluirCancelado
<1>4. CASE pc[w] # "lido"
  <2>1. EmExecucao(w) /\ pc' = [pc EXCEPT ![w] = "liberando"] /\ UNCHANGED <<tarefa, certificadoDe>>
    BY <1>1, <1>4 DEF ConcluirCancelado, SairDaExecucao, EmExecucao
  <2>2. PICK c \in Certificados : c = CertDe(w) /\ Em(c) = {<<w, tarefa[w]>>}
    BY <2>1, Executando
  <2>3. [d \in Certificados |-> Em(d)]' = [[d \in Certificados |-> Em(d)] EXCEPT ![c] = {}]
    BY <2>1, <2>2, Parada
  <2>4. Execucao!Interromper(c)
    BY <1>2, <2>2, <2>3 DEF Execucao!Interromper, Em, Fim
  <2> QED
    BY <2>4 DEF Execucao!Next
<1> QED
  BY <1>3, <1>4

\* Writing an outcome is Concluir, or Recusar for a consulta that never executed.
LEMMA ConcluirImplementa ==
  ASSUME Sadio, NEW w \in Workers, Concluir(w)
  PROVE  [Execucao!Next]_(Execucao!vars)
<1>1. /\ tarefa[w] \in Consultas /\ resultado[w] \in {"finalizado", "erro"}
      /\ vistoJob[w] = "rodando" /\ pc[w] \in {"falhando", "concluindo"}
  BY DEF Sadio, Inv, TypeOK, Estrutura, Protocolo, ProtocoloJob, JobDoWorker, Concluir
<1>2. statusJob' = [statusJob EXCEPT ![tarefa[w]] = resultado[w]]
  BY <1>1 DEF Concluir, Gravar
<1>3. Fim' = Fim \cup {tarefa[w]}
  BY <1>1, <1>2 DEF Sadio, Inv, TypeOK, Fim
<1>4. CASE pc[w] = "falhando"
  <2>1. \A d \in Certificados : Em(d)' = Em(d)
    BY <1>4, SaidaSemExecutar DEF Concluir, Em
  <2>2. ~Execucao!EmCurso(tarefa[w])
    BY <1>4, NaoExecutada DEF EmExecucao
  <2>3. Execucao!Recusar(tarefa[w])
    BY <1>3, <2>1, <2>2 DEF Execucao!Recusar, Em, Fim
  <2> QED
    BY <1>1, <2>3 DEF Execucao!Next, Execucao!Recusar
<1>5. CASE pc[w] = "concluindo"
  <2>1. EmExecucao(w) /\ pc' = [pc EXCEPT ![w] = "liberando"] /\ UNCHANGED <<tarefa, certificadoDe>>
    BY <1>5 DEF Concluir, SairDaExecucao, EmExecucao
  <2>2. PICK c \in Certificados : c = CertDe(w) /\ Em(c) = {<<w, tarefa[w]>>}
    BY <2>1, Executando
  <2>3. [d \in Certificados |-> Em(d)]' = [[d \in Certificados |-> Em(d)] EXCEPT ![c] = {}]
    BY <2>1, <2>2, Parada
  <2>4. PICK i \in Consultas : i = tarefa[w]
    BY <1>1
  <2>5. Execucao!Concluir(w, i, c)
    BY <1>3, <2>2, <2>3, <2>4 DEF Execucao!Concluir, Em, Fim
  <2> QED
    BY <2>5 DEF Execucao!Next
<1> QED
  BY <1>1, <1>4, <1>5

\* A crash interrupts the abstract execution of its worker, if there was one.
LEMMA QuedaImplementa ==
  ASSUME Sadio, NEW w \in Workers, Cair(w)
  PROVE  [Execucao!Next]_(Execucao!vars)
<1>1. /\ Fim' = Fim /\ UNCHANGED certificadoDe /\ pc' = [pc EXCEPT ![w] = "morto"]
      /\ \A v \in Workers \ {w} : tarefa'[v] = tarefa[v]
  BY DEF Sadio, Inv, TypeOK, Cair, Largar, Fim
<1>2. CASE ~EmExecucao(w)
  BY <1>1, <1>2, MesmaVisao DEF Sadio, Inv, TypeOK, EmExecucao, CertDe
<1>3. CASE EmExecucao(w)
  <2>1. PICK c \in Certificados : c = CertDe(w) /\ Em(c) = {<<w, tarefa[w]>>}
    BY <1>3, Executando
  <2>2. [d \in Certificados |-> Em(d)]' = [[d \in Certificados |-> Em(d)] EXCEPT ![c] = {}]
    BY <1>1, <1>3, <2>1, Parada
  <2>3. Execucao!Interromper(c)
    BY <1>1, <2>1, <2>2 DEF Execucao!Interromper, Em, Fim
  <2> QED
    BY <2>3 DEF Execucao!Next
<1> QED
  BY <1>2, <1>3

\* The clocks and the recovery are stuttering steps: they touch no live execution.
LEMMA AmbienteImplementa ==
  ASSUME Sadio, Tempo \/ Recuperar \/ UNCHANGED vars
  PROVE  [Execucao!Next]_(Execucao!vars)
<1>1. UNCHANGED <<pc, tarefa, certificadoDe>>
  BY DEF Tempo, PararDeBater, FicarDisponivel, VencerLock, VencerCiclo, Recuperar, vars
<1>2. \A i \in Consultas : statusJob'[i] # statusJob[i] =>
        statusJob[i] = "rodando" /\ statusJob'[i] = "pendente"
  BY DEF Sadio, Inv, TypeOK, Tempo, PararDeBater, FicarDisponivel, VencerLock, VencerCiclo,
         Recuperar,
         Travados, vars
<1>3. Fim' = Fim
  BY <1>2 DEF Fim
<1> QED
  BY <1>1, <1>3, MesmaVisao DEF EmExecucao, CertDe

\* While nothing goes wrong that the protocol is not built for, the queue with
\* all its rows, locks, heartbeats and recoveries behaves as the abstract
\* executor: one execution per certificate, none of a consulta that has ended.
THEOREM Implementacao == Spec /\ []SemDefeitos => ImplementaExecucao
<1>1. Init => Execucao!Init
  BY DEF Init, Execucao!Init, EmExecucao
<1>2. Inv /\ SemDefeitos /\ SemDefeitos' /\ [Next]_vars => [Execucao!Next]_(Execucao!vars)
  <2> SUFFICES ASSUME Sadio, SemDefeitos', [Next]_vars PROVE [Execucao!Next]_(Execucao!vars)
    BY DEF Sadio
  <2>1. ASSUME NEW w \in Workers, PassoDoWorker(w) PROVE [Execucao!Next]_(Execucao!vars)
    BY <2>1, NaFilaImplementa, InicioImplementa, LerCancelamentoImplementa,
       ConcluirCanceladoImplementa, ConcluirImplementa DEF PassoDoWorker
  <2>2. ASSUME NEW w \in Workers, Reservar(w) \/ Renovar(w) \/ Falhar(w) \/ Cair(w)
        PROVE  [Execucao!Next]_(Execucao!vars)
    <3>1. ~Falhar(w)
      BY DEF Sadio, Inv, TypeOK, SemDefeitos, Falhar
    <3> QED
      BY <2>2, <3>1, NaFilaImplementa, QuedaImplementa
  <2> QED
    BY <2>1, <2>2, PedidosImplementam, AmbienteImplementa DEF Next
<1> QED
  BY <1>1, <1>2, Invariancia, PTL DEF Spec, ImplementaExecucao, Execucao!Spec

-----------------------------------------------------------------------------
(* The scheduler alone: no certificate is queued twice, although exceptions *)
(* escape and workers die, as long as no deadline passes under a live       *)
(* execution and nobody cancels.                                            *)

SoAgendador == Origens = {Agendador}

Pontual == atrasos = 0 /\ cancelamentos = 0

\* What a worker works on is a job rodando in its name that is not stuck, and
\* when it is about to write the outcome it knows both rows as not over.
JobEmMaosVivas ==
  \A w \in Workers : pc[w] \in ComJob =>
    /\ statusJob[tarefa[w]] = "rodando" /\ lockedBy[tarefa[w]] = w
    /\ ~semBatida[tarefa[w]]
    /\ pc[w] \in {"concluindo", "falhando"} => vistoProcesso[w] \in Ativos /\ vistoJob[w] = "rodando"

\* A processo is under way exactly while its job is.
AtivosJuntos ==
  \A i \in Consultas : statusProcesso[i] \in Ativos <=> statusJob[i] \in Ativos

\* What the tick decided to create has no consulta under way, still.
CicloEmDia ==
  /\ cancelando = SemTarefa
  /\ pedido[Agendador].fase # "ler"
  /\ pedido[Agendador].fase = "gravar" => pedido[Agendador].certs \cap ComConsultaAtiva = {}

Sozinha == JobEmMaosVivas /\ AtivosJuntos /\ CicloEmDia /\ SemConsultaDuplicada

InvUnica == Inv /\ (Pontual => Sozinha)

\* The step opens no consulta and creates none.
NadaSeAbre ==
  /\ \A i \in Consultas : statusProcesso'[i] \in Ativos => statusProcesso[i] \in Ativos
  /\ certificadoDe' = certificadoDe /\ pedido' = pedido /\ cancelando' = cancelando

\* What was decided before such a step stays good after it.
LEMMA NadaSeAbreMantem ==
    ASSUME Sozinha, NadaSeAbre
    PROVE  CicloEmDia' /\ SemConsultaDuplicada'
<1>1. ComConsultaAtiva' \subseteq ComConsultaAtiva
  BY DEF ComConsultaAtiva, NadaSeAbre
<1>2. CicloEmDia'
  BY <1>1 DEF Sozinha, CicloEmDia, NadaSeAbre
<1>3. SemConsultaDuplicada'
  BY DEF Sozinha, SemConsultaDuplicada, NadaSeAbre
<1> QED
  BY <1>2, <1>3

\* A worker that has a job has one that exists and is under way, and so is its processo.
LEMMA TarefaAtiva ==
    ASSUME Inv, Sozinha, NEW w \in Workers, pc[w] \in ComJob
    PROVE  /\ tarefa[w] \in Consultas /\ statusJob[tarefa[w]] = "rodando" /\ lockedBy[tarefa[w]] = w
           /\ statusProcesso[tarefa[w]] \in Ativos
<1>1. tarefa[w] \in Consultas
  BY DEF Inv, Estrutura
<1> QED
  BY <1>1 DEF Sozinha, JobEmMaosVivas, AtivosJuntos

\* The claim and what is read back: the job claimed.
LEMMA ReservarSozinha ==
    ASSUME Inv, Sozinha, NEW w \in Workers, Reservar(w)
    PROVE  JobEmMaosVivas' /\ AtivosJuntos' /\ NadaSeAbre
<1> USE ValoresNulos DEF Inv, TypeOK
<1>1. PICK i \in Consultas :
        /\ EhPrimeiro(i)
        /\ statusJob' = [statusJob EXCEPT ![i] = "rodando"]
        /\ lockedBy' = [lockedBy EXCEPT ![i] = w]
        /\ semBatida' = [semBatida EXCEPT ![i] = FALSE]
        /\ tarefa' = [tarefa EXCEPT ![w] = i]
  BY DEF Reservar
<1>2. statusJob[i] = "pendente"
  BY <1>1 DEF EhPrimeiro, NaFila
<1>3. JobEmMaosVivas'
  <2> SUFFICES ASSUME NEW v \in Workers, pc'[v] \in ComJob
               PROVE  /\ statusJob'[tarefa'[v]] = "rodando" /\ lockedBy'[tarefa'[v]] = v
                      /\ ~semBatida'[tarefa'[v]]
                      /\ pc'[v] \in {"concluindo", "falhando"} =>
                            vistoProcesso'[v] \in Ativos /\ vistoJob'[v] = "rodando"
    BY DEF JobEmMaosVivas
  <2>1. CASE v = w
    BY <1>1, <2>1 DEF Reservar
  <2>2. CASE v # w
    <3>1. /\ pc'[v] = pc[v] /\ tarefa'[v] = tarefa[v]
          /\ vistoProcesso'[v] = vistoProcesso[v] /\ vistoJob'[v] = vistoJob[v]
      BY <1>1, <2>2 DEF Reservar
    <3>2. tarefa[v] \in Consultas /\ statusJob[tarefa[v]] = "rodando"
      BY <3>1, TarefaAtiva
    <3>3. tarefa[v] # i
      BY <1>2, <3>2
    <3> QED
      BY <1>1, <3>1, <3>2, <3>3 DEF Sozinha, JobEmMaosVivas
  <2> QED
    BY <2>1, <2>2
<1>4. AtivosJuntos'
  BY <1>1, <1>2 DEF Reservar, Sozinha, AtivosJuntos
<1>5. NadaSeAbre
  BY DEF Reservar, NadaSeAbre
<1> QED
  BY <1>3, <1>4, <1>5

\* What the others have in hand is not touched by a worker that writes its own job.
LEMMA OutrosIntactos ==
    ASSUME Inv, Sozinha, NEW w \in Workers, pc[w] \in ComJob,
           pc'[w] \in ComJob =>
             /\ tarefa'[w] = tarefa[w] /\ statusJob'[tarefa[w]] = "rodando"
             /\ lockedBy'[tarefa[w]] = w /\ ~semBatida'[tarefa[w]]
             /\ pc'[w] \in {"concluindo", "falhando"} =>
                  vistoProcesso'[w] \in Ativos /\ vistoJob'[w] = "rodando",
           \A v \in Workers \ {w} :
             /\ pc'[v] = pc[v] /\ tarefa'[v] = tarefa[v]
             /\ vistoProcesso'[v] = vistoProcesso[v] /\ vistoJob'[v] = vistoJob[v],
           \A i \in Consultas \ {tarefa[w]} :
             statusJob'[i] = statusJob[i] /\ lockedBy'[i] = lockedBy[i] /\ semBatida'[i] = semBatida[i]
    PROVE  JobEmMaosVivas'
<1> SUFFICES ASSUME NEW v \in Workers, pc'[v] \in ComJob
             PROVE  /\ statusJob'[tarefa'[v]] = "rodando" /\ lockedBy'[tarefa'[v]] = v
                    /\ ~semBatida'[tarefa'[v]]
                    /\ pc'[v] \in {"concluindo", "falhando"} =>
                          vistoProcesso'[v] \in Ativos /\ vistoJob'[v] = "rodando"
  BY DEF JobEmMaosVivas
<1>1. CASE v = w
  BY <1>1
<1>2. CASE v # w
  <2>1. /\ pc'[v] = pc[v] /\ tarefa'[v] = tarefa[v]
        /\ vistoProcesso'[v] = vistoProcesso[v] /\ vistoJob'[v] = vistoJob[v]
    BY <1>2
  <2>2. tarefa[v] \in Consultas /\ lockedBy[tarefa[v]] = v /\ lockedBy[tarefa[w]] = w
    BY <2>1, TarefaAtiva
  <2>3. tarefa[v] \in Consultas \ {tarefa[w]}
    BY <1>2, <2>2
  <2> QED
    BY <2>1, <2>3 DEF Sozinha, JobEmMaosVivas
<1> QED
  BY <1>1, <1>2

\* The rest of what a worker does with its job.
LEMMA PassoDoWorkerSozinha ==
    ASSUME Inv, Sozinha, NEW w \in Workers, PassoDoWorker(w)
    PROVE  JobEmMaosVivas' /\ AtivosJuntos' /\ NadaSeAbre
<1> USE ValoresNulos DEF Inv, TypeOK
<1> DEFINE i == tarefa[w]
           Bom == JobEmMaosVivas' /\ AtivosJuntos' /\ NadaSeAbre
<1>0. ASSUME pc[w] \in ComJob
      PROVE  /\ i \in Consultas /\ statusJob[i] = "rodando" /\ lockedBy[i] = w /\ ~semBatida[i]
             /\ statusProcesso[i] \in Ativos /\ ~FoiCancelado(w) /\ JobLido(w) = {i}
             /\ pc[w] \in {"concluindo", "falhando"} => vistoProcesso[w] \in Ativos /\ vistoJob[w] = "rodando"
  BY <1>0, TarefaAtiva DEF Sozinha, JobEmMaosVivas, FoiCancelado, JobLido, ReservadosPor
<1>1. CASE LerReserva(w)
  <2>0. pc[w] = "reservado" /\ pc[w] \in ComJob
    BY <1>1 DEF LerReserva, ComJob, ComLock
  <2>1. pc[w] \in ComJob /\ pc' = [pc EXCEPT ![w] = "lido"] /\ tarefa' = [tarefa EXCEPT ![w] = i]
    <3>1. JobLido(w) = {i}
      BY <1>0, <2>0
    <3>2. PICK k \in JobLido(w) : /\ pc' = [pc EXCEPT ![w] = "lido"]
                                  /\ tarefa' = [tarefa EXCEPT ![w] = k]
      BY <1>1 DEF LerReserva
    <3> QED
      BY <2>0, <3>1, <3>2
  <2>2. \A v \in Workers \ {w} :
             /\ pc'[v] = pc[v] /\ tarefa'[v] = tarefa[v]
             /\ vistoProcesso'[v] = vistoProcesso[v] /\ vistoJob'[v] = vistoJob[v]
    BY <1>1, <2>1 DEF LerReserva
  <2>3. JobEmMaosVivas'
    BY <1>0, <1>1, <2>1, <2>2, OutrosIntactos DEF LerReserva
  <2> QED
    BY <1>1, <2>3 DEF LerReserva, Sozinha, AtivosJuntos, NadaSeAbre
<1>2. ~DescartarReserva(w) /\ ~PerderReserva(w)
  BY <1>0 DEF DescartarReserva, PerderReserva
<1>3. CASE IniciarComLockLivre(w) \/ IniciarComLockVencido(w)
  <2>1. /\ pc[w] \in ComJob /\ pc' = [pc EXCEPT ![w] = "executando"]
        /\ UNCHANGED <<tarefa, vistoProcesso, vistoJob, certificadoDe, pedido, cancelando>>
        /\ semBatida' = [semBatida EXCEPT ![i] = FALSE]
    BY <1>3 DEF IniciarComLockLivre, IniciarComLockVencido, EntrarEmExecucao
  <2>2. /\ statusJob' = [statusJob EXCEPT ![i] = "rodando"]
        /\ lockedBy' = [lockedBy EXCEPT ![i] = w]
    BY <1>0, <1>3, <2>1 DEF IniciarComLockLivre, IniciarComLockVencido, Gravar
  <2>3. \E s \in Ativos : statusProcesso' = [statusProcesso EXCEPT ![i] = s]
    BY <1>0, <1>3, <2>1 DEF IniciarComLockLivre, IniciarComLockVencido, Gravar
  <2>4. JobEmMaosVivas'
    BY <1>0, <2>1, <2>2, OutrosIntactos
  <2>5. AtivosJuntos'
    BY <1>0, <2>1, <2>2, <2>3 DEF Sozinha, AtivosJuntos
  <2>6. NadaSeAbre
    BY <1>0, <2>1, <2>3 DEF NadaSeAbre
  <2> QED
    BY <2>4, <2>5, <2>6
<1>4. CASE DevolverParaFila(w)
  <2>1. pc[w] \in ComJob /\ pc' = [pc EXCEPT ![w] = "livre"]
    BY <1>4 DEF DevolverParaFila, Largar
  <2>2. \A v \in Workers \ {w} :
             /\ pc'[v] = pc[v] /\ tarefa'[v] = tarefa[v]
             /\ vistoProcesso'[v] = vistoProcesso[v] /\ vistoJob'[v] = vistoJob[v]
    BY <1>4 DEF DevolverParaFila, Largar
  <2>3. JobEmMaosVivas'
    BY <1>0, <1>4, <2>1, <2>2, OutrosIntactos DEF DevolverParaFila
  <2>4. AtivosJuntos'
    BY <1>0, <1>4, <2>1 DEF DevolverParaFila, Sozinha, AtivosJuntos
  <2> QED
    BY <1>4, <2>3, <2>4 DEF DevolverParaFila, NadaSeAbre
<1>5. ASSUME NEW r \in {"finalizado", "erro"}, LerCancelamento(w, r)
      PROVE  Bom
  <2>1. /\ pc[w] \in ComJob /\ UNCHANGED <<tarefa, statusJob, lockedBy, semBatida>>
        /\ vistoProcesso' = [vistoProcesso EXCEPT ![w] = statusProcesso[i]]
        /\ vistoJob' = [vistoJob EXCEPT ![w] = statusJob[i]]
        /\ \E f \in {"falhando", "concluindo"} : pc' = [pc EXCEPT ![w] = f]
    BY <1>5 DEF LerCancelamento, FimDaExecucao
  <2>2. JobEmMaosVivas'
    BY <1>0, <2>1, OutrosIntactos
  <2> QED
    BY <1>5, <2>2 DEF LerCancelamento, Sozinha, AtivosJuntos, NadaSeAbre
<1>6. ASSUME NEW r \in {"finalizado", "erro"}, ConcluirCancelado(w, r)
      PROVE  FALSE
  BY <1>0, <1>6 DEF ConcluirCancelado, FimDaExecucao
<1>7. CASE Concluir(w)
  <2>1. pc[w] \in ComJob /\ pc[w] \in {"concluindo", "falhando"} /\ resultado[w] \in {"finalizado", "erro"}
    BY <1>7 DEF Concluir, Estrutura
  <2>2. /\ pc'[w] \notin ComJob
        /\ \A v \in Workers \ {w} :
             /\ pc'[v] = pc[v] /\ tarefa'[v] = tarefa[v]
             /\ vistoProcesso'[v] = vistoProcesso[v] /\ vistoJob'[v] = vistoJob[v]
    BY <1>7, <2>1 DEF Concluir, SairDaExecucao, Largar
  <2>3. /\ statusProcesso' = [statusProcesso EXCEPT ![i] = resultado[w]]
        /\ statusJob' = [statusJob EXCEPT ![i] = resultado[w]]
        /\ UNCHANGED <<lockedBy, semBatida>>
    BY <1>0, <1>7, <2>1 DEF Concluir, Gravar
  <2>4. JobEmMaosVivas'
    BY <1>0, <2>1, <2>2, <2>3, OutrosIntactos
  <2>5. AtivosJuntos'
    BY <1>0, <2>1, <2>3 DEF Sozinha, AtivosJuntos
  <2>6. NadaSeAbre
    BY <1>0, <1>7, <2>1, <2>3 DEF NadaSeAbre, Concluir
  <2> QED
    BY <2>4, <2>5, <2>6
<1>8. CASE Liberar(w)
  <2>1. /\ pc' = [pc EXCEPT ![w] = "livre"]
        /\ \A v \in Workers \ {w} :
             /\ pc'[v] = pc[v] /\ tarefa'[v] = tarefa[v]
             /\ vistoProcesso'[v] = vistoProcesso[v] /\ vistoJob'[v] = vistoJob[v]
        /\ UNCHANGED <<statusProcesso, statusJob, lockedBy, semBatida, certificadoDe, pedido, cancelando>>
    BY <1>8 DEF Liberar, Largar
  <2> QED
    BY <2>1 DEF Sozinha, JobEmMaosVivas, AtivosJuntos, NadaSeAbre
<1> QED
  BY <1>1, <1>2, <1>3, <1>4, <1>5, <1>6, <1>7, <1>8 DEF PassoDoWorker

\* Beating, losing an exception and dying: a worker keeps its job or drops it.
LEMMA QuedaSozinha ==
    ASSUME Inv, Sozinha, NEW w \in Workers, Renovar(w) \/ Falhar(w) \/ Cair(w)
    PROVE  JobEmMaosVivas' /\ AtivosJuntos' /\ NadaSeAbre
<1> USE ValoresNulos DEF Inv, TypeOK
<1>1. CASE Renovar(w)
  <2>1. UNCHANGED <<statusProcesso, statusJob, lockedBy, pc, tarefa, vistoProcesso, vistoJob,
                    certificadoDe, pedido, cancelando>>
    BY <1>1 DEF Renovar
  <2>2. \A k \in Consultas : semBatida'[k] => semBatida[k]
    BY <1>1 DEF Renovar
  <2>3. \A v \in Workers : pc[v] \in ComJob => tarefa[v] \in Consultas
    BY TarefaAtiva
  <2> QED
    BY <2>1, <2>2, <2>3 DEF Sozinha, JobEmMaosVivas, AtivosJuntos, NadaSeAbre
<1>2. CASE Falhar(w) \/ Cair(w)
  <2>1. /\ pc'[w] \notin ComJob
        /\ \A v \in Workers \ {w} :
             /\ pc'[v] = pc[v] /\ tarefa'[v] = tarefa[v]
             /\ vistoProcesso'[v] = vistoProcesso[v] /\ vistoJob'[v] = vistoJob[v]
        /\ UNCHANGED <<statusProcesso, statusJob, lockedBy, semBatida, certificadoDe, pedido, cancelando>>
    BY <1>2 DEF Falhar, Cair, Largar
  <2> QED
    BY <2>1 DEF Sozinha, JobEmMaosVivas, AtivosJuntos, NadaSeAbre
<1> QED
  BY <1>1, <1>2

\* Time and the recovery: only a job that nobody alive has in hand gets stuck.
LEMMA TempoSozinha ==
    ASSUME Inv, Sozinha, Pontual, Pontual', Tempo \/ Recuperar
    PROVE  JobEmMaosVivas' /\ AtivosJuntos' /\ NadaSeAbre
<1> USE ValoresNulos DEF Inv, TypeOK
<1>0. \A v \in Workers : pc[v] \in ComJob =>
        tarefa[v] \in Consultas /\ statusJob[tarefa[v]] = "rodando" /\ lockedBy[tarefa[v]] = v
  BY TarefaAtiva
<1>1. ASSUME NEW k \in Consultas, PararDeBater(k)
      PROVE  JobEmMaosVivas' /\ AtivosJuntos' /\ NadaSeAbre
  <2>1. ~EmMaos(k)
    BY <1>1 DEF PararDeBater, Prazo, Pontual
  <2>2. \A v \in Workers : pc[v] \in ComJob => tarefa[v] # k
    BY <1>0, <2>1 DEF EmMaos
  <2> QED
    BY <1>0, <1>1, <2>2 DEF PararDeBater, Sozinha, JobEmMaosVivas, AtivosJuntos, NadaSeAbre
<1>2. ASSUME NEW k \in Consultas, FicarDisponivel(k)
      PROVE  JobEmMaosVivas' /\ AtivosJuntos' /\ NadaSeAbre
  BY <1>2 DEF FicarDisponivel, Sozinha, JobEmMaosVivas, AtivosJuntos, NadaSeAbre
<1>3. ASSUME NEW c \in Certificados, VencerLock(c)
      PROVE  JobEmMaosVivas' /\ AtivosJuntos' /\ NadaSeAbre
  BY <1>3 DEF VencerLock, Sozinha, JobEmMaosVivas, AtivosJuntos, NadaSeAbre
<1>4. CASE VencerCiclo
  BY <1>4 DEF VencerCiclo, Sozinha, JobEmMaosVivas, AtivosJuntos, NadaSeAbre
<1>5. CASE Recuperar
  <2>1. \A v \in Workers : pc[v] \in ComJob => tarefa[v] \notin Travados
    BY <1>0 DEF Sozinha, JobEmMaosVivas, Travados
  <2>2. JobEmMaosVivas'
    BY <1>0, <1>5, <2>1 DEF Recuperar, Sozinha, JobEmMaosVivas
  <2>3. AtivosJuntos'
    BY <1>5 DEF Recuperar, Travados, Sozinha, AtivosJuntos
  <2>4. NadaSeAbre
    BY <1>5 DEF Recuperar, NadaSeAbre
  <2> QED
    BY <2>2, <2>3, <2>4
<1> QED
  BY <1>1, <1>2, <1>3, <1>4, <1>5 DEF Tempo

\* The scheduler: what it reads has nothing under way, and what it inserts is
\* one consulta for each certificate it read.
LEMMA CicloSozinha ==
    ASSUME SoAgendador, Inv, Sozinha, Pontual', Pedidos
    PROVE  Sozinha'
<1> USE ValoresNulos DEF Inv, TypeOK
<1>1. CASE CicloAgendador
  <2>1. /\ UNCHANGED <<statusProcesso, statusJob, lockedBy, semBatida, certificadoDe, pc, tarefa,
                       vistoProcesso, vistoJob, cancelando>>
        /\ pedido'[Agendador].fase = "gravar"
        /\ pedido'[Agendador].certs = Certificados \ ComConsultaAtiva
    BY <1>1 DEF CicloAgendador, LerElegiveis, SoAgendador
  <2>2. ComConsultaAtiva' = ComConsultaAtiva
    BY <2>1 DEF ComConsultaAtiva
  <2> QED
    BY <2>1, <2>2 DEF Sozinha, JobEmMaosVivas, AtivosJuntos, CicloEmDia, SemConsultaDuplicada
<1>2. ASSUME NEW o \in Origens, GravarConsultas(o)
      PROVE  Sozinha'
  <2>0. o = Agendador /\ pedido[o].fase = "gravar"
    BY <1>2 DEF SoAgendador, GravarConsultas
  <2> DEFINE C == pedido[o].certs
  <2>1. PICK novos \in SUBSET Inexistentes : \E g \in [novos -> C] :
          /\ \A i, k \in novos : g[i] = g[k] => i = k
          /\ statusProcesso' = [i \in Consultas |-> IF i \in novos THEN "pendente" ELSE statusProcesso[i]]
          /\ statusJob' = [i \in Consultas |-> IF i \in novos THEN "pendente" ELSE statusJob[i]]
          /\ certificadoDe' = [i \in Consultas |-> IF i \in novos THEN g[i] ELSE certificadoDe[i]]
          /\ UNCHANGED <<lockedBy, semBatida>>
    BY <1>2 DEF GravarConsultas, CriarConsultas
  <2>2. PICK g \in [novos -> C] :
          /\ \A i, k \in novos : g[i] = g[k] => i = k
          /\ statusProcesso' = [i \in Consultas |-> IF i \in novos THEN "pendente" ELSE statusProcesso[i]]
          /\ statusJob' = [i \in Consultas |-> IF i \in novos THEN "pendente" ELSE statusJob[i]]
          /\ certificadoDe' = [i \in Consultas |-> IF i \in novos THEN g[i] ELSE certificadoDe[i]]
          /\ UNCHANGED <<lockedBy, semBatida>>
    BY <2>1
  <2>3. /\ UNCHANGED <<pc, tarefa, vistoProcesso, vistoJob, cancelando>>
        /\ pedido' = [pedido EXCEPT ![o] = SemPedido]
    BY <1>2 DEF GravarConsultas
  <2>4. novos \subseteq Consultas /\ \A k \in novos : statusProcesso[k] = "inexistente" /\ statusJob[k] = "inexistente"
    BY DEF Inexistentes, Estrutura
  <2>5. C \cap ComConsultaAtiva = {}
    BY <2>0 DEF Sozinha, CicloEmDia
  <2> HIDE DEF C
  <2>6. JobEmMaosVivas'
    <3>1. \A v \in Workers : pc[v] \in ComJob =>
            tarefa[v] \in Consultas /\ statusJob[tarefa[v]] = "rodando"
      BY TarefaAtiva
    <3>2. ASSUME NEW k \in Consultas, statusJob[k] = "rodando" PROVE statusJob'[k] = "rodando"
      <4>1. k \notin novos
        BY <2>4, <3>2
      <4> QED
        BY <2>2, <3>2, <4>1
    <3> QED
      BY <2>2, <2>3, <3>1, <3>2 DEF Sozinha, JobEmMaosVivas
  <2>7. AtivosJuntos'
    BY <2>2, <2>4 DEF Sozinha, AtivosJuntos
  <2>8. CicloEmDia'
    BY <2>0, <2>3 DEF Sozinha, CicloEmDia, SemPedido
  <2>9. SemConsultaDuplicada'
    <3> SUFFICES ASSUME NEW i \in Consultas, NEW k \in Consultas, statusProcesso'[i] \in Ativos,
                        statusProcesso'[k] \in Ativos, certificadoDe'[i] = certificadoDe'[k]
                 PROVE  i = k
      BY DEF SemConsultaDuplicada
    <3>1. \A n \in novos, m \in Consultas : m \notin novos /\ statusProcesso'[m] \in Ativos
            => certificadoDe'[n] # certificadoDe'[m]
      <4> SUFFICES ASSUME NEW n \in novos, NEW m \in Consultas, m \notin novos, statusProcesso'[m] \in Ativos
                   PROVE  certificadoDe'[n] # certificadoDe'[m]
        OBVIOUS
      <4>1. certificadoDe'[m] = certificadoDe[m] /\ statusProcesso[m] \in Ativos
        BY <2>2
      <4>2. certificadoDe'[m] \in ComConsultaAtiva
        BY <4>1 DEF ComConsultaAtiva
      <4>3. certificadoDe'[n] \in C
        BY <2>2, <2>4
      <4> QED
        BY <2>5, <4>2, <4>3
    <3>2. CASE i \in novos /\ k \in novos
      BY <2>2, <2>4, <3>2
    <3>3. CASE i \notin novos /\ k \notin novos
      BY <2>2, <3>3 DEF Sozinha, SemConsultaDuplicada
    <3> QED
      BY <3>1, <3>2, <3>3
  <2> QED
    BY <2>6, <2>7, <2>8, <2>9 DEF Sozinha
<1>3. \A o \in Origens : ~PedirConsulta(o) /\ ~PedirConsultaComNsu(o) /\ ~CriarProcesso(o)
  BY DEF SoAgendador, PedirConsulta, PedirConsultaComNsu, CriarProcesso
<1>4. \A o \in Origens : ~SeguirPedidoComNsu(o)
  BY DEF SoAgendador, SeguirPedidoComNsu, Sozinha, CicloEmDia
<1>5. ~DesativarMonitor /\ ~GravarCancelamento
  BY DEF SoAgendador, DesativarMonitor, GravarCancelamento, Sozinha, CicloEmDia
<1>6. ASSUME NEW i \in Consultas, LerParaCancelar(i) PROVE FALSE
  BY <1>6 DEF LerParaCancelar, Pontual
<1> QED
  BY <1>1, <1>2, <1>3, <1>4, <1>5, <1>6 DEF Pedidos

\* Delays and cancellations are never forgotten.
LEMMA PontualFica == ASSUME Inv, [Next]_vars, Pontual' PROVE Pontual
<1>0. atrasos \in Nat /\ cancelamentos \in Nat
  BY DEF Inv, TypeOK
<1> USE DEF Pontual, varsLimite
<1>1. CASE Pedidos
  <2>1. ASSUME NEW o \in Origens,
               \/ PedirConsulta(o) \/ SeguirPedidoComNsu(o) \/ GravarConsultas(o) \/ CriarProcesso(o)
        PROVE  atrasos' = atrasos /\ cancelamentos' = cancelamentos
    BY <2>1 DEF PedirConsulta, SeguirPedidoComNsu, GravarConsultas, CriarProcesso
  <2>2. ASSUME NEW o \in Origens, PedirConsultaComNsu(o)
        PROVE  cancelamentos' = cancelamentos + 1
    BY <2>2 DEF PedirConsultaComNsu
  <2>3. CicloAgendador => atrasos' = atrasos /\ cancelamentos' = cancelamentos
    BY DEF CicloAgendador
  <2>4. DesativarMonitor => cancelamentos' = cancelamentos + 1
    BY DEF DesativarMonitor
  <2>5. ASSUME NEW i \in Consultas, LerParaCancelar(i)
        PROVE  cancelamentos' = cancelamentos + 1
    BY <2>5 DEF LerParaCancelar
  <2>6. GravarCancelamento => atrasos' = atrasos /\ cancelamentos' = cancelamentos
    BY DEF GravarCancelamento
  <2>7. \/ atrasos' = atrasos /\ cancelamentos' = cancelamentos
        \/ cancelamentos' = cancelamentos + 1
    BY <1>1, <2>1, <2>2, <2>3, <2>4, <2>5, <2>6 DEF Pedidos
  <2> QED
    BY <1>0, <2>7
<1>2. ASSUME NEW w \in Workers, PassoDoWorker(w) PROVE Pontual
  BY <1>2 DEF PassoDoWorker, LerReserva, DescartarReserva, PerderReserva,
         IniciarComLockLivre, IniciarComLockVencido, EntrarEmExecucao, DevolverParaFila,
         LerCancelamento, ConcluirCancelado, Concluir, Liberar
<1>3. ASSUME NEW w \in Workers, Reservar(w) \/ Renovar(w) \/ Falhar(w) \/ Cair(w)
      PROVE  Pontual
  BY <1>3 DEF Reservar, Renovar, Falhar, Cair
<1>4. CASE Tempo
  BY <1>0, <1>4 DEF Tempo, PararDeBater, FicarDisponivel, VencerLock, VencerCiclo, Prazo
<1>5. CASE Recuperar
  BY <1>5 DEF Recuperar
<1>6. CASE UNCHANGED vars
  BY <1>6 DEF vars
<1> QED
  BY <1>1, <1>2, <1>3, <1>4, <1>5, <1>6 DEF Next

\* Where the scheduler alone enqueues: the invariant.
THEOREM InvarianciaUnica == ASSUME SoAgendador PROVE Spec => []InvUnica
<1>1. Init => InvUnica
  <2> SUFFICES ASSUME Init PROVE Sozinha
    BY Inicial DEF InvUnica
  <2>1. Agendador \in Origens
    BY DEF SoAgendador
  <2> QED
    BY <2>1 DEF Init, Sozinha, JobEmMaosVivas, AtivosJuntos, CicloEmDia, SemConsultaDuplicada, SemPedido
<1>2. InvUnica /\ [Next]_vars => InvUnica'
  <2> SUFFICES ASSUME InvUnica, [Next]_vars, Pontual' PROVE Sozinha'
    BY PassoPreserva DEF InvUnica
  <2>1. Inv /\ Pontual /\ Sozinha
    BY PontualFica DEF InvUnica
  <2>2. ASSUME JobEmMaosVivas', AtivosJuntos', NadaSeAbre PROVE Sozinha'
    BY <2>1, <2>2, NadaSeAbreMantem DEF Sozinha
  <2>3. CASE Pedidos
    BY <2>1, <2>3, CicloSozinha
  <2>4. ASSUME NEW w \in Workers, Reservar(w) \/ PassoDoWorker(w) \/ Renovar(w) \/ Falhar(w) \/ Cair(w)
        PROVE  Sozinha'
    BY <2>1, <2>2, <2>4, ReservarSozinha, PassoDoWorkerSozinha, QuedaSozinha
  <2>5. CASE Tempo \/ Recuperar
    BY <2>1, <2>2, <2>5, TempoSozinha
  <2>6. CASE UNCHANGED vars
    BY <2>1, <2>6 DEF vars, Sozinha, JobEmMaosVivas, AtivosJuntos, CicloEmDia, ComConsultaAtiva,
           SemConsultaDuplicada
  <2> QED
    BY <2>3, <2>4, <2>5, <2>6 DEF Next
<1> QED
  BY <1>1, <1>2, PTL DEF Spec

\* list_certificados: the scheduler alone never has two consultas of a certificate
\* under way, whatever exceptions escape and workers die, while no deadline passed
\* under a live execution and nobody cancelled.
THEOREM ConsultaUnica == ASSUME SoAgendador PROVE Spec => [](Pontual => SemConsultaDuplicada)
<1>1. InvUnica => (Pontual => SemConsultaDuplicada)
  BY DEF InvUnica, Sozinha
<1> QED
  BY <1>1, InvarianciaUnica, PTL
=============================================================================
