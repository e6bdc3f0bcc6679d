# Portal NFS-e: verification development

TLA+ models of the backend of this repository, the TLC configurations that check
them on small instances, and theorems about them proved with TLAPS for every
value of the constants. Paths below are relative to `src/`; `app/` stands for
`backend/app/`, and the names of definitions are the code's wherever TLA+ allows it.

The portal collects NFS-e (service invoices) from the national ADN service: for
each company (empresa) and digital certificate it asks the ADN for the documents
after a sequence number (NSU), keeps the XML, ingests notas and events into the
database and lets people review (conferencia), export and archive them. It is one
FastAPI process that hosts the HTTP API, one or more worker threads per group, an
embedded scheduler and a supervisor (ADR-0006); several replicas may share one
Postgres database and one object storage.

## 1. Inventory

| Component | Source | State it keeps | Operations | Hard behaviour | What makes it correct |
|---|---|---|---|---|---|
| Queue of consultas | `app/services/consultas_service.py`, `processos_service.py`, `app/repositories/jobs_repo.py`, `processos_repo.py` | rows of `processos` and `jobs`: status, owner, heartbeat, position | enqueue (tick, request, monitor), claim, put back, finish, cancel, recover | two workers choose the same job; cancellation against claim and outcome; enqueuers check and then insert | one job in one pair of hands; no outcome undone; every consulta ends; no certificate queued twice |
| Worker | `app/worker/worker.py`, `app/worker/jobs.py` | what the thread remembers of its job and processo | claim, lock, run, record outcome, release | crash anywhere; exceptions that escape after the claim; processo read before the lock | outcome recorded once, lock always given back |
| Certificate lock and heartbeat | `app/repositories/locks_repo.py`, `app/services/job_lease_service.py` | rows of `locks_processamento` with an expiry | acquire, take an expired one, renew, release | expiry against a live owner, two takers of an expired lock | one execution for a certificate |
| Supervisor, scheduler | `app/main.py`, `app/worker/scheduler.py` | tasks of the process | tick every 15 min, recovery every 60 s and at start-up, restart of dead tasks | a task that dies, a job of another replica | stuck jobs come back, live ones do not |
| NSU control | `app/services/nsu_control_service.py` | `nsu_controle`: central NSU, night already reconciled | plan the start, advance, mark the night | a start past documents that did not enter | no gap is left before the next start |
| Consulta to the ADN (engine) | `app/services/legacy_processing_service.py`, `adn_nfse_downloader.py` | disk: XML, two indexes; counters of the call | call, save documents, stop | crash between disk and database, cancellation, empty answers | what the NSU confirms is in the database |
| Ingestion | `app/services/legacy_ingestion_service.py` | `notas`, `eventos`, `arquivos` | incremental thread, final pass, one commit a row | thread and engine interleave; an event before its nota; failed rows | an event counts in every order; failures hold the NSU back |
| Event synchronisation | `app/services/eventos_sync_service.py` | events and status of one nota | fetch and apply | writes an NSU the stream has not reached | does not move the stream |
| Fiscal status | `app/services/nfse_status_service.py` | status of a nota | classify, priority | cancellation, substitution and reissue in any order | cancelada > substituida > autorizada, PDF stamped accordingly |
| Notas: list and cursor | `app/services/notas_service.py`, `app/repositories/notas_repo.py` | order keys | filters, pages | insertion or change between pages | no nota skipped or repeated |
| Conferencia | `app/services/operational_fields_service.py`, `portal_support_service.py` | review status, observations, history | review, correct, reopen | re-ingestion while under review; what a review notes is read by the automatic status | a decision of a person is not undone by a reading, and the queue shows it |
| Retentions | `app/services/retencoes_*_service.py`, `valor_liquido_backfill_service.py` | fiscal columns of `notas` | analysis, backfill at start-up, alert script | rounding, missing fields, two formulas of the net value, overlapping writers | the values shown agree; a right document is not called divergent |
| Storage and files | `app/services/storage_service.py`, `arquivos_service.py`, `scripts/limpar_orfaos_storage.py` | objects and rows of `arquivos` | put, get, remove orphans | object stored, row not committed, and the reverse; the portal beside the sweep | no row of a nota without its object |
| Archiving | `app/services/notas_archive_service.py` | manifest, rows removed | read, store the manifest, delete | crash between them, a nota imported again, two requests | nothing deleted that is not in a stored manifest |
| Certificates and secrets | `app/services/certificados_service.py`, `secrets_service.py`, `scripts/rotacionar_segredos.py` | PFX object, encrypted secret | upload, replace, rotate | replacement under a running consulta | a reader always finds a matching pair |
| Accounts by invitation | `app/services/contas_service.py` | invitations, codes with attempts, users | invite, create, verify, reset | last use raced by two; attempts counted in parallel | uses and attempts within their limits |
| Sessions, 2FA, rate limiter | `app/services/auth_service.py`, `admin_seguranca_service.py`, `app/core/rate_limit.py`, `app/core/totp.py` | token version, last TOTP step, attempts | sign in, revoke, verify | one code twice at once; database away | a code that opened a session opens none later; limits survive the fallback |
| Administration | `app/api/routers/admin.py` | users, groups, state of the archiving | promote, demote, move, switch off, delete, reset the second factor, ask for the archive | two administrators change each other; a slow request writes what it read | the group keeps an administrator who can enter |
| Watchdog | `app/services/operacao_service.py` | last warning by reason | detect, warn | marked before it is sent | a lasting problem is warned about |
| CNPJ cache and enrichment | `app/services/cnpj_*_service.py` | cache rows with expiry | query, refresh | providers that fail | stale data is not taken as fresh |
| Downloads, reports | `app/services/notas_download_service.py`, `relatorio_layouts_service.py` | none | formatting | - | only exportable notas |
| Session and migrations | `app/db/` | - | transactions | - | the atomicity the models assume |
| PDF generator | `backend/danfse/generate.php` | none | format one document | - | - |
| Operator scripts | `app/scripts/` | - | one-off repairs | - | - |

How they interact. The scheduler and the API create a `processo` with its `job` in
one transaction. A worker claims the first pending job by a conditional UPDATE,
reads it back, takes the certificate's lock, and under a heartbeat thread (job,
processo and lock) runs the engine. The engine writes to disk; a second thread of
the same execution ingests from disk to database; after the engine, the main thread
ingests once more and confirms the central NSU. The supervisor returns to the queue
the jobs whose heartbeat stopped. Cancel requests reach a running consulta only
through `processos.status`, read between calls to the ADN.

The hazards of each are listed, at their lines, in `PROJECT.json`.

## 2. Modules

| Module | What it is |
|---|---|
| `FilaConsultas` | the queue, the workers, the locks with their heartbeat, the recovery, the scheduler, requests and cancellations |
| `ExecucaoDeConsultas` | abstract specification: consultas wait, run, end; never two at once for a certificate |
| `FilaConsultasProofs` | the inductive invariant of `FilaConsultas`, its safety theorems and the refinement |
| `ColetaNsuProofs` | `ColetaNsu`: types, events, and no gap before the next start |
| `StatusFiscalProofs` | `StatusFiscal`: status, recorded events, stamps |
| `AcervoProofs` | `Acervo`: stored files and archived notas; `SaidaDoMotor`: what the disk loses in a crash |
| `CertificadosProofs` | `Certificados`: rotation, eligible certificates, renewals |
| `AcessoProofs` | `Contas`: sessions, invitations, administrators; `Limitador`; `Operacao`; `SessaoAdmin` |
| `NotasProofs` | `Conferencia`, `Cnpj`, `Retencoes` and `Listagem` |
| `Ordem` | facts about least members and about putting a finite set in order, which these proofs share |
| `ColetaNsu` | the documents' way from the ADN to the database: starting NSU, engine, two ingestions, final NSU, nightly re-reading, synchronised events |
| `StatusFiscal` | the fiscal status of notas and the stamp of their PDF, with every writer of them |
| `Acervo` | the object storage beside the database: stored files, archiving, sweep of orphans |
| `SaidaDoMotor` | the files of one certificate that the engine writes and the ingestion reads, with crashes inside a write |
| `Listagem` | the lists by cursor and the export, while rows enter and change |
| `Conferencia` | the human review of a nota and its history, beside the re-ingestion |
| `Retencoes` | the fiscal analysis in centavos and the programs that store it |
| `Cnpj` | the cache of what the local base of the Receita says of a CNPJ |
| `Contas` | invitations, accounts, codes, passwords, sessions, administrators |
| `SessaoAdmin` | the second factor of an administrator and the sessions it opens |
| `Limitador` | the window of attempts, in the database and in the memory of each process |
| `Certificados` | certificates, their PFX and password, and the rotation of the key |
| `Operacao` | the round of the supervisor and the watchdog |
| `MCFilaConsultas`, `MCColetaNsu`, `MCNotas`, `MCAcesso`, `MCLacos` | instances for TLC |

`ColetaNsu` and `FilaConsultas` meet in the theorem of exclusion, which is what lets
`ColetaNsu` follow one consulta of a certificate at a time. The modules of `MCNotas` (`Acervo`,
`StatusFiscal`, `Listagem`, `SaidaDoMotor`, `Conferencia`, `Retencoes`, `Cnpj`), those of
`MCAcesso` (`Contas`, `SessaoAdmin`, `Limitador`, `Certificados`) and those of `MCLacos`
(`FilaConsultas`, `Operacao`) look at different state and share none, so the composition is a
sum: a variable `parte`, chosen at the start, says which of them moves, and each is explored in
full as if it were alone, without the product of unrelated states. `Contas` has three parts,
each an instance small enough to exhaust: `convites` (three addresses, quick requests, no
passwords, nobody moved), `senhas` (the founder's account and one made by invitation, nobody
demoted, switched off or moved), `administradores` (three accounts made by the key of the API,
who promote, demote, move and delete each other, the slow request one of an administrator that
writes one column or deletes). `Acervo` has two halves: files of a certificate beside two
requests to archive, and XMLs of events beside none.

The style is one throughout: where a handler reads, decides and writes later with no lock,
the read and the write are two actions and others come between; where it commits once, it
is one action. Writing follows SQLAlchemy's unit of work: only the columns that differ from
the row as it was loaded are written (`Gravar`, `Escrever`, `Escrito`, `GravarLinha`,
`Gravada`). Variables marked *history* exist for the properties only and no action reads them
but where a bound says so.

### FilaConsultas and the code

A consulta is a row of `processos` with its one row of `processos_jobs`, which the
code always creates together. `statusProcesso`, `statusJob`, `lockedBy`,
`certificadoDe` are those columns; `semBatida` says that the heartbeat is older than
the limit, `disponivel` is the rank of `available_at`. `titular` and `lockVencido`
are the rows of `locks_processamento`. `pc`, `tarefa`, `vistoProcesso`, `vistoJob`,
`resultado` and `heartbeat` are what a worker thread holds while it is inside
`processar_proximo_job` and `processar_job_consulta_nfse_real`; stale reads come from
there. `pedido` and `cancelando` are what an enqueue or cancel request has read and
not yet written.

| Code | Actions |
|---|---|
| `enqueue_consultas_pendentes` and its callers | `CicloAgendador`, `PedirConsulta`, `PedirConsultaComNsu`, `SeguirPedidoComNsu` (read), `GravarConsultas` (insert and commit) |
| `criar_processo_com_job` | `CriarProcesso` |
| `desativar_consultas_automaticas`, `cancelar_processo` | `DesativarMonitor`; `LerParaCancelar`, `GravarCancelamento` |
| `claim_next_pending_job`, `processar_proximo_job` | `Reservar`, then `LerReserva`, `DescartarReserva` or `PerderReserva` |
| `acquire_lock`, start of the job | `IniciarComLockLivre`, `IniciarComLockVencido`, `DevolverParaFila` |
| `manter_lease`, `renovar_lease` | `Renovar` |
| outcome | `LerCancelamento`, `Concluir`, `ConcluirCancelado` |
| `release_lock` | `Liberar` |
| exception caught by the loop of `main.py`; death of the process | `Falhar`; `Cair` |
| `recuperar_jobs_travados` | `Recuperar` |
| the clock | `PararDeBater`, `VencerLock`, `VencerCiclo`, `FicarDisponivel` |

The actions of one handler are separate exactly where the handler commits or waits,
and each writes every row its transaction writes. `Gravar` is SQLAlchemy's unit of
work: an attribute set to the value the session loaded is not part of the UPDATE.

Abstractions: eligibility filters, the monitor's limits and worker groups are left
out (the certificates are the eligible ones of one group); an engine run ends in
`finalizado` or `erro` by choice; Postgres READ COMMITTED is assumed; deactivation and
the cancellation by certificates read and write in one step, while the cancel request
of a processo shows its read/write window (`LerParaCancelar`,
`GravarCancelamento`), one such request at a time; the dry run is not modelled apart.

### ColetaNsu and the code

One certificate of one empresa. NSUs are `1..MaxNsu`, each a document of the shape
`alvo`: a nota (`alvo[n] = n`) or an event about an earlier nota. `disco` and
`primeiro` are the XML files and the first NSU of each row of `index_nfse.csv`;
`ultimoNsu` is `notas.ultimo_nsu`, `canceladas` the notas with that status,
`eventos` the rows of events; `central` and `reconciliada` are `nsu_controle`. The rows
the ingestion reads are computed from the disk (`Linhas`): one row for each chave,
in the order of its first NSU and stamped with its last, then the events the index
hides; that is `_read_index_rows` with `_linhas_fora_do_indice`, filtered by the
start of the run; `EmOrdem` is the `sorted` with which both lists are written. Every row committed is an action, the thread keeps its position
(`linha`) between passes and is stopped between rows, the failed row is undone alone.
`Confirmar` and `MarcarReconciliacao` are two transactions, so they are two actions.
An operator may ask for any starting NSU, also one the ADN has not reached (`Alcance`).

Abstractions: all events are cancellations (substitution is in `StatusFiscal`); saving
an XML and its two index rows is one step and an index is read
whole, although the code truncates and rewrites the file (`SaidaDoMotor` takes those
steps apart, with the cut-off date and documents without XML); the disk is the volume
that survives restarts; the scan used when no index exists and rows without chave are left out; distinct events have
distinct keys; the previous month is two bounds on NSUs and does not change; no
consulta outlasts the fourteen hours between two nights; clock readings
(`atualizado_em` in local seconds against a UTC start) are exact; the incremental
thread always stops when asked; the exemption of unchanged rows
(`_nota_inalterada`) has no effect on what is modelled, because it skips only
writes of equal values.

### StatusFiscal and the code

`status`, `pdf` and `registrados` are `notas.status_documento`, whether the row names an
espelho, and `eventos`; `espelho` is what the storage holds under each file name (two notas
may have one name, since the key of the PDF is the name). `tx` is an open transaction of
each of two writers.

| Code | Actions |
|---|---|
| a line of the index that is a nota (`ingerir_saida_legado`, `_aplicar_substituicao`) | `LerNota`, `GravarNota` |
| a line that is an event (`_registrar_evento_xml`) | `LerLinhaEvento`, `GravarEvento` |
| `sincronizar_eventos_nota` | `LerSincronizacao`, `GravarEvento` |
| `corrigir_status_fiscal` | `LerCorrecao`, `GravarCorrecao` |
| `gerar_espelhos_ausentes`, `regenerar_carimbos_pdfs` | `LerCarimbo`, `GravarCarimbo` |
| commit; rollback or crash | `Confirmar`; `Desfazer` |

A written row stays locked until the commit. A nota that names itself as the one it
replaces does not mark itself. Drawing the PDF may fail, or its storage may.
`corrida` marks a nota whose last writers overlapped and `rasgada` one whose PDF was left
without its row or the reverse; the properties exempt exactly those, and an ingestion that
is alone clears the first mark.

### Acervo and the code

An object goes by the nota, PFX or event it holds, a manifest by its request. `GuardarArquivo` is
`put_bytes`, of the worker (the XML and PDF of a nota) and of the API (a PFX, or the XML of an
event that `sincronizar_eventos_nota` fetched; the PDF it redraws goes the same way).
`GravarNotaEArquivo`, `GravarCertificado` and `RegistrarEvento` are the rows that commit later,
`PerderGravacao` the rollback between them (FIND-L02). The sweep is `LerChaves`,
`ListarOrfaos`, `ConferirOrfaos`, `ApagarOrfao`, `EncerrarLimpeza`
(`limpar_orfaos_storage --aplicar`): its second look at the database is one reading for all the
orphans, and the deletions follow one by one. `Parados = {"worker"}`, as the script asks, so that
the worker stands still while it runs and the API goes on. `limpeza.tarde` and `levados` are
history: the rows that came after the second reading, and the objects deleted that it could not
have known to be in use. The archiving is `PedirArquivamento`, `LerNotasAntigas`,
`GuardarManifesto`, `ExcluirNotas`, `FalharArquivamento`, with `ReiniciarPortal` anywhere. Two
requests may be at work: the refusal looks at `executando`, which a request that only waits has
not set yet.

### SaidaDoMotor and the code

`Fluxo` is what the ADN distributes; a document has a chave, is an event or not, the name its
issuer and number give, and an XML that is good, absent or before the cut-off date. `arquivos`,
`indice` and `ocorrencias` are the directory `xml/`, `index_nfse.csv` and
`ocorrencias_nsu.csv`. `ComecarXml` and `TerminarXml` are `write_text` (a crash in between
leaves half a file), `GravarIndice` and `GravarOcorrencias` the two lists rewritten in place.
Both are written in the order of the first NSU of their rows, which no two rows share, so a list
is the set of its rows and a beginning of it is what is up to some NSU (`Comeco`, which
`CairNoIndice` and `CairNasOcorrencias` leave); `feito` is the last document of the lot that
was done. `FalharChamada` is a retry of `requisicao_json_com_retry`, `EncerrarMotor` the final
ingestion followed by the NSU. `CaminhoXml` is `resolve_xml_path`, whose numbered names go as far
as one more than the files there are. The next start is any NSU up to the confirmed one, which is
what `ColetaNsu` computes. This module splits what `ColetaNsu` takes as one step.

### Listagem and the code

`Consulta` is the query of `list_notas`: filters, rows after the cursor by row comparison,
order, limit: the set of the rows that have fewer than `quantas` before them, which `EmOrdem` puts
in order. `Abrir` and `LerLoteDaLista` are the plain list (`listar_notas`), the list by
direction whose filter is in Python (`listar_notas_por_tipo_operacional`, several lots to a
page) and the export (`buscar_notas_exportacao`, refused over the limit). Rows move by
`Inserir`, `Reingerir`, `Cancelar` and `Arquivar`. `firmes` is history: the notas of the
filters that did not change while the reading lasted.

### Conferencia and the code

One row, with the columns of the review and those the automatic status reads: `conf`, `fila`,
`responsavel`, `obs`, `divergencia`, `valor`, `liquido` (the status of the net value),
`retencoes`, `alertas`, `documento`, `faltam` (required fields that are missing).
`LerConferencia` and `GravarConferencia` are the PATCH and the PUT (`atualizar_conferencia` with
`salvar_conferencia`), `LerXml` and `GravarXml` a re-ingestion, which an event may have given a
remark (`ComEvento`). `Revista` writes what a review writes: its decision, and also the remark, the
divergence it notes and the status of the net value. `Automatica` is `calcular_status_fila`, which
reads all three. `Fila` is what the screen shows: over the alerts of the analysis or, when it gave
none, those `_anotar_detalhe_frontend` makes of the noted divergence and of missing fields
(`AlertasDaTela`); `FilaDoRelatorio` is what the reports show. A nota reopened as pendente is
therefore judged by rules that read what earlier reviews noted. Until the first overlapping write
the properties state everything; what an overlapping write leaves is not stated (it is
last-writer-wins by column).

### Retencoes and the code

`Analise` is `calcular_retencoes_esperadas`, `LiquidoDasSalvas` is
`calcular_liquido_com_retencoes_salvas`; `Arredondado` is `ROUND_HALF_UP` over integers (an amount
in centavos times a rate in ten-thousandths). The base of the INSS may be its own (`BaseInss`). `Ingerir`, `LerLote` with `GravarLote` (the
backfill of the start-up thread), `LerAlertas` with `RecalcularAlertas` (the script, which reads a
lot and commits it later), `Conferir` and `Reabrir` write; `PerderLote` loses the copy of either
program. `MCNotas` lets one of the two hold a copy at a time; the theorems let both.
The sheet of rules may be unreadable. The reference the analysis is compared with, `Devido`,
states rounding by inequalities and uses none of its operators. `Espelhavel` exempts the data
on which the two formulas differ because one of them does not see it (a CSRF given as one
value under a rule that depends on analysis, an ISS withheld declared as zero beside an ISS
greater than the one calculated from `BaseCalculo`, no service value).

### Cnpj and the code

A row is a value, what the base said, and the days it is good for. `Enriquecer` follows a
consulta, `Consultar` is GET `/cnpj`, `IniciarScript` with `GravarScript` the two scripts that read
first and write later, `TrocarBase` an import or a missing file, `PassarDia` midnight. `dito` is
history: how long ago the base last said each thing.

### Contas and the code

`conta`, `convite`, `codigoEmail`, `codigoSenha` are the tables; `sessao` is one token, with the
version it carries. A request is quick (one step) or is *the* slow one, `lento`, which read its
rows and commits after any number of quick ones: two requests overlap in every way, three do
not. The group of the model is one, `Geral` is the general administrator (SUPER_ADMIN_EMAILS), of
another group, who acts on every account and moves accounts between groups (`fora`; the other
groups are one). `Autores` are those who may ask, `Alcance` the accounts each reaches
(`_usuario_no_escopo`), `Mudancas` what they may write. The requests with a window are `Login`, `RefazerConta`, `VerificarEmail`, `TrocarSenha`,
`AtualizarUsuario` and `ExcluirUsuario`. A code is right or wrong; one that expired is one nobody
uses. `perdas` records what a slow request wrote over, and exempts it; `perdas.admin` is that the general
administrator left the group with none, or a request did whose author was no administrator of the
group any more, or whose accounts had been moved, when it committed (`Atropelado`). `confirmadas` is history too:
the accounts each invitation confirmed, deleted ones included. `Gravar` writes the columns a
request changed (`ComColunas`) over the row as it is by then.

### SessaoAdmin and the code

`totp` is the secret, whether it is active and the last step used; a step is thirty seconds, a
code is good one step before and after (`Verificar`). `Iniciar2fa`, `Confirmar2fa`,
`AbrirSessaoAdmin` and `Resetar2fa` are each quick or the slow one (`atrasado`). `regravacoes`
counts the writes over a row that others had changed, resets included. A session remembers, as
history, what was open and the value of `regravacoes` when it was asked for (`vistas`, `lidas`) and
when it opened.

### Limitador and the code

One key. `allow` is two actions: `Chegar` takes the time and counts in the memory of the process,
and then the attempt waits (`aguardando`) for a session and for the lock of the key, while others
arrive and overtake it. `DecidirNoBanco` counts in the database under that lock, `DecidirSemBanco`
decides by what the memory said, whether the row was committed or not before the database failed;
`ReiniciarProcesso` empties a memory and drops the attempts that waited in it.

### Certificados and the code

`linha`, `segredo` and `objeto` are the row, the encrypted password and the stored PFX, by
company, id and file name. Every upload is several steps, because the object is stored before the
transaction commits: `CriarPendente` (the row commits alone), `GuardarPendente` (the object) and
`ConcluirPendente`; `Autocadastrar`, `TrocarPfx` and `TestarSenha`, then `Salvar`, or `Desistir`.
A request that does not say whether the certificate is active leaves that column alone (`ComSenha`).
TOTP secrets, encrypted with the same key, are outside the model. The rotation is `ConfigurarNova`, `LerSegredos`,
`GravarSegredos`, `RetirarAntiga`; each change of `SECRETS_KEY` restarts the portal, so no
request is at work then. `desencontro` marks the certificates touched by saves that
overlapped, were cut, or skipped the test.

### Operacao and the code

`Supervisionar` is a round of `_supervisionar_grupos`, which may raise at any of its calls and then
skips the ones after it; `Agendar` is a cycle of the scheduler or its end, `Fila` and
`CriarGrupo` what the watchdog sees (`semConsulta` is by company, and a job that ended in error
counts for none), `Minuto` the clock, `Reiniciar` the process. Ages saturate at
the limit of the warning.

## 3. Runs

| Run | Expectation | Shows |
|---|---|---|
| `FilaSegura` | pass | `ExclusaoPorCertificado`, `JobEmUmSoWorker`, `LockSemExecucaoSoDeMorto`, `ConcluidaNaoReabre`, `ImplementaExecucao`, types |
| `FilaUnica` | pass | `SemConsultaDuplicada`: the scheduler alone never queues a certificate twice, with a crash and an escaped exception (section 5 for delays and cancellations) |
| `LacosVivos` | pass | under the fairness of the loops: `TodaConsultaTermina`, with a crash and an escaped exception; `AgendadorVolta`; and `RodadaCompletaCuida` |
| `ColetaSegura` | pass | `SemLacuna`, `EventoJaVale`, types |
| `ColetaChega` | pass | `TodoDocumentoEntra` under fairness |
| `NotasSeguras` | pass | the seven modules about notas, see below |
| `AcessoSeguro` | pass | the four modules about access, see below |
| `CanceladoRevive` | violation | a cancelled processo runs (`CanceladoEhFinal`) |
| `LockApagado` | violation | two executions for a certificate (`LockUnicoPorCertificado`) |
| `QuedaPerde` | violation | a crash loses a nota (`QuedaNaoPerdeDocumento`) |
| `VarreduraApaga` | violation | the sweep deletes a file that a row names (`SoApagaSemRegistro`) |
| `CodigoRepetido` | violation | a code presented twice at once opens two sessions (`CodigoNuncaReaproveitado`) |

What the runs by parts check:

| Run | Property | Says |
|---|---|---|
| `NotasSeguras` | `StatusNaoRegride` | no ingestion or synchronisation lowers a status, in any order of documents, unless writers overlapped or the correction script has evidence |
| | `EventoGravadoVale` | a recorded event holds on its nota even when it came first |
| | `CarimboAcompanha` | the PDF carries the stamp of the status, unless drawing failed, was undone or raced |
| | `ReferenciaTemObjeto` | the file of a nota is in the storage, whatever the sweep (with the worker stopped) and the archiving do; of what the portal stores beside the sweep, only what was deleted before its row, or whose row came after the second reading, may be missing |
| | `NotaSempreAchavel` | a nota once committed is in the database or in a registered and stored manifest, and its file is there |
| | `NadaFicaParaTras` | every document up to the NSU of a consulta that ended was read by a final ingestion, whatever beginning of the lists a crash left |
| | `LinhaTemSeuXml` | rows of both lists name whole files of their own chave |
| | `LeituraCompleta`, `LeituraEmOrdem` | a reading delivers every nota that stayed in its filters, once and in order |
| | `HistoricoEncadeia`, `FilaSegueConferencia`, `DecisaoHumanaFica` | the history tells the whole review; screen and reports follow the last review that decided whatever it and later ones noted, and the automatic rules once it is reopened; a re-ingestion does not undo it |
| | `ResumoNaoSeContradiz` | the alert about the net value quotes the net value of the row |
| | `NotaCertaNaoDiverge` | a document right to the cent is never shown divergent |
| | `ReceitaDisseHaPouco` | what is shown of a CNPJ was said by the base within the validity of the row |
| `AcessoSeguro` | `TiposContas` | types; the code of an unconfirmed account is always there |
| | `SessaoComSenhaAtual` | an accepted session was opened under the present password |
| | `ConviteNaoPassaDosUsos` | no more confirmed accounts than an invitation has uses |
| | `SempreHaAdministrador` | whatever its own administrators ask, at once or not, the group keeps one of its own who enters whenever it is active |
| | `CodigoAbreUmaSessao`, `AutenticadorZeradoNaoAbre` | a code that opened a session opens none asked for later, whatever overlaps; a cleared authenticator opens none |
| | `LimiteEntreReplicas`, `FalhaNaoDaJanelaNova` | the limit holds across replicas and when the database goes away |
| | `ElegivelAbre` | a certificate the scheduler would consult opens with its stored password |
| | `SenhasAtravessamATroca` | rotating the key loses no password |
| | `RenovacaoNaoDuplica` | a renewal replaces the certificate of its holder |
| `LacosVivos` | `TodaConsultaTermina` | every consulta reaches an outcome, its job with it (liveness) |
| | `AgendadorVolta` | a scheduler that ended comes back, although every round may fail (liveness) |
| | `RodadaCompletaCuida` | a full round warns of each stopped thing and covers each group |

Bounds. `FilaSegura`: two workers (any conflict over a job or a lock is between
two), one certificate (locks of different certificates do not interact except
through `Recuperar`, which `FilaUnica` exercises), two consultas by requests (one
running while the other is claimed, waits or is recovered), a crash and two
cancellations. `FilaUnica`: two certificates and three consultas, created by the
scheduler, with a crash and an escaped exception. `LacosVivos`: two consultas of one
certificate, both kinds of failure; one group, two companies, limits of two minutes. `ColetaSegura`: three documents in every shape
(notas alone, an event after its nota, two events, an event that belongs to another
nota), answers of two documents, two calls for a consulta, one interruption, one
empty answer, one failed document, one synchronisation. `ColetaChega`: three
documents, a failure, an interruption and a synchronisation; no detail of an error is kept, which is the
harder case (the error does not hold the NSU back), and the deep lookback covers the
month, which is the assumption of the nightly re-reading. `QuedaPerde` needs four
documents: notas, one of which stays behind, and an event of the first. `VarreduraApaga` and
`CodigoRepetido` run `Acervo` and `SessaoAdmin` by themselves, with one or two of everything.

`NotasSeguras`: two notas, one of which replaces the other, and an event that cancels the
first, in every subset of an index, with two writers; two notas, two archiving requests, one file
of a certificate (a renewal of the same name, which is the harder case) and three ids, so that a
nota is archived, imported and archived again, or one XML of an event; a
stream of five documents with two issuers of one name and number, an event for each of the two
notas (one without its XML) and a document before the cut-off date, three consultas and two
crashes; three notas, pages of one and lots of two, one change of a row and two instants, so that
order keys tie; two reviewers, five requests and a history of two lines; documents of 10,50 whose
retentions fall on half a centavo, under the rules SIM, NAO and DEPENDE, with and without ISS
withheld, Simples and an INSS base of their own; one CNPJ and a validity of two days.
`AcessoSeguro`: three addresses, one
invitation of one use (the second guest is already one too many), one wrong code to spend, two
changes of password; two secrets, two sessions and three steps of thirty seconds; two processes,
a limit of one, three attempts that may all wait at once and a window shorter than the run; two PFX
of one holder, two names, two rows and two requests under way. People other than the founder, and
requests of certificates, are interchangeable: symmetry is used for them in `AcessoSeguro`, whose
properties are invariants and one box-action property, and never with liveness.

All bounds are constants (`Max...`) and appear in guards only; the theorems are for
every value of them.

Deadlock is checked in the runs of `ColetaNsu`. It is not in those of the queue,
where nothing more happens once the consultas of the bound are over (`QuedaPerde` stops likewise),
nor in `NotasSeguras`, `AcessoSeguro`, `VarreduraApaga` and `CodigoRepetido`, where a part stops when its bound is spent (a reading that ended, the last
change of password, the last id).

Fairness. In `FilaConsultas` it is weak throughout: the worker loop claims and goes on
with its handler (`main.py` catches what escapes and loops again; a dead worker has
no enabled step), the supervisor recovers every minute, a request that has read also
writes, and time passes for whoever stopped beating. Nobody is obliged to ask, to
cancel or to fail, the heartbeat of a live execution is not obliged to lapse, and the
scheduler is not obliged to tick: the property is about consultas that exist. In
`ColetaNsu` the scheduler creates consultas by day and by night (strong fairness of
`IniciarNoite` and `IniciarNormal`: each is enabled only between consultas), the consulta
under way goes on (weak), and again and again a night begins with the certificate idle
(strong: a window of ten hours holds forty ticks of the scheduler). No fairness is
assumed of the incremental thread, of the ADN, or of any failure. In `Operacao` it is weak, of
the round and of the minute: `_supervisionar_grupos` catches what its calls raise and sleeps
again (a call that never returns would break this; they are queries with the timeouts of the
pool, and an e-mail). A round may fail every time, and the scheduler owes nothing. In `MCLacos` each is
asked of its part alone. The modules of `MCNotas` and `MCAcesso` state no fairness: their properties
are about what steps may never do.

## 4. What the violations and the exemptions say

* `CanceladoRevive`: `processo` is loaded before the wait for the lock and
  `mark_processo_running` writes `rodando` over a cancellation committed in between
  (`processos_repo.py:57`), against REG-009.
* `LockApagado`: recovering one job of a worker deletes every lock of that worker
  (`jobs_repo.py:159`). After an escaped exception the same live worker left one job
  behind and executes another, whose lock disappears, against REG-011.
* `QuedaPerde`: a nota is stamped with the NSU of its last event and is ingested
  before documents in between; after a crash the next start passes them
  (`nsu_control_service.py:69`), against ADR-0003.
* `VarreduraApaga`: the second look at the database is one reading, and files are deleted one by
  one after it; the portal, which the script does not ask to stop, commits meanwhile the row of a
  PFX or of an event whose file was stored before, and the file goes (`limpar_orfaos_storage.py:79`),
  against the script's own "cada chave e conferida de novo no banco".
* `CodigoRepetido`: the last step of the second factor is read and written with no condition on the
  row (`admin_seguranca_service.py:79`), so that one code presented twice at once opens two
  sessions, against `docs/ai/API.md`.

`QuedaPerde` is narrow, because the lookback of a normal consulta and the nightly
re-reading usually cover the gap; `ColetaChega` is the statement that they do while
the deep lookback reaches the month's start. The same stamp does two more things, which TLC finds
in `ColetaNsu` when asked: the event of an old nota moves the base of the deep re-reading into the
month it must cross (`nsu_control_service.py:37`), and the NSU of a synchronised event, out of the
stream, is confirmed as central by the next consulta that ends (`legacy_processing_service.py:785`),
past documents never downloaded, until the night's re-reading brings them in.

What the exemptions of the other properties stand for (each was met as a counterexample while
the property was written, and is a behaviour of the code):

* `levados` (`Acervo`): of the files the portal stores while the sweep runs, one deleted before its
  row commits, or whose row the second reading came too early to see, is missing afterwards; and a PFX
  whose certificate was inactive, when the operator asked for those to go and it is switched on again.
* `perdas` (`Contas`): two changes of password that read the same `token_version` write the same
  next one, so that a session opened between them survives the second; two confirmations that
  read the same count use an invitation once too often; an administrator who is being demoted
  may still demote the other, and none is left. The general administrator may leave a group with
  none in one request: nothing in the code forbids it, and no property says otherwise.
* `regravacoes`, `resets` (`SessaoAdmin`): confirming again, which does not ask whether the step
  was used, sets the last step back, and so does a session or a reset that another request
  overtook: a code used before may then open a session again. A confirmation overtaken by a reset
  leaves `totp_ativo` true with no secret, which `iniciar_2fa` refuses until another reset; a slow
  `iniciar` overtaken by a confirmation activates a secret nobody confirmed.
* `historia` (`Limitador`): the database coming back does not know what was admitted without it;
  a restarted process forgets; of two attempts that wait at once, the database may admit the one
  for which the memory had no room, and the memory later the other (`juntas`).
* `desencontro` (`Certificados`): a renewal under the same file name overwrites the object in
  use before its password commits, so that one cut in between leaves a PFX and a password
  that do not match; the rotation script writes back the passwords it read over one saved
  meanwhile.
* `corrida`, `rasgada` (`StatusFiscal`): an event and its nota ingested at the same time by two
  sessions do not see each other, and the next ingestion of the nota settles it; the PDF is
  in the storage before the row.
* `sobreposta` (`Conferencia`): two first reviews read together are both recorded as analysis.
  Without any overlap, a nota reopened as pendente goes on showing divergent when an earlier review
  noted a divergence and the analysis gave no alert: nothing clears the column
  (`notas_service.py:884`), and `FilaSegueConferencia` says so by asking for the automatic rules
  over the row as the reviews left it.
* `decidido` (`Retencoes`): `recalcular_alertas_fiscais` recalculates the net value also of a
  nota whose value a reviewer typed.
* `semTick # Nunca` (`Operacao`): a scheduler that never ended a cycle since the start-up is
  not reported by the watchdog. A warning is marked as given before it leaves, so that one
  whose e-mail fails waits for the next interval.
* A CNPJ the base does not have counts as one that did not opt for the Simples
  (`Simples("fora")`), also when an older row said otherwise and expired.

## 5. Proofs

Each theorem is for any values of the constants of its module that satisfy the assumption
named there (`ConstantesFila`, `ConstantesColeta`, ...: the constants are numbers and sets of
the kinds the code has, and what is a bound may be any number). Four assumptions are made
beyond those, each where the property is false without it:

| Assumption | Where | Why it is there |
|---|---|---|
| `SoAgendador` (`Origens = {Agendador}`) and, in the formula, `Pontual` (no deadline lapsed under a live execution, nobody cancelled) | the duplicates, in `FilaConsultasProofs` | a request beside the tick duplicates (`consultas_service.py:296`); so does a worker that writes the outcome of a job given to another after a late heartbeat, or a cancellation between a claim and the reading of its job: TLC shows both within fifteen steps when `FilaUnica` is given one delay or one cancellation |
| `Instrucoes` (`Parados = {"worker"}`) | `AcervoProofs` | the instruction of the script: with the worker at work the sweep deletes the files of notas whose rows are about to commit. The API is not stopped |
| `NomesDistintos` (no two notas share the name of their PDF) | the stamp, in `StatusFiscalProofs` | two notas of one name share one object (`danfse_service.py:41`), which then shows the stamp of one of them |
| `DoZero` (`IniciosDoUsuario \subseteq {0}`) | the gaps, in `ColetaNsuProofs` | an operator who starts a consulta at a later NSU skips what is before it, as asked |

| Module | Theorem | States |
|---|---|---|
| `FilaConsultasProofs` | `Invariancia`, `Tipos` | `[]Inv`, `[]TypeOK` |
| | `Exclusao` | `[]ExclusaoPorCertificado` |
| | `JobUnico` | `[]JobEmUmSoWorker` |
| | `LockOrfao` | `[]LockSemExecucaoSoDeMorto` |
| | `NaoReabre` | `ConcluidaNaoReabre` |
| | `Implementacao` | `ImplementaExecucao`, while `SemDefeitos` |
| | `InvarianciaUnica`, `ConsultaUnica` | `[]InvUnica`, `[](Pontual => SemConsultaDuplicada)`, under `SoAgendador` |
| `ColetaNsuProofs` | `InvarianciaColeta`, `TiposDaColeta` | `[]InvColeta`, `[]TypeOK` |
| | `EventoENotaConcordam` | `[]EventoJaVale` |
| | `InvarianciaSemLacuna`, `NadaFicaSemLer` | `[]InvLacuna`, `[]SemLacuna`, under `DoZero` |
| `StatusFiscalProofs` | `InvarianciaStatus` | `[]InvStatus` |
| | `EventoNaoSePerde` | `[]EventoGravadoVale` |
| | `StatusNaoVolta` | `StatusNaoRegride` |
| | `InvarianciaCarimbo`, `CarimboNaoEngana` | `[]InvCarimbo`, `[]CarimboAcompanha`, under `NomesDistintos` |
| `AcervoProofs` | `InvarianciaAcervo` | `[]InvAcervo`, under `Instrucoes`, as the next two |
| | `NadaEmUsoApagado` | `[]ReferenciaTemObjeto` |
| | `NotaNuncaSePerde` | `[]NotaSempreAchavel` |
| | `InvarianciaSaida` | `[]InvSaida` |
| | `NadaSePerdeNoDisco`, `LinhaNomeiaSeuXml` | `[]NadaFicaParaTras`, `[]LinhaTemSeuXml` |
| `CertificadosProofs` | `InvarianciaCertificados` | `[]InvCertificados` |
| | `NenhumaSenhaPerdida` | `[]SenhasAtravessamATroca` |
| | `ElegivelSempreAbre` | `[]ElegivelAbre` |
| | `RenovacaoSubstitui` | `RenovacaoNaoDuplica` |
| `AcessoProofs` | `InvarianciaContas`, `TiposDasContas` | `[]InvContas`, `[]TiposContas` |
| | `SenhaVelhaNaoEntra` | `[]SessaoComSenhaAtual` |
| | `UsosRespeitados` | `[]ConviteNaoPassaDosUsos` |
| | `GrupoNaoFicaOrfao` | `[]SempreHaAdministrador` |
| | `InvarianciaLimitador` | `[]InvLimitador` |
| | `LimiteDeTodasAsReplicas`, `QuedaNaoDaJanelaNova` | `[]LimiteEntreReplicas`, `[]FalhaNaoDaJanelaNova` |
| | `InvarianciaOperacao`, `RodadaCuidaDeTudo` | `[]InvOperacao`, `RodadaCompletaCuida` |
| | `InvarianciaSessaoAdmin` | `[]InvSessaoAdmin` |
| | `CodigoNaoSeRepete`, `ZeradoNaoAbre` | `[]CodigoAbreUmaSessao`, `[]AutenticadorZeradoNaoAbre` |
| `NotasProofs` | `InvarianciaConferencia` | `[]InvConferencia` |
| | `HistoricoContaTudo`, `FilaSegueRevisao` | `[]HistoricoEncadeia`, `[]FilaSegueConferencia` |
| | `DecisaoNaoSeDesfaz` | `DecisaoHumanaFica` |
| | `InvarianciaCnpj`, `ReceitaSempreEmDia` | `[]InvCnpj`, `[]ReceitaDisseHaPouco` |
| | `InvarianciaRetencoes` | `[]InvRetencoes` |
| | `ResumoCoerente`, `NotaCertaFicaCerta` | `[]ResumoNaoSeContradiz`, `[]NotaCertaNaoDiverge` |
| | `InvarianciaLista` | `[]InvLista` |
| | `LeituraNaoPerde`, `LeituraNaoRepete` | `[]LeituraCompleta`, `[]LeituraEmOrdem` |

None of the safety properties is inductive. What each invariant adds, and why:

* `FilaConsultas`. `Inv` is `TypeOK /\ Estrutura /\ (SemDefeitos => Protocolo)`. Exclusion
  holds because the lock's row names the worker, because a job in somebody's hands is in
  their name or was cancelled under them, and because the recovery touches only rows whose
  owner is dead, so these facts have to be carried together. `Estrutura` says what the phase
  of a worker implies about what it remembers, whatever fails. `Protocolo` is
  `ProtocoloJob` (a worker's job is in its name or cancelled, a running job is in the hands of
  the worker it names unless that is dead, two workers have two jobs, and only a dead worker's
  heartbeat is late), `ProtocoloLock` (an execution holds the lock of its certificate, a lock
  names a worker that uses it or a dead one, and only a dead worker's lock expires) and
  `ConcluidaComJob` (a processo with an outcome has a job with an outcome). It holds while
  there are no defects: `SemDefeitos` says that no exception escaped and no deadline lapsed
  under a live execution, the two things the runs of section 4 and the code's comments show to
  break exclusion. Crashes, cancellations and duplicate requests are inside the theorem. The
  refinement maps a certificate to the set of its executions, and the consultas with an outcome
  to those whose job is `finalizado` or `erro`; every action maps to a step of
  `ExecucaoDeConsultas` or to a stutter (claim, lock and recovery are mostly stutters).
  `InvUnica` is for the scheduler alone, and holds although exceptions escape: a processo is
  under way exactly while its job is (`AtivosJuntos`), the job a worker has is running in its
  name and it knows it as not over (`JobEmMaosVivas`), so that no row that ended comes back, and
  the certificates a tick read as free are still free when it inserts (`CicloEmDia`).
* `ColetaNsu`. `InvColeta` says that a document on disk is in the index (`DiscoIndexado`),
  that the engine has on disk what it says it read (`MotorCoerente`), that no row of a pass is
  of a document later than the row (`PassadaLida`: a nota is stamped with its own NSU or a
  later one), and what the database holds (`BancoCoerente`). `InvLacuna` adds what makes a gap
  impossible in a quiet history: the disk has no hole, each consulta starts inside what is
  ingested, and what it covers is ingested or is in the pass of the final ingestion
  (`Contiguo`); with interruptions this needs the rows to enter in the order of their NSUs,
  which is so while there are notas only (`NaOrdem`). With an event and an interruption it is
  false, and `QuedaPerde` shows it.
* `StatusFiscal`. The invariant is about open transactions: a session that is alone still
  finds what it read (`AindaVale`), what it decided does not go down (`Decidiu`), what it wrote
  is locked (`LinhasTrancadas`). For the stamp: what a session stored is what its row will be
  (`PostosConferem`), and a special stamp is of a row that is special or about to be (`Estampa`).
* `Acervo`. Whoever is about to commit has stored its object, or the sweep took it since
  (`GravandoGuardado`); what the sweep will delete no nota names, and no event or certificate but one
  of after the second reading or one the operator gave up (`OrfaosSemUso`); what the
  archiving will delete is in what it stored, although ids are given out meanwhile
  (`LidasDaExecucao`, `ManifestoGuardado`).
* `SaidaDoMotor`. Every document of a good XML that the consulta under way has passed was read by
  a final ingestion, or the index rows of its chave are stamped with this consulta (`Tocadas`) and
  an occurrence written by it names the file (`Anotado`): that is `Percorrido`, and the final ingestion
  turns it into `NadaFicaParaTras`. The rows a crash left of a list are older than this consulta or
  are rewritten by it, so nothing is asked of them but `LinhaTemSeuXml`, which a beginning keeps.
  That `resolve_xml_path` always finds a name is a pigeonhole: of one numbered name more than there
  are files, one is free.
* `Certificados`. The key of every secret by the phase of the rotation (`ChavePorFase`): what
  has the old key after the reading was read. A request alone finds its object, its row and its
  choice as they were (`SoEla`, `EscolhaMantida`).
* `Contas`. What the slow request remembers (`PedidoBom`), with the memory of a login under the
  same condition as a session (`Lembranca`): the version only grew, and with the same version
  the password is the same. What any request may do to a row is one lemma (`EscritaSegura`),
  and the memory outlives every step that obeys it. `UsosContados`: the uses of an invitation
  are at least the accounts it confirmed. For the administrators: the author of the slow request was
  of the group when it was let in (`AutorDoGrupo`), and acts on another row than their own: a request that
  nothing overtook leaves its author in place (`AutorFica`), and one of the general administrator, or
  overtaken, leaves an administrator or is remembered (`HistoriaDoAdmin`).
* `Limitador`. The table and every memory hold at most `MaxHits` attempts in any window, also in
  windows that end later than now, since a row may be later than the attempt that counts it
  (`ContagensRespeitam`): an attempt finds room among all the rows since its own window, which is
  more than the limit asks. For a process alone, while one attempt waits at a time, the memory
  without that attempt is what was admitted (`ReservaAcompanha`).
* `Listagem`. A nota of the filters that did not change was read exactly when it is not ahead of
  the cursor (`LeituraEmCurso`), and what was read comes down in order. It rests on the row
  comparison being a strict total order on keys of one length, on a lot being closed upwards (what
  is not in it comes after all of it), and on rows being inserted without touching others' keys.
* `Conferencia`: what the ingestion will write leaves the review alone (`MotorRespeita`), and the
  row shows the last review that decided, whatever later ones noted (`RevisaoEhUltima`). `Cnpj`: no copy that a script holds is older
  than it says (`ScriptDisseHaPouco`). `Retencoes`: the row and the copies of the backfill and of
  the script, each with its analysis, show its net value (`LiquidoDaAnalise`); the arithmetic is that `Arredondado` is the
  one integer the inequalities of `Devido` allow, for every amount and rate.
* `SessaoAdmin`: a session opened since the last step was last rewritten used a step up to it
  (`CodigosGastos`); what a session saw open when it was asked for was open (`VistasAbertas`); after a
  reset, a secret in force is newer than those of the sessions before (`SegredoNovo`); a late request
  keeps what its row satisfied (`AberturaBoa`).
* `Operacao`: a scheduler that ticked is as old as its tick (`OperacaoCoerente`).

Every invariant was checked by TLC on a small instance before its proof. Each action has a
lemma, and one step under it for each conjunct it can disturb; actions that touch the same rows
share the lemmas about what a write leaves alone.

What the proofs found in the models, and was changed there: the counter `usos` of an invitation
can be read stale, so `ConviteNaoPassaDosUsos` is about the accounts confirmed and not about the
counter; a reset of the second factor that was overtaken is a rewriting too (`regravacoes`); a
nota whose XML names itself as replaced marked itself (`marcadas`); the two formulas of the net
value differ also for an ISS withheld declared as zero with an ISS above the calculated one, and
when the document has no service value (`Espelhavel`, `Certa`); an operator may start beyond what
the ADN has published (`Alcance`); two attempts in one process may be decided by the database in
another order than the memory counted them (`Chegar` and its decision are two actions); CASE arms
that overlapped, where TLC takes the first and the logic any of them, became IF chains (`Depois`,
`FilaDoPedido`, `Tocadas` of `StatusFiscal`).

Data of any size. A recursive definition is out of the prover's reach, but the least
counterexample is not: `HaMenor` (`Ordem`: a set of naturals has a least member, from the
well-foundedness of the library) gives what an induction would, and `HaOrdem` uses it to show that
every finite set of places can be put in order, so that `EmOrdem`, and with it the rows of the index
and the pages of a list, is what it says for streams and lists of any length.

Only model-checked: liveness (`TodaConsultaTermina`, `TodoDocumentoEntra`, `AgendadorVolta`), since
neither fairness nor ENABLED is in reach. Every invariant and every action property of the passing
runs is a theorem, under the assumptions above. The violations are counterexamples of TLC.

## 6. Plan

Done: every module of section 2 with its runs, and the theorems of section 5. Left, in order of
importance:

1. `FilaConsultas` with cancellations under fairness (a processo left rodando beside a
   cancelled job).
2. A company of a new group is consulted in the end: `Operacao` composed with `FilaConsultas`.

Not modelled:

* the PDF generator, spreadsheets, report layouts and the wording of e-mails: formatting;
* `portal_support_service` and the summaries of the lists: read-only shaping of answers, with no
  state of their own;
* migrations and the copy of one storage to another: run once with the portal stopped;
* audits, diagnoses, backups and repairs under `app/scripts/` other than those named in section 2;
* `excluir_grupo`, `limpar_erros` and the audit trail of `api/routers/admin.py`;
* wrong codes that race for the count of attempts (it depends on the locks of the database, and
  `ErrarCodigoDeEmail` is one step), and codes that expire by time;
* a single row of an index torn in the middle of its text, and half an XML read by the scan that
  serves a directory with no index;
* a document whose XML ends its lines in CRLF: `resolve_xml_path` compares the text it holds with
  the text it reads back, which differ, and keeps one more copy each time it is downloaded again.
