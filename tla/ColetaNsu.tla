----------------------------- MODULE ColetaNsu -----------------------------
(***************************************************************************)
(* How the documents that the ADN publishes for one empresa reach the      *)
(* database: from which NSU a consulta starts, the engine that downloads   *)
(* to disk, the thread that ingests while it downloads, the final          *)
(* ingestion, and the NSU that the consulta confirms when it ends.         *)
(*                                                                         *)
(* One certificate is followed; FilaConsultas is what makes its consultas  *)
(* run one at a time.  NSUs are 1..MaxNsu and each one is a document: a    *)
(* nota, or an event that cancels an earlier nota and carries its chave.   *)
(* The disk is the volume that survives restarts.                          *)
(*                                                                         *)
(* Each row the ingestion commits is one action, and so is each document   *)
(* the engine saves and each call it makes: the thread and the engine      *)
(* interleave, and the process may die between any two of them.            *)
(***************************************************************************)
EXTENDS Integers, Sequences, FiniteSets, FiniteSetsExt, SequencesExt

CONSTANTS
  MaxNsu,          \* bound: documents the ADN ever publishes
  Alvos,           \* shapes of the stream: NSU |-> NSU of the nota it is about
  Lote,            \* documents in one answer of the ADN
  Limite,          \* calls to the ADN in one consulta (worker_real_max_limite)
  MaxVazios,       \* nsu_max_vazios_consecutivos
  Recuo,           \* nsu_lookback_normal
  RecuoProfundo,   \* nsu_lookback_reconciliacao
  MaxDetalhes,     \* errors whose detail a consulta keeps (20 in the code)
  FimAntigo,       \* last NSU of a nota older than the previous month
  FimMesAnterior,  \* last NSU of a nota of the previous month
  IniciosDoUsuario, \* starting NSUs that an operator may ask for
  MaxInterrupcoes, \* bound: crashes, cancellations and failed calls
  MaxVazias,       \* bound: empty answers of the ADN other than E2220
  MaxSincronizacoes, \* bound: requests for the events of one nota
  MaxFalhas        \* bound: documents whose ingestion fails

Nsus == 1..MaxNsu

ASSUME ConstantesColeta ==
  /\ MaxNsu \in Nat
  /\ Alvos \subseteq {f \in [Nsus -> Nsus] : \A n \in Nsus : f[n] <= n /\ f[f[n]] = f[n]}
  /\ Lote \in Nat \ {0} /\ Limite \in Nat \ {0} /\ MaxVazios \in Nat \ {0}
  /\ Recuo \in Nat /\ RecuoProfundo \in Nat /\ MaxDetalhes \in Nat
  /\ FimAntigo \in Nat /\ FimMesAnterior \in Nat
  /\ IniciosDoUsuario \subseteq Nat
  /\ MaxInterrupcoes \in Nat /\ MaxVazias \in Nat /\ MaxFalhas \in Nat
  /\ MaxSincronizacoes \in Nat

VARIABLES
  alvo, publicado,            \* the ADN
  disco, primeiro,            \* documents on disk; chave |-> its first NSU in the index
  central, reconciliada,      \* nsu_controle: ultimo_nsu; this night's re-reading done
  ultimoNsu, canceladas,      \* notas: ultimo_nsu (0 when absent), those cancelled
  eventos,                    \* NSUs of the events recorded
  janela,                     \* it is between 19h and 5h
  fase, cancelado, profunda, naJanela,  \* the consulta under way
  inicio, lido, ate,          \* its engine: first NSU, last saved, last of the answer
  consultas, vazios,
  linha, passada,             \* its ingestion: next row, pass in progress
  erros, detalhes,
  interrupcoes, vazias, falhas, sincronizacoes   \* how much of each bound was used

varsBanco   == <<ultimoNsu, canceladas, eventos>>
varsCentral == <<central, reconciliada>>
varsDisco   == <<disco, primeiro>>
varsMotor   == <<lido, ate, consultas, vazios>>
varsPlano   == <<inicio, profunda, naJanela>>
varsLinhas  == <<linha, passada, erros, detalhes>>
varsLimite  == <<interrupcoes, vazias, falhas, sincronizacoes>>
varsMundo   == <<alvo, publicado, janela>>
vars == <<varsBanco, varsCentral, varsDisco, varsMotor, varsPlano, varsLinhas, varsLimite,
          varsMundo, fase, cancelado>>

Fases == {"parado", "baixando", "ingerindo", "marcando"}
Linha == [doc : Nsus, nsu : Nsus]
SemPassada == [linhas |-> <<>>, previstas |-> {}]

EhNota(n) == alvo[n] = n
Importadas == {m \in Nsus : ultimoNsu[m] # 0}

\* As far as the ADN publishes, or as an operator may ask for.
Alcance == {n \in Nat : n <= MaxNsu \/ \E u \in IniciosDoUsuario : n <= u}

TypeOK ==
  /\ alvo \in Alvos /\ publicado \in 0..MaxNsu
  /\ disco \subseteq 1..publicado /\ primeiro \in [Nsus -> disco \cup {0}]
  /\ central \in Alcance /\ reconciliada \in BOOLEAN /\ janela \in BOOLEAN
  /\ ultimoNsu \in [Nsus -> 0..MaxNsu]
  /\ canceladas \subseteq Importadas
  /\ Importadas \subseteq {n \in Nsus : EhNota(n)}
  /\ eventos \subseteq {n \in Nsus : ~EhNota(n)}
  /\ fase \in Fases /\ cancelado \in BOOLEAN /\ profunda \in BOOLEAN /\ naJanela \in BOOLEAN
  /\ inicio \in Alcance /\ ate \in Alcance /\ lido \in inicio..ate
  /\ consultas \in 0..Limite /\ vazios \in 0..MaxVazios
  /\ linha \in Nat /\ passada \in [linhas : Seq(Linha), previstas : SUBSET Nsus]
  /\ erros \in Nat /\ detalhes \subseteq Linha /\ Cardinality(detalhes) <= MaxDetalhes
  /\ interrupcoes \in 0..MaxInterrupcoes /\ vazias \in 0..MaxVazias /\ falhas \in 0..MaxFalhas
  /\ sincronizacoes \in 0..MaxSincronizacoes

Parada ==
  /\ fase = "parado" /\ cancelado = FALSE /\ profunda = FALSE /\ naJanela = FALSE
  /\ inicio = 0 /\ lido = 0 /\ ate = 0 /\ consultas = 0 /\ vazios = 0
  /\ linha = 0 /\ passada = SemPassada /\ erros = 0 /\ detalhes = {}

Init ==
  /\ alvo \in Alvos /\ publicado = 0
  /\ disco = {} /\ primeiro = [n \in Nsus |-> 0]
  /\ central = 0 /\ reconciliada = FALSE /\ janela \in BOOLEAN
  /\ ultimoNsu = [n \in Nsus |-> 0] /\ canceladas = {} /\ eventos = {}
  /\ Parada
  /\ interrupcoes = 0 /\ vazias = 0 /\ falhas = 0 /\ sincronizacoes = 0

Parar ==
  /\ fase' = "parado" /\ cancelado' = FALSE /\ profunda' = FALSE /\ naJanela' = FALSE
  /\ inicio' = 0 /\ lido' = 0 /\ ate' = 0 /\ consultas' = 0 /\ vazios' = 0
  /\ linha' = 0 /\ passada' = SemPassada /\ erros' = 0 /\ detalhes' = {}

-----------------------------------------------------------------------------
(* The starting point                                                      *)

MaiorNsuImportado == Max({0} \cup {ultimoNsu[m] : m \in Importadas})

Confirmado == Max({central, MaiorNsuImportado})   \* obter_ultimo_nsu

AteZero(n) == IF n < 0 THEN 0 ELSE n

BasesMesAnteriorDefeituosa == {}

\* Where a deep re-reading starts from: an NSU before the previous month, or
\* the first one of it, or none when the database holds neither.
BasesMesAnterior ==
  LET velhas == {m \in Importadas : m <= FimAntigo}
      doMes  == {m \in Importadas : FimAntigo < m /\ m <= FimMesAnterior}
  IN IF velhas # {} THEN {Max({ultimoNsu[m] : m \in velhas})}
     ELSE IF doMes # {} THEN {Min({primeiro[m] : m \in doMes})} ELSE {}

InicioProfundo ==
  LET base == IF BasesMesAnterior = {} THEN Confirmado ELSE Max(BasesMesAnterior)
  IN AteZero(base - RecuoProfundo)

InicioNormal == AteZero(Confirmado - Recuo)

\* atualizar_ultimo_nsu: a smaller value is ignored.
Avancar(n) == central' = IF n >= central THEN n ELSE central

Comecar(nsu, funda, naNoite) ==
  /\ fase = "parado"
  /\ fase' = "baixando"
  /\ inicio' = nsu /\ lido' = nsu /\ ate' = nsu
  /\ profunda' = funda /\ naJanela' = naNoite
  /\ Avancar(nsu)
  /\ UNCHANGED <<reconciliada, varsDisco, consultas, vazios, cancelado,
                 varsBanco, varsLinhas, varsLimite, varsMundo>>

\* A night's first consulta re-reads deeply whatever was asked for.
IniciarNoite  == janela /\ ~reconciliada /\ Comecar(InicioProfundo, TRUE, TRUE)
IniciarNormal == ~(janela /\ ~reconciliada) /\ Comecar(InicioNormal, FALSE, FALSE)

\* Asked for by an operator, or the empresa had not been consulted for hours.
IniciarReleitura == ~(janela /\ ~reconciliada) /\ Comecar(InicioProfundo, TRUE, janela)

IniciarDoUsuario ==
  \E nsu \in IniciosDoUsuario : Comecar(nsu, FALSE, FALSE)

-----------------------------------------------------------------------------
(* The engine                                                              *)

PodeConsultar ==
  fase = "baixando" /\ lido = ate /\ ~cancelado /\ consultas < Limite /\ vazios < MaxVazios

ReceberLote ==
  /\ PodeConsultar /\ publicado > ate
  /\ ate' = Min({ate + Lote, publicado})
  /\ consultas' = consultas + 1 /\ vazios' = 0
  /\ UNCHANGED <<varsDisco, lido, fase, cancelado, varsBanco, varsCentral, varsPlano,
                 varsLinhas, varsLimite, varsMundo>>

\* An empty answer that does not say E2220: the same call is made again.
ReceberVazio ==
  /\ PodeConsultar /\ vazias < MaxVazias
  /\ consultas' = consultas + 1 /\ vazios' = vazios + 1 /\ vazias' = vazias + 1
  /\ UNCHANGED <<varsDisco, lido, ate, fase, cancelado, varsBanco, varsCentral, varsPlano,
                 varsLinhas, interrupcoes, falhas, sincronizacoes, varsMundo>>

GravarDocumentoDefeituosa ==
  /\ fase = "baixando" /\ lido < ate
  /\ lido' = lido + 1
  /\ disco' = disco \cup {lido'}
  /\ primeiro' = [primeiro EXCEPT ![alvo[lido']] = IF @ = 0 THEN lido' ELSE @]
  /\ Avancar(lido + 1)
  /\ UNCHANGED <<reconciliada, ate, consultas, vazios, fase, cancelado, varsBanco,
                 varsPlano, varsLinhas, varsLimite, varsMundo>>

\* One document of the answer saved with its rows of the two indexes.
GravarDocumento ==
  /\ fase = "baixando" /\ lido < ate
  /\ lido' = lido + 1
  /\ disco' = disco \cup {lido'}
  /\ primeiro' = [primeiro EXCEPT ![alvo[lido']] = IF @ = 0 THEN lido' ELSE @]
  /\ UNCHANGED <<ate, consultas, vazios, fase, cancelado, varsBanco, varsCentral,
                 varsPlano, varsLinhas, varsLimite, varsMundo>>

-----------------------------------------------------------------------------
(* The ingestion                                                           *)

DaCorrida == {n \in Nsus : inicio < n /\ n <= lido}

\* The NSUs of S from the least place to the greatest; no two share a place.
EmOrdem(S, lugar) ==
  CHOOSE s \in [1..Cardinality(S) -> S] :
    \A i, j \in 1..Cardinality(S) : i < j => lugar[s[i]] < lugar[s[j]]

\* The rows touched by this run.  index_nfse.csv has one row for each chave, in
\* the order of its first NSU, stamped with the last NSU that carried it, which
\* shows the nota or, when the disk does not have it, its last event; after
\* them come the events that index hides (_linhas_fora_do_indice).
Linhas ==
  LET chaves == {alvo[n] : n \in DaCorrida}
      Ultimo(m) == Max({n \in DaCorrida : alvo[n] = m})
      Mostra(m) == IF m \in disco THEN m ELSE Ultimo(m)
      ordem  == EmOrdem(chaves, primeiro)
      fora   == EmOrdem({n \in DaCorrida : ~EhNota(n) /\ n # Mostra(alvo[n])}, [n \in Nsus |-> n])
  IN [k \in DOMAIN ordem |-> [doc |-> Mostra(ordem[k]), nsu |-> Ultimo(ordem[k])]]
       \o [k \in DOMAIN fora |-> [doc |-> fora[k], nsu |-> fora[k]]]

\* Notas that some event on disk cancels (_prever_status_por_chave).
Previstas == {alvo[e] : e \in {n \in disco : ~EhNota(n)}}

IngerirNotaDefeituosa(r, previstas) ==
  /\ ultimoNsu' = [ultimoNsu EXCEPT ![r.doc] = r.nsu]
  /\ canceladas' = (canceladas \ {r.doc}) \cup ({r.doc} \cap previstas)
  /\ UNCHANGED eventos

\* Cancelled by the batch, by an event already recorded, or before.
IngerirNota(r, previstas) ==
  /\ ultimoNsu' = [ultimoNsu EXCEPT ![r.doc] = r.nsu]
  /\ canceladas' = canceladas \cup ({r.doc} \cap (previstas \cup {alvo[e] : e \in eventos}))
  /\ UNCHANGED eventos

IngerirEventoDefeituosa(r) ==   \* an event before its nota
  LET atingidas == {alvo[r.doc]} \ canceladas IN
  /\ eventos' = eventos \cup {r.doc}
  /\ canceladas' = canceladas \cup atingidas
  /\ ultimoNsu' = [m \in Nsus |-> IF m \in atingidas \cap Importadas THEN r.nsu ELSE ultimoNsu[m]]

\* The NSU of a nota follows the event only when the event changed its status.
IngerirEvento(r) ==
  LET atingidas == ({alvo[r.doc]} \cap Importadas) \ canceladas IN
  /\ eventos' = eventos \cup {r.doc}
  /\ canceladas' = canceladas \cup atingidas
  /\ ultimoNsu' = [m \in Nsus |-> IF m \in atingidas THEN r.nsu ELSE ultimoNsu[m]]

Ingerir(r, previstas) ==
  \/ EhNota(r.doc) /\ IngerirNota(r, previstas)
  \/ ~EhNota(r.doc) /\ IngerirEvento(r)

\* The thread re-reads the indexes and goes on from the row where it stopped.
LerIndice ==
  /\ fase = "baixando" /\ ~cancelado /\ passada.linhas = <<>>
  /\ linha < Len(Linhas)
  /\ passada' = [linhas |-> SubSeq(Linhas, linha + 1, Len(Linhas)), previstas |-> Previstas]
  /\ linha' = Len(Linhas)
  /\ UNCHANGED <<erros, detalhes, fase, cancelado, varsBanco, varsCentral, varsDisco, varsMotor,
                 varsPlano, varsLimite, varsMundo>>

AvancarPassada == passada' = [passada EXCEPT !.linhas = Tail(@)]

IngerirIncremental ==
  /\ fase = "baixando" /\ passada.linhas # <<>>
  /\ AvancarPassada
  /\ Ingerir(Head(passada.linhas), passada.previstas)
  /\ UNCHANGED <<linha, erros, detalhes, fase, cancelado, varsCentral, varsDisco, varsMotor,
                 varsPlano, varsLimite, varsMundo>>

\* The transaction of the row is undone; its counters are only logged.
FalharIncremental ==
  /\ fase = "baixando" /\ passada.linhas # <<>> /\ falhas < MaxFalhas
  /\ falhas' = falhas + 1
  /\ AvancarPassada
  /\ UNCHANGED <<linha, erros, detalhes, fase, cancelado, varsBanco, varsDisco, varsCentral,
                 varsMotor, varsPlano, interrupcoes, vazias, sincronizacoes, varsMundo>>

\* The engine is over: the thread is stopped between two rows and joined, and
\* unless the processo was cancelled every row of the run is ingested again.
TerminarMotor ==
  /\ fase = "baixando" /\ lido = ate
  /\ cancelado \/ consultas = Limite \/ vazios = MaxVazios \/ publicado = ate
  /\ \/ cancelado /\ Parar
     \/ /\ ~cancelado
        /\ fase' = "ingerindo"
        /\ passada' = [linhas |-> Linhas, previstas |-> Previstas]
        /\ UNCHANGED <<linha, erros, detalhes, cancelado, varsMotor, varsPlano>>
  /\ UNCHANGED <<varsBanco, varsCentral, varsDisco, varsLimite, varsMundo>>

IngerirFinal ==
  /\ fase = "ingerindo" /\ passada.linhas # <<>>
  /\ AvancarPassada
  /\ Ingerir(Head(passada.linhas), passada.previstas)
  /\ UNCHANGED <<linha, erros, detalhes, fase, cancelado, varsCentral, varsDisco, varsMotor,
                 varsPlano, varsLimite, varsMundo>>

GuardarErro(r) ==
  detalhes' = IF Cardinality(detalhes) < MaxDetalhes THEN detalhes \cup {r} ELSE detalhes

FalharFinal ==
  /\ fase = "ingerindo" /\ passada.linhas # <<>> /\ falhas < MaxFalhas
  /\ falhas' = falhas + 1
  /\ AvancarPassada
  /\ erros' = erros + 1 /\ GuardarErro(Head(passada.linhas))
  /\ UNCHANGED <<linha, fase, cancelado, varsBanco, varsCentral, varsDisco, varsMotor,
                 varsPlano, interrupcoes, vazias, sincronizacoes, varsMundo>>

-----------------------------------------------------------------------------
(* The end of a consulta                                                   *)

LimitarPorFalhas(nsu) ==
  IF erros = 0 \/ detalhes = {} THEN nsu
  ELSE Min({nsu, Min({d.nsu : d \in detalhes}) - 1})

\* A final NSU of zero is not written.
Confirmar ==
  LET final == LimitarPorFalhas(Max({ate, MaiorNsuImportado})) IN
  /\ fase = "ingerindo" /\ passada.linhas = <<>>
  /\ IF final = 0 THEN UNCHANGED central ELSE Avancar(final)
  /\ \/ profunda /\ naJanela /\ fase' = "marcando"
        /\ UNCHANGED <<cancelado, varsPlano, varsLinhas, varsMotor>>
     \/ ~(profunda /\ naJanela) /\ Parar
  /\ UNCHANGED <<reconciliada, varsBanco, varsDisco, varsLimite, varsMundo>>

MarcarReconciliacao ==
  /\ fase = "marcando"
  /\ reconciliada' = TRUE
  /\ Parar
  /\ UNCHANGED <<central, varsDisco, varsBanco, varsLimite, varsMundo>>

-----------------------------------------------------------------------------
(* The world                                                               *)

Publicar ==
  /\ publicado < MaxNsu
  /\ publicado' = publicado + 1
  /\ UNCHANGED <<alvo, janela, fase, cancelado, varsBanco, varsCentral, varsDisco, varsMotor,
                 varsPlano, varsLinhas, varsLimite>>

\* No consulta of one night is still running when the next one begins.
AbrirJanela ==
  /\ ~janela /\ ~naJanela
  /\ janela' = TRUE /\ reconciliada' = FALSE
  /\ UNCHANGED <<alvo, publicado, central, fase, cancelado, varsBanco, varsDisco, varsMotor,
                 varsPlano, varsLinhas, varsLimite>>

FecharJanela ==
  /\ janela
  /\ janela' = FALSE
  /\ UNCHANGED <<alvo, publicado, fase, cancelado, varsBanco, varsCentral, varsDisco, varsMotor,
                 varsPlano, varsLinhas, varsLimite>>

Cancelar ==
  /\ fase # "parado" /\ ~cancelado /\ interrupcoes < MaxInterrupcoes
  /\ cancelado' = TRUE /\ interrupcoes' = interrupcoes + 1
  /\ UNCHANGED <<fase, varsBanco, varsCentral, varsDisco, varsMotor, varsPlano, varsLinhas,
                 vazias, falhas, sincronizacoes, varsMundo>>

\* POST /notas/{id}/sincronizar-eventos: the ADN gives every event of the nota,
\* whatever the consultas have reached; the first one to change its status takes
\* the ultimo_nsu of the nota with it.
SincronizarEventos(m) ==
  LET doAdn == {e \in 1..publicado : alvo[e] = m /\ e # m} IN
  /\ m \in Importadas /\ ~(doAdn \subseteq eventos) /\ sincronizacoes < MaxSincronizacoes
  /\ sincronizacoes' = sincronizacoes + 1
  /\ eventos' = eventos \cup doAdn
  /\ canceladas' = canceladas \cup {m}
  /\ ultimoNsu' = [ultimoNsu EXCEPT ![m] = IF m \in canceladas THEN @ ELSE Min(doAdn)]
  /\ UNCHANGED <<fase, cancelado, varsCentral, varsDisco, varsMotor, varsPlano, varsLinhas,
                 interrupcoes, vazias, falhas, varsMundo>>

\* The process dies, or a call to the ADN fails for good and the job ends in
\* erro: either way what was ingested stays and nothing is confirmed.
Interromper ==
  /\ fase # "parado" /\ interrupcoes < MaxInterrupcoes
  /\ interrupcoes' = interrupcoes + 1
  /\ Parar
  /\ UNCHANGED <<varsDisco, varsBanco, varsCentral, vazias, falhas, sincronizacoes, varsMundo>>

Inicio == IniciarNoite \/ IniciarNormal \/ IniciarReleitura \/ IniciarDoUsuario
Motor == ReceberLote \/ ReceberVazio \/ GravarDocumento \/ TerminarMotor
Ingestao == LerIndice \/ IngerirIncremental \/ FalharIncremental \/ IngerirFinal \/ FalharFinal
Fecho == Confirmar \/ MarcarReconciliacao
Mundo ==
  \/ Publicar \/ AbrirJanela \/ FecharJanela
  \/ Cancelar \/ Interromper
  \/ \E m \in Nsus : SincronizarEventos(m)

Next == Inicio \/ Motor \/ Ingestao \/ Fecho \/ Mundo

Spec == Init /\ [][Next]_vars

\* The scheduler keeps creating consultas, by day and by night, a consulta under
\* way goes on, nights come and go, and some of them find the certificate idle
\* (a window lasts ten hours, a cycle of the scheduler fifteen minutes).
Justica ==
  /\ SF_vars(IniciarNoite) /\ SF_vars(IniciarNormal)
  /\ WF_vars(Motor) /\ WF_vars(IngerirFinal) /\ WF_vars(Fecho)
  /\ SF_vars(fase = "parado" /\ AbrirJanela) /\ WF_vars(FecharJanela)

FairSpec == Spec /\ Justica

-----------------------------------------------------------------------------
(* Properties                                                              *)

\* Nothing but crashes, cancellations and failed calls went wrong, and nobody
\* asked for the events of a nota.
SemFalhas == falhas = 0 /\ sincronizacoes = 0

Ingerido(n) == IF EhNota(n) THEN n \in Importadas ELSE n \in eventos

SoNotas == \A n \in 1..publicado : EhNota(n)

\* Between two consultas the next one starts at or before the first document
\* that is not in the database, so no document is left behind unseen: always
\* when no event came, and otherwise unless a consulta was interrupted.
SemLacuna ==
  fase = "parado" /\ SemFalhas /\ (SoNotas \/ interrupcoes = 0) =>
    \A n \in 1..InicioNormal : Ingerido(n)

\* An event and its nota, in whatever order and run they were ingested, leave
\* the nota cancelled.
EventoJaVale == \A e \in eventos : alvo[e] \in Importadas => alvo[e] \in canceladas

\* Every document published since the previous month enters the database in
\* the end, whatever failed: the nightly re-reading catches what the normal
\* consultas left behind.
TodoDocumentoEntra ==
  \A n \in Nsus : (n > FimAntigo /\ n <= publicado) ~> Ingerido(n)

\* ADR-0003: a crash in the middle of a job loses no document, the next job
\* reads it again.
QuedaNaoPerdeDocumento ==
  fase = "parado" /\ SemFalhas =>
    \A n \in 1..InicioNormal : EhNota(n) => Ingerido(n)
=============================================================================
