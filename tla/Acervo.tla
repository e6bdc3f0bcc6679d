------------------------------- MODULE Acervo -------------------------------
(***************************************************************************)
(* The storage beside the database: files of notas, of their events and of  *)
(* certificates, stored before the rows that name them commit; the          *)
(* archiving of old notas, which stores a manifest and then deletes the     *)
(* rows; and the script that deletes objects no row names. One company, one *)
(* file per nota, one certificate whose file changes name when it is        *)
(* renewed under another one.                                               *)
(***************************************************************************)
EXTENDS Naturals, FiniteSets

CONSTANTS
  Notas,
  Antigas,     \* notas before the operational year
  ArquivosPfx, \* file names of the certificate
  XmlsDeEvento, \* XMLs of events, as the portal stores them when it syncs a nota
  Execucoes,   \* requests to archive
  Parados,     \* who stands still while the orphan cleaner runs
  MaxIds       \* bound: ids of notas given out

SemArquivo == "nenhum"

ASSUME ConstantesAcervo ==
  /\ IsFiniteSet(Notas) /\ Antigas \subseteq Notas
  /\ IsFiniteSet(ArquivosPfx) /\ ArquivosPfx \cap (Notas \cup Execucoes) = {}
  /\ IsFiniteSet(XmlsDeEvento) /\ XmlsDeEvento \cap (Notas \cup Execucoes \cup ArquivosPfx \cup {SemArquivo}) = {}
  /\ IsFiniteSet(Execucoes) /\ Execucoes \cap Notas = {}
  /\ Parados \subseteq {"worker", "api"} /\ MaxIds \in Nat

VARIABLES
  notaId,       \* notas: the id of each row, 0 when there is none
  ids,          \* the last id given out
  arquivoDe,    \* arquivos: {} without a row, else the nota_id of the row, 0 for null
  certificado,  \* its row: the file it names, and ativo
  eventosXml,   \* XMLs of events that a row of arquivos and of eventos names
  objetos,      \* what the storage holds; a manifest goes by its execution
  gravando,     \* the file the worker and the API stored and did not commit
  limpeza,      \* limpar_orfaos_storage --aplicar
  execucao,     \* _executar_arquivamento_background, one for each request
  estado,       \* _arquivamento_estado.status
  manifestos,   \* manifests registered in arquivos: the notas in each
  vistas,       \* history: notas that were ever committed
  levados       \* history: objects deleted as orphans between their storing and
                \* their row, or under a row the second reading could not see, or
                \* under an inactive certificate at the operator's request

varsAcervo == <<notaId, ids, arquivoDe, certificado, eventosXml, objetos, gravando, limpeza,
                execucao, estado, manifestos, vistas, levados>>

LimpezaParada == [fase |-> "parada"]
NaoPedida == [fase |-> "livre"]

InitAcervo ==
  /\ notaId = [n \in Notas |-> 0] /\ ids = 0
  /\ arquivoDe = [n \in Notas |-> {}]
  /\ certificado = [arquivo |-> SemArquivo, ativo |-> TRUE]
  /\ eventosXml = {} /\ objetos = {}
  /\ gravando = [w \in {"worker", "api"} |-> SemArquivo]
  /\ limpeza = LimpezaParada
  /\ execucao = [e \in Execucoes |-> NaoPedida]
  /\ estado = "ocioso"
  /\ manifestos = [e \in Execucoes |-> {}]
  /\ vistas = {} /\ levados = {}

-----------------------------------------------------------------------------
Trabalha(w) == limpeza = LimpezaParada \/ w \notin Parados

\* put_bytes: of the worker (the XML and PDF of a nota), and of the API (a PFX,
\* or the XML of an event of a nota that is there).
ArquivosDe(w) ==
  IF w = "worker" THEN {n \in Notas : notaId[n] = 0}
                  ELSE ArquivosPfx \cup {x \in XmlsDeEvento : \E n \in Notas : notaId[n] # 0}

GuardarArquivo(w) ==
  /\ Trabalha(w) /\ gravando[w] = SemArquivo
  /\ \E k \in ArquivosDe(w) :
       /\ objetos' = objetos \cup {k}
       /\ gravando' = [gravando EXCEPT ![w] = k]
       /\ levados' = levados \ {k}
  /\ UNCHANGED <<notaId, ids, arquivoDe, certificado, eventosXml, limpeza, execucao, estado, manifestos, vistas>>

\* upsert_nota_by_chave and create_arquivo_if_missing, which gives the nota
\* back the file it left loose when it was archived.
GravarNotaEArquivo ==
  LET n == gravando["worker"] IN
  /\ n # SemArquivo /\ Trabalha("worker") /\ ids < MaxIds
  /\ ids' = ids + 1
  /\ notaId' = [notaId EXCEPT ![n] = ids + 1]
  /\ arquivoDe' = [arquivoDe EXCEPT ![n] = IF @ \subseteq {0} THEN {ids + 1} ELSE @]
  /\ vistas' = vistas \cup {n}
  /\ gravando' = [gravando EXCEPT !["worker"] = SemArquivo]
  /\ UNCHANGED <<certificado, eventosXml, objetos, limpeza, execucao, estado, manifestos, levados>>

\* What the cleaner cannot have seen: a row that came to use k after its second
\* reading (history, kept in limpeza).
VistoTarde(k) == IF limpeza.fase = "apagando" THEN [limpeza EXCEPT !.tarde = @ \cup {k}] ELSE limpeza

\* The row of the certificate follows its new file; the former one is left.
GravarCertificado ==
  LET p == gravando["api"] IN
  /\ p \in ArquivosPfx /\ Trabalha("api")
  /\ \E a \in BOOLEAN : certificado' = [arquivo |-> p, ativo |-> a]
  /\ gravando' = [gravando EXCEPT !["api"] = SemArquivo]
  /\ limpeza' = VistoTarde(p)
  /\ UNCHANGED <<notaId, ids, arquivoDe, eventosXml, objetos, execucao, estado, manifestos, vistas, levados>>

\* The rows of arquivos and eventos, at the end of sincronizar_eventos_nota.
RegistrarEvento ==
  LET x == gravando["api"] IN
  /\ x \in XmlsDeEvento /\ Trabalha("api")
  /\ eventosXml' = eventosXml \cup {x}
  /\ gravando' = [gravando EXCEPT !["api"] = SemArquivo]
  /\ limpeza' = VistoTarde(x)
  /\ UNCHANGED <<notaId, ids, arquivoDe, certificado, objetos, execucao, estado, manifestos, vistas, levados>>

\* A rollback or a crash leaves an orphan (FIND-L02).
PerderGravacao(w) ==
  /\ gravando[w] # SemArquivo
  /\ gravando' = [gravando EXCEPT ![w] = SemArquivo]
  /\ UNCHANGED <<notaId, ids, arquivoDe, certificado, eventosXml, objetos, limpeza, execucao, estado, manifestos, vistas, levados>>

AlternarCertificado ==
  /\ certificado.arquivo # SemArquivo /\ Trabalha("api")
  /\ certificado' = [certificado EXCEPT !.ativo = ~@]
  /\ limpeza' = IF certificado.ativo THEN limpeza ELSE VistoTarde(certificado.arquivo)
  /\ UNCHANGED <<notaId, ids, arquivoDe, eventosXml, objetos, gravando, execucao, estado, manifestos, vistas, levados>>

-----------------------------------------------------------------------------
\* _chaves_em_uso.
ChavesEmUso(pfxInativos) ==
  {n \in Notas : arquivoDe[n] # {} \/ notaId[n] # 0} \cup eventosXml
    \cup IF certificado.ativo \/ ~pfxInativos THEN {certificado.arquivo} \ {SemArquivo} ELSE {}

\* PREFIXOS: the manifests, under backups/, are not looked at.
VarridosDefeituoso == objetos
Varridos == objetos \ Execucoes

\* The script starts with those it stops already still.
LerChaves ==
  /\ limpeza = LimpezaParada
  /\ \A w \in Parados : gravando[w] = SemArquivo
  /\ \E inativos \in BOOLEAN :
       limpeza' = [fase |-> "lida", inativos |-> inativos, usadas |-> ChavesEmUso(inativos)]
  /\ UNCHANGED <<notaId, ids, arquivoDe, certificado, eventosXml, objetos, gravando, execucao, estado, manifestos, vistas, levados>>

ListarOrfaos ==
  /\ limpeza.fase = "lida"
  /\ limpeza' = [fase |-> "listada", inativos |-> limpeza.inativos, orfaos |-> Varridos \ limpeza.usadas]
  /\ UNCHANGED <<notaId, ids, arquivoDe, certificado, eventosXml, objetos, gravando, execucao, estado, manifestos, vistas, levados>>

\* The second reading, once for all of them.
ConferirOrfaosDefeituoso ==
  /\ limpeza.fase = "listada"
  /\ limpeza' = [fase |-> "apagando", inativos |-> limpeza.inativos, tarde |-> {}, orfaos |-> limpeza.orfaos]
  /\ UNCHANGED <<notaId, ids, arquivoDe, certificado, eventosXml, objetos, gravando, execucao, estado, manifestos, vistas, levados>>
ConferirOrfaos ==
  /\ limpeza.fase = "listada"
  /\ limpeza' = [fase |-> "apagando", inativos |-> limpeza.inativos, tarde |-> {},
                 orfaos |-> limpeza.orfaos \ ChavesEmUso(limpeza.inativos)]
  /\ UNCHANGED <<notaId, ids, arquivoDe, certificado, eventosXml, objetos, gravando, execucao, estado, manifestos, vistas, levados>>

ForaDaVista(k) ==
  \/ gravando["api"] = k
  \/ k \in limpeza.tarde
  \/ limpeza.inativos /\ ~certificado.ativo /\ certificado.arquivo = k

ApagarOrfao ==
  /\ limpeza.fase = "apagando"
  /\ \E k \in limpeza.orfaos :
       /\ objetos' = objetos \ {k}
       /\ limpeza' = [limpeza EXCEPT !.orfaos = @ \ {k}]
       /\ levados' = IF ForaDaVista(k) THEN levados \cup {k} ELSE levados
  /\ UNCHANGED <<notaId, ids, arquivoDe, certificado, eventosXml, gravando, execucao, estado, manifestos, vistas>>

\* At the end of the list, or when the script is stopped.
EncerrarLimpeza ==
  /\ limpeza # LimpezaParada
  /\ limpeza' = LimpezaParada
  /\ UNCHANGED <<notaId, ids, arquivoDe, certificado, eventosXml, objetos, gravando, execucao, estado, manifestos, vistas, levados>>

-----------------------------------------------------------------------------
\* POST /admin/arquivamento: refused while one executes, not while one waits.
PedirArquivamento(e) ==
  /\ execucao[e] = NaoPedida /\ estado # "executando"
  /\ estado' = "agendado"
  /\ execucao' = [execucao EXCEPT ![e] = [fase |-> "agendada"]]
  /\ UNCHANGED <<notaId, ids, arquivoDe, certificado, eventosXml, objetos, gravando, limpeza, manifestos, vistas, levados>>

\* The notas, as ids; with none there is nothing to do.
LerNotasAntigas(e) ==
  LET lidas == {n \in Antigas : notaId[n] # 0} IN
  /\ execucao[e].fase = "agendada"
  /\ IF lidas = {}
       THEN execucao' = [execucao EXCEPT ![e] = [fase |-> "feita"]] /\ estado' = "finalizado"
       ELSE /\ execucao' = [execucao EXCEPT ![e] =
                 [fase |-> "lida", notas |-> lidas, ids |-> {notaId[n] : n \in lidas}]]
            /\ estado' = "executando"
  /\ UNCHANGED <<notaId, ids, arquivoDe, certificado, eventosXml, objetos, gravando, limpeza, manifestos, vistas, levados>>

GuardarManifesto(e) ==
  /\ execucao[e].fase = "lida"
  /\ objetos' = objetos \cup {e}
  /\ execucao' = [execucao EXCEPT ![e].fase = "guardada"]
  /\ UNCHANGED <<notaId, ids, arquivoDe, certificado, eventosXml, gravando, limpeza, estado, manifestos, vistas, levados>>

\* One transaction registers the manifest, lets go of the files and deletes
\* the rows that were read; a nota imported again meanwhile has another id.
Excluidas(e) == {n \in Notas : notaId[n] \in execucao[e].ids}

ExcluirNotas(e) ==
  /\ execucao[e].fase = "guardada"
  /\ manifestos' = [manifestos EXCEPT ![e] = execucao[e].notas]
  /\ notaId' = [n \in Notas |-> IF n \in Excluidas(e) THEN 0 ELSE notaId[n]]
  /\ arquivoDe' = [n \in Notas |-> IF arquivoDe[n] \cap execucao[e].ids # {} THEN {0} ELSE arquivoDe[n]]
  /\ execucao' = [execucao EXCEPT ![e] = [fase |-> "feita"]]
  /\ estado' = "finalizado"
  /\ UNCHANGED <<ids, certificado, eventosXml, objetos, gravando, limpeza, vistas, levados>>

\* The storage does not answer or confirm, or the database refuses.
FalharArquivamento(e) ==
  /\ execucao[e].fase \in {"lida", "guardada"}
  /\ execucao' = [execucao EXCEPT ![e] = [fase |-> "feita"]]
  /\ estado' = "erro"
  /\ UNCHANGED <<notaId, ids, arquivoDe, certificado, eventosXml, objetos, gravando, limpeza, manifestos, vistas, levados>>

\* The portal restarts: what it was doing is gone, the state too.
ReiniciarPortal ==
  /\ estado # "ocioso"
  /\ estado' = "ocioso"
  /\ execucao' = [e \in Execucoes |-> IF execucao[e] = NaoPedida THEN NaoPedida ELSE [fase |-> "feita"]]
  /\ gravando' = [w \in {"worker", "api"} |-> SemArquivo]
  /\ UNCHANGED <<notaId, ids, arquivoDe, certificado, eventosXml, objetos, limpeza, manifestos, vistas, levados>>

NextAcervo ==
  \/ \E w \in {"worker", "api"} : GuardarArquivo(w) \/ PerderGravacao(w)
  \/ GravarNotaEArquivo \/ GravarCertificado \/ RegistrarEvento \/ AlternarCertificado
  \/ LerChaves \/ ListarOrfaos \/ ConferirOrfaos \/ ApagarOrfao \/ EncerrarLimpeza
  \/ \E e \in Execucoes :
       \/ PedirArquivamento(e) \/ LerNotasAntigas(e) \/ GuardarManifesto(e)
       \/ ExcluirNotas(e) \/ FalharArquivamento(e)
  \/ ReiniciarPortal

SpecAcervo == InitAcervo /\ [][NextAcervo]_varsAcervo

-----------------------------------------------------------------------------
\* A file that a committed row names is in the storage, whatever was archived,
\* imported again or left half done, and whatever the cleaner deletes with the
\* worker stopped, as its instructions ask. The portal goes on meanwhile: of
\* what it stores (a PFX, the XML of an event), only a file deleted before its
\* row was committed, or whose row the second reading came too early to see,
\* may be missing; and a PFX whose certificate was inactive, when the operator
\* asked for those.
ReferenciaTemObjeto ==
  /\ {n \in Notas : arquivoDe[n] # {} \/ notaId[n] # 0} \subseteq objetos
  /\ eventosXml \subseteq objetos \cup levados
  /\ {certificado.arquivo} \ {SemArquivo} \subseteq objetos \cup levados

\* limpar_orfaos_storage deletes files that no record uses, and every key is
\* checked again in the database before: what it deletes no row names then.
\* With the portal working beside it, a row may come between the two.
SoApagaSemRegistro ==
  [][\A k \in objetos \ objetos' : k \notin ChavesEmUso(limpeza.inativos)]_varsAcervo

\* A nota that was ever committed is in the database, or in a manifest that is
\* registered and stored; and its file, which the manifest names, is there.
NotaSempreAchavel ==
  \A n \in vistas :
    /\ notaId[n] # 0 \/ \E e \in Execucoes : n \in manifestos[e] /\ e \in objetos
    /\ n \in objetos
=============================================================================
