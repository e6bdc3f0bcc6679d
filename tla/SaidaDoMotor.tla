---------------------------- MODULE SaidaDoMotor ----------------------------
(***************************************************************************)
(* The files the engine leaves for the ingestion: one XML a document, the   *)
(* index with a row for each chave and the occurrences with a row for each  *)
(* NSU. Both lists are read whole, truncated and written again in place for *)
(* every document, so a crash may leave any beginning of them, and half an  *)
(* XML. One certificate; its directory is on the volume that outlives the   *)
(* process.                                                                 *)
(*                                                                         *)
(* The rows of a list are a set: they are written by first NSU, no two of   *)
(* them with the same, and so a beginning of it is what is up to some NSU.  *)
(***************************************************************************)
EXTENDS Naturals, Sequences, FiniteSets, FiniteSetsExt

CONSTANTS
  Fluxo,         \* what the ADN distributes: Fluxo[n] is the document of NSU n
  MaxConsultas, MaxQuedas, MaxTentativas  \* bounds; the last is tentativas

Nsus == 1..Len(Fluxo)

\* nome is the issuer and the number, which build_xml_filename makes a name of;
\* xml is "ausente" without ArquivoXml and "velho" before the cut-off date.
ASSUME ConstantesSaida ==
  /\ Len(Fluxo) \in Nat /\ DOMAIN Fluxo = Nsus
  /\ \A n \in Nsus : /\ DOMAIN Fluxo[n] = {"chave", "evento", "nome", "xml"}
                     /\ Fluxo[n].evento \in BOOLEAN
                     /\ Fluxo[n].xml \in {"bom", "ausente", "velho"}
  /\ MaxConsultas \in Nat /\ MaxQuedas \in Nat /\ MaxTentativas \in Nat \ {0}

VARIABLES
  arquivos,     \* xml/: the files there are, each with the document it holds
  existe,       \* index_nfse.csv is there
  indice,       \* its rows
  ocorrencias,  \* rows of ocorrencias_nsu.csv
  motor,        \* the consulta under way
  confirmado,   \* the NSU of the last consulta that ended
  ingeridos,    \* history: documents a final ingestion has read
  consultas, quedas

varsSaida == <<arquivos, existe, indice, ocorrencias, motor, confirmado, ingeridos, consultas, quedas>>

SemXml == <<>>

\* nsu is asked for, ate is the last of the lot and feito the last of it done.
MotorParado == [fase |-> "parado", consulta |-> 0, nsu |-> 0, falhas |-> 0,
                feito |-> 0, ate |-> 0, caminho |-> SemXml]

InitSaida ==
  /\ arquivos = <<>> /\ existe = FALSE /\ indice = {} /\ ocorrencias = {}
  /\ motor = MotorParado /\ confirmado = 0 /\ ingeridos = {} /\ consultas = 0 /\ quedas = 0

-----------------------------------------------------------------------------
\* resolve_xml_path: the plain name, the name with the NSU, then numbered ones,
\* of which one more than the files there are is as good as no end; the first
\* that is free or already holds this very text. (The name with the end of the
\* chave is one more candidate of the same kind.)
UsavelDefeituoso(c, n) == TRUE
Usavel(c, n) == c \in DOMAIN arquivos => arquivos[c].doc = n /\ arquivos[c].inteiro
Sufixos(n) == {0, n} \cup (Len(Fluxo) + 1)..(Len(Fluxo) + 1 + Cardinality(DOMAIN arquivos))
CaminhoXml(n) == <<Fluxo[n].nome, Min({s \in Sufixos(n) : Usavel(<<Fluxo[n].nome, s>>, n)})>>

ComArquivo(c, f) == [x \in DOMAIN arquivos \cup {c} |-> IF x = c THEN f ELSE arquivos[x]]

LinhaNova(n, c) == [chave |-> Fluxo[n].chave, evento |-> Fluxo[n].evento,
                    primeiro |-> n, caminho |-> c, de |-> consultas]

\* upsert_indexes: the row of the chave stays the nota's when an event comes.
Caminho(l, nova) ==
  IF nova.caminho # SemXml /\ ((nova.evento => l.evento) \/ l.caminho = SemXml)
  THEN nova.caminho ELSE l.caminho
LinhaAtualizadaDefeituosa(l, nova) == [l EXCEPT !.caminho = Caminho(l, nova)]
LinhaAtualizada(l, nova) == [l EXCEPT !.caminho = Caminho(l, nova), !.de = nova.de]

IndiceCom(nova) ==
  LET iguais == {l \in indice : l.chave = nova.chave}
  IN (indice \ iguais) \cup IF iguais = {} THEN {nova} ELSE {LinhaAtualizada(l, nova) : l \in iguais}

OcorrenciasCom(nova) == {o \in ocorrencias : o.primeiro # nova.primeiro} \cup {nova}

\* What a crash leaves of a list that was being written.
Comeco(linhas, k) == {l \in linhas : l.primeiro <= k}

\* _linhas_fora_do_indice: occurrences whose XML no row of the index names.
ForaDoIndice == {o \in ocorrencias : \A l \in indice : l.caminho # o.caminho}

\* What an ingestion that starts now reads: the rows this consulta touched, or
\* without an index every XML written since it began.
Lidos ==
  LET linhas == {l \in indice \cup ForaDoIndice : l.de = motor.consulta /\ l.caminho # SemXml}
      recentes == {c \in DOMAIN arquivos : arquivos[c].de = motor.consulta /\ arquivos[c].inteiro}
  IN {arquivos[c].doc : c \in IF existe THEN {l.caminho : l \in linhas} ELSE recentes}

-----------------------------------------------------------------------------
\* The start is planned from what is in the database, never past it.
IniciarMotor ==
  /\ motor.fase = "parado" /\ consultas < MaxConsultas
  /\ consultas' = consultas + 1
  /\ \E inicio \in 0..confirmado :
       motor' = [fase |-> "chamada", consulta |-> consultas + 1, nsu |-> inicio, falhas |-> 0,
                 feito |-> inicio, ate |-> inicio, caminho |-> SemXml]
  /\ UNCHANGED <<arquivos, existe, indice, ocorrencias, confirmado, ingeridos, quedas>>

ReceberDocumentos ==
  /\ motor.fase = "chamada"
  /\ \E ate \in (motor.nsu + 1)..Len(Fluxo) : motor' = [motor EXCEPT !.fase = "documento", !.ate = ate]
  /\ UNCHANGED <<arquivos, existe, indice, ocorrencias, confirmado, ingeridos, consultas, quedas>>

\* requisicao_json_com_retry: a temporary failure is tried again; a bad
\* certificate, or the last attempt, ends the consulta with no final ingestion.
FalharChamada ==
  /\ motor.fase = "chamada"
  /\ \/ motor.falhas + 1 < MaxTentativas /\ motor' = [motor EXCEPT !.falhas = @ + 1]
     \/ motor' = MotorParado
  /\ UNCHANGED <<arquivos, existe, indice, ocorrencias, confirmado, ingeridos, consultas, quedas>>

\* processar_documento: too old to be kept, or JSON and then XML.
Documento == motor.feito + 1
HaDocumento == motor.fase = "documento" /\ motor.feito < motor.ate

DescartarDocumento ==
  /\ HaDocumento /\ Fluxo[Documento].xml = "velho"
  /\ motor' = [motor EXCEPT !.feito = @ + 1]
  /\ UNCHANGED <<arquivos, existe, indice, ocorrencias, confirmado, ingeridos, consultas, quedas>>

\* save_xml_file: write_text only where there is no file, and not in one step.
ComecarXml ==
  /\ HaDocumento /\ Fluxo[Documento].xml # "velho"
  /\ LET c == IF Fluxo[Documento].xml = "ausente" THEN SemXml ELSE CaminhoXml(Documento)
         pronto == c = SemXml \/ c \in DOMAIN arquivos
     IN /\ arquivos' = IF pronto THEN arquivos
                       ELSE ComArquivo(c, [doc |-> Documento, inteiro |-> FALSE, de |-> consultas])
        /\ motor' = [motor EXCEPT !.fase = IF pronto THEN "indice" ELSE "xml", !.caminho = c]
  /\ UNCHANGED <<existe, indice, ocorrencias, confirmado, ingeridos, consultas, quedas>>

TerminarXml ==
  /\ motor.fase = "xml"
  /\ arquivos' = [arquivos EXCEPT ![motor.caminho].inteiro = TRUE]
  /\ motor' = [motor EXCEPT !.fase = "indice"]
  /\ UNCHANGED <<existe, indice, ocorrencias, confirmado, ingeridos, consultas, quedas>>

\* salvar_index_unico, then salvar_ocorrencias: each truncates its file and
\* writes it again.
LinhaDoDocumento == LinhaNova(Documento, motor.caminho)

GravarIndice ==
  /\ motor.fase = "indice"
  /\ existe' = TRUE /\ indice' = IndiceCom(LinhaDoDocumento)
  /\ motor' = [motor EXCEPT !.fase = "ocorrencias"]
  /\ UNCHANGED <<arquivos, ocorrencias, confirmado, ingeridos, consultas, quedas>>

GravarOcorrencias ==
  /\ motor.fase = "ocorrencias"
  /\ ocorrencias' = OcorrenciasCom(LinhaDoDocumento)
  /\ motor' = [motor EXCEPT !.fase = "documento", !.feito = @ + 1, !.caminho = SemXml]
  /\ UNCHANGED <<arquivos, existe, indice, confirmado, ingeridos, consultas, quedas>>

\* The NSU moves with the lot.
TerminarLote ==
  /\ motor.fase = "documento" /\ motor.feito = motor.ate
  /\ motor' = [motor EXCEPT !.fase = "chamada", !.nsu = motor.ate, !.falhas = 0]
  /\ UNCHANGED <<arquivos, existe, indice, ocorrencias, confirmado, ingeridos, consultas, quedas>>

\* No more documents, or the limit of calls: the final ingestion, then the NSU.
EncerrarMotor ==
  /\ motor.fase = "chamada"
  /\ ingeridos' = ingeridos \cup Lidos
  /\ confirmado' = Max({confirmado, motor.nsu})
  /\ motor' = MotorParado
  /\ UNCHANGED <<arquivos, existe, indice, ocorrencias, consultas, quedas>>

\* The process dies; the disk stays as it is, with a beginning of the list that
\* was being written. What the thread reads meanwhile is such a beginning too.
Morrer ==
  /\ motor.fase # "parado" /\ quedas < MaxQuedas
  /\ quedas' = quedas + 1 /\ motor' = MotorParado
  /\ UNCHANGED <<arquivos, confirmado, ingeridos, consultas>>

CairMotor == Morrer /\ UNCHANGED <<existe, indice, ocorrencias>>

CairNoIndice ==
  /\ motor.fase = "indice" /\ Morrer
  /\ existe' = TRUE
  /\ \E k \in 0..Len(Fluxo) : indice' = Comeco(IndiceCom(LinhaDoDocumento), k)
  /\ indice' # IndiceCom(LinhaDoDocumento)
  /\ UNCHANGED ocorrencias

CairNasOcorrencias ==
  /\ motor.fase = "ocorrencias" /\ Morrer
  /\ \E k \in 0..Len(Fluxo) : ocorrencias' = Comeco(OcorrenciasCom(LinhaDoDocumento), k)
  /\ ocorrencias' # OcorrenciasCom(LinhaDoDocumento)
  /\ UNCHANGED <<existe, indice>>

NextSaida ==
  \/ IniciarMotor \/ ReceberDocumentos \/ FalharChamada \/ DescartarDocumento
  \/ ComecarXml \/ TerminarXml \/ GravarIndice \/ GravarOcorrencias \/ TerminarLote
  \/ EncerrarMotor \/ CairMotor \/ CairNoIndice \/ CairNasOcorrencias

SpecSaida == InitSaida /\ [][NextSaida]_varsSaida

-----------------------------------------------------------------------------
\* Whatever a crash left of the two lists, every document with an XML up to the
\* NSU of a consulta that ended has been read by a final ingestion: also the
\* events that share the row of their nota, and the documents downloaded a
\* second time over rows that were there (upsert_indexes,
\* _linhas_fora_do_indice, the filter by atualizado_em).
NadaFicaParaTras == \A n \in 1..confirmado : Fluxo[n].xml = "bom" => n \in ingeridos

\* At whatever moment the thread reads them, the rows of both lists name whole
\* files of their own chave: the XML is written before its rows, two issuers
\* with the same name and number do not share a file, and half a file left by a
\* crash is never taken for the document (resolve_xml_path).
LinhaTemSeuXml ==
  \A l \in indice \cup ocorrencias :
     l.caminho # SemXml => /\ l.caminho \in DOMAIN arquivos
                           /\ arquivos[l.caminho].inteiro
                           /\ Fluxo[arquivos[l.caminho].doc].chave = l.chave
=============================================================================
