---------------------------- MODULE AcervoProofs ----------------------------
(***************************************************************************)
(* Proofs about the files beside the database: the storage of the portal    *)
(* (Acervo), for any number of notas, files, requests to archive and ids,   *)
(* and the directory of the engine (SaidaDoMotor), for any stream of        *)
(* documents, consultas and crashes.                                        *)
(***************************************************************************)
EXTENDS Acervo, SaidaDoMotor, Ordem

-----------------------------------------------------------------------------
(* The storage.  The two safety theorems are about the orphan cleaner run   *)
(* as its instructions say, with the worker stopped (Instrucoes); the       *)
(* portal may go on beside it, storing certificates and events of notas,    *)
(* the archiving goes on too, and any number of requests to archive         *)
(* overlap.                                                                 *)

\* limpar_orfaos_storage.py:11: stop the worker first.
Instrucoes == "worker" \in Parados

NomesDeObjetos == Notas \cup ArquivosPfx \cup XmlsDeEvento \cup Execucoes

LimpezaTipos ==
  [fase : {"parada"}]
    \cup [fase : {"lida"}, inativos : BOOLEAN, usadas : SUBSET (NomesDeObjetos \cup {SemArquivo})]
    \cup [fase : {"listada"}, inativos : BOOLEAN, orfaos : SUBSET NomesDeObjetos]
    \cup [fase : {"apagando"}, inativos : BOOLEAN, orfaos : SUBSET NomesDeObjetos,
          tarde : SUBSET (NomesDeObjetos \cup {SemArquivo})]

ExecucaoTipos ==
  [fase : {"livre", "agendada", "feita"}]
    \cup [fase : {"lida", "guardada"}, notas : SUBSET Notas, ids : SUBSET Nat]

TiposAcervo ==
  /\ notaId \in [Notas -> Nat] /\ ids \in Nat
  /\ arquivoDe \in [Notas -> SUBSET Nat]
  /\ certificado \in [arquivo : ArquivosPfx \cup {SemArquivo}, ativo : BOOLEAN]
  /\ eventosXml \subseteq XmlsDeEvento
  /\ objetos \subseteq NomesDeObjetos
  /\ gravando \in [{"worker", "api"} -> NomesDeObjetos \cup {SemArquivo}]
  /\ gravando["worker"] \in Notas \cup {SemArquivo}
  /\ gravando["api"] \in ArquivosPfx \cup XmlsDeEvento \cup {SemArquivo}
  /\ limpeza \in LimpezaTipos
  /\ execucao \in [Execucoes -> ExecucaoTipos]
  /\ manifestos \in [Execucoes -> SUBSET Notas]
  /\ vistas \subseteq Notas

\* Who has a row was committed once, and whoever was committed keeps a row in
\* arquivos; an id names one nota for ever.
LinhasDasNotas ==
  /\ \A n \in Notas : notaId[n] # 0 => n \in vistas
  /\ \A n \in Notas : arquivoDe[n] # {} <=> n \in vistas
  /\ \A n \in Notas : notaId[n] <= ids
  /\ \A n, m \in Notas : notaId[n] = notaId[m] /\ notaId[n] # 0 => n = m

\* What an execution read: ids of its notas, none of them given out since.
LidasDaExecucao ==
  \A e \in Execucoes : execucao[e].fase \in {"lida", "guardada"} =>
    /\ \A i \in execucao[e].ids : i # 0 /\ i <= ids
    /\ \A n \in Notas : notaId[n] \in execucao[e].ids => n \in execucao[e].notas

\* An execution registers its manifest once, at its end, after storing it.
ManifestoGuardado ==
  \A e \in Execucoes :
    /\ execucao[e].fase # "feita" => manifestos[e] = {}
    /\ execucao[e].fase = "guardada" => e \in objetos
    /\ manifestos[e] # {} => e \in objetos

NotasAchaveis ==
  \A n \in vistas : notaId[n] # 0 \/ \E e \in Execucoes : n \in manifestos[e]

\* What a commit will name is stored, the XML of a nota with no cleaner about;
\* what the API stored the cleaner may have deleted since.
GravandoGuardado ==
  /\ gravando["worker"] # SemArquivo => gravando["worker"] \in objetos /\ limpeza.fase = "parada"
  /\ gravando["api"] # SemArquivo => gravando["api"] \in objetos \cup levados

\* The cleaner never lists a manifest. What it is deleting nobody names, except
\* by a row that came after its second reading, or under an inactive
\* certificate when those were asked for.
OrfaosSemUso ==
  /\ limpeza.fase \in {"listada", "apagando"} => limpeza.orfaos \cap Execucoes = {}
  /\ limpeza.fase = "apagando" =>
       /\ limpeza.orfaos \cap vistas = {}
       /\ limpeza.orfaos \cap eventosXml \subseteq limpeza.tarde
       /\ certificado.arquivo # SemArquivo /\ certificado.arquivo \in limpeza.orfaos =>
            certificado.arquivo \in limpeza.tarde \/ (limpeza.inativos /\ ~certificado.ativo)

ObjetosNomeados ==
  /\ vistas \subseteq objetos
  /\ eventosXml \subseteq objetos \cup levados
  /\ certificado.arquivo # SemArquivo => certificado.arquivo \in objetos \cup levados

InvAcervo ==
  /\ TiposAcervo /\ LinhasDasNotas /\ LidasDaExecucao /\ ManifestoGuardado
  /\ NotasAchaveis /\ GravandoGuardado /\ OrfaosSemUso /\ ObjetosNomeados


-----------------------------------------------------------------------------
(* The worker and the API.                                                  *)

\* While the cleaner is not parada, the worker stands still.
LEMMA SoComLimpezaParada ==
  ASSUME Instrucoes, Trabalha("worker")
  PROVE  limpeza = LimpezaParada /\ limpeza.fase = "parada"
BY DEF Instrucoes, Trabalha, LimpezaParada

\* Storing a file names nothing yet.
LEMMA GuardarArquivoPreserva ==
  ASSUME Instrucoes, InvAcervo, NEW w \in {"worker", "api"}, GuardarArquivo(w)
  PROVE  InvAcervo'
<1>1. w = "worker" => limpeza.fase = "parada"
  BY SoComLimpezaParada DEF GuardarArquivo
<1>2. PICK k \in ArquivosDe(w) :
        /\ objetos' = objetos \cup {k} /\ gravando' = [gravando EXCEPT ![w] = k]
        /\ levados' = levados \ {k}
  BY DEF GuardarArquivo
<1>3. UNCHANGED <<notaId, ids, arquivoDe, certificado, eventosXml, limpeza, execucao, estado, manifestos, vistas>>
  BY DEF GuardarArquivo
<1>4. k \in NomesDeObjetos
  BY <1>2 DEF NomesDeObjetos, ArquivosDe
<1>5. TiposAcervo'
  <2>1. /\ objetos' \subseteq NomesDeObjetos
        /\ gravando' \in [{"worker", "api"} -> NomesDeObjetos \cup {SemArquivo}]
    BY <1>2, <1>4 DEF InvAcervo, TiposAcervo
  <2>2. /\ gravando'["worker"] \in Notas \cup {SemArquivo}
        /\ gravando'["api"] \in ArquivosPfx \cup XmlsDeEvento \cup {SemArquivo}
    BY <1>2 DEF InvAcervo, TiposAcervo, ArquivosDe
  <2> QED BY <1>3, <2>1, <2>2 DEF InvAcervo, TiposAcervo
<1>6. GravandoGuardado'
  BY <1>1, <1>2, <1>3 DEF InvAcervo, TiposAcervo, GravandoGuardado
<1>7. LinhasDasNotas' /\ LidasDaExecucao' /\ NotasAchaveis' /\ OrfaosSemUso'
  BY <1>3 DEF InvAcervo, LinhasDasNotas, LidasDaExecucao, NotasAchaveis, OrfaosSemUso
<1>8. ManifestoGuardado' /\ ObjetosNomeados'
  BY <1>2, <1>3 DEF InvAcervo, ManifestoGuardado, ObjetosNomeados
<1> QED BY <1>5, <1>6, <1>7, <1>8 DEF InvAcervo

\* A nota enters under a new id, with its file.
LEMMA GravarNotaEArquivoPreserva ==
  ASSUME Instrucoes, InvAcervo, GravarNotaEArquivo
  PROVE  InvAcervo'
<1> DEFINE n == gravando["worker"]
<1>1. limpeza.fase = "parada"
  BY SoComLimpezaParada DEF GravarNotaEArquivo
<1>2. /\ n # SemArquivo
      /\ ids' = ids + 1
      /\ notaId' = [notaId EXCEPT ![n] = ids + 1]
      /\ arquivoDe' = [arquivoDe EXCEPT ![n] = IF @ \subseteq {0} THEN {ids + 1} ELSE @]
      /\ vistas' = vistas \cup {n}
      /\ gravando' = [gravando EXCEPT !["worker"] = SemArquivo]
      /\ UNCHANGED <<certificado, eventosXml, objetos, limpeza, execucao, estado, manifestos, levados>>
  BY DEF GravarNotaEArquivo
<1>3. n \in Notas /\ n \in objetos /\ ids \in Nat
  BY <1>2 DEF InvAcervo, TiposAcervo, GravandoGuardado
<1>4. TiposAcervo'
  <2>1. arquivoDe' \in [Notas -> SUBSET Nat]
    <3> DEFINE a == IF arquivoDe[n] \subseteq {0} THEN {ids + 1} ELSE arquivoDe[n]
    <3>1. arquivoDe \in [Notas -> SUBSET Nat]
      BY DEF InvAcervo, TiposAcervo
    <3>2. arquivoDe' = [arquivoDe EXCEPT ![n] = a]
      BY <1>2
    <3>3. a \in SUBSET Nat
      BY <1>3, <3>1
    <3> HIDE DEF a, n
    <3> QED BY <3>1, <3>2, <3>3
  <2>2. notaId' \in [Notas -> Nat] /\ ids' \in Nat /\ vistas' \subseteq Notas
    BY <1>2, <1>3 DEF InvAcervo, TiposAcervo
  <2>3. /\ gravando' \in [{"worker", "api"} -> NomesDeObjetos \cup {SemArquivo}]
        /\ gravando'["worker"] = SemArquivo /\ gravando'["api"] = gravando["api"]
    BY <1>2 DEF InvAcervo, TiposAcervo
  <2> QED BY <1>2, <2>1, <2>2, <2>3 DEF InvAcervo, TiposAcervo
<1> HIDE DEF n
<1>5. /\ notaId'[n] = ids + 1 /\ \A m \in Notas \ {n} : notaId'[m] = notaId[m]
      /\ arquivoDe'[n] # {} /\ \A m \in Notas \ {n} : arquivoDe'[m] = arquivoDe[m]
  BY <1>2, <1>3 DEF InvAcervo, TiposAcervo
<1>6. LinhasDasNotas'
  <2>1. /\ \A m \in Notas : notaId'[m] # 0 => m \in vistas'
        /\ \A m \in Notas : arquivoDe'[m] # {} <=> m \in vistas'
    BY <1>2, <1>3, <1>5 DEF InvAcervo, LinhasDasNotas
  <2>2. \A m \in Notas : notaId[m] \in Nat /\ notaId[m] <= ids
    BY DEF InvAcervo, TiposAcervo, LinhasDasNotas
  <2>3. \A m \in Notas : notaId'[m] <= ids'
    BY <1>2, <1>3, <1>5, <2>2
  <2>4. \A m, o \in Notas : notaId'[m] = notaId'[o] /\ notaId'[m] # 0 => m = o
    BY <1>2, <1>3, <1>5, <2>2 DEF InvAcervo, LinhasDasNotas
  <2> QED BY <2>1, <2>3, <2>4 DEF LinhasDasNotas
<1>7. LidasDaExecucao'
  <2> SUFFICES ASSUME NEW e \in Execucoes, execucao[e].fase \in {"lida", "guardada"}
               PROVE  /\ \A i \in execucao[e].ids : i # 0 /\ i <= ids'
                      /\ \A m \in Notas : notaId'[m] \in execucao[e].ids => m \in execucao[e].notas
    BY <1>2 DEF LidasDaExecucao
  <2>1. /\ \A i \in execucao[e].ids : i # 0 /\ i <= ids
        /\ \A m \in Notas : notaId[m] \in execucao[e].ids => m \in execucao[e].notas
    BY DEF InvAcervo, LidasDaExecucao
  <2>2. execucao[e].ids \subseteq Nat
    BY DEF InvAcervo, TiposAcervo, ExecucaoTipos
  <2>3. \A i \in execucao[e].ids : i <= ids' /\ i # ids + 1
    BY <1>2, <1>3, <2>1, <2>2
  <2> QED BY <1>3, <1>5, <2>1, <2>3
<1>8. NotasAchaveis'
  <2> SUFFICES ASSUME NEW m \in vistas'
               PROVE  notaId'[m] # 0 \/ \E e \in Execucoes : m \in manifestos[e]
    BY <1>2 DEF NotasAchaveis
  <2>1. CASE m = n
    BY <1>3, <1>5, <2>1
  <2>2. CASE m # n
    BY <1>2, <1>5, <2>2 DEF InvAcervo, TiposAcervo, NotasAchaveis
  <2> QED BY <2>1, <2>2
<1>9. GravandoGuardado'
  BY <1>1, <1>2 DEF InvAcervo, TiposAcervo, GravandoGuardado
<1>10. OrfaosSemUso'
  BY <1>1, <1>2 DEF OrfaosSemUso
<1>11. ManifestoGuardado' /\ ObjetosNomeados'
  BY <1>2, <1>3 DEF InvAcervo, ManifestoGuardado, ObjetosNomeados
<1> QED BY <1>4, <1>6, <1>7, <1>8, <1>9, <1>10, <1>11 DEF InvAcervo

\* What the cleaner notes of a row it cannot have seen leaves the rest of what
\* it knows as it is.
LEMMA VistoTardeMantem ==
  ASSUME InvAcervo, NEW k \in ArquivosPfx \cup XmlsDeEvento \cup {SemArquivo}, limpeza' = VistoTarde(k)
  PROVE  /\ limpeza' \in LimpezaTipos /\ limpeza'.fase = limpeza.fase
         /\ limpeza.fase \in {"listada", "apagando"} => limpeza'.orfaos = limpeza.orfaos
         /\ limpeza.fase = "apagando" =>
              limpeza'.inativos = limpeza.inativos /\ limpeza'.tarde = limpeza.tarde \cup {k}
<1>1. limpeza \in LimpezaTipos
  BY DEF InvAcervo, TiposAcervo
<1>2. CASE limpeza.fase # "apagando"
  BY <1>1, <1>2 DEF VistoTarde
<1>3. CASE limpeza.fase = "apagando"
  <2>1. limpeza \in [fase : {"apagando"}, inativos : BOOLEAN, orfaos : SUBSET NomesDeObjetos,
                     tarde : SUBSET (NomesDeObjetos \cup {SemArquivo})]
    BY <1>1, <1>3 DEF LimpezaTipos
  <2>2. limpeza' = [limpeza EXCEPT !.tarde = @ \cup {k}]
    BY <1>3 DEF VistoTarde
  <2>3. limpeza.tarde \cup {k} \in SUBSET (NomesDeObjetos \cup {SemArquivo})
    BY <2>1 DEF NomesDeObjetos
  <2>4. /\ limpeza'.fase = "apagando" /\ limpeza'.orfaos = limpeza.orfaos
        /\ limpeza'.inativos = limpeza.inativos /\ limpeza'.tarde = limpeza.tarde \cup {k}
    BY <2>1, <2>2
  <2>5. limpeza' \in [fase : {"apagando"}, inativos : BOOLEAN, orfaos : SUBSET NomesDeObjetos,
                      tarde : SUBSET (NomesDeObjetos \cup {SemArquivo})]
    BY <2>1, <2>2, <2>3
  <2> QED BY <1>3, <2>4, <2>5 DEF LimpezaTipos
<1> QED BY <1>2, <1>3

\* The certificate comes to name a file that was stored; the cleaner may have
\* taken it since.
LEMMA GravarCertificadoPreserva ==
  ASSUME InvAcervo, GravarCertificado
  PROVE  InvAcervo'
<1> DEFINE p == gravando["api"]
<1>1. PICK a \in BOOLEAN : certificado' = [arquivo |-> p, ativo |-> a]
  BY DEF GravarCertificado
<1>2. /\ p \in ArquivosPfx
      /\ gravando' = [gravando EXCEPT !["api"] = SemArquivo]
      /\ limpeza' = VistoTarde(p)
      /\ UNCHANGED <<notaId, ids, arquivoDe, eventosXml, objetos, execucao, estado, manifestos, vistas, levados>>
  BY DEF GravarCertificado
<1>3. p # SemArquivo => p \in objetos \cup levados
  BY DEF InvAcervo, GravandoGuardado
<1>4. /\ certificado' \in [arquivo : ArquivosPfx \cup {SemArquivo}, ativo : BOOLEAN]
      /\ certificado'.arquivo = p
  BY <1>1, <1>2
<1>5. /\ limpeza' \in LimpezaTipos /\ limpeza'.fase = limpeza.fase
      /\ limpeza.fase \in {"listada", "apagando"} => limpeza'.orfaos = limpeza.orfaos
      /\ limpeza.fase = "apagando" =>
           limpeza'.inativos = limpeza.inativos /\ limpeza'.tarde = limpeza.tarde \cup {p}
  BY <1>2, VistoTardeMantem
<1>6. TiposAcervo'
  <2>1. /\ gravando' \in [{"worker", "api"} -> NomesDeObjetos \cup {SemArquivo}]
        /\ gravando'["api"] = SemArquivo /\ gravando'["worker"] = gravando["worker"]
    BY <1>2 DEF InvAcervo, TiposAcervo
  <2> QED BY <1>2, <1>4, <1>5, <2>1 DEF InvAcervo, TiposAcervo
<1>7. GravandoGuardado'
  BY <1>2, <1>5 DEF InvAcervo, TiposAcervo, GravandoGuardado
<1>8. LinhasDasNotas' /\ LidasDaExecucao' /\ NotasAchaveis' /\ ManifestoGuardado'
  BY <1>2 DEF InvAcervo, LinhasDasNotas, LidasDaExecucao, NotasAchaveis, ManifestoGuardado
<1>9. OrfaosSemUso'
  BY <1>2, <1>4, <1>5 DEF InvAcervo, OrfaosSemUso
<1>10. ObjetosNomeados'
  BY <1>2, <1>3, <1>4 DEF InvAcervo, ObjetosNomeados
<1> QED BY <1>6, <1>7, <1>8, <1>9, <1>10 DEF InvAcervo

\* The rows of an event come to name its XML in the same way.
LEMMA RegistrarEventoPreserva ==
  ASSUME InvAcervo, RegistrarEvento
  PROVE  InvAcervo'
<1> DEFINE x == gravando["api"]
<1>1. /\ x \in XmlsDeEvento /\ eventosXml' = eventosXml \cup {x}
      /\ gravando' = [gravando EXCEPT !["api"] = SemArquivo]
      /\ limpeza' = VistoTarde(x)
      /\ UNCHANGED <<notaId, ids, arquivoDe, certificado, objetos, execucao, estado, manifestos, vistas, levados>>
  BY DEF RegistrarEvento
<1>2. x # SemArquivo => x \in objetos \cup levados
  BY DEF InvAcervo, GravandoGuardado
<1>3. /\ limpeza' \in LimpezaTipos /\ limpeza'.fase = limpeza.fase
      /\ limpeza.fase \in {"listada", "apagando"} => limpeza'.orfaos = limpeza.orfaos
      /\ limpeza.fase = "apagando" =>
           limpeza'.inativos = limpeza.inativos /\ limpeza'.tarde = limpeza.tarde \cup {x}
  BY <1>1, VistoTardeMantem
<1>4. TiposAcervo'
  <2>1. /\ gravando' \in [{"worker", "api"} -> NomesDeObjetos \cup {SemArquivo}]
        /\ gravando'["api"] = SemArquivo /\ gravando'["worker"] = gravando["worker"]
    BY <1>1 DEF InvAcervo, TiposAcervo
  <2> QED BY <1>1, <1>3, <2>1 DEF InvAcervo, TiposAcervo
<1>5. GravandoGuardado'
  BY <1>1, <1>3 DEF InvAcervo, TiposAcervo, GravandoGuardado
<1>6. LinhasDasNotas' /\ LidasDaExecucao' /\ NotasAchaveis' /\ ManifestoGuardado'
  BY <1>1 DEF InvAcervo, LinhasDasNotas, LidasDaExecucao, NotasAchaveis, ManifestoGuardado
<1>7. OrfaosSemUso'
  BY <1>1, <1>3 DEF InvAcervo, OrfaosSemUso
<1>8. ObjetosNomeados'
  <2>1. x \in objetos \cup levados
    BY <1>1, <1>2, ConstantesAcervo
  <2> QED BY <1>1, <2>1 DEF InvAcervo, ObjetosNomeados
<1> QED BY <1>4, <1>5, <1>6, <1>7, <1>8 DEF InvAcervo

\* A rollback leaves an orphan and nothing else.
LEMMA PerderGravacaoPreserva ==
  ASSUME InvAcervo, NEW w \in {"worker", "api"}, PerderGravacao(w)
  PROVE  InvAcervo'
<1>1. /\ gravando' = [gravando EXCEPT ![w] = SemArquivo]
      /\ UNCHANGED <<notaId, ids, arquivoDe, certificado, eventosXml, objetos, limpeza, execucao, estado, manifestos, vistas, levados>>
  BY DEF PerderGravacao
<1>2. TiposAcervo' /\ GravandoGuardado'
  BY <1>1 DEF InvAcervo, TiposAcervo, GravandoGuardado
<1>3. LinhasDasNotas' /\ LidasDaExecucao' /\ NotasAchaveis' /\ ManifestoGuardado'
  BY <1>1 DEF InvAcervo, LinhasDasNotas, LidasDaExecucao, NotasAchaveis, ManifestoGuardado
<1>4. OrfaosSemUso' /\ ObjetosNomeados'
  BY <1>1 DEF InvAcervo, OrfaosSemUso, ObjetosNomeados
<1> QED BY <1>2, <1>3, <1>4 DEF InvAcervo

\* A certificate that is switched on may be one the cleaner is deleting: the
\* history notes it. One that is switched off was noted when it was named.
LEMMA AlternarCertificadoPreserva ==
  ASSUME InvAcervo, AlternarCertificado
  PROVE  InvAcervo'
<1>1. /\ certificado.arquivo \in ArquivosPfx \cup {SemArquivo}
      /\ UNCHANGED <<notaId, ids, arquivoDe, eventosXml, objetos, gravando, execucao, estado, manifestos,
                     vistas, levados>>
  BY DEF AlternarCertificado, InvAcervo, TiposAcervo
<1>2. /\ certificado' \in [arquivo : ArquivosPfx \cup {SemArquivo}, ativo : BOOLEAN]
      /\ certificado'.arquivo = certificado.arquivo
  <2> DEFINE b == ~certificado.ativo
  <2>1. certificado' = [certificado EXCEPT !.ativo = b]
    BY DEF AlternarCertificado
  <2>2. b \in BOOLEAN
    OBVIOUS
  <2> HIDE DEF b
  <2> QED BY <2>1, <2>2 DEF InvAcervo, TiposAcervo
<1>3. CASE certificado.ativo
  <2>1. limpeza' = limpeza
    BY <1>3 DEF AlternarCertificado
  <2>2. TiposAcervo' /\ GravandoGuardado'
    BY <1>1, <1>2, <2>1 DEF InvAcervo, TiposAcervo, GravandoGuardado
  <2>3. OrfaosSemUso'
    BY <1>1, <1>2, <1>3, <2>1 DEF InvAcervo, OrfaosSemUso
  <2>4. LinhasDasNotas' /\ LidasDaExecucao' /\ NotasAchaveis' /\ ManifestoGuardado' /\ ObjetosNomeados'
    BY <1>1, <1>2 DEF InvAcervo, LinhasDasNotas, LidasDaExecucao, NotasAchaveis, ManifestoGuardado,
                      ObjetosNomeados
  <2> QED BY <2>2, <2>3, <2>4 DEF InvAcervo
<1>4. CASE ~certificado.ativo
  <2>1. limpeza' = VistoTarde(certificado.arquivo)
    BY <1>4 DEF AlternarCertificado
  <2>2. /\ limpeza' \in LimpezaTipos /\ limpeza'.fase = limpeza.fase
        /\ limpeza.fase \in {"listada", "apagando"} => limpeza'.orfaos = limpeza.orfaos
        /\ limpeza.fase = "apagando" =>
             /\ limpeza'.inativos = limpeza.inativos
             /\ limpeza'.tarde = limpeza.tarde \cup {certificado.arquivo}
    BY <1>1, <2>1, VistoTardeMantem
  <2>3. TiposAcervo' /\ GravandoGuardado'
    BY <1>1, <1>2, <2>2 DEF InvAcervo, TiposAcervo, GravandoGuardado
  <2>4. OrfaosSemUso'
    BY <1>1, <1>2, <2>2 DEF InvAcervo, OrfaosSemUso
  <2>5. LinhasDasNotas' /\ LidasDaExecucao' /\ NotasAchaveis' /\ ManifestoGuardado' /\ ObjetosNomeados'
    BY <1>1, <1>2 DEF InvAcervo, LinhasDasNotas, LidasDaExecucao, NotasAchaveis, ManifestoGuardado,
                      ObjetosNomeados
  <2> QED BY <2>3, <2>4, <2>5 DEF InvAcervo
<1> QED BY <1>3, <1>4

-----------------------------------------------------------------------------
(* The orphan cleaner.                                                      *)

\* What a step of the cleaner that only changes what it knows preserves.
LEMMA SoALimpeza ==
  ASSUME InvAcervo, limpeza' \in LimpezaTipos, OrfaosSemUso',
         gravando["worker"] = SemArquivo \/ limpeza'.fase = "parada",
         UNCHANGED <<notaId, ids, arquivoDe, certificado, eventosXml, objetos, gravando, execucao, estado,
                     manifestos, vistas, levados>>
  PROVE  InvAcervo'
<1>1. TiposAcervo' /\ GravandoGuardado'
  BY DEF InvAcervo, TiposAcervo, GravandoGuardado
<1>2. LinhasDasNotas' /\ LidasDaExecucao' /\ NotasAchaveis' /\ ManifestoGuardado' /\ ObjetosNomeados'
  BY DEF InvAcervo, LinhasDasNotas, LidasDaExecucao, NotasAchaveis, ManifestoGuardado, ObjetosNomeados
<1> QED BY <1>1, <1>2 DEF InvAcervo

\* The worker is not about to commit once the cleaner began.
LEMMA WorkerNaoGrava ==
  ASSUME InvAcervo, limpeza.fase # "parada"
  PROVE  gravando["worker"] = SemArquivo
BY DEF InvAcervo, GravandoGuardado

\* The keys in use name objects: those of the committed notas and events, and
\* that of the certificate, unless it is inactive and those are asked for.
LEMMA ChavesEmUsoCobrem ==
  ASSUME InvAcervo, NEW b \in BOOLEAN
  PROVE  /\ ChavesEmUso(b) \subseteq NomesDeObjetos
         /\ vistas \subseteq ChavesEmUso(b) /\ eventosXml \subseteq ChavesEmUso(b)
         /\ certificado.arquivo # SemArquivo /\ (certificado.ativo \/ ~b) =>
              certificado.arquivo \in ChavesEmUso(b)
<1>1. vistas \subseteq ChavesEmUso(b) /\ eventosXml \subseteq ChavesEmUso(b)
  BY DEF InvAcervo, TiposAcervo, LinhasDasNotas, ChavesEmUso
<1>2. certificado.arquivo \in ArquivosPfx \cup {SemArquivo} /\ eventosXml \subseteq XmlsDeEvento
  BY DEF InvAcervo, TiposAcervo
<1>3. ChavesEmUso(b) \subseteq NomesDeObjetos
  BY <1>2 DEF ChavesEmUso, NomesDeObjetos
<1>4. certificado.arquivo # SemArquivo /\ (certificado.ativo \/ ~b) =>
        certificado.arquivo \in ChavesEmUso(b)
  BY DEF ChavesEmUso
<1> QED BY <1>1, <1>3, <1>4

\* The first reading of the keys in use, with the worker still.
LEMMA LerChavesPreserva ==
  ASSUME Instrucoes, InvAcervo, LerChaves
  PROVE  InvAcervo'
<1>1. PICK b \in BOOLEAN : limpeza' = [fase |-> "lida", inativos |-> b, usadas |-> ChavesEmUso(b)]
  BY DEF LerChaves
<1>2. gravando["worker"] = SemArquivo
  BY DEF LerChaves, Instrucoes
<1>3. PICK c : c = ChavesEmUso(b)
  OBVIOUS
<1>4. c \in SUBSET (NomesDeObjetos \cup {SemArquivo})
  BY <1>3, ChavesEmUsoCobrem
<1>5. limpeza' \in LimpezaTipos /\ limpeza'.fase = "lida"
  <2>1. limpeza' = [fase |-> "lida", inativos |-> b, usadas |-> c]
    BY <1>1, <1>3
  <2> QED BY <1>4, <2>1 DEF LimpezaTipos
<1>6. OrfaosSemUso'
  BY <1>5 DEF OrfaosSemUso
<1> QED BY <1>2, <1>5, <1>6, SoALimpeza DEF LerChaves

\* The listing leaves the manifests out.
LEMMA ListarOrfaosPreserva ==
  ASSUME InvAcervo, ListarOrfaos
  PROVE  InvAcervo'
<1>1. PICK o : o = Varridos \ limpeza.usadas
  OBVIOUS
<1>2. o \in SUBSET NomesDeObjetos /\ o \cap Execucoes = {}
  BY <1>1 DEF Varridos, InvAcervo, TiposAcervo
<1>3. limpeza.inativos \in BOOLEAN
  BY DEF ListarOrfaos, InvAcervo, TiposAcervo, LimpezaTipos
<1>4. limpeza' = [fase |-> "listada", inativos |-> limpeza.inativos, orfaos |-> o]
  BY <1>1 DEF ListarOrfaos
<1>5. limpeza' \in LimpezaTipos /\ limpeza'.fase = "listada" /\ limpeza'.orfaos = o
  BY <1>2, <1>3, <1>4 DEF LimpezaTipos
<1>6. OrfaosSemUso'
  BY <1>2, <1>5 DEF OrfaosSemUso
<1>7. gravando["worker"] = SemArquivo
  BY WorkerNaoGrava DEF ListarOrfaos
<1> QED BY <1>5, <1>6, <1>7, SoALimpeza DEF ListarOrfaos

\* The second reading takes out what is in use.
LEMMA ConferirOrfaosPreserva ==
  ASSUME InvAcervo, ConferirOrfaos
  PROVE  InvAcervo'
<1>1. PICK o : o = limpeza.orfaos \ ChavesEmUso(limpeza.inativos)
  OBVIOUS
<1>2. /\ limpeza.inativos \in BOOLEAN /\ limpeza.orfaos \in SUBSET NomesDeObjetos
      /\ limpeza.orfaos \cap Execucoes = {}
  BY DEF ConferirOrfaos, InvAcervo, TiposAcervo, LimpezaTipos, OrfaosSemUso
<1>4. /\ o \in SUBSET NomesDeObjetos /\ o \cap Execucoes = {} /\ o \cap vistas = {}
      /\ o \cap eventosXml = {}
      /\ certificado.arquivo # SemArquivo /\ certificado.arquivo \in o =>
           limpeza.inativos /\ ~certificado.ativo
  BY <1>1, <1>2, ChavesEmUsoCobrem
<1>5. limpeza' = [fase |-> "apagando", inativos |-> limpeza.inativos, tarde |-> {}, orfaos |-> o]
  BY <1>1 DEF ConferirOrfaos
<1>6. /\ limpeza' \in LimpezaTipos /\ limpeza'.fase = "apagando" /\ limpeza'.orfaos = o
      /\ limpeza'.inativos = limpeza.inativos
  BY <1>2, <1>4, <1>5 DEF LimpezaTipos
<1>7. UNCHANGED <<certificado, eventosXml, vistas>>
  BY DEF ConferirOrfaos
<1>8. OrfaosSemUso'
  BY <1>4, <1>6, <1>7 DEF OrfaosSemUso
<1>9. gravando["worker"] = SemArquivo
  BY WorkerNaoGrava DEF ConferirOrfaos
<1> QED BY <1>6, <1>8, <1>9, SoALimpeza DEF ConferirOrfaos

\* The end of the cleaner.
LEMMA EncerrarLimpezaPreserva ==
  ASSUME InvAcervo, EncerrarLimpeza
  PROVE  InvAcervo'
<1>1. limpeza' \in LimpezaTipos /\ limpeza'.fase = "parada"
  BY DEF EncerrarLimpeza, LimpezaParada, LimpezaTipos
<1>2. OrfaosSemUso'
  BY <1>1 DEF OrfaosSemUso
<1> QED BY <1>1, <1>2, SoALimpeza DEF EncerrarLimpeza

\* Deleting an orphan takes away nothing of a nota and no manifest; of what
\* the API stored, what it takes the history says.
LEMMA ApagarOrfaoPreserva ==
  ASSUME InvAcervo, ApagarOrfao
  PROVE  InvAcervo'
<1>1. PICK k \in limpeza.orfaos :
        /\ objetos' = objetos \ {k} /\ limpeza' = [limpeza EXCEPT !.orfaos = @ \ {k}]
        /\ levados' = IF ForaDaVista(k) THEN levados \cup {k} ELSE levados
  BY DEF ApagarOrfao
<1>2. /\ limpeza.fase = "apagando"
      /\ UNCHANGED <<notaId, ids, arquivoDe, certificado, eventosXml, gravando, execucao, estado, manifestos, vistas>>
  BY DEF ApagarOrfao
<1>3. limpeza \in [fase : {"apagando"}, inativos : BOOLEAN, orfaos : SUBSET NomesDeObjetos,
                   tarde : SUBSET (NomesDeObjetos \cup {SemArquivo})]
  BY <1>2 DEF InvAcervo, TiposAcervo, LimpezaTipos
<1>4. /\ limpeza' \in LimpezaTipos /\ limpeza'.fase = "apagando"
      /\ limpeza'.orfaos = limpeza.orfaos \ {k} /\ limpeza'.inativos = limpeza.inativos
      /\ limpeza'.tarde = limpeza.tarde
  <2>1. limpeza' = [limpeza EXCEPT !.orfaos = @ \ {k}]
    BY <1>1
  <2>2. limpeza' \in [fase : {"apagando"}, inativos : BOOLEAN, orfaos : SUBSET NomesDeObjetos,
                      tarde : SUBSET (NomesDeObjetos \cup {SemArquivo})]
    BY <1>3, <2>1
  <2> QED BY <1>3, <2>1, <2>2 DEF LimpezaTipos
<1>5. gravando["worker"] = SemArquivo
  BY <1>2, WorkerNaoGrava
<1>6. objetos' = objetos \ {k} /\ objetos' \subseteq NomesDeObjetos
  BY <1>1 DEF InvAcervo, TiposAcervo
<1>7. /\ k \notin Execucoes /\ k \notin vistas
      /\ k \in eventosXml => k \in limpeza.tarde
      /\ k # SemArquivo /\ k = certificado.arquivo =>
           k \in limpeza.tarde \/ (limpeza.inativos /\ ~certificado.ativo)
  BY <1>2 DEF InvAcervo, OrfaosSemUso
<1>8. /\ k \in eventosXml => k \in levados'
      /\ k # SemArquivo /\ k = certificado.arquivo => k \in levados'
      /\ k = gravando["api"] => k \in levados'
      /\ levados \subseteq levados'
  BY <1>1, <1>7 DEF ForaDaVista
<1>9. TiposAcervo'
  BY <1>2, <1>4, <1>6 DEF InvAcervo, TiposAcervo
<1>10. LinhasDasNotas' /\ LidasDaExecucao' /\ NotasAchaveis'
  BY <1>2 DEF InvAcervo, LinhasDasNotas, LidasDaExecucao, NotasAchaveis
<1>11. ManifestoGuardado'
  BY <1>2, <1>6, <1>7 DEF InvAcervo, ManifestoGuardado
<1>12. GravandoGuardado'
  BY <1>2, <1>5, <1>6, <1>8 DEF InvAcervo, GravandoGuardado
<1>13. OrfaosSemUso'
  BY <1>2, <1>4 DEF InvAcervo, OrfaosSemUso
<1>14. ObjetosNomeados'
  BY <1>2, <1>6, <1>7, <1>8 DEF InvAcervo, ObjetosNomeados
<1> QED BY <1>9, <1>10, <1>11, <1>12, <1>13, <1>14 DEF InvAcervo

-----------------------------------------------------------------------------
(* The archiving of old notas.                                              *)

\* The records an execution goes through.
LEMMA FasesDaExecucao ==
  ASSUME InvAcervo, NEW e \in Execucoes
  PROVE  /\ execucao[e].fase \in {"lida", "guardada"} =>
              execucao[e] \in [fase : {"lida", "guardada"}, notas : SUBSET Notas, ids : SUBSET Nat]
         /\ NaoPedida \in ExecucaoTipos /\ NaoPedida.fase = "livre"
         /\ [fase |-> "feita"] \in ExecucaoTipos /\ [fase |-> "agendada"] \in ExecucaoTipos
BY DEF InvAcervo, TiposAcervo, ExecucaoTipos, NaoPedida

\* A request to archive, or the end of one, changes the execution alone.
LEMMA SoAExecucao ==
  ASSUME InvAcervo, NEW e \in Execucoes, NEW x \in ExecucaoTipos,
         x.fase \in {"agendada", "feita"}, x.fase = "agendada" => execucao[e].fase = "livre",
         execucao' = [execucao EXCEPT ![e] = x],
         UNCHANGED <<notaId, ids, arquivoDe, certificado, eventosXml, objetos, gravando, limpeza, manifestos, vistas, levados>>
  PROVE  InvAcervo'
<1>1. /\ execucao' \in [Execucoes -> ExecucaoTipos]
      /\ execucao'[e] = x /\ \A f \in Execucoes \ {e} : execucao'[f] = execucao[f]
  BY DEF InvAcervo, TiposAcervo
<1>2. TiposAcervo'
  BY <1>1 DEF InvAcervo, TiposAcervo
<1>3. LinhasDasNotas' /\ NotasAchaveis' /\ GravandoGuardado' /\ OrfaosSemUso' /\ ObjetosNomeados'
  BY DEF InvAcervo, LinhasDasNotas, NotasAchaveis, GravandoGuardado, OrfaosSemUso, ObjetosNomeados
<1>4. LidasDaExecucao'
  BY <1>1 DEF InvAcervo, LidasDaExecucao
<1>5. ManifestoGuardado'
  BY <1>1 DEF InvAcervo, ManifestoGuardado
<1> QED BY <1>2, <1>3, <1>4, <1>5 DEF InvAcervo

\* A request to archive.
LEMMA PedirArquivamentoPreserva ==
  ASSUME InvAcervo, NEW e \in Execucoes, PedirArquivamento(e)
  PROVE  InvAcervo'
<1> DEFINE x == [fase |-> "agendada"]
<1>1. x \in ExecucaoTipos /\ x.fase = "agendada" /\ execucao[e].fase = "livre"
  BY FasesDaExecucao DEF PedirArquivamento
<1>2. execucao' = [execucao EXCEPT ![e] = x]
  BY DEF PedirArquivamento
<1> HIDE DEF x
<1> QED BY <1>1, <1>2, SoAExecucao DEF PedirArquivamento

\* The archiving that failed.
LEMMA FalharArquivamentoPreserva ==
  ASSUME InvAcervo, NEW e \in Execucoes, FalharArquivamento(e)
  PROVE  InvAcervo'
<1> DEFINE x == [fase |-> "feita"]
<1>1. x \in ExecucaoTipos /\ x.fase = "feita"
  BY FasesDaExecucao
<1>2. execucao' = [execucao EXCEPT ![e] = x]
  BY DEF FalharArquivamento
<1> HIDE DEF x
<1> QED BY <1>1, <1>2, SoAExecucao DEF FalharArquivamento

\* The ids that are read are those of the notas that go to the manifest.
LEMMA LerNotasAntigasPreserva ==
  ASSUME InvAcervo, NEW e \in Execucoes, LerNotasAntigas(e)
  PROVE  InvAcervo'
<1> DEFINE lidas == {n \in Antigas : notaId[n] # 0}
<1>1. UNCHANGED <<notaId, ids, arquivoDe, certificado, eventosXml, objetos, gravando, limpeza, manifestos, vistas, levados>>
  BY DEF LerNotasAntigas
<1>2. CASE lidas = {}
  <2> DEFINE x == [fase |-> "feita"]
  <2>1. x \in ExecucaoTipos /\ x.fase = "feita"
    BY FasesDaExecucao
  <2>2. execucao' = [execucao EXCEPT ![e] = x]
    BY <1>2 DEF LerNotasAntigas
  <2> HIDE DEF x
  <2> QED BY <1>1, <2>1, <2>2, SoAExecucao
<1>3. CASE lidas # {}
  <2> DEFINE is == {notaId[n] : n \in lidas}
  <2> DEFINE x == [fase |-> "lida", notas |-> lidas, ids |-> is]
  <2>1. execucao' = [execucao EXCEPT ![e] = x] /\ execucao[e].fase = "agendada"
    BY <1>3 DEF LerNotasAntigas
  <2>2. lidas \subseteq Notas /\ is \subseteq Nat
    BY ConstantesAcervo DEF InvAcervo, TiposAcervo
  <2>3. /\ \A i \in is : i # 0 /\ i <= ids
        /\ \A n \in Notas : notaId[n] \in is => n \in lidas
    BY <2>2 DEF InvAcervo, LinhasDasNotas
  <2> HIDE DEF is, lidas
  <2>4. x \in ExecucaoTipos /\ x.fase = "lida" /\ x.notas = lidas /\ x.ids = is
    BY <2>2 DEF ExecucaoTipos
  <2> HIDE DEF x
  <2>5. /\ execucao' \in [Execucoes -> ExecucaoTipos]
        /\ execucao'[e] = x /\ \A f \in Execucoes \ {e} : execucao'[f] = execucao[f]
    BY <2>1, <2>4 DEF InvAcervo, TiposAcervo
  <2>6. TiposAcervo'
    BY <1>1, <2>5 DEF InvAcervo, TiposAcervo
  <2>7. LinhasDasNotas' /\ NotasAchaveis' /\ GravandoGuardado' /\ OrfaosSemUso' /\ ObjetosNomeados'
    BY <1>1 DEF InvAcervo, LinhasDasNotas, NotasAchaveis, GravandoGuardado, OrfaosSemUso, ObjetosNomeados
  <2>8. LidasDaExecucao'
    BY <1>1, <2>3, <2>4, <2>5 DEF InvAcervo, LidasDaExecucao
  <2>9. ManifestoGuardado'
    BY <1>1, <2>1, <2>4, <2>5 DEF InvAcervo, ManifestoGuardado
  <2> QED BY <2>6, <2>7, <2>8, <2>9 DEF InvAcervo
<1> QED BY <1>2, <1>3

\* The manifest is stored before anything is deleted.
LEMMA GuardarManifestoPreserva ==
  ASSUME InvAcervo, NEW e \in Execucoes, GuardarManifesto(e)
  PROVE  InvAcervo'
<1> DEFINE x == [execucao[e] EXCEPT !.fase = "guardada"]
<1>1. /\ objetos' = objetos \cup {e} /\ execucao' = [execucao EXCEPT ![e] = x]
      /\ execucao[e].fase = "lida"
      /\ UNCHANGED <<notaId, ids, arquivoDe, certificado, eventosXml, gravando, limpeza, estado, manifestos, vistas, levados>>
  BY DEF GuardarManifesto
<1>2. execucao[e] \in [fase : {"lida", "guardada"}, notas : SUBSET Notas, ids : SUBSET Nat]
  BY <1>1, FasesDaExecucao
<1>3. /\ x \in ExecucaoTipos /\ x.fase = "guardada"
      /\ x.notas = execucao[e].notas /\ x.ids = execucao[e].ids
  BY <1>2 DEF ExecucaoTipos
<1> HIDE DEF x
<1>4. /\ execucao' \in [Execucoes -> ExecucaoTipos]
      /\ execucao'[e] = x /\ \A f \in Execucoes \ {e} : execucao'[f] = execucao[f]
  BY <1>1, <1>3 DEF InvAcervo, TiposAcervo
<1>5. TiposAcervo'
  BY <1>1, <1>4 DEF InvAcervo, TiposAcervo, NomesDeObjetos
<1>6. LinhasDasNotas' /\ NotasAchaveis' /\ GravandoGuardado' /\ OrfaosSemUso' /\ ObjetosNomeados'
  BY <1>1 DEF InvAcervo, LinhasDasNotas, NotasAchaveis, GravandoGuardado, OrfaosSemUso, ObjetosNomeados
<1>7. LidasDaExecucao'
  BY <1>1, <1>3, <1>4 DEF InvAcervo, LidasDaExecucao
<1>8. ManifestoGuardado'
  BY <1>1, <1>3, <1>4 DEF InvAcervo, ManifestoGuardado
<1> QED BY <1>5, <1>6, <1>7, <1>8 DEF InvAcervo

\* What is deleted is in the manifest that is registered with it.
LEMMA ExcluirNotasPreserva ==
  ASSUME InvAcervo, NEW e \in Execucoes, ExcluirNotas(e)
  PROVE  InvAcervo'
<1> DEFINE x == [fase |-> "feita"]
<1>1. /\ execucao[e].fase = "guardada"
      /\ manifestos' = [manifestos EXCEPT ![e] = execucao[e].notas]
      /\ notaId' = [n \in Notas |-> IF n \in Excluidas(e) THEN 0 ELSE notaId[n]]
      /\ arquivoDe' = [n \in Notas |-> IF arquivoDe[n] \cap execucao[e].ids # {} THEN {0} ELSE arquivoDe[n]]
      /\ execucao' = [execucao EXCEPT ![e] = x]
      /\ UNCHANGED <<ids, certificado, eventosXml, objetos, gravando, limpeza, vistas, levados>>
  BY DEF ExcluirNotas
<1>2. execucao[e].notas \in SUBSET Notas /\ execucao[e].ids \in SUBSET Nat
  BY <1>1, FasesDaExecucao
<1>3. x \in ExecucaoTipos /\ x.fase = "feita"
  BY FasesDaExecucao
<1> HIDE DEF x
<1>4. /\ execucao' \in [Execucoes -> ExecucaoTipos]
      /\ execucao'[e] = x /\ \A f \in Execucoes \ {e} : execucao'[f] = execucao[f]
  BY <1>1, <1>3 DEF InvAcervo, TiposAcervo
<1>5. \A n \in Notas :
        \/ notaId'[n] = notaId[n] /\ notaId[n] \notin execucao[e].ids
        \/ notaId'[n] = 0 /\ notaId[n] \in execucao[e].ids
  BY <1>1 DEF Excluidas
<1>6. \A n \in Notas : arquivoDe'[n] = arquivoDe[n] \/ (arquivoDe'[n] = {0} /\ arquivoDe[n] # {})
  BY <1>1
<1>7. /\ manifestos' \in [Execucoes -> SUBSET Notas]
      /\ manifestos'[e] = execucao[e].notas
      /\ \A f \in Execucoes \ {e} : manifestos'[f] = manifestos[f]
  BY <1>1, <1>2 DEF InvAcervo, TiposAcervo
<1>8. TiposAcervo'
  <2>1. notaId' \in [Notas -> Nat]
    BY <1>1 DEF InvAcervo, TiposAcervo
  <2>2. arquivoDe' \in [Notas -> SUBSET Nat]
    <3>1. arquivoDe \in [Notas -> SUBSET Nat] /\ {0} \in SUBSET Nat
      BY DEF InvAcervo, TiposAcervo
    <3> QED BY <1>1, <3>1
  <2> QED BY <1>1, <1>4, <1>7, <2>1, <2>2 DEF InvAcervo, TiposAcervo
<1>9. LinhasDasNotas'
  <2>1. /\ \A n \in Notas : notaId'[n] # 0 => n \in vistas'
        /\ \A n \in Notas : arquivoDe'[n] # {} <=> n \in vistas'
    BY <1>1, <1>5, <1>6 DEF InvAcervo, LinhasDasNotas
  <2>2. \A n \in Notas : notaId'[n] <= ids'
    BY <1>1, <1>5 DEF InvAcervo, TiposAcervo, LinhasDasNotas
  <2>3. \A n, m \in Notas : notaId'[n] = notaId'[m] /\ notaId'[n] # 0 => n = m
    BY <1>5 DEF InvAcervo, LinhasDasNotas
  <2> QED BY <2>1, <2>2, <2>3 DEF LinhasDasNotas
<1>10. LidasDaExecucao'
  <2> SUFFICES ASSUME NEW f \in Execucoes, execucao'[f].fase \in {"lida", "guardada"}
               PROVE  /\ \A i \in execucao'[f].ids : i # 0 /\ i <= ids'
                      /\ \A n \in Notas : notaId'[n] \in execucao'[f].ids => n \in execucao'[f].notas
    BY DEF LidasDaExecucao
  <2>1. f # e /\ execucao'[f] = execucao[f]
    BY <1>3, <1>4
  <2>2. /\ \A i \in execucao[f].ids : i # 0 /\ i <= ids
        /\ \A n \in Notas : notaId[n] \in execucao[f].ids => n \in execucao[f].notas
    BY <2>1 DEF InvAcervo, LidasDaExecucao
  <2> QED BY <1>1, <1>5, <2>1, <2>2
<1>11. NotasAchaveis'
  <2> SUFFICES ASSUME NEW n \in vistas
               PROVE  notaId'[n] # 0 \/ \E f \in Execucoes : n \in manifestos'[f]
    BY <1>1 DEF NotasAchaveis
  <2>1. n \in Notas
    BY DEF InvAcervo, TiposAcervo
  <2>2. CASE notaId[n] \in execucao[e].ids
    <3>1. n \in execucao[e].notas
      BY <1>1, <2>1, <2>2 DEF InvAcervo, LidasDaExecucao
    <3> QED BY <1>7, <3>1
  <2>3. CASE notaId[n] \notin execucao[e].ids /\ notaId[n] # 0
    BY <1>5, <2>1, <2>3
  <2>4. CASE notaId[n] = 0
    <3>1. PICK f \in Execucoes : n \in manifestos[f]
      BY <2>4 DEF InvAcervo, NotasAchaveis
    <3>2. f # e
      BY <1>1, <3>1 DEF InvAcervo, ManifestoGuardado
    <3> QED BY <1>7, <3>1, <3>2
  <2> QED BY <2>2, <2>3, <2>4
<1>12. ManifestoGuardado'
  BY <1>1, <1>3, <1>4, <1>7 DEF InvAcervo, ManifestoGuardado
<1>13. GravandoGuardado' /\ OrfaosSemUso' /\ ObjetosNomeados'
  BY <1>1 DEF InvAcervo, GravandoGuardado, OrfaosSemUso, ObjetosNomeados
<1> QED BY <1>8, <1>9, <1>10, <1>11, <1>12, <1>13 DEF InvAcervo

\* A restart drops what was being done, and deletes nothing.
LEMMA ReiniciarPortalPreserva ==
  ASSUME InvAcervo, ReiniciarPortal
  PROVE  InvAcervo'
<1>1. /\ execucao' = [e \in Execucoes |-> IF execucao[e] = NaoPedida THEN NaoPedida ELSE [fase |-> "feita"]]
      /\ gravando' = [w \in {"worker", "api"} |-> SemArquivo]
      /\ UNCHANGED <<notaId, ids, arquivoDe, certificado, eventosXml, objetos, limpeza, manifestos, vistas, levados>>
  BY DEF ReiniciarPortal
<1>2. \A e \in Execucoes :
        /\ execucao'[e] \in ExecucaoTipos
        /\ execucao'[e].fase = "feita" \/ (execucao'[e].fase = "livre" /\ execucao[e].fase = "livre")
  <2> SUFFICES ASSUME NEW e \in Execucoes
               PROVE  /\ execucao'[e] \in ExecucaoTipos
                      /\ \/ execucao'[e].fase = "feita"
                         \/ execucao'[e].fase = "livre" /\ execucao[e].fase = "livre"
    OBVIOUS
  <2>1. CASE execucao[e] = NaoPedida
    <3>1. execucao'[e] = NaoPedida
      BY <1>1, <2>1
    <3> QED BY <2>1, <3>1, FasesDaExecucao
  <2>2. CASE execucao[e] # NaoPedida
    <3>1. execucao'[e] = [fase |-> "feita"]
      BY <1>1, <2>2
    <3> QED BY <3>1, FasesDaExecucao
  <2> QED BY <2>1, <2>2
<1>3. TiposAcervo'
  <2>1. execucao' \in [Execucoes -> ExecucaoTipos]
    BY <1>1, <1>2
  <2>2. /\ gravando' \in [{"worker", "api"} -> NomesDeObjetos \cup {SemArquivo}]
        /\ gravando'["worker"] = SemArquivo /\ gravando'["api"] = SemArquivo
    BY <1>1
  <2> QED BY <1>1, <2>1, <2>2 DEF InvAcervo, TiposAcervo
<1>4. LinhasDasNotas' /\ NotasAchaveis' /\ OrfaosSemUso' /\ ObjetosNomeados'
  BY <1>1 DEF InvAcervo, LinhasDasNotas, NotasAchaveis, OrfaosSemUso, ObjetosNomeados
<1>5. GravandoGuardado'
  BY <1>1 DEF GravandoGuardado
<1>6. LidasDaExecucao'
  BY <1>2 DEF LidasDaExecucao
<1>7. ManifestoGuardado'
  BY <1>1, <1>2 DEF InvAcervo, ManifestoGuardado
<1> QED BY <1>3, <1>4, <1>5, <1>6, <1>7 DEF InvAcervo

-----------------------------------------------------------------------------
(* The invariant and the theorems.                                          *)

\* An empty storage.
LEMMA InitAcervoInv == InitAcervo => InvAcervo
<1> SUFFICES ASSUME InitAcervo PROVE InvAcervo
  OBVIOUS
<1>1. TiposAcervo
  <2>3. certificado \in [arquivo : ArquivosPfx \cup {SemArquivo}, ativo : BOOLEAN]
    BY DEF InitAcervo
  <2>4. /\ notaId \in [Notas -> Nat] /\ ids \in Nat /\ arquivoDe \in [Notas -> SUBSET Nat]
        /\ objetos \subseteq NomesDeObjetos /\ eventosXml \subseteq XmlsDeEvento
        /\ manifestos \in [Execucoes -> SUBSET Notas] /\ vistas \subseteq Notas
    BY DEF InitAcervo
  <2>5. /\ gravando \in [{"worker", "api"} -> NomesDeObjetos \cup {SemArquivo}]
        /\ gravando["worker"] = SemArquivo /\ gravando["api"] = SemArquivo
    BY DEF InitAcervo
  <2>6. limpeza \in LimpezaTipos
    BY DEF InitAcervo, LimpezaParada, LimpezaTipos
  <2>7. execucao \in [Execucoes -> ExecucaoTipos]
    <3>1. NaoPedida \in ExecucaoTipos
      BY DEF NaoPedida, ExecucaoTipos
    <3> QED BY <3>1 DEF InitAcervo
  <2> QED BY <2>3, <2>4, <2>5, <2>6, <2>7 DEF TiposAcervo
<1>2. /\ notaId = [n \in Notas |-> 0] /\ ids = 0 /\ arquivoDe = [n \in Notas |-> {}]
      /\ execucao = [e \in Execucoes |-> NaoPedida]
      /\ manifestos = [e \in Execucoes |-> {}] /\ vistas = {}
      /\ gravando = [w \in {"worker", "api"} |-> SemArquivo]
  BY DEF InitAcervo
<1>3. LinhasDasNotas
  BY <1>2 DEF LinhasDasNotas
<1>4. LidasDaExecucao /\ ManifestoGuardado
  BY <1>2 DEF LidasDaExecucao, ManifestoGuardado, NaoPedida
<1>5. NotasAchaveis /\ GravandoGuardado
  BY <1>2 DEF NotasAchaveis, GravandoGuardado
<1>6. OrfaosSemUso
  BY DEF InitAcervo, LimpezaParada, OrfaosSemUso
<1>7. ObjetosNomeados
  BY DEF InitAcervo, ObjetosNomeados
<1> QED BY <1>1, <1>3, <1>4, <1>5, <1>6, <1>7 DEF InvAcervo

\* Every step keeps the invariant, with the instructions followed.
LEMMA PassoAcervoPreserva ==
  ASSUME Instrucoes
  PROVE  InvAcervo /\ [NextAcervo]_varsAcervo => InvAcervo'
<1> SUFFICES ASSUME InvAcervo, [NextAcervo]_varsAcervo PROVE InvAcervo'
  OBVIOUS
<1>1. CASE \E w \in {"worker", "api"} : GuardarArquivo(w) \/ PerderGravacao(w)
  BY <1>1, GuardarArquivoPreserva, PerderGravacaoPreserva
<1>2. CASE GravarNotaEArquivo \/ GravarCertificado \/ RegistrarEvento \/ AlternarCertificado
  BY <1>2, GravarNotaEArquivoPreserva, GravarCertificadoPreserva, RegistrarEventoPreserva,
     AlternarCertificadoPreserva
<1>3. CASE LerChaves \/ ListarOrfaos \/ ConferirOrfaos \/ ApagarOrfao \/ EncerrarLimpeza
  BY <1>3, LerChavesPreserva, ListarOrfaosPreserva, ConferirOrfaosPreserva, ApagarOrfaoPreserva,
     EncerrarLimpezaPreserva
<1>4. CASE \E e \in Execucoes :
             \/ PedirArquivamento(e) \/ LerNotasAntigas(e) \/ GuardarManifesto(e)
             \/ ExcluirNotas(e) \/ FalharArquivamento(e)
  BY <1>4, PedirArquivamentoPreserva, LerNotasAntigasPreserva, GuardarManifestoPreserva,
     ExcluirNotasPreserva, FalharArquivamentoPreserva
<1>5. CASE ReiniciarPortal
  BY <1>5, ReiniciarPortalPreserva
<1>6. CASE UNCHANGED varsAcervo
  <2>1. UNCHANGED <<notaId, ids, arquivoDe, certificado, eventosXml, objetos, gravando, limpeza, execucao, estado, manifestos, vistas, levados>>
    BY <1>6 DEF varsAcervo
  <2>2. TiposAcervo' /\ GravandoGuardado'
    BY <2>1 DEF InvAcervo, TiposAcervo, GravandoGuardado
  <2>3. LinhasDasNotas' /\ LidasDaExecucao' /\ NotasAchaveis' /\ ManifestoGuardado'
    BY <2>1 DEF InvAcervo, LinhasDasNotas, LidasDaExecucao, NotasAchaveis, ManifestoGuardado
  <2>4. OrfaosSemUso' /\ ObjetosNomeados'
    BY <2>1 DEF InvAcervo, OrfaosSemUso, ObjetosNomeados
  <2> QED BY <2>2, <2>3, <2>4 DEF InvAcervo
<1> QED BY <1>1, <1>2, <1>3, <1>4, <1>5, <1>6 DEF NextAcervo

\* The invariant holds in every behaviour where the cleaner runs with the
\* worker stopped, whatever the API does meanwhile.
THEOREM InvarianciaAcervo ==
  ASSUME Instrucoes
  PROVE  SpecAcervo => []InvAcervo
<1>1. InitAcervo => InvAcervo
  BY InitAcervoInv
<1>2. InvAcervo /\ [NextAcervo]_varsAcervo => InvAcervo'
  BY PassoAcervoPreserva
<1> QED BY <1>1, <1>2, PTL DEF SpecAcervo

\* A file that a committed row names is in the storage: those of notas always,
\* those the API stores unless the cleaner came between the file and its row.
THEOREM NadaEmUsoApagado ==
  ASSUME Instrucoes
  PROVE  SpecAcervo => []ReferenciaTemObjeto
<1>1. InvAcervo => ReferenciaTemObjeto
  BY DEF InvAcervo, LinhasDasNotas, ObjetosNomeados, ReferenciaTemObjeto
<1>2. SpecAcervo => []InvAcervo
  BY InvarianciaAcervo
<1> QED BY <1>1, <1>2, PTL

\* A nota that was ever committed is in the database or in a manifest that is
\* registered and stored, and its file is there.
THEOREM NotaNuncaSePerde ==
  ASSUME Instrucoes
  PROVE  SpecAcervo => []NotaSempreAchavel
<1>1. InvAcervo => NotaSempreAchavel
  <2> SUFFICES ASSUME InvAcervo, NEW n \in vistas
               PROVE  /\ notaId[n] # 0 \/ \E e \in Execucoes : n \in manifestos[e] /\ e \in objetos
                      /\ n \in objetos
    BY DEF NotaSempreAchavel
  <2>1. notaId[n] # 0 \/ \E e \in Execucoes : n \in manifestos[e]
    BY DEF InvAcervo, NotasAchaveis
  <2>2. \A e \in Execucoes : n \in manifestos[e] => e \in objetos
    BY DEF InvAcervo, ManifestoGuardado
  <2>3. n \in objetos
    BY DEF InvAcervo, ObjetosNomeados
  <2> QED BY <2>1, <2>2, <2>3
<1>2. SpecAcervo => []InvAcervo
  BY InvarianciaAcervo
<1> QED BY <1>1, <1>2, PTL

-----------------------------------------------------------------------------
(* The files of the engine.                                                 *)

Fases == {"parado", "chamada", "documento", "xml", "indice", "ocorrencias"}
Gravando == motor.fase \in {"xml", "indice", "ocorrencias"}

TiposSaida ==
  /\ IsFiniteSet(DOMAIN arquivos)
  /\ \A c \in DOMAIN arquivos : DOMAIN arquivos[c] = {"doc", "inteiro", "de"}
  /\ \A l \in indice \cup ocorrencias : DOMAIN l = {"chave", "evento", "primeiro", "caminho", "de"}
  /\ consultas \in Nat /\ confirmado \in 0..Len(Fluxo)
  /\ DOMAIN motor = {"fase", "consulta", "nsu", "falhas", "feito", "ate", "caminho"}
  /\ motor.fase \in Fases
  /\ motor.nsu \in Nat /\ motor.feito \in Nat /\ motor.ate \in Nat
  /\ motor.nsu <= motor.feito /\ motor.feito <= motor.ate /\ motor.ate <= Len(Fluxo)

\* The consulta under way, and the document it is writing: from the moment its
\* XML is whole until both rows are written, its path is a file that holds it.
MotorCoerente ==
  /\ motor.fase # "parado" => motor.consulta = consultas
  /\ motor.fase = "chamada" => motor.nsu = motor.feito
  /\ Gravando => /\ motor.feito < motor.ate
                 /\ motor.caminho = SemXml => Fluxo[Documento].xml # "bom" /\ motor.fase # "xml"
                 /\ motor.caminho # SemXml => /\ motor.caminho \in DOMAIN arquivos
                                              /\ arquivos[motor.caminho].doc = Documento
                                              /\ motor.fase # "xml" => arquivos[motor.caminho].inteiro

\* Every row of the index for the chave of n was touched by this consulta.
Tocadas(n) == existe /\ \A l \in indice : l.chave = Fluxo[n].chave => l.de = motor.consulta

\* This consulta wrote the occurrence of n, with its XML.
Anotado(n) ==
  \E o \in ocorrencias : /\ o.primeiro = n /\ o.de = motor.consulta
                         /\ o.caminho # SemXml /\ arquivos[o.caminho].doc = n

\* What the consulta went through was ingested before, or will be by the
\* ingestion at its end.
Percorrido ==
  /\ motor.fase # "parado" =>
       \A n \in 1..motor.feito : Fluxo[n].xml = "bom" => n \in ingeridos \/ (Tocadas(n) /\ Anotado(n))
  /\ motor.fase = "ocorrencias" => Tocadas(Documento)

InvSaida == TiposSaida /\ MotorCoerente /\ LinhaTemSeuXml /\ Percorrido /\ NadaFicaParaTras

-----------------------------------------------------------------------------
\* Numbered names never run out: of one more than there are files, one is free.
LEMMA HaCaminho ==
  ASSUME TiposSaida, NEW n \in Nsus
  PROVE  \E s \in Sufixos(n) : Usavel(<<Fluxo[n].nome, s>>, n)
<1> DEFINE L == Len(Fluxo)
           k == Cardinality(DOMAIN arquivos)
           R == (L + 1)..(L + 1 + k)
           D == DOMAIN arquivos
           nome == Fluxo[n].nome
           f == [s \in R |-> <<nome, s>>]
<1>1. L \in Nat /\ IsFiniteSet(D) /\ k \in Nat
  BY ConstantesSaida, FS_CardinalityType DEF TiposSaida
<1>2. IsFiniteSet(R) /\ Cardinality(R) = k + 1
  <2>1. PICK a \in Int, b \in Int : a = L + 1 /\ b = L + 1 + k /\ R = a..b
    BY <1>1
  <2>2. a <= b /\ b - a + 1 = k + 1
    BY <1>1, <2>1
  <2> HIDE DEF R, k, L
  <2> QED BY <2>1, <2>2, FS_Interval
<1>3. SUFFICES ASSUME \A s \in R : <<nome, s>> \in D PROVE FALSE
  BY DEF Sufixos, Usavel
<1>4. f \in [R -> D]
  BY <1>3
<1>5. Cardinality(D) < Cardinality(R)
  BY <1>1, <1>2
<1>6. \E x, y \in R : x # y /\ f[x] = f[y]
  <2> HIDE DEF R, D, f
  <2> QED BY <1>1, <1>2, <1>4, <1>5, FS_PigeonHole
<1> QED BY <1>6

\* So the path of a document is one it can use, and it is not empty.
LEMMA CaminhoUsavel ==
  ASSUME TiposSaida, NEW n \in Nsus
  PROVE  CaminhoXml(n) # SemXml /\ Usavel(CaminhoXml(n), n)
<1> DEFINE S == {s \in Sufixos(n) : Usavel(<<Fluxo[n].nome, s>>, n)}
<1>1. S \in SUBSET Nat /\ S # {}
  <2>1. Sufixos(n) \in SUBSET Nat
    BY ConstantesSaida, FS_CardinalityType DEF Sufixos, Nsus, TiposSaida
  <2> QED BY <2>1, HaCaminho
<1>2. Min(S) \in S
  <2> HIDE DEF S
  <2> QED BY <1>1, HaMenor DEF Min
<1>3. PICK s \in S : CaminhoXml(n) = <<Fluxo[n].nome, s>>
  BY <1>2 DEF CaminhoXml
<1> QED BY <1>3 DEF SemXml

\* The document being processed is one of the stream.
LEMMA DocumentoDoFluxo ==
  ASSUME TiposSaida, motor.feito < motor.ate
  PROVE  Documento \in Nsus /\ Documento = motor.feito + 1
BY ConstantesSaida DEF TiposSaida, Documento, Nsus

-----------------------------------------------------------------------------
\* While nothing is written and the consulta is the same, going over documents
\* that are ingested, or that have no XML, keeps what was gone through.
LEMMA FicamAnotados ==
  ASSUME InvSaida, motor.fase # "parado", motor'.consulta = motor.consulta,
         UNCHANGED <<existe, indice, ocorrencias, confirmado>>,
         ingeridos \subseteq ingeridos',
         \A c \in DOMAIN arquivos : arquivos'[c].doc = arquivos[c].doc,
         NEW n \in 1..motor.feito, Fluxo[n].xml = "bom"
  PROVE  n \in ingeridos' \/ (Tocadas(n) /\ Anotado(n))'
<1>1. CASE n \in ingeridos
  BY <1>1
<1>2. CASE Tocadas(n) /\ Anotado(n)
  <2>1. Tocadas(n)'
    BY <1>2 DEF Tocadas
  <2>2. PICK o \in ocorrencias : /\ o.primeiro = n /\ o.de = motor.consulta
                                 /\ o.caminho # SemXml /\ arquivos[o.caminho].doc = n
    BY <1>2 DEF Anotado
  <2>3. o.caminho \in DOMAIN arquivos
    BY <2>2 DEF InvSaida, LinhaTemSeuXml
  <2>4. Anotado(n)'
    BY <2>2, <2>3 DEF Anotado
  <2> QED BY <2>1, <2>4
<1> QED BY <1>1, <1>2 DEF InvSaida, Percorrido

\* The row of the document under way names its file, or none.
LEMMA LinhaDoDocumentoBoa ==
  ASSUME InvSaida, Gravando, motor.fase # "xml", NEW l, l = LinhaDoDocumento
  PROVE  /\ Documento \in Nsus /\ Documento = motor.feito + 1
         /\ DOMAIN l = {"chave", "evento", "primeiro", "caminho", "de"}
         /\ l.chave = Fluxo[Documento].chave /\ l.primeiro = Documento /\ l.de = motor.consulta
         /\ Fluxo[Documento].xml = "bom" => l.caminho # SemXml
         /\ l.caminho # SemXml => /\ l.caminho \in DOMAIN arquivos
                                  /\ arquivos[l.caminho].doc = Documento
                                  /\ arquivos[l.caminho].inteiro
<1>1. Documento \in Nsus /\ Documento = motor.feito + 1
  BY DocumentoDoFluxo DEF InvSaida, MotorCoerente
<1>2. l = [chave |-> Fluxo[Documento].chave, evento |-> Fluxo[Documento].evento,
           primeiro |-> Documento, caminho |-> motor.caminho, de |-> consultas]
  BY DEF LinhaDoDocumento, LinhaNova
<1>3. /\ DOMAIN l = {"chave", "evento", "primeiro", "caminho", "de"}
      /\ l.chave = Fluxo[Documento].chave /\ l.primeiro = Documento
      /\ l.caminho = motor.caminho /\ l.de = consultas
  BY <1>2
<1>4. consultas = motor.consulta
  BY DEF InvSaida, MotorCoerente, Gravando
<1> QED
  BY <1>1, <1>3, <1>4 DEF InvSaida, MotorCoerente

\* The rows of the index it leaves: those of its chave are of this consulta,
\* and the others are as they were.
LEMMA LinhasDoIndice ==
  ASSUME InvSaida, motor.fase = "indice", NEW l \in IndiceCom(LinhaDoDocumento)
  PROVE  /\ DOMAIN l = {"chave", "evento", "primeiro", "caminho", "de"}
         /\ l.caminho # SemXml => /\ l.caminho \in DOMAIN arquivos /\ arquivos[l.caminho].inteiro
                                  /\ Fluxo[arquivos[l.caminho].doc].chave = l.chave
         /\ l \in indice \/ l.de = motor.consulta
         /\ l.chave = Fluxo[Documento].chave => l.de = motor.consulta
<1>1. PICK nova : nova = LinhaDoDocumento
  OBVIOUS
<1>2. /\ DOMAIN nova = {"chave", "evento", "primeiro", "caminho", "de"}
      /\ nova.chave = Fluxo[Documento].chave /\ nova.de = motor.consulta
      /\ nova.caminho # SemXml => /\ nova.caminho \in DOMAIN arquivos
                                  /\ arquivos[nova.caminho].inteiro
                                  /\ Fluxo[arquivos[nova.caminho].doc].chave = nova.chave
  BY <1>1, LinhaDoDocumentoBoa DEF Gravando
<1>3. ASSUME NEW a \in indice
      PROVE  /\ DOMAIN a = {"chave", "evento", "primeiro", "caminho", "de"}
             /\ a.caminho # SemXml => /\ a.caminho \in DOMAIN arquivos
                                      /\ arquivos[a.caminho].inteiro
                                      /\ Fluxo[arquivos[a.caminho].doc].chave = a.chave
  BY DEF InvSaida, TiposSaida, LinhaTemSeuXml
<1>4. \/ l \in indice /\ l.chave # nova.chave
      \/ l = nova
      \/ \E a \in indice : a.chave = nova.chave /\ l = LinhaAtualizada(a, nova)
  BY <1>1 DEF IndiceCom
<1>5. CASE l \in indice /\ l.chave # nova.chave
  BY <1>2, <1>3, <1>5
<1>6. CASE l = nova
  BY <1>2, <1>6
<1>7. ASSUME NEW a \in indice, a.chave = nova.chave, l = LinhaAtualizada(a, nova)
      PROVE  /\ DOMAIN l = DOMAIN a /\ l.chave = a.chave /\ l.de = nova.de
             /\ l.caminho = a.caminho \/ l.caminho = nova.caminho
  <2>1. PICK c : c = Caminho(a, nova)
    OBVIOUS
  <2>2. c = a.caminho \/ c = nova.caminho
    BY <2>1 DEF Caminho
  <2>3. l = [a EXCEPT !.caminho = c, !.de = nova.de]
    BY <1>7, <2>1 DEF LinhaAtualizada
  <2> QED BY <1>3, <2>2, <2>3
<1>8. CASE \E a \in indice : a.chave = nova.chave /\ l = LinhaAtualizada(a, nova)
  <2>1. PICK a \in indice : a.chave = nova.chave /\ l = LinhaAtualizada(a, nova)
    BY <1>8
  <2>2. /\ DOMAIN l = DOMAIN a /\ l.chave = a.chave /\ l.de = nova.de
        /\ l.caminho = a.caminho \/ l.caminho = nova.caminho
    BY <1>7, <2>1
  <2> QED BY <1>2, <1>3, <2>1, <2>2
<1> QED BY <1>4, <1>5, <1>6, <1>8

-----------------------------------------------------------------------------
LEMMA InicioMantem ==
  ASSUME InvSaida, IniciarMotor
  PROVE  InvSaida'
<1>1. PICK inicio \in 0..confirmado :
        motor' = [fase |-> "chamada", consulta |-> consultas + 1, nsu |-> inicio, falhas |-> 0,
                  feito |-> inicio, ate |-> inicio, caminho |-> SemXml]
  BY DEF IniciarMotor
<1>2. UNCHANGED <<arquivos, existe, indice, ocorrencias, confirmado, ingeridos, quedas>>
  BY DEF IniciarMotor
<1>3. TiposSaida'
  BY ConstantesSaida, <1>1, <1>2 DEF InvSaida, TiposSaida, IniciarMotor, Fases
<1>4. MotorCoerente' /\ LinhaTemSeuXml'
  BY <1>1, <1>2 DEF InvSaida, MotorCoerente, LinhaTemSeuXml, Gravando, IniciarMotor
<1>5. NadaFicaParaTras'
  BY <1>2 DEF InvSaida, NadaFicaParaTras
<1>6. motor'.fase = "chamada" /\ motor'.feito = inicio /\ inicio \in Nat /\ inicio <= confirmado
  BY <1>1 DEF InvSaida, TiposSaida
<1>7. Percorrido'
  BY <1>2, <1>5, <1>6 DEF Percorrido, NadaFicaParaTras, InvSaida, TiposSaida
<1> QED BY <1>3, <1>4, <1>5, <1>7 DEF InvSaida

\* Asking, discarding a document too old and ending a lot touch no file.
LEMMA PassoQuieto ==
  ASSUME InvSaida,
         UNCHANGED <<arquivos, existe, indice, ocorrencias, confirmado, ingeridos, consultas>>,
         motor.fase # "parado", motor'.fase \in {"chamada", "documento"},
         motor'.consulta = motor.consulta, DOMAIN motor' = DOMAIN motor,
         motor'.nsu \in Nat, motor'.feito \in Nat, motor'.ate \in Nat,
         motor'.nsu <= motor'.feito, motor'.feito <= motor'.ate, motor'.ate <= Len(Fluxo),
         motor'.fase = "chamada" => motor'.nsu = motor'.feito,
         \A n \in 1..motor'.feito : n \in 1..motor.feito \/ Fluxo[n].xml # "bom"
  PROVE  InvSaida'
<1>1. TiposSaida'
  BY DEF InvSaida, TiposSaida, Fases
<1>2. MotorCoerente' /\ LinhaTemSeuXml' /\ NadaFicaParaTras'
  BY DEF InvSaida, MotorCoerente, LinhaTemSeuXml, NadaFicaParaTras, Gravando
<1>3. ASSUME NEW n \in 1..motor'.feito, Fluxo[n].xml = "bom"
      PROVE  n \in ingeridos' \/ (Tocadas(n) /\ Anotado(n))'
  <2>1. n \in 1..motor.feito
    BY <1>3
  <2> QED BY <1>3, <2>1, FicamAnotados
<1>4. Percorrido'
  BY <1>3 DEF Percorrido
<1> QED BY <1>1, <1>2, <1>4 DEF InvSaida

LEMMA PassosQuietos ==
  ASSUME InvSaida, ReceberDocumentos \/ DescartarDocumento \/ TerminarLote
  PROVE  InvSaida'
<1>1. CASE ReceberDocumentos
  <2>1. PICK ate \in (motor.nsu + 1)..Len(Fluxo) :
          motor' = [motor EXCEPT !.fase = "documento", !.ate = ate]
    BY <1>1 DEF ReceberDocumentos
  <2>2. motor.fase = "chamada" /\ motor.nsu = motor.feito
    BY <1>1 DEF ReceberDocumentos, InvSaida, MotorCoerente
  <2>3. UNCHANGED <<arquivos, existe, indice, ocorrencias, confirmado, ingeridos, consultas>>
    BY <1>1 DEF ReceberDocumentos
  <2>4. /\ motor'.fase = "documento" /\ motor'.ate = ate /\ motor'.nsu = motor.nsu
        /\ motor'.feito = motor.feito /\ motor'.consulta = motor.consulta /\ DOMAIN motor' = DOMAIN motor
    BY <2>1 DEF InvSaida, TiposSaida
  <2>5. ate \in Nat /\ motor.feito <= ate /\ ate <= Len(Fluxo)
    BY ConstantesSaida, <2>1, <2>2 DEF InvSaida, TiposSaida
  <2>6. motor.nsu \in Nat /\ motor.feito \in Nat /\ motor.nsu <= motor.feito
    BY DEF InvSaida, TiposSaida
  <2> QED BY <2>2, <2>3, <2>4, <2>5, <2>6, PassoQuieto
<1>2. CASE DescartarDocumento
  <2>1. motor' = [motor EXCEPT !.feito = @ + 1] /\ motor.fase = "documento" /\ motor.feito < motor.ate
    BY <1>2 DEF DescartarDocumento, HaDocumento
  <2>2. Fluxo[motor.feito + 1].xml # "bom"
    BY <1>2 DEF DescartarDocumento, Documento
  <2>3. UNCHANGED <<arquivos, existe, indice, ocorrencias, confirmado, ingeridos, consultas>>
    BY <1>2 DEF DescartarDocumento
  <2>4. /\ motor'.fase = "documento" /\ motor'.ate = motor.ate /\ motor'.nsu = motor.nsu
        /\ motor'.feito = motor.feito + 1 /\ motor'.consulta = motor.consulta
        /\ DOMAIN motor' = DOMAIN motor
    BY <2>1 DEF InvSaida, TiposSaida
  <2>5. /\ motor.nsu \in Nat /\ motor.feito \in Nat /\ motor.ate \in Nat
        /\ motor.nsu <= motor.feito /\ motor.ate <= Len(Fluxo)
    BY DEF InvSaida, TiposSaida
  <2>6. \A n \in 1..(motor.feito + 1) : n \in 1..motor.feito \/ Fluxo[n].xml # "bom"
    BY <2>2, <2>5
  <2>7. motor.feito + 1 \in Nat /\ motor.nsu <= motor.feito + 1 /\ motor.feito + 1 <= motor.ate
    BY <2>1, <2>5
  <2> QED BY <2>1, <2>3, <2>4, <2>5, <2>6, <2>7, PassoQuieto
<1>3. CASE TerminarLote
  <2>1. /\ motor' = [motor EXCEPT !.fase = "chamada", !.nsu = motor.ate, !.falhas = 0]
        /\ motor.fase = "documento" /\ motor.feito = motor.ate
    BY <1>3 DEF TerminarLote
  <2>2. UNCHANGED <<arquivos, existe, indice, ocorrencias, confirmado, ingeridos, consultas>>
    BY <1>3 DEF TerminarLote
  <2>3. /\ motor'.fase = "chamada" /\ motor'.ate = motor.ate /\ motor'.nsu = motor.ate
        /\ motor'.feito = motor.feito /\ motor'.consulta = motor.consulta
        /\ DOMAIN motor' = DOMAIN motor
    BY <2>1 DEF InvSaida, TiposSaida
  <2>4. motor.feito \in Nat /\ motor.ate \in Nat /\ motor.ate <= Len(Fluxo) /\ motor.feito <= motor.feito
    BY DEF InvSaida, TiposSaida
  <2> QED BY <2>1, <2>2, <2>3, <2>4, PassoQuieto
<1> QED BY <1>1, <1>2, <1>3

\* A consulta that ends without the final ingestion leaves rows that are good.
LEMMA FimMantem ==
  ASSUME InvSaida, motor' = MotorParado,
         UNCHANGED <<arquivos, confirmado, ingeridos, consultas>>,
         \A l \in indice' \cup ocorrencias' :
           /\ DOMAIN l = {"chave", "evento", "primeiro", "caminho", "de"}
           /\ l.caminho # SemXml => /\ l.caminho \in DOMAIN arquivos
                                    /\ arquivos[l.caminho].inteiro
                                    /\ Fluxo[arquivos[l.caminho].doc].chave = l.chave
  PROVE  InvSaida'
<1>1. /\ motor'.fase = "parado" /\ motor'.nsu = 0 /\ motor'.feito = 0 /\ motor'.ate = 0
      /\ DOMAIN motor' = {"fase", "consulta", "nsu", "falhas", "feito", "ate", "caminho"}
  BY DEF MotorParado
<1>2. TiposSaida'
  BY ConstantesSaida, <1>1 DEF InvSaida, TiposSaida, Fases
<1>3. MotorCoerente' /\ LinhaTemSeuXml' /\ NadaFicaParaTras' /\ Percorrido'
  BY <1>1 DEF InvSaida, MotorCoerente, LinhaTemSeuXml, NadaFicaParaTras, Percorrido, Gravando
<1> QED BY <1>2, <1>3 DEF InvSaida

LEMMA LinhasBoas ==
  ASSUME InvSaida, NEW l \in indice \cup ocorrencias
  PROVE  /\ DOMAIN l = {"chave", "evento", "primeiro", "caminho", "de"}
         /\ l.caminho # SemXml => /\ l.caminho \in DOMAIN arquivos
                                  /\ arquivos[l.caminho].inteiro
                                  /\ Fluxo[arquivos[l.caminho].doc].chave = l.chave
BY DEF InvSaida, TiposSaida, LinhaTemSeuXml

\* The occurrences it leaves: its own, and those of the other NSUs.
LEMMA LinhasDasOcorrencias ==
  ASSUME InvSaida, motor.fase = "ocorrencias", NEW l \in OcorrenciasCom(LinhaDoDocumento)
  PROVE  /\ DOMAIN l = {"chave", "evento", "primeiro", "caminho", "de"}
         /\ l.caminho # SemXml => /\ l.caminho \in DOMAIN arquivos
                                  /\ arquivos[l.caminho].inteiro
                                  /\ Fluxo[arquivos[l.caminho].doc].chave = l.chave
<1>1. PICK nova : nova = LinhaDoDocumento
  OBVIOUS
<1>2. l \in ocorrencias \/ l = nova
  BY <1>1 DEF OcorrenciasCom
<1>3. CASE l \in ocorrencias
  BY <1>3, LinhasBoas
<1>4. CASE l = nova
  BY <1>1, <1>4, LinhaDoDocumentoBoa DEF Gravando
<1> QED BY <1>2, <1>3, <1>4

LEMMA QuedaMantem ==
  ASSUME InvSaida, CairMotor \/ CairNoIndice \/ CairNasOcorrencias
  PROVE  InvSaida'
<1>1. motor' = MotorParado /\ UNCHANGED <<arquivos, confirmado, ingeridos, consultas>>
  BY DEF CairMotor, CairNoIndice, CairNasOcorrencias, Morrer
<1>2. CASE CairMotor
  <2>1. indice' = indice /\ ocorrencias' = ocorrencias
    BY <1>2 DEF CairMotor
  <2> QED BY <1>1, <2>1, LinhasBoas, FimMantem
<1>3. CASE CairNoIndice
  <2>1. indice' \subseteq IndiceCom(LinhaDoDocumento) /\ ocorrencias' = ocorrencias
    BY <1>3 DEF CairNoIndice, Comeco
  <2>2. motor.fase = "indice"
    BY <1>3 DEF CairNoIndice
  <2> QED BY <1>1, <2>1, <2>2, LinhasBoas, LinhasDoIndice, FimMantem
<1>4. CASE CairNasOcorrencias
  <2>1. ocorrencias' \subseteq OcorrenciasCom(LinhaDoDocumento) /\ indice' = indice
    BY <1>4 DEF CairNasOcorrencias, Comeco
  <2>2. motor.fase = "ocorrencias"
    BY <1>4 DEF CairNasOcorrencias
  <2> QED BY <1>1, <2>1, <2>2, LinhasBoas, LinhasDasOcorrencias, FimMantem
<1> QED BY <1>2, <1>3, <1>4

LEMMA FalhaMantem ==
  ASSUME InvSaida, FalharChamada
  PROVE  InvSaida'
<1>1. UNCHANGED <<arquivos, existe, indice, ocorrencias, confirmado, ingeridos, consultas>>
  BY DEF FalharChamada
<1>2. CASE motor' = [motor EXCEPT !.falhas = @ + 1]
  <2>1. motor.fase = "chamada" /\ motor.nsu = motor.feito
    BY DEF FalharChamada, InvSaida, MotorCoerente
  <2>2. /\ motor'.fase = "chamada" /\ motor'.ate = motor.ate /\ motor'.nsu = motor.nsu
        /\ motor'.feito = motor.feito /\ motor'.consulta = motor.consulta
        /\ DOMAIN motor' = DOMAIN motor
    BY <1>2, <2>1 DEF InvSaida, TiposSaida
  <2>3. /\ motor.nsu \in Nat /\ motor.feito \in Nat /\ motor.ate \in Nat
        /\ motor.nsu <= motor.feito /\ motor.feito <= motor.ate /\ motor.ate <= Len(Fluxo)
    BY DEF InvSaida, TiposSaida
  <2> QED BY <1>1, <2>1, <2>2, <2>3, PassoQuieto
<1>3. CASE motor' = MotorParado
  BY <1>1, <1>3, LinhasBoas, FimMantem
<1> QED BY <1>2, <1>3 DEF FalharChamada

\* What was gone through and was not ingested, this ingestion reads.
LEMMA AnotadoEhLido ==
  ASSUME InvSaida, NEW n \in Nsus, Tocadas(n), Anotado(n)
  PROVE  n \in Lidos
<1>1. PICK o \in ocorrencias : /\ o.primeiro = n /\ o.de = motor.consulta
                               /\ o.caminho # SemXml /\ arquivos[o.caminho].doc = n
  BY DEF Anotado
<1>2. existe
  BY DEF Tocadas
<1>3. \E l \in indice \cup ForaDoIndice : /\ l.de = motor.consulta /\ l.caminho # SemXml
                                          /\ l.caminho = o.caminho
  <2>1. CASE \A l \in indice : l.caminho # o.caminho
    BY <1>1, <2>1 DEF ForaDoIndice
  <2>2. CASE \E l \in indice : l.caminho = o.caminho
    <3>1. PICK l \in indice : l.caminho = o.caminho
      BY <2>2
    <3>2. Fluxo[n].chave = l.chave
      BY <1>1, <3>1, LinhasBoas
    <3> QED BY <1>1, <3>1, <3>2 DEF Tocadas
  <2> QED BY <2>1, <2>2
<1> QED BY <1>1, <1>2, <1>3 DEF Lidos

LEMMA FinalMantem ==
  ASSUME InvSaida, EncerrarMotor
  PROVE  InvSaida'
<1>1. /\ motor.fase = "chamada" /\ motor' = MotorParado
      /\ ingeridos' = ingeridos \cup Lidos /\ confirmado' = Max({confirmado, motor.nsu})
      /\ UNCHANGED <<arquivos, existe, indice, ocorrencias, consultas>>
  BY DEF EncerrarMotor
<1>2. motor.nsu = motor.feito /\ motor.feito \in 0..Len(Fluxo) /\ confirmado \in 0..Len(Fluxo)
  BY ConstantesSaida, <1>1 DEF InvSaida, MotorCoerente, TiposSaida
<1>3. confirmado' \in {confirmado, motor.nsu}
  <2>1. \E x \in {confirmado, motor.nsu} : \A y \in {confirmado, motor.nsu} : x >= y
    BY ConstantesSaida, <1>2
  <2> QED BY <1>1, <2>1 DEF Max
<1>4. /\ motor'.fase = "parado" /\ motor'.nsu = 0 /\ motor'.feito = 0 /\ motor'.ate = 0
      /\ DOMAIN motor' = {"fase", "consulta", "nsu", "falhas", "feito", "ate", "caminho"}
  BY <1>1 DEF MotorParado
<1>5. TiposSaida'
  BY ConstantesSaida, <1>1, <1>2, <1>3, <1>4 DEF InvSaida, TiposSaida, Fases
<1>6. MotorCoerente' /\ LinhaTemSeuXml' /\ Percorrido'
  BY <1>1, <1>4 DEF InvSaida, MotorCoerente, LinhaTemSeuXml, Percorrido, Gravando
<1>7. ASSUME NEW n \in 1..motor.feito, Fluxo[n].xml = "bom" PROVE n \in ingeridos'
  <2>1. n \in Nsus
    BY ConstantesSaida, <1>2 DEF Nsus
  <2>2. n \in ingeridos \/ (Tocadas(n) /\ Anotado(n))
    BY <1>1, <1>7 DEF InvSaida, Percorrido
  <2> QED BY <1>1, <2>1, <2>2, AnotadoEhLido
<1>8. NadaFicaParaTras'
  <2>1. CASE confirmado' = confirmado
    BY <1>1, <2>1 DEF InvSaida, NadaFicaParaTras
  <2>2. CASE confirmado' = motor.nsu
    BY <1>2, <1>7, <2>2 DEF NadaFicaParaTras
  <2> QED BY <1>3, <2>1, <2>2
<1> QED BY <1>5, <1>6, <1>8 DEF InvSaida

\* Writing an XML: no file changes its document nor stops being whole, and the
\* path of the document under way is of a file that holds it.
LEMMA EscreverXml ==
  ASSUME InvSaida, UNCHANGED <<existe, indice, ocorrencias, confirmado, ingeridos, consultas>>,
         IsFiniteSet(DOMAIN arquivos'), DOMAIN arquivos \subseteq DOMAIN arquivos',
         \A c \in DOMAIN arquivos' : DOMAIN arquivos'[c] = {"doc", "inteiro", "de"},
         \A c \in DOMAIN arquivos : /\ arquivos'[c].doc = arquivos[c].doc
                                    /\ arquivos[c].inteiro => arquivos'[c].inteiro,
         motor.fase \in {"documento", "xml"}, motor'.fase \in {"xml", "indice"},
         NEW c, motor' = [motor EXCEPT !.fase = motor'.fase, !.caminho = c],
         motor.feito < motor.ate,
         c = SemXml => Fluxo[Documento].xml # "bom" /\ motor'.fase # "xml",
         c # SemXml => /\ c \in DOMAIN arquivos' /\ arquivos'[c].doc = Documento
                       /\ motor'.fase # "xml" => arquivos'[c].inteiro
  PROVE  InvSaida'
<1>1. /\ motor'.caminho = c /\ motor'.feito = motor.feito /\ motor'.ate = motor.ate
      /\ motor'.nsu = motor.nsu /\ motor'.consulta = motor.consulta /\ DOMAIN motor' = DOMAIN motor
  BY DEF InvSaida, TiposSaida
<1>2. TiposSaida'
  BY <1>1 DEF InvSaida, TiposSaida, Fases
<1>3. MotorCoerente'
  <2>1. Documento' = Documento
    BY <1>1 DEF Documento
  <2> QED BY <1>1, <2>1 DEF InvSaida, MotorCoerente
<1>4. LinhaTemSeuXml' /\ NadaFicaParaTras'
  <2>1. ASSUME NEW l \in indice \cup ocorrencias, l.caminho # SemXml
        PROVE  /\ l.caminho \in DOMAIN arquivos' /\ arquivos'[l.caminho].inteiro
               /\ Fluxo[arquivos'[l.caminho].doc].chave = l.chave
    BY <2>1, LinhasBoas
  <2>2. LinhaTemSeuXml'
    BY <2>1 DEF LinhaTemSeuXml
  <2>3. NadaFicaParaTras'
    BY DEF InvSaida, NadaFicaParaTras
  <2> QED BY <2>2, <2>3
<1>5. Percorrido'
  <2>1. ASSUME NEW n \in 1..motor'.feito, Fluxo[n].xml = "bom"
        PROVE  n \in ingeridos' \/ (Tocadas(n) /\ Anotado(n))'
    BY <1>1, <2>1, FicamAnotados
  <2> QED BY <2>1 DEF Percorrido
<1> QED BY <1>2, <1>3, <1>4, <1>5 DEF InvSaida

LEMMA ComecoDoXmlMantem ==
  ASSUME InvSaida, ComecarXml
  PROVE  InvSaida'
<1> DEFINE n == Documento
<1>1. PICK c : c = IF Fluxo[n].xml = "ausente" THEN SemXml ELSE CaminhoXml(n)
  OBVIOUS
<1>2. /\ motor.fase = "documento" /\ motor.feito < motor.ate /\ Fluxo[n].xml # "velho"
      /\ UNCHANGED <<existe, indice, ocorrencias, confirmado, ingeridos, consultas>>
  BY DEF ComecarXml, HaDocumento
<1>3. n \in Nsus /\ Fluxo[n].xml \in {"bom", "ausente"}
  BY ConstantesSaida, <1>2, DocumentoDoFluxo DEF InvSaida
<1>4. /\ c = SemXml => Fluxo[n].xml = "ausente"
      /\ c # SemXml => Usavel(c, n)
  BY <1>1, <1>3, CaminhoUsavel DEF InvSaida
<1>5. DOMAIN motor = {"fase", "consulta", "nsu", "falhas", "feito", "ate", "caminho"}
  BY DEF InvSaida, TiposSaida
<1>6. CASE c = SemXml \/ c \in DOMAIN arquivos
  <2>1. arquivos' = arquivos /\ motor' = [motor EXCEPT !.fase = "indice", !.caminho = c]
    BY <1>1, <1>6 DEF ComecarXml
  <2>2. motor'.fase = "indice" /\ motor' = [motor EXCEPT !.fase = motor'.fase, !.caminho = c]
    BY <1>5, <2>1
  <2>3. c # SemXml => c \in DOMAIN arquivos /\ arquivos[c].doc = n /\ arquivos[c].inteiro
    BY <1>4, <1>6 DEF Usavel
  <2>4. /\ IsFiniteSet(DOMAIN arquivos)
        /\ \A x \in DOMAIN arquivos : DOMAIN arquivos[x] = {"doc", "inteiro", "de"}
    BY DEF InvSaida, TiposSaida
  <2> QED BY <1>2, <1>4, <2>1, <2>2, <2>3, <2>4, EscreverXml
<1>7. CASE c # SemXml /\ c \notin DOMAIN arquivos
  <2>1. PICK f : f = [doc |-> n, inteiro |-> FALSE, de |-> consultas]
    OBVIOUS
  <2>2. f.doc = n /\ DOMAIN f = {"doc", "inteiro", "de"}
    BY <2>1
  <2>3. arquivos' = ComArquivo(c, f) /\ motor' = [motor EXCEPT !.fase = "xml", !.caminho = c]
    BY <1>1, <1>7, <2>1 DEF ComecarXml
  <2>4. motor'.fase = "xml" /\ motor' = [motor EXCEPT !.fase = motor'.fase, !.caminho = c]
    BY <1>5, <2>3
  <2>5. /\ DOMAIN arquivos' = DOMAIN arquivos \cup {c} /\ arquivos'[c] = f
        /\ \A x \in DOMAIN arquivos : arquivos'[x] = arquivos[x]
    BY <1>7, <2>3 DEF ComArquivo
  <2>6. /\ IsFiniteSet(DOMAIN arquivos')
        /\ \A x \in DOMAIN arquivos' : DOMAIN arquivos'[x] = {"doc", "inteiro", "de"}
    BY <2>2, <2>5, FS_AddElement DEF InvSaida, TiposSaida
  <2> HIDE DEF n
  <2> QED BY <1>2, <1>4, <1>7, <2>2, <2>4, <2>5, <2>6, EscreverXml DEF n
<1> QED BY <1>6, <1>7

LEMMA FimDoXmlMantem ==
  ASSUME InvSaida, TerminarXml
  PROVE  InvSaida'
<1>1. PICK c : c = motor.caminho
  OBVIOUS
<1>2. /\ motor.fase = "xml" /\ arquivos' = [arquivos EXCEPT ![c].inteiro = TRUE]
      /\ motor' = [motor EXCEPT !.fase = "indice"]
      /\ UNCHANGED <<existe, indice, ocorrencias, confirmado, ingeridos, consultas>>
  BY <1>1 DEF TerminarXml
<1>3. c # SemXml /\ c \in DOMAIN arquivos /\ arquivos[c].doc = Documento /\ motor.feito < motor.ate
  BY <1>1, <1>2 DEF InvSaida, MotorCoerente, Gravando
<1>4. DOMAIN arquivos[c] = {"doc", "inteiro", "de"}
  BY <1>3 DEF InvSaida, TiposSaida
<1>5. PICK f : f = [arquivos[c] EXCEPT !.inteiro = TRUE]
  OBVIOUS
<1>6. f.doc = arquivos[c].doc /\ DOMAIN f = {"doc", "inteiro", "de"}
  BY <1>4, <1>5
<1>7. f.inteiro
  <2>1. "inteiro" \in DOMAIN arquivos[c]
    BY <1>4
  <2> QED BY <1>5, <2>1, Zenon
<1>8. /\ DOMAIN arquivos' = DOMAIN arquivos /\ arquivos'[c] = f
      /\ \A x \in DOMAIN arquivos : x # c => arquivos'[x] = arquivos[x]
  <2>1. arquivos' = [arquivos EXCEPT ![c] = f]
    BY <1>2, <1>5
  <2> QED BY <1>3, <2>1
<1>9. /\ IsFiniteSet(DOMAIN arquivos')
      /\ \A x \in DOMAIN arquivos' : DOMAIN arquivos'[x] = {"doc", "inteiro", "de"}
  BY <1>6, <1>8 DEF InvSaida, TiposSaida
<1>10. motor'.fase = "indice" /\ motor' = [motor EXCEPT !.fase = motor'.fase, !.caminho = c]
  <2>1. motor' = [x \in DOMAIN motor |-> IF x = "fase" THEN "indice" ELSE motor[x]]
    BY <1>2
  <2>2. DOMAIN motor = {"fase", "consulta", "nsu", "falhas", "feito", "ate", "caminho"}
    BY DEF InvSaida, TiposSaida
  <2>3. motor'.fase = "indice"
    BY <2>1, <2>2
  <2> QED BY <1>1, <2>1, <2>2, <2>3
<1> QED BY <1>2, <1>3, <1>6, <1>7, <1>8, <1>9, <1>10, EscreverXml

LEMMA IndiceMantem ==
  ASSUME InvSaida, GravarIndice
  PROVE  InvSaida'
<1>1. /\ motor.fase = "indice" /\ existe' = TRUE /\ indice' = IndiceCom(LinhaDoDocumento)
      /\ motor' = [motor EXCEPT !.fase = "ocorrencias"]
      /\ UNCHANGED <<arquivos, ocorrencias, confirmado, ingeridos, consultas>>
  BY DEF GravarIndice
<1>2. /\ motor'.fase = "ocorrencias" /\ motor'.feito = motor.feito /\ motor'.ate = motor.ate
      /\ motor'.nsu = motor.nsu /\ motor'.consulta = motor.consulta
      /\ motor'.caminho = motor.caminho /\ DOMAIN motor' = DOMAIN motor
  BY <1>1 DEF InvSaida, TiposSaida
<1>3. ASSUME NEW l \in indice'
      PROVE  /\ DOMAIN l = {"chave", "evento", "primeiro", "caminho", "de"}
             /\ l.caminho # SemXml => /\ l.caminho \in DOMAIN arquivos /\ arquivos[l.caminho].inteiro
                                      /\ Fluxo[arquivos[l.caminho].doc].chave = l.chave
             /\ l \in indice \/ l.de = motor.consulta
             /\ l.chave = Fluxo[Documento].chave => l.de = motor.consulta
  BY <1>1, LinhasDoIndice
<1>4. TiposSaida'
  BY <1>1, <1>2, <1>3 DEF InvSaida, TiposSaida, Fases
<1>5. Documento' = Documento
  BY <1>2 DEF Documento
<1>6. MotorCoerente'
  BY <1>1, <1>2, <1>5 DEF InvSaida, MotorCoerente, Gravando
<1>7. LinhaTemSeuXml' /\ NadaFicaParaTras'
  <2>1. LinhaTemSeuXml'
    BY <1>1, <1>3, LinhasBoas DEF LinhaTemSeuXml
  <2>2. NadaFicaParaTras'
    BY <1>1 DEF InvSaida, NadaFicaParaTras
  <2> QED BY <2>1, <2>2
<1>8. existe'
  BY <1>1
<1>9. Percorrido'
  <2>1. ASSUME NEW n \in 1..motor.feito, Fluxo[n].xml = "bom"
        PROVE  n \in ingeridos' \/ (Tocadas(n) /\ Anotado(n))'
    <3>1. CASE n \in ingeridos
      BY <1>1, <3>1
    <3>2. CASE Tocadas(n) /\ Anotado(n)
      <4>1. Tocadas(n)'
        BY <1>2, <1>3, <1>8, <3>2 DEF Tocadas
      <4>2. Anotado(n)'
        BY <1>1, <1>2, <3>2 DEF Anotado
      <4> QED BY <4>1, <4>2
    <3> QED BY <1>1, <2>1, <3>1, <3>2 DEF InvSaida, Percorrido
  <2>2. Tocadas(Documento)'
    BY <1>2, <1>3, <1>5, <1>8 DEF Tocadas
  <2> QED BY <1>2, <2>1, <2>2 DEF Percorrido
<1> QED BY <1>4, <1>6, <1>7, <1>9 DEF InvSaida

LEMMA OcorrenciasMantem ==
  ASSUME InvSaida, GravarOcorrencias
  PROVE  InvSaida'
<1>1. /\ motor.fase = "ocorrencias" /\ ocorrencias' = OcorrenciasCom(LinhaDoDocumento)
      /\ motor' = [motor EXCEPT !.fase = "documento", !.feito = @ + 1, !.caminho = SemXml]
      /\ UNCHANGED <<arquivos, existe, indice, confirmado, ingeridos, consultas>>
  BY DEF GravarOcorrencias
<1>2. /\ motor'.fase = "documento" /\ motor'.feito = motor.feito + 1 /\ motor'.ate = motor.ate
      /\ motor'.nsu = motor.nsu /\ motor'.consulta = motor.consulta /\ DOMAIN motor' = DOMAIN motor
  BY <1>1 DEF InvSaida, TiposSaida
<1>3. PICK nova : nova = LinhaDoDocumento
  OBVIOUS
<1>4. /\ Documento = motor.feito + 1
      /\ nova.primeiro = Documento /\ nova.de = motor.consulta
      /\ Fluxo[Documento].xml = "bom" => nova.caminho # SemXml
      /\ nova.caminho # SemXml => arquivos[nova.caminho].doc = Documento
  BY <1>1, <1>3, LinhaDoDocumentoBoa DEF Gravando
<1>5. ocorrencias' = {o \in ocorrencias : o.primeiro # Documento} \cup {nova}
  BY <1>1, <1>3, <1>4 DEF OcorrenciasCom
<1>6. ASSUME NEW l \in ocorrencias'
      PROVE  /\ DOMAIN l = {"chave", "evento", "primeiro", "caminho", "de"}
             /\ l.caminho # SemXml => /\ l.caminho \in DOMAIN arquivos /\ arquivos[l.caminho].inteiro
                                      /\ Fluxo[arquivos[l.caminho].doc].chave = l.chave
  BY <1>1, LinhasDasOcorrencias
<1>7. motor.feito < motor.ate /\ motor.feito \in Nat
  BY <1>1 DEF InvSaida, MotorCoerente, Gravando, TiposSaida
<1>8. TiposSaida'
  BY ConstantesSaida, <1>1, <1>2, <1>6, <1>7 DEF InvSaida, TiposSaida, Fases
<1>9. MotorCoerente'
  BY <1>1, <1>2 DEF InvSaida, MotorCoerente, Gravando
<1>10. LinhaTemSeuXml' /\ NadaFicaParaTras'
  <2>1. LinhaTemSeuXml'
    BY <1>1, <1>6, LinhasBoas DEF LinhaTemSeuXml
  <2>2. NadaFicaParaTras'
    BY <1>1 DEF InvSaida, NadaFicaParaTras
  <2> QED BY <2>1, <2>2
<1>11. ASSUME NEW n \in 1..(motor.feito + 1), Fluxo[n].xml = "bom"
       PROVE  n \in ingeridos' \/ (Tocadas(n) /\ Anotado(n))'
  <2>1. CASE n = Documento
    <3>1. Tocadas(n)
      BY <1>1, <2>1 DEF InvSaida, Percorrido
    <3>2. Tocadas(n)'
      BY <1>1, <1>2, <3>1 DEF Tocadas
    <3>3. Anotado(n)'
      BY <1>1, <1>2, <1>4, <1>5, <1>11, <2>1 DEF Anotado
    <3> QED BY <3>2, <3>3
  <2>2. CASE n # Documento
    <3>1. n \in 1..motor.feito
      BY <1>4, <1>7, <2>2
    <3>2. CASE n \in ingeridos
      BY <1>1, <3>2
    <3>3. CASE Tocadas(n) /\ Anotado(n)
      <4>1. Tocadas(n)'
        BY <1>1, <1>2, <3>3 DEF Tocadas
      <4>2. Anotado(n)'
        BY <1>1, <1>2, <1>5, <2>2, <3>3 DEF Anotado
      <4> QED BY <4>1, <4>2
    <3> QED BY <1>1, <1>11, <3>1, <3>2, <3>3 DEF InvSaida, Percorrido
  <2> QED BY <2>1, <2>2
<1>12. Percorrido'
  BY <1>2, <1>11 DEF Percorrido
<1> QED BY <1>8, <1>9, <1>10, <1>12 DEF InvSaida

-----------------------------------------------------------------------------
\* Types, the consulta under way and its document agree with the disk, and what
\* it went through was ingested or will be: for any stream of documents, any
\* number of consultas, crashes and attempts.
THEOREM InvarianciaSaida == SpecSaida => []InvSaida
<1>1. InitSaida => InvSaida
  <2> SUFFICES ASSUME InitSaida PROVE InvSaida
    OBVIOUS
  <2>1. DOMAIN arquivos = {}
    BY DEF InitSaida
  <2>2. /\ motor.fase = "parado" /\ motor.nsu = 0 /\ motor.feito = 0 /\ motor.ate = 0
        /\ DOMAIN motor = {"fase", "consulta", "nsu", "falhas", "feito", "ate", "caminho"}
    BY DEF InitSaida, MotorParado
  <2>3. TiposSaida
    BY ConstantesSaida, <2>1, <2>2, FS_EmptySet DEF InitSaida, TiposSaida, Fases
  <2>4. MotorCoerente /\ LinhaTemSeuXml /\ Percorrido /\ NadaFicaParaTras
    BY <2>2 DEF InitSaida, MotorCoerente, LinhaTemSeuXml, Percorrido, NadaFicaParaTras, Gravando
  <2> QED BY <2>3, <2>4 DEF InvSaida
<1>2. InvSaida /\ [NextSaida]_varsSaida => InvSaida'
  <2> SUFFICES ASSUME InvSaida, [NextSaida]_varsSaida PROVE InvSaida'
    OBVIOUS
  <2>1. CASE UNCHANGED varsSaida
    BY <2>1 DEF varsSaida, InvSaida, TiposSaida, MotorCoerente, LinhaTemSeuXml, Percorrido,
                NadaFicaParaTras, Gravando, Documento, Tocadas, Anotado
  <2>2. CASE NextSaida
    BY <2>2, InicioMantem, PassosQuietos, FalhaMantem, ComecoDoXmlMantem, FimDoXmlMantem,
       IndiceMantem, OcorrenciasMantem, FinalMantem, QuedaMantem DEF NextSaida
  <2> QED BY <2>1, <2>2
<1> QED BY <1>1, <1>2, PTL DEF SpecSaida

\* Every document with an XML up to the NSU of a consulta that ended was read
\* by a final ingestion, whatever crashes left of the index and the occurrences.
THEOREM NadaSePerdeNoDisco == SpecSaida => []NadaFicaParaTras
BY InvarianciaSaida, PTL DEF InvSaida

\* The rows of both lists name whole files of their own chave, at any moment.
THEOREM LinhaNomeiaSeuXml == SpecSaida => []LinhaTemSeuXml
BY InvarianciaSaida, PTL DEF InvSaida
=============================================================================
