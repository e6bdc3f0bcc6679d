---------------------------- MODULE StatusFiscal ----------------------------
(***************************************************************************)
(* The fiscal status of a nota and the stamp of its PDF espelho.           *)
(*                                                                         *)
(* Three programs write both: the ingestion of an index (one transaction   *)
(* per line), the synchronisation of the events of one nota (the route of  *)
(* the portal and sincronizar_eventos_lote), and the operator's script     *)
(* corrigir_status_fiscal.  Each reads the rows it decides from without a  *)
(* lock, then writes; a written row is locked until the commit, and the    *)
(* PDF is stored before it.  Two of them may work on the same empresa at   *)
(* once (two certificates of one empresa, or the portal beside the worker).*)
(*                                                                         *)
(* The ORM writes only the columns that differ from the row it loaded, so  *)
(* a transaction that decides "no change" writes nothing.                  *)
(***************************************************************************)
EXTENDS Naturals, FiniteSets

CONSTANTS
    Chaves,       \* notas, by chave
    Eventos,      \* events the ADN may deliver
    Alvo,         \* [Eventos -> Chaves]
    Efeito,       \* [Eventos -> {"cancelada", "substituida", "nenhum"}]
    Substitui,    \* [Chaves -> Chaves \cup {"nenhuma", "outra"}], chSubstda
    NomePdf,      \* [Chaves -> file name of the espelho], friendly_pdf_filename
    Escritores    \* sessions that may write at once

ASSUME ConstantesStatus ==
    /\ Alvo \in [Eventos -> Chaves]
    /\ Efeito \in [Eventos -> {"cancelada", "substituida", "nenhum"}]

VARIABLES
    status,       \* committed status_documento; "fora" = no row
    pdf,          \* the row has pdf_espelho_storage_key
    registrados,  \* committed rows of eventos
    espelho,      \* the storage: what the PDF of each name shows
    tx,           \* the transaction of each session
    corrida,      \* notas whose last writers overlapped (history)
    rasgada       \* notas whose PDF and row may disagree (history)

varsStatus == <<status, pdf, registrados, espelho, tx, corrida, rasgada>>

Especiais == {"cancelada", "substituida"}
SemPdf == [nota |-> "nenhuma", carimbo |-> "nenhum"]

SemTransacao == [fase |-> "livre", tipo |-> "nenhum", alvo |-> "nenhuma", eventos |-> {},
          lido |-> "fora", novo |-> "fora", gera |-> FALSE, sozinha |-> FALSE,
          escritas |-> [c \in Chaves |-> "igual"], chavePdf |-> [c \in Chaves |-> "igual"],
          postos |-> {}, falhos |-> {}]

InitStatus ==
    /\ status = [c \in Chaves |-> "fora"]
    /\ pdf = [c \in Chaves |-> FALSE]
    /\ registrados = {}
    /\ espelho = [f \in {NomePdf[c] : c \in Chaves} |-> SemPdf]
    /\ tx = [w \in Escritores |-> SemTransacao]
    /\ corrida = {}
    /\ rasgada = {}

-----------------------------------------------------------------------------
(* Deciding the status.                                                    *)

Prioridade(s) == CASE s = "cancelada" -> 2 [] s = "substituida" -> 1 [] OTHER -> 0
Maior(S) == CHOOSE s \in S : \A t \in S : Prioridade(t) <= Prioridade(s)

EventosDe(c) == {e \in Eventos : Alvo[e] = c}

\* Statuses that a set of recorded or listed events imposes on c.
EfeitosDeEventos(c, es) == {Efeito[e] : e \in es \cap EventosDe(c)} \ {"nenhum"}

\* The prescan of the index: events on c and notas that replace c.
Previsto(c, docs) ==
    EfeitosDeEventos(c, docs \cap Eventos)
        \cup {"substituida" : m \in {d \in docs \cap Chaves : Substitui[d] = c}}

StatusFinalDefeituoso(c, docs, existente, es) ==
    Maior({"autorizada"} \cup Previsto(c, docs) \cup EfeitosDeEventos(c, es))

StatusFinalSemGravados(c, docs, existente, es) ==
    Maior({"autorizada"} \cup Previsto(c, docs) \cup ({existente} \cap Especiais))

StatusFinal(c, docs, existente, es) ==
    Maior({"autorizada"} \cup Previsto(c, docs) \cup EfeitosDeEventos(c, es)
            \cup ({existente} \cap Especiais))

\* The espelho of a nota without a stamp is reused when the object exists.
ReaproveitaDefeituoso(c, novo) == espelho[NomePdf[c]] # SemPdf
Reaproveita(c, novo) == novo \notin Especiais /\ espelho[NomePdf[c]] # SemPdf

\* The line of c would change nothing and is skipped.
Inalterada(c, docs) ==
    /\ status[c] = "autorizada"
    /\ Previsto(c, docs) = {} /\ registrados \cap EventosDe(c) = {}
    /\ Substitui[c] = "nenhuma"
    /\ pdf[c] /\ espelho[NomePdf[c]] # SemPdf

-----------------------------------------------------------------------------
(* Sessions.                                                               *)

Tocadas(t) == IF t.fase = "livre" THEN {}
              ELSE IF t.tipo = "nota" THEN {t.alvo} \cup ({Substitui[t.alvo]} \cap Chaves)
              ELSE {t.alvo}

\* w starts with the reads t; those it overlaps with are marked.
Comecar(w, t) ==
    LET rivais == {v \in Escritores \ {w} : Tocadas(tx[v]) \cap Tocadas(t) # {}} IN
    tx' = [v \in Escritores |->
              CASE v = w -> [t EXCEPT !.sozinha = (rivais = {})]
                [] v \in rivais -> [tx[v] EXCEPT !.sozinha = FALSE]
                [] OTHER -> tx[v]]

\* A row written by an open transaction is locked.
Trancada(w, c) == \E v \in Escritores \ {w} :
    /\ tx[v].fase = "gravada"
    /\ tx[v].escritas[c] # "igual" \/ tx[v].chavePdf[c] # "igual"

\* One line of the index, the XML of c; docs are the documents of the index.
LerNota(w, c, docs) ==
    /\ tx[w].fase = "livre" /\ c \in docs /\ ~Inalterada(c, docs)
    /\ LET novo == StatusFinal(c, docs, status[c], registrados)
           t == [SemTransacao EXCEPT !.fase = "lida", !.tipo = "nota", !.alvo = c,
                              !.lido = status[c], !.novo = novo,
                              !.gera = ~Reaproveita(c, novo)]
       IN Comecar(w, t)
    /\ UNCHANGED <<status, pdf, registrados, espelho, corrida, rasgada>>

\* The nota exists and the event raises its status.
Sobe(lido, es) == IF lido = "fora" THEN lido
                  ELSE Maior({lido} \cup ({Efeito[e] : e \in es} \ {"nenhum"}))

LerEventos(w, c, es) ==
    /\ tx[w].fase = "livre"
    /\ Comecar(w, [SemTransacao EXCEPT !.fase = "lida", !.tipo = "evento", !.alvo = c, !.eventos = es,
                                !.lido = status[c], !.novo = Sobe(status[c], es)])
    /\ UNCHANGED <<status, pdf, registrados, espelho, corrida, rasgada>>

\* One line of the index, the XML of an event: its nota may not be there yet.
LerLinhaEvento(w, e) == LerEventos(w, Alvo[e], {e})

\* The synchronisation of one nota: every event the ADN answers, in one transaction.
LerSincronizacao(w, c, es) == status[c] # "fora" /\ es # {} /\ LerEventos(w, c, es)

\* corrigir_status_fiscal: the status the recorded events and the replacing
\* notas it looks at impose; it looks at the XML of special notas only.  A
\* status is lowered when there is evidence: an event of any kind against a
\* cancelada, its own chSubstda against a substituida.
ImpostoPelaCorrecao(c) ==
    Maior({"autorizada"} \cup EfeitosDeEventos(c, registrados)
            \cup {"substituida" : m \in {d \in Chaves : Substitui[d] = c /\ status[d] \in Especiais}})

TemProva(c) == CASE status[c] = "cancelada" -> registrados \cap EventosDe(c) # {}
                 [] OTHER -> Substitui[c] # "nenhuma"

LerCorrecao(w, c) ==
    LET novo == ImpostoPelaCorrecao(c) IN
    /\ tx[w].fase = "livre" /\ status[c] # "fora" /\ novo # status[c]
    /\ Prioridade(novo) < Prioridade(status[c]) => TemProva(c)
    /\ Comecar(w, [SemTransacao EXCEPT !.fase = "lida", !.tipo = "correcao", !.alvo = c,
                                !.lido = status[c], !.novo = novo])
    /\ UNCHANGED <<status, pdf, registrados, espelho, corrida, rasgada>>

\* The scripts that draw the espelho again from the row they read.
LerCarimbo(w, c) ==
    /\ tx[w].fase = "livre" /\ status[c] # "fora"
    /\ Comecar(w, [SemTransacao EXCEPT !.fase = "lida", !.tipo = "carimbo", !.alvo = c,
                                !.lido = status[c], !.novo = status[c], !.gera = TRUE])
    /\ UNCHANGED <<status, pdf, registrados, espelho, corrida, rasgada>>

-----------------------------------------------------------------------------
(* Writing: the rows are locked, the PDF goes to the storage at once.       *)

Desenho(c, s) == [nota |-> c, carimbo |-> IF s \in Especiais THEN s ELSE "autorizada"]

\* The chave of the PDF is the file name, so notas may meet in it.
Por(e, c, s) == [e EXCEPT ![NomePdf[c]] = Desenho(c, s)]

\* How drawing a stamped espelho again ends: a failure is only a warning,
\* and one of the storage leaves the chave of the PDF on the row.
Resultados == {"posto", "desenhoFalhou", "gravacaoFalhou"}
ChaveDepois(c, r) == IF r = "desenhoFalhou" \/ pdf[c] THEN "igual" ELSE "com"

\* ok: the espelho of c was drawn; r: what became of the one of the replaced
\* nota (a nota that names itself has the status of its prescan already).  An INSERT of a chave that entered meanwhile fails (only Desfazer).
GravarNota(w, ok, r) ==
    LET t == tx[w]
        c == t.alvo
        marcadas == {m \in {Substitui[c]} \cap (Chaves \ {c}) : status[m] = "autorizada"}
        ganha == IF ~t.gera \/ ok THEN "com" ELSE "sem"
        poe == t.gera /\ ok /\ (t.novo \in Especiais \/ espelho[NomePdf[c]] = SemPdf)
        comMarcadas == [f \in DOMAIN espelho |->
            IF r = "posto" /\ \E m \in marcadas : NomePdf[m] = f
            THEN Desenho(CHOOSE m \in marcadas : NomePdf[m] = f, "substituida") ELSE espelho[f]]
    IN /\ t.fase = "lida" /\ t.tipo = "nota"
       /\ t.lido = "fora" => status[c] = "fora"
       /\ \A m \in marcadas \cup {c} : ~Trancada(w, m)
       /\ espelho' = IF poe THEN Por(comMarcadas, c, t.novo) ELSE comMarcadas
       /\ tx' = [tx EXCEPT ![w] = [t EXCEPT
              !.fase = "gravada",
              !.escritas = [m \in Chaves |-> CASE m = c /\ t.novo # t.lido -> t.novo
                                               [] m \in marcadas -> "substituida"
                                               [] OTHER -> "igual"],
              !.chavePdf = [m \in Chaves |-> CASE m = c /\ pdf[c] # (ganha = "com") -> ganha
                                               [] m \in marcadas -> ChaveDepois(m, r)
                                               [] OTHER -> "igual"],
              !.postos = (IF poe THEN {c} ELSE {}) \cup (IF r = "posto" THEN marcadas ELSE {}),
              !.falhos = (IF t.gera /\ ~ok THEN {c} ELSE {})
                            \cup (IF r # "posto" THEN marcadas ELSE {})]]
       /\ UNCHANGED <<status, pdf, registrados, corrida, rasgada>>

\* The rows of the events are inserted once; the espelho is stamped only when
\* the status of the nota changed.
GravarEvento(w, r) ==
    LET t == tx[w]
        sobe == {c \in {t.alvo} : t.novo # t.lido}
    IN /\ t.fase = "lida" /\ t.tipo = "evento"
       /\ \A c \in sobe : ~Trancada(w, c)
       /\ \A v \in Escritores \ {w} : tx[v].fase = "gravada"
             => tx[v].eventos \cap t.eventos \subseteq registrados
       /\ espelho' = IF r = "posto" /\ sobe # {} THEN Por(espelho, t.alvo, t.novo) ELSE espelho
       /\ tx' = [tx EXCEPT ![w] = [t EXCEPT
              !.fase = "gravada",
              !.escritas = [c \in Chaves |-> IF c \in sobe THEN t.novo ELSE "igual"],
              !.chavePdf = [c \in Chaves |-> IF c \in sobe THEN ChaveDepois(c, r) ELSE "igual"],
              !.postos = IF r = "posto" THEN sobe ELSE {},
              !.falhos = IF r = "posto" THEN {} ELSE sobe]]
       /\ UNCHANGED <<status, pdf, registrados, corrida, rasgada>>

\* The correction changes the row alone; its PDF, if asked for, comes after.
GravarCorrecao(w) ==
    /\ tx[w].fase = "lida" /\ tx[w].tipo = "correcao" /\ ~Trancada(w, tx[w].alvo)
    /\ tx' = [tx EXCEPT ![w].fase = "gravada",
                        ![w].escritas[tx[w].alvo] = tx[w].novo,
                        ![w].falhos = {tx[w].alvo}]
    /\ UNCHANGED <<status, pdf, registrados, espelho, corrida, rasgada>>

GravarCarimbo(w) ==
    /\ tx[w].fase = "lida" /\ tx[w].tipo = "carimbo" /\ ~Trancada(w, tx[w].alvo)
    /\ espelho' = Por(espelho, tx[w].alvo, tx[w].novo)
    /\ tx' = [tx EXCEPT ![w].fase = "gravada", ![w].postos = {tx[w].alvo},
                        ![w].chavePdf[tx[w].alvo] = IF pdf[tx[w].alvo] THEN "igual" ELSE "com"]
    /\ UNCHANGED <<status, pdf, registrados, corrida, rasgada>>

\* The commit.  A nota whose line was read and written with no other writer
\* around is settled again.
Confirmar(w) ==
    LET t == tx[w] IN
    /\ t.fase = "gravada"
    /\ status' = [c \in Chaves |-> IF t.escritas[c] = "igual" THEN status[c] ELSE t.escritas[c]]
    /\ pdf' = [c \in Chaves |-> IF t.chavePdf[c] = "igual" THEN pdf[c] ELSE t.chavePdf[c] = "com"]
    /\ registrados' = registrados \cup t.eventos
    /\ corrida' = IF ~t.sozinha THEN corrida \cup Tocadas(t)
                  ELSE IF t.tipo = "nota" THEN corrida \ {t.alvo} ELSE corrida
    /\ rasgada' = (IF t.sozinha THEN rasgada \ t.postos ELSE rasgada) \cup t.falhos
    /\ tx' = [tx EXCEPT ![w] = SemTransacao]
    /\ UNCHANGED espelho

\* An error or a crash undoes the rows, not the objects already stored.
Desfazer(w) ==
    /\ tx[w].fase # "livre"
    /\ rasgada' = rasgada \cup tx[w].postos
    /\ tx' = [tx EXCEPT ![w] = SemTransacao]
    /\ UNCHANGED <<status, pdf, registrados, espelho, corrida>>

Passo(w) ==
    \/ \E docs \in SUBSET (Chaves \cup Eventos), c \in Chaves : LerNota(w, c, docs)
    \/ \E e \in Eventos : LerLinhaEvento(w, e)
    \/ \E c \in Chaves : \E es \in SUBSET EventosDe(c) : LerSincronizacao(w, c, es)
    \/ \E c \in Chaves : LerCorrecao(w, c) \/ LerCarimbo(w, c)
    \/ \E ok \in BOOLEAN, r \in Resultados : GravarNota(w, ok, r)
    \/ \E r \in Resultados : GravarEvento(w, r)
    \/ GravarCorrecao(w) \/ GravarCarimbo(w)
    \/ Confirmar(w) \/ Desfazer(w)

NextStatus == \E w \in Escritores : Passo(w)
SpecStatus == InitStatus /\ [][NextStatus]_varsStatus

-----------------------------------------------------------------------------
(* Properties.                                                             *)

\* Cancelled prevails over replaced and both over the rest: no ingestion or
\* synchronisation lowers a status, in whatever order documents come, are
\* read again or are lost with the container's disk, unless two writers of
\* the nota overlapped or the operator's correction has evidence against it.
StatusNaoRegride ==
    [][\A c \in Chaves : Prioridade(status'[c]) < Prioridade(status[c])
          => c \in corrida' \/ \E w \in Escritores : tx[w].tipo = "correcao" /\ tx[w].alvo = c]_varsStatus

\* A recorded event holds on its nota even when it came first or its nota is
\* ingested later without it in the index; after an overlap of writers the
\* next ingestion of the nota, alone, settles it.
EventoGravadoVale ==
    \A e \in registrados : LET c == Alvo[e] IN
        status[c] # "fora" /\ c \notin corrida /\ Efeito[e] # "nenhum"
            => Prioridade(status[c]) >= Prioridade(Efeito[e])

\* The PDF of a nota carries the stamp of its status, unless a drawing failed
\* or was rolled back after it was stored, or writers overlapped.
CarimboAcompanha ==
    \A c \in Chaves :
        /\ pdf[c] /\ c \notin corrida \cup rasgada
        /\ \A w \in Escritores : tx[w].fase = "gravada" => c \notin tx[w].postos
        => espelho[NomePdf[c]] = Desenho(c, status[c])
=============================================================================
