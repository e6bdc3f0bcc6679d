-------------------------- MODULE StatusFiscalProofs --------------------------
(***************************************************************************)
(* Proofs about the fiscal status of the notas and the stamp of their PDFs  *)
(* (StatusFiscal), for any notas, events and replacements, and any number   *)
(* of sessions that write at once.                                          *)
(***************************************************************************)
EXTENDS StatusFiscal, TLAPS

-----------------------------------------------------------------------------
(* The inductive invariant.                                                 *)

Status == {"fora", "autorizada", "cancelada", "substituida"}
Campos == {"fase", "tipo", "alvo", "eventos", "lido", "novo", "gera", "sozinha",
           "escritas", "chavePdf", "postos", "falhos"}

\* The shape of a transaction.
Transacao(t) ==
    /\ DOMAIN t = Campos
    /\ t.fase \in {"livre", "lida", "gravada"}
    /\ t.tipo \in {"nenhum", "nota", "evento", "correcao", "carimbo"}
    /\ t.lido \in Status /\ t.novo \in Status
    /\ t.gera \in BOOLEAN /\ t.sozinha \in BOOLEAN
    /\ t.escritas \in [Chaves -> Status \cup {"igual"}]
    /\ t.chavePdf \in [Chaves -> {"igual", "com", "sem"}]
    /\ t.fase # "gravada" => /\ t.postos = {} /\ t.falhos = {}
                             /\ \A c \in Chaves : t.escritas[c] = "igual" /\ t.chavePdf[c] = "igual"

TiposStatus ==
    /\ status \in [Chaves -> Status] /\ DOMAIN pdf = Chaves
    /\ registrados \subseteq Eventos
    /\ DOMAIN espelho = {NomePdf[c] : c \in Chaves}
    /\ DOMAIN tx = Escritores /\ \A w \in Escritores : Transacao(tx[w])

\* A session is alone only while no other one touches its notas.
SozinhaSemRival ==
    \A v, w \in Escritores :
        v # w /\ tx[v].fase # "livre" /\ tx[w].fase # "livre" /\ tx[v].sozinha
            => Tocadas(tx[v]) \cap Tocadas(tx[w]) = {}

\* The events es of c say no more than s.
NaoSupera(c, es, s) ==
    \A e \in es \cap EventosDe(c) : Efeito[e] # "nenhum" => Prioridade(Efeito[e]) <= Prioridade(s)

\* What a transaction decided from what it read.
Decidiu(t) ==
    /\ t.alvo \in Chaves /\ t.tipo # "nenhum"
    /\ t.tipo \in {"nota", "evento"} => Prioridade(t.lido) <= Prioridade(t.novo)
    /\ t.tipo = "nota" => /\ t.novo # "fora"
                          /\ (~t.gera => t.novo \notin Especiais /\ espelho[NomePdf[t.alvo]] # SemPdf)
    /\ t.tipo = "evento" => /\ t.eventos \subseteq EventosDe(t.alvo)
                            /\ IF t.lido = "fora" THEN t.novo = "fora"
                               ELSE /\ NaoSupera(t.alvo, t.eventos, t.novo)
                                    /\ (t.novo # t.lido => t.novo \in Especiais)
    /\ t.tipo # "evento" => t.eventos = {}
    /\ t.tipo = "carimbo" => t.novo = t.lido

\* What it read still stands, when it is alone; and a special status that is
\* gone was taken away by a correction, which tears the PDF from the row.
AindaVale(t) ==
    /\ t.sozinha => /\ status[t.alvo] = t.lido
                    /\ (t.tipo \in {"nota", "correcao"} => NaoSupera(t.alvo, registrados, t.novo))
    /\ t.tipo # "correcao" /\ t.lido \in Especiais /\ status[t.alvo] \notin Especiais
         => t.alvo \in rasgada

\* What it wrote and stored: rows of the notas it touches, the one of its own
\* nota to the status it decided, and of the nota that one replaces.
EscreveuLinhas(t) ==
    /\ \A c \in Chaves : t.escritas[c] # "igual" \/ t.chavePdf[c] # "igual" => c \in Tocadas(t)
    /\ t.postos \subseteq Tocadas(t) /\ t.falhos \subseteq Tocadas(t)
    /\ t.sozinha => \/ t.escritas[t.alvo] = "igual" /\ t.novo = t.lido
                    \/ t.escritas[t.alvo] = t.novo
    /\ \A c \in Chaves : c # t.alvo /\ t.escritas[c] # "igual" =>
         t.escritas[c] = "substituida" /\ (t.sozinha => status[c] = "autorizada")

\* A status without a stamp is written on a new row only, unless by a
\* correction; the espelho of a row that is written is drawn again, or that
\* failed, unless a nota keeps the one there is.
EscreveuPdf(t) ==
    /\ t.tipo = "correcao" => t.alvo \in t.falhos
    /\ t.tipo # "correcao" => \A c \in Chaves :
         t.escritas[c] \in {"fora", "autorizada"} => status[c] = "fora"
    /\ \A c \in Chaves \ (t.postos \cup t.falhos) :
         t.escritas[c] # "igual" \/ t.chavePdf[c] # "igual" \/ (t.tipo = "nota" /\ c = t.alvo)
            => /\ t.tipo = "nota" /\ c = t.alvo /\ t.novo \notin Especiais /\ t.escritas[c] \notin Especiais
               /\ espelho[NomePdf[c]] # SemPdf

\* What a row will be when the transaction commits.
Ficara(t, c) == IF t.escritas[c] = "igual" THEN status[c] ELSE t.escritas[c]

\* An espelho stored by a session that is alone shows what the row will be.
PostosConferem(t) ==
    t.sozinha => \A c \in t.postos \ t.falhos : espelho[NomePdf[c]] = Desenho(c, Ficara(t, c))

SessoesDecididas ==
    \A w \in Escritores : tx[w].fase # "livre" => Decidiu(tx[w]) /\ AindaVale(tx[w])

SessoesEscritas ==
    \A w \in Escritores : tx[w].fase = "gravada" => EscreveuLinhas(tx[w]) /\ EscreveuPdf(tx[w])

SessoesConferem ==
    \A w \in Escritores : tx[w].fase = "gravada" => PostosConferem(tx[w])

\* A row is written by one session at a time.
LinhasTrancadas ==
    \A v, w \in Escritores : v # w /\ tx[v].fase = "gravada" /\ tx[w].fase = "gravada" =>
        \A c \in Chaves : tx[v].escritas[c] = "igual" \/ tx[w].escritas[c] = "igual"

\* With names that differ, the PDF of a name is of its nota, and shows a
\* special status only of a nota that has one, or is about to.
Desenhos(c) == {SemPdf} \cup {Desenho(c, s) : s \in Status}

EspelhoDaNota == \A c \in Chaves : espelho[NomePdf[c]] \in Desenhos(c)

Estampa ==
    \A c \in Chaves \ rasgada :
        \/ espelho[NomePdf[c]] \in {SemPdf, Desenho(c, "autorizada")}
        \/ status[c] \in Especiais
        \/ \E w \in Escritores : /\ tx[w].fase = "gravada" /\ c \in tx[w].postos
                                 /\ tx[w].escritas[c] \in Especiais

InvStatus ==
    /\ TiposStatus /\ SozinhaSemRival /\ SessoesDecididas /\ SessoesEscritas /\ LinhasTrancadas
    /\ EventoGravadoVale

NomesDistintos == \A c, d \in Chaves : NomePdf[c] = NomePdf[d] => c = d

InvCarimbo == /\ InvStatus /\ SessoesConferem /\ EspelhoDaNota /\ Estampa /\ CarimboAcompanha

-----------------------------------------------------------------------------
(* The operators.                                                           *)

\* Of some statuses, the one that prevails over the others.
LEMMA MaiorPrevalece ==
    ASSUME NEW S \in SUBSET Status, S # {}
    PROVE  Maior(S) \in S /\ \A s \in S : Prioridade(s) <= Prioridade(Maior(S))
  <1>1. \E s \in S : \A t \in S : Prioridade(t) <= Prioridade(s)
    <2>1. CASE "cancelada" \in S
      BY <2>1 DEF Prioridade, Status
    <2>2. CASE "cancelada" \notin S /\ "substituida" \in S
      BY <2>2 DEF Prioridade, Status
    <2>3. CASE "cancelada" \notin S /\ "substituida" \notin S
      BY <2>3 DEF Prioridade, Status
    <2> QED
      BY <2>1, <2>2, <2>3
  <1> QED
    BY <1>1 DEF Maior

\* A status with a stamp is one with a priority.
LEMMA PrioridadeDosEspeciais ==
    ASSUME NEW s \in Status
    PROVE  /\ Prioridade(s) \in 0..2
           /\ s \in Especiais <=> Prioridade(s) > 0
  BY DEF Prioridade, Status, Especiais

\* What the ingestion decides: no less than the row, than the events that are
\* recorded, and than the nota that replaces it in the index.
LEMMA StatusFinalVale ==
    ASSUME TiposStatus, NEW c \in Chaves, NEW docs \in SUBSET (Chaves \cup Eventos),
           NEW es \in SUBSET Eventos
    PROVE  LET novo == StatusFinal(c, docs, status[c], es) IN
             /\ novo \in Status \ {"fora"}
             /\ Prioridade(status[c]) <= Prioridade(novo)
             /\ NaoSupera(c, es, novo)
  <1> DEFINE S == {"autorizada"} \cup Previsto(c, docs) \cup EfeitosDeEventos(c, es)
                     \cup ({status[c]} \cap Especiais)
             novo == StatusFinal(c, docs, status[c], es)
  <1>1. \A e \in Eventos : Efeito[e] \in {"cancelada", "substituida", "nenhum"}
    BY ConstantesStatus
  <1>2. EfeitosDeEventos(c, es) \subseteq Especiais /\ Previsto(c, docs) \subseteq Especiais
    BY <1>1 DEF EfeitosDeEventos, Previsto, EventosDe, Especiais
  <1>3. S \subseteq Status \ {"fora"} /\ "autorizada" \in S /\ status[c] \in Status
    BY <1>2 DEF Especiais, Status, TiposStatus
  <1>4. novo = Maior(S)
    BY DEF StatusFinal
  <1>5. novo \in S /\ \A s \in S : Prioridade(s) <= Prioridade(novo)
    BY <1>3, <1>4, MaiorPrevalece
  <1>6. Prioridade(status[c]) <= Prioridade(novo)
    <2>1. CASE status[c] \in Especiais
      BY <1>5, <2>1
    <2>2. CASE status[c] \notin Especiais
      BY <1>3, <1>5, <2>2, PrioridadeDosEspeciais
    <2> QED
      BY <2>1, <2>2
  <1>7. NaoSupera(c, es, novo)
    BY <1>5 DEF NaoSupera, EfeitosDeEventos
  <1> QED
    BY <1>3, <1>5, <1>6, <1>7

\* What the line or the synchronisation of some events decides.
LEMMA SobeVale ==
    ASSUME NEW c \in Chaves, NEW lido \in Status, NEW es \in SUBSET EventosDe(c)
    PROVE  /\ Sobe(lido, es) \in Status
           /\ Prioridade(lido) <= Prioridade(Sobe(lido, es))
           /\ lido = "fora" => Sobe(lido, es) = "fora"
           /\ lido # "fora" => /\ NaoSupera(c, es, Sobe(lido, es))
                               /\ Sobe(lido, es) # lido => Sobe(lido, es) \in Especiais
  <1>1. CASE lido = "fora"
    BY <1>1, PrioridadeDosEspeciais DEF Sobe
  <1>2. CASE lido # "fora"
    <2> DEFINE S == {lido} \cup ({Efeito[e] : e \in es} \ {"nenhum"})
    <2>1. S \subseteq Status /\ S \ {lido} \subseteq Especiais
      BY ConstantesStatus DEF EventosDe, Status, Especiais
    <2>2. Sobe(lido, es) = Maior(S)
      BY <1>2 DEF Sobe
    <2>3. Sobe(lido, es) \in S /\ \A s \in S : Prioridade(s) <= Prioridade(Sobe(lido, es))
      BY <2>1, <2>2, MaiorPrevalece
    <2>4. NaoSupera(c, es, Sobe(lido, es))
      BY <2>3 DEF NaoSupera
    <2> QED
      BY <1>2, <2>1, <2>3, <2>4
  <1> QED
    BY <1>1, <1>2

\* What the correction decides.
LEMMA CorrecaoVale ==
    ASSUME TiposStatus, NEW c \in Chaves
    PROVE  ImpostoPelaCorrecao(c) \in Status /\ NaoSupera(c, registrados, ImpostoPelaCorrecao(c))
  <1> DEFINE S == {"autorizada"} \cup EfeitosDeEventos(c, registrados)
            \cup {"substituida" : m \in {d \in Chaves : Substitui[d] = c /\ status[d] \in Especiais}}
  <1>1. EfeitosDeEventos(c, registrados) \subseteq Especiais
    BY ConstantesStatus DEF EfeitosDeEventos, EventosDe, Especiais
  <1>2. S \subseteq Status /\ S # {}
    BY <1>1 DEF Especiais, Status
  <1>3. \A s \in S : Prioridade(s) <= Prioridade(Maior(S))
    BY <1>2, MaiorPrevalece
  <1>4. Maior(S) \in Status
    BY <1>2, MaiorPrevalece
  <1> QED
    BY <1>3, <1>4 DEF ImpostoPelaCorrecao, NaoSupera, EfeitosDeEventos

-----------------------------------------------------------------------------
(* What a step does to the sessions.                                        *)

\* The same transaction, alone or not.
Iguais(u, t) ==
    /\ DOMAIN u = DOMAIN t /\ u.sozinha \in BOOLEAN
    /\ \A f \in Campos \ {"sozinha"} : u[f] = t[f]

\* A transaction that has just read.
Leu(t) ==
    /\ Transacao(t) /\ t.fase = "lida" /\ Decidiu(t)
    /\ status[t.alvo] = t.lido
    /\ t.tipo \in {"nota", "correcao"} => NaoSupera(t.alvo, registrados, t.novo)

Ler(w) ==
    \/ \E docs \in SUBSET (Chaves \cup Eventos), c \in Chaves : LerNota(w, c, docs)
    \/ \E e \in Eventos : LerLinhaEvento(w, e)
    \/ \E c \in Chaves : \E es \in SUBSET EventosDe(c) : LerSincronizacao(w, c, es)
    \/ \E c \in Chaves : LerCorrecao(w, c) \/ LerCarimbo(w, c)

\* A session that starts is alone if it touches what no other one touches, and
\* the ones it meets are alone no more.
LEMMA ComecarMarca ==
    ASSUME TiposStatus, NEW w \in Escritores, NEW t, Transacao(t), Comecar(w, t)
    PROVE  /\ DOMAIN tx' = Escritores /\ Iguais(tx'[w], t)
           /\ \A v \in Escritores \ {w} :
                /\ Iguais(tx'[v], tx[v])
                /\ tx'[v].sozinha => tx[v].sozinha /\ Tocadas(tx[v]) \cap Tocadas(t) = {}
                /\ tx'[w].sozinha => Tocadas(tx[v]) \cap Tocadas(t) = {}
  <1> DEFINE rivais == {v \in Escritores \ {w} : Tocadas(tx[v]) \cap Tocadas(t) # {}}
             so == (rivais = {})
  <1>1. so \in BOOLEAN /\ (so <=> rivais = {})
    OBVIOUS
  <1>2. tx' = [v \in Escritores |->
              CASE v = w -> [t EXCEPT !.sozinha = so]
                [] v \in rivais -> [tx[v] EXCEPT !.sozinha = FALSE]
                [] OTHER -> tx[v]]
    BY DEF Comecar
  <1>3. rivais \subseteq Escritores \ {w}
    OBVIOUS
  <1>4. ASSUME NEW v \in Escritores \ {w}
        PROVE  v \notin rivais => Tocadas(tx[v]) \cap Tocadas(t) = {}
    OBVIOUS
  <1> HIDE DEF so, rivais
  <1>5. tx'[w] = [t EXCEPT !.sozinha = so]
    BY <1>2, <1>3
  <1>6. Iguais(tx'[w], t) /\ tx'[w].sozinha = so
    BY <1>1, <1>5 DEF Iguais, Transacao, Campos
  <1>7. ASSUME NEW v \in Escritores \ {w}
        PROVE  Iguais(tx'[v], tx[v]) /\ (tx'[v].sozinha => tx[v].sozinha /\ v \notin rivais)
    <2>1. CASE v \in rivais
      <3>1. tx'[v] = [tx[v] EXCEPT !.sozinha = FALSE]
        BY <1>2, <1>3, <2>1
      <3> QED
        BY <3>1 DEF Iguais, TiposStatus, Transacao, Campos
    <2>2. CASE v \notin rivais
      <3>1. tx'[v] = tx[v]
        BY <1>2, <2>2
      <3> QED
        BY <3>1, <2>2 DEF Iguais, TiposStatus, Transacao
    <2> QED
      BY <2>1, <2>2
  <1>8. DOMAIN tx' = Escritores
    BY <1>2
  <1> QED
    BY <1>1, <1>4, <1>6, <1>7, <1>8

\* What does not say whether a session is alone is the same of both.
LEMMA IguaisDecidem ==
    ASSUME NEW t, NEW u, Transacao(t), Iguais(u, t)
    PROVE  /\ Transacao(u) /\ Tocadas(u) = Tocadas(t) /\ Decidiu(u) = Decidiu(t)
           /\ u.fase = t.fase /\ u.alvo = t.alvo /\ u.lido = t.lido /\ u.novo = t.novo
           /\ u.tipo = t.tipo /\ u.eventos = t.eventos /\ u.gera = t.gera
           /\ u.escritas = t.escritas /\ u.chavePdf = t.chavePdf
           /\ u.postos = t.postos /\ u.falhos = t.falhos
  <1>1. /\ u.fase = t.fase /\ u.alvo = t.alvo /\ u.lido = t.lido /\ u.novo = t.novo
        /\ u.tipo = t.tipo /\ u.eventos = t.eventos /\ u.gera = t.gera
        /\ u.escritas = t.escritas /\ u.chavePdf = t.chavePdf
        /\ u.postos = t.postos /\ u.falhos = t.falhos
    BY DEF Iguais, Campos
  <1>2. Transacao(u)
    BY <1>1 DEF Transacao, Iguais
  <1>3. Tocadas(u) = Tocadas(t)
    BY <1>1 DEF Tocadas
  <1>4. Decidiu(u) = Decidiu(t)
    BY <1>1 DEF Decidiu
  <1> QED
    BY <1>1, <1>2, <1>3, <1>4

\* Every handler that reads starts a transaction that decided from its reads.
LEMMA LeituraDecide ==
    ASSUME TiposStatus, NEW w \in Escritores, Ler(w)
    PROVE  /\ tx[w].fase = "livre"
           /\ \E t : Leu(t) /\ Comecar(w, t)
           /\ UNCHANGED <<status, pdf, registrados, espelho, corrida, rasgada>>
  <1>1. ASSUME NEW docs \in SUBSET (Chaves \cup Eventos), NEW c \in Chaves, LerNota(w, c, docs)
        PROVE  \E t : Leu(t) /\ Comecar(w, t)
    <2> DEFINE novo == StatusFinal(c, docs, status[c], registrados)
               gera == ~Reaproveita(c, novo)
               t == [SemTransacao EXCEPT !.fase = "lida", !.tipo = "nota", !.alvo = c,
                              !.lido = status[c], !.novo = novo, !.gera = gera]
    <2>1. Comecar(w, t) /\ c \in docs
      BY <1>1 DEF LerNota
    <2>2. gera \in BOOLEAN /\ (~gera => novo \notin Especiais /\ espelho[NomePdf[c]] # SemPdf)
      BY DEF Reaproveita
    <2>3. /\ novo \in Status \ {"fora"} /\ Prioridade(status[c]) <= Prioridade(novo)
          /\ NaoSupera(c, registrados, novo)
      <3>1. registrados \in SUBSET Eventos
        BY DEF TiposStatus
      <3> QED
        BY <2>1, <3>1, StatusFinalVale
    <2>4. status[c] \in Status
      BY DEF TiposStatus
    <2> HIDE DEF novo, gera
    <2>5. /\ Transacao(t) /\ t.fase = "lida" /\ t.tipo = "nota" /\ t.alvo = c /\ t.eventos = {}
          /\ t.lido = status[c] /\ t.novo = novo /\ t.gera = gera
      BY <2>2, <2>3, <2>4 DEF SemTransacao, Transacao, Campos, Status
    <2> HIDE DEF t
    <2>6. Decidiu(t)
      BY <2>2, <2>3, <2>5 DEF Decidiu
    <2> QED
      BY <2>1, <2>3, <2>5, <2>6 DEF Leu
  <1>2. ASSUME NEW c \in Chaves, NEW es \in SUBSET EventosDe(c), LerEventos(w, c, es)
        PROVE  \E t : Leu(t) /\ Comecar(w, t)
    <2> DEFINE novo == Sobe(status[c], es)
               t == [SemTransacao EXCEPT !.fase = "lida", !.tipo = "evento", !.alvo = c, !.eventos = es,
                                !.lido = status[c], !.novo = novo]
    <2>1. Comecar(w, t)
      BY <1>2 DEF LerEventos
    <2>2. status[c] \in Status
      BY DEF TiposStatus
    <2>3. /\ novo \in Status /\ Prioridade(status[c]) <= Prioridade(novo)
          /\ status[c] = "fora" => novo = "fora"
          /\ status[c] # "fora" => NaoSupera(c, es, novo) /\ (novo # status[c] => novo \in Especiais)
      BY <2>2, SobeVale
    <2> HIDE DEF novo
    <2>4. /\ Transacao(t) /\ t.fase = "lida" /\ t.tipo = "evento" /\ t.alvo = c /\ t.eventos = es
          /\ t.lido = status[c] /\ t.novo = novo
      BY <2>2, <2>3 DEF SemTransacao, Transacao, Campos, Status
    <2> HIDE DEF t
    <2>5. Decidiu(t)
      BY <2>3, <2>4 DEF Decidiu
    <2> QED
      BY <2>1, <2>4, <2>5 DEF Leu
  <1>3. ASSUME NEW c \in Chaves, LerCorrecao(w, c)
        PROVE  \E t : Leu(t) /\ Comecar(w, t)
    <2> DEFINE novo == ImpostoPelaCorrecao(c)
               t == [SemTransacao EXCEPT !.fase = "lida", !.tipo = "correcao", !.alvo = c,
                                !.lido = status[c], !.novo = novo]
    <2>1. Comecar(w, t)
      BY <1>3 DEF LerCorrecao
    <2>2. status[c] \in Status /\ novo \in Status /\ NaoSupera(c, registrados, novo)
      BY CorrecaoVale DEF TiposStatus
    <2> HIDE DEF novo
    <2>3. /\ Transacao(t) /\ t.fase = "lida" /\ t.tipo = "correcao" /\ t.alvo = c /\ t.eventos = {}
          /\ t.lido = status[c] /\ t.novo = novo
      BY <2>2 DEF SemTransacao, Transacao, Campos, Status
    <2> HIDE DEF t
    <2>4. Decidiu(t)
      BY <2>3 DEF Decidiu
    <2> QED
      BY <2>1, <2>2, <2>3, <2>4 DEF Leu
  <1>4. ASSUME NEW c \in Chaves, LerCarimbo(w, c)
        PROVE  \E t : Leu(t) /\ Comecar(w, t)
    <2> DEFINE t == [SemTransacao EXCEPT !.fase = "lida", !.tipo = "carimbo", !.alvo = c,
                                !.lido = status[c], !.novo = status[c], !.gera = TRUE]
    <2>1. Comecar(w, t)
      BY <1>4 DEF LerCarimbo
    <2>2. status[c] \in Status
      BY DEF TiposStatus
    <2>3. /\ Transacao(t) /\ t.fase = "lida" /\ t.tipo = "carimbo" /\ t.alvo = c /\ t.eventos = {}
          /\ t.lido = status[c] /\ t.novo = status[c]
      BY <2>2 DEF SemTransacao, Transacao, Campos, Status
    <2> HIDE DEF t
    <2>4. Decidiu(t)
      BY <2>3 DEF Decidiu
    <2> QED
      BY <2>1, <2>3, <2>4 DEF Leu
  <1>5. ASSUME NEW e \in Eventos, LerLinhaEvento(w, e)
        PROVE  /\ \E t : Leu(t) /\ Comecar(w, t)
               /\ tx[w].fase = "livre" /\ UNCHANGED <<status, pdf, registrados, espelho, corrida, rasgada>>
    <2>1. Alvo[e] \in Chaves /\ {e} \in SUBSET EventosDe(Alvo[e]) /\ LerEventos(w, Alvo[e], {e})
      BY <1>5, ConstantesStatus DEF LerLinhaEvento, EventosDe
    <2> QED
      BY <1>2, <2>1 DEF LerEventos
  <1> QED
    BY <1>1, <1>2, <1>3, <1>4, <1>5
    DEF Ler, LerNota, LerSincronizacao, LerEventos, LerCorrecao, LerCarimbo

-----------------------------------------------------------------------------
(* The invariant, step by step.                                             *)

\* Nothing is committed or stored: a session is where it was.
LEMMA SessaoFica ==
    ASSUME TiposStatus, NEW v \in Escritores, Iguais(tx'[v], tx[v]), tx'[v].sozinha => tx[v].sozinha,
           UNCHANGED <<status, registrados, espelho, rasgada>>
    PROVE  /\ Transacao(tx'[v]) /\ Tocadas(tx'[v]) = Tocadas(tx[v])
           /\ tx'[v].fase = tx[v].fase /\ tx'[v].escritas = tx[v].escritas
           /\ tx'[v].postos = tx[v].postos
           /\ Decidiu(tx[v]) => Decidiu(tx[v])'
           /\ AindaVale(tx[v]) => AindaVale(tx[v])'
           /\ EscreveuLinhas(tx[v]) => EscreveuLinhas(tx[v])'
           /\ EscreveuPdf(tx[v]) => EscreveuPdf(tx[v])'
           /\ PostosConferem(tx[v]) => PostosConferem(tx[v])'
  <1> DEFINE t == tx[v]
             u == tx'[v]
  <1>1. Transacao(t)
    BY DEF TiposStatus
  <1>2. /\ Transacao(u) /\ Tocadas(u) = Tocadas(t)
        /\ u.fase = t.fase /\ u.alvo = t.alvo /\ u.lido = t.lido /\ u.novo = t.novo
        /\ u.tipo = t.tipo /\ u.eventos = t.eventos /\ u.gera = t.gera
        /\ u.escritas = t.escritas /\ u.chavePdf = t.chavePdf
        /\ u.postos = t.postos /\ u.falhos = t.falhos
    BY <1>1, IguaisDecidem
  <1>3. Decidiu(tx[v]) => Decidiu(tx[v])'
    BY <1>2 DEF Decidiu
  <1>4. AindaVale(tx[v]) => AindaVale(tx[v])'
    BY <1>2 DEF AindaVale, NaoSupera
  <1>5. EscreveuLinhas(tx[v]) => EscreveuLinhas(tx[v])'
    BY <1>2 DEF EscreveuLinhas, Tocadas
  <1>6. EscreveuPdf(tx[v]) => EscreveuPdf(tx[v])'
    BY <1>2 DEF EscreveuPdf
  <1>7. PostosConferem(tx[v]) => PostosConferem(tx[v])'
    BY <1>2 DEF PostosConferem, Ficara
  <1> QED
    BY <1>2, <1>3, <1>4, <1>5, <1>6, <1>7

\* Reading keeps the invariant.
LEMMA LerMantem ==
    ASSUME InvStatus, NEW w \in Escritores, Ler(w)
    PROVE  InvStatus'
  <1> USE DEF InvStatus
  <1>1. PICK t : Leu(t) /\ Comecar(w, t)
    BY LeituraDecide
  <1>2. tx[w].fase = "livre" /\ UNCHANGED <<status, pdf, registrados, espelho, corrida, rasgada>>
    BY LeituraDecide
  <1>3. Transacao(t) /\ t.fase = "lida" /\ Decidiu(t)
    BY <1>1 DEF Leu
  <1>4. /\ DOMAIN tx' = Escritores /\ Iguais(tx'[w], t)
        /\ \A v \in Escritores \ {w} :
             /\ Iguais(tx'[v], tx[v])
             /\ tx'[v].sozinha => tx[v].sozinha /\ Tocadas(tx[v]) \cap Tocadas(t) = {}
             /\ tx'[w].sozinha => Tocadas(tx[v]) \cap Tocadas(t) = {}
    BY <1>1, <1>3, ComecarMarca
  <1>5. /\ Transacao(tx'[w]) /\ Tocadas(tx'[w]) = Tocadas(t) /\ tx'[w].fase = "lida"
        /\ Decidiu(tx[w])' /\ AindaVale(tx[w])'
    <2> DEFINE u == tx'[w]
    <2>1. /\ Transacao(u) /\ Tocadas(u) = Tocadas(t)
          /\ u.fase = t.fase /\ u.alvo = t.alvo /\ u.lido = t.lido /\ u.novo = t.novo
          /\ u.tipo = t.tipo /\ u.eventos = t.eventos /\ u.gera = t.gera
      BY <1>3, <1>4, IguaisDecidem
    <2>2. Decidiu(tx[w])'
      BY <1>2, <1>3, <2>1 DEF Decidiu
    <2>3. AindaVale(tx[w])'
      BY <1>1, <1>2, <2>1 DEF Leu, AindaVale, NaoSupera
    <2> QED
      BY <1>3, <2>1, <2>2, <2>3
  <1>6. TiposStatus'
    <2>1. ASSUME NEW v \in Escritores
          PROVE  Transacao(tx'[v])
      BY <1>2, <1>4, <1>5, SessaoFica
    <2> QED
      BY <1>2, <1>4, <2>1 DEF TiposStatus, Transacao
  <1>7. SozinhaSemRival'
    <2> SUFFICES ASSUME NEW v \in Escritores, NEW x \in Escritores, v # x,
                        tx'[v].fase # "livre", tx'[x].fase # "livre", tx'[v].sozinha
                 PROVE  Tocadas(tx'[v]) \cap Tocadas(tx'[x]) = {}
      BY DEF SozinhaSemRival, Tocadas
    <2>1. CASE v = w
      <3>1. Tocadas(tx'[x]) = Tocadas(tx[x])
        BY <1>2, <1>4, <2>1, SessaoFica
      <3> QED
        BY <1>4, <1>5, <2>1, <3>1
    <2>2. CASE v # w /\ x = w
      <3>1. Tocadas(tx'[v]) = Tocadas(tx[v])
        BY <1>2, <1>4, <2>2, SessaoFica
      <3> QED
        BY <1>4, <1>5, <2>2, <3>1
    <2>3. CASE v # w /\ x # w
      <3>1. /\ Tocadas(tx'[v]) = Tocadas(tx[v]) /\ tx'[v].fase = tx[v].fase
            /\ Tocadas(tx'[x]) = Tocadas(tx[x]) /\ tx'[x].fase = tx[x].fase
        BY <1>2, <1>4, <2>3, SessaoFica
      <3>2. tx[v].sozinha
        BY <1>4, <2>3
      <3> QED
        BY <3>1, <3>2 DEF SozinhaSemRival
    <2> QED
      BY <2>1, <2>2, <2>3
  <1>8. SessoesDecididas'
    <2> SUFFICES ASSUME NEW v \in Escritores, tx'[v].fase # "livre"
                 PROVE  Decidiu(tx[v])' /\ AindaVale(tx[v])'
      BY DEF SessoesDecididas, Decidiu, AindaVale, NaoSupera
    <2>1. CASE v # w
      BY <1>2, <1>4, <2>1, SessaoFica DEF SessoesDecididas
    <2> QED
      BY <1>5, <2>1
  <1>9. SessoesEscritas'
    <2> SUFFICES ASSUME NEW v \in Escritores, tx'[v].fase = "gravada"
                 PROVE  EscreveuLinhas(tx[v])' /\ EscreveuPdf(tx[v])'
      BY DEF SessoesEscritas, EscreveuLinhas, EscreveuPdf
    <2>1. v # w
      BY <1>5
    <2> QED
      BY <1>2, <1>4, <2>1, SessaoFica DEF SessoesEscritas
  <1>10. LinhasTrancadas'
    <2> SUFFICES ASSUME NEW v \in Escritores, NEW x \in Escritores, v # x,
                        tx'[v].fase = "gravada", tx'[x].fase = "gravada", NEW c \in Chaves
                 PROVE  tx'[v].escritas[c] = "igual" \/ tx'[x].escritas[c] = "igual"
      BY DEF LinhasTrancadas
    <2>1. v # w /\ x # w
      BY <1>5
    <2>2. /\ tx'[v].fase = tx[v].fase /\ tx'[v].escritas = tx[v].escritas
          /\ tx'[x].fase = tx[x].fase /\ tx'[x].escritas = tx[x].escritas
      BY <1>2, <1>4, <2>1, SessaoFica
    <2> QED
      BY <2>2 DEF LinhasTrancadas
  <1>11. EventoGravadoVale'
    BY <1>2 DEF EventoGravadoVale
  <1> QED
    BY <1>6, <1>7, <1>8, <1>9, <1>10, <1>11

Gravar(w) ==
    \/ \E ok \in BOOLEAN, r \in Resultados : GravarNota(w, ok, r)
    \/ \E r \in Resultados : GravarEvento(w, r)
    \/ GravarCorrecao(w) \/ GravarCarimbo(w)

\* What is the same before and after a session writes.
MesmaDecisao(u, t) ==
    /\ u.alvo = t.alvo /\ u.tipo = t.tipo /\ u.eventos = t.eventos /\ u.gera = t.gera
    /\ u.lido = t.lido /\ u.novo = t.novo /\ u.sozinha = t.sozinha

\* The storage after a session stored the espelhos of its postos.
EspelhoGuarda ==
    /\ DOMAIN espelho' = DOMAIN espelho
    /\ \A c \in Chaves : espelho[NomePdf[c]] # SemPdf => espelho'[NomePdf[c]] # SemPdf

\* A session writes rows that no other one has locked.
Escreve(w) ==
    /\ tx[w].fase = "lida" /\ DOMAIN tx' = Escritores
    /\ \A v \in Escritores \ {w} : tx'[v] = tx[v]
    /\ Transacao(tx'[w]) /\ tx'[w].fase = "gravada" /\ MesmaDecisao(tx'[w], tx[w])
    /\ EspelhoGuarda
    /\ \A c \in Chaves : tx'[w].escritas[c] # "igual" => ~Trancada(w, c)
    /\ EscreveuLinhas(tx[w])' /\ EscreveuPdf(tx[w])'
    /\ UNCHANGED <<status, pdf, registrados, corrida, rasgada>>

\* A drawing is never the absence of one.
LEMMA DesenhoMostra ==
    ASSUME NEW c, NEW s
    PROVE  Desenho(c, s) # SemPdf
  BY DEF Desenho, SemPdf, Especiais

\* What the ingestion of a line writes.
LEMMA NotaEscreve ==
    ASSUME InvStatus, NEW w \in Escritores, NEW ok \in BOOLEAN, NEW r \in Resultados, GravarNota(w, ok, r)
    PROVE  Escreve(w)
  <1> USE DEF InvStatus
  <1> DEFINE t == tx[w]
             c == t.alvo
             marcadas == {m \in {Substitui[c]} \cap (Chaves \ {c}) : status[m] = "autorizada"}
             ganha == IF ~t.gera \/ ok THEN "com" ELSE "sem"
             poe == t.gera /\ ok /\ (t.novo \in Especiais \/ espelho[NomePdf[c]] = SemPdf)
             comMarcadas == [f \in DOMAIN espelho |->
                 IF r = "posto" /\ \E m \in marcadas : NomePdf[m] = f
                 THEN Desenho(CHOOSE m \in marcadas : NomePdf[m] = f, "substituida") ELSE espelho[f]]
             esc == [m \in Chaves |-> CASE m = c /\ t.novo # t.lido -> t.novo
                                        [] m \in marcadas -> "substituida"
                                        [] OTHER -> "igual"]
             chv == [m \in Chaves |-> CASE m = c /\ pdf[c] # (ganha = "com") -> ganha
                                        [] m \in marcadas -> ChaveDepois(m, r)
                                        [] OTHER -> "igual"]
             pos == (IF poe THEN {c} ELSE {}) \cup (IF r = "posto" THEN marcadas ELSE {})
             fal == (IF t.gera /\ ~ok THEN {c} ELSE {}) \cup (IF r # "posto" THEN marcadas ELSE {})
             u == [t EXCEPT !.fase = "gravada", !.escritas = esc, !.chavePdf = chv, !.postos = pos, !.falhos = fal]
  <1>1. /\ t.fase = "lida" /\ t.tipo = "nota" /\ (t.lido = "fora" => status[c] = "fora")
        /\ \A m \in marcadas \cup {c} : ~Trancada(w, m)
        /\ espelho' = IF poe THEN Por(comMarcadas, c, t.novo) ELSE comMarcadas
        /\ tx' = [tx EXCEPT ![w] = u]
        /\ UNCHANGED <<status, pdf, registrados, corrida, rasgada>>
    BY DEF GravarNota
  <1>2. Transacao(t) /\ Decidiu(t) /\ AindaVale(t) /\ c \in Chaves /\ DOMAIN tx = Escritores
    BY <1>1 DEF TiposStatus, SessoesDecididas, Decidiu
  <1>3. ganha \in {"com", "sem"} /\ \A m \in Chaves : ChaveDepois(m, r) \in {"igual", "com", "sem"}
    BY DEF ChaveDepois
  <1>4. /\ c \notin marcadas /\ \A m \in marcadas : status[m] = "autorizada"
        /\ marcadas \subseteq Chaves /\ marcadas \subseteq Tocadas(t) /\ c \in Tocadas(t)
    BY <1>1, <1>2 DEF Tocadas
  <1>5. DOMAIN comMarcadas = DOMAIN espelho
        /\ \A f \in DOMAIN espelho : espelho[f] # SemPdf => comMarcadas[f] # SemPdf
    BY DesenhoMostra
  <1>6. esc \in [Chaves -> Status \cup {"igual"}]
    BY <1>2 DEF Transacao, Status
  <1>7. chv \in [Chaves -> {"igual", "com", "sem"}]
    <2> HIDE DEF marcadas, ganha
    <2> QED
      BY <1>3
  <1>8. \A m \in Chaves : chv[m] # "igual" => m = c \/ m \in marcadas
    OBVIOUS
  <1>9. ASSUME NEW m \in Chaves
        PROVE  /\ m = c => esc[m] = IF t.novo # t.lido THEN t.novo ELSE "igual"
               /\ m # c => esc[m] = IF m \in marcadas THEN "substituida" ELSE "igual"
    OBVIOUS
  <1>10. /\ pos \subseteq {c} \cup marcadas /\ fal \subseteq {c} \cup marcadas /\ marcadas \subseteq pos \cup fal
         /\ c \notin pos \cup fal => (t.gera => espelho[NomePdf[c]] # SemPdf /\ t.novo \notin Especiais)
    OBVIOUS
  <1>11. EspelhoGuarda
    <2> HIDE DEF comMarcadas, poe
    <2>1. \A m \in Chaves : NomePdf[m] \in DOMAIN espelho
      BY DEF TiposStatus
    <2> QED
      BY <1>1, <1>5, <2>1, DesenhoMostra DEF Por, EspelhoGuarda
  <1> HIDE DEF esc, chv, pos, fal, marcadas, poe, comMarcadas, ganha
  <1>12. tx'[w] = u /\ DOMAIN tx' = Escritores /\ \A v \in Escritores \ {w} : tx'[v] = tx[v]
    BY <1>1, <1>2
  <1>13. /\ u.fase = "gravada" /\ u.escritas = esc /\ u.chavePdf = chv /\ u.postos = pos /\ u.falhos = fal
         /\ DOMAIN u = Campos /\ MesmaDecisao(u, t)
    BY <1>2 DEF Transacao, Campos, MesmaDecisao
  <1> HIDE DEF u
  <1>14. Transacao(tx'[w])
    BY <1>2, <1>6, <1>7, <1>12, <1>13 DEF Transacao, MesmaDecisao
  <1>15. Tocadas(tx'[w]) = Tocadas(t)
    BY <1>1, <1>12, <1>13 DEF Tocadas, MesmaDecisao
  <1>16. EscreveuLinhas(tx[w])'
    <2>1. ASSUME t.sozinha
          PROVE  (esc[c] = "igual" /\ t.novo = t.lido) \/ esc[c] = t.novo
      BY <1>2, <1>9
    <2>2. \A m \in Chaves : m # c /\ esc[m] # "igual" => esc[m] = "substituida" /\ status'[m] = "autorizada"
      BY <1>1, <1>4, <1>9
    <2>3. \A m \in Chaves : esc[m] # "igual" \/ chv[m] # "igual" => m \in Tocadas(t)
      BY <1>4, <1>8, <1>9
    <2>4. pos \subseteq Tocadas(t) /\ fal \subseteq Tocadas(t)
      BY <1>4, <1>10
    <2> QED
      BY <1>12, <1>13, <1>15, <2>1, <2>2, <2>3, <2>4 DEF EscreveuLinhas, MesmaDecisao
  <1>17. EscreveuPdf(tx[w])'
    <2>1. ASSUME NEW m \in Chaves, esc[m] \in {"fora", "autorizada"}
          PROVE  status'[m] = "fora"
      <3>1. m = c /\ t.novo # t.lido /\ t.novo \in {"fora", "autorizada"}
        BY <1>9, <2>1
      <3>2. t.novo = "autorizada" /\ Prioridade(t.lido) <= Prioridade(t.novo) /\ t.lido \in Status
        BY <1>1, <1>2, <3>1 DEF Decidiu, Transacao
      <3>3. t.lido = "fora"
        BY <3>1, <3>2 DEF Prioridade, Status
      <3> QED
        BY <1>1, <3>1, <3>3
    <2>2. ASSUME NEW m \in Chaves \ (pos \cup fal),
                 esc[m] # "igual" \/ chv[m] # "igual" \/ m = c
          PROVE  m = c /\ t.novo \notin Especiais /\ esc[m] \notin Especiais /\ espelho'[NomePdf[m]] # SemPdf
      <3>1. m = c /\ c \notin marcadas
        BY <1>8, <1>9, <1>10, <2>2
      <3>2. t.novo \notin Especiais /\ espelho[NomePdf[c]] # SemPdf
        BY <1>1, <1>2, <1>10, <2>2, <3>1 DEF Decidiu
      <3> QED
        BY <1>2, <1>9, <1>11, <3>1, <3>2 DEF EspelhoGuarda, Especiais
    <2> QED
      BY <1>1, <1>12, <1>13, <2>1, <2>2 DEF EscreveuPdf, MesmaDecisao
  <1>18. \A m \in Chaves : tx'[w].escritas[m] # "igual" => ~Trancada(w, m)
    BY <1>1, <1>9, <1>12, <1>13
  <1> QED
    BY <1>1, <1>11, <1>12, <1>13, <1>14, <1>16, <1>17, <1>18 DEF Escreve

\* What the events write.
LEMMA EventoEscreve ==
    ASSUME InvStatus, NEW w \in Escritores, NEW r \in Resultados, GravarEvento(w, r)
    PROVE  Escreve(w)
  <1> USE DEF InvStatus
  <1> DEFINE t == tx[w]
             sobe == {c \in {t.alvo} : t.novo # t.lido}
             esc == [c \in Chaves |-> IF c \in sobe THEN t.novo ELSE "igual"]
             chv == [c \in Chaves |-> IF c \in sobe THEN ChaveDepois(c, r) ELSE "igual"]
             pos == IF r = "posto" THEN sobe ELSE {}
             fal == IF r = "posto" THEN {} ELSE sobe
             u == [t EXCEPT !.fase = "gravada", !.escritas = esc, !.chavePdf = chv, !.postos = pos, !.falhos = fal]
  <1>1. /\ t.fase = "lida" /\ t.tipo = "evento"
        /\ \A c \in sobe : ~Trancada(w, c)
        /\ espelho' = IF r = "posto" /\ sobe # {} THEN Por(espelho, t.alvo, t.novo) ELSE espelho
        /\ tx' = [tx EXCEPT ![w] = u]
        /\ UNCHANGED <<status, pdf, registrados, corrida, rasgada>>
    BY DEF GravarEvento
  <1>2. Transacao(t) /\ Decidiu(t) /\ t.alvo \in Chaves /\ DOMAIN tx = Escritores /\ Tocadas(t) = {t.alvo}
    BY <1>1 DEF TiposStatus, SessoesDecididas, Decidiu, Tocadas
  <1>3. \A m \in Chaves : ChaveDepois(m, r) \in {"igual", "com", "sem"}
    BY DEF ChaveDepois
  <1>4. esc \in [Chaves -> Status \cup {"igual"}] /\ chv \in [Chaves -> {"igual", "com", "sem"}]
    BY <1>2, <1>3 DEF Transacao
  <1>5. ASSUME NEW c \in Chaves
        PROVE  /\ c \in sobe <=> c = t.alvo /\ t.novo # t.lido
               /\ esc[c] = IF c \in sobe THEN t.novo ELSE "igual"
               /\ c \notin sobe => chv[c] = "igual"
    OBVIOUS
  <1>6. pos \cup fal = sobe /\ sobe \subseteq Tocadas(t)
    BY <1>2
  <1>7. EspelhoGuarda
    <2>1. \A m \in Chaves : NomePdf[m] \in DOMAIN espelho
      BY DEF TiposStatus
    <2> QED
      BY <1>1, <2>1, DesenhoMostra DEF Por, EspelhoGuarda
  <1> HIDE DEF esc, chv, pos, fal, sobe
  <1>8. tx'[w] = u /\ DOMAIN tx' = Escritores /\ \A v \in Escritores \ {w} : tx'[v] = tx[v]
    BY <1>1, <1>2
  <1>9. /\ u.fase = "gravada" /\ u.escritas = esc /\ u.chavePdf = chv /\ u.postos = pos /\ u.falhos = fal
        /\ DOMAIN u = Campos /\ MesmaDecisao(u, t)
    BY <1>2 DEF Transacao, Campos, MesmaDecisao
  <1> HIDE DEF u
  <1>10. Transacao(tx'[w])
    BY <1>2, <1>4, <1>8, <1>9 DEF Transacao, MesmaDecisao
  <1>11. Tocadas(tx'[w]) = Tocadas(t)
    BY <1>1, <1>8, <1>9 DEF Tocadas, MesmaDecisao
  <1>12. EscreveuLinhas(tx[w])'
    BY <1>2, <1>5, <1>6, <1>8, <1>9, <1>11 DEF EscreveuLinhas, MesmaDecisao
  <1>13. EscreveuPdf(tx[w])'
    <2>1. ASSUME NEW m \in Chaves, esc[m] \in {"fora", "autorizada"}
          PROVE  FALSE
      <3>1. m = t.alvo /\ t.novo # t.lido /\ t.novo \in {"fora", "autorizada"}
        BY <1>5, <2>1
      <3> QED
        BY <1>1, <1>2, <3>1 DEF Decidiu, Especiais
    <2>2. \A m \in Chaves \ (pos \cup fal) : esc[m] = "igual" /\ chv[m] = "igual"
      BY <1>5, <1>6
    <2> QED
      BY <1>1, <1>8, <1>9, <2>1, <2>2 DEF EscreveuPdf, MesmaDecisao
  <1>14. \A m \in Chaves : tx'[w].escritas[m] # "igual" => ~Trancada(w, m)
    BY <1>1, <1>5, <1>8, <1>9
  <1> QED
    BY <1>1, <1>7, <1>8, <1>9, <1>10, <1>12, <1>13, <1>14 DEF Escreve

\* What the correction writes.
LEMMA CorrecaoEscreve ==
    ASSUME InvStatus, NEW w \in Escritores, GravarCorrecao(w)
    PROVE  Escreve(w)
  <1> USE DEF InvStatus
  <1> DEFINE t == tx[w]
             u == tx'[w]
  <1>1. /\ t.fase = "lida" /\ t.tipo = "correcao" /\ ~Trancada(w, t.alvo)
        /\ tx' = [tx EXCEPT ![w].fase = "gravada", ![w].escritas[tx[w].alvo] = tx[w].novo,
                            ![w].falhos = {tx[w].alvo}]
        /\ UNCHANGED <<status, pdf, registrados, espelho, corrida, rasgada>>
    BY DEF GravarCorrecao
  <1>2. /\ Transacao(t) /\ Decidiu(t) /\ t.alvo \in Chaves /\ DOMAIN tx = Escritores
        /\ Tocadas(t) = {t.alvo} /\ t.postos = {}
    BY <1>1 DEF TiposStatus, SessoesDecididas, Decidiu, Tocadas, Transacao
  <1>3. DOMAIN tx' = Escritores /\ \A v \in Escritores \ {w} : tx'[v] = tx[v]
    BY <1>1, <1>2
  <1>4. /\ u.fase = "gravada" /\ u.chavePdf = t.chavePdf /\ u.postos = t.postos /\ u.falhos = {t.alvo}
        /\ DOMAIN u = Campos /\ MesmaDecisao(u, t)
        /\ u.escritas = [t.escritas EXCEPT ![t.alvo] = t.novo]
    BY <1>1, <1>2 DEF Transacao, Campos, MesmaDecisao
  <1>5. /\ \A c \in Chaves : u.escritas[c] = IF c = t.alvo THEN t.novo ELSE "igual"
        /\ \A c \in Chaves : u.chavePdf[c] = "igual"
        /\ u.escritas \in [Chaves -> Status \cup {"igual"}]
    BY <1>1, <1>2, <1>4 DEF Transacao
  <1>6. Transacao(u) /\ Tocadas(u) = Tocadas(t) /\ Tocadas(t) = {t.alvo}
    <2>1. u.alvo = t.alvo /\ u.tipo = t.tipo /\ u.novo = t.novo
      BY <1>2, <1>4 DEF MesmaDecisao
    <2>2. Transacao(u)
      BY <1>1, <1>2, <1>4, <1>5 DEF Transacao, MesmaDecisao
    <2>3. Tocadas(u) = Tocadas(t)
      BY <1>1, <1>2, <1>4, <2>1 DEF Tocadas
    <2> QED
      BY <1>2, <2>2, <2>3
  <1>7. EscreveuLinhas(tx[w])'
    <2>1. /\ u.alvo = t.alvo /\ u.novo = t.novo /\ u.postos = {} /\ u.falhos = {t.alvo}
          /\ Tocadas(u) = {t.alvo}
      BY <1>2, <1>4, <1>6 DEF MesmaDecisao
    <2>2. u.escritas[u.alvo] = u.novo
      BY <1>2, <1>5, <2>1
    <2>3. \A c \in Chaves : c # u.alvo => u.escritas[c] = "igual" /\ u.chavePdf[c] = "igual"
      BY <1>5, <2>1
    <2> QED
      BY <2>1, <2>2, <2>3 DEF EscreveuLinhas
  <1>8. EscreveuPdf(tx[w])'
    <2>1. u.tipo = "correcao" /\ u.falhos = {t.alvo}
      BY <1>1, <1>4 DEF MesmaDecisao
    <2>2. \A c \in Chaves \ u.falhos : u.escritas[c] = "igual" /\ u.chavePdf[c] = "igual"
      BY <1>5, <2>1
    <2>3. u.alvo \in u.falhos
      BY <1>4, <2>1 DEF MesmaDecisao
    <2> QED
      BY <2>1, <2>2, <2>3 DEF EscreveuPdf
  <1>9. \A c \in Chaves : u.escritas[c] # "igual" => ~Trancada(w, c)
    BY <1>1, <1>5
  <1> QED
    BY <1>1, <1>3, <1>4, <1>6, <1>7, <1>8, <1>9 DEF Escreve, EspelhoGuarda

\* What the scripts that draw the espelho again write.
LEMMA CarimboEscreve ==
    ASSUME InvStatus, NEW w \in Escritores, GravarCarimbo(w)
    PROVE  Escreve(w)
  <1> USE DEF InvStatus
  <1> DEFINE t == tx[w]
             u == tx'[w]
             com == IF pdf[t.alvo] THEN "igual" ELSE "com"
  <1>1. /\ t.fase = "lida" /\ t.tipo = "carimbo" /\ ~Trancada(w, t.alvo)
        /\ espelho' = Por(espelho, t.alvo, t.novo)
        /\ tx' = [tx EXCEPT ![w].fase = "gravada", ![w].postos = {tx[w].alvo},
                            ![w].chavePdf[tx[w].alvo] = com]
        /\ UNCHANGED <<status, pdf, registrados, corrida, rasgada>>
    BY DEF GravarCarimbo
  <1>2. /\ Transacao(t) /\ Decidiu(t) /\ t.alvo \in Chaves /\ DOMAIN tx = Escritores
        /\ Tocadas(t) = {t.alvo} /\ t.novo = t.lido /\ t.falhos = {}
    BY <1>1 DEF TiposStatus, SessoesDecididas, Decidiu, Tocadas, Transacao
  <1>3. com \in {"igual", "com"}
    OBVIOUS
  <1> HIDE DEF com
  <1>4. DOMAIN tx' = Escritores /\ \A v \in Escritores \ {w} : tx'[v] = tx[v]
    BY <1>1, <1>2
  <1>5. /\ u.fase = "gravada" /\ u.escritas = t.escritas /\ u.postos = {t.alvo} /\ u.falhos = t.falhos
        /\ DOMAIN u = Campos /\ MesmaDecisao(u, t)
        /\ u.chavePdf = [t.chavePdf EXCEPT ![t.alvo] = com]
    BY <1>1, <1>2 DEF Transacao, Campos, MesmaDecisao
  <1>6. /\ \A c \in Chaves : u.chavePdf[c] = IF c = t.alvo THEN com ELSE "igual"
        /\ \A c \in Chaves : u.escritas[c] = "igual"
        /\ u.chavePdf \in [Chaves -> {"igual", "com", "sem"}]
    BY <1>1, <1>2, <1>3, <1>5 DEF Transacao
  <1>7. Transacao(u) /\ Tocadas(u) = Tocadas(t)
    BY <1>1, <1>2, <1>5, <1>6 DEF Transacao, MesmaDecisao, Tocadas
  <1>8. EscreveuLinhas(tx[w])'
    BY <1>1, <1>2, <1>5, <1>6, <1>7 DEF EscreveuLinhas, MesmaDecisao
  <1>9. EscreveuPdf(tx[w])'
    BY <1>1, <1>2, <1>5, <1>6 DEF EscreveuPdf, MesmaDecisao
  <1>10. EspelhoGuarda
    <2>1. \A m \in Chaves : NomePdf[m] \in DOMAIN espelho
      BY DEF TiposStatus
    <2> QED
      BY <1>1, <2>1, DesenhoMostra DEF Por, EspelhoGuarda
  <1> QED
    BY <1>1, <1>4, <1>5, <1>6, <1>7, <1>8, <1>9, <1>10 DEF Escreve

\* Each of the four writers writes a row and no drawing but its own.
LEMMA GravarEscreve ==
    ASSUME InvStatus, NEW w \in Escritores, Gravar(w)
    PROVE  Escreve(w)
  BY NotaEscreve, EventoEscreve, CorrecaoEscreve, CarimboEscreve DEF Gravar

\* A session that touches what it touched.
LEMMA TocadasIguais ==
    ASSUME NEW t, NEW u, t.fase # "livre", u.fase # "livre", MesmaDecisao(u, t)
    PROVE  Tocadas(u) = Tocadas(t)
  BY DEF MesmaDecisao, Tocadas

\* Writing keeps the invariant.
LEMMA EscreverMantem ==
    ASSUME InvStatus, NEW w \in Escritores, Escreve(w)
    PROVE  InvStatus'
  <1> USE DEF InvStatus
  <1>1. /\ tx[w].fase = "lida" /\ DOMAIN tx' = Escritores
        /\ \A v \in Escritores \ {w} : tx'[v] = tx[v]
        /\ Transacao(tx'[w]) /\ tx'[w].fase = "gravada" /\ MesmaDecisao(tx'[w], tx[w])
        /\ EspelhoGuarda
        /\ \A c \in Chaves : tx'[w].escritas[c] # "igual" => ~Trancada(w, c)
        /\ EscreveuLinhas(tx[w])' /\ EscreveuPdf(tx[w])'
        /\ UNCHANGED <<status, pdf, registrados, corrida, rasgada>>
    BY DEF Escreve
  <1>2. Tocadas(tx'[w]) = Tocadas(tx[w])
    BY <1>1, TocadasIguais
  <1>3. TiposStatus'
    BY <1>1 DEF TiposStatus, EspelhoGuarda, Transacao
  <1>4. SozinhaSemRival'
    <2> SUFFICES ASSUME NEW v \in Escritores, NEW x \in Escritores, v # x,
                        tx'[v].fase # "livre", tx'[x].fase # "livre", tx'[v].sozinha
                 PROVE  Tocadas(tx'[v]) \cap Tocadas(tx'[x]) = {}
      BY DEF SozinhaSemRival, Tocadas
    <2>1. /\ tx[v].fase # "livre" /\ tx[x].fase # "livre" /\ tx[v].sozinha
          /\ Tocadas(tx'[v]) = Tocadas(tx[v]) /\ Tocadas(tx'[x]) = Tocadas(tx[x])
      BY <1>1, <1>2 DEF MesmaDecisao
    <2> QED
      BY <2>1 DEF SozinhaSemRival
  <1>5. SessoesDecididas'
    <2> SUFFICES ASSUME NEW v \in Escritores, tx'[v].fase # "livre"
                 PROVE  Decidiu(tx[v])' /\ AindaVale(tx[v])'
      BY DEF SessoesDecididas, Decidiu, AindaVale, NaoSupera
    <2>1. MesmaDecisao(tx'[v], tx[v]) /\ tx[v].fase # "livre"
      BY <1>1 DEF MesmaDecisao
    <2>2. Decidiu(tx[v]) /\ AindaVale(tx[v])
      BY <2>1 DEF SessoesDecididas
    <2>3. Decidiu(tx[v])'
      BY <1>1, <2>1, <2>2 DEF Decidiu, MesmaDecisao, EspelhoGuarda, NaoSupera
    <2>4. AindaVale(tx[v])'
      BY <1>1, <2>1, <2>2 DEF AindaVale, MesmaDecisao, NaoSupera
    <2> QED
      BY <2>3, <2>4
  <1>6. SessoesEscritas'
    <2> SUFFICES ASSUME NEW v \in Escritores, v # w, tx'[v].fase = "gravada"
                 PROVE  EscreveuLinhas(tx[v])' /\ EscreveuPdf(tx[v])'
      BY <1>1 DEF SessoesEscritas, EscreveuLinhas, EscreveuPdf
    <2>1. tx'[v] = tx[v]
      BY <1>1
    <2>2. EscreveuLinhas(tx[v]) /\ EscreveuPdf(tx[v])
      BY <2>1 DEF SessoesEscritas
    <2>3. EscreveuLinhas(tx[v])'
      BY <1>1, <2>1, <2>2 DEF EscreveuLinhas, Tocadas
    <2>4. EscreveuPdf(tx[v])'
      BY <1>1, <2>1, <2>2 DEF EscreveuPdf, EspelhoGuarda
    <2> QED
      BY <2>3, <2>4
  <1>7. LinhasTrancadas'
    <2>1. ASSUME NEW v \in Escritores, v # w, tx'[v].fase = "gravada", NEW c \in Chaves,
                 tx'[v].escritas[c] # "igual", tx'[w].escritas[c] # "igual"
          PROVE  FALSE
      BY <1>1, <2>1 DEF Trancada
    <2> QED
      BY <1>1, <2>1 DEF LinhasTrancadas
  <1>8. EventoGravadoVale'
    BY <1>1 DEF EventoGravadoVale
  <1> QED
    BY <1>3, <1>4, <1>5, <1>6, <1>7, <1>8

\* A session that is over.
LEMMA SemTransacaoLivre == Transacao(SemTransacao) /\ SemTransacao.fase = "livre"
  BY DEF SemTransacao, Transacao, Campos, Status

\* Undoing keeps the invariant.
LEMMA DesfazerMantem ==
    ASSUME InvStatus, NEW w \in Escritores, Desfazer(w)
    PROVE  InvStatus'
  <1> USE DEF InvStatus
  <1>1. /\ rasgada \subseteq rasgada' /\ tx'[w] = SemTransacao /\ DOMAIN tx' = Escritores
        /\ \A v \in Escritores \ {w} : tx'[v] = tx[v]
        /\ UNCHANGED <<status, pdf, registrados, espelho, corrida>>
    BY DEF Desfazer, TiposStatus
  <1>2. TiposStatus'
    BY <1>1, SemTransacaoLivre DEF TiposStatus, Transacao
  <1>3. SozinhaSemRival'
    BY <1>1, SemTransacaoLivre DEF SozinhaSemRival, Tocadas
  <1>4. SessoesDecididas'
    <2> SUFFICES ASSUME NEW v \in Escritores, tx'[v].fase # "livre"
                 PROVE  Decidiu(tx[v])' /\ AindaVale(tx[v])'
      BY DEF SessoesDecididas, Decidiu, AindaVale, NaoSupera
    <2>1. tx'[v] = tx[v] /\ Decidiu(tx[v]) /\ AindaVale(tx[v])
      BY <1>1, SemTransacaoLivre DEF SessoesDecididas
    <2> QED
      BY <1>1, <2>1 DEF Decidiu, AindaVale, NaoSupera
  <1>5. SessoesEscritas'
    <2> SUFFICES ASSUME NEW v \in Escritores, tx'[v].fase = "gravada"
                 PROVE  EscreveuLinhas(tx[v])' /\ EscreveuPdf(tx[v])'
      BY DEF SessoesEscritas, EscreveuLinhas, EscreveuPdf
    <2>1. tx'[v] = tx[v] /\ EscreveuLinhas(tx[v]) /\ EscreveuPdf(tx[v])
      BY <1>1, SemTransacaoLivre DEF SessoesEscritas
    <2> QED
      BY <1>1, <2>1 DEF EscreveuLinhas, EscreveuPdf, Tocadas
  <1>6. LinhasTrancadas'
    BY <1>1, SemTransacaoLivre DEF LinhasTrancadas
  <1>7. EventoGravadoVale'
    BY <1>1 DEF EventoGravadoVale
  <1> QED
    BY <1>2, <1>3, <1>4, <1>5, <1>6, <1>7

\* What a commit does, and to which rows.
LEMMA ConfirmarFaz ==
    ASSUME InvStatus, NEW w \in Escritores, Confirmar(w)
    PROVE  LET t == tx[w] IN
           /\ t.fase = "gravada" /\ Transacao(t) /\ Decidiu(t) /\ AindaVale(t)
           /\ EscreveuLinhas(t) /\ EscreveuPdf(t)
           /\ DOMAIN status' = Chaves
           /\ \A c \in Chaves : status'[c] = Ficara(t, c)
           /\ \A c \in Chaves : status'[c] # status[c] => t.escritas[c] = status'[c] /\ c \in Tocadas(t)
           /\ registrados' = registrados \cup t.eventos
           /\ corrida' = IF ~t.sozinha THEN corrida \cup Tocadas(t)
                         ELSE IF t.tipo = "nota" THEN corrida \ {t.alvo} ELSE corrida
           /\ rasgada' = (IF t.sozinha THEN rasgada \ t.postos ELSE rasgada) \cup t.falhos
           /\ tx'[w] = SemTransacao /\ DOMAIN tx' = Escritores
           /\ \A v \in Escritores \ {w} : tx'[v] = tx[v]
           /\ espelho' = espelho
  <1> DEFINE t == tx[w]
  <1>1. /\ t.fase = "gravada" /\ Transacao(t) /\ Decidiu(t) /\ AindaVale(t)
        /\ EscreveuLinhas(t) /\ EscreveuPdf(t)
    BY DEF Confirmar, InvStatus, TiposStatus, SessoesDecididas, SessoesEscritas
  <1>2. /\ registrados' = registrados \cup t.eventos
        /\ corrida' = IF ~t.sozinha THEN corrida \cup Tocadas(t)
                      ELSE IF t.tipo = "nota" THEN corrida \ {t.alvo} ELSE corrida
        /\ rasgada' = (IF t.sozinha THEN rasgada \ t.postos ELSE rasgada) \cup t.falhos
        /\ espelho' = espelho
    BY DEF Confirmar
  <1>3. tx'[w] = SemTransacao /\ DOMAIN tx' = Escritores /\ \A v \in Escritores \ {w} : tx'[v] = tx[v]
    BY DEF Confirmar, InvStatus, TiposStatus
  <1>4. DOMAIN status' = Chaves /\ \A c \in Chaves : status'[c] = Ficara(t, c)
    BY DEF Confirmar, Ficara
  <1>5. \A c \in Chaves : status'[c] # status[c] => t.escritas[c] = status'[c] /\ c \in Tocadas(t)
    BY <1>1, <1>4 DEF Ficara, EscreveuLinhas
  <1> QED
    BY <1>1, <1>2, <1>3, <1>4, <1>5

\* The events of one nota say nothing of another.
LEMMA EventosSaoDeUma ==
    ASSUME NEW c, NEW d, c # d, NEW es \in SUBSET EventosDe(c), NEW rs, NEW s, NaoSupera(d, rs, s)
    PROVE  NaoSupera(d, rs \cup es, s)
  BY DEF NaoSupera, EventosDe

\* A commit leaves the other sessions where they were.
LEMMA ConfirmarRespeita ==
    ASSUME InvStatus, NEW w \in Escritores, Confirmar(w), NEW v \in Escritores \ {w}, tx[v].fase # "livre"
    PROVE  /\ Decidiu(tx[v])' /\ AindaVale(tx[v])'
           /\ tx[v].fase = "gravada" => EscreveuLinhas(tx[v])' /\ EscreveuPdf(tx[v])'
  <1> USE DEF InvStatus
  <1> DEFINE t == tx[w]
             u == tx[v]
  <1>1. /\ t.fase = "gravada" /\ Transacao(t) /\ Decidiu(t) /\ AindaVale(t)
        /\ EscreveuLinhas(t) /\ EscreveuPdf(t)
        /\ \A c \in Chaves : status'[c] = Ficara(t, c)
        /\ \A c \in Chaves : status'[c] # status[c] => t.escritas[c] = status'[c] /\ c \in Tocadas(t)
        /\ registrados' = registrados \cup t.eventos
        /\ rasgada' = (IF t.sozinha THEN rasgada \ t.postos ELSE rasgada) \cup t.falhos
        /\ tx'[v] = u /\ espelho' = espelho
    BY ConfirmarFaz
  <1>2. /\ Transacao(u) /\ Decidiu(u) /\ AindaVale(u) /\ u.alvo \in Chaves /\ u.alvo \in Tocadas(u)
        /\ t.alvo \in Chaves /\ t.alvo \in Tocadas(t)
    BY <1>1 DEF SessoesDecididas, TiposStatus, Decidiu, Tocadas
  <1>3. u.sozinha \/ t.sozinha => Tocadas(u) \cap Tocadas(t) = {}
    BY <1>1 DEF SozinhaSemRival
  <1>4. Decidiu(tx[v])'
    BY <1>1, <1>2 DEF Decidiu, NaoSupera
  <1>5. AindaVale(tx[v])'
    <2>1. u.sozinha => status'[u.alvo] = u.lido
      BY <1>1, <1>2, <1>3 DEF AindaVale
    <2>2. ASSUME u.sozinha, u.tipo \in {"nota", "correcao"}
          PROVE  NaoSupera(u.alvo, registrados', u.novo)
      <3>1. u.alvo # t.alvo
        BY <1>2, <1>3, <2>2
      <3>2. t.eventos \in SUBSET EventosDe(t.alvo)
        BY <1>1 DEF Decidiu
      <3>3. NaoSupera(u.alvo, registrados, u.novo)
        BY <1>2, <2>2 DEF AindaVale
      <3> QED
        BY <1>1, <3>1, <3>2, <3>3, EventosSaoDeUma
    <2>3. ASSUME u.tipo # "correcao", u.lido \in Especiais, status'[u.alvo] \notin Especiais
          PROVE  u.alvo \in rasgada'
      <3>1. CASE status[u.alvo] \notin Especiais
        <4>1. u.alvo \in rasgada
          BY <1>2, <2>3, <3>1 DEF AindaVale
        <4>2. t.sozinha => u.alvo \notin t.postos
          BY <1>1, <1>2, <1>3 DEF EscreveuLinhas
        <4> QED
          BY <1>1, <4>1, <4>2
      <3>2. CASE status[u.alvo] \in Especiais
        <4>1. t.escritas[u.alvo] = status'[u.alvo] /\ u.alvo \in Tocadas(t)
          BY <1>1, <1>2, <2>3, <3>2
        <4>2. t.escritas[u.alvo] \in {"fora", "autorizada"}
          <5>1. t.escritas[u.alvo] \in Status
            BY <1>1, <1>2, <4>1 DEF Ficara, Transacao, TiposStatus
          <5> QED
            BY <2>3, <4>1, <5>1 DEF Status, Especiais
        <4>3. t.tipo = "correcao"
          BY <1>1, <1>2, <3>2, <4>2 DEF EscreveuPdf, Especiais
        <4>4. u.alvo = t.alvo
          BY <1>1, <4>1, <4>3 DEF Tocadas
        <4> QED
          BY <1>1, <4>3, <4>4 DEF EscreveuPdf
      <3> QED
        BY <3>1, <3>2
    <2> QED
      BY <1>1, <2>1, <2>2, <2>3 DEF AindaVale
  <1>6. ASSUME u.fase = "gravada"
        PROVE  EscreveuLinhas(tx[v])' /\ EscreveuPdf(tx[v])'
    <2>1. EscreveuLinhas(u) /\ EscreveuPdf(u)
      BY <1>6 DEF SessoesEscritas
    <2>2. \A c \in Chaves : u.escritas[c] # "igual" => status'[c] = status[c]
      BY <1>1, <1>6 DEF LinhasTrancadas, Ficara
    <2>3. EscreveuLinhas(tx[v])'
      BY <1>1, <2>1, <2>2 DEF EscreveuLinhas, Tocadas
    <2>4. EscreveuPdf(tx[v])'
      BY <1>1, <2>1, <2>2 DEF EscreveuPdf
    <2> QED
      BY <2>3, <2>4
  <1> QED
    BY <1>4, <1>5, <1>6

\* A commit by a session that is alone, other than a correction, never lowers.
LEMMA SozinhaNaoBaixa ==
    ASSUME InvStatus, NEW w \in Escritores, Confirmar(w), tx[w].sozinha, tx[w].tipo # "correcao",
           NEW c \in Chaves
    PROVE  Prioridade(status[c]) <= Prioridade(status'[c])
  <1> DEFINE t == tx[w]
  <1>1. /\ Decidiu(t) /\ AindaVale(t) /\ EscreveuLinhas(t) /\ Transacao(t)
        /\ \A d \in Chaves : status'[d] = Ficara(t, d)
        /\ status[c] \in Status
    BY ConfirmarFaz DEF InvStatus, TiposStatus
  <1>2. CASE t.escritas[c] = "igual"
    BY <1>1, <1>2, PrioridadeDosEspeciais DEF Ficara
  <1>3. CASE t.escritas[c] # "igual" /\ c = t.alvo
    <2>1. t.escritas[c] = t.novo /\ status[c] = t.lido
      BY <1>1, <1>3 DEF EscreveuLinhas, AindaVale
    <2>2. Prioridade(t.lido) <= Prioridade(t.novo)
      BY <1>1, PrioridadeDosEspeciais DEF Decidiu, Transacao
    <2> QED
      BY <1>1, <1>3, <2>1, <2>2 DEF Ficara
  <1>4. CASE t.escritas[c] # "igual" /\ c # t.alvo
    <2>1. t.escritas[c] = "substituida" /\ status[c] = "autorizada"
      BY <1>1, <1>4 DEF EscreveuLinhas
    <2> QED
      BY <1>1, <1>4, <2>1 DEF Ficara, Prioridade
  <1> QED
    BY <1>2, <1>3, <1>4

\* After a commit the recorded events still hold on the notas that no overlap
\* left unsettled.
LEMMA ConfirmarCumpre ==
    ASSUME InvStatus, NEW w \in Escritores, Confirmar(w)
    PROVE  EventoGravadoVale'
  <1> USE DEF InvStatus
  <1> DEFINE t == tx[w]
  <1>1. /\ Decidiu(t) /\ AindaVale(t) /\ EscreveuLinhas(t) /\ Transacao(t) /\ t.fase = "gravada"
        /\ \A c \in Chaves : status'[c] = Ficara(t, c)
        /\ \A c \in Chaves : status'[c] # status[c] => t.escritas[c] = status'[c] /\ c \in Tocadas(t)
        /\ registrados' = registrados \cup t.eventos
        /\ corrida' = IF ~t.sozinha THEN corrida \cup Tocadas(t)
                      ELSE IF t.tipo = "nota" THEN corrida \ {t.alvo} ELSE corrida
    BY ConfirmarFaz
  <1>2. t.alvo \in Chaves /\ t.alvo \in Tocadas(t) /\ t.eventos \subseteq EventosDe(t.alvo)
    BY <1>1 DEF Decidiu, Tocadas
  <1>3. registrados' \subseteq Eventos
    BY <1>1, <1>2 DEF TiposStatus, EventosDe
  <1> SUFFICES ASSUME NEW e \in registrados', NEW c \in Chaves, c = Alvo[e],
                      status'[c] # "fora", c \notin corrida', Efeito[e] # "nenhum"
               PROVE  Prioridade(status'[c]) >= Prioridade(Efeito[e])
    BY <1>3, ConstantesStatus DEF EventoGravadoVale
  <1>4. /\ Prioridade(status[c]) \in Nat /\ Prioridade(status'[c]) \in Nat /\ Prioridade(Efeito[e]) \in Nat
        /\ Prioridade(t.novo) \in Nat
    BY DEF Prioridade
  <1>5. e \in EventosDe(c)
    BY <1>3 DEF EventosDe
  <1>9. /\ status'[c] = Ficara(t, c)
        /\ status'[c] # status[c] => t.escritas[c] = status'[c] /\ c \in Tocadas(t)
        /\ t.sozinha => status[t.alvo] = t.lido
        /\ t.sozinha => status'[t.alvo] = t.novo
    <2>1. t.sozinha => status[t.alvo] = t.lido
      BY <1>1 DEF AindaVale
    <2>2. t.sozinha => status'[t.alvo] = t.novo
      <3>1. t.sozinha => \/ t.escritas[t.alvo] = "igual" /\ t.novo = t.lido
                         \/ t.escritas[t.alvo] = t.novo
        BY <1>1 DEF EscreveuLinhas
      <3>2. t.novo # "igual"
        BY <1>1 DEF Transacao, Status
      <3>3. status'[t.alvo] = Ficara(t, t.alvo)
        BY <1>1, <1>2
      <3> QED
        BY <2>1, <3>1, <3>2, <3>3 DEF Ficara
    <2> QED
      BY <1>1, <2>1, <2>2
  <1>6. CASE ~t.sozinha
    <2>1. c \notin Tocadas(t) /\ c \notin corrida /\ status'[c] = status[c]
      BY <1>1, <1>6
    <2>2. e \in registrados
      BY <1>1, <1>2, <2>1 DEF EventosDe
    <2> QED
      BY <1>4, <2>1, <2>2 DEF EventoGravadoVale
  <1>7. CASE t.sozinha /\ c = t.alvo /\ t.tipo \in {"nota", "correcao"}
    <2>1. t.eventos = {} /\ NaoSupera(t.alvo, registrados, t.novo)
      BY <1>1, <1>7 DEF Decidiu, AindaVale
    <2>2. e \in registrados
      BY <1>1, <2>1
    <2> QED
      BY <1>4, <1>5, <1>7, <1>9, <2>1, <2>2 DEF NaoSupera
  <1>8. CASE t.sozinha /\ ~(c = t.alvo /\ t.tipo \in {"nota", "correcao"})
    <2>1. c \notin corrida
      BY <1>1, <1>8
    <2>2. Prioridade(status[c]) <= Prioridade(status'[c])
      <3>1. CASE t.tipo = "correcao"
        BY <1>1, <1>4, <1>8, <3>1 DEF Tocadas
      <3> QED
        BY <1>8, <3>1, SozinhaNaoBaixa
    <2>3. CASE e \in registrados /\ status[c] # "fora"
      <3>1. Prioridade(status[c]) >= Prioridade(Efeito[e])
        BY <2>1, <2>3 DEF EventoGravadoVale
      <3> QED
        BY <1>4, <2>2, <3>1
    <2>4. CASE status[c] = "fora"
      <3>1. c \in Tocadas(t) /\ t.escritas[c] = status'[c]
        BY <1>9, <2>4
      <3>2. c = t.alvo
        <4>1. c # t.alvo /\ t.escritas[c] # "igual" /\ t.sozinha => status[c] = "autorizada"
          BY <1>1 DEF EscreveuLinhas
        <4>2. t.escritas[c] # "igual"
          <5>1. status'[c] \in Status
            BY <1>1, <1>9 DEF Ficara, Transacao, TiposStatus
          <5> QED
            BY <3>1, <5>1 DEF Status
        <4> QED
          BY <1>8, <2>4, <4>1, <4>2
      <3>3. t.lido = "fora" /\ t.novo = status'[c]
        BY <1>8, <1>9, <2>4, <3>2
      <3>4. t.tipo \in {"evento", "carimbo"}
        BY <1>1, <1>8, <3>2 DEF Decidiu, Transacao
      <3> QED
        BY <1>1, <3>3, <3>4 DEF Decidiu
    <2>5. CASE e \notin registrados /\ status[c] # "fora"
      <3>1. e \in t.eventos /\ c = t.alvo /\ t.tipo = "evento"
        <4>1. e \in t.eventos
          BY <1>1, <2>5
        <4>2. Alvo[e] = t.alvo
          BY <1>2, <4>1 DEF EventosDe
        <4>3. t.tipo = "evento"
          BY <1>1, <4>1 DEF Decidiu
        <4> QED
          BY <4>1, <4>2, <4>3
      <3>2. status'[c] = t.novo /\ t.lido # "fora"
        BY <1>8, <1>9, <2>5, <3>1
      <3>3. NaoSupera(c, t.eventos, t.novo)
        BY <1>1, <3>1, <3>2 DEF Decidiu
      <3> QED
        BY <1>4, <1>5, <3>1, <3>2, <3>3 DEF NaoSupera
    <2> QED
      BY <2>3, <2>4, <2>5
  <1> QED
    BY <1>6, <1>7, <1>8

\* Committing keeps the invariant.
LEMMA ConfirmarMantem ==
    ASSUME InvStatus, NEW w \in Escritores, Confirmar(w)
    PROVE  InvStatus'
  <1> USE DEF InvStatus
  <1> DEFINE t == tx[w]
  <1>1. /\ Transacao(t) /\ DOMAIN status' = Chaves /\ Decidiu(t)
        /\ \A c \in Chaves : status'[c] = Ficara(t, c)
        /\ registrados' = registrados \cup t.eventos
        /\ tx'[w] = SemTransacao /\ DOMAIN tx' = Escritores
        /\ \A v \in Escritores \ {w} : tx'[v] = tx[v]
        /\ espelho' = espelho
    BY ConfirmarFaz
  <1>2. TiposStatus'
    <2>1. status' \in [Chaves -> Status]
      <3>1. \A c \in Chaves : status'[c] \in Status
        BY <1>1 DEF Ficara, Transacao, TiposStatus
      <3>2. status' = [c \in Chaves |-> status'[c]]
        BY DEF Confirmar
      <3> QED
        BY <3>1, <3>2
    <2>2. DOMAIN pdf' = Chaves
      BY DEF Confirmar
    <2>3. registrados' \subseteq Eventos
      BY <1>1 DEF Decidiu, EventosDe, TiposStatus
    <2>4. \A v \in Escritores : Transacao(tx'[v])
      BY <1>1, SemTransacaoLivre DEF TiposStatus
    <2> QED
      BY <1>1, <2>1, <2>2, <2>3, <2>4 DEF TiposStatus, Transacao
  <1>3. SozinhaSemRival'
    BY <1>1, SemTransacaoLivre DEF SozinhaSemRival, Tocadas
  <1>4. SessoesDecididas'
    <2> SUFFICES ASSUME NEW v \in Escritores, tx'[v].fase # "livre"
                 PROVE  Decidiu(tx[v])' /\ AindaVale(tx[v])'
      BY DEF SessoesDecididas, Decidiu, AindaVale, NaoSupera
    <2> QED
      BY <1>1, SemTransacaoLivre, ConfirmarRespeita
  <1>5. SessoesEscritas'
    <2> SUFFICES ASSUME NEW v \in Escritores, tx'[v].fase = "gravada"
                 PROVE  EscreveuLinhas(tx[v])' /\ EscreveuPdf(tx[v])'
      BY DEF SessoesEscritas, EscreveuLinhas, EscreveuPdf
    <2> QED
      BY <1>1, SemTransacaoLivre, ConfirmarRespeita
  <1>6. LinhasTrancadas'
    BY <1>1, SemTransacaoLivre DEF LinhasTrancadas
  <1> QED
    BY <1>2, <1>3, <1>4, <1>5, <1>6, ConfirmarCumpre

\* Every step of a session.
LEMMA PassoDaSessao ==
    ASSUME NEW w \in Escritores, Passo(w)
    PROVE  Ler(w) \/ Gravar(w) \/ Confirmar(w) \/ Desfazer(w)
  BY DEF Passo, Ler, Gravar

\* Whatever the sessions read, write, commit and undo, and in whatever order.
THEOREM InvarianciaStatus == SpecStatus => []InvStatus
  <1>1. InitStatus => InvStatus
    <2> SUFFICES ASSUME InitStatus
                 PROVE  InvStatus
      OBVIOUS
    <2>1. \A w \in Escritores : tx[w] = SemTransacao
      BY DEF InitStatus
    <2>2. TiposStatus
      <3>1. status \in [Chaves -> Status] /\ DOMAIN pdf = Chaves /\ registrados \subseteq Eventos
        BY DEF InitStatus, Status
      <3>2. DOMAIN espelho = {NomePdf[c] : c \in Chaves} /\ DOMAIN tx = Escritores
        BY DEF InitStatus
      <3> QED
        BY <2>1, <3>1, <3>2, SemTransacaoLivre DEF TiposStatus
    <2> QED
      BY <2>1, <2>2, SemTransacaoLivre
      DEF InvStatus, SozinhaSemRival, SessoesDecididas, SessoesEscritas, LinhasTrancadas,
          EventoGravadoVale, InitStatus
  <1>2. ASSUME InvStatus, [NextStatus]_varsStatus
        PROVE  InvStatus'
    <2>1. ASSUME NEW w \in Escritores, Passo(w)
          PROVE  InvStatus'
      BY <1>2, <2>1, PassoDaSessao, LerMantem, GravarEscreve, EscreverMantem, ConfirmarMantem, DesfazerMantem
    <2>2. CASE UNCHANGED varsStatus
      BY <1>2, <2>2
      DEF varsStatus, InvStatus, TiposStatus, Transacao, SozinhaSemRival, Tocadas, SessoesDecididas,
          Decidiu, AindaVale, NaoSupera, SessoesEscritas, EscreveuLinhas, EscreveuPdf,
          LinhasTrancadas, EventoGravadoVale
    <2> QED
      BY <1>2, <2>1, <2>2 DEF NextStatus
  <1> QED
    BY <1>1, <1>2, PTL DEF SpecStatus

\* A recorded event holds on its nota, whatever the order in which they came,
\* unless writers of the nota overlapped since it was last settled.
THEOREM EventoNaoSePerde == SpecStatus => []EventoGravadoVale
  <1>1. InvStatus => EventoGravadoVale
    BY DEF InvStatus
  <1> QED
    BY <1>1, InvarianciaStatus, PTL

\* No status is lowered but by overlapping writers or by a correction.
THEOREM StatusNaoVolta == SpecStatus => StatusNaoRegride
  <1>1. ASSUME InvStatus, [NextStatus]_varsStatus
        PROVE  [\A c \in Chaves : Prioridade(status'[c]) < Prioridade(status[c])
                  => c \in corrida' \/ \E w \in Escritores : tx[w].tipo = "correcao" /\ tx[w].alvo = c]_varsStatus
    <2> SUFFICES ASSUME NextStatus, NEW c \in Chaves, Prioridade(status'[c]) < Prioridade(status[c])
                 PROVE  c \in corrida' \/ \E w \in Escritores : tx[w].tipo = "correcao" /\ tx[w].alvo = c
      BY <1>1
    <2>1. PICK w \in Escritores : Passo(w)
      BY DEF NextStatus
    <2>2. status' # status
      BY DEF Prioridade
    <2>3. Confirmar(w)
      BY <1>1, <2>1, <2>2, PassoDaSessao, LeituraDecide, GravarEscreve DEF InvStatus, Escreve, Desfazer
    <2>4. /\ status'[c] # status[c] => c \in Tocadas(tx[w])
          /\ tx[w].fase = "gravada"
          /\ ~tx[w].sozinha => corrida' = corrida \cup Tocadas(tx[w])
      BY <1>1, <2>3, ConfirmarFaz
    <2>5. Prioridade(status[c]) \in Nat /\ Prioridade(status'[c]) \in Nat
      BY DEF Prioridade
    <2>6. c \in Tocadas(tx[w])
      BY <2>4, <2>5
    <2>7. CASE ~tx[w].sozinha
      BY <2>4, <2>6, <2>7
    <2>8. CASE tx[w].tipo = "correcao"
      BY <2>4, <2>6, <2>8 DEF Tocadas
    <2>9. CASE tx[w].sozinha /\ tx[w].tipo # "correcao"
      BY <1>1, <2>3, <2>5, <2>9, SozinhaNaoBaixa
    <2> QED
      BY <2>7, <2>8, <2>9
  <1> QED
    BY <1>1, InvarianciaStatus, PTL DEF SpecStatus, StatusNaoRegride

-----------------------------------------------------------------------------
(* The stamp, for notas whose espelhos have names that differ.              *)

\* What a session stores while it writes: the drawings of its postos, of the
\* status their rows will have, or had when it read.
Guarda(w) ==
    /\ \A c \in Chaves \ tx'[w].postos : espelho'[NomePdf[c]] = espelho[NomePdf[c]]
    /\ \A c \in tx'[w].postos : \E s \in Status :
         /\ espelho'[NomePdf[c]] = Desenho(c, s)
         /\ s \in Especiais => \/ tx'[w].escritas[c] \in Especiais
                               \/ c = tx[w].alvo /\ s = tx[w].lido /\ tx[w].tipo # "correcao"
         /\ tx[w].sozinha /\ c \notin tx'[w].falhos =>
              s = IF tx'[w].escritas[c] = "igual" THEN status[c] ELSE tx'[w].escritas[c]

\* The ingestion of a nota keeps every drawing it makes of the status it writes, and
\* of the notas it marks as substituted.
LEMMA NotaGuarda ==
    ASSUME NomesDistintos, InvStatus, NEW w \in Escritores, NEW ok \in BOOLEAN, NEW r \in Resultados,
           GravarNota(w, ok, r)
    PROVE  Guarda(w)
  <1> USE DEF InvStatus
  <1> DEFINE t == tx[w]
             c == t.alvo
             marcadas == {m \in {Substitui[c]} \cap (Chaves \ {c}) : status[m] = "autorizada"}
             poe == t.gera /\ ok /\ (t.novo \in Especiais \/ espelho[NomePdf[c]] = SemPdf)
             comMarcadas == [f \in DOMAIN espelho |->
                 IF r = "posto" /\ \E m \in marcadas : NomePdf[m] = f
                 THEN Desenho(CHOOSE m \in marcadas : NomePdf[m] = f, "substituida") ELSE espelho[f]]
             pos == (IF poe THEN {c} ELSE {}) \cup (IF r = "posto" THEN marcadas ELSE {})
             u == tx'[w]
  <1>1. /\ t.fase = "lida" /\ t.tipo = "nota"
        /\ espelho' = IF poe THEN Por(comMarcadas, c, t.novo) ELSE comMarcadas
        /\ UNCHANGED status
    BY DEF GravarNota
  <1>2. Transacao(t) /\ Decidiu(t) /\ AindaVale(t) /\ c \in Chaves
    BY <1>1 DEF TiposStatus, SessoesDecididas, Decidiu
  <1>3. /\ u.postos = pos
        /\ \A m \in Chaves : u.escritas[m] = CASE m = c /\ t.novo # t.lido -> t.novo
                                               [] m \in marcadas -> "substituida"
                                               [] OTHER -> "igual"
    BY <1>2 DEF GravarNota, TiposStatus, Transacao, Campos
  <1>4. /\ marcadas \subseteq Chaves \ {c}
        /\ \A m, n \in marcadas : m = n
        /\ \A m \in marcadas : u.escritas[m] = "substituida"
        /\ u.escritas[c] = IF t.novo # t.lido THEN t.novo ELSE "igual"
    <2>1. marcadas \subseteq Chaves \ {c} /\ \A m, n \in marcadas : m = n
      OBVIOUS
    <2>2. \A m \in marcadas : u.escritas[m] = "substituida"
      BY <1>3, <2>1
    <2>3. u.escritas[c] = IF t.novo # t.lido THEN t.novo ELSE "igual"
      <3> HIDE DEF marcadas, u
      <3> QED
        BY <1>2, <1>3, <2>1
    <2> QED
      BY <2>1, <2>2, <2>3
  <1>5. \A m \in Chaves : NomePdf[m] \in DOMAIN espelho
    BY DEF TiposStatus
  <1>6. /\ \A m \in marcadas : r = "posto" => comMarcadas[NomePdf[m]] = Desenho(m, "substituida")
        /\ \A m \in Chaves : ~(r = "posto" /\ m \in marcadas) => comMarcadas[NomePdf[m]] = espelho[NomePdf[m]]
        /\ DOMAIN comMarcadas = DOMAIN espelho
    <2>1. ASSUME NEW m \in marcadas, r = "posto"
          PROVE  comMarcadas[NomePdf[m]] = Desenho(m, "substituida")
      <3>1. (CHOOSE n \in marcadas : NomePdf[n] = NomePdf[m]) = m
        BY <1>4
      <3> QED
        BY <1>4, <1>5, <2>1, <3>1
    <2>2. ASSUME NEW m \in Chaves, ~(r = "posto" /\ m \in marcadas)
          PROVE  comMarcadas[NomePdf[m]] = espelho[NomePdf[m]]
      <3>1. ~(r = "posto" /\ \E n \in marcadas : NomePdf[n] = NomePdf[m])
        BY <1>4, <2>2 DEF NomesDistintos
      <3> QED
        BY <1>5, <3>1
    <2> QED
      BY <2>1, <2>2
  <1> HIDE DEF comMarcadas
  <1>7. /\ poe => espelho'[NomePdf[c]] = Desenho(c, t.novo)
        /\ \A m \in Chaves : ~(poe /\ m = c) => espelho'[NomePdf[m]] = comMarcadas[NomePdf[m]]
    BY <1>1, <1>2, <1>5, <1>6 DEF Por, NomesDistintos
  <1> HIDE DEF poe
  <1>8. ASSUME NEW m \in Chaves \ pos
        PROVE  espelho'[NomePdf[m]] = espelho[NomePdf[m]]
    BY <1>6, <1>7, <1>8
  <1>9. ASSUME r = "posto", NEW m \in marcadas
        PROVE  espelho'[NomePdf[m]] = Desenho(m, "substituida") /\ u.escritas[m] = "substituida"
    BY <1>4, <1>6, <1>7, <1>9
  <1>10. t.novo \in Status /\ t.novo # "igual" /\ (t.sozinha => status[c] = t.lido)
    BY <1>2 DEF Transacao, AindaVale, Status
  <1> HIDE DEF marcadas, u
  <1>11. ASSUME NEW m \in pos
         PROVE  \E s \in Status :
                  /\ espelho'[NomePdf[m]] = Desenho(m, s)
                  /\ s \in Especiais => \/ u.escritas[m] \in Especiais
                                        \/ m = t.alvo /\ s = t.lido /\ t.tipo # "correcao"
                  /\ t.sozinha => s = IF u.escritas[m] = "igual" THEN status[m] ELSE u.escritas[m]
    <2>1. CASE poe /\ m = c
      <3>1. espelho'[NomePdf[m]] = Desenho(m, t.novo)
        BY <1>7, <2>1
      <3>2. u.escritas[m] = IF t.novo # t.lido THEN t.novo ELSE "igual"
        BY <1>4, <2>1
      <3>3. /\ t.novo \in Especiais => u.escritas[m] \in Especiais \/ (m = t.alvo /\ t.novo = t.lido)
            /\ t.sozinha => t.novo = IF u.escritas[m] = "igual" THEN status[m] ELSE u.escritas[m]
        BY <1>10, <2>1, <3>2
      <3> QED
        BY <1>1, <1>10, <3>1, <3>3
    <2>2. CASE r = "posto" /\ m \in marcadas
      <3>1. espelho'[NomePdf[m]] = Desenho(m, "substituida") /\ u.escritas[m] = "substituida"
        BY <1>9, <2>2
      <3>2. "substituida" \in Status
        BY DEF Status
      <3> QED
        BY <3>1, <3>2 DEF Especiais
    <2> QED
      BY <2>1, <2>2, <1>11
  <1> QED
    BY <1>3, <1>8, <1>11 DEF Guarda, u

\* An event redraws the nota whose status it raised.
LEMMA EventoGuarda ==
    ASSUME NomesDistintos, InvStatus, NEW w \in Escritores, NEW r \in Resultados, GravarEvento(w, r)
    PROVE  Guarda(w)
  <1> USE DEF InvStatus
  <1> DEFINE t == tx[w]
             sobe == {c \in {t.alvo} : t.novo # t.lido}
             u == tx'[w]
  <1>1. /\ t.fase = "lida" /\ t.tipo = "evento"
        /\ espelho' = IF r = "posto" /\ sobe # {} THEN Por(espelho, t.alvo, t.novo) ELSE espelho
    BY DEF GravarEvento
  <1>2. Transacao(t) /\ Decidiu(t) /\ t.alvo \in Chaves
    BY <1>1 DEF TiposStatus, SessoesDecididas, Decidiu
  <1>3. /\ u.postos = IF r = "posto" THEN sobe ELSE {}
        /\ \A c \in Chaves : u.escritas[c] = IF c \in sobe THEN t.novo ELSE "igual"
    BY <1>2 DEF GravarEvento, TiposStatus, Transacao, Campos
  <1>4. \A m \in Chaves : NomePdf[m] \in DOMAIN espelho
    BY DEF TiposStatus
  <1>5. \A c \in Chaves \ u.postos : espelho'[NomePdf[c]] = espelho[NomePdf[c]]
    BY <1>1, <1>2, <1>3, <1>4 DEF Por, NomesDistintos
  <1>6. ASSUME NEW c \in u.postos
        PROVE  /\ espelho'[NomePdf[c]] = Desenho(c, t.novo)
               /\ u.escritas[c] = t.novo /\ t.novo # "igual" /\ t.novo \in Status
    <2>1. r = "posto" /\ c = t.alvo /\ c \in sobe
      BY <1>3, <1>6
    <2>2. t.novo \in Status /\ t.novo # "igual"
      BY <1>2 DEF Transacao, Status
    <2> QED
      BY <1>1, <1>2, <1>3, <1>4, <2>1, <2>2 DEF Por
  <1> QED
    BY <1>5, <1>6 DEF Guarda

\* A correction draws nothing.
LEMMA CorrecaoGuarda ==
    ASSUME InvStatus, NEW w \in Escritores, GravarCorrecao(w)
    PROVE  Guarda(w)
  <1>1. tx'[w].postos = {} /\ espelho' = espelho
    BY DEF InvStatus, GravarCorrecao, TiposStatus, Transacao, Campos
  <1> QED
    BY <1>1 DEF Guarda

\* A stamp draws the status that was read.
LEMMA CarimboGuarda ==
    ASSUME NomesDistintos, InvStatus, NEW w \in Escritores, GravarCarimbo(w)
    PROVE  Guarda(w)
  <1> USE DEF InvStatus
  <1> DEFINE t == tx[w]
             u == tx'[w]
  <1>1. /\ t.fase = "lida" /\ t.tipo = "carimbo" /\ espelho' = Por(espelho, t.alvo, t.novo)
    BY DEF GravarCarimbo
  <1>2. Transacao(t) /\ Decidiu(t) /\ AindaVale(t) /\ t.alvo \in Chaves /\ t.novo = t.lido
    BY <1>1 DEF TiposStatus, SessoesDecididas, Decidiu
  <1>3. u.postos = {t.alvo} /\ u.escritas[t.alvo] = "igual"
    BY <1>1, <1>2 DEF GravarCarimbo, TiposStatus, Transacao, Campos
  <1>4. \A m \in Chaves : NomePdf[m] \in DOMAIN espelho
    BY DEF TiposStatus
  <1>5. \A c \in Chaves \ u.postos : espelho'[NomePdf[c]] = espelho[NomePdf[c]]
    BY <1>1, <1>2, <1>3, <1>4 DEF Por, NomesDistintos
  <1>6. espelho'[NomePdf[t.alvo]] = Desenho(t.alvo, t.novo)
    BY <1>1, <1>2, <1>4 DEF Por
  <1>7. t.novo \in Status /\ (t.sozinha => status[t.alvo] = t.novo)
    BY <1>2 DEF Transacao, AindaVale
  <1> QED
    BY <1>1, <1>2, <1>3, <1>5, <1>6, <1>7 DEF Guarda

\* So every writer leaves the drawings it made as its session says.
LEMMA GravarGuarda ==
    ASSUME NomesDistintos, InvStatus, NEW w \in Escritores, Gravar(w)
    PROVE  Guarda(w)
  BY NotaGuarda, EventoGuarda, CorrecaoGuarda, CarimboGuarda DEF Gravar

\* The drawing of a status without a stamp is the one of an autorizada.
LEMMA DesenhoSemCarimbo ==
    ASSUME NEW c, NEW s \in Status
    PROVE  /\ Desenho(c, s) \in Desenhos(c)
           /\ s \notin Especiais => Desenho(c, s) = Desenho(c, "autorizada")
  BY DEF Desenho, Desenhos, Status, Especiais

\* Reading touches no drawing.
LEMMA LerCarimba ==
    ASSUME InvCarimbo, NEW w \in Escritores, Ler(w)
    PROVE  SessoesConferem' /\ EspelhoDaNota' /\ Estampa' /\ CarimboAcompanha'
  <1> USE DEF InvCarimbo, InvStatus
  <1>1. PICK t : Leu(t) /\ Comecar(w, t)
    BY LeituraDecide
  <1>2. tx[w].fase = "livre" /\ UNCHANGED <<status, pdf, registrados, espelho, corrida, rasgada>>
    BY LeituraDecide
  <1>3. /\ Transacao(t) /\ t.fase = "lida"
        /\ Iguais(tx'[w], t)
        /\ \A v \in Escritores \ {w} : Iguais(tx'[v], tx[v]) /\ (tx'[v].sozinha => tx[v].sozinha)
    BY <1>1, ComecarMarca DEF Leu
  <1>4. tx'[w].fase = "lida"
    BY <1>3, IguaisDecidem
  <1>5. ASSUME NEW v \in Escritores \ {w}
        PROVE  /\ tx'[v].fase = tx[v].fase /\ tx'[v].escritas = tx[v].escritas
               /\ tx'[v].postos = tx[v].postos
               /\ PostosConferem(tx[v]) => PostosConferem(tx[v])'
    BY <1>2, <1>3, SessaoFica
  <1>6. SessoesConferem'
    <2> SUFFICES ASSUME NEW v \in Escritores, tx'[v].fase = "gravada"
                 PROVE  PostosConferem(tx[v])'
      BY DEF SessoesConferem, PostosConferem, Ficara
    <2> QED
      BY <1>4, <1>5 DEF SessoesConferem
  <1>7. EspelhoDaNota'
    BY <1>2 DEF EspelhoDaNota
  <1>8. Estampa'
    BY <1>2, <1>5 DEF Estampa
  <1>9. CarimboAcompanha'
    BY <1>2, <1>5 DEF CarimboAcompanha
  <1> QED
    BY <1>6, <1>7, <1>8, <1>9

\* Writing stores drawings that the rows will agree with.
LEMMA EscreverCarimba ==
    ASSUME InvCarimbo, NEW w \in Escritores, Escreve(w), Guarda(w)
    PROVE  SessoesConferem' /\ EspelhoDaNota' /\ Estampa' /\ CarimboAcompanha'
  <1> USE DEF InvCarimbo, InvStatus
  <1> DEFINE t == tx[w]
             u == tx'[w]
  <1>1. /\ t.fase = "lida" /\ u.fase = "gravada"
        /\ \A v \in Escritores \ {w} : tx'[v] = tx[v]
        /\ Transacao(u) /\ MesmaDecisao(u, t)
        /\ UNCHANGED <<status, pdf, registrados, corrida, rasgada>>
        /\ EscreveuLinhas(tx[w])'
    BY DEF Escreve
  <1>2. /\ \A c \in Chaves \ u.postos : espelho'[NomePdf[c]] = espelho[NomePdf[c]]
        /\ \A c \in u.postos : \E s \in Status :
             /\ espelho'[NomePdf[c]] = Desenho(c, s)
             /\ s \in Especiais => \/ u.escritas[c] \in Especiais
                                   \/ c = t.alvo /\ s = t.lido /\ t.tipo # "correcao"
             /\ t.sozinha /\ c \notin u.falhos =>
                  s = IF u.escritas[c] = "igual" THEN status[c] ELSE u.escritas[c]
    BY DEF Guarda
  <1>3. Tocadas(u) = Tocadas(t) /\ u.postos \subseteq Tocadas(t) /\ AindaVale(t)
    BY <1>1, TocadasIguais DEF EscreveuLinhas, SessoesDecididas
  <1>4. SessoesConferem'
    <2> SUFFICES ASSUME NEW v \in Escritores, tx'[v].fase = "gravada", tx'[v].sozinha,
                        NEW c \in tx'[v].postos \ tx'[v].falhos
                 PROVE  espelho'[NomePdf[c]] = Desenho(c, Ficara(tx[v], c)')
      BY DEF SessoesConferem, PostosConferem, Ficara
    <2>1. CASE v = w
      BY <1>1, <1>2, <2>1 DEF Ficara, MesmaDecisao
    <2>2. CASE v # w
      <3>1. tx'[v] = tx[v] /\ espelho[NomePdf[c]] = Desenho(c, Ficara(tx[v], c))
        BY <1>1, <2>2 DEF SessoesConferem, PostosConferem
      <3>2. c \in Tocadas(tx[v]) /\ c \in Chaves
        <4>1. EscreveuLinhas(tx[v]) /\ Decidiu(tx[v])
          BY <3>1 DEF SessoesEscritas, SessoesDecididas
        <4> QED
          BY <3>1, <4>1 DEF EscreveuLinhas, Tocadas, Decidiu
      <3>3. c \notin u.postos
        BY <1>1, <1>3, <2>2, <3>1, <3>2 DEF SozinhaSemRival
      <3> QED
        BY <1>1, <1>2, <3>1, <3>2, <3>3 DEF Ficara
    <2> QED
      BY <2>1, <2>2
  <1>5. EspelhoDaNota'
    BY <1>2, DesenhoSemCarimbo DEF EspelhoDaNota, Desenhos, Desenho, SemPdf
  <1>6. Estampa'
    <2> SUFFICES ASSUME NEW c \in Chaves \ rasgada, status[c] \notin Especiais,
                        ~ \E v \in Escritores : /\ tx'[v].fase = "gravada" /\ c \in tx'[v].postos
                                                /\ tx'[v].escritas[c] \in Especiais
                 PROVE  espelho'[NomePdf[c]] \in {SemPdf, Desenho(c, "autorizada")}
      BY <1>1 DEF Estampa, SemPdf, Desenho, Especiais
    <2>1. CASE c \in u.postos
      <3>1. PICK s \in Status :
              /\ espelho'[NomePdf[c]] = Desenho(c, s)
              /\ s \in Especiais => \/ u.escritas[c] \in Especiais
                                    \/ c = t.alvo /\ s = t.lido /\ t.tipo # "correcao"
        BY <1>2, <2>1
      <3>2. s \notin Especiais
        BY <1>1, <1>3, <2>1, <3>1 DEF AindaVale
      <3> QED
        BY <3>1, <3>2, DesenhoSemCarimbo
    <2>2. CASE c \notin u.postos
      <3>1. ~ \E v \in Escritores : /\ tx[v].fase = "gravada" /\ c \in tx[v].postos
                                    /\ tx[v].escritas[c] \in Especiais
        BY <1>1
      <3> QED
        BY <1>2, <2>2, <3>1 DEF Estampa
    <2> QED
      BY <2>1, <2>2
  <1>7. CarimboAcompanha'
    <2> SUFFICES ASSUME NEW c \in Chaves, pdf[c], c \notin corrida \cup rasgada,
                        \A v \in Escritores : tx'[v].fase = "gravada" => c \notin tx'[v].postos
                 PROVE  espelho'[NomePdf[c]] = Desenho(c, status[c])
      BY <1>1 DEF CarimboAcompanha, Desenho, Especiais
    <2>1. c \notin u.postos /\ \A v \in Escritores : tx[v].fase = "gravada" => c \notin tx[v].postos
      BY <1>1
    <2> QED
      BY <1>2, <2>1 DEF CarimboAcompanha
  <1> QED
    BY <1>4, <1>5, <1>6, <1>7

\* Undoing leaves what was stored, and says so.
LEMMA DesfazerCarimba ==
    ASSUME InvCarimbo, NEW w \in Escritores, Desfazer(w)
    PROVE  SessoesConferem' /\ EspelhoDaNota' /\ Estampa' /\ CarimboAcompanha'
  <1> USE DEF InvCarimbo, InvStatus
  <1>1. /\ rasgada' = rasgada \cup tx[w].postos /\ tx'[w].fase = "livre"
        /\ \A v \in Escritores \ {w} : tx'[v] = tx[v]
        /\ UNCHANGED <<status, pdf, registrados, espelho, corrida>>
    BY SemTransacaoLivre DEF Desfazer, TiposStatus
  <1>2. SessoesConferem'
    BY <1>1 DEF SessoesConferem, PostosConferem, Ficara
  <1>3. EspelhoDaNota'
    BY <1>1 DEF EspelhoDaNota
  <1>4. Estampa'
    BY <1>1 DEF Estampa
  <1>5. CarimboAcompanha'
    BY <1>1 DEF CarimboAcompanha
  <1> QED
    BY <1>2, <1>3, <1>4, <1>5

\* Committing brings the rows to what the drawings show.
LEMMA ConfirmarCarimba ==
    ASSUME InvCarimbo, NEW w \in Escritores, Confirmar(w)
    PROVE  SessoesConferem' /\ EspelhoDaNota' /\ Estampa' /\ CarimboAcompanha'
  <1> USE DEF InvCarimbo, InvStatus
  <1> DEFINE t == tx[w]
  <1>1. /\ t.fase = "gravada" /\ Transacao(t) /\ Decidiu(t) /\ AindaVale(t)
        /\ EscreveuLinhas(t) /\ EscreveuPdf(t)
        /\ \A c \in Chaves : status'[c] = Ficara(t, c)
        /\ \A c \in Chaves : status'[c] # status[c] => t.escritas[c] = status'[c] /\ c \in Tocadas(t)
        /\ corrida' = IF ~t.sozinha THEN corrida \cup Tocadas(t)
                      ELSE IF t.tipo = "nota" THEN corrida \ {t.alvo} ELSE corrida
        /\ rasgada' = (IF t.sozinha THEN rasgada \ t.postos ELSE rasgada) \cup t.falhos
        /\ espelho' = espelho
    BY ConfirmarFaz
  <1>2. tx'[w].fase = "livre" /\ \A v \in Escritores \ {w} : tx'[v] = tx[v]
    BY ConfirmarFaz, SemTransacaoLivre
  <1>3. \A c \in Chaves : t.chavePdf[c] = "igual" => pdf'[c] = pdf[c]
    BY DEF Confirmar
  <1>4. PostosConferem(t) /\ t.alvo \in Tocadas(t)
    BY <1>1 DEF SessoesConferem, Tocadas
  <1>5. ASSUME NEW v \in Escritores \ {w}, tx[v].fase = "gravada", NEW c \in tx[v].postos
        PROVE  c \in Tocadas(tx[v]) /\ c \in Chaves /\ (t.sozinha \/ tx[v].sozinha => c \notin Tocadas(t))
    <2>1. EscreveuLinhas(tx[v]) /\ Decidiu(tx[v])
      BY <1>5 DEF SessoesEscritas, SessoesDecididas
    <2>2. c \in Tocadas(tx[v]) /\ c \in Chaves
      BY <1>5, <2>1 DEF EscreveuLinhas, Tocadas, Decidiu
    <2> QED
      BY <1>1, <1>5, <2>2 DEF SozinhaSemRival
  <1>6. SessoesConferem'
    <2> SUFFICES ASSUME NEW v \in Escritores \ {w}, tx[v].fase = "gravada", tx[v].sozinha,
                        NEW c \in tx[v].postos \ tx[v].falhos
                 PROVE  espelho'[NomePdf[c]] = Desenho(c, Ficara(tx[v], c)')
      BY <1>2 DEF SessoesConferem, PostosConferem, Ficara
    <2>1. status'[c] = status[c]
      BY <1>1, <1>5
    <2>2. espelho[NomePdf[c]] = Desenho(c, Ficara(tx[v], c))
      BY DEF SessoesConferem, PostosConferem
    <2> QED
      BY <1>1, <1>2, <2>1, <2>2 DEF Ficara
  <1>7. EspelhoDaNota'
    BY <1>1 DEF EspelhoDaNota
  <1>8. Estampa'
    <2> SUFFICES ASSUME NEW c \in Chaves \ rasgada', status'[c] \notin Especiais,
                        ~ \E v \in Escritores : /\ tx'[v].fase = "gravada" /\ c \in tx'[v].postos
                                                /\ tx'[v].escritas[c] \in Especiais
                 PROVE  espelho[NomePdf[c]] \in {SemPdf, Desenho(c, "autorizada")}
      BY <1>1 DEF Estampa, SemPdf, Desenho, Especiais
    <2>1. status'[c] \in Status /\ status'[c] = Ficara(t, c) /\ status[c] \in Status
      BY <1>1 DEF Ficara, Transacao, TiposStatus
    <2>2. CASE c \in rasgada
      <3>1. t.sozinha /\ c \in t.postos /\ c \notin t.falhos
        BY <1>1, <2>2
      <3>2. espelho[NomePdf[c]] = Desenho(c, status'[c])
        BY <1>4, <2>1, <3>1 DEF PostosConferem
      <3> QED
        BY <2>1, <3>2, DesenhoSemCarimbo
    <2>3. CASE c \notin rasgada
      <3>1. status[c] \notin Especiais
        <4>1. ASSUME status[c] \in Especiais
              PROVE  FALSE
          <5>1. t.escritas[c] = status'[c] /\ c \in Tocadas(t) /\ status'[c] \in {"fora", "autorizada"}
            BY <1>1, <2>1, <4>1 DEF Status, Especiais
          <5>2. t.tipo = "correcao"
            BY <1>1, <4>1, <5>1 DEF EscreveuPdf, Especiais
          <5>3. c \in t.falhos
            BY <1>1, <5>1, <5>2 DEF Tocadas, EscreveuPdf
          <5> QED
            BY <1>1, <5>3
        <4> QED
          BY <4>1
      <3>2. ~ \E v \in Escritores : /\ tx[v].fase = "gravada" /\ c \in tx[v].postos
                                    /\ tx[v].escritas[c] \in Especiais
        <4>1. t.escritas[c] \notin Especiais
          BY <2>1 DEF Ficara, Especiais
        <4> QED
          BY <1>2, <4>1
      <3> QED
        BY <2>3, <3>1, <3>2 DEF Estampa
    <2> QED
      BY <2>2, <2>3
  <1>9. CarimboAcompanha'
    <2> SUFFICES ASSUME NEW c \in Chaves, pdf'[c], c \notin corrida' \cup rasgada',
                        \A v \in Escritores : tx'[v].fase = "gravada" => c \notin tx'[v].postos
                 PROVE  espelho[NomePdf[c]] = Desenho(c, status'[c])
      BY <1>1 DEF CarimboAcompanha, Desenho, Especiais
    <2>1. status'[c] = Ficara(t, c) /\ status[c] \in Status /\ c \notin t.falhos
      BY <1>1 DEF TiposStatus
    <2>2. CASE t.sozinha /\ c \in t.postos
      BY <1>4, <2>1, <2>2 DEF PostosConferem
    <2>3. CASE ~t.sozinha
      <3>1. c \notin Tocadas(t) /\ c \notin corrida /\ c \notin rasgada
        BY <1>1, <2>3
      <3>2. t.escritas[c] = "igual" /\ t.chavePdf[c] = "igual" /\ c \notin t.postos
        BY <1>1, <3>1 DEF EscreveuLinhas
      <3>3. \A v \in Escritores : tx[v].fase = "gravada" => c \notin tx[v].postos
        BY <1>2, <3>2
      <3> QED
        BY <1>3, <2>1, <3>1, <3>2, <3>3 DEF CarimboAcompanha, Ficara
    <2>4. CASE t.sozinha /\ c \notin t.postos
      <3>1. c \notin rasgada
        BY <1>1, <2>4
      <3>2. \A v \in Escritores : tx[v].fase = "gravada" => c \notin tx[v].postos
        BY <1>2, <2>4
      <3>3. CASE t.escritas[c] # "igual" \/ t.chavePdf[c] # "igual" \/ (t.tipo = "nota" /\ c = t.alvo)
        <4>1. /\ t.tipo = "nota" /\ c = t.alvo /\ t.novo \notin Especiais /\ t.escritas[c] \notin Especiais
              /\ espelho[NomePdf[c]] # SemPdf
          BY <1>1, <2>1, <2>4, <3>3 DEF EscreveuPdf
        <4>2. status[c] = t.lido /\ status[c] \notin Especiais
          <5>1. status[c] = t.lido /\ Prioridade(t.lido) <= Prioridade(t.novo)
                /\ t.novo \in Status /\ t.lido \in Status
            BY <1>1, <2>4, <4>1 DEF AindaVale, Decidiu, Transacao
          <5> QED
            BY <4>1, <5>1, PrioridadeDosEspeciais
        <4>3. espelho[NomePdf[c]] = Desenho(c, "autorizada")
          BY <3>1, <3>2, <4>1, <4>2 DEF Estampa
        <4>4. status'[c] \in Status /\ status'[c] \notin Especiais
          BY <1>1, <2>1, <4>1, <4>2 DEF Ficara, Transacao
        <4> QED
          BY <4>3, <4>4, DesenhoSemCarimbo
      <3>4. CASE t.escritas[c] = "igual" /\ t.chavePdf[c] = "igual" /\ ~(t.tipo = "nota" /\ c = t.alvo)
        <4>1. c \notin corrida /\ pdf[c] /\ status'[c] = status[c]
          BY <1>1, <1>3, <2>1, <2>4, <3>4 DEF Ficara
        <4> QED
          BY <3>1, <3>2, <4>1 DEF CarimboAcompanha
      <3> QED
        BY <3>3, <3>4
    <2> QED
      BY <2>2, <2>3, <2>4
  <1> QED
    BY <1>6, <1>7, <1>8, <1>9

\* The same, with what the drawings show.
THEOREM InvarianciaCarimbo ==
    ASSUME NomesDistintos
    PROVE  SpecStatus => []InvCarimbo
  <1>1. InitStatus /\ InvStatus => InvCarimbo
    <2> SUFFICES ASSUME InitStatus, InvStatus
                 PROVE  InvCarimbo
      OBVIOUS
    <2>1. \A w \in Escritores : tx[w].fase = "livre"
      BY SemTransacaoLivre DEF InitStatus
    <2>2. \A c \in Chaves : espelho[NomePdf[c]] = SemPdf /\ ~pdf[c]
      BY DEF InitStatus
    <2> QED
      BY <2>1, <2>2 DEF InvCarimbo, SessoesConferem, EspelhoDaNota, Desenhos, Estampa, CarimboAcompanha
  <1>2. ASSUME InvCarimbo, InvStatus', [NextStatus]_varsStatus
        PROVE  InvCarimbo'
    <2>1. ASSUME NEW w \in Escritores, Passo(w)
          PROVE  SessoesConferem' /\ EspelhoDaNota' /\ Estampa' /\ CarimboAcompanha'
      <3>1. CASE Ler(w)
        BY <1>2, <3>1, LerCarimba
      <3>2. CASE Gravar(w)
        BY <1>2, <3>2, GravarEscreve, GravarGuarda, EscreverCarimba DEF InvCarimbo
      <3>3. CASE Confirmar(w)
        BY <1>2, <3>3, ConfirmarCarimba
      <3>4. CASE Desfazer(w)
        BY <1>2, <3>4, DesfazerCarimba
      <3> QED
        BY <2>1, <3>1, <3>2, <3>3, <3>4, PassoDaSessao
    <2>2. CASE UNCHANGED varsStatus
      BY <1>2, <2>2
      DEF varsStatus, InvCarimbo, SessoesConferem, PostosConferem, Ficara, EspelhoDaNota, Estampa, CarimboAcompanha
    <2> QED
      BY <1>2, <2>1, <2>2 DEF NextStatus, InvCarimbo
  <1> QED
    BY <1>1, <1>2, InvarianciaStatus, PTL DEF SpecStatus

\* The PDF of a nota carries the stamp of its status, when no two notas have
\* the same file name, unless a drawing failed or was undone after it was
\* stored, or writers overlapped.
THEOREM CarimboNaoEngana ==
    ASSUME NomesDistintos
    PROVE  SpecStatus => []CarimboAcompanha
  <1>1. InvCarimbo => CarimboAcompanha
    BY DEF InvCarimbo
  <1> QED
    BY <1>1, InvarianciaCarimbo, PTL
=============================================================================
