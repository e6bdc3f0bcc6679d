----------------------------- MODULE Conferencia -----------------------------
(***************************************************************************)
(* The human review of one nota: PATCH /notas and PUT /nfse, its history,  *)
(* the status the queue shows, and the ingestion that reads the XML again  *)
(* beside it.                                                              *)
(*                                                                         *)
(* A request reads the row, decides, and writes the columns that differ    *)
(* from what it read; nothing locks the row in between.                    *)
(***************************************************************************)
EXTENDS Naturals, Sequences, SequencesExt

CONSTANTS
    Revisores,      \* users of the portal
    Pedidos,        \* requests of review
    Leituras,       \* what the fiscal analysis may find in the XML
    MaxHistorico    \* rows of conferencia_historico

VARIABLES
    linha,          \* the row of the nota
    historico,      \* its conferencia_historico
    pedido,         \* what each session has read and will write
    ultimo,         \* the last written request that decided the status (history)
    sobreposta      \* a session wrote over a row that had changed (history)
varsConferencia == <<linha, historico, pedido, ultimo, sobreposta>>

Motor == "motor"

\* What the rules tell apart of a text: none, with a divergence hint, with
\* "correto", any other.
Textos == {"nada", "dica", "correto", "outro"}
Decisoes == {"correta", "divergente", "pendente", "cancelada", "substituida"}
Valores == {"xml", "xmlNovo", "humano"}
Confere == {"confere", "difere"}
ASSUME PedidosAssumption ==
    Pedidos \subseteq [conf : {"ok", "corrigir", "pendente", "observacao"}, fila : {"nenhuma"} \cup Decisoes,
                      valor : {"nenhum"} \cup Confere, obs : {"mantem"} \cup Textos, divergencia : Textos]
ASSUME LeiturasAssumption ==
    Leituras \subseteq [valor : Valores \ {"humano"}, liquido : Confere, retencoes : Confere, alertas : Textos]
ASSUME RevisoresAssumption == Revisores \cap {"ninguem", Motor} = {}
NadaPedido == [conf |-> "nenhum", fila |-> "nenhuma", valor |-> "nenhum", obs |-> "mantem", divergencia |-> "nada"]
Parado == [fase |-> "livre"]

InitConferencia ==
    /\ linha \in {[responsavel |-> "ninguem", conf |-> "nenhum", fila |-> "nenhuma", obs |-> "nada",
                   divergencia |-> "nada", valor |-> x.valor, liquido |-> x.liquido, retencoes |-> x.retencoes,
                   alertas |-> x.alertas, documento |-> "ativa", faltam |-> f] : x \in Leituras, f \in BOOLEAN}
    /\ historico = <<>>
    /\ pedido = [s \in Revisores \cup {Motor} |-> Parado]
    /\ ultimo = NadaPedido
    /\ sobreposta = FALSE

-----------------------------------------------------------------------------
\* The columns that differ from the loaded row are written, the rest stays.
Escrever(lida, nova) == [c \in DOMAIN linha |-> IF nova[c] # lida[c] THEN nova[c] ELSE linha[c]]

\* The screen shows the noted divergence, and that fields are missing, as
\* alerts of a nota whose analysis gave none; the reports do not.
AlertasDaTela(l) ==
    IF l.alertas # "nada" THEN l.alertas
    ELSE IF l.divergencia # "nada" THEN l.divergencia ELSE IF l.faltam THEN "outro" ELSE "nada"

\* calcular_status_fila: the manual decision, then the status of the document,
\* the remark, the alerts and the columns of the analysis.
Automatica(l, alertas) ==
    IF l.documento # "ativa" THEN l.documento
    ELSE IF "dica" \in {l.obs, alertas} \/ alertas = "outro" THEN "divergente"
    ELSE IF alertas = "nada" /\ "difere" \in {l.retencoes, l.liquido} THEN "divergente" ELSE "correta"
FilaCom(l, alertas) == IF l.fila # "nenhuma" THEN l.fila ELSE Automatica(l, alertas)
Fila(l) == FilaCom(l, AlertasDaTela(l))
FilaDoRelatorio(l) == FilaCom(l, l.alertas)

FilaDoPedidoDefeituosa(p, anterior) ==
    IF p.fila # "nenhuma" THEN p.fila
    ELSE CASE p.conf = "ok" -> "correta" [] p.conf = "corrigir" -> "divergente"
           [] OTHER -> anterior
FilaDoPedido(p, anterior) ==
    IF p.fila # "nenhuma" THEN p.fila
    ELSE CASE p.conf = "ok" -> "correta" [] p.conf = "corrigir" -> "divergente"
           [] p.conf = "pendente" -> "nenhuma" [] OTHER -> anterior

\* A remark alone leaves the earlier decision.
Decide(p) == p.fila # "nenhuma" \/ p.conf # "observacao"

Pode(lida, retificar) == lida.responsavel = "ninguem" \/ retificar

LerConferencia(u, p, retificar) ==
    /\ pedido[u] = Parado /\ Len(historico) < MaxHistorico
    /\ Pode(linha, retificar)
    /\ pedido' = [pedido EXCEPT ![u] = [fase |-> "lida", lida |-> linha, p |-> p]]
    /\ UNCHANGED <<linha, historico, ultimo, sobreposta>>

\* atualizar_conferencia: the row, and a line of history with what changed,
\* from the row that was read to the row as it is after the write.
Revista(lida, u, p) ==
    [lida EXCEPT !.responsavel = u, !.conf = p.conf, !.fila = FilaDoPedido(p, lida.fila),
                 !.obs = IF p.obs = "mantem" THEN @ ELSE p.obs,
                 !.divergencia = IF p.divergencia = "nada" THEN @ ELSE p.divergencia,
                 !.valor = IF p.valor = "nenhum" THEN @ ELSE "humano",
                 !.liquido = IF p.valor = "nenhum" THEN @ ELSE p.valor]
\* The columns of the history that only a review writes, and the others.
Revisao(l) == <<l.responsavel, l.conf, l.fila, l.divergencia>>
Acompanham(l) == <<l.obs, l.valor, l.liquido>>

AcaoDefeituosa(lida) == IF lida.conf = "nenhum" THEN "retificacao" ELSE "analise"
Acao(lida) == IF lida.responsavel = "ninguem" THEN "analise" ELSE "retificacao"

GravarConferencia(u) ==
    LET lida == pedido[u].lida
        nova == Escrever(lida, Revista(lida, u, pedido[u].p))
    IN /\ pedido[u] # Parado
       /\ linha' = nova
       /\ historico' = IF Revisao(lida) = Revisao(nova) /\ Acompanham(lida) = Acompanham(nova) THEN historico
                       ELSE Append(historico, [acao |-> Acao(lida),
                                               de |-> Revisao(lida), para |-> Revisao(nova)])
       /\ pedido' = [pedido EXCEPT ![u] = Parado]
       /\ ultimo' = IF Decide(pedido[u].p) THEN pedido[u].p ELSE ultimo
       /\ sobreposta' = (sobreposta \/ linha # lida)

-----------------------------------------------------------------------------
(* The ingestion reads the XML again: the fiscal fields are new, a decision *)
(* stays unless it was reopened as pendente. It also receives the events.  *)

Conferida(l) == l.conf \notin {"nenhum", "pendente"}

ReingeridaDefeituosa(lida, x) ==
    [lida EXCEPT !.alertas = x.alertas, !.retencoes = x.retencoes, !.valor = x.valor, !.liquido = x.liquido]
Reingerida(lida, x) ==
    [lida EXCEPT !.alertas = x.alertas, !.retencoes = x.retencoes,
                 !.valor = IF Conferida(lida) THEN @ ELSE x.valor,
                 !.liquido = IF Conferida(lida) THEN @ ELSE x.liquido]

\* _registrar_evento_xml gives a remark to a nota without one; the events
\* fetched apart and the substitution give none. What it says is not told
\* apart: the status of the document answers before it.
ComEvento(lida, d, obs) == [lida EXCEPT !.documento = d, !.obs = IF @ = "nada" THEN obs ELSE @]

LerComoMotor(nova) ==
    /\ pedido[Motor] = Parado
    /\ pedido' = [pedido EXCEPT ![Motor] = [fase |-> "lida", lida |-> linha, nova |-> nova]]
    /\ UNCHANGED <<linha, historico, ultimo, sobreposta>>

LerXml(x) == LerComoMotor(Reingerida(linha, x))

\* A cancelled nota stays cancelled.
LerEventoDaNota(d, obs) ==
    /\ linha.documento = "ativa" \/ (linha.documento = "substituida" /\ d = "cancelada")
    /\ LerComoMotor(ComEvento(linha, d, obs))

GravarXml ==
    /\ pedido[Motor] # Parado
    /\ linha' = Escrever(pedido[Motor].lida, pedido[Motor].nova)
    /\ pedido' = [pedido EXCEPT ![Motor] = Parado]
    /\ sobreposta' = (sobreposta \/ linha # pedido[Motor].lida)
    /\ UNCHANGED <<historico, ultimo>>

\* Until the first overlapping write (a bound): what it leaves is not stated.
NextConferencia ==
  /\ ~sobreposta
  /\ \/ \E u \in Revisores, p \in Pedidos, r \in BOOLEAN : LerConferencia(u, p, r)
     \/ \E u \in Revisores : GravarConferencia(u)
     \/ \E x \in Leituras : LerXml(x)
     \/ \E d \in {"cancelada", "substituida"}, obs \in {"nada", "outro"} : LerEventoDaNota(d, obs)
     \/ GravarXml

SpecConferencia == InitConferencia /\ [][NextConferencia]_varsConferencia

-----------------------------------------------------------------------------
(* Properties.                                                             *)

\* Unless two sessions wrote over each other, the history tells the whole
\* review: each line starts where the one before ended, only the first is an
\* analysis, and the last is what the row shows.
HistoricoEncadeia ==
    ~sobreposta =>
        /\ \A i \in DOMAIN historico : (historico[i].acao = "analise") = (i = 1)
        /\ \A i \in 2..Len(historico) : historico[i].de = historico[i - 1].para
        /\ historico # <<>> => Last(historico).para = Revisao(linha)

\* A new reading of the XML changes neither the net value nor its status of a
\* nota somebody reviewed; reopened as pendente, it may.
DecisaoHumanaFica ==
    [][Conferida(linha) /\ <<linha.valor, linha.liquido>>' # <<linha.valor, linha.liquido>>
          => sobreposta' \/ \E u \in Revisores : pedido[u] # Parado /\ pedido'[u] = Parado]_varsConferencia

\* What the screen and the reports show follows the last decision, whatever
\* the remarks, the alerts, later remarks and the events say: approved is
\* correct and to-fix is divergent; reopened as pendente, no decision is left
\* and the automatic rules answer, which read what reviews noted too.
FilaSegueConferencia ==
    ~sobreposta =>
        /\ ultimo.fila # "nenhuma" => {Fila(linha), FilaDoRelatorio(linha)} = {ultimo.fila}
        /\ ultimo.fila = "nenhuma" /\ ultimo.conf = "ok" =>
              {Fila(linha), FilaDoRelatorio(linha)} = {"correta"}
        /\ ultimo.fila = "nenhuma" /\ ultimo.conf = "corrigir" =>
              {Fila(linha), FilaDoRelatorio(linha)} = {"divergente"}
        /\ ultimo.fila = "nenhuma" /\ ultimo.conf \in {"nenhum", "pendente"} =>
              /\ Fila(linha) = Automatica(linha, AlertasDaTela(linha))
              /\ FilaDoRelatorio(linha) = Automatica(linha, linha.alertas)
=============================================================================
