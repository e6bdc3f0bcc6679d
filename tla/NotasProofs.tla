----------------------------- MODULE NotasProofs -----------------------------
(***************************************************************************)
(* Proofs about what the portal keeps of the notas and shows of them: the   *)
(* human review of one (Conferencia), for any users, requests and length of *)
(* history; the cache of the Receita (Cnpj), for any CNPJs and any validity *)
(* of a row; the fiscal analysis (Retencoes), for any documents, amounts    *)
(* and rules; and the reading of the list by cursor (Listagem), for any     *)
(* notas, changes, filters and sizes of page.                               *)
(***************************************************************************)
EXTENDS Conferencia, Cnpj, Retencoes, Listagem, Ordem, SequenceTheorems

-----------------------------------------------------------------------------
(* The review of a nota.                                                    *)

LinhasConferidas ==
    [responsavel : Revisores \cup {"ninguem"}, conf : {"nenhum", "ok", "corrigir", "pendente", "observacao"},
     fila : {"nenhuma"} \cup Decisoes, obs : Textos, divergencia : Textos, valor : Valores,
     liquido : Confere, retencoes : Confere, alertas : Textos,
     documento : {"ativa", "cancelada", "substituida"}, faltam : BOOLEAN]
Colunas == {"responsavel", "conf", "fila", "obs", "divergencia", "valor", "liquido", "retencoes",
            "alertas", "documento", "faltam"}

\* A reviewer's session: at rest, or with the row it read and what to write.
PedidosDeRevisor == {Parado} \cup [fase : {"lida"}, lida : LinhasConferidas, p : Pedidos]

\* The ingestion's: the row it read, and the row it makes of it.
PedidosDoMotor == {Parado} \cup [fase : {"lida"}, lida : LinhasConferidas, nova : LinhasConferidas]

\* What the history keeps of a row.
Revisoes == (Revisores \cup {"ninguem"}) \X {"nenhum", "ok", "corrigir", "pendente", "observacao"}
                \X ({"nenhuma"} \cup Decisoes) \X Textos
Registros == [acao : {"analise", "retificacao"}, de : Revisoes, para : Revisoes]

TiposConferencia ==
    /\ linha \in LinhasConferidas
    /\ pedido \in [Revisores \cup {Motor} -> PedidosDeRevisor \cup PedidosDoMotor]
    /\ \A u \in Revisores : pedido[u] \in PedidosDeRevisor
    /\ pedido[Motor] \in PedidosDoMotor
    /\ ultimo \in Pedidos \cup {NadaPedido}
    /\ historico \in Seq(Registros)

\* What the ingestion will write leaves the review alone, and the value too
\* when the row it read was reviewed.
MotorRespeita ==
    pedido[Motor] # Parado =>
        LET lida == pedido[Motor].lida  nova == pedido[Motor].nova IN
        /\ Revisao(nova) = Revisao(lida)
        /\ Conferida(lida) => nova.valor = lida.valor /\ nova.liquido = lida.liquido

\* The decision the row keeps is that of the last request that decided, and
\* there is a history exactly when somebody reviewed.
RevisaoEhUltima ==
    ~sobreposta =>
        /\ linha.responsavel = "ninguem" <=> historico = <<>>
        /\ linha.fila = FilaDoPedido(ultimo, "nenhuma")
        /\ Decide(ultimo)

InvConferencia == TiposConferencia /\ MotorRespeita /\ RevisaoEhUltima /\ HistoricoEncadeia

\* What the history keeps of a row is a review.
LEMMA RevisaoTipo ==
    ASSUME NEW l \in LinhasConferidas
    PROVE  Revisao(l) \in Revisoes
  BY DEF LinhasConferidas, Revisao, Revisoes

\* What atualizar_conferencia decides is a row, and what it says of the review:
\* the decision of the request, or the earlier one when it only remarks.
LEMMA RevistaTipo ==
    ASSUME NEW lida \in LinhasConferidas, NEW u \in Revisores, NEW p \in Pedidos
    PROVE  /\ Revista(lida, u, p) \in LinhasConferidas
           /\ Revista(lida, u, p).responsavel = u
           /\ Revista(lida, u, p).fila = IF Decide(p) THEN FilaDoPedido(p, "nenhuma") ELSE lida.fila
  <1>1. p \in [conf : {"ok", "corrigir", "pendente", "observacao"}, fila : {"nenhuma"} \cup Decisoes,
                valor : {"nenhum"} \cup Confere, obs : {"mantem"} \cup Textos, divergencia : Textos]
    BY PedidosAssumption
  <1>2. /\ FilaDoPedido(p, lida.fila) = IF Decide(p) THEN FilaDoPedido(p, "nenhuma") ELSE lida.fila
        /\ FilaDoPedido(p, lida.fila) \in {"nenhuma"} \cup Decisoes
    BY <1>1 DEF FilaDoPedido, Decide, LinhasConferidas, Decisoes
  <1> DEFINE f == FilaDoPedido(p, lida.fila)
             o == IF p.obs = "mantem" THEN lida.obs ELSE p.obs
             d == IF p.divergencia = "nada" THEN lida.divergencia ELSE p.divergencia
             v == IF p.valor = "nenhum" THEN lida.valor ELSE "humano"
             q == IF p.valor = "nenhum" THEN lida.liquido ELSE p.valor
             c == p.conf
  <1>3. Revista(lida, u, p) =
          [lida EXCEPT !.responsavel = u, !.conf = c, !.fila = f, !.obs = o,
                       !.divergencia = d, !.valor = v, !.liquido = q]
    BY DEF Revista, LinhasConferidas
  <1>4. /\ o \in Textos /\ d \in Textos /\ v \in Valores /\ q \in Confere
        /\ c \in {"ok", "corrigir", "pendente", "observacao"} /\ f \in {"nenhuma"} \cup Decisoes
    BY <1>1, <1>2 DEF LinhasConferidas, Valores
  <1>5. f = IF Decide(p) THEN FilaDoPedido(p, "nenhuma") ELSE lida.fila
    BY <1>2
  <1> HIDE DEF f, o, d, v, q, c
  <1> QED
    BY <1>3, <1>4, <1>5 DEF LinhasConferidas

\* A new reading of the XML is a row of the same review, and of the same net
\* value when somebody reviewed it.
LEMMA ReingeridaTipo ==
    ASSUME NEW lida \in LinhasConferidas, NEW x \in Leituras
    PROVE  /\ Reingerida(lida, x) \in LinhasConferidas
           /\ Revisao(Reingerida(lida, x)) = Revisao(lida)
           /\ Conferida(lida) => /\ Reingerida(lida, x).valor = lida.valor
                                /\ Reingerida(lida, x).liquido = lida.liquido
  <1>1. x \in [valor : Valores \ {"humano"}, liquido : Confere, retencoes : Confere, alertas : Textos]
    BY LeiturasAssumption
  <1> QED
    BY <1>1 DEF Reingerida, LinhasConferidas, Revisao

\* So is what an event makes of it.
LEMMA ComEventoTipo ==
    ASSUME NEW lida \in LinhasConferidas, NEW d \in {"cancelada", "substituida"}, NEW obs \in {"nada", "outro"}
    PROVE  /\ ComEvento(lida, d, obs) \in LinhasConferidas
           /\ Revisao(ComEvento(lida, d, obs)) = Revisao(lida)
           /\ ComEvento(lida, d, obs).valor = lida.valor /\ ComEvento(lida, d, obs).liquido = lida.liquido
  BY DEF ComEvento, LinhasConferidas, Revisao, Textos

\* Writing the columns that differ leaves a row, and exactly the one decided
\* when nobody wrote since it was read.
LEMMA EscreverTipo ==
    ASSUME linha \in LinhasConferidas, NEW lida \in LinhasConferidas, NEW nova \in LinhasConferidas
    PROVE  /\ Escrever(lida, nova) \in LinhasConferidas
           /\ linha = lida => Escrever(lida, nova) = nova
  <1>1. DOMAIN linha = Colunas
    BY DEF LinhasConferidas, Colunas
  <1>2. DOMAIN nova = Colunas
    BY DEF LinhasConferidas, Colunas
  <1>3. Escrever(lida, nova) \in LinhasConferidas
    BY <1>1 DEF Escrever, LinhasConferidas, Colunas
  <1>4. ASSUME linha = lida
        PROVE  Escrever(lida, nova) = nova
    <2>1. Escrever(lida, nova) = [c \in Colunas |-> nova[c]]
      BY <1>1, <1>4 DEF Escrever
    <2> QED
      BY <1>2, <2>1 DEF LinhasConferidas
  <1> QED
    BY <1>3, <1>4

\* The proposed invariant holds of a nota nobody reviewed.
LEMMA InicioConferencia ==
    ASSUME InitConferencia
    PROVE  InvConferencia
  <1> USE DEF InitConferencia
  <1>0. linha \in LinhasConferidas /\ linha.responsavel = "ninguem" /\ linha.fila = "nenhuma"
    <2>1. PICK x \in Leituras, f \in BOOLEAN :
            linha = [responsavel |-> "ninguem", conf |-> "nenhum", fila |-> "nenhuma", obs |-> "nada",
                     divergencia |-> "nada", valor |-> x.valor, liquido |-> x.liquido,
                     retencoes |-> x.retencoes, alertas |-> x.alertas, documento |-> "ativa", faltam |-> f]
      OBVIOUS
    <2>2. x \in [valor : Valores \ {"humano"}, liquido : Confere, retencoes : Confere, alertas : Textos]
      BY LeiturasAssumption
    <2> QED
      BY <2>1, <2>2 DEF LinhasConferidas, Textos
  <1>1. TiposConferencia
    BY <1>0 DEF TiposConferencia, PedidosDeRevisor, PedidosDoMotor
  <1>2. MotorRespeita
    BY DEF MotorRespeita
  <1>3. RevisaoEhUltima
    BY <1>0 DEF RevisaoEhUltima, NadaPedido, FilaDoPedido, Decide
  <1>4. HistoricoEncadeia
    BY DEF HistoricoEncadeia
  <1> QED
    BY <1>1, <1>2, <1>3, <1>4 DEF InvConferencia

\* Reading for a review changes only what that reviewer has in hand.
LEMMA PassoLerConferencia ==
    ASSUME InvConferencia, NEW u \in Revisores, NEW p \in Pedidos, NEW r \in BOOLEAN,
           LerConferencia(u, p, r)
    PROVE  InvConferencia'
  <1> USE DEF InvConferencia
  <1> DEFINE novo == [fase |-> "lida", lida |-> linha, p |-> p]
  <1>0. Motor \notin Revisores
    BY RevisoresAssumption
  <1>1. novo \in PedidosDeRevisor
    BY DEF TiposConferencia, PedidosDeRevisor
  <1>2. pedido' = [pedido EXCEPT ![u] = novo]
    BY DEF LerConferencia
  <1> HIDE DEF novo
  <1>3. pedido'[Motor] = pedido[Motor]
    BY <1>0, <1>2 DEF TiposConferencia
  <1>4. UNCHANGED <<linha, historico, ultimo, sobreposta>>
    BY DEF LerConferencia
  <1>5. TiposConferencia'
    BY <1>1, <1>2, <1>3, <1>4 DEF TiposConferencia
  <1>6. MotorRespeita'
    BY <1>3 DEF MotorRespeita
  <1>7. RevisaoEhUltima' /\ HistoricoEncadeia'
    BY <1>4 DEF RevisaoEhUltima, HistoricoEncadeia, Revisao
  <1> QED
    BY <1>5, <1>6, <1>7

\* A reviewer's write adds at most one line to the chain, at its end.
LEMMA PassoGravarConferencia ==
    ASSUME InvConferencia, ~sobreposta, NEW u \in Revisores, GravarConferencia(u)
    PROVE  InvConferencia'
  <1> DEFINE lida == pedido[u].lida
             p == pedido[u].p
             nova == Escrever(lida, Revista(lida, u, p))
             reg == [acao |-> Acao(lida), de |-> Revisao(lida), para |-> Revisao(nova)]
  <1>0. Motor \notin Revisores /\ u # "ninguem"
    BY RevisoresAssumption
  <1>1. lida \in LinhasConferidas /\ p \in Pedidos /\ linha \in LinhasConferidas
    BY DEF InvConferencia, TiposConferencia, PedidosDeRevisor, GravarConferencia
  <1>2. /\ linha' = nova /\ ultimo' = IF Decide(p) THEN p ELSE ultimo
        /\ sobreposta' = (sobreposta \/ linha # lida)
        /\ pedido' = [pedido EXCEPT ![u] = Parado]
        /\ historico' = IF Revisao(lida) = Revisao(nova) /\ Acompanham(lida) = Acompanham(nova) THEN historico
                        ELSE Append(historico, reg)
    BY DEF GravarConferencia
  <1>3. nova \in LinhasConferidas /\ (linha = lida => nova = Revista(lida, u, p))
    BY <1>1, RevistaTipo, EscreverTipo
  <1>4. reg \in Registros
    BY <1>1, <1>3, RevisaoTipo DEF Registros, Acao
  <1>5. /\ reg.de = Revisao(lida) /\ reg.para = Revisao(nova)
        /\ reg.acao = IF lida.responsavel = "ninguem" THEN "analise" ELSE "retificacao"
    BY DEF Acao
  <1>6. /\ Revista(lida, u, p).responsavel = u
        /\ Revista(lida, u, p).fila = IF Decide(p) THEN FilaDoPedido(p, "nenhuma") ELSE lida.fila
    BY <1>1, RevistaTipo
  <1> HIDE DEF lida, p, nova, reg
  <1>7. historico \in Seq(Registros) /\ historico' \in Seq(Registros)
    BY <1>2, <1>4 DEF InvConferencia, TiposConferencia
  <1>8. TiposConferencia'
    <2>1. Parado \in PedidosDeRevisor
      BY DEF PedidosDeRevisor
    <2>2. /\ pedido' \in [Revisores \cup {Motor} -> PedidosDeRevisor \cup PedidosDoMotor]
          /\ \A v \in Revisores : pedido'[v] \in PedidosDeRevisor
          /\ pedido'[Motor] \in PedidosDoMotor
      BY <1>0, <1>2, <2>1 DEF InvConferencia, TiposConferencia
    <2> QED
      BY <1>1, <1>2, <1>3, <1>7, <2>2 DEF InvConferencia, TiposConferencia
  <1>9. MotorRespeita'
    BY <1>0, <1>2 DEF InvConferencia, TiposConferencia, MotorRespeita
  <1>10. RevisaoEhUltima' /\ HistoricoEncadeia'
    <2> SUFFICES ASSUME ~sobreposta'
                 PROVE  RevisaoEhUltima' /\ HistoricoEncadeia'
      BY DEF RevisaoEhUltima, HistoricoEncadeia
    <2>1. linha = lida /\ linha' = Revista(lida, u, p)
      BY <1>2, <1>3
    <2>2. /\ linha'.responsavel = u /\ linha'.responsavel # "ninguem"
          /\ linha'.fila = FilaDoPedido(ultimo', "nenhuma") /\ Decide(ultimo')
      <3>1. ~sobreposta /\ linha.fila = FilaDoPedido(ultimo, "nenhuma") /\ Decide(ultimo)
        BY DEF InvConferencia, RevisaoEhUltima
      <3> QED
        BY <1>0, <1>2, <1>6, <2>1, <3>1
    <2>3. CASE Revisao(lida) = Revisao(nova) /\ Acompanham(lida) = Acompanham(nova)
      <3>1. historico' = historico /\ Revisao(linha') = Revisao(linha)
        BY <1>2, <2>1, <2>3
      <3>2. linha.responsavel = u
        BY <3>1, <2>2 DEF Revisao
      <3>3. historico # <<>>
        BY <3>2, <1>0 DEF InvConferencia, RevisaoEhUltima
      <3>4. RevisaoEhUltima'
        BY <1>1, <1>2, <2>2, <3>1, <3>3 DEF RevisaoEhUltima
      <3>5. HistoricoEncadeia'
        BY <3>1 DEF InvConferencia, HistoricoEncadeia
      <3> QED
        BY <3>4, <3>5
    <2>4. CASE ~(Revisao(lida) = Revisao(nova) /\ Acompanham(lida) = Acompanham(nova))
      <3>1. historico' = Append(historico, reg)
        BY <1>2, <2>4
      <3>2. /\ Len(historico') = Len(historico) + 1 /\ Len(historico) \in Nat
            /\ \A i \in 1..Len(historico) : historico'[i] = historico[i]
            /\ historico'[Len(historico')] = reg
            /\ DOMAIN historico = 1..Len(historico) /\ DOMAIN historico' = 1..Len(historico')
        BY <1>4, <1>7, <3>1
      <3>3. historico' # <<>>
        BY <1>7, <3>2
      <3>4. RevisaoEhUltima'
        BY <1>1, <1>2, <2>2, <3>3 DEF RevisaoEhUltima
      <3>5. (linha.responsavel = "ninguem") = (historico = <<>>)
        BY DEF InvConferencia, RevisaoEhUltima
      <3>6. reg.acao = "analise" <=> Len(historico) = 0
        BY <1>5, <1>7, <2>1, <3>5
      <3>7. historico # <<>> => historico[Len(historico)].para = reg.de
        BY <1>5, <2>1 DEF InvConferencia, HistoricoEncadeia, Last
      <3>8. ASSUME NEW i \in DOMAIN historico'
            PROVE  historico'[i].acao = "analise" <=> i = 1
        <4>1. CASE i = Len(historico')
          BY <3>2, <3>6, <4>1
        <4>2. CASE i # Len(historico')
          <5>1. i \in DOMAIN historico /\ historico'[i] = historico[i]
            BY <3>2, <4>2
          <5> QED
            BY <5>1 DEF InvConferencia, HistoricoEncadeia
        <4> QED
          BY <4>1, <4>2
      <3>9. ASSUME NEW i \in 2..Len(historico')
            PROVE  historico'[i].de = historico'[i - 1].para
        <4>1. CASE i = Len(historico')
          <5>1. i - 1 = Len(historico) /\ historico'[i - 1] = historico[i - 1] /\ historico # <<>>
            BY <1>7, <3>2, <4>1
          <5> QED
            BY <3>2, <3>7, <4>1, <5>1
        <4>2. CASE i # Len(historico')
          <5>1. /\ i \in 2..Len(historico)
                /\ historico'[i] = historico[i] /\ historico'[i - 1] = historico[i - 1]
            BY <3>2, <4>2
          <5> QED
            BY <5>1 DEF InvConferencia, HistoricoEncadeia
        <4> QED
          BY <4>1, <4>2
      <3>10. Last(historico').para = Revisao(linha')
        BY <1>2, <1>5, <3>2 DEF Last
      <3>11. HistoricoEncadeia'
        BY <3>8, <3>9, <3>10 DEF HistoricoEncadeia
      <3> QED
        BY <3>4, <3>11
    <2> QED
      BY <2>3, <2>4
  <1> QED
    BY <1>8, <1>9, <1>10 DEF InvConferencia

\* The ingestion reads the row and makes one of the same review of it.
LEMMA PassoLerComoMotor ==
    ASSUME InvConferencia, NEW nova \in LinhasConferidas, Revisao(nova) = Revisao(linha),
           Conferida(linha) => nova.valor = linha.valor /\ nova.liquido = linha.liquido,
           LerComoMotor(nova)
    PROVE  InvConferencia'
  <1> DEFINE novo == [fase |-> "lida", lida |-> linha, nova |-> nova]
  <1>0. Motor \notin Revisores
    BY RevisoresAssumption
  <1>1. linha \in LinhasConferidas
    BY DEF InvConferencia, TiposConferencia
  <1>3. pedido' = [pedido EXCEPT ![Motor] = novo]
    BY DEF LerComoMotor
  <1>4. novo \in PedidosDoMotor /\ novo.lida = linha /\ novo.nova = nova
    BY <1>1 DEF PedidosDoMotor
  <1> HIDE DEF novo
  <1>5. UNCHANGED <<linha, historico, ultimo, sobreposta>>
    BY DEF LerComoMotor
  <1>6. pedido'[Motor] = novo /\ \A u \in Revisores : pedido'[u] = pedido[u]
    BY <1>0, <1>3 DEF InvConferencia, TiposConferencia
  <1>7. TiposConferencia'
    BY <1>3, <1>4, <1>5, <1>6 DEF InvConferencia, TiposConferencia
  <1>8. MotorRespeita'
    BY <1>4, <1>6 DEF MotorRespeita
  <1>9. RevisaoEhUltima' /\ HistoricoEncadeia'
    BY <1>5 DEF InvConferencia, RevisaoEhUltima, HistoricoEncadeia, Revisao
  <1> QED
    BY <1>7, <1>8, <1>9 DEF InvConferencia

\* What the ingestion writes leaves the review as it was.
LEMMA PassoGravarXml ==
    ASSUME InvConferencia, ~sobreposta, GravarXml
    PROVE  InvConferencia'
  <1> DEFINE lida == pedido[Motor].lida
             nova == pedido[Motor].nova
  <1>0. Motor \notin Revisores
    BY RevisoresAssumption
  <1>1. /\ linha \in LinhasConferidas /\ lida \in LinhasConferidas /\ nova \in LinhasConferidas
        /\ Revisao(nova) = Revisao(lida)
    BY DEF InvConferencia, TiposConferencia, PedidosDoMotor, MotorRespeita, GravarXml
  <1>2. /\ linha' = Escrever(lida, nova) /\ pedido' = [pedido EXCEPT ![Motor] = Parado]
        /\ sobreposta' = (sobreposta \/ linha # lida)
        /\ UNCHANGED <<historico, ultimo>>
    BY DEF GravarXml
  <1> HIDE DEF lida, nova
  <1>3. linha' \in LinhasConferidas /\ (linha = lida => linha' = nova)
    BY <1>1, <1>2, EscreverTipo
  <1>4. Parado \in PedidosDoMotor
    BY DEF PedidosDoMotor
  <1>5. pedido'[Motor] = Parado /\ \A u \in Revisores : pedido'[u] = pedido[u]
    BY <1>0, <1>2 DEF InvConferencia, TiposConferencia
  <1>6. TiposConferencia'
    BY <1>2, <1>3, <1>4, <1>5 DEF InvConferencia, TiposConferencia
  <1>7. MotorRespeita'
    BY <1>5 DEF MotorRespeita
  <1>8. RevisaoEhUltima' /\ HistoricoEncadeia'
    <2> SUFFICES ASSUME ~sobreposta'
                 PROVE  RevisaoEhUltima' /\ HistoricoEncadeia'
      BY DEF RevisaoEhUltima, HistoricoEncadeia
    <2>1. Revisao(linha') = Revisao(linha)
      BY <1>1, <1>2, <1>3
    <2>2. /\ linha'.responsavel = linha.responsavel /\ linha'.fila = linha.fila
      BY <2>1 DEF Revisao
    <2> QED
      BY <1>2, <2>1, <2>2 DEF InvConferencia, RevisaoEhUltima, HistoricoEncadeia
  <1> QED
    BY <1>6, <1>7, <1>8 DEF InvConferencia

\* Whatever the reviewers and the ingestion do, up to the first write over a
\* row that had changed.
THEOREM InvarianciaConferencia == SpecConferencia => []InvConferencia
  <1>1. InitConferencia => InvConferencia
    BY InicioConferencia
  <1>2. ASSUME InvConferencia, [NextConferencia]_varsConferencia
        PROVE  InvConferencia'
    <2>1. CASE NextConferencia
      <3>1. ~sobreposta
        BY <2>1 DEF NextConferencia
      <3>2. CASE \E u \in Revisores, p \in Pedidos, r \in BOOLEAN : LerConferencia(u, p, r)
        BY <1>2, <3>2, PassoLerConferencia
      <3>3. CASE \E u \in Revisores : GravarConferencia(u)
        BY <1>2, <3>1, <3>3, PassoGravarConferencia
      <3>4. ASSUME NEW x \in Leituras, LerXml(x)
            PROVE  InvConferencia'
        <4>1. linha \in LinhasConferidas
          BY <1>2 DEF InvConferencia, TiposConferencia
        <4> QED
          BY <1>2, <3>4, <4>1, ReingeridaTipo, PassoLerComoMotor DEF LerXml
      <3>5. ASSUME NEW d \in {"cancelada", "substituida"}, NEW obs \in {"nada", "outro"}, LerEventoDaNota(d, obs)
            PROVE  InvConferencia'
        <4>1. linha \in LinhasConferidas
          BY <1>2 DEF InvConferencia, TiposConferencia
        <4> QED
          BY <1>2, <3>5, <4>1, ComEventoTipo, PassoLerComoMotor DEF LerEventoDaNota
      <3>6. CASE GravarXml
        BY <1>2, <3>1, <3>6, PassoGravarXml
      <3> QED
        BY <2>1, <3>2, <3>3, <3>4, <3>5, <3>6 DEF NextConferencia
    <2>2. CASE UNCHANGED varsConferencia
      BY <1>2, <2>2 DEF varsConferencia, InvConferencia, TiposConferencia, MotorRespeita,
                        RevisaoEhUltima, HistoricoEncadeia, Revisao
    <2> QED
      BY <1>2, <2>1, <2>2
  <1> QED
    BY <1>1, <1>2, PTL DEF SpecConferencia

\* The history of a nota (conferencia_historico) tells the whole review, for
\* any number of reviewers and of lines.
THEOREM HistoricoContaTudo == SpecConferencia => []HistoricoEncadeia
  <1>1. InvConferencia => HistoricoEncadeia
    BY DEF InvConferencia
  <1> QED
    BY <1>1, InvarianciaConferencia, PTL

\* The screen and the reports follow the last decision (calcular_status_fila),
\* whatever later remarks, readings of the XML and events say.
THEOREM FilaSegueRevisao == SpecConferencia => []FilaSegueConferencia
  <1>1. ASSUME InvConferencia
        PROVE  FilaSegueConferencia
    <2> SUFFICES ASSUME ~sobreposta
                 PROVE  FilaSegueConferencia
      BY DEF FilaSegueConferencia
    <2>1. linha.fila = FilaDoPedido(ultimo, "nenhuma")
      BY <1>1 DEF InvConferencia, RevisaoEhUltima
    <2>2. CASE ultimo.fila # "nenhuma"
      BY <2>1, <2>2 DEF FilaSegueConferencia, Fila, FilaDoRelatorio, FilaCom, FilaDoPedido
    <2>3. CASE ultimo.fila = "nenhuma" /\ ultimo.conf = "ok"
      BY <2>1, <2>3 DEF FilaSegueConferencia, Fila, FilaDoRelatorio, FilaCom, FilaDoPedido
    <2>4. CASE ultimo.fila = "nenhuma" /\ ultimo.conf = "corrigir"
      BY <2>1, <2>4 DEF FilaSegueConferencia, Fila, FilaDoRelatorio, FilaCom, FilaDoPedido
    <2>5. CASE ultimo.fila = "nenhuma" /\ ultimo.conf \in {"nenhum", "pendente"}
      BY <2>1, <2>5 DEF FilaSegueConferencia, Fila, FilaDoRelatorio, FilaCom, FilaDoPedido
    <2>6. CASE ultimo.fila = "nenhuma" /\ ultimo.conf \notin {"ok", "corrigir", "nenhum", "pendente"}
      BY <2>6 DEF FilaSegueConferencia
    <2> QED
      BY <2>2, <2>3, <2>4, <2>5, <2>6
  <1> QED
    BY <1>1, InvarianciaConferencia, PTL

\* A new reading of the XML does not change the net value of a reviewed nota
\* (_processar_linha_indice beside a decision).
THEOREM DecisaoNaoSeDesfaz == SpecConferencia => DecisaoHumanaFica
  <1>1. ASSUME InvConferencia, [NextConferencia]_varsConferencia
        PROVE  [Conferida(linha) /\ <<linha.valor, linha.liquido>>' # <<linha.valor, linha.liquido>>
                  => sobreposta' \/ \E u \in Revisores : pedido[u] # Parado /\ pedido'[u] = Parado]_varsConferencia
    <2> SUFFICES ASSUME NextConferencia, Conferida(linha), <<linha.valor, linha.liquido>>' # <<linha.valor, linha.liquido>>,
                        ~sobreposta'
                 PROVE  \E u \in Revisores : pedido[u] # Parado /\ pedido'[u] = Parado
      BY <1>1
    <2>1. ASSUME NEW u \in Revisores, GravarConferencia(u)
          PROVE  pedido[u] # Parado /\ pedido'[u] = Parado
      BY <1>1, <2>1 DEF GravarConferencia, InvConferencia, TiposConferencia
    <2>2. CASE GravarXml
      <3> DEFINE lida == pedido[Motor].lida
                 nova == pedido[Motor].nova
      <3>1. /\ linha \in LinhasConferidas /\ lida \in LinhasConferidas /\ nova \in LinhasConferidas
            /\ Conferida(lida) => nova.valor = lida.valor /\ nova.liquido = lida.liquido
        BY <1>1, <2>2 DEF InvConferencia, TiposConferencia, PedidosDoMotor, MotorRespeita, GravarXml
      <3>2. linha' = Escrever(lida, nova) /\ linha = lida
        BY <2>2 DEF GravarXml
      <3> HIDE DEF lida, nova
      <3>3. linha' = nova
        BY <3>1, <3>2, EscreverTipo
      <3> QED
        BY <3>1, <3>2, <3>3
    <2>3. ASSUME NEW u \in Revisores, NEW p \in Pedidos, NEW r \in BOOLEAN, LerConferencia(u, p, r)
          PROVE  FALSE
      BY <2>3 DEF LerConferencia
    <2>4. ASSUME NEW x \in Leituras, LerXml(x)
          PROVE  FALSE
      BY <2>4 DEF LerXml, LerComoMotor
    <2>5. ASSUME NEW d, NEW obs, LerEventoDaNota(d, obs)
          PROVE  FALSE
      BY <2>5 DEF LerEventoDaNota, LerComoMotor
    <2> QED
      BY <2>1, <2>2, <2>3, <2>4, <2>5 DEF NextConferencia
  <1> QED
    BY <1>1, InvarianciaConferencia, PTL DEF SpecConferencia, DecisaoHumanaFica

-----------------------------------------------------------------------------
(* The cache of the Receita.                                                *)

LinhasDaReceita ==
    [valor : {"optante", "naoOptante", "indisponivel"}, disse : Ditos, resta : Nat]

Bases == [disponivel : BOOLEAN, diz : [Cnpjs -> Ditos]]

TiposCnpj ==
    /\ base \in Bases
    /\ receita \in [Cnpjs -> {SemLinha} \cup LinhasDaReceita]
    /\ script \in [Cnpjs -> {SemLinha} \cup LinhasDaReceita]
    /\ dito \in [Cnpjs -> [Ditos -> Nat]]

\* What the base says it said today, and never more than a day beyond the validity ago.
DitoHoje ==
    /\ \A c \in Cnpjs : base.disponivel => dito[c][base.diz[c]] = 0
    /\ \A c \in Cnpjs, d \in Ditos : dito[c][d] <= Validade + 1

\* A row is no older than it says.
Idade(l, ditos) == l # SemLinha => ditos[l.disse] <= Validade - l.resta

\* Not even one that a script computed and did not write.
ScriptDisseHaPouco == \A c \in Cnpjs : Idade(script[c], dito[c])
ReceitaEmDia == \A c \in Cnpjs : Idade(receita[c], dito[c])

InvCnpj == TiposCnpj /\ DitoHoje /\ ScriptDisseHaPouco /\ ReceitaEmDia

\* The row made of what the base says now is of today.
LEMMA LinhaTipo ==
    ASSUME NEW d \in Ditos
    PROVE  /\ Linha(d) \in LinhasDaReceita /\ Linha(d) # SemLinha
           /\ Linha(d).disse = d /\ Linha(d).resta = Validade
  BY ConstantesCnpj DEF Linha, LinhasDaReceita, Simples, Ditos, SemLinha

\* So it is no older than it says.
LEMMA LinhaEmDia ==
    ASSUME InvCnpj, NEW c \in Cnpjs, base.disponivel
    PROVE  Linha(base.diz[c]) \in LinhasDaReceita /\ Idade(Linha(base.diz[c]), dito[c])
  <1>1. base.diz[c] \in Ditos
    BY DEF InvCnpj, TiposCnpj, Bases
  <1>2. dito[c][base.diz[c]] = 0
    BY DEF InvCnpj, DitoHoje
  <1> QED
    BY <1>1, <1>2, LinhaTipo, ConstantesCnpj DEF Idade

\* One day more makes no row older than it says.
LEMMA EnvelhecidaTipo ==
    ASSUME NEW l \in {SemLinha} \cup LinhasDaReceita, NEW ditos \in [Ditos -> Nat],
           NEW depois \in [Ditos -> Nat], Idade(l, ditos),
           \A d \in Ditos : ditos[d] <= Validade => depois[d] <= ditos[d] + 1
    PROVE  /\ Envelhecida(l) \in {SemLinha} \cup LinhasDaReceita
           /\ Idade(Envelhecida(l), depois)
  <1>1. CASE l = SemLinha
    BY <1>1 DEF Envelhecida, Idade
  <1>2. CASE l \in LinhasDaReceita /\ l # SemLinha /\ l.resta = 0
    BY <1>2 DEF Envelhecida, Idade
  <1>3. CASE l \in LinhasDaReceita /\ l # SemLinha /\ l.resta # 0
    <2>1. Envelhecida(l) = [l EXCEPT !.resta = l.resta - 1]
      BY <1>3 DEF Envelhecida
    <2>2. /\ Envelhecida(l) \in LinhasDaReceita /\ Envelhecida(l).disse = l.disse
          /\ Envelhecida(l).resta = l.resta - 1
      BY <1>3, <2>1 DEF LinhasDaReceita
    <2>3. l.disse \in Ditos /\ l.resta \in Nat /\ ditos[l.disse] <= Validade - l.resta
      BY <1>3 DEF Idade, LinhasDaReceita
    <2>4. depois[l.disse] <= ditos[l.disse] + 1
      BY <1>3, <2>3, ConstantesCnpj
    <2>5. depois[l.disse] <= Validade - (l.resta - 1)
      BY <2>3, <2>4, ConstantesCnpj
    <2> QED
      BY <2>2, <2>5 DEF Idade
  <1> QED
    BY <1>1, <1>2, <1>3

\* A step that touches no history of the base, and only rows made of what it
\* says now, of the script or kept, keeps the invariant.
LEMMA LinhasEmDia ==
    ASSUME InvCnpj, UNCHANGED <<base, dito>>,
           receita' \in [Cnpjs -> {SemLinha} \cup LinhasDaReceita],
           script' \in [Cnpjs -> {SemLinha} \cup LinhasDaReceita],
           \A c \in Cnpjs : Idade(receita'[c], dito[c]) /\ Idade(script'[c], dito[c])
    PROVE  InvCnpj'
  BY DEF InvCnpj, TiposCnpj, DitoHoje, ScriptDisseHaPouco, ReceitaEmDia

\* Storing what the base has of some CNPJs, and that it lacks others.
LEMMA GravarEmDia ==
    ASSUME InvCnpj, NEW cs \in SUBSET Cnpjs, NEW fs \in SUBSET Cnpjs,
           UNCHANGED <<base, script, dito>>, Gravar(Encontrados(cs), Ausentes(fs))
    PROVE  InvCnpj'
  <1>1. ASSUME NEW c \in Cnpjs
        PROVE  /\ receita'[c] \in {SemLinha} \cup LinhasDaReceita
               /\ Idade(receita'[c], dito[c])
    <2>1. CASE c \in Encontrados(cs)
      <3>1. base.disponivel /\ receita'[c] = Linha(base.diz[c])
        BY <2>1 DEF Encontrados, Gravar
      <3> QED
        BY <3>1, LinhaEmDia
    <2>2. CASE c \notin Encontrados(cs) /\ c \in Ausentes(fs)
      <3>1. base.disponivel /\ base.diz[c] = "fora" /\ receita'[c] = Linha("fora")
        BY <2>2 DEF Ausentes, Gravar
      <3>2. receita'[c] = Linha(base.diz[c])
        BY <3>1
      <3> QED
        BY <3>1, <3>2, LinhaEmDia
    <2>3. CASE c \notin Encontrados(cs) /\ c \notin Ausentes(fs)
      <3>1. receita'[c] = receita[c]
        BY <2>3 DEF Gravar
      <3> QED
        BY <3>1 DEF InvCnpj, TiposCnpj, ReceitaEmDia
    <2> QED
      BY <2>1, <2>2, <2>3
  <1>2. receita' = [c \in Cnpjs |-> receita'[c]]
    BY DEF Gravar
  <1>3. receita' \in [Cnpjs -> {SemLinha} \cup LinhasDaReceita]
    BY <1>1, <1>2
  <1>4. /\ script' \in [Cnpjs -> {SemLinha} \cup LinhasDaReceita]
        /\ \A c \in Cnpjs : Idade(script'[c], dito[c])
    BY DEF InvCnpj, TiposCnpj, ScriptDisseHaPouco
  <1> QED
    BY <1>1, <1>3, <1>4, LinhasEmDia

\* Nothing is in the cache before the first answer of the base.
LEMMA InicioCnpj ==
    ASSUME InitCnpj
    PROVE  InvCnpj
  <1>1. base \in Bases
    BY DEF InitCnpj, Bases, Ditos
  <1>2. dito = [c \in Cnpjs |-> [d \in Ditos |->
                  IF base.disponivel /\ d = base.diz[c] THEN 0 ELSE Validade + 1]]
    BY DEF InitCnpj
  <1>3. /\ dito \in [Cnpjs -> [Ditos -> Nat]]
        /\ \A c \in Cnpjs, d \in Ditos : dito[c][d] <= Validade + 1
    BY <1>2, ConstantesCnpj
  <1>4. ASSUME NEW c \in Cnpjs, base.disponivel
        PROVE  dito[c][base.diz[c]] = 0
    <2>1. base.diz[c] \in Ditos
      BY <1>1 DEF Bases
    <2> QED
      BY <1>2, <1>4, <2>1
  <1>5. \A c \in Cnpjs : receita[c] = SemLinha /\ script[c] = SemLinha
    BY DEF InitCnpj
  <1>6. /\ receita \in [Cnpjs -> {SemLinha} \cup LinhasDaReceita]
        /\ script \in [Cnpjs -> {SemLinha} \cup LinhasDaReceita]
    BY DEF InitCnpj
  <1> QED
    BY <1>1, <1>3, <1>4, <1>5, <1>6 DEF InvCnpj, TiposCnpj, DitoHoje, ScriptDisseHaPouco,
                                         ReceitaEmDia, Idade

\* A script reads the base; what it will write is of today.
LEMMA PassoIniciarScript ==
    ASSUME InvCnpj, IniciarScript
    PROVE  InvCnpj'
  <1>1. ASSUME NEW c \in Cnpjs
        PROVE  script'[c] \in {SemLinha, Linha(base.diz[c])}
    <2>1. CASE script' = LerParaSincronizar
      BY <2>1 DEF LerParaSincronizar
    <2>2. CASE script' = LerParaCorrigir
      BY <2>2 DEF LerParaCorrigir
    <2> QED
      BY <2>1, <2>2 DEF IniciarScript
  <1>2. base.disponivel /\ UNCHANGED <<base, receita, antiga, dito>>
    BY DEF IniciarScript
  <1>3. \A c \in Cnpjs : script'[c] \in {SemLinha} \cup LinhasDaReceita /\ Idade(script'[c], dito[c])
    BY <1>1, <1>2, LinhaEmDia DEF Idade
  <1>4. script' = [c \in Cnpjs |-> script'[c]]
    BY DEF IniciarScript, LerParaSincronizar, LerParaCorrigir
  <1>5. script' \in [Cnpjs -> {SemLinha} \cup LinhasDaReceita]
    BY <1>3, <1>4
  <1>6. /\ receita' \in [Cnpjs -> {SemLinha} \cup LinhasDaReceita]
        /\ \A c \in Cnpjs : Idade(receita'[c], dito[c])
    BY <1>2 DEF InvCnpj, TiposCnpj, ReceitaEmDia
  <1> QED
    BY <1>2, <1>3, <1>5, <1>6, LinhasEmDia

\* A script writes over whatever is there, or gives up.
LEMMA PassoFimDoScript ==
    ASSUME InvCnpj, GravarScript \/ DesistirScript
    PROVE  InvCnpj'
  <1>1. UNCHANGED <<base, dito>> /\ script' = [c \in Cnpjs |-> SemLinha]
    BY DEF GravarScript, DesistirScript
  <1>2. \A c \in Cnpjs : receita'[c] \in {receita[c], script[c]}
    BY DEF GravarScript, DesistirScript
  <1>3. receita' \in [Cnpjs -> {SemLinha} \cup LinhasDaReceita]
    BY DEF GravarScript, DesistirScript, InvCnpj, TiposCnpj
  <1>4. \A c \in Cnpjs : Idade(receita'[c], dito[c])
    BY <1>2 DEF InvCnpj, ReceitaEmDia, ScriptDisseHaPouco
  <1>5. /\ script' \in [Cnpjs -> {SemLinha} \cup LinhasDaReceita]
        /\ \A c \in Cnpjs : Idade(script'[c], dito[c])
    BY <1>1 DEF Idade
  <1> QED
    BY <1>1, <1>3, <1>4, <1>5, LinhasEmDia

\* A step of the history of the base that lengthens no age by more than a day,
\* beside rows kept or a day older.
LEMMA PassoTrocarBase ==
    ASSUME InvCnpj, TrocarBase
    PROVE  InvCnpj'
  <1>1. base' \in Bases
    BY DEF TrocarBase, Bases
  <1>2. \A c \in Cnpjs, d \in Ditos :
            dito'[c][d] = IF base'.disponivel /\ base'.diz[c] = d THEN 0 ELSE dito[c][d]
    BY DEF TrocarBase
  <1>3. dito' \in [Cnpjs -> [Ditos -> Nat]]
    BY DEF TrocarBase, InvCnpj, TiposCnpj
  <1>4. \A c \in Cnpjs, d \in Ditos : dito'[c][d] <= dito[c][d]
    BY <1>2 DEF InvCnpj, TiposCnpj
  <1>5. UNCHANGED <<receita, script>>
    BY DEF TrocarBase
  <1>6. TiposCnpj'
    BY <1>1, <1>3, <1>5 DEF InvCnpj, TiposCnpj
  <1>7. DitoHoje'
    <2>1. ASSUME NEW c \in Cnpjs, base'.disponivel
          PROVE  dito'[c][base'.diz[c]] = 0
      <3>1. base'.diz[c] \in Ditos
        BY <1>1 DEF Bases
      <3> QED
        BY <1>2, <2>1, <3>1
    <2>2. \A c \in Cnpjs, d \in Ditos : dito'[c][d] <= Validade + 1
      BY <1>3, <1>4, ConstantesCnpj DEF InvCnpj, TiposCnpj, DitoHoje
    <2> QED
      BY <2>1, <2>2 DEF DitoHoje
  <1>8. ASSUME NEW c \in Cnpjs, NEW l \in {SemLinha} \cup LinhasDaReceita, Idade(l, dito[c])
        PROVE  Idade(l, dito'[c])
    <2> SUFFICES ASSUME l # SemLinha
                 PROVE  dito'[c][l.disse] <= Validade - l.resta
      BY DEF Idade
    <2>1. l.disse \in Ditos /\ l.resta \in Nat
      BY DEF LinhasDaReceita
    <2>2. dito'[c][l.disse] <= dito[c][l.disse] /\ dito[c][l.disse] <= Validade - l.resta
      BY <1>4, <1>8, <2>1 DEF Idade
    <2> QED
      BY <1>3, <2>1, <2>2, ConstantesCnpj DEF InvCnpj, TiposCnpj
  <1>9. ScriptDisseHaPouco' /\ ReceitaEmDia'
    BY <1>5, <1>8 DEF InvCnpj, TiposCnpj, ScriptDisseHaPouco, ReceitaEmDia
  <1> QED
    BY <1>6, <1>7, <1>9 DEF InvCnpj

\* Midnight.
LEMMA PassoPassarDia ==
    ASSUME InvCnpj, PassarDia
    PROVE  InvCnpj'
  <1>1. base' = base /\ base \in Bases
    BY DEF PassarDia, InvCnpj, TiposCnpj
  <1>2. \A c \in Cnpjs, d \in Ditos :
            dito'[c][d] = IF base.disponivel /\ base.diz[c] = d THEN 0
                          ELSE IF dito[c][d] > Validade THEN dito[c][d] ELSE dito[c][d] + 1
    BY DEF PassarDia
  <1>3. dito' \in [Cnpjs -> [Ditos -> Nat]]
    BY DEF PassarDia, InvCnpj, TiposCnpj
  <1>4. \A c \in Cnpjs, d \in Ditos : dito[c][d] <= Validade => dito'[c][d] <= dito[c][d] + 1
    BY <1>2, ConstantesCnpj DEF InvCnpj, TiposCnpj
  <1>5. DitoHoje'
    <2>1. ASSUME NEW c \in Cnpjs, base'.disponivel
          PROVE  dito'[c][base'.diz[c]] = 0
      <3>1. base.diz[c] \in Ditos
        BY <1>1 DEF Bases
      <3> QED
        BY <1>1, <1>2, <2>1, <3>1
    <2>2. \A c \in Cnpjs, d \in Ditos : dito'[c][d] <= Validade + 1
      BY <1>2, ConstantesCnpj DEF InvCnpj, TiposCnpj, DitoHoje
    <2> QED
      BY <2>1, <2>2 DEF DitoHoje
  <1>6. ASSUME NEW c \in Cnpjs, NEW l \in {SemLinha} \cup LinhasDaReceita, Idade(l, dito[c])
        PROVE  /\ Envelhecida(l) \in {SemLinha} \cup LinhasDaReceita
               /\ Idade(Envelhecida(l), dito'[c])
    <2>1. dito[c] \in [Ditos -> Nat] /\ dito'[c] \in [Ditos -> Nat]
      BY <1>3 DEF InvCnpj, TiposCnpj
    <2> QED
      BY <1>4, <1>6, <2>1, EnvelhecidaTipo
  <1>7. /\ receita' = [c \in Cnpjs |-> Envelhecida(receita[c])]
        /\ script' = [c \in Cnpjs |-> Envelhecida(script[c])]
    BY DEF PassarDia
  <1>8. /\ receita' \in [Cnpjs -> {SemLinha} \cup LinhasDaReceita]
        /\ script' \in [Cnpjs -> {SemLinha} \cup LinhasDaReceita]
        /\ \A c \in Cnpjs : Idade(receita'[c], dito'[c]) /\ Idade(script'[c], dito'[c])
    BY <1>6, <1>7 DEF InvCnpj, TiposCnpj, ScriptDisseHaPouco, ReceitaEmDia
  <1> QED
    BY <1>1, <1>3, <1>5, <1>8 DEF InvCnpj, TiposCnpj, ScriptDisseHaPouco, ReceitaEmDia

\* Whatever the consultas, the scripts and the imports of the base do.
THEOREM InvarianciaCnpj == SpecCnpj => []InvCnpj
  <1>1. InitCnpj => InvCnpj
    BY InicioCnpj
  <1>2. ASSUME InvCnpj, [NextCnpj]_varsCnpj
        PROVE  InvCnpj'
    <2>1. ASSUME NEW cs \in SUBSET Cnpjs, Enriquecer(cs)
          PROVE  InvCnpj'
      <3> DEFINE pendentes == {c \in cs : Vigente(c) = SemLinha}
      <3>1. /\ pendentes \in SUBSET Cnpjs
            /\ Gravar(Encontrados(pendentes), Ausentes(pendentes))
            /\ UNCHANGED <<base, script, dito>>
        BY <2>1 DEF Enriquecer
      <3> QED
        BY <1>2, <3>1, GravarEmDia
    <2>2. ASSUME NEW c \in Cnpjs, Consultar(c)
          PROVE  InvCnpj'
      <3>1. /\ Gravar(Encontrados({c}), Ausentes({}))
            /\ UNCHANGED <<base, script, dito>>
        BY <2>2 DEF Consultar, Ausentes
      <3> QED
        BY <1>2, <3>1, GravarEmDia
    <2>3. CASE UNCHANGED varsCnpj
      BY <1>2, <2>3 DEF varsCnpj, InvCnpj, TiposCnpj, DitoHoje, ScriptDisseHaPouco, ReceitaEmDia
    <2> QED
      BY <1>2, <2>1, <2>2, <2>3, PassoIniciarScript, PassoFimDoScript, PassoTrocarBase,
         PassoPassarDia DEF NextCnpj
  <1> QED
    BY <1>1, <1>2, PTL DEF SpecCnpj

\* What the listing shows as the word of the Receita was its word within the
\* validity of the row, for any validity and any number of CNPJs.
THEOREM ReceitaSempreEmDia == SpecCnpj => []ReceitaDisseHaPouco
  <1>1. InvCnpj => ReceitaDisseHaPouco
    BY DEF InvCnpj, ReceitaEmDia, Idade, ReceitaDisseHaPouco
  <1> QED
    BY <1>1, InvarianciaCnpj, PTL

-----------------------------------------------------------------------------
(* The retentions and the net value.                                        *)

\* What the analysis finds due of a tribute, and takes off the net value.
RegraUsada(regra) == IF regra = {} THEN SemRegra ELSE CHOOSE s \in regra : TRUE
Abater(informado, calculado) == Maximo(OuZero(informado), OuZero(calculado))

\* An amount that may be missing is zero or itself.
LEMMA OuZeroTipo ==
    ASSUME NEW v, Opcional(v)
    PROVE  OuZero(v) \in Nat
  <1>1. CASE v = {}
    BY <1>1 DEF OuZero
  <1>2. ASSUME NEW a \in v, v = {a}, a \in Nat
        PROVE  OuZero(v) \in Nat
    <2>1. (CHOOSE b \in v : TRUE) \in v
      BY <1>2
    <2> QED
      BY <1>2, <2>1 DEF OuZero
  <1> QED
    BY <1>1, <1>2 DEF Opcional

\* An amount that was declared is what stands for it.
LEMMA OuZeroDe ==
    ASSUME NEW a
    PROVE  OuZero({a}) = a
  <1>1. (CHOOSE b \in {a} : TRUE) \in {a}
    OBVIOUS
  <1> QED
    BY <1>1 DEF OuZero

\* Half up of a product of amounts is an amount.
LEMMA ArredondadoTipo ==
    ASSUME NEW b \in Nat, NEW t \in Nat
    PROVE  Arredondado(b, t) \in Nat
  <1>1. ASSUME NEW p \in Nat
        PROVE  (p + 5000) \div 10000 \in Nat
    OBVIOUS
  <1>2. b * t \in Nat
    OBVIOUS
  <1> QED
    BY <1>1, <1>2 DEF Arredondado

\* What a rule demands is missing or an amount.
LEMMA EsperadoTipo ==
    ASSUME NEW flag, NEW alcanca \in BOOLEAN, NEW v \in Nat
    PROVE  Opcional(Esperado(flag, alcanca, v))
  BY DEF Esperado, Opcional

\* The fields of the analysis A of the document x by the rule r from the base b.
CamposDe(A, x, r, b) ==
    /\ A.irrf = Esperado(r.irrf, ~x.simples, Arredondado(b, r.aliquota))
    /\ A.pis = Esperado(r.pcc, ~x.simples, Arredondado(b, 65))
    /\ A.cofins = Esperado(r.pcc, ~x.simples, Arredondado(b, 300))
    /\ A.csll = Esperado(r.pcc, ~x.simples, Arredondado(b, 100))
    /\ A.csrf = IF A.pis = {} THEN {} ELSE {OuZero(A.pis) + OuZero(A.cofins) + OuZero(A.csll)}
    /\ A.inss = Esperado(r.inss, ~x.simples \/ r.inssSimples, Arredondado(BaseInss(x), 1100))
    /\ A.iss = IF ComIssRetido(x) THEN {Arredondado(b, a) : a \in x.aliquota} ELSE {}

\* Its net value.
LiquidoDe(A, x, b) ==
    /\ A.liquido = (IF x.servico # 0 THEN x.servico ELSE b)
            - Abater(x.irrf, A.irrf) - Abater(x.inss, A.inss)
            - Abater(x.pis, A.pis) - Abater(x.cofins, A.cofins) - Abater(x.csll, A.csll)
            - (IF ComIssRetido(x)
               THEN Abater(IF OuZero(IssRetido(x)) > 0 THEN IssRetido(x) ELSE x.iss, A.iss)
               ELSE 0)
            - x.descontos
    /\ A.status = IF x.liquido = {} THEN "naoInformado" ELSE Comparar(x.liquido, {A.liquido})
    /\ A.alertaLiquido = IF A.status \in Divergentes THEN {A.liquido} ELSE {}

\* Its alerts.
AlertasDe(A, x, regra) ==
    A.alertas = {t \in {"irrf", "csrf", "inss", "iss"} :
        /\ [irrf |-> Comparar(x.irrf, A.irrf), csrf |-> Comparar(CsrfInformado(x), A.csrf),
            inss |-> Comparar(x.inss, A.inss),
            iss |-> IF ComIssRetido(x) THEN Comparar(x.iss, A.iss) ELSE "naoRetido"][t]
                \in Divergentes \cup {"analise"}
        /\ t = "iss" => ComIssRetido(x)}
      \cup (IF regra = {} THEN {"semRegra"} ELSE {})

\* What an analysis holds, one field after the other.
LEMMA AnaliseCampos ==
    ASSUME NEW x, NEW regra, NEW A, A = Analise(x, regra),
           NEW r, r = RegraUsada(regra), NEW b, b = BaseCalculo(x)
    PROVE  CamposDe(A, x, r, b) /\ LiquidoDe(A, x, b) /\ AlertasDe(A, x, regra)
  <1>1. CamposDe(A, x, r, b)
    BY DEF Analise, RegraUsada, Abater, CamposDe
  <1>2. LiquidoDe(A, x, b)
    BY DEF Analise, Abater, LiquidoDe
  <1>3. AlertasDe(A, x, regra)
    BY DEF Analise, AlertasDe
  <1> QED
    BY <1>1, <1>2, <1>3

\* The rule used has a rate and says TRUE or FALSE of the Simples.
LEMMA RegraUsadaTipo ==
    ASSUME NEW x \in Xmls, NEW regra \in {{}, {x.regra}}
    PROVE  /\ RegraUsada(regra).aliquota \in Nat /\ RegraUsada(regra).inssSimples \in BOOLEAN
           /\ RegraUsada({x.regra}) = x.regra /\ RegraUsada({}) = SemRegra
  <1>1. (CHOOSE s \in {x.regra} : TRUE) \in {x.regra}
    OBVIOUS
  <1>2. RegraUsada({x.regra}) = x.regra /\ RegraUsada({}) = SemRegra
    BY <1>1 DEF RegraUsada
  <1>3. x.regra.aliquota \in Nat /\ x.regra.inssSimples \in BOOLEAN
    BY ConstantesRetencoes
  <1>4. SemRegra.aliquota \in Nat /\ SemRegra.inssSimples \in BOOLEAN
    BY DEF SemRegra
  <1> QED
    BY <1>2, <1>3, <1>4

\* The amounts a document declares are missing or amounts.
LEMMA XmlTipo ==
    ASSUME NEW x \in Xmls
    PROVE  /\ x.servico \in Nat /\ x.descontos \in Nat /\ BaseCalculo(x) \in Nat /\ BaseInss(x) \in Nat
           /\ x.simples \in BOOLEAN /\ x.retido \in BOOLEAN
           /\ Opcional(x.irrf) /\ Opcional(x.inss) /\ Opcional(x.pis) /\ Opcional(x.cofins)
           /\ Opcional(x.csll) /\ Opcional(x.csrf) /\ Opcional(x.iss) /\ Opcional(x.issRetido)
           /\ Opcional(x.aliquota) /\ Opcional(x.liquido)
           /\ Opcional(IssRetido(x))
  <1>1. /\ x.servico \in Nat /\ x.descontos \in Nat
        /\ x.simples \in BOOLEAN /\ x.retido \in BOOLEAN
    BY ConstantesRetencoes
  <1>2. /\ Opcional(x.base) /\ Opcional(x.baseInss)
        /\ Opcional(x.irrf) /\ Opcional(x.inss) /\ Opcional(x.pis) /\ Opcional(x.cofins)
        /\ Opcional(x.csll) /\ Opcional(x.csrf) /\ Opcional(x.iss) /\ Opcional(x.issRetido)
        /\ Opcional(x.aliquota) /\ Opcional(x.liquido)
    BY ConstantesRetencoes
  <1>3. BaseCalculo(x) \in Nat /\ BaseInss(x) \in Nat
    BY <1>1, <1>2, OuZeroTipo DEF BaseCalculo, BaseInss
  <1>4. Opcional({})
    BY DEF Opcional
  <1>5. Opcional(IssRetido(x))
    BY <1>2, <1>4 DEF IssRetido, OuSenao
  <1> QED
    BY <1>1, <1>2, <1>3, <1>5

\* So are those the analysis finds due, and the net value is a number.
LEMMA AnaliseTipos ==
    ASSUME NEW x \in Xmls, NEW regra \in {{}, {x.regra}}, NEW A, A = Analise(x, regra)
    PROVE  /\ Opcional(A.irrf) /\ Opcional(A.inss) /\ Opcional(A.pis) /\ Opcional(A.cofins)
           /\ Opcional(A.csll) /\ Opcional(A.csrf) /\ Opcional(A.iss)
           /\ A.liquido \in Int
           /\ A.status \in Divergentes \cup {"naoInformado", "analise", "naoSeAplica", "correto"}
  <1> DEFINE r == RegraUsada(regra)
             b == BaseCalculo(x)
             bi == BaseInss(x)
             paga == ~x.simples
             inss == ~x.simples \/ r.inssSimples
  <1>0. CamposDe(A, x, r, b) /\ LiquidoDe(A, x, b)
    BY AnaliseCampos
  <1>1. b \in Nat /\ bi \in Nat /\ r.aliquota \in Nat
    BY XmlTipo, RegraUsadaTipo
  <1>b. paga \in BOOLEAN /\ inss \in BOOLEAN
    BY XmlTipo, RegraUsadaTipo
  <1>2. /\ Arredondado(b, r.aliquota) \in Nat /\ Arredondado(b, 65) \in Nat
        /\ Arredondado(b, 300) \in Nat /\ Arredondado(b, 100) \in Nat /\ Arredondado(bi, 1100) \in Nat
    <2> DEFINE a == r.aliquota
    <2>1. a \in Nat
      BY <1>1
    <2> HIDE DEF r, b, bi, a
    <2>2. Arredondado(b, a) \in Nat
      BY <1>1, <2>1, ArredondadoTipo
    <2>3. /\ Arredondado(b, 65) \in Nat /\ Arredondado(b, 300) \in Nat
          /\ Arredondado(b, 100) \in Nat /\ Arredondado(bi, 1100) \in Nat
      BY <1>1 DEF Arredondado
    <2> QED
      BY <2>2, <2>3 DEF a
  <1>3. /\ A.irrf = Esperado(r.irrf, paga, Arredondado(b, r.aliquota))
        /\ A.pis = Esperado(r.pcc, paga, Arredondado(b, 65))
        /\ A.cofins = Esperado(r.pcc, paga, Arredondado(b, 300))
        /\ A.csll = Esperado(r.pcc, paga, Arredondado(b, 100))
        /\ A.inss = Esperado(r.inss, inss, Arredondado(bi, 1100))
        /\ A.iss = IF ComIssRetido(x) THEN {Arredondado(b, a) : a \in x.aliquota} ELSE {}
    BY <1>0 DEF CamposDe
  <1> HIDE DEF r, b, bi, paga, inss
  <1>4. /\ Opcional(A.irrf) /\ Opcional(A.inss) /\ Opcional(A.pis) /\ Opcional(A.cofins)
        /\ Opcional(A.csll)
    BY <1>b, <1>2, <1>3, EsperadoTipo
  <1>c. Opcional(A.csrf)
    <2>1. A.csrf = IF A.pis = {} THEN {} ELSE {OuZero(A.pis) + OuZero(A.cofins) + OuZero(A.csll)}
      BY <1>0 DEF CamposDe
    <2>2. OuZero(A.pis) \in Nat /\ OuZero(A.cofins) \in Nat /\ OuZero(A.csll) \in Nat
      BY <1>4, OuZeroTipo
    <2> QED
      BY <2>1, <2>2 DEF Opcional
  <1>5. Opcional(A.iss)
    <2>1. CASE x.aliquota = {} \/ ~ComIssRetido(x)
      BY <1>3, <2>1 DEF Opcional
    <2>2. ASSUME NEW a \in Nat, x.aliquota = {a}, ComIssRetido(x)
          PROVE  Opcional(A.iss)
      <3>1. A.iss = {Arredondado(b, a)}
        BY <1>3, <2>2
      <3>2. Arredondado(b, a) \in Nat
        BY <1>1, ArredondadoTipo
      <3> QED
        BY <3>1, <3>2 DEF Opcional
    <2> QED
      BY <2>1, <2>2, XmlTipo DEF Opcional
  <1>6. A.liquido \in Int
    <2>1. ASSUME NEW v, NEW w, Opcional(v), Opcional(w)
          PROVE  Abater(v, w) \in Nat
      BY <2>1, OuZeroTipo DEF Abater, Maximo
    <2> DEFINE servico == IF x.servico # 0 THEN x.servico ELSE b
               iss == IF ComIssRetido(x)
                      THEN Abater(IF OuZero(IssRetido(x)) > 0 THEN IssRetido(x) ELSE x.iss, A.iss)
                      ELSE 0
    <2>2. servico \in Nat /\ x.descontos \in Nat
      BY <1>1, XmlTipo
    <2>3. iss \in Nat
      BY <1>5, <2>1, XmlTipo
    <2>4. /\ Abater(x.irrf, A.irrf) \in Nat /\ Abater(x.inss, A.inss) \in Nat
          /\ Abater(x.pis, A.pis) \in Nat /\ Abater(x.cofins, A.cofins) \in Nat
          /\ Abater(x.csll, A.csll) \in Nat
      BY <1>4, <2>1, XmlTipo
    <2>5. A.liquido = servico - Abater(x.irrf, A.irrf) - Abater(x.inss, A.inss)
                   - Abater(x.pis, A.pis) - Abater(x.cofins, A.cofins) - Abater(x.csll, A.csll)
                   - iss - x.descontos
      BY <1>0 DEF b, LiquidoDe
    <2> HIDE DEF servico, iss
    <2> QED
      BY <2>2, <2>3, <2>4, <2>5
  <1>7. A.status \in Divergentes \cup {"naoInformado", "analise", "naoSeAplica", "correto"}
    <2>1. A.status = IF x.liquido = {} THEN "naoInformado" ELSE Comparar(x.liquido, {A.liquido})
      BY <1>0 DEF LiquidoDe
    <2>2. Comparar(x.liquido, {A.liquido})
            \in Divergentes \cup {"naoInformado", "analise", "naoSeAplica", "correto"}
      BY DEF Comparar, Divergentes
    <2> QED
      BY <2>1, <2>2
  <1> QED
    BY <1>4, <1>c, <1>5, <1>6, <1>7

\* calcular_liquido_com_retencoes_salvas mirrors calcular_retencoes_esperadas
\* ("espelha"), on the documents that Espelhavel does not set apart.
LEMMA LiquidosIguais ==
    ASSUME NEW x \in Xmls, NEW regra \in {{}, {x.regra}}, Espelhavel(x)
    PROVE  LiquidoDasSalvas(x, Analise(x, regra)) = Analise(x, regra).liquido
  <1> DEFINE A == Analise(x, regra)
             r == RegraUsada(regra)
             b == BaseCalculo(x)
             issA == IF ComIssRetido(x)
                     THEN Abater(IF OuZero(IssRetido(x)) > 0 THEN IssRetido(x) ELSE x.iss, A.iss)
                     ELSE 0
             issS == IF ComIssRetido(x)
                     THEN Maximo(OuZero(OuSenao(IssRetido(x), x.iss)), OuZero(A.iss)) ELSE 0
  <1>0. CamposDe(A, x, r, b) /\ LiquidoDe(A, x, b)
    BY AnaliseCampos
  <1>1. /\ Opcional(A.irrf) /\ Opcional(A.inss) /\ Opcional(A.pis) /\ Opcional(A.cofins)
        /\ Opcional(A.csll) /\ Opcional(A.iss)
    BY AnaliseTipos
  <1>2. A.liquido = x.servico - Abater(x.irrf, A.irrf) - Abater(x.inss, A.inss)
                   - Abater(x.pis, A.pis) - Abater(x.cofins, A.cofins) - Abater(x.csll, A.csll)
                   - issA - x.descontos
    BY <1>0 DEF Espelhavel, LiquidoDe
  <1>3. A.iss = IF ComIssRetido(x) THEN {Arredondado(b, a) : a \in x.aliquota} ELSE {}
    BY <1>0 DEF CamposDe
  <1>4. /\ A.pis = Esperado(r.pcc, ~x.simples, Arredondado(b, 65))
        /\ A.cofins = Esperado(r.pcc, ~x.simples, Arredondado(b, 300))
        /\ A.csll = Esperado(r.pcc, ~x.simples, Arredondado(b, 100))
        /\ A.csrf = IF A.pis = {} THEN {} ELSE {OuZero(A.pis) + OuZero(A.cofins) + OuZero(A.csll)}
    BY <1>0 DEF CamposDe
  <1>5. r.pcc = "DEPENDE" => r.pcc = x.regra.pcc
    <2>1. SemRegra.pcc # "DEPENDE"
      BY DEF SemRegra
    <2> QED
      BY <2>1, RegraUsadaTipo
  <1>6. LiquidoDasSalvas(x, A) = x.servico - Maximo(OuZero(x.irrf), OuZero(A.irrf))
            - Maximo(OuZero(x.inss), OuZero(A.inss)) - CsrfDasSalvas(x, A) - issS - x.descontos
    BY DEF LiquidoDasSalvas
  <1> HIDE DEF A, r
  <1>7. CsrfDasSalvas(x, A) = Abater(x.pis, A.pis) + Abater(x.cofins, A.cofins) + Abater(x.csll, A.csll)
    <2>1. CASE x.pis \cup x.cofins \cup x.csll \cup A.pis \cup A.cofins \cup A.csll # {}
      BY <2>1 DEF CsrfDasSalvas, Abater
    <2>2. CASE x.pis \cup x.cofins \cup x.csll \cup A.pis \cup A.cofins \cup A.csll = {}
      <3>1. /\ x.pis = {} /\ x.cofins = {} /\ x.csll = {}
            /\ A.pis = {} /\ A.cofins = {} /\ A.csll = {}
        BY <2>2
      <3>2. r.pcc = "DEPENDE"
        BY <1>4, <3>1 DEF Esperado
      <3>3. CsrfInformado(x) = {}
        BY <1>5, <3>1, <3>2 DEF Espelhavel
      <3>4. A.csrf = {}
        BY <1>4, <3>1
      <3>5. OuZero({}) = 0
        BY DEF OuZero
      <3>6. CsrfDasSalvas(x, A) = Maximo(0, 0)
        BY <2>2, <3>3, <3>4, <3>5 DEF CsrfDasSalvas
      <3> QED
        BY <3>1, <3>5, <3>6 DEF Abater, Maximo
    <2> QED
      BY <2>1, <2>2
  <1>8. issA = issS
    <2> SUFFICES ASSUME ComIssRetido(x)
                 PROVE  Abater(IF OuZero(IssRetido(x)) > 0 THEN IssRetido(x) ELSE x.iss, A.iss)
                          = Maximo(OuZero(OuSenao(IssRetido(x), x.iss)), OuZero(A.iss))
      OBVIOUS
    <2>1. OuZero({}) = 0 /\ OuZero({0}) = 0
      BY OuZeroDe DEF OuZero
    <2>2. CASE IssRetido(x) = {}
      BY <2>1, <2>2 DEF Abater, OuSenao
    <2>3. CASE OuZero(IssRetido(x)) > 0
      BY <2>1, <2>3 DEF Abater, OuSenao
    <2>4. CASE IssRetido(x) # {} /\ ~(OuZero(IssRetido(x)) > 0)
      <3>1. IssRetido(x) = {0}
        <4>1. PICK a \in Nat : IssRetido(x) = {a}
          <5>1. Opcional(IssRetido(x))
            BY XmlTipo
          <5> QED
            BY <2>4, <5>1 DEF Opcional
        <4>2. OuZero(IssRetido(x)) = a
          BY <4>1, OuZeroDe
        <4>3. a = 0
          BY <2>4, <4>2
        <4> QED
          BY <4>1, <4>3
      <3>2. x.retido
        BY <2>1, <3>1 DEF ComIssRetido
      <3>3. CASE x.issRetido = {0}
        <4>1. OuZero(x.iss) <= OuZero(A.iss)
          BY <1>3, <3>2, <3>3 DEF Espelhavel
        <4>2. OuZero(x.iss) \in Nat /\ OuZero(A.iss) \in Nat
          BY <1>1, XmlTipo, OuZeroTipo
        <4> QED
          BY <2>1, <2>4, <3>1, <4>1, <4>2 DEF Abater, OuSenao, Maximo
      <3>4. CASE x.issRetido # {0}
        <4>1. x.iss = {0}
          BY <3>1, <3>2, <3>4 DEF IssRetido, OuSenao
        <4> QED
          BY <2>1, <2>4, <3>1, <4>1 DEF Abater, OuSenao
      <3> QED
        BY <3>3, <3>4
    <2> QED
      BY <2>2, <2>3, <2>4
  <1>9. ASSUME NEW v, NEW w, Opcional(v), Opcional(w)
        PROVE  Abater(v, w) \in Nat
    BY <1>9, OuZeroTipo DEF Abater, Maximo
  <1>10. /\ Abater(x.irrf, A.irrf) \in Nat /\ Abater(x.inss, A.inss) \in Nat
         /\ Abater(x.pis, A.pis) \in Nat /\ Abater(x.cofins, A.cofins) \in Nat
         /\ Abater(x.csll, A.csll) \in Nat
    BY <1>1, <1>9, XmlTipo
  <1>11. issA \in Nat
    BY <1>1, <1>9, XmlTipo
  <1>12. x.servico \in Nat /\ x.descontos \in Nat
    BY XmlTipo
  <1>13. LiquidoDasSalvas(x, A) = x.servico - Abater(x.irrf, A.irrf) - Abater(x.inss, A.inss)
            - CsrfDasSalvas(x, A) - issA - x.descontos
    BY <1>6, <1>8 DEF Abater
  <1> HIDE DEF issA, issS
  <1>14. LiquidoDasSalvas(x, A) = A.liquido
    BY <1>2, <1>7, <1>10, <1>11, <1>12, <1>13
  <1> QED
    BY <1>14 DEF A

\* On any document the formula over the columns gives a number.
LEMMA SalvasTipo ==
    ASSUME NEW x \in Xmls, NEW regra \in {{}, {x.regra}}
    PROVE  LiquidoDasSalvas(x, Analise(x, regra)) \in Int
  <1> DEFINE A == Analise(x, regra)
             iss == IF ComIssRetido(x)
                    THEN Maximo(OuZero(OuSenao(IssRetido(x), x.iss)), OuZero(A.iss)) ELSE 0
  <1>1. /\ Opcional(A.irrf) /\ Opcional(A.inss) /\ Opcional(A.pis) /\ Opcional(A.cofins)
        /\ Opcional(A.csll) /\ Opcional(A.csrf) /\ Opcional(A.iss)
    BY AnaliseTipos
  <1>2. LiquidoDasSalvas(x, A) = x.servico - Maximo(OuZero(x.irrf), OuZero(A.irrf))
            - Maximo(OuZero(x.inss), OuZero(A.inss)) - CsrfDasSalvas(x, A) - iss - x.descontos
    BY DEF LiquidoDasSalvas
  <1> HIDE DEF A
  <1>3. ASSUME NEW v, NEW w, Opcional(v), Opcional(w)
        PROVE  Maximo(OuZero(v), OuZero(w)) \in Nat
    BY <1>3, OuZeroTipo DEF Maximo
  <1>4. /\ Opcional(x.irrf) /\ Opcional(x.inss) /\ Opcional(x.pis) /\ Opcional(x.cofins)
        /\ Opcional(x.csll) /\ Opcional(x.csrf) /\ Opcional(x.iss) /\ Opcional(IssRetido(x))
        /\ x.servico \in Nat /\ x.descontos \in Nat
    BY XmlTipo
  <1>5. Opcional(CsrfInformado(x))
    <2>1. OuZero(x.pis) \in Nat /\ OuZero(x.cofins) \in Nat /\ OuZero(x.csll) \in Nat
      BY <1>4, OuZeroTipo
    <2>2. Opcional({OuZero(x.pis) + OuZero(x.cofins) + OuZero(x.csll)})
      BY <2>1 DEF Opcional
    <2> QED
      BY <1>4, <2>2 DEF CsrfInformado
  <1>6. CsrfDasSalvas(x, A) \in Nat
    <2>1. /\ Maximo(OuZero(x.pis), OuZero(A.pis)) \in Nat
          /\ Maximo(OuZero(x.cofins), OuZero(A.cofins)) \in Nat
          /\ Maximo(OuZero(x.csll), OuZero(A.csll)) \in Nat
          /\ Maximo(OuZero(CsrfInformado(x)), OuZero(A.csrf)) \in Nat
      BY <1>1, <1>3, <1>4, <1>5
    <2> QED
      BY <2>1 DEF CsrfDasSalvas
  <1>7. iss \in Nat
    <2>1. Opcional(OuSenao(IssRetido(x), x.iss))
      BY <1>4 DEF OuSenao
    <2> QED
      BY <1>1, <1>3, <2>1
  <1>8. /\ Maximo(OuZero(x.irrf), OuZero(A.irrf)) \in Nat
        /\ Maximo(OuZero(x.inss), OuZero(A.inss)) \in Nat
    BY <1>1, <1>3, <1>4
  <1> HIDE DEF iss
  <1>9. LiquidoDasSalvas(x, A) \in Int
    BY <1>2, <1>4, <1>6, <1>7, <1>8
  <1> QED
    BY <1>9 DEF A

\* An issuer who withheld to the centavo withheld what the rule demands.
LEMMA DevidoExato ==
    ASSUME NEW v \in Nat, NEW deve \in BOOLEAN, NEW b \in Nat, NEW t \in Nat, Devido(v, deve, b, t)
    PROVE  (deve => Arredondado(b, t) = v) /\ (~deve => v = 0)
  <1>1. ASSUME NEW p \in Nat, -5000 < 10000 * v - p, 10000 * v - p <= 5000
        PROVE  (p + 5000) \div 10000 = v
    BY <1>1
  <1>2. b * t \in Nat
    OBVIOUS
  <1> QED
    BY <1>1, <1>2 DEF Devido, Arredondado

\* So the analysis takes off what the issuer took.
LEMMA EsperadoExato ==
    ASSUME NEW v \in Nat, NEW flag, flag # "DEPENDE", NEW alcanca \in BOOLEAN,
           NEW b \in Nat, NEW t \in Nat, Devido(v, flag = "SIM" /\ alcanca, b, t)
    PROVE  Esperado(flag, alcanca, Arredondado(b, t)) = {v}
  <1> DEFINE deve == flag = "SIM" /\ alcanca
  <1>1. deve \in BOOLEAN
    OBVIOUS
  <1>2. (deve => Arredondado(b, t) = v) /\ (~deve => v = 0)
    BY <1>1, DevidoExato
  <1> QED
    BY <1>2 DEF Esperado

\* What was declared and what is due agree.
LEMMA CompararIguais ==
    ASSUME NEW v, NEW c \in Int, OuZero(v) = c
    PROVE  Comparar(v, {c}) \in {"naoSeAplica", "correto"}
  <1>1. OuZero({c}) = c /\ {c} # {}
    BY OuZeroDe
  <1> QED
    BY <1>1 DEF Comparar, Modulo

\* Of a document that obeys its rule to the cent, the analysis by the rule or
\* with no rule finds the declared net value, and by the rule no alert.
LEMMA CertaAnalisada ==
    ASSUME NEW x \in Xmls, NEW regra \in {{}, {x.regra}}, Certa(x), NEW A, A = Analise(x, regra)
    PROVE  /\ x.liquido = {A.liquido} /\ LiquidoDasSalvas(x, A) = A.liquido
           /\ A.status \notin Divergentes
           /\ regra # {} => A.alertas = {}
           /\ regra = {} => "semRegra" \in A.alertas
  <1> DEFINE r == RegraUsada(regra)
             b == BaseCalculo(x)
             bi == BaseInss(x)
             q == x.regra
             paga == ~x.simples
             pcc == q.pcc = "SIM" /\ ~x.simples
             inss == ~x.simples \/ q.inssSimples
  <1>1. CamposDe(A, x, r, b) /\ LiquidoDe(A, x, b) /\ AlertasDe(A, x, regra)
    BY AnaliseCampos
  <1>2. /\ ~ComIssRetido(x) /\ x.csrf = {} /\ x.servico # 0
        /\ q.irrf # "DEPENDE" /\ q.pcc # "DEPENDE" /\ q.inss # "DEPENDE"
        /\ x.liquido = {x.servico - OuZero(x.irrf) - OuZero(x.inss) - OuZero(x.pis)
                        - OuZero(x.cofins) - OuZero(x.csll) - x.descontos}
    BY DEF Certa
  <1>3. OuZero(OuSenao(x.base, {x.servico})) = b
    <2>1. OuZero({}) = 0 /\ OuZero({x.servico}) = x.servico
      BY OuZeroDe DEF OuZero
    <2>2. CASE x.base = {}
      BY <2>1, <2>2 DEF OuSenao, BaseCalculo
    <2>3. CASE x.base # {}
      BY <2>3 DEF OuSenao, BaseCalculo, Certa
    <2> QED
      BY <2>2, <2>3
  <1>3i. OuZero(OuSenao(x.baseInss, {b})) = bi
    <2>1. OuZero({b}) = b /\ OuZero({}) = 0
      BY OuZeroDe DEF OuZero
    <2>2. CASE x.baseInss = {}
      BY <2>1, <2>2 DEF OuSenao, BaseInss
    <2>3. CASE x.baseInss # {}
      BY <1>3, <2>3 DEF OuSenao, BaseInss, Certa
    <2> QED
      BY <2>2, <2>3
  <1>4. /\ Devido(OuZero(x.irrf), q.irrf = "SIM" /\ paga, b, q.aliquota)
        /\ Devido(OuZero(x.inss), q.inss = "SIM" /\ inss, bi, 1100)
        /\ Devido(OuZero(x.pis), q.pcc = "SIM" /\ paga, b, 65)
        /\ Devido(OuZero(x.cofins), q.pcc = "SIM" /\ paga, b, 300)
        /\ Devido(OuZero(x.csll), q.pcc = "SIM" /\ paga, b, 100)
    BY <1>3, <1>3i DEF Certa
  <1>5. /\ OuZero(x.irrf) \in Nat /\ OuZero(x.inss) \in Nat /\ OuZero(x.pis) \in Nat
        /\ OuZero(x.cofins) \in Nat /\ OuZero(x.csll) \in Nat
        /\ x.servico \in Nat /\ x.descontos \in Nat /\ b \in Nat /\ bi \in Nat
    BY XmlTipo, OuZeroTipo
  <1>6. paga \in BOOLEAN /\ inss \in BOOLEAN
    BY XmlTipo, RegraUsadaTipo
  <1>7. q.aliquota \in Nat
    BY ConstantesRetencoes
  <1> HIDE DEF b, bi, paga, inss
  <1>8. ASSUME regra # {}
        PROVE  /\ A.irrf = {OuZero(x.irrf)} /\ A.inss = {OuZero(x.inss)}
               /\ A.pis = {OuZero(x.pis)} /\ A.cofins = {OuZero(x.cofins)} /\ A.csll = {OuZero(x.csll)}
    <2>1. r = q
      BY <1>8, RegraUsadaTipo
    <2>2. /\ A.irrf = Esperado(q.irrf, paga, Arredondado(b, q.aliquota))
          /\ A.pis = Esperado(q.pcc, paga, Arredondado(b, 65))
          /\ A.cofins = Esperado(q.pcc, paga, Arredondado(b, 300))
          /\ A.csll = Esperado(q.pcc, paga, Arredondado(b, 100))
          /\ A.inss = Esperado(q.inss, inss, Arredondado(bi, 1100))
      BY <1>1, <2>1 DEF CamposDe, paga, inss, bi
    <2> HIDE DEF r, q
    <2>3. A.irrf = {OuZero(x.irrf)}
      BY <1>2, <1>4, <1>5, <1>6, <1>7, <2>2, EsperadoExato
    <2>4. A.inss = {OuZero(x.inss)}
      BY <1>2, <1>4, <1>5, <1>6, <2>2, EsperadoExato
    <2>5. A.pis = {OuZero(x.pis)}
      BY <1>2, <1>4, <1>5, <1>6, <2>2, EsperadoExato
    <2>6. A.cofins = {OuZero(x.cofins)}
      BY <1>2, <1>4, <1>5, <1>6, <2>2, EsperadoExato
    <2>7. A.csll = {OuZero(x.csll)}
      BY <1>2, <1>4, <1>5, <1>6, <2>2, EsperadoExato
    <2> QED
      BY <2>3, <2>4, <2>5, <2>6, <2>7
  <1>9. ASSUME regra = {}
        PROVE  A.irrf = {0} /\ A.inss = {0} /\ A.pis = {0} /\ A.cofins = {0} /\ A.csll = {0}
    <2>1. r.irrf = "NAO" /\ r.pcc = "NAO" /\ r.inss = "NAO"
      BY <1>9 DEF RegraUsada, SemRegra
    <2> HIDE DEF r
    <2> QED
      BY <1>1, <2>1 DEF CamposDe, Esperado
  <1> HIDE DEF r, q
  <1>10. /\ Abater(x.irrf, A.irrf) = OuZero(x.irrf) /\ Abater(x.inss, A.inss) = OuZero(x.inss)
         /\ Abater(x.pis, A.pis) = OuZero(x.pis) /\ Abater(x.cofins, A.cofins) = OuZero(x.cofins)
         /\ Abater(x.csll, A.csll) = OuZero(x.csll)
    <2>1. ASSUME NEW v, OuZero(v) \in Nat
          PROVE  Abater(v, {OuZero(v)}) = OuZero(v) /\ Abater(v, {0}) = OuZero(v)
      <3>1. OuZero({OuZero(v)}) = OuZero(v) /\ OuZero({0}) = 0
        BY OuZeroDe
      <3> QED
        BY <2>1, <3>1 DEF Abater, Maximo
    <2>2. CASE regra = {}
      BY <1>5, <1>9, <2>1, <2>2
    <2>3. CASE regra # {}
      BY <1>5, <1>8, <2>1, <2>3
    <2> QED
      BY <2>2, <2>3
  <1>11. x.liquido = {A.liquido} /\ A.liquido \in Int
    <2>1. A.liquido = x.servico - OuZero(x.irrf) - OuZero(x.inss) - OuZero(x.pis)
                        - OuZero(x.cofins) - OuZero(x.csll) - 0 - x.descontos
      BY <1>1, <1>2, <1>10 DEF LiquidoDe
    <2> QED
      BY <1>2, <1>5, <2>1
  <1>12. LiquidoDasSalvas(x, A) = A.liquido
    <2>1. Espelhavel(x)
      <3>1. ~x.retido
        BY <1>2 DEF ComIssRetido
      <3> QED
        BY <1>2, <3>1 DEF Espelhavel, q
    <2> QED
      BY <2>1, LiquidosIguais
  <1>13. A.status \notin Divergentes
    <2>1. OuZero(x.liquido) = A.liquido /\ x.liquido # {}
      BY <1>11, OuZeroDe
    <2>2. A.status = Comparar(x.liquido, {A.liquido})
      BY <1>1, <2>1 DEF LiquidoDe
    <2>3. A.status \in {"naoSeAplica", "correto"}
      BY <1>11, <2>1, <2>2, CompararIguais
    <2> QED
      BY <2>3 DEF Divergentes
  <1>14. ASSUME regra # {}
         PROVE  A.alertas = {}
    <2>1. /\ Comparar(x.irrf, A.irrf) \in {"naoSeAplica", "correto"}
          /\ Comparar(x.inss, A.inss) \in {"naoSeAplica", "correto"}
      BY <1>5, <1>8, <1>14, CompararIguais
    <2>2. A.csrf = {OuZero(x.pis) + OuZero(x.cofins) + OuZero(x.csll)}
      <3>1. OuZero(A.pis) = OuZero(x.pis) /\ OuZero(A.cofins) = OuZero(x.cofins)
            /\ OuZero(A.csll) = OuZero(x.csll) /\ A.pis # {}
        BY <1>8, <1>14, OuZeroDe
      <3> QED
        BY <1>1, <3>1 DEF CamposDe
    <2>3. OuZero(CsrfInformado(x)) = OuZero(x.pis) + OuZero(x.cofins) + OuZero(x.csll)
      <3>1. CASE x.pis \cup x.cofins \cup x.csll = {}
        <4>1. x.pis = {} /\ x.cofins = {} /\ x.csll = {}
          BY <3>1
        <4>2. OuZero({}) = 0
          BY DEF OuZero
        <4>3. CsrfInformado(x) = {}
          BY <1>2, <3>1 DEF CsrfInformado
        <4> QED
          BY <4>1, <4>2, <4>3
      <3>2. CASE x.pis \cup x.cofins \cup x.csll # {}
        <4>1. CsrfInformado(x) = {OuZero(x.pis) + OuZero(x.cofins) + OuZero(x.csll)}
          BY <1>2, <3>2 DEF CsrfInformado
        <4> QED
          BY <4>1, OuZeroDe
      <3> QED
        BY <3>1, <3>2
    <2>4. Comparar(CsrfInformado(x), A.csrf) \in {"naoSeAplica", "correto"}
      BY <1>5, <2>2, <2>3, CompararIguais
    <2>5. A.alertas = {t \in {"irrf", "csrf", "inss", "iss"} :
              /\ [irrf |-> Comparar(x.irrf, A.irrf), csrf |-> Comparar(CsrfInformado(x), A.csrf),
                  inss |-> Comparar(x.inss, A.inss),
                  iss |-> IF ComIssRetido(x) THEN Comparar(x.iss, A.iss) ELSE "naoRetido"][t]
                      \in Divergentes \cup {"analise"}
              /\ t = "iss" => ComIssRetido(x)}
      BY <1>1, <1>14 DEF AlertasDe
    <2> QED
      BY <1>2, <2>1, <2>4, <2>5 DEF Divergentes
  <1>15. regra = {} => "semRegra" \in A.alertas
    BY <1>1 DEF AlertasDe
  <1> QED
    BY <1>11, <1>12, <1>13, <1>14, <1>15

\* A row of the nota, its analysis one of the two the rules in reach give.
Situacoes == Divergentes \cup {"naoInformado", "analise", "naoSeAplica", "correto"}
NotasSalvas == [fase : {"salva"}, analise : {Analise(doc, regra) : regra \in Regras},
                correto : SUBSET Int, calculado : Int, status : Situacoes,
                conf : {"pendente", "conferida"}]

TiposRetencoes ==
    /\ doc \in Xmls
    /\ nota \in {SemNota} \cup NotasSalvas
    /\ lote \in {SemNota} \cup NotasSalvas
    /\ recalculo \in {SemNota} \cup NotasSalvas
    /\ decidido \subseteq Int

\* The row and the copies of the two programs show the net value of their analysis.
LiquidoDaAnalise ==
    Espelhavel(doc) =>
        /\ nota # SemNota => nota.calculado = nota.analise.liquido
        /\ lote # SemNota => lote.calculado = lote.analise.liquido
        /\ recalculo # SemNota => recalculo.calculado = recalculo.analise.liquido

\* A document in order is shown as divergent by a review only, which is remembered.
SoRevisaoDiverge ==
    nota # SemNota =>
        /\ nota.conf = "conferida" => decidido # {}
        /\ Certa(doc) /\ decidido = {} => nota.status \notin Divergentes

InvRetencoes == TiposRetencoes /\ LiquidoDaAnalise /\ SoRevisaoDiverge

\* The row an analysis makes.
LEMMA AnalisadaTipo ==
    ASSUME TiposRetencoes, NEW regra \in Regras, NEW conf \in {"pendente", "conferida"},
           NEW a, a = Analise(doc, regra), NEW n, n = Analisada(a, conf)
    PROVE  /\ n \in NotasSalvas /\ n # SemNota
           /\ n.analise = a /\ n.calculado = a.liquido /\ n.status = a.status /\ n.conf = conf
           /\ a.liquido \in Int
           /\ a \in {Analise(doc, g) : g \in Regras}
  <1>1. a.liquido \in Int /\ a.status \in Situacoes
    BY AnaliseTipos DEF Regras, TiposRetencoes, Situacoes
  <1>2. Correto(a) \in SUBSET Int
    <2>1. Opcional(doc.liquido)
      BY XmlTipo DEF TiposRetencoes
    <2>2. doc.liquido \subseteq Int
      BY <2>1 DEF Opcional
    <2> QED
      BY <1>1, <2>2 DEF Correto, OuSenao
  <1>3. n = [fase |-> "salva", analise |-> a, correto |-> Correto(a), calculado |-> a.liquido,
             status |-> a.status, conf |-> conf]
    BY DEF Analisada
  <1>4. a \in {Analise(doc, g) : g \in Regras}
    OBVIOUS
  <1>5. n \in NotasSalvas
    BY <1>1, <1>2, <1>3, <1>4 DEF NotasSalvas
  <1>6. n # SemNota
    <2>1. n.fase = "salva" /\ SemNota.fase = "fora"
      BY <1>3 DEF SemNota
    <2> QED
      BY <2>1
  <1> QED
    BY <1>1, <1>3, <1>4, <1>5, <1>6

\* The document and the reading of the sheet fix the set of rows.
LEMMA MesmasNotas ==
    ASSUME UNCHANGED doc
    PROVE  /\ NotasSalvas' = NotasSalvas /\ Regras' = Regras
           /\ Espelhavel(doc)' = Espelhavel(doc) /\ Certa(doc)' = Certa(doc)
  <1>1. Regras' = Regras
    BY DEF Regras
  <1>2. {Analise(doc, regra) : regra \in Regras}' = {Analise(doc, regra) : regra \in Regras}
    BY <1>1
  <1> QED
    BY <1>1, <1>2 DEF NotasSalvas

\* A document enters with no row.
LEMMA InicioRetencoes ==
    ASSUME InitRetencoes
    PROVE  InvRetencoes
  BY DEF InitRetencoes, InvRetencoes, TiposRetencoes, LiquidoDaAnalise, SoRevisaoDiverge

\* Ingesting a document keeps the invariant: the note takes the analysis whole.
LEMMA PassoIngerir ==
    ASSUME InvRetencoes, NEW regra \in Regras, Ingerir(regra)
    PROVE  InvRetencoes'
  <1> DEFINE a == Analise(doc, regra)
             n == Analisada(a, "pendente")
  <1> USE DEF InvRetencoes
  <1>1. /\ n \in NotasSalvas /\ n # SemNota
        /\ n.analise = a /\ n.calculado = a.liquido /\ n.status = a.status /\ n.conf = "pendente"
        /\ a.liquido \in Int
        /\ a \in {Analise(doc, g) : g \in Regras}
    BY AnalisadaTipo
  <1>2. Certa(doc) => a.status \notin Divergentes
    BY CertaAnalisada DEF Regras, TiposRetencoes
  <1>3. IF nota # SemNota /\ nota.conf = "conferida"
        THEN nota' = [nota EXCEPT !.analise = a, !.calculado = a.liquido] /\ decidido' = decidido
        ELSE nota' = n /\ decidido' = {}
    BY DEF Ingerir
  <1>4. UNCHANGED <<doc, lote, recalculo>>
    BY DEF Ingerir
  <1> HIDE DEF a, n
  <1>5. /\ NotasSalvas' = NotasSalvas
        /\ Espelhavel(doc)' = Espelhavel(doc) /\ Certa(doc)' = Certa(doc)
    BY <1>4, MesmasNotas
  <1>6. CASE nota # SemNota /\ nota.conf = "conferida"
    <2>1. nota \in NotasSalvas /\ nota' = [nota EXCEPT !.analise = a, !.calculado = a.liquido]
      BY <1>3, <1>6 DEF TiposRetencoes
    <2>2. /\ nota' \in NotasSalvas /\ nota'.analise = a /\ nota'.calculado = a.liquido
          /\ nota'.conf = nota.conf /\ nota'.status = nota.status
      BY <1>1, <2>1 DEF NotasSalvas
    <2>3. TiposRetencoes' /\ LiquidoDaAnalise'
      BY <1>3, <1>4, <1>5, <1>6, <2>2 DEF TiposRetencoes, LiquidoDaAnalise
    <2>4. SoRevisaoDiverge'
      BY <1>3, <1>5, <1>6, <2>2 DEF SoRevisaoDiverge
    <2> QED
      BY <2>3, <2>4
  <1>7. CASE ~(nota # SemNota /\ nota.conf = "conferida")
    <2>1. nota' = n /\ decidido' = {}
      BY <1>3, <1>7
    <2>2. TiposRetencoes' /\ LiquidoDaAnalise'
      BY <1>1, <1>4, <1>5, <2>1 DEF TiposRetencoes, LiquidoDaAnalise
    <2>3. SoRevisaoDiverge'
      BY <1>1, <1>2, <1>5, <2>1 DEF SoRevisaoDiverge
    <2> QED
      BY <2>2, <2>3
  <1> QED
    BY <1>6, <1>7

\* A column is written or stays.
LEMMA EscritoTipo ==
    ASSUME NEW S, NEW atual \in S, NEW lido, NEW novo \in S
    PROVE  Escrito(atual, lido, novo) \in S
  BY DEF Escrito

\* The script writes its analysis over a row it may no longer know. With the
\* sheet of rules read or not there are two analyses, so a row it does not know
\* has the one it read or the one it writes.
LEMMA PassoRecalcularAlertas ==
    ASSUME InvRetencoes, NEW regra \in Regras, RecalcularAlertas(regra)
    PROVE  InvRetencoes'
  <1> DEFINE a == Analise(doc, regra)
             n == Analisada(a, "pendente")
             an == Escrito(nota.analise, recalculo.analise, a)
             co == Escrito(nota.correto, recalculo.correto, Correto(a))
             ca == Escrito(nota.calculado, recalculo.calculado, a.liquido)
             st == Escrito(nota.status, recalculo.status, a.status)
  <1> USE DEF InvRetencoes
  <1>1. /\ n \in NotasSalvas /\ n.analise = a /\ n.calculado = a.liquido /\ n.status = a.status
        /\ n.correto = Correto(a) /\ a \in {Analise(doc, g) : g \in Regras}
    BY AnalisadaTipo DEF Analisada
  <1>2. Certa(doc) => a.status \notin Divergentes
    BY CertaAnalisada DEF Regras, TiposRetencoes
  <1>3. /\ recalculo # SemNota /\ recalculo' = SemNota /\ UNCHANGED <<doc, lote>>
        /\ nota' = [nota EXCEPT !.analise = an, !.correto = co, !.calculado = ca, !.status = st]
        /\ decidido' = IF nota.conf = "conferida" \/ nota # recalculo THEN decidido ELSE {}
    BY DEF RecalcularAlertas
  <1>4. ASSUME NEW m \in NotasSalvas
        PROVE  m.analise \in {Analise(doc, {}), Analise(doc, {doc.regra})}
    BY DEF NotasSalvas, Regras
  <1>5. a \in {Analise(doc, {}), Analise(doc, {doc.regra})}
    BY DEF Regras
  <1>6. recalculo \in NotasSalvas
    BY <1>3 DEF TiposRetencoes
  <1>7. /\ NotasSalvas' = NotasSalvas
        /\ Espelhavel(doc)' = Espelhavel(doc) /\ Certa(doc)' = Certa(doc)
    BY <1>3, MesmasNotas
  <1>8. CASE nota \in NotasSalvas
    <2>1. nota # SemNota
      <3>1. nota.fase = "salva" /\ SemNota.fase = "fora"
        BY <1>8 DEF SemNota, NotasSalvas
      <3> QED
        BY <3>1
    <2>2. /\ an \in {Analise(doc, g) : g \in Regras} /\ co \in SUBSET Int
          /\ ca \in Int /\ st \in Situacoes
      <3>1. /\ a \in {Analise(doc, g) : g \in Regras} /\ Correto(a) \in SUBSET Int
            /\ a.liquido \in Int /\ a.status \in Situacoes
        <4> HIDE DEF a, n
        <4> QED
          BY <1>1 DEF NotasSalvas
      <3>2. /\ nota.analise \in {Analise(doc, g) : g \in Regras} /\ nota.correto \in SUBSET Int
            /\ nota.calculado \in Int /\ nota.status \in Situacoes
        BY <1>8 DEF NotasSalvas
      <3> HIDE DEF a
      <3> QED
        BY <3>1, <3>2, EscritoTipo
    <2>3. Espelhavel(doc) => ca = an.liquido
      <3> SUFFICES ASSUME Espelhavel(doc)
                   PROVE  ca = an.liquido
        OBVIOUS
      <3>1. nota.calculado = nota.analise.liquido /\ recalculo.calculado = recalculo.analise.liquido
        BY <1>3, <2>1 DEF LiquidoDaAnalise
      <3>2. nota.analise \in {a, recalculo.analise} \/ a = recalculo.analise
        <4> HIDE DEF a
        <4> QED
          BY <1>4, <1>5, <1>6, <1>8
      <3> HIDE DEF a
      <3>3. CASE a = recalculo.analise
        BY <3>1, <3>3 DEF Escrito
      <3>4. CASE a # recalculo.analise
        BY <3>1, <3>2, <3>4 DEF Escrito
      <3> QED
        BY <3>3, <3>4
    <2>4. st \in {nota.status, a.status} /\ (nota = recalculo => st = a.status)
      BY DEF Escrito
    <2> HIDE DEF a, an, co, ca, st
    <2>5. /\ nota' \in NotasSalvas /\ nota'.analise = an /\ nota'.calculado = ca
          /\ nota'.conf = nota.conf /\ nota'.status = st
      BY <1>3, <1>8, <2>2 DEF NotasSalvas
    <2>6. TiposRetencoes'
      BY <1>3, <1>7, <2>5 DEF TiposRetencoes
    <2>7. LiquidoDaAnalise'
      BY <1>3, <1>7, <2>3, <2>5 DEF LiquidoDaAnalise
    <2>8. SoRevisaoDiverge'
      BY <1>2, <1>3, <1>7, <2>1, <2>4, <2>5 DEF SoRevisaoDiverge
    <2> QED
      BY <2>6, <2>7, <2>8
  <1>9. CASE nota = SemNota
    <2> HIDE DEF a, an, co, ca, st
    <2>1. nota' = SemNota
      BY <1>3, <1>9 DEF SemNota
    <2>2. TiposRetencoes' /\ LiquidoDaAnalise' /\ SoRevisaoDiverge'
      BY <1>3, <1>7, <2>1 DEF TiposRetencoes, LiquidoDaAnalise, SoRevisaoDiverge
    <2> QED
      BY <2>2
  <1> QED
    BY <1>8, <1>9 DEF TiposRetencoes

\* The two programs read their batch, or lose it.
LEMMA PassoLote ==
    ASSUME InvRetencoes, LerLote \/ LerAlertas \/ PerderLote
    PROVE  InvRetencoes'
  <1> USE DEF InvRetencoes
  <1>1. /\ UNCHANGED <<doc, nota, decidido>>
        /\ lote' \in {nota, lote, SemNota} /\ recalculo' \in {nota, recalculo, SemNota}
    BY DEF LerLote, LerAlertas, PerderLote
  <1>2. /\ NotasSalvas' = NotasSalvas
        /\ Espelhavel(doc)' = Espelhavel(doc) /\ Certa(doc)' = Certa(doc)
    BY <1>1, MesmasNotas
  <1>3. TiposRetencoes' /\ LiquidoDaAnalise' /\ SoRevisaoDiverge'
    BY <1>1, <1>2 DEF TiposRetencoes, LiquidoDaAnalise, SoRevisaoDiverge
  <1> QED
    BY <1>3

\* What it writes, over a row it may no longer know, is what the row had or
\* says the same.
LEMMA PassoGravarLote ==
    ASSUME InvRetencoes, GravarLote
    PROVE  InvRetencoes'
  <1> DEFINE calculado == LiquidoDasSalvas(doc, lote.analise)
             status == IF doc.liquido # {} /\ Modulo(OuZero(doc.liquido) - calculado) <= 1
                       THEN "correto" ELSE "divergente"
             co == Escrito(nota.correto, lote.correto, {calculado})
             ca == Escrito(nota.calculado, lote.calculado, calculado)
             st == Escrito(nota.status, lote.status, status)
  <1> USE DEF InvRetencoes
  <1>1. /\ lote # SemNota /\ lote' = SemNota /\ UNCHANGED <<doc, recalculo, decidido>>
        /\ nota' = [nota EXCEPT !.correto = co, !.calculado = ca, !.status = st]
    BY DEF GravarLote
  <1>2. PICK regra \in Regras : lote.analise = Analise(doc, regra)
    <2>1. lote \in NotasSalvas
      BY <1>1 DEF TiposRetencoes
    <2> QED
      BY <2>1 DEF NotasSalvas
  <1>3. calculado \in Int
    BY <1>2, SalvasTipo DEF Regras, TiposRetencoes
  <1>4. Espelhavel(doc) => calculado = lote.analise.liquido
    BY <1>2, LiquidosIguais DEF Regras, TiposRetencoes
  <1>5. Certa(doc) => status = "correto"
    <2> SUFFICES ASSUME Certa(doc)
                 PROVE  status = "correto"
      OBVIOUS
    <2> DEFINE a == lote.analise
    <2>a. doc \in Xmls /\ regra \in {{}, {doc.regra}}
      BY DEF Regras, TiposRetencoes
    <2>b. ASSUME NEW A, A = Analise(doc, regra)
          PROVE  doc.liquido = {A.liquido} /\ LiquidoDasSalvas(doc, A) = A.liquido
      BY <2>a, <2>b, CertaAnalisada
    <2>1. /\ doc.liquido = {a.liquido} /\ calculado = a.liquido
      BY <1>2, <2>b
    <2>2. OuZero(doc.liquido) = calculado /\ doc.liquido # {}
      BY <2>1, OuZeroDe
    <2>3. Modulo(OuZero(doc.liquido) - calculado) = 0
      <3> HIDE DEF calculado
      <3> QED
        BY <1>3, <2>2 DEF Modulo
    <2> QED
      BY <2>2, <2>3
  <1>6. status \in Situacoes
    BY DEF Situacoes, Divergentes
  <1> HIDE DEF calculado, status
  <1>7. /\ ca \in {calculado, nota.calculado} /\ (lote.calculado = calculado => ca = nota.calculado)
        /\ st \in {status, nota.status} /\ co \in {{calculado}, nota.correto}
    BY DEF Escrito
  <1> HIDE DEF co, ca, st
  <1>8. /\ NotasSalvas' = NotasSalvas
        /\ Espelhavel(doc)' = Espelhavel(doc) /\ Certa(doc)' = Certa(doc)
    BY <1>1, MesmasNotas
  <1>9. CASE nota \in NotasSalvas
    <2>1. ca \in Int /\ st \in Situacoes /\ co \in SUBSET Int
      BY <1>3, <1>6, <1>7, <1>9 DEF NotasSalvas
    <2>2. /\ nota' \in NotasSalvas /\ nota'.analise = nota.analise /\ nota'.calculado = ca
          /\ nota'.conf = nota.conf /\ nota'.status = st
      BY <1>1, <1>9, <2>1 DEF NotasSalvas
    <2>3. nota # SemNota
      <3>1. nota.fase = "salva" /\ SemNota.fase = "fora"
        BY <1>9 DEF SemNota, NotasSalvas
      <3> QED
        BY <3>1
    <2>4. TiposRetencoes'
      BY <1>1, <1>8, <2>2 DEF TiposRetencoes
    <2>5. LiquidoDaAnalise'
      BY <1>1, <1>4, <1>7, <1>8, <2>2, <2>3 DEF LiquidoDaAnalise
    <2>6. SoRevisaoDiverge'
      BY <1>1, <1>5, <1>7, <1>8, <2>2, <2>3 DEF SoRevisaoDiverge, Divergentes
    <2> QED
      BY <2>4, <2>5, <2>6
  <1>10. CASE nota = SemNota
    <2>1. nota' = SemNota
      BY <1>1, <1>10 DEF SemNota
    <2>2. TiposRetencoes' /\ LiquidoDaAnalise' /\ SoRevisaoDiverge'
      BY <1>1, <1>8, <2>1 DEF TiposRetencoes, LiquidoDaAnalise, SoRevisaoDiverge
    <2> QED
      BY <2>2
  <1> QED
    BY <1>9, <1>10 DEF TiposRetencoes

\* A review, and its reopening.
LEMMA PassoRevisao ==
    ASSUME InvRetencoes, Reabrir \/ \E v \in ValoresHumanos : Conferir(v)
    PROVE  InvRetencoes'
  <1> USE DEF InvRetencoes
  <1>1. nota \in NotasSalvas /\ nota # SemNota /\ UNCHANGED <<doc, lote, recalculo>>
    BY DEF Reabrir, Conferir, TiposRetencoes
  <1>2. /\ NotasSalvas' = NotasSalvas
        /\ Espelhavel(doc)' = Espelhavel(doc) /\ Certa(doc)' = Certa(doc)
    BY <1>1, MesmasNotas
  <1>3. CASE Reabrir
    <2>1. nota' = [nota EXCEPT !.conf = "pendente"] /\ UNCHANGED decidido
      BY <1>3 DEF Reabrir
    <2>2. /\ nota' \in NotasSalvas /\ nota'.analise = nota.analise /\ nota'.conf = "pendente"
          /\ nota'.calculado = nota.calculado /\ nota'.status = nota.status
      BY <1>1, <2>1 DEF NotasSalvas
    <2>3. TiposRetencoes' /\ LiquidoDaAnalise' /\ SoRevisaoDiverge'
      BY <1>1, <1>2, <2>1, <2>2 DEF TiposRetencoes, LiquidoDaAnalise, SoRevisaoDiverge
    <2> QED
      BY <2>3
  <1>4. ASSUME NEW v \in ValoresHumanos, Conferir(v)
        PROVE  InvRetencoes'
    <2> DEFINE st == IF doc.liquido = {v} THEN "correto" ELSE "divergente"
    <2>1. nota' = [nota EXCEPT !.conf = "conferida", !.correto = {v}, !.status = st] /\ decidido' = {v}
      BY <1>4 DEF Conferir
    <2>2. v \in Int /\ {v} \in SUBSET Int
      BY ConstantesRetencoes
    <2>3. st \in Situacoes
      BY DEF Situacoes, Divergentes
    <2> HIDE DEF st
    <2>4. /\ nota' \in NotasSalvas /\ nota'.analise = nota.analise
          /\ nota'.calculado = nota.calculado
      BY <1>1, <2>1, <2>2, <2>3 DEF NotasSalvas
    <2>5. TiposRetencoes' /\ LiquidoDaAnalise' /\ SoRevisaoDiverge'
      BY <1>1, <1>2, <2>1, <2>2, <2>4 DEF TiposRetencoes, LiquidoDaAnalise, SoRevisaoDiverge
    <2> QED
      BY <2>5
  <1> QED
    BY <1>3, <1>4

\* Whatever the ingestion, the recalculations, the script and the reviewers do.
THEOREM InvarianciaRetencoes == SpecRetencoes => []InvRetencoes
  <1>1. InitRetencoes => InvRetencoes
    BY InicioRetencoes
  <1>2. ASSUME InvRetencoes, [NextRetencoes]_varsRetencoes
        PROVE  InvRetencoes'
    <2>1. CASE \E regra \in Regras : Ingerir(regra) \/ RecalcularAlertas(regra)
      BY <1>2, <2>1, PassoIngerir, PassoRecalcularAlertas
    <2>2. CASE UNCHANGED varsRetencoes
      <3>1. UNCHANGED <<doc, nota, lote, recalculo, decidido>>
        BY <2>2 DEF varsRetencoes
      <3>2. /\ NotasSalvas' = NotasSalvas
            /\ Espelhavel(doc)' = Espelhavel(doc) /\ Certa(doc)' = Certa(doc)
        BY <3>1, MesmasNotas
      <3> QED
        BY <1>2, <3>1, <3>2 DEF InvRetencoes, TiposRetencoes, LiquidoDaAnalise, SoRevisaoDiverge
    <2> QED
      BY <1>2, <2>1, <2>2, PassoLote, PassoGravarLote, PassoRevisao DEF NextRetencoes
  <1> QED
    BY <1>1, <1>2, PTL DEF SpecRetencoes

\* The alert about the net value and the net value agree, for any documents.
THEOREM ResumoCoerente == SpecRetencoes => []ResumoNaoSeContradiz
  <1>1. ASSUME InvRetencoes
        PROVE  ResumoNaoSeContradiz
    <2> SUFFICES ASSUME nota # SemNota, Espelhavel(doc), nota.analise.alertaLiquido # {}
                 PROVE  nota.analise.alertaLiquido = {nota.calculado}
      BY DEF ResumoNaoSeContradiz
    <2>1. nota.calculado = nota.analise.liquido
      BY <1>1 DEF InvRetencoes, LiquidoDaAnalise
    <2>2. PICK regra \in Regras : nota.analise = Analise(doc, regra)
      <3>1. nota \in NotasSalvas
        BY <1>1 DEF InvRetencoes, TiposRetencoes
      <3> QED
        BY <3>1 DEF NotasSalvas
    <2> DEFINE a == nota.analise
    <2>3. LiquidoDe(a, doc, BaseCalculo(doc))
      BY <2>2, AnaliseCampos
    <2>4. a.alertaLiquido = IF a.status \in Divergentes THEN {a.liquido} ELSE {}
      BY <2>3 DEF LiquidoDe
    <2> QED
      BY <2>1, <2>4
  <1> QED
    BY <1>1, InvarianciaRetencoes, PTL

\* A document that obeys its rule to the cent is not shown as divergent, for
\* any amounts, rates and rules.
THEOREM NotaCertaFicaCerta == SpecRetencoes => []NotaCertaNaoDiverge
  <1>1. ASSUME InvRetencoes
        PROVE  NotaCertaNaoDiverge
    <2> SUFFICES ASSUME nota # SemNota, Certa(doc), "semRegra" \notin nota.analise.alertas, decidido = {}
                 PROVE  nota.analise.alertas = {} /\ nota.status \notin Divergentes
      BY DEF NotaCertaNaoDiverge
    <2>1. PICK regra \in Regras : nota.analise = Analise(doc, regra)
      <3>1. nota \in NotasSalvas
        BY <1>1 DEF InvRetencoes, TiposRetencoes
      <3> QED
        BY <3>1 DEF NotasSalvas
    <2>2. doc \in Xmls /\ regra \in {{}, {doc.regra}}
      BY <1>1 DEF InvRetencoes, TiposRetencoes, Regras
    <2>3. nota.analise.alertas = {}
      BY <2>1, <2>2, CertaAnalisada
    <2>4. nota.status \notin Divergentes
      BY <1>1 DEF InvRetencoes, SoRevisaoDiverge
    <2> QED
      BY <2>3, <2>4
  <1> QED
    BY <1>1, InvarianciaRetencoes, PTL

-----------------------------------------------------------------------------
(* The reading by cursor.                                                  *)

\* Its keys are sequences of naturals, of one length for each order, that end
\* in the id.
Tamanho(ordem) == CASE ordem = "emissao" -> 4 [] ordem = "recentes" -> 3 [] OTHER -> 1

Membros(s) == {s[i] : i \in DOMAIN s}

\* The notas of s that did not change come in descending order.
Desce(s) ==
    \A i, j \in DOMAIN s : i < j /\ s[i] \in leitura.firmes /\ s[j] \in leitura.firmes =>
        Antes(leitura.ordem, s[i], s[j])

\* A nota that the next query can still find.
Adiante(n) == leitura.cursor = <<>> \/ Menor(Chave(leitura.ordem, n), leitura.cursor)

RegistrosDaLista == [emissao : Nat, importado : Nat, atualizado : Nat, cancelada : BOOLEAN, arquivada : BOOLEAN]

TiposLista ==
    /\ acervo \in Seq(RegistrosDaLista) /\ Len(acervo) <= MaxNotas /\ relogio \in Nat
    /\ DOMAIN leitura = {"fase", "modo", "ordem", "direcao", "cursor", "pagina", "entregues", "firmes"}
    /\ leitura.fase \in {"parada", "lendo", "recusada", "fim"} /\ leitura.ordem \in Ordens
    /\ leitura.pagina \in Seq(Nat) /\ leitura.entregues \in Seq(Nat)
    /\ leitura.cursor = <<>> \/ leitura.cursor \in [1..Tamanho(leitura.ordem) -> Nat]
    /\ leitura.firmes \in SUBSET Existentes

\* While it reads: every firm nota is of its filters, and is either read, in
\* order and behind the cursor, or ahead of it; the open page has room.
LeituraEmCurso ==
    LET lidas == leitura.entregues \o leitura.pagina IN
    leitura.fase = "lendo" =>
        /\ Len(leitura.pagina) < Desejadas
        /\ \A n \in leitura.firmes : Visivel(n, Exportando) /\ Serve(n)
        /\ \A n \in leitura.firmes : n \in Membros(lidas) <=> ~Adiante(n)
        /\ Desce(lidas)

LeituraAcabada ==
    /\ leitura.fase # "lendo" => Desce(leitura.entregues)
    /\ LeituraCompleta

InvLista == TiposLista /\ LeituraEmCurso /\ LeituraAcabada

-----------------------------------------------------------------------------
\* Comparing rows is a strict total order on keys of one length.
LEMMA OrdemDasChaves ==
    ASSUME NEW L \in Nat, NEW a \in [1..L -> Nat], NEW b \in [1..L -> Nat], NEW c \in [1..L -> Nat]
    PROVE  /\ ~Menor(a, a)
           /\ a = b \/ Menor(a, b) \/ Menor(b, a)
           /\ Menor(a, b) /\ Menor(b, c) => Menor(a, c)
  <1>1. ~Menor(a, a)
    BY DEF Menor
  <1>2. ASSUME a # b PROVE Menor(a, b) \/ Menor(b, a)
    <2> DEFINE T == {i \in 1..L : a[i] # b[i]}
    <2>1. T \in SUBSET Nat /\ T # {}
      <3>1. a = [i \in 1..L |-> a[i]] /\ b = [i \in 1..L |-> b[i]]
        OBVIOUS
      <3>2. ASSUME \A i \in 1..L : a[i] = b[i] PROVE FALSE
        BY <1>2, <3>1, <3>2
      <3>3. PICK i \in 1..L : a[i] # b[i]
        BY <3>2
      <3>4. i \in T /\ T \subseteq Nat
        BY <3>3
      <3> QED
        BY <3>4
    <2>2. PICK i \in T : \A j \in T : i <= j
      <3> HIDE DEF T
      <3> QED
        BY <2>1, HaMenor
    <2>3. \A j \in 1..(i - 1) : j \in 1..L /\ j \notin T
      BY <2>2
    <2>4. \A j \in 1..(i - 1) : a[j] = b[j] /\ b[j] = a[j]
      BY <2>3
    <2>5. a[i] \in Nat /\ b[i] \in Nat /\ a[i] # b[i] /\ i \in DOMAIN a /\ i \in DOMAIN b
      BY <2>2
    <2>6. a[i] < b[i] \/ b[i] < a[i]
      BY <2>5
    <2> QED
      BY <2>4, <2>5, <2>6 DEF Menor
  <1>3. ASSUME Menor(a, b), Menor(b, c) PROVE Menor(a, c)
    <2>1. PICK i \in 1..L : a[i] < b[i] /\ \A j \in 1..(i - 1) : a[j] = b[j]
      BY <1>3 DEF Menor
    <2>2. PICK k \in 1..L : b[k] < c[k] /\ \A j \in 1..(k - 1) : b[j] = c[j]
      BY <1>3 DEF Menor
    <2>3. /\ a[i] \in Nat /\ b[i] \in Nat /\ c[i] \in Nat
          /\ a[k] \in Nat /\ b[k] \in Nat /\ c[k] \in Nat
      OBVIOUS
    <2>4. CASE i < k
      <3>1. i \in 1..(k - 1) /\ \A j \in 1..(i - 1) : j \in 1..(k - 1)
        BY <2>4
      <3>2. a[i] < c[i] /\ \A j \in 1..(i - 1) : a[j] = c[j]
        BY <2>1, <2>2, <3>1
      <3> QED
        BY <3>2 DEF Menor
    <2>5. CASE k < i
      <3>1. k \in 1..(i - 1) /\ \A j \in 1..(k - 1) : j \in 1..(i - 1)
        BY <2>5
      <3>2. a[k] < c[k] /\ \A j \in 1..(k - 1) : a[j] = c[j]
        BY <2>1, <2>2, <3>1
      <3> QED
        BY <3>2 DEF Menor
    <2>6. CASE i = k
      <3>1. a[i] < c[i] /\ \A j \in 1..(i - 1) : a[j] = c[j]
        BY <2>1, <2>2, <2>3, <2>6
      <3> QED
        BY <3>1 DEF Menor
    <2> QED
      BY <2>4, <2>5, <2>6
  <1> QED
    BY <1>1, <1>2, <1>3

\* What the types say of the rows.
LEMMA Linhas ==
    ASSUME TiposLista
    PROVE  /\ Len(acervo) \in Nat /\ Existentes = 1..Len(acervo) /\ Existentes \subseteq Ids
           /\ \A n \in Existentes :
                acervo[n].emissao \in Nat /\ acervo[n].importado \in Nat /\ acervo[n].atualizado \in Nat
  <1>1. /\ Len(acervo) \in Nat /\ Existentes = 1..Len(acervo)
        /\ \A n \in 1..Len(acervo) : acervo[n] \in RegistrosDaLista
    BY DEF TiposLista, Existentes
  <1>2. \A r \in RegistrosDaLista : r.emissao \in Nat /\ r.importado \in Nat /\ r.atualizado \in Nat
    BY Zenon DEF RegistrosDaLista
  <1>3. 1..Len(acervo) \subseteq Ids
    BY <1>1, ConstantesLista DEF TiposLista, Ids
  <1> QED
    BY <1>1, <1>2, <1>3

\* The key of a nota has the length of its order and ends in the id.
LEMMA ChaveTermina ==
    ASSUME TiposLista, NEW ordem \in Ordens, NEW n \in Existentes
    PROVE  /\ Tamanho(ordem) \in Nat \ {0}
           /\ Chave(ordem, n) \in [1..Tamanho(ordem) -> Nat]
           /\ Chave(ordem, n)[Tamanho(ordem)] = n
  <1>1. /\ acervo[n].emissao \in Nat /\ acervo[n].importado \in Nat /\ acervo[n].atualizado \in Nat
        /\ n \in Nat
    BY Linhas
  <1>2. CASE ordem = "emissao"
    <2>1. Tamanho(ordem) = 4
      BY <1>2 DEF Tamanho
    <2>2. Chave(ordem, n) = <<acervo[n].emissao, acervo[n].importado, acervo[n].atualizado, n>>
      BY <1>2 DEF Chave
    <2> QED
      BY <1>1, <2>1, <2>2
  <1>3. CASE ordem = "recentes"
    <2>1. Tamanho(ordem) = 3
      BY <1>3 DEF Tamanho
    <2>2. Chave(ordem, n) = <<acervo[n].importado, acervo[n].atualizado, n>>
      BY <1>3 DEF Chave
    <2> QED
      BY <1>1, <2>1, <2>2
  <1>4. CASE ordem = "id"
    <2>1. Tamanho(ordem) = 1
      BY <1>4 DEF Tamanho
    <2>2. Chave(ordem, n) = <<n>>
      BY <1>4 DEF Chave
    <2> QED
      BY <1>1, <2>1, <2>2
  <1> QED
    BY <1>2, <1>3, <1>4 DEF Ordens

\* So Antes is a strict total order of the notas there are.
LEMMA AntesOrdena ==
    ASSUME TiposLista, NEW ordem \in Ordens
    PROVE  /\ \A n \in Existentes : ~Antes(ordem, n, n)
           /\ \A m, n \in Existentes : m = n \/ Antes(ordem, m, n) \/ Antes(ordem, n, m)
           /\ \A k, m, n \in Existentes : Antes(ordem, k, m) /\ Antes(ordem, m, n) => Antes(ordem, k, n)
  <1>1. ASSUME NEW n \in Existentes PROVE ~Antes(ordem, n, n)
    BY ChaveTermina, OrdemDasChaves DEF Antes
  <1>2. ASSUME NEW m \in Existentes, NEW n \in Existentes, m # n
        PROVE  Antes(ordem, m, n) \/ Antes(ordem, n, m)
    <2>1. Chave(ordem, m) # Chave(ordem, n)
      BY <1>2, ChaveTermina
    <2> QED
      BY <2>1, ChaveTermina, OrdemDasChaves DEF Antes
  <1>3. ASSUME NEW k \in Existentes, NEW m \in Existentes, NEW n \in Existentes,
               Antes(ordem, k, m), Antes(ordem, m, n)
        PROVE  Antes(ordem, k, n)
    BY <1>3, ChaveTermina, OrdemDasChaves DEF Antes
  <1> QED
    BY <1>1, <1>2, <1>3

\* Sorting leaves nobody out.
LEMMA EmOrdemDesce ==
    ASSUME TiposLista, NEW ordem \in Ordens, NEW S \in SUBSET Existentes
    PROVE  /\ IsFiniteSet(S) /\ Cardinality(S) \in Nat
           /\ EmOrdem(ordem, S) \in [1..Cardinality(S) -> S]
           /\ \A i, j \in 1..Cardinality(S) :
                i < j => Antes(ordem, EmOrdem(ordem, S)[i], EmOrdem(ordem, S)[j])
           /\ \A n \in S : \E i \in 1..Cardinality(S) : EmOrdem(ordem, S)[i] = n
  <1> DEFINE N == Cardinality(S)
             acima(n) == {m \in S : Antes(ordem, m, n)}
             lugar == [n \in S |-> Cardinality(acima(n))]
  <1>1. IsFiniteSet(S) /\ N \in Nat
    <2>1. IsFiniteSet(Existentes)
      BY Linhas, FS_Interval
    <2> QED
      BY <2>1, FS_Subset, FS_CardinalityType
  <1>2. \A n \in S : IsFiniteSet(acima(n)) /\ Cardinality(acima(n)) \in Nat
    BY <1>1, FS_Subset, FS_CardinalityType
  <1>3. ASSUME NEW m \in S, NEW n \in S, Antes(ordem, m, n)
        PROVE  Cardinality(acima(m)) < Cardinality(acima(n))
    <2>1. acima(m) \subseteq acima(n)
      BY <1>3, AntesOrdena
    <2>2. m \in acima(n) /\ m \notin acima(m)
      BY <1>3, AntesOrdena
    <2>3. /\ Cardinality(acima(m)) <= Cardinality(acima(n))
          /\ Cardinality(acima(n)) = Cardinality(acima(m)) => acima(n) = acima(m)
      BY <1>2, <2>1, FS_Subset
    <2> QED
      BY <1>2, <2>2, <2>3
  <1>4. lugar \in [S -> Nat] /\ \A x \in S : lugar[x] = Cardinality(acima(x))
    BY <1>2
  <1>5. \A x, y \in S : Antes(ordem, x, y) => lugar[x] < lugar[y]
    BY <1>3, <1>4
  <1>6. \A x, y \in S : lugar[x] < lugar[y] => Antes(ordem, x, y)
    <2> HIDE DEF lugar
    <2>1. ASSUME NEW x \in S, NEW y \in S, lugar[x] < lugar[y] PROVE Antes(ordem, x, y)
      <3>1. lugar[x] \in Nat /\ lugar[y] \in Nat
        BY <1>4
      <3>2. x # y /\ ~Antes(ordem, y, x)
        BY <1>5, <2>1, <3>1
      <3> QED
        BY <3>2, AntesOrdena
    <2> QED
      BY <2>1
  <1>7. \A x, y \in S : lugar[x] = lugar[y] => x = y
    <2> HIDE DEF lugar
    <2>1. ASSUME NEW x \in S, NEW y \in S, x # y PROVE lugar[x] # lugar[y]
      <3>1. lugar[x] \in Nat /\ lugar[y] \in Nat
        BY <1>4
      <3> QED
        BY <1>5, <2>1, <3>1, AntesOrdena
    <2> QED
      BY <2>1
  <1> HIDE DEF lugar
  <1>8. \E s \in [1..N -> S] : \A i, j \in 1..N : i < j => Antes(ordem, s[i], s[j])
    <2>1. PICK s : Ordenada(S, lugar, s)
      BY <1>1, <1>4, <1>7, HaOrdem
    <2> QED
      BY <1>6, <2>1 DEF Ordenada
  <1> DEFINE z == EmOrdem(ordem, S)
  <1>9. z \in [1..N -> S] /\ \A i, j \in 1..N : i < j => Antes(ordem, z[i], z[j])
    BY <1>8 DEF EmOrdem
  <1>10. Ordenada(S, lugar, z)
    BY <1>5, <1>9 DEF Ordenada
  <1>11. \A n \in S : \E i \in 1..N : z[i] = n
    BY <1>1, <1>4, <1>10, OrdenadaTemTodos
  <1> QED
    BY <1>1, <1>9, <1>11

\* A query returns the first ones: those it leaves out come after all of it, and
\* it leaves none out when it returns fewer than it was asked.
LEMMA ConsultaTrazAsPrimeiras ==
    ASSUME TiposLista, NEW ordem \in Ordens, NEW cursor, NEW quantas \in Nat, NEW exportaveis,
           NEW S, S = Achadas(ordem, cursor, exportaveis),
           NEW C, C = Consulta(ordem, cursor, quantas, exportaveis)
    PROVE  /\ C \subseteq S /\ S \subseteq Existentes
           /\ \A c \in C, n \in S \ C : Antes(ordem, c, n)
           /\ Cardinality(C) < quantas => C = S
  <1> DEFINE acima(n) == {m \in S : Antes(ordem, m, n)}
             altura == [n \in S |-> Cardinality(acima(n))]
  <1>1. S \subseteq Existentes /\ C = {n \in S : Cardinality(acima(n)) < quantas}
    BY DEF Achadas, Consulta
  <1>2. IsFiniteSet(S)
    BY <1>1, EmOrdemDesce
  <1>3. \A n \in S : IsFiniteSet(acima(n)) /\ Cardinality(acima(n)) \in Nat
    BY <1>2, FS_Subset, FS_CardinalityType
  <1>4. ASSUME NEW m \in S, NEW n \in S, Antes(ordem, m, n)
        PROVE  Cardinality(acima(m)) < Cardinality(acima(n))
    <2>1. acima(m) \subseteq acima(n)
      BY <1>1, <1>4, AntesOrdena
    <2>2. m \in acima(n) /\ m \notin acima(m)
      BY <1>1, <1>4, AntesOrdena
    <2>3. /\ Cardinality(acima(m)) <= Cardinality(acima(n))
          /\ Cardinality(acima(n)) = Cardinality(acima(m)) => acima(n) = acima(m)
      BY <1>3, <2>1, FS_Subset
    <2> QED
      BY <1>3, <2>2, <2>3
  <1>5. /\ altura \in [S -> Nat] /\ C = {n \in S : altura[n] < quantas}
        /\ \A n \in S : altura[n] = Cardinality(acima(n))
        /\ \A m, n \in S : Antes(ordem, m, n) => altura[m] < altura[n]
    BY <1>1, <1>3, <1>4
  <1> HIDE DEF altura
  <1>6. ASSUME NEW c \in C, NEW n \in S \ C PROVE Antes(ordem, c, n)
    <2>1. /\ c \in S /\ n \in S /\ altura[c] \in Nat /\ altura[n] \in Nat
          /\ altura[c] < quantas /\ ~(altura[n] < quantas)
      BY <1>5
    <2>2. ~Antes(ordem, n, c) /\ c # n
      BY <1>5, <2>1
    <2> QED
      BY <1>1, <2>1, <2>2, AntesOrdena
  <1>7. ASSUME Cardinality(C) < quantas, C # S PROVE FALSE
    <2> DEFINE onde == {altura[n] : n \in S \ C}
    <2>1. PICK x \in S \ C : TRUE
      BY <1>5, <1>7
    <2>2. onde \in SUBSET Nat /\ onde # {}
      BY <1>5, <2>1
    <2>3. PICK v \in onde : \A w \in onde : v <= w
      <3> HIDE DEF onde
      <3> QED
        BY <2>2, HaMenor
    <2>4. PICK n \in S \ C : \A m \in S \ C : altura[n] <= altura[m]
      BY <2>3
    <2>5. acima(n) \subseteq C
      <3>1. ASSUME NEW m \in S, Antes(ordem, m, n), m \notin C PROVE FALSE
        <4>1. altura[m] < altura[n] /\ altura[n] <= altura[m]
          BY <1>5, <2>4, <3>1
        <4>2. altura[m] \in Nat /\ altura[n] \in Nat
          BY <1>5
        <4> QED
          BY <4>1, <4>2
      <3> QED
        BY <3>1
    <2>6. IsFiniteSet(C) /\ Cardinality(C) \in Nat
      <3>1. C \in SUBSET S
        BY <1>1
      <3> QED
        BY <1>2, <3>1, FS_Subset, FS_CardinalityType
    <2>7. Cardinality(acima(n)) <= Cardinality(C)
      BY <2>5, <2>6, FS_Subset
    <2>8. altura[n] <= Cardinality(C) /\ altura[n] \in Nat /\ ~(altura[n] < quantas)
      BY <1>5, <2>7
    <2> QED
      BY <1>7, <2>6, <2>8
  <1> QED
    BY <1>1, <1>6, <1>7

-----------------------------------------------------------------------------
\* Facts about reading a sequence.
LEMMA MembrosDaJunta ==
    ASSUME NEW s \in Seq(Nat), NEW t \in Seq(Nat)
    PROVE  Membros(s \o t) = Membros(s) \cup Membros(t)
  <1>1. /\ s \o t \in Seq(Nat) /\ Len(s \o t) = Len(s) + Len(t)
        /\ Len(s) \in Nat /\ Len(t) \in Nat
        /\ DOMAIN s = 1..Len(s) /\ DOMAIN t = 1..Len(t) /\ DOMAIN (s \o t) = 1..(Len(s) + Len(t))
    OBVIOUS
  <1>2. \A i \in 1..(Len(s) + Len(t)) :
          (s \o t)[i] = IF i <= Len(s) THEN s[i] ELSE t[i - Len(s)]
    OBVIOUS
  <1>3. ASSUME NEW i \in 1..(Len(s) + Len(t)) PROVE (s \o t)[i] \in Membros(s) \cup Membros(t)
    <2>1. i <= Len(s) => i \in 1..Len(s)
      BY <1>1
    <2>2. ~(i <= Len(s)) => i - Len(s) \in 1..Len(t)
      BY <1>1
    <2> QED
      BY <1>1, <1>2, <2>1, <2>2 DEF Membros
  <1>4. ASSUME NEW i \in 1..Len(s) PROVE s[i] \in Membros(s \o t)
    <2>1. i \in 1..(Len(s) + Len(t)) /\ (s \o t)[i] = s[i]
      BY <1>1, <1>2
    <2> QED
      BY <1>1, <2>1 DEF Membros
  <1>5. ASSUME NEW i \in 1..Len(t) PROVE t[i] \in Membros(s \o t)
    <2>1. /\ i + Len(s) \in 1..(Len(s) + Len(t)) /\ ~(i + Len(s) <= Len(s))
          /\ (i + Len(s)) - Len(s) = i
      BY <1>1
    <2>2. (s \o t)[i + Len(s)] = t[i]
      BY <1>2, <2>1
    <2> QED
      BY <1>1, <2>1, <2>2 DEF Membros
  <1> QED
    BY <1>1, <1>3, <1>4, <1>5 DEF Membros

LEMMA TresJuntas ==
    ASSUME NEW a \in Seq(Nat), NEW b \in Seq(Nat), NEW c \in Seq(Nat)
    PROVE  (a \o b) \o c = a \o (b \o c)
  BY ConcatAssociative

\* Two sequences that descend, the second after the first, descend together.
LEMMA JuntaDesce ==
    ASSUME NEW s \in Seq(Nat), NEW t \in Seq(Nat), Desce(s), Desce(t),
           \A x \in Membros(s), y \in Membros(t) :
             x \in leitura.firmes /\ y \in leitura.firmes => Antes(leitura.ordem, x, y)
    PROVE  Desce(s \o t)
  <1>1. /\ Len(s) \in Nat /\ Len(t) \in Nat
        /\ DOMAIN s = 1..Len(s) /\ DOMAIN t = 1..Len(t) /\ DOMAIN (s \o t) = 1..(Len(s) + Len(t))
    OBVIOUS
  <1>2. \A i \in 1..(Len(s) + Len(t)) :
          (s \o t)[i] = IF i <= Len(s) THEN s[i] ELSE t[i - Len(s)]
    OBVIOUS
  <1> SUFFICES ASSUME NEW i \in 1..(Len(s) + Len(t)), NEW j \in 1..(Len(s) + Len(t)), i < j,
                      (s \o t)[i] \in leitura.firmes, (s \o t)[j] \in leitura.firmes
               PROVE  Antes(leitura.ordem, (s \o t)[i], (s \o t)[j])
    BY <1>1 DEF Desce
  <1>3. CASE j <= Len(s)
    <2>1. i \in 1..Len(s) /\ j \in 1..Len(s) /\ (s \o t)[i] = s[i] /\ (s \o t)[j] = s[j]
      BY <1>1, <1>2, <1>3
    <2> QED
      BY <1>1, <2>1 DEF Desce
  <1>4. CASE i <= Len(s) /\ ~(j <= Len(s))
    <2>1. i \in 1..Len(s) /\ j - Len(s) \in 1..Len(t) /\ (s \o t)[i] = s[i] /\ (s \o t)[j] = t[j - Len(s)]
      BY <1>1, <1>2, <1>4
    <2> QED
      BY <1>1, <2>1 DEF Membros
  <1>5. CASE ~(i <= Len(s))
    <2>1. /\ i - Len(s) \in 1..Len(t) /\ j - Len(s) \in 1..Len(t) /\ i - Len(s) < j - Len(s)
          /\ (s \o t)[i] = t[i - Len(s)] /\ (s \o t)[j] = t[j - Len(s)]
      BY <1>1, <1>2, <1>5
    <2> QED
      BY <1>1, <2>1 DEF Desce
  <1> QED
    BY <1>3, <1>4, <1>5

\* The first part of a sequence that descends descends.
LEMMA ParteDesce ==
    ASSUME NEW a \in Seq(Nat), NEW b \in Seq(Nat), Desce(a \o b)
    PROVE  Desce(a)
  <1>1. PICK c : c = a \o b
    OBVIOUS
  <1>2. a \o b \in Seq(Nat) /\ Len(a \o b) = Len(a) + Len(b) /\ Len(a) \in Nat /\ Len(b) \in Nat
    OBVIOUS
  <1>3. \A i \in 1..(Len(a) + Len(b)) : (a \o b)[i] = IF i <= Len(a) THEN a[i] ELSE b[i - Len(a)]
    OBVIOUS
  <1>4. DOMAIN a = 1..Len(a) /\ DOMAIN c = 1..(Len(a) + Len(b))
    BY <1>1, <1>2
  <1>5. \A i \in 1..Len(a) : i \in 1..(Len(a) + Len(b)) /\ c[i] = a[i]
    BY <1>1, <1>2, <1>3
  <1> QED
    BY <1>1, <1>4, <1>5 DEF Desce

-----------------------------------------------------------------------------
LEMMA ListaInicial == InitLista => InvLista
  <1> SUFFICES ASSUME InitLista PROVE InvLista
    OBVIOUS
  <1>1. /\ acervo = <<>> /\ relogio = 1
        /\ DOMAIN leitura = {"fase", "modo", "ordem", "direcao", "cursor", "pagina", "entregues", "firmes"}
        /\ leitura.fase = "parada" /\ leitura.ordem = "id" /\ leitura.cursor = <<>>
        /\ leitura.pagina = <<>> /\ leitura.entregues = <<>> /\ leitura.firmes = {}
    BY DEF InitLista, Parada
  <1>2. TiposLista
    BY <1>1, ConstantesLista DEF TiposLista, Ordens
  <1>3. LeituraEmCurso
    BY <1>1 DEF LeituraEmCurso
  <1>4. LeituraAcabada
    BY <1>1 DEF LeituraAcabada, Desce, LeituraCompleta
  <1> QED
    BY <1>2, <1>3, <1>4 DEF InvLista

\* Writes lose nothing: the firm notas that remain are as they were.
LEMMA EscritaMantem ==
    ASSUME InvLista, Viva, TiposLista',
           leitura'.firmes \subseteq leitura.firmes,
           \A n \in leitura'.firmes : acervo'[n] = acervo[n],
           leitura'.fase = leitura.fase, leitura'.modo = leitura.modo, leitura'.ordem = leitura.ordem,
           leitura'.direcao = leitura.direcao, leitura'.cursor = leitura.cursor,
           leitura'.pagina = leitura.pagina, leitura'.entregues = leitura.entregues
    PROVE  InvLista'
  <1> DEFINE o == leitura.ordem
  <1>1. \A n \in leitura'.firmes : Chave(leitura.ordem, n)' = Chave(leitura.ordem, n)
    BY DEF Chave
  <1>2. \A m, n \in leitura'.firmes : Antes(leitura.ordem, m, n)' <=> Antes(leitura.ordem, m, n)
    BY <1>1, ZenonT(30) DEF Antes, Menor
  <1>3. \A n \in leitura'.firmes : Adiante(n)' <=> Adiante(n)
    BY <1>1, Zenon DEF Adiante, Menor
  <1>4. ASSUME NEW s, Desce(s) PROVE Desce(s)'
    BY <1>2, <1>4 DEF Desce
  <1>5. LeituraEmCurso'
    <2> SUFFICES ASSUME leitura.fase = "lendo" PROVE LeituraEmCurso'
      BY DEF LeituraEmCurso
    <2> DEFINE lidas == leitura.entregues \o leitura.pagina
    <2>1. /\ Len(leitura.pagina) < Desejadas
          /\ \A n \in leitura.firmes : Visivel(n, Exportando) /\ Serve(n)
          /\ \A n \in leitura.firmes : n \in Membros(lidas) <=> ~Adiante(n)
          /\ Desce(lidas)
      BY DEF InvLista, LeituraEmCurso
    <2>2. Exportando' = Exportando /\ Desejadas' = Desejadas /\ lidas' = lidas
      BY DEF Exportando, Desejadas
    <2>3. \A n \in leitura'.firmes : Visivel(n, Exportando)' /\ Serve(n)'
      BY <2>1, <2>2 DEF Visivel, Serve
    <2>4. \A n \in leitura'.firmes : n \in Membros(lidas)' <=> ~Adiante(n)'
      <3>1. Membros(lidas)' = Membros(lidas)
        BY <2>2 DEF Membros
      <3> QED
        BY <1>3, <2>1, <3>1, Zenon
    <2>5. Desce(lidas)'
      BY <1>4, <2>1, <2>2
    <2> QED
      BY <2>1, <2>2, <2>3, <2>4, <2>5 DEF LeituraEmCurso
  <1>6. LeituraAcabada'
    <2>1. leitura'.fase # "fim"
      BY DEF Viva
    <2>2. leitura'.fase # "lendo" => Desce(leitura.entregues)'
      BY <1>4 DEF InvLista, LeituraAcabada
    <2> QED
      BY <2>1, <2>2 DEF LeituraAcabada, LeituraCompleta
  <1> QED
    BY <1>5, <1>6 DEF InvLista

LEMMA InserirMantem ==
    ASSUME InvLista, Viva, NEW emissao \in {0, 1}, Inserir(emissao)
    PROVE  InvLista'
  <1> DEFINE r == [emissao |-> emissao, importado |-> relogio, atualizado |-> relogio,
                   cancelada |-> FALSE, arquivada |-> FALSE]
  <1>0. TiposLista
    BY DEF InvLista
  <1>1. r \in RegistrosDaLista
    <2>1. relogio \in Nat /\ emissao \in Nat
      BY <1>0 DEF TiposLista
    <2> QED
      BY <2>1, Zenon DEF RegistrosDaLista
  <1>2. /\ acervo' = Append(acervo, r) /\ Len(acervo) < MaxNotas
        /\ UNCHANGED <<relogio, mudancas, leitura>>
    BY DEF Inserir
  <1> HIDE DEF r
  <1>3. /\ acervo' \in Seq(RegistrosDaLista) /\ Len(acervo') = Len(acervo) + 1
        /\ \A i \in 1..Len(acervo) : acervo'[i] = acervo[i]
    BY <1>0, <1>1, <1>2 DEF TiposLista
  <1>4. Existentes \subseteq Existentes' /\ Existentes = 1..Len(acervo)
    BY <1>0, <1>3, Linhas DEF Existentes
  <1>5. TiposLista'
    <2>1. Len(acervo') <= MaxNotas
      BY <1>0, <1>2, <1>3, Linhas, ConstantesLista
    <2> QED
      BY <1>0, <1>2, <1>3, <1>4, <2>1 DEF TiposLista
  <1>6. \A n \in leitura'.firmes : acervo'[n] = acervo[n]
    BY <1>0, <1>2, <1>3, <1>4 DEF TiposLista
  <1>7. leitura' = leitura
    BY <1>2
  <1> QED
    BY <1>5, <1>6, <1>7, EscritaMantem

LEMMA MudarMantem ==
    ASSUME InvLista, Viva, NEW n \in Existentes, NEW nova \in RegistrosDaLista, Mudar(n, nova)
    PROVE  InvLista'
  <1>0. TiposLista
    BY DEF InvLista
  <1>1. acervo' = [acervo EXCEPT ![n] = nova] /\ relogio' = relogio
    BY DEF Mudar
  <1>2. /\ acervo' \in Seq(RegistrosDaLista) /\ Len(acervo') = Len(acervo)
        /\ \A i \in Existentes : i # n => acervo'[i] = acervo[i]
    BY <1>0, <1>1 DEF TiposLista, Existentes
  <1>3. Existentes' = Existentes
    BY <1>0, <1>2 DEF TiposLista, Existentes
  <1>4. /\ leitura'.firmes = leitura.firmes \ {n} /\ DOMAIN leitura' = DOMAIN leitura
        /\ leitura'.fase = leitura.fase /\ leitura'.modo = leitura.modo
        /\ leitura'.ordem = leitura.ordem /\ leitura'.direcao = leitura.direcao
        /\ leitura'.cursor = leitura.cursor /\ leitura'.pagina = leitura.pagina
        /\ leitura'.entregues = leitura.entregues
    BY <1>0 DEF TiposLista, Mudar
  <1>5. TiposLista'
    BY <1>0, <1>1, <1>2, <1>3, <1>4 DEF TiposLista
  <1>6. \A i \in leitura'.firmes : acervo'[i] = acervo[i]
    BY <1>0, <1>2, <1>4 DEF TiposLista
  <1> QED
    BY <1>4, <1>5, <1>6, EscritaMantem

LEMMA EscreverMantem ==
    ASSUME InvLista, Viva, Escrita
    PROVE  InvLista'
  <1>0. TiposLista /\ relogio \in Nat
    BY DEF InvLista, TiposLista
  <1>1. \A n \in Existentes : acervo[n] \in RegistrosDaLista
    BY <1>0 DEF TiposLista, Existentes
  <1>2. ASSUME NEW n \in Existentes, Reingerir(n) PROVE InvLista'
    <2>1. [acervo[n] EXCEPT !.atualizado = relogio] \in RegistrosDaLista
      BY <1>0, <1>1 DEF RegistrosDaLista
    <2> QED
      BY <1>2, <2>1, MudarMantem DEF Reingerir
  <1>3. ASSUME NEW n \in Existentes, Cancelar(n) PROVE InvLista'
    <2>1. [acervo[n] EXCEPT !.cancelada = TRUE, !.atualizado = relogio] \in RegistrosDaLista
      BY <1>0, <1>1 DEF RegistrosDaLista
    <2> QED
      BY <1>3, <2>1, MudarMantem DEF Cancelar
  <1>4. ASSUME NEW n \in Existentes, Arquivar(n) PROVE InvLista'
    <2>1. [acervo[n] EXCEPT !.arquivada = TRUE] \in RegistrosDaLista
      BY <1>1 DEF RegistrosDaLista
    <2> QED
      BY <1>4, <2>1, MudarMantem DEF Arquivar
  <1>5. ASSUME Passar PROVE InvLista'
    <2>1. UNCHANGED <<acervo, leitura>> /\ relogio' \in Nat
      BY <1>0, <1>5 DEF Passar
    <2>2. TiposLista'
      BY <1>0, <2>1 DEF TiposLista, Existentes
    <2>3. leitura'.firmes \subseteq leitura.firmes /\ \A n \in leitura'.firmes : acervo'[n] = acervo[n]
      BY <2>1
    <2> QED
      BY <2>1, <2>2, <2>3, EscritaMantem
  <1> QED
    BY <1>2, <1>3, <1>4, <1>5, InserirMantem DEF Escrita

LEMMA AbrirMantem ==
    ASSUME InvLista, NEW m \in {"lista", "exportacao"}, NEW o \in Ordens,
           NEW d \in {"todas", "recebida"}, Abrir(m, o, d)
    PROVE  InvLista'
  <1> DEFINE F == {n \in Existentes : /\ Visivel(n, m = "exportacao") /\ d \in {"todas", Direcao(n)}}
  <1>0. TiposLista
    BY DEF InvLista
  <1>1. /\ DOMAIN leitura' = {"fase", "modo", "ordem", "direcao", "cursor", "pagina", "entregues", "firmes"}
        /\ leitura'.fase = "lendo" /\ leitura'.modo = m /\ leitura'.ordem = o /\ leitura'.direcao = d
        /\ leitura'.cursor = <<>> /\ leitura'.pagina = <<>> /\ leitura'.entregues = <<>>
        /\ leitura'.firmes = F
    BY DEF Abrir, Parada
  <1>2. acervo' = acervo /\ relogio' = relogio
    BY DEF Abrir
  <1>3. TiposLista'
    BY <1>0, <1>1, <1>2 DEF TiposLista, Existentes
  <1>4. LeituraEmCurso'
    <2>1. (leitura.entregues \o leitura.pagina)' = <<>>
      BY <1>1
    <2>2. (Len(leitura.pagina) < Desejadas)'
      BY <1>1, ConstantesLista DEF Desejadas
    <2>3. \A n \in F : Visivel(n, Exportando)' /\ Serve(n)'
      BY <1>1, <1>2 DEF Visivel, Exportando, Serve
    <2>4. \A n \in F : ~(n \in Membros(leitura.entregues \o leitura.pagina)') /\ Adiante(n)'
      BY <1>1, <2>1 DEF Membros, Adiante
    <2>5. Desce(leitura.entregues \o leitura.pagina)'
      BY <2>1 DEF Desce
    <2> HIDE DEF F
    <2> QED
      BY <1>1, <2>2, <2>3, <2>4, <2>5 DEF LeituraEmCurso
  <1>5. LeituraAcabada'
    BY <1>1 DEF LeituraAcabada, LeituraCompleta
  <1> QED
    BY <1>3, <1>4, <1>5 DEF InvLista

\* What was read and did not change comes before all a query returns.
LEMMA LidasAntes ==
    ASSUME InvLista, leitura.fase = "lendo",
           NEW x \in leitura.firmes, x \in Membros(leitura.entregues \o leitura.pagina),
           NEW y \in Achadas(leitura.ordem, leitura.cursor, Exportando)
    PROVE  Antes(leitura.ordem, x, y)
  <1>1. TiposLista /\ leitura.ordem \in Ordens /\ x \in Existentes /\ y \in Existentes
    BY DEF InvLista, TiposLista, Achadas
  <1>2. ~Adiante(x)
    BY DEF InvLista, LeituraEmCurso
  <1>3. /\ leitura.cursor # <<>> /\ ~Menor(Chave(leitura.ordem, x), leitura.cursor)
        /\ Menor(Chave(leitura.ordem, y), leitura.cursor)
    BY <1>2 DEF Adiante, Achadas
  <1>4. leitura.cursor \in [1..Tamanho(leitura.ordem) -> Nat]
    BY <1>1, <1>3 DEF TiposLista
  <1>5. ~Antes(leitura.ordem, y, x)
    <2>1. PICK kx, ky : kx = Chave(leitura.ordem, x) /\ ky = Chave(leitura.ordem, y)
      OBVIOUS
    <2>2. PICK L \in Nat : kx \in [1..L -> Nat] /\ ky \in [1..L -> Nat] /\ leitura.cursor \in [1..L -> Nat]
      BY <1>1, <1>4, <2>1, ChaveTermina
    <2>3. Menor(kx, ky) /\ Menor(ky, leitura.cursor) => Menor(kx, leitura.cursor)
      BY <2>2, OrdemDasChaves
    <2> QED
      BY <1>3, <2>1, <2>3 DEF Antes
  <1> QED
    BY <1>1, <1>3, <1>5, AntesOrdena

\* A reading that takes the first ones P of a query and leaves the cursor at u,
\* the last of them, keeps what it promises.
LEMMA Avanca ==
    ASSUME InvLista, leitura.fase = "lendo", NEW quantas \in Nat,
           NEW vindas, vindas = Consulta(leitura.ordem, leitura.cursor, quantas, Exportando),
           NEW P \in Seq(Nat), Membros(P) \subseteq vindas, Desce(P), NEW u \in vindas,
           \A c \in Membros(P) : c = u \/ Antes(leitura.ordem, c, u),
           \A n \in vindas : Serve(n) /\ n \notin Membros(P) => Antes(leitura.ordem, u, n),
           acervo' = acervo, leitura'.fase = "lendo", leitura'.modo = leitura.modo,
           leitura'.ordem = leitura.ordem, leitura'.direcao = leitura.direcao,
           leitura'.firmes = leitura.firmes, leitura'.cursor = Chave(leitura.ordem, u),
           leitura'.entregues \o leitura'.pagina = (leitura.entregues \o leitura.pagina) \o P,
           Len(leitura'.pagina) < Desejadas
    PROVE  LeituraEmCurso' /\ LeituraAcabada'
  <1> DEFINE o == leitura.ordem
             lidas == leitura.entregues \o leitura.pagina
             S == Achadas(o, leitura.cursor, Exportando)
  <1>1. /\ TiposLista /\ o \in Ordens /\ leitura.firmes \subseteq Existentes
        /\ leitura.entregues \in Seq(Nat) /\ leitura.pagina \in Seq(Nat) /\ lidas \in Seq(Nat)
    BY DEF InvLista, TiposLista
  <1>2. /\ \A n \in leitura.firmes : Visivel(n, Exportando) /\ Serve(n)
        /\ \A n \in leitura.firmes : n \in Membros(lidas) <=> ~Adiante(n)
        /\ Desce(lidas)
    BY DEF InvLista, LeituraEmCurso
  <1>3. /\ vindas \subseteq S /\ S \subseteq Existentes
        /\ \A c \in vindas, n \in S \ vindas : Antes(o, c, n)
    BY <1>1, ConsultaTrazAsPrimeiras
  <1>4. \A n \in leitura.firmes : n \in Membros(lidas) \/ n \in S
    BY <1>1, <1>2 DEF Achadas, Adiante
  <1>5. \A n \in leitura.firmes : n \in Membros(lidas) => Antes(o, n, u)
    BY <1>3, LidasAntes
  <1>6. \A n \in leitura.firmes : n \notin Membros(lidas) \cup Membros(P) => Antes(o, u, n)
    BY <1>2, <1>3, <1>4
  <1>7. \A n \in Existentes : ~(Antes(o, n, u) /\ Antes(o, u, n)) /\ ~Antes(o, u, u)
    BY <1>1, <1>3, AntesOrdena
  <1>8. Membros(lidas \o P) = Membros(lidas) \cup Membros(P)
    BY <1>1, MembrosDaJunta
  <1>9. \A n \in leitura.firmes : n \in Membros(lidas \o P) <=> ~Antes(o, u, n)
    BY <1>1, <1>5, <1>6, <1>7, <1>8
  <1>10. Desce(lidas \o P)
    <2>1. \A x \in Membros(lidas), y \in Membros(P) :
            x \in leitura.firmes /\ y \in leitura.firmes => Antes(o, x, y)
      BY <1>3, LidasAntes
    <2> QED
      BY <1>1, <1>2, <2>1, JuntaDesce
  <1>11. Exportando' = Exportando /\ Desejadas' = Desejadas
    BY DEF Exportando, Desejadas
  <1>12. Chave(o, u) # <<>>
    BY <1>1, <1>3, ChaveTermina
  <1>13. \A n : Chave(leitura.ordem, n)' = Chave(o, n)
    BY DEF Chave
  <1>14. \A n : Adiante(n)' <=> Antes(o, u, n)
    BY <1>12, <1>13, Zenon DEF Adiante, Antes, Menor
  <1>15. \A n \in leitura'.firmes : Visivel(n, Exportando)' /\ Serve(n)'
    BY <1>2, <1>11 DEF Visivel, Serve
  <1>16. (leitura.entregues \o leitura.pagina)' = lidas \o P
    OBVIOUS
  <1>17. \A n \in leitura'.firmes : n \in Membros(leitura.entregues \o leitura.pagina)' <=> ~Adiante(n)'
    <2>1. Membros(leitura.entregues \o leitura.pagina)' = Membros(lidas \o P)
      BY <1>16 DEF Membros
    <2> HIDE DEF o, lidas
    <2> QED
      BY <1>9, <1>14, <2>1, Zenon
  <1>18. Desce(leitura.entregues \o leitura.pagina)'
    <2>1. \A m, n : Antes(leitura.ordem, m, n)' <=> Antes(o, m, n)
      BY <1>13, ZenonT(30) DEF Antes, Menor
    <2> QED
      BY <1>10, <1>16, <2>1 DEF Desce
  <1>19. LeituraEmCurso'
    BY <1>11, <1>15, <1>17, <1>18 DEF LeituraEmCurso
  <1>20. LeituraAcabada'
    BY DEF LeituraAcabada, LeituraCompleta
  <1> QED
    BY <1>19, <1>20

\* The served rows of a query, in order.
LEMMA NovasDescem ==
    ASSUME TiposLista, NEW vindas \in SUBSET Existentes,
           NEW novas, novas = EmOrdem(leitura.ordem, {n \in vindas : Serve(n)})
    PROVE  /\ novas \in Seq(Nat) /\ Membros(novas) = {n \in vindas : Serve(n)}
           /\ \A i, j \in 1..Len(novas) : i < j => Antes(leitura.ordem, novas[i], novas[j])
           /\ Desce(novas)
  <1> DEFINE N0 == {n \in vindas : Serve(n)}
             k == Cardinality(N0)
  <1>1. /\ k \in Nat /\ novas \in [1..k -> N0]
        /\ \A i, j \in 1..k : i < j => Antes(leitura.ordem, novas[i], novas[j])
        /\ \A n \in N0 : \E i \in 1..k : novas[i] = n
    <2>1. leitura.ordem \in Ordens /\ N0 \in SUBSET Existentes /\ novas = EmOrdem(leitura.ordem, N0)
      BY DEF TiposLista
    <2> DEFINE z == EmOrdem(leitura.ordem, N0)
    <2> HIDE DEF N0
    <2>2. /\ Cardinality(N0) \in Nat /\ z \in [1..Cardinality(N0) -> N0]
          /\ \A i, j \in 1..Cardinality(N0) : i < j => Antes(leitura.ordem, z[i], z[j])
          /\ \A n \in N0 : \E i \in 1..Cardinality(N0) : z[i] = n
      BY <2>1, EmOrdemDesce
    <2> HIDE DEF z
    <2>3. z = novas
      BY <2>1 DEF z
    <2> QED
      BY <2>2, <2>3
  <1>2. N0 \subseteq Nat
    BY Linhas
  <1> HIDE DEF N0, k
  <1>3. novas \in Seq(Nat) /\ DOMAIN novas = 1..k /\ Len(novas) = k
    <2>1. novas \in [1..k -> Nat]
      BY <1>1, <1>2
    <2> QED
      BY <1>1, <2>1
  <1>4. Membros(novas) = N0
    BY <1>1, <1>3 DEF Membros
  <1>5. Desce(novas)
    BY <1>1, <1>3 DEF Desce
  <1> QED
    BY <1>1, <1>3, <1>4, <1>5 DEF N0

\* What the reading has after one more query, before it decides what to hand over.
LEMMA LoteLido ==
    ASSUME InvLista, leitura.fase = "lendo", NEW quantas \in Nat,
           NEW vindas, vindas = Consulta(leitura.ordem, leitura.cursor, quantas, Exportando),
           NEW novas, novas = EmOrdem(leitura.ordem, {n \in vindas : Serve(n)})
    PROVE  /\ vindas \subseteq Achadas(leitura.ordem, leitura.cursor, Exportando) /\ vindas \subseteq Existentes
           /\ Desce(leitura.entregues \o (leitura.pagina \o novas))
           /\ Cardinality(vindas) < quantas =>
                leitura.firmes \subseteq Membros(leitura.entregues \o (leitura.pagina \o novas))
  <1> DEFINE o == leitura.ordem
             lidas == leitura.entregues \o leitura.pagina
             S == Achadas(o, leitura.cursor, Exportando)
  <1>1. /\ TiposLista /\ o \in Ordens /\ leitura.firmes \subseteq Existentes
        /\ leitura.entregues \in Seq(Nat) /\ leitura.pagina \in Seq(Nat) /\ lidas \in Seq(Nat)
    BY DEF InvLista, TiposLista
  <1>2. /\ \A n \in leitura.firmes : Visivel(n, Exportando) /\ Serve(n)
        /\ \A n \in leitura.firmes : n \in Membros(lidas) <=> ~Adiante(n)
        /\ Desce(lidas)
    BY DEF InvLista, LeituraEmCurso
  <1>3. /\ vindas \subseteq S /\ S \subseteq Existentes
        /\ Cardinality(vindas) < quantas => vindas = S
    <2> HIDE DEF S
    <2>1. S = Achadas(o, leitura.cursor, Exportando)
      BY DEF S
    <2> QED
      BY <1>1, <2>1, ConsultaTrazAsPrimeiras
  <1>4. novas \in Seq(Nat) /\ Membros(novas) = {n \in vindas : Serve(n)} /\ Desce(novas)
    BY <1>1, <1>3, NovasDescem
  <1>5. leitura.entregues \o (leitura.pagina \o novas) = lidas \o novas
    <2>1. PICK a, b, c : a = leitura.entregues /\ b = leitura.pagina /\ c = novas
      OBVIOUS
    <2>2. a \in Seq(Nat) /\ b \in Seq(Nat) /\ c \in Seq(Nat)
      BY <1>1, <1>4, <2>1
    <2>3. (a \o b) \o c = a \o (b \o c)
      BY <2>2, TresJuntas
    <2> QED
      BY <2>1, <2>3
  <1>6. Desce(lidas \o novas)
    <2>1. \A x \in Membros(lidas), y \in Membros(novas) :
            x \in leitura.firmes /\ y \in leitura.firmes => Antes(o, x, y)
      BY <1>3, <1>4, LidasAntes
    <2> QED
      BY <1>1, <1>2, <1>4, <2>1, JuntaDesce
  <1>7. ASSUME Cardinality(vindas) < quantas, NEW n \in leitura.firmes PROVE n \in Membros(lidas \o novas)
    <2>1. Membros(lidas \o novas) = Membros(lidas) \cup Membros(novas)
      BY <1>1, <1>4, MembrosDaJunta
    <2>2. n \in Membros(lidas) \/ n \in S
      BY <1>1, <1>2 DEF Achadas, Adiante
    <2> QED
      BY <1>2, <1>3, <1>4, <1>7, <2>1, <2>2
  <1> QED
    BY <1>3, <1>5, <1>6, <1>7

LEMMA TamanhoPositivo ==
    ASSUME NEW q \in TamanhosDoLote
    PROVE  q \in Nat \ {0}
  BY ConstantesLista DEF TamanhosDoLote

\* The page is not full: the cursor goes to the last row of the lot.
LEMMA LotePelaMetade ==
    ASSUME InvLista, NEW q \in TamanhosDoLote, leitura.fase = "lendo",
           NEW vindas, vindas = Consulta(leitura.ordem, leitura.cursor, q, Exportando),
           NEW novas, novas = EmOrdem(leitura.ordem, {n \in vindas : Serve(n)}),
           ~Completa(leitura.pagina \o novas, Cardinality(vindas) < q),
           leitura' = [leitura EXCEPT !.pagina = leitura.pagina \o novas,
                                      !.cursor = Chave(leitura.ordem, Last(EmOrdem(leitura.ordem, vindas)))],
           UNCHANGED <<acervo, relogio>>
    PROVE  InvLista'
  <1> DEFINE o == leitura.ordem
             z == EmOrdem(o, vindas)
             k == Cardinality(vindas)
             u == Last(z)
  <1>1. /\ TiposLista /\ o \in Ordens /\ leitura.entregues \in Seq(Nat) /\ leitura.pagina \in Seq(Nat)
    BY DEF InvLista, TiposLista
  <1>2. q \in Nat \ {0}
    BY TamanhoPositivo
  <1>3. vindas \subseteq Existentes
    BY <1>2, LoteLido
  <1>4. /\ k \in Nat /\ z \in [1..k -> vindas]
        /\ \A i, j \in 1..k : i < j => Antes(o, z[i], z[j])
        /\ \A n \in vindas : \E i \in 1..k : z[i] = n
    BY <1>1, <1>3, EmOrdemDesce
  <1>5. ~(k < q) /\ ~(Len(leitura.pagina \o novas) >= Desejadas)
    BY DEF Completa
  <1>6. k \in 1..k /\ u = z[k]
    <2>1. k \in 1..k
      BY <1>2, <1>4, <1>5
    <2>2. Len(z) = k
      BY <1>4
    <2> QED
      BY <2>1, <2>2 DEF Last
  <1>7. u \in vindas /\ \A n \in vindas : n = u \/ Antes(o, n, u)
    <2>1. \A i \in 1..k : i = k \/ i < k
      BY <1>4
    <2> QED
      BY <1>4, <1>6, <2>1
  <1>8. novas \in Seq(Nat) /\ Membros(novas) = {n \in vindas : Serve(n)} /\ Desce(novas)
    BY <1>1, <1>3, NovasDescem
  <1>9. /\ DOMAIN leitura' = DOMAIN leitura
        /\ leitura'.fase = "lendo" /\ leitura'.modo = leitura.modo
        /\ leitura'.ordem = leitura.ordem /\ leitura'.direcao = leitura.direcao
        /\ leitura'.firmes = leitura.firmes /\ leitura'.cursor = Chave(o, u)
        /\ leitura'.pagina = leitura.pagina \o novas /\ leitura'.entregues = leitura.entregues
    BY <1>1 DEF TiposLista
  <1>10. /\ leitura'.entregues \o leitura'.pagina = (leitura.entregues \o leitura.pagina) \o novas
         /\ leitura'.pagina \in Seq(Nat) /\ Len(leitura'.pagina) < Desejadas
    <2>1. PICK a, b, pg : a = leitura.entregues /\ b = leitura.pagina /\ pg = b \o novas
      OBVIOUS
    <2>2. a \in Seq(Nat) /\ b \in Seq(Nat) /\ novas \in Seq(Nat)
      BY <1>1, <1>8, <2>1
    <2>3. (a \o b) \o novas = a \o pg
      <3>1. (a \o b) \o novas = a \o (b \o novas)
        BY <2>2, TresJuntas
      <3> QED
        BY <2>1, <3>1
    <2>4. pg \in Seq(Nat)
      BY <2>1, <2>2
    <2>5. ~(Len(pg) >= Desejadas) /\ leitura'.pagina = pg /\ leitura'.entregues = a
      BY <1>5, <1>9, <2>1
    <2>6. Desejadas \in Nat
      BY ConstantesLista DEF Desejadas
    <2>7. Len(pg) \in Nat
      BY <2>4
    <2>8. Len(pg) < Desejadas
      BY <2>5, <2>6, <2>7
    <2> QED
      BY <2>1, <2>3, <2>4, <2>5, <2>8
  <1>11. LeituraEmCurso' /\ LeituraAcabada'
    <2> HIDE DEF o, z, k, u
    <2>1. o = leitura.ordem
      BY DEF o
    <2> QED
      BY <1>2, <1>7, <1>8, <1>9, <1>10, <2>1, Avanca
  <1>12. TiposLista'
    <2>1. leitura'.cursor \in [1..Tamanho(o) -> Nat]
      BY <1>1, <1>3, <1>7, <1>9, ChaveTermina
    <2> QED
      BY <1>1, <1>9, <1>10, <2>1 DEF TiposLista, Existentes
  <1> QED
    BY <1>11, <1>12 DEF InvLista

\* The reading ends.
LEMMA FimDaLeitura ==
    ASSUME InvLista, NEW q \in TamanhosDoLote, leitura.fase = "lendo",
           NEW vindas, vindas = Consulta(leitura.ordem, leitura.cursor, q, Exportando),
           NEW novas, novas = EmOrdem(leitura.ordem, {n \in vindas : Serve(n)}),
           Cardinality(vindas) < q,
           leitura' = [leitura EXCEPT !.fase = "fim", !.pagina = <<>>,
                                      !.entregues = leitura.entregues \o (leitura.pagina \o novas)],
           UNCHANGED <<acervo, relogio>>
    PROVE  InvLista'
  <1>1. TiposLista /\ q \in Nat
    BY TamanhoPositivo DEF InvLista
  <1>2. vindas \subseteq Existentes
    BY <1>1, LoteLido
  <1>3. /\ DOMAIN leitura' = DOMAIN leitura
        /\ leitura'.fase = "fim" /\ leitura'.ordem = leitura.ordem
        /\ leitura'.firmes = leitura.firmes /\ leitura'.cursor = leitura.cursor
        /\ leitura'.pagina = <<>> /\ leitura'.entregues = leitura.entregues \o (leitura.pagina \o novas)
    BY <1>1 DEF TiposLista
  <1>4. Desce(leitura'.entregues) /\ leitura.firmes \subseteq Membros(leitura'.entregues)
    BY <1>1, <1>3, LoteLido
  <1>5. novas \in Seq(Nat) /\ leitura.entregues \in Seq(Nat) /\ leitura.pagina \in Seq(Nat)
    BY <1>1, <1>2, NovasDescem DEF TiposLista
  <1>6. TiposLista'
    <2>1. leitura'.entregues \in Seq(Nat) /\ leitura'.pagina \in Seq(Nat)
      BY <1>3, <1>5
    <2> QED
      BY <1>1, <1>3, <2>1 DEF TiposLista, Existentes
  <1>7. LeituraEmCurso'
    BY <1>3 DEF LeituraEmCurso
  <1>8. LeituraAcabada'
    <2>1. \A m, n : Antes(leitura.ordem, m, n)' <=> Antes(leitura.ordem, m, n)
      BY <1>3 DEF Antes, Chave
    <2>2. Desce(leitura.entregues)'
      BY <1>3, <1>4, <2>1 DEF Desce
    <2>3. LeituraCompleta'
      BY <1>3, <1>4 DEF LeituraCompleta, Membros, ToSet
    <2> QED
      BY <2>2, <2>3 DEF LeituraAcabada
  <1> QED
    BY <1>6, <1>7, <1>8 DEF InvLista

\* c is s and the first ones of t.
ComParteDe(c, s, t) ==
    \E k \in 1..Len(t) : \E p \in Seq(Nat) :
        /\ DOMAIN p = 1..k /\ \A i \in 1..k : p[i] = t[i]
        /\ c = s \o p /\ Last(c) = t[k]

\* Cutting s \o t inside t.
LEMMA Corte ==
    ASSUME NEW s \in Seq(Nat), NEW t \in Seq(Nat), NEW D \in Nat, Len(s) < D, Len(s \o t) >= D
    PROVE  ComParteDe(SubSeq(s \o t, 1, D), s, t)
  <1> DEFINE k == D - Len(s)
             p == [i \in 1..k |-> t[i]]
             c == SubSeq(s \o t, 1, D)
  <1>1. /\ Len(s) \in Nat /\ Len(t) \in Nat /\ Len(s \o t) = Len(s) + Len(t) /\ s \o t \in Seq(Nat)
        /\ \A i \in 1..(Len(s) + Len(t)) : (s \o t)[i] = IF i <= Len(s) THEN s[i] ELSE t[i - Len(s)]
    BY ConcatProperties
  <1>2. k \in 1..Len(t) /\ k \in Nat /\ D = Len(s) + k
    BY <1>1
  <1>3. p \in Seq(Nat) /\ Len(p) = k /\ DOMAIN p = 1..k /\ \A i \in 1..k : p[i] = t[i]
    <2>1. \A i \in 1..k : t[i] \in Nat
      BY <1>1, <1>2
    <2>2. p \in [1..k -> Nat]
      BY <2>1
    <2> QED
      BY <1>2, <2>2
  <1>4. c \in Seq(Nat) /\ Len(c) = D /\ \A i \in 1..D : c[i] = (s \o t)[i]
    <2>1. /\ c \in Seq(Nat) /\ Len(c) = IF 1 <= D THEN D - 1 + 1 ELSE 0
          /\ \A i \in 1..(D - 1 + 1) : c[i] = (s \o t)[1 + i - 1]
      <3>1. \A i \in 1..D : (s \o t)[i] \in Nat
        BY <1>1
      <3>2. 1 \in Int /\ D \in Int
        OBVIOUS
      <3> HIDE DEF k, p
      <3> QED
        BY <3>1, <3>2, SubSeqProperties
    <2>2. D - 1 + 1 = D /\ 1 <= D /\ \A i \in 1..D : 1 + i - 1 = i
      BY <1>1, <1>2
    <2> QED
      BY <2>1, <2>2
  <1> HIDE DEF p, c, k
  <1>5. /\ s \o p \in Seq(Nat) /\ Len(s \o p) = D
        /\ \A i \in 1..D : (s \o p)[i] = IF i <= Len(s) THEN s[i] ELSE p[i - Len(s)]
    <2>1. s \o p \in Seq(Nat) /\ Len(s \o p) = Len(s) + Len(p)
      BY <1>3, ConcatProperties
    <2>2. \A i \in 1..(Len(s) + Len(p)) : (s \o p)[i] = IF i <= Len(s) THEN s[i] ELSE p[i - Len(s)]
      BY <1>3, ConcatProperties
    <2> QED
      BY <1>2, <1>3, <2>1, <2>2
  <1>6. \A i \in 1..D : c[i] = (s \o p)[i]
    <2>1. \A i \in 1..D : i \in 1..(Len(s) + Len(t)) /\ (~(i <= Len(s)) => i - Len(s) \in 1..k)
      BY <1>1, <1>2
    <2> QED
      BY <1>1, <1>3, <1>4, <1>5, <2>1
  <1>7. c = s \o p
    BY <1>4, <1>5, <1>6, SeqEqual
  <1>8. Last(c) = t[k]
    <2>1. D \in 1..D /\ ~(D <= Len(s)) /\ D - Len(s) = k
      BY <1>1, <1>2
    <2>2. c[D] = p[k]
      BY <1>5, <1>6, <2>1
    <2> QED
      BY <1>2, <1>3, <1>4, <2>2 DEF Last
  <1> QED
    BY <1>2, <1>3, <1>7, <1>8 DEF c, ComParteDe

\* A page is full: it is cut, and the cursor goes to the last nota handed over.
LEMMA PaginaEntregue ==
    ASSUME InvLista, NEW q \in TamanhosDoLote, leitura.fase = "lendo", ~Exportando,
           NEW vindas, vindas = Consulta(leitura.ordem, leitura.cursor, q, Exportando),
           NEW novas, novas = EmOrdem(leitura.ordem, {n \in vindas : Serve(n)}),
           NEW pagina, pagina = leitura.pagina \o novas, Len(pagina) >= Desejadas,
           NEW cheia, cheia = SubSeq(pagina, 1, Desejadas),
           leitura' = [leitura EXCEPT !.pagina = <<>>, !.entregues = leitura.entregues \o cheia,
                                      !.cursor = Chave(leitura.ordem, Last(cheia))],
           UNCHANGED <<acervo, relogio>>
    PROVE  InvLista'
  <1> DEFINE o == leitura.ordem
  <1>1. /\ TiposLista /\ o \in Ordens /\ q \in Nat
        /\ leitura.entregues \in Seq(Nat) /\ leitura.pagina \in Seq(Nat)
    BY TamanhoPositivo DEF InvLista, TiposLista
  <1>2. vindas \subseteq Existentes
    BY <1>1, LoteLido
  <1>3. /\ novas \in Seq(Nat) /\ Membros(novas) = {n \in vindas : Serve(n)} /\ Desce(novas)
        /\ \A i, j \in 1..Len(novas) : i < j => Antes(o, novas[i], novas[j])
    BY <1>1, <1>2, NovasDescem
  <1>4. PICK a, b : a = leitura.entregues /\ b = leitura.pagina
    OBVIOUS
  <1>5. PICK D \in Nat \ {0} : D = Desejadas
    BY ConstantesLista DEF Desejadas
  <1>6. /\ a \in Seq(Nat) /\ b \in Seq(Nat) /\ pagina = b \o novas
        /\ Len(b) < D /\ Len(pagina) >= D /\ cheia = SubSeq(pagina, 1, D)
    BY <1>1, <1>4, <1>5 DEF InvLista, LeituraEmCurso
  <1>7. PICK k \in 1..Len(novas), P \in Seq(Nat) :
          /\ DOMAIN P = 1..k /\ \A i \in 1..k : P[i] = novas[i]
          /\ cheia = b \o P /\ Last(cheia) = novas[k]
    <2>1. Len(b \o novas) >= D /\ D \in Nat
      BY <1>6
    <2>2. ComParteDe(SubSeq(b \o novas, 1, D), b, novas)
      BY <1>3, <1>6, <2>1, Corte
    <2>3. cheia = SubSeq(b \o novas, 1, D)
      BY <1>6
    <2>4. ComParteDe(cheia, b, novas)
      BY <2>2, <2>3
    <2> QED
      BY <2>4 DEF ComParteDe
  <1> DEFINE u == novas[k]
  <1>8. /\ Len(novas) \in Nat /\ DOMAIN novas = 1..Len(novas) /\ k \in 1..Len(novas)
        /\ u \in Membros(novas) /\ u \in vindas
        /\ \A i \in 1..k : i \in 1..Len(novas)
    <2>1. Len(novas) \in Nat /\ DOMAIN novas = 1..Len(novas)
      BY <1>3
    <2>2. u \in Membros(novas)
      BY <1>7, <2>1 DEF Membros
    <2>3. u \in vindas
      <3> HIDE DEF u
      <3>1. u \in {n \in vindas : Serve(n)}
        BY <1>3, <2>2
      <3> QED
        BY <3>1
    <2>4. k \in 1..Len(novas) /\ \A i \in 1..k : i \in 1..Len(novas)
      <3>1. PICK n \in Nat : n = Len(novas)
        BY <2>1
      <3>2. k \in 1..n
        BY <3>1
      <3>3. \A i \in 1..k : i \in 1..n
        BY <3>2
      <3> QED
        BY <3>1, <3>2, <3>3
    <2> QED
      BY <2>1, <2>2, <2>3, <2>4, Zenon
  <1>9. Membros(P) \subseteq vindas /\ \A c \in Membros(P) : c = u \/ Antes(o, c, u)
    <2>1. ASSUME NEW i \in 1..k PROVE P[i] \in vindas /\ (P[i] = u \/ Antes(o, P[i], u))
      <3>1. i \in 1..Len(novas) /\ P[i] = novas[i] /\ (i = k \/ i < k)
        BY <1>7, <1>8
      <3>2. novas[i] \in vindas
        BY <1>3, <1>8, <3>1 DEF Membros
      <3> QED
        BY <1>3, <1>8, <3>1, <3>2
    <2> QED
      BY <1>7, <2>1 DEF Membros
  <1>10. \A n \in vindas : Serve(n) /\ n \notin Membros(P) => Antes(o, u, n)
    <2>1. ASSUME NEW n \in vindas, Serve(n), n \notin Membros(P) PROVE Antes(o, u, n)
      <3>1. PICK i \in 1..Len(novas) : novas[i] = n
        <4>1. n \in Membros(novas)
          BY <1>3, <2>1
        <4> QED
          BY <1>8, <4>1 DEF Membros
      <3>2. i \notin 1..k
        BY <1>7, <2>1, <3>1 DEF Membros
      <3>3. k < i
        BY <1>8, <3>1, <3>2
      <3> QED
        BY <1>3, <1>8, <3>1, <3>3
    <2> QED
      BY <2>1
  <1>11. Desce(P)
    <2>1. \A i, j \in 1..k : i < j => Antes(o, P[i], P[j])
      BY <1>3, <1>7, <1>8
    <2> QED
      BY <1>7, <2>1 DEF Desce
  <1>12. /\ DOMAIN leitura' = DOMAIN leitura
         /\ leitura'.fase = "lendo" /\ leitura'.modo = leitura.modo
         /\ leitura'.ordem = leitura.ordem /\ leitura'.direcao = leitura.direcao
         /\ leitura'.firmes = leitura.firmes /\ leitura'.cursor = Chave(o, u)
         /\ leitura'.pagina = <<>> /\ leitura'.entregues = a \o (b \o P)
    BY <1>1, <1>4, <1>7 DEF TiposLista
  <1>13. /\ leitura'.entregues \in Seq(Nat) /\ leitura'.pagina \in Seq(Nat)
         /\ Len(leitura'.pagina) < Desejadas
         /\ leitura'.entregues \o leitura'.pagina = (a \o b) \o P
    <2>1. a \o (b \o P) \in Seq(Nat)
      BY <1>6, <1>7
    <2>2. (a \o b) \o P = a \o (b \o P)
      BY <1>6, <1>7, TresJuntas
    <2>3. PICK e : e = a \o (b \o P)
      OBVIOUS
    <2>4. e \o <<>> = e
      BY <2>1, <2>3, ConcatEmptySeq
    <2> QED
      <3>1. leitura'.entregues = e /\ leitura'.pagina = <<>> /\ e \in Seq(Nat)
        BY <1>12, <2>1, <2>3
      <3>2. leitura'.entregues \o leitura'.pagina = (a \o b) \o P
        BY <2>2, <2>3, <2>4, <3>1
      <3>3. Len(leitura'.pagina) = 0 /\ leitura'.pagina \in Seq(Nat)
        BY <3>1
      <3>4. Len(leitura'.pagina) < Desejadas
        BY <1>5, <3>3
      <3> QED
        BY <3>1, <3>2, <3>3, <3>4, Zenon
  <1> HIDE DEF u
  <1>14. LeituraEmCurso' /\ LeituraAcabada'
    <2>1. leitura'.entregues \o leitura'.pagina = (leitura.entregues \o leitura.pagina) \o P
      BY <1>4, <1>13
    <2> QED
      BY <1>1, <1>7, <1>8, <1>9, <1>10, <1>11, <1>12, <1>13, <2>1, Avanca
  <1>15. TiposLista'
    <2>1. leitura'.cursor \in [1..Tamanho(o) -> Nat]
      <3>1. u \in Existentes
        BY <1>2, <1>8
      <3>2. Chave(o, u) \in [1..Tamanho(o) -> Nat]
        BY <1>1, <3>1, ChaveTermina
      <3> QED
        BY <1>12, <3>2
    <2> QED
      BY <1>1, <1>12, <1>13, <2>1 DEF TiposLista, Existentes
  <1> QED
    BY <1>14, <1>15 DEF InvLista

\* An export over the limit is refused.
LEMMA Recusa ==
    ASSUME InvLista, leitura.fase = "lendo", leitura' = [leitura EXCEPT !.fase = "recusada"],
           UNCHANGED <<acervo, relogio>>
    PROVE  InvLista'
  <1>1. /\ TiposLista /\ leitura.entregues \in Seq(Nat) /\ leitura.pagina \in Seq(Nat)
        /\ Desce(leitura.entregues \o leitura.pagina)
    BY DEF InvLista, TiposLista, LeituraEmCurso
  <1>2. /\ DOMAIN leitura' = DOMAIN leitura /\ leitura'.fase = "recusada"
        /\ leitura'.ordem = leitura.ordem /\ leitura'.firmes = leitura.firmes
        /\ leitura'.cursor = leitura.cursor /\ leitura'.pagina = leitura.pagina
        /\ leitura'.entregues = leitura.entregues
    BY <1>1 DEF TiposLista
  <1>3. Desce(leitura.entregues)
    BY <1>1, ParteDesce
  <1>4. TiposLista'
    BY <1>1, <1>2 DEF TiposLista, Existentes
  <1>5. LeituraEmCurso' /\ LeituraCompleta'
    BY <1>2 DEF LeituraEmCurso, LeituraCompleta
  <1>6. Desce(leitura.entregues)'
    <2>1. \A m, n : Antes(leitura.ordem, m, n)' <=> Antes(leitura.ordem, m, n)
      BY <1>2 DEF Antes, Chave
    <2> QED
      BY <1>2, <1>3, <2>1 DEF Desce
  <1> QED
    BY <1>4, <1>5, <1>6 DEF InvLista, LeituraAcabada

LEMMA LerMantem ==
    ASSUME InvLista, NEW q \in TamanhosDoLote, LerLoteDaLista(q)
    PROVE  InvLista'
  <1>1. PICK vindas : vindas = Consulta(leitura.ordem, leitura.cursor, q, Exportando)
    OBVIOUS
  <1>2. PICK novas : novas = EmOrdem(leitura.ordem, {n \in vindas : Serve(n)})
    OBVIOUS
  <1>3. PICK pagina : pagina = leitura.pagina \o novas
    OBVIOUS
  <1>4. leitura.fase = "lendo" /\ UNCHANGED <<acervo, relogio>>
    BY DEF LerLoteDaLista
  <1>5. leitura' = IF Completa(pagina, Cardinality(vindas) < q) THEN Depois(leitura, pagina)
                   ELSE [leitura EXCEPT !.pagina = pagina,
                                        !.cursor = Chave(leitura.ordem, Last(EmOrdem(leitura.ordem, vindas)))]
    BY <1>1, <1>2, <1>3, Zenon DEF LerLoteDaLista
  <1>6. CASE ~Completa(pagina, Cardinality(vindas) < q)
    BY <1>1, <1>2, <1>3, <1>4, <1>5, <1>6, LotePelaMetade
  <1>7. CASE Completa(pagina, Cardinality(vindas) < q)
    <2>1. /\ leitura.entregues \in Seq(Nat) /\ leitura.pagina \in Seq(Nat) /\ novas \in Seq(Nat)
          /\ pagina \in Seq(Nat) /\ Len(pagina) \in Nat
      <3>1. q \in Nat /\ TiposLista
        BY TamanhoPositivo DEF InvLista
      <3>2. vindas \subseteq Existentes
        BY <1>1, <1>4, <3>1, LoteLido
      <3>3. leitura.entregues \in Seq(Nat) /\ leitura.pagina \in Seq(Nat) /\ novas \in Seq(Nat)
        BY <1>2, <3>1, <3>2, NovasDescem DEF TiposLista
      <3> QED
        BY <1>3, <3>3
    <2>2. Len(pagina) >= Desejadas \/ Cardinality(vindas) < q
      BY <1>7 DEF Completa
    <2>3. PICK cheia : cheia = SubSeq(pagina, 1, IF Len(pagina) < Desejadas THEN Len(pagina) ELSE Desejadas)
      OBVIOUS
    <2>4. /\ Desejadas \in Nat \ {0}
          /\ Exportando => Desejadas = MaxExportacao + 1
          /\ ~Exportando => Desejadas = Limite
      BY ConstantesLista DEF Desejadas
    <2>5. CASE Exportando /\ Len(pagina) > MaxExportacao
      <3>1. leitura' = [leitura EXCEPT !.fase = "recusada"]
        BY <1>5, <1>7, <2>5, Zenon DEF Depois
      <3> QED
        BY <1>4, <2>1, <3>1, Recusa
    <2>6. CASE /\ ~(Exportando /\ Len(pagina) > MaxExportacao)
               /\ Exportando \/ Len(cheia) < Limite
      <3>1. leitura' = [leitura EXCEPT !.fase = "fim", !.pagina = <<>>, !.entregues = leitura.entregues \o cheia]
        BY <1>5, <1>7, <2>3, <2>6, Zenon DEF Depois
      <3>2. Len(pagina) < Desejadas
        <4>1. CASE Exportando
          BY <2>1, <2>4, <2>6, <4>1, ConstantesLista
        <4>2. CASE ~Exportando /\ ~(Len(pagina) < Desejadas)
          <5>1. Len(cheia) = Desejadas
            <6>1. cheia = SubSeq(pagina, 1, Desejadas) /\ Desejadas <= Len(pagina)
              BY <2>1, <2>3, <2>4, <4>2
            <6> QED
              BY <2>1, <2>4, <6>1
          <5> QED
            BY <2>4, <2>6, <4>2, <5>1, ConstantesLista
        <4> QED
          BY <4>1, <4>2
      <3>3. cheia = pagina
        BY <2>1, <2>3, <3>2, SubSeqFull
      <3>4. Cardinality(vindas) < q
        BY <2>1, <2>2, <2>4, <3>2
      <3> QED
        BY <1>1, <1>2, <1>3, <1>4, <3>1, <3>3, <3>4, FimDaLeitura
    <2>7. CASE /\ ~(Exportando /\ Len(pagina) > MaxExportacao)
               /\ ~(Exportando \/ Len(cheia) < Limite)
      <3>1. leitura' = [leitura EXCEPT !.pagina = <<>>, !.entregues = leitura.entregues \o cheia,
                                       !.cursor = Chave(leitura.ordem, Last(cheia))]
        BY <1>5, <1>7, <2>3, <2>7, Zenon DEF Depois
      <3>2. Len(pagina) >= Desejadas
        <4>1. ASSUME Len(pagina) < Desejadas PROVE FALSE
          <5>1. cheia = pagina
            BY <2>1, <2>3, <4>1, SubSeqFull
          <5> QED
            BY <2>1, <2>4, <2>7, <4>1, <5>1
        <4> QED
          BY <2>1, <2>4, <4>1
      <3>3. cheia = SubSeq(pagina, 1, Desejadas)
        BY <2>1, <2>3, <2>4, <3>2
      <3> QED
        BY <1>1, <1>2, <1>3, <1>4, <2>7, <3>1, <3>2, <3>3, PaginaEntregue
    <2> QED
      BY <2>5, <2>6, <2>7
  <1> QED
    BY <1>6, <1>7

-----------------------------------------------------------------------------
THEOREM InvarianciaLista == SpecLista => []InvLista
  <1>1. ASSUME InvLista, NextLista PROVE InvLista'
    <2>1. ASSUME NEW m \in {"lista", "exportacao"}, NEW o \in Ordens, NEW d \in {"todas", "recebida"},
                 Abrir(m, o, d)
          PROVE  InvLista'
      BY <1>1, <2>1, AbrirMantem
    <2>2. ASSUME NEW q \in TamanhosDoLote, LerLoteDaLista(q) PROVE InvLista'
      BY <1>1, <2>2, LerMantem
    <2> QED
      BY <1>1, <2>1, <2>2, EscreverMantem DEF NextLista
  <1>2. ASSUME InvLista, UNCHANGED varsLista PROVE InvLista'
    <2>1. UNCHANGED <<acervo, relogio, mudancas, leitura>>
      BY <1>2 DEF varsLista
    <2>2. TiposLista'
      BY <1>2, <2>1 DEF InvLista, TiposLista, Existentes
    <2>3. LeituraEmCurso'
      <3>1. \A m, n : Antes(leitura.ordem, m, n)' <=> Antes(leitura.ordem, m, n)
        BY <2>1 DEF Antes, Chave
      <3>2. \A n : Adiante(n)' <=> Adiante(n)
        BY <2>1 DEF Adiante, Chave
      <3>3. \A n : Visivel(n, Exportando)' /\ Serve(n)' <=> Visivel(n, Exportando) /\ Serve(n)
        BY <2>1 DEF Visivel, Serve, Exportando
      <3>4. Desce(leitura.entregues \o leitura.pagina)' <=> Desce(leitura.entregues \o leitura.pagina)
        BY <2>1, <3>1 DEF Desce
      <3>5. Desejadas' = Desejadas
        BY <2>1 DEF Desejadas, Exportando
      <3> QED
        BY <1>2, <2>1, <3>2, <3>3, <3>4, <3>5 DEF InvLista, LeituraEmCurso, Membros
    <2>4. LeituraAcabada'
      BY <1>2, <2>1 DEF InvLista, LeituraAcabada, LeituraCompleta, Desce, Antes, Chave
    <2> QED
      BY <2>2, <2>3, <2>4 DEF InvLista
  <1>3. InvLista /\ [NextLista]_varsLista => InvLista'
    BY <1>1, <1>2
  <1> QED
    BY <1>3, ListaInicial, PTL DEF SpecLista

\* A list read to its end, or an export not refused, has every nota that was there all along
\* and did not change, whatever the worker does between its queries.
THEOREM LeituraNaoPerde == SpecLista => []LeituraCompleta
  <1>1. InvLista => LeituraCompleta
    BY DEF InvLista, LeituraAcabada
  <1> QED
    BY <1>1, InvarianciaLista, PTL

\* And in no order does it repeat one, or deliver one out of place.
THEOREM LeituraNaoRepete == SpecLista => []LeituraEmOrdem
  <1>1. ASSUME InvLista PROVE LeituraEmOrdem
    <2>1. Desce(leitura.entregues)
      <3>1. CASE leitura.fase = "lendo"
        <4>1. leitura.entregues \in Seq(Nat) /\ leitura.pagina \in Seq(Nat)
              /\ Desce(leitura.entregues \o leitura.pagina)
          BY <1>1, <3>1 DEF InvLista, TiposLista, LeituraEmCurso
        <4> QED
          BY <4>1, ParteDesce
      <3>2. CASE leitura.fase # "lendo"
        BY <1>1, <3>2 DEF InvLista, LeituraAcabada
      <3> QED
        BY <3>1, <3>2
    <2> QED
      BY <2>1 DEF Desce, LeituraEmOrdem, Antes
  <1> QED
    BY <1>1, InvarianciaLista, PTL
=============================================================================
