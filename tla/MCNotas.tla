------------------------------- MODULE MCNotas -------------------------------
(***************************************************************************)
(* Instance of the seven modules about the notas: how they are kept and     *)
(* read (files, status, lists, folder of the engine) and what they are      *)
(* worth (review, fiscal analysis, cache of the Receita). They share no     *)
(* state, so a behaviour is one of them moving: parte says which, and the   *)
(* others stay as they began.                                               *)
(***************************************************************************)
EXTENDS Acervo, StatusFiscal, Listagem, SaidaDoMotor, Conferencia, Retencoes, Cnpj, TLC

VARIABLE parte

\* n2 replaces n1, which the event ec cancels.
MCAlvo == [e \in Eventos |-> "n1"]
MCEfeito == [e \in Eventos |-> "cancelada"]
MCSubstitui == ("n1" :> "nenhuma") @@ ("n2" :> "n1")
MCNomePdf == ("n1" :> "f1") @@ ("n2" :> "f2")

\* Two issuers share name and number; both notas have an event, one of them
\* without its XML, and a document is older than the cut-off date.
MCDocumento(c, e, f, x) == [chave |-> c, evento |-> e, nome |-> f, xml |-> x]
MCFluxo == << MCDocumento("c1", FALSE, "f1", "bom"), MCDocumento("c2", FALSE, "f1", "bom"),
              MCDocumento("c1", TRUE, "f2", "bom"), MCDocumento("c3", FALSE, "f3", "velho"),
              MCDocumento("c2", TRUE, "f2", "ausente") >>

MCPedido(c, f, v, o, d) == [conf |-> c, fila |-> f, valor |-> v, obs |-> o, divergencia |-> d]
MCPedidos == {MCPedido("ok", "nenhuma", "nenhum", "nada", "nada"),
              MCPedido("corrigir", "nenhuma", "difere", "mantem", "outro"),
              MCPedido("ok", "divergente", "confere", "mantem", "nada"),
              MCPedido("pendente", "nenhuma", "nenhum", "mantem", "nada"),
              MCPedido("observacao", "nenhuma", "nenhum", "dica", "nada")}
MCLeitura(v, q, t, a) == [valor |-> v, liquido |-> q, retencoes |-> t, alertas |-> a]
MCLeituras == {MCLeitura("xml", "confere", "confere", "nada"),
               MCLeitura("xmlNovo", "difere", "confere", "dica")}

\* Documents of 10,50: nothing declared, then ISS withheld in four ways,
\* retentions right, missing or undue, and a declared net value.
Liso == [servico |-> 1050, base |-> {}, baseInss |-> {}, irrf |-> {}, inss |-> {}, pis |-> {}, cofins |-> {}, csll |-> {},
         csrf |-> {}, iss |-> {}, issRetido |-> {}, retido |-> FALSE, aliquota |-> {}, descontos |-> 0,
         liquido |-> {}, simples |-> FALSE, regra |-> SemRegra]
RegraDe(p) == [irrf |-> "SIM", pcc |-> p, inss |-> "SIM", aliquota |-> 150, inssSimples |-> TRUE]
ComIss == {Liso, [Liso EXCEPT !.retido = TRUE, !.iss = {53}, !.aliquota = {500}],
           [Liso EXCEPT !.retido = TRUE, !.iss = {53}, !.issRetido = {0}],
           [Liso EXCEPT !.retido = TRUE, !.iss = {52}, !.issRetido = {0}, !.aliquota = {500}],
           [Liso EXCEPT !.issRetido = {40}, !.iss = {53}]}
Retem(x) == {x, [x EXCEPT !.csrf = {49}, !.irrf = {16}],
             [x EXCEPT !.pis = {9}, !.cofins = {41}, !.inss = {116}],
             [x EXCEPT !.inss = {116}], [x EXCEPT !.baseInss = {500}, !.inss = {55}],
             [x EXCEPT !.irrf = {16}, !.inss = {116}, !.pis = {7}, !.cofins = {32}, !.csll = {11}]}
Declara(x) == {x} \cup {[x EXCEPT !.liquido = {v}] : v \in {868, 934}}
MCXmls == UNION {Declara(x) : x \in UNION {Retem([x EXCEPT !.regra = RegraDe(p), !.simples = s]) :
                     x \in ComIss, p \in {"SIM", "NAO", "DEPENDE"}, s \in BOOLEAN}}

Partes == {"acervo", "status", "lista", "saida", "conferencia", "retencoes", "cnpj"}

\* The initial states of the parts that stay still are one each.
MCInit == /\ parte \in Partes
          /\ InitAcervo /\ InitStatus /\ InitLista /\ InitSaida
          /\ InitConferencia /\ (parte = "conferencia" \/ (linha.alertas = "dica" /\ linha.faltam))
          /\ InitRetencoes /\ (parte = "retencoes" \/ doc = [Liso EXCEPT !.regra = RegraDe("NAO")])
          /\ InitCnpj /\ (parte = "cnpj" \/ (base = [disponivel |-> FALSE, diz |-> [c \in Cnpjs |-> "fora"]]
                                               /\ antiga = receita))

\* The portal stores files of a certificate beside the two requests to archive,
\* or XMLs of events beside none: the archiving does not touch those.
SoCertificado == gravando'["api"] \notin XmlsDeEvento /\ objetos' \cap XmlsDeEvento = {} /\ eventosXml' = {}
SoEventos == /\ gravando'["api"] \notin ArquivosPfx /\ objetos' \cap ArquivosPfx = {}
             /\ \A e \in Execucoes : execucao'[e] = NaoPedida

PassoAcervo == /\ parte = "acervo" /\ NextAcervo
               /\ SoCertificado \/ SoEventos
               /\ UNCHANGED <<varsStatus, varsLista, varsSaida, varsConferencia, varsRetencoes, varsCnpj>>
PassoStatus == /\ parte = "status" /\ NextStatus
               /\ UNCHANGED <<varsAcervo, varsLista, varsSaida, varsConferencia, varsRetencoes, varsCnpj>>
PassoLista == /\ parte = "lista" /\ NextLista
              /\ UNCHANGED <<varsAcervo, varsStatus, varsSaida, varsConferencia, varsRetencoes, varsCnpj>>
PassoSaida == /\ parte = "saida" /\ NextSaida
              /\ UNCHANGED <<varsAcervo, varsStatus, varsLista, varsConferencia, varsRetencoes, varsCnpj>>
\* Two of the three sessions have the row in hand at a time.
PassoConferencia == /\ parte = "conferencia" /\ NextConferencia
                    /\ \E s \in DOMAIN pedido : pedido'[s] = Parado
                    /\ UNCHANGED <<varsAcervo, varsStatus, varsLista, varsSaida, varsRetencoes, varsCnpj>>
\* One of the two programs that copy rows works at a time.
PassoRetencoes == /\ parte = "retencoes" /\ NextRetencoes
                  /\ lote' = SemNota \/ recalculo' = SemNota
                  /\ UNCHANGED <<varsAcervo, varsStatus, varsLista, varsSaida, varsConferencia, varsCnpj>>
PassoCnpj == /\ parte = "cnpj" /\ NextCnpj
             /\ UNCHANGED <<varsAcervo, varsStatus, varsLista, varsSaida, varsConferencia, varsRetencoes>>

MCNext == /\ \/ PassoAcervo \/ PassoStatus \/ PassoLista \/ PassoSaida
             \/ PassoConferencia \/ PassoRetencoes \/ PassoCnpj
          /\ UNCHANGED parte
=============================================================================
