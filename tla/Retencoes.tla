------------------------------ MODULE Retencoes ------------------------------
(*****************************************************************************)
(* The fiscal analysis of one nota: the retentions its rule demands, the net  *)
(* value that follows, and the three programs that store them: the ingestion  *)
(* of the XML, the recalculation at every start of the portal, and the script *)
(* recalcular_alertas_fiscais. A reviewer's decision goes before all of them.  *)
(*                                                                            *)
(* Money is in centavos and a rate in ten-thousandths; an optional amount is a *)
(* set of at most one. Descontos and other retentions are one field.           *)
(*****************************************************************************)
EXTENDS Integers, FiniteSets

CONSTANTS Xmls,          \* documents: what the issuer declared and the rule of its subitem
          ValoresHumanos \* net values a reviewer may type

VARIABLES doc,           \* the stored XML
          nota,          \* its row, or SemNota
          lote,          \* the copy the recalculation of the start works on, or SemNota
          recalculo,        \* the copy recalcular_alertas_fiscais works on, or SemNota
          decidido       \* history: the value the last review typed, until a program recalculates it

\* The layout of the NFS-e has no sign: what a document declares, when it does, is an amount.
Opcional(v) == v = {} \/ \E a \in v : v = {a} /\ a \in Nat

ASSUME ConstantesRetencoes ==
    /\ ValoresHumanos \subseteq Int
    /\ \A x \in Xmls :
        /\ x.servico \in Nat /\ x.descontos \in Nat /\ x.regra.aliquota \in Nat
        /\ x.retido \in BOOLEAN /\ x.simples \in BOOLEAN /\ x.regra.inssSimples \in BOOLEAN
        /\ \A v \in {x.base, x.baseInss, x.irrf, x.inss, x.pis, x.cofins, x.csll, x.csrf, x.iss, x.issRetido,
                      x.aliquota, x.liquido} : Opcional(v)

varsRetencoes == <<doc, nota, lote, recalculo, decidido>>

SemNota == [fase |-> "fora"]
Maximo(a, b) == IF a >= b THEN a ELSE b
Modulo(a) == IF a >= 0 THEN a ELSE -a
OuZero(v) == IF v = {} THEN 0 ELSE CHOOSE a \in v : TRUE
OuSenao(v, w) == IF v # {} THEN v ELSE w
Divergentes == {"indevido", "naoRetido", "divergente"}

-----------------------------------------------------------------------------
\* The analysis.

\* Half up, as Decimal.quantize(ROUND_HALF_UP) of a product.
TruncadoDefeituoso(base, taxa) == (base * taxa) \div 10000
Arredondado(base, taxa) == (base * taxa + 5000) \div 10000

Comparar(informado, calculado) ==
    IF calculado = {} THEN "analise"
    ELSE LET i == OuZero(informado)  c == OuZero(calculado) IN
         CASE c = 0 /\ i = 0 -> "naoSeAplica"
           [] c = 0 /\ i > 0 -> "indevido"
           [] c > 0 /\ i = 0 -> "naoRetido"
           [] OTHER -> IF Modulo(i - c) <= 1 THEN "correto" ELSE "divergente"

\* What a flag of the rule demands of a tribute.
Esperado(flag, alcanca, valor) ==
    CASE flag = "DEPENDE" -> {}
      [] flag = "SIM" /\ alcanca -> {valor}
      [] OTHER -> {0}

SemRegra == [irrf |-> "NAO", pcc |-> "NAO", inss |-> "NAO", aliquota |-> 0, inssSimples |-> FALSE]

CsrfInformado(x) ==
    IF x.csrf # {} \/ x.pis \cup x.cofins \cup x.csll = {} THEN x.csrf
    ELSE {OuZero(x.pis) + OuZero(x.cofins) + OuZero(x.csll)}

\* The ISS withheld: its own field or, when the ISS is withheld and it is missing, the ISS due.
IssRetido(x) == OuSenao(x.issRetido, IF x.retido THEN x.iss ELSE {})

ComIssRetido(x) == x.retido \/ OuZero(IssRetido(x)) > 0

\* What the tributes are calculated from.
BaseCalculo(x) == IF OuZero(x.base) # 0 THEN OuZero(x.base) ELSE x.servico

\* INSS has a base of its own when the description of the service declares one.
BaseInss(x) == IF OuZero(x.baseInss) # 0 THEN OuZero(x.baseInss) ELSE BaseCalculo(x)

\* regra: the rule found in the sheet, or {} when the sheet could not be read.
Analise(x, regra) ==
    LET r == IF regra = {} THEN SemRegra ELSE CHOOSE s \in regra : TRUE
        base == BaseCalculo(x)
        paga == ~x.simples
        irrf == Esperado(r.irrf, paga, Arredondado(base, r.aliquota))
        pis == Esperado(r.pcc, paga, Arredondado(base, 65))
        cofins == Esperado(r.pcc, paga, Arredondado(base, 300))
        csll == Esperado(r.pcc, paga, Arredondado(base, 100))
        csrf == IF pis = {} THEN {} ELSE {OuZero(pis) + OuZero(cofins) + OuZero(csll)}
        inss == Esperado(r.inss, paga \/ r.inssSimples, Arredondado(BaseInss(x), 1100))
        retido == ComIssRetido(x)
        iss == IF retido THEN {Arredondado(base, a) : a \in x.aliquota} ELSE {}
        abater(inf, calc) == Maximo(OuZero(inf), OuZero(calc))
        issInformado == IF OuZero(IssRetido(x)) > 0 THEN IssRetido(x) ELSE x.iss
        liquido == (IF x.servico # 0 THEN x.servico ELSE base)
                   - abater(x.irrf, irrf) - abater(x.inss, inss)
                   - abater(x.pis, pis) - abater(x.cofins, cofins) - abater(x.csll, csll)
                   - (IF retido THEN abater(issInformado, iss) ELSE 0) - x.descontos
        status == IF x.liquido = {} THEN "naoInformado" ELSE Comparar(x.liquido, {liquido})
        porTributo == [irrf |-> Comparar(x.irrf, irrf), csrf |-> Comparar(CsrfInformado(x), csrf),
                       inss |-> Comparar(x.inss, inss),
                       iss |-> IF retido THEN Comparar(x.iss, iss) ELSE "naoRetido"]
    IN [irrf |-> irrf, pis |-> pis, cofins |-> cofins, csll |-> csll, csrf |-> csrf,
        inss |-> inss, iss |-> iss, liquido |-> liquido, status |-> status,
        alertas |-> {t \in DOMAIN porTributo :
                        porTributo[t] \in Divergentes \cup {"analise"} /\ (t = "iss" => retido)}
                    \cup (IF regra = {} THEN {"semRegra"} ELSE {}),
        alertaLiquido |-> IF status \in Divergentes THEN {liquido} ELSE {}]

CsrfDasSalvasDefeituoso(x, a) == Maximo(OuZero(CsrfInformado(x)), OuZero(a.csrf))

\* The net value from the columns of the row: PIS, COFINS and CSLL one by one.
CsrfDasSalvas(x, a) ==
    IF x.pis \cup x.cofins \cup x.csll \cup a.pis \cup a.cofins \cup a.csll # {}
    THEN Maximo(OuZero(x.pis), OuZero(a.pis)) + Maximo(OuZero(x.cofins), OuZero(a.cofins))
         + Maximo(OuZero(x.csll), OuZero(a.csll))
    ELSE Maximo(OuZero(CsrfInformado(x)), OuZero(a.csrf))

LiquidoDasSalvas(x, a) ==
    x.servico - Maximo(OuZero(x.irrf), OuZero(a.irrf)) - Maximo(OuZero(x.inss), OuZero(a.inss))
    - CsrfDasSalvas(x, a)
    - (IF ComIssRetido(x)
       THEN Maximo(OuZero(OuSenao(IssRetido(x), x.iss)), OuZero(a.iss)) ELSE 0)
    - x.descontos

-----------------------------------------------------------------------------
\* The programs that store it.

InitRetencoes == doc \in Xmls /\ nota = SemNota /\ lote = SemNota /\ recalculo = SemNota /\ decidido = {}

\* The sheet of rules may be unreadable in this process: a failed load is not cached.
Regras == {{}, {doc.regra}}

\* A net value of zero is falsy: what the document declares stands for it.
Correto(a) == IF a.liquido # 0 THEN {a.liquido} ELSE OuSenao(doc.liquido, {0})

Analisada(a, conf) ==
    [fase |-> "salva", analise |-> a, correto |-> Correto(a), calculado |-> a.liquido,
     status |-> a.status, conf |-> conf]

\* Ingestion or a new reading of the XML: what a reviewer decided is not touched.
Ingerir(regra) ==
    LET a == Analise(doc, regra) IN
    /\ IF nota # SemNota /\ nota.conf = "conferida"
       THEN nota' = [nota EXCEPT !.analise = a, !.calculado = a.liquido] /\ UNCHANGED decidido
       ELSE nota' = Analisada(a, "pendente") /\ decidido' = {}
    /\ UNCHANGED <<doc, lote, recalculo>>

\* Only the columns that changed in the copy are written.
Escrito(atual, lido, novo) == IF novo # lido THEN novo ELSE atual

\* The script over the stored XML, with no look at the conferencia: reads a
\* batch, commits it after the last row. A review or another program that
\* wrote the row meanwhile may stay in part.
LerAlertas ==
    /\ nota # SemNota /\ recalculo = SemNota
    /\ recalculo' = nota
    /\ UNCHANGED <<doc, nota, lote, decidido>>

RecalcularAlertas(regra) ==
    LET a == Analise(doc, regra) IN
    /\ recalculo # SemNota
    /\ nota' = [nota EXCEPT !.analise = Escrito(@, recalculo.analise, a),
                            !.correto = Escrito(@, recalculo.correto, Correto(a)),
                            !.calculado = Escrito(@, recalculo.calculado, a.liquido),
                            !.status = Escrito(@, recalculo.status, a.status)]
    /\ recalculo' = SemNota
    /\ decidido' = IF nota.conf = "conferida" \/ nota # recalculo THEN decidido ELSE {}
    /\ UNCHANGED <<doc, lote>>

\* The thread of the start: reads a batch, commits it after the last row.
LerLote ==
    /\ nota # SemNota /\ lote = SemNota /\ nota.conf # "conferida"
    /\ lote' = nota
    /\ UNCHANGED <<doc, nota, recalculo, decidido>>

GravarLote ==
    LET calculado == LiquidoDasSalvas(doc, lote.analise)
        status == IF doc.liquido # {} /\ Modulo(OuZero(doc.liquido) - calculado) <= 1
                  THEN "correto" ELSE "divergente" IN
    /\ lote # SemNota
    /\ nota' = [nota EXCEPT !.correto = Escrito(@, lote.correto, {calculado}),
                            !.calculado = Escrito(@, lote.calculado, calculado),
                            !.status = Escrito(@, lote.status, status)]
    /\ lote' = SemNota
    /\ UNCHANGED <<doc, recalculo, decidido>>

\* The portal restarts, or the connection of the script is lost, in the middle
\* of the batch.
PerderLote ==
    /\ \/ lote # SemNota /\ lote' = SemNota /\ UNCHANGED recalculo
       \/ recalculo # SemNota /\ recalculo' = SemNota /\ UNCHANGED lote
    /\ UNCHANGED <<doc, nota, decidido>>

Conferir(valor) ==
    /\ nota # SemNota
    /\ nota' = [nota EXCEPT !.conf = "conferida", !.correto = {valor},
                            !.status = IF doc.liquido = {valor} THEN "correto" ELSE "divergente"]
    /\ decidido' = {valor}
    /\ UNCHANGED <<doc, lote, recalculo>>

Reabrir ==
    /\ nota # SemNota /\ nota.conf = "conferida"
    /\ nota' = [nota EXCEPT !.conf = "pendente"]
    /\ UNCHANGED <<doc, lote, recalculo, decidido>>

NextRetencoes ==
    \/ \E regra \in Regras : Ingerir(regra) \/ RecalcularAlertas(regra)
    \/ LerAlertas \/ LerLote \/ GravarLote \/ PerderLote \/ Reabrir
    \/ \E v \in ValoresHumanos : Conferir(v)

SpecRetencoes == InitRetencoes /\ [][NextRetencoes]_varsRetencoes

-----------------------------------------------------------------------------
\* Where the two formulas are told apart by data the recalculation does not see: a CSRF given
\* as one value under a rule that depends on analysis, and an ISS withheld of zero beside an ISS
\* due of more than its rate gives.
Espelhavel(x) == /\ x.regra.pcc = "DEPENDE" => CsrfInformado(x) = {} \/ x.pis \cup x.cofins \cup x.csll # {}
                 /\ x.issRetido = {0} /\ x.retido =>
                        OuZero(x.iss) <= OuZero({Arredondado(BaseCalculo(x), a) : a \in x.aliquota})
                 /\ x.servico # 0

\* The alert about the net value quotes the net value the row shows: the recalculation of the
\* start, the ingestion and the script never leave the two with different numbers.
ResumoNaoSeContradiz ==
    nota # SemNota /\ Espelhavel(doc) /\ nota.analise.alertaLiquido # {} /\ lote = SemNota
        => nota.analise.alertaLiquido = {nota.calculado}

\* The issuer withheld what is due of each tribute, the nearest centavo with halves up and
\* nothing of what is not due, and declared the net value left: said without the analysis.
Devido(v, deve, base, taxa) ==
    IF deve THEN LET resto == 10000 * v - base * taxa IN -5000 < resto /\ resto <= 5000 ELSE v = 0

Certa(x) ==
    LET base == OuZero(OuSenao(x.base, {x.servico}))
        doInss == OuZero(OuSenao(x.baseInss, {base}))
        r == x.regra  pcc == r.pcc = "SIM" /\ ~x.simples IN
    /\ "DEPENDE" \notin {r.irrf, r.pcc, r.inss} /\ x.csrf = {} /\ ~ComIssRetido(x)
    /\ base # 0 /\ doInss # 0 /\ x.servico # 0
    /\ Devido(OuZero(x.irrf), r.irrf = "SIM" /\ ~x.simples, base, r.aliquota)
    /\ Devido(OuZero(x.inss), r.inss = "SIM" /\ (~x.simples \/ r.inssSimples), doInss, 1100)
    /\ Devido(OuZero(x.pis), pcc, base, 65) /\ Devido(OuZero(x.cofins), pcc, base, 300)
    /\ Devido(OuZero(x.csll), pcc, base, 100)
    /\ x.liquido = {x.servico - OuZero(x.irrf) - OuZero(x.inss) - OuZero(x.pis) - OuZero(x.cofins)
                    - OuZero(x.csll) - x.descontos}

\* A document that obeys its rule to the cent is never shown as divergent while the last
\* analysis of it read the rules and no review spoke, whatever restarts and recalculations follow.
NotaCertaNaoDiverge ==
    nota # SemNota /\ Certa(doc) /\ "semRegra" \notin nota.analise.alertas /\ decidido = {}
        => nota.analise.alertas = {} /\ nota.status \notin Divergentes
=============================================================================
