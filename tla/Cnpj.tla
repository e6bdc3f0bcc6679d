-------------------------------- MODULE Cnpj --------------------------------
(*****************************************************************************)
(* What the portal keeps of a CNPJ: the cache of the local base of the        *)
(* Receita (cnpj_cache), renewed by the enrichment that follows a consulta,    *)
(* by GET /cnpj and by two scripts that read the base first and write the      *)
(* cache later. The base is replaced by imports and may be missing; a CNPJ the *)
(* base does not have counts as one that did not opt for the Simples.          *)
(*                                                                            *)
(* A row carries the days it is still good for; rows of the old source         *)
(* (Invertexto) are only read. What the base says of a CNPJ is one of Ditos.   *)
(*****************************************************************************)
EXTENDS Integers, FiniteSets

CONSTANTS Cnpjs, Validade  \* days a row is good for
ASSUME ConstantesCnpj == Validade \in Nat

VARIABLES base,     \* [disponivel, diz]: the file, and what it says of each CNPJ
          receita,  \* rows of the cache by CNPJ, SemLinha when none or expired
          antiga,   \* rows of the old source
          script,   \* rows a script has computed and not written
          dito      \* history: days since the base last said each thing of each CNPJ

varsCnpj == <<base, receita, antiga, script, dito>>

Ditos == {"fora", "optante", "naoOptante", "vago"}
SemLinha == [valor |-> "nenhum"]
Dias == 0..Validade
Simples(d) == IF d = "fora" THEN "naoOptante" ELSE IF d = "vago" THEN "indisponivel" ELSE d
Linha(d) == [valor |-> Simples(d), disse |-> d, resta |-> Validade]

InitCnpj ==
    /\ base \in [disponivel : BOOLEAN, diz : [Cnpjs -> {"optante", "fora"}]]
    /\ receita = [c \in Cnpjs |-> SemLinha] /\ script = receita
    /\ antiga \in [Cnpjs -> {SemLinha, [valor |-> "optante", disse |-> "optante", resta |-> 1]}]
    /\ dito = [c \in Cnpjs |-> [d \in Ditos |-> IF base.disponivel /\ d = base.diz[c] THEN 0 ELSE Validade + 1]]

\* The row that counts: the Receita before the old source.
Vigente(c) == IF receita[c] # SemLinha THEN receita[c] ELSE antiga[c]

Ausentes(cs) == {c \in cs : base.disponivel /\ base.diz[c] = "fora"}
Encontrados(cs) == {c \in cs : base.disponivel /\ base.diz[c] # "fora"}

Gravar(achados, ausentes) ==
    receita' = [c \in Cnpjs |-> IF c \in achados THEN Linha(base.diz[c])
                                ELSE IF c \in ausentes THEN Linha("fora") ELSE receita[c]]

\* After a consulta: the CNPJs of its new notas with no row that counts.
Enriquecer(cs) ==
    LET pendentes == {c \in cs : Vigente(c) = SemLinha} IN
    /\ pendentes # {}
    /\ Gravar(Encontrados(pendentes), Ausentes(pendentes))
    /\ UNCHANGED <<base, antiga, script, dito>>

\* GET /cnpj: only the source of the Receita, and only what it has is kept.
Consultar(c) ==
    /\ receita[c] = SemLinha
    /\ Gravar(Encontrados({c}), {})
    /\ UNCHANGED <<base, antiga, script, dito>>

\* sincronizar_cnpjs_portal takes every CNPJ the base has; corrigir_simples_pendentes the ones
\* with no classified row, absent ones too, and leaves out what the base cannot classify.
LerParaSincronizar ==
    [c \in Cnpjs |-> IF c \in Encontrados(Cnpjs) THEN Linha(base.diz[c]) ELSE SemLinha]
LerParaCorrigir ==
    LET pendentes == {c \in Cnpjs : receita[c].valor \in {"nenhum", "indisponivel"}} IN
    [c \in Cnpjs |-> IF c \in pendentes /\ base.diz[c] # "vago" THEN Linha(base.diz[c]) ELSE SemLinha]

IniciarScript ==
    /\ base.disponivel /\ \A c \in Cnpjs : script[c] = SemLinha
    /\ script' \in {LerParaSincronizar, LerParaCorrigir}
    /\ UNCHANGED <<base, receita, antiga, dito>>

\* INSERT ... ON CONFLICT DO UPDATE: over whatever is there by now.
GravarScript ==
    /\ \E c \in Cnpjs : script[c] # SemLinha
    /\ receita' = [c \in Cnpjs |-> IF script[c] # SemLinha THEN script[c] ELSE receita[c]]
    /\ script' = [c \in Cnpjs |-> SemLinha]
    /\ UNCHANGED <<base, antiga, dito>>

DesistirScript ==
    /\ \E c \in Cnpjs : script[c] # SemLinha
    /\ script' = [c \in Cnpjs |-> SemLinha] /\ UNCHANGED <<base, receita, antiga, dito>>

\* The file is imported again, put away or brought back.
TrocarBase ==
    /\ base' \in [disponivel : BOOLEAN, diz : [Cnpjs -> Ditos]]
    /\ dito' = [c \in Cnpjs |-> [d \in Ditos |->
                   IF base'.disponivel /\ base'.diz[c] = d THEN 0 ELSE dito[c][d]]]
    /\ UNCHANGED <<receita, antiga, script>>

EnvelhecidaDefeituosa(l) == l
Envelhecida(l) == IF l = SemLinha \/ l.resta = 0 THEN SemLinha ELSE [l EXCEPT !.resta = @ - 1]

\* Midnight: a row stops counting the day after its data_expiracao; the rows of a script keep
\* the date of the day they were read.
PassarDia ==
    /\ receita' = [c \in Cnpjs |-> Envelhecida(receita[c])]
    /\ antiga' = [c \in Cnpjs |-> Envelhecida(antiga[c])]
    /\ script' = [c \in Cnpjs |-> Envelhecida(script[c])]
    /\ dito' = [c \in Cnpjs |-> [d \in Ditos |->
                   IF base.disponivel /\ base.diz[c] = d THEN 0
                   ELSE IF dito[c][d] > Validade THEN dito[c][d] ELSE dito[c][d] + 1]]
    /\ UNCHANGED base

NextCnpj ==
    \/ \E cs \in SUBSET Cnpjs : Enriquecer(cs)
    \/ \E c \in Cnpjs : Consultar(c)
    \/ IniciarScript \/ GravarScript \/ DesistirScript \/ TrocarBase \/ PassarDia

SpecCnpj == InitCnpj /\ [][NextCnpj]_varsCnpj

-----------------------------------------------------------------------------
\* What the listing shows of the Simples as the word of the Receita was its word within the
\* validity of the row: neither a missing base nor a script that writes late over newer rows
\* makes an answer older than the row says, or one the base never gave.
ReceitaDisseHaPouco ==
    \A c \in Cnpjs : receita[c] # SemLinha =>
        dito[c][receita[c].disse] <= Validade - receita[c].resta
=============================================================================
