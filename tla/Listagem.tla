------------------------------ MODULE Listagem ------------------------------
(***************************************************************************)
(* Reading the notas: the portal's list by cursor and the export to ZIP or *)
(* spreadsheet, while the worker inserts and changes rows.                 *)
(*                                                                         *)
(* Every order is descending and ends in the id; a null date counts as 0.  *)
(* A cursor is the order key of the last nota delivered: the next lot      *)
(* starts right after it.  What is known only in Python (the direction of  *)
(* the nota) is filtered after the lot is read, so one page may take       *)
(* several lots, and each lot is a query of its own.                       *)
(***************************************************************************)
EXTENDS Naturals, Sequences, SequencesExt, FiniteSets

CONSTANTS
    MaxNotas,       \* ids 1..MaxNotas, given in order of insertion
    Recebidas,      \* ids whose tomador is the empresa; of the others it is the prestador
    MaxRelogio,     \* values of importado_em and updated_at
    MaxMudancas,    \* changes of a row already there
    Limite,         \* size of a page, and of its lots when SQL filters the side
    Lote,           \* LOTE_NOTAS
    MaxExportacao   \* download_lote_max_notas, relatorio_max_notas

ASSUME ConstantesLista ==
    /\ MaxNotas \in Nat /\ MaxExportacao \in Nat
    /\ Limite \in Nat \ {0} /\ Lote \in Nat \ {0}

VARIABLES acervo, relogio, mudancas, leitura
varsLista == <<acervo, relogio, mudancas, leitura>>

Ids == 1..MaxNotas
Direcao(n) == IF n \in Recebidas THEN "recebida" ELSE "emitida"
Ordens == {"id", "emissao", "recentes"}
Existentes == DOMAIN acervo

\* The order key of a nota.
Chave(ordem, n) ==
    CASE ordem = "emissao" -> <<acervo[n].emissao, acervo[n].importado, acervo[n].atualizado, n>>
      [] ordem = "recentes" -> <<acervo[n].importado, acervo[n].atualizado, n>>
      [] OTHER -> <<n>>

\* Row comparison of SQL.
Menor(a, b) == \E i \in DOMAIN a : a[i] < b[i] /\ \A j \in 1..(i - 1) : a[j] = b[j]

\* list_notas: the active rows of the filters, after the cursor, in order.
Visivel(n, exportaveis) == ~acervo[n].arquivada /\ (exportaveis => ~acervo[n].cancelada)

Antes(ordem, m, n) == Menor(Chave(ordem, n), Chave(ordem, m))

Achadas(ordem, cursor, exportaveis) ==
    {n \in Existentes : Visivel(n, exportaveis) /\ (cursor = <<>> \/ Menor(Chave(ordem, n), cursor))}

\* ORDER BY ... LIMIT quantas: those that have fewer than quantas before them.
ConsultaDefeituosa(ordem, cursor, quantas, exportaveis) ==
    LET achadas == {n \in Existentes :
            Visivel(n, exportaveis) /\ (cursor = <<>> \/ ~Menor(cursor, Chave(ordem, n)))}
    IN {n \in achadas : Cardinality({m \in achadas : Antes(ordem, m, n)}) < quantas}
Consulta(ordem, cursor, quantas, exportaveis) ==
    LET achadas == Achadas(ordem, cursor, exportaveis)
    IN {n \in achadas : Cardinality({m \in achadas : Antes(ordem, m, n)}) < quantas}

EmOrdem(ordem, ns) ==
    CHOOSE s \in [1..Cardinality(ns) -> ns] :
        \A i, j \in 1..Cardinality(ns) : i < j => Antes(ordem, s[i], s[j])

Parada == [fase |-> "parada", modo |-> "nenhum", ordem |-> "id", direcao |-> "todas",
           cursor |-> <<>>, pagina |-> <<>>, entregues |-> <<>>, firmes |-> {}]

InitLista ==
    /\ acervo = <<>>
    /\ relogio = 1 /\ mudancas = 0
    /\ leitura = Parada

-----------------------------------------------------------------------------
(* The worker and the portal's writes.                                     *)

\* create_nota: importado_em and updated_at are the instant of the insertion.
Inserir(emissao) ==
    /\ Len(acervo) < MaxNotas
    /\ acervo' = Append(acervo, [emissao |-> emissao, importado |-> relogio, atualizado |-> relogio,
                                 cancelada |-> FALSE, arquivada |-> FALSE])
    /\ UNCHANGED <<relogio, mudancas, leitura>>

\* update_nota never moves importado_em; any change moves updated_at.
Mudar(n, nova) ==
    /\ mudancas < MaxMudancas
    /\ acervo' = [acervo EXCEPT ![n] = nova]
    /\ mudancas' = mudancas + 1
    /\ leitura' = [leitura EXCEPT !.firmes = @ \ {n}]
    /\ UNCHANGED relogio

Reingerir(n) ==
    acervo[n].atualizado # relogio /\ Mudar(n, [acervo[n] EXCEPT !.atualizado = relogio])
Cancelar(n) ==
    ~acervo[n].cancelada /\ Mudar(n, [acervo[n] EXCEPT !.cancelada = TRUE, !.atualizado = relogio])
Arquivar(n) == ~acervo[n].arquivada /\ Mudar(n, [acervo[n] EXCEPT !.arquivada = TRUE])

Passar == /\ relogio < MaxRelogio /\ relogio' = relogio + 1
          /\ UNCHANGED <<acervo, mudancas, leitura>>

-----------------------------------------------------------------------------
(* Readings.                                                               *)

Serve(n) == leitura.direcao \in {"todas", Direcao(n)}
Exportando == leitura.modo = "exportacao"
Desejadas == IF Exportando THEN MaxExportacao + 1 ELSE Limite

\* firmes (history): what the reading must deliver, the notas of its filters
\* that are there from its first query to its end with no change.
Abrir(modo, ordem, direcao) ==
    /\ leitura.fase = "parada" /\ Existentes # {}
    /\ modo = "exportacao" => ordem = "id"
    /\ leitura' = [Parada EXCEPT
           !.fase = "lendo", !.modo = modo, !.ordem = ordem, !.direcao = direcao,
           !.firmes = {n \in Existentes : /\ Visivel(n, modo = "exportacao")
                                          /\ direcao \in {"todas", Direcao(n)}}]
    /\ UNCHANGED <<acervo, relogio, mudancas>>

\* The rows a lot asks for: the plain list asks for its page; a list by
\* direction asks for Lote, or for a page when the SQL filters the side too.
TamanhosDoLote == IF ~Exportando /\ leitura.direcao = "todas" THEN {Limite} ELSE {Lote, Limite}

\* A page is handed over with a cursor when it is full, and ends the list
\* when it is not; an export over the limit is refused, never cut.
CompletaDefeituosa(pagina, acabou) == TRUE
Completa(pagina, acabou) == Len(pagina) >= Desejadas \/ acabou

Depois(l, pagina) ==
    LET cheia == SubSeq(pagina, 1, IF Len(pagina) < Desejadas THEN Len(pagina) ELSE Desejadas) IN
    IF Exportando /\ Len(pagina) > MaxExportacao THEN [l EXCEPT !.fase = "recusada"]
    ELSE IF Exportando \/ Len(cheia) < Limite
    THEN [l EXCEPT !.fase = "fim", !.pagina = <<>>, !.entregues = @ \o cheia]
    ELSE [l EXCEPT !.pagina = <<>>, !.entregues = @ \o cheia,
                   !.cursor = Chave(l.ordem, Last(cheia))]

\* One query.  A lot shorter than asked is the last.
LerLoteDaLista(quantas) ==
    LET lote == Consulta(leitura.ordem, leitura.cursor, quantas, Exportando)
        pagina == leitura.pagina \o EmOrdem(leitura.ordem, {n \in lote : Serve(n)})
    IN /\ leitura.fase = "lendo"
       /\ leitura' = IF Completa(pagina, Cardinality(lote) < quantas) THEN Depois(leitura, pagina)
                     ELSE [leitura EXCEPT !.pagina = pagina,
                                          !.cursor = Chave(leitura.ordem, Last(EmOrdem(leitura.ordem, lote)))]
       /\ UNCHANGED <<acervo, relogio, mudancas>>

\* Readings change nothing, so one per behaviour is enough, and nothing that
\* happens after its end matters to it (a bound).
Viva == leitura.fase \in {"parada", "lendo"}

Escrita ==
    \/ \E e \in {0, 1} : Inserir(e)
    \/ \E n \in Existentes : Reingerir(n) \/ Cancelar(n) \/ Arquivar(n)
    \/ Passar

NextLista ==
    \/ Viva /\ Escrita
    \/ \E m \in {"lista", "exportacao"}, o \in Ordens, d \in {"todas", "recebida"} : Abrir(m, o, d)
    \/ \E q \in TamanhosDoLote : LerLoteDaLista(q)

SpecLista == InitLista /\ [][NextLista]_varsLista

-----------------------------------------------------------------------------
(* Properties.                                                             *)

\* A list read to its end, or an export that was not refused, has every nota
\* that was in its filters all along, however rows were inserted, changed or
\* archived between the queries.
LeituraCompleta == leitura.fase = "fim" => leitura.firmes \subseteq ToSet(leitura.entregues)

\* No page repeats a nota that did not change, and they come in order.
LeituraEmOrdem ==
    \A i, j \in DOMAIN leitura.entregues :
        i < j /\ {leitura.entregues[i], leitura.entregues[j]} \subseteq leitura.firmes
            => Menor(Chave(leitura.ordem, leitura.entregues[j]),
                     Chave(leitura.ordem, leitura.entregues[i]))
=============================================================================
