-------------------------- MODULE ColetaNsuProofs --------------------------
(***************************************************************************)
(* Proofs about ColetaNsu: that what is stored is well formed, that an     *)
(* event and its nota agree whatever the order they came in, and that the  *)
(* starting NSU of the next consulta leaves no document behind, for any    *)
(* number of documents, any mix of notas and events, and any sizes of      *)
(* batch, limit, look-back and error list.                                 *)
(***************************************************************************)
EXTENDS ColetaNsu, Ordem, SequenceTheorems

-----------------------------------------------------------------------------
(* The inductive invariant.                                                *)

\* A document saved is in the index of the disk, under a chave of its own.
DiscoIndexado ==
    /\ \A n \in disco : primeiro[alvo[n]] # 0
    /\ \A m \in Nsus : primeiro[m] # 0 => alvo[primeiro[m]] = m

\* What the engine of this run read is on disk, and it stops at the end of an answer.
MotorCoerente ==
    /\ DaCorrida \subseteq disco
    /\ ate = inicio \/ ate <= publicado
    /\ fase \in {"ingerindo", "marcando"} => lido = ate
    /\ fase = "marcando" => passada.linhas = <<>>
    /\ fase = "parado" => Parada

\* Every row of the pass was read by now, and shows nothing later than itself.
PassadaLida ==
    \A k \in 1..Len(passada.linhas) :
        passada.linhas[k].doc <= passada.linhas[k].nsu /\ passada.linhas[k].nsu <= lido

\* What is in the database: the notas, the events, and their agreement.  The NSU of
\* a nota is its own or a later one.
BancoCoerente ==
    /\ ultimoNsu \in [Nsus -> 0..MaxNsu]
    /\ canceladas \subseteq Importadas
    /\ Importadas \subseteq {n \in Nsus : EhNota(n)}
    /\ eventos \subseteq {n \in Nsus : ~EhNota(n)}
    /\ EventoJaVale
    /\ \A m \in Importadas : m <= ultimoNsu[m]

\* The types of everything else.
TiposMundo ==
    /\ alvo \in Alvos /\ publicado \in 0..MaxNsu
    /\ disco \subseteq 1..publicado /\ primeiro \in [Nsus -> disco \cup {0}]
    /\ central \in Alcance /\ reconciliada \in BOOLEAN /\ janela \in BOOLEAN
    /\ interrupcoes \in 0..MaxInterrupcoes /\ vazias \in 0..MaxVazias
    /\ falhas \in 0..MaxFalhas /\ sincronizacoes \in 0..MaxSincronizacoes

TiposConsulta ==
    /\ fase \in Fases /\ cancelado \in BOOLEAN /\ profunda \in BOOLEAN /\ naJanela \in BOOLEAN
    /\ inicio \in Alcance /\ ate \in Alcance /\ lido \in inicio..ate
    /\ consultas \in 0..Limite /\ vazios \in 0..MaxVazios
    /\ linha \in Nat /\ passada \in [linhas : Seq(Linha), previstas : SUBSET Nsus]
    /\ erros \in Nat /\ detalhes \subseteq Linha
    /\ IsFiniteSet(detalhes) /\ Cardinality(detalhes) <= MaxDetalhes

InvColeta ==
    TiposMundo /\ TiposConsulta /\ DiscoIndexado /\ MotorCoerente /\ PassadaLida /\ BancoCoerente

\* The next consulta may start as far as n.
Alcanca(n) == n <= central \/ \E m \in Importadas : n <= ultimoNsu[m]

Fechado == \A n \in Nsus : Alcanca(n) => Ingerido(n)

\* Nothing failed, nobody asked for events, and either no event came or nothing
\* was interrupted.
Tranquilo == SemFalhas /\ (SoNotas \/ interrupcoes = 0)

\* Rows 1..fim of the run are taken, and the pass holds the last of them.
FimDaPassada == IF fase = "baixando" THEN inicio + linha ELSE lido

\* What is on disk has no hole, and neither has what the consultas so far covered;
\* what this one covers is in the database or in the pass of the final ingestion.
Contiguo ==
    /\ erros = 0
    /\ cancelado => interrupcoes # 0
    /\ \A n \in disco : \A k \in Nsus : k <= n => k \in disco
    /\ \A m \in Nsus : primeiro[m] # 0 => primeiro[m] = m
    /\ \A n \in Nsus : Ingerido(n) => n \in disco
    /\ fase \in {"parado", "marcando"} => Fechado
    /\ fase # "parado" => \A n \in Nsus : n <= inicio => Ingerido(n)
    /\ fase # "parado" => \A n \in Nsus : Alcanca(n) => n <= lido \/ Ingerido(n)
    /\ fase = "ingerindo" =>
         \A n \in DaCorrida : Ingerido(n) \/ \E k \in 1..Len(passada.linhas) : passada.linhas[k].doc = n

\* With notas only, they enter the database in the order of their NSUs.
NaOrdem ==
    LET l == Len(passada.linhas) IN
    /\ Fechado
    /\ l <= FimDaPassada - inicio /\ FimDaPassada <= lido
    /\ \A k \in 1..l : passada.linhas[k] = [doc |-> FimDaPassada - l + k, nsu |-> FimDaPassada - l + k]
    /\ \A n \in Nsus : n <= FimDaPassada - l => Ingerido(n)

InvLacuna ==
    /\ InvColeta
    /\ Tranquilo => Contiguo /\ (SoNotas => NaOrdem)

-----------------------------------------------------------------------------
(* Facts about least, greatest and ordered.                                *)

\* Min finds it.
LEMMA MinDe ==
    ASSUME NEW T \in SUBSET Nat, T # {}
    PROVE  Min(T) \in T /\ \A y \in T : Min(T) <= y
  BY HaMenor DEF Min

\* Max finds the greatest member of a set of naturals with a bound.
LEMMA MaxDe ==
    ASSUME NEW T \in SUBSET Nat, T # {}, NEW b \in Nat, \A y \in T : y <= b
    PROVE  Max(T) \in T /\ \A y \in T : y <= Max(T)
  <1>1. \E x \in T : \A y \in T : x >= y
    BY HaMaior
  <1> QED
    BY <1>1 DEF Max

\* NSUs in different places are put in order by EmOrdem, every one of them.
LEMMA EmOrdemOrdena ==
    ASSUME NEW S \in SUBSET Nsus, NEW lugar \in [Nsus -> 0..MaxNsu],
           \A x, y \in S : lugar[x] = lugar[y] => x = y
    PROVE  /\ Cardinality(S) \in Nat
           /\ EmOrdem(S, lugar) \in [1..Cardinality(S) -> S]
           /\ \A i, j \in 1..Cardinality(S) :
                i < j => lugar[EmOrdem(S, lugar)[i]] < lugar[EmOrdem(S, lugar)[j]]
           /\ \A x \in S : \E i \in 1..Cardinality(S) : EmOrdem(S, lugar)[i] = x
  <1> DEFINE s == EmOrdem(S, lugar)
             N == Cardinality(S)
             lugarDe == [x \in S |-> lugar[x]]
  <1>1. IsFiniteSet(S) /\ N \in Nat
    <2>1. IsFiniteSet(Nsus)
      BY ConstantesColeta, FS_Interval DEF Nsus
    <2> QED
      BY <2>1, FS_Subset, FS_CardinalityType
  <1>2. lugarDe \in [S -> Nat] /\ \A x, y \in S : lugarDe[x] = lugarDe[y] => x = y
    BY ConstantesColeta
  <1>3. \A z : Ordenada(S, lugarDe, z) <=>
                  /\ z \in [1..N -> S]
                  /\ \A i, j \in 1..N : i < j => lugar[z[i]] < lugar[z[j]]
    BY DEF Ordenada
  <1>4. \E z : Ordenada(S, lugarDe, z)
    <2> HIDE DEF lugarDe
    <2> QED
      BY <1>1, <1>2, HaOrdem
  <1>5. s \in [1..N -> S] /\ \A i, j \in 1..N : i < j => lugar[s[i]] < lugar[s[j]]
    BY <1>3, <1>4 DEF EmOrdem
  <1>6. \A x \in S : \E i \in 1..N : s[i] = x
    <2>1. Ordenada(S, lugarDe, s)
      BY <1>3, <1>5
    <2> HIDE DEF lugarDe, s
    <2> QED
      BY <1>1, <1>2, <2>1, OrdenadaTemTodos
  <1> QED
    BY <1>1, <1>5, <1>6

-----------------------------------------------------------------------------
(* The rows of a run.                                                      *)

\* A document is about itself or about an earlier one that is about itself.
LEMMA AlvoDe ==
    ASSUME TypeOK, NEW n \in Nsus
    PROVE  alvo[n] \in Nsus /\ alvo[n] <= n /\ alvo[alvo[n]] = alvo[n]
  BY ConstantesColeta DEF TypeOK

\* NSUs, and what is at or below one, are naturals.
LEMMA Numeros ==
    ASSUME TypeOK
    PROVE  /\ MaxNsu \in Nat /\ Nsus \in SUBSET Nat /\ \A n \in Nsus : 0 < n /\ n <= MaxNsu
           /\ publicado \in Nat /\ publicado <= MaxNsu /\ central \in Nat
           /\ inicio \in Nat /\ ate \in Nat /\ lido \in Nat /\ linha \in Nat
           /\ inicio <= lido /\ lido <= ate
           /\ disco \subseteq Nsus /\ DaCorrida \subseteq Nsus
           /\ primeiro \in [Nsus -> 0..MaxNsu]
           /\ \A m \in Nsus : ultimoNsu[m] \in Nat
           /\ Importadas \subseteq Nsus
  <1>1. /\ MaxNsu \in Nat /\ Nsus \in SUBSET Nat /\ \A n \in Nsus : 0 < n /\ n <= MaxNsu
        /\ publicado \in Nat /\ publicado <= MaxNsu
    BY ConstantesColeta DEF TypeOK, Nsus
  <1>2. /\ central \in Nat /\ inicio \in Nat /\ ate \in Nat /\ linha \in Nat
        /\ lido \in Nat /\ inicio <= lido /\ lido <= ate
    <2>1. central \in Nat /\ inicio \in Nat /\ ate \in Nat /\ linha \in Nat /\ lido \in inicio..ate
      BY DEF TypeOK, Alcance
    <2> QED
      BY <2>1
  <1>3. disco \in SUBSET (1..publicado) /\ primeiro \in [Nsus -> disco \cup {0}]
    BY DEF TypeOK
  <1>4. disco \subseteq Nsus /\ disco \cup {0} \subseteq 0..MaxNsu
    BY <1>1, <1>3 DEF Nsus
  <1>5. primeiro \in [Nsus -> 0..MaxNsu]
    BY <1>3, <1>4
  <1>6. \A m \in Nsus : ultimoNsu[m] \in Nat
    BY <1>1 DEF TypeOK
  <1> QED
    BY <1>1, <1>2, <1>4, <1>5, <1>6 DEF DaCorrida, Importadas

\* Chaves in the index have different places in it.
LEMMA LugaresDistintos ==
    ASSUME TypeOK, DiscoIndexado, DaCorrida \subseteq disco
    PROVE  \A x, y \in {alvo[n] : n \in DaCorrida} : primeiro[x] = primeiro[y] => x = y
  BY AlvoDe, Numeros DEF DiscoIndexado

\* The last document of the run about m, which is no later than the engine.
LEMMA UltimoDe ==
    ASSUME TypeOK, NEW m \in {alvo[n] : n \in DaCorrida}
    PROVE  LET u == Max({n \in DaCorrida : alvo[n] = m})
           IN u \in DaCorrida /\ u \in Nsus /\ alvo[u] = m /\ m <= u /\ u <= lido /\ m \in Nsus
  <1> DEFINE S == {n \in DaCorrida : alvo[n] = m}
  <1>1. S \in SUBSET Nat /\ S # {} /\ \A n \in S : n <= MaxNsu
    BY Numeros
  <1>2. Max(S) \in S
    <2> HIDE DEF S
    <2> QED
      BY <1>1, Numeros, MaxDe
  <1> QED
    BY <1>2, AlvoDe, Numeros DEF DaCorrida

\* The rows of a run are rows: each one shows a document no later than its NSU,
\* which the engine has passed; and each document of the run has its row.
LEMMA LinhasDaCorrida ==
    ASSUME TypeOK, DiscoIndexado, DaCorrida \subseteq disco
    PROVE  /\ Linhas \in Seq(Linha)
           /\ \A k \in 1..Len(Linhas) : Linhas[k].doc <= Linhas[k].nsu /\ Linhas[k].nsu <= lido
           /\ \A n \in DaCorrida : \E k \in 1..Len(Linhas) : Linhas[k].doc = n
  <1> DEFINE chaves == {alvo[n] : n \in DaCorrida}
             Ultimo(m) == Max({n \in DaCorrida : alvo[n] = m})
             Mostra(m) == IF m \in disco THEN m ELSE Ultimo(m)
             soltos == {n \in DaCorrida : ~EhNota(n) /\ n # Mostra(alvo[n])}
             ordem == EmOrdem(chaves, primeiro)
             fora == EmOrdem(soltos, [n \in Nsus |-> n])
             A == [k \in DOMAIN ordem |-> [doc |-> Mostra(ordem[k]), nsu |-> Ultimo(ordem[k])]]
             B == [k \in DOMAIN fora |-> [doc |-> fora[k], nsu |-> fora[k]]]
             Boa(r) == r \in Linha /\ r.doc <= r.nsu /\ r.nsu <= lido
  <1>1. Linhas = A \o B
    BY DEF Linhas
  <1>2. \A m \in chaves : Ultimo(m) \in Nsus /\ Ultimo(m) <= lido /\ m <= Ultimo(m) /\ m \in Nsus
    BY UltimoDe
  <1>3. \A m \in chaves : Mostra(m) \in Nsus /\ Mostra(m) <= Ultimo(m)
    <2> HIDE DEF Ultimo, chaves
    <2> QED
      BY <1>2, Numeros
  <1>4. /\ ordem \in [1..Cardinality(chaves) -> chaves] /\ Cardinality(chaves) \in Nat
        /\ \A x \in chaves : \E i \in 1..Cardinality(chaves) : ordem[i] = x
    <2>1. chaves \in SUBSET Nsus
      BY AlvoDe, Numeros
    <2> QED
      BY <2>1, Numeros, LugaresDistintos, EmOrdemOrdena
  <1>5. /\ fora \in [1..Cardinality(soltos) -> soltos] /\ Cardinality(soltos) \in Nat
        /\ \A x \in soltos : \E i \in 1..Cardinality(soltos) : fora[i] = x
    <2>1. soltos \in SUBSET Nsus
      BY Numeros
    <2>2. [n \in Nsus |-> n] \in [Nsus -> 0..MaxNsu]
      BY Numeros
    <2>3. \A x, y \in soltos : [n \in Nsus |-> n][x] = [n \in Nsus |-> n][y] => x = y
      BY <2>1
    <2> HIDE DEF soltos
    <2> QED
      BY <2>1, <2>2, <2>3, EmOrdemOrdena
  <1>6. /\ A \in Seq(Linha) /\ Len(A) = Cardinality(chaves)
        /\ \A k \in 1..Len(A) : Boa(A[k]) /\ A[k].doc = Mostra(ordem[k])
    <2> HIDE DEF chaves, Ultimo, Mostra, ordem
    <2>1. A \in [1..Cardinality(chaves) -> Linha]
      BY <1>2, <1>3, <1>4 DEF Linha
    <2>2. A \in Seq(Linha) /\ Len(A) = Cardinality(chaves)
      BY <1>4, <2>1
    <2>3. ASSUME NEW k \in 1..Cardinality(chaves)
          PROVE  A[k] = [doc |-> Mostra(ordem[k]), nsu |-> Ultimo(ordem[k])] /\ ordem[k] \in chaves
      BY <1>4
    <2> QED
      BY <1>2, <1>3, <2>1, <2>2, <2>3
  <1>7. /\ B \in Seq(Linha) /\ Len(B) = Cardinality(soltos)
        /\ \A k \in 1..Len(B) : Boa(B[k]) /\ B[k].doc = fora[k]
    <2>1. \A n \in soltos : n \in Nsus /\ n <= n /\ n <= lido
      BY Numeros DEF DaCorrida
    <2> HIDE DEF soltos, fora
    <2>2. B \in [1..Cardinality(soltos) -> Linha]
      BY <1>5, <2>1 DEF Linha
    <2>3. B \in Seq(Linha) /\ Len(B) = Cardinality(soltos)
      BY <1>5, <2>2
    <2>4. ASSUME NEW k \in 1..Cardinality(soltos)
          PROVE  B[k] = [doc |-> fora[k], nsu |-> fora[k]] /\ fora[k] \in soltos
      BY <1>5
    <2> QED
      BY <2>1, <2>2, <2>3, <2>4
  <1>8. /\ A \o B \in Seq(Linha) /\ Len(A \o B) = Len(A) + Len(B)
        /\ \A k \in 1..Len(A) : (A \o B)[k] = A[k]
        /\ \A k \in 1..Len(B) : (A \o B)[Len(A) + k] = B[k]
        /\ \A k \in 1..Len(A \o B) : k \in 1..Len(A) \/ k - Len(A) \in 1..Len(B)
        /\ Len(A) \in Nat /\ Len(B) \in Nat
    <2> HIDE DEF A, B
    <2>1. A \in Seq(Linha) /\ B \in Seq(Linha)
      BY <1>6, <1>7
    <2>2. Len(A) \in Nat /\ Len(B) \in Nat
      BY <2>1
    <2> QED
      BY <2>1, <2>2, ConcatProperties
  <1>9. ASSUME NEW n \in DaCorrida
        PROVE  \/ \E k \in 1..Len(A) : A[k].doc = n
               \/ \E k \in 1..Len(B) : B[k].doc = n
    <2>1. CASE n = Mostra(alvo[n])
      <3>1. PICK i \in 1..Cardinality(chaves) : ordem[i] = alvo[n]
        BY <1>4
      <3>2. i \in 1..Len(A) /\ A[i].doc = Mostra(ordem[i])
        BY <1>6
      <3> HIDE DEF A, Mostra, ordem
      <3> QED
        BY <2>1, <3>1, <3>2
    <2>2. CASE n # Mostra(alvo[n])
      <3>1. ~EhNota(n)
        BY <2>2 DEF EhNota
      <3>2. PICK i \in 1..Cardinality(soltos) : fora[i] = n
        BY <1>5, <2>2, <3>1
      <3> QED
        BY <1>7, <3>2
    <2> QED
      BY <2>1, <2>2
  <1> HIDE DEF A, B, Boa
  <1>10. \A k \in 1..Len(A \o B) : Boa((A \o B)[k])
    <2> TAKE k \in 1..Len(A \o B)
    <2>1. CASE k \in 1..Len(A)
      BY <1>6, <1>8, <2>1
    <2>2. CASE k - Len(A) \in 1..Len(B)
      <3>1. PICK j \in 1..Len(B) : j = k - Len(A)
        BY <2>2
      <3>2. k = Len(A) + j
        BY <1>8, <3>1
      <3> QED
        BY <1>7, <1>8, <3>2
    <2> QED
      BY <1>8, <2>1, <2>2
  <1>11. \A n \in DaCorrida : \E k \in 1..Len(A \o B) : (A \o B)[k].doc = n
    <2> TAKE n \in DaCorrida
    <2>1. CASE \E k \in 1..Len(A) : A[k].doc = n
      BY <1>8, <2>1
    <2>2. ASSUME NEW k \in 1..Len(B), B[k].doc = n PROVE \E i \in 1..Len(A \o B) : (A \o B)[i].doc = n
      <3>1. Len(A) + k \in 1..Len(A \o B)
        BY <1>8
      <3> QED
        BY <1>8, <2>2, <3>1
    <2> QED
      BY <1>9, <2>1, <2>2
  <1> QED
    BY <1>1, <1>8, <1>10, <1>11 DEF Boa

-----------------------------------------------------------------------------
(* Numbers that the handlers compute.                                      *)

\* The invariant types the state.
LEMMA InvColetaTipa ==
    ASSUME InvColeta
    PROVE  TypeOK /\ EventoJaVale /\ DaCorrida \subseteq disco
  BY DEF InvColeta, TiposMundo, TiposConsulta, BancoCoerente, MotorCoerente, TypeOK

\* Where one consulta may have begun, another may begin earlier.
LEMMA AlcanceDesce ==
    ASSUME NEW a \in Alcance, NEW b \in Nat, b <= a
    PROVE  b \in Alcance
  BY ConstantesColeta DEF Alcance

\* The greatest NSU imported is the one of some nota, or zero.
LEMMA MaiorImportado ==
    ASSUME TypeOK
    PROVE  /\ MaiorNsuImportado \in 0..MaxNsu
           /\ \A m \in Importadas : ultimoNsu[m] <= MaiorNsuImportado
           /\ MaiorNsuImportado # 0 => \E m \in Importadas : ultimoNsu[m] = MaiorNsuImportado
  <1> DEFINE S == {0} \cup {ultimoNsu[m] : m \in Importadas}
  <1>1. S \in SUBSET (0..MaxNsu) /\ S # {} /\ MaxNsu \in Nat
    BY Numeros DEF TypeOK, Importadas
  <1>2. S \in SUBSET Nat /\ \A y \in S : y <= MaxNsu
    BY <1>1
  <1>3. Max(S) \in S /\ \A y \in S : y <= Max(S)
    <2> HIDE DEF S
    <2> QED
      BY <1>1, <1>2, MaxDe
  <1> QED
    BY <1>1, <1>3 DEF MaiorNsuImportado

\* The greater of two naturals.
LEMMA MaxDeDois ==
    ASSUME NEW a \in Nat, NEW b \in Nat
    PROVE  Max({a, b}) = (IF a < b THEN b ELSE a)
  <1>1. {a, b} \in SUBSET Nat /\ \A y \in {a, b} : y <= a + b
    OBVIOUS
  <1>2. Max({a, b}) \in {a, b} /\ \A y \in {a, b} : y <= Max({a, b})
    BY <1>1, MaxDe
  <1> QED
    BY <1>2

\* The lesser of two naturals.
LEMMA MinDeDois ==
    ASSUME NEW a \in Nat, NEW b \in Nat
    PROVE  Min({a, b}) = (IF a < b THEN a ELSE b)
  BY MinDe

\* Confirmado is where Alcanca ends.
LEMMA ConfirmadoAlcanca ==
    ASSUME TypeOK
    PROVE  Confirmado \in Alcance /\ \A n \in Nat \ {0} : n <= Confirmado <=> Alcanca(n)
  <1>1. Confirmado = IF central < MaiorNsuImportado THEN MaiorNsuImportado ELSE central
    BY Numeros, MaiorImportado, MaxDeDois DEF Confirmado
  <1>2. central \in Alcance /\ MaiorNsuImportado \in Alcance
    BY Numeros, MaiorImportado DEF TypeOK, Alcance
  <1>3. \A m \in Importadas : ultimoNsu[m] \in Nat
    BY Numeros
  <1> QED
    BY <1>1, <1>2, <1>3, Numeros, MaiorImportado DEF Alcanca

\* A base and a look-back give a natural no greater than the base.
LEMMA AteZeroDesce ==
    ASSUME NEW a \in Nat, NEW b \in Nat
    PROVE  AteZero(a - b) \in Nat /\ AteZero(a - b) <= a
  BY DEF AteZero

\* A deep re-reading starts no later than some NSU imported, some place in the
\* index of a nota imported, or what is confirmed.
LEMMA BaseProfunda ==
    ASSUME TypeOK
    PROVE  \/ InicioProfundo = AteZero(Confirmado - RecuoProfundo)
           \/ \E m \in Importadas : \/ InicioProfundo = AteZero(ultimoNsu[m] - RecuoProfundo)
                                   \/ InicioProfundo = AteZero(primeiro[m] - RecuoProfundo)
  <1> DEFINE velhas == {m \in Importadas : m <= FimAntigo}
             doMes  == {m \in Importadas : FimAntigo < m /\ m <= FimMesAnterior}
             U == {ultimoNsu[m] : m \in velhas}
             P == {primeiro[m] : m \in doMes}
  <1>1. ASSUME NEW a \in Nat PROVE Max({a}) = a
    BY MaxDe
  <1>2. CASE velhas # {}
    <2>1. BasesMesAnterior = {Max(U)}
      BY <1>2 DEF BasesMesAnterior
    <2>2. U \in SUBSET Nat /\ U # {} /\ \A y \in U : y <= MaxNsu
      BY <1>2, Numeros DEF TypeOK
    <2>3. Max(U) \in U
      <3> HIDE DEF U
      <3> QED
        BY <2>2, Numeros, MaxDe
    <2>4. InicioProfundo = AteZero(Max(U) - RecuoProfundo)
      <3> HIDE DEF U
      <3>1. Max(BasesMesAnterior) = Max(U) /\ BasesMesAnterior # {}
        BY <1>1, <2>1, <2>2, <2>3
      <3> QED
        BY <3>1 DEF InicioProfundo
    <2> QED
      BY <2>3, <2>4
  <1>3. CASE velhas = {} /\ doMes # {}
    <2>1. BasesMesAnterior = {Min(P)}
      BY <1>3 DEF BasesMesAnterior
    <2>2. P \in SUBSET Nat /\ P # {}
      BY <1>3, Numeros
    <2>3. Min(P) \in P
      <3> HIDE DEF P
      <3> QED
        BY <2>2, MinDe
    <2>4. InicioProfundo = AteZero(Min(P) - RecuoProfundo)
      <3> HIDE DEF P
      <3>1. Max(BasesMesAnterior) = Min(P) /\ BasesMesAnterior # {}
        BY <1>1, <2>1, <2>2, <2>3
      <3> QED
        BY <3>1 DEF InicioProfundo
    <2> QED
      BY <2>3, <2>4
  <1>4. CASE velhas = {} /\ doMes = {}
    BY <1>4 DEF BasesMesAnterior, InicioProfundo
  <1> QED
    BY <1>2, <1>3, <1>4

\* So both starting points are where a consulta may start.
LEMMA IniciosNoAlcance ==
    ASSUME TypeOK
    PROVE  InicioNormal \in Alcance /\ InicioProfundo \in Alcance
  <1>0. Recuo \in Nat /\ RecuoProfundo \in Nat
    BY ConstantesColeta
  <1>1. Confirmado \in Alcance /\ Confirmado \in Nat
    BY ConfirmadoAlcanca DEF Alcance
  <1>2. ASSUME NEW a \in Alcance, NEW b \in Nat PROVE AteZero(a - b) \in Alcance
    <2>1. a \in Nat
      BY DEF Alcance
    <2> QED
      BY <2>1, AteZeroDesce, AlcanceDesce
  <1>3. \A m \in Importadas : ultimoNsu[m] \in Alcance /\ primeiro[m] \in Alcance
    <2>1. Importadas \subseteq Nsus /\ primeiro \in [Nsus -> 0..MaxNsu] /\ MaxNsu \in Nat
      BY Numeros
    <2>2. ultimoNsu \in [Nsus -> 0..MaxNsu]
      BY DEF TypeOK
    <2> QED
      BY <2>1, <2>2 DEF Alcance
  <1>4. InicioProfundo \in Alcance
    BY <1>0, <1>1, <1>2, <1>3, BaseProfunda
  <1> QED
    BY <1>0, <1>1, <1>2, <1>4 DEF InicioNormal

\* What a consulta confirms is where the next one may start; with no error it is
\* all that the engine read or the database has.
LEMMA FinalDaConsulta ==
    ASSUME InvColeta
    PROVE  LET final == LimitarPorFalhas(Max({ate, MaiorNsuImportado}))
           IN /\ final \in Alcance
              /\ erros = 0 => \A n \in Nat : n <= final => n <= ate \/ n <= MaiorNsuImportado
  <1> DEFINE topo == Max({ate, MaiorNsuImportado})
             N == {d.nsu : d \in detalhes}
  <1>0. TypeOK
    BY InvColetaTipa
  <1>1. ate \in Nat /\ MaiorNsuImportado \in Nat
    BY <1>0, Numeros, MaiorImportado
  <1>2. topo = IF ate < MaiorNsuImportado THEN MaiorNsuImportado ELSE ate
    BY <1>1, MaxDeDois
  <1>3. topo \in Alcance /\ topo \in Nat
    <2>1. ate \in Alcance
      BY <1>0 DEF TypeOK
    <2>3. MaiorNsuImportado \in Alcance
      BY <1>0, MaiorImportado, Numeros DEF Alcance
    <2> QED
      BY <1>1, <1>2, <2>1, <2>3
  <1> HIDE DEF topo
  <1>4. CASE erros = 0 \/ detalhes = {}
    BY <1>1, <1>2, <1>3, <1>4 DEF LimitarPorFalhas, topo
  <1>5. CASE ~(erros = 0 \/ detalhes = {})
    <2>1. LimitarPorFalhas(topo) = Min({topo, Min(N) - 1})
      BY <1>5 DEF LimitarPorFalhas
    <2>2. N \in SUBSET Nsus /\ N # {}
      BY <1>0, <1>5 DEF TypeOK, Linha
    <2>3. Min(N) \in Nsus
      <3> HIDE DEF N
      <3> QED
        BY <1>0, <2>2, Numeros, MinDe
    <2>4. Min(N) - 1 \in Nat
      BY <1>0, <2>3, Numeros
    <2>5. LimitarPorFalhas(topo) \in Nat /\ LimitarPorFalhas(topo) <= topo
      <3> HIDE DEF N
      <3>1. Min({topo, Min(N) - 1}) = IF topo < Min(N) - 1 THEN topo ELSE Min(N) - 1
        BY <1>3, <2>4, MinDeDois
      <3> QED
        BY <1>3, <2>1, <2>4, <3>1
    <2> QED
      BY <1>3, <1>5, <2>5, AlcanceDesce DEF topo
  <1> QED
    BY <1>4, <1>5 DEF topo

-----------------------------------------------------------------------------
(* What the steps do to the database.                                      *)

\* Nothing, when its variables stay.
LEMMA BancoParado ==
    ASSUME InvColeta, UNCHANGED <<varsBanco, alvo>>
    PROVE  /\ BancoCoerente' /\ Importadas' = Importadas
           /\ \A n \in Nsus : Ingerido(n)' <=> Ingerido(n)
  BY DEF InvColeta, BancoCoerente, varsBanco, Importadas, EventoJaVale, EhNota, Ingerido

\* A step of the database: it stays coherent, keeps what it has, takes r at most,
\* and an NSU that changes becomes that of r.
Toma(r) ==
    /\ BancoCoerente'
    /\ Importadas \subseteq Importadas'
    /\ Ingerido(r.doc)'
    /\ \A n \in Nsus : Ingerido(n) => Ingerido(n)'
    /\ \A n \in Nsus : Ingerido(n)' => Ingerido(n) \/ n = r.doc
    /\ \A m \in Importadas' : \/ ultimoNsu'[m] = r.nsu
                              \/ m \in Importadas /\ ultimoNsu'[m] = ultimoNsu[m]

\* A nota is taken with its events.
LEMMA NotaToma ==
    ASSUME InvColeta, NEW r \in Linha, r.doc <= r.nsu, NEW previstas,
           EhNota(r.doc), IngerirNota(r, previstas), alvo' = alvo
    PROVE  Toma(r)
  <1>0. TypeOK
    BY InvColetaTipa
  <1>1. r.doc \in Nsus /\ r.nsu \in Nsus /\ r.nsu \in 0..MaxNsu /\ r.nsu # 0
    BY <1>0, Numeros DEF Linha
  <1>2. /\ ultimoNsu' \in [Nsus -> 0..MaxNsu]
        /\ \A m \in Nsus : ultimoNsu'[m] = IF m = r.doc THEN r.nsu ELSE ultimoNsu[m]
    BY <1>1 DEF IngerirNota, InvColeta, BancoCoerente
  <1>3. Importadas' = Importadas \cup {r.doc}
    BY <1>1, <1>2 DEF Importadas
  <1>4. eventos' = eventos /\ canceladas \subseteq canceladas' /\ canceladas' \subseteq canceladas \cup {r.doc}
    BY DEF IngerirNota
  <1>5. \A e \in eventos : alvo[e] = r.doc => r.doc \in canceladas'
    BY DEF IngerirNota
  <1>6. \A n \in Nsus : EhNota(n)' <=> EhNota(n)
    BY DEF EhNota
  <1>7. EventoJaVale'
    BY <1>3, <1>4, <1>5 DEF EventoJaVale, InvColeta, BancoCoerente
  <1>8. BancoCoerente'
    <2>1. canceladas' \subseteq Importadas'
      BY <1>3, <1>4 DEF InvColeta, BancoCoerente
    <2>2. Importadas' \subseteq {n \in Nsus : EhNota(n)}'
      BY <1>1, <1>3, <1>6 DEF InvColeta, BancoCoerente
    <2>3. eventos' \subseteq {n \in Nsus : ~EhNota(n)}'
      BY <1>4, <1>6 DEF InvColeta, BancoCoerente
    <2>4. \A m \in Importadas' : m <= ultimoNsu'[m]
      BY <1>1, <1>2, <1>3, Numeros DEF InvColeta, BancoCoerente, Importadas
    <2> QED
      BY <1>2, <1>7, <2>1, <2>2, <2>3, <2>4 DEF BancoCoerente
  <1>9. \A n \in Nsus : Ingerido(n)' <=> Ingerido(n) \/ n = r.doc
    BY <1>1, <1>3, <1>4, <1>6 DEF Ingerido
  <1>10. \A m \in Importadas' : \/ ultimoNsu'[m] = r.nsu
                                \/ m \in Importadas /\ ultimoNsu'[m] = ultimoNsu[m]
    BY <1>1, <1>2, <1>3 DEF Importadas
  <1> QED
    BY <1>1, <1>3, <1>8, <1>9, <1>10 DEF Toma

\* An event is taken, and its nota with it when the nota is there.
LEMMA EventoToma ==
    ASSUME InvColeta, NEW r \in Linha, r.doc <= r.nsu, ~EhNota(r.doc), IngerirEvento(r), alvo' = alvo
    PROVE  Toma(r)
  <1> DEFINE atingidas == ({alvo[r.doc]} \cap Importadas) \ canceladas
  <1>0. TypeOK
    BY InvColetaTipa
  <1>1. r.doc \in Nsus /\ r.nsu \in Nsus /\ r.nsu \in 0..MaxNsu /\ r.nsu # 0
    BY <1>0, Numeros DEF Linha
  <1>2. /\ ultimoNsu' \in [Nsus -> 0..MaxNsu]
        /\ \A m \in Nsus : ultimoNsu'[m] = IF m \in atingidas THEN r.nsu ELSE ultimoNsu[m]
    BY <1>1 DEF IngerirEvento, InvColeta, BancoCoerente
  <1>3. Importadas' = Importadas
    BY <1>1, <1>2 DEF Importadas
  <1>4. eventos' = eventos \cup {r.doc} /\ canceladas' = canceladas \cup atingidas
    BY DEF IngerirEvento
  <1>5. \A n \in Nsus : EhNota(n)' <=> EhNota(n)
    BY DEF EhNota
  <1>6. EventoJaVale'
    BY <1>3, <1>4 DEF EventoJaVale, InvColeta, BancoCoerente
  <1>7. BancoCoerente'
    <2>1. canceladas' \subseteq Importadas'
      BY <1>3, <1>4 DEF InvColeta, BancoCoerente
    <2>2. Importadas' \subseteq {n \in Nsus : EhNota(n)}'
      BY <1>3, <1>5 DEF InvColeta, BancoCoerente
    <2>3. eventos' \subseteq {n \in Nsus : ~EhNota(n)}'
      BY <1>1, <1>4, <1>5 DEF InvColeta, BancoCoerente
    <2>4. \A m \in Importadas' : m <= ultimoNsu'[m]
      <3> TAKE m \in Importadas'
      <3>1. m \in Nsus /\ m <= ultimoNsu[m]
        BY <1>3 DEF InvColeta, BancoCoerente, Importadas
      <3>2. CASE m \in atingidas
        BY <1>0, <1>1, <1>2, <3>1, <3>2, AlvoDe, Numeros
      <3>3. CASE m \notin atingidas
        BY <1>2, <3>1, <3>3
      <3> QED
        BY <3>2, <3>3
    <2> QED
      BY <1>2, <1>6, <2>1, <2>2, <2>3, <2>4 DEF BancoCoerente
  <1>8. \A n \in Nsus : Ingerido(n)' <=> Ingerido(n) \/ n = r.doc
    BY <1>1, <1>3, <1>4, <1>5 DEF Ingerido
  <1>9. \A m \in Importadas' : \/ ultimoNsu'[m] = r.nsu
                               \/ m \in Importadas /\ ultimoNsu'[m] = ultimoNsu[m]
    BY <1>1, <1>2, <1>3 DEF Importadas
  <1> QED
    BY <1>1, <1>3, <1>7, <1>8, <1>9 DEF Toma

\* Either way a row is taken whole.
LEMMA IngerirToma ==
    ASSUME InvColeta, NEW r \in Linha, r.doc <= r.nsu, NEW previstas, Ingerir(r, previstas), alvo' = alvo
    PROVE  Toma(r)
  BY NotaToma, EventoToma DEF Ingerir

\* The events of a nota that the ADN has, fetched for it alone.
LEMMA SincronizarMantem ==
    ASSUME InvColeta, NEW m \in Nsus, SincronizarEventos(m)
    PROVE  BancoCoerente'
  <1> DEFINE doAdn == {e \in 1..publicado : alvo[e] = m /\ e # m}
  <1>0. TypeOK
    BY InvColetaTipa
  <1>1. /\ m \in Importadas /\ ~(doAdn \subseteq eventos) /\ alvo' = alvo
        /\ eventos' = eventos \cup doAdn /\ canceladas' = canceladas \cup {m}
        /\ ultimoNsu' = [ultimoNsu EXCEPT ![m] = IF m \in canceladas THEN @ ELSE Min(doAdn)]
    BY DEF SincronizarEventos, varsMundo
  <1>2. doAdn \in SUBSET Nsus /\ doAdn # {} /\ doAdn \in SUBSET Nat
    BY <1>0, <1>1, Numeros DEF Nsus
  <1>3. Min(doAdn) \in doAdn
    <2> HIDE DEF doAdn
    <2> QED
      BY <1>2, MinDe
  <1>4. Min(doAdn) \in 0..MaxNsu /\ Min(doAdn) # 0 /\ m <= Min(doAdn)
    <2>1. \A e \in doAdn : e \in Nsus /\ alvo[e] = m
      BY <1>2
    <2> HIDE DEF doAdn
    <2> QED
      BY <1>0, <1>3, <2>1, AlvoDe, Numeros
  <1>5. \A e \in doAdn : e \in Nsus /\ alvo[e] = m /\ ~EhNota(e)
    BY <1>2 DEF EhNota
  <1> HIDE DEF doAdn
  <1>6. /\ ultimoNsu' \in [Nsus -> 0..MaxNsu]
        /\ \A n \in Nsus : ultimoNsu'[n] = IF n = m /\ m \notin canceladas THEN Min(doAdn) ELSE ultimoNsu[n]
    BY <1>1, <1>4 DEF InvColeta, BancoCoerente
  <1>7. Importadas' = Importadas
    BY <1>1, <1>4, <1>6 DEF Importadas
  <1>8. \A n \in Nsus : EhNota(n)' <=> EhNota(n)
    BY <1>1 DEF EhNota
  <1>9. EventoJaVale'
    BY <1>1, <1>5, <1>7 DEF EventoJaVale, InvColeta, BancoCoerente
  <1>10. canceladas' \subseteq Importadas' /\ Importadas' \subseteq {n \in Nsus : EhNota(n)}'
    BY <1>1, <1>7, <1>8 DEF InvColeta, BancoCoerente
  <1>11. eventos' \subseteq {n \in Nsus : ~EhNota(n)}'
    BY <1>1, <1>5, <1>8 DEF InvColeta, BancoCoerente
  <1>12. \A n \in Importadas' : n <= ultimoNsu'[n]
    BY <1>4, <1>6, <1>7 DEF InvColeta, BancoCoerente, Importadas
  <1> QED
    BY <1>6, <1>9, <1>10, <1>11, <1>12 DEF BancoCoerente

-----------------------------------------------------------------------------
(* Every step keeps InvColeta.                                             *)

\* A consulta that ends leaves nothing of itself.
LEMMA PararMantem ==
    ASSUME InvColeta, Parar
    PROVE  TiposConsulta' /\ MotorCoerente' /\ PassadaLida'
  <1>1. DaCorrida' = {}
    BY Numeros, InvColetaTipa DEF Parar, DaCorrida
  <1>2. IsFiniteSet({}) /\ Cardinality({}) = 0
    BY FS_EmptySet
  <1>3. <<>> \in Seq(Linha) /\ Len(<<>>) = 0
    OBVIOUS
  <1>4. SemPassada \in [linhas : Seq(Linha), previstas : SUBSET Nsus] /\ SemPassada.linhas = <<>>
    BY <1>3 DEF SemPassada
  <1>5. 0 \in Alcance
    BY ConstantesColeta DEF Alcance
  <1>6. TiposConsulta'
    <2>1. passada' \in [linhas : Seq(Linha), previstas : SUBSET Nsus]
      BY <1>4 DEF Parar
    <2>2. lido' \in inicio'..ate' /\ consultas' \in 0..Limite /\ vazios' \in 0..MaxVazios
      BY ConstantesColeta DEF Parar
    <2>3. detalhes' \subseteq Linha /\ IsFiniteSet(detalhes') /\ Cardinality(detalhes') <= MaxDetalhes
      BY <1>2, ConstantesColeta DEF Parar
    <2> QED
      BY <1>5, <2>1, <2>2, <2>3 DEF Parar, TiposConsulta, Fases
  <1>7. MotorCoerente'
    BY <1>1 DEF Parar, MotorCoerente, Parada
  <1>8. PassadaLida'
    <2>1. passada'.linhas = <<>>
      BY <1>4 DEF Parar
    <2> QED
      BY <1>3, <2>1 DEF PassadaLida
  <1> QED
    BY <1>6, <1>7, <1>8

\* What is not touched stays as it was.
LEMMA DiscoParado ==
    ASSUME InvColeta, UNCHANGED <<varsDisco, alvo>>
    PROVE  DiscoIndexado'
  BY DEF InvColeta, DiscoIndexado, varsDisco

\* The pass is as it was read, while nobody touches it or the engine.
LEMMA PassadaParada ==
    ASSUME InvColeta, UNCHANGED <<passada, lido>>
    PROVE  PassadaLida'
  BY DEF InvColeta, PassadaLida

\* The world keeps its types when its counters keep theirs.
LEMMA MundoParado ==
    ASSUME InvColeta, UNCHANGED <<alvo, publicado, varsDisco>>,
           central' \in Alcance, reconciliada' \in BOOLEAN, janela' \in BOOLEAN,
           interrupcoes' \in 0..MaxInterrupcoes, vazias' \in 0..MaxVazias,
           falhas' \in 0..MaxFalhas, sincronizacoes' \in 0..MaxSincronizacoes
    PROVE  TiposMundo'
  BY DEF InvColeta, TiposMundo, varsDisco

\* A larger value is written, a smaller one is ignored.
LEMMA AvancarTipo ==
    ASSUME InvColeta, NEW n \in Alcance, Avancar(n)
    PROVE  central' \in Alcance
  BY DEF Avancar, InvColeta, TiposMundo

\* A consulta that starts has read nothing and holds nothing.
LEMMA ComecarMantem ==
    ASSUME InvColeta, NEW nsu \in Alcance, NEW funda \in BOOLEAN, NEW naNoite \in BOOLEAN,
           Comecar(nsu, funda, naNoite)
    PROVE  InvColeta'
  <1>1. /\ fase = "parado" /\ Parada
        /\ fase' = "baixando" /\ inicio' = nsu /\ lido' = nsu /\ ate' = nsu
        /\ profunda' = funda /\ naJanela' = naNoite /\ cancelado' = cancelado
        /\ UNCHANGED <<consultas, vazios, linha, passada, erros, detalhes>>
        /\ UNCHANGED <<alvo, publicado, janela, reconciliada, varsDisco, varsBanco>>
        /\ UNCHANGED <<interrupcoes, vazias, falhas, sincronizacoes>>
    BY DEF Comecar, InvColeta, MotorCoerente, varsLinhas, varsLimite, varsMundo
  <1>2. nsu \in Nat
    BY DEF Alcance
  <1>3. DaCorrida' = {} /\ passada.linhas = <<>>
    BY <1>1, <1>2, Numeros, InvColetaTipa DEF DaCorrida, Parada, SemPassada
  <1>4. TiposConsulta'
    BY <1>1, <1>2 DEF InvColeta, TiposConsulta, Fases
  <1>5. MotorCoerente'
    BY <1>1, <1>3 DEF MotorCoerente
  <1>6. PassadaLida'
    BY <1>1, <1>3 DEF PassadaLida
  <1>7. TiposMundo'
    <2>1. central' \in Alcance
      BY AvancarTipo DEF Comecar
    <2> QED
      BY <1>1, <2>1, MundoParado DEF InvColeta, TiposMundo
  <1> QED
    BY <1>1, <1>4, <1>5, <1>6, <1>7, DiscoParado, BancoParado DEF InvColeta

\* Whoever starts it: the night, the schedule, or an operator.
LEMMA InicioMantem ==
    ASSUME InvColeta, Inicio
    PROVE  InvColeta'
  <1>1. InicioProfundo \in Alcance /\ InicioNormal \in Alcance
    BY InvColetaTipa, IniciosNoAlcance
  <1>2. janela \in BOOLEAN /\ IniciosDoUsuario \subseteq Alcance
    BY ConstantesColeta DEF InvColeta, TiposMundo, Alcance
  <1>3. CASE IniciarNoite
    BY <1>1, <1>3, ComecarMantem DEF IniciarNoite
  <1>4. CASE IniciarNormal
    BY <1>1, <1>4, ComecarMantem DEF IniciarNormal
  <1>5. CASE IniciarReleitura
    BY <1>1, <1>2, <1>5, ComecarMantem DEF IniciarReleitura
  <1>6. CASE IniciarDoUsuario
    BY <1>2, <1>6, ComecarMantem DEF IniciarDoUsuario
  <1> QED
    BY <1>3, <1>4, <1>5, <1>6 DEF Inicio

\* An answer of the ADN, with documents or without, moves only the end of the answer.
LEMMA ReceberMantem ==
    ASSUME InvColeta, ReceberLote \/ ReceberVazio
    PROVE  InvColeta'
  <1>0. TypeOK
    BY InvColetaTipa
  <1>1. /\ fase = "baixando" /\ lido = ate /\ consultas < Limite /\ vazios < MaxVazios
        /\ UNCHANGED <<varsDisco, varsBanco, varsCentral, varsPlano, varsLinhas, varsMundo>>
        /\ UNCHANGED <<lido, fase, cancelado, interrupcoes, falhas, sincronizacoes>>
        /\ consultas' = consultas + 1
    BY DEF ReceberLote, ReceberVazio, PodeConsultar, varsLimite
  <1>2. /\ vazios' \in 0..MaxVazios /\ vazias' \in 0..MaxVazias
    <2>1. vazios \in 0..MaxVazios /\ vazias \in 0..MaxVazias /\ MaxVazios \in Nat /\ MaxVazias \in Nat
      BY ConstantesColeta DEF InvColeta, TiposConsulta, TiposMundo
    <2> QED
      BY <1>1, <2>1 DEF ReceberLote, ReceberVazio, varsLimite
  <1>3. ate' \in Alcance /\ lido' \in inicio'..ate' /\ (ate' = inicio' \/ ate' <= publicado)
    <2>1. CASE ReceberLote
      <3>1. publicado > ate /\ ate' = Min({ate + Lote, publicado})
        BY <2>1 DEF ReceberLote
      <3>2. ate' = IF ate + Lote < publicado THEN ate + Lote ELSE publicado
        BY <1>0, <3>1, MinDeDois, Numeros, ConstantesColeta
      <3>3. ate' \in Nat /\ ate <= ate' /\ ate' <= publicado
        BY <1>0, <3>1, <3>2, Numeros, ConstantesColeta
      <3>4. ate' \in Alcance
        BY <1>0, <3>3, Numeros DEF Alcance
      <3> QED
        BY <1>0, <1>1, <3>3, <3>4, Numeros DEF varsPlano
    <2>2. CASE ReceberVazio
      BY <1>1, <2>2 DEF ReceberVazio, varsPlano, InvColeta, TiposConsulta, MotorCoerente
    <2> QED
      BY <2>1, <2>2
  <1>4. TiposConsulta'
    <2>1. consultas' \in 0..Limite
      BY <1>1, ConstantesColeta DEF InvColeta, TiposConsulta
    <2> QED
      BY <1>1, <1>2, <1>3, <2>1 DEF InvColeta, TiposConsulta, varsPlano, varsLinhas
  <1>5. MotorCoerente'
    <2>1. DaCorrida' = DaCorrida
      BY <1>1 DEF DaCorrida, varsPlano
    <2> QED
      BY <1>1, <1>3, <2>1 DEF InvColeta, MotorCoerente, varsDisco, varsMundo
  <1>6. PassadaLida'
    BY <1>1, PassadaParada DEF varsLinhas
  <1>7. TiposMundo'
    BY <1>1, <1>2, MundoParado DEF InvColeta, TiposMundo, varsCentral, varsMundo
  <1> QED
    BY <1>1, <1>4, <1>5, <1>6, <1>7, DiscoParado, BancoParado DEF InvColeta, varsMundo

\* A document saved is the next one of the run, published, and in the index.
LEMMA GravarDocumentoMantem ==
    ASSUME InvColeta, GravarDocumento
    PROVE  InvColeta' /\ DaCorrida' = DaCorrida \cup {lido + 1} /\ lido + 1 \in Nsus /\ lido + 1 <= publicado
  <1>0. TypeOK /\ DaCorrida \subseteq disco
    BY InvColetaTipa
  <1>1. /\ fase = "baixando" /\ lido < ate /\ lido' = lido + 1 /\ disco' = disco \cup {lido + 1}
        /\ primeiro' = [primeiro EXCEPT ![alvo[lido + 1]] = IF @ = 0 THEN lido + 1 ELSE @]
        /\ UNCHANGED <<varsBanco, varsCentral, varsPlano, varsLinhas, varsLimite, varsMundo>>
        /\ UNCHANGED <<ate, consultas, vazios, fase, cancelado>>
    BY DEF GravarDocumento
  <1>2. lido + 1 \in Nsus /\ lido + 1 <= publicado /\ lido + 1 <= ate /\ lido + 1 \in 1..publicado
    <2>1. ate <= publicado
      BY <1>0, <1>1, Numeros DEF InvColeta, MotorCoerente
    <2> QED
      BY <1>0, <1>1, <2>1, Numeros DEF Nsus
  <1>3. DaCorrida' = DaCorrida \cup {lido + 1}
    BY <1>0, <1>1, <1>2, Numeros DEF DaCorrida, varsPlano
  <1>4. /\ alvo[lido + 1] \in Nsus /\ primeiro' \in [Nsus -> disco' \cup {0}]
        /\ \A m \in Nsus : primeiro'[m] = IF m = alvo[lido + 1] /\ primeiro[m] = 0 THEN lido + 1 ELSE primeiro[m]
    <2>1. primeiro \in [Nsus -> disco \cup {0}] /\ alvo[lido + 1] \in Nsus
      BY <1>0, <1>2, AlvoDe DEF TypeOK
    <2> QED
      BY <1>1, <2>1
  <1>5. TiposMundo'
    BY <1>1, <1>2, <1>4 DEF InvColeta, TiposMundo, varsCentral, varsLimite, varsMundo
  <1>6. TiposConsulta'
    <2>1. lido' \in inicio'..ate'
      BY <1>0, <1>1, <1>2, Numeros DEF varsPlano
    <2> QED
      BY <1>1, <2>1 DEF InvColeta, TiposConsulta, varsPlano, varsLinhas
  <1>7. DiscoIndexado'
    <2>1. alvo' = alvo
      BY <1>1 DEF varsMundo
    <2>2. \A n \in disco : n \in Nsus /\ alvo[n] \in Nsus
      BY <1>0, Numeros, AlvoDe
    <2>3. lido + 1 # 0
      BY <1>0, Numeros
    <2> QED
      BY <1>1, <1>4, <2>1, <2>2, <2>3 DEF InvColeta, DiscoIndexado
  <1>8. MotorCoerente'
    BY <1>0, <1>1, <1>3 DEF InvColeta, MotorCoerente, varsPlano, varsMundo
  <1>9. PassadaLida'
    <2> DEFINE l == passada.linhas
    <2>1. l \in Seq(Linha)
      BY <1>0 DEF TypeOK
    <2>2. \A k \in 1..Len(l) : l[k] \in Linha
      BY <2>1
    <2>3. \A k \in 1..Len(l) : l[k].nsu \in Nat
      BY <1>0, <2>2, Numeros DEF Linha
    <2>4. \A k \in 1..Len(l) : l[k].doc <= l[k].nsu /\ l[k].nsu <= lido
      BY DEF InvColeta, PassadaLida
    <2>5. passada' = passada /\ lido' = lido + 1 /\ lido \in Nat
      BY <1>0, <1>1, Numeros DEF varsLinhas
    <2>6. \A k \in 1..Len(l) : l[k].nsu <= lido + 1
      BY <2>3, <2>4, <2>5
    <2> QED
      BY <2>4, <2>5, <2>6 DEF PassadaLida
  <1>10. BancoCoerente'
    BY <1>1, BancoParado DEF varsMundo
  <1> QED
    BY <1>2, <1>3, <1>5, <1>6, <1>7, <1>8, <1>9, <1>10 DEF InvColeta

\* A pass that begins: rows of the run, from some row on.
LEMMA PassadaNova ==
    ASSUME InvColeta, NEW de \in Nat, de <= Len(Linhas), UNCHANGED lido,
           passada' = [linhas |-> SubSeq(Linhas, de + 1, Len(Linhas)), previstas |-> Previstas]
    PROVE  /\ passada' \in [linhas : Seq(Linha), previstas : SUBSET Nsus] /\ PassadaLida'
           /\ Len(passada'.linhas) = Len(Linhas) - de
           /\ \A k \in 1..Len(passada'.linhas) : passada'.linhas[k] = Linhas[de + k]
           /\ Len(Linhas) \in Nat
  <1> DEFINE l == passada'.linhas
  <1>0. TypeOK /\ DiscoIndexado /\ DaCorrida \subseteq disco
    BY InvColetaTipa DEF InvColeta
  <1>1. /\ Linhas \in Seq(Linha)
        /\ \A k \in 1..Len(Linhas) : Linhas[k].doc <= Linhas[k].nsu /\ Linhas[k].nsu <= lido
    BY <1>0, LinhasDaCorrida
  <1>2. Len(Linhas) \in Nat /\ \A k \in 1..Len(Linhas) : Linhas[k] \in Linha
    BY <1>1
  <1>3. l = SubSeq(Linhas, de + 1, Len(Linhas)) /\ passada'.previstas = Previstas
    OBVIOUS
  <1>4. /\ l \in Seq(Linha) /\ Len(l) = Len(Linhas) - de
        /\ \A k \in 1..(Len(Linhas) - de) : l[k] = Linhas[de + k]
    <2>1. \A i \in (de + 1)..Len(Linhas) : Linhas[i] \in Linha
      BY <1>2
    <2>2. de + 1 \in Int /\ Len(Linhas) \in Int /\ \A k \in Int : de + 1 + k - 1 = de + k
      BY <1>2
    <2>3. /\ l \in Seq(Linha)
          /\ Len(l) = IF de + 1 <= Len(Linhas) THEN Len(Linhas) - (de + 1) + 1 ELSE 0
          /\ \A i \in 1..(Len(Linhas) - (de + 1) + 1) : l[i] = Linhas[de + 1 + i - 1]
      BY <1>3, <2>1, <2>2, SubSeqProperties
    <2> QED
      BY <1>2, <2>2, <2>3
  <1>5. Previstas \in SUBSET Nsus
    BY <1>0, Numeros, AlvoDe DEF Previstas
  <1>6. passada' \in [linhas : Seq(Linha), previstas : SUBSET Nsus]
    BY <1>3, <1>4, <1>5
  <1>7. PassadaLida'
    <2>1. \A k \in 1..(Len(Linhas) - de) : de + k \in 1..Len(Linhas)
      BY <1>2
    <2> QED
      BY <1>1, <1>4, <2>1 DEF PassadaLida
  <1> QED
    BY <1>2, <1>4, <1>6, <1>7

\* A pass of the thread is made of rows of the run.
LEMMA LerIndiceMantem ==
    ASSUME InvColeta, LerIndice
    PROVE  InvColeta'
  <1>0. TypeOK
    BY InvColetaTipa
  <1>1. /\ fase = "baixando" /\ ~cancelado /\ linha < Len(Linhas)
        /\ passada' = [linhas |-> SubSeq(Linhas, linha + 1, Len(Linhas)), previstas |-> Previstas]
        /\ linha' = Len(Linhas)
        /\ UNCHANGED <<erros, detalhes, fase, cancelado, varsBanco, varsCentral, varsDisco,
                       varsMotor, varsPlano, varsLimite, varsMundo>>
    BY DEF LerIndice
  <1>2. linha \in Nat /\ UNCHANGED <<lido, ate, inicio>>
    BY <1>0, <1>1 DEF TypeOK, varsMotor, varsPlano
  <1>3. /\ passada' \in [linhas : Seq(Linha), previstas : SUBSET Nsus] /\ PassadaLida'
        /\ linha' \in Nat
    <2>1. linha <= Len(Linhas)
      <3>1. Len(Linhas) \in Nat
        BY <1>0, LinhasDaCorrida, InvColetaTipa DEF InvColeta
      <3> QED
        BY <1>1, <1>2, <3>1
    <2> QED
      BY <1>1, <1>2, <2>1, PassadaNova
  <1>4. TiposConsulta'
    BY <1>1, <1>2, <1>3 DEF InvColeta, TiposConsulta, varsMotor, varsPlano
  <1>5. MotorCoerente'
    <2>1. DaCorrida' = DaCorrida
      BY <1>2 DEF DaCorrida
    <2> QED
      BY <1>1, <1>2, <2>1 DEF InvColeta, MotorCoerente, varsDisco, varsMundo
  <1>6. TiposMundo'
    BY <1>1, MundoParado DEF InvColeta, TiposMundo, varsCentral, varsMundo, varsLimite
  <1> QED
    BY <1>1, <1>3, <1>4, <1>5, <1>6, DiscoParado, BancoParado DEF InvColeta, varsMundo

\* A row goes by: the pass has the others.
LEMMA PassadaAvanca ==
    ASSUME InvColeta, passada.linhas # <<>>, AvancarPassada, UNCHANGED lido
    PROVE  /\ passada' \in [linhas : Seq(Linha), previstas : SUBSET Nsus] /\ PassadaLida'
           /\ Len(passada.linhas) \in Nat /\ Len(passada'.linhas) = Len(passada.linhas) - 1
           /\ \A k \in 1..Len(passada'.linhas) : passada'.linhas[k] = passada.linhas[k + 1]
           /\ Head(passada.linhas) = passada.linhas[1] /\ 1 \in 1..Len(passada.linhas)
           /\ Head(passada.linhas) \in Linha
           /\ Head(passada.linhas).doc <= Head(passada.linhas).nsu /\ Head(passada.linhas).nsu <= lido
  <1> DEFINE l == passada.linhas
  <1>1. l \in Seq(Linha) /\ passada \in [linhas : Seq(Linha), previstas : SUBSET Nsus]
    BY DEF InvColeta, TiposConsulta
  <1>2. passada'.linhas = Tail(l) /\ passada'.previstas = passada.previstas
    BY <1>1 DEF AvancarPassada
  <1>3. /\ Head(l) \in Linha /\ Tail(l) \in Seq(Linha) /\ Len(Tail(l)) = Len(l) - 1
        /\ \A i \in 1..Len(Tail(l)) : Tail(l)[i] = l[i + 1]
    BY <1>1, HeadTailProperties
  <1>4. Len(l) \in Nat /\ Len(l) # 0 /\ Head(l) = l[1]
    BY <1>1
  <1>5. passada' \in [linhas : Seq(Linha), previstas : SUBSET Nsus]
    BY <1>1, <1>2, <1>3 DEF AvancarPassada
  <1>6. PassadaLida'
    BY <1>2, <1>3, <1>4 DEF InvColeta, PassadaLida
  <1>7. 1 \in 1..Len(l)
    BY <1>4
  <1> QED
    BY <1>2, <1>3, <1>4, <1>5, <1>6, <1>7 DEF InvColeta, PassadaLida

\* One row of a pass, taken or not.
LEMMA LinhaMantem ==
    ASSUME InvColeta, passada.linhas # <<>>, AvancarPassada, fase \in {"baixando", "ingerindo"},
           UNCHANGED <<linha, fase, cancelado, varsCentral, varsDisco, varsMotor, varsPlano, varsMundo>>,
           erros' \in Nat, detalhes' \subseteq Linha, IsFiniteSet(detalhes'),
           Cardinality(detalhes') <= MaxDetalhes,
           UNCHANGED <<interrupcoes, vazias, sincronizacoes>>, falhas' \in 0..MaxFalhas,
           BancoCoerente'
    PROVE  InvColeta'
  <1>1. UNCHANGED <<lido, ate, inicio, alvo, publicado>>
    BY DEF varsMotor, varsPlano, varsMundo
  <1>2. passada' \in [linhas : Seq(Linha), previstas : SUBSET Nsus] /\ PassadaLida'
    BY <1>1, PassadaAvanca
  <1>3. TiposConsulta'
    BY <1>1, <1>2 DEF InvColeta, TiposConsulta, varsMotor, varsPlano
  <1>4. MotorCoerente'
    <2>1. DaCorrida' = DaCorrida
      BY <1>1 DEF DaCorrida
    <2> QED
      BY <1>1, <2>1 DEF InvColeta, MotorCoerente, varsDisco
  <1>5. TiposMundo'
    BY <1>1, MundoParado DEF InvColeta, TiposMundo, varsCentral, varsMundo
  <1> QED
    BY <1>1, <1>2, <1>3, <1>4, <1>5, DiscoParado DEF InvColeta

\* A row ingested, by the thread or at the end, is taken.
LEMMA IngerirLinhaMantem ==
    ASSUME InvColeta, IngerirIncremental \/ IngerirFinal
    PROVE  InvColeta' /\ \E r \in Linha : r = Head(passada.linhas) /\ Toma(r)
  <1>1. /\ fase \in {"baixando", "ingerindo"} /\ passada.linhas # <<>> /\ AvancarPassada
        /\ Ingerir(Head(passada.linhas), passada.previstas)
        /\ UNCHANGED <<linha, erros, detalhes, fase, cancelado, varsCentral, varsDisco, varsMotor,
                       varsPlano, varsLimite, varsMundo>>
    BY DEF IngerirIncremental, IngerirFinal
  <1>2. lido' = lido /\ alvo' = alvo
    BY <1>1 DEF varsMotor, varsMundo
  <1>3. PICK r \in Linha : r = Head(passada.linhas) /\ r.doc <= r.nsu
    BY <1>1, <1>2, PassadaAvanca
  <1>4. Ingerir(r, passada.previstas)
    BY <1>1, <1>3
  <1>5. PICK previstas : previstas = passada.previstas
    OBVIOUS
  <1>6. Ingerir(r, previstas)
    BY <1>4, <1>5
  <1>7. Toma(r)
    BY <1>2, <1>3, <1>6, IngerirToma
  <1> QED
    BY <1>1, <1>3, <1>7, LinhaMantem DEF Toma, InvColeta, TiposConsulta, TiposMundo, varsLimite

\* A row that fails is counted and leaves the database alone; the details stay few.
LEMMA FalharMantem ==
    ASSUME InvColeta, FalharIncremental \/ FalharFinal
    PROVE  InvColeta' /\ falhas' # 0
  <1>1. /\ fase \in {"baixando", "ingerindo"} /\ passada.linhas # <<>> /\ AvancarPassada
        /\ falhas < MaxFalhas /\ falhas' = falhas + 1
        /\ UNCHANGED <<linha, fase, cancelado, varsBanco, varsCentral, varsDisco, varsMotor,
                       varsPlano, interrupcoes, vazias, sincronizacoes, varsMundo>>
    BY DEF FalharIncremental, FalharFinal
  <1>2. falhas' \in 0..MaxFalhas /\ falhas' # 0
    BY <1>1, ConstantesColeta DEF InvColeta, TiposMundo
  <1>3. erros \in Nat /\ detalhes \subseteq Linha /\ IsFiniteSet(detalhes) /\ Cardinality(detalhes) <= MaxDetalhes
    BY DEF InvColeta, TiposConsulta
  <1>4. /\ erros' \in Nat /\ detalhes' \subseteq Linha /\ IsFiniteSet(detalhes')
        /\ Cardinality(detalhes') <= MaxDetalhes
    <2>1. CASE FalharIncremental
      BY <1>3, <2>1 DEF FalharIncremental
    <2>2. CASE FalharFinal
      <3> DEFINE r == Head(passada.linhas)
      <3>1. r \in Linha
        BY <1>1, PassadaAvanca DEF varsMotor
      <3>2. erros' = erros + 1 /\ GuardarErro(r)
        BY <2>2 DEF FalharFinal
      <3>3. CASE Cardinality(detalhes) < MaxDetalhes
        <4>1. detalhes' = detalhes \cup {r}
          BY <3>2, <3>3 DEF GuardarErro
        <4>2. IsFiniteSet(detalhes \cup {r})
              /\ Cardinality(detalhes \cup {r}) = IF r \in detalhes THEN Cardinality(detalhes) ELSE Cardinality(detalhes) + 1
          BY <1>3, FS_AddElement
        <4>3. Cardinality(detalhes) \in Nat /\ MaxDetalhes \in Nat
          BY <1>3, FS_CardinalityType, ConstantesColeta
        <4>4. Cardinality(detalhes') <= MaxDetalhes
          BY <3>3, <4>1, <4>2, <4>3
        <4> QED
          BY <1>3, <3>1, <3>2, <4>1, <4>2, <4>4
      <3>4. CASE ~(Cardinality(detalhes) < MaxDetalhes)
        BY <1>3, <3>2, <3>4 DEF GuardarErro
      <3> QED
        BY <3>3, <3>4
    <2> QED
      BY <2>1, <2>2
  <1>5. BancoCoerente'
    BY <1>1, BancoParado DEF varsMundo
  <1> QED
    BY <1>1, <1>2, <1>4, <1>5, LinhaMantem

\* The end of the engine leaves a pass with every row, or nothing.
LEMMA TerminarMotorMantem ==
    ASSUME InvColeta, TerminarMotor
    PROVE  InvColeta'
  <1>0. TypeOK
    BY InvColetaTipa
  <1>1. /\ fase = "baixando" /\ lido = ate
        /\ UNCHANGED <<varsBanco, varsCentral, varsDisco, varsLimite, varsMundo>>
    BY DEF TerminarMotor
  <1>2. TiposConsulta' /\ MotorCoerente' /\ PassadaLida'
    <2>1. CASE Parar
      BY <2>1, PararMantem
    <2>2. CASE ~cancelado /\ ~Parar
      <3>1. /\ fase' = "ingerindo" /\ passada' = [linhas |-> Linhas, previstas |-> Previstas]
            /\ UNCHANGED <<linha, erros, detalhes, cancelado, varsMotor, varsPlano>>
        BY <2>2 DEF TerminarMotor
      <3>2. UNCHANGED <<lido, ate, inicio, publicado>>
        BY <1>1, <3>1 DEF varsMotor, varsPlano, varsMundo
      <3>3. Linhas \in Seq(Linha)
        BY <1>0, LinhasDaCorrida, InvColetaTipa DEF InvColeta
      <3>4. /\ passada' = [linhas |-> SubSeq(Linhas, 0 + 1, Len(Linhas)), previstas |-> Previstas]
            /\ 0 <= Len(Linhas)
        <4>1. Linhas = SubSeq(Linhas, 1, Len(Linhas)) /\ Len(Linhas) \in Nat
          BY <3>3, SubSeqFull
        <4>2. 0 + 1 = 1
          OBVIOUS
        <4> QED
          BY <3>1, <4>1, <4>2
      <3>5. passada' \in [linhas : Seq(Linha), previstas : SUBSET Nsus] /\ PassadaLida'
        BY <3>2, <3>4, PassadaNova
      <3>6. TiposConsulta'
        BY <3>1, <3>2, <3>5 DEF InvColeta, TiposConsulta, varsMotor, varsPlano, Fases
      <3>7. MotorCoerente'
        <4>1. DaCorrida' = DaCorrida
          BY <3>2 DEF DaCorrida
        <4> QED
          BY <1>1, <3>1, <3>2, <4>1 DEF InvColeta, MotorCoerente, varsDisco
      <3> QED
        BY <3>5, <3>6, <3>7
    <2> QED
      BY <2>1, <2>2 DEF TerminarMotor
  <1>3. TiposMundo'
    BY <1>1, MundoParado DEF InvColeta, TiposMundo, varsCentral, varsMundo, varsLimite
  <1> QED
    BY <1>1, <1>2, <1>3, DiscoParado, BancoParado DEF InvColeta, varsMundo

\* The end of a consulta writes the central NSU and leaves nothing of itself.
LEMMA FechoMantem ==
    ASSUME InvColeta, Fecho
    PROVE  InvColeta'
  <1> DEFINE final == LimitarPorFalhas(Max({ate, MaiorNsuImportado}))
  <1>1. CASE Confirmar
    <2>1. /\ fase = "ingerindo" /\ passada.linhas = <<>>
          /\ IF final = 0 THEN UNCHANGED central ELSE Avancar(final)
          /\ UNCHANGED <<reconciliada, varsBanco, varsDisco, varsLimite, varsMundo>>
      BY <1>1 DEF Confirmar
    <2>2. TiposConsulta' /\ MotorCoerente' /\ PassadaLida'
      <3>1. CASE Parar
        BY <3>1, PararMantem
      <3>2. CASE fase' = "marcando" /\ UNCHANGED <<cancelado, varsPlano, varsLinhas, varsMotor>>
        <4>1. DaCorrida' = DaCorrida
          BY <3>2 DEF DaCorrida, varsPlano, varsMotor
        <4>2. MotorCoerente'
          BY <2>1, <3>2, <4>1 DEF InvColeta, MotorCoerente, varsDisco, varsPlano, varsMotor, varsLinhas, varsMundo
        <4>3. TiposConsulta'
          BY <3>2 DEF InvColeta, TiposConsulta, varsPlano, varsMotor, varsLinhas, Fases
        <4> QED
          BY <3>2, <4>2, <4>3, PassadaParada DEF varsLinhas, varsMotor
      <3> QED
        BY <1>1, <3>1, <3>2 DEF Confirmar
    <2>3. central' \in Alcance
      BY <2>1, FinalDaConsulta, AvancarTipo DEF InvColeta, TiposMundo
    <2>4. TiposMundo'
      BY <2>1, <2>3, MundoParado DEF InvColeta, TiposMundo, varsMundo, varsLimite
    <2> QED
      BY <2>1, <2>2, <2>4, DiscoParado, BancoParado DEF InvColeta, varsMundo
  <1>2. CASE MarcarReconciliacao
    <2>1. /\ reconciliada' = TRUE /\ Parar
          /\ UNCHANGED <<central, varsDisco, varsBanco, varsLimite, varsMundo>>
      BY <1>2 DEF MarcarReconciliacao
    <2>2. TiposConsulta' /\ MotorCoerente' /\ PassadaLida'
      BY <2>1, PararMantem
    <2>3. TiposMundo'
      BY <2>1, MundoParado DEF InvColeta, TiposMundo, varsMundo, varsLimite
    <2> QED
      BY <2>1, <2>2, <2>3, DiscoParado, BancoParado DEF InvColeta, varsMundo
  <1> QED
    BY <1>1, <1>2 DEF Fecho

\* A step outside the consulta.
LEMMA ForaMantem ==
    ASSUME InvColeta, UNCHANGED <<alvo, varsDisco, fase, varsMotor, varsPlano, varsLinhas>>,
           cancelado' \in BOOLEAN, fase = "parado" => cancelado' = cancelado,
           TiposMundo', BancoCoerente', publicado' \in Nat, publicado <= publicado'
    PROVE  InvColeta'
  <1>1. UNCHANGED <<lido, ate, inicio, passada>>
    BY DEF varsMotor, varsPlano, varsLinhas
  <1>2. TiposConsulta'
    BY DEF InvColeta, TiposConsulta, varsMotor, varsPlano, varsLinhas
  <1>3. MotorCoerente'
    <2>1. DaCorrida' = DaCorrida
      BY <1>1 DEF DaCorrida
    <2>2. ate = inicio \/ ate <= publicado'
      BY InvColetaTipa, Numeros DEF InvColeta, MotorCoerente
    <2>3. fase = "parado" => Parada'
      BY DEF InvColeta, MotorCoerente, Parada, varsMotor, varsPlano, varsLinhas
    <2> QED
      BY <1>1, <2>1, <2>2, <2>3 DEF InvColeta, MotorCoerente, varsDisco
  <1> QED
    BY <1>1, <1>2, <1>3, DiscoParado, PassadaParada DEF InvColeta

\* Publications, nights, cancellations, crashes and requests for events.
LEMMA MundoMantem ==
    ASSUME InvColeta, Mundo
    PROVE  InvColeta'
  <1>0. TypeOK /\ publicado \in Nat /\ publicado <= publicado /\ cancelado \in BOOLEAN
    <2>1. TypeOK
      BY InvColetaTipa
    <2>2. publicado \in Nat
      BY <2>1, Numeros
    <2>3. publicado <= publicado
      BY <2>2
    <2>4. cancelado \in BOOLEAN
      BY <2>1 DEF TypeOK
    <2> QED
      BY <2>1, <2>2, <2>3, <2>4
  <1>1. CASE Publicar
    <2>1. /\ publicado' = publicado + 1 /\ publicado < MaxNsu
          /\ UNCHANGED <<alvo, janela, fase, cancelado, varsBanco, varsCentral, varsDisco, varsMotor,
                         varsPlano, varsLinhas, varsLimite>>
      BY <1>1 DEF Publicar
    <2>2. publicado' \in 0..MaxNsu /\ publicado <= publicado' /\ publicado' \in Nat
      BY <1>0, <2>1, ConstantesColeta
    <2>3. disco \subseteq 1..publicado'
      BY <1>0, <2>2 DEF TypeOK
    <2>4. TiposMundo'
      BY <2>1, <2>2, <2>3 DEF InvColeta, TiposMundo, varsCentral, varsDisco, varsLimite
    <2> QED
      BY <1>0, <2>1, <2>2, <2>4, BancoParado, ForaMantem
  <1>2. CASE AbrirJanela
    <2>1. /\ janela' = TRUE /\ reconciliada' = FALSE
          /\ UNCHANGED <<alvo, publicado, central, fase, cancelado, varsBanco, varsDisco, varsMotor,
                         varsPlano, varsLinhas, varsLimite>>
      BY <1>2 DEF AbrirJanela
    <2>2. TiposMundo'
      BY <2>1, MundoParado DEF InvColeta, TiposMundo, varsLimite
    <2> QED
      BY <1>0, <2>1, <2>2, BancoParado, ForaMantem
  <1>3. CASE FecharJanela
    <2>1. /\ janela' = FALSE
          /\ UNCHANGED <<alvo, publicado, fase, cancelado, varsBanco, varsCentral, varsDisco, varsMotor,
                         varsPlano, varsLinhas, varsLimite>>
      BY <1>3 DEF FecharJanela
    <2>2. TiposMundo'
      BY <2>1, MundoParado DEF InvColeta, TiposMundo, varsCentral, varsLimite
    <2> QED
      BY <1>0, <2>1, <2>2, BancoParado, ForaMantem
  <1>4. CASE Cancelar
    <2>1. /\ cancelado' = TRUE /\ fase # "parado" /\ interrupcoes < MaxInterrupcoes
          /\ interrupcoes' = interrupcoes + 1
          /\ UNCHANGED <<fase, varsBanco, varsCentral, varsDisco, varsMotor, varsPlano, varsLinhas,
                         vazias, falhas, sincronizacoes, varsMundo>>
      BY <1>4 DEF Cancelar
    <2>2. interrupcoes' \in 0..MaxInterrupcoes
      BY <2>1, ConstantesColeta DEF InvColeta, TiposMundo
    <2>3. TiposMundo'
      BY <2>1, <2>2, MundoParado DEF InvColeta, TiposMundo, varsCentral, varsMundo
    <2> QED
      BY <1>0, <2>1, <2>3, BancoParado, ForaMantem DEF varsMundo
  <1>5. CASE Interromper
    <2>1. /\ interrupcoes < MaxInterrupcoes /\ interrupcoes' = interrupcoes + 1 /\ Parar
          /\ UNCHANGED <<varsDisco, varsBanco, varsCentral, vazias, falhas, sincronizacoes, varsMundo>>
      BY <1>5 DEF Interromper
    <2>2. interrupcoes' \in 0..MaxInterrupcoes
      BY <2>1, ConstantesColeta DEF InvColeta, TiposMundo
    <2>3. TiposMundo'
      BY <2>1, <2>2, MundoParado DEF InvColeta, TiposMundo, varsCentral, varsMundo
    <2>4. TiposConsulta' /\ MotorCoerente' /\ PassadaLida'
      BY <2>1, PararMantem
    <2> QED
      BY <2>1, <2>3, <2>4, DiscoParado, BancoParado DEF InvColeta, varsMundo
  <1>6. ASSUME NEW m \in Nsus, SincronizarEventos(m)
        PROVE  InvColeta'
    <2>1. /\ sincronizacoes < MaxSincronizacoes /\ sincronizacoes' = sincronizacoes + 1
          /\ UNCHANGED <<fase, cancelado, varsCentral, varsDisco, varsMotor, varsPlano, varsLinhas,
                         interrupcoes, vazias, falhas, varsMundo>>
      BY <1>6 DEF SincronizarEventos
    <2>2. sincronizacoes' \in 0..MaxSincronizacoes
      BY <2>1, ConstantesColeta DEF InvColeta, TiposMundo
    <2>3. TiposMundo'
      BY <2>1, <2>2, MundoParado DEF InvColeta, TiposMundo, varsCentral, varsMundo
    <2> QED
      BY <1>0, <1>6, <2>1, <2>3, SincronizarMantem, ForaMantem DEF varsMundo
  <1> QED
    BY <1>1, <1>2, <1>3, <1>4, <1>5, <1>6 DEF Mundo

\* The invariant holds at the start, when nothing is stored and nothing runs.
LEMMA InitColeta ==
    ASSUME Init
    PROVE  InvColeta
  <1>1. TiposMundo
    <2>1. 0 \in Alcance
      BY ConstantesColeta DEF Alcance
    <2>2. disco \subseteq 1..publicado /\ primeiro \in [Nsus -> disco \cup {0}]
      BY DEF Init
    <2>3. /\ publicado \in 0..MaxNsu /\ interrupcoes \in 0..MaxInterrupcoes /\ vazias \in 0..MaxVazias
          /\ falhas \in 0..MaxFalhas /\ sincronizacoes \in 0..MaxSincronizacoes
      BY ConstantesColeta DEF Init
    <2> QED
      BY <2>1, <2>2, <2>3 DEF Init, TiposMundo
  <1>2. /\ Importadas = {} /\ DaCorrida = {}
    BY ConstantesColeta DEF Init, Parada, Importadas, DaCorrida, Nsus
  <1>3. /\ <<>> \in Seq(Linha) /\ Len(<<>>) = 0 /\ IsFiniteSet({}) /\ Cardinality({}) = 0
    BY FS_EmptySet
  <1>4. passada \in [linhas : Seq(Linha), previstas : SUBSET Nsus] /\ passada.linhas = <<>>
    BY <1>3 DEF Init, Parada, SemPassada
  <1>5. TiposConsulta
    <2>1. inicio = 0 /\ ate = 0 /\ lido \in inicio..ate /\ consultas \in 0..Limite /\ vazios \in 0..MaxVazios
      BY ConstantesColeta DEF Init, Parada
    <2>2. 0 \in Alcance
      BY ConstantesColeta DEF Alcance
    <2>3. detalhes \subseteq Linha /\ IsFiniteSet(detalhes) /\ Cardinality(detalhes) <= MaxDetalhes
      BY <1>3, ConstantesColeta DEF Init, Parada
    <2> QED
      BY <1>4, <2>1, <2>2, <2>3 DEF Init, Parada, TiposConsulta, Fases
  <1>6. BancoCoerente
    <2>1. ultimoNsu \in [Nsus -> 0..MaxNsu]
      BY ConstantesColeta DEF Init
    <2> QED
      BY <1>2, <2>1 DEF Init, BancoCoerente, EventoJaVale
  <1>7. DiscoIndexado
    BY DEF Init, DiscoIndexado
  <1>8. MotorCoerente
    BY <1>2 DEF Init, Parada, MotorCoerente
  <1>9. PassadaLida
    BY <1>3, <1>4 DEF PassadaLida
  <1> QED
    BY <1>1, <1>5, <1>6, <1>7, <1>8, <1>9 DEF InvColeta

\* So does every step.
LEMMA PassoMantem ==
    ASSUME InvColeta, [Next]_vars
    PROVE  InvColeta'
  <1>1. CASE Inicio
    BY <1>1, InicioMantem
  <1>2. CASE Motor
    BY <1>2, ReceberMantem, GravarDocumentoMantem, TerminarMotorMantem DEF Motor
  <1>3. CASE Ingestao
    BY <1>3, LerIndiceMantem, IngerirLinhaMantem, FalharMantem DEF Ingestao
  <1>4. CASE Fecho
    BY <1>4, FechoMantem
  <1>5. CASE Mundo
    BY <1>5, MundoMantem
  <1>6. CASE UNCHANGED vars
    <2>1. UNCHANGED <<varsBanco, varsCentral, varsDisco, varsMotor, varsPlano, varsLinhas, varsLimite,
                      varsMundo, fase, cancelado>>
      BY <1>6 DEF vars
    <2>2. TiposMundo'
      BY <2>1, MundoParado DEF InvColeta, TiposMundo, varsCentral, varsLimite, varsMundo
    <2>3. publicado \in Nat /\ publicado <= publicado /\ cancelado \in BOOLEAN
      BY InvColetaTipa, Numeros DEF TypeOK
    <2> QED
      BY <2>1, <2>2, <2>3, BancoParado, ForaMantem DEF varsMundo
  <1> QED
    BY <1>1, <1>2, <1>3, <1>4, <1>5, <1>6 DEF Next

\* What the consultas store is well formed, and coherent, whatever interleaves and
\* whatever is interrupted.
THEOREM InvarianciaColeta == Spec => []InvColeta
  BY InitColeta, PassoMantem, PTL DEF Spec

\* Every variable of the model keeps its type: in particular only notas are imported,
\* only imported notas are cancelled, and no more errors are detailed than the code
\* keeps (legacy_processing_service.py).
THEOREM TiposDaColeta == Spec => []TypeOK
  BY InvColetaTipa, InvarianciaColeta, PTL

\* An event and its nota leave the nota cancelled, in whatever order and by whichever
\* path they came: thread, final ingestion, or the request for the events of the nota.
THEOREM EventoENotaConcordam == Spec => []EventoJaVale
  BY InvColetaTipa, InvarianciaColeta, PTL

-----------------------------------------------------------------------------
(* No document is left behind.                                             *)

\* A sequence of the naturals after a up to b, in order, is that interval.
LEMMA OrdemDeIntervalo ==
    ASSUME NEW a \in Nat, NEW b \in Nat, a <= b, NEW s \in [1..(b - a) -> (a + 1)..b],
           \A i, j \in 1..(b - a) : i < j => s[i] < s[j],
           \A x \in (a + 1)..b : \E i \in 1..(b - a) : s[i] = x
    PROVE  \A k \in 1..(b - a) : s[k] = a + k
  <1> DEFINE T == {k \in 1..(b - a) : s[k] # a + k}
  <1>1. SUFFICES ASSUME T # {} PROVE FALSE
    OBVIOUS
  <1>2. T \in SUBSET Nat
    OBVIOUS
  <1>3. PICK k \in T : \A j \in T : k <= j
    BY <1>1, <1>2, HaMenor
  <1>4. k \in 1..(b - a) /\ s[k] # a + k /\ s[k] \in (a + 1)..b /\ a + k \in (a + 1)..b
    BY <1>3
  <1>5. \A j \in 1..(b - a) : j < k => s[j] = a + j
    BY <1>3, <1>4
  <1>6. PICK i \in 1..(b - a) : s[i] = a + k
    BY <1>4
  <1>7. k < i
    <2>1. i # k
      BY <1>4, <1>6
    <2>2. ~(i < k)
      BY <1>4, <1>5, <1>6
    <2> QED
      BY <1>4, <2>1, <2>2
  <1>8. s[k] < a + k
    BY <1>4, <1>6, <1>7
  <1>9. PICK j \in 1..(b - a) : j = s[k] - a
    BY <1>4, <1>8
  <1>10. j < k /\ s[j] = s[k]
    <2>1. j < k
      BY <1>4, <1>8, <1>9
    <2>2. s[j] = a + j
      BY <1>5, <2>1
    <2> QED
      BY <1>4, <1>9, <2>1, <2>2
  <1>11. s[j] < s[k]
    BY <1>4, <1>9, <1>10
  <1> QED
    BY <1>4, <1>10, <1>11

\* With notas only, the rows of the run are its documents, one after the other.
LEMMA LinhasSoNotas ==
    ASSUME InvColeta, SoNotas, \A m \in Nsus : primeiro[m] # 0 => primeiro[m] = m
    PROVE  /\ Len(Linhas) = lido - inicio
           /\ \A k \in 1..(lido - inicio) : Linhas[k] = [doc |-> inicio + k, nsu |-> inicio + k]
  <1> DEFINE chaves == {alvo[n] : n \in DaCorrida}
             Ultimo(m) == Max({n \in DaCorrida : alvo[n] = m})
             Mostra(m) == IF m \in disco THEN m ELSE Ultimo(m)
             soltos == {n \in DaCorrida : ~EhNota(n) /\ n # Mostra(alvo[n])}
             ordem == EmOrdem(chaves, primeiro)
             fora == EmOrdem(soltos, [n \in Nsus |-> n])
             A == [k \in DOMAIN ordem |-> [doc |-> Mostra(ordem[k]), nsu |-> Ultimo(ordem[k])]]
             B == [k \in DOMAIN fora |-> [doc |-> fora[k], nsu |-> fora[k]]]
             N == lido - inicio
  <1>0. TypeOK /\ DiscoIndexado /\ DaCorrida \subseteq disco
    BY InvColetaTipa DEF InvColeta
  <1>1. Linhas = A \o B
    BY DEF Linhas
  <1>2. \A n \in disco : n \in Nsus /\ alvo[n] = n
    <2>1. disco \subseteq 1..publicado
      BY <1>0 DEF TypeOK
    <2> QED
      BY <1>0, <2>1, Numeros DEF SoNotas, EhNota
  <1>3. chaves = DaCorrida
    BY <1>0, <1>2
  <1>4. DaCorrida = (inicio + 1)..lido /\ N \in Nat /\ inicio \in Nat /\ lido \in Nat /\ inicio <= lido
    <2>1. lido = inicio \/ lido <= MaxNsu
      BY <1>0, Numeros DEF InvColeta, MotorCoerente
    <2> QED
      BY <1>0, <2>1, Numeros DEF DaCorrida, Nsus
  <1>5. Cardinality(chaves) = N
    <2>1. Cardinality((inicio + 1)..lido) = IF inicio + 1 > lido THEN 0 ELSE lido - (inicio + 1) + 1
      BY <1>4, FS_Interval
    <2>2. (IF inicio + 1 > lido THEN 0 ELSE lido - (inicio + 1) + 1) = N
      BY <1>4
    <2>3. chaves = (inicio + 1)..lido
      BY <1>3, <1>4
    <2> HIDE DEF chaves
    <2> QED
      BY <2>1, <2>2, <2>3
  <1>6. \A m \in DaCorrida : Ultimo(m) = m /\ Mostra(m) = m
    <2> TAKE m \in DaCorrida
    <2>1. Ultimo(m) \in DaCorrida /\ alvo[Ultimo(m)] = m
      BY <1>0, <1>3, UltimoDe
    <2> HIDE DEF Ultimo
    <2> QED
      BY <1>0, <1>2, <2>1
  <1>7. soltos = {}
    BY <1>0, <1>2 DEF EhNota
  <1>8. /\ ordem \in [1..N -> chaves]
        /\ \A i, j \in 1..N : i < j => primeiro[ordem[i]] < primeiro[ordem[j]]
        /\ \A x \in chaves : \E i \in 1..N : ordem[i] = x
    <2>1. chaves \in SUBSET Nsus
      BY <1>0, AlvoDe, Numeros
    <2>2. \A x, y \in chaves : primeiro[x] = primeiro[y] => x = y
      BY <1>0, LugaresDistintos
    <2> HIDE DEF N, chaves
    <2>3. /\ ordem \in [1..Cardinality(chaves) -> chaves]
          /\ \A i, j \in 1..Cardinality(chaves) : i < j => primeiro[ordem[i]] < primeiro[ordem[j]]
          /\ \A x \in chaves : \E i \in 1..Cardinality(chaves) : ordem[i] = x
      BY <1>0, <2>1, <2>2, Numeros, EmOrdemOrdena
    <2> QED
      BY <1>5, <2>3
  <1>9. \A m \in DaCorrida : primeiro[m] = m
    BY <1>0, <1>2 DEF DiscoIndexado
  <1>10. \A k \in 1..N : ordem[k] = inicio + k
    <2>1. ordem \in [1..N -> (inicio + 1)..lido] /\ \A x \in (inicio + 1)..lido : \E i \in 1..N : ordem[i] = x
      BY <1>3, <1>4, <1>8
    <2>2. \A i, j \in 1..N : i < j => ordem[i] < ordem[j]
      <3> HIDE DEF N, ordem, chaves
      <3> QED
        BY <1>3, <1>8, <1>9
    <2> HIDE DEF ordem
    <2> QED
      BY <1>4, <2>1, <2>2, OrdemDeIntervalo
  <1>11. /\ A \in Seq(Linha) /\ Len(A) = N
         /\ \A k \in 1..N : A[k] = [doc |-> inicio + k, nsu |-> inicio + k]
    <2> HIDE DEF ordem, Ultimo, Mostra, chaves
    <2>1. \A k \in 1..N : ordem[k] \in DaCorrida /\ ordem[k] \in Nsus
      BY <1>0, <1>3, <1>8, Numeros
    <2>2. DOMAIN ordem = 1..N
      BY <1>8
    <2>3. \A k \in 1..N : A[k] = [doc |-> ordem[k], nsu |-> ordem[k]]
      BY <1>6, <2>1, <2>2
    <2>4. A \in [1..N -> Linha]
      BY <1>6, <2>1, <2>2 DEF Linha
    <2>5. \A k \in 1..N : A[k] = [doc |-> inicio + k, nsu |-> inicio + k]
      BY <1>10, <2>3
    <2>6. N \in Nat
      BY <1>4
    <2> HIDE DEF A, N
    <2>7. A \in Seq(Linha) /\ Len(A) = N
      BY <2>4, <2>6
    <2> QED
      BY <2>5, <2>7
  <1>12. B \in Seq(Linha) /\ Len(B) = 0
    <2>1. {} \in SUBSET Nsus /\ [n \in Nsus |-> n] \in [Nsus -> 0..MaxNsu]
      BY <1>0, Numeros
    <2>2. Cardinality({}) = 0
      BY FS_EmptySet
    <2>3. EmOrdem({}, [n \in Nsus |-> n]) \in [1..Cardinality({}) -> {}]
      BY <2>1, EmOrdemOrdena
    <2>4. DOMAIN fora = 1..0
      BY <1>7, <2>2, <2>3
    <2>5. B \in [1..0 -> Linha]
      <3> HIDE DEF fora
      <3> QED
        BY <2>4
    <2> QED
      BY <2>5
  <1>13. Len(A \o B) = N /\ \A k \in 1..N : (A \o B)[k] = A[k]
    <2> HIDE DEF A, B
    <2> QED
      BY <1>4, <1>11, <1>12, ConcatProperties
  <1> QED
    BY <1>1, <1>11, <1>13

\* What Contiguo says of a quiet history, and NaOrdem of one with notas only.
LacunaDe == Contiguo /\ (SoNotas => NaOrdem)

\* A step in a quiet history, seen from both sides.
PassoTranquilo ==
    /\ InvColeta /\ InvColeta'
    /\ Tranquilo /\ Tranquilo'
    /\ LacunaDe
    /\ SoNotas' => SoNotas

\* Every document the engine has passed is on disk.
LEMMA LidoNoDisco ==
    ASSUME InvColeta, Contiguo, fase # "parado"
    PROVE  \A n \in Nsus : n <= lido => n \in disco
  <1> TAKE n \in Nsus
  <1>1. CASE n <= inicio
    BY <1>1 DEF Contiguo
  <1>2. CASE ~(n <= inicio)
    BY <1>2, InvColetaTipa, Numeros DEF DaCorrida
  <1> QED
    BY <1>1, <1>2

\* A step that leaves alone what the argument is about.
LEMMA QuietoSemLacuna ==
    ASSUME PassoTranquilo, UNCHANGED <<varsBanco, central, varsDisco, alvo, fase, inicio, lido, linha, passada, erros>>,
           cancelado' => interrupcoes' # 0
    PROVE  LacunaDe'
  <1> USE DEF PassoTranquilo, LacunaDe
  <1>1. Importadas' = Importadas /\ \A n \in Nsus : Ingerido(n)' <=> Ingerido(n)
    BY BancoParado
  <1>2. UNCHANGED <<ultimoNsu, disco, primeiro>>
    BY DEF varsBanco, varsDisco
  <1>3. \A n \in Nsus : Alcanca(n)' <=> Alcanca(n)
    BY <1>1, <1>2 DEF Alcanca
  <1>4. Fechado' <=> Fechado
    BY <1>1, <1>3 DEF Fechado
  <1>5. DaCorrida' = DaCorrida /\ FimDaPassada' = FimDaPassada /\ DaCorrida \subseteq Nsus
    BY DEF DaCorrida, FimDaPassada
  <1>6. Contiguo'
    BY <1>1, <1>2, <1>3, <1>4, <1>5 DEF Contiguo
  <1>7. SoNotas' => NaOrdem'
    BY <1>1, <1>4, <1>5 DEF NaOrdem
  <1> QED
    BY <1>6, <1>7

\* A consulta that ends with nothing missing leaves nothing missing.
LEMMA PararSemLacuna ==
    ASSUME PassoTranquilo, Parar, UNCHANGED <<varsBanco, varsDisco, alvo>>, Fechado'
    PROVE  LacunaDe'
  <1> USE DEF PassoTranquilo, LacunaDe
  <1>1. \A n \in Nsus : Ingerido(n)' <=> Ingerido(n)
    BY BancoParado
  <1>2. UNCHANGED <<disco, primeiro>>
    BY DEF varsDisco
  <1>3. fase' = "parado" /\ erros' = 0 /\ cancelado' = FALSE /\ inicio' = 0 /\ lido' = 0 /\ passada'.linhas = <<>>
    BY DEF Parar, SemPassada
  <1>4. Contiguo'
    BY <1>1, <1>2, <1>3 DEF Contiguo
  <1>5. NaOrdem'
    <2>1. FimDaPassada' = 0 /\ Len(passada'.linhas) = 0
      BY <1>3 DEF FimDaPassada
    <2>2. \A n \in Nsus : ~(n <= 0)
      BY InvColetaTipa, Numeros
    <2> QED
      BY <1>3, <2>1, <2>2 DEF NaOrdem
  <1> QED
    BY <1>4, <1>5

\* A consulta that starts no later than what is covered.
LEMMA ComecarSemLacuna ==
    ASSUME PassoTranquilo, NEW nsu \in Alcance, NEW funda, NEW naNoite, Comecar(nsu, funda, naNoite),
           \A n \in Nsus : n <= nsu => Alcanca(n)
    PROVE  LacunaDe'
  <1> USE DEF PassoTranquilo, LacunaDe
  <1>0. TypeOK /\ nsu \in Nat /\ central \in Nat
    BY InvColetaTipa, Numeros DEF Alcance
  <1>1. /\ fase = "parado" /\ Parada
        /\ fase' = "baixando" /\ inicio' = nsu /\ lido' = nsu
        /\ central' = IF nsu >= central THEN nsu ELSE central
        /\ UNCHANGED <<linha, passada, erros, alvo, varsDisco, varsBanco, cancelado, interrupcoes>>
    BY DEF Comecar, Avancar, InvColeta, MotorCoerente, varsLinhas, varsLimite, varsMundo
  <1>2. Importadas' = Importadas /\ \A n \in Nsus : Ingerido(n)' <=> Ingerido(n)
    BY <1>1, BancoParado
  <1>3. UNCHANGED <<ultimoNsu, disco, primeiro>>
    BY <1>1 DEF varsBanco, varsDisco
  <1>4. \A n \in Nsus : Alcanca(n)' <=> Alcanca(n)
    <2> TAKE n \in Nsus
    <2>1. n <= central' <=> n <= central \/ n <= nsu
      BY <1>0, <1>1, Numeros
    <2> QED
      BY <1>2, <1>3, <2>1 DEF Alcanca
  <1>5. Fechado
    BY <1>1 DEF Contiguo
  <1>6. Fechado' /\ \A n \in Nsus : n <= inicio' => Ingerido(n)'
    BY <1>1, <1>2, <1>4, <1>5 DEF Fechado
  <1>7. Contiguo'
    BY <1>1, <1>2, <1>3, <1>4, <1>6 DEF Contiguo, Fechado
  <1>8. NaOrdem'
    <2>1. linha' = 0 /\ passada'.linhas = <<>> /\ Len(passada'.linhas) = 0
      BY <1>1 DEF Parada, SemPassada
    <2>2. FimDaPassada' = nsu
      BY <1>0, <1>1, <2>1 DEF FimDaPassada
    <2> QED
      BY <1>0, <1>1, <1>6, <2>1, <2>2 DEF NaOrdem
  <1> QED
    BY <1>7, <1>8

\* An operator who gives the NSU to start from gives zero.
DoZero == IniciosDoUsuario \subseteq {0}

\* Then every consulta starts no later than what is covered.
LEMMA InicioSemLacuna ==
    ASSUME DoZero, PassoTranquilo, Inicio
    PROVE  LacunaDe'
  <1> USE DEF PassoTranquilo, LacunaDe
  <1>0. TypeOK /\ Recuo \in Nat /\ RecuoProfundo \in Nat
    BY InvColetaTipa, ConstantesColeta
  <1>1. /\ InicioProfundo \in Alcance /\ InicioNormal \in Alcance /\ Confirmado \in Nat
        /\ 0 \in Alcance
    BY <1>0, IniciosNoAlcance, ConfirmadoAlcanca, ConstantesColeta DEF Alcance
  <1>2. \A n \in Nsus : n \in Nat \ {0} /\ n \in Nat
    BY <1>0, Numeros
  <1>3. \A n \in Nsus : n <= InicioNormal => Alcanca(n)
    <2>1. InicioNormal \in Nat /\ InicioNormal <= Confirmado
      BY <1>0, <1>1, AteZeroDesce DEF InicioNormal
    <2> QED
      BY <1>0, <1>1, <1>2, <2>1, ConfirmadoAlcanca
  <1>4. \A n \in Nsus : n <= InicioProfundo => Alcanca(n)
    <2>1. CASE InicioProfundo = AteZero(Confirmado - RecuoProfundo)
      <3>1. InicioProfundo \in Nat /\ InicioProfundo <= Confirmado
        BY <1>0, <1>1, <2>1, AteZeroDesce
      <3> QED
        BY <1>0, <1>1, <1>2, <3>1, ConfirmadoAlcanca
    <2>2. ASSUME NEW m \in Importadas,
                 \/ InicioProfundo = AteZero(ultimoNsu[m] - RecuoProfundo)
                 \/ InicioProfundo = AteZero(primeiro[m] - RecuoProfundo)
          PROVE  \A n \in Nsus : n <= InicioProfundo => Alcanca(n)
      <3>1. /\ ultimoNsu[m] \in Nat /\ m \in Nsus /\ m \in Nat /\ m <= ultimoNsu[m]
            /\ primeiro[m] \in Nat /\ (primeiro[m] = 0 \/ primeiro[m] = m)
        BY <1>0, <1>2, Numeros DEF InvColeta, BancoCoerente, Contiguo
      <3>2. InicioProfundo \in Nat /\ InicioProfundo <= ultimoNsu[m]
        <4>1. \/ InicioProfundo \in Nat /\ InicioProfundo <= ultimoNsu[m]
              \/ InicioProfundo \in Nat /\ InicioProfundo <= primeiro[m]
          BY <1>0, <2>2, <3>1, AteZeroDesce
        <4> QED
          BY <3>1, <4>1
      <3> QED
        BY <1>2, <3>1, <3>2 DEF Alcanca
    <2> QED
      BY <1>0, <2>1, <2>2, BaseProfunda
  <1>5. \A n \in Nsus : ~(n <= 0)
    BY <1>2
  <1>6. CASE IniciarNoite \/ IniciarReleitura
    BY <1>1, <1>4, <1>6, ComecarSemLacuna DEF IniciarNoite, IniciarReleitura
  <1>7. CASE IniciarNormal
    BY <1>1, <1>3, <1>7, ComecarSemLacuna DEF IniciarNormal
  <1>8. CASE IniciarDoUsuario
    BY <1>1, <1>5, <1>8, ComecarSemLacuna DEF IniciarDoUsuario, DoZero
  <1> QED
    BY <1>6, <1>7, <1>8 DEF Inicio

\* A document saved leaves no hole on disk, and a chave keeps its first NSU.
LEMMA GravarSemLacuna ==
    ASSUME PassoTranquilo, GravarDocumento
    PROVE  LacunaDe'
  <1> USE DEF PassoTranquilo, LacunaDe
  <1>0. TypeOK /\ DiscoIndexado
    BY InvColetaTipa DEF InvColeta
  <1>1. /\ fase = "baixando" /\ fase' = "baixando" /\ lido' = lido + 1 /\ disco' = disco \cup {lido + 1}
        /\ primeiro' = [primeiro EXCEPT ![alvo[lido + 1]] = IF @ = 0 THEN lido + 1 ELSE @]
        /\ UNCHANGED <<ultimoNsu, central, inicio, linha, passada, erros, cancelado, interrupcoes, alvo, varsBanco>>
    BY DEF GravarDocumento, varsBanco, varsCentral, varsPlano, varsLinhas, varsLimite, varsMundo
  <1>2. lido + 1 \in Nsus /\ lido \in Nat
    BY <1>0, GravarDocumentoMantem, Numeros
  <1>3. Importadas' = Importadas /\ \A n \in Nsus : Ingerido(n)' <=> Ingerido(n)
    BY <1>1, BancoParado
  <1>4. \A n \in Nsus : Alcanca(n)' <=> Alcanca(n)
    BY <1>1, <1>3 DEF Alcanca
  <1>5. \A n \in disco' : \A k \in Nsus : k <= n => k \in disco'
    <2>1. \A k \in Nsus : k <= lido + 1 => k <= lido \/ k = lido + 1
      BY <1>0, <1>2, Numeros
    <2> QED
      BY <1>1, <2>1, LidoNoDisco DEF Contiguo
  <1>6. \A m \in Nsus : primeiro'[m] # 0 => primeiro'[m] = m
    <2> TAKE m \in Nsus
    <2>1. CASE m = alvo[lido + 1] /\ primeiro[m] = 0
      <3>1. m \in Nat /\ m <= lido + 1 /\ alvo[m] = m
        BY <1>0, <1>2, <2>1, AlvoDe, Numeros
      <3>2. m \notin disco
        BY <1>0, <2>1, <3>1 DEF DiscoIndexado
      <3>3. ~(m <= lido)
        BY <1>1, <3>2, LidoNoDisco
      <3>4. m = lido + 1
        BY <1>2, <3>1, <3>3
      <3> QED
        BY <1>0, <1>1, <2>1, <3>4, Numeros
    <2>2. CASE ~(m = alvo[lido + 1] /\ primeiro[m] = 0)
      <3>1. primeiro'[m] = primeiro[m]
        BY <1>0, <1>1, <2>2, Numeros
      <3> QED
        BY <3>1 DEF Contiguo
    <2> QED
      BY <2>1, <2>2
  <1>7. \A n \in Nsus : n <= lido => n <= lido'
    BY <1>0, <1>1, <1>2, Numeros
  <1>8. Contiguo'
    BY <1>1, <1>3, <1>4, <1>5, <1>6, <1>7 DEF Contiguo
  <1>9. SoNotas => NaOrdem'
    <2>1. Fechado' <=> Fechado
      BY <1>3, <1>4 DEF Fechado
    <2>2. FimDaPassada' = FimDaPassada /\ FimDaPassada \in Nat
      BY <1>0, <1>1, Numeros DEF FimDaPassada
    <2>3. FimDaPassada <= lido => FimDaPassada <= lido'
      BY <1>1, <1>2, <2>2
    <2> QED
      BY <1>1, <1>3, <2>1, <2>2, <2>3 DEF NaOrdem
  <1> QED
    BY <1>8, <1>9

\* The thread goes on from the row where it stopped.
LEMMA LerIndiceSemLacuna ==
    ASSUME PassoTranquilo, LerIndice
    PROVE  LacunaDe'
  <1> USE DEF PassoTranquilo, LacunaDe
  <1>0. TypeOK
    BY InvColetaTipa
  <1>1. /\ fase = "baixando" /\ fase' = "baixando" /\ passada.linhas = <<>> /\ linha < Len(Linhas)
        /\ passada' = [linhas |-> SubSeq(Linhas, linha + 1, Len(Linhas)), previstas |-> Previstas]
        /\ linha' = Len(Linhas)
        /\ UNCHANGED <<erros, cancelado, ultimoNsu, central, disco, primeiro, inicio, lido, alvo,
                       interrupcoes, varsBanco>>
    BY DEF LerIndice, varsBanco, varsCentral, varsDisco, varsMotor, varsPlano, varsLimite, varsMundo
  <1>2. Importadas' = Importadas /\ \A n \in Nsus : Ingerido(n)' <=> Ingerido(n)
    BY <1>1, BancoParado
  <1>3. \A n \in Nsus : Alcanca(n)' <=> Alcanca(n)
    BY <1>1, <1>2 DEF Alcanca
  <1>4. Contiguo'
    BY <1>1, <1>2, <1>3 DEF Contiguo
  <1>5. ASSUME SoNotas PROVE NaOrdem'
    <2>1. /\ Len(Linhas) = lido - inicio
          /\ \A k \in 1..(lido - inicio) : Linhas[k] = [doc |-> inicio + k, nsu |-> inicio + k]
      BY <1>5, LinhasSoNotas DEF Contiguo
    <2>2. /\ linha \in Nat /\ lido \in Nat /\ inicio \in Nat /\ inicio <= lido
          /\ \A n \in Nsus : n \in Nat
      BY <1>0, Numeros
    <2>3. linha <= Len(Linhas)
      BY <1>1, <2>1, <2>2
    <2>4. /\ Len(passada'.linhas) = Len(Linhas) - linha
          /\ \A k \in 1..Len(passada'.linhas) : passada'.linhas[k] = Linhas[linha + k]
      BY <1>1, <2>2, <2>3, PassadaNova
    <2>5. FimDaPassada' = lido /\ FimDaPassada = inicio + linha /\ Len(passada.linhas) = 0
      BY <1>1, <2>1, <2>2 DEF FimDaPassada
    <2>6. Len(passada'.linhas) = lido - inicio - linha
      BY <2>1, <2>4
    <2>7. \A k \in 1..(lido - inicio - linha) :
             passada'.linhas[k] = [doc |-> inicio + linha + k, nsu |-> inicio + linha + k]
      <3> TAKE k \in 1..(lido - inicio - linha)
      <3>1. linha + k \in 1..(lido - inicio) /\ inicio + (linha + k) = inicio + linha + k
        BY <2>2
      <3>2. passada'.linhas[k] = Linhas[linha + k]
        BY <2>4, <2>6
      <3> QED
        BY <2>1, <3>1, <3>2
    <2>8. \A n \in Nsus : n <= inicio + linha => Ingerido(n)'
      BY <1>2, <1>5, <2>2, <2>5 DEF NaOrdem
    <2>9. Fechado'
      BY <1>2, <1>3, <1>5 DEF NaOrdem, Fechado
    <2> DEFINE l == Len(passada'.linhas)
    <2>10. l <= lido - inicio /\ lido <= lido /\ lido - l = inicio + linha
      <3>1. l = lido - inicio - linha
        BY <2>6
      <3> HIDE DEF l
      <3> QED
        BY <2>2, <3>1
    <2>11. inicio' = inicio /\ lido' = lido
      BY <1>1
    <2>12. l <= FimDaPassada' - inicio' /\ FimDaPassada' <= lido'
      BY <2>5, <2>10, <2>11
    <2>13. \A k \in 1..l : passada'.linhas[k] = [doc |-> FimDaPassada' - l + k, nsu |-> FimDaPassada' - l + k]
      BY <2>5, <2>6, <2>7, <2>10
    <2>14. \A n \in Nsus : n <= FimDaPassada' - l => Ingerido(n)'
      BY <2>5, <2>8, <2>10
    <2> QED
      BY <2>9, <2>12, <2>13, <2>14 DEF NaOrdem
  <1> QED
    BY <1>4, <1>5

\* A row ingested covers no NSU that the engine has not passed; with notas only, it is
\* the next one.
LEMMA IngerirSemLacuna ==
    ASSUME PassoTranquilo, IngerirIncremental \/ IngerirFinal
    PROVE  LacunaDe'
  <1> USE DEF PassoTranquilo, LacunaDe
  <1> DEFINE l == Len(passada.linhas)
             l2 == Len(passada'.linhas)
  <1>0. TypeOK
    BY InvColetaTipa
  <1>1. /\ fase \in {"baixando", "ingerindo"} /\ fase' = fase /\ passada.linhas # <<>> /\ AvancarPassada
        /\ UNCHANGED <<linha, erros, cancelado, central, disco, primeiro, inicio, lido, alvo, interrupcoes>>
    BY DEF IngerirIncremental, IngerirFinal, varsCentral, varsDisco, varsMotor, varsPlano, varsLimite, varsMundo
  <1>2. PICK r \in Linha : r = Head(passada.linhas) /\ Toma(r)
    BY IngerirLinhaMantem
  <1>3. /\ l \in Nat /\ l2 = l - 1 /\ 1 \in 1..l
        /\ \A k \in 1..l2 : passada'.linhas[k] = passada.linhas[k + 1]
        /\ r = passada.linhas[1] /\ r.doc <= r.nsu /\ r.nsu <= lido
    BY <1>1, <1>2, PassadaAvanca
  <1>4. r.doc \in Nsus /\ r.doc \in Nat /\ r.nsu \in Nat /\ \A n \in Nsus : n \in Nat
    BY <1>0, Numeros DEF Linha
  <1>5. \A n \in Nsus : Alcanca(n)' => Alcanca(n) \/ n <= r.nsu
    BY <1>1, <1>2 DEF Toma, Alcanca
  <1>6. FimDaPassada' = FimDaPassada /\ DaCorrida' = DaCorrida /\ lido \in Nat /\ DaCorrida \subseteq Nsus
    BY <1>0, <1>1, Numeros DEF FimDaPassada, DaCorrida
  <1>7. Contiguo'
    <2>1. r.doc \in disco
      <3>1. r.doc <= lido
        BY <1>3, <1>4, <1>6
      <3> QED
        BY <1>1, <1>4, <3>1, LidoNoDisco
    <2>2. \A n \in Nsus : Ingerido(n)' => n \in disco
      BY <1>2, <2>1 DEF Toma, Contiguo
    <2>3. \A n \in Nsus : Alcanca(n)' => n <= lido \/ Ingerido(n)'
      <3>1. \A n \in Nsus : n <= r.nsu => n <= lido
        BY <1>3, <1>4, <1>6
      <3> QED
        BY <1>1, <1>2, <1>5, <3>1 DEF Toma, Contiguo
    <2>4. fase = "ingerindo" =>
            \A n \in DaCorrida : Ingerido(n)' \/ \E k \in 1..l2 : passada'.linhas[k].doc = n
      <3>1. SUFFICES ASSUME fase = "ingerindo", NEW n \in DaCorrida, ~Ingerido(n)'
                     PROVE  \E k \in 1..l2 : passada'.linhas[k].doc = n
        OBVIOUS
      <3>0. ~Ingerido(n)
        BY <1>2, <1>6, <3>1 DEF Toma
      <3>2. PICK k \in 1..l : passada.linhas[k].doc = n
        BY <3>0, <3>1 DEF Contiguo
      <3>3. k # 1
        BY <1>2, <1>3, <3>1, <3>2 DEF Toma
      <3>4. k - 1 \in 1..l2 /\ k - 1 + 1 = k
        BY <1>3, <3>3
      <3> QED
        BY <1>3, <3>2, <3>4
    <2>5. \A n \in Nsus : n <= inicio => Ingerido(n)'
      BY <1>1, <1>2 DEF Toma, Contiguo
    <2> QED
      BY <1>1, <1>6, <2>2, <2>3, <2>4, <2>5 DEF Contiguo
  <1>8. ASSUME SoNotas PROVE NaOrdem'
    <2> DEFINE f == FimDaPassada
    <2>1. /\ Fechado /\ l <= f - inicio /\ f <= lido
          /\ \A k \in 1..l : passada.linhas[k] = [doc |-> f - l + k, nsu |-> f - l + k]
          /\ \A n \in Nsus : n <= f - l => Ingerido(n)
      BY <1>8 DEF NaOrdem
    <2>2. f \in Nat /\ inicio \in Nat
      BY <1>0, Numeros DEF FimDaPassada
    <2> HIDE DEF f
    <2>3. r = [doc |-> f - l + 1, nsu |-> f - l + 1]
      BY <1>3, <2>1
    <2>4. r.doc = f - l + 1 /\ r.nsu = f - l + 1
      BY <2>3
    <2>5. \A n \in Nsus : n <= f - l + 1 => Ingerido(n)'
      <3>1. \A n \in Nsus : n <= f - l + 1 => n <= f - l \/ n = f - l + 1
        <4> HIDE DEF l
        <4> QED
          BY <1>3, <1>4, <2>2
      <3> QED
        BY <1>2, <2>1, <2>4, <3>1 DEF Toma
    <2>6. Fechado'
      BY <1>2, <1>5, <2>1, <2>4, <2>5 DEF Toma, Fechado
    <2>7. \A k \in 1..l2 : passada'.linhas[k] = [doc |-> f - l2 + k, nsu |-> f - l2 + k]
      <3> TAKE k \in 1..l2
      <3>1. k + 1 \in 1..l /\ f - l + (k + 1) = f - l2 + k
        BY <1>3, <2>2
      <3> QED
        BY <1>3, <2>1, <3>1
    <2>8. l2 <= f - inicio /\ f - l2 = f - l + 1
      BY <1>3, <2>1, <2>2
    <2> QED
      BY <1>1, <1>6, <2>1, <2>5, <2>6, <2>7, <2>8 DEF NaOrdem, f
  <1> QED
    BY <1>7, <1>8

\* The final pass has every document of the run, and a cancelled consulta, notas only.
LEMMA TerminarMotorSemLacuna ==
    ASSUME PassoTranquilo, TerminarMotor
    PROVE  LacunaDe'
  <1> USE DEF PassoTranquilo, LacunaDe
  <1>0. TypeOK /\ DiscoIndexado /\ DaCorrida \subseteq disco
    BY InvColetaTipa DEF InvColeta
  <1>1. /\ fase = "baixando" /\ lido = ate
        /\ UNCHANGED <<varsBanco, central, disco, primeiro, alvo, interrupcoes, varsDisco>>
    BY DEF TerminarMotor, varsCentral, varsDisco, varsLimite, varsMundo
  <1>2. Importadas' = Importadas /\ \A n \in Nsus : Ingerido(n)' <=> Ingerido(n)
    BY <1>1, BancoParado
  <1>3. \A n \in Nsus : Alcanca(n)' <=> Alcanca(n)
    BY <1>1, <1>2 DEF Alcanca, varsBanco
  <1>4. CASE cancelado /\ Parar
    <2>1. SoNotas
      BY <1>4 DEF Contiguo, Tranquilo
    <2>2. Fechado'
      BY <1>2, <1>3, <2>1 DEF NaOrdem, Fechado
    <2> QED
      BY <1>1, <1>4, <2>2, PararSemLacuna
  <1>5. CASE /\ ~cancelado /\ fase' = "ingerindo"
             /\ passada' = [linhas |-> Linhas, previstas |-> Previstas]
             /\ UNCHANGED <<linha, erros, detalhes, cancelado, varsMotor, varsPlano>>
    <2>1. UNCHANGED <<lido, inicio>> /\ passada'.linhas = Linhas
      BY <1>5 DEF varsMotor, varsPlano
    <2>2. DaCorrida' = DaCorrida
      BY <2>1 DEF DaCorrida
    <2>3. \A n \in DaCorrida : \E k \in 1..Len(Linhas) : Linhas[k].doc = n
      BY <1>0, LinhasDaCorrida
    <2>4. Contiguo'
      BY <1>0, <1>1, <1>2, <1>3, <1>5, <2>1, <2>2, <2>3 DEF Contiguo
    <2>5. ASSUME SoNotas PROVE NaOrdem'
      <3>1. /\ Len(Linhas) = lido - inicio
            /\ \A k \in 1..(lido - inicio) : Linhas[k] = [doc |-> inicio + k, nsu |-> inicio + k]
        BY <2>5, LinhasSoNotas DEF Contiguo
      <3>2. lido \in Nat /\ inicio \in Nat /\ inicio <= lido
        BY <1>0, Numeros
      <3>3. FimDaPassada' = lido /\ lido - (lido - inicio) = inicio
        BY <1>5, <2>1, <3>2 DEF FimDaPassada
      <3>4. \A n \in Nsus : n <= inicio => Ingerido(n)'
        BY <1>1, <1>2 DEF Contiguo
      <3>5. Fechado'
        BY <1>2, <1>3, <2>5 DEF NaOrdem, Fechado
      <3> QED
        BY <2>1, <3>1, <3>2, <3>3, <3>4, <3>5 DEF NaOrdem
    <2> QED
      BY <2>4, <2>5
  <1> QED
    BY <1>4, <1>5 DEF TerminarMotor

\* When the final pass is over everything up to the engine is in the database, and what
\* is confirmed is no more than that.
LEMMA FechoSemLacuna ==
    ASSUME PassoTranquilo, Fecho
    PROVE  LacunaDe'
  <1> USE DEF PassoTranquilo, LacunaDe
  <1> DEFINE final == LimitarPorFalhas(Max({ate, MaiorNsuImportado}))
  <1>0. TypeOK
    BY InvColetaTipa
  <1>1. CASE Confirmar
    <2>1. /\ fase = "ingerindo" /\ passada.linhas = <<>> /\ lido = ate
          /\ IF final = 0 THEN UNCHANGED central ELSE Avancar(final)
          /\ UNCHANGED <<varsBanco, varsDisco, alvo, interrupcoes, disco, primeiro, ultimoNsu>>
      BY <1>1 DEF Confirmar, InvColeta, MotorCoerente, varsBanco, varsDisco, varsMundo, varsLimite
    <2>2. Importadas' = Importadas /\ \A n \in Nsus : Ingerido(n)' <=> Ingerido(n)
      BY <2>1, BancoParado
    <2>3. \A n \in Nsus : n <= lido => Ingerido(n)
      <3>1. Len(passada.linhas) = 0
        BY <2>1
      <3>2. \A k \in 1..Len(passada.linhas) : FALSE
        BY <3>1
      <3>3. \A n \in DaCorrida : Ingerido(n)
        BY <2>1, <3>2 DEF Contiguo
      <3>4. \A n \in Nsus : n <= inicio => Ingerido(n)
        BY <2>1 DEF Contiguo
      <3>5. \A n \in Nsus : n <= lido => n <= inicio \/ n \in DaCorrida
        BY <1>0, Numeros DEF DaCorrida
      <3> QED
        BY <3>3, <3>4, <3>5
    <2>4. \A n \in Nsus : Alcanca(n) => Ingerido(n)
      BY <2>1, <2>3 DEF Contiguo
    <2>5. \A n \in Nsus : n <= final => Ingerido(n)
      <3>1. \A n \in Nsus : n \in Nat /\ n # 0
        BY <1>0, Numeros
      <3>2. \A n \in Nsus : n <= final => n <= ate \/ n <= MaiorNsuImportado
        BY <3>1, FinalDaConsulta DEF Contiguo
      <3>3. \A n \in Nsus : n <= MaiorNsuImportado => Alcanca(n)
        <4>1. MaiorNsuImportado \in Nat
          BY <1>0, MaiorImportado, Numeros
        <4>2. CASE MaiorNsuImportado = 0
          BY <3>1, <4>2
        <4>3. CASE MaiorNsuImportado # 0
          BY <1>0, <4>3, MaiorImportado DEF Alcanca
        <4> QED
          BY <4>2, <4>3
      <3> QED
        BY <2>1, <2>3, <2>4, <3>2, <3>3
    <2>6. Fechado'
      <3>1. \A n \in Nsus : n <= central' => n <= central \/ n <= final
        <4> HIDE DEF final
        <4> QED
          BY <2>1 DEF Avancar
      <3>2. \A n \in Nsus : Alcanca(n)' => Alcanca(n) \/ n <= final
        BY <2>1, <2>2, <3>1 DEF Alcanca
      <3> QED
        BY <2>2, <2>4, <2>5, <3>2 DEF Fechado
    <2>7. CASE Parar
      BY <2>1, <2>6, <2>7, PararSemLacuna
    <2>8. CASE fase' = "marcando" /\ UNCHANGED <<cancelado, varsPlano, varsLinhas, varsMotor>>
      <3>1. UNCHANGED <<cancelado, inicio, lido, linha, passada, erros>>
        BY <2>8 DEF varsPlano, varsLinhas, varsMotor
      <3>2. Contiguo'
        BY <2>1, <2>2, <2>6, <2>8, <3>1 DEF Contiguo, Fechado
      <3>3. SoNotas => NaOrdem'
        <4>1. FimDaPassada' = lido /\ FimDaPassada = lido
          BY <2>1, <2>8, <3>1 DEF FimDaPassada
        <4> QED
          BY <2>2, <2>6, <3>1, <4>1 DEF NaOrdem
      <3> QED
        BY <3>2, <3>3
    <2> QED
      BY <1>1, <2>7, <2>8 DEF Confirmar
  <1>2. CASE MarcarReconciliacao
    <2>1. /\ fase = "marcando" /\ Parar
          /\ UNCHANGED <<central, varsBanco, varsDisco, alvo>>
      BY <1>2 DEF MarcarReconciliacao, varsMundo
    <2>2. Importadas' = Importadas /\ \A n \in Nsus : Ingerido(n)' <=> Ingerido(n)
      BY <2>1, BancoParado
    <2>3. \A n \in Nsus : Alcanca(n)' <=> Alcanca(n)
      BY <2>1, <2>2 DEF Alcanca, varsBanco
    <2>4. Fechado'
      BY <2>1, <2>2, <2>3 DEF Contiguo, Fechado
    <2> QED
      BY <2>1, <2>4, PararSemLacuna
  <1> QED
    BY <1>1, <1>2 DEF Fecho

\* A consulta interrupted leaves no gap when only notas came.
LEMMA MundoSemLacuna ==
    ASSUME PassoTranquilo, Mundo
    PROVE  LacunaDe'
  <1> USE DEF PassoTranquilo, LacunaDe
  <1>0. TypeOK
    BY InvColetaTipa
  <1>1. CASE Publicar \/ AbrirJanela \/ FecharJanela
    <2>1. /\ UNCHANGED <<varsBanco, central, varsDisco, alvo, fase, inicio, lido, linha, passada, erros>>
          /\ UNCHANGED <<cancelado, interrupcoes>>
      BY <1>1 DEF Publicar, AbrirJanela, FecharJanela, varsCentral, varsMotor, varsPlano, varsLinhas, varsLimite
    <2>2. cancelado' => interrupcoes' # 0
      BY <2>1 DEF Contiguo
    <2> QED
      BY <2>1, <2>2, QuietoSemLacuna
  <1>2. CASE Cancelar
    <2>1. /\ UNCHANGED <<varsBanco, central, varsDisco, alvo, fase, inicio, lido, linha, passada, erros>>
          /\ interrupcoes' = interrupcoes + 1
      BY <1>2 DEF Cancelar, varsCentral, varsMotor, varsPlano, varsLinhas, varsMundo
    <2>2. interrupcoes' # 0
      BY <1>0, <2>1 DEF TypeOK
    <2> QED
      BY <2>1, <2>2, QuietoSemLacuna
  <1>3. CASE Interromper
    <2>1. /\ interrupcoes' = interrupcoes + 1 /\ Parar
          /\ UNCHANGED <<varsBanco, varsDisco, central, alvo>>
      BY <1>3 DEF Interromper, varsCentral, varsMundo
    <2>2. interrupcoes' # 0
      BY <1>0, <2>1 DEF TypeOK
    <2>3. SoNotas
      BY <2>2 DEF Tranquilo
    <2>4. Importadas' = Importadas /\ \A n \in Nsus : Ingerido(n)' <=> Ingerido(n)
      BY <2>1, BancoParado
    <2>5. \A n \in Nsus : Alcanca(n)' <=> Alcanca(n)
      BY <2>1, <2>4 DEF Alcanca, varsBanco
    <2>6. Fechado'
      BY <2>3, <2>4, <2>5 DEF NaOrdem, Fechado
    <2> QED
      BY <2>1, <2>6, PararSemLacuna
  <1>4. ASSUME NEW m \in Nsus, SincronizarEventos(m) PROVE FALSE
    <2>1. sincronizacoes' = sincronizacoes + 1 /\ sincronizacoes' = 0
      BY <1>4 DEF SincronizarEventos, Tranquilo, SemFalhas
    <2> QED
      BY <1>0, <2>1 DEF TypeOK
  <1> QED
    BY <1>1, <1>2, <1>3, <1>4 DEF Mundo

\* What already went wrong stays so: a history quiet after a step was quiet before it.
LEMMA TranquiloAntes ==
    ASSUME InvColeta, [Next]_vars, Tranquilo'
    PROVE  Tranquilo /\ (SoNotas' => SoNotas)
  <1>0. TypeOK
    BY InvColetaTipa
  <1>1. /\ falhas \in Nat /\ sincronizacoes \in Nat /\ interrupcoes \in Nat /\ publicado \in Nat
        /\ \A n \in 1..publicado : n \in Nsus
    <2>1. publicado \in Nat /\ publicado <= MaxNsu /\ MaxNsu \in Nat
      BY <1>0, Numeros
    <2>2. falhas \in Nat /\ sincronizacoes \in Nat /\ interrupcoes \in Nat
      BY <1>0 DEF TypeOK
    <2> QED
      BY <2>1, <2>2 DEF Nsus
  <1>2. /\ alvo' = alvo
        /\ publicado' = publicado \/ publicado' = publicado + 1
        /\ falhas' = falhas \/ falhas' = falhas + 1
        /\ sincronizacoes' = sincronizacoes \/ sincronizacoes' = sincronizacoes + 1
        /\ interrupcoes' = interrupcoes \/ interrupcoes' = interrupcoes + 1
    <2>1. CASE Inicio
      BY <2>1 DEF Inicio, IniciarNoite, IniciarNormal, IniciarReleitura, IniciarDoUsuario, Comecar,
                  varsLimite, varsMundo
    <2>2. CASE Motor
      BY <2>2 DEF Motor, ReceberLote, ReceberVazio, GravarDocumento, TerminarMotor, varsLimite, varsMundo
    <2>3. CASE Ingestao
      BY <2>3 DEF Ingestao, LerIndice, IngerirIncremental, FalharIncremental, IngerirFinal, FalharFinal,
                  varsLimite, varsMundo
    <2>4. CASE Fecho
      BY <2>4 DEF Fecho, Confirmar, MarcarReconciliacao, varsLimite, varsMundo
    <2>5. CASE Mundo
      BY <2>5 DEF Mundo, Publicar, AbrirJanela, FecharJanela, Cancelar, Interromper, SincronizarEventos,
                  varsLimite, varsMundo
    <2>6. CASE UNCHANGED vars
      BY <2>6 DEF vars, varsLimite, varsMundo
    <2> QED
      BY <2>1, <2>2, <2>3, <2>4, <2>5, <2>6 DEF Next
  <1>3. SoNotas' => SoNotas
    BY <1>1, <1>2 DEF SoNotas, EhNota
  <1>4. falhas = 0 /\ sincronizacoes = 0 /\ (interrupcoes' = 0 => interrupcoes = 0)
    BY <1>1, <1>2 DEF Tranquilo, SemFalhas
  <1> QED
    BY <1>3, <1>4 DEF Tranquilo, SemFalhas

\* Every step, when no operator starts beyond what is covered.
LEMMA PassoSemLacuna ==
    ASSUME DoZero, InvLacuna, [Next]_vars
    PROVE  InvLacuna'
  <1>1. InvColeta /\ InvColeta'
    BY PassoMantem DEF InvLacuna
  <1>2. SUFFICES ASSUME Tranquilo' PROVE LacunaDe'
    BY <1>1 DEF InvLacuna, LacunaDe
  <1>3. PassoTranquilo
    BY <1>1, <1>2, TranquiloAntes DEF InvLacuna, LacunaDe, PassoTranquilo
  <1>4. CASE Inicio
    BY <1>3, <1>4, InicioSemLacuna
  <1>5. CASE ReceberLote \/ ReceberVazio
    <2>1. /\ UNCHANGED <<varsBanco, central, varsDisco, alvo, fase, inicio, lido, linha, passada, erros>>
          /\ UNCHANGED <<cancelado, interrupcoes>>
      BY <1>5 DEF ReceberLote, ReceberVazio, varsCentral, varsPlano, varsLinhas, varsLimite, varsMundo
    <2>2. cancelado' => interrupcoes' # 0
      BY <1>3, <2>1 DEF PassoTranquilo, LacunaDe, Contiguo
    <2> QED
      BY <1>3, <2>1, <2>2, QuietoSemLacuna
  <1>6. CASE GravarDocumento
    BY <1>3, <1>6, GravarSemLacuna
  <1>7. CASE TerminarMotor
    BY <1>3, <1>7, TerminarMotorSemLacuna
  <1>8. CASE LerIndice
    BY <1>3, <1>8, LerIndiceSemLacuna
  <1>9. CASE IngerirIncremental \/ IngerirFinal
    BY <1>3, <1>9, IngerirSemLacuna
  <1>10. CASE FalharIncremental \/ FalharFinal
    BY <1>1, <1>2, <1>10, FalharMantem DEF Tranquilo, SemFalhas
  <1>11. CASE Fecho
    BY <1>3, <1>11, FechoSemLacuna
  <1>12. CASE Mundo
    BY <1>3, <1>12, MundoSemLacuna
  <1>13. CASE UNCHANGED vars
    <2>1. /\ UNCHANGED <<varsBanco, central, varsDisco, alvo, fase, inicio, lido, linha, passada, erros>>
          /\ UNCHANGED <<cancelado, interrupcoes>>
      BY <1>13 DEF vars, varsCentral, varsMotor, varsPlano, varsLinhas, varsLimite, varsMundo
    <2>2. cancelado' => interrupcoes' # 0
      BY <1>3, <2>1 DEF PassoTranquilo, LacunaDe, Contiguo
    <2> QED
      BY <1>3, <2>1, <2>2, QuietoSemLacuna
  <1> QED
    BY <1>4, <1>5, <1>6, <1>7, <1>8, <1>9, <1>10, <1>11, <1>12, <1>13 DEF Next, Motor, Ingestao

\* Nothing is covered at the start.
LEMMA InitSemLacuna ==
    ASSUME Init
    PROVE  InvLacuna
  <1>1. InvColeta /\ TypeOK
    BY InitColeta, InvColetaTipa
  <1>2. /\ fase = "parado" /\ inicio = 0 /\ lido = 0 /\ erros = 0 /\ cancelado = FALSE /\ disco = {}
        /\ central = 0 /\ eventos = {} /\ passada.linhas = <<>> /\ Len(passada.linhas) = 0
        /\ \A m \in Nsus : primeiro[m] = 0 /\ ultimoNsu[m] = 0
    BY DEF Init, Parada, SemPassada
  <1>3. Importadas = {} /\ \A n \in Nsus : ~Ingerido(n)
    BY <1>2 DEF Importadas, Ingerido
  <1>4. \A n \in Nsus : ~(n <= 0)
    BY <1>1, Numeros
  <1>5. Fechado
    BY <1>2, <1>3, <1>4 DEF Fechado, Alcanca
  <1>6. Contiguo
    BY <1>2, <1>3, <1>5 DEF Contiguo
  <1>7. NaOrdem
    <2>1. FimDaPassada = 0
      BY <1>2 DEF FimDaPassada
    <2> QED
      BY <1>2, <1>4, <1>5, <2>1 DEF NaOrdem
  <1> QED
    BY <1>1, <1>6, <1>7 DEF InvLacuna

\* Between two consultas, what may be skipped is in the database.
LEMMA LacunaFechada ==
    ASSUME DoZero, InvLacuna
    PROVE  SemLacuna
  <1>0. TypeOK /\ Recuo \in Nat
    BY InvColetaTipa, ConstantesColeta DEF InvLacuna
  <1>1. SUFFICES ASSUME fase = "parado", Tranquilo, NEW n \in 1..InicioNormal PROVE Ingerido(n)
    BY DEF SemLacuna, Tranquilo
  <1>2. Fechado
    BY <1>1 DEF InvLacuna, Contiguo
  <1>3. Confirmado \in Nat /\ Confirmado <= MaxNsu
    <2>1. Confirmado \in Alcance /\ MaxNsu \in Nat
      BY <1>0, ConfirmadoAlcanca, Numeros
    <2> QED
      BY <2>1 DEF Alcance, DoZero
  <1>4. InicioNormal \in Nat /\ InicioNormal <= Confirmado
    BY <1>0, <1>3, AteZeroDesce DEF InicioNormal
  <1>5. n \in Nsus /\ n \in Nat \ {0} /\ n <= Confirmado
    BY <1>0, <1>3, <1>4, Numeros DEF Nsus
  <1>6. Alcanca(n)
    BY <1>0, <1>5, ConfirmadoAlcanca
  <1> QED
    BY <1>2, <1>5, <1>6 DEF Fechado

\* While no operator starts a consulta beyond what is covered: the invariant.
THEOREM InvarianciaSemLacuna ==
    ASSUME DoZero
    PROVE  Spec => []InvLacuna
  BY InitSemLacuna, PassoSemLacuna, PTL DEF Spec

\* Then no document is skipped: the starting NSU of the next consulta, taken from the
\* central NSU and from the notas (obter_ultimo_nsu, planejar_inicio_consulta), has
\* everything before it in the database, however the thread and the engine interleaved.
THEOREM NadaFicaSemLer ==
    ASSUME DoZero
    PROVE  Spec => []SemLacuna
  BY LacunaFechada, InvarianciaSemLacuna, PTL
=============================================================================
