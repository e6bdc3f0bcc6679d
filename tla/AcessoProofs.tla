---------------------------- MODULE AcessoProofs ----------------------------
(***************************************************************************)
(* Proofs about who gets into the portal and who keeps it going: the        *)
(* accounts (Contas), for any number of people, invitations, uses,          *)
(* attempts, accounts and passwords; the limit of attempts (Limitador), for *)
(* any number of processes, attempts and any window; the watchdog of the    *)
(* supervisor (Operacao), for any groups and limits; and the second step of *)
(* an administrator (SessaoAdmin), for any number of secrets, codes and     *)
(* sessions.                                                                *)
(***************************************************************************)
EXTENDS Contas, Limitador, Operacao, SessaoAdmin, FiniteSetTheorems, TLAPS

-----------------------------------------------------------------------------
(* The accounts.  The hard part is the slow request: it commits from rows   *)
(* read any number of requests ago.  What stays true of what it remembers   *)
(* is an invariant of its own (PedidoBom), and the memory of a login is     *)
(* held to the same condition as the session it will open (Lembranca).      *)

\* What the columns of a confirmation and of an administrator's change are.
ColunasDaVerificacao == [{"verificado"} -> {TRUE}] \cup [{"ativo", "verificado"} -> {TRUE}]
ColunasDoAdmin ==
  UNION {[colunas -> BOOLEAN] : colunas \in SUBSET {"ativo", "admin", "fora"}}

\* The types of the history variables.
TiposDasHistorias ==
  /\ confirmadas \in [Convites -> SUBSET (1..MaxContas)]
  /\ perdas \in [versoes : SUBSET (1..MaxContas), usos : SUBSET Convites, admin : BOOLEAN]

\* Ids are given once, and nothing refers to one that was not given yet; a
\* code was sent with an invitation that exists.
IdsDadas ==
  /\ \A p \in Pessoas : Existe(p) =>
       /\ conta[p].id <= usadas.ids
       /\ conta[p].versao <= usadas.senhas /\ conta[p].senha <= usadas.senhas
  /\ \A p, q \in Pessoas : Existe(p) /\ Existe(q) /\ conta[p].id = conta[q].id => p = q
  /\ \A p \in Pessoas : codigoEmail[p] # SemCodigo => convite[codigoEmail[p].convite] # SemConvite

\* What is left of a row that could enter when a login read it: its account is
\* confirmed, its version only grew, and with the same version the password is
\* the same.
Lembranca(s) ==
  /\ s.id \in 1..usadas.ids /\ s.versao \in 0..MaxSenhas /\ s.senha \in 0..MaxSenhas
  /\ \A p \in Pessoas : Existe(p) /\ conta[p].id = s.id /\ s.id \notin perdas.versoes =>
       /\ conta[p].verificado
       /\ s.versao <= conta[p].versao
       /\ s.versao = conta[p].versao => s.senha = conta[p].senha

SessaoLembrada == sessao # SemSessao => Lembranca(sessao)

\* An administrator who is not the general one read the two rows in one group.
AutorDoGrupo(r) ==
  /\ r.autor \in Pessoas \cup {Geral} /\ r.autor # r.alvo
  /\ r.autor \in Pessoas =>
       /\ r.autor \in DOMAIN r.grupos /\ r.alvo \in DOMAIN r.grupos
       /\ r.grupos[r.autor] = r.grupos[r.alvo]

\* What a request has read stays true of the rows until it commits.
PedidoBom(r) ==
  /\ r.alvo \in Pessoas /\ r.id \in 1..usadas.ids
  /\ r.tipo = "login" => Lembranca(r.linha)
  /\ r.tipo = "refazer" => r.convite \in Convites /\ convite[r.convite] # SemConvite
  /\ r.tipo = "verificar" =>
       /\ r.codigo \in Codigo /\ convite[r.codigo.convite] # SemConvite
       /\ r.usos \in 0..(MaxUsos - 1) /\ r.grava \in ColunasDaVerificacao
  /\ r.tipo = "senha" => r.versao \in 0..usadas.senhas
  /\ r.tipo = "atualizar" => AutorDoGrupo(r) /\ r.grava \in ColunasDoAdmin
  /\ r.tipo = "excluir" => AutorDoGrupo(r)

LentoBom == lento # SemPedido => PedidoBom(lento)

\* The uses of an invitation are at least the accounts it confirmed.
UsosContados ==
  \A k \in Convites :
    /\ convite[k] = SemConvite => confirmadas[k] = {}
    /\ convite[k] # SemConvite /\ k \notin perdas.usos =>
         Cardinality(confirmadas[k]) <= convite[k].usos

InvContas ==
  /\ TiposContas /\ TiposDasHistorias /\ IdsDadas /\ SessaoLembrada /\ LentoBom
  /\ UsosContados /\ SempreHaAdministrador

\* What a request may do to the row of an e-mail: nothing, delete it, insert
\* one with a new id, or write columns of it, and then never the confirmation,
\* and the password only with the version, unless the history records it.
LinhaSegue(p) ==
  \/ conta'[p] = conta[p]
  \/ conta'[p] = SemConta
  \/ ~Existe(p) /\ conta'[p].id = usadas.ids + 1
  \/ /\ Existe(p) /\ conta'[p].id = conta[p].id
     /\ conta[p].verificado => conta'[p].verificado
     /\ \/ conta'[p].versao = conta[p].versao /\ conta'[p].senha = conta[p].senha
        \/ conta'[p].versao > conta[p].versao
        \/ conta[p].id \in perdas'.versoes
        \/ ~conta[p].verificado

EscritaSegura ==
  /\ \A p \in Pessoas : LinhaSegue(p)
  /\ usadas.ids <= usadas'.ids /\ usadas.senhas <= usadas'.senhas
  /\ \A k \in Convites : convite[k] # SemConvite => convite'[k] # SemConvite
  /\ perdas.versoes \subseteq perdas'.versoes

-----------------------------------------------------------------------------
(* The rows.                                                                *)

\* The columns of a row, and what it is not.
LEMMA CamposDaConta ==
  ASSUME NEW c \in Conta
  PROVE  /\ DOMAIN c = {"id", "ativo", "verificado", "admin", "fora", "versao", "senha"}
         /\ c.id \in 1..MaxContas /\ c.ativo \in BOOLEAN /\ c.verificado \in BOOLEAN
         /\ c.admin \in BOOLEAN /\ c.fora \in BOOLEAN
         /\ c.versao \in 0..MaxSenhas /\ c.senha \in 0..MaxSenhas
         /\ c # SemConta
BY DEF Conta, SemConta

\* A function with the columns of a row is a row.
LEMMA ContaDeCampos ==
  ASSUME NEW c, DOMAIN c = {"id", "ativo", "verificado", "admin", "fora", "versao", "senha"},
         c = [x \in DOMAIN c |-> c[x]],
         c.id \in 1..MaxContas, c.ativo \in BOOLEAN, c.verificado \in BOOLEAN,
         c.admin \in BOOLEAN, c.fora \in BOOLEAN, c.versao \in 0..MaxSenhas, c.senha \in 0..MaxSenhas
  PROVE  c \in Conta
BY DEF Conta

\* ComColunas writes the columns it is given, and no other.
LEMMA ColunasGravadas ==
  ASSUME NEW c \in Conta, NEW v
  PROVE  /\ DOMAIN ComColunas(c, v) = {"id", "ativo", "verificado", "admin", "fora", "versao", "senha"}
         /\ ComColunas(c, v) = [x \in DOMAIN ComColunas(c, v) |-> ComColunas(c, v)[x]]
         /\ ComColunas(c, v).id = IF "id" \in DOMAIN v THEN v["id"] ELSE c.id
         /\ ComColunas(c, v).ativo = IF "ativo" \in DOMAIN v THEN v["ativo"] ELSE c.ativo
         /\ ComColunas(c, v).verificado =
              IF "verificado" \in DOMAIN v THEN v["verificado"] ELSE c.verificado
         /\ ComColunas(c, v).admin = IF "admin" \in DOMAIN v THEN v["admin"] ELSE c.admin
         /\ ComColunas(c, v).fora = IF "fora" \in DOMAIN v THEN v["fora"] ELSE c.fora
         /\ ComColunas(c, v).versao = IF "versao" \in DOMAIN v THEN v["versao"] ELSE c.versao
         /\ ComColunas(c, v).senha = IF "senha" \in DOMAIN v THEN v["senha"] ELSE c.senha
BY CamposDaConta DEF ComColunas

\* A registration done again changes the password alone.
LEMMA SenhaGravada ==
  ASSUME NEW c \in Conta, NEW n \in 0..MaxSenhas,
         NEW d, d = ComColunas(c, [senha |-> n])
  PROVE  /\ d \in Conta /\ d.id = c.id /\ d.ativo = c.ativo /\ d.verificado = c.verificado
         /\ d.admin = c.admin /\ d.fora = c.fora /\ d.versao = c.versao /\ d.senha = n
<1> DEFINE v == [senha |-> n]
<1>1. DOMAIN v = {"senha"} /\ v["senha"] = n
  OBVIOUS
<1> HIDE DEF v
<1>2. /\ DOMAIN d = {"id", "ativo", "verificado", "admin", "fora", "versao", "senha"}
      /\ d = [x \in DOMAIN d |-> d[x]]
      /\ d.id = c.id /\ d.ativo = c.ativo /\ d.verificado = c.verificado
      /\ d.admin = c.admin /\ d.fora = c.fora /\ d.versao = c.versao /\ d.senha = n
  <2>1. d = ComColunas(c, v)
    BY DEF v
  <2> QED BY <1>1, <2>1, ColunasGravadas
<1> QED BY <1>2, CamposDaConta, ContaDeCampos

\* A change of password changes it and the version.
LEMMA SenhaEVersaoGravadas ==
  ASSUME NEW c \in Conta, NEW n \in 0..MaxSenhas, NEW m \in 0..MaxSenhas,
         NEW d, d = ComColunas(c, [senha |-> n, versao |-> m])
  PROVE  /\ d \in Conta /\ d.id = c.id /\ d.ativo = c.ativo /\ d.verificado = c.verificado
         /\ d.admin = c.admin /\ d.fora = c.fora /\ d.versao = m /\ d.senha = n
<1> DEFINE v == [senha |-> n, versao |-> m]
<1>1. DOMAIN v = {"senha", "versao"} /\ v["senha"] = n /\ v["versao"] = m
  OBVIOUS
<1> HIDE DEF v
<1>2. /\ DOMAIN d = {"id", "ativo", "verificado", "admin", "fora", "versao", "senha"}
      /\ d = [x \in DOMAIN d |-> d[x]]
      /\ d.id = c.id /\ d.ativo = c.ativo /\ d.verificado = c.verificado
      /\ d.admin = c.admin /\ d.fora = c.fora /\ d.versao = m /\ d.senha = n
  <2>1. d = ComColunas(c, v)
    BY DEF v
  <2> QED BY <1>1, <2>1, ColunasGravadas
<1> QED BY <1>2, CamposDaConta, ContaDeCampos

\* A confirmation confirms, and at most switches the account on.
LEMMA VerificacaoGravada ==
  ASSUME NEW c \in Conta, NEW v \in ColunasDaVerificacao, NEW d, d = ComColunas(c, v)
  PROVE  /\ d \in Conta /\ d.id = c.id /\ d.verificado
         /\ c.ativo => d.ativo
         /\ d.admin = c.admin /\ d.fora = c.fora /\ d.versao = c.versao /\ d.senha = c.senha
<1>1. /\ DOMAIN v \in {{"verificado"}, {"ativo", "verificado"}}
      /\ v["verificado"] = TRUE
      /\ "ativo" \in DOMAIN v => v["ativo"] = TRUE
  BY DEF ColunasDaVerificacao
<1>2. /\ DOMAIN d = {"id", "ativo", "verificado", "admin", "fora", "versao", "senha"}
      /\ d = [x \in DOMAIN d |-> d[x]]
      /\ d.id = c.id /\ d.admin = c.admin /\ d.fora = c.fora /\ d.versao = c.versao /\ d.senha = c.senha
      /\ d.verificado = TRUE
      /\ d.ativo = TRUE \/ d.ativo = c.ativo
  <2>1. /\ DOMAIN d = {"id", "ativo", "verificado", "admin", "fora", "versao", "senha"}
        /\ d = [x \in DOMAIN d |-> d[x]]
        /\ d.id = c.id /\ d.admin = c.admin /\ d.fora = c.fora /\ d.versao = c.versao /\ d.senha = c.senha
    BY <1>1, ColunasGravadas
  <2>2. d.verificado = TRUE
    BY <1>1, ColunasGravadas
  <2>3. d.ativo = TRUE \/ d.ativo = c.ativo
    BY <1>1, ColunasGravadas
  <2> QED BY <2>1, <2>2, <2>3
<1> QED BY <1>2, CamposDaConta, ContaDeCampos

\* An administrator changes what is active, who is an administrator and, if it
\* is the general one, of which group.
LEMMA ColunasDoAdminGravadas ==
  ASSUME NEW c \in Conta, NEW v \in ColunasDoAdmin, NEW d, d = ComColunas(c, v)
  PROVE  /\ d \in Conta /\ d.id = c.id /\ d.verificado = c.verificado
         /\ d.versao = c.versao /\ d.senha = c.senha
<1>1. /\ DOMAIN v \subseteq {"ativo", "admin", "fora"}
      /\ "ativo" \in DOMAIN v => v["ativo"] \in BOOLEAN
      /\ "admin" \in DOMAIN v => v["admin"] \in BOOLEAN
      /\ "fora" \in DOMAIN v => v["fora"] \in BOOLEAN
  BY DEF ColunasDoAdmin
<1>2. /\ DOMAIN d = {"id", "ativo", "verificado", "admin", "fora", "versao", "senha"}
      /\ d = [x \in DOMAIN d |-> d[x]]
      /\ d.id = c.id /\ d.verificado = c.verificado /\ d.versao = c.versao /\ d.senha = c.senha
      /\ d.ativo \in BOOLEAN /\ d.admin \in BOOLEAN /\ d.fora \in BOOLEAN
  <2>1. /\ DOMAIN d = {"id", "ativo", "verificado", "admin", "fora", "versao", "senha"}
        /\ d = [x \in DOMAIN d |-> d[x]]
        /\ d.id = c.id /\ d.verificado = c.verificado /\ d.versao = c.versao /\ d.senha = c.senha
    BY <1>1, ColunasGravadas
  <2>2. d.ativo \in BOOLEAN
    BY <1>1, ColunasGravadas, CamposDaConta
  <2>3. d.admin \in BOOLEAN
    BY <1>1, ColunasGravadas, CamposDaConta
  <2>4. d.fora \in BOOLEAN
    BY <1>1, ColunasGravadas, CamposDaConta
  <2> QED BY <2>1, <2>2, <2>3, <2>4
<1> QED BY <1>2, CamposDaConta, ContaDeCampos

-----------------------------------------------------------------------------
(* What a step leaves of what was read before it.                           *)

\* A step that did all of this keeps the invariant, but for the slow request.
SessaoSegue == sessao' = sessao \/ Lembranca(sessao)'

PassoSeguro ==
  /\ TiposContas' /\ TiposDasHistorias' /\ IdsDadas' /\ UsosContados' /\ SempreHaAdministrador'
  /\ EscritaSegura /\ SessaoSegue

\* The records that stand for nothing are not rows.
LEMMA NadaNaoELinha ==
  /\ SemConta.id = 0 /\ SemSessao.id = 0 /\ SemPedido.tipo = "nenhum"
  /\ SemConta \notin Conta /\ SemConvite \notin Convite /\ SemCodigo \notin Codigo
<1>1. SemConta.id = 0 /\ SemSessao.id = 0 /\ SemPedido.tipo = "nenhum"
  BY DEF SemConta, SemSessao, SemPedido
<1>2. SemConta \notin Conta
  BY CamposDaConta
<1>3. SemConvite \notin Convite
  BY DEF SemConvite, Convite
<1>4. SemCodigo \notin Codigo
  <2>1. DOMAIN SemCodigo = {"restam"}
    BY DEF SemCodigo
  <2>2. \A c \in Codigo : DOMAIN c = {"restam", "convite"}
    BY DEF Codigo
  <2> QED BY <2>1, <2>2
<1> QED BY <1>1, <1>2, <1>3, <1>4

\* What a session or a login remembers survives every safe step.
LEMMA LembrancaSegue ==
  ASSUME TiposContas, TiposContas', EscritaSegura, NEW s, Lembranca(s)
  PROVE  Lembranca(s)'
<1>1. /\ s.id \in 1..usadas'.ids /\ s.versao \in 0..MaxSenhas /\ s.senha \in 0..MaxSenhas
      /\ usadas.ids \in Nat
  <2>1. usadas.ids \in 1..MaxContas /\ usadas'.ids \in 1..MaxContas
    BY DEF TiposContas
  <2> QED BY <2>1, ConstantesContas DEF Lembranca, EscritaSegura
<1>2. ASSUME NEW p \in Pessoas, Existe(p)', conta'[p].id = s.id, s.id \notin perdas'.versoes
      PROVE  /\ conta'[p].verificado
             /\ s.versao <= conta'[p].versao
             /\ s.versao = conta'[p].versao => s.senha = conta'[p].senha
  <2>1. LinhaSegue(p) /\ s.id \notin perdas.versoes /\ conta'[p] # SemConta
    BY <1>2 DEF EscritaSegura, Existe
  <2>2. conta'[p].versao \in Nat
    BY <2>1, CamposDaConta, ConstantesContas DEF TiposContas
  <2>3. s.id <= usadas.ids /\ s.versao \in Nat /\ s.id \in Nat
    BY ConstantesContas, <1>1 DEF Lembranca
  <2>4. Existe(p) /\ conta[p].id = s.id
    BY <2>1, <2>3, <1>1, <1>2 DEF LinhaSegue, Existe
  <2>5. /\ conta[p].verificado /\ s.versao <= conta[p].versao
        /\ s.versao = conta[p].versao => s.senha = conta[p].senha
    BY <2>1, <2>4 DEF Lembranca
  <2>6. conta[p].versao \in Nat
    BY <2>4, CamposDaConta, ConstantesContas DEF TiposContas, Existe
  <2>7. CASE conta'[p] = conta[p]
    BY <2>7, <2>5
  <2>8. CASE /\ conta[p].verificado => conta'[p].verificado
             /\ \/ conta'[p].versao = conta[p].versao /\ conta'[p].senha = conta[p].senha
                \/ conta'[p].versao > conta[p].versao
                \/ conta[p].id \in perdas'.versoes
                \/ ~conta[p].verificado
    BY <2>8, <2>2, <2>3, <2>4, <2>5, <2>6, <1>2
  <2> QED BY <2>1, <2>4, <2>7, <2>8 DEF LinhaSegue
<1> QED BY <1>1, <1>2 DEF Lembranca

\* So does everything a request has read.
LEMMA PedidoSegue ==
  ASSUME TiposContas, TiposContas', EscritaSegura, NEW r, PedidoBom(r)
  PROVE  PedidoBom(r)'
<1>1. r.alvo \in Pessoas /\ r.id \in 1..usadas'.ids
  BY ConstantesContas DEF PedidoBom, EscritaSegura, TiposContas
<1>2. ASSUME r.tipo = "login" PROVE Lembranca(r.linha)'
  <2>1. Lembranca(r.linha)
    BY <1>2 DEF PedidoBom
  <2>2. \A s : Lembranca(s) => Lembranca(s)'
    BY LembrancaSegue
  <2> QED BY <2>1, <2>2
<1>3. ASSUME r.tipo = "verificar" PROVE convite'[r.codigo.convite] # SemConvite
  <2>1. r.codigo.convite \in Convites /\ convite[r.codigo.convite] # SemConvite
    BY <1>3 DEF PedidoBom, Codigo
  <2> QED BY <2>1 DEF EscritaSegura
<1>4. ASSUME r.tipo = "senha" PROVE r.versao \in 0..usadas'.senhas
  <2>1. r.versao \in 0..usadas.senhas
    BY <1>4 DEF PedidoBom
  <2>2. usadas.senhas \in Nat /\ usadas'.senhas \in Nat /\ usadas.senhas <= usadas'.senhas
    BY ConstantesContas DEF TiposContas, EscritaSegura
  <2> QED BY <2>1, <2>2
<1>5. ASSUME r.tipo = "refazer" PROVE r.convite \in Convites /\ convite'[r.convite] # SemConvite
  BY <1>5 DEF PedidoBom, EscritaSegura
<1> QED BY <1>1, <1>2, <1>3, <1>4, <1>5 DEF PedidoBom, AutorDoGrupo

\* A step that leaves the rows, and of the invitations at most the state or
\* the author.
LEMMA SemMexerNasLinhas ==
  ASSUME InvContas, UNCHANGED <<conta, sessao, usadas, confirmadas, perdas>>,
         convite' \in [Convites -> Convite \cup {SemConvite}],
         codigoEmail' \in [Pessoas -> Codigo \cup {SemCodigo}],
         codigoSenha' \in [Pessoas -> 0..MaxTentativas], grupoAtivo' \in BOOLEAN,
         \A k \in Convites :
           \/ convite'[k] = convite[k]
           \/ convite[k] = SemConvite /\ convite'[k] # SemConvite /\ convite'[k].usos = 0
           \/ /\ convite[k] # SemConvite /\ convite'[k] # SemConvite
              /\ convite'[k].usos = convite[k].usos,
         \A p \in Pessoas :
           /\ codigoEmail[p] # SemCodigo => codigoEmail'[p] # SemCodigo
           /\ codigoEmail'[p] # SemCodigo => convite[codigoEmail'[p].convite] # SemConvite
  PROVE  PassoSeguro
<1>1. TiposContas' /\ TiposDasHistorias'
  BY DEF InvContas, TiposContas, TiposDasHistorias, Existe
<1>2. \A k \in Convites : convite[k] # SemConvite => convite'[k] # SemConvite
  OBVIOUS
<1>3. IdsDadas'
  <2>1. \A p \in Pessoas : codigoEmail'[p] # SemCodigo => codigoEmail'[p].convite \in Convites
    BY DEF Codigo
  <2> QED BY <1>2, <2>1 DEF InvContas, IdsDadas, Existe
<1>4. UsosContados'
  <2> SUFFICES ASSUME NEW k \in Convites
               PROVE  /\ convite'[k] = SemConvite => confirmadas[k] = {}
                      /\ convite'[k] # SemConvite /\ k \notin perdas.usos =>
                           Cardinality(confirmadas[k]) <= convite'[k].usos
    BY DEF UsosContados
  <2>1. /\ convite[k] = SemConvite => confirmadas[k] = {}
        /\ convite[k] # SemConvite /\ k \notin perdas.usos =>
             Cardinality(confirmadas[k]) <= convite[k].usos
    BY DEF InvContas, UsosContados
  <2>2. convite[k] = SemConvite => Cardinality(confirmadas[k]) = 0
    BY <2>1, FS_EmptySet
  <2>3. CASE convite'[k] = convite[k]
    BY <2>1, <2>3
  <2>4. CASE convite[k] = SemConvite /\ convite'[k] # SemConvite /\ convite'[k].usos = 0
    BY <2>2, <2>4
  <2>5. CASE /\ convite[k] # SemConvite /\ convite'[k] # SemConvite
             /\ convite'[k].usos = convite[k].usos
    BY <2>1, <2>5
  <2> QED BY <2>3, <2>4, <2>5
<1>5. SempreHaAdministrador'
  BY DEF InvContas, SempreHaAdministrador, HaAdministrador, Administra, Entra, Existe
<1>6. EscritaSegura
  <2>1. usadas.ids <= usadas'.ids /\ usadas.senhas <= usadas'.senhas
    BY ConstantesContas DEF InvContas, TiposContas
  <2> QED BY <1>2, <2>1 DEF EscritaSegura, LinhaSegue
<1> QED BY <1>1, <1>3, <1>4, <1>5, <1>6 DEF PassoSeguro, SessaoSegue

-----------------------------------------------------------------------------
(* The quick requests.                                                      *)

\* Creating an invitation is safe.
LEMMA CriarConviteSeguro ==
  ASSUME InvContas, NEW a \in Pessoas, NEW k \in Convites, CriarConvite(a, k)
  PROVE  PassoSeguro
<1> DEFINE novo == [estado |-> "ativo", usos |-> 0, autor |-> conta[a].id]
<1>1. novo \in Convite /\ novo.usos = 0
  <2>1. conta[a] \in Conta
    BY DEF InvContas, TiposContas, CriarConvite, ComSessao, Entra, Existe
  <2>2. conta[a].id \in 0..MaxContas /\ 0 \in 0..MaxUsos
    BY <2>1, CamposDaConta, ConstantesContas
  <2> QED BY <2>2 DEF Convite
<1> HIDE DEF novo
<1>2. novo # SemConvite
  BY <1>1, NadaNaoELinha
<1>3. convite[k] = SemConvite /\ convite' = [convite EXCEPT ![k] = novo]
  BY DEF CriarConvite, novo
<1>4. UNCHANGED <<conta, codigoEmail, codigoSenha, sessao, grupoAtivo, usadas, confirmadas, perdas>>
  BY DEF CriarConvite
<1>5. convite' \in [Convites -> Convite \cup {SemConvite}]
  BY <1>1, <1>3 DEF InvContas, TiposContas
<1>6. \A j \in Convites :
        \/ convite'[j] = convite[j]
        \/ convite[j] = SemConvite /\ convite'[j] # SemConvite /\ convite'[j].usos = 0
  BY <1>1, <1>2, <1>3 DEF InvContas, TiposContas
<1> QED BY <1>4, <1>5, <1>6, SemMexerNasLinhas DEF InvContas, TiposContas, IdsDadas

\* Revoking an invitation is safe.
LEMMA RevogarConviteSeguro ==
  ASSUME InvContas, NEW a \in Pessoas, NEW k \in Convites, RevogarConvite(a, k)
  PROVE  PassoSeguro
<1> DEFINE novo == [convite[k] EXCEPT !.estado = "revogado"]
<1>1. convite[k] \in Convite
  BY DEF InvContas, TiposContas, RevogarConvite
<1>2. novo \in Convite /\ novo.usos = convite[k].usos
  BY <1>1 DEF Convite
<1> HIDE DEF novo
<1>3. convite' = [convite EXCEPT ![k] = novo]
  BY DEF RevogarConvite, novo
<1>4. UNCHANGED <<conta, codigoEmail, codigoSenha, sessao, grupoAtivo, usadas, confirmadas, perdas>>
  BY DEF RevogarConvite
<1>5. convite' \in [Convites -> Convite \cup {SemConvite}]
  BY <1>2, <1>3 DEF InvContas, TiposContas
<1>6. \A j \in Convites :
        \/ convite'[j] = convite[j]
        \/ /\ convite[j] # SemConvite /\ convite'[j] # SemConvite
           /\ convite'[j].usos = convite[j].usos
  BY <1>1, <1>2, <1>3, NadaNaoELinha DEF InvContas, TiposContas
<1> QED BY <1>4, <1>5, <1>6, SemMexerNasLinhas DEF InvContas, TiposContas, IdsDadas

\* A code sent with an invitation that exists is a code.
LEMMA CodigoEnviado ==
  ASSUME InvContas, NEW p \in Pessoas, NEW k \in Convites, convite[k] # SemConvite,
         EnviarCodigo(p, k)
  PROVE  /\ codigoEmail' \in [Pessoas -> Codigo \cup {SemCodigo}]
         /\ codigoEmail'[p] # SemCodigo
         /\ \A q \in Pessoas :
              /\ codigoEmail[q] # SemCodigo => codigoEmail'[q] # SemCodigo
              /\ codigoEmail'[q] # SemCodigo => convite[codigoEmail'[q].convite] # SemConvite
<1> DEFINE novo == [restam |-> MaxTentativas, convite |-> k]
<1>1. novo \in Codigo /\ novo.convite = k
  BY ConstantesContas DEF Codigo
<1> HIDE DEF novo
<1>2. novo # SemCodigo
  BY <1>1, NadaNaoELinha
<1>3. codigoEmail' = [codigoEmail EXCEPT ![p] = novo]
  BY DEF EnviarCodigo, novo
<1>4. /\ codigoEmail \in [Pessoas -> Codigo \cup {SemCodigo}]
      /\ \A q \in Pessoas : codigoEmail[q] # SemCodigo => convite[codigoEmail[q].convite] # SemConvite
  BY DEF InvContas, TiposContas, IdsDadas
<1> QED BY <1>1, <1>2, <1>3, <1>4

\* The code of an account waiting for confirmation names an invitation.
LEMMA CodigoDePendente ==
  ASSUME InvContas, NEW p \in Pessoas, Existe(p), ~conta[p].verificado
  PROVE  /\ codigoEmail[p] \in Codigo /\ codigoEmail[p].convite \in Convites
         /\ convite[codigoEmail[p].convite] # SemConvite
<1>1. codigoEmail[p] \in Codigo /\ codigoEmail[p] # SemCodigo
  BY DEF InvContas, TiposContas
<1>2. convite[codigoEmail[p].convite] # SemConvite
  BY <1>1 DEF InvContas, IdsDadas
<1> QED BY <1>1, <1>2 DEF Codigo

\* Sending the code again is safe.
LEMMA ReenviarCodigoSeguro ==
  ASSUME InvContas, NEW p \in Pessoas, ReenviarCodigo(p)
  PROVE  PassoSeguro
<1>1. /\ codigoEmail[p].convite \in Convites /\ convite[codigoEmail[p].convite] # SemConvite
      /\ EnviarCodigo(p, codigoEmail[p].convite)
  BY CodigoDePendente DEF ReenviarCodigo
<1>2. PICK k \in Convites : k = codigoEmail[p].convite
  BY <1>1
<1>3. EnviarCodigo(p, k) /\ convite[k] # SemConvite
  BY <1>1, <1>2 DEF EnviarCodigo
<1>4. UNCHANGED <<conta, convite, codigoSenha, sessao, grupoAtivo, usadas, confirmadas, perdas>>
  BY DEF ReenviarCodigo
<1> QED BY <1>3, <1>4, CodigoEnviado, SemMexerNasLinhas DEF InvContas, TiposContas

\* A wrong code of the e-mail is safe.
LEMMA ErrarCodigoDeEmailSeguro ==
  ASSUME InvContas, NEW p \in Pessoas, ErrarCodigoDeEmail(p)
  PROVE  PassoSeguro
<1> DEFINE novo == [codigoEmail[p] EXCEPT !.restam = @ - 1]
<1>1. codigoEmail[p] \in Codigo /\ convite[codigoEmail[p].convite] # SemConvite
  BY CodigoDePendente DEF ErrarCodigoDeEmail
<1>2. novo \in Codigo /\ novo.convite = codigoEmail[p].convite
  <2>1. codigoEmail[p].restam \in 0..MaxTentativas /\ codigoEmail[p].restam > 0
    BY <1>1 DEF Codigo, ErrarCodigoDeEmail
  <2>2. codigoEmail[p].restam - 1 \in 0..MaxTentativas
    BY <2>1, ConstantesContas
  <2> QED BY <1>1, <2>2 DEF Codigo
<1> HIDE DEF novo
<1>3. novo # SemCodigo
  BY <1>2, NadaNaoELinha
<1>4. codigoEmail' = [codigoEmail EXCEPT ![p] = novo]
  BY DEF ErrarCodigoDeEmail, novo
<1>5. UNCHANGED <<conta, convite, codigoSenha, sessao, grupoAtivo, usadas, confirmadas, perdas>>
  BY DEF ErrarCodigoDeEmail
<1>6. /\ codigoEmail' \in [Pessoas -> Codigo \cup {SemCodigo}]
      /\ \A q \in Pessoas :
           /\ codigoEmail[q] # SemCodigo => codigoEmail'[q] # SemCodigo
           /\ codigoEmail'[q] # SemCodigo => convite[codigoEmail'[q].convite] # SemConvite
  BY <1>1, <1>2, <1>3, <1>4 DEF InvContas, TiposContas, IdsDadas
<1> QED BY <1>5, <1>6, SemMexerNasLinhas DEF InvContas, TiposContas

\* Asking for a reset of the password is safe.
LEMMA SolicitarRedefinicaoSegura ==
  ASSUME InvContas, NEW p \in Pessoas, SolicitarRedefinicao(p)
  PROVE  PassoSeguro
<1>1. codigoSenha' \in [Pessoas -> 0..MaxTentativas]
  BY ConstantesContas DEF InvContas, TiposContas, SolicitarRedefinicao
<1>2. UNCHANGED <<conta, convite, codigoEmail, sessao, grupoAtivo, usadas, confirmadas, perdas>>
  BY DEF SolicitarRedefinicao
<1> QED BY <1>1, <1>2, SemMexerNasLinhas DEF InvContas, TiposContas, IdsDadas

\* A wrong reset code is safe.
LEMMA ErrarCodigoDeSenhaSeguro ==
  ASSUME InvContas, NEW p \in Pessoas, ErrarCodigoDeSenha(p)
  PROVE  PassoSeguro
<1>1. codigoSenha' \in [Pessoas -> 0..MaxTentativas]
  BY ConstantesContas DEF InvContas, TiposContas, ErrarCodigoDeSenha
<1>2. UNCHANGED <<conta, convite, codigoEmail, sessao, grupoAtivo, usadas, confirmadas, perdas>>
  BY DEF ErrarCodigoDeSenha
<1> QED BY <1>1, <1>2, SemMexerNasLinhas DEF InvContas, TiposContas, IdsDadas

\* Switching the group off or on is safe.
LEMMA EditarGrupoSeguro ==
  ASSUME InvContas, EditarGrupo
  PROVE  PassoSeguro
<1>1. grupoAtivo' \in BOOLEAN
  BY DEF EditarGrupo
<1>2. UNCHANGED <<conta, convite, codigoEmail, codigoSenha, sessao, usadas, confirmadas, perdas>>
  BY DEF EditarGrupo
<1> QED BY <1>1, <1>2, SemMexerNasLinhas DEF InvContas, TiposContas, IdsDadas

\* A new row, not an administrator's, under an id given now.
LEMMA ContaNova ==
  ASSUME InvContas, NEW p \in Pessoas, ~Existe(p), usadas.ids < MaxContas,
         NEW c \in Conta, c.id = usadas.ids + 1, c.versao = 0, c.senha = 0,
         conta' = [conta EXCEPT ![p] = c], usadas' = [usadas EXCEPT !.ids = @ + 1],
         UNCHANGED <<convite, codigoSenha, sessao, grupoAtivo, confirmadas, perdas>>,
         codigoEmail' \in [Pessoas -> Codigo \cup {SemCodigo}],
         c.verificado \/ codigoEmail'[p] # SemCodigo,
         \A q \in Pessoas :
           /\ codigoEmail[q] # SemCodigo => codigoEmail'[q] # SemCodigo
           /\ codigoEmail'[q] # SemCodigo => convite[codigoEmail'[q].convite] # SemConvite
  PROVE  PassoSeguro
<1>1. /\ usadas \in [ids : 1..MaxContas, senhas : 0..MaxSenhas]
      /\ usadas' \in [ids : 1..MaxContas, senhas : 0..MaxSenhas]
      /\ usadas'.ids = usadas.ids + 1 /\ usadas'.senhas = usadas.senhas
      /\ usadas.ids \in Nat /\ usadas.senhas \in Nat
  BY ConstantesContas DEF InvContas, TiposContas
<1>2. /\ conta' \in [Pessoas -> Conta \cup {SemConta}]
      /\ conta'[p] = c /\ \A q \in Pessoas \ {p} : conta'[q] = conta[q]
  BY DEF InvContas, TiposContas
<1>3. TiposContas' /\ TiposDasHistorias'
  BY <1>1, <1>2 DEF InvContas, TiposContas, TiposDasHistorias, Existe
<1>4. IdsDadas'
  <2>1. \A q \in Pessoas \ {p} : Existe(q)' = Existe(q)
    BY <1>2 DEF Existe
  <2>2. \A q \in Pessoas : Existe(q) => conta[q].id <= usadas.ids /\ conta[q].id \in Nat
    BY CamposDaConta, ConstantesContas DEF InvContas, TiposContas, IdsDadas, Existe
  <2>3. \A q \in Pessoas : Existe(q)' =>
          /\ conta'[q].id <= usadas'.ids
          /\ conta'[q].versao <= usadas'.senhas /\ conta'[q].senha <= usadas'.senhas
    BY <1>1, <1>2, <2>1, <2>2 DEF InvContas, IdsDadas
  <2>4. \A q, s \in Pessoas : Existe(q)' /\ Existe(s)' /\ conta'[q].id = conta'[s].id => q = s
    BY <1>1, <1>2, <2>1, <2>2 DEF InvContas, IdsDadas
  <2> QED BY <2>3, <2>4 DEF IdsDadas
<1>5. UsosContados'
  BY DEF InvContas, UsosContados
<1>6. SempreHaAdministrador'
  <2>1. \A q \in Pessoas : Entra(q) => q # p /\ conta'[q] = conta[q]
    BY <1>2 DEF Entra
  <2> QED BY <2>1 DEF InvContas, SempreHaAdministrador, HaAdministrador, Administra, Entra, Existe
<1>7. EscritaSegura
  BY <1>1, <1>2 DEF EscritaSegura, LinhaSegue
<1> QED BY <1>3, <1>4, <1>5, <1>6, <1>7 DEF PassoSeguro, SessaoSegue

\* The row of a new account.
LEMMA LinhaDaContaNova ==
  ASSUME NEW n \in 1..MaxContas, NEW b \in BOOLEAN, NEW nao \in BOOLEAN,
         NEW c, c = [id |-> n, ativo |-> b, verificado |-> b, admin |-> nao, fora |-> nao,
                     versao |-> 0, senha |-> 0]
  PROVE  c \in Conta /\ c.id = n /\ c.versao = 0 /\ c.senha = 0 /\ c.verificado = b
BY ConstantesContas DEF Conta

\* A registration by invitation is safe.
LEMMA CriarContaSegura ==
  ASSUME InvContas, NEW p \in Pessoas, NEW k \in Convites, CriarConta(p, k)
  PROVE  PassoSeguro
<1> DEFINE nao == FALSE
<1>1. nao \in BOOLEAN
  OBVIOUS
<1> DEFINE c == [id |-> usadas.ids + 1, ativo |-> nao, verificado |-> nao, admin |-> nao, fora |-> nao,
                 versao |-> 0, senha |-> 0]
<1>2. conta' = [conta EXCEPT ![p] = c]
  BY DEF CriarConta
<1> HIDE DEF nao
<1>3. usadas.ids + 1 \in 1..MaxContas
  BY ConstantesContas DEF InvContas, TiposContas, CriarConta
<1>4. c \in Conta /\ c.id = usadas.ids + 1 /\ c.versao = 0 /\ c.senha = 0
  BY <1>1, <1>3, LinhaDaContaNova
<1> HIDE DEF c
<1>5. /\ ~Existe(p) /\ usadas.ids < MaxContas /\ usadas' = [usadas EXCEPT !.ids = @ + 1]
      /\ convite[k] # SemConvite /\ EnviarCodigo(p, k)
      /\ UNCHANGED <<convite, codigoSenha, sessao, grupoAtivo, confirmadas, perdas>>
  BY DEF CriarConta, ConviteValido
<1>6. /\ codigoEmail' \in [Pessoas -> Codigo \cup {SemCodigo}]
      /\ codigoEmail'[p] # SemCodigo
      /\ \A q \in Pessoas :
           /\ codigoEmail[q] # SemCodigo => codigoEmail'[q] # SemCodigo
           /\ codigoEmail'[q] # SemCodigo => convite[codigoEmail'[q].convite] # SemConvite
  BY <1>5, CodigoEnviado
<1> QED BY <1>2, <1>4, <1>5, <1>6, ContaNova

\* An account made with the key of the API is safe.
LEMMA CriarUsuarioSeguro ==
  ASSUME InvContas, NEW p \in Pessoas, CriarUsuario(p)
  PROVE  PassoSeguro
<1> DEFINE nao == FALSE
<1> DEFINE sim == TRUE
<1>1. nao \in BOOLEAN /\ sim = TRUE /\ sim \in BOOLEAN
  OBVIOUS
<1> DEFINE c == [id |-> usadas.ids + 1, ativo |-> sim, verificado |-> sim, admin |-> nao, fora |-> nao,
                 versao |-> 0, senha |-> 0]
<1>2. conta' = [conta EXCEPT ![p] = c]
  BY DEF CriarUsuario
<1> HIDE DEF nao, sim
<1>3. usadas.ids + 1 \in 1..MaxContas
  BY ConstantesContas DEF InvContas, TiposContas, CriarUsuario
<1>4. c \in Conta /\ c.id = usadas.ids + 1 /\ c.versao = 0 /\ c.senha = 0 /\ c.verificado
  BY <1>1, <1>3, LinhaDaContaNova
<1> HIDE DEF c
<1>5. /\ ~Existe(p) /\ usadas.ids < MaxContas /\ usadas' = [usadas EXCEPT !.ids = @ + 1]
      /\ UNCHANGED <<convite, codigoEmail, codigoSenha, sessao, grupoAtivo, confirmadas, perdas>>
  BY DEF CriarUsuario
<1>6. /\ codigoEmail' \in [Pessoas -> Codigo \cup {SemCodigo}]
      /\ \A q \in Pessoas :
           /\ codigoEmail[q] # SemCodigo => codigoEmail'[q] # SemCodigo
           /\ codigoEmail'[q] # SemCodigo => convite[codigoEmail'[q].convite] # SemConvite
  BY <1>5 DEF InvContas, TiposContas, IdsDadas
<1> QED BY <1>2, <1>4, <1>5, <1>6, ContaNova

-----------------------------------------------------------------------------
(* The requests that commit rows read before.                               *)

\* A row written by a request that found it.
LEMMA LinhaEscrita ==
  ASSUME InvContas, NEW p \in Pessoas, Existe(p), NEW d \in Conta, d.id = conta[p].id,
         conta' = [conta EXCEPT ![p] = d],
         conta[p].verificado => d.verificado,
         \/ d.versao = conta[p].versao /\ d.senha = conta[p].senha
         \/ d.versao > conta[p].versao
         \/ conta[p].id \in perdas'.versoes
         \/ ~conta[p].verificado,
         d.versao <= usadas'.senhas /\ d.senha <= usadas'.senhas,
         usadas' \in [ids : 1..MaxContas, senhas : 0..MaxSenhas],
         usadas'.ids = usadas.ids /\ usadas.senhas <= usadas'.senhas,
         perdas.versoes \subseteq perdas'.versoes,
         convite' \in [Convites -> Convite \cup {SemConvite}],
         \A k \in Convites : convite[k] # SemConvite => convite'[k] # SemConvite,
         codigoEmail' \in [Pessoas -> Codigo \cup {SemCodigo}],
         d.verificado \/ codigoEmail'[p] # SemCodigo,
         \A q \in Pessoas :
           /\ codigoEmail[q] # SemCodigo => codigoEmail'[q] # SemCodigo
           /\ codigoEmail'[q] # SemCodigo => convite[codigoEmail'[q].convite] # SemConvite,
         codigoSenha' \in [Pessoas -> 0..MaxTentativas],
         sessao' \in Sessao \cup {SemSessao}, grupoAtivo' \in BOOLEAN
  PROVE  TiposContas' /\ IdsDadas' /\ EscritaSegura
<1>1. /\ conta' \in [Pessoas -> Conta \cup {SemConta}]
      /\ conta'[p] = d /\ \A q \in Pessoas \ {p} : conta'[q] = conta[q]
  BY DEF InvContas, TiposContas
<1>2. TiposContas'
  BY <1>1 DEF InvContas, TiposContas, Existe
<1>3. /\ usadas'.ids \in Nat /\ usadas'.senhas \in Nat
      /\ usadas.ids \in Nat /\ usadas.senhas \in Nat
  BY ConstantesContas DEF InvContas, TiposContas
<1>4. IdsDadas'
  <2>1. \A q \in Pessoas : Existe(q)' => Existe(q) /\ conta'[q].id = conta[q].id
    BY <1>1 DEF Existe
  <2>2. \A q \in Pessoas : Existe(q) =>
          /\ conta[q].versao \in Nat /\ conta[q].senha \in Nat
          /\ conta[q].versao <= usadas.senhas /\ conta[q].senha <= usadas.senhas
    BY CamposDaConta, ConstantesContas DEF InvContas, TiposContas, IdsDadas, Existe
  <2>3. \A q \in Pessoas : Existe(q)' =>
          /\ conta'[q].id <= usadas'.ids
          /\ conta'[q].versao <= usadas'.senhas /\ conta'[q].senha <= usadas'.senhas
    BY <1>1, <1>3, <2>1, <2>2 DEF InvContas, IdsDadas
  <2>4. \A q, s \in Pessoas : Existe(q)' /\ Existe(s)' /\ conta'[q].id = conta'[s].id => q = s
    BY <2>1 DEF InvContas, IdsDadas
  <2>5. \A q \in Pessoas : codigoEmail'[q] # SemCodigo => convite'[codigoEmail'[q].convite] # SemConvite
    <3>1. \A q \in Pessoas : codigoEmail'[q] # SemCodigo => codigoEmail'[q].convite \in Convites
      BY DEF Codigo
    <3> QED BY <3>1
  <2> QED BY <2>3, <2>4, <2>5 DEF IdsDadas
<1>5. EscritaSegura
  <2>1. LinhaSegue(p)
    BY <1>1 DEF LinhaSegue
  <2>2. \A q \in Pessoas \ {p} : LinhaSegue(q)
    BY <1>1 DEF LinhaSegue
  <2> QED BY <1>3, <2>1, <2>2 DEF EscritaSegura
<1> QED BY <1>2, <1>4, <1>5

\* A session opened from the row of a confirmed account.
LEMMA SessaoDaLinha ==
  ASSUME TiposContas', IdsDadas', NEW p \in Pessoas, Existe(p)', conta'[p].verificado,
         sessao' = [id |-> conta'[p].id, versao |-> conta'[p].versao, senha |-> conta'[p].senha]
  PROVE  Lembranca(sessao)'
<1>1. /\ conta'[p].id \in 1..MaxContas /\ conta'[p].id <= usadas'.ids
      /\ conta'[p].versao \in 0..MaxSenhas /\ conta'[p].senha \in 0..MaxSenhas
      /\ usadas'.ids \in 1..MaxContas
  BY CamposDaConta DEF TiposContas, IdsDadas, Existe
<1>2. /\ sessao'.id = conta'[p].id /\ sessao'.versao = conta'[p].versao
      /\ sessao'.senha = conta'[p].senha
  OBVIOUS
<1>3. conta'[p].id \in 1..usadas'.ids
  BY <1>1, ConstantesContas
<1>4. \A q \in Pessoas : Existe(q)' /\ conta'[q].id = sessao'.id => q = p
  BY <1>2 DEF IdsDadas
<1>5. conta'[p].versao <= conta'[p].versao
  BY <1>1, ConstantesContas
<1>6. \A q \in Pessoas : Existe(q)' /\ conta'[q].id = sessao'.id /\ sessao'.id \notin perdas'.versoes =>
        /\ conta'[q].verificado /\ sessao'.versao <= conta'[q].versao
        /\ sessao'.versao = conta'[q].versao => sessao'.senha = conta'[q].senha
  BY <1>2, <1>4, <1>5
<1> QED BY <1>1, <1>2, <1>3, <1>6 DEF Lembranca

\* The row a request found, and the columns of it that are not who may enter
\* as an administrator, keep the group with one.
LEMMA AdministradorFica ==
  ASSUME InvContas, NEW p \in Pessoas, Existe(p), NEW d \in Conta,
         conta' = [conta EXCEPT ![p] = d],
         conta[p].ativo => d.ativo, conta[p].verificado => d.verificado, d.admin = conta[p].admin,
         d.fora = conta[p].fora, perdas.admin => perdas'.admin \/ HaAdministrador'
  PROVE  SempreHaAdministrador'
<1>1. /\ conta' \in [Pessoas -> Conta \cup {SemConta}]
      /\ conta'[p] = d /\ \A q \in Pessoas \ {p} : conta'[q] = conta[q]
  BY DEF InvContas, TiposContas
<1>2. d # SemConta
  BY NadaNaoELinha
<1>3. ASSUME NEW q \in Pessoas, Administra(q)
      PROVE  Administra(q)'
  <2>1. CASE q = p
    BY <1>1, <1>2, <1>3, <2>1 DEF Administra, Entra, Existe
  <2>2. CASE q # p
    BY <1>1, <1>3, <2>2 DEF Administra, Entra, Existe
  <2> QED BY <2>1, <2>2
<1> QED BY <1>3 DEF InvContas, SempreHaAdministrador, HaAdministrador

\* A login opens a session from the row it read, however long ago.
LEMMA LoginSeguro ==
  ASSUME InvContas, NEW r, PedidoBom(r), r.tipo = "login", Login(r)
  PROVE  PassoSeguro
<1>1. UNCHANGED <<conta, convite, codigoEmail, codigoSenha, grupoAtivo, usadas, confirmadas, perdas>>
  BY DEF Login
<1>2. Lembranca(r.linha)
  BY DEF PedidoBom
<1>3. sessao' \in Sessao \cup {SemSessao} /\ (sessao' = sessao \/ Lembranca(sessao)')
  <2>1. CASE UNCHANGED sessao
    BY <2>1 DEF InvContas, TiposContas
  <2>2. CASE sessao' = [id |-> r.linha.id, versao |-> r.linha.versao, senha |-> r.linha.senha]
    <3>1. /\ r.linha.id \in 1..MaxContas /\ r.linha.versao \in 0..MaxSenhas
          /\ r.linha.senha \in 0..MaxSenhas
      BY <1>2, ConstantesContas DEF Lembranca, InvContas, TiposContas
    <3>2. sessao' \in Sessao
      BY <2>2, <3>1 DEF Sessao
    <3>3. sessao'.id = r.linha.id /\ sessao'.versao = r.linha.versao /\ sessao'.senha = r.linha.senha
      BY <2>2
    <3>4. Lembranca(sessao)'
      BY <1>1, <1>2, <3>3 DEF Lembranca, Existe
    <3> QED BY <3>2, <3>4
  <2> QED BY <2>1, <2>2 DEF Login, AbrirSessao
<1>4. TiposContas' /\ TiposDasHistorias'
  BY <1>1, <1>3 DEF InvContas, TiposContas, TiposDasHistorias, Existe
<1>5. IdsDadas'
  BY <1>1 DEF InvContas, IdsDadas, Existe
<1>6. UsosContados'
  BY <1>1 DEF InvContas, UsosContados
<1>7. SempreHaAdministrador'
  BY <1>1 DEF InvContas, SempreHaAdministrador, HaAdministrador, Administra, Entra, Existe
<1>8. EscritaSegura
  <2>1. usadas.ids <= usadas'.ids /\ usadas.senhas <= usadas'.senhas
    BY <1>1, ConstantesContas DEF InvContas, TiposContas
  <2> QED BY <1>1, <2>1 DEF EscritaSegura, LinhaSegue
<1> QED BY <1>3, <1>4, <1>5, <1>6, <1>7, <1>8 DEF PassoSeguro, SessaoSegue

\* A password given now is the last one.
LEMMA SenhaGasta ==
  ASSUME TiposContas, GastarSenha
  PROVE  /\ usadas' \in [ids : 1..MaxContas, senhas : 0..MaxSenhas]
         /\ usadas'.ids = usadas.ids /\ usadas'.senhas = usadas.senhas + 1
         /\ usadas.senhas <= usadas'.senhas
         /\ NovaSenha \in 0..MaxSenhas /\ NovaSenha = usadas'.senhas
BY ConstantesContas DEF TiposContas, GastarSenha, NovaSenha

\* What the row a request found has.
LEMMA LinhaAchada ==
  ASSUME InvContas, NEW r, r.alvo \in Pessoas, Achada(r)
  PROVE  /\ Existe(r.alvo) /\ conta[r.alvo] \in Conta /\ conta[r.alvo].id = r.id
         /\ conta[r.alvo].versao <= usadas.senhas /\ conta[r.alvo].senha <= usadas.senhas
         /\ conta[r.alvo].versao \in Nat /\ conta[r.alvo].senha \in Nat /\ usadas.senhas \in Nat
<1>1. Existe(r.alvo) /\ conta[r.alvo] \in Conta /\ conta[r.alvo].id = r.id
  BY DEF Achada, Existe, InvContas, TiposContas
<1>2. conta[r.alvo].versao <= usadas.senhas /\ conta[r.alvo].senha <= usadas.senhas
  BY <1>1 DEF InvContas, IdsDadas
<1>3. usadas.senhas \in Nat
  BY ConstantesContas DEF InvContas, TiposContas
<1> QED BY <1>1, <1>2, <1>3, CamposDaConta, ConstantesContas

\* A registration done again is safe, also when the account was confirmed
\* since it was read: the history says so.
LEMMA RefazerContaSeguro ==
  ASSUME InvContas, NEW r, PedidoBom(r), r.tipo = "refazer", RefazerConta(r)
  PROVE  PassoSeguro
<1> DEFINE p == r.alvo
<1> DEFINE d == ComColunas(conta[p], [senha |-> NovaSenha])
<1>1. p \in Pessoas /\ r.convite \in Convites /\ convite[r.convite] # SemConvite
  BY DEF PedidoBom
<1>2. /\ GastarSenha /\ Achada(r) /\ EnviarCodigo(p, r.convite)
      /\ conta' = [conta EXCEPT ![p] = d]
      /\ perdas' = [perdas EXCEPT !.versoes = @ \cup (IF conta[p].verificado THEN {r.id} ELSE {})]
      /\ UNCHANGED <<convite, codigoSenha, sessao, grupoAtivo, confirmadas>>
  BY DEF RefazerConta, Gravar
<1>3. /\ Existe(p) /\ conta[p] \in Conta /\ conta[p].id = r.id
      /\ conta[p].versao <= usadas.senhas /\ conta[p].versao \in Nat /\ usadas.senhas \in Nat
  BY <1>1, <1>2, LinhaAchada
<1>4. /\ usadas' \in [ids : 1..MaxContas, senhas : 0..MaxSenhas]
      /\ usadas'.ids = usadas.ids /\ usadas'.senhas = usadas.senhas + 1
      /\ usadas.senhas <= usadas'.senhas
      /\ NovaSenha \in 0..MaxSenhas /\ NovaSenha = usadas'.senhas
  BY <1>2, SenhaGasta DEF InvContas
<1>5. /\ d \in Conta /\ d.id = conta[p].id /\ d.ativo = conta[p].ativo
      /\ d.verificado = conta[p].verificado
      /\ d.admin = conta[p].admin /\ d.fora = conta[p].fora /\ d.versao = conta[p].versao /\ d.senha = NovaSenha
  BY <1>3, <1>4, SenhaGravada
<1>6. /\ perdas' \in [versoes : SUBSET (1..MaxContas), usos : SUBSET Convites, admin : BOOLEAN]
      /\ perdas.versoes \subseteq perdas'.versoes
      /\ perdas'.usos = perdas.usos
      /\ perdas.admin => perdas'.admin
      /\ conta[p].verificado => r.id \in perdas'.versoes
  <2>1. r.id \in 1..MaxContas
    BY <1>3, CamposDaConta
  <2>2. perdas' \in [versoes : SUBSET (1..MaxContas), usos : SUBSET Convites, admin : BOOLEAN]
    BY <1>2, <2>1 DEF InvContas, TiposDasHistorias
  <2>3. /\ perdas.versoes \subseteq perdas'.versoes /\ perdas'.usos = perdas.usos
        /\ conta[p].verificado => r.id \in perdas'.versoes
    BY <1>2 DEF InvContas, TiposDasHistorias
  <2>4. perdas'.admin = perdas.admin
    BY <1>2 DEF InvContas, TiposDasHistorias
  <2> QED BY <2>2, <2>3, <2>4
<1>7. /\ codigoEmail' \in [Pessoas -> Codigo \cup {SemCodigo}]
      /\ codigoEmail'[p] # SemCodigo
      /\ \A q \in Pessoas :
           /\ codigoEmail[q] # SemCodigo => codigoEmail'[q] # SemCodigo
           /\ codigoEmail'[q] # SemCodigo => convite[codigoEmail'[q].convite] # SemConvite
  BY <1>1, <1>2, CodigoEnviado
<1> HIDE DEF d, p
<1>8. TiposContas' /\ IdsDadas' /\ EscritaSegura
  <2>1. d.versao <= usadas'.senhas /\ d.senha <= usadas'.senhas
    BY <1>3, <1>4, <1>5
  <2>2. /\ convite' \in [Convites -> Convite \cup {SemConvite}]
        /\ codigoSenha' \in [Pessoas -> 0..MaxTentativas]
        /\ sessao' \in Sessao \cup {SemSessao} /\ grupoAtivo' \in BOOLEAN
    BY <1>2 DEF InvContas, TiposContas
  <2>3. \A k \in Convites : convite[k] # SemConvite => convite'[k] # SemConvite
    BY <1>2
  <2>4. conta[p].id \in perdas'.versoes \/ ~conta[p].verificado
    BY <1>3, <1>6
  <2>5. conta[p].verificado => d.verificado
    BY <1>5
  <2> QED BY <1>1, <1>2, <1>3, <1>4, <1>5, <1>6, <1>7, <2>1, <2>2, <2>3, <2>4, <2>5, LinhaEscrita
<1>9. SempreHaAdministrador'
  BY <1>1, <1>2, <1>3, <1>5, <1>6, AdministradorFica
<1>10. UsosContados' /\ TiposDasHistorias'
  BY <1>2, <1>6 DEF InvContas, UsosContados, TiposDasHistorias
<1> QED BY <1>2, <1>8, <1>9, <1>10 DEF PassoSeguro, SessaoSegue

\* A change of password is safe, also when another one came in between: the
\* history says so.
LEMMA TrocarSenhaSeguro ==
  ASSUME InvContas, NEW r, PedidoBom(r), r.tipo = "senha", TrocarSenha(r)
  PROVE  PassoSeguro
<1> DEFINE p == r.alvo
<1> DEFINE m == r.versao + 1
<1> DEFINE d == ComColunas(conta[p], [senha |-> NovaSenha, versao |-> m])
<1>1. p \in Pessoas /\ r.versao \in 0..usadas.senhas
  BY DEF PedidoBom
<1>2. /\ GastarSenha /\ Achada(r)
      /\ conta' = [conta EXCEPT ![p] = d]
      /\ codigoSenha' = [codigoSenha EXCEPT ![p] = IF r.gasta THEN 0 ELSE @]
      /\ perdas' = [perdas EXCEPT !.versoes = @ \cup
                      (IF conta[p].versao # r.versao THEN {r.id} ELSE {})]
      /\ UNCHANGED <<convite, codigoEmail, sessao, grupoAtivo, confirmadas>>
  BY DEF TrocarSenha, Gravar, VersaoTrocada
<1>3. /\ Existe(p) /\ conta[p] \in Conta /\ conta[p].id = r.id
      /\ conta[p].versao \in Nat /\ usadas.senhas \in Nat
  BY <1>1, <1>2, LinhaAchada
<1>4. /\ usadas' \in [ids : 1..MaxContas, senhas : 0..MaxSenhas]
      /\ usadas'.ids = usadas.ids /\ usadas'.senhas = usadas.senhas + 1
      /\ usadas.senhas <= usadas'.senhas
      /\ NovaSenha \in 0..MaxSenhas /\ NovaSenha = usadas'.senhas
  BY <1>2, SenhaGasta DEF InvContas
<1>5. m \in 0..MaxSenhas /\ m <= usadas'.senhas
  BY <1>1, <1>3, <1>4, ConstantesContas
<1> HIDE DEF m
<1>6. /\ d \in Conta /\ d.id = conta[p].id /\ d.ativo = conta[p].ativo
      /\ d.verificado = conta[p].verificado
      /\ d.admin = conta[p].admin /\ d.fora = conta[p].fora /\ d.versao = m /\ d.senha = NovaSenha
  BY <1>3, <1>4, <1>5, SenhaEVersaoGravadas
<1>7. /\ perdas' \in [versoes : SUBSET (1..MaxContas), usos : SUBSET Convites, admin : BOOLEAN]
      /\ perdas.versoes \subseteq perdas'.versoes
      /\ perdas'.usos = perdas.usos
      /\ perdas.admin => perdas'.admin
      /\ conta[p].versao # r.versao => r.id \in perdas'.versoes
  <2>1. r.id \in 1..MaxContas
    BY <1>3, CamposDaConta
  <2>2. perdas' \in [versoes : SUBSET (1..MaxContas), usos : SUBSET Convites, admin : BOOLEAN]
    BY <1>2, <2>1 DEF InvContas, TiposDasHistorias
  <2>3. /\ perdas.versoes \subseteq perdas'.versoes /\ perdas'.usos = perdas.usos
        /\ conta[p].versao # r.versao => r.id \in perdas'.versoes
    BY <1>2 DEF InvContas, TiposDasHistorias
  <2>4. perdas'.admin = perdas.admin
    BY <1>2 DEF InvContas, TiposDasHistorias
  <2> QED BY <2>2, <2>3, <2>4
<1>8. codigoSenha' \in [Pessoas -> 0..MaxTentativas]
  <2>1. codigoSenha \in [Pessoas -> 0..MaxTentativas] /\ 0 \in 0..MaxTentativas
    BY ConstantesContas DEF InvContas, TiposContas
  <2>2. PICK n \in 0..MaxTentativas : codigoSenha' = [codigoSenha EXCEPT ![p] = n]
    BY <1>1, <1>2, <2>1, Zenon
  <2> QED BY <2>1, <2>2
<1>9. d.versao > conta[p].versao \/ conta[p].id \in perdas'.versoes
  BY <1>3, <1>6, <1>7 DEF m
<1> HIDE DEF d, p
<1>10. TiposContas' /\ IdsDadas' /\ EscritaSegura
  <2>1. d.versao <= usadas'.senhas /\ d.senha <= usadas'.senhas
    BY <1>3, <1>4, <1>5, <1>6
  <2>2. /\ convite' \in [Convites -> Convite \cup {SemConvite}]
        /\ codigoEmail' \in [Pessoas -> Codigo \cup {SemCodigo}]
        /\ sessao' \in Sessao \cup {SemSessao} /\ grupoAtivo' \in BOOLEAN
    BY <1>2 DEF InvContas, TiposContas
  <2>3. \A k \in Convites : convite[k] # SemConvite => convite'[k] # SemConvite
    BY <1>2
  <2>4. \A q \in Pessoas :
          /\ codigoEmail[q] # SemCodigo => codigoEmail'[q] # SemCodigo
          /\ codigoEmail'[q] # SemCodigo => convite[codigoEmail'[q].convite] # SemConvite
    BY <1>2 DEF InvContas, IdsDadas
  <2>5. conta[p].verificado => d.verificado
    BY <1>6
  <2>6. d.verificado \/ codigoEmail'[p] # SemCodigo
    BY <1>1, <1>2, <1>3, <1>6 DEF InvContas, TiposContas, p
  <2> QED BY <1>1, <1>2, <1>3, <1>4, <1>6, <1>7, <1>8, <1>9, <2>1, <2>2, <2>3, <2>4, <2>5, <2>6,
             LinhaEscrita
<1>11. SempreHaAdministrador'
  BY <1>1, <1>2, <1>3, <1>6, <1>7, AdministradorFica
<1>12. UsosContados' /\ TiposDasHistorias'
  BY <1>2, <1>7 DEF InvContas, UsosContados, TiposDasHistorias
<1> QED BY <1>2, <1>10, <1>11, <1>12 DEF PassoSeguro, SessaoSegue

\* What an administrator's request adds to the history.
LEMMA HistoriaDoAdmin ==
  ASSUME TiposDasHistorias, NEW r, PerdasDoAdmin(r)
  PROVE  /\ perdas' \in [versoes : SUBSET (1..MaxContas), usos : SUBSET Convites, admin : BOOLEAN]
         /\ perdas'.versoes = perdas.versoes /\ perdas'.usos = perdas.usos
         /\ perdas.admin \/ r.autor = Geral \/ Atropelado(r) => perdas'.admin \/ HaAdministrador'
<1> DEFINE c == ~HaAdministrador' /\ (perdas.admin \/ r.autor = Geral \/ Atropelado(r))
<1>1. c \in BOOLEAN /\ (perdas.admin \/ r.autor = Geral \/ Atropelado(r) => c \/ HaAdministrador')
  OBVIOUS
<1>2. perdas' = [perdas EXCEPT !.admin = c]
  BY DEF c, PerdasDoAdmin
<1> HIDE DEF c
<1>3. perdas' \in [versoes : SUBSET (1..MaxContas), usos : SUBSET Convites, admin : BOOLEAN]
  BY <1>1, <1>2 DEF TiposDasHistorias
<1>4. perdas'.versoes = perdas.versoes /\ perdas'.usos = perdas.usos
  BY <1>2 DEF TiposDasHistorias
<1>5. perdas'.admin = c
  BY <1>2 DEF TiposDasHistorias
<1> QED BY <1>1, <1>3, <1>4, <1>5

\* An administrator who is not the general one writes the row of another: of
\* the same group, and then the author is an administrator of it still, or of
\* the others, which do not count for this one.
LEMMA AutorFica ==
  ASSUME InvContas, NEW r, r.alvo \in Pessoas, AutorDoGrupo(r), PerdasDoAdmin(r),
         \A q \in Pessoas \ {r.alvo} : conta'[q] = conta[q]
  PROVE  SempreHaAdministrador'
<1>1. perdas.admin \/ r.autor = Geral \/ Atropelado(r) => perdas'.admin \/ HaAdministrador'
  BY HistoriaDoAdmin DEF InvContas
<1>2. ASSUME r.autor # Geral, ~Atropelado(r), HaAdministrador
      PROVE  HaAdministrador'
  <2>1. /\ r.autor \in Pessoas /\ r.autor # r.alvo
        /\ Entra(r.autor) /\ conta[r.autor].admin
        /\ conta[r.autor].fora = conta[r.alvo].fora
    BY <1>2 DEF AutorDoGrupo, Atropelado
  <2>2. CASE conta[r.autor].fora
    <3>1. PICK q \in Pessoas : Administra(q)
      BY <1>2 DEF HaAdministrador
    <3>2. q # r.alvo
      BY <2>1, <2>2, <3>1 DEF Administra
    <3>3. conta'[q] = conta[q]
      BY <3>2
    <3> QED BY <3>1, <3>3 DEF HaAdministrador, Administra, Entra, Existe
  <2>3. CASE ~conta[r.autor].fora
    <3>1. conta'[r.autor] = conta[r.autor]
      BY <2>1
    <3> QED BY <2>1, <2>3, <3>1 DEF HaAdministrador, Administra, Entra, Existe
  <2> QED BY <2>2, <2>3
<1> QED BY <1>1, <1>2 DEF InvContas, SempreHaAdministrador

\* An administrator's change of another account is safe.
LEMMA AtualizarUsuarioSeguro ==
  ASSUME InvContas, NEW r, PedidoBom(r), r.tipo = "atualizar", AtualizarUsuario(r)
  PROVE  PassoSeguro
<1> DEFINE p == r.alvo
<1> DEFINE d == ComColunas(conta[p], r.grava)
<1>1. p \in Pessoas /\ AutorDoGrupo(r) /\ r.grava \in ColunasDoAdmin
  BY DEF PedidoBom
<1>2. /\ Achada(r) /\ conta' = [conta EXCEPT ![p] = d]
      /\ PerdasDoAdmin(r)
      /\ UNCHANGED <<convite, codigoEmail, codigoSenha, sessao, grupoAtivo, usadas, confirmadas>>
  BY DEF AtualizarUsuario, Gravar
<1>3. /\ Existe(p) /\ conta[p] \in Conta
      /\ conta[p].versao <= usadas.senhas /\ conta[p].senha <= usadas.senhas
      /\ usadas.senhas \in Nat
  BY <1>1, <1>2, LinhaAchada
<1>4. /\ d \in Conta /\ d.id = conta[p].id /\ d.verificado = conta[p].verificado
      /\ d.versao = conta[p].versao /\ d.senha = conta[p].senha
  BY <1>1, <1>3, ColunasDoAdminGravadas
<1>5. /\ perdas' \in [versoes : SUBSET (1..MaxContas), usos : SUBSET Convites, admin : BOOLEAN]
      /\ perdas'.versoes = perdas.versoes /\ perdas'.usos = perdas.usos
  BY <1>2, HistoriaDoAdmin DEF InvContas
<1>6. SempreHaAdministrador'
  <2>1. \A q \in Pessoas \ {r.alvo} : conta'[q] = conta[q]
    BY <1>2 DEF InvContas, TiposContas
  <2> QED BY <1>1, <1>2, <2>1, AutorFica
<1> HIDE DEF d, p
<1>7. TiposContas' /\ IdsDadas' /\ EscritaSegura
  <2>1. /\ convite' \in [Convites -> Convite \cup {SemConvite}]
        /\ codigoEmail' \in [Pessoas -> Codigo \cup {SemCodigo}]
        /\ codigoSenha' \in [Pessoas -> 0..MaxTentativas]
        /\ sessao' \in Sessao \cup {SemSessao} /\ grupoAtivo' \in BOOLEAN
        /\ usadas' \in [ids : 1..MaxContas, senhas : 0..MaxSenhas]
    BY <1>2 DEF InvContas, TiposContas
  <2>2. /\ \A k \in Convites : convite[k] # SemConvite => convite'[k] # SemConvite
        /\ usadas'.ids = usadas.ids
        /\ usadas.senhas <= usadas'.senhas
        /\ d.versao <= usadas'.senhas /\ d.senha <= usadas'.senhas
    BY <1>2, <1>3, <1>4
  <2>3. \A q \in Pessoas :
          /\ codigoEmail[q] # SemCodigo => codigoEmail'[q] # SemCodigo
          /\ codigoEmail'[q] # SemCodigo => convite[codigoEmail'[q].convite] # SemConvite
    BY <1>2 DEF InvContas, IdsDadas
  <2>4. conta[p].verificado => d.verificado
    BY <1>4
  <2>5. d.verificado \/ codigoEmail'[p] # SemCodigo
    BY <1>1, <1>2, <1>3, <1>4 DEF InvContas, TiposContas
  <2>6. perdas.versoes \subseteq perdas'.versoes
    BY <1>5
  <2> QED BY <1>1, <1>2, <1>3, <1>4, <2>1, <2>2, <2>3, <2>4, <2>5, <2>6, LinhaEscrita
<1>8. UsosContados' /\ TiposDasHistorias'
  BY <1>2, <1>5 DEF InvContas, UsosContados, TiposDasHistorias
<1> QED BY <1>2, <1>6, <1>7, <1>8 DEF PassoSeguro, SessaoSegue

\* Deleting another account is safe: its codes and its authorship go with it.
LEMMA ExcluirUsuarioSeguro ==
  ASSUME InvContas, NEW r, PedidoBom(r), r.tipo = "excluir", ExcluirUsuario(r)
  PROVE  PassoSeguro
<1> DEFINE p == r.alvo
<1>1. p \in Pessoas /\ AutorDoGrupo(r)
  BY DEF PedidoBom
<1>2. /\ conta' = [conta EXCEPT ![p] = SemConta]
      /\ codigoEmail' = [codigoEmail EXCEPT ![p] = SemCodigo]
      /\ codigoSenha' = [codigoSenha EXCEPT ![p] = 0]
      /\ UNCHANGED <<sessao, grupoAtivo, usadas, confirmadas>>
  BY DEF ExcluirUsuario
<1>3. convite' = [k \in Convites |->
        IF convite[k] # SemConvite /\ convite[k].autor = r.id
          THEN [convite[k] EXCEPT !.autor = 0] ELSE convite[k]]
  BY DEF ExcluirUsuario
<1>4. /\ conta'[p] = SemConta /\ \A q \in Pessoas \ {p} : conta'[q] = conta[q]
      /\ codigoEmail'[p] = SemCodigo
      /\ \A q \in Pessoas \ {p} : codigoEmail'[q] = codigoEmail[q]
  BY <1>1, <1>2 DEF InvContas, TiposContas
<1>5. /\ convite' \in [Convites -> Convite \cup {SemConvite}]
      /\ \A k \in Convites :
           \/ convite'[k] = convite[k]
           \/ /\ convite[k] # SemConvite /\ convite'[k] # SemConvite
              /\ convite'[k].usos = convite[k].usos
  <2> SUFFICES ASSUME NEW k \in Convites
               PROVE  /\ convite'[k] \in Convite \cup {SemConvite}
                      /\ \/ convite'[k] = convite[k]
                         \/ /\ convite[k] # SemConvite /\ convite'[k] # SemConvite
                            /\ convite'[k].usos = convite[k].usos
    BY <1>3
  <2>1. CASE convite[k] # SemConvite /\ convite[k].autor = r.id
    <3>1. convite[k] \in Convite
      BY <2>1 DEF InvContas, TiposContas
    <3>2. convite'[k] = [convite[k] EXCEPT !.autor = 0]
      BY <1>3, <2>1
    <3>3. convite'[k] \in Convite /\ convite'[k].usos = convite[k].usos
      BY <3>1, <3>2, ConstantesContas DEF Convite
    <3> QED BY <2>1, <3>3, NadaNaoELinha
  <2>2. CASE ~(convite[k] # SemConvite /\ convite[k].autor = r.id)
    <3>1. convite'[k] = convite[k]
      BY <1>3, <2>2
    <3> QED BY <3>1 DEF InvContas, TiposContas
  <2> QED BY <2>1, <2>2
<1>6. /\ perdas' \in [versoes : SUBSET (1..MaxContas), usos : SUBSET Convites, admin : BOOLEAN]
      /\ perdas'.versoes = perdas.versoes /\ perdas'.usos = perdas.usos
      /\ PerdasDoAdmin(r)
  <2>1. PerdasDoAdmin(r)
    BY DEF ExcluirUsuario
  <2> QED BY <2>1, HistoriaDoAdmin DEF InvContas
<1>7. SempreHaAdministrador'
  BY <1>1, <1>4, <1>6, AutorFica
<1>8. TiposContas'
  <2>1. codigoSenha' \in [Pessoas -> 0..MaxTentativas]
    <3>1. codigoSenha \in [Pessoas -> 0..MaxTentativas] /\ 0 \in 0..MaxTentativas
      BY ConstantesContas DEF InvContas, TiposContas
    <3> QED BY <1>2, <3>1
  <2>2. /\ conta' \in [Pessoas -> Conta \cup {SemConta}]
        /\ codigoEmail' \in [Pessoas -> Codigo \cup {SemCodigo}]
        /\ sessao' \in Sessao \cup {SemSessao} /\ grupoAtivo' \in BOOLEAN
        /\ usadas' \in [ids : 1..MaxContas, senhas : 0..MaxSenhas]
    BY <1>2 DEF InvContas, TiposContas
  <2>3. \A q \in Pessoas : Existe(q)' /\ ~conta'[q].verificado => codigoEmail'[q] # SemCodigo
    BY <1>4 DEF InvContas, TiposContas, Existe
  <2> QED BY <1>5, <2>1, <2>2, <2>3 DEF TiposContas
<1>9. IdsDadas'
  <2>1. \A q \in Pessoas : Existe(q)' => Existe(q) /\ conta'[q] = conta[q]
    BY <1>4 DEF Existe
  <2>2. \A q \in Pessoas : codigoEmail'[q] # SemCodigo =>
          codigoEmail[q] = codigoEmail'[q] /\ codigoEmail[q].convite \in Convites
    BY <1>4 DEF InvContas, TiposContas, Codigo
  <2>3. \A q \in Pessoas : codigoEmail'[q] # SemCodigo => convite'[codigoEmail'[q].convite] # SemConvite
    BY <1>5, <2>2 DEF InvContas, IdsDadas
  <2> QED BY <1>2, <2>1, <2>3 DEF InvContas, IdsDadas
<1>10. EscritaSegura
  <2>1. usadas.ids <= usadas'.ids /\ usadas.senhas <= usadas'.senhas
    BY <1>2, ConstantesContas DEF InvContas, TiposContas
  <2>2. \A q \in Pessoas : LinhaSegue(q)
    BY <1>4 DEF LinhaSegue
  <2>3. perdas.versoes \subseteq perdas'.versoes
    BY <1>6
  <2> QED BY <1>5, <2>1, <2>2, <2>3 DEF EscritaSegura
<1>11. UsosContados'
  <2> SUFFICES ASSUME NEW k \in Convites
               PROVE  /\ convite'[k] = SemConvite => confirmadas[k] = {}
                      /\ convite'[k] # SemConvite /\ k \notin perdas.usos =>
                           Cardinality(confirmadas[k]) <= convite'[k].usos
    BY <1>2, <1>6 DEF UsosContados
  <2>1. /\ convite[k] = SemConvite => confirmadas[k] = {}
        /\ convite[k] # SemConvite /\ k \notin perdas.usos =>
             Cardinality(confirmadas[k]) <= convite[k].usos
    BY DEF InvContas, UsosContados
  <2>2. CASE convite'[k] = convite[k]
    BY <2>1, <2>2
  <2>3. CASE /\ convite[k] # SemConvite /\ convite'[k] # SemConvite
             /\ convite'[k].usos = convite[k].usos
    BY <2>1, <2>3
  <2> QED BY <1>5, <2>2, <2>3
<1>12. TiposDasHistorias'
  BY <1>2, <1>6 DEF InvContas, TiposDasHistorias
<1> QED BY <1>2, <1>7, <1>8, <1>9, <1>10, <1>11, <1>12 DEF PassoSeguro, SessaoSegue

\* A confirmation is safe, from whatever rows it read: the account it counts
\* is one more of the invitation, unless the history says the count was lost.
LEMMA VerificarEmailSeguro ==
  ASSUME InvContas, NEW r, PedidoBom(r), r.tipo = "verificar", VerificarEmail(r)
  PROVE  PassoSeguro
<1> DEFINE p == r.alvo
<1> DEFINE k == r.codigo.convite
<1> DEFINE d == ComColunas(conta[p], r.grava)
<1> DEFINE novo == [convite[k] EXCEPT !.usos = r.usos + 1]
<1>1. /\ p \in Pessoas /\ r.codigo \in Codigo /\ k \in Convites /\ convite[k] # SemConvite
      /\ r.usos \in 0..(MaxUsos - 1) /\ r.grava \in ColunasDaVerificacao
  BY DEF PedidoBom, Codigo
<1>2. /\ Achada(r) /\ conta' = [conta EXCEPT ![p] = d]
      /\ confirmadas' = [confirmadas EXCEPT ![k] = @ \cup {r.id}]
      /\ convite' = [convite EXCEPT ![k] = novo]
      /\ codigoEmail' = [codigoEmail EXCEPT ![p] = IF @ = r.codigo THEN [@ EXCEPT !.restam = 0] ELSE @]
      /\ perdas' = [perdas EXCEPT !.usos = @ \cup (IF convite[k].usos # r.usos THEN {k} ELSE {}),
                                 !.admin = @ /\ ~HaAdministrador']
      /\ UNCHANGED <<codigoSenha, grupoAtivo, usadas>>
  BY DEF VerificarEmail, Gravar
<1>3. /\ Existe(p) /\ conta[p] \in Conta /\ conta[p].id = r.id
      /\ conta[p].versao <= usadas.senhas /\ conta[p].senha <= usadas.senhas
      /\ usadas.senhas \in Nat
  BY <1>1, <1>2, LinhaAchada
<1>4. /\ d \in Conta /\ d.id = conta[p].id /\ d.verificado
      /\ conta[p].ativo => d.ativo
      /\ d.admin = conta[p].admin /\ d.fora = conta[p].fora /\ d.versao = conta[p].versao /\ d.senha = conta[p].senha
  BY <1>1, <1>3, VerificacaoGravada
<1>5. /\ convite[k] \in Convite /\ convite[k].usos \in Nat
      /\ novo \in Convite /\ novo.usos = r.usos + 1 /\ r.usos \in Nat
  <2>1. convite[k] \in Convite
    BY <1>1 DEF InvContas, TiposContas
  <2>2. r.usos + 1 \in 0..MaxUsos /\ r.usos \in Nat
    BY <1>1, ConstantesContas
  <2> QED BY <2>1, <2>2, ConstantesContas DEF Convite
<1>6. r.id \in 1..MaxContas
  BY <1>3, CamposDaConta
<1> HIDE DEF d, novo
<1>7. /\ convite' \in [Convites -> Convite \cup {SemConvite}]
      /\ convite'[k] = novo /\ novo # SemConvite
      /\ \A j \in Convites \ {k} : convite'[j] = convite[j]
  BY <1>1, <1>2, <1>5, NadaNaoELinha DEF InvContas, TiposContas
<1>8. conta'[p] = d /\ d # SemConta
  BY <1>1, <1>2, <1>4, NadaNaoELinha DEF InvContas, TiposContas
<1>9. /\ sessao' \in Sessao \cup {SemSessao}
      /\ \/ sessao' = sessao
         \/ sessao' = [id |-> conta'[p].id, versao |-> conta'[p].versao, senha |-> conta'[p].senha]
  <2>1. \/ sessao' = sessao
        \/ sessao' = [id |-> conta'[p].id, versao |-> conta'[p].versao, senha |-> conta'[p].senha]
    BY DEF VerificarEmail, AbrirSessao
  <2>2. [id |-> d.id, versao |-> d.versao, senha |-> d.senha] \in Sessao
    BY <1>4, CamposDaConta DEF Sessao
  <2> QED BY <1>8, <2>1, <2>2 DEF InvContas, TiposContas
<1>10. /\ codigoEmail' \in [Pessoas -> Codigo \cup {SemCodigo}]
       /\ \A q \in Pessoas :
            /\ codigoEmail[q] # SemCodigo => codigoEmail'[q] # SemCodigo
            /\ codigoEmail'[q] # SemCodigo => convite[codigoEmail'[q].convite] # SemConvite
  <2> DEFINE usado == [r.codigo EXCEPT !.restam = 0]
  <2>1. usado \in Codigo /\ usado.convite = k
    BY <1>1, ConstantesContas DEF Codigo
  <2>2. codigoEmail' = [codigoEmail EXCEPT ![p] = IF @ = r.codigo THEN usado ELSE @]
    BY <1>2
  <2> HIDE DEF usado
  <2>3. /\ codigoEmail \in [Pessoas -> Codigo \cup {SemCodigo}]
        /\ \A q \in Pessoas : codigoEmail[q] # SemCodigo => convite[codigoEmail[q].convite] # SemConvite
    BY DEF InvContas, TiposContas, IdsDadas
  <2>4. usado # SemCodigo
    BY <2>1, NadaNaoELinha
  <2> HIDE DEF k, p
  <2> QED BY <1>1, <2>1, <2>2, <2>3, <2>4
<1>11. /\ perdas' \in [versoes : SUBSET (1..MaxContas), usos : SUBSET Convites, admin : BOOLEAN]
       /\ perdas'.versoes = perdas.versoes /\ perdas.usos \subseteq perdas'.usos
       /\ perdas.admin => perdas'.admin \/ HaAdministrador'
       /\ convite[k].usos # r.usos => k \in perdas'.usos
  <2> DEFINE c == perdas.admin /\ ~HaAdministrador'
             u == perdas.usos \cup (IF convite[k].usos # r.usos THEN {k} ELSE {})
  <2>1. c \in BOOLEAN /\ (perdas.admin => c \/ HaAdministrador')
    OBVIOUS
  <2>2. /\ u \in SUBSET Convites /\ perdas.usos \subseteq u
        /\ convite[k].usos # r.usos => k \in u
    BY <1>1 DEF InvContas, TiposDasHistorias
  <2>3. perdas' = [perdas EXCEPT !.usos = u, !.admin = c]
    BY <1>2 DEF u, c
  <2> HIDE DEF u, c
  <2>4. perdas' \in [versoes : SUBSET (1..MaxContas), usos : SUBSET Convites, admin : BOOLEAN]
    BY <2>1, <2>2, <2>3 DEF InvContas, TiposDasHistorias
  <2>5. perdas'.versoes = perdas.versoes /\ perdas'.usos = u
    BY <2>3 DEF InvContas, TiposDasHistorias
  <2>6. perdas'.admin = c
    BY <2>3 DEF InvContas, TiposDasHistorias
  <2> QED BY <2>1, <2>2, <2>4, <2>5, <2>6
<1>12. /\ confirmadas' \in [Convites -> SUBSET (1..MaxContas)]
       /\ confirmadas'[k] = confirmadas[k] \cup {r.id}
       /\ \A j \in Convites \ {k} : confirmadas'[j] = confirmadas[j]
       /\ confirmadas[k] \in SUBSET (1..MaxContas)
  BY <1>1, <1>2, <1>6 DEF InvContas, TiposDasHistorias
<1> HIDE DEF k, p
<1>13. TiposContas' /\ IdsDadas' /\ EscritaSegura
  <2>1. /\ codigoSenha' \in [Pessoas -> 0..MaxTentativas] /\ grupoAtivo' \in BOOLEAN
        /\ usadas' \in [ids : 1..MaxContas, senhas : 0..MaxSenhas]
    BY <1>2 DEF InvContas, TiposContas
  <2>2. /\ \A j \in Convites : convite[j] # SemConvite => convite'[j] # SemConvite
        /\ usadas'.ids = usadas.ids
        /\ usadas.senhas <= usadas'.senhas
        /\ d.versao <= usadas'.senhas /\ d.senha <= usadas'.senhas
    BY <1>2, <1>3, <1>4, <1>7
  <2>3. perdas.versoes \subseteq perdas'.versoes
    BY <1>11
  <2>4. conta[p].verificado => d.verificado
    BY <1>4
  <2> QED BY <1>1, <1>2, <1>3, <1>4, <1>7, <1>9, <1>10, <2>1, <2>2, <2>3, <2>4, LinhaEscrita
<1>14. SempreHaAdministrador'
  BY <1>1, <1>2, <1>3, <1>4, <1>11, AdministradorFica
<1>15. UsosContados'
  <2>1. ASSUME NEW j \in Convites, j # k
        PROVE  /\ convite'[j] = SemConvite => confirmadas'[j] = {}
               /\ convite'[j] # SemConvite /\ j \notin perdas'.usos =>
                    Cardinality(confirmadas'[j]) <= convite'[j].usos
    <3>1. convite'[j] = convite[j] /\ confirmadas'[j] = confirmadas[j]
      BY <1>7, <1>12, <2>1
    <3> QED BY <1>11, <3>1 DEF InvContas, UsosContados
  <2>2. ASSUME k \notin perdas'.usos
        PROVE  Cardinality(confirmadas'[k]) <= convite'[k].usos
    <3>1. Cardinality(confirmadas[k]) <= convite[k].usos /\ convite[k].usos = r.usos
      BY <1>1, <1>11, <2>2 DEF InvContas, UsosContados
    <3>2. IsFiniteSet(confirmadas[k]) /\ Cardinality(confirmadas[k]) \in Nat
      <4>1. IsFiniteSet(1..MaxContas)
        BY FS_Interval, ConstantesContas
      <4> QED BY <1>12, <4>1, FS_Subset, FS_CardinalityType
    <3>3. Cardinality(confirmadas[k] \cup {r.id}) <= Cardinality(confirmadas[k]) + 1
      <4>1. Cardinality(confirmadas[k] \cup {r.id}) =
              IF r.id \in confirmadas[k] THEN Cardinality(confirmadas[k])
              ELSE Cardinality(confirmadas[k]) + 1
        BY <3>2, FS_AddElement
      <4> QED BY <3>2, <4>1
    <3>4. confirmadas'[k] = confirmadas[k] \cup {r.id} /\ convite'[k].usos = r.usos + 1
      BY <1>5, <1>7, <1>12
    <3>5. Cardinality(confirmadas[k] \cup {r.id}) <= r.usos + 1
      <4>1. Cardinality(confirmadas[k] \cup {r.id}) \in Nat
        BY <3>2, FS_AddElement, FS_CardinalityType
      <4> QED BY <1>5, <3>1, <3>2, <3>3, <4>1
    <3> QED BY <3>4, <3>5
  <2>3. convite'[k] # SemConvite
    BY <1>7
  <2> QED BY <2>1, <2>2, <2>3 DEF UsosContados
<1>16. SessaoSegue
  <2>1. Existe(p)' /\ conta'[p].verificado
    BY <1>4, <1>8 DEF Existe
  <2> QED BY <1>1, <1>9, <1>13, <2>1, SessaoDaLinha DEF SessaoSegue
<1> QED BY <1>11, <1>12, <1>13, <1>14, <1>15, <1>16 DEF PassoSeguro, TiposDasHistorias

-----------------------------------------------------------------------------
(* The invariant.                                                           *)

\* What a request has just read is true of the rows.
LEMMA PedidaBoa ==
  ASSUME InvContas, NEW r \in Pedidas
  PROVE  PedidoBom(r)
<1>1. /\ \A p \in Pessoas : Existe(p) =>
           /\ conta[p] \in Conta /\ conta[p].id \in 1..usadas.ids
           /\ conta[p].versao \in 0..usadas.senhas
      /\ usadas.senhas \in 0..MaxSenhas
  <2> SUFFICES ASSUME NEW p \in Pessoas, Existe(p)
               PROVE  /\ conta[p] \in Conta /\ conta[p].id \in 1..usadas.ids
                      /\ conta[p].versao \in 0..usadas.senhas
    BY DEF InvContas, TiposContas
  <2>1. conta[p] \in Conta
    BY DEF InvContas, TiposContas, Existe
  <2>2. /\ conta[p].id \in 1..MaxContas /\ conta[p].versao \in 0..MaxSenhas
        /\ conta[p].id <= usadas.ids /\ conta[p].versao <= usadas.senhas
        /\ usadas.ids \in Nat /\ usadas.senhas \in Nat
    BY <2>1, CamposDaConta, ConstantesContas DEF InvContas, TiposContas, IdsDadas
  <2> QED BY <2>1, <2>2, ConstantesContas
<1>2. CASE r \in Logins
  <2>1. PICK p \in Pessoas :
          Entra(p) /\ r = [tipo |-> "login", alvo |-> p, id |-> conta[p].id, linha |-> conta[p]]
    BY <1>2 DEF Logins
  <2>2. r.tipo = "login" /\ r.alvo = p /\ r.id = conta[p].id /\ r.linha = conta[p]
    BY <2>1
  <2>3. /\ Existe(p) /\ conta[p].verificado /\ conta[p] \in Conta /\ conta[p].id \in 1..usadas.ids
        /\ conta[p].versao \in Nat
    BY <1>1, <2>1, CamposDaConta, ConstantesContas DEF Entra
  <2>4. Lembranca(conta[p])
    <3>1. conta[p].versao \in 0..MaxSenhas /\ conta[p].senha \in 0..MaxSenhas
      BY <2>3, CamposDaConta
    <3>2. \A q \in Pessoas : Existe(q) /\ conta[q].id = conta[p].id => q = p
      BY <2>3 DEF InvContas, IdsDadas
    <3>3. conta[p].versao <= conta[p].versao
      BY <2>3
    <3> QED BY <2>3, <3>1, <3>2, <3>3 DEF Lembranca
  <2> QED BY <2>2, <2>3, <2>4 DEF PedidoBom
<1>3. CASE r \in Refazeres
  <2>1. PICK p \in Pessoas, k \in Convites :
          /\ Existe(p) /\ ConviteValido(k)
          /\ r = [tipo |-> "refazer", alvo |-> p, id |-> conta[p].id, convite |-> k]
    BY <1>3 DEF Refazeres
  <2>2. r.tipo = "refazer" /\ r.alvo = p /\ r.id = conta[p].id /\ r.convite = k
    BY <2>1
  <2>3. convite[k] # SemConvite
    BY <2>1 DEF ConviteValido
  <2> QED BY <1>1, <2>1, <2>2, <2>3 DEF PedidoBom
<1>4. CASE r \in Verificacoes
  <2>1. PICK p \in Pessoas :
          /\ Existe(p) /\ ~conta[p].verificado /\ TemUso(codigoEmail[p].convite)
          /\ r = [tipo |-> "verificar", alvo |-> p, id |-> conta[p].id, codigo |-> codigoEmail[p],
                  usos |-> convite[codigoEmail[p].convite].usos,
                  grava |-> [x \in {"verificado"} \cup (IF conta[p].ativo THEN {} ELSE {"ativo"})
                               |-> TRUE]]
    BY <1>4 DEF Verificacoes
  <2> DEFINE g == [x \in {"verificado"} \cup (IF conta[p].ativo THEN {} ELSE {"ativo"}) |-> TRUE]
  <2>2. g \in ColunasDaVerificacao
    <3>1. CASE conta[p].ativo
      <4>1. g = [x \in {"verificado"} |-> TRUE]
        BY <3>1, Zenon
      <4>2. [x \in {"verificado"} |-> TRUE] \in [{"verificado"} -> {TRUE}]
        OBVIOUS
      <4> QED BY <4>1, <4>2 DEF ColunasDaVerificacao
    <3>2. CASE ~conta[p].ativo
      <4>1. {"verificado"} \cup {"ativo"} = {"ativo", "verificado"}
        OBVIOUS
      <4>2. g = [x \in {"ativo", "verificado"} |-> TRUE]
        BY <3>2, <4>1, Zenon
      <4>3. [x \in {"ativo", "verificado"} |-> TRUE] \in [{"ativo", "verificado"} -> {TRUE}]
        OBVIOUS
      <4> QED BY <4>2, <4>3 DEF ColunasDaVerificacao
    <3> QED BY <3>1, <3>2
  <2> HIDE DEF g
  <2>3. /\ r.tipo = "verificar" /\ r.alvo = p /\ r.id = conta[p].id /\ r.codigo = codigoEmail[p]
        /\ r.usos = convite[codigoEmail[p].convite].usos /\ r.grava = g
    BY <2>1 DEF g
  <2>4. /\ codigoEmail[p] \in Codigo /\ codigoEmail[p].convite \in Convites
        /\ convite[codigoEmail[p].convite] # SemConvite
    BY <2>1, CodigoDePendente
  <2>5. convite[codigoEmail[p].convite].usos \in 0..(MaxUsos - 1)
    <3>1. convite[codigoEmail[p].convite] \in Convite
      BY <2>4 DEF InvContas, TiposContas
    <3>2. convite[codigoEmail[p].convite].usos \in 0..MaxUsos
      BY <3>1 DEF Convite
    <3>3. convite[codigoEmail[p].convite].usos < MaxUsos
      BY <2>1 DEF TemUso
    <3> QED BY <3>2, <3>3, ConstantesContas
  <2> QED BY <1>1, <2>1, <2>2, <2>3, <2>4, <2>5 DEF PedidoBom
<1>5. CASE r \in Trocas
  <2>1. PICK p \in Pessoas, g \in BOOLEAN :
          /\ Existe(p)
          /\ r = [tipo |-> "senha", alvo |-> p, id |-> conta[p].id, versao |-> conta[p].versao,
                  gasta |-> g]
    BY <1>5 DEF Trocas
  <2>2. r.tipo = "senha" /\ r.alvo = p /\ r.id = conta[p].id /\ r.versao = conta[p].versao
    BY <2>1
  <2> QED BY <1>1, <2>1, <2>2 DEF PedidoBom
<1>8. ASSUME NEW a \in Pessoas \cup {Geral}, NEW p \in Alcance(a), a # p,
             r.autor = a, r.alvo = p, r.grupos = GruposLidos(a, p)
      PROVE  AutorDoGrupo(r)
  <2>1. p \in Pessoas /\ (a \in Pessoas => a # Geral /\ conta[p].fora = conta[a].fora)
    BY <1>8, ConstantesContas DEF Alcance
  <2>2. ASSUME a \in Pessoas
        PROVE  /\ a \in DOMAIN r.grupos /\ p \in DOMAIN r.grupos
               /\ r.grupos[a] = conta[a].fora /\ r.grupos[p] = conta[p].fora
    BY <1>8, <2>1, <2>2, ConstantesContas DEF GruposLidos
  <2> QED BY <1>8, <2>1, <2>2 DEF AutorDoGrupo
<1>6. CASE r \in Atualizacoes
  <2>0. PICK a \in Autores : \E p \in Alcance(a), colunas \in Mudancas(a) :
          r = [tipo |-> "atualizar", alvo |-> p, id |-> conta[p].id, autor |-> a,
               grupos |-> GruposLidos(a, p), grava |-> [x \in colunas |-> ~conta[p][x]]]
    BY <1>6 DEF Atualizacoes
  <2>1. PICK p \in Alcance(a), colunas \in Mudancas(a) :
          r = [tipo |-> "atualizar", alvo |-> p, id |-> conta[p].id, autor |-> a,
               grupos |-> GruposLidos(a, p), grava |-> [x \in colunas |-> ~conta[p][x]]]
    BY <2>0
  <2> DEFINE g == [x \in colunas |-> ~conta[p][x]]
  <2>2. g \in ColunasDoAdmin
    <3>1. g \in [colunas -> BOOLEAN]
      OBVIOUS
    <3>2. colunas \in SUBSET {"ativo", "admin", "fora"}
      BY DEF Mudancas
    <3> HIDE DEF g
    <3> QED BY <3>1, <3>2 DEF ColunasDoAdmin
  <2> HIDE DEF g
  <2>3. /\ r.tipo = "atualizar" /\ r.alvo = p /\ r.id = conta[p].id
        /\ r.autor = a /\ r.grava = g /\ r.grupos = GruposLidos(a, p)
    BY <2>1 DEF g
  <2>4. r.autor # r.alvo /\ a \in Pessoas \cup {Geral} /\ p \in Pessoas /\ Existe(p)
    BY <1>6 DEF Atualizacoes, PodeRebaixar, Autores, Alcance
  <2>5. AutorDoGrupo(r)
    BY <1>8, <2>3, <2>4
  <2> QED BY <1>1, <2>2, <2>3, <2>4, <2>5 DEF PedidoBom
<1>7. CASE r \in Exclusoes
  <2>0. PICK a \in Autores : \E p \in Alcance(a) :
          r = [tipo |-> "excluir", alvo |-> p, id |-> conta[p].id, autor |-> a,
               grupos |-> GruposLidos(a, p)]
    BY <1>7 DEF Exclusoes
  <2>1. PICK p \in Alcance(a) :
          r = [tipo |-> "excluir", alvo |-> p, id |-> conta[p].id, autor |-> a,
               grupos |-> GruposLidos(a, p)]
    BY <2>0
  <2>2. r.tipo = "excluir" /\ r.alvo = p /\ r.id = conta[p].id /\ r.autor = a /\ r.grupos = GruposLidos(a, p)
    BY <2>1
  <2>3. r.autor # r.alvo /\ a \in Pessoas \cup {Geral} /\ p \in Pessoas /\ Existe(p)
    BY <1>7 DEF Exclusoes, Autores, Alcance
  <2>4. AutorDoGrupo(r)
    BY <1>8, <2>2, <2>3
  <2> QED BY <1>1, <2>2, <2>3, <2>4 DEF PedidoBom
<1> QED BY <1>2, <1>3, <1>4, <1>5, <1>6, <1>7 DEF Pedidas

\* A commit from rows that are remembered well is safe.
LEMMA CommitSeguro ==
  ASSUME InvContas, NEW r, PedidoBom(r), Commit(r)
  PROVE  PassoSeguro
BY LoginSeguro, RefazerContaSeguro, VerificarEmailSeguro, TrocarSenhaSeguro,
   AtualizarUsuarioSeguro, ExcluirUsuarioSeguro DEF Commit

\* A request that is not the slow one is safe.
LEMMA RapidoSeguro ==
  ASSUME InvContas, Rapido
  PROVE  PassoSeguro
<1>1. CASE \E a \in Pessoas, k \in Convites : CriarConvite(a, k) \/ RevogarConvite(a, k) \/ CriarConta(a, k)
  BY <1>1, CriarConviteSeguro, RevogarConviteSeguro, CriarContaSegura
<1>2. CASE \E p \in Pessoas :
             \/ ReenviarCodigo(p) \/ ErrarCodigoDeEmail(p) \/ CriarUsuario(p)
             \/ SolicitarRedefinicao(p) \/ ErrarCodigoDeSenha(p)
  BY <1>2, ReenviarCodigoSeguro, ErrarCodigoDeEmailSeguro, CriarUsuarioSeguro,
     SolicitarRedefinicaoSegura, ErrarCodigoDeSenhaSeguro
<1>3. CASE \E r \in Pedidas : Commit(r)
  BY <1>3, PedidaBoa, CommitSeguro
<1>4. CASE EditarGrupo
  BY <1>4, EditarGrupoSeguro
<1> QED BY <1>1, <1>2, <1>3, <1>4 DEF Rapido

\* A safe step that leaves the slow request, or ends it, keeps the invariant.
LEMMA PassoSeguroPreserva ==
  ASSUME InvContas, PassoSeguro, lento' = lento \/ lento' = SemPedido
  PROVE  InvContas'
<1>1. TiposContas /\ TiposContas' /\ EscritaSegura
  BY DEF InvContas, PassoSeguro
<1>2. SessaoLembrada'
  <2>1. CASE sessao' = sessao
    <3>1. \A s : Lembranca(s) => Lembranca(s)'
      BY <1>1, LembrancaSegue
    <3>2. sessao # SemSessao => Lembranca(sessao)
      BY DEF InvContas, SessaoLembrada
    <3> QED BY <2>1, <3>1, <3>2 DEF SessaoLembrada, Lembranca, SemSessao
  <2>2. CASE Lembranca(sessao)'
    BY <2>2 DEF SessaoLembrada
  <2> QED BY <2>1, <2>2 DEF PassoSeguro, SessaoSegue
<1>3. LentoBom'
  <2>1. CASE lento' = SemPedido
    BY <2>1 DEF LentoBom, SemPedido
  <2>2. CASE lento' = lento /\ lento # SemPedido
    <3>1. PedidoBom(lento)
      BY <2>2 DEF InvContas, LentoBom
    <3>2. \A r : PedidoBom(r) => PedidoBom(r)'
      BY <1>1, PedidoSegue
    <3> QED BY <2>2, <3>1, <3>2 DEF LentoBom, PedidoBom, AutorDoGrupo, Lembranca
  <2> QED BY <2>1, <2>2
<1> QED BY <1>2, <1>3 DEF InvContas, PassoSeguro

\* The founder's row, alone, with nothing asked yet.
LEMMA InitContasInv == InitContas => InvContas
<1> SUFFICES ASSUME InitContas PROVE InvContas
  OBVIOUS
<1> DEFINE sim == TRUE
           nao == FALSE
<1>1. sim \in BOOLEAN /\ nao \in BOOLEAN
  OBVIOUS
<1> DEFINE c == [id |-> 1, ativo |-> sim, verificado |-> sim, admin |-> sim, fora |-> nao,
               versao |-> 0, senha |-> 0]
<1>2. conta = [p \in Pessoas |-> IF p = Fundadora THEN c ELSE SemConta]
  BY DEF InitContas
<1>3. sim /\ ~nao
  OBVIOUS
<1> HIDE DEF sim, nao
<1>4. /\ c \in Conta /\ c.id = 1 /\ c.versao = 0 /\ c.senha = 0
      /\ c.ativo = sim /\ c.verificado = sim /\ c.admin = sim /\ c.fora = nao
  <2>1. c.id = 1 /\ c.versao = 0 /\ c.senha = 0
    OBVIOUS
  <2>2. c.ativo = sim /\ c.verificado = sim /\ c.admin = sim /\ c.fora = nao
    OBVIOUS
  <2> QED BY <1>1, <2>1, <2>2, ConstantesContas DEF Conta
<1> HIDE DEF c
<1>5. /\ convite = [k \in Convites |-> SemConvite]
      /\ codigoEmail = [p \in Pessoas |-> SemCodigo]
      /\ codigoSenha = [p \in Pessoas |-> 0]
      /\ sessao = SemSessao /\ usadas = [ids |-> 1, senhas |-> 0] /\ lento = SemPedido
      /\ confirmadas = [k \in Convites |-> {}]
  BY DEF InitContas
<1>6. c # SemConta /\ Fundadora \in Pessoas
  BY <1>4, NadaNaoELinha, ConstantesContas
<1>7. TiposContas
  <2>1. /\ conta \in [Pessoas -> Conta \cup {SemConta}]
        /\ convite \in [Convites -> Convite \cup {SemConvite}]
        /\ codigoEmail \in [Pessoas -> Codigo \cup {SemCodigo}]
        /\ sessao \in Sessao \cup {SemSessao}
    BY <1>2, <1>4, <1>5
  <2>2. /\ codigoSenha \in [Pessoas -> 0..MaxTentativas]
        /\ usadas \in [ids : 1..MaxContas, senhas : 0..MaxSenhas]
    BY <1>5, ConstantesContas
  <2>3. grupoAtivo \in BOOLEAN
    BY DEF InitContas
  <2>4. \A p \in Pessoas : Existe(p) => conta[p].verificado
    BY <1>2, <1>3, <1>4 DEF Existe
  <2> QED BY <2>1, <2>2, <2>3, <2>4 DEF TiposContas
<1>8. TiposDasHistorias
  <2> DEFINE falso == FALSE
  <2>1. perdas = [versoes |-> {}, usos |-> {}, admin |-> falso]
    BY DEF InitContas
  <2>2. falso \in BOOLEAN
    OBVIOUS
  <2> HIDE DEF falso
  <2>3. perdas \in [versoes : SUBSET (1..MaxContas), usos : SUBSET Convites, admin : BOOLEAN]
    BY <2>1, <2>2
  <2>4. confirmadas \in [Convites -> SUBSET (1..MaxContas)]
    BY <1>5
  <2> QED BY <2>3, <2>4 DEF TiposDasHistorias
<1>9. IdsDadas
  <2>1. \A p \in Pessoas : Existe(p) => p = Fundadora /\ conta[p] = c
    BY <1>2 DEF Existe
  <2>2. usadas.ids = 1 /\ usadas.senhas = 0
    BY <1>5
  <2> QED BY <1>4, <1>5, <2>1, <2>2 DEF IdsDadas
<1>10. SessaoLembrada /\ LentoBom
  BY <1>5 DEF SessaoLembrada, LentoBom
<1>11. UsosContados
  BY <1>5 DEF UsosContados
<1>12. SempreHaAdministrador
  <2>1. conta[Fundadora] = c
    BY <1>2, <1>6
  <2>2. Existe(Fundadora)
    BY <1>6, <2>1 DEF Existe
  <2>3. /\ conta[Fundadora].ativo /\ conta[Fundadora].verificado /\ conta[Fundadora].admin
        /\ ~conta[Fundadora].fora
    BY <1>3, <1>4, <2>1
  <2> QED BY <1>6, <2>2, <2>3 DEF SempreHaAdministrador, HaAdministrador, Administra, Entra
<1> QED BY <1>7, <1>8, <1>9, <1>10, <1>11, <1>12 DEF InvContas

\* Every step keeps the invariant.
LEMMA PassoContas == InvContas /\ [NextContas]_varsContas => InvContas'
<1> SUFFICES ASSUME InvContas, [NextContas]_varsContas PROVE InvContas'
  OBVIOUS
<1>1. CASE Rapido
  <2>1. UNCHANGED lento
    BY <1>1 DEF Rapido
  <2> QED BY <1>1, <2>1, RapidoSeguro, PassoSeguroPreserva
<1>2. CASE ComecarLento
  <2>1. UNCHANGED <<conta, convite, codigoEmail, codigoSenha, sessao, grupoAtivo, usadas,
                    confirmadas, perdas>>
    BY <1>2 DEF ComecarLento
  <2>2. PICK r \in Pedidas : lento' = r
    BY <1>2 DEF ComecarLento
  <2>3. PedidoBom(r)
    BY <2>2, PedidaBoa
  <2>4. LentoBom'
    BY <2>1, <2>2, <2>3 DEF LentoBom, PedidoBom, AutorDoGrupo, Lembranca, Existe
  <2>5. TiposContas' /\ TiposDasHistorias'
    BY <2>1 DEF InvContas, TiposContas, TiposDasHistorias, Existe
  <2>6. IdsDadas' /\ SessaoLembrada'
    BY <2>1 DEF InvContas, IdsDadas, SessaoLembrada, Lembranca, Existe
  <2>7. UsosContados'
    BY <2>1 DEF InvContas, UsosContados
  <2>8. SempreHaAdministrador'
    BY <2>1 DEF InvContas, SempreHaAdministrador, HaAdministrador, Administra, Entra, Existe
  <2> QED BY <2>4, <2>5, <2>6, <2>7, <2>8 DEF InvContas
<1>3. CASE AcabarLento
  <2>1. PICK r : r = lento
    OBVIOUS
  <2>2. PedidoBom(r) /\ Commit(r) /\ lento' = SemPedido
    BY <1>3, <2>1 DEF AcabarLento, InvContas, LentoBom
  <2> QED BY <2>2, CommitSeguro, PassoSeguroPreserva
<1>4. CASE DesistirLento
  <2>1. /\ UNCHANGED <<conta, convite, codigoEmail, codigoSenha, sessao, grupoAtivo, usadas,
                       confirmadas, perdas>>
        /\ lento' = SemPedido
    BY <1>4 DEF DesistirLento
  <2>2. TiposContas /\ IdsDadas
    BY DEF InvContas
  <2>3. PassoSeguro
    <3>1. \A q \in Pessoas :
            /\ codigoEmail[q] # SemCodigo => codigoEmail'[q] # SemCodigo
            /\ codigoEmail'[q] # SemCodigo => convite[codigoEmail'[q].convite] # SemConvite
      BY <2>1, <2>2 DEF IdsDadas
    <3> QED BY <2>1, <2>2, <3>1, SemMexerNasLinhas DEF TiposContas
  <2> QED BY <2>1, <2>3, PassoSeguroPreserva
<1>5. CASE UNCHANGED varsContas
  <2>1. UNCHANGED <<conta, convite, codigoEmail, codigoSenha, sessao, grupoAtivo, usadas, lento,
                    confirmadas, perdas>>
    BY <1>5 DEF varsContas
  <2>2. TiposContas' /\ TiposDasHistorias'
    BY <2>1 DEF InvContas, TiposContas, TiposDasHistorias, Existe
  <2>3. IdsDadas' /\ SessaoLembrada'
    BY <2>1 DEF InvContas, IdsDadas, SessaoLembrada, Lembranca, Existe
  <2>4. UsosContados'
    BY <2>1 DEF InvContas, UsosContados
  <2>5. SempreHaAdministrador'
    BY <2>1 DEF InvContas, SempreHaAdministrador, HaAdministrador, Administra, Entra, Existe
  <2>6. LentoBom'
    BY <2>1 DEF InvContas, LentoBom, PedidoBom, AutorDoGrupo, Lembranca, Existe
  <2> QED BY <2>2, <2>3, <2>4, <2>5, <2>6 DEF InvContas
<1> QED BY <1>1, <1>2, <1>3, <1>4, <1>5 DEF NextContas

-----------------------------------------------------------------------------
\* The invariant holds in every behaviour of the accounts, however requests
\* overlap two at a time.
THEOREM InvarianciaContas == SpecContas => []InvContas
BY InitContasInv, PassoContas, PTL DEF SpecContas

\* Types, and the code of an unconfirmed account is always there.
THEOREM TiposDasContas == SpecContas => []TiposContas
<1>1. InvContas => TiposContas
  BY DEF InvContas
<1> QED BY <1>1, InvarianciaContas, PTL

\* A session that get_current_usuario accepts was opened under the password
\* the account has now, but for the two overlaps the history records.
THEOREM SenhaVelhaNaoEntra == SpecContas => []SessaoComSenhaAtual
<1>1. InvContas => SessaoComSenhaAtual
  <2> SUFFICES ASSUME InvContas, NEW p \in Pessoas, Aceita(sessao, p),
                      sessao.id \notin perdas.versoes
               PROVE  sessao.senha = conta[p].senha
    BY DEF SessaoComSenhaAtual
  <2>1. Existe(p) /\ conta[p].id = sessao.id /\ conta[p].versao = sessao.versao
    BY DEF Aceita, Entra
  <2>2. conta[p].id \in 1..MaxContas
    BY <2>1, CamposDaConta DEF InvContas, TiposContas, Existe
  <2>3. sessao # SemSessao
    BY <2>1, <2>2, NadaNaoELinha, ConstantesContas
  <2>4. Lembranca(sessao)
    BY <2>3 DEF InvContas, SessaoLembrada
  <2> QED BY <2>1, <2>4 DEF Lembranca
<1> QED BY <1>1, InvarianciaContas, PTL

\* No more accounts are confirmed with an invitation than it has uses, unless
\* two confirmations read the same count.
THEOREM UsosRespeitados == SpecContas => []ConviteNaoPassaDosUsos
<1>1. InvContas => ConviteNaoPassaDosUsos
  <2> SUFFICES ASSUME InvContas, NEW k \in Convites, k \notin perdas.usos
               PROVE  Cardinality(confirmadas[k]) <= MaxUsos
    BY DEF ConviteNaoPassaDosUsos
  <2>1. CASE convite[k] = SemConvite
    <3>1. Cardinality(confirmadas[k]) = 0
      BY <2>1, FS_EmptySet DEF InvContas, UsosContados
    <3> QED BY <3>1, ConstantesContas
  <2>2. CASE convite[k] # SemConvite
    <3>1. convite[k].usos \in 0..MaxUsos
      BY <2>2 DEF InvContas, TiposContas, Convite
    <3>2. Cardinality(confirmadas[k]) <= convite[k].usos
      BY <2>2 DEF InvContas, UsosContados
    <3>3. Cardinality(confirmadas[k]) \in Nat
      <4>1. IsFiniteSet(1..MaxContas) /\ confirmadas[k] \subseteq 1..MaxContas
        BY FS_Interval, ConstantesContas DEF InvContas, TiposDasHistorias
      <4> QED BY <4>1, FS_Subset, FS_CardinalityType
    <3> QED BY <3>1, <3>2, <3>3, ConstantesContas
  <2> QED BY <2>1, <2>2
<1> QED BY <1>1, InvarianciaContas, PTL

\* Whatever its own administrators ask, for any number of accounts, the group
\* keeps one of its own who enters while it is active. What can take the last
\* one away is the general administrator, and a request that commits after its
\* author stopped being an administrator, or after either account was moved.
THEOREM GrupoNaoFicaOrfao == SpecContas => []SempreHaAdministrador
<1>1. InvContas => SempreHaAdministrador
  BY DEF InvContas
<1> QED BY <1>1, InvarianciaContas, PTL

-----------------------------------------------------------------------------
(* The limiter.                                                             *)

\* NaJanela are the attempts of one window, and a set respects the limit when
\* none of its windows passes it.
NaJanela(hits, u) == {h \in Recentes(hits, u) : h.quando <= u}
Respeita(hits) == \A u \in Nat : Cardinality(NaJanela(hits, u)) <= MaxHits

\* An attempt that has arrived.
Chegada(t) ==
  t.quando \in Nat /\ t.quando <= agora /\ t.numero \in 1..chegadas /\ t.quem \in historia.pediram

TiposLimitador ==
  /\ agora \in Nat /\ chegadas \in Nat
  /\ IsFiniteSet(banco) /\ IsFiniteSet(historia.pediram)
  /\ historia.pediram \subseteq Processos
  /\ DOMAIN memoria = Processos
  /\ DOMAIN historia = {"pediram", "juntas", "reiniciou", "faltou", "voltou"}
  /\ \A t \in banco \cup aguardando \cup admitidas : Chegada(t)
  /\ \A p \in Processos : IsFiniteSet(memoria[p]) /\ \A t \in memoria[p] : Chegada(t) /\ t.quem = p

\* What the database holds and what each process remembers respect the limit,
\* and until the database is away everything admitted is a row of it.
ContagensRespeitam ==
  /\ Respeita(banco) /\ \A p \in Processos : Respeita(memoria[p])
  /\ ~historia.faltou => admitidas \subseteq banco

\* The process p alone saw the key, one attempt at a time.
Sozinho(p) ==
  historia.pediram \subseteq {p} /\ ~historia.juntas /\ ~historia.reiniciou /\ ~historia.voltou

\* Then its memory tells exactly what was admitted, and while the database
\* answers the table tells the same; the attempt that waits was counted in
\* memory when the others left it room.
ReservaAcompanha ==
  \A p \in Processos : Sozinho(p) =>
    /\ \A t, u \in aguardando : t = u
    /\ admitidas = memoria[p] \ aguardando
    /\ ~historia.faltou => banco = admitidas
    /\ \A t \in aguardando : /\ t.reserva <=> t \in memoria[p]
                             /\ t.reserva <=> Cabe(memoria[p] \ {t}, t.quando)

InvLimitador == TiposLimitador /\ ContagensRespeitam /\ ReservaAcompanha

-----------------------------------------------------------------------------
\* One more row keeps the limit when the rows since the window of the new one,
\* the later ones included, leave it room.
LEMMA UmaAMais ==
  ASSUME NEW S, IsFiniteSet(S), \A h \in S : h.quando \in Nat, Respeita(S),
         NEW t, t.quando \in Nat, Cabe(S, t.quando)
  PROVE  Respeita(S \cup {t})
<1> SUFFICES ASSUME NEW u \in Nat
             PROVE  Cardinality(NaJanela(S \cup {t}, u)) <= MaxHits
  BY DEF Respeita
<1>1. IsFiniteSet(NaJanela(S, u)) /\ IsFiniteSet(Recentes(S, t.quando))
  BY FS_Subset DEF NaJanela, Recentes
<1>2. Cardinality(NaJanela(S, u)) \in Nat /\ Cardinality(Recentes(S, t.quando)) \in Nat
  BY <1>1, FS_CardinalityType
<1>3. CASE t \notin NaJanela(S \cup {t}, u)
  <2>1. NaJanela(S \cup {t}, u) = NaJanela(S, u)
    BY <1>3 DEF NaJanela, Recentes
  <2> QED
    BY <2>1 DEF Respeita
<1>4. CASE t \in NaJanela(S \cup {t}, u)
  <2>1. t.quando <= u
    BY <1>4 DEF NaJanela, Recentes
  <2>2. NaJanela(S, u) \subseteq Recentes(S, t.quando)
    BY <2>1, ConstantesLimitador DEF NaJanela, Recentes
  <2>3. Cardinality(NaJanela(S, u)) <= Cardinality(Recentes(S, t.quando))
    BY <1>1, <2>2, FS_Subset
  <2>4. NaJanela(S \cup {t}, u) = NaJanela(S, u) \cup {t}
    BY <1>4 DEF NaJanela, Recentes
  <2>5. Cardinality(NaJanela(S, u)) + 1 <= MaxHits
    BY <1>2, <2>3, ConstantesLimitador DEF Cabe
  <2>6. PICK n \in Nat : n = Cardinality(NaJanela(S, u))
    BY <1>2
  <2>7. Cardinality(NaJanela(S, u) \cup {t}) = IF t \in NaJanela(S, u) THEN n ELSE n + 1
    BY <1>1, <2>6, FS_AddElement
  <2>8. n + 1 <= MaxHits /\ n <= MaxHits
    BY <2>5, <2>6, ConstantesLimitador
  <2> QED
    BY <2>4, <2>7, <2>8
<1> QED
  BY <1>3, <1>4

\* A part of what respects the limit respects it.
LEMMA ParteRespeita ==
  ASSUME NEW S, IsFiniteSet(S), Respeita(S), NEW T, T \subseteq S, NEW u \in Nat
  PROVE  Cardinality(NaJanela(T, u)) <= MaxHits
<1>1. NaJanela(T, u) \subseteq NaJanela(S, u) /\ IsFiniteSet(NaJanela(S, u))
  BY FS_Subset DEF NaJanela, Recentes
<1>2. Cardinality(NaJanela(T, u)) <= Cardinality(NaJanela(S, u))
  BY <1>1, FS_Subset
<1>3. Cardinality(NaJanela(T, u)) \in Nat /\ Cardinality(NaJanela(S, u)) \in Nat
  BY <1>1, FS_Subset, FS_CardinalityType
<1> QED
  BY <1>2, <1>3, ConstantesLimitador DEF Respeita

LEMMA VazioRespeita == Respeita({})
<1>1. \A u : NaJanela({}, u) = {}
  BY DEF NaJanela, Recentes
<1> QED
  BY <1>1, FS_EmptySet, ConstantesLimitador DEF Respeita

\* The row that a decision writes keeps the table within the limit.
LEMMA InsercaoRespeita ==
  ASSUME TiposLimitador, Respeita(banco), NEW t \in aguardando, InserirNoBanco(t)
  PROVE  /\ Respeita(banco') /\ IsFiniteSet(banco')
         /\ banco' \subseteq banco \cup {t} /\ banco \subseteq banco'
<1>1. IsFiniteSet(banco \cup {t})
  BY FS_AddElement DEF TiposLimitador
<1>2. \A h \in banco : h.quando \in Nat
  BY DEF TiposLimitador, Chegada
<1>3. t.quando \in Nat
  BY DEF TiposLimitador, Chegada
<1>4. CASE BancoPermite(t)
  <2>1. Respeita(banco \cup {t})
    BY <1>2, <1>3, <1>4, UmaAMais DEF TiposLimitador, BancoPermite
  <2> QED
    BY <1>1, <1>4, <2>1 DEF InserirNoBanco
<1>5. CASE ~BancoPermite(t)
  BY <1>5 DEF InserirNoBanco, TiposLimitador
<1> QED
  BY <1>4, <1>5

\* What each step does to the history.
LEMMA HistoriaAnda ==
  ASSUME TiposLimitador, NextLimitador
  PROVE  /\ DOMAIN historia' = DOMAIN historia
         /\ historia.pediram \subseteq historia'.pediram
         /\ historia.juntas => historia'.juntas
         /\ historia.reiniciou => historia'.reiniciou
         /\ historia.faltou => historia'.faltou
         /\ historia.voltou => historia'.voltou
<1>1. DOMAIN historia = {"pediram", "juntas", "reiniciou", "faltou", "voltou"}
  BY DEF TiposLimitador
<1>2. ASSUME NEW p \in Processos, Chegar(p)
      PROVE  /\ DOMAIN historia' = DOMAIN historia
             /\ historia'.pediram = historia.pediram \cup {p}
             /\ historia'.juntas = (historia.juntas \/ aguardando # {})
             /\ historia'.reiniciou = historia.reiniciou
             /\ historia'.faltou = historia.faltou /\ historia'.voltou = historia.voltou
  BY <1>1, <1>2, Zenon DEF Chegar
<1>3. ASSUME NEW t \in aguardando, DecidirNoBanco(t)
      PROVE  /\ DOMAIN historia' = DOMAIN historia
             /\ historia'.pediram = historia.pediram /\ historia'.juntas = historia.juntas
             /\ historia'.reiniciou = historia.reiniciou /\ historia'.faltou = historia.faltou
             /\ historia'.voltou = (historia.voltou \/ historia.faltou)
  BY <1>1, <1>3, Zenon DEF DecidirNoBanco
<1>4. ASSUME NEW t \in aguardando, DecidirSemBanco(t)
      PROVE  /\ DOMAIN historia' = DOMAIN historia
             /\ historia'.pediram = historia.pediram /\ historia'.juntas = historia.juntas
             /\ historia'.reiniciou = historia.reiniciou /\ historia'.faltou
             /\ historia'.voltou = historia.voltou
  BY <1>1, <1>4, Zenon DEF DecidirSemBanco
<1>5. ASSUME NEW p \in Processos, ReiniciarProcesso(p)
      PROVE  /\ DOMAIN historia' = DOMAIN historia
             /\ historia'.pediram = historia.pediram /\ historia'.juntas = historia.juntas
             /\ historia'.reiniciou
             /\ historia'.faltou = historia.faltou /\ historia'.voltou = historia.voltou
  BY <1>1, <1>5, Zenon DEF ReiniciarProcesso
<1>6. CASE PassarTempo
  BY <1>6 DEF PassarTempo
<1>7. CASE \E p \in Processos : Chegar(p) \/ ReiniciarProcesso(p)
  BY <1>2, <1>5, <1>7, Zenon
<1>8. CASE \E t \in aguardando : DecidirNoBanco(t) \/ DecidirSemBanco(t)
  BY <1>3, <1>4, <1>8, Zenon
<1> QED
  BY <1>6, <1>7, <1>8, Zenon DEF NextLimitador

\* The attempt that arrives at p, and what arriving does.
Nova(p) ==
  [numero |-> chegadas + 1, quem |-> p, quando |-> agora, reserva |-> Cabe(memoria[p], agora)]

Chega(p, t) ==
  /\ t.numero = chegadas + 1 /\ t.quem = p /\ t.quando = agora
  /\ t.reserva = Cabe(memoria[p], agora)
  /\ t \notin banco \cup aguardando \cup admitidas /\ \A q \in Processos : t \notin memoria[q]
  /\ DOMAIN memoria' = Processos
  /\ memoria'[p] = IF t.reserva THEN memoria[p] \cup {t} ELSE memoria[p]
  /\ \A q \in Processos : q # p => memoria'[q] = memoria[q]
  /\ aguardando' = aguardando \cup {t} /\ banco' = banco /\ admitidas' = admitidas
  /\ chegadas' = chegadas + 1 /\ agora' = agora
  /\ historia'.pediram = historia.pediram \cup {p}
  /\ historia'.juntas = (historia.juntas \/ aguardando # {})
  /\ historia'.faltou = historia.faltou

LEMMA UmaChega ==
  ASSUME TiposLimitador, NEW p \in Processos, Chegar(p)
  PROVE  \E t : Chega(p, t)
<1>1. PICK t : t = Nova(p)
  OBVIOUS
<1>2. /\ t.numero = chegadas + 1 /\ t.quem = p /\ t.quando = agora
      /\ t.reserva = Cabe(memoria[p], agora)
  BY <1>1 DEF Nova
<1>3. \A h : Chegada(h) => h.numero # chegadas + 1
  BY DEF Chegada, TiposLimitador
<1>4. t \notin banco \cup aguardando \cup admitidas /\ \A q \in Processos : t \notin memoria[q]
  BY <1>2, <1>3, Zenon DEF TiposLimitador
<1>5. ContarNaReserva(p, t) /\ aguardando' = aguardando \cup {t}
  BY <1>1 DEF Chegar, Nova
<1>6. /\ banco' = banco /\ admitidas' = admitidas
      /\ chegadas' = chegadas + 1 /\ agora' = agora
  BY DEF Chegar
<1>7. /\ DOMAIN memoria' = Processos
      /\ memoria'[p] = IF t.reserva THEN memoria[p] \cup {t} ELSE memoria[p]
      /\ \A q \in Processos : q # p => memoria'[q] = memoria[q]
  BY <1>5 DEF ContarNaReserva, TiposLimitador
<1>8. /\ historia'.pediram = historia.pediram \cup {p}
      /\ historia'.juntas = (historia.juntas \/ aguardando # {})
      /\ historia'.faltou = historia.faltou
  BY Zenon DEF Chegar, TiposLimitador
<1> QED
  BY <1>2, <1>4, <1>5, <1>6, <1>7, <1>8, Zenon DEF Chega

LEMMA TiposIniciais == InitLimitador => InvLimitador
<1> SUFFICES ASSUME InitLimitador PROVE InvLimitador
  OBVIOUS
<1>1. IsFiniteSet({})
  BY FS_EmptySet
<1>2. TiposLimitador
  BY <1>1 DEF InitLimitador, TiposLimitador
<1>3. ContagensRespeitam
  BY VazioRespeita DEF InitLimitador, ContagensRespeitam
<1>4. ReservaAcompanha
  BY DEF InitLimitador, ReservaAcompanha
<1> QED
  BY <1>2, <1>3, <1>4 DEF InvLimitador

\* No step makes an attempt unarrived.
LEMMA ChegadaFica ==
  ASSUME TiposLimitador, NextLimitador
  PROVE  /\ agora' \in Nat /\ chegadas' \in Nat
         /\ \A t : Chegada(t) => Chegada(t)'
<1>1. (agora' = agora \/ agora' = agora + 1) /\ (chegadas' = chegadas \/ chegadas' = chegadas + 1)
  BY Zenon DEF NextLimitador, Chegar, ReiniciarProcesso, DecidirNoBanco, DecidirSemBanco, PassarTempo
<1>2. historia.pediram \subseteq historia'.pediram
  BY HistoriaAnda
<1> QED
  BY <1>1, <1>2 DEF Chegada, TiposLimitador

LEMMA TiposFicam ==
  ASSUME InvLimitador, NextLimitador
  PROVE  TiposLimitador'
<1> USE DEF InvLimitador
<1>1. agora' \in Nat /\ chegadas' \in Nat /\ \A t : Chegada(t) => Chegada(t)'
  BY ChegadaFica
<1>2. DOMAIN historia' = {"pediram", "juntas", "reiniciou", "faltou", "voltou"}
  BY HistoriaAnda DEF TiposLimitador
<1> DEFINE Guardados == /\ IsFiniteSet(banco')
                        /\ \A t \in banco' \cup aguardando' \cup admitidas' : Chegada(t)'
                        /\ DOMAIN memoria' = Processos
                        /\ \A p \in Processos : IsFiniteSet(memoria'[p]) /\ \A t \in memoria'[p] : Chegada(t)' /\ t.quem = p
           Quem == IsFiniteSet(historia'.pediram) /\ historia'.pediram \subseteq Processos
<1>3. ASSUME NEW p \in Processos, Chegar(p) PROVE Guardados /\ Quem
  <2>1. PICK t : Chega(p, t)
    BY <1>3, UmaChega
  <2>2. historia'.pediram = historia.pediram \cup {p}
    BY <2>1 DEF Chega
  <2>3. Quem
    <3>1. IsFiniteSet(historia.pediram) /\ historia.pediram \subseteq Processos
      BY DEF TiposLimitador
    <3> QED
      BY <2>2, <3>1, FS_AddElement
  <2>4. Chegada(t)'
    <3>1. t.numero = chegadas' /\ t.quem = p /\ t.quando = agora'
      BY <2>1, Zenon DEF Chega
    <3>2. chegadas' \in Nat /\ chegadas' = chegadas + 1 /\ chegadas \in Nat
      BY <1>1, <2>1 DEF Chega, TiposLimitador
    <3>3. t.numero \in 1..chegadas' /\ t.quando \in Nat /\ t.quando <= agora'
      BY <1>1, <3>1, <3>2
    <3>4. t.quem \in historia'.pediram
      BY <2>2, <3>1
    <3> QED
      BY <3>3, <3>4, Zenon DEF Chegada
  <2>5. \A q \in Processos : memoria'[q] = memoria[q] \/ (q = p /\ memoria'[q] = memoria[q] \cup {t})
    BY <2>1, Zenon DEF Chega
  <2>6. ASSUME NEW q \in Processos PROVE IsFiniteSet(memoria'[q])
    <3>1. IsFiniteSet(memoria[q])
      BY Zenon DEF TiposLimitador
    <3>2. IsFiniteSet(memoria[q] \cup {t})
      BY <3>1, FS_AddElement
    <3> QED
      BY <2>5, <3>1, <3>2, Zenon
  <2>7. t.quem = p /\ DOMAIN memoria' = Processos
    BY <2>1, Zenon DEF Chega
  <2>8. \A q \in Processos : \A h \in memoria'[q] : Chegada(h)' /\ h.quem = q
    BY <1>1, <2>4, <2>5, <2>7 DEF TiposLimitador
  <2>9. aguardando' = aguardando \cup {t} /\ banco' = banco /\ admitidas' = admitidas
    BY <2>1, Zenon DEF Chega
  <2>10. IsFiniteSet(banco') /\ \A h \in banco' \cup aguardando' \cup admitidas' : Chegada(h)'
    BY <1>1, <2>4, <2>9 DEF TiposLimitador
  <2> QED
    BY <2>3, <2>6, <2>7, <2>8, <2>10
<1>4. ASSUME NEW t \in aguardando, DecidirNoBanco(t) \/ DecidirSemBanco(t) PROVE Guardados /\ Quem
  <2>1. InserirNoBanco(t) \/ banco' = banco
    BY <1>4 DEF DecidirNoBanco, DecidirSemBanco
  <2>2. IsFiniteSet(banco') /\ banco' \subseteq banco \cup {t}
    BY <2>1, InsercaoRespeita DEF TiposLimitador, ContagensRespeitam
  <2>3. memoria' = memoria /\ aguardando' \subseteq aguardando /\ admitidas' \subseteq admitidas \cup {t}
    BY <1>4 DEF DecidirNoBanco, DecidirSemBanco, Responder
  <2>4. historia'.pediram = historia.pediram
    BY <1>4, Zenon DEF DecidirNoBanco, DecidirSemBanco, TiposLimitador
  <2>5. \A h \in banco' \cup aguardando' \cup admitidas' : Chegada(h)'
    BY <1>1, <2>2, <2>3 DEF TiposLimitador
  <2>6. \A p \in Processos : IsFiniteSet(memoria'[p]) /\ \A h \in memoria'[p] : Chegada(h)' /\ h.quem = p
    BY <1>1, <2>3 DEF TiposLimitador
  <2> QED
    BY <2>2, <2>3, <2>4, <2>5, <2>6 DEF TiposLimitador
<1>5. ASSUME NEW p \in Processos, ReiniciarProcesso(p) PROVE Guardados /\ Quem
  <2>1. banco' = banco \/ \E t \in aguardando : InserirNoBanco(t)
    BY <1>5 DEF ReiniciarProcesso
  <2>2. IsFiniteSet(banco') /\ banco' \subseteq banco \cup aguardando
    BY <2>1, InsercaoRespeita DEF TiposLimitador, ContagensRespeitam
  <2>3. /\ DOMAIN memoria' = Processos
        /\ \A q \in Processos : memoria'[q] \in {{}, memoria[q]}
        /\ aguardando' \subseteq aguardando /\ admitidas' = admitidas
    BY <1>5 DEF ReiniciarProcesso, TiposLimitador
  <2>4. historia'.pediram = historia.pediram
    BY <1>5, Zenon DEF ReiniciarProcesso, TiposLimitador
  <2>5. \A h \in banco' \cup aguardando' \cup admitidas' : Chegada(h)'
    BY <1>1, <2>2, <2>3 DEF TiposLimitador
  <2>6. \A q \in Processos : IsFiniteSet(memoria'[q]) /\ \A h \in memoria'[q] : Chegada(h)' /\ h.quem = q
    BY <1>1, <2>3, FS_EmptySet DEF TiposLimitador
  <2> QED
    BY <2>2, <2>3, <2>4, <2>5, <2>6 DEF TiposLimitador
<1>6. ASSUME PassarTempo PROVE Guardados /\ Quem
  <2>1. UNCHANGED <<banco, memoria, aguardando, admitidas, historia>>
    BY <1>6 DEF PassarTempo
  <2>2. \A t \in banco' \cup aguardando' \cup admitidas' : Chegada(t)'
    BY <1>1, <2>1, Zenon DEF TiposLimitador
  <2>3. \A p \in Processos : IsFiniteSet(memoria[p]) /\ \A t \in memoria[p] : Chegada(t)' /\ t.quem = p
    BY <1>1, Zenon DEF TiposLimitador
  <2>4. Guardados
    BY <2>1, <2>2, <2>3 DEF TiposLimitador
  <2>5. Quem
    BY <2>1 DEF TiposLimitador
  <2> QED
    BY <2>4, <2>5
<1>7. Guardados /\ Quem
  BY <1>3, <1>4, <1>5, <1>6, Zenon DEF NextLimitador
<1> QED
  BY <1>1, <1>2, <1>7 DEF TiposLimitador

LEMMA ContagensFicam ==
  ASSUME InvLimitador, NextLimitador
  PROVE  ContagensRespeitam'
<1>0. TiposLimitador /\ ContagensRespeitam
  BY DEF InvLimitador
<1>1. ASSUME NEW p \in Processos, Chegar(p) PROVE ContagensRespeitam'
  <2>1. PICK t : Chega(p, t)
    BY <1>0, <1>1, UmaChega
  <2>2. ASSUME NEW q \in Processos PROVE Respeita(memoria'[q])
    <3>1. CASE memoria'[q] = memoria[q]
      BY <1>0, <3>1 DEF ContagensRespeitam
    <3>2. CASE memoria'[q] # memoria[q]
      <4>1. memoria'[q] = memoria[q] \cup {t} /\ Cabe(memoria[q], agora) /\ t.quando = agora
        BY <2>1, <3>2, Zenon DEF Chega
      <4>2. IsFiniteSet(memoria[q]) /\ Respeita(memoria[q]) /\ agora \in Nat
        BY <1>0 DEF TiposLimitador, ContagensRespeitam
      <4>3. \A h \in memoria[q] : h.quando \in Nat
        BY <1>0 DEF TiposLimitador, Chegada
      <4> QED
        BY <4>1, <4>2, <4>3, UmaAMais
    <3> QED
      BY <3>1, <3>2
  <2>3. banco' = banco /\ admitidas' = admitidas /\ historia'.faltou = historia.faltou
    BY <2>1, Zenon DEF Chega
  <2> QED
    BY <1>0, <2>2, <2>3, Zenon DEF ContagensRespeitam, Respeita, NaJanela, Recentes
<1>2. ASSUME NEW t \in aguardando, DecidirNoBanco(t) \/ DecidirSemBanco(t) PROVE ContagensRespeitam'
  <2>1. InserirNoBanco(t) \/ banco' = banco
    BY <1>2 DEF DecidirNoBanco, DecidirSemBanco
  <2>2. Respeita(banco') /\ banco \subseteq banco'
    BY <1>0, <2>1, InsercaoRespeita DEF ContagensRespeitam
  <2>3. memoria' = memoria
    BY <1>2 DEF DecidirNoBanco, DecidirSemBanco
  <2>4. ~historia'.faltou => admitidas' \subseteq banco'
    <3>1. CASE DecidirSemBanco(t)
      <4>1. historia'.faltou
        BY <1>0, <3>1, Zenon DEF DecidirSemBanco, TiposLimitador
      <4> QED
        BY <4>1
    <3>2. CASE DecidirNoBanco(t)
      <4>1. historia'.faltou = historia.faltou
        BY <1>0, <3>2, Zenon DEF DecidirNoBanco, TiposLimitador
      <4>2. admitidas' = admitidas \/ (t \in banco' /\ admitidas' = admitidas \cup {t})
        <5>1. CASE BancoPermite(t)
          BY <3>2, <5>1 DEF DecidirNoBanco, Responder, InserirNoBanco
        <5>2. CASE ~BancoPermite(t)
          BY <3>2, <5>2 DEF DecidirNoBanco, Responder
        <5> QED
          BY <5>1, <5>2
      <4> QED
        BY <1>0, <2>2, <4>1, <4>2 DEF ContagensRespeitam
    <3> QED
      BY <1>2, <3>1, <3>2
  <2> QED
    BY <1>0, <2>2, <2>3, <2>4, Zenon DEF ContagensRespeitam, Respeita, NaJanela, Recentes
<1>3. ASSUME NEW p \in Processos, ReiniciarProcesso(p) PROVE ContagensRespeitam'
  <2>1. banco' = banco \/ \E t \in aguardando : InserirNoBanco(t)
    BY <1>3 DEF ReiniciarProcesso
  <2>2. Respeita(banco') /\ banco \subseteq banco'
    BY <1>0, <2>1, InsercaoRespeita DEF ContagensRespeitam
  <2>3. \A q \in Processos : memoria'[q] \in {{}, memoria[q]}
    BY <1>0, <1>3 DEF ReiniciarProcesso, TiposLimitador
  <2>4. \A q \in Processos : Respeita(memoria'[q])
    BY <1>0, <2>3, VazioRespeita DEF ContagensRespeitam
  <2>5. admitidas' = admitidas
    BY <1>3 DEF ReiniciarProcesso
  <2>6. historia.faltou => historia'.faltou
    BY <1>0, HistoriaAnda
  <2>7. ~historia'.faltou => admitidas' \subseteq banco'
    BY <1>0, <2>2, <2>5, <2>6 DEF ContagensRespeitam
  <2> QED
    BY <2>2, <2>4, <2>7, Zenon DEF ContagensRespeitam, Respeita, NaJanela, Recentes
<1>4. CASE PassarTempo
  BY <1>0, <1>4, Zenon DEF PassarTempo, ContagensRespeitam, Respeita, NaJanela, Recentes
<1> QED
  BY <1>1, <1>2, <1>3, <1>4, Zenon DEF NextLimitador

LEMMA ReservaFica ==
  ASSUME InvLimitador, NextLimitador
  PROVE  ReservaAcompanha'
<1>0. TiposLimitador /\ ReservaAcompanha
  BY DEF InvLimitador
<1> SUFFICES ASSUME NEW q \in Processos, Sozinho(q)'
             PROVE  /\ \A t, u \in aguardando' : t = u
                    /\ admitidas' = memoria'[q] \ aguardando'
                    /\ ~historia'.faltou => banco' = admitidas'
                    /\ \A t \in aguardando' : /\ t.reserva <=> t \in memoria'[q]
                                              /\ t.reserva <=> Cabe(memoria'[q] \ {t}, t.quando)
  BY Zenon DEF ReservaAcompanha, Cabe, Recentes
<1>1. Sozinho(q)
  BY <1>0, HistoriaAnda, Zenon DEF Sozinho
<1>2. /\ \A t, u \in aguardando : t = u
      /\ admitidas = memoria[q] \ aguardando
      /\ ~historia.faltou => banco = admitidas
      /\ \A t \in aguardando : /\ t.reserva <=> t \in memoria[q]
                               /\ t.reserva <=> Cabe(memoria[q] \ {t}, t.quando)
  BY <1>0, <1>1, Zenon DEF ReservaAcompanha
<1>3. CASE \E p \in Processos : Chegar(p)
  <2>0. PICK p \in Processos : \E t : Chega(p, t)
    BY <1>0, <1>3, UmaChega, Zenon
  <2>1. PICK t : Chega(p, t)
    BY <2>0
  <2>2. p = q /\ aguardando = {}
    BY <2>1, Zenon DEF Chega, Sozinho
  <2>3. /\ aguardando' = {t} /\ admitidas' = admitidas /\ banco' = banco
        /\ historia'.faltou = historia.faltou
    BY <2>1, <2>2 DEF Chega
  <2>4. t \notin memoria[q] /\ t.quando = agora
    BY <2>1, Zenon DEF Chega
  <2>5. t.reserva <=> Cabe(memoria[q], t.quando)
    BY <2>1, <2>2, <2>4, Zenon DEF Chega
  <2>6. memoria'[q] = IF t.reserva THEN memoria[q] \cup {t} ELSE memoria[q]
    BY <2>1, <2>2, Zenon DEF Chega
  <2>7. memoria'[q] \ {t} = memoria[q] /\ (t.reserva <=> t \in memoria'[q])
    BY <2>4, <2>6
  <2>8. admitidas = memoria[q]
    BY <1>2, <2>2
  <2> QED
    BY <1>2, <2>3, <2>5, <2>7, <2>8, Zenon
<1>4. CASE \E t \in aguardando : DecidirNoBanco(t) \/ DecidirSemBanco(t)
  <2>1. PICK t \in aguardando : DecidirNoBanco(t) \/ DecidirSemBanco(t)
    BY <1>4
  <2>2. memoria' = memoria /\ aguardando = {t} /\ aguardando' = {}
    BY <1>2, <2>1 DEF DecidirNoBanco, DecidirSemBanco, Responder
  <2>3. admitidas = memoria[q] \ {t} /\ (t.reserva <=> t \in memoria[q])
    BY <1>2, <2>2
  <2>4. CASE DecidirSemBanco(t)
    <3>1. admitidas' = IF t.reserva THEN admitidas \cup {t} ELSE admitidas
      BY <2>4 DEF DecidirSemBanco, Responder
    <3>2. historia'.faltou
      BY <1>0, <2>4, Zenon DEF DecidirSemBanco, TiposLimitador
    <3> QED
      BY <2>2, <2>3, <3>1, <3>2
  <2>5. CASE DecidirNoBanco(t)
    <3>1. historia'.voltou = (historia.voltou \/ historia.faltou)
      BY <1>0, <2>5, Zenon DEF DecidirNoBanco, TiposLimitador
    <3>2. ~historia.faltou
      BY <3>1, Zenon DEF Sozinho
    <3>3. banco = memoria[q] \ {t}
      BY <1>2, <2>3, <3>2
    <3>4. BancoPermite(t) <=> t.reserva
      BY <1>2, <3>3, Zenon DEF BancoPermite
    <3>5. /\ admitidas' = IF BancoPermite(t) THEN admitidas \cup {t} ELSE admitidas
          /\ banco' = IF BancoPermite(t) THEN banco \cup {t} ELSE banco
      BY <2>5 DEF DecidirNoBanco, Responder, InserirNoBanco
    <3> QED
      BY <2>2, <2>3, <3>3, <3>4, <3>5
  <2> QED
    BY <2>1, <2>4, <2>5
<1>5. CASE \E p \in Processos : ReiniciarProcesso(p)
  <2>1. historia'.reiniciou
    BY <1>0, <1>5, Zenon DEF ReiniciarProcesso, TiposLimitador
  <2> QED
    BY <2>1 DEF Sozinho
<1>6. CASE PassarTempo
  BY <1>2, <1>6 DEF PassarTempo
<1> QED
  BY <1>3, <1>4, <1>5, <1>6, Zenon DEF NextLimitador

THEOREM InvarianciaLimitador == SpecLimitador => []InvLimitador
<1>1. InvLimitador /\ [NextLimitador]_varsLimitador => InvLimitador'
  <2>1. ASSUME InvLimitador, UNCHANGED varsLimitador PROVE InvLimitador'
    <3>1. UNCHANGED <<banco, memoria, aguardando, admitidas, chegadas, agora, historia>>
      BY <2>1 DEF varsLimitador
    <3>2. TiposLimitador'
      BY <2>1, <3>1 DEF InvLimitador, TiposLimitador, Chegada
    <3>3. ContagensRespeitam'
      BY <2>1, <3>1, Zenon DEF InvLimitador, ContagensRespeitam, Respeita, NaJanela, Recentes
    <3>4. ReservaAcompanha'
      BY <2>1, <3>1, Zenon DEF InvLimitador, ReservaAcompanha, Sozinho, Cabe, Recentes
    <3> QED
      BY <3>2, <3>3, <3>4 DEF InvLimitador
  <2> QED
    BY <2>1, TiposFicam, ContagensFicam, ReservaFica DEF InvLimitador
<1> QED
  BY TiposIniciais, <1>1, PTL DEF SpecLimitador

\* The limit holds in every window, for any number of replicas, restarts and
\* attempts, while the database answers.
THEOREM LimiteDeTodasAsReplicas == SpecLimitador => []LimiteEntreReplicas
<1>1. InvLimitador => LimiteEntreReplicas
  <2> SUFFICES ASSUME InvLimitador, ~historia.faltou, NEW t \in 0..agora
               PROVE  Cardinality({h \in Recentes(admitidas, t) : h.quando <= t}) <= MaxHits
    BY DEF LimiteEntreReplicas
  <2>1. IsFiniteSet(banco) /\ Respeita(banco) /\ admitidas \subseteq banco
    BY DEF InvLimitador, TiposLimitador, ContagensRespeitam
  <2>2. t \in Nat
    BY DEF InvLimitador, TiposLimitador
  <2>3. Cardinality(NaJanela(admitidas, t)) <= MaxHits
    BY <2>1, <2>2, ParteRespeita
  <2> QED
    BY <2>3 DEF NaJanela
<1> QED
  BY <1>1, InvarianciaLimitador, PTL

\* Losing the database gives no new window to who already used the limit.
THEOREM QuedaNaoDaJanelaNova == SpecLimitador => []FalhaNaoDaJanelaNova
<1>1. InvLimitador => FalhaNaoDaJanelaNova
  <2> SUFFICES ASSUME InvLimitador, Cardinality(historia.pediram) <= 1,
                      ~historia.juntas, ~historia.reiniciou, ~historia.voltou, NEW u \in 0..agora
               PROVE  Cardinality({h \in Recentes(admitidas, u) : h.quando <= u}) <= MaxHits
    BY DEF FalhaNaoDaJanelaNova
  <2>1. TiposLimitador /\ ContagensRespeitam /\ ReservaAcompanha
    BY DEF InvLimitador
  <2>2. u \in Nat
    BY <2>1 DEF TiposLimitador
  <2>3. CASE historia.pediram = {}
    <3>1. admitidas = {}
      BY <2>1, <2>3 DEF TiposLimitador, Chegada
    <3> QED
      BY <2>2, <3>1, VazioRespeita DEF Respeita, NaJanela
  <2>4. CASE historia.pediram # {}
    <3>1. PICK p : p \in historia.pediram
      BY <2>4
    <3>2. p \in Processos
      BY <2>1, <3>1 DEF TiposLimitador
    <3>3. {p} \subseteq historia.pediram /\ Cardinality({p}) = 1
      BY <3>1, FS_Singleton
    <3>4. Cardinality(historia.pediram) \in Nat /\ Cardinality({p}) <= Cardinality(historia.pediram)
      BY <2>1, <3>3, FS_CardinalityType, FS_Subset DEF TiposLimitador
    <3>5. Cardinality(historia.pediram) = 1
      BY <3>3, <3>4
    <3>6. historia.pediram = {p}
      BY <2>1, <3>1, <3>5, FS_Singleton DEF TiposLimitador
    <3>7. admitidas \subseteq memoria[p]
      BY <2>1, <3>2, <3>6 DEF ReservaAcompanha, Sozinho
    <3>8. IsFiniteSet(memoria[p]) /\ Respeita(memoria[p])
      BY <2>1, <3>2 DEF TiposLimitador, ContagensRespeitam
    <3> QED
      BY <2>2, <3>7, <3>8, ParteRespeita DEF NaJanela
  <2> QED
    BY <2>3, <2>4
<1> QED
  BY <1>1, InvarianciaLimitador, PTL

-----------------------------------------------------------------------------
(* The watchdog.                                                            *)

TiposOperacao ==
    /\ agendador \in {"vivo", "pendurado", "terminado"}
    /\ semTick \in {Nunca} \cup Idades /\ semCiclo \in Idades
    /\ espera \in {SemJob} \cup Idades /\ rodando \in BOOLEAN
    /\ semConsulta \in [Empresas -> Idades]
    /\ desdeAviso \in [Motivos -> 0..Intervalo]
    /\ grupos \subseteq Grupos
    /\ rodada \in {"nenhuma", "falhou", "completa"}

\* A scheduler that ticked is as old as its last tick, and no worker is of a
\* group that does not exist.
OperacaoCoerente ==
    /\ semTick # Nunca => semTick = semCiclo
    /\ cobertos \subseteq grupos

InvOperacao == TiposOperacao /\ OperacaoCoerente

\* A minute makes an age a minute more, up to the limit.
LEMMA EnvelhecerTipo ==
    ASSUME NEW i \in {Nunca} \cup Idades
    PROVE  /\ Envelhecer(i) \in {Nunca} \cup Idades
           /\ i # Nunca => Envelhecer(i) \in Idades
           /\ i = Nunca => Envelhecer(i) = Nunca
  BY ConstantesOperacao DEF Envelhecer, Idades, Nunca

\* Whatever the scheduler, the queue, the rounds and the restarts do.
THEOREM InvarianciaOperacao == SpecOperacao => []InvOperacao
  <1>1. InitOperacao => InvOperacao
    <2> SUFFICES ASSUME InitOperacao
                 PROVE  InvOperacao
      OBVIOUS
    <2> USE DEF InitOperacao
    <2>1. semTick = Nunca /\ espera = SemJob /\ semCiclo \in Idades /\ semConsulta \in [Empresas -> Idades]
      BY ConstantesOperacao DEF Idades
    <2>2. desdeAviso \in [Motivos -> 0..Intervalo]
      BY ConstantesOperacao
    <2>3. rodando \in BOOLEAN /\ grupos \subseteq Grupos /\ cobertos \subseteq grupos
      OBVIOUS
    <2>4. /\ agendador \in {"vivo", "pendurado", "terminado"}
          /\ rodada \in {"nenhuma", "falhou", "completa"}
      OBVIOUS
    <2> QED
      BY <2>1, <2>2, <2>3, <2>4 DEF InvOperacao, TiposOperacao, OperacaoCoerente
  <1>2. ASSUME InvOperacao, [NextOperacao]_varsOperacao
        PROVE  InvOperacao'
    <2> USE DEF InvOperacao
    <2>1. CASE Agendar
      <3>1. /\ agendador' \in {"vivo", "pendurado", "terminado"}
            /\ \/ semTick' = 0 /\ semCiclo' = 0
               \/ UNCHANGED <<semTick, semCiclo>>
            /\ UNCHANGED <<espera, rodando, semConsulta, desdeAviso, grupos, cobertos, rodada>>
        BY <2>1 DEF Agendar, Ciclo, Parar, TiposOperacao
      <3> QED
        BY <1>2, <3>1, ConstantesOperacao DEF TiposOperacao, OperacaoCoerente, Idades
    <2>2. CASE Fila
      <3>1. /\ espera' \in {espera, 0, SemJob}
            /\ UNCHANGED <<agendador, semTick, semCiclo, desdeAviso, grupos, cobertos, rodada>>
        BY <2>2 DEF Fila
      <3>0. 0 \in Idades
        BY ConstantesOperacao DEF Idades
      <3>3. semConsulta' \in [Empresas -> Idades]
        BY <1>2, <2>2, <3>0 DEF Fila, TiposOperacao
      <3>2. rodando' \in BOOLEAN
        BY <1>2, <2>2 DEF Fila, TiposOperacao
      <3> QED
        BY <1>2, <3>1, <3>2, <3>3, ConstantesOperacao DEF TiposOperacao, OperacaoCoerente, Idades, SemJob
    <2>3. CASE Supervisionar
      <3>1. PICK falha \in Falhas, ate \in SUBSET Problemas : Rodada(falha, ate)
        BY <2>3 DEF Supervisionar
      <3>2. /\ agendador' \in {"vivo", "pendurado", "terminado"}
            /\ cobertos' \in {cobertos, cobertos \cup grupos}
            /\ rodada' \in {"nenhuma", "falhou", "completa"}
            /\ UNCHANGED <<semTick, semCiclo, espera, rodando, semConsulta, grupos>>
        BY <1>2, <3>1 DEF Rodada, Recriado, TiposOperacao
      <3>3. ASSUME NEW ms
            PROVE  Avisados(ms) \in [Motivos -> 0..Intervalo]
        BY <1>2, ConstantesOperacao DEF Avisados, TiposOperacao
      <3>4. desdeAviso' \in {desdeAviso, Avisados(ate), Avisados(Problemas)}
        BY <3>1 DEF Rodada
      <3>5. desdeAviso' \in [Motivos -> 0..Intervalo]
        BY <1>2, <3>3, <3>4 DEF TiposOperacao
      <3> QED
        BY <1>2, <3>2, <3>5 DEF TiposOperacao, OperacaoCoerente
    <2>4. CASE Minuto
      <3>1. /\ semTick' = Envelhecer(semTick) /\ semCiclo' = Envelhecer(semCiclo)
            /\ espera' = Envelhecer(espera)
            /\ semConsulta' = [e \in Empresas |-> Envelhecer(semConsulta[e])]
            /\ rodada' = "nenhuma" /\ UNCHANGED <<agendador, rodando, grupos, cobertos>>
        BY <2>4 DEF Minuto
      <3>2. desdeAviso' \in [Motivos -> 0..Intervalo]
        <4>1. ASSUME NEW m \in Motivos
              PROVE  (IF desdeAviso[m] < Intervalo THEN desdeAviso[m] + 1 ELSE Intervalo) \in 0..Intervalo
          BY <1>2, ConstantesOperacao DEF TiposOperacao
        <4> QED
          BY <2>4, <4>1 DEF Minuto
      <3>3. Idades \subseteq Nat /\ Nunca \notin Nat
        BY DEF Idades, Nunca
      <3>4. /\ semTick' \in {Nunca} \cup Idades /\ espera' \in {SemJob} \cup Idades
            /\ semCiclo' \in Idades
            /\ semTick' # Nunca => semTick # Nunca
        BY <1>2, <3>1, <3>3, EnvelhecerTipo DEF TiposOperacao, SemJob, Nunca
      <3>7. ASSUME NEW e \in Empresas
            PROVE  Envelhecer(semConsulta[e]) \in Idades
        <4>1. semConsulta[e] \in Idades
          BY <1>2 DEF TiposOperacao
        <4> QED
          BY <3>3, <4>1, EnvelhecerTipo
      <3>8. semConsulta' \in [Empresas -> Idades]
        BY <3>1, <3>7
      <3>5. TiposOperacao'
        BY <1>2, <3>1, <3>2, <3>4, <3>8 DEF TiposOperacao
      <3>6. OperacaoCoerente'
        BY <1>2, <3>1, <3>4 DEF OperacaoCoerente
      <3> QED
        BY <3>5, <3>6
    <2>5. CASE Reiniciar
      BY <1>2, <2>5, ConstantesOperacao DEF Reiniciar, TiposOperacao, OperacaoCoerente, Idades
    <2>6. ASSUME NEW g \in Grupos, CriarGrupo(g)
          PROVE  InvOperacao'
      BY <1>2, <2>6 DEF CriarGrupo, TiposOperacao, OperacaoCoerente
    <2>7. CASE UNCHANGED varsOperacao
      BY <1>2, <2>7 DEF varsOperacao, TiposOperacao, OperacaoCoerente
    <2> QED
      BY <1>2, <2>1, <2>2, <2>3, <2>4, <2>5, <2>6, <2>7 DEF NextOperacao
  <1> QED
    BY <1>1, <1>2, PTL DEF SpecOperacao

\* A round that did not fail leaves no stopped thing without a warning within
\* the interval, and no group without workers, for any limit and interval.
THEOREM RodadaCuidaDeTudo == SpecOperacao => RodadaCompletaCuida
  <1>1. ASSUME InvOperacao, [NextOperacao]_varsOperacao
        PROVE  [Supervisionar /\ rodada' = "completa" =>
                  /\ \A m \in Motivos : Parado(m) /\ (m = "agendador_parado" => semTick # Nunca)
                                          => desdeAviso'[m] < Intervalo
                  /\ cobertos' = grupos']_varsOperacao
    <2> SUFFICES ASSUME Supervisionar, rodada' = "completa"
                 PROVE  /\ \A m \in Motivos : Parado(m) /\ (m = "agendador_parado" => semTick # Nunca)
                                                => desdeAviso'[m] < Intervalo
                        /\ cobertos' = grupos'
      OBVIOUS
    <2>1. PICK falha \in Falhas, ate \in SUBSET Problemas : Rodada(falha, ate)
      BY DEF Supervisionar
    <2>2. falha = "nenhuma"
      BY <2>1 DEF Rodada
    <2>3. desdeAviso' = Avisados(Problemas)
      BY <2>1, <2>2 DEF Rodada, Motivos
    <2>4. cobertos' = grupos'
      BY <1>1, <2>1, <2>2 DEF Rodada, InvOperacao, OperacaoCoerente
    <2>5. ASSUME NEW m \in Motivos, Parado(m), m = "agendador_parado" => semTick # Nunca
          PROVE  desdeAviso'[m] < Intervalo
      <3>1. m \in Problemas
        BY <1>1, <2>5 DEF Problemas, Parado, InvOperacao, OperacaoCoerente
      <3>2. desdeAviso[m] \in 0..Intervalo
        BY <1>1 DEF InvOperacao, TiposOperacao
      <3>3. desdeAviso'[m] = IF desdeAviso[m] >= Intervalo THEN 0 ELSE desdeAviso[m]
        BY <2>3, <3>1 DEF Avisados, PodeAvisar
      <3> QED
        BY <3>2, <3>3, ConstantesOperacao
    <2> QED
      BY <2>4, <2>5
  <1> QED
    BY <1>1, InvarianciaOperacao, PTL DEF SpecOperacao, RodadaCompletaCuida

-----------------------------------------------------------------------------
(* The second step of an administrator.                                     *)

Totps == [segredo : 0..gerados, ativo : BOOLEAN, ultimo : 0..SemPasso]

SessoesPossiveis ==
    [ordem : Nat, segredo : 1..gerados, passo : Passos, resets : 0..resets,
     vistas : SUBSET Nat, lidas : Nat, regravacoes : 0..regravacoes]

TiposSessaoAdmin ==
    /\ gerados \in Nat /\ resets \in Nat /\ regravacoes \in Nat /\ passoAtual \in 0..MaxPasso
    /\ totp \in Totps
    /\ sessoesAdmin \subseteq SessoesPossiveis

OrdensAbertas == {s.ordem : s \in sessoesAdmin}

\* A request to open a session: what was true when it read the row. Its code
\* opened none of the sessions there were by then, unless the last step was
\* set back.
AberturaBoa(r) ==
    /\ r.passo \in Passos /\ r.lida.ativo /\ r.lida.segredo # 0
    /\ r.lida.ultimo = SemPasso \/ r.passo > r.lida.ultimo
    /\ r.vistas \subseteq OrdensAbertas /\ r.lidas \in Nat
    /\ \A s \in sessoesAdmin :
          s.ordem \in r.vistas /\ s.segredo = r.lida.segredo /\ s.passo = r.passo => s.regravacoes < r.lidas
    /\ r.resets \in 0..resets
    /\ r.resets < resets /\ totp.segredo # 0 => r.lida.segredo < totp.segredo
    /\ \A s \in sessoesAdmin : /\ s.resets < r.resets => s.segredo < r.lida.segredo
                               /\ r.resets < s.resets => r.lida.segredo < s.segredo

AtrasadoBom(r) ==
    /\ r.tipo \in {"iniciar", "confirmar", "abrir", "resetar"} /\ r.lida \in Totps
    /\ r.tipo = "confirmar" => r.passo \in Passos
    /\ r.tipo = "abrir" => AberturaBoa(r)

\* A session opened since the last step was written by something else used a
\* step up to the last one, while its secret is active.
CodigosGastos ==
    \A s \in sessoesAdmin :
        s.regravacoes = regravacoes /\ s.segredo = totp.segredo /\ totp.ativo
            => totp.ultimo # SemPasso /\ s.passo <= totp.ultimo

\* After a reset, a secret in force is newer than those of the sessions before it.
SegredoNovo ==
    \A s \in sessoesAdmin : s.resets < resets /\ totp.segredo # 0 => s.segredo < totp.segredo

\* A session was asked for before those that had not been opened by then.
VistasAbertas == \A t \in sessoesAdmin : t.vistas \subseteq OrdensAbertas

SessoesBoas ==
    /\ TiposSessaoAdmin /\ CodigosGastos /\ SegredoNovo /\ VistasAbertas
    /\ CodigoAbreUmaSessao /\ AutenticadorZeradoNaoAbre

InvSessaoAdmin == SessoesBoas /\ (atrasado # SemAtrasado => AtrasadoBom(atrasado))

\* What is written of a row: the columns that differ from the row that was
\* read, and the rest as it is.
LEMMA TotpGravado ==
    ASSUME NEW n \in Nat, NEW lida, NEW nova,
           totp \in [segredo : 0..n, ativo : BOOLEAN, ultimo : 0..SemPasso],
           lida \in [segredo : 0..n, ativo : BOOLEAN, ultimo : 0..SemPasso],
           nova \in [segredo : 0..n, ativo : BOOLEAN, ultimo : 0..SemPasso]
    PROVE  /\ Gravada(lida, nova) \in [segredo : 0..n, ativo : BOOLEAN, ultimo : 0..SemPasso]
           /\ Gravada(lida, nova).segredo = IF nova.segredo # lida.segredo THEN nova.segredo ELSE totp.segredo
           /\ nova.ativo = lida.ativo => Gravada(lida, nova).ativo = totp.ativo
           /\ Gravada(lida, nova).ultimo = IF nova.ultimo # lida.ultimo THEN nova.ultimo ELSE totp.ultimo
  <1> DEFINE G == Gravada(lida, nova)
  <1>1. DOMAIN totp = {"segredo", "ativo", "ultimo"}
    OBVIOUS
  <1>2. G = [x \in {"segredo", "ativo", "ultimo"} |-> IF nova[x] # lida[x] THEN nova[x] ELSE totp[x]]
    BY <1>1 DEF Gravada
  <1>3. /\ G.segredo = IF nova.segredo # lida.segredo THEN nova.segredo ELSE totp.segredo
        /\ G.ultimo = IF nova.ultimo # lida.ultimo THEN nova.ultimo ELSE totp.ultimo
        /\ G.ativo \in {nova.ativo, totp.ativo}
        /\ nova.ativo = lida.ativo => G.ativo = totp.ativo
    BY <1>2
  <1>4. G \in [segredo : 0..n, ativo : BOOLEAN, ultimo : 0..SemPasso]
    <2>1. G.segredo \in 0..n /\ G.ultimo \in 0..SemPasso /\ G.ativo \in BOOLEAN
      BY <1>3
    <2>2. G = [segredo |-> G.segredo, ativo |-> G.ativo, ultimo |-> G.ultimo]
      BY <1>2
    <2> HIDE DEF G
    <2> QED
      BY <2>1, <2>2
  <1> QED
    BY <1>3, <1>4

\* A row with other values of the active column and of the last step.
LEMMA ComAtivoEUltimo ==
    ASSUME NEW n \in Nat, NEW b \in BOOLEAN, NEW u \in 0..SemPasso,
           NEW l \in [segredo : 0..n, ativo : BOOLEAN, ultimo : 0..SemPasso]
    PROVE  /\ [l EXCEPT !.ativo = b, !.ultimo = u] \in [segredo : 0..n, ativo : BOOLEAN, ultimo : 0..SemPasso]
           /\ [l EXCEPT !.ativo = b, !.ultimo = u].segredo = l.segredo
           /\ [l EXCEPT !.ativo = b, !.ultimo = u].ultimo = u
           /\ [l EXCEPT !.ultimo = u] \in [segredo : 0..n, ativo : BOOLEAN, ultimo : 0..SemPasso]
           /\ [l EXCEPT !.ultimo = u].segredo = l.segredo
           /\ [l EXCEPT !.ultimo = u].ativo = l.ativo
           /\ [l EXCEPT !.ultimo = u].ultimo = u
  OBVIOUS

\* A new secret is the newest: no session used it.
LEMMA PassoIniciar ==
    ASSUME NEW r, SessoesBoas, AtrasadoBom(r), Iniciar2fa(r), passoAtual' = passoAtual
    PROVE  SessoesBoas' /\ totp'.segredo = gerados' /\ gerados' = gerados + 1
  <1> USE DEF SessoesBoas
  <1> DEFINE n == gerados + 1
             nova == [segredo |-> n, ativo |-> FALSE, ultimo |-> SemPasso]
  <1>1. gerados \in Nat /\ n \in Nat /\ SemPasso \in Nat /\ totp \in Totps /\ r.lida \in Totps
    BY ConstantesSessaoAdmin DEF TiposSessaoAdmin, AtrasadoBom, SemPasso
  <1>2. /\ totp \in [segredo : 0..n, ativo : BOOLEAN, ultimo : 0..SemPasso]
        /\ r.lida \in [segredo : 0..n, ativo : BOOLEAN, ultimo : 0..SemPasso]
        /\ r.lida.segredo # n
    BY <1>1 DEF Totps
  <1>3. nova \in [segredo : 0..n, ativo : BOOLEAN, ultimo : 0..SemPasso] /\ nova.segredo = n
    BY <1>1
  <1>4. /\ totp' = Gravada(r.lida, nova) /\ gerados' = n
        /\ UNCHANGED <<sessoesAdmin, resets, regravacoes>>
    BY DEF Iniciar2fa
  <1> HIDE DEF nova
  <1>5. totp' \in Totps' /\ totp'.segredo = n
    BY <1>1, <1>2, <1>3, <1>4, TotpGravado DEF Totps
  <1>6. sessoesAdmin' \subseteq SessoesPossiveis'
    BY <1>1, <1>4 DEF TiposSessaoAdmin, SessoesPossiveis
  <1>7. TiposSessaoAdmin'
    BY <1>1, <1>4, <1>5, <1>6 DEF TiposSessaoAdmin
  <1>8. \A s \in sessoesAdmin' : s.segredo < totp'.segredo
    BY <1>1, <1>4, <1>5 DEF TiposSessaoAdmin, SessoesPossiveis
  <1>9. CodigosGastos' /\ SegredoNovo'
    BY <1>1, <1>4, <1>5, <1>8 DEF CodigosGastos, SegredoNovo, TiposSessaoAdmin, SessoesPossiveis
  <1>10. CodigoAbreUmaSessao' /\ AutenticadorZeradoNaoAbre' /\ VistasAbertas'
    BY <1>4 DEF CodigoAbreUmaSessao, AutenticadorZeradoNaoAbre, VistasAbertas, OrdensAbertas
  <1> QED
    BY <1>4, <1>5, <1>7, <1>9, <1>10

\* A confirmation keeps the secret and counts as something but a session.
LEMMA PassoConfirmar ==
    ASSUME NEW r, r.tipo = "confirmar", SessoesBoas, AtrasadoBom(r), Confirmar2fa(r), passoAtual' = passoAtual
    PROVE  SessoesBoas' /\ totp'.segredo = totp.segredo
  <1> USE DEF SessoesBoas
  <1> DEFINE nova == [r.lida EXCEPT !.ativo = TRUE, !.ultimo = r.passo]
  <1>1. gerados \in Nat /\ SemPasso \in Nat /\ totp \in Totps /\ r.lida \in Totps /\ r.passo \in 0..SemPasso
    BY ConstantesSessaoAdmin DEF TiposSessaoAdmin, AtrasadoBom, SemPasso, Passos
  <1>2. nova \in Totps /\ nova.segredo = r.lida.segredo
    BY <1>1, ComAtivoEUltimo DEF Totps
  <1>3. /\ totp' = Gravada(r.lida, nova) /\ regravacoes' = regravacoes + 1
        /\ UNCHANGED <<sessoesAdmin, gerados, resets>>
    BY DEF Confirmar2fa
  <1> HIDE DEF nova
  <1>4. totp' \in Totps' /\ totp'.segredo = totp.segredo
    BY <1>1, <1>2, <1>3, TotpGravado DEF Totps
  <1>5. TiposSessaoAdmin'
    <2>1. sessoesAdmin' \subseteq SessoesPossiveis'
      BY <1>3 DEF TiposSessaoAdmin, SessoesPossiveis
    <2> QED
      BY <2>1, <1>3, <1>4 DEF TiposSessaoAdmin
  <1>6. CodigosGastos'
    BY <1>3 DEF CodigosGastos, TiposSessaoAdmin, SessoesPossiveis
  <1>7. SegredoNovo'
    BY <1>3, <1>4 DEF SegredoNovo
  <1>8. CodigoAbreUmaSessao' /\ AutenticadorZeradoNaoAbre' /\ VistasAbertas'
    BY <1>3 DEF CodigoAbreUmaSessao, AutenticadorZeradoNaoAbre, VistasAbertas, OrdensAbertas
  <1> QED
    BY <1>4, <1>5, <1>6, <1>7, <1>8

\* A reset that nothing overtook clears the row; one that was overtaken counts
\* as something but a session, and never brings a secret back.
LEMMA PassoResetar ==
    ASSUME NEW r, SessoesBoas, AtrasadoBom(r), Resetar2fa(r), passoAtual' = passoAtual
    PROVE  /\ SessoesBoas'
           /\ totp'.segredo \in {0, totp.segredo}
           /\ \/ resets' = resets
              \/ resets' = resets + 1 /\ totp'.segredo = 0
  <1> USE DEF SessoesBoas
  <1>1. gerados \in Nat /\ SemPasso \in Nat /\ totp \in Totps /\ r.lida \in Totps
    BY ConstantesSessaoAdmin DEF TiposSessaoAdmin, AtrasadoBom, SemPasso
  <1>2. SemTotp \in Totps /\ SemTotp.segredo = 0
    BY <1>1 DEF SemTotp, Totps
  <1>3. /\ totp' = Gravada(r.lida, SemTotp)
        /\ UNCHANGED <<sessoesAdmin, gerados>>
        /\ \/ totp = r.lida /\ resets' = resets + 1 /\ regravacoes' = regravacoes
           \/ totp # r.lida /\ resets' = resets /\ regravacoes' = regravacoes + 1
    BY DEF Resetar2fa, Zerada, TiposSessaoAdmin
  <1>4. totp' \in Totps' /\ totp'.segredo = IF 0 # r.lida.segredo THEN 0 ELSE totp.segredo
    BY <1>1, <1>2, <1>3, TotpGravado DEF Totps
  <1>5. totp'.segredo \in {0, totp.segredo} /\ (totp = r.lida => totp'.segredo = 0)
    BY <1>4
  <1>6. TiposSessaoAdmin'
    <2>1. resets' \in Nat /\ regravacoes' \in Nat /\ resets <= resets' /\ regravacoes <= regravacoes'
      BY <1>3 DEF TiposSessaoAdmin
    <2>2. sessoesAdmin' \subseteq SessoesPossiveis'
      BY <1>3, <2>1 DEF TiposSessaoAdmin, SessoesPossiveis
    <2> QED
      BY <2>1, <2>2, <1>3, <1>4 DEF TiposSessaoAdmin
  <1>7. CodigosGastos'
    BY <1>3, <1>5 DEF CodigosGastos, TiposSessaoAdmin, SessoesPossiveis
  <1>8. SegredoNovo'
    BY <1>3, <1>5 DEF SegredoNovo
  <1>9. CodigoAbreUmaSessao' /\ AutenticadorZeradoNaoAbre' /\ VistasAbertas'
    BY <1>3 DEF CodigoAbreUmaSessao, AutenticadorZeradoNaoAbre, VistasAbertas, OrdensAbertas
  <1> QED
    BY <1>3, <1>5, <1>6, <1>7, <1>8, <1>9

\* A session spends its code: the last step becomes the step it used, which no
\* session since the last one was set by something else is beyond.
LEMMA PassoAbrir ==
    ASSUME NEW r, r.tipo = "abrir", SessoesBoas, AtrasadoBom(r), AbrirSessaoAdmin(r),
           passoAtual' = passoAtual
    PROVE  /\ SessoesBoas'
           /\ totp'.segredo = totp.segredo /\ UNCHANGED <<gerados, resets>>
           /\ \A s \in sessoesAdmin' : \/ s \in sessoesAdmin
                                       \/ /\ s.segredo = r.lida.segredo /\ s.resets = r.resets
                                          /\ s.ordem \notin OrdensAbertas
           /\ sessoesAdmin \subseteq sessoesAdmin'
  <1> USE DEF SessoesBoas
  <1> DEFINE quebra == IF totp = r.lida \/ totp.ultimo = r.passo THEN 0 ELSE 1
             nova == [r.lida EXCEPT !.ultimo = r.passo]
  <1>1. /\ gerados \in Nat /\ SemPasso \in Nat /\ totp \in Totps /\ r.lida \in Totps
        /\ r.passo \in 0..SemPasso /\ r.passo # SemPasso /\ r.passo \in Passos
        /\ resets \in Nat /\ regravacoes \in Nat /\ AberturaBoa(r)
    BY ConstantesSessaoAdmin DEF TiposSessaoAdmin, AtrasadoBom, AberturaBoa, SemPasso, Passos
  <1>2. nova \in Totps /\ nova.segredo = r.lida.segredo /\ nova.ultimo = r.passo /\ nova.ativo = r.lida.ativo
    BY <1>1, ComAtivoEUltimo DEF Totps
  <1>3. PICK ordem \in 1..MaxSessoes :
          sessoesAdmin' = sessoesAdmin \cup
            {[ordem |-> ordem, segredo |-> r.lida.segredo, passo |-> r.passo, resets |-> r.resets,
              vistas |-> r.vistas, lidas |-> r.lidas, regravacoes |-> regravacoes + quebra]}
          /\ \A s \in sessoesAdmin : s.ordem # ordem
    BY DEF AbrirSessaoAdmin
  <1>4. /\ totp' = Gravada(r.lida, nova) /\ regravacoes' = regravacoes + quebra
        /\ UNCHANGED <<gerados, resets>>
    BY DEF AbrirSessaoAdmin
  <1>5. quebra \in {0, 1} /\ (quebra = 0 => totp = r.lida \/ totp.ultimo = r.passo)
    OBVIOUS
  <1> HIDE DEF nova, quebra
  <1>6. r.passo # r.lida.ultimo
    BY <1>1 DEF AberturaBoa, Totps, Passos, SemPasso
  <1>7. /\ totp' \in Totps' /\ totp'.segredo = totp.segredo
        /\ totp'.ultimo = r.passo /\ totp'.ativo = totp.ativo
    BY <1>1, <1>2, <1>4, <1>6, TotpGravado DEF Totps
  <1> DEFINE aberta == [ordem |-> ordem, segredo |-> r.lida.segredo, passo |-> r.passo,
                        resets |-> r.resets, vistas |-> r.vistas, lidas |-> r.lidas,
                        regravacoes |-> regravacoes + quebra]
  <1>8. /\ aberta.ordem = ordem /\ aberta.segredo = r.lida.segredo /\ aberta.passo = r.passo
        /\ aberta.resets = r.resets /\ aberta.regravacoes = regravacoes'
        /\ aberta.vistas = r.vistas /\ aberta.lidas = r.lidas
        /\ sessoesAdmin' = sessoesAdmin \cup {aberta}
        /\ aberta.ordem \notin OrdensAbertas
    BY <1>3, <1>4 DEF OrdensAbertas
  <1>9. aberta \in SessoesPossiveis'
    <2>1. /\ ordem \in Nat /\ r.lida.segredo \in 1..gerados' /\ r.passo \in Passos
          /\ r.resets \in 0..resets' /\ regravacoes + quebra \in 0..regravacoes'
      BY <1>1, <1>4, <1>5 DEF AberturaBoa, Totps
    <2>2. r.vistas \in SUBSET Nat /\ r.lidas \in Nat
      BY <1>1 DEF AberturaBoa, OrdensAbertas, TiposSessaoAdmin, SessoesPossiveis
    <2> QED
      BY <2>1, <2>2 DEF SessoesPossiveis
  <1> HIDE DEF aberta
  <1>10. TiposSessaoAdmin'
    <2>1. sessoesAdmin \subseteq SessoesPossiveis'
      BY <1>1, <1>4, <1>5 DEF TiposSessaoAdmin, SessoesPossiveis
    <2> QED
      BY <2>1, <1>1, <1>4, <1>5, <1>7, <1>8, <1>9 DEF TiposSessaoAdmin
  \* Without anything in between, no session that counts used a later step.
  <1>11. ASSUME NEW s \in sessoesAdmin, s.regravacoes = regravacoes', s.segredo = totp.segredo, totp.ativo
         PROVE  s.passo <= r.passo
    <2>1. s.regravacoes \in 0..regravacoes /\ s.passo \in Nat
      BY DEF TiposSessaoAdmin, SessoesPossiveis, Passos
    <2>2. quebra = 0 /\ s.regravacoes = regravacoes
      BY <1>1, <1>4, <1>5, <1>11, <2>1
    <2>3. totp.ultimo # SemPasso /\ s.passo <= totp.ultimo
      BY <1>11, <2>2 DEF CodigosGastos
    <2>4. totp.ultimo \in Nat /\ r.passo \in Nat
      BY <1>1 DEF Passos, Totps
    <2>5. CASE totp = r.lida
      BY <1>1, <2>1, <2>3, <2>4, <2>5 DEF AberturaBoa
    <2>6. CASE totp.ultimo = r.passo
      BY <2>3, <2>6
    <2> QED
      BY <1>5, <2>2, <2>5, <2>6
  <1>12. CodigosGastos'
    <2> SUFFICES ASSUME NEW s \in sessoesAdmin', s.regravacoes = regravacoes',
                        s.segredo = totp'.segredo, totp'.ativo
                 PROVE  totp'.ultimo # SemPasso /\ s.passo <= totp'.ultimo
      BY DEF CodigosGastos, SemPasso
    <2>1. CASE s = aberta
      BY <1>1, <1>7, <1>8, <2>1 DEF Passos
    <2>2. CASE s # aberta
      <3>1. s \in sessoesAdmin
        BY <1>8, <2>2
      <3>2. s.passo <= r.passo
        BY <1>7, <1>11, <3>1
      <3> QED
        BY <1>1, <1>7, <3>2
    <2> QED
      BY <2>1, <2>2
  <1>13. SegredoNovo'
    BY <1>1, <1>4, <1>7, <1>8 DEF SegredoNovo, AberturaBoa
  <1>14. CodigoAbreUmaSessao'
    <2> SUFFICES ASSUME NEW s \in sessoesAdmin', NEW t \in sessoesAdmin',
                        s.ordem \in t.vistas, s.segredo = t.segredo, s.passo = t.passo
                 PROVE  s.regravacoes < t.lidas
      BY DEF CodigoAbreUmaSessao
    <2>1. t.vistas \subseteq OrdensAbertas
      BY <1>1, <1>8 DEF VistasAbertas, AberturaBoa
    <2>2. s \in sessoesAdmin
      BY <1>8, <2>1
    <2>3. CASE t \in sessoesAdmin
      BY <2>2, <2>3 DEF CodigoAbreUmaSessao
    <2>4. CASE t = aberta
      BY <1>1, <1>8, <2>2, <2>4 DEF AberturaBoa
    <2> QED
      BY <1>8, <2>3, <2>4
  <1>16. VistasAbertas'
    BY <1>1, <1>8 DEF VistasAbertas, AberturaBoa, OrdensAbertas
  <1>15. AutenticadorZeradoNaoAbre'
    BY <1>1, <1>8 DEF AutenticadorZeradoNaoAbre, AberturaBoa
  <1> QED
    BY <1>4, <1>7, <1>8, <1>10, <1>12, <1>13, <1>14, <1>15, <1>16

\* Any request keeps the sessions and the row as they should be.
LEMMA PassoPedido ==
    ASSUME NEW r, SessoesBoas, AtrasadoBom(r), GravarPedido(r), passoAtual' = passoAtual
    PROVE  SessoesBoas'
  BY PassoIniciar, PassoConfirmar, PassoAbrir, PassoResetar DEF GravarPedido

\* What may be asked now is well asked.
LEMMA PedidoDeAgora ==
    ASSUME NEW r \in PedidasSessaoAdmin, SessoesBoas
    PROVE  /\ AtrasadoBom(r) /\ r.lida = totp /\ r # SemAtrasado
           /\ r.tipo = "abrir" => r.resets = resets
  <1> USE DEF SessoesBoas
  <1>1. CASE r \in Iniciadas \cup Zeradas
    BY <1>1 DEF Iniciadas, Zeradas, AtrasadoBom, TiposSessaoAdmin, SemAtrasado
  <1>2. CASE r \in Confirmadas
    BY <1>2 DEF Confirmadas, AtrasadoBom, TiposSessaoAdmin, SemAtrasado
  <1>3. CASE r \in Abertas
    <2>1. PICK p \in Passos : /\ r = [tipo |-> "abrir", lida |-> totp, passo |-> p, resets |-> resets,
                                      vistas |-> {s.ordem : s \in sessoesAdmin}, lidas |-> regravacoes]
                              /\ totp.ativo /\ Verificar(p) /\ NaoUsado(p)
      BY <1>3 DEF Abertas
    <2>2. /\ r.tipo = "abrir" /\ r.lida = totp /\ r.passo = p /\ r.resets = resets
          /\ r.vistas = OrdensAbertas /\ r.lidas = regravacoes
      BY <2>1 DEF OrdensAbertas
    <2>4. ASSUME NEW s \in sessoesAdmin, s.segredo = totp.segredo, s.passo = p
          PROVE  s.regravacoes < regravacoes
      <3>1. /\ s.regravacoes \in 0..regravacoes /\ regravacoes \in Nat
            /\ s.passo \in Nat /\ totp.ultimo \in Nat
        BY ConstantesSessaoAdmin DEF TiposSessaoAdmin, SessoesPossiveis, Passos, Totps, SemPasso
      <3>2. s.regravacoes = regravacoes => totp.ultimo # SemPasso /\ s.passo <= totp.ultimo
        BY <2>1, <2>4 DEF CodigosGastos
      <3> QED
        BY <2>1, <2>4, <3>1, <3>2 DEF NaoUsado
    <2>5. ASSUME NEW s \in sessoesAdmin
          PROVE  /\ s.resets < resets => s.segredo < totp.segredo
                 /\ ~(resets < s.resets)
      BY <2>1, <2>5 DEF TiposSessaoAdmin, SessoesPossiveis, SegredoNovo, Verificar
    <2>3. AberturaBoa(r)
      BY <2>1, <2>2, <2>4, <2>5 DEF AberturaBoa, TiposSessaoAdmin, Verificar, NaoUsado
    <2> QED
      BY <2>2, <2>3 DEF AtrasadoBom, TiposSessaoAdmin, SemAtrasado
  <1> QED
    BY <1>1, <1>2, <1>3 DEF PedidasSessaoAdmin

\* The slow request stays well asked under the quick ones that overtake it.
LEMMA PedidoContinuaBom ==
    ASSUME NEW q \in PedidasSessaoAdmin, NEW r, SessoesBoas, AtrasadoBom(r), GravarPedido(q),
           passoAtual' = passoAtual
    PROVE  AtrasadoBom(r)'
  <1>1. AtrasadoBom(q) /\ q.lida = totp /\ (q.tipo = "abrir" => q.resets = resets)
    BY PedidoDeAgora
  <1>2. /\ gerados \in Nat /\ gerados' \in Nat /\ gerados <= gerados'
        /\ resets \in Nat /\ resets' \in Nat
        /\ totp'.segredo \in {0, totp.segredo} \/ (totp'.segredo = gerados' /\ gerados' = gerados + 1)
        /\ resets' = resets \/ (resets' = resets + 1 /\ totp'.segredo = 0)
        /\ \A s \in sessoesAdmin' : \/ s \in sessoesAdmin
                                    \/ /\ s.segredo = totp.segredo /\ s.resets = resets /\ q.lida.segredo # 0
                                       /\ s.ordem \notin OrdensAbertas
        /\ sessoesAdmin \subseteq sessoesAdmin'
    <2>1. gerados \in Nat /\ resets \in Nat
      BY DEF SessoesBoas, TiposSessaoAdmin
    <2>2. CASE q.tipo = "iniciar" /\ Iniciar2fa(q)
      <3>1. totp'.segredo = gerados' /\ gerados' = gerados + 1
        BY <1>1, <2>2, PassoIniciar
      <3>2. UNCHANGED <<sessoesAdmin, resets>>
        BY <2>2 DEF Iniciar2fa
      <3> QED
        BY <2>1, <3>1, <3>2
    <2>3. CASE q.tipo = "confirmar" /\ Confirmar2fa(q)
      <3>1. totp'.segredo = totp.segredo
        BY <1>1, <2>3, PassoConfirmar
      <3>2. UNCHANGED <<sessoesAdmin, gerados, resets>>
        BY <2>3 DEF Confirmar2fa
      <3> QED
        BY <2>1, <3>1, <3>2
    <2>4. CASE q.tipo = "abrir" /\ AbrirSessaoAdmin(q)
      <3>1. q.lida.segredo # 0
        BY <1>1, <2>4 DEF AtrasadoBom, AberturaBoa
      <3> QED
        BY <1>1, <2>1, <2>4, <3>1, PassoAbrir
    <2>5. CASE q.tipo = "resetar" /\ Resetar2fa(q)
      <3>1. UNCHANGED <<sessoesAdmin, gerados>>
        BY <2>5 DEF Resetar2fa
      <3> QED
        BY <1>1, <2>1, <2>5, <3>1, PassoResetar
    <2> QED
      BY <2>2, <2>3, <2>4, <2>5 DEF GravarPedido
  <1>3. r.lida \in Totps'
    BY <1>2 DEF AtrasadoBom, Totps
  <1>4. CASE r.tipo = "abrir"
    <2>1. AberturaBoa(r) /\ r.lida.segredo \in 0..gerados /\ totp.segredo \in 0..gerados
      BY <1>4 DEF AtrasadoBom, Totps, SessoesBoas, TiposSessaoAdmin
    <2>2. r.resets \in 0..resets' /\ (r.resets < resets' /\ totp'.segredo # 0 => r.lida.segredo < totp'.segredo)
      BY <1>2, <2>1 DEF AberturaBoa
    <2>5. r.vistas \subseteq OrdensAbertas /\ r.vistas \subseteq OrdensAbertas' /\ r.lidas \in Nat
      BY <1>2, <2>1 DEF AberturaBoa, OrdensAbertas
    <2>6. ASSUME NEW s \in sessoesAdmin', s.ordem \in r.vistas, s.segredo = r.lida.segredo, s.passo = r.passo
          PROVE  s.regravacoes < r.lidas
      BY <1>2, <2>1, <2>5, <2>6 DEF AberturaBoa
    <2>3. ASSUME NEW s \in sessoesAdmin'
          PROVE  /\ s.resets < r.resets => s.segredo < r.lida.segredo
                 /\ r.resets < s.resets => r.lida.segredo < s.segredo
      <3>1. CASE s \in sessoesAdmin
        BY <2>1, <3>1 DEF AberturaBoa
      <3>2. CASE s.segredo = totp.segredo /\ s.resets = resets /\ q.lida.segredo # 0
        BY <1>1, <1>2, <2>1, <3>2 DEF AberturaBoa
      <3> QED
        BY <1>2, <3>1, <3>2
    <2>4. AberturaBoa(r)'
      BY <2>1, <2>2, <2>3, <2>5, <2>6 DEF AberturaBoa
    <2> QED
      BY <1>3, <1>4, <2>4 DEF AtrasadoBom
  <1> QED
    BY <1>3, <1>4 DEF AtrasadoBom

\* Whatever is asked of the authenticator, in whatever order it is written, for
\* any number of secrets, time steps and sessions.
THEOREM InvarianciaSessaoAdmin == SpecSessaoAdmin => []InvSessaoAdmin
  <1>1. InitSessaoAdmin => InvSessaoAdmin
    <2> SUFFICES ASSUME InitSessaoAdmin
                 PROVE  InvSessaoAdmin
      OBVIOUS
    <2>1. TiposSessaoAdmin
      BY ConstantesSessaoAdmin
      DEF InitSessaoAdmin, SemTotp, TiposSessaoAdmin, Totps, SemPasso
    <2> QED
      BY <2>1 DEF InitSessaoAdmin, InvSessaoAdmin, SessoesBoas, CodigosGastos, SegredoNovo,
                  CodigoAbreUmaSessao, AutenticadorZeradoNaoAbre, VistasAbertas
  <1>2. ASSUME InvSessaoAdmin, [NextSessaoAdmin]_varsSessaoAdmin
        PROVE  InvSessaoAdmin'
    <2> USE <1>2 DEF InvSessaoAdmin
    <2>1. CASE PedidoRapido
      <3>1. PICK q \in PedidasSessaoAdmin : GravarPedido(q)
        BY <2>1 DEF PedidoRapido
      <3>2. UNCHANGED <<passoAtual, atrasado>>
        BY <2>1 DEF PedidoRapido
      <3>3. SessoesBoas'
        BY <3>1, <3>2, PedidoDeAgora, PassoPedido
      <3>4. ASSUME atrasado # SemAtrasado
            PROVE  AtrasadoBom(atrasado)'
        <4>1. PICK r : r = atrasado
          OBVIOUS
        <4>2. AtrasadoBom(r)'
          BY <3>1, <3>2, <3>4, <4>1, PedidoContinuaBom
        <4> QED
          BY <3>2, <4>1, <4>2 DEF AtrasadoBom, AberturaBoa, OrdensAbertas
      <3> QED
        BY <3>2, <3>3, <3>4 DEF SemAtrasado
    <2>2. CASE PedidoAtrasa
      <3>1. AtrasadoBom(atrasado')
        BY <2>2, PedidoDeAgora DEF PedidoAtrasa
      <3>2. UNCHANGED <<totp, sessoesAdmin, passoAtual, gerados, resets, regravacoes>>
        BY <2>2 DEF PedidoAtrasa
      <3> QED
        BY <3>1, <3>2 DEF SessoesBoas, TiposSessaoAdmin, SessoesPossiveis, Totps,
                          OrdensAbertas, CodigosGastos, SegredoNovo, VistasAbertas,
                          CodigoAbreUmaSessao, AutenticadorZeradoNaoAbre, AtrasadoBom, AberturaBoa
    <2>3. CASE AtrasadoGrava
      BY <2>3, PassoPedido DEF AtrasadoGrava, SemAtrasado
    <2>4. CASE AtrasadoDesiste
      BY <2>4 DEF AtrasadoDesiste, SemAtrasado, SessoesBoas, TiposSessaoAdmin, SessoesPossiveis, Totps,
                  OrdensAbertas, CodigosGastos, SegredoNovo, VistasAbertas,
                  CodigoAbreUmaSessao, AutenticadorZeradoNaoAbre
    <2>5. CASE PassarTrintaSegundos
      <3>1. passoAtual' \in 0..MaxPasso
        BY <2>5, ConstantesSessaoAdmin DEF PassarTrintaSegundos, SessoesBoas, TiposSessaoAdmin
      <3> QED
        BY <2>5, <3>1
        DEF PassarTrintaSegundos, SemAtrasado, SessoesBoas, TiposSessaoAdmin, SessoesPossiveis, Totps,
            OrdensAbertas, CodigosGastos, SegredoNovo, VistasAbertas,
            CodigoAbreUmaSessao, AutenticadorZeradoNaoAbre, AtrasadoBom, AberturaBoa
    <2>6. CASE UNCHANGED varsSessaoAdmin
      BY <2>6
      DEF varsSessaoAdmin, SemAtrasado, SessoesBoas, TiposSessaoAdmin, SessoesPossiveis, Totps,
          OrdensAbertas, CodigosGastos, SegredoNovo, VistasAbertas,
          CodigoAbreUmaSessao, AutenticadorZeradoNaoAbre, AtrasadoBom, AberturaBoa
    <2> QED
      BY <2>1, <2>2, <2>3, <2>4, <2>5, <2>6 DEF NextSessaoAdmin
  <1> QED
    BY <1>1, <1>2, PTL DEF SpecSessaoAdmin

\* One code opens one session, but for requests that read the row before any
\* of them opened one, and while nothing sets the last step back: for any
\* number of requests in a row beside a slow one, secrets and steps.
THEOREM CodigoNaoSeRepete == SpecSessaoAdmin => []CodigoAbreUmaSessao
  <1>1. InvSessaoAdmin => CodigoAbreUmaSessao
    BY DEF InvSessaoAdmin, SessoesBoas
  <1> QED
    BY <1>1, InvarianciaSessaoAdmin, PTL

\* An authenticator that was cleared opens no session asked for later.
THEOREM ZeradoNaoAbre == SpecSessaoAdmin => []AutenticadorZeradoNaoAbre
  <1>1. InvSessaoAdmin => AutenticadorZeradoNaoAbre
    BY DEF InvSessaoAdmin, SessoesBoas
  <1> QED
    BY <1>1, InvarianciaSessaoAdmin, PTL
=============================================================================
