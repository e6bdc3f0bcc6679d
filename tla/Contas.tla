------------------------------- MODULE Contas -------------------------------
(***************************************************************************)
(* Accounts of one group: invitations, registration confirmed by a code,   *)
(* login, change and reset of a password, and what an administrator does    *)
(* to other accounts: one of the same group, or the general administrator   *)
(* (SUPER_ADMIN_EMAILS), who belongs to another group, acts on the accounts *)
(* of every group and moves them between groups; the other groups are one.  *)
(*                                                                         *)
(* A request reads the rows it decides from, with no lock, and commits      *)
(* later, writing the columns that differ from what it read. A request is   *)
(* quick (one step) or the slow one, whose commit comes after any number    *)
(* of quick ones: two requests overlap in every way, three do not. One that *)
(* is refused, or whose e-mail cannot be sent (everything is rolled back),  *)
(* changes nothing and is no action. A code or an invitation that expired   *)
(* is one that nobody uses any more; a code that was used, and one with no  *)
(* attempts left, are refused alike: both have 0 attempts left.             *)
(***************************************************************************)
EXTENDS Naturals, FiniteSets

CONSTANTS
  Pessoas,        \* e-mail addresses
  Fundadora,      \* the first administrator, promoted by a script
  Convites,
  MaxUsos,        \* max_usos of every invitation
  MaxTentativas,  \* MAX_TENTATIVAS_CODIGO
  MaxContas,      \* bound: rows ever inserted in usuarios
  MaxSenhas       \* bound: passwords ever changed

Geral == "administrador geral"

ASSUME ConstantesContas ==
  /\ IsFiniteSet(Pessoas) /\ Fundadora \in Pessoas /\ Geral \notin Pessoas
  /\ IsFiniteSet(Convites)
  /\ MaxUsos \in Nat \ {0} /\ MaxTentativas \in Nat \ {0}
  /\ MaxContas \in Nat \ {0} /\ MaxSenhas \in Nat \ {0}

VARIABLES
  conta,         \* rows of usuarios, by e-mail
  convite,       \* rows of convites_cadastro
  codigoEmail,   \* the last verification code sent to each account
  codigoSenha,   \* attempts left of the last reset code
  sessao,        \* one of the tokens issued: id, token_version, and the password then
  grupoAtivo,    \* grupos.ativo
  usadas,        \* how many ids and how many passwords were given out
  lento,         \* the slow request, with the rows it read
  confirmadas,   \* history: the accounts confirmed with each invitation
  perdas         \* history: what slow requests wrote over, and whether the group
                 \* was left with no administrator in a way nobody refuses

varsContas == <<conta, convite, codigoEmail, codigoSenha, sessao, grupoAtivo, usadas, lento,
                confirmadas, perdas>>

SemConta == [id |-> 0]
SemCodigo == [restam |-> 0]
SemConvite == [estado |-> "inexistente"]
SemSessao == [id |-> 0]
SemPedido == [tipo |-> "nenhum"]

Conta == [id : 1..MaxContas, ativo : BOOLEAN, verificado : BOOLEAN, admin : BOOLEAN, fora : BOOLEAN,
          versao : 0..MaxSenhas, senha : 0..MaxSenhas]
Codigo == [restam : 0..MaxTentativas, convite : Convites]
Convite == [estado : {"ativo", "revogado"}, usos : 0..MaxUsos, autor : 0..MaxContas]
Sessao == [id : 1..MaxContas, versao : 0..MaxSenhas, senha : 0..MaxSenhas]

InitContas ==
  /\ conta = [p \in Pessoas |->
       IF p = Fundadora
         THEN [id |-> 1, ativo |-> TRUE, verificado |-> TRUE, admin |-> TRUE, fora |-> FALSE,
               versao |-> 0, senha |-> 0]
         ELSE SemConta]
  /\ convite = [k \in Convites |-> SemConvite]
  /\ codigoEmail = [p \in Pessoas |-> SemCodigo]
  /\ codigoSenha = [p \in Pessoas |-> 0]
  /\ sessao = SemSessao
  /\ grupoAtivo = TRUE
  /\ usadas = [ids |-> 1, senhas |-> 0]
  /\ lento = SemPedido
  /\ confirmadas = [k \in Convites |-> {}]
  /\ perdas = [versoes |-> {}, usos |-> {}, admin |-> FALSE]

-----------------------------------------------------------------------------
Existe(p) == conta[p] # SemConta
Entra(p) == Existe(p) /\ conta[p].ativo /\ conta[p].verificado

\* An account that was moved is of another group, which is active.
GrupoDela(p) == conta[p].fora \/ grupoAtivo

\* get_current_usuario: the account of the token, if it is still accepted.
Aceita(t, p) ==
  /\ Entra(p) /\ conta[p].id = t.id
  /\ conta[p].versao = t.versao
  /\ GrupoDela(p)

\* Who may log in may have a session.
ComSessao(p) == Entra(p) /\ GrupoDela(p)
AdminComSessao(p) == ComSessao(p) /\ conta[p].admin

\* _usuario_no_escopo: whom a administers.
AlcanceDefeituoso(a) == {p \in Pessoas : Existe(p)}
Alcance(a) == {p \in Pessoas : Existe(p) /\ (a = Geral \/ conta[p].fora = conta[a].fora)}

\* An administrator of this group, who enters whenever the group is active.
Administra(p) == Entra(p) /\ conta[p].admin /\ ~conta[p].fora
HaAdministrador == \E p \in Pessoas : Administra(p)

\* create_access_token, with the password it was opened under.
AbrirSessao(c) ==
  \/ UNCHANGED sessao
  \/ sessao = SemSessao /\ sessao' = [id |-> c.id, versao |-> c.versao, senha |-> c.senha]

NovaSenha == usadas.senhas + 1

GastarSenha == usadas.senhas < MaxSenhas /\ usadas' = [usadas EXCEPT !.senhas = @ + 1]

\* A request found row id of p and writes the columns it changed; a row that
\* is gone, or another one of the same e-mail, is not found.
Achada(r) == Existe(r.alvo) /\ conta[r.alvo].id = r.id

ComColunas(linha, colunas) ==
  [x \in DOMAIN linha |-> IF x \in DOMAIN colunas THEN colunas[x] ELSE linha[x]]

Gravar(r, colunas) ==
  /\ Achada(r)
  /\ conta' = [conta EXCEPT ![r.alvo] = ComColunas(@, colunas)]

-----------------------------------------------------------------------------
\* Invitations.
CriarConvite(a, k) ==
  /\ ComSessao(a) /\ ~conta[a].fora /\ convite[k] = SemConvite
  /\ convite' = [convite EXCEPT ![k] = [estado |-> "ativo", usos |-> 0, autor |-> conta[a].id]]
  /\ UNCHANGED <<conta, codigoEmail, codigoSenha, sessao, grupoAtivo, usadas, confirmadas, perdas>>

RevogarConvite(a, k) ==
  /\ ComSessao(a) /\ ~conta[a].fora /\ convite[k] # SemConvite
  /\ conta[a].admin \/ convite[k].autor = conta[a].id
  /\ convite' = [convite EXCEPT ![k].estado = "revogado"]
  /\ UNCHANGED <<conta, codigoEmail, codigoSenha, sessao, grupoAtivo, usadas, confirmadas, perdas>>

ConviteValido(k) == convite[k] # SemConvite /\ convite[k].estado = "ativo" /\ convite[k].usos < MaxUsos

\* The former code of the account counts as used, whatever became of it.
EnviarCodigoDefeituoso(p, k) ==
  codigoEmail' = IF codigoEmail[p] = SemCodigo THEN codigoEmail
                 ELSE [codigoEmail EXCEPT ![p] = [restam |-> MaxTentativas, convite |-> k]]
EnviarCodigo(p, k) ==
  codigoEmail' = [codigoEmail EXCEPT ![p] = [restam |-> MaxTentativas, convite |-> k]]

CriarConta(p, k) ==
  /\ ConviteValido(k) /\ ~Existe(p) /\ usadas.ids < MaxContas
  /\ conta' = [conta EXCEPT ![p] =
       [id |-> usadas.ids + 1, ativo |-> FALSE, verificado |-> FALSE, admin |-> FALSE, fora |-> FALSE,
        versao |-> 0, senha |-> 0]]
  /\ usadas' = [usadas EXCEPT !.ids = @ + 1]
  /\ EnviarCodigo(p, k)
  /\ UNCHANGED <<convite, codigoSenha, sessao, grupoAtivo, confirmadas, perdas>>

ReenviarCodigo(p) ==
  /\ Existe(p) /\ ~conta[p].verificado
  /\ EnviarCodigo(p, codigoEmail[p].convite)
  /\ UNCHANGED <<conta, convite, codigoSenha, sessao, grupoAtivo, usadas, confirmadas, perdas>>

ErrarCodigoDeEmail(p) ==
  /\ Existe(p) /\ ~conta[p].verificado /\ codigoEmail[p].restam > 0
  /\ codigoEmail' = [codigoEmail EXCEPT ![p].restam = @ - 1]
  /\ UNCHANGED <<conta, convite, codigoSenha, sessao, grupoAtivo, usadas, confirmadas, perdas>>

SolicitarRedefinicao(p) ==
  /\ Entra(p)
  /\ codigoSenha' = [codigoSenha EXCEPT ![p] = MaxTentativas]
  /\ UNCHANGED <<conta, convite, codigoEmail, sessao, grupoAtivo, usadas, confirmadas, perdas>>

ErrarCodigoDeSenha(p) ==
  /\ Existe(p) /\ codigoSenha[p] > 0
  /\ codigoSenha' = [codigoSenha EXCEPT ![p] = @ - 1]
  /\ UNCHANGED <<conta, convite, codigoEmail, sessao, grupoAtivo, usadas, confirmadas, perdas>>

\* POST /auth/usuarios, with the key of the API.
CriarUsuario(p) ==
  /\ ~Existe(p) /\ usadas.ids < MaxContas
  /\ conta' = [conta EXCEPT ![p] =
       [id |-> usadas.ids + 1, ativo |-> TRUE, verificado |-> TRUE, admin |-> FALSE, fora |-> FALSE,
        versao |-> 0, senha |-> 0]]
  /\ usadas' = [usadas EXCEPT !.ids = @ + 1]
  /\ UNCHANGED <<convite, codigoEmail, codigoSenha, sessao, grupoAtivo, confirmadas, perdas>>

\* PATCH /admin/grupos, of the general administrator.
EditarGrupo ==
  /\ grupoAtivo' = ~grupoAtivo
  /\ UNCHANGED <<conta, convite, codigoEmail, codigoSenha, sessao, usadas, confirmadas, perdas>>

-----------------------------------------------------------------------------
(* Requests that decide from rows they read: what each may be asked now,    *)
(* with the row it found and the columns it is going to write, and its       *)
(* commit.                                                                  *)
\* autenticar: nothing is written, but the token is of the row that was read.
Logins == {[tipo |-> "login", alvo |-> p, id |-> conta[p].id, linha |-> conta[p]] :
    p \in {q \in Pessoas : Entra(q)}}

Login(r) ==
  /\ AbrirSessao(r.linha)
  /\ UNCHANGED <<conta, convite, codigoEmail, codigoSenha, grupoAtivo, usadas, confirmadas, perdas>>

\* A registration of the group that was never confirmed is done again with the
\* new data.
Refazeres == {[tipo |-> "refazer", alvo |-> p, id |-> conta[p].id, convite |-> k] :
    p \in {q \in Pessoas : Existe(q) /\ ~conta[q].verificado /\ ~conta[q].fora}, k \in {j \in Convites : ConviteValido(j)}}

RefazerConta(r) ==
  /\ GastarSenha
  /\ Gravar(r, [senha |-> NovaSenha])
  /\ EnviarCodigo(r.alvo, r.convite)
  /\ perdas' = [perdas EXCEPT !.versoes = @ \cup (IF conta[r.alvo].verificado THEN {r.id} ELSE {})]
  /\ UNCHANGED <<convite, codigoSenha, sessao, grupoAtivo, confirmadas>>

\* The invitation is counted here, and nothing but its uses is looked at
\* again: it may have been revoked or have expired since the registration.
TemUsoDefeituoso(k) == TRUE
TemUso(k) == convite[k].usos < MaxUsos

Verificacoes == {[tipo |-> "verificar", alvo |-> p, id |-> conta[p].id, codigo |-> codigoEmail[p],
      usos |-> convite[codigoEmail[p].convite].usos,
      grava |-> [x \in {"verificado"} \cup (IF conta[p].ativo THEN {} ELSE {"ativo"}) |-> TRUE]] :
    p \in {q \in Pessoas : /\ Existe(q) /\ ~conta[q].verificado /\ codigoEmail[q].restam > 0
                           /\ TemUso(codigoEmail[q].convite)}}

VerificarEmail(r) ==
  LET k == r.codigo.convite IN
  /\ Gravar(r, r.grava)
  /\ confirmadas' = [confirmadas EXCEPT ![k] = @ \cup {r.id}]
  /\ convite' = [convite EXCEPT ![k].usos = r.usos + 1]
  /\ codigoEmail' = [codigoEmail EXCEPT ![r.alvo] = IF @ = r.codigo THEN [@ EXCEPT !.restam = 0] ELSE @]
  /\ AbrirSessao(conta'[r.alvo])
  /\ perdas' = [perdas EXCEPT !.usos = @ \cup (IF convite[k].usos # r.usos THEN {k} ELSE {}),
                            !.admin = @ /\ ~HaAdministrador']
  /\ UNCHANGED <<codigoSenha, grupoAtivo, usadas>>

\* trocar_senha: a new password and every open session refused from now on.
VersaoTrocadaDefeituosa(v) == v
VersaoTrocada(v) == v + 1

\* With the old password or by an administrator, the general one at the least,
\* or by the code of the e-mail.
Trocas == {[tipo |-> "senha", alvo |-> p, id |-> conta[p].id, versao |-> conta[p].versao, gasta |-> g] :
    p \in {q \in Pessoas : Existe(q)}, g \in BOOLEAN}

PodeTrocar(r) == r.gasta => codigoSenha[r.alvo] > 0

TrocarSenha(r) ==
  /\ GastarSenha
  /\ Gravar(r, [senha |-> NovaSenha, versao |-> VersaoTrocada(r.versao)])
  /\ codigoSenha' = [codigoSenha EXCEPT ![r.alvo] = IF r.gasta THEN 0 ELSE @]
  /\ perdas' = [perdas EXCEPT !.versoes = @ \cup
                  (IF conta[r.alvo].versao # r.versao THEN {r.id} ELSE {})]
  /\ UNCHANGED <<convite, codigoEmail, sessao, grupoAtivo, confirmadas>>

\* The author's row and the other are read when the request is let in. When it
\* commits, the author may be no administrator any more, and either of them
\* may have been moved to another group.
Atropelado(r) ==
  \/ ~(Entra(r.autor) /\ conta[r.autor].admin)
  \/ \E q \in DOMAIN r.grupos : conta[q].fora # r.grupos[q]

\* The group is left with no administrator by the general one, or so.
PerdasDoAdmin(r) ==
  perdas' = [perdas EXCEPT !.admin = ~HaAdministrador' /\ (@ \/ r.autor = Geral \/ Atropelado(r))]

\* PATCH /admin/usuarios: nobody switches off or demotes their own account.
PodeRebaixar(a, p) == a # p

GruposLidos(a, p) == [q \in {a, p} \ {Geral} |-> conta[q].fora]

Autores == {q \in Pessoas : AdminComSessao(q)} \cup {Geral}

\* Only the general administrator changes the group, to one that is active.
Mudancas(a) ==
  LET colunas == SUBSET {"ativo", "admin", "fora"} \ {{}}
  IN IF a = Geral THEN colunas ELSE {c \in colunas : "fora" \notin c}

Atualizacoes ==
  {r \in UNION {{[tipo |-> "atualizar", alvo |-> p, id |-> conta[p].id, autor |-> a,
                  grupos |-> GruposLidos(a, p), grava |-> [x \in colunas |-> ~conta[p][x]]] :
              p \in Alcance(a), colunas \in Mudancas(a)} : a \in Autores} :
     /\ PodeRebaixar(r.autor, r.alvo)
     /\ "fora" \in DOMAIN r.grava /\ ~r.grava.fora => grupoAtivo}

AtualizarUsuario(r) ==
  /\ Gravar(r, r.grava)
  /\ PerdasDoAdmin(r)
  /\ UNCHANGED <<convite, codigoEmail, codigoSenha, sessao, grupoAtivo, usadas, confirmadas>>

\* The codes of the account go with it; its invitations stay, with no author.
Exclusoes ==
  {r \in UNION {{[tipo |-> "excluir", alvo |-> p, id |-> conta[p].id, autor |-> a,
                  grupos |-> GruposLidos(a, p)] :
              p \in Alcance(a)} : a \in Autores} : r.autor # r.alvo}

ExcluirUsuario(r) ==
  /\ Achada(r)
  /\ conta' = [conta EXCEPT ![r.alvo] = SemConta]
  /\ codigoEmail' = [codigoEmail EXCEPT ![r.alvo] = SemCodigo]
  /\ codigoSenha' = [codigoSenha EXCEPT ![r.alvo] = 0]
  /\ convite' = [k \in Convites |->
       IF convite[k] # SemConvite /\ convite[k].autor = r.id
         THEN [convite[k] EXCEPT !.autor = 0] ELSE convite[k]]
  /\ PerdasDoAdmin(r)
  /\ UNCHANGED <<sessao, grupoAtivo, usadas, confirmadas>>

Pedidas == Logins \cup Refazeres \cup Verificacoes \cup {r \in Trocas : PodeTrocar(r)}
             \cup Atualizacoes \cup Exclusoes

Commit(r) ==
  \/ r.tipo = "login" /\ Login(r)
  \/ r.tipo = "refazer" /\ RefazerConta(r)
  \/ r.tipo = "verificar" /\ VerificarEmail(r)
  \/ r.tipo = "senha" /\ TrocarSenha(r)
  \/ r.tipo = "atualizar" /\ AtualizarUsuario(r)
  \/ r.tipo = "excluir" /\ ExcluirUsuario(r)

-----------------------------------------------------------------------------
Rapido ==
  /\ \/ \E a \in Pessoas, k \in Convites : CriarConvite(a, k) \/ RevogarConvite(a, k) \/ CriarConta(a, k)
     \/ \E p \in Pessoas :
          \/ ReenviarCodigo(p) \/ ErrarCodigoDeEmail(p) \/ CriarUsuario(p)
          \/ SolicitarRedefinicao(p) \/ ErrarCodigoDeSenha(p)
     \/ \E r \in Pedidas : Commit(r)
     \/ EditarGrupo
  /\ UNCHANGED lento

ComecarLento ==
  /\ lento = SemPedido /\ lento' \in Pedidas
  /\ UNCHANGED <<conta, convite, codigoEmail, codigoSenha, sessao, grupoAtivo, usadas, confirmadas, perdas>>

AcabarLento == lento # SemPedido /\ Commit(lento) /\ lento' = SemPedido

\* A row that is gone, or any other error.
DesistirLento ==
  /\ lento # SemPedido /\ lento' = SemPedido
  /\ UNCHANGED <<conta, convite, codigoEmail, codigoSenha, sessao, grupoAtivo, usadas, confirmadas, perdas>>

NextContas == Rapido \/ ComecarLento \/ AcabarLento \/ DesistirLento

SpecContas == InitContas /\ [][NextContas]_varsContas

-----------------------------------------------------------------------------
\* Types: the code of an unconfirmed account is always there, so that
\* reenviar_codigo finds the invitation of the registration.
TiposContas ==
  /\ conta \in [Pessoas -> Conta \cup {SemConta}]
  /\ convite \in [Convites -> Convite \cup {SemConvite}]
  /\ codigoEmail \in [Pessoas -> Codigo \cup {SemCodigo}]
  /\ codigoSenha \in [Pessoas -> 0..MaxTentativas]
  /\ sessao \in Sessao \cup {SemSessao}
  /\ grupoAtivo \in BOOLEAN
  /\ usadas \in [ids : 1..MaxContas, senhas : 0..MaxSenhas]
  /\ \A p \in Pessoas : Existe(p) /\ ~conta[p].verificado => codigoEmail[p] # SemCodigo

\* A session that get_current_usuario accepts was opened under the password
\* the account has now: changing it, with the old one, by e-mail or by the
\* administrator, ends what was open before, also when a login, a deletion or
\* another change comes in between; not when two changes read the same
\* token_version, or a registration is done again while it is confirmed.
SessaoComSenhaAtual ==
  \A p \in Pessoas : Aceita(sessao, p) /\ sessao.id \notin perdas.versoes => sessao.senha = conta[p].senha

\* However many registrations an invitation let in, no more accounts than its
\* uses are ever confirmed with it (verificar_email looks at the uses again),
\* unless two confirmations read the same count.
ConviteNaoPassaDosUsos ==
  \A k \in Convites \ perdas.usos : Cardinality(confirmadas[k]) <= MaxUsos

\* Whatever its administrators do to one another, registrations and changes
\* of password in between, the group keeps one of its own who enters whenever
\* it is active (the refusals of PATCH and DELETE /admin/usuarios on one's own
\* row). Only the general administrator, or one who was still writing when they
\* stopped being an administrator of the group, can leave it with none.
SempreHaAdministrador == perdas.admin \/ HaAdministrador
=============================================================================
