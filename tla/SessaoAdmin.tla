----------------------------- MODULE SessaoAdmin ----------------------------
(***************************************************************************)
(* The second step of one administrator: the secret of the authenticator,   *)
(* the last time step a code was used for, and the short sessions of the    *)
(* panel. As in Contas, a request reads the row of the administrator with   *)
(* no lock and writes later the columns it changed: it is quick, or it is   *)
(* the slow one, which any number of quick ones overtake. Wrong codes and   *)
(* passwords change nothing and are no actions.                             *)
(***************************************************************************)
EXTENDS Naturals

CONSTANTS
  MaxPasso,      \* bound: time steps of thirty seconds
  MaxSegredos,   \* bound: secrets ever generated
  MaxSessoes     \* bound: sessions ever opened, and secrets confirmed

ASSUME ConstantesSessaoAdmin ==
  MaxPasso \in Nat /\ MaxSegredos \in Nat /\ MaxSessoes \in Nat

VARIABLES
  totp,           \* totp_segredo_cifrado, totp_ativo, totp_ultimo_passo
  sessoesAdmin,   \* sessions opened, in order
  passoAtual,     \* the clock
  atrasado,       \* the slow request
  gerados,        \* secrets stored so far, numbered in that order
  resets,         \* history: how often the secret was cleared
  regravacoes     \* history: how often the last step was set to anything but
                  \* the step of a session opened over the row it had read

varsSessaoAdmin ==
  <<totp, sessoesAdmin, passoAtual, atrasado, gerados, resets, regravacoes>>

SemPasso == MaxPasso + 2
Passos == 0..MaxPasso + 1

SemTotp == [segredo |-> 0, ativo |-> FALSE, ultimo |-> SemPasso]
SemAtrasado == [tipo |-> "nenhum"]

InitSessaoAdmin ==
  /\ totp = SemTotp /\ atrasado = SemAtrasado
  /\ passoAtual = 0 /\ gerados = 0 /\ resets = 0 /\ regravacoes = 0
  /\ sessoesAdmin = {}

\* totp.verificar: the step before and the step after are good too.
Verificar(passo) == totp.segredo # 0 /\ passoAtual <= passo + 1 /\ passo <= passoAtual + 1

\* Row with the columns that differ from the row that was read.
Gravada(lida, nova) ==
  [x \in DOMAIN totp |-> IF nova[x] # lida[x] THEN nova[x] ELSE totp[x]]

-----------------------------------------------------------------------------
\* What may be asked now. Iniciar refuses an active second step, so that a
\* password alone does not replace the authenticator; Confirmar does not ask.
Iniciadas == {p \in {[tipo |-> "iniciar", lida |-> totp]} : ~totp.ativo}

Confirmadas == {[tipo |-> "confirmar", lida |-> totp, passo |-> p] : p \in {q \in Passos : Verificar(q)}}

NaoUsadoDefeituoso(passo) == totp.ultimo = SemPasso \/ passo >= totp.ultimo
NaoUsado(passo) == totp.ultimo = SemPasso \/ passo > totp.ultimo

\* With the sessions that were open by then.
Abertas == {[tipo |-> "abrir", lida |-> totp, passo |-> p, resets |-> resets,
             vistas |-> {s.ordem : s \in sessoesAdmin}, lidas |-> regravacoes] :
  p \in {q \in Passos : totp.ativo /\ Verificar(q) /\ NaoUsado(q)}}

\* The general administrator, or the script of the same name.
Zeradas == {p \in {[tipo |-> "resetar", lida |-> totp]} : totp # SemTotp}

PedidasSessaoAdmin == Iniciadas \cup Confirmadas \cup Abertas \cup Zeradas

-----------------------------------------------------------------------------
Iniciar2fa(r) ==
  /\ gerados < MaxSegredos /\ gerados' = gerados + 1
  /\ totp' = Gravada(r.lida, [segredo |-> gerados + 1, ativo |-> FALSE, ultimo |-> SemPasso])
  /\ UNCHANGED <<sessoesAdmin, resets, regravacoes>>

Confirmar2fa(r) ==
  /\ totp' = Gravada(r.lida, [r.lida EXCEPT !.ativo = TRUE, !.ultimo = r.passo])
  /\ regravacoes < MaxSessoes /\ regravacoes' = regravacoes + 1
  /\ UNCHANGED <<sessoesAdmin, gerados, resets>>

\* The token says nothing of the secret: it is opened whatever happened to it,
\* and to the last step, which another session with the same code may have set.
AbrirSessaoAdmin(r) ==
  LET quebra == IF totp = r.lida \/ totp.ultimo = r.passo THEN 0 ELSE 1 IN
  /\ \E ordem \in 1..MaxSessoes :
       /\ \A s \in sessoesAdmin : s.ordem # ordem
       /\ \A o \in 1..ordem - 1 : \E s \in sessoesAdmin : s.ordem = o
       /\ sessoesAdmin' = sessoesAdmin \cup
            {[ordem |-> ordem, segredo |-> r.lida.segredo, passo |-> r.passo, resets |-> r.resets,
              vistas |-> r.vistas, lidas |-> r.lidas, regravacoes |-> regravacoes + quebra]}
  /\ totp' = Gravada(r.lida, [r.lida EXCEPT !.ultimo = r.passo])
  /\ regravacoes' = regravacoes + quebra
  /\ UNCHANGED <<gerados, resets>>

ZeradaDefeituosa(lida) == [lida EXCEPT !.ativo = FALSE, !.ultimo = SemPasso]
Zerada(lida) == SemTotp

\* Overtaken, it may clear the last step of a secret stored since.
Resetar2fa(r) ==
  /\ totp' = Gravada(r.lida, Zerada(r.lida))
  /\ resets' = resets + (IF totp = r.lida THEN 1 ELSE 0)
  /\ regravacoes' = regravacoes + (IF totp = r.lida THEN 0 ELSE 1)
  /\ UNCHANGED <<sessoesAdmin, gerados>>

GravarPedido(r) ==
  \/ r.tipo = "iniciar" /\ Iniciar2fa(r)
  \/ r.tipo = "confirmar" /\ Confirmar2fa(r)
  \/ r.tipo = "abrir" /\ AbrirSessaoAdmin(r)
  \/ r.tipo = "resetar" /\ Resetar2fa(r)

PedidoRapido ==
  /\ \E r \in PedidasSessaoAdmin : GravarPedido(r)
  /\ UNCHANGED <<passoAtual, atrasado>>

PedidoAtrasa ==
  /\ atrasado = SemAtrasado /\ atrasado' \in PedidasSessaoAdmin
  /\ UNCHANGED <<totp, sessoesAdmin, passoAtual, gerados, resets, regravacoes>>

AtrasadoGrava ==
  /\ atrasado # SemAtrasado /\ atrasado' = SemAtrasado
  /\ GravarPedido(atrasado)
  /\ UNCHANGED passoAtual

AtrasadoDesiste ==
  /\ atrasado # SemAtrasado /\ atrasado' = SemAtrasado
  /\ UNCHANGED <<totp, sessoesAdmin, passoAtual, gerados, resets, regravacoes>>

PassarTrintaSegundos ==
  /\ passoAtual < MaxPasso /\ passoAtual' = passoAtual + 1
  /\ UNCHANGED <<totp, sessoesAdmin, atrasado, gerados, resets, regravacoes>>

NextSessaoAdmin ==
  PedidoRapido \/ PedidoAtrasa \/ AtrasadoGrava \/ AtrasadoDesiste \/ PassarTrintaSegundos

SpecSessaoAdmin == InitSessaoAdmin /\ [][NextSessaoAdmin]_varsSessaoAdmin

-----------------------------------------------------------------------------
\* A code that opened a session opens none that is asked for later, whichever
\* requests went by at once and in whatever order they were written (two that
\* read the row before either opened both open one; a third does not), unless
\* the last step was set back in between: by a confirmation, or by a reset or
\* a session that another request overtook (abrir_sessao_admin).
CodigoAbreUmaSessao ==
  \A s, t \in sessoesAdmin :
    s.ordem \in t.vistas /\ s.segredo = t.segredo /\ s.passo = t.passo => s.regravacoes < t.lidas

\* "o mesmo codigo nao abre duas sessoes", not even when it is presented twice
\* at once and nothing but sessions is asked for meanwhile: what API.md says of
\* POST /auth/admin/sessao.
CodigoNuncaReaproveitado ==
  \A s, t \in sessoesAdmin :
    s.segredo = t.segredo /\ s.passo = t.passo /\ s.lidas = t.lidas => s = t

\* After the second step is cleared by a request that nothing overtook, the
\* authenticator that was cleared opens nothing any more: a session asked for
\* later used a secret stored later.
AutenticadorZeradoNaoAbre ==
  \A s, t \in sessoesAdmin : s.resets < t.resets => s.segredo < t.segredo
=============================================================================
