------------------------------ MODULE MCAcesso ------------------------------
(***************************************************************************)
(* Instance of the four modules about who enters the portal and with which  *)
(* certificates it works.  They share no state, so a behaviour is one of    *)
(* them moving: parte says which, and the others stay as they began.  The   *)
(* accounts have three parts, each with what one of their properties needs  *)
(* and TLC can exhaust.                                                     *)
(***************************************************************************)
EXTENDS Contas, SessaoAdmin, Limitador, Certificados, TLC

CONSTANTS ana, rui, eva, r1, r2

VARIABLE parte

\* Two certificates of one holder.
MCTitular == [v \in Pfx |-> "t1"]

MCPedidos == {r1, r2}
MCPessoas == {ana, rui, eva}

\* All but the founder may be exchanged for one another.
Simetria == Permutations({rui, eva}) \cup Permutations(MCPedidos)

Partes == {"convites", "senhas", "administradores", "sessaoAdmin", "limitador",
           "certificados"}

MCInit == /\ parte \in Partes
          /\ InitContas /\ InitSessaoAdmin /\ InitLimitador /\ InitCertificados
          /\ parte # "certificados" => linha = [c \in Certs |-> Nenhum]

\* Three accounts, quick requests and no passwords; nobody is moved.
Convites3 ==
  /\ \A p \in Pessoas : conta'[p] # SemConta => ~conta'[p].fora
  /\ parte = "convites" /\ usadas'.senhas = 0
  /\ <<lento, sessao, codigoSenha>>' = <<lento, sessao, codigoSenha>>

\* Two accounts at a time, the founder's and one made by invitation, whom no
\* administrator demotes, switches off or moves.
Senhas2 ==
  /\ parte = "senhas" /\ grupoAtivo' = grupoAtivo
  /\ lento'.tipo # "atualizar" /\ (lento'.tipo = "excluir" => lento'.autor = Geral)
  /\ conta'[Fundadora] # SemConta
  /\ Cardinality({p \in Pessoas : conta'[p] # SemConta}) <= 2
  /\ \A p \in Pessoas : Existe(p) /\ conta'[p] # SemConta =>
       /\ conta'[p].admin = conta[p].admin /\ conta'[p].fora = conta[p].fora
       /\ conta[p].ativo => conta'[p].ativo
  /\ \A p \in Pessoas : ~Existe(p) /\ conta'[p] # SemConta => ~conta'[p].verificado

\* Three accounts made with the key of the API, where the slow request is one
\* of an administrator and changes one column, or deletes.
Administradores3 ==
  /\ parte = "administradores" /\ usadas'.senhas = 0 /\ convite' = convite
  /\ lento'.tipo \in {"nenhum", "atualizar", "excluir"}
  /\ lento'.tipo = "atualizar" => Cardinality(DOMAIN lento'.grava) = 1
  /\ <<sessao, codigoSenha, grupoAtivo>>' = <<sessao, codigoSenha, grupoAtivo>>

PassoContas == /\ NextContas
               /\ Convites3 \/ Senhas2 \/ Administradores3
               /\ UNCHANGED <<varsSessaoAdmin, varsLimitador, varsCertificados>>
PassoSessaoAdmin == /\ parte = "sessaoAdmin" /\ NextSessaoAdmin
                    /\ UNCHANGED <<varsContas, varsLimitador, varsCertificados>>
PassoLimitador == /\ parte = "limitador" /\ NextLimitador
                  /\ UNCHANGED <<varsContas, varsSessaoAdmin, varsCertificados>>
PassoCertificados == /\ parte = "certificados" /\ NextCertificados
                     /\ UNCHANGED <<varsContas, varsSessaoAdmin, varsLimitador>>

MCNext == /\ PassoContas \/ PassoSessaoAdmin \/ PassoLimitador \/ PassoCertificados
          /\ UNCHANGED parte

MCSpec == MCInit /\ [][MCNext]_<<varsContas, varsSessaoAdmin, varsLimitador, varsCertificados, parte>>
=============================================================================
