---------------------------- MODULE Certificados ----------------------------
(***************************************************************************)
(* The certificates of one company: registration, renewal, the password     *)
(* kept encrypted in secrets, and the rotation of SECRETS_KEY. The PFX goes *)
(* to the storage before the transaction that writes its row and its        *)
(* password commits, and a renewal with the same file name overwrites the   *)
(* object in use: an upload is therefore several steps here, and may end    *)
(* between them.                                                            *)
(***************************************************************************)
EXTENDS Naturals, FiniteSets

CONSTANTS
  Pfx,        \* the PFX files a user may send; each has a password of its own
  Titular,    \* Titular[v]: subject_cn of the certificate in v
  Nomes,      \* file names
  Pedidos,    \* HTTP requests at work at the same time
  MaxCerts,   \* bound: ids of certificados ever given out
  MaxEnvios   \* bound: requests that begin

ASSUME ConstantesCertificados ==
  /\ IsFiniteSet(Pfx) /\ Pfx # {} /\ DOMAIN Titular = Pfx
  /\ IsFiniteSet(Nomes) /\ Nomes # {} /\ "pending" \notin Nomes
  /\ IsFiniteSet(Pedidos) /\ MaxCerts \in Nat \ {0} /\ MaxEnvios \in Nat

VARIABLES
  linha,       \* rows of certificados: ativo, the name and PFX of the file, temSenha
  segredo,     \* rows of secrets: the password (named by its PFX) and its key
  objeto,      \* the storage: PFX under certificados/<cnpj>/<id>/<name>
  pedido,      \* uploads and tested passwords that have not committed
  envios,      \* how many of them began
  rotacao,     \* the rotation of SECRETS_KEY and the secrets its script read
  desencontro  \* history: certificates touched by saves that overlapped or were cut

varsCertificados == <<linha, segredo, objeto, pedido, envios, rotacao, desencontro>>

Certs == 1..MaxCerts
Nenhum == [pfx |-> "nenhum"]   \* no row, no secret, no object, no request

\* thumbprint, subject_cn: which PFX the row is of, unless it was never opened.
SemMetadados == "desconhecido"

\* Nothing yet, or one certificate registered with its password.
InitCertificados ==
  /\ \E temUm \in BOOLEAN :
       LET v == CHOOSE v \in Pfx : TRUE
           n == CHOOSE n \in Nomes : TRUE
       IN /\ linha = [c \in Certs |-> IF temUm /\ c = 1
               THEN [ativo |-> TRUE, nome |-> n, pfx |-> v, temSenha |-> TRUE] ELSE Nenhum]
          /\ segredo = [c \in Certs |-> IF temUm /\ c = 1
               THEN [pfx |-> v, chave |-> "antiga"] ELSE Nenhum]
          /\ objeto = [c \in Certs |-> [m \in Nomes |->
               IF temUm /\ c = 1 /\ m = n THEN [pfx |-> v] ELSE Nenhum]]
  /\ pedido = [r \in Pedidos |-> Nenhum]
  /\ envios = 0
  /\ rotacao = [fase |-> "antiga", copia |-> [c \in Certs |-> Nenhum]]
  /\ desencontro = {}

-----------------------------------------------------------------------------
Ativa(c) == linha[c] # Nenhum /\ linha[c].ativo

EmCurso == {r \in Pedidos : pedido[r] # Nenhum}

\* secrets_key_list: the first encrypts, all of them decrypt.
ChaveQueCifra == IF rotacao.fase = "antiga" THEN "antiga" ELSE "nova"
ChavesQueDecifram ==
  CASE rotacao.fase = "antiga" -> {"antiga"}
    [] rotacao.fase = "nova" -> {"nova"}
    [] OTHER -> {"antiga", "nova"}

Legivel(c) == segredo[c] # Nenhum /\ segredo[c].chave \in ChavesQueDecifram

\* The ids are given out in order, and never again when a request rolls back.
ProximoId(c) ==
  /\ linha[c] = Nenhum
  /\ \A n \in Nomes : objeto[c][n] = Nenhum
  /\ \A d \in 1..(c - 1) : linha[d] # Nenhum \/ \E n \in Nomes : objeto[d][n] # Nenhum

Contar == envios < MaxEnvios /\ envios' = envios + 1

\* A request that begins finds out whether another one is at work.
Comecar(r, p) ==
  /\ pedido[r] = Nenhum
  /\ Contar
  /\ pedido' = [s \in Pedidos |->
       IF s = r THEN [p EXCEPT !.sozinho = (EmCurso = {})]
       ELSE IF s \in EmCurso THEN [pedido[s] EXCEPT !.sozinho = FALSE] ELSE pedido[s]]

Guardar(c, n, v) == objeto' = [objeto EXCEPT ![c][n] = [pfx |-> v]]

\* What SQLAlchemy writes: the columns that differ from the row as it was read.
GravarLinha(c, lida, nova) ==
  linha' = [linha EXCEPT ![c] =
    [k \in DOMAIN nova |-> IF lida # Nenhum /\ lida[k] = nova[k] THEN linha[c][k] ELSE nova[k]]]

SalvarSegredoDefeituoso(c, v) == segredo' =
  [segredo EXCEPT ![c] = IF segredo[c] = Nenhum THEN [pfx |-> v, chave |-> ChaveQueCifra] ELSE segredo[c]]
SalvarSegredo(c, v) == segredo' = [segredo EXCEPT ![c] = [pfx |-> v, chave |-> ChaveQueCifra]]

-----------------------------------------------------------------------------
\* criar_certificado_com_upload: a row that waits for its object, with no
\* password; the object follows, then its key. Without senha_teste, or with a
\* wrong one, the row has no metadata.
CriarPendente(r, c, v, n) ==
  /\ ProximoId(c)
  /\ \E m \in {v, SemMetadados} : linha' =
       [linha EXCEPT ![c] = [ativo |-> TRUE, nome |-> "pending", pfx |-> m, temSenha |-> FALSE]]
  /\ Comecar(r, [tipo |-> "novo", cert |-> c, pfx |-> v, nome |-> n, lida |-> linha'[c],
                 ativo |-> TRUE, sozinho |-> TRUE])
  /\ UNCHANGED <<segredo, objeto, rotacao, desencontro>>

GuardarPendente(r) ==
  LET p == pedido[r] IN
  /\ r \in EmCurso /\ p.tipo = "novo"
  /\ Guardar(p.cert, p.nome, p.pfx)
  /\ pedido' = [pedido EXCEPT ![r].tipo = "guardado"]
  /\ UNCHANGED <<envios, linha, segredo, rotacao, desencontro>>

ConcluirPendente(r) ==
  LET p == pedido[r] IN
  /\ r \in EmCurso /\ p.tipo = "guardado"
  /\ GravarLinha(p.cert, p.lida, [p.lida EXCEPT !.nome = p.nome])
  /\ pedido' = [pedido EXCEPT ![r] = Nenhum]
  /\ UNCHANGED <<envios, segredo, objeto, rotacao, desencontro>>

\* autocadastrar_certificado: the active row with this PFX, else the one of
\* its holder, else the only active one, else a new row. The newest first.
ComEstePfx(v) == {c \in Certs : Ativa(c) /\ linha[c].pfx = v}
DoTitular(v) == {c \in Certs :
  Ativa(c) /\ linha[c].pfx # SemMetadados /\ Titular[linha[c].pfx] = Titular[v]}
Unica == LET ativas == {c \in Certs : Ativa(c)} IN IF Cardinality(ativas) = 1 THEN ativas ELSE {}

ReaproveitavelDefeituoso(v) == ComEstePfx(v)
Reaproveitavel(v) ==
  IF ComEstePfx(v) # {} THEN ComEstePfx(v)
  ELSE IF DoTitular(v) # {} THEN DoTitular(v) ELSE Unica

EhMaisNova(c, cs) == c \in cs /\ \A d \in cs : d <= c

Autocadastrar(r, c, v, n) ==
  /\ IF Reaproveitavel(v) = {} THEN ProximoId(c) ELSE EhMaisNova(c, Reaproveitavel(v))
  /\ Guardar(c, n, v)
  /\ Comecar(r, [tipo |-> "auto", cert |-> c, pfx |-> v, nome |-> n, lida |-> linha[c],
                 ativo |-> TRUE, sozinho |-> TRUE])
  /\ UNCHANGED <<linha, segredo, rotacao, desencontro>>

\* atualizar_certificado_com_upload_ou_senha with a PFX. The first
\* registration with a password (criar_certificado_com_upload_e_senha) is the
\* same two steps over a new row. Both may set ativo.
TrocarPfx(r, c, v, n) ==
  /\ linha[c] # Nenhum \/ ProximoId(c)
  /\ Guardar(c, n, v)
  /\ \E ativo \in BOOLEAN :
       Comecar(r, [tipo |-> "troca", cert |-> c, pfx |-> v, nome |-> n, lida |-> linha[c],
                   ativo |-> ativo, sozinho |-> TRUE])
  /\ UNCHANGED <<linha, segredo, rotacao, desencontro>>

\* The password offered opens the object read now; it is saved afterwards,
\* and ativo with it when it is given (atualizar_certificado_... with no PFX).
TestarSenha(r, c) ==
  /\ linha[c] # Nenhum /\ linha[c].nome # "pending"
  /\ objeto[c][linha[c].nome] # Nenhum
  /\ \E ativo \in BOOLEAN :
       Comecar(r, [tipo |-> "senha", cert |-> c, pfx |-> objeto[c][linha[c].nome].pfx,
                   nome |-> linha[c].nome, lida |-> linha[c], ativo |-> ativo, sozinho |-> TRUE])
  /\ UNCHANGED <<linha, segredo, objeto, rotacao, desencontro>>

\* The row and its password commit together.
ComSenha(p) ==
  IF p.tipo = "senha" THEN [p.lida EXCEPT !.temSenha = TRUE, !.ativo = p.ativo]
  ELSE [ativo |-> p.ativo, nome |-> p.nome, pfx |-> p.pfx, temSenha |-> TRUE]

Salvar(r) ==
  LET p == pedido[r] c == p.cert IN
  /\ r \in EmCurso /\ p.tipo \notin {"novo", "guardado"}
  /\ GravarLinha(c, p.lida, ComSenha(p))
  /\ SalvarSegredo(c, p.pfx)
  /\ pedido' = [pedido EXCEPT ![r] = Nenhum]
  /\ desencontro' = IF ~p.sozinho THEN desencontro \cup {c}
                    ELSE IF p.tipo = "senha" THEN desencontro ELSE desencontro \ {c}
  /\ UNCHANGED <<envios, objeto, rotacao>>

\* A rollback, or the end of the process, before the last commit: a row that
\* waits for its object stays.
Desistir(r) ==
  /\ r \in EmCurso
  /\ pedido' = [pedido EXCEPT ![r] = Nenhum]
  /\ desencontro' = desencontro \cup {pedido[r].cert}
  /\ UNCHANGED <<envios, linha, segredo, objeto, rotacao>>

\* salvar_senha with testar_antes = false: any password.
SalvarSenhaSemTeste(c, v) ==
  /\ linha[c] # Nenhum /\ Contar
  /\ linha' = [linha EXCEPT ![c].temSenha = TRUE]
  /\ SalvarSegredo(c, v)
  /\ desencontro' = desencontro \cup {c}
  /\ UNCHANGED <<objeto, pedido, rotacao>>

MarcarSobrepostos == pedido' = [r \in Pedidos |->
  IF r \in EmCurso THEN [pedido[r] EXCEPT !.sozinho = FALSE] ELSE Nenhum]

RemoverSenha(c) ==
  /\ linha[c] # Nenhum /\ Contar
  /\ linha' = [linha EXCEPT ![c].temSenha = FALSE]
  /\ segredo' = [segredo EXCEPT ![c] = Nenhum]
  /\ MarcarSobrepostos
  /\ UNCHANGED <<objeto, rotacao, desencontro>>

\* PATCH ativo, DELETE /certificados.
AlterarAtivo(c, valor) ==
  /\ linha[c] # Nenhum /\ linha[c].ativo # valor /\ Contar
  /\ linha' = [linha EXCEPT ![c].ativo = valor]
  /\ MarcarSobrepostos
  /\ UNCHANGED <<segredo, objeto, rotacao, desencontro>>

-----------------------------------------------------------------------------
\* The variable changes and the portal restarts with it.
ConfigurarNova ==
  /\ rotacao.fase = "antiga" /\ EmCurso = {}
  /\ rotacao' = [rotacao EXCEPT !.fase = "ambas"]
  /\ UNCHANGED <<envios, linha, segredo, objeto, pedido, desencontro>>

\* rotacionar_segredos --aplicar reads every secret, then commits them all.
LerSegredos ==
  /\ rotacao.fase = "ambas"
  /\ rotacao' = [fase |-> "lida", copia |-> segredo]
  /\ UNCHANGED <<envios, linha, segredo, objeto, pedido, desencontro>>

RecifrarDefeituoso(s) == s
Recifrar(s) == IF s = Nenhum THEN s ELSE [s EXCEPT !.chave = ChaveQueCifra]

\* A secret deleted meanwhile makes the whole commit fail.
GravarSegredos ==
  LET copia == rotacao.copia IN
  /\ rotacao.fase = "lida"
  /\ IF \E c \in Certs : copia[c] # Nenhum /\ segredo[c] = Nenhum
       THEN rotacao' = [rotacao EXCEPT !.fase = "ambas"] /\ UNCHANGED <<segredo, desencontro>>
       ELSE /\ segredo' = [c \in Certs |-> IF copia[c] # Nenhum THEN Recifrar(copia[c]) ELSE segredo[c]]
            /\ desencontro' = desencontro \cup
                 {c \in Certs : copia[c] # Nenhum /\ copia[c] # segredo[c]}
            /\ rotacao' = [rotacao EXCEPT !.fase = "gravada"]
  /\ UNCHANGED <<envios, linha, objeto, pedido>>

RetirarAntiga ==
  /\ rotacao.fase = "gravada" /\ EmCurso = {}
  /\ rotacao' = [rotacao EXCEPT !.fase = "nova"]
  /\ UNCHANGED <<envios, linha, segredo, objeto, pedido, desencontro>>

NextCertificados ==
  \/ \E r \in Pedidos, c \in Certs, v \in Pfx, n \in Nomes :
       CriarPendente(r, c, v, n) \/ Autocadastrar(r, c, v, n) \/ TrocarPfx(r, c, v, n)
  \/ \E r \in Pedidos : GuardarPendente(r) \/ ConcluirPendente(r) \/ Salvar(r) \/ Desistir(r)
  \/ \E r \in Pedidos, c \in Certs : TestarSenha(r, c)
  \/ \E c \in Certs, v \in Pfx : SalvarSenhaSemTeste(c, v)
  \/ \E c \in Certs : RemoverSenha(c) \/ \E valor \in BOOLEAN : AlterarAtivo(c, valor)
  \/ ConfigurarNova \/ LerSegredos \/ GravarSegredos \/ RetirarAntiga

SpecCertificados == InitCertificados /\ [][NextCertificados]_varsCertificados

-----------------------------------------------------------------------------
\* list_certificados_elegiveis, for certificates that are in date.
Elegivel(c) == Ativa(c) /\ linha[c].nome # "pending" /\ linha[c].temSenha /\ Legivel(c)

\* A certificate the scheduler would consult opens with the password stored
\* for it, unless an upload over its file has not ended, or a save of it was
\* cut after the file was stored, overlapped another one or skipped the test;
\* and a later renewal made alone repairs it.
ElegivelAbre ==
  \A c \in Certs :
    /\ Elegivel(c) /\ c \notin desencontro
    /\ \A r \in EmCurso : pedido[r].cert # c
    => objeto[c][linha[c].nome].pfx = segredo[c].pfx

\* The recipe of secrets_service (new key in front, rotate, drop the old one)
\* loses no password, whatever was saved while the script ran.
SenhasAtravessamATroca ==
  \A c \in Certs : segredo[c] # Nenhum => Legivel(c)

\* A registration made alone never leaves two active rows of one holder where
\* there was at most one: a renewal replaces the file instead of doubling the
\* list.
RenovacaoNaoDuplica ==
  [][\A r \in Pedidos :
       /\ r \in EmCurso /\ pedido[r].tipo = "auto" /\ pedido[r].sozinho
       /\ pedido'[r] = Nenhum /\ linha' # linha
       /\ Cardinality(DoTitular(pedido[r].pfx)) <= 1
       => Cardinality({c \in Certs : /\ linha'[c] # Nenhum /\ linha'[c].ativo
                                     /\ linha'[c].pfx # SemMetadados
                                     /\ Titular[linha'[c].pfx] = Titular[pedido[r].pfx]}) <= 1]_varsCertificados
=============================================================================
