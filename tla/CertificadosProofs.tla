-------------------------- MODULE CertificadosProofs --------------------------
(***************************************************************************)
(* The certificates of a company for any PFX files, names and number of     *)
(* requests at work: the rotation of SECRETS_KEY loses no password, an      *)
(* eligible certificate opens with the password stored for it, and a        *)
(* renewal made alone never doubles the list.                               *)
(***************************************************************************)
EXTENDS Certificados, FiniteSetTheorems, TLAPS

Linha == [ativo : BOOLEAN, nome : Nomes \cup {"pending"}, pfx : Pfx \cup {SemMetadados},
          temSenha : BOOLEAN]
Segredo == [pfx : Pfx, chave : {"antiga", "nova"}]
Pedido == [tipo : {"novo", "guardado", "auto", "troca", "senha"}, cert : Certs, pfx : Pfx, nome : Nomes,
           lida : Linha \cup {Nenhum}, ativo : BOOLEAN, sozinho : BOOLEAN]

TiposCertificados ==
  /\ linha \in [Certs -> Linha \cup {Nenhum}]
  /\ segredo \in [Certs -> Segredo \cup {Nenhum}]
  /\ objeto \in [Certs -> [Nomes -> [pfx : Pfx] \cup {Nenhum}]]
  /\ pedido \in [Pedidos -> Pedido \cup {Nenhum}]
  /\ envios \in Nat
  /\ rotacao \in [fase : {"antiga", "ambas", "lida", "gravada", "nova"},
                  copia : [Certs -> Segredo \cup {Nenhum}]]
  /\ desencontro \in SUBSET Certs

\* A secret and a row that a request read belong to a row that exists: rows are
\* never deleted.  Only the requests that begin on no row read none.
Referencias ==
  /\ \A c \in Certs : linha[c] = Nenhum => segredo[c] = Nenhum
  /\ \A r \in EmCurso :
       /\ pedido[r].lida # Nenhum => linha[pedido[r].cert] # Nenhum
       /\ pedido[r].tipo \in {"novo", "guardado", "senha"} => pedido[r].lida # Nenhum

\* The key of every secret, by the phase of the rotation: between the reading
\* of the script and its commit, what has the old key was read by it.
ChavePorFase ==
  \A c \in Certs : segredo[c] # Nenhum =>
    /\ rotacao.fase = "antiga" => segredo[c].chave = "antiga"
    /\ rotacao.fase = "lida" => segredo[c].chave = "nova" \/ rotacao.copia[c] # Nenhum
    /\ rotacao.fase \in {"gravada", "nova"} => segredo[c].chave = "nova"

\* The object of a request as it stored it, or as it read it.
ObjetoDoPedido(p) ==
  /\ p.tipo # "novo" => objeto[p.cert][p.nome] = [pfx |-> p.pfx]
  /\ p.tipo = "senha" => p.nome = p.lida.nome

\* The row of a request as it read it, but for the password and ativo.
LinhaDoPedido(p) ==
  \/ linha[p.cert] = p.lida
  \/ /\ p.lida # Nenhum /\ linha[p.cert] # Nenhum
     /\ linha[p.cert].nome = p.lida.nome /\ linha[p.cert].pfx = p.lida.pfx

\* A request alone since it began finds its object and its row as they were.
SoEla ==
  \A r \in EmCurso : pedido[r].sozinho =>
    EmCurso = {r} /\ ObjetoDoPedido(pedido[r]) /\ LinhaDoPedido(pedido[r])

\* A registration made alone finds the choice of its row as it made it.
EscolhaMantida ==
  \A r \in EmCurso : pedido[r].sozinho /\ pedido[r].tipo = "auto" =>
    LET p == pedido[r] IN
    IF Reaproveitavel(p.pfx) = {} THEN p.lida = Nenhum
    ELSE EhMaisNova(p.cert, Reaproveitavel(p.pfx))

\* What a row that waits for its object has: no password, unless another
\* request met it.
PendenteSemSenha ==
  \A r \in EmCurso : pedido[r].tipo \in {"novo", "guardado"} /\ pedido[r].cert \notin desencontro =>
    segredo[pedido[r].cert] = Nenhum

\* ElegivelAbre, whether or not the certificate is eligible.
SegredoDoObjeto ==
  \A c \in Certs :
    /\ linha[c] # Nenhum /\ linha[c].nome # "pending" /\ segredo[c] # Nenhum
    /\ c \notin desencontro
    /\ \A r \in EmCurso : pedido[r].cert # c
    => objeto[c][linha[c].nome].pfx = segredo[c].pfx

InvCertificados ==
  /\ TiposCertificados /\ Referencias /\ ChavePorFase
  /\ SoEla /\ EscolhaMantida /\ PendenteSemSenha /\ SegredoDoObjeto

-----------------------------------------------------------------------------
\* Nothing that is written is the value that stands for nothing.
LEMMA NenhumADistinguir ==
  /\ Nenhum \notin Linha /\ Nenhum \notin Segredo /\ Nenhum \notin Pedido
  /\ \A x \in Pedido : x # Nenhum
<1> DEFINE Campos(x) == DOMAIN x
<1>1. Campos(Nenhum) = {"pfx"}
  BY DEF Nenhum
<1>2. \A x \in Linha : Campos(x) = {"ativo", "nome", "pfx", "temSenha"}
  BY DEF Linha
<1>3. \A x \in Segredo : Campos(x) = {"pfx", "chave"}
  BY DEF Segredo
<1>4. \A x \in Pedido : Campos(x) = {"tipo", "cert", "pfx", "nome", "lida", "ativo", "sozinho"}
  BY DEF Pedido
<1>5. /\ "ativo" \notin {"pfx"} /\ "chave" \notin {"pfx"} /\ "tipo" \notin {"pfx"}
  OBVIOUS
<1> HIDE DEF Campos
<1> QED
  BY <1>1, <1>2, <1>3, <1>4, <1>5

\* The portal begins with no certificate or with one that opens.
LEMMA InicialCertificados == InitCertificados => InvCertificados
<1> SUFFICES ASSUME InitCertificados PROVE InvCertificados
  OBVIOUS
<1> DEFINE v == CHOOSE v \in Pfx : TRUE
           n == CHOOSE n \in Nomes : TRUE
           aLinha == [ativo |-> TRUE, nome |-> n, pfx |-> v, temSenha |-> TRUE]
           oSegredo == [pfx |-> v, chave |-> "antiga"]
<1>1. v \in Pfx /\ n \in Nomes
  BY ConstantesCertificados
<1>2. PICK temUm \in BOOLEAN :
        /\ linha = [c \in Certs |-> IF temUm /\ c = 1 THEN aLinha ELSE Nenhum]
        /\ segredo = [c \in Certs |-> IF temUm /\ c = 1 THEN oSegredo ELSE Nenhum]
        /\ objeto = [c \in Certs |-> [m \in Nomes |->
             IF temUm /\ c = 1 /\ m = n THEN [pfx |-> v] ELSE Nenhum]]
  BY DEF InitCertificados
<1> HIDE DEF v, n
<1>3. aLinha \in Linha /\ oSegredo \in Segredo /\ aLinha # Nenhum /\ oSegredo # Nenhum
  <2>1. aLinha \in Linha /\ oSegredo \in Segredo
    BY <1>1 DEF Linha, Segredo
  <2> HIDE DEF aLinha, oSegredo
  <2> QED
    BY <2>1, NenhumADistinguir
<1>4. TiposCertificados
  <2>1. linha \in [Certs -> Linha \cup {Nenhum}] /\ segredo \in [Certs -> Segredo \cup {Nenhum}]
    BY <1>2, <1>3
  <2>2. objeto \in [Certs -> [Nomes -> [pfx : Pfx] \cup {Nenhum}]]
    BY <1>1, <1>2
  <2>3. /\ pedido \in [Pedidos -> Pedido \cup {Nenhum}]
        /\ rotacao \in [fase : {"antiga"}, copia : [Certs -> Segredo \cup {Nenhum}]]
    BY DEF InitCertificados
  <2> QED
    BY <2>1, <2>2, <2>3 DEF InitCertificados, TiposCertificados
<1>5. EmCurso = {} /\ rotacao.fase = "antiga"
  BY DEF InitCertificados, EmCurso
<1>6. Referencias /\ ChavePorFase
  BY <1>2, <1>3, <1>5 DEF Referencias, ChavePorFase
<1>7. SegredoDoObjeto
  BY <1>1, <1>2, <1>3 DEF SegredoDoObjeto
<1> QED
  BY <1>4, <1>5, <1>6, <1>7 DEF InvCertificados, SoEla, EscolhaMantida, PendenteSemSenha

\* The fields of a request.
LEMMA CamposDoPedido ==
  ASSUME NEW p \in Pedido
  PROVE  /\ p.cert \in Certs /\ p.pfx \in Pfx /\ p.nome \in Nomes
         /\ p.lida \in Linha \cup {Nenhum} /\ p.ativo \in BOOLEAN /\ p.sozinho \in BOOLEAN
         /\ p.tipo \in {"novo", "guardado", "auto", "troca", "senha"}
BY DEF Pedido

\* A request that is met by another keeps all it has but being alone.
LEMMA MesmoPedido ==
  ASSUME NEW p \in Pedido, NEW so \in BOOLEAN, NEW p2, p2 = [p EXCEPT !.sozinho = so]
  PROVE  /\ p2 \in Pedido /\ p2.sozinho = so
         /\ p2.tipo = p.tipo /\ p2.cert = p.cert /\ p2.pfx = p.pfx /\ p2.nome = p.nome
         /\ p2.lida = p.lida /\ p2.ativo = p.ativo
BY DEF Pedido

\* What a request that begins does to the others.
LEMMA AoComecar ==
  ASSUME TiposCertificados, NEW r \in Pedidos, NEW p \in Pedido, Comecar(r, p)
  PROVE  /\ r \notin EmCurso /\ EmCurso' = EmCurso \cup {r}
         /\ pedido' \in [Pedidos -> Pedido \cup {Nenhum}]
         /\ pedido'[r].tipo = p.tipo /\ pedido'[r].cert = p.cert /\ pedido'[r].pfx = p.pfx
         /\ pedido'[r].nome = p.nome /\ pedido'[r].lida = p.lida
         /\ pedido'[r].sozinho => EmCurso = {}
         /\ \A s \in EmCurso :
              /\ s # r /\ ~pedido'[s].sozinho
              /\ pedido'[s].tipo = pedido[s].tipo /\ pedido'[s].cert = pedido[s].cert
              /\ pedido'[s].lida = pedido[s].lida
         /\ envios' \in Nat
<1> DEFINE so == (EmCurso = {})
           p2 == [p EXCEPT !.sozinho = so]
           nao == FALSE
           outro(s) == [pedido[s] EXCEPT !.sozinho = nao]
<1>1. so \in BOOLEAN /\ (so => EmCurso = {}) /\ nao \in BOOLEAN /\ ~nao
  OBVIOUS
<1>2. r \in Pedidos /\ r \notin EmCurso /\ envios' \in Nat
  BY DEF Comecar, EmCurso, Contar, TiposCertificados
<1>3. pedido' = [s \in Pedidos |-> IF s = r THEN p2
                                   ELSE IF s \in EmCurso THEN outro(s) ELSE pedido[s]]
  BY DEF Comecar
<1> HIDE DEF so, nao
<1>4. /\ p2 \in Pedido /\ p2.sozinho = so /\ p2.tipo = p.tipo /\ p2.cert = p.cert
      /\ p2.pfx = p.pfx /\ p2.nome = p.nome /\ p2.lida = p.lida
  BY <1>1, MesmoPedido
<1>5. \A s \in EmCurso :
        /\ s \in Pedidos /\ outro(s) \in Pedido /\ ~outro(s).sozinho
        /\ outro(s).tipo = pedido[s].tipo /\ outro(s).cert = pedido[s].cert
        /\ outro(s).lida = pedido[s].lida
  <2> SUFFICES ASSUME NEW s \in EmCurso
               PROVE  /\ s \in Pedidos /\ outro(s) \in Pedido /\ ~outro(s).sozinho
                      /\ outro(s).tipo = pedido[s].tipo /\ outro(s).cert = pedido[s].cert
                      /\ outro(s).lida = pedido[s].lida
    OBVIOUS
  <2>1. s \in Pedidos /\ pedido[s] \in Pedido
    BY DEF TiposCertificados, EmCurso
  <2> QED
    BY <1>1, <2>1, MesmoPedido
<1> HIDE DEF p2, outro
<1>6. pedido' \in [Pedidos -> Pedido \cup {Nenhum}]
  BY <1>3, <1>4, <1>5 DEF TiposCertificados
<1>7. EmCurso' = EmCurso \cup {r}
  BY <1>3, <1>4, <1>5, NenhumADistinguir DEF EmCurso
<1> HIDE DEF EmCurso
<1> QED
  BY <1>1, <1>2, <1>3, <1>4, <1>5, <1>6, <1>7

\* What the end of a request leaves.
LEMMA AoAcabar ==
  ASSUME TiposCertificados, NEW r \in EmCurso, pedido' = [pedido EXCEPT ![r] = Nenhum]
  PROVE  /\ EmCurso' = EmCurso \ {r}
         /\ pedido' \in [Pedidos -> Pedido \cup {Nenhum}]
         /\ \A s \in EmCurso' : s \in EmCurso /\ pedido'[s] = pedido[s]
BY DEF TiposCertificados, EmCurso

\* A request at work is one, about a certificate.
LEMMA PedidoEmCurso ==
  ASSUME TiposCertificados, NEW r \in EmCurso
  PROVE  /\ r \in Pedidos /\ pedido[r] \in Pedido /\ pedido[r].cert \in Certs
         /\ pedido[r].pfx \in Pfx /\ pedido[r].nome \in Nomes
         /\ pedido[r].lida \in Linha \cup {Nenhum} /\ pedido[r].ativo \in BOOLEAN
         /\ pedido[r].sozinho \in BOOLEAN
         /\ pedido[r].tipo \in {"novo", "guardado", "auto", "troca", "senha"}
<1>1. r \in Pedidos /\ pedido[r] \in Pedido
  BY DEF TiposCertificados, EmCurso
<1> QED
  BY <1>1, CamposDoPedido

\* GravarLinha keeps the columns that did not change since the row was read.
LEMMA LinhaGravada ==
  ASSUME TiposCertificados, NEW c \in Certs, NEW lida \in Linha \cup {Nenhum}, NEW nova \in Linha,
         lida # Nenhum => linha[c] # Nenhum,
         GravarLinha(c, lida, nova)
  PROVE  /\ linha' \in [Certs -> Linha \cup {Nenhum}]
         /\ linha'[c] \in Linha
         /\ \A d \in Certs \ {c} : linha'[d] = linha[d]
         /\ linha'[c].nome = IF lida # Nenhum /\ lida.nome = nova.nome THEN linha[c].nome ELSE nova.nome
         /\ linha'[c].pfx = IF lida # Nenhum /\ lida.pfx = nova.pfx THEN linha[c].pfx ELSE nova.pfx
<1> DEFINE mista == [k \in DOMAIN nova |->
                       IF lida # Nenhum /\ lida[k] = nova[k] THEN linha[c][k] ELSE nova[k]]
<1>1. lida # Nenhum => linha[c] \in Linha
  BY DEF TiposCertificados
<1>2. DOMAIN nova = {"ativo", "nome", "pfx", "temSenha"}
  BY DEF Linha
<1>3. /\ nova.ativo \in BOOLEAN /\ nova.nome \in Nomes \cup {"pending"}
      /\ nova.pfx \in Pfx \cup {SemMetadados} /\ nova.temSenha \in BOOLEAN
  BY DEF Linha
<1>4. lida # Nenhum => /\ linha[c].ativo \in BOOLEAN /\ linha[c].nome \in Nomes \cup {"pending"}
                       /\ linha[c].pfx \in Pfx \cup {SemMetadados} /\ linha[c].temSenha \in BOOLEAN
  BY <1>1 DEF Linha
<1>5. mista = [ativo |-> mista.ativo, nome |-> mista.nome, pfx |-> mista.pfx,
               temSenha |-> mista.temSenha]
  BY <1>2
<1>6. /\ mista.ativo \in BOOLEAN /\ mista.nome \in Nomes \cup {"pending"}
      /\ mista.pfx \in Pfx \cup {SemMetadados} /\ mista.temSenha \in BOOLEAN
  BY <1>2, <1>3, <1>4
<1>7. mista \in Linha
  <2> HIDE DEF mista
  <2> QED BY <1>5, <1>6 DEF Linha
<1>8. linha' = [linha EXCEPT ![c] = mista]
  BY DEF GravarLinha
<1> QED
  BY <1>2, <1>7, <1>8 DEF TiposCertificados

\* Which row a registration chooses depends on what is active and on the PFX.
LEMMA MesmaEscolha ==
  ASSUME \A c \in Certs : Ativa(c)' <=> Ativa(c),
         \A c \in Certs : Ativa(c) => linha'[c].pfx = linha[c].pfx
  PROVE  /\ \A v \in Pfx : DoTitular(v)' = DoTitular(v)
         /\ \A v \in Pfx : Reaproveitavel(v)' = Reaproveitavel(v)
<1>1. \A v \in Pfx : ComEstePfx(v)' = ComEstePfx(v)
  BY DEF ComEstePfx
<1>2. \A v \in Pfx : DoTitular(v)' = DoTitular(v)
  BY DEF DoTitular
<1>3. Unica' = Unica
  BY DEF Unica
<1> QED
  BY <1>1, <1>2, <1>3 DEF Reaproveitavel

\* A request that begins: its row and object are as it has them, and no other
\* certificate is touched.
LEMMA ComecoPreserva ==
  ASSUME InvCertificados, NEW r \in Pedidos, NEW p \in Pedido, Comecar(r, p),
         UNCHANGED <<segredo, rotacao, desencontro>>,
         linha' \in [Certs -> Linha \cup {Nenhum}],
         objeto' \in [Certs -> [Nomes -> [pfx : Pfx] \cup {Nenhum}]],
         \A c \in Certs : linha[c] # Nenhum => linha'[c] = linha[c],
         \A c \in Certs \ {p.cert} : linha'[c] = linha[c] /\ objeto'[c] = objeto[c],
         linha'[p.cert] = p.lida,
         p.tipo # "novo" => objeto'[p.cert][p.nome] = [pfx |-> p.pfx],
         p.tipo # "guardado",
         p.tipo = "novo" => linha[p.cert] = Nenhum,
         p.tipo \in {"novo", "guardado", "senha"} => p.lida # Nenhum,
         p.tipo = "senha" => p.nome = p.lida.nome,
         p.tipo = "auto" =>
           /\ linha' = linha
           /\ IF Reaproveitavel(p.pfx) = {} THEN p.lida = Nenhum
              ELSE EhMaisNova(p.cert, Reaproveitavel(p.pfx))
  PROVE  InvCertificados'
<1> USE DEF InvCertificados
<1>1. /\ r \notin EmCurso /\ EmCurso' = EmCurso \cup {r}
      /\ pedido' \in [Pedidos -> Pedido \cup {Nenhum}]
      /\ pedido'[r].tipo = p.tipo /\ pedido'[r].cert = p.cert /\ pedido'[r].pfx = p.pfx
      /\ pedido'[r].nome = p.nome /\ pedido'[r].lida = p.lida
      /\ pedido'[r].sozinho => EmCurso = {}
      /\ envios' \in Nat
  BY AoComecar
<1>2. \A s \in EmCurso :
        /\ s # r /\ ~pedido'[s].sozinho
        /\ pedido'[s].tipo = pedido[s].tipo /\ pedido'[s].cert = pedido[s].cert
        /\ pedido'[s].lida = pedido[s].lida
  BY AoComecar
<1>3. p.cert \in Certs /\ p.pfx \in Pfx
  BY CamposDoPedido
<1>4. TiposCertificados'
  <2>1. TiposCertificados
    OBVIOUS
  <2> QED
    BY <1>1, <2>1 DEF TiposCertificados
<1>5. Referencias'
  <2>1. \A c \in Certs : linha'[c] = Nenhum => linha[c] = Nenhum
    BY DEF TiposCertificados
  <2>2. \A c \in Certs : linha'[c] = Nenhum => segredo'[c] = Nenhum
    BY <2>1 DEF Referencias
  <2>3. ASSUME NEW s \in EmCurso
        PROVE  /\ pedido'[s].lida # Nenhum => linha'[pedido'[s].cert] # Nenhum
               /\ pedido'[s].tipo \in {"novo", "guardado", "senha"} => pedido'[s].lida # Nenhum
    BY <1>2, <2>1, <2>3, PedidoEmCurso DEF Referencias
  <2> QED
    BY <1>1, <2>2, <2>3 DEF Referencias
<1>6. ChavePorFase'
  BY DEF ChavePorFase
<1>7. SoEla' /\ EscolhaMantida'
  <2>1. p.tipo = "auto" => Reaproveitavel(p.pfx)' = Reaproveitavel(p.pfx)
    BY <1>3, MesmaEscolha DEF Ativa
  <2>2. p.tipo = "auto" => IF Reaproveitavel(p.pfx)' = {} THEN p.lida = Nenhum
                           ELSE EhMaisNova(p.cert, Reaproveitavel(p.pfx)')
    BY <2>1
  <2>3. pedido'[r].sozinho => EmCurso' = {r}
    BY <1>1
  <2>4. \A s \in EmCurso' : pedido'[s].sozinho => s = r
    BY <1>1, <1>2
  <2>5. /\ p.tipo # "novo" => objeto'[p.cert][p.nome] = [pfx |-> p.pfx]
        /\ linha'[p.cert] = p.lida
        /\ p.tipo = "senha" => p.nome = p.lida.nome
    OBVIOUS
  <2>6. SoEla'
    BY <1>1, <2>3, <2>4, <2>5 DEF SoEla, ObjetoDoPedido, LinhaDoPedido
  <2>7. EscolhaMantida'
    BY <1>1, <2>2, <2>4, ZenonT(60) DEF EscolhaMantida, EhMaisNova
  <2> QED
    BY <2>6, <2>7
<1>8. PendenteSemSenha'
  BY <1>1, <1>2, <1>3 DEF PendenteSemSenha, Referencias
<1>9. SegredoDoObjeto'
  <2> SUFFICES ASSUME NEW c \in Certs, linha'[c] # Nenhum, linha'[c].nome # "pending",
                      segredo[c] # Nenhum, c \notin desencontro,
                      \A s \in EmCurso' : pedido'[s].cert # c
               PROVE  objeto'[c][linha'[c].nome].pfx = segredo[c].pfx
    BY DEF SegredoDoObjeto
  <2>1. c # p.cert /\ \A s \in EmCurso : pedido[s].cert # c
    BY <1>1, <1>2
  <2>2. linha'[c] = linha[c] /\ objeto'[c] = objeto[c] /\ SegredoDoObjeto
    BY <2>1
  <2> QED
    BY <2>1, <2>2 DEF SegredoDoObjeto
<1> QED
  BY <1>4, <1>5, <1>6, <1>7, <1>8, <1>9

\* A certificate sent without its password keeps the invariant.
LEMMA CriarPendentePreserva ==
  ASSUME InvCertificados, NEW r \in Pedidos, NEW c \in Certs, NEW v \in Pfx, NEW n \in Nomes,
         CriarPendente(r, c, v, n)
  PROVE  InvCertificados'
<1>1. TiposCertificados
  BY DEF InvCertificados
<1>2. PICK m \in {v, SemMetadados} : linha' =
        [linha EXCEPT ![c] = [ativo |-> TRUE, nome |-> "pending", pfx |-> m, temSenha |-> FALSE]]
  BY DEF CriarPendente
<1>3. linha[c] = Nenhum /\ linha' \in [Certs -> Linha \cup {Nenhum}] /\ linha'[c] \in Linha
  BY <1>1, <1>2 DEF CriarPendente, ProximoId, TiposCertificados, Linha
<1> DEFINE p == [tipo |-> "novo", cert |-> c, pfx |-> v, nome |-> n, lida |-> linha'[c],
                 ativo |-> TRUE, sozinho |-> TRUE]
<1>4. p \in Pedido /\ Comecar(r, p)
  BY <1>3 DEF CriarPendente, Pedido
<1>5. objeto' = objeto /\ objeto' \in [Certs -> [Nomes -> [pfx : Pfx] \cup {Nenhum}]]
  BY <1>1 DEF CriarPendente, TiposCertificados
<1>6. /\ \A d \in Certs : linha[d] # Nenhum => linha'[d] = linha[d]
      /\ \A d \in Certs \ {c} : linha'[d] = linha[d]
      /\ linha'[c] # Nenhum
  BY <1>1, <1>2, <1>3, NenhumADistinguir DEF TiposCertificados
<1>7. UNCHANGED <<segredo, rotacao, desencontro>>
  BY DEF CriarPendente
<1>8. p.cert = c /\ p.nome = n /\ p.pfx = v /\ p.lida = linha'[c] /\ p.tipo = "novo"
  OBVIOUS
<1> HIDE DEF p
<1> QED
  BY <1>3, <1>4, <1>5, <1>6, <1>7, <1>8, ComecoPreserva

\* A request that stores its PFX over a row, or before its row is there.
LEMMA EnvioPreserva ==
  ASSUME InvCertificados, NEW r \in Pedidos, NEW c \in Certs, NEW v \in Pfx, NEW n \in Nomes,
         Autocadastrar(r, c, v, n) \/ TrocarPfx(r, c, v, n)
  PROVE  InvCertificados'
<1>1. TiposCertificados
  BY DEF InvCertificados
<1>2. PICK t \in {"auto", "troca"}, ativo \in BOOLEAN :
        /\ Comecar(r, [tipo |-> t, cert |-> c, pfx |-> v, nome |-> n, lida |-> linha[c],
                       ativo |-> ativo, sozinho |-> TRUE])
        /\ t = "auto" => IF Reaproveitavel(v) = {} THEN linha[c] = Nenhum
                         ELSE EhMaisNova(c, Reaproveitavel(v))
  BY DEF Autocadastrar, TrocarPfx, ProximoId
<1> DEFINE p == [tipo |-> t, cert |-> c, pfx |-> v, nome |-> n, lida |-> linha[c],
                 ativo |-> ativo, sozinho |-> TRUE]
<1>3. p \in Pedido
  BY <1>1 DEF Pedido, TiposCertificados
<1>4. /\ objeto' \in [Certs -> [Nomes -> [pfx : Pfx] \cup {Nenhum}]]
      /\ objeto'[c][n] = [pfx |-> v] /\ \A d \in Certs \ {c} : objeto'[d] = objeto[d]
  <2>1. objeto' = [objeto EXCEPT ![c][n] = [pfx |-> v]]
    BY DEF Autocadastrar, TrocarPfx, Guardar
  <2> QED
    BY <1>1, <2>1 DEF TiposCertificados
<1>5. UNCHANGED <<linha, segredo, rotacao, desencontro>>
  BY DEF Autocadastrar, TrocarPfx
<1>6. p.cert = c /\ p.nome = n /\ p.pfx = v /\ p.lida = linha[c] /\ p.tipo = t
  OBVIOUS
<1>7. Comecar(r, p)
  BY <1>2
<1> HIDE DEF p
<1>8. linha' \in [Certs -> Linha \cup {Nenhum}]
  BY <1>1, <1>5 DEF TiposCertificados
<1> QED
  BY <1>2, <1>3, <1>4, <1>5, <1>6, <1>7, <1>8, ComecoPreserva

\* A commit that tried the password keeps the invariant.
LEMMA TestarSenhaPreserva ==
  ASSUME InvCertificados, NEW r \in Pedidos, NEW c \in Certs, TestarSenha(r, c)
  PROVE  InvCertificados'
<1> DEFINE n == linha[c].nome
<1>0. PICK ativo \in BOOLEAN :
        Comecar(r, [tipo |-> "senha", cert |-> c, pfx |-> objeto[c][n].pfx, nome |-> n,
                    lida |-> linha[c], ativo |-> ativo, sozinho |-> TRUE])
  BY DEF TestarSenha
<1> DEFINE p == [tipo |-> "senha", cert |-> c, pfx |-> objeto[c][n].pfx, nome |-> n,
                 lida |-> linha[c], ativo |-> ativo, sozinho |-> TRUE]
<1>1. TiposCertificados
  BY DEF InvCertificados
<1>2. linha[c] \in Linha /\ linha[c] # Nenhum /\ n \in Nomes
  BY <1>1 DEF TestarSenha, TiposCertificados, Linha
<1>3. objeto[c][n] \in [pfx : Pfx]
  BY <1>1, <1>2 DEF TestarSenha, TiposCertificados
<1>4. p \in Pedido
  BY <1>2, <1>3 DEF Pedido
<1>5. UNCHANGED <<linha, segredo, objeto, rotacao, desencontro>> /\ Comecar(r, p)
  BY <1>0 DEF TestarSenha
<1>6. /\ p.cert = c /\ p.nome = n /\ p.lida = linha[c] /\ p.tipo = "senha"
      /\ [pfx |-> p.pfx] = objeto[c][n]
  BY <1>3
<1>7. n = linha[c].nome
  OBVIOUS
<1> HIDE DEF p, n
<1>8. linha' \in [Certs -> Linha \cup {Nenhum}] /\ objeto' \in [Certs -> [Nomes -> [pfx : Pfx] \cup {Nenhum}]]
  BY <1>1, <1>5 DEF TiposCertificados
<1> QED
  BY <1>2, <1>4, <1>5, <1>6, <1>7, <1>8, ComecoPreserva

\* The object of a row that waits for it arrives.
LEMMA GuardarPendentePreserva ==
  ASSUME InvCertificados, NEW r \in Pedidos, GuardarPendente(r) PROVE InvCertificados'
<1> DEFINE p == pedido[r]
           q == [p EXCEPT !.tipo = "guardado"]
<1>1. TiposCertificados /\ r \in EmCurso /\ p.tipo = "novo"
  BY DEF InvCertificados, GuardarPendente
<1>2. p \in Pedido /\ p.cert \in Certs /\ p.nome \in Nomes /\ p.pfx \in Pfx
  BY <1>1, PedidoEmCurso
<1>3. /\ q \in Pedido /\ q # Nenhum /\ q.tipo = "guardado" /\ q.cert = p.cert /\ q.pfx = p.pfx
      /\ q.nome = p.nome /\ q.lida = p.lida /\ q.sozinho = p.sozinho
  <2>1. /\ q \in Pedido /\ q.tipo = "guardado" /\ q.cert = p.cert /\ q.pfx = p.pfx
        /\ q.nome = p.nome /\ q.lida = p.lida /\ q.sozinho = p.sozinho
    BY <1>2 DEF Pedido
  <2> QED
    BY <2>1, NenhumADistinguir
<1>4. /\ objeto' = [objeto EXCEPT ![p.cert][p.nome] = [pfx |-> p.pfx]]
      /\ pedido' = [pedido EXCEPT ![r] = q]
      /\ UNCHANGED <<envios, linha, segredo, rotacao, desencontro>>
  BY DEF GuardarPendente, Guardar
<1> HIDE DEF q
<1>5. /\ pedido' \in [Pedidos -> Pedido \cup {Nenhum}] /\ pedido'[r] = q
      /\ \A s \in Pedidos \ {r} : pedido'[s] = pedido[s]
      /\ EmCurso' = EmCurso
  BY <1>1, <1>3, <1>4 DEF TiposCertificados, EmCurso
<1>6. /\ objeto' \in [Certs -> [Nomes -> [pfx : Pfx] \cup {Nenhum}]]
      /\ objeto'[p.cert][p.nome] = [pfx |-> p.pfx]
      /\ \A d \in Certs \ {p.cert} : objeto'[d] = objeto[d]
  BY <1>1, <1>2, <1>4 DEF TiposCertificados
<1>7. \A s \in EmCurso : s \in Pedidos
  BY DEF EmCurso
<1>8. TiposCertificados'
  BY <1>1, <1>4, <1>5, <1>6 DEF TiposCertificados
<1>9. Referencias' /\ ChavePorFase' /\ PendenteSemSenha'
  <2>1. Referencias'
    BY <1>1, <1>3, <1>4, <1>5, <1>7 DEF InvCertificados, Referencias
  <2>2. ChavePorFase'
    BY <1>4 DEF InvCertificados, ChavePorFase
  <2>3. PendenteSemSenha'
    BY <1>1, <1>3, <1>4, <1>5, <1>7 DEF InvCertificados, PendenteSemSenha
  <2> QED
    BY <2>1, <2>2, <2>3
<1>10. SoEla'
  <2> SUFFICES ASSUME NEW s \in EmCurso, pedido'[s].sozinho
               PROVE  EmCurso = {s} /\ ObjetoDoPedido(pedido[s])' /\ LinhaDoPedido(pedido[s])'
    BY <1>5 DEF SoEla
  <2>1. EmCurso = {s} /\ s = r /\ LinhaDoPedido(p)
    BY <1>1, <1>3, <1>5, <1>7 DEF InvCertificados, SoEla
  <2> QED
    BY <1>3, <1>4, <1>5, <1>6, <2>1 DEF ObjetoDoPedido, LinhaDoPedido
<1>11. EscolhaMantida'
  <2>1. \A v \in Pfx : Reaproveitavel(v)' = Reaproveitavel(v)
    BY <1>4, MesmaEscolha DEF Ativa
  <2>2. \A s \in EmCurso : pedido[s].pfx \in Pfx /\ (s # r => pedido'[s] = pedido[s])
    BY <1>1, <1>5, <1>7, PedidoEmCurso
  <2> QED
    BY <1>3, <1>5, <2>1, <2>2 DEF InvCertificados, EscolhaMantida, EhMaisNova
<1>12. SegredoDoObjeto'
  <2> SUFFICES ASSUME NEW d \in Certs, linha[d] # Nenhum, linha[d].nome # "pending",
                      segredo[d] # Nenhum, d \notin desencontro,
                      \A s \in EmCurso : pedido'[s].cert # d
               PROVE  objeto'[d][linha[d].nome].pfx = segredo[d].pfx
    BY <1>4, <1>5 DEF SegredoDoObjeto
  <2>1. d # p.cert /\ \A s \in EmCurso : pedido[s].cert # d
    BY <1>1, <1>3, <1>5, <1>7
  <2> QED
    BY <1>6, <2>1 DEF InvCertificados, SegredoDoObjeto
<1> QED
  BY <1>8, <1>9, <1>10, <1>11, <1>12 DEF InvCertificados

\* The object arrived: the row has its name, and still no password unless
\* another request met it.
LEMMA ConcluirPendentePreserva ==
  ASSUME InvCertificados, NEW r \in Pedidos, ConcluirPendente(r) PROVE InvCertificados'
<1> DEFINE p == pedido[r]
           c == p.cert
           nova == [p.lida EXCEPT !.nome = p.nome]
<1>1. TiposCertificados /\ r \in EmCurso /\ p.tipo = "guardado"
  BY DEF InvCertificados, ConcluirPendente
<1>2. c \in Certs /\ p.nome \in Nomes /\ p.lida \in Linha \cup {Nenhum}
  BY <1>1, PedidoEmCurso
<1>3. p.lida # Nenhum /\ linha[c] # Nenhum
  BY <1>1 DEF InvCertificados, Referencias
<1>4. nova \in Linha
  BY <1>2, <1>3 DEF Linha
<1>5. /\ GravarLinha(c, p.lida, nova) /\ pedido' = [pedido EXCEPT ![r] = Nenhum]
      /\ UNCHANGED <<envios, segredo, objeto, rotacao, desencontro>>
  BY DEF ConcluirPendente
<1> HIDE DEF nova
<1>6. /\ linha' \in [Certs -> Linha \cup {Nenhum}] /\ linha'[c] \in Linha
      /\ \A d \in Certs \ {c} : linha'[d] = linha[d]
  BY <1>1, <1>2, <1>3, <1>4, <1>5, LinhaGravada
<1>7. /\ EmCurso' = EmCurso \ {r} /\ pedido' \in [Pedidos -> Pedido \cup {Nenhum}]
      /\ \A s \in EmCurso' : s \in EmCurso /\ pedido'[s] = pedido[s]
  BY <1>1, <1>5, AoAcabar
<1>8. \A d \in Certs : linha'[d] = Nenhum => linha[d] = Nenhum
  BY <1>6, NenhumADistinguir
<1>9. TiposCertificados'
  BY <1>1, <1>5, <1>6, <1>7 DEF TiposCertificados
<1>10. Referencias' /\ ChavePorFase' /\ PendenteSemSenha'
  <2>1. Referencias'
    BY <1>1, <1>5, <1>7, <1>8, PedidoEmCurso DEF InvCertificados, Referencias
  <2>2. ChavePorFase'
    BY <1>5 DEF InvCertificados, ChavePorFase
  <2>3. PendenteSemSenha'
    BY <1>5, <1>7 DEF InvCertificados, PendenteSemSenha
  <2> QED
    BY <2>1, <2>2, <2>3
<1>11. SoEla' /\ EscolhaMantida'
  <2>1. \A s \in EmCurso' : ~pedido'[s].sozinho
    \* Whoever is left was not alone.
    BY <1>1, <1>7 DEF InvCertificados, SoEla
  <2> QED
    BY <2>1 DEF SoEla, EscolhaMantida
<1>12. SegredoDoObjeto'
  <2> SUFFICES ASSUME NEW d \in Certs, linha'[d] # Nenhum, linha'[d].nome # "pending",
                      segredo[d] # Nenhum, d \notin desencontro,
                      \A s \in EmCurso' : pedido'[s].cert # d
               PROVE  objeto[d][linha'[d].nome].pfx = segredo[d].pfx
    BY <1>5 DEF SegredoDoObjeto
  <2>1. d # c
    BY <1>1 DEF InvCertificados, PendenteSemSenha
  <2>2. \A s \in EmCurso : pedido[s].cert # d
    BY <1>7, <2>1
  <2> QED
    BY <1>6, <2>1, <2>2 DEF InvCertificados, SegredoDoObjeto
<1> QED
  BY <1>9, <1>10, <1>11, <1>12 DEF InvCertificados

\* The row and the password of an upload, or of a tested password.
LEMMA SalvarPreserva ==
  ASSUME InvCertificados, NEW r \in Pedidos, Salvar(r) PROVE InvCertificados'
<1> DEFINE p == pedido[r]
           c == p.cert
           nova == ComSenha(p)
<1>1. TiposCertificados /\ r \in EmCurso /\ p.tipo \notin {"novo", "guardado"}
  BY DEF InvCertificados, Salvar
<1>2. /\ c \in Certs /\ p.nome \in Nomes /\ p.pfx \in Pfx /\ p.lida \in Linha \cup {Nenhum}
      /\ p.ativo \in BOOLEAN /\ p.sozinho \in BOOLEAN
  BY <1>1, PedidoEmCurso
<1>3. /\ p.lida # Nenhum => linha[c] # Nenhum
      /\ p.tipo = "senha" => p.lida # Nenhum
  BY <1>1 DEF InvCertificados, Referencias
<1>4. nova \in Linha /\ nova.nome = IF p.tipo = "senha" THEN p.lida.nome ELSE p.nome
  BY <1>2, <1>3 DEF Linha, ComSenha
<1>5. /\ GravarLinha(c, p.lida, nova) /\ pedido' = [pedido EXCEPT ![r] = Nenhum]
      /\ segredo' = [segredo EXCEPT ![c] = [pfx |-> p.pfx, chave |-> ChaveQueCifra]]
      /\ UNCHANGED <<envios, objeto, rotacao>>
      /\ desencontro' = IF ~p.sozinho THEN desencontro \cup {c}
                        ELSE IF p.tipo = "senha" THEN desencontro ELSE desencontro \ {c}
  BY DEF Salvar, SalvarSegredo
<1> HIDE DEF nova
<1>6. /\ linha' \in [Certs -> Linha \cup {Nenhum}] /\ linha'[c] \in Linha
      /\ \A d \in Certs \ {c} : linha'[d] = linha[d]
      /\ linha'[c].nome = IF p.lida # Nenhum /\ p.lida.nome = nova.nome THEN linha[c].nome ELSE nova.nome
  BY <1>1, <1>2, <1>3, <1>4, <1>5, LinhaGravada
<1>7. /\ EmCurso' = EmCurso \ {r} /\ pedido' \in [Pedidos -> Pedido \cup {Nenhum}]
      /\ \A s \in EmCurso' : s \in EmCurso /\ pedido'[s] = pedido[s]
  BY <1>1, <1>5, AoAcabar
<1>8. \A d \in Certs : linha'[d] = Nenhum => linha[d] = Nenhum /\ d # c
  BY <1>6, NenhumADistinguir
<1>9. ChaveQueCifra = IF rotacao.fase = "antiga" THEN "antiga" ELSE "nova"
  BY DEF ChaveQueCifra
<1>10. segredo'[c] = [pfx |-> p.pfx, chave |-> ChaveQueCifra] /\ segredo'[c] \in Segredo
       /\ \A d \in Certs \ {c} : segredo'[d] = segredo[d]
  BY <1>1, <1>2, <1>5, <1>9 DEF TiposCertificados, Segredo
<1>11. TiposCertificados'
  BY <1>1, <1>2, <1>5, <1>6, <1>7, <1>10 DEF TiposCertificados
<1>12. Referencias' /\ ChavePorFase'
  <2>1. \A d \in Certs : linha'[d] = Nenhum => segredo'[d] = Nenhum
    BY <1>8, <1>10 DEF InvCertificados, Referencias
  <2>2. Referencias'
    BY <1>1, <1>7, <1>8, <2>1, PedidoEmCurso DEF InvCertificados, Referencias
  <2>3. segredo'[c].chave = ChaveQueCifra
    BY <1>10
  <2>4. ChavePorFase'
    BY <1>5, <1>9, <1>10, <2>3 DEF InvCertificados, ChavePorFase
  <2> QED
    BY <2>2, <2>4
<1>13. SoEla' /\ EscolhaMantida'
  <2>1. \A s \in EmCurso' : ~pedido'[s].sozinho
    \* Whoever is left was not alone.
    BY <1>1, <1>7 DEF InvCertificados, SoEla
  <2> QED
    BY <2>1 DEF SoEla, EscolhaMantida
<1>14. EmCurso' # {} => ~p.sozinho
  BY <1>1, <1>7 DEF InvCertificados, SoEla
<1>15. PendenteSemSenha'
  <2> SUFFICES ASSUME NEW s \in EmCurso', pedido[s].tipo \in {"novo", "guardado"},
                      pedido[s].cert \notin desencontro'
               PROVE  segredo'[pedido[s].cert] = Nenhum
    BY <1>7 DEF PendenteSemSenha
  <2>1. pedido[s].cert # c /\ pedido[s].cert \notin desencontro
    BY <1>5, <1>14
  <2> QED
    BY <1>1, <1>7, <1>10, <2>1, PedidoEmCurso DEF InvCertificados, PendenteSemSenha
<1>16. SegredoDoObjeto'
  <2> SUFFICES ASSUME NEW d \in Certs, linha'[d] # Nenhum, linha'[d].nome # "pending",
                      segredo'[d] # Nenhum, d \notin desencontro',
                      \A s \in EmCurso' : pedido'[s].cert # d
               PROVE  objeto[d][linha'[d].nome].pfx = segredo'[d].pfx
    BY <1>5 DEF SegredoDoObjeto
  <2>1. CASE d # c
    <3>1. \A s \in EmCurso : pedido[s].cert # d
      BY <1>7, <2>1
    <3> QED
      BY <1>5, <1>6, <1>10, <2>1, <3>1 DEF InvCertificados, SegredoDoObjeto
  <2>2. CASE d = c
    <3>1. p.sozinho
      BY <1>2, <1>5, <2>2
    <3>2. /\ objeto[c][p.nome] = [pfx |-> p.pfx]
          /\ p.tipo = "senha" => p.nome = p.lida.nome
          /\ p.lida # Nenhum => linha[c].nome = p.lida.nome
      BY <1>1, <3>1 DEF InvCertificados, SoEla, ObjetoDoPedido, LinhaDoPedido
    <3>3. linha'[c].nome = p.nome
      BY <1>3, <1>4, <1>6, <3>2
    <3> QED
      BY <1>10, <2>2, <3>2, <3>3
  <2> QED
    BY <2>1, <2>2
<1> QED
  BY <1>11, <1>12, <1>13, <1>15, <1>16 DEF InvCertificados

\* A request that gives up keeps the invariant.
LEMMA DesistirPreserva ==
  ASSUME InvCertificados, NEW r \in Pedidos, Desistir(r) PROVE InvCertificados'
<1> DEFINE c == pedido[r].cert
<1>1. TiposCertificados /\ r \in EmCurso
  BY DEF InvCertificados, Desistir
<1>2. c \in Certs
  BY <1>1, PedidoEmCurso
<1>3. /\ pedido' = [pedido EXCEPT ![r] = Nenhum] /\ desencontro' = desencontro \cup {c}
      /\ UNCHANGED <<envios, linha, segredo, objeto, rotacao>>
  BY DEF Desistir
<1>4. /\ EmCurso' = EmCurso \ {r} /\ pedido' \in [Pedidos -> Pedido \cup {Nenhum}]
      /\ \A s \in EmCurso' : s \in EmCurso /\ pedido'[s] = pedido[s]
  BY <1>1, <1>3, AoAcabar
<1>5. TiposCertificados'
  BY <1>1, <1>2, <1>3, <1>4 DEF TiposCertificados
<1>6. Referencias' /\ ChavePorFase' /\ PendenteSemSenha'
  BY <1>3, <1>4 DEF InvCertificados, Referencias, ChavePorFase, PendenteSemSenha
<1>7. SoEla' /\ EscolhaMantida'
  <2>1. \A s \in EmCurso' : ~pedido'[s].sozinho
    \* Whoever is left was not alone.
    BY <1>1, <1>4 DEF InvCertificados, SoEla
  <2> QED
    BY <2>1 DEF SoEla, EscolhaMantida
<1>8. SegredoDoObjeto'
  <2> SUFFICES ASSUME NEW d \in Certs, linha[d] # Nenhum, linha[d].nome # "pending",
                      segredo[d] # Nenhum, d \notin desencontro, d # c,
                      \A s \in EmCurso' : pedido'[s].cert # d
               PROVE  objeto[d][linha[d].nome].pfx = segredo[d].pfx
    BY <1>3 DEF SegredoDoObjeto
  <2>1. \A s \in EmCurso : pedido[s].cert # d
    BY <1>4
  <2> QED
    BY <2>1 DEF InvCertificados, SegredoDoObjeto
<1> QED
  BY <1>5, <1>6, <1>7, <1>8 DEF InvCertificados

\* A password saved without a test keeps the invariant.
LEMMA SalvarSenhaSemTestePreserva ==
  ASSUME InvCertificados, NEW c \in Certs, NEW v \in Pfx, SalvarSenhaSemTeste(c, v)
  PROVE  InvCertificados'
<1>1. TiposCertificados /\ linha[c] \in Linha
  BY DEF InvCertificados, TiposCertificados, SalvarSenhaSemTeste
<1>2. /\ linha' = [linha EXCEPT ![c].temSenha = TRUE] /\ desencontro' = desencontro \cup {c}
      /\ segredo' = [segredo EXCEPT ![c] = [pfx |-> v, chave |-> ChaveQueCifra]]
      /\ UNCHANGED <<objeto, pedido, rotacao>> /\ envios' \in Nat
  BY <1>1 DEF SalvarSenhaSemTeste, SalvarSegredo, Contar, TiposCertificados
<1>3. ChaveQueCifra = IF rotacao.fase = "antiga" THEN "antiga" ELSE "nova"
  BY DEF ChaveQueCifra
<1>4. /\ segredo' \in [Certs -> Segredo \cup {Nenhum}]
      /\ segredo'[c].chave = ChaveQueCifra /\ \A d \in Certs \ {c} : segredo'[d] = segredo[d]
  BY <1>1, <1>2, <1>3 DEF TiposCertificados, Segredo
<1>5. /\ linha' \in [Certs -> Linha \cup {Nenhum}] /\ linha'[c] \in Linha
      /\ linha'[c].nome = linha[c].nome /\ linha'[c].pfx = linha[c].pfx
      /\ linha'[c].ativo = linha[c].ativo
      /\ \A d \in Certs \ {c} : linha'[d] = linha[d]
  BY <1>1, <1>2 DEF TiposCertificados, Linha
<1>6. \A d \in Certs : linha'[d] # Nenhum <=> linha[d] # Nenhum
  BY <1>1, <1>5, NenhumADistinguir
<1>7. EmCurso' = EmCurso
  BY <1>2 DEF EmCurso
<1>8. TiposCertificados'
  BY <1>1, <1>2, <1>4, <1>5 DEF TiposCertificados
<1>9. Referencias'
  <2>1. \A d \in Certs : linha'[d] = Nenhum => segredo'[d] = Nenhum
    BY <1>4, <1>5, <1>6, NenhumADistinguir DEF InvCertificados, Referencias
  <2> QED
    BY <1>1, <1>2, <1>6, <1>7, <2>1, PedidoEmCurso DEF InvCertificados, Referencias
<1>10. ChavePorFase'
  BY <1>2, <1>3, <1>4 DEF InvCertificados, ChavePorFase
<1>11. SoEla' /\ EscolhaMantida'
  <2>1. \A u \in Pfx : Reaproveitavel(u)' = Reaproveitavel(u)
    BY <1>5, <1>6, MesmaEscolha DEF Ativa
  <2>2. \A r \in EmCurso : pedido[r].cert \in Certs /\ pedido[r].pfx \in Pfx
    BY <1>1, PedidoEmCurso
  <2>3. SoEla'
    <3>1. \A d \in Certs : /\ linha'[d] # Nenhum <=> linha[d] # Nenhum
                          /\ linha'[d].nome = linha[d].nome /\ linha'[d].pfx = linha[d].pfx
      BY <1>5, <1>6
    <3>2. ASSUME NEW r \in EmCurso, LinhaDoPedido(pedido[r])
          PROVE  LinhaDoPedido(pedido[r])'
      <4> DEFINE d == pedido[r].cert
                 l == pedido[r].lida
      <4>1. d \in Certs
        BY <2>2
      <4>2. linha[d] = l \/ (l # Nenhum /\ linha[d] # Nenhum /\ linha[d].nome = l.nome /\ linha[d].pfx = l.pfx)
        BY <3>2 DEF LinhaDoPedido
      <4>3. /\ linha'[d] # Nenhum <=> linha[d] # Nenhum
            /\ linha'[d].nome = linha[d].nome /\ linha'[d].pfx = linha[d].pfx
        <5> HIDE DEF d
        <5> QED BY <3>1, <4>1
      <4>4. linha'[d] = l \/ (l # Nenhum /\ linha'[d] # Nenhum /\ linha'[d].nome = l.nome /\ linha'[d].pfx = l.pfx)
        <5> HIDE DEF d, l
        <5> QED BY <4>2, <4>3
      <4> QED
        BY <1>2, <4>4 DEF LinhaDoPedido
    <3>3. ASSUME NEW r \in EmCurso, ObjetoDoPedido(pedido[r])
          PROVE  ObjetoDoPedido(pedido[r])'
      BY <1>2, <3>3 DEF ObjetoDoPedido
    <3> QED
      BY <1>2, <1>7, <3>2, <3>3 DEF InvCertificados, SoEla
  <2>4. EscolhaMantida'
    BY <1>2, <1>7, <2>1, <2>2 DEF InvCertificados, EscolhaMantida, EhMaisNova
  <2> QED
    BY <2>3, <2>4
<1>12. PendenteSemSenha'
  BY <1>1, <1>2, <1>4, <1>7, PedidoEmCurso DEF InvCertificados, PendenteSemSenha
<1>13. SegredoDoObjeto'
  BY <1>2, <1>4, <1>5, <1>7 DEF InvCertificados, SegredoDoObjeto
<1> QED
  BY <1>8, <1>9, <1>10, <1>11, <1>12, <1>13 DEF InvCertificados

\* What changes a row or removes a password ends the solitude of every request.
LEMMA EdicaoPreserva ==
  ASSUME InvCertificados, NEW c \in Certs, RemoverSenha(c) \/ \E valor \in BOOLEAN : AlterarAtivo(c, valor)
  PROVE  InvCertificados'
<1> DEFINE nao == FALSE
           outro(s) == [pedido[s] EXCEPT !.sozinho = nao]
<1>1. TiposCertificados /\ linha[c] \in Linha
  BY DEF InvCertificados, TiposCertificados, RemoverSenha, AlterarAtivo
<1>2. /\ pedido' = [r \in Pedidos |-> IF r \in EmCurso THEN outro(r) ELSE Nenhum]
      /\ UNCHANGED <<objeto, rotacao, desencontro>> /\ envios' \in Nat
  BY <1>1 DEF RemoverSenha, AlterarAtivo, MarcarSobrepostos, Contar, TiposCertificados
<1>3. nao \in BOOLEAN /\ ~nao
  OBVIOUS
<1> HIDE DEF nao
<1>4. \A s \in EmCurso :
        /\ s \in Pedidos /\ outro(s) \in Pedido /\ ~outro(s).sozinho
        /\ outro(s).tipo = pedido[s].tipo /\ outro(s).cert = pedido[s].cert
        /\ outro(s).lida = pedido[s].lida
  BY <1>1, <1>3, PedidoEmCurso, MesmoPedido
<1> HIDE DEF outro
<1>5. pedido' \in [Pedidos -> Pedido \cup {Nenhum}] /\ EmCurso' = EmCurso
  BY <1>2, <1>4, NenhumADistinguir DEF EmCurso
<1>6. \A s \in EmCurso :
        /\ ~pedido'[s].sozinho
        /\ pedido'[s].tipo = pedido[s].tipo /\ pedido'[s].cert = pedido[s].cert
        /\ pedido'[s].lida = pedido[s].lida
  BY <1>2, <1>4
<1>7. /\ segredo' = segredo \/ segredo' = [segredo EXCEPT ![c] = Nenhum]
      /\ \/ linha' = [linha EXCEPT ![c].temSenha = FALSE]
         \/ \E valor \in BOOLEAN : linha' = [linha EXCEPT ![c].ativo = valor]
  BY DEF RemoverSenha, AlterarAtivo
<1>8. /\ segredo' \in [Certs -> Segredo \cup {Nenhum}]
      /\ \A d \in Certs : segredo'[d] \in {segredo[d], Nenhum}
  BY <1>1, <1>7 DEF TiposCertificados
<1>9. /\ linha' \in [Certs -> Linha \cup {Nenhum}] /\ linha'[c] \in Linha
      /\ linha'[c].nome = linha[c].nome
      /\ \A d \in Certs \ {c} : linha'[d] = linha[d]
  <2>1. CASE linha' = [linha EXCEPT ![c].temSenha = FALSE]
    BY <1>1, <2>1 DEF TiposCertificados, Linha
  <2>2. ASSUME NEW valor \in BOOLEAN, linha' = [linha EXCEPT ![c].ativo = valor]
        PROVE  /\ linha' \in [Certs -> Linha \cup {Nenhum}] /\ linha'[c] \in Linha
               /\ linha'[c].nome = linha[c].nome
               /\ \A d \in Certs \ {c} : linha'[d] = linha[d]
    BY <1>1, <2>2 DEF TiposCertificados, Linha
  <2> QED
    BY <1>7, <2>1, <2>2
<1>10. \A d \in Certs : linha'[d] # Nenhum <=> linha[d] # Nenhum
  BY <1>1, <1>9, NenhumADistinguir
<1>11. TiposCertificados'
  BY <1>1, <1>2, <1>5, <1>8, <1>9 DEF TiposCertificados
<1>12. Referencias'
  BY <1>1, <1>5, <1>6, <1>8, <1>10, PedidoEmCurso DEF InvCertificados, Referencias
<1>13. ChavePorFase'
  BY <1>2, <1>8 DEF InvCertificados, ChavePorFase
<1>14. SoEla' /\ EscolhaMantida'
  BY <1>5, <1>6 DEF SoEla, EscolhaMantida
<1>15. PendenteSemSenha'
  BY <1>1, <1>2, <1>5, <1>6, <1>8, PedidoEmCurso DEF InvCertificados, PendenteSemSenha
<1>16. SegredoDoObjeto'
  <2>1. \A d \in Certs : linha'[d] # Nenhum => linha[d] # Nenhum /\ linha'[d].nome = linha[d].nome
    BY <1>9, <1>10
  <2>2. \A d \in Certs : segredo'[d] # Nenhum => segredo'[d] = segredo[d]
    BY <1>8
  <2>3. \A d \in Certs : (\A r \in EmCurso' : pedido'[r].cert # d) =>
                         (\A r \in EmCurso : pedido[r].cert # d)
    BY <1>5, <1>6
  <2> QED
    BY <1>2, <2>1, <2>2, <2>3 DEF InvCertificados, SegredoDoObjeto
<1> QED
  BY <1>11, <1>12, <1>13, <1>14, <1>15, <1>16 DEF InvCertificados

\* The script of the rotation and the restarts before and after it.
LEMMA RotacaoPreserva ==
  ASSUME InvCertificados, ConfigurarNova \/ LerSegredos \/ GravarSegredos \/ RetirarAntiga
  PROVE  InvCertificados'
<1>1. TiposCertificados
  BY DEF InvCertificados
<1>2. UNCHANGED <<envios, linha, objeto, pedido>> /\ EmCurso' = EmCurso
  BY DEF ConfigurarNova, LerSegredos, GravarSegredos, RetirarAntiga, EmCurso
<1>3. \A v \in Pfx : Reaproveitavel(v)' = Reaproveitavel(v)
  BY <1>2, MesmaEscolha DEF Ativa
<1>4. SoEla' /\ EscolhaMantida'
  <2>1. \A r \in EmCurso : pedido[r].pfx \in Pfx
    BY <1>1, PedidoEmCurso
  <2> QED
    BY <1>2, <1>3, <2>1 DEF InvCertificados, SoEla, ObjetoDoPedido, LinhaDoPedido, EscolhaMantida,
       EhMaisNova
<1>5. CASE UNCHANGED <<segredo, desencontro>>
  <2>1. rotacao' \in [fase : {"antiga", "ambas", "lida", "gravada", "nova"},
                      copia : [Certs -> Segredo \cup {Nenhum}]]
    BY <1>1, <1>5 DEF TiposCertificados, ConfigurarNova, LerSegredos, GravarSegredos, RetirarAntiga
  <2>2. TiposCertificados'
    BY <1>1, <1>2, <1>5, <2>1 DEF TiposCertificados
  <2>3. ChavePorFase'
    <3>1. CASE ConfigurarNova \/ RetirarAntiga
      BY <1>1, <1>5, <3>1 DEF InvCertificados, TiposCertificados, ChavePorFase, ConfigurarNova,
         RetirarAntiga
    <3>2. CASE LerSegredos
      BY <1>5, <3>2 DEF ChavePorFase, LerSegredos
    <3>3. CASE GravarSegredos
      <4>1. CASE rotacao' = [rotacao EXCEPT !.fase = "ambas"]
        BY <1>1, <1>5, <4>1 DEF TiposCertificados, ChavePorFase
      <4>2. CASE rotacao' # [rotacao EXCEPT !.fase = "ambas"]
        <5>1. /\ rotacao.fase = "lida" /\ rotacao' = [rotacao EXCEPT !.fase = "gravada"]
              /\ \A c \in Certs : rotacao.copia[c] # Nenhum =>
                   segredo'[c] = [rotacao.copia[c] EXCEPT !.chave = "nova"]
              /\ rotacao.copia \in [Certs -> Segredo \cup {Nenhum}]
          BY <1>1, <3>3, <4>2 DEF GravarSegredos, Recifrar, ChaveQueCifra, TiposCertificados
        <5>2. \A c \in Certs : segredo'[c] # Nenhum => segredo'[c].chave = "nova"
          BY <1>5, <5>1 DEF InvCertificados, ChavePorFase, Segredo
        <5> QED
          BY <1>1, <5>1, <5>2 DEF TiposCertificados, ChavePorFase
      <4> QED
        BY <4>1, <4>2
    <3> QED
      BY <3>1, <3>2, <3>3
  <2>4. Referencias' /\ PendenteSemSenha' /\ SegredoDoObjeto'
    BY <1>2, <1>5 DEF InvCertificados, Referencias, PendenteSemSenha, SegredoDoObjeto
  <2> QED
    BY <1>4, <2>2, <2>3, <2>4 DEF InvCertificados
<1>6. CASE ~UNCHANGED <<segredo, desencontro>>
  <2> DEFINE copia == rotacao.copia
             novo(c) == [copia[c] EXCEPT !.chave = "nova"]
  <2>1. /\ rotacao.fase = "lida" /\ rotacao' = [rotacao EXCEPT !.fase = "gravada"]
        /\ \A c \in Certs : copia[c] # Nenhum => segredo[c] # Nenhum
        /\ segredo' = [c \in Certs |-> IF copia[c] # Nenhum THEN novo(c) ELSE segredo[c]]
        /\ desencontro' = desencontro \cup {c \in Certs : copia[c] # Nenhum /\ copia[c] # segredo[c]}
    BY <1>6 DEF ConfigurarNova, LerSegredos, GravarSegredos, RetirarAntiga, Recifrar, ChaveQueCifra
  <2>2. \A c \in Certs : copia[c] # Nenhum =>
          novo(c) \in Segredo /\ novo(c).chave = "nova" /\ novo(c).pfx = copia[c].pfx
    BY <1>1 DEF TiposCertificados, Segredo
  <2> HIDE DEF novo
  <2>3. /\ segredo' \in [Certs -> Segredo \cup {Nenhum}]
        /\ \A c \in Certs : segredo'[c] = Nenhum <=> segredo[c] = Nenhum
    BY <1>1, <2>1, <2>2, NenhumADistinguir DEF TiposCertificados
  <2>4. TiposCertificados'
    <3>1. rotacao' \in [fase : {"antiga", "ambas", "lida", "gravada", "nova"},
                        copia : [Certs -> Segredo \cup {Nenhum}]] /\ desencontro' \in SUBSET Certs
      BY <1>1, <2>1 DEF TiposCertificados
    <3> QED
      BY <1>1, <1>2, <2>3, <3>1 DEF TiposCertificados
  <2>5. Referencias'
    BY <1>2, <2>3 DEF InvCertificados, Referencias
  <2>6. ChavePorFase'
    <3>1. rotacao'.fase = "gravada"
      BY <1>1, <2>1 DEF TiposCertificados
    <3>2. \A c \in Certs : segredo'[c] # Nenhum => segredo'[c].chave = "nova"
      BY <2>1, <2>2 DEF InvCertificados, ChavePorFase
    <3> QED
      BY <3>1, <3>2 DEF ChavePorFase
  <2>7. PendenteSemSenha'
    BY <1>1, <1>2, <2>1, <2>3, PedidoEmCurso DEF InvCertificados, PendenteSemSenha
  <2>8. SegredoDoObjeto'
    <3>1. \A c \in Certs \ desencontro' : segredo'[c].pfx = segredo[c].pfx
      BY <2>1, <2>2
    <3> QED
      BY <1>2, <2>1, <2>3, <3>1 DEF InvCertificados, SegredoDoObjeto
  <2> QED
    BY <1>4, <2>4, <2>5, <2>6, <2>7, <2>8 DEF InvCertificados
<1> QED
  BY <1>5, <1>6

\* Every step keeps the invariant.
LEMMA PassoCertificadosPreserva ==
  InvCertificados /\ [NextCertificados]_varsCertificados => InvCertificados'
<1> SUFFICES ASSUME InvCertificados, [NextCertificados]_varsCertificados PROVE InvCertificados'
  OBVIOUS
<1>1. ASSUME NEW r \in Pedidos, NEW c \in Certs, NEW v \in Pfx, NEW n \in Nomes,
             CriarPendente(r, c, v, n) \/ Autocadastrar(r, c, v, n) \/ TrocarPfx(r, c, v, n)
      PROVE  InvCertificados'
  BY <1>1, CriarPendentePreserva, EnvioPreserva
<1>2. ASSUME NEW r \in Pedidos,
             GuardarPendente(r) \/ ConcluirPendente(r) \/ Salvar(r) \/ Desistir(r)
      PROVE  InvCertificados'
  BY <1>2, GuardarPendentePreserva, ConcluirPendentePreserva, SalvarPreserva, DesistirPreserva
<1>3. ASSUME NEW r \in Pedidos, NEW c \in Certs, TestarSenha(r, c) PROVE InvCertificados'
  BY <1>3, TestarSenhaPreserva
<1>4. ASSUME NEW c \in Certs, NEW v \in Pfx, SalvarSenhaSemTeste(c, v) PROVE InvCertificados'
  BY <1>4, SalvarSenhaSemTestePreserva
<1>5. ASSUME NEW c \in Certs, RemoverSenha(c) \/ \E valor \in BOOLEAN : AlterarAtivo(c, valor)
      PROVE  InvCertificados'
  BY <1>5, EdicaoPreserva
<1>6. CASE ConfigurarNova \/ LerSegredos \/ GravarSegredos \/ RetirarAntiga
  BY <1>6, RotacaoPreserva
<1>7. CASE UNCHANGED varsCertificados
  <2>1. UNCHANGED <<linha, segredo, objeto, pedido, envios, rotacao, desencontro>>
    BY <1>7 DEF varsCertificados
  <2>2. EmCurso' = EmCurso
    BY <2>1 DEF EmCurso
  <2>3. TiposCertificados' /\ Referencias' /\ ChavePorFase'
    BY <2>1, <2>2 DEF InvCertificados, TiposCertificados, Referencias, ChavePorFase
  <2>4. SoEla'
    BY <2>1, <2>2 DEF InvCertificados, SoEla, ObjetoDoPedido, LinhaDoPedido
  <2>5. EscolhaMantida'
    <3>1. \A v \in Pfx : Reaproveitavel(v)' = Reaproveitavel(v)
      BY <2>1, MesmaEscolha DEF Ativa
    <3>2. \A r \in EmCurso : pedido[r].pfx \in Pfx
      BY PedidoEmCurso DEF InvCertificados
    <3> QED
      BY <2>1, <2>2, <3>1, <3>2 DEF InvCertificados, EscolhaMantida, EhMaisNova
  <2>6. PendenteSemSenha' /\ SegredoDoObjeto'
    BY <2>1, <2>2 DEF InvCertificados, PendenteSemSenha, SegredoDoObjeto
  <2> QED
    BY <2>3, <2>4, <2>5, <2>6 DEF InvCertificados
<1> QED
  BY <1>1, <1>2, <1>3, <1>4, <1>5, <1>6, <1>7 DEF NextCertificados

\* The inductive invariant of the certificates.
THEOREM InvarianciaCertificados == SpecCertificados => []InvCertificados
BY InicialCertificados, PassoCertificadosPreserva, PTL DEF SpecCertificados

\* The recipe of secrets_service loses no password: what the script did not
\* read was saved under the new key, so the old one can be dropped.
THEOREM NenhumaSenhaPerdida == SpecCertificados => []SenhasAtravessamATroca
<1>1. InvCertificados => SenhasAtravessamATroca
  <2> SUFFICES ASSUME InvCertificados, NEW c \in Certs, segredo[c] # Nenhum
               PROVE  segredo[c].chave \in ChavesQueDecifram
    BY DEF SenhasAtravessamATroca, Legivel
  <2>1. rotacao.fase \in {"antiga", "ambas", "lida", "gravada", "nova"}
    BY DEF InvCertificados, TiposCertificados
  <2>2. segredo[c].chave \in {"antiga", "nova"}
    BY DEF InvCertificados, TiposCertificados, Segredo
  <2>3. /\ rotacao.fase = "antiga" => segredo[c].chave = "antiga"
        /\ rotacao.fase = "nova" => segredo[c].chave = "nova"
    BY DEF InvCertificados, ChavePorFase
  <2> QED
    BY <2>1, <2>2, <2>3 DEF ChavesQueDecifram
<1> QED
  BY <1>1, InvarianciaCertificados, PTL

\* Whatever uploads, renewals, tested passwords and edits of a company meet, a
\* certificate the scheduler would consult opens with the password stored for
\* it, unless one of its saves was cut, overlapped another or was not tested.
THEOREM ElegivelSempreAbre == SpecCertificados => []ElegivelAbre
<1>1. InvCertificados => ElegivelAbre
  BY DEF InvCertificados, SegredoDoObjeto, ElegivelAbre, Elegivel, Ativa, Legivel
<1> QED
  BY <1>1, InvarianciaCertificados, PTL

-----------------------------------------------------------------------------
\* The active rows of the holder after a registration: no more than before, or
\* the one it was registered in.
LEMMA RenovacaoSobreAMesma ==
  ASSUME InvCertificados, NEW r \in EmCurso, pedido[r].tipo = "auto", pedido[r].sozinho, Salvar(r),
         NEW v, v = pedido[r].pfx
  PROVE  DoTitular(v)' \subseteq DoTitular(v) \/ DoTitular(v)' \subseteq {pedido[r].cert}
<1> DEFINE p == pedido[r]
           c == p.cert
           nova == [ativo |-> p.ativo, nome |-> p.nome, pfx |-> p.pfx, temSenha |-> TRUE]
<1>1. TiposCertificados
  BY DEF InvCertificados
<1>2. /\ c \in Certs /\ p.nome \in Nomes /\ p.pfx \in Pfx /\ p.lida \in Linha \cup {Nenhum}
      /\ p.ativo \in BOOLEAN
  BY <1>1, PedidoEmCurso
<1>3. GravarLinha(c, p.lida, nova)
  BY DEF Salvar, ComSenha
<1>4. p.lida # Nenhum => linha[c] # Nenhum
  BY DEF InvCertificados, Referencias
<1>5. \A d \in Certs \ {c} : linha'[d] = linha[d]
  BY <1>1, <1>2, <1>3 DEF GravarLinha, TiposCertificados
<1>6. \A d \in Certs \ {c} : d \in DoTitular(v)' => d \in DoTitular(v)
  BY <1>5 DEF DoTitular, Ativa
<1>7. CASE c \in DoTitular(v)
  BY <1>6, <1>7 DEF DoTitular
<1>8. CASE DoTitular(v) = {}
  BY <1>6, <1>8 DEF DoTitular
<1>9. CASE c \notin DoTitular(v) /\ DoTitular(v) # {}
  \* The row was chosen for its PFX, which is then one that no row has metadata of.
  <2>1. IF Reaproveitavel(v) = {} THEN p.lida = Nenhum
        ELSE EhMaisNova(c, Reaproveitavel(v))
    BY DEF InvCertificados, EscolhaMantida
  <2>2. ComEstePfx(v) # {} /\ c \in ComEstePfx(v)
    BY <1>9, <2>1 DEF Reaproveitavel, EhMaisNova
  <2>3. v = SemMetadados /\ linha[c].pfx = v
    BY <1>2, <1>9, <2>2 DEF ComEstePfx, DoTitular
  <2>4. linha'[c].pfx = p.pfx
    <3>1. nova \in Linha /\ nova.pfx = p.pfx
      BY <1>2 DEF Linha
    <3> HIDE DEF nova
    <3> QED
      BY <1>1, <1>2, <1>3, <1>4, <2>3, <3>1, LinhaGravada
  <2>5. c \notin DoTitular(v)'
    BY <2>3, <2>4 DEF DoTitular
  <2> QED
    BY <1>6, <2>5 DEF DoTitular
<1> QED
  BY <1>7, <1>8, <1>9

\* A request is over only by its own step.
LEMMA SoQuemAcaba ==
  ASSUME TiposCertificados, NextCertificados, NEW r \in EmCurso, pedido'[r] = Nenhum
  PROVE  ConcluirPendente(r) \/ Salvar(r) \/ Desistir(r)
<1> DEFINE nao == FALSE
           outro == [pedido[r] EXCEPT !.sozinho = nao]
<1>1. r \in Pedidos /\ pedido[r] \in Pedido /\ pedido[r] # Nenhum /\ nao \in BOOLEAN
  BY PedidoEmCurso, NenhumADistinguir
<1> HIDE DEF nao
<1>2. outro # Nenhum
  BY <1>1, MesmoPedido, NenhumADistinguir
<1>3. ASSUME NEW s \in Pedidos, NEW p, Comecar(s, p) PROVE FALSE
  <2>1. s # r
    BY <1>1, <1>3 DEF Comecar
  <2>2. pedido'[r] = outro
    BY <1>1, <1>3, <2>1 DEF Comecar, nao
  <2> QED
    BY <1>2, <2>2
<1>4. ~MarcarSobrepostos
  <2>1. MarcarSobrepostos => pedido'[r] = outro
    BY <1>1 DEF MarcarSobrepostos, nao
  <2> QED
    BY <1>2, <2>1
<1>5. pedido' # pedido
  BY <1>1
<1>6. ASSUME NEW s \in Pedidos, s # r PROVE ~(ConcluirPendente(s) \/ Salvar(s) \/ Desistir(s))
  <2>1. pedido' = [pedido EXCEPT ![s] = Nenhum] => pedido'[r] = pedido[r]
    BY <1>1, <1>6 DEF TiposCertificados
  <2> QED
    BY <1>1, <2>1 DEF ConcluirPendente, Salvar, Desistir
<1>7. ASSUME NEW s \in Pedidos, NEW c \in Certs, TestarSenha(s, c) PROVE FALSE
  BY <1>3, <1>5, <1>7 DEF TestarSenha
<1>8. ASSUME NEW c \in Certs, NEW v \in Pfx, SalvarSenhaSemTeste(c, v) PROVE FALSE
  BY <1>5, <1>8 DEF SalvarSenhaSemTeste
<1>9. ASSUME NEW c \in Certs, RemoverSenha(c) \/ \E valor \in BOOLEAN : AlterarAtivo(c, valor) PROVE FALSE
  BY <1>4, <1>9 DEF RemoverSenha, AlterarAtivo
<1>10. ~(ConfigurarNova \/ LerSegredos \/ GravarSegredos \/ RetirarAntiga)
  BY <1>5 DEF ConfigurarNova, LerSegredos, GravarSegredos, RetirarAntiga
<1>11. ASSUME NEW s \in Pedidos, NEW c \in Certs, NEW v \in Pfx, NEW n \in Nomes,
              CriarPendente(s, c, v, n) \/ Autocadastrar(s, c, v, n) \/ TrocarPfx(s, c, v, n)
       PROVE  FALSE
  BY <1>3, <1>11 DEF CriarPendente, Autocadastrar, TrocarPfx
<1>12. ASSUME NEW s \in Pedidos, GuardarPendente(s) PROVE FALSE
  <2>1. pedido[s] \in Pedido /\ [pedido[s] EXCEPT !.tipo = "guardado"] \in Pedido
    BY <1>12, PedidoEmCurso DEF GuardarPendente, Pedido
  <2>2. pedido' = [pedido EXCEPT ![s] = [pedido[s] EXCEPT !.tipo = "guardado"]]
    BY <1>12 DEF GuardarPendente
  <2> QED
    BY <1>1, <2>1, <2>2, NenhumADistinguir DEF TiposCertificados
<1> QED
  <2> HIDE DEF outro
  <2> QED
    BY <1>4, <1>6, <1>7, <1>8, <1>9, <1>10, <1>11, <1>12 DEF NextCertificados

\* A registration made alone leaves at most one active row of a holder that had
\* at most one.
THEOREM RenovacaoSubstitui == SpecCertificados => RenovacaoNaoDuplica
<1> DEFINE Condicao(r) == /\ r \in EmCurso /\ pedido[r].tipo = "auto" /\ pedido[r].sozinho
                          /\ pedido'[r] = Nenhum /\ linha' # linha
                          /\ Cardinality(DoTitular(pedido[r].pfx)) <= 1
           Depois(r) == {c \in Certs : /\ linha'[c] # Nenhum /\ linha'[c].ativo
                                       /\ linha'[c].pfx # SemMetadados
                                       /\ Titular[linha'[c].pfx] = Titular[pedido[r].pfx]}
<1>1. ASSUME InvCertificados, NextCertificados, NEW r \in Pedidos, Condicao(r)
      PROVE  Cardinality(Depois(r)) <= 1
  <2> DEFINE v == pedido[r].pfx
  <2>1. Salvar(r)
    <3>1. ConcluirPendente(r) \/ Salvar(r) \/ Desistir(r)
      BY <1>1, SoQuemAcaba DEF InvCertificados
    <3> QED
      BY <1>1, <3>1 DEF ConcluirPendente, Desistir
  <2>2. PICK u : u = v
    OBVIOUS
  <2>3. DoTitular(u)' = Depois(r)
    BY <2>2 DEF DoTitular, Ativa
  <2>4. DoTitular(u)' \subseteq DoTitular(u) \/ DoTitular(u)' \subseteq {pedido[r].cert}
    BY <1>1, <2>1, <2>2, RenovacaoSobreAMesma
  <2>5. IsFiniteSet(DoTitular(u)) /\ Cardinality(DoTitular(u)) <= 1
    <3>1. IsFiniteSet(Certs)
      BY ConstantesCertificados, FS_Interval DEF Certs
    <3> QED
      BY <1>1, <2>2, <3>1, FS_Subset DEF DoTitular
  <2>6. IsFiniteSet({pedido[r].cert}) /\ Cardinality({pedido[r].cert}) = 1
    BY FS_Singleton
  <2>7. \A S, T : IsFiniteSet(T) /\ S \subseteq T =>
          Cardinality(S) \in Nat /\ Cardinality(T) \in Nat /\ Cardinality(S) <= Cardinality(T)
    BY FS_Subset, FS_CardinalityType
  <2> HIDE DEF Depois
  <2> QED
    BY <2>3, <2>4, <2>5, <2>6, <2>7
<1>2. InvCertificados /\ [NextCertificados]_varsCertificados =>
        [\A r \in Pedidos : Condicao(r) => Cardinality(Depois(r)) <= 1]_varsCertificados
  BY <1>1
<1> QED
  BY <1>2, InvarianciaCertificados, PTL DEF SpecCertificados, RenovacaoNaoDuplica
=============================================================================
