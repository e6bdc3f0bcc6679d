------------------------------ MODULE Limitador -----------------------------
(***************************************************************************)
(* RateLimiterBanco for one key: attempts counted in the database, which    *)
(* every replica shares, and in the memory of each process, which decides   *)
(* alone while the database does not answer.                                *)
(*                                                                         *)
(* An attempt takes the time and counts in memory when it arrives; only     *)
(* then does it wait for a session and for the lock of the key.             *)
(***************************************************************************)
EXTENDS Naturals, FiniteSets

CONSTANTS
  Processos,   \* API processes
  MaxHits,     \* max_attempts
  Janela,      \* window_seconds, in ticks
  MaxTempo,    \* bound: ticks
  MaxChegadas  \* bound: attempts

ASSUME ConstantesLimitador ==
  MaxHits \in Nat \ {0} /\ Janela \in Nat /\ MaxTempo \in Nat /\ MaxChegadas \in Nat

VARIABLES
  banco,       \* rows of tentativas_acesso
  memoria,     \* the deque of each process
  aguardando,  \* attempts that arrived and have no answer
  admitidas,   \* requests let through
  chegadas,    \* how many attempts arrived
  agora,
  historia     \* who asked, whether two asked at once, a process restarted, the
               \* database was away, and it came back

varsLimitador == <<banco, memoria, aguardando, admitidas, chegadas, agora, historia>>

InitLimitador ==
  /\ banco = {} /\ memoria = [p \in Processos |-> {}]
  /\ aguardando = {} /\ admitidas = {} /\ chegadas = 0 /\ agora = 0
  /\ historia = [pediram |-> {}, juntas |-> FALSE, reiniciou |-> FALSE, faltou |-> FALSE, voltou |-> FALSE]

\* Those of the window that ends at t, its first instant included. Nothing
\* bounds them from above: a row may be later than the attempt that counts it.
Recentes(hits, t) == {h \in hits : t <= h.quando + Janela}
Cabe(hits, t) == Cardinality(Recentes(hits, t)) < MaxHits

\* The memory counts first, whoever decides afterwards.
ContarNaReservaDefeituosa(p, t) == UNCHANGED memoria

ContarNaReserva(p, t) ==
  memoria' = IF t.reserva THEN [memoria EXCEPT ![p] = @ \cup {t}] ELSE memoria

Chegar(p) ==
  LET t == [numero |-> chegadas + 1, quem |-> p, quando |-> agora, reserva |-> Cabe(memoria[p], agora)]
  IN /\ chegadas < MaxChegadas
     /\ chegadas' = chegadas + 1
     /\ ContarNaReserva(p, t)
     /\ aguardando' = aguardando \cup {t}
     /\ historia' = [historia EXCEPT !.pediram = @ \cup {p}, !.juntas = @ \/ aguardando # {}]
     /\ UNCHANGED <<banco, admitidas, agora>>

\* INSERT ... WHERE total < max_attempts, under the lock of the key.
BancoPermiteDefeituoso(t) == Cardinality(Recentes(banco, t.quando)) <= MaxHits
BancoPermite(t) == Cabe(banco, t.quando)

InserirNoBanco(t) == banco' = IF BancoPermite(t) THEN banco \cup {t} ELSE banco

Responder(t, permitido) ==
  /\ t \in aguardando
  /\ aguardando' = aguardando \ {t}
  /\ admitidas' = IF permitido THEN admitidas \cup {t} ELSE admitidas

DecidirNoBanco(t) ==
  /\ Responder(t, BancoPermite(t)) /\ InserirNoBanco(t)
  /\ historia' = [historia EXCEPT !.voltou = @ \/ historia.faltou]
  /\ UNCHANGED <<memoria, chegadas, agora>>

\* The database, or a session of the small pool, fails before or after the row
\* is committed.
DecidirSemBanco(t) ==
  /\ Responder(t, t.reserva)
  /\ InserirNoBanco(t) \/ UNCHANGED banco
  /\ historia' = [historia EXCEPT !.faltou = TRUE]
  /\ UNCHANGED <<memoria, chegadas, agora>>

\* The memory starts empty, and who waited gets no answer, although the row of
\* one of them may have been committed.
ReiniciarProcesso(p) ==
  /\ memoria[p] # {}
  /\ memoria' = [memoria EXCEPT ![p] = {}]
  /\ aguardando' = {t \in aguardando : t.quem # p}
  /\ UNCHANGED banco \/ \E t \in aguardando : t.quem = p /\ InserirNoBanco(t)
  /\ historia' = [historia EXCEPT !.reiniciou = TRUE]
  /\ UNCHANGED <<admitidas, chegadas, agora>>

PassarTempo ==
  /\ agora < MaxTempo
  /\ agora' = agora + 1
  /\ UNCHANGED <<banco, memoria, aguardando, admitidas, chegadas, historia>>

NextLimitador ==
  \/ \E p \in Processos : Chegar(p) \/ ReiniciarProcesso(p)
  \/ \E t \in aguardando : DecidirNoBanco(t) \/ DecidirSemBanco(t)
  \/ PassarTempo

SpecLimitador == InitLimitador /\ [][NextLimitador]_varsLimitador

-----------------------------------------------------------------------------
\* While every attempt found the database, whatever the replicas, their
\* restarts and the order in which attempts got the lock, no window admits more
\* than the limit.
LimiteEntreReplicas ==
  ~historia.faltou =>
    \A t \in 0..agora : Cardinality({h \in Recentes(admitidas, t) : h.quando <= t}) <= MaxHits

\* "Uma falha nao deve dar uma janela inteira nova a quem ja consumiu o
\* limite": when the database goes away and stays away, a process that alone
\* saw the key, one attempt at a time, and did not restart, admits in a window
\* no more than the limit, what it admitted with the database included.
FalhaNaoDaJanelaNova ==
  Cardinality(historia.pediram) <= 1
    /\ ~historia.juntas /\ ~historia.reiniciou /\ ~historia.voltou =>
    \A t \in 0..agora : Cardinality({h \in Recentes(admitidas, t) : h.quando <= t}) <= MaxHits
=============================================================================
