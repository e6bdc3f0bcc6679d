CONSTANTS
  ana = ana
  rui = rui
  eva = eva
  Pessoas <- MCPessoas
  Fundadora = ana
  Convites = {"k1"}
  MaxUsos = 1
  MaxTentativas = 1
  MaxContas = 3
  MaxSenhas = 2
  MaxPasso = 2
  MaxSegredos = 2
  MaxSessoes = 2
  Processos = {"api1", "api2"}
  MaxHits = 1
  Janela = 1
  MaxTempo = 2
  MaxChegadas = 3
  Pfx = {"p1", "p2"}
  Titular <- MCTitular
  Nomes = {"a", "b"}
  r1 = r1
  r2 = r2
  Pedidos <- MCPedidos
  MaxCerts = 2
  MaxEnvios = 2
SPECIFICATION MCSpec
SYMMETRY Simetria
CHECK_DEADLOCK FALSE
INVARIANTS
  TiposContas
  SessaoComSenhaAtual
  ConviteNaoPassaDosUsos
  SempreHaAdministrador
  CodigoAbreUmaSessao
  AutenticadorZeradoNaoAbre
  LimiteEntreReplicas
  FalhaNaoDaJanelaNova
  ElegivelAbre
  SenhasAtravessamATroca
PROPERTIES
  RenovacaoNaoDuplica
