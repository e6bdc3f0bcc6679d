CONSTANTS
  Notas = {"n1", "n2"}
  Antigas = {"n1", "n2"}
  ArquivosPfx = {"p1"}
  XmlsDeEvento = {"x1"}
  Execucoes = {"e1", "e2"}
  Parados = {"worker"}
  MaxIds = 3
  Chaves = {"n1", "n2"}
  Eventos = {"ec"}
  Alvo <- MCAlvo
  Efeito <- MCEfeito
  Substitui <- MCSubstitui
  NomePdf <- MCNomePdf
  Escritores = {w1, w2}
  MaxNotas = 3
  Recebidas = {1, 3}
  MaxRelogio = 2
  MaxMudancas = 1
  Limite = 1
  Lote = 2
  MaxExportacao = 2
  Fluxo <- MCFluxo
  MaxConsultas = 3
  MaxQuedas = 2
  MaxTentativas = 2
  Revisores = {ana, rui}
  Pedidos <- MCPedidos
  Leituras <- MCLeituras
  MaxHistorico = 2
  Xmls <- MCXmls
  ValoresHumanos = {777}
  Cnpjs = {"c1"}
  Validade = 2
INIT MCInit
NEXT MCNext
CHECK_DEADLOCK FALSE
INVARIANTS
  ReferenciaTemObjeto
  NotaSempreAchavel
  EventoGravadoVale
  CarimboAcompanha
  LeituraCompleta
  LeituraEmOrdem
  NadaFicaParaTras
  LinhaTemSeuXml
  HistoricoEncadeia
  FilaSegueConferencia
  ResumoNaoSeContradiz
  NotaCertaNaoDiverge
  ReceitaDisseHaPouco
PROPERTIES
  StatusNaoRegride
  DecisaoHumanaFica
