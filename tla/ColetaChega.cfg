CONSTANTS
  MaxNsu = 3
  Alvos <- NotasOuEventoNoFim
  Lote = 2
  Limite = 2
  MaxVazios = 1
  Recuo = 0
  RecuoProfundo = 2
  MaxDetalhes = 0
  FimAntigo = 0
  FimMesAnterior = 2
  IniciosDoUsuario = {}
  MaxInterrupcoes = 1
  MaxVazias = 0
  MaxSincronizacoes = 1
  MaxFalhas = 1
SPECIFICATION FairSpec
PROPERTIES TodoDocumentoEntra
