CONSTANTS
  MaxNsu = 4
  Alvos <- EventoNoFim
  Lote = 2
  Limite = 3
  MaxVazios = 1
  Recuo = 1
  RecuoProfundo = 2
  MaxDetalhes = 1
  FimAntigo = 0
  FimMesAnterior = 2
  IniciosDoUsuario = {}
  MaxInterrupcoes = 1
  MaxVazias = 0
  MaxSincronizacoes = 0
  MaxFalhas = 0
SPECIFICATION Spec
INVARIANTS QuedaNaoPerdeDocumento
CHECK_DEADLOCK FALSE
