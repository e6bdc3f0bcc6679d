CONSTANTS
  MaxNsu = 3
  Alvos <- TodosOsAlvos
  Lote = 2
  Limite = 2
  MaxVazios = 1
  Recuo = 0
  RecuoProfundo = 1
  MaxDetalhes = 1
  FimAntigo = 0
  FimMesAnterior = 2
  IniciosDoUsuario = {0}
  MaxInterrupcoes = 1
  MaxVazias = 1
  MaxSincronizacoes = 1
  MaxFalhas = 1
SPECIFICATION Spec
INVARIANTS TypeOK SemLacuna EventoJaVale
