CONSTANTS
  Workers = {w1, w2}
  Certificados = {c1}
  NumConsultas = 2
  Origens = {"api"}
  MaxFalhas = 1
  MaxAtrasos = 0
  MaxQuedas = 1
  MaxCancelamentos = 0
  Nenhum = Nenhum
  Grupos = {"g1"}
  Empresas = {"c1", "c2"}
  Limite = 2
  Intervalo = 2
SPECIFICATION MCSpec
CHECK_DEADLOCK FALSE
PROPERTIES
  TodaConsultaTermina
  AgendadorVolta
  RodadaCompletaCuida
