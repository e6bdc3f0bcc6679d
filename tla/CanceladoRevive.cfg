CONSTANTS
  Workers = {w1}
  Certificados = {c1}
  NumConsultas = 1
  Origens = {"api"}
  MaxFalhas = 0
  MaxAtrasos = 0
  MaxQuedas = 0
  MaxCancelamentos = 1
  Nenhum = Nenhum
SPECIFICATION Spec
PROPERTY CanceladoEhFinal
CHECK_DEADLOCK FALSE
