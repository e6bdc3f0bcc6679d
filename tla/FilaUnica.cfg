CONSTANTS
  Workers = {w1, w2}
  Certificados = {c1, c2}
  NumConsultas = 3
  Origens = {"agendador"}
  MaxFalhas = 1
  MaxAtrasos = 0
  MaxQuedas = 1
  MaxCancelamentos = 0
  Nenhum = Nenhum
SPECIFICATION Spec
SYMMETRY Simetria
INVARIANT SemConsultaDuplicada
CHECK_DEADLOCK FALSE
