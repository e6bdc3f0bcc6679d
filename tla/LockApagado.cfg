CONSTANTS
  Workers = {w1, w2}
  Certificados = {c1}
  NumConsultas = 3
  Origens = {"api"}
  MaxFalhas = 1
  MaxAtrasos = 0
  MaxQuedas = 0
  MaxCancelamentos = 0
  Nenhum = Nenhum
SPECIFICATION Spec
INVARIANT LockUnicoPorCertificado
CHECK_DEADLOCK FALSE
