CONSTANTS
  Workers = {w1, w2}
  Certificados = {c1}
  NumConsultas = 2
  Origens = {"api"}
  MaxFalhas = 0
  MaxAtrasos = 0
  MaxQuedas = 1
  MaxCancelamentos = 2
  Nenhum = Nenhum
SPECIFICATION Spec
SYMMETRY Simetria
INVARIANTS TypeOK ExclusaoPorCertificado JobEmUmSoWorker LockSemExecucaoSoDeMorto
PROPERTIES ConcluidaNaoReabre ImplementaExecucao
CHECK_DEADLOCK FALSE
