CONSTANTS
  MaxPasso = 1
  MaxSegredos = 1
  MaxSessoes = 2
SPECIFICATION SpecSessaoAdmin
CHECK_DEADLOCK FALSE
INVARIANT CodigoNuncaReaproveitado
