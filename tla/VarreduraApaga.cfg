CONSTANTS
  Notas = {"n1"}
  Antigas = {"n1"}
  ArquivosPfx = {"p1", "p2"}
  XmlsDeEvento = {"x1"}
  Execucoes = {"e1"}
  Parados = {"worker"}
  MaxIds = 1
SPECIFICATION SpecAcervo
CHECK_DEADLOCK FALSE
PROPERTY SoApagaSemRegistro
