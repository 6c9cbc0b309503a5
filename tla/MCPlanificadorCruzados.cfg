SPECIFICATION FairSpec
CONSTANTS
    Proc = {p1, p2, p3}
    NoProc = nulo
    Nombre = {"RA", "RB", "OTRO"}
    Recurso = {"RA", "RB"}
    Instancias <- InstanciasUna
    GRADO_MAX = 2
    ALGORITMO = "FIFO"
    Programas <- ProgramasCruzados
INVARIANTS TypeOK UnSoloProcesoEnCpu ContextoDelEjecutado NadieSePierde SinDespertarPerdido EsperasContadas NadieSacaDeColaVacia
PROPERTIES SoloEsperaPorRecursos CicloDeVidaRespetado ProgramaAvanza
CHECK_DEADLOCK FALSE
