SPECIFICATION FairSpec
CONSTANTS
    Proc = {p1, p2, p3}
    NoProc = nadie
    SegmentoId = {1}
    Programas <- MCProgramas
    MAX_COMPACTACIONES = 1
INVARIANTS
    TipoKernelMemoria
    DireccionesVigentes
    RespuestaPropia
    SoloFaltanSinRegistrar
    PcbVivo
PROPERTIES
    TodaConsolaTermina
CHECK_DEADLOCK FALSE
