SPECIFICATION FairSpec
CONSTANTS
    p1 = p1
    p2 = p2
    p3 = p3
    fA = fA
    fB = fB
    Proc = {p1, p2, p3}
    NoProc = NoProc
    Archivo = {fA, fB}
    NoArchivo = NoArchivo
    Existentes = {fB}
    Programas <- MCProgramas
INVARIANTS
    TipoArchivos
    UnSoloLugar
    SoloCaeEnLaVentana
    CompactacionExcluyeAccesos
    PunteroPropio
PROPERTIES
    CerrojosRespetados
    SoloEsperaPorArchivos
CHECK_DEADLOCK FALSE
