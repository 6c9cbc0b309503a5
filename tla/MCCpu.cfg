SPECIFICATION FairSpec
CONSTANTS
    AX = AX
    CX = CX
    EAX = EAX
    p1 = p1
    p2 = p2
    NUL = NUL
    DATO = DATO
    NoProc = nadie
    Proc = {p1, p2}
    REGISTROS <- MCRegistros
    ANCHO <- MCAncho
    Byte <- MCByte
    POR_STRCPY = {AX}
    TAM_MAX_SEGMENTO = 4
    TAM_SEGMENTO_0 = 3
    TAM_MEMORIA = 8
    Archivos <- MCArchivos
INVARIANTS
    TipoCpu
    AccesosPropios
PROPERTIES
    MaquinaRespetada
    TodoProgramaTermina
CHECK_DEADLOCK FALSE
