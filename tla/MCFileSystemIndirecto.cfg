SPECIFICATION Spec
CONSTANTS
    Archivo = {a1, a2}
    BLOCK_COUNT = 7
    BLOCK_SIZE = 2
    Tamanios = {0, 2, 6}
    Accesos <- SinAccesos
    Dato = {0}
PROPERTY IndirectoUnaVez
CHECK_DEADLOCK FALSE
