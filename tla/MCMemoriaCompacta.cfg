SPECIFICATION Spec
CONSTANTS
    Pid = {p1}
    NoPid = nadie
    Descriptor = {d0, d1, d2, d3, d4}
    Compartido = d0
    SegmentoId = {1, 2, 3}
    Tamanios = {1, 2}
    TAM_MEMORIA = 5
    TAM_SEGMENTO_0 = 1
    Algoritmos <- SoloFirst
    Byte = {0}
INVARIANT TrasCompactarHayLugar
CHECK_DEADLOCK FALSE
