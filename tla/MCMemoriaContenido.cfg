SPECIFICATION Spec
CONSTANTS
    Pid = {p1, p2}
    NoPid = nadie
    Descriptor = {d0, d1, d2, d3, d4}
    Compartido = d0
    SegmentoId = {1}
    Tamanios = {1, 2}
    TAM_MEMORIA = 5
    TAM_SEGMENTO_0 = 1
    Algoritmos <- TodosLosAlgoritmos
    Byte = {0, 1}

PROPERTIES AlmacenRespetado
CHECK_DEADLOCK FALSE
SYMMETRY Simetria
