SPECIFICATION Spec
CONSTANTS
    Proc = {p1, p2, p3}
    NoProc = nulo
    Nombre = {"DISCO", "OTRO"}
    Recurso = {"DISCO"}
    Instancias <- InstanciasUna
    GRADO_MAX = 3
    ALGORITMO = "HRRN"
    Programas <- ProgramasSueltos
INVARIANTS NadieSePierde
CHECK_DEADLOCK FALSE
