SPECIFICATION Spec
CONSTANTS
    Proc = {p1, p2}
    NoProc = nulo
    Nombre = {"DISCO", "OTRO"}
    Recurso = {"DISCO"}
    Instancias <- InstanciasUna
    GRADO_MAX = 2
    ALGORITMO = "FIFO"
    Programas <- ProgramasConRecursos
INVARIANTS FinalizadoCorrectamente
CHECK_DEADLOCK FALSE
