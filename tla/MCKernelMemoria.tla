--------------------------- MODULE MCKernelMemoria --------------------------
EXTENDS KernelMemoria

Crear(id) == [codigo |-> "CREATE_SEGMENT", id |-> id]
Borrar(id) == [codigo |-> "DELETE_SEGMENT", id |-> id]
FRead == [codigo |-> "F_READ", id |-> 0]
Exit == [codigo |-> "EXIT", id |-> 0]

\* As consola/FS_2, and one that reads a file into the segment it created.
MCProgramas == {
    <<Crear(1), Borrar(1), Exit>>,
    <<Crear(1), FRead, Exit>>}

=============================================================================
