------------------------- MODULE MCArchivosAbiertos -------------------------
EXTENDS ArchivosAbiertos

CONSTANTS p1, p2, p3, fA, fB

Sin(codigo) == [codigo |-> codigo, archivo |-> NoArchivo]
Con(codigo, f) == [codigo |-> codigo, archivo |-> f]

\* As consola/FS_1; one like instrucciones_catedra.txt that opens fA while it has fB,
\* and ends without closing it as consola/F_OPEN does; and one that opens them the
\* other way round.
MCProgramas == {
    <<Con("F_OPEN", fA), Con("F_TRUNCATE", fA), Con("F_SEEK", fA), Con("F_WRITE", fA),
      Con("F_CLOSE", fA), Sin("EXIT")>>,
    <<Con("F_OPEN", fB), Sin("YIELD"), Sin("CREATE_SEGMENT"), Con("F_OPEN", fA),
      Con("F_SEEK", fA), Con("F_READ", fA), Con("F_CLOSE", fB), Sin("EXIT")>>,
    <<Con("F_OPEN", fA), Con("F_OPEN", fB), Con("F_CLOSE", fA), Con("F_CLOSE", fB),
      Sin("EXIT")>>}

=============================================================================
