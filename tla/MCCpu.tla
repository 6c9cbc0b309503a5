-------------------------------- MODULE MCCpu --------------------------------
EXTENDS Cpu

CONSTANTS AX, CX, EAX, p1, p2

L(funcion, palabras) == [funcion |-> funcion, palabras |-> palabras]
A(r) == <<r>>
N(n) == <<n>>

MCRegistros == <<AX, CX, EAX>>
MCByte == {AX, CX, EAX, p1, p2, DATO, NoProc}
MCAncho == (AX :> 2) @@ (CX :> 2) @@ (EAX :> 3)

\* The value a process writes says whose it is.
V(p, n) == [i \in 1..n |-> p]

\* Segment 1 starts at the address 4.  One program like consola/MEMORIA_1, one like
\* FS_3, one with the other instructions; then a segment that does not fit, an access
\* out of the segment with F_READ, one to a segment that is not there, and two files
\* that a console rejects.  The first one writes a register it has never set.
MCArchivos == [p \in Proc |-> {
    <<L("SET", <<A(EAX), V(p, 4)>>), L("YIELD", <<>>),
      L("CREATE_SEGMENT", <<N(1), N(3)>>), L("MOV_OUT", <<N(4), A(EAX)>>),
      L("MOV_OUT", <<N(4), A(AX)>>), L("MOV_IN", <<A(CX), N(5)>>), L("EXIT", <<>>)>>,
    <<L("SET", <<A(AX), V(p, 2)>>), L("F_OPEN", <<<<p>>>>), L("F_SEEK", <<<<p>>, N(0)>>),
      L("F_TRUNCATE", <<<<p>>, N(2)>>), L("MOV_OUT", <<N(0), A(AX)>>),
      L("F_WRITE", <<<<p>>, N(0), N(2)>>), L("F_READ", <<<<p>>, N(1), N(1)>>),
      L("MOV_IN", <<A(EAX), N(1)>>), L("F_CLOSE", <<<<p>>>>), L("EXIT", <<>>)>>,
    <<L("WAIT", <<<<p>>>>), L("SET", <<A(CX), V(p, 1)>>), L("I/O", <<N(9)>>),
      L("CREATE_SEGMENT", <<N(1), N(2)>>), L("MOV_OUT", <<N(4), A(CX)>>),
      L("DELETE_SEGMENT", <<N(1)>>), L("SIGNAL", <<<<p>>>>),
      L("F_WRITE", <<<<p>>, N(2), N(2)>>), L("EXIT", <<>>)>>,
    <<L("CREATE_SEGMENT", <<N(1), N(6)>>), L("EXIT", <<>>)>>,
    <<L("F_READ", <<<<p>>, N(0), N(4)>>), L("EXIT", <<>>)>>,
    <<L("MOV_IN", <<A(AX), N(8)>>), L("EXIT", <<>>)>>,
    <<L("SET", <<A(AX), V(p, 1)>>), L("NADA", <<>>)>>,
    <<L("SET", <<A(AX)>>), L("EXIT", <<>>)>>}]

=============================================================================
