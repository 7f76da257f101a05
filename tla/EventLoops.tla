------------------------------ MODULE EventLoops ------------------------------
(***************************************************************************)
(* The two programs built around an edge-triggered epoll loop, checked     *)
(* together: a behaviour is one of rs/tcpproxy or one of c/tcp_echo.       *)
(***************************************************************************)
EXTENDS TcpProxy, TcpEcho

VARIABLE program

loopVars == <<program, proxyVars, echoVars>>

\* The program that does not run has one initial state.
LoopsInit ==
    /\ program \in {"tcpproxy", "tcp_echo"}
    /\ ProxyInit /\ EchoInit
    /\ program = "tcpproxy" => request = CHOOSE r \in Requests : TRUE
    /\ program = "tcp_echo" => load = CHOOSE l \in Loads : TRUE

LoopsNext ==
    \/ program = "tcpproxy" /\ ProxyNext /\ UNCHANGED <<program, echoVars>>
    \/ program = "tcp_echo" /\ EchoNext /\ UNCHANGED <<program, proxyVars>>

\* The fair steps of the program that does not run are never enabled.
LoopsSpec == LoopsInit /\ [][LoopsNext]_loopVars /\ ProxyFairness /\ EchoFairness

\* Peers that fill a pipe and more, that fill it exactly, and two that talk at once.
SomeLoads == {[client |-> 3, backend |-> 0, burst |-> 3],
              [client |-> 2, backend |-> 0, burst |-> 2],
              [client |-> 1, backend |-> 1, burst |-> 1]}
===============================================================================
