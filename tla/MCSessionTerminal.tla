------------------------- MODULE MCSessionTerminal -------------------------
(* Two callers, one trust reset, one disconnect more than a session needs. *)
EXTENDS SessionTerminal, TLC

Symmetric == Permutations(Callers)

\* A request that was not applied and that the session's compare-and-swap now
\* refuses is refused for good, since versions only go up and a complete session
\* stays one: what its caller has of it makes no difference to what follows.
Late(c) == request[c] # None /\ ~applied[c] /\ ~CasAllowed(request[c])
View == <<evidence, session, seal,
          [c \in Callers |-> IF Late(c) THEN <<"late">>
                             ELSE <<pc[c], request[c], seen[c], applied[c]>>]>>
=============================================================================
