--------------------------- MODULE MCJobPipeline ---------------------------
EXTENDS JobPipeline, TLC

CONSTANTS first, second  \* the jobs

\* One transport is registered, activated, used and closed, or left unknown and
\* reconciled; the other can be activated and used as well.
TransportBound == [j \in Jobs |-> IF j = first THEN 4 ELSE 3]

\* Callers, operations and results are interchangeable.
Symmetric == Permutations(Callers) \cup Permutations(Operations) \cup Permutations(Results)

\* An activation that cannot be applied now never will be: only an operation on
\* its transport could change that, and would leave its version behind.  Which
\* one it was makes no difference to what follows.
Late(c) == call[c] # None /\ ~Activatable(call[c].job, call[c].expected)
View == <<execution, launches, transports, records,
          [c \in Callers |-> IF Late(c) THEN <<"late">> ELSE <<"live", call[c]>>]>>
=============================================================================
