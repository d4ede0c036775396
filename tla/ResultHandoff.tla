--------------------------- MODULE ResultHandoff ---------------------------
(***************************************************************************)
(* What the stores between a worker and an accepted result promise,        *)
(* whatever happens in them: each job hands in at most one result, at most *)
(* one result of the execution is accepted, and it is one that was handed  *)
(* in under the very version of the execution it is accepted in.  A result *)
(* that is overtaken by any change of the execution is lost for good.      *)
(***************************************************************************)
EXTENDS Integers

CONSTANTS Jobs,     \* worker jobs of one execution
          Results,  \* what a job may hand in
          None      \* nothing collected, nothing accepted

VARIABLES version,    \* version of the execution's authority
          collected,  \* per job, its result and the version it was collected in
          accepted    \* the accepted result with its job and version

vars == <<version, collected, accepted>>

Offers == [result : Results, version : Nat]
Acceptances == [job : Jobs, result : Results, version : Nat]

Init ==
  /\ version = 0
  /\ collected = [j \in Jobs |-> None]
  /\ accepted = None

\* The execution changes: its fence, its pending reconciliation or its material state.
Change ==
  /\ version' = version + 1
  /\ UNCHANGED <<collected, accepted>>

Collect(j, r) ==
  /\ collected[j] = None
  /\ collected' = [collected EXCEPT ![j] = [result |-> r, version |-> version]]
  /\ UNCHANGED <<version, accepted>>

Accept(j) ==
  /\ accepted = None
  /\ collected[j] # None
  /\ collected[j].version = version
  /\ accepted' = [job |-> j, result |-> collected[j].result, version |-> version]
  /\ UNCHANGED <<version, collected>>

Next ==
  \/ Change
  \/ \E j \in Jobs : Accept(j) \/ \E r \in Results : Collect(j, r)

Spec == Init /\ [][Next]_vars
=============================================================================
