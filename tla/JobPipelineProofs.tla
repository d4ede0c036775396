------------------------- MODULE JobPipelineProofs -------------------------
(***************************************************************************)
(* The safety properties of JobPipeline and its refinement of              *)
(* ResultHandoff, for any jobs, callers, operations and results.           *)
(*                                                                         *)
(* The lineage of an accepted result is carried by what never goes back: a *)
(* claimed launch stays claimed or is settled, fences of launches and      *)
(* transports are never rewritten, and a transport that was activated is   *)
(* never READY with no operation again.  An activation whose checks were   *)
(* made long ago keeps what they established, and its version refuses it   *)
(* when the transport has moved on.                                        *)
(***************************************************************************)
EXTENDS JobPipeline, TLAPS

USE PipelineAssumption

Claimed == {"CLAIMED", "SETTLED"}

\* What the checks of an activation established still holds when it is applied.
CallInv ==
  \A c \in Callers :
    call[c] # None =>
      /\ state[call[c].job] # "ABSENT"
      /\ launch[call[c].job] \in Claimed
      /\ launchFence[call[c].job] = bound[call[c].job]

\* A transport knows its operation, and has none before its first activation.
TransportInv ==
  \A j \in Jobs :
    /\ state[j] = "ABSENT" => conformance[j] = "PENDING"
    /\ state[j] \in {"ABSENT", "PREPARING", "ACTIVE", "CLOSED"} => operation[j] = None
    /\ state[j] \in {"ABSENT", "PREPARING"} => claims[j] = {}
    /\ state[j] = "READY" /\ operation[j] = None => claims[j] = {}
    /\ operation[j] # None => claims[j] = {operation[j]}
    /\ state[j] = "ACTIVE" => claims[j] # {}
    /\ claims[j] # {} => launch[j] \in Claimed /\ launchFence[j] = bound[j]

\* A collected result came over a transport that was activated.
CollectionInv ==
  \A j \in Jobs :
    collection[j] # None =>
      /\ claims[j] # {}
      /\ state[j] \in {"ACTIVE", "CLOSED"}
      /\ collection[j].fence = bound[j]

IInv == TypeOK /\ CallInv /\ TransportInv /\ OneActivation /\ CollectionInv /\ AcceptedLineage

-----------------------------------------------------------------------------
LEMMA InitInv == Init => IInv
<1>. SUFFICES ASSUME Init  PROVE IInv
  OBVIOUS
<1>1. TypeOK
  BY DEF Init, TypeOK, Launches, States, TransportValid
<1>2. CallInv /\ AcceptedLineage
  BY DEF Init, CallInv, AcceptedLineage
<1>3. TransportInv /\ OneActivation /\ CollectionInv
  BY DEF Init, TransportInv, OneActivation, CollectionInv
<1>. QED  BY <1>1, <1>2, <1>3 DEF IInv

\* A compare-and-swap of a transport changes this transport only, and leaves one
\* that is valid.
LEMMA ApplyStep ==
  ASSUME TypeOK, NEW j \in Jobs, NEW s \in States, NEW v \in Verdicts \cup {"PENDING"},
         NEW o \in Operations \cup {None}, Apply(j, s, v, o)
  PROVE  /\ state' \in [Jobs -> States]
         /\ conformance' \in [Jobs -> Verdicts \cup {"PENDING"}]
         /\ operation' \in [Jobs -> Operations \cup {None}]
         /\ applied' \in [Jobs -> Nat]
         /\ state'[j] = s /\ conformance'[j] = v /\ operation'[j] = o
         /\ \A k \in Jobs \ {j} : /\ state'[k] = state[k]
                                  /\ conformance'[k] = conformance[k]
                                  /\ operation'[k] = operation[k]
         /\ \A k \in Jobs : TransportValid(state'[k], conformance'[k], operation'[k])
         /\ bound' = bound
<1>1. applied' \in [Jobs -> Nat]
  BY DEF Apply, TypeOK
<1>2. /\ state'[j] = s /\ conformance'[j] = v /\ operation'[j] = o
      /\ \A k \in Jobs \ {j} : /\ state'[k] = state[k]
                               /\ conformance'[k] = conformance[k]
                               /\ operation'[k] = operation[k]
  BY DEF Apply, TypeOK
<1>3. \A k \in Jobs : TransportValid(state'[k], conformance'[k], operation'[k])
  <2>1. TransportValid(s, v, o)
    BY DEF Apply
  <2>2. \A k \in Jobs : TransportValid(state[k], conformance[k], operation[k])
    BY DEF TypeOK
  <2>. QED  BY <1>2, <2>1, <2>2
<1>. QED  BY <1>1, <1>2, <1>3 DEF Apply, TypeOK

\* A step of one transport that is no activation: where it may lead.
LEMMA TransportStep ==
  ASSUME IInv, NEW j \in Jobs, NEW s \in States, NEW v \in Verdicts \cup {"PENDING"},
         NEW o \in Operations \cup {None}, Apply(j, s, v, o),
         UNCHANGED <<claims, execution, launches, records, call>>,
         state[j] # "ABSENT", s \notin {"ABSENT", "PREPARING"},
         o \in {operation[j], None},
         s \in {"ACTIVE", "CLOSED"} => o = None,
         s = "READY" => claims[j] = {},
         s = "ACTIVE" => claims[j] # {},
         state[j] \in {"ACTIVE", "CLOSED"} => s \in {"ACTIVE", "CLOSED"}
  PROVE  IInv'
<1>1. /\ state' \in [Jobs -> States]
      /\ conformance' \in [Jobs -> Verdicts \cup {"PENDING"}]
      /\ operation' \in [Jobs -> Operations \cup {None}]
      /\ applied' \in [Jobs -> Nat]
      /\ state'[j] = s /\ conformance'[j] = v /\ operation'[j] = o
      /\ \A k \in Jobs \ {j} : /\ state'[k] = state[k]
                               /\ conformance'[k] = conformance[k]
                               /\ operation'[k] = operation[k]
      /\ \A k \in Jobs : TransportValid(state'[k], conformance'[k], operation'[k])
      /\ bound' = bound
  BY ApplyStep DEF IInv
<1>2. TypeOK'
  BY <1>1 DEF IInv, TypeOK, execution, launches, records
<1>3. CallInv'
  BY <1>1 DEF IInv, TypeOK, CallInv, launches, Calls
<1>4. TransportInv'
  BY <1>1 DEF IInv, TransportInv, launches
<1>5. OneActivation'
  BY DEF IInv, OneActivation
<1>6. CollectionInv'
  BY <1>1 DEF IInv, TypeOK, CollectionInv, records
<1>7. AcceptedLineage'
  BY <1>1 DEF IInv, TypeOK, AcceptedLineage, records, launches, Acceptances
<1>. QED  BY <1>2, <1>3, <1>4, <1>5, <1>6, <1>7 DEF IInv

-----------------------------------------------------------------------------
LEMMA ExecutionStep ==
  ASSUME IInv, ChangeExecution
  PROVE  IInv'
<1>1. UNCHANGED <<launches, transports, records, call>>
  BY DEF ChangeExecution
<1>2. TypeOK'
  BY <1>1 DEF ChangeExecution, IInv, TypeOK, launches, transports, records
<1>3. CallInv' /\ TransportInv' /\ OneActivation' /\ CollectionInv' /\ AcceptedLineage'
  BY <1>1 DEF launches, transports, records, IInv, CallInv, TransportInv, OneActivation,
     CollectionInv, AcceptedLineage
<1>. QED  BY <1>2, <1>3 DEF IInv

LEMMA LaunchStep ==
  ASSUME IInv, NEW j \in Jobs, RegisterLaunch(j) \/ ClaimLaunch(j) \/ SettleLaunch(j)
  PROVE  IInv'
<1>1. UNCHANGED <<execution, transports, records, call>>
  BY DEF RegisterLaunch, ClaimLaunch, SettleLaunch
<1>2. launch' \in [Jobs -> Launches] /\ launchFence' \in [Jobs -> Nat]
  BY DEF RegisterLaunch, ClaimLaunch, SettleLaunch, IInv, TypeOK, Launches
<1>3. \A k \in Jobs : launch[k] \in Claimed =>
        launch'[k] \in Claimed /\ launchFence'[k] = launchFence[k]
  BY DEF RegisterLaunch, ClaimLaunch, SettleLaunch, IInv, TypeOK, Launches, Claimed
<1>4. TypeOK'
  BY <1>1, <1>2 DEF IInv, TypeOK, execution, transports, records
<1>5. CallInv'
  BY <1>1, <1>3 DEF IInv, TypeOK, CallInv, transports, Calls
<1>6. TransportInv' /\ OneActivation' /\ CollectionInv'
  BY <1>1, <1>3 DEF IInv, TransportInv, OneActivation, CollectionInv, transports, records
<1>7. AcceptedLineage'
  BY <1>1, <1>3 DEF IInv, TypeOK, AcceptedLineage, transports, records, Acceptances, Claimed
<1>. QED  BY <1>4, <1>5, <1>6, <1>7 DEF IInv

LEMMA RegisterStep ==
  ASSUME IInv, NEW j \in Jobs, RegisterTransport(j)
  PROVE  IInv'
<1>1. /\ state' \in [Jobs -> States] /\ bound' \in [Jobs -> Nat]
      /\ state'[j] = "PREPARING" /\ state[j] = "ABSENT"
      /\ \A k \in Jobs \ {j} : state'[k] = state[k] /\ bound'[k] = bound[k]
      /\ UNCHANGED <<conformance, operation, applied, claims, execution, launches, records, call>>
  BY DEF RegisterTransport, IInv, TypeOK, States
<1>2. conformance[j] = "PENDING" /\ operation[j] = None /\ claims[j] = {}
  BY <1>1 DEF IInv, TransportInv
<1>3. TypeOK'
  <2>1. \A k \in Jobs : TransportValid(state'[k], conformance'[k], operation'[k])
    BY <1>1, <1>2 DEF IInv, TypeOK, TransportValid
  <2>. QED  BY <1>1, <2>1 DEF IInv, TypeOK, execution, launches, records
<1>4. CallInv'
  BY <1>1 DEF IInv, TypeOK, CallInv, launches, Calls
<1>5. TransportInv' /\ OneActivation' /\ CollectionInv'
  BY <1>1, <1>2 DEF IInv, TransportInv, OneActivation, CollectionInv, launches, records
<1>6. AcceptedLineage'
  BY <1>1, <1>2 DEF IInv, TypeOK, AcceptedLineage, launches, records, Acceptances
<1>. QED  BY <1>3, <1>4, <1>5, <1>6 DEF IInv

-----------------------------------------------------------------------------
LEMMA RecordConformanceStep ==
  ASSUME IInv, NEW j \in Jobs, NEW v \in Verdicts, RecordConformance(j, v)
  PROVE  IInv'
<1>. DEFINE s == IF v = "PASS" THEN "READY" ELSE "FAILED"
<1>1. Apply(j, s, v, operation[j]) /\ state[j] = "PREPARING"
  BY DEF RecordConformance
<1>2. s \in States \ {"ABSENT", "PREPARING", "ACTIVE", "CLOSED"}
  BY DEF States
<1>3. claims[j] = {} /\ operation[j] \in Operations \cup {None}
  BY <1>1 DEF IInv, TypeOK, TransportInv
<1>4. UNCHANGED <<claims, execution, launches, records, call>>
  BY DEF RecordConformance
<1>. QED  BY <1>1, <1>2, <1>3, <1>4, TransportStep

\* The result of an activation, recorded or reconciled.
LEMMA OutcomeStep ==
  ASSUME IInv, NEW j \in Jobs, NEW o \in Operations,
         NEW r \in Verdicts \cup {"OUTCOME_UNKNOWN"},
         RecordActivation(j, o, r) \/ ReconcileActivation(j, o, r)
  PROVE  IInv'
<1>1. /\ state[j] \in {"READY", "OUTCOME_UNKNOWN"}
      /\ operation[j] = o
      /\ Outcome(j, r)
      /\ UNCHANGED <<claims, execution, launches, records, call>>
  BY DEF RecordActivation, ReconcileActivation
<1>2. claims[j] # {} /\ conformance[j] \in Verdicts \cup {"PENDING"}
  BY <1>1 DEF IInv, TypeOK, TransportInv
<1>3. CASE r = "PASS"
  <2>1. Apply(j, "ACTIVE", conformance[j], None)
    BY <1>1, <1>3 DEF Outcome
  <2>. QED  BY <1>1, <1>2, <2>1, TransportStep DEF States
<1>4. CASE r = "OUTCOME_UNKNOWN"
  <2>1. Apply(j, "OUTCOME_UNKNOWN", conformance[j], o)
    BY <1>1, <1>4 DEF Outcome
  <2>. QED  BY <1>1, <1>2, <2>1, TransportStep DEF States
<1>5. CASE r = "FAIL"
  <2>1. Apply(j, "FAILED", conformance[j], None)
    BY <1>1, <1>5 DEF Outcome
  <2>. QED  BY <1>1, <1>2, <2>1, TransportStep DEF States
<1>. QED  BY <1>3, <1>4, <1>5 DEF Verdicts

LEMMA CloseStep ==
  ASSUME IInv, NEW j \in Jobs, CloseTransport(j)
  PROVE  IInv'
<1>1. /\ Apply(j, "CLOSED", conformance[j], None)
      /\ state[j] # "ABSENT"
      /\ operation[j] = None
      /\ UNCHANGED <<claims, execution, launches, records, call>>
  BY DEF CloseTransport
<1>2. conformance[j] \in Verdicts \cup {"PENDING"}
  BY DEF IInv, TypeOK
<1>. QED  BY <1>1, <1>2, TransportStep DEF States

LEMMA BeginStep ==
  ASSUME IInv, NEW c \in Callers, NEW j \in Jobs, NEW o \in Operations, BeginActivation(c, j, o)
  PROVE  IInv'
<1>1. /\ state[j] # "ABSENT" /\ launch[j] = "CLAIMED" /\ launchFence[j] = bound[j]
      /\ call' = [call EXCEPT ![c] = [job |-> j, operation |-> o, expected |-> applied[j]]]
      /\ UNCHANGED <<execution, launches, transports, records>>
  BY DEF BeginActivation, Current
<1>2. [job |-> j, operation |-> o, expected |-> applied[j]] \in Calls
  BY DEF IInv, TypeOK, Calls
<1>3. TypeOK'
  BY <1>1, <1>2 DEF IInv, TypeOK, execution, launches, transports, records
<1>4. CallInv'
  <2>. SUFFICES ASSUME NEW d \in Callers, call'[d] # None
                PROVE  /\ state[call'[d].job] # "ABSENT"
                       /\ launch[call'[d].job] \in Claimed
                       /\ launchFence[call'[d].job] = bound[call'[d].job]
    BY <1>1 DEF CallInv, launches, transports
  <2>1. CASE d = c
    <3>1. call'[d].job = j
      BY <1>1, <2>1 DEF IInv, TypeOK
    <3>. QED  BY <1>1, <3>1 DEF Claimed
  <2>2. CASE d # c
    <3>1. call'[d] = call[d]
      BY <1>1, <2>2 DEF IInv, TypeOK
    <3>. QED  BY <3>1 DEF IInv, CallInv
  <2>. QED  BY <2>1, <2>2
<1>5. TransportInv' /\ OneActivation' /\ CollectionInv' /\ AcceptedLineage'
  BY <1>1 DEF IInv, TransportInv, OneActivation, CollectionInv, AcceptedLineage, launches,
     transports, records
<1>. QED  BY <1>3, <1>4, <1>5 DEF IInv

LEMMA FinishStep ==
  ASSUME IInv, NEW c \in Callers, FinishActivation(c)
  PROVE  IInv'
<1>. DEFINE j == call[c].job
            o == call[c].operation
<1>1. /\ call[c] # None /\ call[c] \in Calls
      /\ call' = [call EXCEPT ![c] = None]
      /\ UNCHANGED <<execution, launches, records>>
  BY DEF FinishActivation, IInv, TypeOK
<1>2. j \in Jobs /\ o \in Operations
  BY <1>1 DEF Calls
<1>3. state[j] # "ABSENT" /\ launch[j] \in Claimed /\ launchFence[j] = bound[j]
  BY <1>1 DEF IInv, CallInv
<1>4. \A d \in Callers : call'[d] # None => call'[d] = call[d] /\ call[d] # None
  BY <1>1 DEF IInv, TypeOK
<1>5. call' \in [Callers -> Calls \cup {None}]
  BY <1>1 DEF IInv, TypeOK
<1>6. CASE UNCHANGED transports
  <2>1. TypeOK'
    BY <1>1, <1>5, <1>6 DEF IInv, TypeOK, execution, launches, transports, records
  <2>2. CallInv'
    BY <1>1, <1>4, <1>6 DEF IInv, CallInv, launches, transports
  <2>3. TransportInv' /\ OneActivation' /\ CollectionInv' /\ AcceptedLineage'
    BY <1>1, <1>6 DEF IInv, TransportInv, OneActivation, CollectionInv, AcceptedLineage, launches,
       transports, records
  <2>. QED  BY <2>1, <2>2, <2>3 DEF IInv
<1>7. CASE /\ Activatable(j, call[c].expected)
           /\ Apply(j, state[j], conformance[j], o)
           /\ claims' = [claims EXCEPT ![j] = claims[j] \cup {o}]
  <2>1. state[j] = "READY" /\ operation[j] = None /\ claims[j] = {}
    BY <1>2, <1>7 DEF Activatable, IInv, TransportInv
  <2>. HIDE DEF j, o
  <2>2. /\ state' \in [Jobs -> States]
        /\ conformance' \in [Jobs -> Verdicts \cup {"PENDING"}]
        /\ operation' \in [Jobs -> Operations \cup {None}]
        /\ applied' \in [Jobs -> Nat]
        /\ state'[j] = "READY" /\ conformance'[j] = conformance[j] /\ operation'[j] = o
        /\ \A k \in Jobs \ {j} : /\ state'[k] = state[k]
                                 /\ conformance'[k] = conformance[k]
                                 /\ operation'[k] = operation[k]
        /\ \A k \in Jobs : TransportValid(state'[k], conformance'[k], operation'[k])
        /\ bound' = bound
    <3>1. state[j] \in States /\ conformance[j] \in Verdicts \cup {"PENDING"}
      BY <1>2 DEF IInv, TypeOK
    <3>. QED  BY <1>2, <1>7, <2>1, <3>1, ApplyStep DEF IInv
  <2>3. /\ claims' \in [Jobs -> SUBSET Operations]
        /\ claims'[j] = {o}
        /\ \A k \in Jobs \ {j} : claims'[k] = claims[k]
    BY <1>2, <1>7, <2>1 DEF IInv, TypeOK
  <2>4. TypeOK'
    BY <1>1, <1>5, <2>2, <2>3 DEF IInv, TypeOK, execution, launches, records
  <2>5. CallInv'
    <3>. SUFFICES ASSUME NEW d \in Callers, call'[d] # None
                  PROVE  /\ state'[call[d].job] # "ABSENT"
                         /\ launch[call[d].job] \in Claimed
                         /\ launchFence[call[d].job] = bound[call[d].job]
      BY <1>1, <1>4, <2>2 DEF CallInv, launches
    <3>1. call[d] \in Calls /\ call[d] # None
      BY <1>4 DEF IInv, TypeOK
    <3>2. call[d].job \in Jobs
      BY <3>1 DEF Calls
    <3>. QED  BY <2>2, <3>1, <3>2 DEF IInv, CallInv
  <2>6. TransportInv' /\ OneActivation'
    BY <1>1, <1>2, <1>3, <2>2, <2>3 DEF IInv, TransportInv, OneActivation, launches
  <2>7. CollectionInv'
    BY <1>1, <2>1, <2>2, <2>3 DEF IInv, CollectionInv, records
  <2>8. AcceptedLineage'
    BY <1>1, <2>1, <2>2, <2>3 DEF IInv, TypeOK, AcceptedLineage, launches, records, Acceptances
  <2>. QED  BY <2>4, <2>5, <2>6, <2>7, <2>8 DEF IInv
<1>. QED  BY <1>6, <1>7 DEF FinishActivation

-----------------------------------------------------------------------------
LEMMA CollectStep ==
  ASSUME IInv, NEW j \in Jobs, NEW r \in Results, Collect(j, r)
  PROVE  IInv'
<1>. DEFINE record == [result |-> r, version |-> version, fence |-> fence]
<1>1. /\ collection[j] = None
      /\ state[j] = "ACTIVE" /\ bound[j] = fence
      /\ collection' = [collection EXCEPT ![j] = record]
      /\ UNCHANGED <<verification, accepted, execution, launches, transports, call>>
  BY DEF Collect, Collectable
<1>2. record \in Collections
  BY DEF IInv, TypeOK, Collections
<1>3. collection' \in [Jobs -> Collections \cup {None}]
  BY <1>1, <1>2 DEF IInv, TypeOK
<1>4. /\ collection'[j] = record
      /\ \A k \in Jobs \ {j} : collection'[k] = collection[k]
  BY <1>1 DEF IInv, TypeOK
<1>5. TypeOK'
  BY <1>1, <1>3 DEF IInv, TypeOK, execution, launches, transports
<1>6. CallInv' /\ TransportInv' /\ OneActivation'
  BY <1>1 DEF IInv, CallInv, TransportInv, OneActivation, launches, transports
<1>7. claims[j] # {}
  BY <1>1 DEF IInv, TransportInv
<1>8. CollectionInv'
  BY <1>1, <1>4, <1>7 DEF IInv, CollectionInv, transports
<1>9. AcceptedLineage'
  <2>1. accepted # None => accepted.job \in Jobs \ {j}
    BY <1>1 DEF IInv, TypeOK, AcceptedLineage, Acceptances
  <2>. QED  BY <1>1, <1>4, <2>1 DEF IInv, AcceptedLineage, launches, transports
<1>. QED  BY <1>5, <1>6, <1>8, <1>9 DEF IInv

LEMMA VerifyStep ==
  ASSUME IInv, NEW j \in Jobs, NEW payload \in Payloads, Verify(j, payload)
  PROVE  IInv'
<1>1. /\ verification' = [verification EXCEPT ![j] = payload.result]
      /\ UNCHANGED <<collection, accepted, execution, launches, transports, call>>
  BY DEF Verify
<1>2. payload.result \in Verdicts
  BY DEF Payloads
<1>3. TypeOK'
  BY <1>1, <1>2 DEF IInv, TypeOK, execution, launches, transports
<1>. QED
  BY <1>1, <1>3 DEF IInv, CallInv, TransportInv, OneActivation, CollectionInv, AcceptedLineage,
     launches, transports

LEMMA CommitStep ==
  ASSUME IInv, NEW j \in Jobs, NEW payload \in Payloads, Acceptable(j, payload), Commit(j)
  PROVE  IInv'
<1>. DEFINE record == [job |-> j, result |-> collection[j].result, version |-> version,
                       fence |-> fence]
<1>1. /\ collection[j] # None /\ collection[j] \in Collections
      /\ collection[j].version = version /\ collection[j].fence = fence
      /\ accepted' = record
      /\ UNCHANGED <<collection, verification, execution, launches, transports, call>>
  BY DEF Acceptable, Commit, IInv, TypeOK
<1>2. record \in Acceptances
  BY <1>1 DEF IInv, TypeOK, Acceptances, Collections
<1>3. TypeOK'
  BY <1>1, <1>2 DEF IInv, TypeOK, execution, launches, transports
<1>4. CallInv' /\ TransportInv' /\ OneActivation' /\ CollectionInv'
  BY <1>1 DEF IInv, CallInv, TransportInv, OneActivation, CollectionInv, launches, transports
<1>5. /\ claims[j] # {} /\ state[j] \in {"ACTIVE", "CLOSED"} /\ fence = bound[j]
      /\ launch[j] \in {"CLAIMED", "SETTLED"} /\ launchFence[j] = bound[j]
  BY <1>1 DEF IInv, CollectionInv, TransportInv, Claimed
<1>6. /\ accepted'.job = j /\ accepted'.result = collection[j].result
      /\ accepted'.version = version /\ accepted'.fence = fence
  BY <1>1
<1>7. AcceptedLineage'
  BY <1>1, <1>5, <1>6 DEF AcceptedLineage, launches, transports
<1>. QED  BY <1>3, <1>4, <1>7 DEF IInv

LEMMA StutterStep ==
  ASSUME IInv, UNCHANGED vars
  PROVE  IInv'
BY DEF vars, execution, launches, transports, records, IInv, TypeOK, CallInv, TransportInv,
   OneActivation, CollectionInv, AcceptedLineage

\* The invariant is inductive.
LEMMA NextInv == IInv /\ [Next]_vars => IInv'
<1>. SUFFICES ASSUME IInv, [Next]_vars  PROVE IInv'
  OBVIOUS
<1>1. CASE ChangeExecution
  BY <1>1, ExecutionStep
<1>2. CASE \E c \in Callers : FinishActivation(c)
  BY <1>2, FinishStep
<1>3. ASSUME NEW j \in Jobs, RegisterLaunch(j) \/ ClaimLaunch(j) \/ SettleLaunch(j)
      PROVE  IInv'
  BY <1>3, LaunchStep
<1>4. ASSUME NEW j \in Jobs,
             \/ RegisterTransport(j)
             \/ CloseTransport(j)
             \/ \E verdict \in Verdicts : RecordConformance(j, verdict)
      PROVE  IInv'
  BY <1>4, RegisterStep, CloseStep, RecordConformanceStep
<1>5. ASSUME NEW j \in Jobs,
             \/ \E c \in Callers, o \in Operations : BeginActivation(c, j, o)
             \/ \E o \in Operations, result \in Verdicts \cup {"OUTCOME_UNKNOWN"} :
                  RecordActivation(j, o, result) \/ ReconcileActivation(j, o, result)
      PROVE  IInv'
  BY <1>5, BeginStep, OutcomeStep
<1>6. ASSUME NEW j \in Jobs,
             \/ \E r \in Results : Collect(j, r)
             \/ \E payload \in Payloads : Verify(j, payload)
             \/ AcceptVerified(j)
             \/ \E payload \in Payloads : AcceptSubmitted(j, payload)
      PROVE  IInv'
  BY <1>6, CollectStep, VerifyStep, CommitStep DEF AcceptVerified, AcceptSubmitted
<1>7. CASE UNCHANGED vars
  BY <1>7, StutterStep
<1>. QED  BY <1>1, <1>2, <1>3, <1>4, <1>5, <1>6, <1>7 DEF Next

THEOREM Invariance == Spec => []IInv
BY InitInv, NextInv, PTL DEF Spec

\* The types, and the validity of every transport that is written.
THEOREM TypeCorrect == Spec => []TypeOK
<1>1. IInv => TypeOK
  BY DEF IInv
<1>. QED  BY <1>1, Invariance, PTL

\* No job is ever activated by two operations.
THEOREM ActivatedOnce == Spec => []OneActivation
<1>1. IInv => OneActivation
  BY DEF IInv
<1>. QED  BY <1>1, Invariance, PTL

\* An accepted result has its launch, its activation and its collection behind
\* it, under one fence.
THEOREM Lineage == Spec => []AcceptedLineage
<1>1. IInv => AcceptedLineage
  BY DEF IInv
<1>. QED  BY <1>1, Invariance, PTL

-----------------------------------------------------------------------------
(* The refinement. *)

\* What the abstract specification sees of a collection and of an acceptance.
Offer(j) == IF collection[j] = None THEN None
            ELSE [result |-> collection[j].result, version |-> collection[j].version]
Acceptance == IF accepted = None THEN None
              ELSE [job |-> accepted.job, result |-> accepted.result, version |-> accepted.version]

LEMMA HandoffInit == Init => Handoff!Init
BY DEF Init, Handoff!Init

\* An offer is not None.
LEMMA OfferIsSome ==
  ASSUME TypeOK, NEW j \in Jobs, collection[j] # None
  PROVE  /\ Offer(j) = [result |-> collection[j].result, version |-> collection[j].version]
         /\ Offer(j) # None
<1>1. collection[j] \in Collections
  BY DEF TypeOK
<1>2. [result |-> collection[j].result, version |-> collection[j].version]
        \in [result : Results, version : Nat]
  BY <1>1 DEF Collections
<1>. QED  BY <1>2 DEF Offer

LEMMA HandoffStep == IInv /\ [Next]_vars => [Handoff!Next]_Handoff!vars
<1>. SUFFICES ASSUME IInv, [Next]_vars  PROVE [Handoff!Next]_Handoff!vars
  OBVIOUS
<1>1. ASSUME UNCHANGED <<version, collection, accepted>>
      PROVE  UNCHANGED Handoff!vars
  BY <1>1 DEF Handoff!vars
<1>2. CASE ChangeExecution
  BY <1>2 DEF ChangeExecution, records, Handoff!Next, Handoff!Change
<1>3. ASSUME NEW j \in Jobs, NEW r \in Results, Collect(j, r)
      PROVE  Handoff!Next
  <2>1. /\ collection[j] = None
        /\ collection' = [collection EXCEPT ![j] =
             [result |-> r, version |-> version, fence |-> fence]]
        /\ UNCHANGED <<accepted, version>>
    BY <1>3 DEF Collect, execution
  <2>2. [result |-> r, version |-> version, fence |-> fence] \in Collections
    BY DEF IInv, TypeOK, Collections
  <2>3. collection \in [Jobs -> Collections \cup {None}]
    BY DEF IInv, TypeOK
  <2>4. collection'[j] # None /\ \A k \in Jobs \ {j} : collection'[k] = collection[k]
    BY <2>1, <2>2, <2>3
  <2>5. collection'[j].result = r /\ collection'[j].version = version
    BY <2>1, <2>3
  <2>6. Handoff!Collect(j, r)
    BY <2>1, <2>4, <2>5 DEF Handoff!Collect
  <2>. QED  BY <2>6 DEF Handoff!Next
<1>4. ASSUME NEW j \in Jobs, NEW payload \in Payloads, Acceptable(j, payload), Commit(j)
      PROVE  Handoff!Next
  <2>1. /\ accepted = None /\ collection[j] # None /\ collection[j].version = version
        /\ accepted' = [job |-> j, result |-> collection[j].result, version |-> version,
                        fence |-> fence]
        /\ UNCHANGED <<collection, version>>
    BY <1>4 DEF Acceptable, Commit, execution
  <2>2. accepted' # None /\ accepted'.job = j /\ accepted'.result = collection[j].result
          /\ accepted'.version = version
    <3>1. accepted' \in Acceptances
      BY <1>4, CommitStep DEF IInv, TypeOK, Acceptances, Collections, Acceptable, Commit
    <3>. QED  BY <2>1, <3>1
  <2>3. Offer(j) # None /\ Offer(j) = [result |-> collection[j].result, version |-> version]
    BY <2>1, OfferIsSome DEF IInv
  <2>4. Handoff!Accept(j)
    BY <2>1, <2>2, <2>3 DEF Handoff!Accept, Offer
  <2>. QED  BY <2>4 DEF Handoff!Next
<1>5. ASSUME NEW j \in Jobs, AcceptVerified(j) \/ \E payload \in Payloads : AcceptSubmitted(j, payload)
      PROVE  Handoff!Next
  BY <1>4, <1>5 DEF AcceptVerified, AcceptSubmitted
<1>6. CASE \E c \in Callers : FinishActivation(c)
  BY <1>1, <1>6 DEF FinishActivation, execution, records
<1>7. ASSUME NEW j \in Jobs,
             \/ RegisterLaunch(j) \/ ClaimLaunch(j) \/ SettleLaunch(j)
             \/ RegisterTransport(j) \/ CloseTransport(j)
             \/ \E verdict \in Verdicts : RecordConformance(j, verdict)
             \/ \E c \in Callers, o \in Operations : BeginActivation(c, j, o)
             \/ \E o \in Operations, result \in Verdicts \cup {"OUTCOME_UNKNOWN"} :
                  RecordActivation(j, o, result) \/ ReconcileActivation(j, o, result)
             \/ \E payload \in Payloads : Verify(j, payload)
      PROVE  UNCHANGED Handoff!vars
  <2>1. UNCHANGED <<version, collection, accepted>>
    BY <1>7 DEF RegisterLaunch, ClaimLaunch, SettleLaunch, RegisterTransport, CloseTransport,
       RecordConformance, BeginActivation, RecordActivation, ReconcileActivation, Verify,
       execution, records
  <2>. QED  BY <1>1, <2>1
<1>8. CASE UNCHANGED vars
  BY <1>1, <1>8 DEF vars, execution, records
<1>. QED  BY <1>2, <1>3, <1>5, <1>6, <1>7, <1>8 DEF Next

\* Together the stores implement the hand-in of one result.
THEOREM Refinement == Spec => ImplementsHandoff
BY HandoffInit, Invariance, HandoffStep, PTL DEF Spec, ImplementsHandoff, Handoff!Spec
=============================================================================
