---------------------------- MODULE OneShotClaim ----------------------------
(***************************************************************************)
(* What a store that guards one external mutation promises: the mutation   *)
(* is claimed at most once, by one operation, and only while the fence the *)
(* store was registered under is the current one; after that only the      *)
(* operation's own result decides, and an unknown outcome is kept until    *)
(* the same operation is reconciled.                                       *)
(***************************************************************************)
EXTENDS Integers

CONSTANTS Operations, NoOperation

VARIABLES fence,      \* the execution's current fence
          status,     \* of the store; "ABSENT" before it is registered
          bound,      \* the fence it was registered under
          operation   \* the operation that claimed it, or NoOperation

abstract == <<fence, status, bound, operation>>

Init ==
  /\ fence = 0
  /\ status = "ABSENT"
  /\ bound = 0
  /\ operation = NoOperation

AdvanceFence ==
  /\ fence' = fence + 1
  /\ UNCHANGED <<status, bound, operation>>

Register ==
  /\ status = "ABSENT"
  /\ status' = "AVAILABLE"
  /\ bound' = fence
  /\ UNCHANGED <<fence, operation>>

Claim ==
  /\ status = "AVAILABLE"
  /\ fence = bound
  /\ status' = "CLAIMED"
  /\ operation' \in Operations
  /\ UNCHANGED <<fence, bound>>

Settle ==
  /\ status \in {"CLAIMED", "UNKNOWN"}
  /\ status' \in {"UNKNOWN", "COMPLETED", "FAILED"}
  /\ UNCHANGED <<fence, bound, operation>>

Next == AdvanceFence \/ Register \/ Claim \/ Settle

Spec == Init /\ [][Next]_abstract
=============================================================================
