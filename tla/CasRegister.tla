----------------------------- MODULE CasRegister -----------------------------
(***************************************************************************)
(* What every durable store of the runtime promises its callers, without   *)
(* files or locks: an append-only event ledger changed by compare-and-swap *)
(* requests that carry an idempotency key.  A request is admissible when   *)
(* its key is unused and it names the current version; it then becomes the *)
(* next event.  The event may be lost by a power failure until it is       *)
(* stable, and only a stable event may be answered "applied".              *)
(*                                                                         *)
(* A call is answered at most once, and the answer is true of the ledger   *)
(* at the instant it is given.  Callers may retry a request in a new call. *)
(***************************************************************************)
EXTENDS Integers, Sequences

CONSTANTS Calls,       \* invocations of a store operation
          Keys,        \* idempotency keys
          MaxVersion   \* callers expect versions 0 .. MaxVersion

VARIABLES ledger,   \* the events, the first one being InitRequest
          stable,   \* how many of them survive a power failure
          request,  \* what each call asks for, NoRequest before it is made
          answer    \* what each call was told

vars == <<ledger, stable, request, answer>>

InitKey == "init"
InitRequest == [key |-> InitKey, expected |-> -1]
NoRequest == [key |-> InitKey, expected |-> -2]
CasRequests == [key : Keys, expected : 0 .. MaxVersion]
Requests == CasRequests \cup {InitRequest}

Answers == {"applied", "replayed", "conflict", "mismatch", "refused", "locked", "error"}

-----------------------------------------------------------------------------
Events(l) == {l[i] : i \in 1 .. Len(l)}

\* Version -1 is the absent file, 0 the initialized store.
Version(l) == Len(l) - 1

\* The idempotency index holds the keys of requests, not that of initialization.
SameKey(l, r) == {e \in Events(l) \ {InitRequest} : r # InitRequest /\ e.key = r.key}

Admissible(l, r) == SameKey(l, r) = {} /\ r.expected = Version(l)

\* An answer a caller may be given for request r when the ledger is l and its
\* first n events are stable.
Truthful(a, r, l, n) ==
  /\ a = "applied" => \E i \in 1 .. n : l[i] = r
  /\ a = "replayed" => r \in SameKey(l, r)
  /\ a = "conflict" => SameKey(l, r) # {} /\ r \notin SameKey(l, r)
  /\ a = "mismatch" => SameKey(l, r) = {} /\ r.expected # Version(l)

-----------------------------------------------------------------------------
Init ==
  /\ ledger = <<>>
  /\ stable = 0
  /\ request = [c \in Calls |-> NoRequest]
  /\ answer = [c \in Calls |-> "none"]

Invoke(c, r) ==
  /\ request[c] = NoRequest
  /\ request' = [request EXCEPT ![c] = r]
  /\ UNCHANGED <<ledger, stable, answer>>

Commit(c) ==
  /\ request[c] # NoRequest
  /\ answer[c] = "none"
  /\ Admissible(ledger, request[c])
  /\ ledger' = Append(ledger, request[c])
  /\ UNCHANGED <<stable, request, answer>>

Persist ==
  /\ stable' = Len(ledger)
  /\ UNCHANGED <<ledger, request, answer>>

Reply(c, a) ==
  /\ request[c] # NoRequest
  /\ answer[c] = "none"
  /\ Truthful(a, request[c], ledger, stable)
  /\ answer' = [answer EXCEPT ![c] = a]
  /\ UNCHANGED <<ledger, stable, request>>

\* The callers of D die with their process and are never answered.
Abandon(D) ==
  /\ \A c \in D : request[c] # NoRequest /\ answer[c] = "none"
  /\ answer' = [c \in Calls |-> IF c \in D THEN "lost" ELSE answer[c]]

Crash(D) == Abandon(D) /\ UNCHANGED <<ledger, stable, request>>

PowerLoss(D, n) ==
  /\ Abandon(D)
  /\ n \in stable .. Len(ledger)
  /\ ledger' = SubSeq(ledger, 1, n)
  /\ stable' = n
  /\ UNCHANGED request

Next ==
  \/ \E c \in Calls : \/ \E r \in Requests : Invoke(c, r)
                      \/ Commit(c)
                      \/ \E a \in Answers : Reply(c, a)
  \/ Persist
  \/ \E D \in SUBSET Calls : \/ Crash(D)
                             \/ \E n \in stable .. Len(ledger) : PowerLoss(D, n)

Spec == Init /\ [][Next]_vars
=============================================================================
