------------------------ MODULE AdmissionBudgetProofs ------------------------
(***************************************************************************)
(* The safety properties of AdmissionBudget for every budget, set of       *)
(* reservations and number of power failures.                              *)
(*                                                                         *)
(* The amount of the document is the sum over its reservations.  The sum   *)
(* is a fold, a function defined by recursion over finite sets; the first  *)
(* lemmas show, by induction over finite sets, that the fold exists and    *)
(* that any element can be taken out of it.                                *)
(*                                                                         *)
(* Every document written is sound by itself, so a power failure returns   *)
(* to a sound one.  A finished reservation never changes again, so what    *)
(* the accountant read of it, and settled, still holds.                    *)
(***************************************************************************)
EXTENDS AdmissionBudget, FiniteSetTheorems, TLAPS

-----------------------------------------------------------------------------
(* Sums over finite sets of reservations. *)

\* What holds of a set whenever it holds of all its proper subsets holds of every
\* finite set: Good is the set of those it holds of.
LEMMA SubsetInduction ==
  ASSUME NEW S, IsFiniteSet(S), NEW Good,
         \A T \in SUBSET S : (\A U \in SUBSET T : U # T => U \in Good) => T \in Good
  PROVE  SUBSET S \subseteq Good
<1>. DEFINE Bad == {T \in SUBSET S : T \notin Good}
<1>. SUFFICES ASSUME Bad # {}  PROVE FALSE
  OBVIOUS
<1>1. FiniteSubsetsOf(S) = SUBSET S
  BY FS_FiniteSubsetsOfFinite
<1>2. IsWellFoundedOn(StrictSubsetOrdering(S), SUBSET S)
  <2>1. IsWellFoundedOn(StrictSubsetOrdering(S), FiniteSubsetsOf(S))
    BY FS_StrictSubsetOrderingWellFounded
  <2>. QED  BY <1>1, <2>1
<1>3. Bad \subseteq SUBSET S
  OBVIOUS
<1>4. \E T \in Bad : \A U \in Bad : ~(<<U, T>> \in StrictSubsetOrdering(S))
  <2>. HIDE DEF Bad
  <2>. QED  BY <1>2, <1>3, WFMin
<1>5. PICK T \in Bad : \A U \in Bad : <<U, T>> \notin StrictSubsetOrdering(S)
  BY <1>4
<1>6. ASSUME NEW U \in SUBSET T, U # T  PROVE U \in Good
  <2>1. <<U, T>> \in StrictSubsetOrdering(S)
    BY <1>6 DEF StrictSubsetOrdering
  <2>. QED  BY <1>5, <2>1
<1>. QED  BY <1>5, <1>6

First(s) == CHOOSE x \in s : TRUE

\* g is the function that TotalAmount unfolds to: the sum, for every part of S.
IsSum(g, r, S) ==
  g = [s \in SUBSET S |-> IF s = {} THEN 0 ELSE r[First(s)].amount + g[s \ {First(s)}]]

TotalAmount(r, S) == MapThenSumSet(LAMBDA i : r[i].amount, S)

\* Unfolding the library's fold.
LEMMA TotalDef ==
  ASSUME NEW r, NEW S
  PROVE  TotalAmount(r, S) = (CHOOSE g : IsSum(g, r, S))[S]
BY DEF TotalAmount, IsSum, First, MapThenSumSet, MapThenFoldSet

\* What the sum gives for a set does not depend on the set it was taken of.
LEMMA SumAgrees ==
  ASSUME NEW S, IsFiniteSet(S), NEW T \in SUBSET S, NEW r, NEW g, NEW h,
         IsSum(g, r, S), IsSum(h, r, T)
  PROVE  \A s \in SUBSET T : g[s] = h[s]
<1>. DEFINE Good == {s \in SUBSET T : g[s] = h[s]}
<1>1. IsFiniteSet(T)
  BY FS_Subset
<1>2. ASSUME NEW s \in SUBSET T, \A u \in SUBSET s : u # s => u \in Good
      PROVE  s \in Good
  <2>1. g[s] = IF s = {} THEN 0 ELSE r[First(s)].amount + g[s \ {First(s)}]
    BY DEF IsSum
  <2>2. h[s] = IF s = {} THEN 0 ELSE r[First(s)].amount + h[s \ {First(s)}]
    BY DEF IsSum
  <2>3. s # {} => s \ {First(s)} \in Good
    BY <1>2 DEF First
  <2>. QED  BY <2>1, <2>2, <2>3
<1>3. SUBSET T \subseteq Good
  <2>. HIDE DEF Good
  <2>. QED  BY <1>1, <1>2, SubsetInduction
<1>. QED  BY <1>3

\* The sum of every finite set exists.
LEMMA SumExists ==
  ASSUME NEW S, IsFiniteSet(S), NEW r
  PROVE  \E g : IsSum(g, r, S)
<1>. DEFINE Good == {T \in SUBSET S : \E g : IsSum(g, r, T)}
            sum(T) == CHOOSE g : IsSum(g, r, T)
            value(T) == sum(T)[T]
<1>1. ASSUME NEW T \in SUBSET S, \A U \in SUBSET T : U # T => U \in Good
      PROVE  T \in Good
  <2>. DEFINE g == [s \in SUBSET T |->
                     IF s = {} THEN 0 ELSE r[First(s)].amount + value(s \ {First(s)})]
  <2>1. \A U \in SUBSET T : U # T => IsSum(sum(U), r, U)
    BY <1>1
  <2>2. ASSUME NEW U \in SUBSET T, U # T
        PROVE  value(U) = IF U = {} THEN 0 ELSE r[First(U)].amount + value(U \ {First(U)})
    <3>. DEFINE V == U \ {First(U)}
    <3>1. IsSum(sum(U), r, U)
      BY <2>1, <2>2
    <3>2. value(U) = IF U = {} THEN 0 ELSE r[First(U)].amount + sum(U)[V]
      <4>. HIDE DEF sum
      <4>. QED  BY <3>1 DEF IsSum
    <3>3. IsSum(sum(V), r, V) /\ V \in SUBSET U
      <4>1. V \in SUBSET T /\ V # T
        BY <2>2
      <4>. QED  BY <2>1, <4>1
    <3>4. IsFiniteSet(U)
      BY FS_Subset
    <3>5. sum(U)[V] = sum(V)[V]
      <4>. HIDE DEF sum, V
      <4>1. V \in SUBSET V
        OBVIOUS
      <4>. QED  BY <3>1, <3>3, <3>4, <4>1, SumAgrees
    <3>. QED  BY <3>2, <3>5
  <2>3. ASSUME NEW s \in SUBSET T, s # {}
        PROVE  value(s \ {First(s)}) = g[s \ {First(s)}]
    <3>1. s \ {First(s)} \in SUBSET T /\ s \ {First(s)} # T
      BY <2>3 DEF First
    <3>. HIDE DEF value
    <3>. QED  BY <2>2, <3>1
  <2>4. IsSum(g, r, T)
    <3>1. \A s \in SUBSET T :
            (IF s = {} THEN 0 ELSE r[First(s)].amount + value(s \ {First(s)}))
              = (IF s = {} THEN 0 ELSE r[First(s)].amount + g[s \ {First(s)}])
      <4>. HIDE DEF value, g
      <4>. QED  BY <2>3
    <3>. HIDE DEF value
    <3>. QED  BY <3>1 DEF IsSum
  <2>. QED  BY <2>4
<1>2. SUBSET S \subseteq Good
  <2>. HIDE DEF Good
  <2>. QED  BY <1>1, SubsetInduction
<1>. QED  BY <1>2

\* The sum is what one would compute by taking the first element out.
LEMMA TotalUnfolds ==
  ASSUME NEW S, IsFiniteSet(S), NEW r
  PROVE  TotalAmount(r, S) = IF S = {} THEN 0 ELSE r[First(S)].amount + TotalAmount(r, S \ {First(S)})
<1>. DEFINE sum(T) == CHOOSE g : IsSum(g, r, T)
            R == S \ {First(S)}
<1>1. R \in SUBSET S /\ IsFiniteSet(R)
  BY FS_Subset
<1>2. IsSum(sum(S), r, S) /\ IsSum(sum(R), r, R)
  BY <1>1, SumExists
<1>3. TotalAmount(r, S) = sum(S)[S] /\ TotalAmount(r, R) = sum(R)[R]
  BY TotalDef
<1>. HIDE DEF sum, R
<1>4. sum(S)[R] = sum(R)[R]
  <2>1. R \in SUBSET R
    OBVIOUS
  <2>. QED  BY <1>1, <1>2, <2>1, SumAgrees
<1>5. sum(S)[S] = IF S = {} THEN 0 ELSE r[First(S)].amount + sum(S)[R]
  BY <1>2 DEF IsSum, R
<1>. QED  BY <1>3, <1>4, <1>5 DEF R

\* A sum of natural numbers is one.
LEMMA TotalIsNat ==
  ASSUME NEW S, IsFiniteSet(S), NEW r, \A i \in S : r[i].amount \in Nat
  PROVE  TotalAmount(r, S) \in Nat
<1>. DEFINE Good == {T \in SUBSET S : TotalAmount(r, T) \in Nat}
<1>1. ASSUME NEW T \in SUBSET S, \A U \in SUBSET T : U # T => U \in Good
      PROVE  T \in Good
  <2>1. TotalAmount(r, T) = IF T = {} THEN 0 ELSE r[First(T)].amount + TotalAmount(r, T \ {First(T)})
    BY FS_Subset, TotalUnfolds
  <2>2. CASE T = {}
    BY <2>1, <2>2
  <2>3. CASE T # {}
    <3>1. First(T) \in T
      BY <2>3 DEF First
    <3>2. TotalAmount(r, T \ {First(T)}) \in Nat
      BY <1>1, <3>1
    <3>. QED  BY <2>1, <2>3, <3>1, <3>2
  <2>. QED  BY <2>2, <2>3
<1>2. SUBSET S \subseteq Good
  <2>. HIDE DEF Good
  <2>. QED  BY <1>1, SubsetInduction
<1>. QED  BY <1>2

\* Any element may be taken out of a sum.
LEMMA TotalTakes ==
  ASSUME NEW S, IsFiniteSet(S), NEW r, \A i \in S : r[i].amount \in Nat, NEW x \in S
  PROVE  TotalAmount(r, S) = r[x].amount + TotalAmount(r, S \ {x})
<1>. DEFINE Good == {T \in SUBSET S : \A y \in T : TotalAmount(r, T) = r[y].amount + TotalAmount(r, T \ {y})}
<1>1. ASSUME NEW T \in SUBSET S, \A U \in SUBSET T : U # T => U \in Good
      PROVE  T \in Good
  <2>. SUFFICES ASSUME NEW y \in T  PROVE TotalAmount(r, T) = r[y].amount + TotalAmount(r, T \ {y})
    OBVIOUS
  <2>. DEFINE c == First(T)
  <2>1. c \in T
    BY DEF First
  <2>2. TotalAmount(r, T) = r[c].amount + TotalAmount(r, T \ {c})
    BY FS_Subset, TotalUnfolds
  <2>3. CASE y = c
    BY <2>2, <2>3
  <2>4. CASE y # c
    <3>. HIDE DEF c
    <3>1. TotalAmount(r, T \ {c}) = r[y].amount + TotalAmount(r, (T \ {c}) \ {y})
      <4>1. T \ {c} \in Good /\ y \in T \ {c}
        BY <1>1, <2>1, <2>4
      <4>. QED  BY <4>1
    <3>2. TotalAmount(r, T \ {y}) = r[c].amount + TotalAmount(r, (T \ {y}) \ {c})
      <4>1. T \ {y} \in Good /\ c \in T \ {y}
        BY <1>1, <2>1, <2>4
      <4>. QED  BY <4>1
    <3>3. (T \ {c}) \ {y} = (T \ {y}) \ {c}
      OBVIOUS
    <3>4. TotalAmount(r, (T \ {c}) \ {y}) \in Nat
      <4>1. IsFiniteSet((T \ {c}) \ {y})
        BY FS_Subset
      <4>. QED  BY <4>1, TotalIsNat
    <3>5. r[c].amount \in Nat /\ r[y].amount \in Nat
      BY <2>1
    <3>6. ASSUME NEW t, NEW a \in Nat, NEW b \in Nat, NEW n \in Nat, NEW tc, NEW ty,
                 t = a + tc, tc = b + n, ty = a + n
          PROVE  t = b + ty
      BY <3>6
    <3>7. TotalAmount(r, T) = r[c].amount + TotalAmount(r, T \ {c})
      BY <2>2 DEF c
    <3>8. TotalAmount(r, T \ {y}) = r[c].amount + TotalAmount(r, (T \ {c}) \ {y})
      BY <3>2, <3>3
    <3>. QED  BY <3>1, <3>4, <3>5, <3>6, <3>7, <3>8
  <2>. QED  BY <2>3, <2>4
<1>2. SUBSET S \subseteq Good
  <2>. HIDE DEF Good
  <2>. QED  BY <1>1, SubsetInduction
<1>. QED  BY <1>2

\* A sum depends on what is summed only.
LEMMA TotalAgrees ==
  ASSUME NEW S, NEW r, NEW v, \A i \in S : r[i].amount = v[i].amount
  PROVE  TotalAmount(r, S) = TotalAmount(v, S)
<1>1. ASSUME NEW g  PROVE IsSum(g, r, S) <=> IsSum(g, v, S)
  <2>1. \A s \in SUBSET S :
          (IF s = {} THEN 0 ELSE r[First(s)].amount + g[s \ {First(s)}])
            = (IF s = {} THEN 0 ELSE v[First(s)].amount + g[s \ {First(s)}])
    BY DEF First
  <2>. QED  BY <2>1 DEF IsSum
<1>2. (CHOOSE g : IsSum(g, r, S)) = (CHOOSE g : IsSum(g, v, S))
  BY <1>1
<1>. QED  BY <1>2, TotalDef

-----------------------------------------------------------------------------
(* The inductive invariant. *)

AddsUp(s) == s.amount = TotalAmount(s.reservations, Held(s.reservations))

Sound(s) ==
  /\ s \in Store
  /\ Exact(s)
  /\ WithinCounts(s)
  /\ WithinAmount(s)
  /\ AddsUp(s)

\* What was finished in s is unchanged in t.
Keeps(s, t) ==
  \A i \in Ids : s.reservations[i] # None /\ s.reservations[i].state \in Terminal =>
    t.reservations[i] = s.reservations[i]

SnapshotInv ==
  snapshot # None =>
    \A i \in Ids : snapshot[i] # None =>
      /\ snapshot[i].state \in Terminal
      /\ losses = 0 => store.reservations[i] = snapshot[i]

IInv ==
  /\ TypeOK
  /\ Sound(store)
  /\ Sound(stable)
  /\ SnapshotInv
  /\ SettlementIsOfTerminal

-----------------------------------------------------------------------------
LEMMA NoneIsNone ==
  None \notin Reservation /\ None \notin Settlement /\ None \notin Reservations /\ None \notin Fences
BY NoneAssumption

LEMMA InitInv == Init => IInv
<1>. SUFFICES ASSUME Init  PROVE IInv
  OBVIOUS
<1>1. EmptyStore \in Store
  BY DEF EmptyStore, Store, Reservations
<1>2. \A i \in Ids : EmptyStore.reservations[i] = None
  BY DEF EmptyStore
<1>3. Held(EmptyStore.reservations) = {}
  BY <1>2 DEF Held
<1>4. \A k \in Kinds : OfKind(EmptyStore.reservations, k) = {}
  BY <1>3 DEF OfKind
<1>5. Sound(EmptyStore)
  <2>1. WithinCounts(EmptyStore)
    <3>1. \A k \in Kinds : EmptyStore.count[k] = 0 /\ 0 <= Limit[k]
      BY BudgetAssumption DEF EmptyStore
    <3>2. Cardinality({}) = 0
      BY FS_EmptySet
    <3>. QED  BY <1>4, <3>1, <3>2 DEF WithinCounts
  <2>2. WithinAmount(EmptyStore) /\ Exact(EmptyStore)
    BY BudgetAssumption DEF EmptyStore, WithinAmount, Exact
  <2>3. AddsUp(EmptyStore)
    <3>1. TotalAmount(EmptyStore.reservations, {}) = 0
      BY FS_EmptySet, TotalUnfolds
    <3>2. EmptyStore.amount = 0
      BY DEF EmptyStore
    <3>. QED  BY <1>3, <3>1, <3>2 DEF AddsUp
  <2>. QED  BY <1>1, <2>1, <2>2, <2>3 DEF Sound
<1>6. TypeOK
  <2>1. 1 \in Fences /\ 0 \in 0 .. MaxPowerLosses
    BY BudgetAssumption DEF Fences
  <2>2. execution \in [fence : Fences, reconcile : BOOLEAN]
    BY <2>1 DEF Init
  <2>3. totals \in [actual : Nat, released : Nat]
    BY DEF Init
  <2>. QED  BY <1>1, <2>1, <2>2, <2>3 DEF Init, TypeOK
<1>7. SnapshotInv /\ SettlementIsOfTerminal
  BY DEF Init, SnapshotInv, SettlementIsOfTerminal
<1>. QED  BY <1>5, <1>6, <1>7 DEF Init, IInv

-----------------------------------------------------------------------------
(* The documents the admission requests write. *)

LEMMA ReservedSound ==
  ASSUME Sound(store), NEW i \in Ids, NEW k \in Kinds, NEW a \in Amounts, NEW f \in Fences,
         store.status = "NONE", store.reservations[i] = None, WithinBudget(k, a)
  PROVE  Sound(Reserved(i, k, a, f)) /\ Keeps(store, Reserved(i, k, a, f))
<1>. DEFINE new == [kind |-> k, state |-> "RESERVED", amount |-> a, fence |-> f]
            next == Reserved(i, k, a, f)
            r == store.reservations
<1>1. store \in Store /\ a \in Nat /\ store.amount \in Nat /\ store.count \in [Kinds -> Nat]
  BY BudgetAssumption DEF Sound, Store
<1>2. new \in Reservation
  BY <1>1 DEF Reservation
<1>3. /\ next.reservations = [r EXCEPT ![i] = new]
      /\ next.count = [store.count EXCEPT ![k] = @ + 1]
      /\ next.amount = store.amount + a
      /\ next.status = store.status /\ next.fence = store.fence
  BY <1>1 DEF Reserved, Store
<1>4. r \in Reservations /\ next.reservations \in Reservations
  BY <1>1, <1>2, <1>3 DEF Store, Reservations
<1>5. next \in Store
  <2>1. next.count \in [Kinds -> Nat]
    <3>1. store.count[k] + 1 \in Nat
      BY <1>1
    <3>. QED  BY <1>1, <1>3, <3>1
  <2>2. next.amount \in Nat
    BY <1>1, <1>3
  <2>. QED  BY <1>1, <1>4, <2>1, <2>2 DEF Reserved, Store
<1>6. Exact(next)
  BY <1>3 DEF Exact
<1>7. WithinAmount(next)
  BY <1>1, <1>3, BudgetAssumption DEF WithinAmount, WithinBudget
<1>8. WithinCounts(next)
  <2>. SUFFICES ASSUME NEW l \in Kinds
                PROVE  /\ next.count[l] = Cardinality(OfKind(next.reservations, l))
                       /\ next.count[l] <= Limit[l]
    BY DEF WithinCounts
  <2>1. \A j \in Ids : next.reservations[j] = IF j = i THEN new ELSE r[j]
    BY <1>3, <1>4 DEF Reservations
  <2>2. new # None /\ new.kind = k
    BY <1>2, NoneIsNone
  <2>3. store.count[l] = Cardinality(OfKind(r, l)) /\ store.count[l] <= Limit[l]
    BY DEF Sound, WithinCounts
  <2>4. CASE l = k
    <3>1. OfKind(next.reservations, l) = OfKind(r, l) \cup {i}
      BY <2>1, <2>2, <2>4 DEF OfKind, Held
    <3>2. i \notin OfKind(r, l)
      BY DEF OfKind, Held
    <3>3. IsFiniteSet(OfKind(r, l))
      BY FS_Subset, BudgetAssumption DEF OfKind, Held
    <3>4. Cardinality(OfKind(next.reservations, l)) = Cardinality(OfKind(r, l)) + 1
      BY <3>1, <3>2, <3>3, FS_AddElement
    <3>5. next.count[l] = store.count[l] + 1
      BY <1>1, <1>3, <2>4
    <3>6. store.count[l] < Limit[l]
      BY <2>4 DEF WithinBudget
    <3>. QED  BY <1>1, <2>3, <3>4, <3>5, <3>6, BudgetAssumption
  <2>5. CASE l # k
    <3>1. OfKind(next.reservations, l) = OfKind(r, l)
      BY <2>1, <2>2, <2>5 DEF OfKind, Held
    <3>2. next.count[l] = store.count[l]
      BY <1>1, <1>3, <2>5
    <3>. QED  BY <2>3, <3>1, <3>2
  <2>. QED  BY <2>4, <2>5
<1>9. Keeps(store, next)
  BY <1>3, <1>4 DEF Keeps, Reservations
<1>10. AddsUp(next)
  <2>. DEFINE s == next.reservations
  <2>1. \A j \in Ids : s[j] = IF j = i THEN new ELSE r[j]
    BY <1>3, <1>4 DEF Reservations
  <2>2. Held(s) = Held(r) \cup {i} /\ i \notin Held(r) /\ Held(s) \ {i} = Held(r)
    BY <1>2, <2>1, NoneIsNone DEF Held
  <2>3. \A j \in Held(s) : s[j].amount \in Nat
    BY <1>4 DEF Held, Reservations, Reservation
  <2>4. IsFiniteSet(Held(s))
    BY FS_Subset, BudgetAssumption DEF Held
  <2>5. TotalAmount(s, Held(s)) = s[i].amount + TotalAmount(s, Held(r))
    <3>. HIDE DEF s, r
    <3>1. i \in Held(s)
      BY <2>2
    <3>2. TotalAmount(s, Held(s)) = s[i].amount + TotalAmount(s, Held(s) \ {i})
      BY <2>3, <2>4, <3>1, TotalTakes
    <3>. QED  BY <2>2, <3>2
  <2>6. TotalAmount(s, Held(r)) = TotalAmount(r, Held(r))
    <3>1. \A j \in Held(r) : s[j].amount = r[j].amount
      BY <2>1, <2>2 DEF Held
    <3>. HIDE DEF s, r
    <3>. QED  BY <3>1, TotalAgrees
  <2>7. s[i].amount = a
    BY <2>1
  <2>8. store.amount = TotalAmount(r, Held(r))
    BY DEF Sound, AddsUp
  <2>9. next.amount = a + store.amount
    BY <1>1, <1>3
  <2>. QED  BY <2>5, <2>6, <2>7, <2>8, <2>9 DEF AddsUp
<1>. QED  BY <1>5, <1>6, <1>7, <1>8, <1>9, <1>10 DEF Sound

\* Changing the state of one reservation leaves the budget as it is.
LEMMA MovedSound ==
  ASSUME Sound(store), NEW i \in Ids, NEW next \in Store,
         NEW state \in {"RESERVED", "STARTED"} \cup Terminal,
         store.reservations[i] # None,
         store.reservations[i].state \notin Terminal,
         next.reservations = [store.reservations EXCEPT ![i].state = state],
         next.count = store.count, next.amount = store.amount
  PROVE  WithinCounts(next) /\ WithinAmount(next) /\ AddsUp(next) /\ Keeps(store, next)
<1>. DEFINE r == store.reservations
            s == next.reservations
<1>1. r \in Reservations /\ s \in Reservations
  BY DEF Sound, Store
<1>2. r[i] \in Reservation
  BY <1>1 DEF Reservations
<1>3. s[i] = [r[i] EXCEPT !.state = state] /\ \A j \in Ids \ {i} : s[j] = r[j]
  BY <1>1 DEF Reservations
<1>4. s[i] \in Reservation /\ s[i].kind = r[i].kind /\ s[i].amount = r[i].amount
  BY <1>2, <1>3 DEF Reservation
<1>5. s[i] # None
  BY <1>4, NoneIsNone
<1>6. \A k \in Kinds : OfKind(s, k) = OfKind(r, k)
  BY <1>3, <1>4, <1>5 DEF OfKind, Held
<1>7. WithinCounts(next)
  BY <1>6 DEF Sound, WithinCounts
<1>8. WithinAmount(next)
  BY DEF Sound, WithinAmount
<1>9. Keeps(store, next)
  BY <1>3 DEF Keeps
<1>10. AddsUp(next)
  <2>1. Held(s) = Held(r)
    BY <1>3, <1>5 DEF Held
  <2>2. \A j \in Held(r) : s[j].amount = r[j].amount
    BY <1>3, <1>4 DEF Held
  <2>3. TotalAmount(s, Held(r)) = TotalAmount(r, Held(r))
    <3>. HIDE DEF s, r
    <3>. QED  BY <2>2, TotalAgrees
  <2>. QED  BY <2>1, <2>3 DEF Sound, AddsUp
<1>. QED  BY <1>7, <1>8, <1>9, <1>10

LEMMA StartedSound ==
  ASSUME Sound(store), NEW i \in Ids, store.status = "NONE",
         store.reservations[i] # None, store.reservations[i].state = "RESERVED"
  PROVE  LET next == [store EXCEPT !.reservations[i].state = "STARTED"]
         IN  Sound(next) /\ Keeps(store, next)
<1>. DEFINE next == [store EXCEPT !.reservations[i].state = "STARTED"]
            r == store.reservations
<1>1. store \in Store /\ r \in Reservations
  BY DEF Sound, Store
<1>2. r[i] \in Reservation
  BY <1>1 DEF Reservations
<1>3. /\ next.reservations = [r EXCEPT ![i].state = "STARTED"]
      /\ next.count = store.count /\ next.amount = store.amount
      /\ next.status = store.status /\ next.fence = store.fence
  BY <1>1 DEF Store
<1>4. [r[i] EXCEPT !.state = "STARTED"] \in Reservation
  BY <1>2 DEF Reservation
<1>5. next.reservations \in Reservations
  BY <1>1, <1>3, <1>4 DEF Reservations
<1>6. next \in Store
  BY <1>1, <1>5 DEF Store
<1>7. store.reservations[i].state \notin Terminal
  BY DEF Terminal
<1>8. WithinCounts(next) /\ WithinAmount(next) /\ AddsUp(next) /\ Keeps(store, next)
  BY <1>3, <1>6, <1>7, MovedSound
<1>9. Exact(next)
  BY <1>3 DEF Exact
<1>. QED  BY <1>6, <1>8, <1>9 DEF Sound

LEMMA SettledSound ==
  ASSUME Sound(store), NEW i \in Ids, NEW t \in Terminal,
         store.reservations[i] # None, store.reservations[i].state \notin Terminal
  PROVE  Sound(Settled(i, t)) /\ Keeps(store, Settled(i, t))
<1>. DEFINE next == Settled(i, t)
            r == store.reservations
<1>1. store \in Store /\ r \in Reservations
  BY DEF Sound, Store
<1>2. r[i] \in Reservation
  BY <1>1 DEF Reservations
<1>3. /\ next.reservations = [r EXCEPT ![i].state = t]
      /\ next.count = store.count /\ next.amount = store.amount
      /\ next.status = IF store.status = "REQUESTED" /\ Active(r) \subseteq {i}
                       THEN "CANCELLED" ELSE store.status
      /\ next.fence = store.fence
  BY <1>1 DEF Store, Settled
<1>4. [r[i] EXCEPT !.state = t] \in Reservation
  BY <1>2 DEF Reservation
<1>5. next.reservations \in Reservations
  BY <1>1, <1>3, <1>4 DEF Reservations
<1>6. next \in Store
  BY <1>1, <1>5 DEF Store, Settled
<1>7. WithinCounts(next) /\ WithinAmount(next) /\ AddsUp(next) /\ Keeps(store, next)
  BY <1>3, <1>6, MovedSound
<1>8. Active(next.reservations) = Active(r) \ {i}
  <2>1. \A j \in Ids \ {i} : next.reservations[j] = r[j]
    BY <1>1, <1>3 DEF Reservations
  <2>2. next.reservations[i].state = t
    BY <1>1, <1>2, <1>3 DEF Reservations, Reservation
  <2>. QED  BY <2>1, <2>2 DEF Active, Held
<1>9. i \in Active(r)
  BY DEF Active, Held
<1>10. Exact(next)
  BY <1>1, <1>3, <1>8, <1>9 DEF Exact, Sound, Store
<1>. QED  BY <1>6, <1>7, <1>10 DEF Sound

LEMMA CancelledSound ==
  ASSUME Sound(store), NEW f \in Fences
  PROVE  LET next == [store EXCEPT
               !.fence = f,
               !.status = IF Active(store.reservations) = {} THEN "CANCELLED" ELSE "REQUESTED"]
         IN  Sound(next) /\ Keeps(store, next)
<1>. DEFINE next == [store EXCEPT
              !.fence = f,
              !.status = IF Active(store.reservations) = {} THEN "CANCELLED" ELSE "REQUESTED"]
<1>1. store \in Store
  BY DEF Sound
<1>2. /\ next.reservations = store.reservations /\ next.count = store.count
      /\ next.amount = store.amount
      /\ next.status = IF Active(store.reservations) = {} THEN "CANCELLED" ELSE "REQUESTED"
  BY <1>1 DEF Store
<1>3. next \in Store
  BY <1>1 DEF Store
<1>4. Exact(next) /\ WithinCounts(next) /\ WithinAmount(next) /\ AddsUp(next) /\ Keeps(store, next)
  BY <1>2 DEF Sound, Exact, WithinCounts, WithinAmount, AddsUp, Keeps
<1>. QED  BY <1>3, <1>4 DEF Sound

-----------------------------------------------------------------------------
(* The steps. *)

\* What the accountant holds and has settled survives a document that keeps
\* the finished reservations.
LEMMA AdmittedInv ==
  ASSUME IInv, NEW f \in Fences, NEW next, Admitted(f, next), Sound(next), Keeps(store, next)
  PROVE  IInv'
<1>1. /\ store' = next /\ committing' = TRUE
      /\ UNCHANGED <<execution, stable, snapshot, settlement, totals, losses>>
  BY DEF Admitted
<1>2. next \in Store
  BY DEF Sound
<1>3. TypeOK'
  BY <1>1, <1>2 DEF IInv, TypeOK
<1>4. Sound(store)' /\ Sound(stable)'
  BY <1>1 DEF IInv, Sound, Exact, WithinCounts, WithinAmount, AddsUp, Held, Active, OfKind
<1>5. SnapshotInv'
  <2>. SUFFICES ASSUME snapshot # None, NEW i \in Ids, snapshot[i] # None
                PROVE  /\ snapshot[i].state \in Terminal
                       /\ losses = 0 => next.reservations[i] = snapshot[i]
    BY <1>1 DEF SnapshotInv
  <2>1. /\ snapshot[i].state \in Terminal
        /\ losses = 0 => store.reservations[i] = snapshot[i]
    BY DEF IInv, SnapshotInv
  <2>. QED  BY <2>1 DEF Keeps
<1>6. SettlementIsOfTerminal'
  <2>. SUFFICES ASSUME losses = 0, NEW i \in Ids, settlement[i] # None
                PROVE  next.reservations[i] = store.reservations[i]
    BY <1>1 DEF IInv, SettlementIsOfTerminal
  <2>1. settlement[i] \in Settlement
    BY DEF IInv, TypeOK
  <2>2. store.reservations[i] # None /\ store.reservations[i].state = settlement[i].state
    BY DEF IInv, SettlementIsOfTerminal
  <2>. QED  BY <2>1, <2>2 DEF Keeps, Settlement
<1>. QED  BY <1>3, <1>4, <1>5, <1>6 DEF IInv

LEMMA ReadInv == IInv /\ ReadAdmission => IInv'
<1>. SUFFICES ASSUME IInv, ReadAdmission  PROVE IInv'
  OBVIOUS
<1>. DEFINE r == store.reservations
<1>1. /\ snapshot' = Settleable(r)
      /\ UNCHANGED <<execution, store, committing, stable, settlement, totals, losses>>
  BY DEF ReadAdmission
<1>2. r \in Reservations
  BY DEF IInv, TypeOK, Store
<1>3. Settleable(r) \in Reservations
  BY <1>2 DEF Settleable, Reservations, Held, Active
<1>4. \A i \in Ids : Settleable(r)[i] # None =>
        Settleable(r)[i] = r[i] /\ r[i].state \in Terminal
  BY DEF Settleable, Held, Active
<1>5. TypeOK'
  BY <1>1, <1>3 DEF IInv, TypeOK
<1>6. SnapshotInv'
  BY <1>1, <1>4 DEF SnapshotInv
<1>7. Sound(store)' /\ Sound(stable)' /\ SettlementIsOfTerminal'
  BY <1>1 DEF IInv, Sound, Exact, WithinCounts, WithinAmount, AddsUp, Held, Active, OfKind,
              SettlementIsOfTerminal
<1>. QED  BY <1>5, <1>6, <1>7 DEF IInv

LEMMA SettleUsageInv ==
  ASSUME IInv, NEW i \in Ids, NEW actual \in Usages, SettleUsage(i, actual)
  PROVE  IInv'
<1>. DEFINE record == [state |-> snapshot[i].state, actual |-> actual,
                       released |-> snapshot[i].amount - actual, fence |-> snapshot[i].fence]
<1>1. /\ settlement' = [settlement EXCEPT ![i] = record]
      /\ totals' = [actual |-> totals.actual + actual,
                    released |-> totals.released + snapshot[i].amount - actual]
      /\ UNCHANGED <<execution, store, committing, stable, snapshot, losses>>
      /\ snapshot # None /\ snapshot[i] # None /\ actual <= snapshot[i].amount
  BY DEF SettleUsage
<1>2. snapshot[i] \in Reservation /\ snapshot[i].state \in Terminal
  BY <1>1 DEF IInv, TypeOK, Reservations, SnapshotInv
<1>3. snapshot[i].amount \in Nat /\ snapshot[i].fence \in Fences /\ actual \in Nat
  BY <1>2, BudgetAssumption DEF Reservation
<1>4. snapshot[i].amount - actual \in Nat
  BY <1>1, <1>3
<1>5. record \in Settlement
  BY <1>2, <1>3, <1>4 DEF Settlement
<1>6. totals' \in [actual : Nat, released : Nat]
  <2>1. totals.actual \in Nat /\ totals.released \in Nat
    BY DEF IInv, TypeOK
  <2>2. totals.actual + actual \in Nat /\ totals.released + snapshot[i].amount - actual \in Nat
    BY <1>1, <1>3, <2>1
  <2>. QED  BY <1>1, <2>2
<1>7. TypeOK'
  BY <1>1, <1>5, <1>6 DEF IInv, TypeOK
<1>8. Sound(store)' /\ Sound(stable)' /\ SnapshotInv'
  BY <1>1 DEF IInv, Sound, Exact, WithinCounts, WithinAmount, AddsUp, Held, Active, OfKind, SnapshotInv
<1>9. SettlementIsOfTerminal'
  <2>. SUFFICES ASSUME losses = 0, NEW j \in Ids, settlement'[j] # None
                PROVE  /\ store.reservations[j] # None
                       /\ store.reservations[j].state = settlement'[j].state
                       /\ store.reservations[j].fence = settlement'[j].fence
                       /\ store.reservations[j].amount = settlement'[j].actual + settlement'[j].released
    BY <1>1 DEF SettlementIsOfTerminal
  <2>1. CASE j = i
    <3>1. store.reservations[i] = snapshot[i]
      BY <1>1 DEF IInv, SnapshotInv
    <3>2. settlement'[i] = record
      BY <1>1 DEF IInv, TypeOK
    <3>3. snapshot[i].amount = actual + (snapshot[i].amount - actual)
      BY <1>3
    <3>. QED  BY <1>1, <2>1, <3>1, <3>2, <3>3
  <2>2. CASE j # i
    <3>1. settlement'[j] = settlement[j]
      BY <1>1, <2>2 DEF IInv, TypeOK
    <3>. QED  BY <3>1 DEF IInv, SettlementIsOfTerminal
  <2>. QED  BY <2>1, <2>2
<1>. QED  BY <1>7, <1>8, <1>9 DEF IInv

LEMMA EnvironmentInv ==
  IInv /\ (Committed \/ AdvanceFence \/ TurnReconciliation \/ PowerLoss) => IInv'
<1>. SUFFICES ASSUME IInv, Committed \/ AdvanceFence \/ TurnReconciliation \/ PowerLoss
              PROVE  IInv'
  OBVIOUS
<1>. USE DEF IInv
<1>1. CASE Committed
  <2>1. /\ UNCHANGED <<execution, store, snapshot, settlement, totals, losses>>
        /\ stable' = store /\ committing' = FALSE
    BY <1>1 DEF Committed
  <2>2. TypeOK'
    BY <2>1 DEF TypeOK
  <2>3. Sound(store)' /\ Sound(stable)'
    BY <2>1 DEF Sound, Exact, WithinCounts, WithinAmount, AddsUp, Held, Active, OfKind
  <2>4. SnapshotInv' /\ SettlementIsOfTerminal'
    BY <2>1 DEF SnapshotInv, SettlementIsOfTerminal
  <2>. QED  BY <2>2, <2>3, <2>4
<1>2. CASE AdvanceFence \/ TurnReconciliation
  <2>1. UNCHANGED <<store, committing, stable, snapshot, settlement, totals, losses>>
    BY <1>2 DEF AdvanceFence, TurnReconciliation
  <2>2. execution' \in [fence : Fences, reconcile : BOOLEAN]
    <3>1. execution \in [fence : Fences, reconcile : BOOLEAN]
      BY DEF TypeOK
    <3>2. CASE AdvanceFence
      <4>1. execution.fence + 1 \in Fences
        BY <3>1, <3>2, BudgetAssumption DEF AdvanceFence, Fences
      <4>. QED  BY <3>1, <3>2, <4>1 DEF AdvanceFence
    <3>3. CASE TurnReconciliation
      <4>1. execution' = [fence |-> execution.fence, reconcile |-> ~execution.reconcile]
        BY <3>1, <3>3 DEF TurnReconciliation
      <4>2. execution.fence \in Fences /\ (~execution.reconcile) \in BOOLEAN
        BY <3>1
      <4>. QED  BY <4>1, <4>2
    <3>. QED  BY <1>2, <3>2, <3>3
  <2>3. TypeOK'
    BY <2>1, <2>2 DEF TypeOK
  <2>4. Sound(store)' /\ Sound(stable)' /\ SnapshotInv' /\ SettlementIsOfTerminal'
    BY <2>1 DEF Sound, Exact, WithinCounts, WithinAmount, AddsUp, Held, Active, OfKind,
                SnapshotInv, SettlementIsOfTerminal
  <2>. QED  BY <2>3, <2>4
<1>3. CASE PowerLoss
  <2>1. /\ store' = stable /\ stable' = stable /\ snapshot' = None
        /\ UNCHANGED <<execution, settlement, totals>>
        /\ committing' = FALSE
        /\ losses' = losses + 1 /\ losses < MaxPowerLosses
    BY <1>3 DEF PowerLoss
  <2>2. losses' \in 0 .. MaxPowerLosses /\ losses' # 0
    BY <2>1, BudgetAssumption DEF TypeOK
  <2>3. TypeOK'
    BY <2>1, <2>2 DEF TypeOK
  <2>4. Sound(store)' /\ Sound(stable)'
    BY <2>1 DEF Sound, Exact, WithinCounts, WithinAmount, AddsUp, Held, Active, OfKind
  <2>5. SnapshotInv' /\ SettlementIsOfTerminal'
    BY <2>1, <2>2 DEF SnapshotInv, SettlementIsOfTerminal
  <2>. QED  BY <2>3, <2>4, <2>5
<1>. QED  BY <1>1, <1>2, <1>3

LEMMA NextInv == IInv /\ [Next]_vars => IInv'
<1>. SUFFICES ASSUME IInv, [Next]_vars  PROVE IInv'
  OBVIOUS
<1>0. Sound(store)
  BY DEF IInv
<1>1. ASSUME NEW i \in Ids, NEW k \in Kinds, NEW a \in Amounts, NEW f \in Fences, Reserve(i, k, a, f)
      PROVE  IInv'
  BY <1>0, <1>1, ReservedSound, AdmittedInv DEF Reserve
<1>2. ASSUME NEW i \in Ids, NEW f \in Fences, Start(i, f)
      PROVE  IInv'
  BY <1>0, <1>2, StartedSound, AdmittedInv DEF Start
<1>3. ASSUME NEW i \in Ids, NEW t \in Terminal, NEW f \in Fences, Settle(i, t, f)
      PROVE  IInv'
  BY <1>0, <1>3, SettledSound, AdmittedInv DEF Settle
<1>4. ASSUME NEW f \in Fences, RequestCancellation(f)
      PROVE  IInv'
  BY <1>0, <1>4, CancelledSound, AdmittedInv DEF RequestCancellation
<1>5. ASSUME NEW i \in Ids, NEW actual \in Usages, SettleUsage(i, actual)
      PROVE  IInv'
  BY <1>5, SettleUsageInv
<1>6. CASE UNCHANGED vars
  BY <1>6 DEF vars, IInv, TypeOK, Sound, Exact, WithinCounts, WithinAmount, AddsUp, Held, Active, OfKind,
              SnapshotInv, SettlementIsOfTerminal
<1>. QED  BY <1>1, <1>2, <1>3, <1>4, <1>5, <1>6, ReadInv, EnvironmentInv DEF Next

-----------------------------------------------------------------------------
\* The inductive invariant of the admission budget and its accounting.
THEOREM AdmissionInvariant == Spec => []IInv
BY InitInv, NextInv, PTL DEF Spec

\* Every variable keeps its type: in particular no settlement releases a
\* negative amount.
THEOREM AdmissionTypeOK == Spec => []TypeOK
<1>1. IInv => TypeOK
  BY DEF IInv
<1>. QED  BY <1>1, AdmissionInvariant, PTL

\* The counters are the reservations ever made of each kind, the amount is what
\* they add up to, finished ones included, and all stay within the limits of the
\* task contract.
THEOREM AdmissionBudgetHolds == Spec => []BudgetHolds
<1>1. IInv => BudgetHolds
  BY DEF IInv, Sound, BudgetHolds, AddsUp, TotalAmount
<1>. QED  BY <1>1, AdmissionInvariant, PTL

\* A cancellation is terminal exactly when no reservation is active.
THEOREM AdmissionCancellationIsExact == Spec => []CancellationIsExact
<1>1. IInv => CancellationIsExact
  BY DEF IInv, Sound, CancellationIsExact
<1>. QED  BY <1>1, AdmissionInvariant, PTL

\* Without power failures, usage is settled of finished reservations only and
\* of what they are for ever.
THEOREM AdmissionSettlementIsOfTerminal == Spec => []SettlementIsOfTerminal
<1>1. IInv => SettlementIsOfTerminal
  BY DEF IInv
<1>. QED  BY <1>1, AdmissionInvariant, PTL

-----------------------------------------------------------------------------
Starts ==
  store.status # "NONE" /\ losses' = losses =>
    /\ store'.status # "NONE"
    /\ store'.fence = store.fence
    /\ \A i \in Active(store'.reservations) :
         /\ i \in Active(store.reservations)
         /\ store'.reservations[i] = store.reservations[i]

LEMMA NextStarts == TypeOK /\ [Next]_vars => Starts
<1>. SUFFICES ASSUME TypeOK, [Next]_vars, store.status # "NONE", losses' = losses
              PROVE  /\ store'.status # "NONE"
                     /\ store'.fence = store.fence
                     /\ \A i \in Active(store'.reservations) :
                          /\ i \in Active(store.reservations)
                          /\ store'.reservations[i] = store.reservations[i]
  BY DEF Starts
<1>1. ASSUME store' = store
      PROVE  /\ store'.status # "NONE"
             /\ store'.fence = store.fence
             /\ \A i \in Active(store'.reservations) :
                  /\ i \in Active(store.reservations)
                  /\ store'.reservations[i] = store.reservations[i]
  BY <1>1
<1>2. ASSUME NEW i \in Ids, NEW t \in Terminal, NEW f \in Fences, Settle(i, t, f)
      PROVE  /\ store'.status # "NONE"
             /\ store'.fence = store.fence
             /\ \A j \in Active(store'.reservations) :
                  /\ j \in Active(store.reservations)
                  /\ store'.reservations[j] = store.reservations[j]
  <2>1. store \in Store /\ store.reservations \in Reservations
    BY DEF TypeOK, Store
  <2>2. store' = Settled(i, t) /\ store.reservations[i] # None
    BY <1>2 DEF Settle, Admitted
  <2>3. /\ store'.reservations = [store.reservations EXCEPT ![i].state = t]
        /\ store'.fence = store.fence
        /\ store'.status \in {"CANCELLED", store.status}
    BY <2>1, <2>2 DEF Settled, Store
  <2>4. \A j \in Ids \ {i} : store'.reservations[j] = store.reservations[j]
    BY <2>1, <2>3 DEF Reservations
  <2>5. store.reservations[i] \in Reservation
    BY <2>1, <2>2 DEF Reservations
  <2>6. store'.reservations[i].state = t
    BY <2>1, <2>3, <2>5 DEF Reservations, Reservation
  <2>. QED  BY <2>3, <2>4, <2>6 DEF Active, Held
<1>3. ~PowerLoss
  BY BudgetAssumption DEF PowerLoss, TypeOK
<1>4. \A f \in Fences :
        /\ \A i \in Ids : ~Start(i, f) /\ \A k \in Kinds, a \in Amounts : ~Reserve(i, k, a, f)
        /\ ~RequestCancellation(f)
  BY DEF Start, Reserve, RequestCancellation
<1>5. CASE Committed \/ ReadAdmission \/ AdvanceFence \/ TurnReconciliation \/ UNCHANGED vars
  BY <1>1, <1>5 DEF Committed, ReadAdmission, AdvanceFence, TurnReconciliation, vars
<1>6. ASSUME NEW i \in Ids, NEW actual \in Usages, SettleUsage(i, actual)
      PROVE  store' = store
  BY <1>6 DEF SettleUsage
<1>. QED  BY <1>1, <1>2, <1>3, <1>4, <1>5, <1>6 DEF Next

\* Once cancelled, nothing is reserved or started and the cancellation stands,
\* whatever else happens short of a power failure.
THEOREM AdmissionNothingStarts == Spec => NothingStartsAfterCancellation
<1>1. TypeOK /\ [Next]_vars => Starts
  BY NextStarts
<1>. QED  BY <1>1, AdmissionTypeOK, PTL DEF Spec, NothingStartsAfterCancellation, Starts
=============================================================================
