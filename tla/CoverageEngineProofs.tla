------------------------- MODULE CoverageEngineProofs -------------------------
(***************************************************************************)
(* Theorems of the coverage engine: the reasons it gives mean what the     *)
(* specification of the contracts says, the comparison in basis points is  *)
(* the exact comparison, the sum over the list is the sum over the usable  *)
(* trades, and evidence that is spent stays spent.                         *)
(***************************************************************************)
EXTENDS CoverageEngine, RegistryProofs

-----------------------------------------------------------------------------
(* Arithmetic.                                                             *)

\* Multiplication by a natural number keeps the order.
LEMMA TimesMonotone ==
  ASSUME NEW a \in Nat, NEW b \in Nat, NEW n \in Nat, a <= b
  PROVE  a * n <= b * n
OBVIOUS

\* What the quotient of a positive divisor is.
LEMMA QuotientBounds ==
  ASSUME NEW a \in Nat, NEW b \in Nat \ {0}
  PROVE  /\ a \div b \in Nat
         /\ (a \div b) * b <= a
         /\ a < ((a \div b) + 1) * b
OBVIOUS

\* Neither the division to basis points nor the cast to 16 bits moves the
\* threshold: the floored share reaches min exactly when the share itself does.
LEMMA FlooredThreshold ==
  ASSUME NEW counted \in Nat, NEW outstanding \in Nat \ {0}, counted <= outstanding,
         NEW min \in Nat
  PROVE  LET bps == uint16((counted * MAX_BPS) \div outstanding)
         IN /\ bps >= min <=> counted * MAX_BPS >= min * outstanding
            /\ bps * outstanding <= counted * MAX_BPS
            /\ bps <= MAX_BPS
<1> DEFINE a == counted * MAX_BPS
           q == a \div outstanding
<1>1. a \in Nat /\ a <= MAX_BPS * outstanding
  BY DEF MAX_BPS
<1>2. /\ q \in Nat
      /\ q * outstanding <= a
      /\ a < (q + 1) * outstanding
  BY <1>1, QuotientBounds
<1>3. q <= MAX_BPS
  <2> SUFFICES ASSUME q > MAX_BPS PROVE FALSE
    BY <1>2 DEF MAX_BPS
  <2>1. (MAX_BPS + 1) * outstanding <= q * outstanding
    BY <1>2, TimesMonotone DEF MAX_BPS
  <2>2. (MAX_BPS + 1) * outstanding = MAX_BPS * outstanding + outstanding
    BY DEF MAX_BPS
  <2> HIDE DEF q, a
  <2> QED
    BY <1>1, <1>2, <2>1, <2>2 DEF MAX_BPS
<1>4. uint16(q) = q
  BY <1>2, <1>3 DEF uint16, MAX_BPS
<1>5. q >= min => a >= min * outstanding
  <2> SUFFICES ASSUME q >= min PROVE a >= min * outstanding
    OBVIOUS
  <2>1. min * outstanding <= q * outstanding
    BY <1>2, TimesMonotone
  <2> HIDE DEF q, a
  <2> QED
    BY <1>1, <1>2, <2>1
<1>6. q < min => a < min * outstanding
  <2> SUFFICES ASSUME q < min PROVE a < min * outstanding
    OBVIOUS
  <2>1. (q + 1) * outstanding <= min * outstanding
    BY <1>2, TimesMonotone
  <2> HIDE DEF q, a
  <2> QED
    BY <1>1, <1>2, <2>1
<1>7. q >= min <=> a >= min * outstanding
  <2>1. min * outstanding \in Nat
    OBVIOUS
  <2> HIDE DEF q, a
  <2> QED
    BY <1>1, <1>2, <1>5, <1>6, <2>1
<1> QED
  BY <1>2, <1>3, <1>4, <1>7

-----------------------------------------------------------------------------
(* The invariant: the registries' own, and a block timestamp.              *)

EngineInv == CredentialInv /\ now \in 0..MaxTime

\* The initial state satisfies the invariant.
LEMMA EngineInitInv == EngineInit => EngineInv
BY CredentialInitInv, MaxTimeAssumption DEF EngineInit, EngineInv

\* Every transaction, and the passage of time, keeps the invariant.
LEMMA EngineStepInv == EngineInv /\ [EngineNext]_engineVars => EngineInv'
<1> SUFFICES ASSUME EngineInv, [EngineNext]_engineVars
             PROVE  EngineInv'
  OBVIOUS
<1>1. [CredentialNext]_credVars
  BY DEF EngineNext, Tick, engineVars
<1>2. CredentialInv'
  BY <1>1, CredentialStepInv DEF EngineInv
<1>3. now' \in 0..MaxTime
  BY MaxTimeAssumption DEF EngineInv, EngineNext, Tick, engineVars
<1> QED
  BY <1>2, <1>3 DEF EngineInv

\* Every reachable state satisfies the invariant.
LEMMA EngineInvariant == EngineSpec => []EngineInv
BY EngineInitInv, EngineStepInv, PTL DEF EngineSpec

\* The state of the engine is well typed.
THEOREM EngineTypes == EngineSpec => []EngineTypeOK
<1>1. EngineInv => EngineTypeOK
  BY DEF EngineInv, EngineTypeOK, CredentialInv
<1> QED
  BY <1>1, EngineInvariant, PTL

\* The fields of a stored exposure message.
LEMMA StoredExposureFields ==
  ASSUME EngineInv, exposure.credential # Zero
  PROVE  /\ exposure \in StoredExposure
         /\ exposure.credential \in ExposureCredential
         /\ exposure.credential.outstandingValue \in Nat \ {0}
         /\ exposure.credential.observedAt \in Nat
         /\ exposure.credential.validUntil \in Nat
         /\ policy.credentialMaxAge \in Nat
         /\ now \in Nat
<1>1. exposure \in StoredExposure
  BY DEF EngineInv, CredentialInv, CredentialTypeOK, EmptySlot
<1>2. exposure.credential \in ExposureCredential
  BY <1>1, CredentialsAssumption DEF StoredExposure
<1>3. exposure.credential.outstandingValue # 0
  BY DEF EngineInv, CredentialInv, EvidenceAccepted, ValidExposure
<1>4. policy.credentialMaxAge \in Nat
  BY DEF EngineInv, CredentialInv, RegistryInv, RegistryTypeOK, FacilityPolicy
<1> QED
  BY <1>1, <1>2, <1>3, <1>4, MaxTimeAssumption DEF EngineInv, ExposureCredential

\* The fields of a stored hedge message.
LEMMA StoredHedgeFields ==
  ASSUME EngineInv, NEW t \in Trades, hedges[t].credential # Zero
  PROVE  /\ hedges[t] \in StoredHedge
         /\ hedges[t].credential \in HedgeCredential
         /\ hedges[t].credential.observedAt \in Nat
         /\ hedges[t].credential.validUntil \in Nat
         /\ hedges[t].credential.maturity \in Nat
         /\ policy.credentialMaxAge \in Nat
         /\ policy.maturityTolerance \in Nat
         /\ now \in Nat
<1>1. hedges[t] \in StoredHedge
  BY DEF EngineInv, CredentialInv, CredentialTypeOK, EmptySlot
<1>2. hedges[t].credential \in HedgeCredential
  BY <1>1, CredentialsAssumption DEF StoredHedge
<1>3. policy.credentialMaxAge \in Nat /\ policy.maturityTolerance \in Nat
  BY DEF EngineInv, CredentialInv, RegistryInv, RegistryTypeOK, FacilityPolicy
<1> QED
  BY <1>1, <1>2, <1>3, MaxTimeAssumption DEF EngineInv, HedgeCredential

\* The reason given for an exposure is ELIGIBLE exactly when it is usable, and never
\* one of the two that acceptance excludes.
LEMMA ExposureReasonMeans ==
  ASSUME EngineInv
  PROVE  /\ assessed <=> usableExposure
         /\ exposureReason \notin {"ZERO_VALUE", "PAIR_MISMATCH"}
<1>1. CASE exposure.credential = Zero
  BY <1>1 DEF assessed, exposureReason, usableExposure, exposureAuthorityCurrent
<1>2. CASE exposure.credential # Zero
  <2>1. ValidExposure(exposure.credential)
    BY <1>2 DEF EngineInv, CredentialInv, EvidenceAccepted
  <2> QED
    BY <1>2, <2>1, StoredExposureFields
    DEF assessed, exposureReason, usableExposure, exposureAuthorityCurrent, ValidExposure
<1> QED
  BY <1>1, <1>2

\* What a usable hedge is beside an exposure that is assessed: its reason is
\* ELIGIBLE, and it was issued by another party.
LEMMA HedgeReasonMeans ==
  ASSUME EngineInv, assessed, NEW t \in Trades
  PROVE  /\ hedgeReason(t) = "ELIGIBLE" <=> usableHedge(t)
         /\ hedgeReason(t) # "SAME_AS_EXPOSURE_ISSUER"
         /\ hedgeReason(t) # "PAIR_MISMATCH"
<1>1. exposure.credential # Zero /\ exposure.issuer \in exposureIssuers
  BY ExposureReasonMeans DEF usableExposure, exposureAuthorityCurrent
<1>2. CASE hedges[t].credential = Zero
  BY <1>2 DEF hedgeReason, usableHedge, hedgeAuthorityCurrent
<1>3. CASE hedges[t].credential # Zero
  <2>1. ValidHedge(hedges[t].credential)
    BY <1>3 DEF EngineInv, CredentialInv, EvidenceAccepted
  <2>2. hedges[t].issuer \in hedgeIssuers => hedges[t].issuer # exposure.issuer
    BY <1>1 DEF EngineInv, CredentialInv, RegistryInv, RolesDisjoint
  <2>3. /\ exposureMaturity = exposure.credential.exposureMaturity
        /\ exposureMaturity \in Nat
    BY <1>1, StoredExposureFields DEF exposureMaturity, ExposureCredential
  <2> QED
    BY <1>3, <2>1, <2>2, <2>3, StoredHedgeFields
    DEF hedgeReason, usableHedge, hedgeAuthorityCurrent, ValidHedge
<1> QED
  BY <1>2, <1>3

\* Listed trades hold a message that was accepted for the facility and says ACTIVE.
LEMMA ListedReasons ==
  ASSUME EngineInv, NEW k \in 1..Len(activeTradeIds)
  PROVE  /\ activeTradeIds[k] \in Trades
         /\ hedges[activeTradeIds[k]].credential # Zero
         /\ hedgeReason(activeTradeIds[k]) \notin {"MISSING", "NOT_ACTIVE", "PAIR_MISMATCH"}
<1> DEFINE t == activeTradeIds[k]
<1>1. activeTradeIds \in Seq(Trades)
  BY DEF EngineInv, CredentialInv, CredentialTypeOK
<1>2. /\ t \in Trades
      /\ k # 0
  BY <1>1, ElementOfSeq, LenProperties
<1>3. assertedActive(hedges[t])
  BY <1>2 DEF EngineInv, CredentialInv, ActiveListConsistent
<1>4. ValidHedge(hedges[t].credential)
  BY <1>2, <1>3 DEF EngineInv, CredentialInv, EvidenceAccepted, assertedActive
<1> QED
  BY <1>2, <1>3, <1>4 DEF hedgeReason, assertedActive, ValidHedge

\* The reasons the registries already exclude are never given
\* (CoverageEngine.sol:157, 165-169, 185, 193-203).
THEOREM UnreachableReasons == EngineSpec => []DefensiveReasonsUnreachable
<1>1. EngineInv => DefensiveReasonsUnreachable
  BY ExposureReasonMeans, ListedReasons, HedgeReasonMeans DEF DefensiveReasonsUnreachable
<1> QED
  BY <1>1, EngineInvariant, PTL

-----------------------------------------------------------------------------
(* Sums over finite sets.                                                  *)

\* Induction over the finite subsets: what holds of a set when it holds of all its
\* strict subsets holds of the whole, said of a set G of sets instead of a predicate.
LEMMA SetInduction ==
  ASSUME NEW S, IsFiniteSet(S), NEW G, 
         \A T \in SUBSET S : (\A U \in SUBSET T : U # T => U \in G) => T \in G
  PROVE  S \in G
<1> DEFINE R == StrictSubsetOrdering(S)
           bad == (SUBSET S) \ G
<1>1. IsWellFoundedOn(R, SUBSET S)
  BY FS_StrictSubsetOrderingWellFounded, FS_FiniteSubsetsOfFinite
<1> SUFFICES ASSUME bad # {} PROVE FALSE
  OBVIOUS
<1>2. \E T \in bad : \A U \in bad : <<U, T>> \notin R
  <2>1. bad \subseteq SUBSET S
    OBVIOUS
  <2> HIDE DEF R, bad
  <2> QED BY <1>1, <2>1, WFMin
<1>3. PICK T \in bad : \A U \in bad : <<U, T>> \notin R
  BY <1>2
<1>4. \A U \in SUBSET T : U # T => U \in G
  BY <1>3 DEF StrictSubsetOrdering
<1> QED
  BY <1>3, <1>4

\* MapThenSumSet unfolded: the element it takes next, the function that it defines by
\* recursion on the subsets of S, and its value.
chosen(s) == CHOOSE x \in s : TRUE

IsTotal(it, f, S) ==
  it = [s \in SUBSET S |-> IF s = {} THEN 0 ELSE f[chosen(s)] + it[s \ {chosen(s)}]]
totals(f, S) == CHOOSE it : IsTotal(it, f, S)
Total(f, S) == totals(f, S)[S]

\* The element taken next is one of the set, which is smaller without it.
LEMMA Chosen ==
  ASSUME NEW s, s # {}
  PROVE  chosen(s) \in s /\ s \ {chosen(s)} # s /\ s \ {chosen(s)} \in SUBSET s
BY DEF chosen

\* What the defining equation says of one subset.
LEMMA TotalsAt ==
  ASSUME NEW it, NEW f, NEW S, IsTotal(it, f, S), NEW s \in SUBSET S
  PROVE  it[s] = IF s = {} THEN 0 ELSE f[chosen(s)] + it[s \ {chosen(s)}]
BY DEF IsTotal

\* One function at most satisfies the equation, whatever larger set it is defined on.
LEMMA TotalsUnique ==
  ASSUME NEW f, NEW S, NEW T, IsFiniteSet(S), S \subseteq T,
         NEW a, NEW b, IsTotal(a, f, S), IsTotal(b, f, T)
  PROVE  a[S] = b[S]
<1> DEFINE G == {s \in SUBSET S : a[s] = b[s]}
<1>1. ASSUME NEW s \in SUBSET S, \A u \in SUBSET s : u # s => u \in G
      PROVE  s \in G
  <2>1. /\ a[s] = IF s = {} THEN 0 ELSE f[chosen(s)] + a[s \ {chosen(s)}]
        /\ b[s] = IF s = {} THEN 0 ELSE f[chosen(s)] + b[s \ {chosen(s)}]
    BY TotalsAt
  <2>2. s # {} => a[s \ {chosen(s)}] = b[s \ {chosen(s)}]
    BY <1>1, Chosen
  <2> QED BY <2>1, <2>2
<1> HIDE DEF G
<1>2. S \in G
  BY <1>1, SetInduction
<1> QED BY <1>2 DEF G

\* A function satisfies it: that of a set extends those of its strict subsets.
LEMMA TotalsExist ==
  ASSUME NEW f, NEW S, IsFiniteSet(S)
  PROVE  IsTotal(totals(f, S), f, S)
<1> DEFINE G == {s \in SUBSET S : \E it : IsTotal(it, f, s)}
<1>1. ASSUME NEW s \in SUBSET S, \A u \in SUBSET s : u # s => u \in G
      PROVE  s \in G
  <2> DEFINE rest(u) == u \ {chosen(u)}
             value(u) == IF u = {} THEN 0 ELSE f[chosen(u)] + Total(f, rest(u))
             it == [u \in SUBSET s |-> value(u)]
  <2>1. \A u \in SUBSET s : u # s => IsTotal(totals(f, u), f, u)
    BY <1>1 DEF totals
  <2>2. ASSUME NEW u \in SUBSET s, u # s
        PROVE  Total(f, u) = value(u)
    <3>1. CASE u = {}
      BY <2>1, <2>2, <3>1, TotalsAt DEF Total
    <3>2. CASE u # {}
      <4>1. rest(u) \in SUBSET u /\ rest(u) # s /\ rest(u) \in SUBSET s
        BY <2>2, <3>2, Chosen
      <4>2. IsFiniteSet(rest(u))
        BY <4>1, FS_Subset
      <4>3. totals(f, rest(u))[rest(u)] = totals(f, u)[rest(u)]
        <5> HIDE DEF rest
        <5> QED BY <2>1, <2>2, <4>1, <4>2, TotalsUnique
      <4>4. totals(f, u)[u] = f[chosen(u)] + totals(f, u)[rest(u)]
        BY <2>1, <2>2, <3>2, TotalsAt
      <4> QED BY <3>2, <4>3, <4>4 DEF Total
    <3> QED BY <3>1, <3>2
  <2>3. \A u \in SUBSET s : u # {} => it[rest(u)] = Total(f, rest(u))
    <3> SUFFICES ASSUME NEW u \in SUBSET s, u # {} PROVE it[rest(u)] = Total(f, rest(u))
      OBVIOUS
    <3>1. rest(u) \in SUBSET s /\ rest(u) # s
      BY Chosen
    <3>2. it[rest(u)] = value(rest(u))
      BY <3>1
    <3> HIDE DEF rest, value, it
    <3> QED BY <2>2, <3>1, <3>2
  <2>4. it = [u \in SUBSET s |-> IF u = {} THEN 0 ELSE f[chosen(u)] + it[rest(u)]]
    BY <2>3
  <2>5. IsTotal(it, f, s)
    BY <2>4 DEF IsTotal
  <2> QED BY <2>5
<1> HIDE DEF G
<1>2. S \in G
  BY <1>1, SetInduction
<1> QED BY <1>2 DEF G, totals

\* The empty sum ...
LEMMA TotalOfNone == ASSUME NEW f PROVE Total(f, {}) = 0
BY TotalsExist, TotalsAt, FS_EmptySet DEF Total

\* ... and one step of the recursion.
LEMMA TotalChosen ==
  ASSUME NEW f, NEW S, IsFiniteSet(S), S # {}
  PROVE  Total(f, S) = f[chosen(S)] + Total(f, S \ {chosen(S)})
<1> DEFINE r == S \ {chosen(S)}
<1>1. r \in SUBSET S /\ IsFiniteSet(r)
  BY Chosen, FS_Subset
<1>2. IsTotal(totals(f, S), f, S) /\ IsTotal(totals(f, r), f, r)
  BY <1>1, TotalsExist
<1>3. totals(f, S)[S] = f[chosen(S)] + totals(f, S)[r]
  BY <1>2, TotalsAt
<1> HIDE DEF r
<1>4. totals(f, r)[r] = totals(f, S)[r]
  BY <1>1, <1>2, TotalsUnique
<1> QED BY <1>3, <1>4 DEF Total, r

\* Natural numbers add up to one.
LEMMA TotalIsNatural ==
  ASSUME NEW f, NEW S, IsFiniteSet(S), \A x \in S : f[x] \in Nat
  PROVE  Total(f, S) \in Nat
<1> DEFINE G == {s \in SUBSET S : Total(f, s) \in Nat}
<1>1. ASSUME NEW s \in SUBSET S, \A u \in SUBSET s : u # s => u \in G
      PROVE  s \in G
  <2>1. CASE s = {}
    BY <2>1, TotalOfNone
  <2>2. CASE s # {}
    <3>1. IsFiniteSet(s)
      BY FS_Subset
    <3>2. f[chosen(s)] \in Nat /\ Total(f, s \ {chosen(s)}) \in Nat
      BY <1>1, <2>2, Chosen
    <3> QED BY <2>2, <3>1, <3>2, TotalChosen
  <2> QED BY <2>1, <2>2
<1> HIDE DEF G
<1>2. S \in G
  BY <1>1, SetInduction
<1> QED BY <1>2 DEF G

\* The order does not matter: any element may be taken first.
LEMMA TotalOfOneAndRest ==
  ASSUME NEW f, NEW S, IsFiniteSet(S), \A x \in S : f[x] \in Nat, NEW x \in S
  PROVE  Total(f, S) = f[x] + Total(f, S \ {x})
<1> DEFINE G == {s \in SUBSET S : \A y \in s : Total(f, s) = f[y] + Total(f, s \ {y})}
<1>1. ASSUME NEW s \in SUBSET S, \A u \in SUBSET s : u # s => u \in G
      PROVE  s \in G
  <2> SUFFICES ASSUME NEW y \in s PROVE Total(f, s) = f[y] + Total(f, s \ {y})
    OBVIOUS
  <2> DEFINE c == chosen(s)
             rest == (s \ {c}) \ {y}
  <2>1. IsFiniteSet(s) /\ IsFiniteSet(s \ {y}) /\ IsFiniteSet(rest)
    BY FS_Subset
  <2>2. c \in s /\ Total(f, s) = f[c] + Total(f, s \ {c})
    BY <2>1, Chosen, TotalChosen
  <2>3. CASE y # c
    <3>1. Total(f, s \ {c}) = f[y] + Total(f, rest)
      BY <1>1, <2>2, <2>3
    <3>2. Total(f, s \ {y}) = f[c] + Total(f, (s \ {y}) \ {c})
      BY <1>1, <2>2, <2>3
    <3>3. (s \ {y}) \ {c} = rest
      OBVIOUS
    <3>4. f[y] \in Nat /\ f[c] \in Nat /\ Total(f, rest) \in Nat
      <4>1. \A z \in rest : f[z] \in Nat
        OBVIOUS
      <4> HIDE DEF rest
      <4> QED BY <2>1, <2>2, <4>1, TotalIsNatural
    <3> HIDE DEF rest, c
    <3> QED BY <2>2, <3>1, <3>2, <3>3, <3>4
  <2> QED BY <2>2, <2>3
<1> HIDE DEF G
<1>2. S \in G
  BY <1>1, SetInduction
<1> QED BY <1>2 DEF G

\* Summing over the places of a list without repetition is summing over what it lists.
LEMMA TotalsAgree ==
  ASSUME NEW S, IsFiniteSet(S), NEW f, NEW g, NEW a,
         \A x \in S : f[x] \in Nat /\ g[a[x]] = f[x],
         \A x, y \in S : a[x] = a[y] => x = y
  PROVE  Total(f, S) = Total(g, {a[x] : x \in S})
<1> DEFINE image(s) == {a[x] : x \in s}
           G == {s \in SUBSET S : Total(f, s) = Total(g, image(s))}
<1>1. ASSUME NEW s \in SUBSET S, \A u \in SUBSET s : u # s => u \in G
      PROVE  s \in G
  <2>1. CASE s = {}
    BY <2>1, TotalOfNone
  <2>2. CASE s # {}
    <3>1. PICK x \in s : TRUE
      BY <2>2
    <3>2. IsFiniteSet(s) /\ IsFiniteSet(image(s))
      <4>1. IsFiniteSet(s)
        BY FS_Subset
      <4>2. [z \in s |-> a[z]] \in Surjection(s, image(s))
        BY DEF Surjection
      <4> HIDE DEF image
      <4> QED BY <4>1, <4>2, FS_Surjection
    <3>3. Total(f, s) = f[x] + Total(f, s \ {x})
      BY <3>1, <3>2, TotalOfOneAndRest
    <3>4. Total(f, s \ {x}) = Total(g, image(s \ {x}))
      BY <1>1, <3>1
    <3>5. image(s \ {x}) = image(s) \ {a[x]}
      BY <3>1
    <3>6. a[x] \in image(s) /\ \A z \in image(s) : g[z] \in Nat
      BY <3>1
    <3>7. Total(g, image(s)) = g[a[x]] + Total(g, image(s) \ {a[x]})
      <4> HIDE DEF image
      <4> QED BY <3>2, <3>6, TotalOfOneAndRest
    <3> QED BY <3>1, <3>3, <3>4, <3>5, <3>7
  <2> QED BY <2>1, <2>2
<1> HIDE DEF G
<1>2. S \in G
  BY <1>1, SetInduction
<1> QED BY <1>2 DEF G

\* The sum of the rule is such a total ...
LEMMA SumIsTotal ==
  ASSUME NEW S, IsFiniteSet(S), NEW f, \A x \in S : f[x] = adjustedNotional(x)
  PROVE  MapThenSumSet(adjustedNotional, S) = Total(f, S)
<1> DEFINE iter(it) == it = [s \in SUBSET S |-> IF s = {} THEN 0
                               ELSE adjustedNotional(chosen(s)) + it[s \ {chosen(s)}]]
<1>1. MapThenSumSet(adjustedNotional, S) = (CHOOSE it : iter(it))[S]
  BY DEF MapThenSumSet, MapThenFoldSet, chosen
<1>2. \A it : iter(it) <=> IsTotal(it, f, S)
  <2>1. \A s \in SUBSET S : s # {} => f[chosen(s)] = adjustedNotional(chosen(s))
    BY Chosen
  <2> QED BY <2>1 DEF IsTotal
<1> HIDE DEF iter
<1>3. iter(totals(f, S))
  BY <1>2, TotalsExist
<1>4. IsTotal(CHOOSE it : iter(it), f, S)
  BY <1>2, <1>3
<1> QED BY <1>1, <1>4, TotalsExist, TotalsUnique DEF Total

\* ... and so is the one of the loop.
LEMMA PlacesSumIsTotal ==
  ASSUME IsFiniteSet(eligiblePlaces), NEW f,
         \A k \in eligiblePlaces : f[k] = adjustedNotional(activeTradeIds[k])
  PROVE  grossEligible = Total(f, eligiblePlaces)
<1> DEFINE S == eligiblePlaces
           iter(it) == it = [s \in SUBSET S |-> IF s = {} THEN 0
                 ELSE adjustedNotional(activeTradeIds[chosen(s)]) + it[s \ {chosen(s)}]]
<1>1. grossEligible = (CHOOSE it : iter(it))[S]
  BY DEF grossEligible, MapThenSumSet, MapThenFoldSet, chosen
<1>2. \A it : iter(it) <=> IsTotal(it, f, S)
  <2>1. \A s \in SUBSET S : s # {} => f[chosen(s)] = adjustedNotional(activeTradeIds[chosen(s)])
    BY Chosen
  <2> QED BY <2>1 DEF IsTotal
<1> HIDE DEF iter
<1>3. iter(totals(f, S))
  BY <1>2, TotalsExist
<1>4. IsTotal(CHOOSE it : iter(it), f, S)
  BY <1>2, <1>3
<1> QED BY <1>1, <1>4, TotalsExist, TotalsUnique DEF Total

-----------------------------------------------------------------------------
(* The evaluation and the rule.                                            *)

\* A haircut is a share of the notional: createFacility demands it, and nothing changes
\* it later.
HaircutIsAShare == policy.defaultHaircutBps <= MAX_BPS

\* Every reachable policy has such a haircut (FacilityRegistry.sol, _validatePolicy).
LEMMA HaircutStaysAShare == EngineSpec => []HaircutIsAShare
<1>1. EngineInit => HaircutIsAShare
  BY DEF EngineInit, CredentialInit, RegistryInit, EmptyPolicy, HaircutIsAShare, MAX_BPS
<1>2. EngineInv /\ HaircutIsAShare /\ [EngineNext]_engineVars => HaircutIsAShare'
  <2> SUFFICES ASSUME EngineInv, HaircutIsAShare, [EngineNext]_engineVars
               PROVE  HaircutIsAShare'
    OBVIOUS
  <2>1. [RegistryNext]_registryVars
    BY DEF EngineNext, Tick, engineVars, CredentialNext, credVars
  <2>2. policy' = policy \/ ValidPolicy(policy') \/ policy' = [policy EXCEPT !.frozen = TRUE]
    BY <2>1 DEF RegistryNext, registryVars, createFacility, freezeFacility,
                setExposureIssuer, setHedgeIssuer
  <2>3. policy \in FacilityPolicy
    BY DEF EngineInv, CredentialInv, RegistryInv, RegistryTypeOK
  <2> QED
    BY <2>2, <2>3 DEF ValidPolicy, HaircutIsAShare, FacilityPolicy
<1> QED
  BY <1>1, <1>2, EngineInvariant, PTL DEF EngineSpec

\* What is left of a notional after the haircut is a natural number.
LEMMA AdjustedIsNatural ==
  ASSUME EngineInv, HaircutIsAShare, NEW t \in Trades, hedges[t].credential # Zero
  PROVE  adjustedNotional(t) \in Nat
<1>1. hedges[t].credential.remainingNotional \in Nat
  BY StoredHedgeFields DEF HedgeCredential
<1>2. MAX_BPS - policy.defaultHaircutBps \in Nat
  BY DEF EngineInv, CredentialInv, RegistryInv, RegistryTypeOK, FacilityPolicy,
         HaircutIsAShare, MAX_BPS
<1>3. hedges[t].credential.remainingNotional * (MAX_BPS - policy.defaultHaircutBps) \in Nat
  <2> DEFINE a == hedges[t].credential.remainingNotional
             b == MAX_BPS - policy.defaultHaircutBps
  <2>1. a \in Nat /\ b \in Nat
    BY <1>1, <1>2
  <2> HIDE DEF a, b
  <2>2. a * b \in Nat
    BY <2>1
  <2> QED  BY <2>2 DEF a, b
<1>4. MAX_BPS \in Nat \ {0}
  BY DEF MAX_BPS
<1> QED
  BY <1>3, <1>4, QuotientBounds DEF adjustedNotional

\* The loop adds up exactly the usable trades, each at one place of the list.
LEMMA PlacesAreUsable ==
  ASSUME EngineInv, assessed
  PROVE  /\ {activeTradeIds[k] : k \in eligiblePlaces} = {t \in Trades : usableHedge(t)}
         /\ \A j, k \in eligiblePlaces : activeTradeIds[j] = activeTradeIds[k] => j = k
         /\ IsFiniteSet(eligiblePlaces)
<1>1. ASSUME NEW k \in eligiblePlaces
      PROVE  activeTradeIds[k] \in Trades /\ usableHedge(activeTradeIds[k])
  BY <1>1, ListedReasons, HedgeReasonMeans DEF eligiblePlaces
<1>2. ASSUME NEW t \in Trades, usableHedge(t)
      PROVE  \E k \in eligiblePlaces : activeTradeIds[k] = t
  <2>1. assertedActive(hedges[t])
    BY <1>2 DEF usableHedge, hedgeAuthorityCurrent, assertedActive
  <2>2. /\ activeTradeIndex[t] \in 1..Len(activeTradeIds)
        /\ activeTradeIds[activeTradeIndex[t]] = t
    BY <2>1 DEF EngineInv, CredentialInv, ActiveListConsistent
  <2>3. hedgeReason(t) = "ELIGIBLE"
    BY <1>2, HedgeReasonMeans
  <2> QED
    BY <2>2, <2>3 DEF eligiblePlaces
<1>3. \A j, k \in eligiblePlaces : activeTradeIds[j] = activeTradeIds[k] => j = k
  BY DEF eligiblePlaces, EngineInv, CredentialInv, ActiveListConsistent
<1>4. IsFiniteSet(eligiblePlaces)
  <2>1. Len(activeTradeIds) \in Nat
    BY LenProperties DEF EngineInv, CredentialInv, CredentialTypeOK
  <2>2. eligiblePlaces \subseteq 1..Len(activeTradeIds)
    BY DEF eligiblePlaces
  <2>3. IsFiniteSet(1..Len(activeTradeIds))
    BY <2>1, FS_Interval
  <2> QED
    BY <2>2, <2>3, FS_Subset
<1> QED
  BY <1>1, <1>2, <1>3, <1>4

\* ... so that its sum is the sum over the usable trades, a natural number.
LEMMA LoopSumsUsable ==
  ASSUME EngineInv, HaircutIsAShare, assessed
  PROVE  /\ MapThenSumSet(adjustedNotional, {t \in Trades : usableHedge(t)}) = grossEligible
         /\ grossEligible \in Nat
<1> DEFINE usable == {t \in Trades : usableHedge(t)}
           place == [k \in eligiblePlaces |-> activeTradeIds[k]]
           atPlace == [k \in eligiblePlaces |-> adjustedNotional(activeTradeIds[k])]
           ofTrade == [t \in usable |-> adjustedNotional(t)]
<1>1. /\ usable = {place[k] : k \in eligiblePlaces}
      /\ \A j, k \in eligiblePlaces : place[j] = place[k] => j = k
      /\ IsFiniteSet(eligiblePlaces)
  BY PlacesAreUsable
<1>2. IsFiniteSet(usable)
  <2>1. place \in Surjection(eligiblePlaces, usable)
    BY <1>1 DEF Surjection
  <2> HIDE DEF place, usable
  <2> QED
    BY <1>1, <2>1, FS_Surjection
<1>3. \A t \in usable : adjustedNotional(t) \in Nat
  BY AdjustedIsNatural DEF usableHedge, hedgeAuthorityCurrent
<1>4. \A k \in eligiblePlaces : atPlace[k] \in Nat /\ ofTrade[place[k]] = atPlace[k]
  <2> SUFFICES ASSUME NEW k \in eligiblePlaces
               PROVE  atPlace[k] \in Nat /\ ofTrade[place[k]] = atPlace[k]
    OBVIOUS
  <2>1. place[k] \in usable /\ place[k] = activeTradeIds[k]
    BY <1>1
  <2>2. ofTrade[place[k]] = adjustedNotional(place[k]) /\ adjustedNotional(place[k]) \in Nat
    BY <1>3, <2>1
  <2> QED
    BY <2>1, <2>2
<1>5. \A t \in usable : ofTrade[t] = adjustedNotional(t)
  OBVIOUS
<1>6. \A k \in eligiblePlaces : atPlace[k] = adjustedNotional(activeTradeIds[k])
  OBVIOUS
<1> HIDE DEF usable, place, atPlace, ofTrade
<1>7. MapThenSumSet(adjustedNotional, usable) = Total(ofTrade, usable)
  BY <1>2, <1>5, SumIsTotal
<1>8. grossEligible = Total(atPlace, eligiblePlaces)
  BY <1>1, <1>6, PlacesSumIsTotal
<1>9. Total(atPlace, eligiblePlaces) = Total(ofTrade, usable)
  BY <1>1, <1>4, TotalsAgree
<1>10. Total(atPlace, eligiblePlaces) \in Nat
  BY <1>1, <1>4, TotalIsNatural
<1> QED
  BY <1>7, <1>8, <1>9, <1>10 DEF usable

\* The lesser of two natural numbers.
LEMMA LesserOfTwo ==
  ASSUME NEW a \in Nat, NEW b \in Nat
  PROVE  Min({a, b}) = IF a > b THEN b ELSE a
<1> DEFINE m == IF a > b THEN b ELSE a
<1>1. m \in {a, b} /\ \A y \in {a, b} : m <= y
  OBVIOUS
<1>2. Min({a, b}) \in {a, b} /\ \A y \in {a, b} : Min({a, b}) <= y
  BY <1>1 DEF Min
<1> QED
  BY <1>1, <1>2

\* The evaluation is the rule of the specification in every reachable state, for any
\* policy, any messages and any number of trades: the loop over the swap-and-pop list
\* sums every usable trade once, and neither the divisions nor the cast move the
\* threshold (CoverageEngine.sol:74-111).
THEOREM EvaluationIsExact == EngineSpec => []EvaluateMatchesRule
<1>1. ASSUME EngineInv, HaircutIsAShare PROVE EvaluateMatchesRule
  <2>1. assessed <=> usableExposure
    BY <1>1, ExposureReasonMeans
  <2>2. SUFFICES ASSUME usableExposure
                 PROVE  LET usable == {t \in Trades : usableHedge(t)}
                            gross == MapThenSumSet(adjustedNotional, usable)
                            counted == Min({gross, outstandingValue})
                        IN /\ gross = grossEligible
                           /\ compliant <=> counted * MAX_BPS >= policy.minCoverageBps * outstandingValue
                           /\ coverageBps * outstandingValue <= counted * MAX_BPS
    BY <2>1 DEF EvaluateMatchesRule
  <2>3. /\ MapThenSumSet(adjustedNotional, {t \in Trades : usableHedge(t)}) = grossEligible
        /\ grossEligible \in Nat
    BY <1>1, <2>1, <2>2, LoopSumsUsable
  <2>4. outstandingValue \in Nat \ {0}
    BY <1>1, <2>2, StoredExposureFields
    DEF outstandingValue, usableExposure, exposureAuthorityCurrent
  <2>5. countedEligible = Min({grossEligible, outstandingValue})
    BY <2>3, <2>4, LesserOfTwo DEF countedEligible
  <2>6. countedEligible \in Nat /\ countedEligible <= outstandingValue
    BY <2>3, <2>4 DEF countedEligible
  <2>7. policy.minCoverageBps \in Nat
    BY <1>1 DEF EngineInv, CredentialInv, RegistryInv, RegistryTypeOK, FacilityPolicy
  <2>8. /\ coverageBps >= policy.minCoverageBps
             <=> countedEligible * MAX_BPS >= policy.minCoverageBps * outstandingValue
        /\ coverageBps * outstandingValue <= countedEligible * MAX_BPS
    BY <2>4, <2>6, <2>7, FlooredThreshold DEF coverageBps
  <2>9. compliant <=> coverageBps >= policy.minCoverageBps
    BY <2>1, <2>2 DEF compliant
  <2> QED
    BY <2>3, <2>5, <2>8, <2>9
<1> QED
  BY <1>1, EngineInvariant, HaircutStaysAShare, PTL

-----------------------------------------------------------------------------
(* Evidence that is spent.                                                 *)

\* What a step may do to the policy, the clock and the revocations.
LEMMA EngineStepGrows ==
  ASSUME EngineInv, [EngineNext]_engineVars
  PROVE  /\ policy.frozen => policy' = policy
         /\ now' >= now
         /\ revokedDigests \subseteq revokedDigests'
         /\ AuthorityStep
<1>1. [CredentialNext]_credVars
  BY DEF EngineNext, Tick, engineVars
<1>2. policy.frozen => policy' = policy
  <2>1. [RegistryNext]_registryVars
    BY <1>1 DEF CredentialNext, credVars
  <2> QED
    BY <2>1, FrozenPolicyStays DEF EngineInv, CredentialInv, RegistryInv, EvidenceAccepted
<1>3. now' >= now
  BY MaxTimeAssumption DEF EngineNext, Tick, engineVars, EngineInv
<1>4. revokedDigests \subseteq revokedDigests'
  BY <1>1 DEF CredentialNext, credVars, credentialVars, submitExposure, submitHedge,
              revokeExposure, revokeHedge, revoke
<1> QED
  BY <1>1, <1>2, <1>3, <1>4, CredentialStepAuthority DEF EngineInv

SpentStep ==
  /\ spentExposure /\ exposure' = exposure => spentExposure' /\ ~assessed'
  /\ \A t \in Trades :
       spentHedge(t) /\ hedges'[t] = hedges[t]
         => spentHedge(t)' /\ hedgeReason(t)' # "ELIGIBLE"

\* A spent message stays spent, and what is spent has another reason than ELIGIBLE.
LEMMA EngineStepSpent == EngineInv /\ [EngineNext]_engineVars => SpentStep
<1> SUFFICES ASSUME EngineInv, [EngineNext]_engineVars
             PROVE  SpentStep
  OBVIOUS
<1>1. EngineInv'
  BY EngineStepInv
<1>2. /\ policy.frozen => policy' = policy
      /\ now' >= now
      /\ revokedDigests \subseteq revokedDigests'
      /\ AuthorityStep
  BY EngineStepGrows
<1>3. ASSUME spentExposure, exposure' = exposure
      PROVE  spentExposure' /\ ~assessed'
  <2>1. exposure.credential # Zero /\ policy' = policy
    BY <1>2, <1>3 DEF spentExposure, EngineInv, CredentialInv, EvidenceAccepted
  <2>2. now \in Nat /\ now' \in Nat
    BY <1>1, MaxTimeAssumption DEF EngineInv
  <2>3. spentExposure'
    BY <1>2, <1>3, <2>1, <2>2, StoredExposureFields DEF spentExposure, AuthorityStep
  <2>4. (assessed <=> usableExposure)'
    BY <1>1, ExposureReasonMeans, PTL
  <2>5. ~usableExposure'
    BY <1>3, <2>1, <2>2, <2>3, StoredExposureFields DEF spentExposure, usableExposure
  <2> QED
    BY <2>3, <2>4, <2>5
<1>4. ASSUME NEW t \in Trades, spentHedge(t), hedges'[t] = hedges[t]
      PROVE  spentHedge(t)' /\ hedgeReason(t)' # "ELIGIBLE"
  <2>1. hedges[t].credential # Zero /\ policy' = policy
    BY <1>2, <1>4 DEF spentHedge, EngineInv, CredentialInv, EvidenceAccepted
  <2>2. now \in Nat /\ now' \in Nat
    BY <1>1, MaxTimeAssumption DEF EngineInv
  <2>3. spentHedge(t)'
    BY <1>2, <1>4, <2>1, <2>2, StoredHedgeFields DEF spentHedge, AuthorityStep
  <2>4. hedgeReason(t)' # "ELIGIBLE"
    BY <1>4, <2>1, <2>2, <2>3, StoredHedgeFields
    DEF spentHedge, hedgeReason, hedgeAuthorityCurrent
  <2> QED
    BY <2>3, <2>4
<1> QED
  BY <1>3, <1>4 DEF SpentStep

\* Expired, stale, revoked and disowned messages never count again
\* (CoverageEngine.sol:151-218), for any messages and any order of events.
THEOREM SpentStaysSpent == EngineSpec => SpentNeverCounts
<1>1. EngineInv /\ [EngineNext]_engineVars => [SpentStep]_engineVars
  BY EngineStepSpent
<1>2. EngineSpec => [][SpentStep]_engineVars
  BY <1>1, EngineInvariant, PTL DEF EngineSpec
<1> QED
  BY <1>2 DEF SpentNeverCounts, SpentStep
=============================================================================
