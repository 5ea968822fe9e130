----------------------------- MODULE RegistryProofs -----------------------------
(***************************************************************************)
(* Theorems of the two registries, for any set of issuers, policies,       *)
(* trades and credentials: first the facility registry alone, whose step   *)
(* lemmas are stated for RegistryNext, then the credential registry, which *)
(* cites them for the facility's part of its steps.                        *)
(***************************************************************************)
EXTENDS CredentialRegistry, FiniteSetTheorems, SequenceTheorems, TLAPS

-----------------------------------------------------------------------------
(* The facility registry.                                                  *)

\* Inductive: the counters stay naturals because they are the cardinalities, and
\* a withdrawal decrements the cardinality of a set that holds the issuer.
RegistryInv == RegistryTypeOK /\ RolesDisjoint /\ CountsExact

\* A facility that nobody created satisfies the registry's invariant.
LEMMA RegistryInitInv == RegistryInit => RegistryInv
<1> SUFFICES ASSUME RegistryInit PROVE RegistryInv
  OBVIOUS
<1>1. EmptyPolicy \in FacilityPolicy
  BY DEF EmptyPolicy, FacilityPolicy
<1>2. RegistryTypeOK
  BY <1>1 DEF RegistryInit, RegistryTypeOK
<1>3. CountsExact
  BY FS_EmptySet DEF RegistryInit, CountsExact
<1> QED
  BY <1>2, <1>3 DEF RegistryInit, RegistryInv, RolesDisjoint

\* Granting a role adds one element to its set and one to its count.
LEMMA GrantCounts ==
  ASSUME NEW S, IsFiniteSet(S), NEW n, n = Cardinality(S), NEW x, x \notin S
  PROVE  /\ IsFiniteSet(S \cup {x})
         /\ n + 1 = Cardinality(S \cup {x})
         /\ n + 1 \in Nat
BY FS_AddElement, FS_CardinalityType

\* Withdrawing a role that is held removes one element and one count, and the
\* count does not underflow.
LEMMA WithdrawCounts ==
  ASSUME NEW S, IsFiniteSet(S), NEW n, n = Cardinality(S), NEW x, x \in S
  PROVE  /\ IsFiniteSet(S \ {x})
         /\ n - 1 = Cardinality(S \ {x})
         /\ n - 1 \in Nat
<1>1. /\ IsFiniteSet(S \ {x})
      /\ Cardinality(S \ {x}) = Cardinality(S) - 1
  BY FS_RemoveElement
<1>2. Cardinality(S \ {x}) \in Nat
  BY <1>1, FS_CardinalityType
<1> QED
  BY <1>1, <1>2

\* Every transaction of the registry keeps its invariant.
LEMMA RegistryStepInv == RegistryInv /\ [RegistryNext]_registryVars => RegistryInv'
<1> SUFFICES ASSUME RegistryInv, [RegistryNext]_registryVars
             PROVE  RegistryInv'
  OBVIOUS
<1> USE DEF RegistryInv, RegistryTypeOK, RolesDisjoint, CountsExact
<1>1. ASSUME NEW sender \in Accounts, NEW p \in Policies, createFacility(sender, p)
      PROVE  RegistryInv'
  BY <1>1, PoliciesAssumption DEF createFacility, exposureRole, hedgeRole
<1>2. ASSUME NEW sender \in Accounts, freezeFacility(sender)
      PROVE  RegistryInv'
  <2>1. policy' \in FacilityPolicy
    BY <1>2 DEF freezeFacility, FacilityPolicy
  <2> QED
    BY <1>2, <2>1 DEF freezeFacility, exposureRole, hedgeRole
<1>3. ASSUME NEW sender \in Accounts, NEW issuer \in Issuers, NEW authorized \in BOOLEAN,
             setExposureIssuer(sender, issuer, authorized)
      PROVE  RegistryInv'
  <2>1. CASE grantExposureRole(issuer)
    <3>1. /\ IsFiniteSet(exposureIssuers')
          /\ exposureIssuerCount' = Cardinality(exposureIssuers')
          /\ exposureIssuerCount' \in Nat
      BY <2>1, GrantCounts DEF grantExposureRole
    <3> QED
      BY <1>3, <2>1, <3>1 DEF setExposureIssuer, grantExposureRole, hedgeRole
  <2>2. CASE withdrawExposureRole(issuer)
    <3>1. /\ IsFiniteSet(exposureIssuers')
          /\ exposureIssuerCount' = Cardinality(exposureIssuers')
          /\ exposureIssuerCount' \in Nat
      BY <2>2, WithdrawCounts DEF withdrawExposureRole
    <3> QED
      BY <1>3, <2>2, <3>1 DEF setExposureIssuer, withdrawExposureRole, hedgeRole
  <2> QED
    BY <1>3, <2>1, <2>2 DEF setExposureIssuer
<1>4. ASSUME NEW sender \in Accounts, NEW issuer \in Issuers, NEW authorized \in BOOLEAN,
             setHedgeIssuer(sender, issuer, authorized)
      PROVE  RegistryInv'
  <2>1. CASE grantHedgeRole(issuer)
    <3>1. /\ IsFiniteSet(hedgeIssuers')
          /\ hedgeIssuerCount' = Cardinality(hedgeIssuers')
          /\ hedgeIssuerCount' \in Nat
      BY <2>1, GrantCounts DEF grantHedgeRole
    <3> QED
      BY <1>4, <2>1, <3>1 DEF setHedgeIssuer, grantHedgeRole, exposureRole
  <2>2. CASE withdrawHedgeRole(issuer)
    <3>1. /\ IsFiniteSet(hedgeIssuers')
          /\ hedgeIssuerCount' = Cardinality(hedgeIssuers')
          /\ hedgeIssuerCount' \in Nat
      BY <2>2, WithdrawCounts DEF withdrawHedgeRole
    <3> QED
      BY <1>4, <2>2, <3>1 DEF setHedgeIssuer, withdrawHedgeRole, exposureRole
  <2> QED
    BY <1>4, <2>1, <2>2 DEF setHedgeIssuer
<1>5. CASE UNCHANGED registryVars
  BY <1>5 DEF registryVars, exposureRole, hedgeRole
<1> QED
  BY <1>1, <1>2, <1>3, <1>4, <1>5 DEF RegistryNext

LEMMA RegistryInvariant == RegistrySpec => []RegistryInv
BY RegistryInitInv, RegistryStepInv, PTL DEF RegistrySpec

\* Every reachable state of the registry is well typed and its counters are the numbers
\* of addresses that hold each role, which freezing relies on (FacilityRegistry.sol:92-144).
THEOREM RegistrySafety == RegistrySpec => [](RegistryTypeOK /\ CountsExact)
<1>1. RegistryInv => RegistryTypeOK /\ CountsExact
  BY DEF RegistryInv
<1> QED
  BY <1>1, RegistryInvariant, PTL

\* No address ever holds both roles, however grants and withdrawals alternate
\* (FacilityRegistry.sol:107, 129).
THEOREM RolesStayDisjoint == RegistrySpec => []RolesDisjoint
<1>1. RegistryInv => RolesDisjoint
  BY DEF RegistryInv
<1> QED
  BY <1>1, RegistryInvariant, PTL

\* What one transaction does to the policy, for the action property below.
PolicyStep ==
  /\ exists => exists' /\ policy' \in {policy, [policy EXCEPT !.frozen = TRUE]}
  /\ ~exists => \/ exists' = exists /\ policy' = policy
                \/ exists' /\ ValidPolicy(policy')

\* Only createFacility writes a policy, and only freezeFacility its flag.
LEMMA RegistryStepPolicy == RegistryTypeOK /\ [RegistryNext]_registryVars => PolicyStep
<1> SUFFICES ASSUME RegistryTypeOK, [RegistryNext]_registryVars
             PROVE  PolicyStep
  OBVIOUS
<1>1. ASSUME NEW sender \in Accounts, NEW p \in Policies, createFacility(sender, p)
      PROVE  PolicyStep
  BY <1>1 DEF createFacility, PolicyStep
<1>2. ASSUME NEW sender \in Accounts, freezeFacility(sender)
      PROVE  PolicyStep
  BY <1>2 DEF freezeFacility, onlyAdmin, PolicyStep
<1>3. CASE UNCHANGED <<exists, policy>>
  BY <1>3 DEF PolicyStep
<1>4. ASSUME NEW sender \in Accounts, NEW issuer \in Issuers, NEW authorized \in BOOLEAN,
             \/ setExposureIssuer(sender, issuer, authorized)
             \/ setHedgeIssuer(sender, issuer, authorized)
      PROVE  PolicyStep
  BY <1>3, <1>4 DEF setExposureIssuer, setHedgeIssuer
<1> QED
  BY <1>1, <1>2, <1>3, <1>4 DEF RegistryNext, registryVars

\* The frozen flag goes up once and the rest of the policy never moves
\* (FacilityRegistry.sol:73-100).
THEOREM PolicyNeverChanges == RegistrySpec => PolicyImmutable
<1>1. RegistryInv /\ [RegistryNext]_registryVars
        => [exists => /\ exists'
                      /\ policy' \in {policy, [policy EXCEPT !.frozen = TRUE]}]_registryVars
  BY RegistryStepPolicy DEF RegistryInv, PolicyStep
<1>2. RegistrySpec => []RegistryInv
  BY RegistryInitInv, RegistryStepInv, PTL DEF RegistrySpec
<1> QED
  BY <1>1, <1>2, PTL DEF RegistrySpec, PolicyImmutable

\* What one transaction does to the epochs, for the action property below.
EpochStep ==
  \A i \in Issuers :
    /\ exposureIssuerEpoch'[i] >= exposureIssuerEpoch[i]
    /\ hedgeIssuerEpoch'[i] >= hedgeIssuerEpoch[i]
    /\ i \in exposureIssuers \ exposureIssuers'
         <=> exposureIssuerEpoch'[i] # exposureIssuerEpoch[i]
    /\ i \in hedgeIssuers \ hedgeIssuers'
         <=> hedgeIssuerEpoch'[i] # hedgeIssuerEpoch[i]

\* Every step of the registry moves exactly the epochs of the roles it takes away.
LEMMA RegistryStepEpochs ==
  RegistryTypeOK /\ [RegistryNext]_registryVars => EpochStep
<1> SUFFICES ASSUME RegistryTypeOK, [RegistryNext]_registryVars
             PROVE  EpochStep
  OBVIOUS
<1> USE DEF RegistryTypeOK, EpochStep
<1>1. ASSUME NEW sender \in Accounts, NEW p \in Policies, createFacility(sender, p)
      PROVE  EpochStep
  BY <1>1 DEF createFacility, exposureRole, hedgeRole
<1>2. ASSUME NEW sender \in Accounts, freezeFacility(sender)
      PROVE  EpochStep
  BY <1>2 DEF freezeFacility, exposureRole, hedgeRole
<1>3. ASSUME NEW sender \in Accounts, NEW issuer \in Issuers, NEW authorized \in BOOLEAN,
             setExposureIssuer(sender, issuer, authorized)
      PROVE  EpochStep
  BY <1>3 DEF setExposureIssuer, grantExposureRole, withdrawExposureRole, hedgeRole
<1>4. ASSUME NEW sender \in Accounts, NEW issuer \in Issuers, NEW authorized \in BOOLEAN,
             setHedgeIssuer(sender, issuer, authorized)
      PROVE  EpochStep
  BY <1>4 DEF setHedgeIssuer, grantHedgeRole, withdrawHedgeRole, exposureRole
<1>5. CASE UNCHANGED registryVars
  BY <1>5 DEF registryVars, exposureRole, hedgeRole
<1> QED
  BY <1>1, <1>2, <1>3, <1>4, <1>5 DEF RegistryNext

\* The epoch of a role tells every two periods of authorization apart
\* (FacilityRegistry.sol:113-118, 135-140).
THEOREM EpochsSeparatePeriods == RegistrySpec => EpochSeparatesPeriods
<1>1. RegistryTypeOK /\ [RegistryNext]_registryVars => [EpochStep]_registryVars
  BY RegistryStepEpochs
<1>2. RegistrySpec => []RegistryTypeOK
  BY RegistrySafety, PTL
<1>3. RegistrySpec => [][EpochStep]_registryVars
  BY <1>1, <1>2, PTL DEF RegistrySpec
<1> QED
  BY <1>3 DEF EpochSeparatesPeriods, EpochStep

-----------------------------------------------------------------------------
(* The credential registry: the swap-and-pop list and its index.           *)

\* The list and the one-based index describe each other.
ListShape ==
  /\ activeTradeIds \in Seq(Trades)
  /\ activeTradeIndex \in [Trades -> Nat]
  /\ \A k \in 1..Len(activeTradeIds) : activeTradeIndex[activeTradeIds[k]] = k
  /\ \A t \in Trades :
       activeTradeIndex[t] # 0 => /\ activeTradeIndex[t] \in 1..Len(activeTradeIds)
                                  /\ activeTradeIds[activeTradeIndex[t]] = t

\* push keeps the shape and lists exactly one more trade.
LEMMA ListingKeepsShape ==
  ASSUME ListShape, NEW t \in Trades, activeTradeIndex[t] = 0, listActiveTrade(t)
  PROVE  /\ ListShape'
         /\ \A u \in Trades : activeTradeIndex'[u] # 0 <=> u = t \/ activeTradeIndex[u] # 0
<1> DEFINE n == Len(activeTradeIds)
<1>1. n \in Nat
  BY LenProperties DEF ListShape
<1>2. /\ activeTradeIds' \in Seq(Trades)
      /\ Len(activeTradeIds') = n + 1
      /\ \A k \in 1..n : activeTradeIds'[k] = activeTradeIds[k]
      /\ activeTradeIds'[n + 1] = t
  BY AppendProperties DEF ListShape, listActiveTrade
<1>3. /\ activeTradeIndex' \in [Trades -> Nat]
      /\ activeTradeIndex'[t] = n + 1
      /\ \A u \in Trades \ {t} : activeTradeIndex'[u] = activeTradeIndex[u]
  BY <1>1 DEF ListShape, listActiveTrade
<1>4. \A k \in 1..n : activeTradeIds[k] \in Trades \ {t}
  <2> SUFFICES ASSUME NEW k \in 1..n PROVE activeTradeIds[k] \in Trades \ {t}
    OBVIOUS
  <2>1. activeTradeIds[k] \in Trades
    BY ElementOfSeq DEF ListShape
  <2>2. activeTradeIndex[activeTradeIds[k]] = k
    BY DEF ListShape
  <2> QED
    BY <1>1, <2>1, <2>2
<1>5. \A k \in 1..(n + 1) : activeTradeIndex'[activeTradeIds'[k]] = k
  <2> SUFFICES ASSUME NEW k \in 1..(n + 1)
               PROVE  activeTradeIndex'[activeTradeIds'[k]] = k
    OBVIOUS
  <2>1. CASE k \in 1..n
    <3>1. activeTradeIds'[k] = activeTradeIds[k]
      BY ONLY <1>2, <2>1
    <3>2. activeTradeIndex'[activeTradeIds[k]] = activeTradeIndex[activeTradeIds[k]]
      BY ONLY <1>3, <1>4, <2>1
    <3>3. activeTradeIndex[activeTradeIds[k]] = k
      BY <2>1 DEF ListShape
    <3> QED
      BY ONLY <3>1, <3>2, <3>3
  <2>2. CASE k = n + 1
    BY ONLY <1>2, <1>3, <2>2
  <2> QED
    BY <1>1, <2>1, <2>2
<1>6. \A u \in Trades :
        activeTradeIndex'[u] # 0 => /\ activeTradeIndex'[u] \in 1..(n + 1)
                                    /\ activeTradeIds'[activeTradeIndex'[u]] = u
  <2> SUFFICES ASSUME NEW u \in Trades, activeTradeIndex'[u] # 0
               PROVE  /\ activeTradeIndex'[u] \in 1..(n + 1)
                      /\ activeTradeIds'[activeTradeIndex'[u]] = u
    OBVIOUS
  <2>1. CASE u = t
    BY <1>1, <1>2, <1>3, <2>1
  <2>2. CASE u # t
    <3>1. activeTradeIndex'[u] = activeTradeIndex[u]
      BY <1>3, <2>2
    <3>2. /\ activeTradeIndex[u] \in 1..n
          /\ activeTradeIds[activeTradeIndex[u]] = u
      BY <3>1 DEF ListShape
    <3> QED
      BY <1>1, <1>2, <3>1, <3>2
  <2> QED
    BY <2>1, <2>2
<1>7. ListShape'
  <2>1. 1..Len(activeTradeIds') = 1..(n + 1)
    BY <1>2
  <2>2. \A k \in 1..Len(activeTradeIds') : activeTradeIndex'[activeTradeIds'[k]] = k
    BY <1>5, <2>1
  <2>3. \A u \in Trades :
          activeTradeIndex'[u] # 0 =>
            /\ activeTradeIndex'[u] \in 1..Len(activeTradeIds')
            /\ activeTradeIds'[activeTradeIndex'[u]] = u
    BY <1>6, <2>1
  <2> QED
    BY <1>2, <1>3, <2>2, <2>3 DEF ListShape
<1>8. \A u \in Trades : activeTradeIndex'[u] # 0 <=> u = t \/ activeTradeIndex[u] # 0
  BY <1>1, <1>3
<1> QED
  BY <1>7, <1>8

\* Swap and pop keeps the shape and takes exactly one trade off the list.
LEMMA RemovingKeepsShape ==
  ASSUME ListShape, NEW t \in Trades, activeTradeIndex[t] # 0, removeActiveTrade(t)
  PROVE  /\ ListShape'
         /\ Len(activeTradeIds') <= Len(activeTradeIds)
         /\ \A u \in Trades : activeTradeIndex'[u] # 0 <=> u # t /\ activeTradeIndex[u] # 0
<1> DEFINE n == Len(activeTradeIds)
           i == activeTradeIndex[t]
           m == activeTradeIds[n]
<1>1. /\ n \in Nat
      /\ i \in 1..n
      /\ activeTradeIds[i] = t
  BY LenProperties DEF ListShape
<1>2. /\ n \in 1..n
      /\ m \in Trades
      /\ activeTradeIndex[m] = n
  BY <1>1, ElementOfSeq DEF ListShape
<1>3. activeTradeIds' = [k \in 1..(n - 1) |-> activeTradeIds[IF k = i THEN n ELSE k]]
  BY DEF removeActiveTrade
<1>4. /\ activeTradeIds' \in Seq(Trades)
      /\ Len(activeTradeIds') = n - 1
  <2>1. \A k \in 1..(n - 1) : activeTradeIds[IF k = i THEN n ELSE k] \in Trades
    BY <1>1, <1>2, ElementOfSeq DEF ListShape
  <2>2. n - 1 \in Nat
    BY <1>1
  <2> QED
    BY <1>3, <2>1, <2>2, IsASeq
<1>5. /\ activeTradeIndex' \in [Trades -> Nat]
      /\ activeTradeIndex'[t] = 0
      /\ m # t => activeTradeIndex'[m] = i
      /\ \A u \in Trades \ {t, m} : activeTradeIndex'[u] = activeTradeIndex[u]
  BY <1>1, <1>2 DEF ListShape, removeActiveTrade
<1>6. m = t <=> i = n
  BY <1>1, <1>2
<1>7. \A k \in 1..(n - 1) : activeTradeIndex'[activeTradeIds'[k]] = k
  <2> SUFFICES ASSUME NEW k \in 1..(n - 1)
               PROVE  activeTradeIndex'[activeTradeIds'[k]] = k
    OBVIOUS
  <2>1. CASE k = i
    BY <1>1, <1>3, <1>5, <1>6, <2>1
  <2>2. CASE k # i
    <3>1. /\ k \in 1..n
          /\ activeTradeIds'[k] = activeTradeIds[k]
      BY <1>1, <1>3, <2>2
    <3>2. /\ activeTradeIds[k] \in Trades
          /\ activeTradeIndex[activeTradeIds[k]] = k
      BY <3>1, ElementOfSeq DEF ListShape
    <3>3. activeTradeIds[k] \notin {t, m}
      BY <1>1, <1>2, <2>2, <3>2
    <3> QED
      BY <1>5, <3>1, <3>2, <3>3
  <2> QED
    BY <2>1, <2>2
<1>8. ASSUME NEW u \in Trades
      PROVE  /\ activeTradeIndex'[u] # 0 =>
                  /\ activeTradeIndex'[u] \in 1..(n - 1)
                  /\ activeTradeIds'[activeTradeIndex'[u]] = u
             /\ activeTradeIndex'[u] # 0 <=> u # t /\ activeTradeIndex[u] # 0
  <2>1. CASE u = t
    BY <1>5, <2>1
  <2>2. CASE u # t /\ u = m
    <3>1. i \in 1..(n - 1)
      BY <1>1, <1>6, <2>2
    <3> QED
      BY <1>1, <1>2, <1>3, <1>5, <2>2, <3>1
  <2>3. CASE u \notin {t, m}
    <3>1. activeTradeIndex'[u] = activeTradeIndex[u]
      BY <1>5, <2>3
    <3>2. CASE activeTradeIndex[u] # 0
      <4>1. /\ activeTradeIndex[u] \in 1..n
            /\ activeTradeIds[activeTradeIndex[u]] = u
        BY <3>2 DEF ListShape
      <4>2. /\ activeTradeIndex[u] # n
            /\ activeTradeIndex[u] # i
        BY <1>1, <1>2, <2>3, <4>1
      <4> QED
        BY <1>1, <1>3, <2>3, <3>1, <3>2, <4>1, <4>2
    <3> QED
      BY <2>3, <3>1, <3>2
  <2> QED
    BY <2>1, <2>2, <2>3
<1>9. ListShape'
  BY <1>4, <1>5, <1>7, <1>8 DEF ListShape
<1>10. Len(activeTradeIds') <= Len(activeTradeIds)
  BY <1>1, <1>4
<1> QED
  BY <1>8, <1>9, <1>10

-----------------------------------------------------------------------------
(* The invariant.                                                          *)

\* Nothing is submitted before the facility exists and is frozen, and what was
\* stored then still satisfies the conditions it was accepted under.
EvidenceAccepted ==
  /\ policy.frozen => exists
  /\ ~policy.frozen => activeTradeIds = <<>>
  /\ exposure.credential # Zero => policy.frozen /\ ValidExposure(exposure.credential)
  /\ \A t \in Trades :
       hedges[t].credential # Zero => /\ policy.frozen
                                      /\ hedges[t].credential.tradeId = t
                                      /\ ValidHedge(hedges[t].credential)

\* The epoch a message was accepted under is not ahead of its issuer's, and is
\* behind it when the issuer has lost the role.
EpochBehind(slot, issuers, epoch) ==
  slot.credential # Zero =>
    /\ slot.issuerEpoch <= epoch[slot.issuer]
    /\ slot.issuer \notin issuers => slot.issuerEpoch < epoch[slot.issuer]

EpochsBehind ==
  /\ EpochBehind(exposure, exposureIssuers, exposureIssuerEpoch)
  /\ \A t \in Trades : EpochBehind(hedges[t], hedgeIssuers, hedgeIssuerEpoch)

\* A revoked message is not newer than the one its slot holds.
RevokedOvertaken ==
  /\ \A c \in revokedDigests \cap ExposureCredentials : c.sequence <= sequenceOf(exposure)
  /\ \A c \in revokedDigests \cap HedgeCredentials :
       c.sequence <= sequenceOf(hedges[c.tradeId])

CredentialInv ==
  /\ CredentialTypeOK
  /\ RegistryInv
  /\ ActiveListConsistent
  /\ ActiveListBounded
  /\ EvidenceAccepted
  /\ EpochsBehind
  /\ RevokedOvertaken

\* The empty registry satisfies the invariant.
LEMMA CredentialInitInv == CredentialInit => CredentialInv
<1> SUFFICES ASSUME CredentialInit PROVE CredentialInv
  OBVIOUS
<1> USE DEF CredentialInit, EmptySlot
<1>1. RegistryInv
  BY RegistryInitInv
<1>2. /\ policy.frozen = FALSE
      /\ policy.maxActiveHedges = 0
  BY DEF RegistryInit, EmptyPolicy
<1>3. activeTradeIds \in Seq(Trades) /\ Len(activeTradeIds) = 0
  BY EmptySeq
<1>4. CredentialTypeOK
  BY <1>1, <1>3 DEF CredentialTypeOK, RegistryInv
<1>5. ActiveListConsistent
  BY <1>3 DEF ActiveListConsistent, assertedActive
<1>6. ActiveListBounded
  BY <1>2, <1>3 DEF ActiveListBounded
<1>7. EvidenceAccepted /\ EpochsBehind /\ RevokedOvertaken
  BY <1>2 DEF EvidenceAccepted, EpochsBehind, EpochBehind, RevokedOvertaken
<1> QED
  BY <1>1, <1>4, <1>5, <1>6, <1>7 DEF CredentialInv

\* The policy that messages are held against does not move once it is frozen.
LEMMA FrozenPolicyStays ==
  ASSUME RegistryTypeOK, policy.frozen => exists, [RegistryNext]_registryVars
  PROVE  /\ policy'.frozen => exists'
         /\ policy.frozen => policy' = policy
<1>1. PolicyStep
  BY RegistryStepPolicy
<1>2. CASE exists
  <2>1. exists'
    BY <1>1, <1>2 DEF PolicyStep
  <2>2. policy.frozen => [policy EXCEPT !.frozen = TRUE] = policy
    BY DEF RegistryTypeOK, FacilityPolicy
  <2> QED
    BY <1>1, <1>2, <2>1, <2>2 DEF PolicyStep
<1>3. CASE ~exists
  BY <1>1, <1>3 DEF PolicyStep, ValidPolicy
<1> QED
  BY <1>2, <1>3

\* A transaction of the facility registry keeps the invariant.
LEMMA RegistryPartKeeps ==
  ASSUME CredentialInv, [RegistryNext]_registryVars, UNCHANGED credentialVars
  PROVE  CredentialInv'
<1> USE DEF credentialVars, listVars
<1>1. RegistryInv'
  BY RegistryStepInv DEF CredentialInv
<1>2. EpochStep
  BY RegistryStepEpochs DEF CredentialInv, RegistryInv
<1>3. /\ policy'.frozen => exists'
      /\ policy.frozen => policy' = policy
  BY FrozenPolicyStays DEF CredentialInv, RegistryInv, EvidenceAccepted
<1>4. CredentialTypeOK'
  BY <1>1 DEF CredentialInv, CredentialTypeOK, RegistryInv
<1>5. ActiveListConsistent'
  BY DEF CredentialInv, ActiveListConsistent, assertedActive
<1>6. ActiveListBounded'
  <2>1. CASE policy.frozen
    BY <1>3, <2>1 DEF CredentialInv, ActiveListBounded
  <2>2. CASE ~policy.frozen
    <3>1. activeTradeIds' = <<>>
      BY <2>2 DEF CredentialInv, EvidenceAccepted
    <3>2. policy'.maxActiveHedges \in Nat
      BY <1>1 DEF RegistryInv, RegistryTypeOK, FacilityPolicy
    <3> QED
      BY <3>1, <3>2, EmptySeq DEF ActiveListBounded
  <2> QED
    BY <2>1, <2>2
<1>7. EvidenceAccepted'
  BY <1>3 DEF CredentialInv, EvidenceAccepted, ValidExposure, ValidHedge
<1>8. EpochsBehind'
  <2>1. EpochBehind(exposure, exposureIssuers, exposureIssuerEpoch)'
    <3> SUFFICES ASSUME exposure.credential # Zero
                 PROVE  /\ exposure.issuerEpoch <= exposureIssuerEpoch'[exposure.issuer]
                        /\ exposure.issuer \notin exposureIssuers' =>
                             exposure.issuerEpoch < exposureIssuerEpoch'[exposure.issuer]
      BY DEF EpochBehind
    <3>1. exposure \in StoredExposure
      BY DEF CredentialInv, CredentialTypeOK, EmptySlot
    <3> QED
      BY <1>1, <1>2, <3>1 DEF CredentialInv, EpochsBehind, EpochBehind, EpochStep, StoredExposure,
                          RegistryInv, RegistryTypeOK
  <2>2. ASSUME NEW t \in Trades
        PROVE  EpochBehind(hedges[t], hedgeIssuers, hedgeIssuerEpoch)'
    <3> SUFFICES ASSUME hedges[t].credential # Zero
                 PROVE  /\ hedges[t].issuerEpoch <= hedgeIssuerEpoch'[hedges[t].issuer]
                        /\ hedges[t].issuer \notin hedgeIssuers' =>
                             hedges[t].issuerEpoch < hedgeIssuerEpoch'[hedges[t].issuer]
      BY DEF EpochBehind
    <3>1. hedges[t] \in StoredHedge
      BY DEF CredentialInv, CredentialTypeOK, EmptySlot
    <3> QED
      BY <1>1, <1>2, <3>1 DEF CredentialInv, EpochsBehind, EpochBehind, EpochStep, StoredHedge,
                          RegistryInv, RegistryTypeOK
  <2> QED
    BY <2>1, <2>2 DEF EpochsBehind
<1>9. RevokedOvertaken'
  BY DEF CredentialInv, RevokedOvertaken, sequenceOf
<1> QED
  BY <1>1, <1>4, <1>5, <1>6, <1>7, <1>8, <1>9 DEF CredentialInv

\* The active list over registries that do not move is judged by itself.
LEMMA ListUntouched ==
  ASSUME CredentialInv, UNCHANGED <<policy, listVars>>,
         \A t \in Trades : assertedActive(hedges[t])' <=> assertedActive(hedges[t])
  PROVE  ActiveListConsistent' /\ ActiveListBounded'
BY DEF CredentialInv, ActiveListConsistent, ActiveListBounded, listVars

\* Accepting an exposure message keeps the invariant.
LEMMA SubmitExposureKeeps ==
  ASSUME CredentialInv, UNCHANGED registryVars,
         NEW c \in ExposureCredentials, NEW issuer \in Issuers, submitExposure(c, issuer)
  PROVE  CredentialInv'
<1> USE DEF submitExposure
<1>1. /\ UNCHANGED <<exists, policy, exposureIssuers, hedgeIssuers, exposureIssuerEpoch,
                     hedgeIssuerEpoch, exposureIssuerCount, hedgeIssuerCount>>
      /\ UNCHANGED <<hedges, activeTradeIds, activeTradeIndex, revokedDigests>>
  BY DEF registryVars, exposureRole, hedgeRole, listVars
<1>2. RegistryInv'
  BY <1>1 DEF CredentialInv, RegistryInv, RegistryTypeOK, RolesDisjoint, CountsExact
<1>3. /\ exposureIssuerEpoch \in [Issuers -> Nat]
      /\ exposure' \in StoredExposure
      /\ exposure'.credential = c
      /\ exposure'.issuer = issuer
      /\ exposure'.issuerEpoch = exposureIssuerEpoch[issuer]
  BY DEF CredentialInv, RegistryInv, RegistryTypeOK, StoredExposure
<1>4. /\ c # Zero
      /\ c \in ExposureCredential
  BY CredentialsAssumption
<1>5. CredentialTypeOK'
  BY <1>1, <1>2, <1>3 DEF CredentialInv, CredentialTypeOK, RegistryInv
<1>6. ActiveListConsistent' /\ ActiveListBounded'
  BY <1>1, ListUntouched DEF assertedActive, listVars
<1>7. EvidenceAccepted'
  BY <1>1, <1>3 DEF CredentialInv, EvidenceAccepted, ValidExposure, ValidHedge
<1>8. EpochsBehind'
  BY <1>1, <1>3 DEF CredentialInv, EpochsBehind, EpochBehind
<1>9. RevokedOvertaken'
  <2>1. \A d \in revokedDigests \cap ExposureCredentials :
          d.sequence \in Nat /\ d.sequence <= sequenceOf(exposure)
    BY CredentialsAssumption DEF CredentialInv, RevokedOvertaken, ExposureCredential
  <2>2. sequenceOf(exposure) \in Nat
    BY CredentialsAssumption
    DEF CredentialInv, CredentialTypeOK, sequenceOf, StoredExposure, EmptySlot, ExposureCredential
  <2>3. c.sequence \in Nat /\ c.sequence > sequenceOf(exposure)
    BY <1>4 DEF exposureInSequence, ExposureCredential
  <2>4. sequenceOf(exposure)' = c.sequence
    BY <1>3, <1>4 DEF sequenceOf
  <2>5. \A d \in revokedDigests' \cap ExposureCredentials : d.sequence <= sequenceOf(exposure)'
    BY <1>1, <2>1, <2>2, <2>3, <2>4
  <2>6. \A d \in revokedDigests' \cap HedgeCredentials :
          d.sequence <= sequenceOf(hedges[d.tradeId])'
    BY <1>1 DEF CredentialInv, RevokedOvertaken, sequenceOf
  <2> QED
    BY <2>5, <2>6 DEF RevokedOvertaken
<1> QED
  BY <1>2, <1>5, <1>6, <1>7, <1>8, <1>9 DEF CredentialInv

\* The list follows the status of the hedge message that replaces the trade's last.
LEMMA SubmitHedgeListing ==
  ASSUME CredentialInv, UNCHANGED registryVars,
         NEW c \in HedgeCredentials, NEW issuer \in Issuers, submitHedge(c, issuer)
  PROVE  /\ ListShape'
         /\ ActiveListConsistent'
         /\ ActiveListBounded'
<1> USE DEF submitHedge
<1> DEFINE t == c.tradeId
<1>1. /\ t \in Trades
      /\ c # Zero
      /\ c.status \in HedgeStatus
  BY CredentialsAssumption DEF HedgeCredential
<1>2. ListShape
  BY DEF CredentialInv, CredentialTypeOK, ActiveListConsistent, ListShape
<1>3. \A u \in Trades : activeTradeIndex[u] # 0 <=> assertedActive(hedges[u])
  BY DEF CredentialInv, ActiveListConsistent
<1>4. /\ assertedActive(hedges[t])' <=> c.status = "ACTIVE"
      /\ \A u \in Trades \ {t} : hedges'[u] = hedges[u]
  BY <1>1 DEF CredentialInv, CredentialTypeOK, assertedActive
<1>5. /\ policy' = policy
      /\ policy.maxActiveHedges \in Nat
      /\ Len(activeTradeIds) \in Nat
      /\ Len(activeTradeIds) <= policy.maxActiveHedges
  BY <1>2, LenProperties DEF CredentialInv, RegistryInv, RegistryTypeOK, FacilityPolicy,
                             ActiveListBounded, ListShape, registryVars
<1>6. /\ ListShape'
      /\ Len(activeTradeIds') <= policy.maxActiveHedges
      /\ activeTradeIndex'[t] # 0 <=> c.status = "ACTIVE"
      /\ \A u \in Trades \ {t} : activeTradeIndex'[u] # 0 <=> activeTradeIndex[u] # 0
  <2>1. CASE c.status = "ACTIVE" /\ activeTradeIndex[t] = 0 /\ listActiveTrade(t)
    <3>1. /\ ListShape'
          /\ \A u \in Trades : activeTradeIndex'[u] # 0 <=> u = t \/ activeTradeIndex[u] # 0
      BY <1>1, <1>2, <2>1, ListingKeepsShape
    <3>2. Len(activeTradeIds') = Len(activeTradeIds) + 1
      BY <1>1, <1>2, <2>1, AppendProperties DEF listActiveTrade, ListShape
    <3> QED
      BY <1>1, <1>5, <2>1, <3>1, <3>2 DEF listActiveTrade
  <2>2. CASE c.status # "ACTIVE" /\ activeTradeIndex[t] # 0 /\ removeActiveTrade(t)
    <3>1. /\ ListShape'
          /\ Len(activeTradeIds') <= Len(activeTradeIds)
          /\ \A u \in Trades : activeTradeIndex'[u] # 0 <=> u # t /\ activeTradeIndex[u] # 0
      BY <1>1, <1>2, <2>2, RemovingKeepsShape
    <3>2. Len(activeTradeIds') \in Nat
      BY <3>1, LenProperties DEF ListShape
    <3> QED
      BY <1>1, <1>5, <2>2, <3>1, <3>2
  <2>3. CASE (c.status = "ACTIVE") = (activeTradeIndex[t] # 0) /\ UNCHANGED listVars
    <3>1. activeTradeIds' = activeTradeIds /\ activeTradeIndex' = activeTradeIndex
      BY <2>3 DEF listVars
    <3>2. ListShape'
      BY <1>2, <3>1 DEF ListShape
    <3> QED
      BY <1>5, <2>3, <3>1, <3>2
  <2> QED
    BY <2>1, <2>2, <2>3 DEF followStatus
<1>7. ASSUME NEW u \in Trades
      PROVE  activeTradeIndex'[u] # 0 <=> assertedActive(hedges[u])'
  <2>1. CASE u = t
    BY <1>4, <1>6, <2>1
  <2>2. CASE u # t
    BY <1>3, <1>4, <1>6, <2>2 DEF assertedActive
  <2> QED
    BY <2>1, <2>2
<1>8. ActiveListConsistent'
  BY <1>6, <1>7 DEF ActiveListConsistent, ListShape
<1> QED
  BY <1>5, <1>6, <1>8 DEF ActiveListBounded

\* Accepting a hedge message keeps the invariant.
LEMMA SubmitHedgeKeeps ==
  ASSUME CredentialInv, UNCHANGED registryVars,
         NEW c \in HedgeCredentials, NEW issuer \in Issuers, submitHedge(c, issuer)
  PROVE  CredentialInv'
<1> USE DEF submitHedge
<1> DEFINE t == c.tradeId
<1>1. /\ UNCHANGED <<exists, policy, exposureIssuers, hedgeIssuers, exposureIssuerEpoch,
                     hedgeIssuerEpoch, exposureIssuerCount, hedgeIssuerCount>>
      /\ UNCHANGED <<exposure, revokedDigests>>
  BY DEF registryVars, exposureRole, hedgeRole
<1>2. RegistryInv'
  BY <1>1 DEF CredentialInv, RegistryInv, RegistryTypeOK, RolesDisjoint, CountsExact
<1>3. /\ ListShape'
      /\ ActiveListConsistent'
      /\ ActiveListBounded'
  BY SubmitHedgeListing
<1>4. /\ t \in Trades
      /\ c # Zero
      /\ c.sequence \in Nat
  BY CredentialsAssumption DEF HedgeCredential
<1>5. /\ hedges' \in [Trades -> StoredHedge \cup {EmptySlot}]
      /\ hedges'[t].credential = c
      /\ hedges'[t].issuer = issuer
      /\ hedges'[t].issuerEpoch = hedgeIssuerEpoch[issuer]
      /\ hedgeIssuerEpoch[issuer] \in Nat
      /\ \A u \in Trades \ {t} : hedges'[u] = hedges[u]
  BY <1>4 DEF CredentialInv, CredentialTypeOK, RegistryInv, RegistryTypeOK, StoredHedge
<1>6. CredentialTypeOK'
  BY <1>1, <1>2, <1>3, <1>5 DEF CredentialInv, CredentialTypeOK, RegistryInv, ListShape
<1>7. EvidenceAccepted'
  <2>1. /\ policy'.frozen
        /\ ValidHedge(c)'
    BY <1>1 DEF ValidHedge
  <2>2. /\ exists'
        /\ exposure'.credential # Zero => ValidExposure(exposure.credential)'
    BY <1>1 DEF CredentialInv, EvidenceAccepted, ValidExposure
  <2>3. ASSUME NEW u \in Trades, hedges'[u].credential # Zero
        PROVE  hedges'[u].credential.tradeId = u /\ ValidHedge(hedges[u].credential)'
    <3>1. CASE u = t
      BY <1>5, <2>1, <3>1 DEF ValidHedge
    <3>2. CASE u # t
      BY <1>1, <1>5, <2>3, <3>2 DEF CredentialInv, EvidenceAccepted, ValidHedge
    <3> QED
      BY <3>1, <3>2
  <2> QED
    BY <2>1, <2>2, <2>3 DEF EvidenceAccepted
<1>8. EpochsBehind'
  <2>1. EpochBehind(exposure, exposureIssuers, exposureIssuerEpoch)'
    BY <1>1 DEF CredentialInv, EpochsBehind, EpochBehind
  <2>2. ASSUME NEW u \in Trades
        PROVE  EpochBehind(hedges[u], hedgeIssuers, hedgeIssuerEpoch)'
    <3>1. CASE u = t
      BY <1>1, <1>5, <3>1 DEF EpochBehind
    <3>2. CASE u # t
      BY <1>1, <1>5, <3>2 DEF CredentialInv, EpochsBehind, EpochBehind
    <3> QED
      BY <3>1, <3>2
  <2> QED
    BY <2>1, <2>2 DEF EpochsBehind
<1>9. RevokedOvertaken'
  <2>1. \A d \in revokedDigests' \cap ExposureCredentials : d.sequence <= sequenceOf(exposure)'
    BY <1>1 DEF CredentialInv, RevokedOvertaken, sequenceOf
  <2>2. ASSUME NEW d \in revokedDigests \cap HedgeCredentials
        PROVE  d.sequence <= sequenceOf(hedges[d.tradeId])'
    <3>1. /\ d.tradeId \in Trades
          /\ d.sequence \in Nat
          /\ d.sequence <= sequenceOf(hedges[d.tradeId])
      BY CredentialsAssumption DEF CredentialInv, RevokedOvertaken, HedgeCredential
    <3>2. CASE d.tradeId = t
      <4>1. sequenceOf(hedges[t]) \in Nat
        BY <1>4, CredentialsAssumption
        DEF CredentialInv, CredentialTypeOK, sequenceOf, StoredHedge, EmptySlot, HedgeCredential
      <4>2. c.sequence > sequenceOf(hedges[t])
        BY DEF hedgeInSequence
      <4>3. sequenceOf(hedges[t])' = c.sequence
        BY <1>4, <1>5 DEF sequenceOf
      <4> QED
        BY <1>4, <3>1, <3>2, <4>1, <4>2, <4>3
    <3>3. CASE d.tradeId # t
      BY <1>5, <3>1, <3>3 DEF sequenceOf
    <3> QED
      BY <3>2, <3>3
  <2> QED
    BY <1>1, <2>1, <2>2 DEF RevokedOvertaken
<1> QED
  BY <1>2, <1>3, <1>6, <1>7, <1>8, <1>9 DEF CredentialInv

\* Revoking a stored message keeps the invariant.
LEMMA RevokeKeeps ==
  ASSUME CredentialInv, UNCHANGED registryVars,
         NEW sender, NEW slot, revoke(sender, slot),
         slot = exposure \/ \E t \in Trades : slot = hedges[t]
  PROVE  CredentialInv'
<1> USE DEF revoke
<1>1. /\ UNCHANGED <<exists, policy, exposureIssuers, hedgeIssuers, exposureIssuerEpoch,
                     hedgeIssuerEpoch, exposureIssuerCount, hedgeIssuerCount>>
      /\ UNCHANGED <<exposure, hedges, activeTradeIds, activeTradeIndex>>
      /\ revokedDigests' = revokedDigests \cup {slot.credential}
  BY DEF registryVars, exposureRole, hedgeRole, listVars
<1>2. RegistryInv'
  BY <1>1 DEF CredentialInv, RegistryInv, RegistryTypeOK, RolesDisjoint, CountsExact
<1>3. \/ slot.credential \in ExposureCredentials /\ slot = exposure
      \/ /\ slot.credential \in HedgeCredentials
         /\ slot.credential.tradeId \in Trades
         /\ slot = hedges[slot.credential.tradeId]
  BY DEF CredentialInv, CredentialTypeOK, EvidenceAccepted, StoredExposure, StoredHedge, EmptySlot
<1>4. CredentialTypeOK'
  BY <1>1, <1>2, <1>3 DEF CredentialInv, CredentialTypeOK, RegistryInv
<1>5. ActiveListConsistent' /\ ActiveListBounded'
  BY <1>1, ListUntouched DEF assertedActive, listVars
<1>6. EvidenceAccepted'
  BY <1>1 DEF CredentialInv, EvidenceAccepted, ValidExposure, ValidHedge
<1>7. EpochsBehind'
  BY <1>1 DEF CredentialInv, EpochsBehind, EpochBehind
<1>8. RevokedOvertaken'
  <2>1. sequenceOf(slot) = slot.credential.sequence
    BY DEF sequenceOf
  <2>2. slot.credential \in ExposureCredentials \cup HedgeCredentials
          => slot.credential.sequence \in Nat
    BY CredentialsAssumption DEF ExposureCredential, HedgeCredential
  <2>3. \A d \in revokedDigests' \cap ExposureCredentials : d.sequence <= sequenceOf(exposure)'
    BY <1>1, <1>3, <2>1, <2>2, CredentialsAssumption
    DEF CredentialInv, RevokedOvertaken, sequenceOf
  <2>4. \A d \in revokedDigests' \cap HedgeCredentials :
          d.sequence <= sequenceOf(hedges[d.tradeId])'
    BY <1>1, <1>3, <2>1, <2>2, CredentialsAssumption
    DEF CredentialInv, RevokedOvertaken, sequenceOf
  <2> QED
    BY <2>3, <2>4 DEF RevokedOvertaken
<1> QED
  BY <1>2, <1>4, <1>5, <1>6, <1>7, <1>8 DEF CredentialInv

\* Every transaction of either registry keeps the invariant.
LEMMA CredentialStepInv == CredentialInv /\ [CredentialNext]_credVars => CredentialInv'
<1> SUFFICES ASSUME CredentialInv, [CredentialNext]_credVars
             PROVE  CredentialInv'
  OBVIOUS
<1>1. CASE [RegistryNext]_registryVars /\ UNCHANGED credentialVars
  BY <1>1, RegistryPartKeeps
<1>2. ASSUME UNCHANGED registryVars, NEW issuer \in Issuers, NEW c \in ExposureCredentials,
             submitExposure(c, issuer)
      PROVE  CredentialInv'
  BY <1>2, SubmitExposureKeeps
<1>3. ASSUME UNCHANGED registryVars, NEW issuer \in Issuers, NEW c \in HedgeCredentials,
             submitHedge(c, issuer)
      PROVE  CredentialInv'
  BY <1>3, SubmitHedgeKeeps
<1>4. ASSUME UNCHANGED registryVars, NEW sender \in Accounts \cup Issuers, revokeExposure(sender)
      PROVE  CredentialInv'
  BY <1>4, RevokeKeeps DEF revokeExposure
<1>5. ASSUME UNCHANGED registryVars, NEW sender \in Accounts \cup Issuers, NEW t \in Trades,
             revokeHedge(sender, t)
      PROVE  CredentialInv'
  BY <1>5, RevokeKeeps DEF revokeHedge
<1> QED
  BY <1>1, <1>2, <1>3, <1>4, <1>5 DEF CredentialNext, credVars

-----------------------------------------------------------------------------

\* Every reachable state of the registries satisfies the invariant.
LEMMA CredentialInvariant == CredentialSpec => []CredentialInv
BY CredentialInitInv, CredentialStepInv, PTL DEF CredentialSpec

\* The active list, its index and the stored messages agree in every reachable
\* state, and the list keeps to the policy's bound (CredentialRegistry.sol:189-203,
\* 319-329), for any number of trades and any order of messages.
THEOREM ActiveListSafety ==
  CredentialSpec => [](CredentialTypeOK /\ ActiveListSound)
<1>1. CredentialInv => CredentialTypeOK /\ ActiveListSound
  BY DEF CredentialInv, ActiveListSound
<1> QED
  BY <1>1, CredentialInvariant, PTL

\* What one step stores was never revoked.
RevokedStep ==
  /\ exposure' # exposure => exposure'.credential \notin revokedDigests'
  /\ \A t \in Trades :
       hedges'[t] # hedges[t] => hedges'[t].credential \notin revokedDigests'

\* The sequence checks keep revoked messages out.
LEMMA CredentialStepRevoked == CredentialInv /\ [CredentialNext]_credVars => RevokedStep
<1> SUFFICES ASSUME CredentialInv, [CredentialNext]_credVars
             PROVE  RevokedStep
  OBVIOUS
<1>1. CASE UNCHANGED <<exposure, hedges>>
  BY <1>1 DEF RevokedStep
<1>2. ASSUME NEW issuer \in Issuers, NEW c \in ExposureCredentials, submitExposure(c, issuer)
      PROVE  RevokedStep
  <2>1. sequenceOf(exposure) \in Nat
    BY CredentialsAssumption
    DEF CredentialInv, CredentialTypeOK, sequenceOf, StoredExposure, EmptySlot, ExposureCredential
  <2>2. c.sequence \in Nat
    BY CredentialsAssumption DEF ExposureCredential
  <2>3. c \notin revokedDigests
    BY <1>2, <2>1, <2>2
    DEF CredentialInv, RevokedOvertaken, submitExposure, exposureInSequence
  <2> QED
    BY <1>2, <2>3 DEF submitExposure, RevokedStep
<1>3. ASSUME NEW issuer \in Issuers, NEW c \in HedgeCredentials, submitHedge(c, issuer)
      PROVE  RevokedStep
  <2>1. c.sequence \in Nat /\ c.tradeId \in Trades
    BY CredentialsAssumption DEF HedgeCredential
  <2>2. sequenceOf(hedges[c.tradeId]) \in Nat
    BY <2>1, CredentialsAssumption
    DEF CredentialInv, CredentialTypeOK, sequenceOf, StoredHedge, EmptySlot, HedgeCredential
  <2>3. c \notin revokedDigests
    BY <1>3, <2>1, <2>2 DEF CredentialInv, RevokedOvertaken, submitHedge, hedgeInSequence
  <2>4. ASSUME NEW t \in Trades, hedges'[t] # hedges[t]
        PROVE  hedges'[t].credential = c
    BY <1>3, <2>1, <2>4 DEF submitHedge, CredentialInv, CredentialTypeOK
  <2> QED
    BY <1>3, <2>3, <2>4 DEF submitHedge, RevokedStep
<1>4. CASE CredentialNext /\ ~UNCHANGED <<exposure, hedges>>
  BY <1>2, <1>3, <1>4
  DEF CredentialNext, credentialVars, revokeExposure, revokeHedge, revoke
<1> QED
  BY <1>1, <1>4 DEF credVars, credentialVars

\* A revoked message is never stored again, whoever submits it
\* (CredentialRegistry.sol:141-144, 184-187, 308-317).
THEOREM RevocationIsFinal == CredentialSpec => RevokedNeverStored
<1>1. CredentialInv /\ [CredentialNext]_credVars => [RevokedStep]_credVars
  BY CredentialStepRevoked
<1>2. CredentialSpec => [][RevokedStep]_credVars
  BY <1>1, CredentialInvariant, PTL DEF CredentialSpec
<1> QED
  BY <1>2 DEF RevokedNeverStored, RevokedStep

\* A slot's authority is not given back by a step that leaves the slot alone.
AuthorityStep ==
  /\ exposure' = exposure /\ exposureAuthorityCurrent' => exposureAuthorityCurrent
  /\ \A t \in Trades :
       hedges'[t] = hedges[t] /\ hedgeAuthorityCurrent(t)' => hedgeAuthorityCurrent(t)

\* Epochs only grow, and a lost role has left the slot's epoch behind.
LEMMA CredentialStepAuthority == CredentialInv /\ [CredentialNext]_credVars => AuthorityStep
<1> SUFFICES ASSUME CredentialInv, [CredentialNext]_credVars
             PROVE  AuthorityStep
  OBVIOUS
<1>1. [RegistryNext]_registryVars
  BY DEF CredentialNext, credVars
<1>2. EpochStep /\ RegistryInv'
  BY <1>1, RegistryStepEpochs, RegistryStepInv DEF CredentialInv, RegistryInv
<1>3. ASSUME exposure' = exposure, exposureAuthorityCurrent'
      PROVE  exposureAuthorityCurrent
  <2>1. exposure \in StoredExposure
    BY <1>3 DEF exposureAuthorityCurrent, CredentialInv, CredentialTypeOK, EmptySlot
  <2> QED
    BY <1>2, <1>3, <2>1
    DEF exposureAuthorityCurrent, CredentialInv, EpochsBehind, EpochBehind, EpochStep,
        StoredExposure, RegistryInv, RegistryTypeOK
<1>4. ASSUME NEW t \in Trades, hedges'[t] = hedges[t], hedgeAuthorityCurrent(t)'
      PROVE  hedgeAuthorityCurrent(t)
  <2>1. hedges[t] \in StoredHedge
    BY <1>4 DEF hedgeAuthorityCurrent, CredentialInv, CredentialTypeOK, EmptySlot
  <2> QED
    BY <1>2, <1>4, <2>1
    DEF hedgeAuthorityCurrent, CredentialInv, EpochsBehind, EpochBehind, EpochStep,
        StoredHedge, RegistryInv, RegistryTypeOK
<1> QED
  BY <1>3, <1>4 DEF AuthorityStep

\* A stored message whose issuer lost the role never regains authority, however
\* often the role is granted again (FacilityRegistry.sol:117, 139).
THEOREM LostAuthorityStaysLost == CredentialSpec => AuthorityNeverRevives
<1>1. CredentialInv /\ [CredentialNext]_credVars => [AuthorityStep]_credVars
  BY CredentialStepAuthority
<1>2. CredentialSpec => [][AuthorityStep]_credVars
  BY <1>1, CredentialInvariant, PTL DEF CredentialSpec
<1> QED
  BY <1>2 DEF AuthorityNeverRevives, AuthorityStep
=============================================================================
