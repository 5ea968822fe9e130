---------------------------- MODULE CoverageEngine ----------------------------
(***************************************************************************)
(* contracts/src/CoverageEngine.sol: the evaluation of the facility over   *)
(* the current state of the two registries and the block timestamp.  The   *)
(* contract has no state of its own; the module adds block.timestamp to    *)
(* the state and lets time pass between transactions.                      *)
(***************************************************************************)
EXTENDS CredentialRegistry, FiniteSetsExt

CONSTANT MaxTime \* bound: the last block timestamp

ASSUME MaxTimeAssumption == MaxTime \in Nat

VARIABLE now \* block.timestamp

engineVars == <<credVars, now>>

EngineInit == CredentialInit /\ now = 0

Tick ==
  /\ now < MaxTime
  /\ now' = now + 1
  /\ UNCHANGED credVars

EngineNext ==
  \/ CredentialNext /\ UNCHANGED now
  \/ Tick

EngineSpec == EngineInit /\ [][EngineNext]_engineVars

-----------------------------------------------------------------------------

uint16(n) == n % 65536

\* Fields of the exposure slot; an unwritten one reads 0.
outstandingValue ==
  IF exposure.credential = Zero THEN 0 ELSE exposure.credential.outstandingValue

exposureMaturity ==
  IF exposure.credential = Zero THEN 0 ELSE exposure.credential.exposureMaturity

\* The first test that fails names the reason.
exposureReason ==
  IF exposure.credential = Zero THEN "MISSING"
  ELSE IF exposure.credential.outstandingValue = 0 THEN "ZERO_VALUE"
  ELSE IF exposure.issuer \notin exposureIssuers THEN "ISSUER_NOT_APPROVED"
  ELSE IF exposure.issuerEpoch # exposureIssuerEpoch[exposure.issuer]
       THEN "ISSUER_AUTHORIZATION_STALE"
  ELSE IF \/ exposure.credential.exposureCurrency # policy.exposureCurrency
          \/ exposure.credential.settlementCurrency # policy.settlementCurrency
       THEN "PAIR_MISMATCH"
  ELSE IF exposure.credential.observedAt > now THEN "NOT_YET_OBSERVED"
  ELSE IF exposure.credential.validUntil < now THEN "EXPIRED"
  ELSE IF now - exposure.credential.observedAt > policy.credentialMaxAge THEN "STALE"
  ELSE IF exposure.credential \in revokedDigests THEN "REVOKED"
  ELSE "ELIGIBLE"

\* Mutant of hedgeReason: the issuer's epoch is not compared.
hedgeReasonIgnoringEpoch(t) ==
  LET hedge == hedges[t]
      credential == hedge.credential
  IN IF credential = Zero THEN "MISSING"
     ELSE IF hedge.issuer \notin hedgeIssuers THEN "ISSUER_NOT_APPROVED"
     ELSE IF credential.status # "ACTIVE" THEN "NOT_ACTIVE"
     ELSE IF credential.observedAt > now THEN "NOT_YET_OBSERVED"
     ELSE IF credential.validUntil < now THEN "EXPIRED"
     ELSE IF now - credential.observedAt > policy.credentialMaxAge THEN "STALE"
     ELSE IF credential.maturity + policy.maturityTolerance
               < exposureMaturity THEN "MATURITY_MISMATCH"
     ELSE IF credential \in revokedDigests THEN "REVOKED"
     ELSE "ELIGIBLE"

\* _hedgeReasonAndValue; only evaluate calls it here, when the exposure is eligible.
hedgeReason(t) ==
  LET hedge == hedges[t]
      credential == hedge.credential
  IN IF credential = Zero THEN "MISSING"
     ELSE IF hedge.issuer \notin hedgeIssuers THEN "ISSUER_NOT_APPROVED"
     ELSE IF hedge.issuerEpoch # hedgeIssuerEpoch[hedge.issuer]
          THEN "ISSUER_AUTHORIZATION_STALE"
     ELSE IF hedge.issuer = exposure.issuer THEN "SAME_AS_EXPOSURE_ISSUER"
     ELSE IF \/ credential.baseCurrency # policy.settlementCurrency
             \/ credential.quoteCurrency # policy.exposureCurrency
          THEN "PAIR_MISMATCH"
     ELSE IF credential.status # "ACTIVE" THEN "NOT_ACTIVE"
     ELSE IF credential.observedAt > now THEN "NOT_YET_OBSERVED"
     ELSE IF credential.validUntil < now THEN "EXPIRED"
     ELSE IF now - credential.observedAt > policy.credentialMaxAge THEN "STALE"
     ELSE IF credential.maturity + policy.maturityTolerance
               < exposureMaturity THEN "MATURITY_MISMATCH"
     ELSE IF credential \in revokedDigests THEN "REVOKED"
     ELSE "ELIGIBLE"

adjustedNotional(t) ==
  (hedges[t].credential.remainingNotional * (MAX_BPS - policy.defaultHaircutBps))
    \div MAX_BPS

\* The places of the active list whose trade is eligible.
eligiblePlaces ==
  {k \in 1..Len(activeTradeIds) : hedgeReason(activeTradeIds[k]) = "ELIGIBLE"}

\* Mutant of grossEligible: the haircut is not applied.
grossWithoutHaircut ==
  MapThenSumSet(LAMBDA k : hedges[activeTradeIds[k]].credential.remainingNotional,
                eligiblePlaces)

grossEligible ==
  MapThenSumSet(LAMBDA k : adjustedNotional(activeTradeIds[k]), eligiblePlaces)

countedEligible ==
  IF grossEligible > outstandingValue THEN outstandingValue ELSE grossEligible

coverageBps == uint16((countedEligible * MAX_BPS) \div outstandingValue)

assessed == exposureReason = "ELIGIBLE"

\* The compliant flag of evaluate; the division happens only after the early return.
compliant == assessed /\ coverageBps >= policy.minCoverageBps

\* assess(facilityId, amount) for a host with this token balance and waiver: the
\* ruling is a reason, NONE or a waived reason when the draw is allowed.
assessAllowed(amount, balance, activeWaiver) ==
  /\ compliant \/ activeWaiver
  /\ amount <= balance
  /\ balance - amount >= policy.reserveAmount

-----------------------------------------------------------------------------

EngineTypeOK == CredentialTypeOK /\ now \in 0..MaxTime

\* What the specification of the contracts calls an eligible hedge, said of the
\* stored assertions and not of the list (PROTOTYPE-SPEC.md section 7).
usableExposure ==
  /\ exposureAuthorityCurrent
  /\ now \in exposure.credential.observedAt..exposure.credential.validUntil
  /\ now <= exposure.credential.observedAt + policy.credentialMaxAge
  /\ exposure.credential \notin revokedDigests

usableHedge(t) ==
  /\ hedgeAuthorityCurrent(t)
  /\ hedges[t].credential.status = "ACTIVE"
  /\ now \in hedges[t].credential.observedAt..hedges[t].credential.validUntil
  /\ now <= hedges[t].credential.observedAt + policy.credentialMaxAge
  /\ exposure.credential.exposureMaturity
       <= hedges[t].credential.maturity + policy.maturityTolerance
  /\ hedges[t].credential \notin revokedDigests

\* evaluate rules as the specification says: the exposure is usable and the
\* haircut value of the distinct usable trades, counted up to the outstanding
\* value, is at least the policy's share of it.  The rule is stated over the
\* stored assertions, so it also says that summing over the swap-and-pop list
\* misses no trade and counts none twice, that the reasons are tested
\* completely, and that neither integer division nor the uint16 cast moves the
\* threshold.
EvaluateMatchesRule ==
  exists =>
    /\ assessed <=> usableExposure
    /\ usableExposure =>
         LET usable == {t \in Trades : usableHedge(t)}
             gross == MapThenSumSet(adjustedNotional, usable)
             counted == Min({gross, outstandingValue})
         IN /\ gross = grossEligible
            /\ compliant <=> counted * MAX_BPS >= policy.minCoverageBps * outstandingValue
            /\ coverageBps * outstandingValue <= counted * MAX_BPS

\* Defensive reasons that the two registries already exclude: no stored exposure
\* reads as ZERO_VALUE or PAIR_MISMATCH, and no listed trade as MISSING,
\* NOT_ACTIVE or PAIR_MISMATCH.  While the exposure counts, a listed hedge that
\* its issuer still stands behind is never by the exposure's own issuer.
DefensiveReasonsUnreachable ==
  /\ exposureReason \notin {"ZERO_VALUE", "PAIR_MISMATCH"}
  /\ \A k \in 1..Len(activeTradeIds) :
       /\ hedgeReason(activeTradeIds[k]) \notin {"MISSING", "NOT_ACTIVE", "PAIR_MISMATCH"}
       /\ assessed => hedgeReason(activeTradeIds[k]) # "SAME_AS_EXPOSURE_ISSUER"

\* Assertions that stopped counting for good.
spentExposure ==
  /\ exposure.credential # Zero
  /\ \/ ~exposureAuthorityCurrent
     \/ exposure.credential.validUntil < now
     \/ exposure.credential.observedAt + policy.credentialMaxAge < now
     \/ exposure.credential \in revokedDigests

spentHedge(t) ==
  /\ hedges[t].credential # Zero
  /\ \/ ~hedgeAuthorityCurrent(t)
     \/ hedges[t].credential.validUntil < now
     \/ hedges[t].credential.observedAt + policy.credentialMaxAge < now
     \/ hedges[t].credential \in revokedDigests

\* An assertion that has expired, gone stale, been revoked or lost its issuer is
\* never ELIGIBLE again while it stays in its slot: no passage of time and no
\* new grant of the role brings it back, only a newly submitted message.
SpentNeverCounts ==
  [][/\ spentExposure /\ exposure' = exposure => spentExposure' /\ ~assessed'
     /\ \A t \in Trades :
          spentHedge(t) /\ hedges'[t] = hedges[t]
            => spentHedge(t)' /\ hedgeReason(t)' # "ELIGIBLE"]_engineVars

=============================================================================
