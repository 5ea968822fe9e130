-------------------------- MODULE CredentialRegistry --------------------------
(***************************************************************************)
(* contracts/src/CredentialRegistry.sol on top of FacilityRegistry: the    *)
(* latest exposure assertion of the facility, the latest hedge assertion   *)
(* of each trade, the enumerable list of ACTIVE trades with its one-based  *)
(* index, and the revoked digests.                                         *)
(*                                                                         *)
(* A signed message may be held back and submitted by anyone at any later  *)
(* time, so a submission is any credential of the constant sets, recovered *)
(* to any address.  The EIP-712 digest of a credential stands for the      *)
(* credential and is modelled by it (keccak256 is injective in practice);  *)
(* sourceCommitment and acceptedAt, which nothing reads, are left out.     *)
(***************************************************************************)
EXTENDS FacilityRegistry, Sequences

CONSTANTS
  Trades,              \* trade id commitments, possibly with Zero
  ExposureCredentials, \* exposure messages that issuers sign
  HedgeCredentials     \* hedge messages that issuers sign

HedgeStatus == {"ACTIVE", "CANCELLED", "SETTLED", "DISPUTED"}

ExposureCredential ==
  [settlementCurrency : Currencies,
   exposureCurrency   : Currencies,
   outstandingValue   : Nat,
   exposureMaturity   : Nat,
   observedAt         : Nat,
   validUntil         : Nat,
   sequence           : Nat]

HedgeCredential ==
  [tradeId           : Trades,
   baseCurrency      : Currencies,
   quoteCurrency     : Currencies,
   remainingNotional : Nat,
   maturity          : Nat,
   status            : HedgeStatus,
   observedAt        : Nat,
   validUntil        : Nat,
   sequence          : Nat]

ASSUME CredentialsAssumption ==
  /\ ExposureCredentials \subseteq ExposureCredential
  /\ HedgeCredentials \subseteq HedgeCredential
  /\ Zero \notin ExposureCredentials \cup HedgeCredentials
  \* EXPOSURE_TYPEHASH and HEDGE_TYPEHASH keep the two kinds of digest apart.
  /\ ExposureCredentials \cap HedgeCredentials = {}

VARIABLES
  exposure,         \* _exposures[facilityId]
  hedges,           \* _hedges[facilityId], by trade
  activeTradeIds,   \* _activeTradeIds[facilityId]
  activeTradeIndex, \* _activeTradeIndex[facilityId], 0 when not listed
  revokedDigests

listVars == <<activeTradeIds, activeTradeIndex>>
credentialVars == <<exposure, hedges, listVars, revokedDigests>>
credVars == <<registryVars, credentialVars>>

\* An assertion slot nobody has written: digest and issuer are zero.
EmptySlot == [credential |-> Zero, issuer |-> Zero, issuerEpoch |-> 0]

StoredExposure ==
  [credential : ExposureCredentials, issuer : Issuers, issuerEpoch : Nat]
StoredHedge ==
  [credential : HedgeCredentials, issuer : Issuers, issuerEpoch : Nat]

\* The sequence number of a slot; an unwritten one reads 0.
sequenceOf(slot) == IF slot.credential = Zero THEN 0 ELSE slot.credential.sequence

\* The trade's latest assertion says ACTIVE.
assertedActive(slot) == slot.credential # Zero /\ slot.credential.status = "ACTIVE"

CredentialInit ==
  /\ RegistryInit
  /\ exposure = EmptySlot
  /\ hedges = [t \in Trades |-> EmptySlot]
  /\ activeTradeIds = <<>>
  /\ activeTradeIndex = [t \in Trades |-> 0]
  /\ revokedDigests = {}

-----------------------------------------------------------------------------

ValidExposure(c) ==
  /\ c.outstandingValue # 0
  /\ c.exposureCurrency = policy.exposureCurrency
  /\ c.settlementCurrency = policy.settlementCurrency
  /\ c.observedAt <= c.validUntil
  /\ c.observedAt <= c.exposureMaturity

\* Mutant of exposureInSequence: a second message with the stored sequence passes.
exposureNotOlder(c) == c.sequence >= sequenceOf(exposure)

exposureInSequence(c) == c.sequence > sequenceOf(exposure)

submitExposure(c, issuer) ==
  /\ policy.frozen
  /\ ValidExposure(c)
  /\ issuer \in exposureIssuers
  /\ exposureInSequence(c)
  /\ exposure' = [credential |-> c, issuer |-> issuer,
                   issuerEpoch |-> exposureIssuerEpoch[issuer]]
  /\ UNCHANGED <<hedges, listVars, revokedDigests>>

ValidHedge(c) ==
  /\ c.tradeId # Zero
  /\ c.baseCurrency = policy.settlementCurrency
  /\ c.quoteCurrency = policy.exposureCurrency
  /\ c.observedAt <= c.validUntil
  /\ c.observedAt <= c.maturity

hedgeInSequence(c) == c.sequence > sequenceOf(hedges[c.tradeId])

\* push, then the index is the new length; TooManyHedges at the policy's bound.
listActiveTrade(t) ==
  /\ Len(activeTradeIds) < policy.maxActiveHedges
  /\ activeTradeIds' = Append(activeTradeIds, t)
  /\ activeTradeIndex' = [activeTradeIndex EXCEPT ![t] = Len(activeTradeIds) + 1]

\* Mutant of removeActiveTrade: the index of the moved trade is not updated.
removeActiveTradeStaleIndex(t) ==
  LET last == Len(activeTradeIds)
      index == activeTradeIndex[t]
  IN /\ activeTradeIds' = [k \in 1..(last - 1) |->
                             activeTradeIds[IF k = index THEN last ELSE k]]
     /\ activeTradeIndex' = [activeTradeIndex EXCEPT ![t] = 0]

\* Swap with the last entry, pop, delete the index.
removeActiveTrade(t) ==
  LET last == Len(activeTradeIds)
      index == activeTradeIndex[t]
  IN /\ activeTradeIds' = [k \in 1..(last - 1) |->
                             activeTradeIds[IF k = index THEN last ELSE k]]
     /\ activeTradeIndex' = [activeTradeIndex EXCEPT
                               ![activeTradeIds[last]] = index, ![t] = 0]

\* The list follows the status of the message that is about to be stored.
followStatus(c) ==
  LET listed == activeTradeIndex[c.tradeId] # 0
      becomingActive == c.status = "ACTIVE"
  IN \/ becomingActive /\ ~listed /\ listActiveTrade(c.tradeId)
     \/ ~becomingActive /\ listed /\ removeActiveTrade(c.tradeId)
     \/ becomingActive = listed /\ UNCHANGED listVars

submitHedge(c, issuer) ==
  /\ policy.frozen
  /\ ValidHedge(c)
  /\ issuer \in hedgeIssuers
  /\ hedgeInSequence(c)
  /\ hedges[c.tradeId].credential = Zero => c.status = "ACTIVE"
  /\ followStatus(c)
  /\ hedges' = [hedges EXCEPT ![c.tradeId] =
                  [credential |-> c, issuer |-> issuer,
                   issuerEpoch |-> hedgeIssuerEpoch[issuer]]]
  /\ UNCHANGED <<exposure, revokedDigests>>

\* Revocation marks the digest; the slot and the list stay as they are.
revoke(sender, slot) ==
  /\ slot.credential # Zero
  /\ exists
  /\ sender \in {slot.issuer, policy.admin}
  /\ slot.credential \notin revokedDigests
  /\ revokedDigests' = revokedDigests \cup {slot.credential}
  /\ UNCHANGED <<exposure, hedges, listVars>>

revokeExposure(sender) == revoke(sender, exposure)

revokeHedge(sender, t) == revoke(sender, hedges[t])

CredentialNext ==
  \/ RegistryNext /\ UNCHANGED credentialVars
  \/ /\ \/ \E issuer \in Issuers :
             \/ \E c \in ExposureCredentials : submitExposure(c, issuer)
             \/ \E c \in HedgeCredentials : submitHedge(c, issuer)
        \/ \E sender \in Accounts \cup Issuers :
             \/ revokeExposure(sender)
             \/ \E t \in Trades : revokeHedge(sender, t)
     /\ UNCHANGED registryVars

CredentialSpec == CredentialInit /\ [][CredentialNext]_credVars

-----------------------------------------------------------------------------

CredentialTypeOK ==
  /\ RegistryTypeOK
  /\ exposure \in StoredExposure \cup {EmptySlot}
  /\ hedges \in [Trades -> StoredHedge \cup {EmptySlot}]
  /\ activeTradeIds \in Seq(Trades)
  /\ activeTradeIndex \in [Trades -> Nat]
  /\ revokedDigests \subseteq ExposureCredentials \cup HedgeCredentials

\* The index points at the trade's entry, no trade is listed twice, and a trade is
\* listed exactly when its latest accepted message says ACTIVE.
ActiveListConsistent ==
  /\ \A k \in 1..Len(activeTradeIds) : activeTradeIndex[activeTradeIds[k]] = k
  /\ \A t \in Trades :
       activeTradeIndex[t] # 0 => /\ activeTradeIndex[t] \in 1..Len(activeTradeIds)
                                  /\ activeTradeIds[activeTradeIndex[t]] = t
  /\ \A t \in Trades : activeTradeIndex[t] # 0 <=> assertedActive(hedges[t])

\* The list keeps to the number of hedges the policy allows.
ActiveListBounded == Len(activeTradeIds) <= policy.maxActiveHedges

\* The swap-and-pop list, its one-based index, the stored statuses and the policy's
\* limit agree after every order of submissions by issuers that come and go: the list
\* CoverageEngine.evaluate sums over misses no trade, has none twice, and never
\* outgrows the loop it was sized for.
ActiveListSound == ActiveListConsistent /\ ActiveListBounded

\* A message whose digest is revoked never comes back: no step stores a revoked
\* credential, although revoking leaves the slot as it is and anyone may submit
\* any signed message again (the sequence check of submitExposure and
\* submitHedge is what stops it).
RevokedNeverStored ==
  [][/\ exposure' # exposure => exposure'.credential \notin revokedDigests'
     /\ \A t \in Trades :
          hedges'[t] # hedges[t] => hedges'[t].credential \notin revokedDigests']_credVars

exposureAuthorityCurrent ==
  /\ exposure.credential # Zero
  /\ exposure.issuer \in exposureIssuers
  /\ exposure.issuerEpoch = exposureIssuerEpoch[exposure.issuer]

hedgeAuthorityCurrent(t) ==
  /\ hedges[t].credential # Zero
  /\ hedges[t].issuer \in hedgeIssuers
  /\ hedges[t].issuerEpoch = hedgeIssuerEpoch[hedges[t].issuer]

\* A stored assertion that lost its issuer's authority never regains it: granting
\* the role again starts a new epoch, so only a newly submitted message counts.
AuthorityNeverRevives ==
  [][/\ exposure' = exposure /\ exposureAuthorityCurrent' => exposureAuthorityCurrent
     /\ \A t \in Trades :
          hedges'[t] = hedges[t] /\ hedgeAuthorityCurrent(t)'
            => hedgeAuthorityCurrent(t)]_credVars
=============================================================================
