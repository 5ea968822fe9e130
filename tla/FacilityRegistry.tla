--------------------------- MODULE FacilityRegistry ---------------------------
(***************************************************************************)
(* contracts/src/FacilityRegistry.sol: the policy of one facility, the two *)
(* issuer roles and the authorization epochs.  Every mapping of the        *)
(* contract is keyed by facilityId and every handler touches the entries   *)
(* of its own facility only, so the module follows one facility.  A        *)
(* transaction is atomic: one action per handler, enabled exactly when the *)
(* handler does not revert and changes state.                              *)
(***************************************************************************)
EXTENDS Naturals, FiniteSets

CONSTANTS
  Accounts,   \* addresses that send transactions
  Issuers,    \* addresses whose role the admin may try to change
  Currencies, \* ISO currency codes
  Zero,       \* the zero word: address(0), bytes3(0), bytes32(0)
  Policies,   \* policies that createFacility is called with
  MaxEpoch    \* bound: the last epoch; ++ reverts above it, as above 2^64-1

MAX_BPS == 10000
MAX_HEDGES == 8

FacilityPolicy ==
  [settlementCurrency : Currencies \cup {Zero},
   exposureCurrency   : Currencies \cup {Zero},
   minCoverageBps     : Nat,
   credentialMaxAge   : Nat,
   maturityTolerance  : Nat,
   defaultHaircutBps  : Nat,
   reserveAmount      : Nat,
   curePeriod         : Nat,
   maxWaiverDuration  : Nat,
   maxActiveHedges    : Nat,
   admin              : Accounts \cup {Zero},
   operator           : Accounts \cup {Zero},
   frozen             : BOOLEAN]

ASSUME PoliciesAssumption == Policies \subseteq FacilityPolicy
ASSUME MaxEpochAssumption == MaxEpoch \in Nat
ASSUME ZeroAssumption == Zero \notin Accounts

VARIABLES
  exists,
  policy,
  exposureIssuers,
  hedgeIssuers,
  exposureIssuerEpoch,
  hedgeIssuerEpoch,
  exposureIssuerCount,
  hedgeIssuerCount

exposureRole == <<exposureIssuers, exposureIssuerEpoch, exposureIssuerCount>>
hedgeRole == <<hedgeIssuers, hedgeIssuerEpoch, hedgeIssuerCount>>
registryVars == <<exists, policy, exposureRole, hedgeRole>>

\* The storage slots of a facility nobody has created.
EmptyPolicy ==
  [settlementCurrency |-> Zero, exposureCurrency |-> Zero,
   minCoverageBps |-> 0, credentialMaxAge |-> 0, maturityTolerance |-> 0,
   defaultHaircutBps |-> 0, reserveAmount |-> 0, curePeriod |-> 0,
   maxWaiverDuration |-> 0, maxActiveHedges |-> 0,
   admin |-> Zero, operator |-> Zero, frozen |-> FALSE]

RegistryInit ==
  /\ exists = FALSE
  /\ policy = EmptyPolicy
  /\ exposureIssuers = {}
  /\ hedgeIssuers = {}
  /\ exposureIssuerEpoch = [i \in Issuers |-> 0]
  /\ hedgeIssuerEpoch = [i \in Issuers |-> 0]
  /\ exposureIssuerCount = 0
  /\ hedgeIssuerCount = 0

-----------------------------------------------------------------------------

ValidPolicy(p) ==
  /\ Zero \notin {p.settlementCurrency, p.exposureCurrency, p.admin, p.operator}
  /\ p.settlementCurrency # p.exposureCurrency
  /\ p.minCoverageBps <= MAX_BPS
  /\ p.defaultHaircutBps <= MAX_BPS
  /\ p.credentialMaxAge # 0
  /\ p.curePeriod # 0
  /\ p.maxWaiverDuration # 0
  /\ p.maxActiveHedges \in 1..MAX_HEDGES
  /\ p.admin # p.operator
  /\ ~p.frozen

createFacility(sender, p) ==
  /\ ~exists
  /\ ValidPolicy(p)
  /\ sender = p.admin
  /\ exists' = TRUE
  /\ policy' = p
  /\ UNCHANGED <<exposureRole, hedgeRole>>

onlyAdmin(sender) == exists /\ sender = policy.admin

freezeFacility(sender) ==
  /\ onlyAdmin(sender)
  /\ ~policy.frozen
  /\ exposureIssuerCount # 0
  /\ hedgeIssuerCount # 0
  /\ policy' = [policy EXCEPT !.frozen = TRUE]
  /\ UNCHANGED <<exists, exposureRole, hedgeRole>>

grantExposureRole(issuer) ==
  /\ issuer \notin hedgeIssuers
  /\ issuer \notin exposureIssuers
  /\ exposureIssuers' = exposureIssuers \cup {issuer}
  /\ exposureIssuerCount' = exposureIssuerCount + 1
  /\ UNCHANGED exposureIssuerEpoch

withdrawExposureRole(issuer) ==
  /\ issuer \in exposureIssuers
  /\ exposureIssuerEpoch[issuer] < MaxEpoch
  /\ exposureIssuers' = exposureIssuers \ {issuer}
  /\ exposureIssuerCount' = exposureIssuerCount - 1
  /\ exposureIssuerEpoch' = [exposureIssuerEpoch EXCEPT ![issuer] = @ + 1]

\* A call that repeats the current authorization returns early: no step.
setExposureIssuer(sender, issuer, authorized) ==
  /\ onlyAdmin(sender)
  /\ issuer # Zero
  /\ \/ authorized /\ grantExposureRole(issuer)
     \/ ~authorized /\ withdrawExposureRole(issuer)
  /\ UNCHANGED <<exists, policy, hedgeRole>>

\* Mutant of grantHedgeRole: the IssuerRoleConflict check is dropped.
grantHedgeRoleBesideExposure(issuer) ==
  /\ issuer \notin hedgeIssuers
  /\ hedgeIssuers' = hedgeIssuers \cup {issuer}
  /\ hedgeIssuerCount' = hedgeIssuerCount + 1
  /\ UNCHANGED hedgeIssuerEpoch

\* Mutant of grantHedgeRole: a second grant of a held role is counted again.
grantHedgeRoleTwice(issuer) ==
  /\ issuer \notin exposureIssuers
  /\ hedgeIssuerCount <= Cardinality(Issuers)
  /\ hedgeIssuers' = hedgeIssuers \cup {issuer}
  /\ hedgeIssuerCount' = hedgeIssuerCount + 1
  /\ UNCHANGED hedgeIssuerEpoch

grantHedgeRole(issuer) ==
  /\ issuer \notin exposureIssuers
  /\ issuer \notin hedgeIssuers
  /\ hedgeIssuers' = hedgeIssuers \cup {issuer}
  /\ hedgeIssuerCount' = hedgeIssuerCount + 1
  /\ UNCHANGED hedgeIssuerEpoch

\* Mutant of withdrawHedgeRole: the epoch stays where it is.
withdrawHedgeRoleSameEpoch(issuer) ==
  /\ issuer \in hedgeIssuers
  /\ hedgeIssuers' = hedgeIssuers \ {issuer}
  /\ hedgeIssuerCount' = hedgeIssuerCount - 1
  /\ UNCHANGED hedgeIssuerEpoch

withdrawHedgeRole(issuer) ==
  /\ issuer \in hedgeIssuers
  /\ hedgeIssuerEpoch[issuer] < MaxEpoch
  /\ hedgeIssuers' = hedgeIssuers \ {issuer}
  /\ hedgeIssuerCount' = hedgeIssuerCount - 1
  /\ hedgeIssuerEpoch' = [hedgeIssuerEpoch EXCEPT ![issuer] = @ + 1]

setHedgeIssuer(sender, issuer, authorized) ==
  /\ onlyAdmin(sender)
  /\ issuer # Zero
  /\ \/ authorized /\ grantHedgeRole(issuer)
     \/ ~authorized /\ withdrawHedgeRole(issuer)
  /\ UNCHANGED <<exists, policy, exposureRole>>

RegistryNext ==
  \E sender \in Accounts :
    \/ \E p \in Policies : createFacility(sender, p)
    \/ freezeFacility(sender)
    \/ \E issuer \in Issuers, authorized \in BOOLEAN :
         \/ setExposureIssuer(sender, issuer, authorized)
         \/ setHedgeIssuer(sender, issuer, authorized)

RegistrySpec == RegistryInit /\ [][RegistryNext]_registryVars

-----------------------------------------------------------------------------

RegistryTypeOK ==
  /\ exists \in BOOLEAN
  /\ policy \in FacilityPolicy
  /\ exposureIssuers \subseteq Issuers
  /\ hedgeIssuers \subseteq Issuers
  /\ exposureIssuerEpoch \in [Issuers -> Nat]
  /\ hedgeIssuerEpoch \in [Issuers -> Nat]
  /\ exposureIssuerCount \in Nat
  /\ hedgeIssuerCount \in Nat

\* No address ever holds both issuer roles of a facility, whatever the order in
\* which the admin grants and withdraws them (setExposureIssuer and
\* setHedgeIssuer each test the other mapping).
RolesDisjoint == exposureIssuers \cap hedgeIssuers = {}

\* The counters that freezeFacility tests are the sizes of the two mappings:
\* repeated grants and withdrawals never make them drift, and they never
\* underflow.
CountsExact ==
  /\ IsFiniteSet(exposureIssuers)
  /\ IsFiniteSet(hedgeIssuers)
  /\ exposureIssuerCount = Cardinality(exposureIssuers)
  /\ hedgeIssuerCount = Cardinality(hedgeIssuers)

\* The economic policy never changes once the facility exists: later calls may
\* set the frozen flag and nothing else, and never clear it.
PolicyImmutable ==
  [][exists => /\ exists'
               /\ policy' \in {policy, [policy EXCEPT !.frozen = TRUE]}]_registryVars

\* Two periods of authorization of one issuer never share an epoch: the epoch
\* never goes back, and an issuer loses a role exactly in the steps that move
\* that role's epoch on.
EpochSeparatesPeriods ==
  [][\A i \in Issuers :
       /\ exposureIssuerEpoch'[i] >= exposureIssuerEpoch[i]
       /\ hedgeIssuerEpoch'[i] >= hedgeIssuerEpoch[i]
       /\ i \in exposureIssuers \ exposureIssuers'
            <=> exposureIssuerEpoch'[i] # exposureIssuerEpoch[i]
       /\ i \in hedgeIssuers \ hedgeIssuers'
            <=> hedgeIssuerEpoch'[i] # hedgeIssuerEpoch[i]]_registryVars
=============================================================================
