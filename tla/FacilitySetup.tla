----------------------------- MODULE FacilitySetup -----------------------------
(***************************************************************************)
(* How a quorum comes to administer a facility: the three provisioning     *)
(* scripts of packages/privy-waiver/scripts, each of which can be killed   *)
(* at any point and run again.  provision-quorum.ts creates the key quorum *)
(* and its wallet, provision-facility.ts has the quorum send whatever      *)
(* setup call the chain still misses (src/facility-setup.ts), and          *)
(* provision-policy.ts, once the manifest names the wallet, has Privy      *)
(* restrict it to waivers.                                                 *)
(*                                                                         *)
(* One script runs at a time.  An intent proposed and not yet saved when   *)
(* its script is killed is never looked at again, so proposing and saving  *)
(* are one step here; so are a proposal's simulation and its nonce, which  *)
(* WaiverService models.                                                   *)
(***************************************************************************)
EXTENDS FacilityRegistry, Sequences, SequencesExt

CONSTANTS
  WalletAddress,   \* the addresses of the wallets Privy creates, in order
  ManifestPolicy,  \* the policy of deployments/arc-testnet.json
  ExposureIssuer,
  HedgeIssuer,
  MaxFailures,     \* bound: intents that fail or expire
  MaxKills         \* bound: scripts that are killed

\* The manifest's facility is deployed and frozen, so its policy and its two issuers
\* have passed the registry's checks; Privy's wallets have keys of their own.
ASSUME SetupAssumption ==
  /\ WalletAddress \in Seq(Accounts)
  /\ IsInjective(WalletAddress)
  /\ MaxKills \in Nat
  /\ Len(WalletAddress) > MaxKills \* a killed script leaves a wallet behind at most
  /\ ManifestPolicy \in FacilityPolicy
  /\ ValidPolicy([ManifestPolicy EXCEPT !.frozen = FALSE])
  /\ {ManifestPolicy.admin, ManifestPolicy.operator} \cap Range(WalletAddress) = {}
  /\ ExposureIssuer # HedgeIssuer
  /\ Zero \notin {ExposureIssuer, HedgeIssuer}

VARIABLES
  quorums,       \* how many key quorums Privy holds
  wallets,       \* Privy's wallets: owner and attached policies
  waiverPolicies,\* how many policies Privy holds
  record,        \* quorum.json; 0 where nothing is recorded
  store,         \* the service's actions
  signed,        \* actions whose transaction is on its way
  landed,        \* setup transactions that were mined
  manifestAdmin, \* the facility admin named by the manifest
  setup,         \* the script that is running
  kills

privyVars == <<quorums, wallets, waiverPolicies>>
setupVars == <<privyVars, record, store, signed, landed, manifestAdmin, setup, kills>>

Idle == [name |-> "none"]

SetupInit ==
  /\ quorums = 0 /\ wallets = << >> /\ waiverPolicies = 0
  /\ record = [quorum |-> 0, wallet |-> 0, policy |-> 0]
  /\ store = << >> /\ signed = {} /\ landed = << >>
  /\ manifestAdmin = ManifestPolicy.admin
  /\ setup = Idle
  /\ kills = 0

running(name, at) == setup # Idle /\ setup.name = name /\ setup.at = at
goTo(at) == setup' = [setup EXCEPT !.at = at]
leave == setup' = Idle

-----------------------------------------------------------------------------
(* provision-quorum.ts                                                     *)

startQuorum ==
  /\ setup = Idle
  /\ record.wallet = 0
  /\ setup' = [name |-> "quorum", at |-> "quorum"]
  /\ UNCHANGED <<registryVars, privyVars, record, store, signed, landed, manifestAdmin, kills>>

createKeyQuorum ==
  /\ running("quorum", "quorum")
  /\ \/ /\ record.quorum = 0
        /\ quorums' = quorums + 1
        /\ goTo("recordQuorum")
     \/ record.quorum # 0 /\ goTo("wallet") /\ UNCHANGED quorums
  /\ UNCHANGED <<registryVars, wallets, waiverPolicies, record, store, signed, landed,
                 manifestAdmin, kills>>

\* What has been recorded cannot be pointed elsewhere.
writeQuorumRecord(new) ==
  IF (record.quorum # 0 => new.quorum = record.quorum) /\ (record.wallet # 0 => new.wallet = record.wallet)
  THEN record' = new
  ELSE FALSE

recordQuorum ==
  /\ running("quorum", "recordQuorum")
  /\ writeQuorumRecord([record EXCEPT !.quorum = quorums])
  /\ goTo("wallet")
  /\ UNCHANGED <<registryVars, privyVars, store, signed, landed, manifestAdmin, kills>>

createWallet ==
  /\ running("quorum", "wallet")
  /\ \/ /\ record.wallet = 0
        /\ wallets' = Append(wallets, [owner |-> record.quorum, policies |-> {}])
        /\ goTo("recordWallet")
     \/ record.wallet # 0 /\ leave /\ UNCHANGED wallets
  /\ UNCHANGED <<registryVars, quorums, waiverPolicies, record, store, signed, landed,
                 manifestAdmin, kills>>

recordWallet ==
  /\ running("quorum", "recordWallet")
  /\ writeQuorumRecord([record EXCEPT !.wallet = Len(wallets)])
  /\ leave
  /\ UNCHANGED <<registryVars, privyVars, store, signed, landed, manifestAdmin, kills>>

adminWallet == WalletAddress[record.wallet]

-----------------------------------------------------------------------------
(* provision-facility.ts and the service it drives                         *)

\* The deployed facility's policy with the quorum's wallet as admin.
quorumFacilityPlan(wallet) == [ManifestPolicy EXCEPT !.admin = wallet, !.frozen = FALSE]

\* Read from the chain: exactly what is still missing.
nextFacilitySetupStep ==
  IF ~exists THEN "create"
  ELSE IF policy.admin # adminWallet THEN "otherAdmin"
  ELSE IF ExposureIssuer \notin exposureIssuers THEN "setExposureIssuer"
  ELSE IF HedgeIssuer \notin hedgeIssuers THEN "setHedgeIssuer"
  ELSE IF ~policy.frozen THEN "freeze"
  ELSE "complete"

\* Mutant of openActions: what Privy has signed counts as finished.
openActionsUnsigned ==
  {i \in DOMAIN store : ~store[i].broadcast /\ store[i].status = "pending"}

\* Looked for by the script, to finish it, and by the service, before it proposes.
openActions ==
  {i \in DOMAIN store : ~store[i].broadcast /\ store[i].status \in {"pending", "executed"}}

startFacility ==
  /\ setup = Idle
  /\ record.wallet # 0 /\ wallets[record.wallet].owner = record.quorum
  /\ ~policy.frozen \/ openActions # {}
  /\ setup' = [name |-> "facility", at |-> "resume", todo |-> openActions, left |-> 6]
  /\ UNCHANGED <<registryVars, privyVars, record, store, signed, landed, manifestAdmin, kills>>

\* Anything a previous run left open is driven to its end before more is proposed.
resumeOpen ==
  /\ running("facility", "resume")
  /\ \/ setup.todo = {} /\ goTo("next")
     \/ /\ setup.todo # {}
        /\ LET i == CHOOSE i \in setup.todo : \A j \in setup.todo : i <= j
           IN setup' = [name |-> "facility", at |-> "approve", todo |-> setup.todo \ {i},
                        left |-> setup.left, intent |-> i]
  /\ UNCHANGED <<registryVars, privyVars, record, store, signed, landed, manifestAdmin, kills>>

proposeNextSetupStep ==
  LET step == nextFacilitySetupStep
  IN /\ running("facility", "next")
     /\ IF setup.left = 0 \/ step \in {"complete", "otherAdmin"} \/ openActions # {}
        THEN leave /\ UNCHANGED store
        ELSE /\ store' = Append(store, [kind |-> step, wallet |-> adminWallet,
                                        status |-> "pending", approvals |-> 0, broadcast |-> FALSE])
             /\ setup' = [name |-> "facility", at |-> "approve", todo |-> {},
                          left |-> setup.left - 1, intent |-> Len(store) + 1]
     /\ UNCHANGED <<registryVars, privyVars, record, signed, landed, manifestAdmin, kills>>

failures == Cardinality({i \in DOMAIN store : store[i].status = "failed"})

\* drive: both approvers sign and Privy signs the transaction; or the intent ends unsigned.
\* A wallet under the waiver policy signs no setup call.
driveApprovals ==
  LET i == setup.intent
      next(status, approvals) ==
        store' = [store EXCEPT ![i].status = status, ![i].approvals = approvals]
      allowed == wallets[record.wallet].policies = {}
  IN /\ running("facility", "approve")
     /\ \/ store[i].status # "pending" /\ goTo("execute") /\ UNCHANGED store
        \/ /\ store[i].status = "pending" /\ UNCHANGED setup
           /\ \/ store[i].approvals = 0 /\ next("pending", 1)
              \/ store[i].approvals = 1 /\ next(IF allowed THEN "executed" ELSE "failed", 2)
              \/ failures < MaxFailures /\ next("failed", store[i].approvals)
     /\ UNCHANGED <<registryVars, privyVars, record, signed, landed, manifestAdmin, kills>>

receiptsOf(i) == {r \in Range(landed) : r.action = i}

\* Mutant of driveExecute: that the node has mined the transaction already is an error.
driveExecuteOnce ==
  LET i == setup.intent
  IN /\ running("facility", "execute")
     /\ IF store[i].status # "executed" \/ receiptsOf(i) # {}
        THEN leave /\ UNCHANGED signed
        ELSE signed' = signed \cup {i} /\ goTo("confirm")
     /\ UNCHANGED <<registryVars, privyVars, record, store, landed, manifestAdmin, kills>>

\* A transaction the node already knows, or has mined, is not sent a second time.
driveExecute ==
  LET i == setup.intent
  IN /\ running("facility", "execute")
     /\ IF store[i].status # "executed"
        THEN leave /\ UNCHANGED signed
        ELSE /\ signed' = IF receiptsOf(i) = {} THEN signed \cup {i} ELSE signed
             /\ goTo("confirm")
     /\ UNCHANGED <<registryVars, privyVars, record, store, landed, manifestAdmin, kills>>

\* A reverted transaction is not recorded: the script throws.
driveConfirm ==
  LET i == setup.intent
  IN /\ running("facility", "confirm")
     /\ \E r \in receiptsOf(i) :
          IF r.ok
          THEN /\ store' = [store EXCEPT ![i].broadcast = TRUE]
               /\ goTo("resume")
          ELSE leave /\ UNCHANGED store
     /\ UNCHANGED <<registryVars, privyVars, record, signed, landed, manifestAdmin, kills>>

-----------------------------------------------------------------------------
(* The chain                                                               *)

setupCall(kind, sender) ==
  \/ kind = "create" /\ createFacility(sender, quorumFacilityPlan(sender))
  \/ kind = "setExposureIssuer" /\ setExposureIssuer(sender, ExposureIssuer, TRUE)
  \/ kind = "setHedgeIssuer" /\ setHedgeIssuer(sender, HedgeIssuer, TRUE)
  \/ kind = "freeze" /\ freezeFacility(sender)

\* The early return of the issuer setters.
changesNothing(kind, sender) ==
  /\ onlyAdmin(sender)
  /\ \/ kind = "setExposureIssuer" /\ ExposureIssuer \in exposureIssuers
     \/ kind = "setHedgeIssuer" /\ HedgeIssuer \in hedgeIssuers

\* The errors of the registry that a call can meet.
reverts(kind, sender) ==
  \/ kind = "create" /\ (exists \/ ~ValidPolicy(quorumFacilityPlan(sender)))
  \/ kind # "create" /\ ~onlyAdmin(sender)
  \/ kind = "setExposureIssuer" /\ ExposureIssuer \in hedgeIssuers
  \/ kind = "setHedgeIssuer" /\ HedgeIssuer \in exposureIssuers
  \/ kind = "freeze" /\ (policy.frozen \/ 0 \in {exposureIssuerCount, hedgeIssuerCount})

mineSetupCall ==
  \E i \in signed :
    LET kind == store[i].kind
        sender == store[i].wallet
        mined(ok) == landed' = Append(landed, [action |-> i, kind |-> kind, ok |-> ok])
    IN /\ signed' = signed \ {i}
       /\ \/ setupCall(kind, sender) /\ mined(TRUE)
          \/ changesNothing(kind, sender) /\ mined(TRUE) /\ UNCHANGED registryVars
          \/ reverts(kind, sender) /\ mined(FALSE) /\ UNCHANGED registryVars
       /\ UNCHANGED <<privyVars, record, store, manifestAdmin, setup, kills>>

\* Anybody may create a facility under the same label, with itself as the admin.
takeLabel ==
  /\ \E sender \in Accounts \ Range(WalletAddress) : setupCall("create", sender)
  /\ UNCHANGED setupVars

labelTaken == exists /\ policy.admin \notin Range(WalletAddress)

-----------------------------------------------------------------------------
(* provision-policy.ts                                                     *)

\* The vault is deployed, and the manifest is edited by hand.
recordInManifest ==
  /\ record.wallet # 0 /\ policy.frozen /\ policy.admin = adminWallet
  /\ manifestAdmin # adminWallet
  /\ manifestAdmin' = adminWallet
  /\ UNCHANGED <<registryVars, privyVars, record, store, signed, landed, setup, kills>>

policyAttached == record.wallet # 0 /\ record.policy \in wallets[record.wallet].policies

startPolicy ==
  /\ setup = Idle
  /\ record.wallet # 0 /\ manifestAdmin = adminWallet
  /\ ~policyAttached
  /\ setup' = [name |-> "policy", at |-> "policy"]
  /\ UNCHANGED <<registryVars, privyVars, record, store, signed, landed, manifestAdmin, kills>>

createPolicy ==
  /\ running("policy", "policy")
  /\ \/ /\ record.policy = 0
        /\ waiverPolicies' = waiverPolicies + 1
        /\ goTo("recordPolicy")
     \/ record.policy # 0 /\ goTo("attach") /\ UNCHANGED waiverPolicies
  /\ UNCHANGED <<registryVars, quorums, wallets, record, store, signed, landed,
                 manifestAdmin, kills>>

recordPolicy ==
  /\ running("policy", "recordPolicy")
  /\ writeQuorumRecord([record EXCEPT !.policy = waiverPolicies])
  /\ goTo("attach")
  /\ UNCHANGED <<registryVars, privyVars, store, signed, landed, manifestAdmin, kills>>

\* The wallet's policies become this one alone, with both approvers' signatures.
attachPolicy ==
  /\ running("policy", "attach")
  /\ wallets' = [wallets EXCEPT ![record.wallet].policies = {record.policy}]
  /\ leave
  /\ UNCHANGED <<registryVars, quorums, waiverPolicies, record, store, signed, landed,
                 manifestAdmin, kills>>

-----------------------------------------------------------------------------

killSetup ==
  /\ setup # Idle
  /\ kills < MaxKills
  /\ kills' = kills + 1
  /\ leave
  /\ UNCHANGED <<registryVars, privyVars, record, store, signed, landed, manifestAdmin>>

\* What the operator, the approvers, Privy and the chain are relied on to do.
SetupProgress ==
  \/ startQuorum \/ createKeyQuorum \/ recordQuorum \/ createWallet \/ recordWallet
  \/ startFacility \/ resumeOpen \/ proposeNextSetupStep
  \/ driveApprovals \/ driveExecute \/ driveConfirm
  \/ recordInManifest \/ startPolicy \/ createPolicy \/ recordPolicy \/ attachPolicy

SetupNext == SetupProgress \/ mineSetupCall \/ takeLabel \/ killSetup

-----------------------------------------------------------------------------

\* facility-setup.ts:62, "asking again proposes exactly what is still missing": however
\* often the script is killed and run again, the quorum never sends a setup call that
\* has been made, and none of its calls reverts, unless somebody took the label.
SetupCallsLandOnce ==
  labelTaken \/
    \A j, k \in DOMAIN landed :
      landed[j].ok /\ (landed[j].kind = landed[k].kind => j = k)

Provisioned == policy.frozen /\ policyAttached /\ policy.admin = adminWallet

\* The scripts are resumable: killed and run again often enough, they end with a frozen
\* facility under a wallet that can sign waivers and nothing else.
SetupCompletes == <>(Provisioned \/ labelTaken)
=============================================================================
