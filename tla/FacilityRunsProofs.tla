--------------------------- MODULE FacilityRunsProofs ---------------------------
(***************************************************************************)
(* Theorems of a facility's setup and of the evidence published about it,  *)
(* for any policy, wallets, issuers, numbers of kills and of failed        *)
(* intents, and any pauses between the calls of a script.                  *)
(***************************************************************************)
EXTENDS FacilityRuns, CoverageEngineProofs

-----------------------------------------------------------------------------
(* The setup of a quorum's facility.                                       *)

Kinds == {"create", "setExposureIssuer", "setHedgeIssuer", "freeze"}

SetupAction ==
  [kind : Kinds, wallet : Range(WalletAddress), status : {"pending", "executed", "failed"},
   approvals : Nat, broadcast : BOOLEAN]

Receipt == [action : Nat, kind : Kinds, ok : BOOLEAN]

\* Where a provisioning script can stand.
Places ==
  {"quorum", "recordQuorum", "wallet", "recordWallet", "policy", "recordPolicy", "attach",
   "resume", "next", "approve", "execute", "confirm"}

SetupState ==
  {Idle}
  \cup [name : {"quorum", "policy"}, at : Places]
  \cup [name : {"facility"}, at : {"resume", "next"}, todo : SUBSET Nat, left : Int]
  \cup [name : {"facility"}, at : Places, todo : SUBSET Nat, left : Int, intent : Nat]

\* A provisioning script works on actions that are stored, and resumes one at most.
ScriptTypes(s, actions) ==
  s.name = "facility" =>
    /\ s.todo \subseteq DOMAIN actions
    /\ \A i, j \in s.todo : i = j
    /\ s.at \in {"approve", "execute", "confirm"} => s.intent \in DOMAIN actions

SetupTypes ==
  /\ quorums \in Nat /\ waiverPolicies \in Nat
  /\ wallets \in Seq([owner : Nat, policies : SUBSET Nat])
  /\ record \in [quorum : Nat, wallet : Nat, policy : Nat]
  /\ store \in Seq(SetupAction)
  /\ signed \subseteq DOMAIN store
  /\ landed \in Seq(Receipt)
  /\ setup \in SetupState
  /\ ScriptTypes(setup, store)
  /\ kills \in 0..MaxKills
  /\ exposureIssuerCount \in Nat /\ hedgeIssuerCount \in Nat

\* Privy has created a wallet for each script that was killed before it recorded one, and
\* the one that is recorded.
WalletsCounted ==
  /\ record.wallet <= Len(wallets)
  /\ Len(wallets) <= kills + IF record.wallet # 0 \/ running("quorum", "recordWallet")
                             THEN 1 ELSE 0

\* An action that was signed has no receipt yet, and what is recorded has one; one action
\* at most is open, all of them sent by the recorded wallet.
ByQuorum ==
  /\ store # << >> \/ setup.name = "facility" => record.wallet # 0
  /\ \A i \in DOMAIN store : store[i].wallet = adminWallet
  /\ \A i \in signed : store[i].status = "executed" /\ receiptsOf(i) = {}
  /\ \A i, j \in openActions : i = j

\* What the setup call of a kind has achieved.
done(kind) ==
  \/ kind = "create" /\ exists
  \/ kind = "setExposureIssuer" /\ ExposureIssuer \in exposureIssuers
  \/ kind = "setHedgeIssuer" /\ HedgeIssuer \in hedgeIssuers
  \/ kind = "freeze" /\ policy.frozen

\* The facility as far as the quorum has set it up.
QuorumsFacility ==
  /\ exists => record.wallet # 0 /\ policy \in FacilityPolicy /\ policy.admin = adminWallet
  /\ ~exists => exposureIssuers = {} /\ ~policy.frozen
  /\ exposureIssuers = {} => hedgeIssuers = {}
  /\ hedgeIssuers = {} => ~policy.frozen
  /\ exposureIssuers \subseteq {ExposureIssuer} /\ hedgeIssuers \subseteq {HedgeIssuer}
  /\ exposureIssuers # {} => exposureIssuerCount # 0
  /\ hedgeIssuers # {} => hedgeIssuerCount # 0

\* Every action that can still be sent is the next call that the chain misses, every
\* receipt is of a call that succeeded, and no two are of the same call.
InOrder ==
  /\ QuorumsFacility
  /\ \A i \in DOMAIN store : store[i].broadcast => receiptsOf(i) # {}
  /\ \A i \in DOMAIN store :
       store[i].status \in {"pending", "executed"} /\ receiptsOf(i) = {}
         => store[i].kind = nextFacilitySetupStep
  /\ \A k \in DOMAIN landed :
       /\ landed[k].ok
       /\ landed[k].action \in DOMAIN store
       /\ store[landed[k].action].status = "executed"
       /\ done(landed[k].kind)
  /\ \A j, k \in DOMAIN landed : landed[j].kind = landed[k].kind => j = k

SetupInv == SetupTypes /\ WalletsCounted /\ ByQuorum /\ (labelTaken \/ InOrder)

LEMMA SetupInitInv == Init /\ SetupInit => SetupInv
<1> SUFFICES ASSUME Init, SetupInit PROVE SetupInv
  OBVIOUS
<1>1. /\ exists = FALSE /\ policy = EmptyPolicy
      /\ exposureIssuers = {} /\ hedgeIssuers = {}
      /\ exposureIssuerCount = 0 /\ hedgeIssuerCount = 0
  BY DEF Init, EngineInit, CredentialInit, RegistryInit
<1>2. /\ quorums = 0 /\ wallets = << >> /\ waiverPolicies = 0
      /\ record = [quorum |-> 0, wallet |-> 0, policy |-> 0]
      /\ store = << >> /\ signed = {} /\ landed = << >>
      /\ setup = Idle /\ kills = 0
  BY DEF SetupInit
<1>3. SetupTypes
  BY <1>1, <1>2, SetupAssumption DEF SetupTypes, SetupState, ScriptTypes, Idle
<1>4. WalletsCounted
  BY <1>2 DEF WalletsCounted, running
<1>5. ByQuorum
  BY <1>2 DEF ByQuorum, openActions, Idle
<1>6. InOrder
  BY <1>1, <1>2 DEF InOrder, QuorumsFacility, EmptyPolicy
<1> QED
  BY <1>3, <1>4, <1>5, <1>6 DEF SetupInv

\* The recorded wallet is one of those that Privy created.
LEMMA RecordedWallet ==
  ASSUME SetupTypes, WalletsCounted, record.wallet # 0
  PROVE  adminWallet \in Range(WalletAddress) /\ adminWallet \in Accounts
<1>1. Len(wallets) \in Nat /\ record.wallet \in Nat /\ Len(wallets) <= kills + 1
  BY DEF SetupTypes, WalletsCounted
<1>2. record.wallet \in 1..Len(WalletAddress)
  <2>1. kills \in 0..MaxKills /\ record.wallet <= Len(wallets)
    BY DEF SetupTypes, WalletsCounted
  <2>2. MaxKills \in Nat /\ Len(WalletAddress) > MaxKills /\ Len(WalletAddress) \in Nat
    BY SetupAssumption, LenProperties
  <2> QED
    BY ONLY <1>1, <2>1, <2>2, record.wallet # 0
<1> QED
  BY <1>2, SetupAssumption DEF adminWallet, Range

\* Moving on within a script changes where it stands and nothing else.
LEMMA GoToMoves ==
  ASSUME setup \in SetupState, setup # Idle, NEW place \in Places, goTo(place),
         setup.name = "facility" => place \in {"resume", "next"} \/ setup.at \notin {"resume", "next"}
  PROVE  /\ setup' \in SetupState
         /\ setup'.name = setup.name /\ setup'.at = place
         /\ setup.name = "facility" => setup'.todo = setup.todo
         /\ setup.name = "facility" /\ setup.at \notin {"resume", "next"} => setup'.intent = setup.intent
<1>1. CASE setup \in [name : {"quorum", "policy"}, at : Places]
  BY <1>1 DEF goTo, SetupState
<1>2. CASE setup \in [name : {"facility"}, at : {"resume", "next"}, todo : SUBSET Nat, left : Int]
  BY <1>2 DEF goTo, SetupState
<1>3. CASE setup \in [name : {"facility"}, at : Places, todo : SUBSET Nat, left : Int, intent : Nat]
  BY <1>3 DEF goTo, SetupState
<1> QED
  BY <1>1, <1>2, <1>3 DEF SetupState

\* ... and a script of the quorum or of the policy has nothing but its place.
LEMMA ProvisioningMoves ==
  ASSUME setup \in SetupState, NEW name \in {"quorum", "policy"}, NEW from,
         running(name, from), NEW place \in Places, goTo(place)
  PROVE  setup' \in SetupState /\ setup'.name = name /\ setup'.at = place
<1>1. setup # Idle /\ setup.name = name /\ setup.name # "facility"
  BY DEF running
<1> QED
  BY <1>1, GoToMoves

\* A step that leaves the registry, the store and the transactions alone.
LEMMA ScriptKeeps ==
  ASSUME SetupInv, UNCHANGED <<registryVars, store, signed, landed>>,
         SetupTypes', WalletsCounted',
         record.wallet # 0 => record'.wallet = record.wallet,
         setup'.name = "facility" => record'.wallet # 0
  PROVE  SetupInv'
<1>1. /\ UNCHANGED <<exists, policy, exposureIssuers, hedgeIssuers, exposureIssuerCount,
                     hedgeIssuerCount>>
      /\ labelTaken' = labelTaken
      /\ openActions' = openActions
      /\ \A i : receiptsOf(i)' = receiptsOf(i)
  BY DEF registryVars, exposureRole, hedgeRole, labelTaken, openActions, receiptsOf
<1>2. CASE record.wallet # 0
  <2>1. adminWallet' = adminWallet /\ nextFacilitySetupStep' = nextFacilitySetupStep
    BY <1>1, <1>2 DEF adminWallet, nextFacilitySetupStep
  <2>2. ByQuorum'
    BY <1>1, <1>2, <2>1 DEF SetupInv, ByQuorum
  <2>3. InOrder => InOrder'
    BY <1>1, <1>2, <2>1 DEF InOrder, QuorumsFacility, done
  <2> QED
    BY <1>1, <2>2, <2>3 DEF SetupInv
<1>3. CASE record.wallet = 0
  <2>1. store = << >> /\ signed = {}
    <3>1. store = << >>
      BY <1>3 DEF SetupInv, ByQuorum
    <3>2. signed \subseteq DOMAIN store
      BY DEF SetupInv, SetupTypes
    <3> QED
      BY ONLY <3>1, <3>2
  <2>2. ByQuorum'
    BY <1>1, <2>1 DEF SetupInv, ByQuorum
  <2>3. InOrder => InOrder'
    BY <1>1, <1>3, <2>1 DEF InOrder, QuorumsFacility, done
  <2> QED
    BY <1>1, <2>2, <2>3 DEF SetupInv
<1> QED
  BY <1>2, <1>3

\* The quorum's script, which records one wallet at most.
LEMMA QuorumScriptKeeps ==
  ASSUME SetupInv,
         startQuorum \/ createKeyQuorum \/ recordQuorum \/ createWallet \/ recordWallet
  PROVE  SetupInv'
<1>1. /\ SetupTypes /\ WalletsCounted
      /\ UNCHANGED <<registryVars, store, signed, landed, kills>>
      /\ UNCHANGED <<exposureIssuerCount, hedgeIssuerCount>>
      /\ waiverPolicies' = waiverPolicies
  BY DEF SetupInv, startQuorum, createKeyQuorum, recordQuorum, createWallet, recordWallet,
         privyVars, registryVars, exposureRole, hedgeRole
<1>2. ASSUME setup' \in SetupState, setup'.name # "facility",
             record' \in [quorum : Nat, wallet : Nat, policy : Nat],
             wallets' \in Seq([owner : Nat, policies : SUBSET Nat]), quorums' \in Nat,
             record.wallet # 0 => record'.wallet = record.wallet,
             WalletsCounted'
      PROVE  SetupInv'
  <2>1. SetupTypes'
    BY <1>1, <1>2 DEF SetupTypes, ScriptTypes
  <2> QED
    BY <1>1, <1>2, <2>1, ScriptKeeps
<1> USE DEF SetupTypes
<1>3. Idle \in SetupState /\ Idle.name = "none"
  BY DEF SetupState, Idle
<1>4. Len(wallets) \in Nat
  BY <1>1
<1>5. CASE startQuorum
  <2>1. /\ setup' \in SetupState /\ setup'.name = "quorum" /\ setup'.at = "quorum"
        /\ ~running("quorum", "recordWallet")
        /\ UNCHANGED <<record, wallets, quorums>>
    <3> DEFINE s == [name |-> "quorum", at |-> "quorum"]
    <3>1. setup' = s /\ setup = Idle /\ UNCHANGED <<record, wallets, quorums>>
      BY <1>5 DEF startQuorum, privyVars
    <3>2. s \in SetupState /\ s.name = "quorum" /\ s.at = "quorum"
      BY DEF SetupState, Places
    <3> HIDE DEF s
    <3> QED
      BY <3>1, <3>2 DEF running
  <2>2. WalletsCounted'
    BY <1>1, <2>1 DEF WalletsCounted, running
  <2> QED
    BY <1>1, <1>2, <2>1, <2>2
<1>6. CASE createKeyQuorum
  <2>1. /\ running("quorum", "quorum")
        /\ \E place \in {"recordQuorum", "wallet"} : goTo(place)
        /\ quorums' \in Nat
        /\ UNCHANGED <<record, wallets>>
    BY <1>1, <1>6 DEF createKeyQuorum
  <2>2. setup' \in SetupState /\ setup'.name = "quorum" /\ setup'.at \in {"recordQuorum", "wallet"}
    BY ONLY <1>1, <2>1, ProvisioningMoves DEF SetupTypes, Places
  <2>3. WalletsCounted'
    BY <1>1, <2>1, <2>2 DEF WalletsCounted, running
  <2> QED
    BY <1>1, <1>2, <2>1, <2>2, <2>3
<1>7. CASE recordQuorum
  <2>1. /\ running("quorum", "recordQuorum") /\ goTo("wallet")
        /\ record' = [record EXCEPT !.quorum = quorums]
        /\ UNCHANGED <<wallets, quorums>>
    BY <1>7 DEF recordQuorum, writeQuorumRecord, privyVars
  <2>2. setup' \in SetupState /\ setup'.name = "quorum" /\ setup'.at = "wallet"
    BY ONLY <1>1, <2>1, ProvisioningMoves DEF SetupTypes, Places
  <2>3. record' \in [quorum : Nat, wallet : Nat, policy : Nat] /\ record'.wallet = record.wallet
    BY <1>1, <2>1
  <2>4. WalletsCounted'
    BY <1>1, <2>1, <2>2, <2>3 DEF WalletsCounted, running
  <2> QED
    BY <1>1, <1>2, <2>1, <2>2, <2>3, <2>4
<1>8. CASE createWallet
  <2>1. running("quorum", "wallet") /\ UNCHANGED <<record, quorums>>
    BY <1>8 DEF createWallet
  <2>2. CASE record.wallet # 0
    <3>1. setup' = Idle /\ wallets' = wallets
      BY <1>8, <2>2 DEF createWallet, leave
    <3>2. WalletsCounted'
      BY <1>1, <2>1, <2>2, <3>1 DEF WalletsCounted, running
    <3> QED
      BY <1>1, <1>2, <1>3, <2>1, <3>1, <3>2
  <2>3. CASE record.wallet = 0
    <3> DEFINE wallet == [owner |-> record.quorum, policies |-> {}]
    <3>1. wallets' = Append(wallets, wallet) /\ goTo("recordWallet")
      BY <1>8, <2>3 DEF createWallet
    <3>2. wallet \in [owner : Nat, policies : SUBSET Nat]
      BY <1>1
    <3> HIDE DEF wallet
    <3>3. /\ wallets' \in Seq([owner : Nat, policies : SUBSET Nat])
          /\ Len(wallets') = Len(wallets) + 1
      BY <1>1, <3>1, <3>2
    <3>4. setup' \in SetupState /\ setup'.name = "quorum" /\ setup'.at = "recordWallet"
      BY ONLY <1>1, <2>1, <3>1, ProvisioningMoves DEF SetupTypes, Places
    <3>5. running("quorum", "recordWallet")' /\ ~running("quorum", "recordWallet")
      BY <2>1, <3>4 DEF running, Idle
    <3>6. WalletsCounted'
      BY <1>1, <1>4, <2>1, <2>3, <3>3, <3>5 DEF WalletsCounted
    <3> QED
      BY <1>1, <1>2, <2>1, <3>3, <3>4, <3>6
  <2> QED
    BY <2>2, <2>3
<1>9. CASE recordWallet
  <2> DEFINE new == [record EXCEPT !.wallet = Len(wallets)]
  <2>1. /\ running("quorum", "recordWallet")
        /\ setup' = Idle
        /\ record.wallet # 0 => new.wallet = record.wallet
        /\ record' = new
        /\ UNCHANGED <<wallets, quorums>>
    BY <1>9 DEF recordWallet, writeQuorumRecord, privyVars, leave
  <2>2. new \in [quorum : Nat, wallet : Nat, policy : Nat] /\ new.wallet = Len(wallets)
    BY <1>1, <1>4
  <2>3. WalletsCounted'
    BY <1>1, <1>4, <2>1, <2>2 DEF WalletsCounted, running
  <2> QED
    BY <1>1, <1>2, <1>3, <2>1, <2>2, <2>3
<1> QED
  BY <1>5, <1>6, <1>7, <1>8, <1>9

\* The steps of the other scripts before they touch the store, and what ends one.
LEMMA StandingKeeps ==
  ASSUME SetupInv,
         UNCHANGED <<registryVars, quorums, store, signed, landed>>,
         record' \in [quorum : Nat, wallet : Nat, policy : Nat], record'.wallet = record.wallet,
         wallets' \in Seq([owner : Nat, policies : SUBSET Nat]), Len(wallets') = Len(wallets),
         waiverPolicies' \in Nat, kills' \in kills..MaxKills,
         setup' \in SetupState, ScriptTypes(setup', store),
         setup'.name = "facility" => record.wallet # 0,
         running("quorum", "recordWallet") => kills' = kills + 1
  PROVE  SetupInv'
<1>1. SetupTypes /\ WalletsCounted /\ UNCHANGED <<exposureIssuerCount, hedgeIssuerCount>>
  BY DEF SetupInv, registryVars, exposureRole, hedgeRole
<1>2. kills \in Nat /\ kills' \in Nat /\ kills <= kills' /\ kills' <= MaxKills
  BY <1>1, SetupAssumption DEF SetupTypes
<1>3. SetupTypes'
  BY <1>1, <1>2 DEF SetupTypes
<1>4. Len(wallets) \in Nat /\ record.wallet \in Nat
  BY <1>1 DEF SetupTypes
<1>5. WalletsCounted'
  BY <1>1, <1>2, <1>4 DEF WalletsCounted
<1> QED
  BY <1>3, <1>5, ScriptKeeps

LEMMA PolicyScriptKeeps ==
  ASSUME SetupInv,
         startPolicy \/ createPolicy \/ recordPolicy \/ attachPolicy \/ recordInManifest \/ killSetup
  PROVE  SetupInv'
<1>1. /\ SetupTypes
      /\ UNCHANGED <<registryVars, quorums, store, signed, landed>>
      /\ record'.wallet = record.wallet
  BY DEF SetupInv, startPolicy, createPolicy, recordPolicy, attachPolicy, recordInManifest, killSetup,
         privyVars, writeQuorumRecord, SetupTypes
<1> USE DEF SetupTypes
<1>2. /\ Idle \in SetupState /\ Idle.name = "none"
      /\ kills \in kills..MaxKills
      /\ \A s : s.name # "facility" => ScriptTypes(s, store)
  BY <1>1, SetupAssumption DEF SetupState, Idle, ScriptTypes
<1>3. ASSUME setup' \in SetupState, setup'.name # "facility", ~running("quorum", "recordWallet"),
             UNCHANGED kills, waiverPolicies' \in Nat,
             record' \in [quorum : Nat, wallet : Nat, policy : Nat],
             wallets' \in Seq([owner : Nat, policies : SUBSET Nat]), Len(wallets') = Len(wallets)
      PROVE  SetupInv'
  BY <1>1, <1>2, <1>3, StandingKeeps
<1>4. CASE startPolicy
  <2> DEFINE s == [name |-> "policy", at |-> "policy"]
  <2>1. /\ setup' = s /\ setup = Idle
        /\ UNCHANGED <<kills, waiverPolicies, record, wallets>>
    BY <1>4 DEF startPolicy, privyVars
  <2>2. s \in SetupState /\ s.name = "policy"
    BY DEF SetupState, Places
  <2> HIDE DEF s
  <2> QED
    BY <1>1, <1>3, <2>1, <2>2 DEF running
<1>5. ASSUME NEW from \in {"policy", "recordPolicy"}, running("policy", from),
             NEW place \in {"recordPolicy", "attach"}, goTo(place),
             UNCHANGED <<kills, wallets>>, waiverPolicies' \in Nat,
             record' \in [quorum : Nat, wallet : Nat, policy : Nat]
      PROVE  SetupInv'
  <2>1. setup' \in SetupState /\ setup'.name = "policy"
    BY ONLY <1>1, <1>5, ProvisioningMoves DEF SetupTypes, Places
  <2> QED
    BY <1>1, <1>3, <1>5, <2>1 DEF running
<1>6. CASE createPolicy
  <2>1. /\ running("policy", "policy")
        /\ goTo("recordPolicy") \/ goTo("attach")
        /\ UNCHANGED <<kills, wallets, record>>
        /\ waiverPolicies' \in Nat
    BY <1>1, <1>6 DEF createPolicy
  <2> QED
    BY <1>1, <1>5, <2>1
<1>7. CASE recordPolicy
  <2> DEFINE new == [record EXCEPT !.policy = waiverPolicies]
  <2>1. /\ running("policy", "recordPolicy") /\ goTo("attach")
        /\ UNCHANGED <<kills, wallets, waiverPolicies>>
        /\ record' = new
    BY <1>7 DEF recordPolicy, writeQuorumRecord, privyVars
  <2>2. new \in [quorum : Nat, wallet : Nat, policy : Nat]
    BY <1>1
  <2> HIDE DEF new
  <2> QED
    BY <1>1, <1>5, <2>1, <2>2
<1>8. CASE attachPolicy
  <2> DEFINE k == record.wallet
             w == [wallets[k] EXCEPT !.policies = {record.policy}]
  <2>1. /\ running("policy", "attach") /\ setup' = Idle
        /\ UNCHANGED <<kills, waiverPolicies, record>>
        /\ wallets' = [wallets EXCEPT ![k] = w]
    BY <1>8 DEF attachPolicy, leave
  <2>2. wallets' \in Seq([owner : Nat, policies : SUBSET Nat]) /\ Len(wallets') = Len(wallets)
    <3>1. CASE k \in 1..Len(wallets)
      <4>1. w \in [owner : Nat, policies : SUBSET Nat]
        <5>1. record.policy \in Nat
          BY <1>1
        <5>2. wallets[k] \in [owner : Nat, policies : SUBSET Nat]
          <6>1. wallets \in Seq([owner : Nat, policies : SUBSET Nat])
            BY <1>1
          <6> QED
            BY ONLY <3>1, <6>1, ElementOfSeq
        <5> QED
          BY ONLY <5>1, <5>2
      <4> HIDE DEF w
      <4> QED
        BY <1>1, <2>1, <3>1, <4>1
    <3>2. CASE k \notin 1..Len(wallets)
      <4> HIDE DEF w
      <4>1. wallets' = wallets
        BY <1>1, <2>1, <3>2
      <4> QED
        BY <1>1, <4>1
    <3> QED
      BY <3>1, <3>2
  <2> QED
    BY <1>1, <1>2, <1>3, <2>1, <2>2 DEF running
<1>9. CASE recordInManifest
  <2>1. UNCHANGED <<setup, kills, record, wallets, waiverPolicies>>
    BY <1>9 DEF recordInManifest, privyVars
  <2>2. WalletsCounted' /\ SetupTypes'
    BY <1>1, <2>1 DEF SetupInv, WalletsCounted, running, registryVars, exposureRole, hedgeRole
  <2>3. setup.name = "facility" => record.wallet # 0
    BY DEF SetupInv, ByQuorum
  <2> QED
    BY <1>1, <2>1, <2>2, <2>3, ScriptKeeps
<1>10. CASE killSetup
  <2>1. /\ setup' = Idle /\ kills < MaxKills /\ kills' = kills + 1
        /\ UNCHANGED <<record, wallets, waiverPolicies>>
    BY <1>10 DEF killSetup, privyVars, leave
  <2>2. kills' \in kills..MaxKills
    BY <1>1, <2>1, SetupAssumption
  <2> QED
    BY <1>1, <1>2, <2>1, <2>2, StandingKeeps
<1> QED
  BY <1>4, <1>6, <1>7, <1>8, <1>9, <1>10

\* Looking for what a previous run left open.
LEMMA ResumingKeeps ==
  ASSUME SetupInv, startFacility \/ resumeOpen
  PROVE  SetupInv'
<1>1. /\ SetupTypes /\ ByQuorum
      /\ UNCHANGED <<registryVars, privyVars, record, store, signed, landed, kills>>
      /\ ~running("quorum", "recordWallet")
      /\ record.wallet # 0
  BY DEF SetupInv, startFacility, resumeOpen, running, ByQuorum
<1>2. kills \in kills..MaxKills
  BY <1>1, SetupAssumption DEF SetupTypes
<1>3. ASSUME setup' \in SetupState, ScriptTypes(setup', store)
      PROVE  SetupInv'
  BY <1>1, <1>2, <1>3, StandingKeeps DEF privyVars, SetupTypes
<1>4. CASE startFacility
  <2> DEFINE s == [name |-> "facility", at |-> "resume", todo |-> openActions, left |-> 6]
  <2>1. openActions \subseteq DOMAIN store /\ openActions \subseteq Nat
    BY <1>1 DEF openActions, SetupTypes
  <2>2. s \in SetupState
    BY <2>1 DEF SetupState
  <2>3. ScriptTypes(s, store)
    BY <1>1, <2>1 DEF ScriptTypes, ByQuorum
  <2>4. setup' = s
    BY <1>4 DEF startFacility
  <2> HIDE DEF s
  <2> QED
    BY <1>3, <2>2, <2>3, <2>4
<1>5. CASE resumeOpen
  <2>1. /\ running("facility", "resume")
        /\ setup \in SetupState /\ setup.name = "facility" /\ setup # Idle
        /\ setup.todo \subseteq DOMAIN store
        /\ \A i, j \in setup.todo : i = j
    BY <1>1, <1>5 DEF resumeOpen, running, SetupTypes, ScriptTypes
  <2>2. CASE setup.todo = {}
    <3>1. goTo("next")
      BY <1>5, <2>2 DEF resumeOpen
    <3>2. setup' \in SetupState /\ setup'.name = "facility" /\ setup'.at = "next" /\ setup'.todo = {}
      BY ONLY <2>1, <2>2, <3>1, GoToMoves DEF Places
    <3> QED
      BY <1>3, <3>2 DEF ScriptTypes
  <2>3. CASE setup.todo # {}
    <3> DEFINE i == CHOOSE i \in setup.todo : \A j \in setup.todo : i <= j
               s == [name |-> "facility", at |-> "approve", todo |-> setup.todo \ {i},
                     left |-> setup.left, intent |-> i]
    <3>1. setup.left \in Int /\ setup.todo \subseteq Nat
      BY <2>1 DEF SetupState
    <3>2. i \in setup.todo
      <4>1. PICK k \in setup.todo : TRUE
        BY <2>3
      <4>2. \A j \in setup.todo : k <= j
        BY <2>1, <3>1, <4>1
      <4> QED
        BY <4>2
    <3>3. i \in DOMAIN store /\ i \in Nat
      BY <2>1, <3>1, <3>2
    <3>4. setup' = s
      BY <1>5, <2>3 DEF resumeOpen
    <3> HIDE DEF i
    <3>5. s \in SetupState
      BY <3>1, <3>3 DEF SetupState, Places
    <3>6. ScriptTypes(s, store)
      BY <2>1, <3>3 DEF ScriptTypes
    <3> HIDE DEF s
    <3> QED
      BY <1>3, <3>4, <3>5, <3>6
  <2> QED
    BY <2>2, <2>3
<1> QED
  BY <1>4, <1>5

\* Where a facility script stands while it drives an action.
LEMMA Driving ==
  ASSUME SetupInv, NEW from \in {"next", "approve", "execute", "confirm"}, running("facility", from)
  PROVE  /\ SetupTypes /\ WalletsCounted /\ ByQuorum
         /\ setup \in SetupState /\ setup # Idle /\ setup.name = "facility" /\ setup.at = from
         /\ ~running("quorum", "recordWallet")
         /\ setup.todo \subseteq DOMAIN store
         /\ \A i, j \in setup.todo : i = j
         /\ from # "next" => setup.intent \in DOMAIN store
         /\ record.wallet # 0
         /\ kills \in kills..MaxKills
<1>1. SetupTypes /\ WalletsCounted /\ ByQuorum
  BY DEF SetupInv
<1>2. kills \in kills..MaxKills
  BY <1>1, SetupAssumption DEF SetupTypes
<1> QED
  BY <1>1, <1>2 DEF SetupTypes, ScriptTypes, running, ByQuorum

LEMMA StoredAction ==
  ASSUME SetupTypes, NEW i \in DOMAIN store
  PROVE  i \in Nat /\ store[i] \in SetupAction
<1>1. store \in Seq(SetupAction) /\ i \in 1..Len(store)
  BY DEF SetupTypes
<1> QED
  BY ONLY <1>1, ElementOfSeq

\* A stored action goes on: it becomes no other call, and opens nothing.
LEMMA StoredGoesOn ==
  ASSUME SetupInv, UNCHANGED <<registryVars, privyVars, record, signed, landed, kills>>,
         NEW i \in DOMAIN store, NEW after \in SetupAction, store' = [store EXCEPT ![i] = after],
         after.kind = store[i].kind, after.wallet = store[i].wallet,
         store[i].broadcast => after.broadcast,
         after.broadcast => store[i].broadcast \/ receiptsOf(i) # {},
         store[i].status = "executed" => after.status = "executed",
         after.status \in {"pending", "executed"} => store[i].status \in {"pending", "executed"},
         setup' \in SetupState, ScriptTypes(setup', store),
         ~running("quorum", "recordWallet"), record.wallet # 0
  PROVE  SetupInv'
<1>1. /\ SetupTypes /\ WalletsCounted /\ ByQuorum
      /\ UNCHANGED <<exists, policy, exposureIssuers, hedgeIssuers, exposureIssuerCount,
                     hedgeIssuerCount, quorums, wallets, waiverPolicies>>
      /\ labelTaken' = labelTaken
      /\ \A j : receiptsOf(j)' = receiptsOf(j)
      /\ adminWallet' = adminWallet
  BY DEF SetupInv, registryVars, exposureRole, hedgeRole, labelTaken, receiptsOf, adminWallet, privyVars
<1>2. /\ store' \in Seq(SetupAction)
      /\ DOMAIN store' = DOMAIN store
      /\ store'[i] = after
      /\ \A j \in DOMAIN store : j # i => store'[j] = store[j]
  <2>1. store \in Seq(SetupAction)
    BY <1>1 DEF SetupTypes
  <2> QED
    BY ONLY <2>1, after \in SetupAction, i \in DOMAIN store, store' = [store EXCEPT ![i] = after],
            ExceptSeq, LenProperties
<1>3. SetupTypes'
  BY <1>1, <1>2 DEF SetupTypes, ScriptTypes
<1>4. WalletsCounted'
  <2>1. kills \in Nat /\ Len(wallets) \in Nat
    BY <1>1, SetupAssumption DEF SetupTypes
  <2> QED
    BY <1>1, <2>1 DEF WalletsCounted
<1>5. ByQuorum'
  <2>1. openActions' \subseteq openActions
    BY <1>2 DEF openActions
  <2>2. \A j \in DOMAIN store : store'[j].wallet = adminWallet
    BY <1>1, <1>2 DEF ByQuorum
  <2>3. \A j \in signed : store'[j].status = "executed" /\ receiptsOf(j) = {}
    BY <1>1, <1>2 DEF ByQuorum, SetupTypes
  <2> QED
    BY <1>1, <1>2, <2>1, <2>2, <2>3 DEF ByQuorum
<1>6. InOrder => InOrder'
  <2> SUFFICES ASSUME InOrder PROVE InOrder'
    OBVIOUS
  <2>1. nextFacilitySetupStep' = nextFacilitySetupStep
    BY <1>1 DEF nextFacilitySetupStep
  <2>2. QuorumsFacility'
    BY <1>1 DEF InOrder, QuorumsFacility
  <2>3. \A j \in DOMAIN store' : store'[j].broadcast => receiptsOf(j)' # {}
    BY <1>1, <1>2 DEF InOrder
  <2>4. \A j \in DOMAIN store' :
          store'[j].status \in {"pending", "executed"} /\ receiptsOf(j)' = {}
            => store'[j].kind = nextFacilitySetupStep'
    BY <1>1, <1>2, <2>1 DEF InOrder
  <2>5. \A k \in DOMAIN landed :
          /\ landed[k].ok
          /\ landed[k].action \in DOMAIN store'
          /\ store'[landed[k].action].status = "executed"
          /\ done(landed[k].kind)'
    BY <1>1, <1>2 DEF InOrder, done
  <2>6. \A j, k \in DOMAIN landed' : landed'[j].kind = landed'[k].kind => j = k
    BY DEF InOrder
  <2> QED
    BY <2>2, <2>3, <2>4, <2>5, <2>6 DEF InOrder
<1> QED
  BY <1>1, <1>3, <1>4, <1>5, <1>6 DEF SetupInv

\* An action that waits for its approvals gets one, is signed, or fails.
LEMMA DriveApprovalsKeeps ==
  ASSUME SetupInv, driveApprovals
  PROVE  SetupInv'
<1> DEFINE i == setup.intent
<1>1. running("facility", "approve")
  BY DEF driveApprovals
<1>2. /\ SetupTypes /\ ByQuorum
      /\ setup \in SetupState /\ setup # Idle /\ setup.name = "facility" /\ setup.at = "approve"
      /\ ~running("quorum", "recordWallet")
      /\ setup.todo \subseteq DOMAIN store
      /\ \A a, b \in setup.todo : a = b
      /\ i \in DOMAIN store
      /\ record.wallet # 0 /\ kills \in kills..MaxKills
      /\ UNCHANGED <<registryVars, privyVars, record, signed, landed, kills>>
  BY <1>1, Driving DEF driveApprovals
<1>3. CASE goTo("execute") /\ store' = store
  <2>1. /\ setup' \in SetupState /\ setup'.name = "facility" /\ setup'.at = "execute"
        /\ setup'.todo = setup.todo /\ setup'.intent = i
    BY ONLY <1>2, <1>3, GoToMoves DEF Places
  <2>2. ScriptTypes(setup', store)
    BY <1>2, <2>1 DEF ScriptTypes
  <2> HIDE DEF i
  <2> QED
    BY <1>2, <1>3, <2>1, <2>2, StandingKeeps DEF SetupTypes, privyVars
<1>5. store[i] \in SetupAction /\ store[i].approvals \in Nat
  <2> HIDE DEF i
  <2>1. store[i] \in SetupAction
    BY <1>2, StoredAction
  <2> QED
    BY <2>1 DEF SetupAction
<1>4. ASSUME store[i].status = "pending", setup' = setup,
             NEW status \in {"pending", "executed", "failed"}, NEW approvals \in Nat,
             store' = [store EXCEPT ![i].status = status, ![i].approvals = approvals]
      PROVE  SetupInv'
  <2> DEFINE after == [store[i] EXCEPT !.status = status, !.approvals = approvals]
  <2> HIDE DEF i
  <2>1. store[i] \in SetupAction
    BY <1>5
  <2>2. /\ after \in SetupAction
        /\ after.kind = store[i].kind /\ after.wallet = store[i].wallet
        /\ after.status = status
    BY <2>1 DEF SetupAction
  <2>3. after.broadcast = store[i].broadcast
    BY <2>1 DEF SetupAction
  <2>4. store' = [store EXCEPT ![i] = after]
    BY <1>2, <1>4
  <2>5. ScriptTypes(setup', store)
    BY <1>2, <1>4 DEF SetupTypes
  <2> HIDE DEF after
  <2>6. /\ store[i].broadcast => after.broadcast
        /\ after.broadcast => store[i].broadcast \/ receiptsOf(i) # {}
        /\ store[i].status = "executed" => after.status = "executed"
        /\ after.status \in {"pending", "executed"} => store[i].status \in {"pending", "executed"}
    BY <1>4, <2>3
  <2>7. setup' \in SetupState
    BY <1>2, <1>4
  <2> QED
    BY <1>2, <2>2, <2>4, <2>5, <2>6, <2>7, StoredGoesOn
<1>6. \/ goTo("execute") /\ store' = store
      \/ /\ store[i].status = "pending" /\ setup' = setup
         /\ \E status \in {"pending", "executed", "failed"}, approvals \in Nat :
              store' = [store EXCEPT ![i].status = status, ![i].approvals = approvals]
  BY <1>5 DEF driveApprovals
<1> QED
  BY <1>3, <1>4, <1>6

\* What the chain misses is proposed when nothing else is open.
LEMMA ProposalKeeps ==
  ASSUME SetupInv, proposeNextSetupStep
  PROVE  SetupInv'
<1> DEFINE step == nextFacilitySetupStep
           n == Len(store) + 1
           new == [kind |-> step, wallet |-> adminWallet, status |-> "pending",
                   approvals |-> 0, broadcast |-> FALSE]
           s == [name |-> "facility", at |-> "approve", todo |-> {}, left |-> setup.left - 1,
                 intent |-> n]
<1>1. running("facility", "next")
  BY DEF proposeNextSetupStep
<1>2. /\ SetupTypes /\ WalletsCounted /\ ByQuorum
      /\ setup \in SetupState /\ setup # Idle /\ setup.name = "facility"
      /\ ~running("quorum", "recordWallet")
      /\ record.wallet # 0 /\ kills \in kills..MaxKills
      /\ UNCHANGED <<registryVars, privyVars, record, signed, landed, kills>>
  BY <1>1, Driving DEF proposeNextSetupStep
<1>3. CASE setup' = Idle /\ store' = store
  <2>1. Idle \in SetupState /\ Idle.name = "none"
    BY DEF SetupState, Idle
  <2>2. ScriptTypes(Idle, store)
    BY <2>1 DEF ScriptTypes
  <2> QED
    BY <1>2, <1>3, <2>1, <2>2, StandingKeeps DEF SetupTypes, privyVars
<1>4. CASE /\ step \notin {"complete", "otherAdmin"} /\ openActions = {}
           /\ store' = Append(store, new) /\ setup' = s
  <2>1. adminWallet \in Range(WalletAddress) /\ step \in Kinds
    BY <1>2, <1>4, RecordedWallet DEF nextFacilitySetupStep, Kinds
  <2>2. new \in SetupAction /\ new.wallet = adminWallet /\ new.kind = step /\ ~new.broadcast
    BY <2>1 DEF SetupAction
  <2>3. s \in SetupState /\ s.name = "facility" /\ s.todo = {} /\ s.intent = n
    <3>1. setup.left - 1 \in Int
      BY <1>2 DEF SetupState, Idle
    <3>2. n \in Nat
      BY <1>2 DEF SetupTypes
    <3> QED
      BY <3>1, <3>2 DEF SetupState, Places
  <2>4. step' = step /\ adminWallet' = adminWallet
    BY <1>2 DEF nextFacilitySetupStep, adminWallet, registryVars, exposureRole, hedgeRole
  <2> HIDE DEF new, s, step
  <2>5. /\ store' \in Seq(SetupAction)
        /\ DOMAIN store' = DOMAIN store \cup {n}
        /\ n \notin DOMAIN store /\ n \in Nat
        /\ store'[n] = new
        /\ \A j \in DOMAIN store : store'[j] = store[j]
    <3>1. store \in Seq(SetupAction) /\ Len(store) \in Nat
      BY <1>2 DEF SetupTypes
    <3> QED
      BY <1>4, <2>2, <3>1
  <2> HIDE DEF n
  <2>6. /\ UNCHANGED <<exists, policy, exposureIssuers, hedgeIssuers, exposureIssuerCount,
                       hedgeIssuerCount, quorums, wallets, waiverPolicies, record, kills>>
        /\ labelTaken' = labelTaken
        /\ \A j : receiptsOf(j)' = receiptsOf(j)
    BY <1>2 DEF registryVars, exposureRole, hedgeRole, privyVars, labelTaken, receiptsOf
  <2>7. SetupTypes'
    BY <1>2, <1>4, <2>3, <2>5, <2>6 DEF SetupTypes, ScriptTypes
  <2>8. WalletsCounted'
    <3>1. kills \in Nat /\ Len(wallets) \in Nat
      BY <1>2, SetupAssumption DEF SetupTypes
    <3> QED
      BY <1>2, <2>6, <3>1 DEF WalletsCounted
  <2>9. ByQuorum'
    <3>1. openActions' \subseteq {n}
      BY <1>4, <2>5 DEF openActions
    <3>2. \A j \in DOMAIN store' : store'[j].wallet = adminWallet'
      BY <1>2, <2>2, <2>4, <2>5 DEF ByQuorum
    <3>3. \A j \in signed' : store'[j].status = "executed" /\ receiptsOf(j)' = {}
      BY <1>2, <2>5, <2>6 DEF ByQuorum, SetupTypes
    <3> QED
      BY <1>2, <2>6, <3>1, <3>2, <3>3 DEF ByQuorum
  <2>10. InOrder => InOrder'
    <3> SUFFICES ASSUME InOrder PROVE InOrder'
      OBVIOUS
    <3>1. QuorumsFacility'
      BY <2>4, <2>6 DEF InOrder, QuorumsFacility
    <3>2. \A j \in DOMAIN store' : store'[j].broadcast => receiptsOf(j)' # {}
      BY <2>2, <2>5, <2>6 DEF InOrder
    <3>3. \A j \in DOMAIN store' :
            store'[j].status \in {"pending", "executed"} /\ receiptsOf(j)' = {}
              => store'[j].kind = step'
      BY <2>2, <2>4, <2>5, <2>6 DEF InOrder, step
    <3>4. \A k \in DOMAIN landed :
            /\ landed[k].ok
            /\ landed[k].action \in DOMAIN store'
            /\ store'[landed[k].action].status = "executed"
            /\ done(landed[k].kind)'
      BY <1>2, <2>5, <2>6 DEF InOrder, done
    <3>5. \A j, k \in DOMAIN landed : landed[j].kind = landed[k].kind => j = k
      BY DEF InOrder
    <3> QED
      BY <1>2, <3>1, <3>2, <3>3, <3>4, <3>5 DEF InOrder, step
  <2> QED
    BY <2>6, <2>7, <2>8, <2>9, <2>10 DEF SetupInv
<1> QED
  BY <1>3, <1>4 DEF proposeNextSetupStep, leave

\* Sending what Privy has signed, and taking its receipt.
LEMMA DriveExecutionKeeps ==
  ASSUME SetupInv, driveExecute \/ driveConfirm
  PROVE  SetupInv'
<1> DEFINE i == setup.intent
<1>1. /\ SetupTypes /\ WalletsCounted /\ ByQuorum
      /\ setup \in SetupState /\ setup # Idle /\ setup.name = "facility"
      /\ setup.at \in {"execute", "confirm"}
      /\ ~running("quorum", "recordWallet")
      /\ setup.todo \subseteq DOMAIN store
      /\ \A a, b \in setup.todo : a = b
      /\ i \in DOMAIN store
      /\ record.wallet # 0 /\ kills \in kills..MaxKills
      /\ UNCHANGED <<registryVars, privyVars, record, landed, kills>>
  <2>1. running("facility", "execute") \/ running("facility", "confirm")
    BY DEF driveExecute, driveConfirm
  <2> QED
    BY <2>1, Driving DEF driveExecute, driveConfirm
<1>2. store[i] \in SetupAction
  BY <1>1, StoredAction
<1>3. CASE setup' = Idle /\ UNCHANGED <<store, signed>>
  <2>1. Idle \in SetupState /\ Idle.name = "none"
    BY DEF SetupState, Idle
  <2>2. ScriptTypes(Idle, store)
    BY <2>1 DEF ScriptTypes
  <2> HIDE DEF i
  <2> QED
    BY <1>1, <1>3, <2>1, <2>2, StandingKeeps DEF SetupTypes, privyVars
<1>4. ASSUME NEW place \in {"confirm", "resume"}, goTo(place)
      PROVE  setup' \in SetupState /\ ScriptTypes(setup', store) /\ setup'.name = "facility"
  <2>1. /\ setup' \in SetupState /\ setup'.name = "facility" /\ setup'.at = place
        /\ setup'.todo = setup.todo /\ setup'.intent = i
    BY ONLY <1>1, <1>4, GoToMoves DEF Places
  <2> QED
    BY <1>1, <2>1 DEF ScriptTypes
<1>5. CASE /\ driveExecute /\ store[i].status = "executed" /\ goTo("confirm")
  <2>1. /\ store' = store
        /\ signed' = IF receiptsOf(i) = {} THEN signed \cup {i} ELSE signed
        /\ UNCHANGED <<exists, policy, exposureIssuers, hedgeIssuers, exposureIssuerCount,
                       hedgeIssuerCount, quorums, wallets, waiverPolicies>>
        /\ labelTaken' = labelTaken
        /\ openActions' = openActions
        /\ adminWallet' = adminWallet
        /\ nextFacilitySetupStep' = nextFacilitySetupStep
        /\ \A j : receiptsOf(j)' = receiptsOf(j)
    BY <1>1, <1>5
    DEF driveExecute, registryVars, exposureRole, hedgeRole, privyVars, labelTaken, receiptsOf,
        openActions, adminWallet, nextFacilitySetupStep
  <2>2. setup' \in SetupState /\ ScriptTypes(setup', store) /\ setup'.name = "facility"
    BY <1>4, <1>5
  <2> HIDE DEF i
  <2>3. SetupTypes'
    BY <1>1, <2>1, <2>2 DEF SetupTypes
  <2>4. WalletsCounted'
    <3>1. kills \in Nat /\ Len(wallets) \in Nat
      BY <1>1, SetupAssumption DEF SetupTypes
    <3> QED
      BY <1>1, <2>1, <3>1 DEF WalletsCounted
  <2>5. ByQuorum'
    BY <1>1, <1>5, <2>1 DEF ByQuorum
  <2>6. InOrder => InOrder'
    BY <1>1, <2>1 DEF InOrder, QuorumsFacility, done
  <2> QED
    BY <2>1, <2>3, <2>4, <2>5, <2>6 DEF SetupInv
<1>6. CASE /\ receiptsOf(i) # {} /\ UNCHANGED signed /\ goTo("resume")
           /\ store' = [store EXCEPT ![i].broadcast = TRUE]
  <2> DEFINE after == [store[i] EXCEPT !.broadcast = TRUE]
  <2>1. setup' \in SetupState /\ ScriptTypes(setup', store)
    BY <1>4, <1>6
  <2> HIDE DEF i
  <2>2. /\ after \in SetupAction /\ after.broadcast
        /\ after.kind = store[i].kind /\ after.wallet = store[i].wallet
        /\ after.status = store[i].status
    BY <1>2 DEF SetupAction
  <2>3. store' = [store EXCEPT ![i] = after]
    BY <1>6
  <2> HIDE DEF after
  <2>4. /\ store[i].broadcast => after.broadcast
        /\ after.broadcast => store[i].broadcast \/ receiptsOf(i) # {}
        /\ store[i].status = "executed" => after.status = "executed"
        /\ after.status \in {"pending", "executed"} => store[i].status \in {"pending", "executed"}
    BY <1>6, <2>2
  <2>5. /\ UNCHANGED <<registryVars, privyVars, record, signed, landed, kills>>
        /\ i \in DOMAIN store
    BY <1>1, <1>6
  <2> QED
    BY <1>1, <2>1, <2>2, <2>3, <2>4, <2>5, StoredGoesOn
<1>7. CASE driveExecute
  BY <1>3, <1>5, <1>7 DEF driveExecute, leave
<1>8. CASE driveConfirm
  BY <1>3, <1>6, <1>8 DEF driveConfirm, leave
<1> QED
  BY <1>7, <1>8

\* The next setup call from the recorded wallet neither reverts nor does nothing, and the
\* chain misses it no more afterwards.
LEMMA NextCallLands ==
  ASSUME SetupTypes, QuorumsFacility, record.wallet # 0, UNCHANGED record,
         adminWallet \in Range(WalletAddress), adminWallet \in Accounts,
         NEW kind \in Kinds, kind = nextFacilitySetupStep
  PROVE  /\ ~reverts(kind, adminWallet)
         /\ ~changesNothing(kind, adminWallet)
         /\ ~done(kind)
         /\ setupCall(kind, adminWallet) =>
              /\ QuorumsFacility' /\ done(kind)'
              /\ exposureIssuerCount' \in Nat /\ hedgeIssuerCount' \in Nat
              /\ \A k \in Kinds : done(k) => done(k)'
<1> DEFINE goal == /\ QuorumsFacility' /\ done(kind)'
                   /\ exposureIssuerCount' \in Nat /\ hedgeIssuerCount' \in Nat
                   /\ \A k \in Kinds : done(k) => done(k)'
<1>1. exposureIssuerCount \in Nat /\ hedgeIssuerCount \in Nat
  BY DEF SetupTypes
<1>2. adminWallet' = adminWallet
  BY DEF adminWallet
<1> HIDE DEF goal
<1>3. CASE kind = "create"
  <2> DEFINE plan == quorumFacilityPlan(adminWallet)
  <2>1. ~exists
    BY <1>3 DEF nextFacilitySetupStep
  <2>2. plan \in FacilityPolicy /\ plan.admin = adminWallet /\ plan.frozen = FALSE
    BY SetupAssumption DEF quorumFacilityPlan, FacilityPolicy
  <2>3. ValidPolicy(plan)
    <3> DEFINE was == [ManifestPolicy EXCEPT !.frozen = FALSE]
    <3>1. /\ was \in FacilityPolicy /\ ValidPolicy(was)
          /\ was.operator = ManifestPolicy.operator
          /\ plan = [was EXCEPT !.admin = adminWallet]
      BY SetupAssumption DEF quorumFacilityPlan, FacilityPolicy
    <3>2. adminWallet # Zero /\ adminWallet # was.operator
      BY <3>1, SetupAssumption, ZeroAssumption
    <3> HIDE DEF was, plan
    <3> QED
      BY <3>1, <3>2 DEF ValidPolicy, FacilityPolicy
  <2>4. ~reverts(kind, adminWallet) /\ ~changesNothing(kind, adminWallet) /\ ~done(kind)
    BY <1>3, <2>1, <2>3 DEF reverts, changesNothing, done
  <2>5. ASSUME setupCall(kind, adminWallet) PROVE goal
    <3>1. /\ exists' = TRUE /\ policy' = plan
          /\ UNCHANGED <<exposureIssuers, hedgeIssuers, exposureIssuerCount, hedgeIssuerCount>>
      BY <1>3, <2>5 DEF setupCall, createFacility, exposureRole, hedgeRole
    <3>2. exposureIssuers = {} /\ hedgeIssuers = {}
      BY <2>1 DEF QuorumsFacility
    <3> HIDE DEF plan
    <3>3. QuorumsFacility'
      BY <1>2, <2>2, <3>1, <3>2 DEF QuorumsFacility
    <3>4. done(kind)' /\ \A k \in Kinds : done(k) => done(k)'
      BY <1>3, <2>1, <3>1, <3>2 DEF done, QuorumsFacility
    <3> QED
      BY <1>1, <3>1, <3>3, <3>4 DEF goal
  <2> QED
    BY <2>4, <2>5 DEF goal
<1>4. ASSUME kind # "create"
      PROVE  exists /\ policy.admin = adminWallet /\ policy \in FacilityPolicy /\ onlyAdmin(adminWallet)
  BY <1>4 DEF nextFacilitySetupStep, onlyAdmin, QuorumsFacility
<1>5. CASE kind = "setExposureIssuer"
  <2>1. exposureIssuers = {} /\ hedgeIssuers = {}
    BY <1>5 DEF nextFacilitySetupStep, QuorumsFacility
  <2>2. ~reverts(kind, adminWallet) /\ ~changesNothing(kind, adminWallet) /\ ~done(kind)
    BY <1>4, <1>5, <2>1 DEF reverts, changesNothing, done
  <2>3. ASSUME setupCall(kind, adminWallet) PROVE goal
    <3>1. /\ exposureIssuers' = {ExposureIssuer}
          /\ exposureIssuerCount' = exposureIssuerCount + 1
          /\ UNCHANGED <<exists, policy, hedgeIssuers, hedgeIssuerCount>>
      BY <1>5, <2>1, <2>3 DEF setupCall, setExposureIssuer, grantExposureRole, hedgeRole
    <3>2. QuorumsFacility'
      BY <1>1, <1>2, <1>4, <1>5, <2>1, <3>1 DEF QuorumsFacility
    <3>3. done(kind)' /\ \A k \in Kinds : done(k) => done(k)'
      BY <1>5, <2>1, <3>1 DEF done
    <3> QED
      BY <1>1, <3>1, <3>2, <3>3 DEF goal
  <2> QED
    BY <2>2, <2>3 DEF goal
<1>6. CASE kind = "setHedgeIssuer"
  <2>1. exposureIssuers = {ExposureIssuer} /\ hedgeIssuers = {}
    BY <1>6 DEF nextFacilitySetupStep, QuorumsFacility
  <2>2. ~reverts(kind, adminWallet) /\ ~changesNothing(kind, adminWallet) /\ ~done(kind)
    BY <1>4, <1>6, <2>1, SetupAssumption DEF reverts, changesNothing, done
  <2>3. ASSUME setupCall(kind, adminWallet) PROVE goal
    <3>1. /\ hedgeIssuers' = {HedgeIssuer}
          /\ hedgeIssuerCount' = hedgeIssuerCount + 1
          /\ UNCHANGED <<exists, policy, exposureIssuers, exposureIssuerCount>>
      BY <1>6, <2>1, <2>3 DEF setupCall, setHedgeIssuer, grantHedgeRole, exposureRole
    <3>2. QuorumsFacility'
      BY <1>1, <1>2, <1>4, <1>6, <2>1, <3>1 DEF QuorumsFacility
    <3>3. done(kind)' /\ \A k \in Kinds : done(k) => done(k)'
      BY <1>6, <2>1, <3>1 DEF done
    <3> QED
      BY <1>1, <3>1, <3>2, <3>3 DEF goal
  <2> QED
    BY <2>2, <2>3 DEF goal
<1>7. CASE kind = "freeze"
  <2>1. /\ exposureIssuers = {ExposureIssuer} /\ hedgeIssuers = {HedgeIssuer}
        /\ exposureIssuerCount # 0 /\ hedgeIssuerCount # 0
        /\ ~policy.frozen
    BY <1>7 DEF nextFacilitySetupStep, QuorumsFacility
  <2>2. ~reverts(kind, adminWallet) /\ ~changesNothing(kind, adminWallet) /\ ~done(kind)
    BY <1>4, <1>7, <2>1 DEF reverts, changesNothing, done
  <2>3. ASSUME setupCall(kind, adminWallet) PROVE goal
    <3>1. /\ policy' = [policy EXCEPT !.frozen = TRUE]
          /\ UNCHANGED <<exists, exposureIssuers, hedgeIssuers, exposureIssuerCount,
                         hedgeIssuerCount>>
      BY <1>7, <2>3 DEF setupCall, freezeFacility, exposureRole, hedgeRole
    <3>2. policy' \in FacilityPolicy /\ policy'.admin = policy.admin /\ policy'.frozen = TRUE
      BY <1>4, <1>7, <3>1 DEF FacilityPolicy
    <3>3. QuorumsFacility'
      BY <1>1, <1>2, <1>4, <1>7, <2>1, <3>1, <3>2 DEF QuorumsFacility
    <3>4. done(kind)' /\ \A k \in Kinds : done(k) => done(k)'
      BY <1>7, <2>1, <3>1, <3>2 DEF done
    <3> QED
      BY <1>1, <3>1, <3>3, <3>4 DEF goal
  <2> QED
    BY <2>2, <2>3 DEF goal
<1> QED
  BY <1>3, <1>5, <1>6, <1>7 DEF Kinds

\* A receipt is appended: the mined action has one now, the others have what they had.
LEMMA ReceiptAppended ==
  ASSUME SetupInv, NEW i \in signed, NEW ok \in BOOLEAN,
         landed' = Append(landed, [action |-> i, kind |-> store[i].kind, ok |-> ok]),
         signed' = signed \ {i},
         UNCHANGED <<privyVars, record, store, manifestAdmin, setup, kills>>,
         exposureIssuerCount' \in Nat, hedgeIssuerCount' \in Nat
  PROVE  /\ SetupTypes' /\ WalletsCounted' /\ ByQuorum'
         /\ DOMAIN landed' = DOMAIN landed \cup {Len(landed) + 1}
         /\ Len(landed) + 1 \notin DOMAIN landed
         /\ \A k \in DOMAIN landed : landed'[k] = landed[k]
         /\ landed'[Len(landed) + 1] = [action |-> i, kind |-> store[i].kind, ok |-> ok]
         /\ receiptsOf(i)' # {}
         /\ \A j : j # i => receiptsOf(j)' = receiptsOf(j)
<1> DEFINE receipt == [action |-> i, kind |-> store[i].kind, ok |-> ok]
<1>1. /\ SetupTypes /\ WalletsCounted /\ ByQuorum
      /\ i \in DOMAIN store
      /\ UNCHANGED <<quorums, wallets, waiverPolicies>>
  BY DEF SetupInv, SetupTypes, privyVars
<1>2. receipt \in Receipt /\ receipt.action = i
  <2>1. i \in Nat /\ store[i].kind \in Kinds
    BY <1>1, StoredAction DEF SetupAction
  <2> QED
    BY <2>1 DEF Receipt
<1>3. landed \in Seq(Receipt) /\ landed' = Append(landed, receipt)
  BY <1>1 DEF SetupTypes
<1> HIDE DEF receipt
<1>4. /\ landed' \in Seq(Receipt)
      /\ DOMAIN landed = 1..Len(landed) /\ Len(landed) \in Nat
      /\ DOMAIN landed' = 1..(Len(landed) + 1)
      /\ \A k \in 1..Len(landed) : landed'[k] = landed[k]
      /\ landed'[Len(landed) + 1] = receipt
  BY ONLY <1>2, <1>3, AppendProperties, LenProperties
<1>5. /\ DOMAIN landed' = DOMAIN landed \cup {Len(landed) + 1}
      /\ Len(landed) + 1 \notin DOMAIN landed
      /\ \A k \in DOMAIN landed : landed'[k] = landed[k]
  BY ONLY <1>4
<1>6. Range(landed') = Range(landed) \cup {receipt}
  BY ONLY <1>4, <1>5 DEF Range
<1>7. receiptsOf(i)' # {} /\ \A j : j # i => receiptsOf(j)' = receiptsOf(j)
  <2>1. receipt \in receiptsOf(i)'
    BY <1>2, <1>6 DEF receiptsOf
  <2>2. ASSUME NEW j, j # i PROVE receiptsOf(j)' = receiptsOf(j)
    BY <1>2, <1>6, <2>2 DEF receiptsOf
  <2> QED
    BY <2>1, <2>2
<1>8. SetupTypes'
  BY <1>1, <1>4 DEF SetupTypes
<1>9. WalletsCounted'
  BY <1>1 DEF WalletsCounted, running
<1>10. ByQuorum'
  <2>1. openActions' = openActions /\ adminWallet' = adminWallet
    BY DEF openActions, adminWallet
  <2>2. \A j \in signed' : store[j].status = "executed" /\ receiptsOf(j)' = {}
    BY <1>1, <1>7 DEF ByQuorum
  <2> QED
    BY <1>1, <2>1, <2>2 DEF ByQuorum
<1> QED
  BY <1>4, <1>5, <1>7, <1>8, <1>9, <1>10 DEF receipt

\* The chain mines what the quorum sent: under a label somebody else took it reverts, and
\* otherwise it is the call that is missing.
LEMMA MineKeeps ==
  ASSUME SetupInv, mineSetupCall
  PROVE  SetupInv' /\ UNCHANGED setup
<1>1. PICK i \in signed :
        /\ signed' = signed \ {i}
        /\ \/ /\ setupCall(store[i].kind, store[i].wallet)
              /\ landed' = Append(landed, [action |-> i, kind |-> store[i].kind, ok |-> TRUE])
           \/ /\ changesNothing(store[i].kind, store[i].wallet)
              /\ landed' = Append(landed, [action |-> i, kind |-> store[i].kind, ok |-> TRUE])
              /\ UNCHANGED registryVars
           \/ /\ reverts(store[i].kind, store[i].wallet)
              /\ landed' = Append(landed, [action |-> i, kind |-> store[i].kind, ok |-> FALSE])
              /\ UNCHANGED registryVars
        /\ UNCHANGED <<privyVars, record, store, manifestAdmin, setup, kills>>
  BY Zenon DEF mineSetupCall
<1> DEFINE kind == store[i].kind
<1>2. /\ SetupTypes /\ WalletsCounted /\ ByQuorum
      /\ i \in DOMAIN store /\ kind \in Kinds
      /\ store[i].wallet = adminWallet
      /\ store[i].status = "executed" /\ receiptsOf(i) = {}
      /\ record.wallet # 0
      /\ exposureIssuerCount \in Nat /\ hedgeIssuerCount \in Nat
  <2>1. SetupTypes /\ WalletsCounted /\ ByQuorum
    BY DEF SetupInv
  <2>2. i \in DOMAIN store
    BY <2>1 DEF SetupTypes
  <2>3. kind \in Kinds /\ store # << >>
    BY <2>1, <2>2, StoredAction DEF SetupAction
  <2> QED
    BY <2>1, <2>2, <2>3 DEF ByQuorum, SetupTypes
<1>3. /\ adminWallet \in Range(WalletAddress) /\ adminWallet \in Accounts
      /\ adminWallet' = adminWallet
  BY <1>1, <1>2, RecordedWallet DEF adminWallet
<1>4. CASE labelTaken
  <2>1. ~setupCall(kind, adminWallet) /\ ~changesNothing(kind, adminWallet)
    BY <1>3, <1>4
    DEF labelTaken, setupCall, changesNothing, createFacility, onlyAdmin, setExposureIssuer,
        setHedgeIssuer, freezeFacility
  <2>2. /\ landed' = Append(landed, [action |-> i, kind |-> kind, ok |-> FALSE])
        /\ UNCHANGED registryVars
    BY <1>1, <1>2, <2>1
  <2>3. UNCHANGED <<exists, policy, exposureIssuerCount, hedgeIssuerCount>>
    BY <2>2 DEF registryVars, exposureRole, hedgeRole
  <2>4. SetupTypes' /\ WalletsCounted' /\ ByQuorum'
    BY <1>1, <1>2, <2>2, <2>3, ReceiptAppended
  <2>5. labelTaken'
    BY <1>4, <2>3 DEF labelTaken
  <2> QED
    BY <1>1, <2>4, <2>5 DEF SetupInv
<1>5. CASE InOrder
  <2>1. kind = nextFacilitySetupStep /\ QuorumsFacility
    BY <1>2, <1>5 DEF InOrder
  <2>2. /\ ~reverts(kind, adminWallet) /\ ~changesNothing(kind, adminWallet) /\ ~done(kind)
        /\ setupCall(kind, adminWallet) =>
             /\ QuorumsFacility' /\ done(kind)'
             /\ exposureIssuerCount' \in Nat /\ hedgeIssuerCount' \in Nat
             /\ \A k \in Kinds : done(k) => done(k)'
    BY <1>1, <1>2, <1>3, <2>1, NextCallLands
  <2>3. /\ setupCall(kind, adminWallet)
        /\ landed' = Append(landed, [action |-> i, kind |-> kind, ok |-> TRUE])
    BY <1>1, <1>2, <2>2
  <2>4. /\ QuorumsFacility' /\ done(kind)'
        /\ exposureIssuerCount' \in Nat /\ hedgeIssuerCount' \in Nat
        /\ \A k \in Kinds : done(k) => done(k)'
    BY <2>2, <2>3
  <2>5. /\ SetupTypes' /\ WalletsCounted' /\ ByQuorum'
        /\ DOMAIN landed' = DOMAIN landed \cup {Len(landed) + 1}
        /\ Len(landed) + 1 \notin DOMAIN landed
        /\ \A k \in DOMAIN landed : landed'[k] = landed[k]
        /\ landed'[Len(landed) + 1] = [action |-> i, kind |-> kind, ok |-> TRUE]
        /\ receiptsOf(i)' # {}
        /\ \A j : j # i => receiptsOf(j)' = receiptsOf(j)
    BY <1>1, <2>3, <2>4, ReceiptAppended
  <2> DEFINE last == Len(landed) + 1
             receipt == [action |-> i, kind |-> kind, ok |-> TRUE]
  <2>6. receipt.action = i /\ receipt.kind = kind /\ receipt.ok = TRUE
    OBVIOUS
  <2>7. \A k \in DOMAIN landed : landed[k].kind \in Kinds /\ done(landed[k].kind)
    <3> SUFFICES ASSUME NEW k \in DOMAIN landed
                 PROVE  landed[k].kind \in Kinds /\ done(landed[k].kind)
      OBVIOUS
    <3>1. landed[k] \in Receipt
      <4>1. landed \in Seq(Receipt) /\ k \in 1..Len(landed)
        BY <1>2 DEF SetupTypes
      <4> QED
        BY ONLY <4>1, ElementOfSeq
    <3> QED
      BY <1>5, <3>1 DEF InOrder, Receipt
  <2> HIDE DEF last, receipt, kind
  <2>8. \A j \in DOMAIN store' : store'[j].broadcast => receiptsOf(j)' # {}
    BY <1>1, <1>5, <2>5 DEF InOrder
  <2>9. ASSUME NEW j \in DOMAIN store, store[j].status \in {"pending", "executed"},
               receiptsOf(j)' = {}
        PROVE  FALSE
    <3>1. j # i /\ receiptsOf(j) = {}
      BY <2>5, <2>9
    <3>2. ~store[j].broadcast /\ ~store[i].broadcast
      BY <1>2, <1>5, <3>1, <2>9 DEF InOrder
    <3>3. j \in openActions /\ i \in openActions
      BY <1>2, <2>9, <3>2 DEF openActions
    <3> QED
      BY <1>2, <3>1, <3>3 DEF ByQuorum
  <2>10. ASSUME NEW k \in DOMAIN landed'
         PROVE  /\ landed'[k].ok
                /\ landed'[k].action \in DOMAIN store'
                /\ store'[landed'[k].action].status = "executed"
                /\ done(landed[k].kind)'
    <3>1. CASE k \in DOMAIN landed
      <4>1. /\ landed[k].ok /\ landed[k].action \in DOMAIN store
            /\ store[landed[k].action].status = "executed"
            /\ landed[k].kind \in Kinds /\ done(landed[k].kind)
        BY <1>5, <2>7, <3>1 DEF InOrder
      <4>2. PICK was \in Kinds : was = landed[k].kind
        BY <4>1
      <4>3. done(was)'
        BY <2>4, <4>1, <4>2
      <4>4. landed'[k] = landed[k]
        BY <2>5, <3>1
      <4>5. done(landed[k].kind)'
        BY <4>2, <4>3, <4>4 DEF done
      <4> QED
        BY <1>1, <4>1, <4>4, <4>5
    <3>2. CASE k = last
      <4>1. landed'[k] = receipt
        BY <2>5, <3>2 DEF last, receipt, kind
      <4>2. done(landed[k].kind)'
        <5>1. landed'[k].kind = store'[i].kind
          BY <1>1, <2>6, <4>1 DEF kind
        <5> QED
          BY <1>1, <2>4, <5>1 DEF done, kind
      <4> QED
        BY <1>1, <1>2, <2>6, <4>1, <4>2
    <3> QED
      BY <2>5, <3>1, <3>2 DEF last
  <2>11. ASSUME NEW j \in DOMAIN landed', NEW k \in DOMAIN landed',
                landed'[j].kind = landed'[k].kind
         PROVE  j = k
    <3>1. landed'[last] = receipt
      BY <2>5 DEF last, receipt, kind
    <3>2. \A m \in DOMAIN landed : landed'[m].kind # kind
      BY <2>2, <2>5, <2>7
    <3> QED
      BY <1>5, <2>5, <2>6, <2>11, <3>1, <3>2 DEF InOrder, last
  <2>12. InOrder'
    BY <2>4, <2>8, <1>1, <2>9, <2>10, <2>11 DEF InOrder
  <2> QED
    BY <1>1, <2>5, <2>12 DEF SetupInv
<1> QED
  BY <1>4, <1>5 DEF SetupInv

\* Somebody takes the label: from then on it is taken.
LEMMA TakeLabelKeeps ==
  ASSUME SetupInv, takeLabel
  PROVE  SetupInv'
<1>1. PICK sender \in Accounts \ Range(WalletAddress) :
             createFacility(sender, quorumFacilityPlan(sender))
  BY DEF takeLabel, setupCall
<1>2. /\ exists' = TRUE /\ policy' = quorumFacilityPlan(sender)
      /\ UNCHANGED <<exposureIssuerCount, hedgeIssuerCount>>
      /\ quorumFacilityPlan(sender).admin = sender
      /\ UNCHANGED setupVars
  BY <1>1, SetupAssumption
  DEF createFacility, exposureRole, hedgeRole, quorumFacilityPlan, FacilityPolicy, takeLabel
<1>3. labelTaken'
  BY <1>2 DEF labelTaken
<1>4. SetupTypes' /\ WalletsCounted' /\ ByQuorum'
  BY <1>2 DEF SetupInv, SetupTypes, WalletsCounted, ByQuorum, setupVars, privyVars, running, openActions,
              receiptsOf, adminWallet
<1> QED
  BY <1>3, <1>4 DEF SetupInv

LEMMA SetupStep == ASSUME SetupInv, SetupNext PROVE SetupInv'
<1>1. CASE SetupProgress
  BY <1>1, QuorumScriptKeeps, PolicyScriptKeeps, ResumingKeeps, ProposalKeeps, DriveApprovalsKeeps,
     DriveExecutionKeeps DEF SetupProgress
<1>2. CASE mineSetupCall
  BY <1>2, MineKeeps
<1>3. CASE takeLabel
  BY <1>3, TakeLabelKeeps
<1>4. CASE killSetup
  BY <1>4, PolicyScriptKeeps
<1> QED
  BY <1>1, <1>2, <1>3, <1>4 DEF SetupNext

LEMMA SetupInvMeans == ASSUME SetupInv PROVE SetupCallsLandOnce
BY DEF SetupInv, InOrder, SetupCallsLandOnce

-----------------------------------------------------------------------------
(* The setup among the other steps of a run.                               *)

\* arc-facility.ts makes no call of the registry.
SetupFns == {"createFacility", "setExposureIssuer", "setHedgeIssuer", "freezeFacility"}

\* What a script sends, and asserts of it.
LEMMA Sent ==
  ASSUME NEW by, NEW fn, NEW arg
  PROVE  /\ send(by, fn, arg).by = by /\ send(by, fn, arg).fn = fn
         /\ send(by, fn, arg).arg = arg /\ send(by, fn, arg).ok
BY DEF send

CallFields == {"by", "fn", "arg", "ok", "bps", "state", "principal"}

LEMMA Asserted ==
  ASSUME NEW was, DOMAIN was = CallFields, NEW bps, NEW state, NEW i, i = expecting(was, bps, state)
  PROVE  i.fn = was.fn /\ i.arg = was.arg /\ (i.ok <=> was.ok) /\ i.state = state
<1> DEFINE once == [was EXCEPT !.bps = bps]
<1>1. i = [once EXCEPT !.state = state]
  BY DEF expecting
<1>2. once.fn = was.fn /\ once.arg = was.arg /\ (once.ok <=> was.ok) /\ DOMAIN once = CallFields
  BY DEF CallFields
<1> HIDE DEF once
<1> QED
  BY <1>1, <1>2 DEF CallFields

LEMMA Expected ==
  ASSUME NEW by, NEW fn, NEW arg, NEW bps, NEW state, NEW i,
         i = expecting(send(by, fn, arg), bps, state)
  PROVE  i.fn = fn /\ i.arg = arg /\ i.ok /\ i.state = state
<1> DEFINE was == send(by, fn, arg)
<1>1. was.fn = fn /\ was.arg = arg /\ was.ok /\ DOMAIN was = CallFields
  BY DEF send, CallFields
<1>2. i = expecting(was, bps, state)
  OBVIOUS
<1> HIDE DEF was
<1>3. i.fn = was.fn /\ i.arg = was.arg /\ (i.ok <=> was.ok) /\ i.state = state
  BY ONLY <1>1, <1>2, Asserted
<1> QED
  BY <1>1, <1>3

LEMMA Refused ==
  ASSUME NEW by, NEW fn, NEW arg, NEW bps, NEW state, NEW i,
         i = expecting(expectingRevert(send(by, fn, arg)), bps, state)
  PROVE  i.fn = fn /\ i.arg = arg /\ ~i.ok
<1> DEFINE was == expectingRevert(send(by, fn, arg))
<1>1. was.fn = fn /\ was.arg = arg /\ ~was.ok /\ DOMAIN was = CallFields
  BY DEF send, expectingRevert, CallFields
<1>2. i = expecting(was, bps, state)
  OBVIOUS
<1> HIDE DEF was
<1>3. i.fn = was.fn /\ i.arg = was.arg /\ (i.ok <=> was.ok) /\ i.state = state
  BY ONLY <1>1, <1>2, Asserted
<1> QED
  BY <1>1, <1>3

\* The calls of arc-facility.ts, in their order, after the admin's deposit.
ArcFns ==
  <<"deposit", "preflight", "start", "submitExposure", "observeHedge", "draw", "observeHedge",
    "syncCovenant", "predictRefusal", "draw", "observeHedge", "restoreCompliance", "draw">>

LEMMA ArcScriptAt ==
  /\ arcScript \in Seq(Range(arcScript)) /\ Len(arcScript) = 13
  /\ \A p \in 1..13 : arcScript[p].fn = ArcFns[p]
  /\ arcScript[1].by = admin /\ arcScript[1].arg = 5000 /\ arcScript[2].ok
  /\ \A p \in {6, 10, 13} : arcScript[p].arg = DRAW /\ (arcScript[p].ok <=> p # 10)
  /\ \A p \in {6, 13} : arcScript[p].state = "COMPLIANT"
<1>1. Len(arcScript) = 13
  BY DEF arcScript
<1>2. arcScript \in Seq(Range(arcScript))
  BY DEF arcScript, Range
<1>3. arcScript[1].fn = "deposit" /\ arcScript[1].by = admin /\ arcScript[1].arg = 5000
  <2>1. arcScript[1] = send(admin, "deposit", 5000)
    BY DEF arcScript
  <2> QED
    BY ONLY <2>1, Sent
<1>4. arcScript[2].fn = "preflight" /\ arcScript[2].ok
  <2>1. arcScript[2] = send(operator, "preflight", 0)
    BY DEF arcScript
  <2> QED
    BY ONLY <2>1, Sent
<1>5. arcScript[3].fn = "start"
  <2>1. arcScript[3] = send(operator, "start", 0)
    BY DEF arcScript
  <2> QED
    BY ONLY <2>1, Sent
<1>6. arcScript[4].fn = "submitExposure"
  <2>1. arcScript[4] = send(operator, "submitExposure", [amount |-> 1000, fresh |-> FALSE, sequence |-> 1])
    BY DEF arcScript
  <2> QED
    BY ONLY <2>1, Sent
<1>7. arcScript[5].fn = "observeHedge"
  <2>1. arcScript[5] = expecting(send(operator, "observeHedge", arcForward.active), 10000, "UNASSESSED")
    BY DEF arcScript
  <2> QED
    BY ONLY <2>1, Expected
<1>8. arcScript[6].fn = "draw" /\ arcScript[6].arg = DRAW /\ arcScript[6].ok
      /\ arcScript[6].state = "COMPLIANT"
  <2>1. arcScript[6] = expecting(send(operator, "draw", DRAW), 10000, "COMPLIANT")
    BY DEF arcScript
  <2> QED
    BY ONLY <2>1, Expected
<1>9. arcScript[7].fn = "observeHedge"
  <2>1. arcScript[7] = expecting(send(operator, "observeHedge", arcForward.refreshed), 6840, "COMPLIANT")
    BY DEF arcScript
  <2> QED
    BY ONLY <2>1, Expected
<1>10. arcScript[8].fn = "syncCovenant"
  <2>1. arcScript[8] = expecting(send(operator, "syncCovenant", 0), 6840, "CURE")
    BY DEF arcScript
  <2> QED
    BY ONLY <2>1, Expected
<1>11. arcScript[9].fn = "predictRefusal"
  <2>1. arcScript[9] = send(operator, "predictRefusal", DRAW)
    BY DEF arcScript
  <2> QED
    BY ONLY <2>1, Sent
<1>12. arcScript[10].fn = "draw" /\ arcScript[10].arg = DRAW /\ ~arcScript[10].ok
  <2>1. arcScript[10] = expecting(expectingRevert(send(operator, "draw", DRAW)), 6840, "CURE")
    BY DEF arcScript
  <2> QED
    BY ONLY <2>1, Refused
<1>13. arcScript[11].fn = "observeHedge"
  <2>1. arcScript[11] = expecting(send(operator, "observeHedge", arcForward.restored), 10000, "CURE")
    BY DEF arcScript
  <2> QED
    BY ONLY <2>1, Expected
<1>14. arcScript[12].fn = "restoreCompliance"
  <2>1. arcScript[12] = expecting(send(operator, "restoreCompliance", 0), 10000, "COMPLIANT")
    BY DEF arcScript
  <2> QED
    BY ONLY <2>1, Expected
<1>15. arcScript[13].fn = "draw" /\ arcScript[13].arg = DRAW /\ arcScript[13].ok
      /\ arcScript[13].state = "COMPLIANT"
  <2>1. arcScript[13] = expecting(send(operator, "draw", DRAW), 10000, "COMPLIANT")
    BY DEF arcScript
  <2> QED
    BY ONLY <2>1, Expected
<1>16. \A p \in 1..13 : arcScript[p].fn = ArcFns[p]
  BY ONLY <1>3, <1>4, <1>5, <1>6, <1>7, <1>8, <1>9, <1>10, <1>11, <1>12, <1>13, <1>14, <1>15 DEF ArcFns
<1> QED
  BY ONLY <1>1, <1>2, <1>3, <1>4, <1>8, <1>12, <1>15, <1>16

LEMMA ArcScriptCalls ==
  /\ arcScript \in Seq(Range(arcScript))
  /\ \A i \in Range(arcScript) : i.fn \notin SetupFns
<1>1. \A p \in 1..13 : ArcFns[p] \notin SetupFns
  BY DEF ArcFns, SetupFns
<1>2. DOMAIN arcScript = 1..13
  BY ArcScriptAt, LenProperties
<1> QED
  BY <1>1, <1>2, ArcScriptAt DEF Range

\* The setup is the quorum's, and nobody else's step touches it.
SetupInRuns ==
  /\ route = "quorum" => SetupInv /\ todo \in Seq(Range(arcScript))
  /\ route # "quorum" => landed = << >>
  /\ result # "none" => todo # << >>

LEMMA SetupStands ==
  ASSUME SetupInv, UNCHANGED <<registryVars, setupVars>>
  PROVE  SetupInv'
<1>1. /\ UNCHANGED <<exists, policy, exposureIssuers, hedgeIssuers, exposureIssuerCount,
                     hedgeIssuerCount>>
      /\ UNCHANGED <<quorums, wallets, waiverPolicies, record, store, signed, landed, setup, kills>>
      /\ adminWallet' = adminWallet
  BY DEF registryVars, exposureRole, hedgeRole, setupVars, privyVars, adminWallet
<1>2. SetupTypes' /\ WalletsCounted' /\ ByQuorum'
  BY <1>1 DEF SetupInv, SetupTypes, WalletsCounted, ByQuorum, running, openActions, receiptsOf
<1>3. labelTaken => labelTaken'
  BY <1>1 DEF labelTaken
<1>4. InOrder => InOrder'
  BY <1>1 DEF InOrder, QuorumsFacility, nextFacilitySetupStep, receiptsOf, done
<1> QED
  BY <1>2, <1>3, <1>4 DEF SetupInv

LEMMA PerformKeepsSetup ==
  ASSUME perform, SetupInRuns
  PROVE  SetupInRuns'
<1> DEFINE i == Head(todo)
<1>1. UNCHANGED <<setupVars, route, todo, landed>> /\ todo # << >>
  BY DEF perform, setupVars
<1>2. CASE route # "quorum"
  BY <1>1, <1>2 DEF SetupInRuns
<1>3. CASE route = "quorum"
  <2>1. SetupInv /\ todo \in Seq(Range(arcScript))
    BY <1>3 DEF SetupInRuns
  <2>2. i \in Range(arcScript)
    BY <1>1, <2>1, HeadTailProperties
  <2>3. i.fn \notin SetupFns
    BY <2>2, ArcScriptCalls
  <2>4. UNCHANGED registryVars
    <3>1. CASE call(i)
      BY <2>3, <3>1
      DEF call, registryCall, credentialCall, vaultCall, look, moveTo, SetupFns, engineVars, credVars
    <3>2. CASE UNCHANGED vars
      BY <3>2 DEF vars, engineVars, credVars
    <3> QED
      BY <3>1, <3>2 DEF perform
  <2>5. SetupInv'
    BY <1>1, <2>1, <2>4, SetupStands
  <2> QED
    BY <1>1, <1>3, <2>1, <2>5 DEF SetupInRuns
<1> QED
  BY <1>2, <1>3

LEMMA ReadReceiptKeepsSetup ==
  ASSUME readReceipt, SetupInRuns
  PROVE  SetupInRuns'
<1>1. /\ UNCHANGED <<registryVars, setupVars, route, landed>>
      /\ result' = "none" /\ todo # << >>
      /\ todo' = Tail(todo) \/ todo' = << >>
  BY DEF readReceipt, recordReceipt, SetupInRuns, setupVars, vars, engineVars, credVars
<1>2. CASE route # "quorum"
  BY <1>1, <1>2 DEF SetupInRuns
<1>3. CASE route = "quorum"
  <2>1. SetupInv /\ todo \in Seq(Range(arcScript))
    BY <1>3 DEF SetupInRuns
  <2>2. Tail(todo) \in Seq(Range(arcScript)) /\ << >> \in Seq(Range(arcScript))
    BY <1>1, <2>1, HeadTailProperties
  <2>3. SetupInv'
    BY <1>1, <2>1, SetupStands
  <2> QED
    BY <1>1, <1>3, <2>2, <2>3 DEF SetupInRuns
<1> QED
  BY <1>2, <1>3

LEMMA RunsStepSetup ==
  ASSUME SetupInRuns, [RunsNext]_systemVars
  PROVE  SetupInRuns'
<1>1. CASE perform
  BY <1>1, PerformKeepsSetup
<1>4. CASE readReceipt
  BY <1>4, ReadReceiptKeepsSetup
<1>2. CASE quorumSetup
  <2>1. route = "quorum" /\ SetupNext /\ UNCHANGED <<route, todo, result>>
    BY <1>2 DEF quorumSetup, runVars
  <2> QED
    BY <2>1, SetupStep DEF SetupInRuns
<1>3. CASE deployVault \/ startArcFacility \/ synchronizeByAnyone \/ timePasses \/ UNCHANGED systemVars
  <2>1. UNCHANGED <<registryVars, setupVars, route, landed, result>>
    BY <1>3 DEF deployVault, startArcFacility, synchronizeByAnyone, timePasses, systemVars, runVars, vars,
                engineVars, credVars, setupVars
  <2>2. todo' = todo \/ (todo = << >> /\ todo' = arcScript)
    BY <1>3 DEF deployVault, startArcFacility, synchronizeByAnyone, timePasses, systemVars, runVars
  <2> QED
    BY <2>1, <2>2, SetupStands, ArcScriptCalls DEF SetupInRuns
<1> QED
  BY <1>1, <1>2, <1>3, <1>4 DEF RunsNext

LEMMA RunsInitSetup == RunsInit => SetupInRuns
<1> SUFFICES ASSUME RunsInit PROVE SetupInRuns
  OBVIOUS
<1>1. SetupInv
  BY SetupInitInv DEF RunsInit
<1>2. landed = << >> /\ result = "none"
  BY DEF RunsInit, SetupInit
<1>3. route = "quorum" => todo = << >>
  BY DEF RunsInit
<1>4. << >> \in Seq(Range(arcScript))
  OBVIOUS
<1> QED
  BY <1>1, <1>2, <1>3, <1>4 DEF SetupInRuns

\* provision-facility.ts asks the chain what is missing before it proposes, and finishes
\* what an earlier run left open: however often the scripts are killed and whatever
\* fails, no setup call of the quorum is made twice and none reverts, unless somebody
\* else took the label.
THEOREM CallsLandOnce == RunsSpec => []SetupCallsLandOnce
<1>1. SetupInRuns => SetupCallsLandOnce
  <2>1. SetupInv => SetupCallsLandOnce
    BY SetupInvMeans
  <2>2. landed = << >> => SetupCallsLandOnce
    BY DEF SetupCallsLandOnce
  <2> QED
    BY <2>1, <2>2 DEF SetupInRuns
<1> QED
  BY <1>1, RunsInitSetup, RunsStepSetup, PTL DEF RunsSpec

-----------------------------------------------------------------------------
(* The evidence of the public facilities.                                  *)

deployment == setUpAndDeploy(ManifestPolicy)
Calls == Range(deployment) \cup Range(arcScript)

\* What a script has before it is the end of the deployment and of arc-facility.ts.
ScriptLeft(s) ==
  /\ s \in Seq(Calls)
  /\ \A k \in 1..Len(s) :
       IF Len(s) - k >= 13 THEN s[k] \in Range(deployment) ELSE s[k] = arcScript[13 - Len(s) + k]

LEMMA DeploymentCalls ==
  /\ deployment \in Seq(Range(deployment)) /\ Len(deployment) = 5
  /\ \A i \in Range(deployment) :
       /\ i.fn \in SetupFns \cup {"deploy"}
       /\ i.fn = "createFacility" => i.arg = ManifestPolicy
<1>1. Len(deployment) = 5 /\ DOMAIN deployment = 1..5
  BY DEF deployment, setUpAndDeploy
<1>2. deployment \in Seq(Range(deployment))
  BY DEF deployment, setUpAndDeploy, Range
<1>3. /\ deployment[1].fn = "createFacility" /\ deployment[1].arg = ManifestPolicy
      /\ deployment[2].fn = "setExposureIssuer" /\ deployment[3].fn = "setHedgeIssuer"
      /\ deployment[4].fn = "freezeFacility" /\ deployment[5].fn = "deploy"
  BY DEF deployment, setUpAndDeploy, send
<1>4. \A p \in 1..5 : /\ deployment[p].fn \in SetupFns \cup {"deploy"}
                      /\ deployment[p].fn = "createFacility" => deployment[p].arg = ManifestPolicy
  BY ONLY <1>3 DEF SetupFns
<1> QED
  BY <1>1, <1>2, <1>4 DEF Range

LEMMA ScriptsLeft ==
  /\ ScriptLeft(<< >>) /\ ScriptLeft(arcScript) /\ ScriptLeft(deployment \o arcScript)
  /\ arcScript # << >> /\ Len(deployment \o arcScript) = 18
<1> DEFINE a == arcScript
           d == deployment
           s == d \o a
<1>1. /\ a \in Seq(Calls) /\ d \in Seq(Calls) /\ Len(a) = 13 /\ Len(d) = 5
      /\ \A k \in 1..5 : d[k] \in Range(deployment)
  <2>1. a \in Seq(Calls) /\ d \in Seq(Calls)
    BY ArcScriptAt, DeploymentCalls, SeqDef DEF Calls
  <2>2. \A k \in 1..5 : d[k] \in Range(deployment)
    BY DeploymentCalls, ElementOfSeq
  <2> QED
    BY <2>1, <2>2, ArcScriptAt, DeploymentCalls
<1>2. ScriptLeft(<< >>)
  BY DEF ScriptLeft
<1> HIDE DEF a, d
<1>3. /\ s \in Seq(Calls) /\ Len(s) = Len(d) + Len(a)
      /\ \A k \in 1..(Len(d) + Len(a)) : s[k] = IF k <= Len(d) THEN d[k] ELSE a[k - Len(d)]
  BY ONLY <1>1, ConcatProperties
<1> HIDE DEF s
<1>4. Len(s) = 18
  BY ONLY <1>1, <1>3
<1>5. ASSUME NEW k \in 1..18
      PROVE  IF 18 - k >= 13 THEN s[k] \in Range(deployment) ELSE s[k] = a[13 - 18 + k]
  <2>1. k \in 1..(Len(d) + Len(a)) /\ s[k] = IF k <= 5 THEN d[k] ELSE a[k - 5]
    BY ONLY <1>1, <1>3, <1>5, SMTT(30)
  <2>2. CASE k <= 5
    <3>1. 18 - k >= 13 /\ k \in 1..5
      BY ONLY <1>5, <2>2
    <3>2. s[k] \in Range(deployment)
      BY <1>1, <2>1, <2>2, <3>1
    <3> QED  BY ONLY <3>1, <3>2
  <2>3. CASE ~(k <= 5)
    <3>1. ~(18 - k >= 13) /\ k - 5 = 13 - 18 + k
      BY ONLY <1>5, <2>3
    <3>2. s[k] = a[13 - 18 + k]
      BY ONLY <2>1, <2>3, <3>1
    <3> QED  BY ONLY <3>1, <3>2
  <2> QED  BY ONLY <2>2, <2>3
<1>6. ScriptLeft(s)
  BY <1>3, <1>4, <1>5 DEF ScriptLeft, a
<1>7. ScriptLeft(a)
  <2>1. \A k \in 1..13 : ~(13 - k >= 13) /\ a[k] = a[13 - 13 + k]
    OBVIOUS
  <2> QED
    BY <1>1, <2>1 DEF ScriptLeft, a
<1> QED
  BY <1>1, <1>2, <1>4, <1>6, <1>7 DEF a, d, s

\* The next call, and what is left after it.
LEMMA NextCall ==
  ASSUME NEW s, ScriptLeft(s), s # << >>
  PROVE  /\ ScriptLeft(Tail(s)) /\ Len(s) \in Nat \ {0} /\ Len(Tail(s)) = Len(s) - 1
         /\ Tail(s) = << >> <=> Len(s) = 1
         /\ Len(s) > 13 => Head(s) \in Range(deployment)
         /\ Len(s) <= 13 => Head(s) = arcScript[14 - Len(s)]
<1>1. s \in Seq(Calls)
  BY DEF ScriptLeft
<1>2. /\ Tail(s) \in Seq(Calls) /\ Len(Tail(s)) = Len(s) - 1
      /\ \A k \in 1..(Len(s) - 1) : Tail(s)[k] = s[k + 1]
      /\ Len(s) \in Nat \ {0} /\ Head(s) = s[1]
  BY <1>1, HeadTailProperties, EmptySeq
<1> DEFINE t == Tail(s)
<1>3. ASSUME NEW k \in 1..Len(t)
      PROVE  IF Len(t) - k >= 13 THEN t[k] \in Range(deployment) ELSE t[k] = arcScript[13 - Len(t) + k]
  <2>1. t[k] = s[k + 1] /\ k + 1 \in 1..Len(s) /\ Len(t) - k = Len(s) - (k + 1)
        /\ 13 - Len(t) + k = 13 - Len(s) + (k + 1)
    BY <1>2, <1>3
  <2> HIDE DEF t
  <2> QED
    BY <1>2, <2>1 DEF ScriptLeft
<1>4. ScriptLeft(t)
  BY <1>2, <1>3 DEF ScriptLeft
<1>5. t = << >> <=> Len(s) = 1
  BY <1>2, EmptySeq
<1>6. /\ Len(s) > 13 => s[1] \in Range(deployment)
      /\ Len(s) <= 13 => s[1] = arcScript[14 - Len(s)]
  BY <1>2 DEF ScriptLeft
<1> QED
  BY <1>2, <1>4, <1>5, <1>6

Ledger == balanceOf \in [Accounts \cup {Vault} -> Int]
ReserveSet == "reserveAmount" \in DOMAIN policy /\ policy.reserveAmount \in Nat

\* What a call of a public script does to the vault's funds and the reserve.
LEMMA CallMoves ==
  ASSUME NEW i, call(i), Ledger, ReserveSet
  PROVE  /\ i.fn \notin SetupFns => policy' = policy
         /\ (i.fn = "createFacility" => i.arg = ManifestPolicy) => ReserveSet'
         /\ i.fn \notin {"deposit", "draw", "repay"} => balanceOf' = balanceOf
         /\ i.fn = "deposit" /\ i.by \in Accounts /\ i.arg \in Int => Ledger'
         /\ i.fn = "draw" /\ i.arg = DRAW => Ledger' /\ balanceOf'[Vault] >= balanceOf[Vault] - DRAW
         /\ i.fn = "preflight" => balanceOf[Vault] >= policy.reserveAmount + 2 * DRAW
<1>1. i.fn \notin SetupFns => policy' = policy
  BY DEF call, registryCall, credentialCall, vaultCall, look, moveTo, SetupFns, engineVars, credVars,
         registryVars
<1>2. i.fn \notin {"deposit", "draw", "repay"} => balanceOf' = balanceOf
  BY DEF call, registryCall, credentialCall, vaultCall, look, moveTo, vaultVars, deploy, syncCovenant,
         restoreCompliance
<1>3. ASSUME i.fn \in SetupFns, i.fn = "createFacility" => i.arg = ManifestPolicy PROVE ReserveSet'
  <2>1. registryCall(i)
    BY <1>3 DEF call, credentialCall, vaultCall, look, SetupFns
  <2>2. CASE i.fn = "createFacility" /\ createFacility(i.by, i.arg)
    <3>1. policy' = ManifestPolicy
      BY <1>3, <2>2 DEF createFacility
    <3> QED
      BY <3>1, SetupAssumption DEF ReserveSet, FacilityPolicy
  <2>3. CASE setExposureIssuer(i.by, i.arg, TRUE) \/ setHedgeIssuer(i.by, i.arg, TRUE)
    <3>1. policy' = policy
      BY <2>3 DEF setExposureIssuer, setHedgeIssuer
    <3> QED
      BY <3>1 DEF ReserveSet
  <2>4. CASE freezeFacility(i.by)
    <3>1. policy' = [policy EXCEPT !.frozen = TRUE]
      BY <2>4 DEF freezeFacility
    <3> QED
      BY <3>1 DEF ReserveSet
  <2> QED
    BY <2>1, <2>2, <2>3, <2>4 DEF registryCall
<1>4. ASSUME NEW from \in Accounts \cup {Vault}, NEW to, NEW amount \in Int, transfer(from, to, amount)
      PROVE  Ledger' /\ (amount \in Nat => balanceOf'[from] >= balanceOf[from] - amount)
  <2> DEFINE f == balanceOf
             g == balanceOf'
             holders == Accounts \cup {Vault}
  <2>1. f \in [holders -> Int] /\ from \in holders
    BY DEF Ledger
  <2>2. g = [f EXCEPT ![from] = @ - amount, ![to] = @ + amount]
    BY <1>4 DEF transfer
  <2> HIDE DEF f, g, holders
  <2>3. g \in [holders -> Int] /\ (amount \in Nat => g[from] >= f[from] - amount)
    <3>1. CASE from = to
      BY <2>1, <2>2, <3>1
    <3>2. CASE from # to /\ to \in holders
      BY <2>1, <2>2, <3>2
    <3>3. CASE from # to /\ to \notin holders
      <4>1. g = [f EXCEPT ![from] = @ - amount]
        BY <2>1, <2>2, <3>3
      <4>2. g \in [holders -> Int] /\ g[from] = f[from] - amount /\ f[from] \in Int
        BY ONLY <2>1, <4>1, amount \in Int
      <4> QED
        BY ONLY <4>2, amount \in Int
    <3> QED
      BY <3>1, <3>2, <3>3
  <2> QED
    BY <2>3 DEF f, g, holders, Ledger
<1>5. ASSUME i.fn = "deposit", i.by \in Accounts, i.arg \in Int PROVE Ledger'
  <2>1. deposit(i.by, i.arg)
    BY <1>5 DEF call, registryCall, credentialCall, vaultCall, look
  <2> QED
    BY <1>4, <1>5, <2>1 DEF deposit
<1>6. ASSUME i.fn = "draw", i.arg = DRAW
      PROVE  Ledger' /\ balanceOf'[Vault] >= balanceOf[Vault] - DRAW
  <2>1. draw(i.by, DRAW)
    BY <1>6 DEF call, registryCall, credentialCall, vaultCall, look
  <2>2. transfer(Vault, policy.operator, DRAW) /\ DRAW \in Nat
    BY <2>1 DEF draw, DRAW
  <2> QED
    BY <1>4, <2>2
<1>7. i.fn = "preflight" => balanceOf[Vault] >= policy.reserveAmount + 2 * DRAW
  BY DEF call, registryCall, credentialCall, vaultCall, look
<1> QED
  BY <1>1, <1>2, <1>3, <1>5, <1>6, <1>7 DEF ReserveSet

\* What the vault has for the draws to come, and the draws that the evidence shows so far.
Released(k) == k \in draws(TRUE) /\ evidence[k].state = "COMPLIANT"
Withheld(k) == k \in draws(FALSE) /\ evidence[k].refusal = "CURE" /\ evidence[k].affordable

Affords(left) ==
  /\ left \in 8..11 => balanceOf[Vault] >= policy.reserveAmount + 2 * DRAW
  /\ left \in 3..7 => balanceOf[Vault] >= policy.reserveAmount + DRAW

Shown(left) ==
  /\ left < 8 => \E a \in DOMAIN evidence : Released(a)
  /\ left < 4 => \E a, b \in DOMAIN evidence : a < b /\ Released(a) /\ Withheld(b)

\* A call that went as its script expects, its receipt not yet read, leaves the vault what
\* the rest of the script needs.
EvidenceSoFar ==
  /\ ScriptLeft(todo)
  /\ evidence \in Seq(Range(evidence))
  /\ Ledger /\ ReserveSet
  /\ outcome # "running" => todo = << >>
  /\ todo # << >> => Shown(Len(todo))
  /\ result = "none" /\ todo # << >> => Affords(Len(todo))
  /\ result # "none" =>
       todo # << >> /\ ((result = "success") = Head(todo).ok => Affords(Len(todo) - 1))
  /\ EvidenceHonest

\* A receipt is added to the evidence, and what it showed before it still shows.
LEMMA EvidenceGrows ==
  ASSUME evidence \in Seq(Range(evidence)), NEW receipt, evidence' = Append(evidence, receipt)
  PROVE  /\ evidence' \in Seq(Range(evidence'))
         /\ Len(evidence) + 1 \in DOMAIN evidence' /\ evidence'[Len(evidence) + 1] = receipt
         /\ \A k \in DOMAIN evidence :
              /\ k \in DOMAIN evidence' /\ k \in Nat /\ k < Len(evidence) + 1
              /\ Released(k) => Released(k)'
              /\ Withheld(k) => Withheld(k)'
<1> DEFINE all == Range(evidence) \cup {receipt}
<1>1. evidence \in Seq(all) /\ receipt \in all
  BY SeqDef DEF Range
<1> HIDE DEF all
<1>2. /\ evidence' \in Seq(all) /\ Len(evidence') = Len(evidence) + 1
      /\ Len(evidence) \in Nat
      /\ DOMAIN evidence = 1..Len(evidence) /\ DOMAIN evidence' = 1..(Len(evidence) + 1)
      /\ \A k \in 1..Len(evidence) : evidence'[k] = evidence[k]
      /\ evidence'[Len(evidence) + 1] = receipt
  BY ONLY <1>1, evidence' = Append(evidence, receipt), AppendProperties, LenProperties
<1>3. evidence' \in Seq(Range(evidence'))
  BY ONLY <1>2, SeqDef DEF Range
<1>4. ASSUME NEW k \in DOMAIN evidence
      PROVE  /\ k \in DOMAIN evidence' /\ k \in Nat /\ k < Len(evidence) + 1
             /\ evidence'[k] = evidence[k]
  BY <1>2
<1>5. ASSUME NEW k \in DOMAIN evidence
      PROVE  (Released(k) => Released(k)') /\ (Withheld(k) => Withheld(k)')
  BY <1>4, <1>5 DEF Released, Withheld, draws
<1> QED
  BY <1>2, <1>3, <1>4, <1>5

\* A call of a public script keeps the ledger a ledger and the reserve set, and the funds
\* of the later draws are touched by a draw alone.
LEMMA ScriptMoves ==
  ASSUME EvidenceSoFar, todo # << >>, NEW i, i = Head(todo), call(i)
  PROVE  /\ Ledger' /\ ReserveSet'
         /\ Len(todo) <= 13 => policy' = policy
         /\ Len(todo) <= 13 /\ Len(todo) \notin {13, 8, 4, 1} => balanceOf' = balanceOf
         /\ Len(todo) = 12 => balanceOf[Vault] >= policy.reserveAmount + 2 * DRAW
         /\ Len(todo) = 8 => balanceOf'[Vault] >= balanceOf[Vault] - DRAW
<1> DEFINE n == Len(todo)
<1>1. /\ n \in Nat \ {0}
      /\ n > 13 => i \in Range(deployment)
      /\ n <= 13 => i = arcScript[14 - n]
      /\ Ledger /\ ReserveSet
  BY NextCall DEF EvidenceSoFar
<1> HIDE DEF n
<1>2. CASE n > 13
  <2>1. /\ i.fn \in SetupFns \cup {"deploy"}
        /\ i.fn = "createFacility" => i.arg = ManifestPolicy
    BY <1>1, <1>2, DeploymentCalls
  <2>2. ReserveSet' /\ balanceOf' = balanceOf
    <3>1. i.fn \notin {"deposit", "draw", "repay"}
      BY <2>1 DEF SetupFns
    <3> QED
      BY <1>1, <2>1, <3>1, CallMoves
  <2>3. Ledger'
    BY <1>1, <2>2 DEF Ledger
  <2>4. ~(n <= 13) /\ n # 12 /\ n # 8
    BY <1>1, <1>2
  <2> QED
    BY <2>2, <2>3, <2>4 DEF n
<1>3. CASE n <= 13
  <2>1. 14 - n \in 1..13 /\ i = arcScript[14 - n] /\ i.fn = ArcFns[14 - n]
    <3>1. n \in Nat \ {0} /\ i = arcScript[14 - n]
      BY <1>1, <1>3
    <3>2. 14 - n \in 1..13
      BY ONLY <1>3, <3>1
    <3>3. arcScript[14 - n].fn = ArcFns[14 - n]
      BY <3>2, ArcScriptAt
    <3> QED
      BY ONLY <3>1, <3>2, <3>3
  <2>2. i.fn \notin SetupFns /\ i.fn # "createFacility" /\ i.fn # "repay"
    BY <2>1 DEF ArcFns, SetupFns
  <2>3. policy' = policy /\ ReserveSet'
    BY <1>1, <2>2, CallMoves
  <2>4. n \notin {13, 8, 4, 1} => i.fn \notin {"deposit", "draw", "repay"}
    BY <1>1, <1>3, <2>1 DEF ArcFns
  <2>5. n \notin {13, 8, 4, 1} => balanceOf' = balanceOf
    BY <1>1, <2>4, CallMoves
  <2>6. n = 13 => i.fn = "deposit" /\ i.by \in Accounts /\ i.arg \in Int
    <3>1. admin \in Accounts
      BY SetupAssumption DEF admin, ValidPolicy, FacilityPolicy
    <3> QED
      BY <2>1, <3>1, ArcScriptAt DEF ArcFns
  <2>7. n \in {8, 4, 1} => i.fn = "draw" /\ i.arg = DRAW
    BY <2>1, ArcScriptAt DEF ArcFns
  <2>8. Ledger' /\ (n = 8 => balanceOf'[Vault] >= balanceOf[Vault] - DRAW)
    <3>1. CASE n = 13
      BY <1>1, <2>6, <3>1, CallMoves
    <3>2. CASE n \in {8, 4, 1}
      BY <1>1, <2>7, <3>2, CallMoves
    <3>3. CASE n \notin {13, 8, 4, 1}
      BY <1>1, <2>5, <3>3 DEF Ledger
    <3> QED
      BY <3>1, <3>2, <3>3
  <2>9. n = 12 => balanceOf[Vault] >= policy.reserveAmount + 2 * DRAW
    <3>1. n = 12 => i.fn = "preflight"
      BY <2>1 DEF ArcFns
    <3> QED
      BY <1>1, <3>1, CallMoves
  <2> QED
    BY <1>3, <2>3, <2>5, <2>8, <2>9 DEF n
<1> QED
  BY <1>1, <1>2, <1>3

LEMMA PerformKeepsEvidence ==
  ASSUME perform, EvidenceSoFar, route # "coffee"
  PROVE  EvidenceSoFar'
<1> DEFINE n == Len(todo)
<1>a. PICK i : i = Head(todo)
  OBVIOUS
<1>1. PICK ok \in BOOLEAN :
        /\ i = Head(todo) /\ (result' = "success") = ok /\ result' # "none"
        /\ ok => call(i)
        /\ ~ok => UNCHANGED <<vars, startedAt>>
  <2>1. CASE call(i) /\ result' = "success"
    BY <1>a, <2>1, Zenon
  <2>2. CASE UNCHANGED <<vars, startedAt>> /\ result' = "reverted"
    BY <1>a, <2>2, Zenon
  <2> QED
    BY <1>a, <2>1, <2>2 DEF perform
<1>2. /\ todo # << >> /\ ScriptLeft(todo) /\ Ledger /\ ReserveSet
      /\ Shown(n) /\ Affords(n) /\ outcome = "running" /\ EvidenceHonest
      /\ evidence \in Seq(Range(evidence))
      /\ UNCHANGED <<todo, evidence, outcome>>
  BY DEF perform, EvidenceSoFar
<1>3. n \in Nat \ {0} /\ (n <= 13 => i = arcScript[14 - n])
  BY <1>1, <1>2, NextCall
<1> HIDE DEF n
<1>4. ~ok => policy' = policy /\ balanceOf' = balanceOf
  BY <1>1 DEF vars, engineVars, credVars, registryVars, vaultVars
<1>5. /\ Ledger' /\ ReserveSet'
      /\ n <= 13 => policy' = policy
      /\ n <= 13 /\ n \notin {13, 8, 4, 1} => balanceOf' = balanceOf
      /\ n = 12 /\ ok => balanceOf[Vault] >= policy.reserveAmount + 2 * DRAW
      /\ n = 8 => balanceOf'[Vault] >= balanceOf[Vault] - DRAW
  <2>1. CASE ok
    BY <1>1, <1>2, <2>1, ScriptMoves DEF n
  <2>2. CASE ~ok
    <3>1. balanceOf[Vault] \in Int /\ DRAW \in Nat
      BY <1>2 DEF Ledger, DRAW
    <3>2. balanceOf'[Vault] >= balanceOf[Vault] - DRAW
      BY <1>4, <2>2, <3>1
    <3> QED
      BY <1>2, <1>4, <2>2, <3>2 DEF Ledger, ReserveSet
  <2> QED
    BY <2>1, <2>2
<1>6. Shown(n)' /\ EvidenceHonest' /\ n' = n
  BY <1>2 DEF Shown, Released, Withheld, draws, EvidenceHonest, n
<1>7. ASSUME ok = i.ok PROVE Affords(n - 1)'
  <2>1. n - 1 \in 8..11 => balanceOf'[Vault] >= policy'.reserveAmount + 2 * DRAW
    <3>1. CASE n = 12
      <4>1. ok
        BY <1>3, <1>7, <3>1, ArcScriptAt
      <4> QED
        BY <1>5, <3>1, <4>1
    <3>2. CASE n \in 9..11
      BY <1>2, <1>5, <3>2 DEF Affords
    <3> QED
      BY <1>3, <3>1, <3>2
  <2>2. n - 1 \in 3..7 => balanceOf'[Vault] >= policy'.reserveAmount + DRAW
    <3>1. CASE n = 8
      <4>1. balanceOf[Vault] >= policy.reserveAmount + 2 * DRAW
        BY <1>2, <3>1 DEF Affords
      <4>2. balanceOf'[Vault] >= balanceOf[Vault] - DRAW /\ policy' = policy
        BY <1>5, <3>1
      <4>3. balanceOf[Vault] \in Int /\ balanceOf'[Vault] \in Int /\ policy.reserveAmount \in Nat
        BY <1>2, <1>5 DEF Ledger, ReserveSet
      <4> QED
        BY <4>1, <4>2, <4>3 DEF DRAW
    <3>2. CASE n \in 5..7
      BY <1>2, <1>5, <3>2 DEF Affords
    <3>3. CASE n = 4
      <4>1. i = arcScript[10]
        BY <1>3, <3>3
      <4>2. ~ok
        BY <1>7, <4>1, ArcScriptAt
      <4> QED
        BY <1>2, <1>4, <3>3, <4>2 DEF Affords
    <3> QED
      BY <1>3, <3>1, <3>2, <3>3
  <2> QED
    BY <1>3, <1>6, <2>1, <2>2 DEF Affords
<1>8. ((result' = "success") = Head(todo').ok) => Affords(Len(todo) - 1)'
  BY <1>1, <1>2, <1>6, <1>7 DEF n, Affords
<1> QED
  BY <1>1, <1>2, <1>5, <1>6, <1>8 DEF EvidenceSoFar, n

LEMMA ReadReceiptKeepsEvidence ==
  ASSUME readReceipt, EvidenceSoFar, route # "coffee"
  PROVE  EvidenceSoFar'
<1> DEFINE n == Len(todo)
<1>a. PICK i : i = Head(todo)
  OBVIOUS
<1>b. PICK ok \in BOOLEAN : ok = (result = "success")
  OBVIOUS
<1>0. PICK last : last = Len(evidence) + 1
  OBVIOUS
<1>1. recordReceipt(i, ok) /\ result' = "none" /\ UNCHANGED <<route, policy, balanceOf>>
  BY <1>a, <1>b DEF readReceipt, vars, engineVars, credVars, registryVars, vaultVars
<1>2. /\ todo # << >> /\ ScriptLeft(todo) /\ Ledger /\ ReserveSet
      /\ Shown(n) /\ outcome = "running"
      /\ ok = i.ok => Affords(n - 1)
      /\ evidence \in Seq(Range(evidence))
  BY <1>a, <1>b DEF readReceipt, EvidenceSoFar
<1>3. /\ ScriptLeft(Tail(todo)) /\ n \in Nat \ {0} /\ Len(Tail(todo)) = n - 1
      /\ Tail(todo) = << >> <=> n = 1
      /\ n <= 13 => i = arcScript[14 - n]
  BY <1>a, <1>2, NextCall
<1>4. PICK receipt :
        /\ evidence' = Append(evidence, receipt)
        /\ receipt = receiptOf(i, ok)
  BY <1>1 DEF recordReceipt
<1>5. /\ evidence' \in Seq(Range(evidence'))
      /\ last \in DOMAIN evidence' /\ evidence'[last] = receipt
      /\ \A k \in DOMAIN evidence :
           /\ k \in DOMAIN evidence' /\ k \in Nat /\ k < last
           /\ Released(k) => Released(k)'
           /\ Withheld(k) => Withheld(k)'
  BY <1>0, <1>2, <1>4, EvidenceGrows
<1>6. Ledger' /\ ReserveSet'
  BY <1>1, <1>2 DEF Ledger, ReserveSet
<1> HIDE DEF n
<1>7. CASE todo' = << >> /\ outcome' = "failed"
  BY <1>1, <1>5, <1>6, <1>7, ScriptsLeft DEF EvidenceSoFar, EvidenceHonest
<1>8. CASE /\ ok = i.ok
           /\ i.state # "any" => covenantState = i.state
           /\ i.fn = "draw" /\ ~ok => refusalAt = "CURE"
           /\ todo' = Tail(todo)
           /\ outcome' = IF todo' = << >> THEN "complete" ELSE outcome
  <2>1. n \in {8, 1} => Released(last)'
    <3> SUFFICES ASSUME n \in {8, 1} PROVE Released(last)'
      OBVIOUS
    <3>1. 14 - n \in {6, 13} /\ i = arcScript[14 - n]
      BY <1>3
    <3>2. i.fn = "draw" /\ i.ok /\ i.state = "COMPLIANT"
      BY <3>1, ArcScriptAt DEF ArcFns
    <3>3. ok = TRUE /\ covenantState = "COMPLIANT"
      BY <1>8, <3>2
    <3>4. receipt.fn = "draw" /\ receipt.ok = TRUE /\ receipt.state = "COMPLIANT"
      BY <1>4, <3>2, <3>3 DEF receiptOf
    <3> QED
      BY <1>5, <3>4 DEF Released, draws
  <2>2. n = 4 => Withheld(last)'
    <3> SUFFICES ASSUME n = 4 PROVE Withheld(last)'
      OBVIOUS
    <3>1. i = arcScript[10]
      BY <1>3
    <3>2. i.fn = "draw" /\ ~i.ok /\ i.arg = DRAW
      BY <3>1, ArcScriptAt DEF ArcFns
    <3>3. ok = FALSE /\ refusalAt = "CURE"
      BY <1>8, <3>2
    <3>4. balanceOf[Vault] >= policy.reserveAmount + DRAW
      BY <1>2, <1>8 DEF Affords
    <3>5. receipt.fn = "draw" /\ receipt.ok = FALSE /\ receipt.refusal = "CURE" /\ receipt.affordable
      BY <1>4, <3>2, <3>3, <3>4 DEF receiptOf
    <3> QED
      BY <1>5, <3>5 DEF Withheld, draws
  <2>3. ScriptLeft(todo') /\ Len(todo') = n - 1 /\ (todo' = << >> <=> n = 1)
    BY <1>3, <1>8
  <2>4. Affords(Len(todo))'
    BY <1>1, <1>2, <1>8, <2>3 DEF Affords
  <2>5. n - 1 < 8 => \E a \in DOMAIN evidence' : Released(a)'
    <3>1. CASE n = 8
      BY <1>5, <2>1, <3>1
    <3>2. CASE n < 8
      <4>1. PICK a \in DOMAIN evidence : Released(a)
        BY <1>2, <3>2 DEF Shown
      <4> QED
        BY <1>5, <4>1
    <3> QED
      BY <1>3, <3>1, <3>2
  <2>6. n - 1 < 4 => \E a, b \in DOMAIN evidence' : a < b /\ Released(a)' /\ Withheld(b)'
    <3>1. CASE n = 4
      <4>1. PICK a \in DOMAIN evidence : Released(a)
        BY <1>2, <3>1 DEF Shown
      <4> QED
        BY <1>5, <2>2, <3>1, <4>1
    <3>2. CASE n < 4
      <4>1. PICK a \in DOMAIN evidence, b \in DOMAIN evidence : a < b /\ Released(a) /\ Withheld(b)
        BY <1>2, <3>2 DEF Shown
      <4> QED
        BY <1>5, <4>1
    <3> QED
      BY <1>3, <3>1, <3>2
  <2>7. Shown(Len(todo))'
    BY <2>3, <2>5, <2>6 DEF Shown
  <2>8. EvidenceHonest'
    <3> SUFFICES ASSUME outcome' = "complete" PROVE EvidenceHonest'
      BY DEF EvidenceHonest
    <3>1. n = 1
      BY <1>2, <1>8, <2>3
    <3>2. PICK a \in DOMAIN evidence, b \in DOMAIN evidence : a < b /\ Released(a) /\ Withheld(b)
      BY <1>2, <3>1 DEF Shown
    <3>3. /\ a < b /\ b < last
          /\ a \in draws(TRUE)' /\ evidence'[a].state = "COMPLIANT"
          /\ b \in draws(FALSE)' /\ evidence'[b].refusal = "CURE" /\ evidence'[b].affordable
          /\ last \in draws(TRUE)' /\ evidence'[last].state = "COMPLIANT"
      BY <1>5, <2>1, <3>1, <3>2 DEF Released, Withheld
    <3> QED
      BY <3>3 DEF EvidenceHonest
  <2>9. outcome' # "running" => todo' = << >>
    BY <1>2, <1>8
  <2> QED
    BY <1>1, <1>5, <1>6, <2>3, <2>4, <2>7, <2>8, <2>9 DEF EvidenceSoFar
<1> QED
  BY <1>1, <1>2, <1>7, <1>8 DEF recordReceipt

LEMMA SetupKeepsReserve ==
  ASSUME SetupNext, ReserveSet
  PROVE  ReserveSet'
<1>1. CASE UNCHANGED registryVars
  BY <1>1 DEF registryVars, ReserveSet
<1>2. ASSUME NEW kind, NEW sender, setupCall(kind, sender) PROVE ReserveSet'
  <2>1. CASE createFacility(sender, quorumFacilityPlan(sender))
    <3>1. policy' = [[ManifestPolicy EXCEPT !.admin = sender] EXCEPT !.frozen = FALSE]
      BY <2>1 DEF createFacility, quorumFacilityPlan
    <3> QED
      BY <3>1, SetupAssumption DEF ReserveSet, FacilityPolicy
  <2>2. CASE setExposureIssuer(sender, ExposureIssuer, TRUE) \/ setHedgeIssuer(sender, HedgeIssuer, TRUE)
    BY <2>2 DEF setExposureIssuer, setHedgeIssuer, ReserveSet
  <2>3. CASE freezeFacility(sender)
    BY <2>3 DEF freezeFacility, ReserveSet
  <2> QED
    BY <1>2, <2>1, <2>2, <2>3 DEF setupCall
<1>3. CASE mineSetupCall \/ takeLabel
  BY <1>1, <1>2, <1>3 DEF mineSetupCall, takeLabel
<1>4. CASE SetupProgress \/ killSetup
  <2>1. UNCHANGED registryVars
    BY <1>4 DEF SetupProgress, killSetup, startQuorum, createKeyQuorum, recordQuorum, createWallet,
                recordWallet, startFacility, resumeOpen, proposeNextSetupStep, driveApprovals,
                driveExecute, driveConfirm, recordInManifest, startPolicy, createPolicy, recordPolicy,
                attachPolicy
  <2> QED
    BY <1>1, <2>1
<1> QED
  BY <1>3, <1>4 DEF SetupNext

EvidenceInRuns == route # "coffee" => EvidenceSoFar

\* The steps that add nothing to the evidence.
LEMMA EvidenceStands ==
  ASSUME EvidenceSoFar, UNCHANGED <<evidence, result, outcome, balanceOf>>, ReserveSet',
         \/ todo' = todo /\ (todo = << >> \/ policy' = policy)
         \/ todo = << >> /\ outcome = "running" /\ todo' = arcScript
  PROVE  EvidenceSoFar'
<1>1. /\ ScriptLeft(todo) /\ Ledger' /\ EvidenceHonest'
      /\ evidence' \in Seq(Range(evidence'))
  BY DEF EvidenceSoFar, Ledger, EvidenceHonest, draws
<1>2. CASE todo' = todo
  <2>1. todo' # << >> => Shown(Len(todo))'
    BY <1>2 DEF EvidenceSoFar, Shown, Released, Withheld, draws
  <2>3. todo # << >> => (\A left : Affords(left) => Affords(left)')
    BY <1>2 DEF Affords
  <2>4. /\ (result' = "none" /\ todo' # << >>) => Affords(Len(todo))'
        /\ result' # "none" =>
             todo' # << >> /\ ((result' = "success") = Head(todo').ok => Affords(Len(todo) - 1)')
    BY <1>2, <2>3 DEF EvidenceSoFar, Affords
  <2>2. ScriptLeft(todo') /\ (outcome' # "running" => todo' = << >>)
    BY <1>1, <1>2 DEF EvidenceSoFar
  <2> QED
    BY <1>1, <2>1, <2>2, <2>4 DEF EvidenceSoFar
<1>3. CASE todo = << >> /\ outcome = "running" /\ todo' = arcScript
  <2>1. Len(todo') = 13 /\ ScriptLeft(todo')
    BY <1>3, ArcScriptAt, ScriptsLeft
  <2>2. Shown(Len(todo))' /\ Affords(Len(todo))'
    BY <2>1 DEF Shown, Affords
  <2>3. result' = "none"
    BY <1>3 DEF EvidenceSoFar
  <2> QED
    BY <1>1, <1>3, <2>1, <2>2, <2>3 DEF EvidenceSoFar
<1> QED
  BY <1>2, <1>3

LEMMA RunsStepEvidence ==
  ASSUME EvidenceInRuns, [RunsNext]_systemVars
  PROVE  EvidenceInRuns'
<1>1. route' = route
  BY DEF RunsNext, perform, readReceipt, quorumSetup, deployVault, startArcFacility, synchronizeByAnyone, timePasses,
         systemVars, runVars
<1> SUFFICES ASSUME route # "coffee", EvidenceSoFar PROVE EvidenceSoFar'
  BY <1>1 DEF EvidenceInRuns
<1>2. ReserveSet
  BY DEF EvidenceSoFar
<1>3. CASE perform
  BY <1>3, PerformKeepsEvidence
<1>6. CASE readReceipt
  BY <1>6, ReadReceiptKeepsEvidence
<1>4. CASE quorumSetup
  <2>1. /\ SetupNext /\ todo = << >>
        /\ UNCHANGED <<todo, evidence, result, outcome, balanceOf>>
    BY <1>4 DEF quorumSetup, runVars, vaultVars
  <2> QED
    BY <1>2, <2>1, SetupKeepsReserve, EvidenceStands
<1>5. CASE deployVault \/ startArcFacility \/ synchronizeByAnyone \/ timePasses \/ UNCHANGED systemVars
  <2>1. UNCHANGED <<evidence, result, outcome, balanceOf, policy>>
    BY <1>5 DEF deployVault, startArcFacility, synchronizeByAnyone, timePasses, systemVars, runVars, vars,
                engineVars, credVars, registryVars, vaultVars, deploy, syncCovenant
  <2>2. \/ todo' = todo
        \/ todo = << >> /\ outcome = "running" /\ todo' = arcScript
    BY <1>5 DEF deployVault, startArcFacility, synchronizeByAnyone, timePasses, systemVars, runVars
  <2>3. ReserveSet'
    BY <1>2, <2>1 DEF ReserveSet
  <2> QED
    BY <2>1, <2>2, <2>3, EvidenceStands
<1> QED
  BY <1>3, <1>4, <1>5, <1>6 DEF RunsNext

LEMMA RunsInitEvidence == RunsInit => EvidenceInRuns
<1> SUFFICES ASSUME RunsInit, route # "coffee" PROVE EvidenceSoFar
  BY DEF EvidenceInRuns
<1>1. Ledger /\ ReserveSet
  <2>1. Ledger
    <3>1. balanceOf = [a \in Accounts \cup {Vault} |-> IF a = Vault THEN 0 ELSE Supply[a]]
      BY DEF RunsInit, Init
    <3> QED
      BY <3>1, VaultAssumption DEF Ledger
  <2>2. policy = EmptyPolicy
    BY DEF RunsInit, Init, EngineInit, CredentialInit, RegistryInit
  <2> QED
    BY <2>1, <2>2 DEF ReserveSet, EmptyPolicy
<1>2. evidence = << >> /\ result = "none" /\ outcome = "running"
  BY DEF RunsInit
<1>3. evidence \in Seq(Range(evidence))
  BY <1>2
<1>4. todo = << >> \/ todo = deployment \o arcScript
  BY DEF RunsInit, deployment
<1>5. ScriptLeft(todo)
  BY <1>4, ScriptsLeft
<1>6. todo # << >> => Shown(Len(todo)) /\ Affords(Len(todo))
  <2>1. todo # << >> => Len(todo) = 18
    BY <1>4, ScriptsLeft
  <2>2. ASSUME NEW left, left = 18 PROVE Shown(left) /\ Affords(left)
    <3>1. left \notin 8..11 /\ left \notin 3..7 /\ ~(left < 8) /\ ~(left < 4)
      BY <2>2
    <3> QED
      BY ONLY <3>1 DEF Shown, Affords
  <2> QED
    BY <2>1, <2>2
<1> QED
  BY <1>1, <1>2, <1>3, <1>5, <1>6 DEF EvidenceSoFar, EvidenceHonest

\* On the public chain, where anybody may synchronize the covenant between two calls and
\* behind a call in its very block, and any time may pass: a run that calls itself complete holds a draw released, a draw
\* refused by a covenant in cure that the vault could have paid, and a draw released again,
\* in that order.
THEOREM PublicEvidenceIsHonest == RunsSpec => [](route # "coffee" => EvidenceHonest)
<1>1. EvidenceInRuns => (route # "coffee" => EvidenceHonest)
  BY DEF EvidenceInRuns, EvidenceSoFar
<1> QED
  BY <1>1, RunsInitEvidence, RunsStepEvidence, PTL DEF RunsSpec

-----------------------------------------------------------------------------
(* The evidence of the coffee facility.                                    *)

\* The calls of coffee-facility.ts, in their order.
CoffeeFns ==
  <<"createFacility", "setExposureIssuer", "setHedgeIssuer", "freezeFacility", "deploy",
    "deposit", "submitExposure", "submitHedge", "syncCovenant", "draw",
    "submitExposure", "draw", "syncCovenant", "moveToTimestamp", "submitHedge",
    "restoreCompliance", "draw",
    "moveToTimestamp", "submitHedge", "syncCovenant", "moveBeyondDeadline", "syncCovenant",
    "repay">>

LEMMA CoverAt ==
  /\ setUpAndDeploy(coffeePolicy) \in Seq(Range(setUpAndDeploy(coffeePolicy)))
  /\ Len(setUpAndDeploy(coffeePolicy)) = 5
  /\ \A p \in 1..5 : setUpAndDeploy(coffeePolicy)[p].fn = CoffeeFns[p]
  /\ setUpAndDeploy(coffeePolicy)[1].arg = coffeePolicy /\ setUpAndDeploy(coffeePolicy)[1].ok
<1> DEFINE s == setUpAndDeploy(coffeePolicy)
<1>1. Len(s) = 5 /\ s \in Seq(Range(s))
  BY DEF setUpAndDeploy, Range
<1>2. /\ s[1] = send(admin, "createFacility", coffeePolicy)
      /\ s[2] = send(admin, "setExposureIssuer", ExposureIssuer)
      /\ s[3] = send(admin, "setHedgeIssuer", HedgeIssuer)
      /\ s[4] = send(admin, "freezeFacility", 0)
      /\ s[5] = send(admin, "deploy", 0)
  BY DEF setUpAndDeploy
<1> HIDE DEF s
<1>3. /\ s[1].fn = "createFacility" /\ s[1].arg = coffeePolicy /\ s[1].ok
      /\ s[2].fn = "setExposureIssuer"
      /\ s[3].fn = "setHedgeIssuer" /\ s[4].fn = "freezeFacility" /\ s[5].fn = "deploy"
  BY ONLY <1>2, Sent
<1>4. \A p \in 1..5 : s[p].fn = CoffeeFns[p]
  BY ONLY <1>3 DEF CoffeeFns
<1> QED
  BY <1>1, <1>3, <1>4 DEF s

LEMMA DrawnAt ==
  /\ coveredAndDrawn \in Seq(Range(coveredAndDrawn)) /\ Len(coveredAndDrawn) = 5
  /\ \A p \in 1..5 : coveredAndDrawn[p].fn = CoffeeFns[5 + p]
  /\ coveredAndDrawn[1].by = admin /\ coveredAndDrawn[1].arg = 100 /\ coveredAndDrawn[1].ok
  /\ coveredAndDrawn[3].arg = mockForward.active
  /\ coveredAndDrawn[4].ok /\ coveredAndDrawn[4].state = "COMPLIANT"
  /\ coveredAndDrawn[5].arg = 5 /\ coveredAndDrawn[5].ok
<1> DEFINE s == coveredAndDrawn
<1>1. Len(s) = 5 /\ s \in Seq(Range(s))
  BY DEF coveredAndDrawn, Range
<1>2. /\ s[1] = send(admin, "deposit", 100)
      /\ s[2] = send(admin, "submitExposure", [amount |-> 50, fresh |-> FALSE, sequence |-> 1])
      /\ s[3] = send(admin, "submitHedge", mockForward.active)
      /\ s[4] = expecting(send(admin, "syncCovenant", 0), 9000, "COMPLIANT")
      /\ s[5] = send(operator, "draw", 5)
  BY DEF coveredAndDrawn
<1> HIDE DEF s
<1>3. /\ s[1].fn = "deposit" /\ s[1].by = admin /\ s[1].arg = 100 /\ s[1].ok
      /\ s[2].fn = "submitExposure"
      /\ s[3].fn = "submitHedge" /\ s[3].arg = mockForward.active
      /\ s[5].fn = "draw" /\ s[5].arg = 5 /\ s[5].ok
  BY ONLY <1>2, Sent
<1>4. s[4].fn = "syncCovenant" /\ s[4].ok /\ s[4].state = "COMPLIANT"
  BY ONLY <1>2, Expected
<1>5. \A p \in 1..5 : s[p].fn = CoffeeFns[5 + p]
  BY ONLY <1>3, <1>4 DEF CoffeeFns
<1> QED
  BY <1>1, <1>3, <1>4, <1>5 DEF s

\* What the refused draw asserts: no bps, whatever state.
LEMMA Reverts ==
  ASSUME NEW by, NEW fn, NEW arg, NEW i, i = expectingRevert(send(by, fn, arg))
  PROVE  i.fn = fn /\ i.arg = arg /\ ~i.ok
BY DEF send, expectingRevert

\* The coverage that a synchronization has to show.
LEMMA ExpectedBps ==
  ASSUME NEW by, NEW fn, NEW arg, NEW bps, NEW state, NEW i,
         i = expecting(send(by, fn, arg), bps, state)
  PROVE  i.bps = bps
<1> DEFINE was == send(by, fn, arg)
           once == [was EXCEPT !.bps = bps]
<1>1. i = [once EXCEPT !.state = state]
  BY DEF expecting
<1>2. once.bps = bps /\ DOMAIN once = CallFields
  BY DEF CallFields, send
<1> HIDE DEF once
<1> QED
  BY <1>1, <1>2 DEF CallFields

LEMMA GrownAre ==
  /\ grownAndRestored[1] = send(admin, "submitExposure", [amount |-> 60, fresh |-> TRUE, sequence |-> 2])
  /\ grownAndRestored[2] = expectingRevert(send(operator, "draw", 1))
  /\ grownAndRestored[3] = expecting(send(admin, "syncCovenant", 0), 7500, "CURE")
  /\ grownAndRestored[4] = send(admin, "moveToTimestamp", 1)
  /\ grownAndRestored[5] = send(admin, "submitHedge", mockForward.refreshed)
  /\ grownAndRestored[6] = expecting(send(admin, "restoreCompliance", 0), 8333, "COMPLIANT")
  /\ grownAndRestored[7] = send(operator, "draw", 1)
BY DEF grownAndRestored

LEMMA GrownNames == \A p \in 1..7 : grownAndRestored[p].fn = CoffeeFns[10 + p]
<1> DEFINE s == grownAndRestored
<1>1. /\ s[1].fn = "submitExposure" /\ s[2].fn = "draw" /\ s[3].fn = "syncCovenant"
      /\ s[4].fn = "moveToTimestamp" /\ s[5].fn = "submitHedge" /\ s[6].fn = "restoreCompliance"
      /\ s[7].fn = "draw"
  BY ONLY GrownAre, Sent, Reverts, Expected
<1> HIDE DEF s
<1>2. \A p \in 1..7 : s[p].fn = CoffeeFns[10 + p]
  BY ONLY <1>1 DEF CoffeeFns
<1> QED
  BY <1>2 DEF s

LEMMA GrownAt ==
  /\ grownAndRestored \in Seq(Range(grownAndRestored)) /\ Len(grownAndRestored) = 7
  /\ grownAndRestored[1].arg.amount = 60 /\ grownAndRestored[1].ok
  /\ grownAndRestored[2].arg = 1 /\ ~grownAndRestored[2].ok
  /\ grownAndRestored[3].ok /\ grownAndRestored[3].bps = 7500 /\ grownAndRestored[3].state = "CURE"
  /\ grownAndRestored[6].ok /\ grownAndRestored[6].state = "COMPLIANT"
  /\ grownAndRestored[7].ok
<1> DEFINE s == grownAndRestored
<1>1. Len(s) = 7 /\ s \in Seq(Range(s))
  BY DEF grownAndRestored, Range
<1>2. s[1].arg = [amount |-> 60, fresh |-> TRUE, sequence |-> 2] /\ s[1].ok /\ s[7].ok
  BY ONLY GrownAre, Sent
<1>3. s[2].arg = 1 /\ ~s[2].ok
  BY ONLY GrownAre, Reverts
<1>4. /\ s[3].ok /\ s[3].bps = 7500 /\ s[3].state = "CURE"
      /\ s[6].ok /\ s[6].state = "COMPLIANT"
  BY ONLY GrownAre, Expected, ExpectedBps
<1> HIDE DEF s
<1> QED
  BY <1>1, <1>2, <1>3, <1>4 DEF s

LEMMA CancelledAt ==
  /\ cancelledAndRepaid \in Seq(Range(cancelledAndRepaid)) /\ Len(cancelledAndRepaid) = 6
  /\ \A p \in 1..6 : cancelledAndRepaid[p].fn = CoffeeFns[17 + p]
<1> DEFINE s == cancelledAndRepaid
<1>1. Len(s) = 6 /\ s \in Seq(Range(s))
  BY DEF cancelledAndRepaid, Range
<1>2. /\ s[1] = send(admin, "moveToTimestamp", 2)
      /\ s[2] = send(admin, "submitHedge", mockForward.cancelled)
      /\ s[3] = send(admin, "syncCovenant", 0)
      /\ s[4] = send(admin, "moveBeyondDeadline", 0)
      /\ s[5] = expecting(send(admin, "syncCovenant", 0), Unchecked, "BREACH")
      /\ s[6] = [send(operator, "repay", 1) EXCEPT !.principal = 5]
  BY DEF cancelledAndRepaid
<1> HIDE DEF s
<1>3. /\ s[1].fn = "moveToTimestamp" /\ s[2].fn = "submitHedge" /\ s[3].fn = "syncCovenant"
      /\ s[4].fn = "moveBeyondDeadline"
  BY ONLY <1>2, Sent
<1>4. s[5].fn = "syncCovenant"
  BY ONLY <1>2, Expected
<1>5. s[6].fn = "repay"
  BY ONLY <1>2 DEF send
<1>6. \A p \in 1..6 : s[p].fn = CoffeeFns[17 + p]
  BY ONLY <1>3, <1>4, <1>5 DEF CoffeeFns
<1> QED
  BY <1>1, <1>6 DEF s

LEMMA Wider == ASSUME NEW A, NEW S, A \subseteq S, NEW t \in Seq(A) PROVE t \in Seq(S)
BY SeqDef

LEMMA OfItsElements == ASSUME NEW S, NEW t \in Seq(S) PROVE t \in Seq(Range(t))
BY SeqDef DEF Range

\* A list is at its places in a concatenation.
LEMMA JoinedAt ==
  ASSUME NEW S, NEW t \in Seq(S), NEW u \in Seq(S)
  PROVE  /\ t \o u \in Seq(S) /\ Len(t \o u) = Len(t) + Len(u)
         /\ \A k \in 1..(Len(t) + Len(u)) : (t \o u)[k] = IF k <= Len(t) THEN t[k] ELSE u[k - Len(t)]
BY ConcatProperties, LenProperties

\* The script is its four parts one after the other.
LEMMA CoffeeParts ==
  /\ coffeeScript \in Seq(Range(coffeeScript)) /\ Len(coffeeScript) = 23
  /\ \A k \in 1..23 :
       coffeeScript[k] = IF k <= 5 THEN setUpAndDeploy(coffeePolicy)[k]
                         ELSE IF k <= 10 THEN coveredAndDrawn[k - 5]
                         ELSE IF k <= 17 THEN grownAndRestored[k - 10] ELSE cancelledAndRepaid[k - 17]
<1> DEFINE a == setUpAndDeploy(coffeePolicy)
           b == coveredAndDrawn
           c == grownAndRestored
           d == cancelledAndRepaid
           S == Range(a) \cup Range(b) \cup Range(c) \cup Range(d)
<1>1. a \in Seq(S) /\ b \in Seq(S) /\ c \in Seq(S) /\ d \in Seq(S)
  <2>1. Range(a) \subseteq S /\ Range(b) \subseteq S /\ Range(c) \subseteq S /\ Range(d) \subseteq S
    OBVIOUS
  <2>2. a \in Seq(Range(a)) /\ b \in Seq(Range(b)) /\ c \in Seq(Range(c)) /\ d \in Seq(Range(d))
    BY CoverAt, DrawnAt, GrownAt, CancelledAt
  <2> HIDE DEF a, b, c, d, S
  <2> QED
    BY ONLY <2>1, <2>2, Wider
<1>2. Len(a) = 5 /\ Len(b) = 5 /\ Len(c) = 7 /\ Len(d) = 6
  BY CoverAt, DrawnAt, GrownAt, CancelledAt
<1>a. PICK ab : ab = a \o b
  OBVIOUS
<1>b. PICK abc : abc = ab \o c
  OBVIOUS
<1>c. PICK s : s = abc \o d
  OBVIOUS
<1>3. s = coffeeScript
  BY <1>a, <1>b, <1>c DEF coffeeScript
<1> HIDE DEF a, b, c, d, S
<1>4. ab \in Seq(S) /\ Len(ab) = 10 /\ \A k \in 1..10 : ab[k] = IF k <= 5 THEN a[k] ELSE b[k - 5]
  <2>1. ab \in Seq(S) /\ Len(ab) = 5 + 5
        /\ \A k \in 1..(5 + 5) : ab[k] = IF k <= 5 THEN a[k] ELSE b[k - 5]
    <3>1. a \in Seq(S) /\ b \in Seq(S)
      BY <1>1
    <3>2. /\ a \o b \in Seq(S) /\ Len(a \o b) = Len(a) + Len(b)
          /\ \A k \in 1..(Len(a) + Len(b)) :
               (a \o b)[k] = IF k <= Len(a) THEN a[k] ELSE b[k - Len(a)]
      BY ONLY <3>1, JoinedAt
    <3>3. Len(a) = 5 /\ Len(b) = 5
      BY <1>2
    <3> QED
      BY ONLY <3>2, <3>3, <1>a
  <2> QED
    BY ONLY <2>1
<1>5. abc \in Seq(S) /\ Len(abc) = 17
      /\ \A k \in 1..17 : abc[k] = IF k <= 10 THEN ab[k] ELSE c[k - 10]
  <2>1. abc \in Seq(S) /\ Len(abc) = 10 + 7
        /\ \A k \in 1..(10 + 7) : abc[k] = IF k <= 10 THEN ab[k] ELSE c[k - 10]
    <3>1. ab \in Seq(S) /\ Len(ab) = 10
      BY <1>4
    <3>2. /\ ab \o c \in Seq(S) /\ Len(ab \o c) = Len(ab) + Len(c)
          /\ \A k \in 1..(Len(ab) + Len(c)) :
               (ab \o c)[k] = IF k <= Len(ab) THEN ab[k] ELSE c[k - Len(ab)]
      BY ONLY <1>1, <3>1, JoinedAt
    <3>3. Len(ab) = 10 /\ Len(c) = 7
      BY <1>2, <3>1
    <3> QED
      BY ONLY <3>2, <3>3, <1>b
  <2> QED
    BY ONLY <2>1
<1>6. s \in Seq(S) /\ Len(s) = 23
      /\ \A k \in 1..23 : s[k] = IF k <= 17 THEN abc[k] ELSE d[k - 17]
  <2>1. s \in Seq(S) /\ Len(s) = 17 + 6
        /\ \A k \in 1..(17 + 6) : s[k] = IF k <= 17 THEN abc[k] ELSE d[k - 17]
    <3>1. abc \in Seq(S) /\ Len(abc) = 17
      BY <1>5
    <3>2. /\ abc \o d \in Seq(S) /\ Len(abc \o d) = Len(abc) + Len(d)
          /\ \A k \in 1..(Len(abc) + Len(d)) :
               (abc \o d)[k] = IF k <= Len(abc) THEN abc[k] ELSE d[k - Len(abc)]
      BY ONLY <1>1, <3>1, JoinedAt
    <3>3. Len(abc) = 17 /\ Len(d) = 6
      BY <1>2, <3>1
    <3> QED
      BY ONLY <3>2, <3>3, <1>c
  <2> QED
    BY ONLY <2>1
<1>7. \A k \in 1..23 : s[k] = IF k <= 5 THEN a[k] ELSE IF k <= 10 THEN b[k - 5]
                               ELSE IF k <= 17 THEN c[k - 10] ELSE d[k - 17]
  <2>1. ASSUME NEW k \in 1..10 PROVE s[k] = IF k <= 5 THEN a[k] ELSE b[k - 5]
    <3>0. k \in 1..23 /\ k <= 17
      BY ONLY k \in 1..10
    <3>1. s[k] = abc[k]
      BY ONLY <1>6, <3>0
    <3>2. abc[k] = ab[k]
      BY ONLY <1>5, k \in 1..10
    <3>3. ab[k] = IF k <= 5 THEN a[k] ELSE b[k - 5]
      BY <1>4
    <3> QED
      BY ONLY <3>1, <3>2, <3>3
  <2>2. ASSUME NEW k \in 11..23 PROVE s[k] = IF k <= 17 THEN c[k - 10] ELSE d[k - 17]
    <3>1. CASE k \in 11..17
      <4>1. k \in 1..23 /\ k \in 1..17 /\ k <= 17 /\ ~(k <= 10)
        BY ONLY <3>1
      <4>2. s[k] = abc[k]
        BY ONLY <1>6, <4>1
      <4>3. abc[k] = c[k - 10]
        BY ONLY <1>5, <4>1
      <4> QED  BY ONLY <4>1, <4>2, <4>3
    <3>2. CASE k \in 18..23
      <4>1. k \in 1..23 /\ ~(k <= 17)
        BY ONLY <3>2
      <4> QED  BY ONLY <1>6, <4>1
    <3> QED  BY ONLY <3>1, <3>2, k \in 11..23
  <2> TAKE k \in 1..23
  <2>3. CASE k <= 10
    <3>1. k \in 1..10 /\ k <= 17
      BY ONLY <2>3, k \in 1..23
    <3>2. s[k] = IF k <= 5 THEN a[k] ELSE b[k - 5]
      BY ONLY <2>1, <3>1
    <3> QED  BY ONLY <2>3, <3>2
  <2>4. CASE ~(k <= 10)
    <3>1. k \in 11..23 /\ ~(k <= 5)
      BY ONLY <2>4, k \in 1..23
    <3>2. s[k] = IF k <= 17 THEN c[k - 10] ELSE d[k - 17]
      BY ONLY <2>2, <3>1
    <3> QED  BY ONLY <2>4, <3>1, <3>2
  <2> QED
    BY ONLY <2>3, <2>4
<1>9. s \in Seq(Range(s))
  <2>1. s \in Seq(S)
    BY <1>6
  <2> QED
    BY ONLY <2>1, OfItsElements
<1> QED
  BY <1>3, <1>6, <1>7, <1>9 DEF a, b, c, d

LEMMA CoffeeNames == \A p \in 1..23 : coffeeScript[p].fn = CoffeeFns[p]
<1> TAKE p \in 1..23
<1>5. \A k \in 1..23 :
        coffeeScript[k] = IF k <= 5 THEN setUpAndDeploy(coffeePolicy)[k]
                          ELSE IF k <= 10 THEN coveredAndDrawn[k - 5]
                          ELSE IF k <= 17 THEN grownAndRestored[k - 10] ELSE cancelledAndRepaid[k - 17]
  BY CoffeeParts
<1>1. CASE p \in 1..5
  <2>1. coffeeScript[p] = setUpAndDeploy(coffeePolicy)[p]
    BY ONLY <1>5, <1>1
  <2>2. setUpAndDeploy(coffeePolicy)[p].fn = CoffeeFns[p]
    BY <1>1, CoverAt
  <2> QED  BY ONLY <2>1, <2>2
<1>2. CASE p \in 6..10
  <2>1. p - 5 \in 1..5 /\ 5 + (p - 5) = p /\ coffeeScript[p] = coveredAndDrawn[p - 5]
    BY ONLY <1>5, <1>2
  <2>2. coveredAndDrawn[p - 5].fn = CoffeeFns[5 + (p - 5)]
    BY ONLY <2>1, DrawnAt
  <2> QED  BY ONLY <2>1, <2>2
<1>3. CASE p \in 11..17
  <2>1. p - 10 \in 1..7 /\ 10 + (p - 10) = p /\ coffeeScript[p] = grownAndRestored[p - 10]
    BY ONLY <1>5, <1>3
  <2>2. grownAndRestored[p - 10].fn = CoffeeFns[10 + (p - 10)]
    BY ONLY <2>1, GrownNames
  <2> QED  BY ONLY <2>1, <2>2
<1>4. CASE p \in 18..23
  <2>1. p - 17 \in 1..6 /\ 17 + (p - 17) = p /\ coffeeScript[p] = cancelledAndRepaid[p - 17]
    BY ONLY <1>5, <1>4
  <2>2. cancelledAndRepaid[p - 17].fn = CoffeeFns[17 + (p - 17)]
    BY ONLY <2>1, CancelledAt
  <2> QED  BY ONLY <2>1, <2>2
<1> QED  BY ONLY <1>1, <1>2, <1>3, <1>4, p \in 1..23

\* What the calls are that the evidence rests on.
LEMMA CoffeeScriptAt ==
  /\ coffeeScript[1].arg = coffeePolicy /\ coffeeScript[1].ok
  /\ coffeeScript[6].by = admin /\ coffeeScript[6].arg = 100 /\ coffeeScript[6].ok
  /\ coffeeScript[8].arg = mockForward.active
  /\ coffeeScript[9].ok /\ coffeeScript[9].state = "COMPLIANT"
  /\ coffeeScript[10].arg = 5 /\ coffeeScript[10].ok
  /\ coffeeScript[11].arg.amount = 60 /\ coffeeScript[11].ok
  /\ coffeeScript[12].arg = 1 /\ ~coffeeScript[12].ok
  /\ coffeeScript[13].ok /\ coffeeScript[13].bps = 7500 /\ coffeeScript[13].state = "CURE"
  /\ coffeeScript[16].ok /\ coffeeScript[16].state = "COMPLIANT"
  /\ coffeeScript[17].ok
<1> DEFINE s == coffeeScript
<1>1. \A k \in 1..23 :
        s[k] = IF k <= 5 THEN setUpAndDeploy(coffeePolicy)[k]
               ELSE IF k <= 10 THEN coveredAndDrawn[k - 5]
               ELSE IF k <= 17 THEN grownAndRestored[k - 10] ELSE cancelledAndRepaid[k - 17]
  BY CoffeeParts
<1> HIDE DEF s
<1>2. /\ s[1] = setUpAndDeploy(coffeePolicy)[1]
      /\ s[6] = coveredAndDrawn[1] /\ s[8] = coveredAndDrawn[3] /\ s[9] = coveredAndDrawn[4]
      /\ s[10] = coveredAndDrawn[5]
      /\ s[11] = grownAndRestored[1] /\ s[12] = grownAndRestored[2] /\ s[13] = grownAndRestored[3]
      /\ s[16] = grownAndRestored[6] /\ s[17] = grownAndRestored[7]
  BY ONLY <1>1
<1>3. s[1].arg = coffeePolicy /\ s[1].ok
  BY <1>2, CoverAt
<1>4. /\ s[6].by = admin /\ s[6].arg = 100 /\ s[6].ok
      /\ s[8].arg = mockForward.active
      /\ s[9].ok /\ s[9].state = "COMPLIANT"
      /\ s[10].arg = 5 /\ s[10].ok
  BY <1>2, DrawnAt
<1>5. /\ s[11].arg.amount = 60 /\ s[11].ok
      /\ s[12].arg = 1 /\ ~s[12].ok
      /\ s[13].ok /\ s[13].bps = 7500 /\ s[13].state = "CURE"
      /\ s[16].ok /\ s[16].state = "COMPLIANT"
      /\ s[17].ok
  BY <1>2, GrownAt
<1> QED
  BY <1>3, <1>4, <1>5 DEF s

\* What coffee-facility.ts has before it is the end of its list.
CoffeeLeft(s) ==
  /\ s \in Seq(Range(coffeeScript)) /\ Len(s) <= 23
  /\ \A k \in 1..Len(s) : s[k] = coffeeScript[23 - Len(s) + k]

LEMMA CoffeeScriptLeft == CoffeeLeft(<< >>) /\ CoffeeLeft(coffeeScript)
<1>1. coffeeScript \in Seq(Range(coffeeScript)) /\ Len(coffeeScript) = 23
  BY CoffeeParts
<1>2. \A k \in 1..23 : coffeeScript[k] = coffeeScript[23 - 23 + k]
  OBVIOUS
<1> QED
  BY <1>1, <1>2 DEF CoffeeLeft

LEMMA NextCoffeeCall ==
  ASSUME NEW s, CoffeeLeft(s), s # << >>
  PROVE  /\ CoffeeLeft(Tail(s)) /\ Len(s) \in 1..23 /\ Len(Tail(s)) = Len(s) - 1
         /\ (Tail(s) = << >> <=> Len(s) = 1)
         /\ Head(s) = coffeeScript[24 - Len(s)]
<1>0. PICK S : S = Range(coffeeScript)
  OBVIOUS
<1>1. s \in Seq(S) /\ Len(s) <= 23
  BY <1>0 DEF CoffeeLeft
<1>2. /\ Tail(s) \in Seq(S) /\ Len(Tail(s)) = Len(s) - 1
      /\ \A k \in 1..(Len(s) - 1) : Tail(s)[k] = s[k + 1]
      /\ Len(s) \in Nat \ {0} /\ Head(s) = s[1]
  BY <1>1, HeadTailProperties, EmptySeq
<1> DEFINE t == Tail(s)
<1>3. ASSUME NEW k \in 1..Len(t)
      PROVE  t[k] = coffeeScript[23 - Len(t) + k]
  <2>1. t[k] = s[k + 1] /\ k + 1 \in 1..Len(s) /\ 23 - Len(t) + k = 23 - Len(s) + (k + 1)
    BY <1>2, <1>3
  <2> HIDE DEF t
  <2> QED
    BY <1>2, <2>1 DEF CoffeeLeft
<1>4. CoffeeLeft(t)
  BY <1>0, <1>1, <1>2, <1>3 DEF CoffeeLeft
<1>5. t = << >> <=> Len(s) = 1
  BY <1>2, EmptySeq
<1>6. s[1] = coffeeScript[23 - Len(s) + 1] /\ 23 - Len(s) + 1 = 24 - Len(s)
  BY <1>2 DEF CoffeeLeft
<1>7. Len(s) \in 1..23
  <2>1. Len(s) <= 23 /\ Len(s) \in Nat \ {0}
    BY <1>1, <1>2
  <2>2. \A n \in Nat \ {0} : n <= 23 => n \in 1..23
    OBVIOUS
  <2> QED
    BY ONLY <2>1, <2>2
<1>8. Head(s) = coffeeScript[24 - Len(s)]
  BY <1>2, <1>6
<1> QED
  BY <1>2, <1>4, <1>5, <1>7, <1>8, Zenon

\* The coverage if all of the list counts: no passage of time changes it.
atPlaces == [k \in 1..Len(activeTradeIds) |-> adjustedNotional(activeTradeIds[k])]
bpsOf(gross) ==
  uint16(((IF gross > outstandingValue THEN outstandingValue ELSE gross) * MAX_BPS) \div outstandingValue)
fullBps == bpsOf(Total(atPlaces, 1..Len(activeTradeIds)))
Sufficient == fullBps >= policy.minCoverageBps

LEMMA GrossIsTotal ==
  Len(activeTradeIds) \in {0, 1} => /\ eligiblePlaces \subseteq 1..Len(activeTradeIds)
                                    /\ grossEligible = Total(atPlaces, eligiblePlaces)
<1> SUFFICES ASSUME Len(activeTradeIds) \in {0, 1}
             PROVE  /\ eligiblePlaces \subseteq 1..Len(activeTradeIds)
                    /\ grossEligible = Total(atPlaces, eligiblePlaces)
  OBVIOUS
<1>1. eligiblePlaces \subseteq 1..Len(activeTradeIds) /\ IsFiniteSet(1..Len(activeTradeIds))
  BY FS_Interval DEF eligiblePlaces
<1>2. IsFiniteSet(eligiblePlaces)
  BY <1>1, FS_Subset
<1>3. \A k \in eligiblePlaces : atPlaces[k] = adjustedNotional(activeTradeIds[k])
  BY <1>1 DEF atPlaces
<1> QED
  BY <1>1, <1>2, <1>3, PlacesSumIsTotal

\* With one trade at most on the list, all of it counts or nothing does.
LEMMA AllOrNothing ==
  ASSUME Len(activeTradeIds) \in {0, 1}
  PROVE  coverageBps = bpsOf(0) \/ coverageBps = fullBps
<1>1. /\ eligiblePlaces \subseteq 1..Len(activeTradeIds)
      /\ grossEligible = Total(atPlaces, eligiblePlaces)
  BY GrossIsTotal
<1>2. eligiblePlaces = {} \/ eligiblePlaces = 1..Len(activeTradeIds)
  <2>1. CASE Len(activeTradeIds) = 0
    BY <1>1, <2>1
  <2>2. CASE Len(activeTradeIds) = 1
    <3>1. 1..1 = {1}
      OBVIOUS
    <3> QED  BY <1>1, <2>2, <3>1
  <2> QED  BY <2>1, <2>2
<1>3. grossEligible = 0 \/ grossEligible = Total(atPlaces, 1..Len(activeTradeIds))
  BY <1>1, <1>2, TotalOfNone
<1>4. coverageBps = bpsOf(grossEligible)
  BY DEF coverageBps, countedEligible, bpsOf
<1> QED
  BY <1>3, <1>4 DEF fullBps

LEMMA NothingCovers == ASSUME outstandingValue = 60 PROVE bpsOf(0) = 0
BY DEF bpsOf, uint16, MAX_BPS

\* What a call of the coffee script does to what the evidence rests on.
LEMMA CoffeeMoves ==
  ASSUME NEW i, call(i)
  PROVE  /\ i.fn = "createFacility" => policy' = i.arg
         /\ i.fn = "freezeFacility" => policy' = [policy EXCEPT !.frozen = TRUE]
         /\ i.fn \notin {"createFacility", "freezeFacility"} => policy' = policy
         /\ i.fn \notin {"deposit", "draw", "repay"} => balanceOf' = balanceOf
         /\ i.fn \notin {"submitHedge", "observeHedge"} => activeTradeIds' = activeTradeIds
         /\ i.fn # "submitExposure" => exposure' = exposure
         /\ i.fn \notin {"draw", "syncCovenant", "restoreCompliance"} => covenantState' = covenantState
         /\ i.fn = "deposit" => transfer(i.by, Vault, i.arg)
         /\ i.fn = "draw" => draw(i.by, i.arg)
         /\ i.fn = "submitExposure" => exposure'.credential.outstandingValue = i.arg.amount
         /\ i.fn = "submitHedge" => submitHedge(mapProviderFixture(i.arg), HedgeIssuer)
         /\ i.fn = "syncCovenant" => covenantState' = synchronized.state /\ UNCHANGED engineVars
<1>1. CASE registryCall(i)
  <2>1. /\ i.fn \in SetupFns
        /\ UNCHANGED <<balanceOf, activeTradeIds, exposure, covenantState>>
    BY <1>1 DEF registryCall, SetupFns, vaultVars, covenantVars, credentialVars, listVars
  <2>2. /\ i.fn = "createFacility" => policy' = i.arg
        /\ i.fn = "freezeFacility" => policy' = [policy EXCEPT !.frozen = TRUE]
        /\ i.fn \notin {"createFacility", "freezeFacility"} => policy' = policy
    BY <1>1 DEF registryCall, createFacility, freezeFacility, setExposureIssuer, setHedgeIssuer
  <2> QED
    BY <2>1, <2>2 DEF SetupFns
<1>2. CASE credentialCall(i)
  <2>1. /\ i.fn \in {"submitExposure", "submitHedge", "observeHedge"}
        /\ UNCHANGED <<policy, balanceOf, covenantState>>
    BY <1>2 DEF credentialCall, registryVars, vaultVars, covenantVars
  <2>2. ASSUME i.fn = "submitExposure"
        PROVE  activeTradeIds' = activeTradeIds /\ exposure'.credential.outstandingValue = i.arg.amount
    <3>1. submitExposure(submitted(i.arg), ExposureIssuer)
      BY <1>2, <2>2 DEF credentialCall
    <3>2. submitted(i.arg).outstandingValue = i.arg.amount
      BY DEF submitted, exposureCredential
    <3> QED
      BY <3>1, <3>2 DEF submitExposure, listVars
  <2>3. i.fn # "submitExposure" => exposure' = exposure
    BY <1>2 DEF credentialCall, submitHedge
  <2>4. i.fn = "submitHedge" => submitHedge(mapProviderFixture(i.arg), HedgeIssuer)
    BY <1>2 DEF credentialCall
  <2> QED
    BY <2>1, <2>2, <2>3, <2>4
<1>3. CASE vaultCall(i)
  <2>1. /\ i.fn \in {"deploy", "deposit", "draw", "repay", "syncCovenant", "restoreCompliance"}
        /\ UNCHANGED engineVars
        /\ UNCHANGED <<policy, activeTradeIds, exposure>>
    BY <1>3 DEF vaultCall, engineVars, credVars, registryVars, credentialVars, listVars
  <2>2. /\ i.fn \notin {"deposit", "draw", "repay"} => balanceOf' = balanceOf
        /\ i.fn \notin {"draw", "syncCovenant", "restoreCompliance"} => covenantState' = covenantState
        /\ i.fn = "deposit" => transfer(i.by, Vault, i.arg)
        /\ i.fn = "draw" => draw(i.by, i.arg)
        /\ i.fn = "syncCovenant" => covenantState' = synchronized.state
    BY <1>3 DEF vaultCall, deploy, deposit, repay, syncCovenant, restoreCompliance, become, covenantVars
  <2> QED
    BY <2>1, <2>2
<1>4. CASE \/ look(i)
           \/ i.fn = "moveToTimestamp" /\ moveTo(i.arg)
           \/ i.fn = "moveBeyondDeadline" /\ moveTo(cureDeadline + 1)
  <2>1. /\ i.fn \in {"preflight", "predictRefusal", "start", "moveToTimestamp", "moveBeyondDeadline"}
        /\ UNCHANGED <<policy, activeTradeIds, exposure, balanceOf, covenantState>>
    BY <1>4 DEF look, moveTo, engineVars, credVars, registryVars, credentialVars, listVars, vaultVars,
                covenantVars
  <2> QED
    BY <2>1
<1> QED
  BY <1>1, <1>2, <1>3, <1>4 DEF call

\* What an evaluation makes of a compliant covenant.
LEMMA FromCompliant ==
  ASSUME covenantState = "COMPLIANT"
  PROVE  synchronized.state = IF compliant THEN "COMPLIANT" ELSE "CURE"
BY DEF synchronized, activeWaiver, judged, judgedState, standing

\* ... so that a draw finds it compliant, and leaves it so.
LEMMA DrawnCompliant ==
  ASSUME covenantState = "COMPLIANT", NEW by, NEW amount, draw(by, amount)
  PROVE  covenantState' = "COMPLIANT"
<1>1. synchronized.state = IF compliant THEN "COMPLIANT" ELSE "CURE"
  BY FromCompliant
<1>2. covenantState' = synchronized.state
  BY DEF draw, become
<1>3. compliant
  BY <1>1 DEF draw, assessAllowed
<1> QED
  BY <1>1, <1>2, <1>3

\* The first hedge is the only one on the list.
LEMMA FirstHedge ==
  ASSUME activeTradeIds = << >>, submitHedge(mapProviderFixture(mockForward.active), HedgeIssuer)
  PROVE  Len(activeTradeIds') \in {0, 1}
<1> DEFINE c == mapProviderFixture(mockForward.active)
<1>1. c.status = "ACTIVE"
  BY DEF mapProviderFixture, mockForward, fixture, mapProviderStatus
<1>2. followStatus(c)
  BY DEF submitHedge
<1> HIDE DEF c
<1>3. \/ activeTradeIds' = Append(activeTradeIds, c.tradeId)
      \/ activeTradeIds' = activeTradeIds
  BY <1>1, <1>2 DEF followStatus, listActiveTrade, listVars
<1> QED
  BY <1>3

LEMMA TransferMoves ==
  ASSUME Ledger, NEW from \in Accounts \cup {Vault}, NEW to, NEW amount \in Nat,
         transfer(from, to, amount)
  PROVE  /\ Ledger'
         /\ from = Vault => balanceOf'[Vault] >= balanceOf[Vault] - amount
         /\ from # Vault /\ to = Vault => balanceOf'[Vault] = balanceOf[Vault] + amount
<1> DEFINE f == balanceOf
           g == balanceOf'
           holders == Accounts \cup {Vault}
<1>1. f \in [holders -> Int] /\ from \in holders /\ Vault \in holders
  BY DEF Ledger
<1>2. g = [f EXCEPT ![from] = @ - amount, ![to] = @ + amount]
  BY DEF transfer
<1> HIDE DEF f, g, holders
<1>3. /\ g \in [holders -> Int]
      /\ g[from] >= f[from] - amount
      /\ from # Vault /\ to = Vault => g[Vault] = f[Vault] + amount
  <2>1. CASE from = to
    BY <1>1, <1>2, <2>1
  <2>2. CASE from # to /\ to \in holders
    BY <1>1, <1>2, <2>2
  <2>3. CASE from # to /\ to \notin holders
    <3>1. g = [f EXCEPT ![from] = @ - amount] /\ to # Vault
      BY <1>1, <1>2, <2>3
    <3>2. g \in [holders -> Int] /\ g[from] = f[from] - amount /\ f[from] \in Int
      BY ONLY <1>1, <3>1, amount \in Nat
    <3> QED
      BY ONLY <3>1, <3>2, amount \in Nat
  <2> QED
    BY <2>1, <2>2, <2>3
<1> QED
  BY <1>3 DEF f, g, holders, Ledger

CoffeeTerms ==
  /\ {"reserveAmount", "minCoverageBps"} \subseteq DOMAIN policy
  /\ policy.reserveAmount = 10 /\ policy.minCoverageBps = 8000

\* The draw that the vault could have paid was refused by a covenant in cure, or the cover
\* is such that the evaluation which the script asks for next cannot find it in cure.
Explained(k) ==
  /\ k \in draws(FALSE) /\ evidence[k].affordable
  /\ evidence[k].refusal = "CURE" \/ Sufficient

\* What holds before call p of the script, and once the call before it went as asserted.
CoffeeFunds(p) ==
  /\ p <= 13 => Ledger
  /\ p <= 6 => balanceOf[Vault] >= 0
  /\ p \in 7..10 => balanceOf[Vault] >= 100
  /\ p \in 11..13 => balanceOf[Vault] >= 95

CoffeeCover(p) ==
  /\ p \in 2..23 => CoffeeTerms
  /\ p <= 8 => activeTradeIds = << >>
  /\ p \in 9..14 => Len(activeTradeIds) \in {0, 1}
  /\ p \in {12, 13, 14} => exposure.credential.outstandingValue = 60
  /\ p \in {10, 11, 12, 13, 17, 18} => covenantState = "COMPLIANT"

CoffeeShown(p) ==
  /\ p >= 11 => \E a \in DOMAIN evidence : Released(a)
  /\ p = 13 => \E a, b \in DOMAIN evidence : a < b /\ Released(a) /\ Explained(b)
  /\ p >= 14 => \E a, b \in DOMAIN evidence : a < b /\ Released(a) /\ Withheld(b)
  /\ p >= 18 => \E a, b, c \in DOMAIN evidence :
                  a < b /\ b < c /\ Released(a) /\ Withheld(b) /\ Released(c)

\* The call whose block has not ended went as its step asserts, for all one can see before.
AsAsserted ==
  LET i == Head(todo)
  IN (result = "success") = i.ok /\ (i.state # "any" => covenantState = i.state)

CoffeeSoFar ==
  /\ CoffeeLeft(todo)
  /\ evidence \in Seq(Range(evidence))
  /\ outcome # "running" => todo = << >>
  /\ todo # << >> => CoffeeShown(24 - Len(todo))
  /\ result = "none" /\ todo # << >> => CoffeeFunds(24 - Len(todo)) /\ CoffeeCover(24 - Len(todo))
  /\ result # "none" => todo # << >>
  /\ result # "none" /\ AsAsserted => CoffeeFunds(25 - Len(todo)) /\ CoffeeCover(25 - Len(todo))
  /\ EvidenceHonest

\* Call p of the script in the direction its step expects.
Turn(i, ok, p) == p \in 1..23 /\ i = coffeeScript[p] /\ ok \in BOOLEAN /\ ok = i.ok

\* ... and the call itself, as it goes as asserted.
Went(i, ok, p) ==
  /\ Turn(i, ok, p)
  /\ ok => call(i)
  /\ ~ok => UNCHANGED <<vars, startedAt>>
  /\ i.state # "any" => covenantState' = i.state

LEMMA Unmoved ==
  ASSUME UNCHANGED <<vars, startedAt>>
  PROVE  /\ UNCHANGED engineVars
         /\ UNCHANGED <<policy, balanceOf, activeTradeIds, hedges, exposure, covenantState>>
BY DEF vars, engineVars, credVars, registryVars, credentialVars, listVars, vaultVars, covenantVars

LEMMA CoverStands ==
  ASSUME UNCHANGED <<policy, balanceOf, activeTradeIds, hedges, exposure, covenantState>>
  PROVE  /\ Sufficient' <=> Sufficient
         /\ \A p : CoffeeFunds(p) => CoffeeFunds(p)'
         /\ \A p : CoffeeCover(p) => CoffeeCover(p)'
<1>1. Sufficient' <=> Sufficient
  BY DEF Sufficient, fullBps, bpsOf, outstandingValue, atPlaces, adjustedNotional
<1>2. ASSUME NEW p, CoffeeFunds(p) PROVE CoffeeFunds(p)'
  BY <1>2 DEF CoffeeFunds, Ledger
<1>3. ASSUME NEW p, CoffeeCover(p) PROVE CoffeeCover(p)'
  BY <1>3 DEF CoffeeCover, CoffeeTerms
<1> QED
  BY <1>1, <1>2, <1>3

LEMMA CoffeeCallIs ==
  ASSUME NEW i, NEW ok, NEW p, Turn(i, ok, p)
  PROVE  p \in 1..23 /\ i = coffeeScript[p] /\ i.fn = CoffeeFns[p]
<1>1. p \in 1..23 /\ i = coffeeScript[p]
  BY DEF Turn
<1>2. coffeeScript[p].fn = CoffeeFns[p]
  <2>1. p \in 1..23
    BY <1>1
  <2> QED
    BY ONLY <2>1, CoffeeNames
<1> QED
  BY <1>1, <1>2

LEMMA FundsKept ==
  ASSUME NEW i, NEW ok, NEW p, Went(i, ok, p), CoffeeFunds(p)
  PROVE  CoffeeFunds(p + 1)'
<1>1. p \in 1..23 /\ i = coffeeScript[p] /\ i.fn = CoffeeFns[p]
  BY CoffeeCallIs DEF Went
<1>2. CASE p \in {1, 2, 3, 4, 5, 7, 8, 9, 11}
  <2>1. balanceOf' = balanceOf
    <3>1. CASE ok
      <4>1. i.fn \notin {"deposit", "draw", "repay"} /\ call(i)
        BY <1>1, <1>2, <3>1 DEF CoffeeFns, Went
      <4> QED  BY <4>1, CoffeeMoves
    <3>2. CASE ~ok
      BY <3>2, Unmoved DEF Went
    <3> QED  BY <3>1, <3>2
  <2>2. Ledger /\ Ledger'
    BY <1>2, <2>1 DEF CoffeeFunds, Ledger
  <2> QED
    BY <1>2, <2>1, <2>2 DEF CoffeeFunds
<1>3. CASE p = 6
  <2>1. call(i) /\ i.by = admin /\ i.arg = 100
    BY <1>1, <1>3, CoffeeScriptAt DEF Went, Turn
  <2>2. transfer(admin, Vault, 100)
    BY <1>1, <1>3, <2>1, CoffeeMoves DEF CoffeeFns
  <2>3. admin \in Accounts \cup {Vault} /\ admin # Vault
    BY SetupAssumption, VaultAssumption DEF admin, ValidPolicy, FacilityPolicy
  <2>4. Ledger /\ balanceOf[Vault] >= 0
    BY <1>3 DEF CoffeeFunds
  <2>5. Ledger' /\ balanceOf'[Vault] = balanceOf[Vault] + 100
    BY <2>2, <2>3, <2>4, TransferMoves
  <2>6. balanceOf[Vault] \in Int
    BY <2>4 DEF Ledger
  <2> QED
    BY <1>3, <2>4, <2>5, <2>6 DEF CoffeeFunds
<1>4. CASE p = 10
  <2>1. call(i) /\ i.arg = 5
    BY <1>1, <1>4, CoffeeScriptAt DEF Went, Turn
  <2>2. draw(i.by, 5)
    BY <1>1, <1>4, <2>1, CoffeeMoves DEF CoffeeFns
  <2>3. Ledger /\ balanceOf[Vault] >= 100
    BY <1>4 DEF CoffeeFunds
  <2>4. Ledger' /\ balanceOf'[Vault] >= balanceOf[Vault] - 5
    BY <2>2, <2>3, TransferMoves DEF draw
  <2>5. balanceOf[Vault] \in Int /\ balanceOf'[Vault] \in Int
    BY <2>3, <2>4 DEF Ledger
  <2> QED
    BY <1>4, <2>3, <2>4, <2>5 DEF CoffeeFunds
<1>5. CASE p = 12
  <2>1. ~ok
    BY <1>1, <1>5, CoffeeScriptAt DEF Went, Turn
  <2>2. UNCHANGED balanceOf
    BY <2>1, Unmoved DEF Went
  <2> QED
    BY <1>5, <2>2 DEF CoffeeFunds, Ledger
<1>6. CASE p \in 13..23
  BY <1>6 DEF CoffeeFunds
<1> QED
  BY <1>1, <1>2, <1>3, <1>4, <1>5, <1>6

LEMMA TermsKept ==
  ASSUME NEW i, NEW ok, NEW p, Went(i, ok, p), p \in 2..23 => CoffeeTerms
  PROVE  CoffeeTerms'
<1>1. p \in 1..23 /\ i = coffeeScript[p] /\ i.fn = CoffeeFns[p]
  BY CoffeeCallIs DEF Went
<1>2. CASE p = 1
  <2>1. call(i) /\ i.arg = coffeePolicy
    BY <1>1, <1>2, CoffeeScriptAt DEF Went, Turn
  <2>2. policy' = coffeePolicy
    BY <1>1, <1>2, <2>1, CoffeeMoves DEF CoffeeFns
  <2> QED
    BY <2>2 DEF CoffeeTerms, coffeePolicy
<1>3. CASE p # 1
  <2>1. CoffeeTerms /\ i.fn # "createFacility"
    BY <1>1, <1>3 DEF CoffeeFns
  <2>2. policy' = policy \/ policy' = [policy EXCEPT !.frozen = TRUE]
    <3>1. CASE ok
      BY <2>1, <3>1, CoffeeMoves DEF Went
    <3>2. CASE ~ok
      BY <3>2, Unmoved DEF Went
    <3> QED  BY <3>1, <3>2
  <2> QED
    BY <2>1, <2>2 DEF CoffeeTerms
<1> QED
  BY <1>2, <1>3

LEMMA CoverKept ==
  ASSUME NEW i, NEW ok, NEW p, Went(i, ok, p), CoffeeCover(p)
  PROVE  CoffeeCover(p + 1)'
<1>1. p \in 1..23 /\ i = coffeeScript[p] /\ i.fn = CoffeeFns[p]
  BY CoffeeCallIs DEF Went
<1>2. CoffeeTerms'
  BY TermsKept DEF CoffeeCover
<1>3. p \in 1..7 \cup 9..13 => activeTradeIds' = activeTradeIds
  <2> SUFFICES ASSUME p \in 1..7 \cup 9..13 PROVE activeTradeIds' = activeTradeIds
    OBVIOUS
  <2>1. CASE ok
    <3>1. i.fn \notin {"submitHedge", "observeHedge"}
      BY <1>1 DEF CoffeeFns
    <3> QED  BY <2>1, <3>1, CoffeeMoves DEF Went
  <2>2. CASE ~ok
    BY <2>2, Unmoved DEF Went
  <2> QED  BY <2>1, <2>2
<1>4. p = 8 => Len(activeTradeIds') \in {0, 1}
  <2> SUFFICES ASSUME p = 8 PROVE Len(activeTradeIds') \in {0, 1}
    OBVIOUS
  <2>1. activeTradeIds = << >> /\ i.fn = "submitHedge" /\ i.arg = mockForward.active
    BY <1>1, CoffeeScriptAt DEF CoffeeCover, CoffeeFns
  <2>2. CASE ok
    BY <2>1, <2>2, CoffeeMoves, FirstHedge DEF Went
  <2>3. CASE ~ok
    BY <2>1, <2>3, Unmoved DEF Went
  <2> QED  BY <2>2, <2>3
<1>5. p \in {11, 12, 13} => exposure'.credential.outstandingValue = 60
  <2>1. CASE p = 11
    <3>1. call(i) /\ i.fn = "submitExposure" /\ i.arg.amount = 60
      BY <1>1, <2>1, CoffeeScriptAt DEF Went, Turn, CoffeeFns
    <3> QED  BY <3>1, CoffeeMoves
  <2>2. CASE p = 12
    <3>1. ~ok
      BY <1>1, <2>2, CoffeeScriptAt DEF Went, Turn
    <3> QED  BY <2>2, <3>1, Unmoved DEF Went, CoffeeCover
  <2>3. CASE p = 13
    <3>1. call(i) /\ i.fn = "syncCovenant"
      BY <1>1, <2>3, CoffeeScriptAt DEF Went, Turn, CoffeeFns
    <3> QED  BY <2>3, <3>1, CoffeeMoves DEF CoffeeCover
  <2> QED  BY <2>1, <2>2, <2>3
<1>6. p \in {9, 10, 11, 12, 16, 17} => covenantState' = "COMPLIANT"
  <2>1. CASE p \in {9, 16}
    <3>1. i.state = "COMPLIANT"
      <4>1. coffeeScript[9].state = "COMPLIANT" /\ coffeeScript[16].state = "COMPLIANT"
        BY CoffeeScriptAt
      <4> QED  BY ONLY <1>1, <2>1, <4>1
    <3> QED  BY <3>1 DEF Went
  <2>2. CASE p \in {10, 17}
    <3>1. i.fn = "draw"
      BY ONLY <1>1, <2>2 DEF CoffeeFns
    <3>2. coffeeScript[10].ok /\ coffeeScript[17].ok
      BY CoffeeScriptAt
    <3>3. i.ok
      BY ONLY <1>1, <2>2, <3>2
    <3>4. call(i) /\ covenantState = "COMPLIANT"
      BY <2>2, <3>3 DEF Went, Turn, CoffeeCover
    <3> QED  BY <3>1, <3>4, CoffeeMoves, DrawnCompliant
  <2>3. CASE p = 11
    <3>1. call(i) /\ i.fn = "submitExposure" /\ covenantState = "COMPLIANT"
      BY <1>1, <2>3, CoffeeScriptAt DEF Went, Turn, CoffeeFns, CoffeeCover
    <3> QED  BY <3>1, CoffeeMoves
  <2>4. CASE p = 12
    <3>1. ~ok
      BY <1>1, <2>4, CoffeeScriptAt DEF Went, Turn
    <3> QED  BY <2>4, <3>1, Unmoved DEF Went, CoffeeCover
  <2> QED  BY <2>1, <2>2, <2>3, <2>4
<1>7. p + 1 <= 8 => activeTradeIds' = << >>
  <2> SUFFICES ASSUME p + 1 <= 8 PROVE activeTradeIds' = << >>
    OBVIOUS
  <2>1. p \in 1..7 /\ p <= 8
    BY ONLY <1>1, p + 1 <= 8
  <2>2. activeTradeIds = << >>
    BY <2>1 DEF CoffeeCover
  <2> QED  BY <1>3, <2>1, <2>2
<1>8. p + 1 \in 9..14 => Len(activeTradeIds') \in {0, 1}
  BY <1>1, <1>3, <1>4 DEF CoffeeCover
<1>9. /\ p + 1 \in {12, 13, 14} => p \in {11, 12, 13}
      /\ p + 1 \in {10, 11, 12, 13, 17, 18} => p \in {9, 10, 11, 12, 16, 17}
  BY ONLY <1>1
<1> QED
  <2>1. p + 1 \in {12, 13, 14} => exposure'.credential.outstandingValue = 60
    BY ONLY <1>5, <1>9
  <2>2. p + 1 \in {10, 11, 12, 13, 17, 18} => covenantState' = "COMPLIANT"
    BY ONLY <1>6, <1>9
  <2> QED
    BY ONLY <1>2, <1>7, <1>8, <2>1, <2>2 DEF CoffeeCover

\* If the covenant stands as compliant, the draw is refused in cure, or for another reason
\* while the cover suffices; the vault could have paid it.
LEMMA RefusalExplained ==
  ASSUME CoffeeFunds(13), CoffeeCover(13)
  PROVE  /\ balanceOf[Vault] >= policy.reserveAmount + 1
         /\ refusalAt = "CURE" \/ Sufficient
<1>1. /\ CoffeeTerms /\ Len(activeTradeIds) \in {0, 1} /\ covenantState = "COMPLIANT"
      /\ exposure.credential.outstandingValue = 60
      /\ Ledger /\ balanceOf[Vault] >= 95
  BY DEF CoffeeFunds, CoffeeCover
<1>2. balanceOf[Vault] >= policy.reserveAmount + 1
  <2>1. balanceOf[Vault] \in Int
    BY <1>1 DEF Ledger
  <2> QED
    BY <1>1, <2>1 DEF CoffeeTerms
<1>3. synchronized.state = IF compliant THEN "COMPLIANT" ELSE "CURE"
  BY <1>1, FromCompliant
<1>4. ASSUME compliant PROVE Sufficient
  <2>1. assessed /\ coverageBps >= 8000
    BY <1>1, <1>4 DEF compliant, CoffeeTerms
  <2>2. outstandingValue = 60
    BY <1>1, <2>1 DEF assessed, exposureReason, outstandingValue
  <2>3. bpsOf(0) = 0
    BY <2>2, NothingCovers
  <2>4. coverageBps = bpsOf(0) \/ coverageBps = fullBps
    BY <1>1, AllOrNothing
  <2>5. coverageBps = fullBps
    BY <2>1, <2>3, <2>4
  <2> QED
    BY <1>1, <2>1, <2>5 DEF Sufficient, CoffeeTerms
<1> QED
  BY <1>2, <1>3, <1>4 DEF refusalAt

\* A coverage of 7500 is all of the list, so that the cover does not suffice.
LEMMA CureMeansCure ==
  ASSUME CoffeeCover(14), reportedBps = 7500
  PROVE  ~Sufficient
<1>1. /\ CoffeeTerms /\ Len(activeTradeIds) \in {0, 1}
      /\ exposure.credential.outstandingValue = 60
  BY DEF CoffeeCover
<1>2. assessed /\ coverageBps = 7500
  BY DEF reportedBps
<1>3. outstandingValue = 60
  BY <1>1, <1>2 DEF assessed, exposureReason, outstandingValue
<1>4. coverageBps = fullBps
  BY <1>1, <1>2, <1>3, AllOrNothing, NothingCovers
<1> QED
  BY <1>1, <1>2, <1>4 DEF Sufficient, CoffeeTerms

\* The receipt of call p shows what the script needs of it.
LEMMA ShownKept ==
  ASSUME NEW i, NEW ok, NEW p, Turn(i, ok, p),
         i.bps # Unchecked => reportedBps = i.bps,
         evidence \in Seq(Range(evidence)), evidence' = Append(evidence, receiptOf(i, ok)),
         UNCHANGED vars, CoffeeShown(p), CoffeeFunds(p + 1), CoffeeCover(p + 1)
  PROVE  CoffeeShown(p + 1)'
<1>a. PICK last : last = Len(evidence) + 1
  OBVIOUS
<1>b. PICK receipt : receipt = receiptOf(i, ok)
  OBVIOUS
<1>0. evidence' = Append(evidence, receipt)
  BY <1>b
<1>1. /\ last \in DOMAIN evidence' /\ evidence'[last] = receipt
      /\ \A k \in DOMAIN evidence :
           /\ k \in DOMAIN evidence' /\ k < last
           /\ Released(k) => Released(k)'
           /\ Withheld(k) => Withheld(k)'
  BY <1>a, <1>0, EvidenceGrows
<1>2. p \in 1..23 /\ i = coffeeScript[p] /\ i.fn = CoffeeFns[p] /\ ok = i.ok
  <2>1. ok = i.ok
    BY DEF Turn
  <2> QED  BY <2>1, CoffeeCallIs
<1>3. p \in {10, 17} => Released(last)'
  <2> SUFFICES ASSUME p \in {10, 17} PROVE Released(last)'
    OBVIOUS
  <2>1. ok = TRUE /\ i.fn = "draw"
    <3>1. coffeeScript[10].ok = TRUE /\ coffeeScript[17].ok = TRUE
      BY CoffeeScriptAt
    <3> QED
      BY ONLY <1>2, <3>1, p \in {10, 17} DEF CoffeeFns
  <2>2. covenantState = "COMPLIANT"
    BY DEF CoffeeCover
  <2>3. receipt.fn = "draw" /\ receipt.ok = TRUE /\ receipt.state = "COMPLIANT"
    BY <1>b, <2>1, <2>2 DEF receiptOf
  <2> QED
    BY <1>1, <2>3 DEF Released, draws
<1>4. p = 12 => Explained(last)'
  <2> SUFFICES ASSUME p = 12 PROVE Explained(last)'
    OBVIOUS
  <2>1. i.fn = "draw" /\ ok = FALSE /\ i.arg = 1
    <3>1. coffeeScript[12].arg = 1 /\ coffeeScript[12].ok = FALSE
      BY CoffeeScriptAt
    <3> QED
      BY ONLY <1>2, <3>1, p = 12 DEF CoffeeFns
  <2>2. CoffeeFunds(13) /\ CoffeeCover(13)
    OBVIOUS
  <2>3. balanceOf[Vault] >= policy.reserveAmount + 1 /\ (refusalAt = "CURE" \/ Sufficient)
    BY <2>2, RefusalExplained
  <2>4. /\ receipt.fn = "draw" /\ receipt.ok = FALSE /\ receipt.affordable
        /\ receipt.refusal = "CURE" \/ Sufficient
    BY <1>b, <2>1, <2>3 DEF receiptOf
  <2>5. UNCHANGED <<policy, balanceOf, activeTradeIds, hedges, exposure, covenantState>>
    BY DEF vars, engineVars, credVars, registryVars, credentialVars, listVars, vaultVars, covenantVars
  <2>6. Sufficient' <=> Sufficient
    BY <2>5, CoverStands
  <2> QED
    BY <1>1, <2>4, <2>6 DEF Explained, draws
<1>5. p + 1 >= 11 => \E a \in DOMAIN evidence' : Released(a)'
  <2>1. CASE p = 10
    BY <1>1, <1>3, <2>1
  <2>2. CASE p >= 11
    <3>1. PICK a \in DOMAIN evidence : Released(a)
      BY <2>2 DEF CoffeeShown
    <3> QED  BY <1>1, <3>1
  <2>3. p + 1 >= 11 => p = 10 \/ p >= 11
    BY ONLY <1>2
  <2> QED  BY ONLY <2>1, <2>2, <2>3
<1>6. p + 1 = 13 => \E a, b \in DOMAIN evidence' : a < b /\ Released(a)' /\ Explained(b)'
  <2>2. p + 1 = 13 => p = 12
    BY ONLY <1>2
  <2>1. CASE p = 12
    <3>1. PICK a \in DOMAIN evidence : Released(a)
      BY <2>1 DEF CoffeeShown
    <3> QED  BY <1>1, <1>4, <2>1, <3>1
  <2> QED  BY ONLY <2>1, <2>2
<1>7. p + 1 >= 14 => \E a, b \in DOMAIN evidence' : a < b /\ Released(a)' /\ Withheld(b)'
  <2>1. CASE p = 13
    <3>1. PICK a \in DOMAIN evidence, b \in DOMAIN evidence : a < b /\ Released(a) /\ Explained(b)
      BY <2>1 DEF CoffeeShown
    <3>2. reportedBps = 7500
      <4>1. coffeeScript[13].bps = 7500
        BY CoffeeScriptAt
      <4>2. i.bps = 7500
        BY ONLY <1>2, <2>1, <4>1
      <4> QED  BY <4>2 DEF Unchecked
    <3>3. ~Sufficient
      BY <2>1, <3>2, CureMeansCure
    <3>4. Withheld(b)
      BY <3>1, <3>3 DEF Explained, Withheld
    <3> QED  BY <1>1, <3>1, <3>4
  <2>2. CASE p >= 14
    <3>1. PICK a \in DOMAIN evidence, b \in DOMAIN evidence : a < b /\ Released(a) /\ Withheld(b)
      BY <2>2 DEF CoffeeShown
    <3> QED  BY <1>1, <3>1
  <2>3. p + 1 >= 14 => p = 13 \/ p >= 14
    BY ONLY <1>2
  <2> QED  BY ONLY <2>1, <2>2, <2>3
<1>8. p + 1 >= 18 => \E a, b, c \in DOMAIN evidence' :
                       a < b /\ b < c /\ Released(a)' /\ Withheld(b)' /\ Released(c)'
  <2>1. CASE p = 17
    <3>1. PICK a \in DOMAIN evidence, b \in DOMAIN evidence : a < b /\ Released(a) /\ Withheld(b)
      BY <2>1 DEF CoffeeShown
    <3> QED  BY <1>1, <1>3, <2>1, <3>1
  <2>2. CASE p >= 18
    <3>1. PICK a \in DOMAIN evidence, b \in DOMAIN evidence, c \in DOMAIN evidence :
            a < b /\ b < c /\ Released(a) /\ Withheld(b) /\ Released(c)
      BY <2>2 DEF CoffeeShown
    <3> QED  BY <1>1, <3>1
  <2>3. p + 1 >= 18 => p = 17 \/ p >= 18
    BY ONLY <1>2
  <2> QED  BY ONLY <2>1, <2>2, <2>3
<1> QED
  BY <1>5, <1>6, <1>7, <1>8 DEF CoffeeShown

\* What the evidence shows stays shown where no more than the synchronization after the
\* refusal reads the cover.
LEMMA ShownStands ==
  ASSUME NEW p, CoffeeShown(p), UNCHANGED evidence, p = 13 => (Sufficient' <=> Sufficient)
  PROVE  CoffeeShown(p)'
<1>1. \A k : /\ Released(k)' <=> Released(k)
             /\ Withheld(k)' <=> Withheld(k)
             /\ p = 13 => (Explained(k)' <=> Explained(k))
  BY DEF Released, Withheld, Explained, draws
<1> QED
  BY <1>1 DEF CoffeeShown

LEMMA CoffeePlace ==
  ASSUME NEW p, p = 24 - Len(todo), CoffeeLeft(todo), todo # << >>
  PROVE  p \in 1..23 /\ Head(todo) = coffeeScript[p] /\ 25 - Len(todo) = p + 1
<1>1. Len(todo) \in 1..23 /\ Head(todo) = coffeeScript[24 - Len(todo)]
  BY NextCoffeeCall
<1>2. \A n \in 1..23 : 24 - n \in 1..23 /\ 25 - n = (24 - n) + 1
  OBVIOUS
<1> QED
  BY <1>1, <1>2

LEMMA PerformKeepsCoffee ==
  ASSUME perform, CoffeeSoFar, route = "coffee"
  PROVE  CoffeeSoFar'
<1>a. PICK i : i = Head(todo)
  OBVIOUS
<1>1. PICK ok \in BOOLEAN :
        /\ (result' = "success") = ok /\ result' # "none"
        /\ ok => call(i)
        /\ ~ok => UNCHANGED <<vars, startedAt>>
  <2>1. CASE call(i) /\ result' = "success"
    BY <1>a, <2>1, Zenon
  <2>2. CASE UNCHANGED <<vars, startedAt>> /\ result' = "reverted"
    BY <1>a, <2>2, Zenon
  <2> QED
    BY <1>a, <2>1, <2>2 DEF perform
<1>b. PICK p : p = 24 - Len(todo)
  OBVIOUS
<1>2. /\ todo # << >> /\ CoffeeLeft(todo)
      /\ CoffeeFunds(p) /\ CoffeeCover(p) /\ CoffeeShown(p)
      /\ outcome = "running" /\ evidence \in Seq(Range(evidence)) /\ EvidenceHonest
      /\ UNCHANGED <<todo, evidence, outcome>>
  BY <1>b DEF perform, CoffeeSoFar
<1>3. p \in 1..23 /\ i = coffeeScript[p] /\ 25 - Len(todo) = p + 1
  BY <1>a, <1>b, <1>2, CoffeePlace
<1>4. ASSUME AsAsserted' PROVE CoffeeFunds(p + 1)' /\ CoffeeCover(p + 1)'
  <2>1. ok = i.ok /\ (i.state # "any" => covenantState' = i.state)
    BY <1>a, <1>1, <1>2, <1>4 DEF AsAsserted
  <2>2. Went(i, ok, p)
    BY <1>1, <1>3, <2>1 DEF Went, Turn
  <2> QED
    BY <1>2, <2>2, FundsKept, CoverKept
<1>5. CoffeeShown(p)'
  <2>1. p = 13 => (Sufficient' <=> Sufficient)
    <3> SUFFICES ASSUME p = 13 PROVE Sufficient' <=> Sufficient
      OBVIOUS
    <3>1. i.fn = "syncCovenant"
      <4>1. 13 \in 1..23 /\ CoffeeFns[13] = "syncCovenant"
        BY DEF CoffeeFns
      <4> QED
        BY ONLY <1>3, <4>1, CoffeeNames, p = 13
    <3>2. UNCHANGED <<policy, activeTradeIds, hedges, exposure>>
      <4>1. CASE ok
        <5>1. UNCHANGED engineVars
          BY <1>1, <3>1, <4>1, CoffeeMoves
        <5> QED
          BY <5>1 DEF engineVars, credVars, registryVars, credentialVars, listVars
      <4>2. CASE ~ok
        BY <1>1, <4>2, Unmoved
      <4> QED
        BY <4>1, <4>2
    <3> QED
      BY <3>2 DEF Sufficient, fullBps, bpsOf, outstandingValue, atPlaces, adjustedNotional
  <2> QED
    BY <1>2, <2>1, ShownStands
<1>6. EvidenceHonest'
  BY <1>2 DEF EvidenceHonest, draws
<1>7. AsAsserted' => CoffeeFunds(25 - Len(todo))' /\ CoffeeCover(25 - Len(todo))'
  BY <1>2, <1>3, <1>4
<1>8. CoffeeShown(24 - Len(todo))'
  BY <1>b, <1>2, <1>5
<1> QED
  BY <1>1, <1>2, <1>6, <1>7, <1>8 DEF CoffeeSoFar

LEMMA ReadReceiptKeepsCoffee ==
  ASSUME readReceipt, CoffeeSoFar, route = "coffee"
  PROVE  CoffeeSoFar'
<1>a. PICK i : i = Head(todo)
  OBVIOUS
<1>b. PICK p : p = 24 - Len(todo)
  OBVIOUS
<1>c. PICK ok \in BOOLEAN : ok = (result = "success")
  OBVIOUS
<1>1. recordReceipt(i, ok) /\ result' = "none" /\ UNCHANGED vars
  BY <1>a, <1>c DEF readReceipt
<1>2. /\ todo # << >> /\ CoffeeLeft(todo) /\ CoffeeShown(p)
      /\ AsAsserted => CoffeeFunds(25 - Len(todo)) /\ CoffeeCover(25 - Len(todo))
      /\ outcome = "running" /\ evidence \in Seq(Range(evidence))
  BY <1>b DEF readReceipt, CoffeeSoFar
<1>3. p \in 1..23 /\ i = coffeeScript[p] /\ 25 - Len(todo) = p + 1
  BY <1>a, <1>b, <1>2, CoffeePlace
<1>4. /\ CoffeeLeft(Tail(todo)) /\ Len(Tail(todo)) = Len(todo) - 1
      /\ (Tail(todo) = << >> <=> Len(todo) = 1)
  BY <1>2, NextCoffeeCall
<1>5. evidence' = Append(evidence, receiptOf(i, ok)) /\ evidence' \in Seq(Range(evidence'))
  <2>1. PICK receipt : receipt = receiptOf(i, ok) /\ evidence' = Append(evidence, receipt)
    BY <1>1 DEF recordReceipt
  <2> QED
    BY <1>2, <2>1, EvidenceGrows
<1>6. CASE todo' = << >> /\ outcome' = "failed"
  BY <1>1, <1>5, <1>6, CoffeeScriptLeft DEF CoffeeSoFar, EvidenceHonest
<1>7. CASE /\ ok = i.ok
           /\ i.bps # Unchecked => reportedBps = i.bps
           /\ i.state # "any" => covenantState = i.state
           /\ todo' = Tail(todo)
           /\ outcome' = IF todo' = << >> THEN "complete" ELSE outcome
  <2>1. Turn(i, ok, p)
    BY <1>3, <1>7 DEF Turn
  <2>2. AsAsserted
    BY <1>a, <1>c, <1>7 DEF AsAsserted
  <2>3. CoffeeFunds(p + 1) /\ CoffeeCover(p + 1)
    BY <1>2, <1>3, <2>2
  <2>4. CoffeeShown(p + 1)'
    BY <1>1, <1>2, <1>5, <1>7, <2>1, <2>3, ShownKept
  <2>5. CoffeeFunds(p + 1)' /\ CoffeeCover(p + 1)'
    <3>1. UNCHANGED <<policy, balanceOf, activeTradeIds, hedges, exposure, covenantState>>
      BY <1>1 DEF vars, engineVars, credVars, registryVars, credentialVars, listVars, vaultVars,
                  covenantVars
    <3> QED
      BY <2>3, <3>1, CoverStands
  <2>6. CoffeeLeft(todo') /\ 24 - Len(todo') = p + 1 /\ (outcome' # "running" => todo' = << >>)
    BY <1>2, <1>3, <1>4, <1>7, <1>b, NextCoffeeCall
  <2>7. /\ CoffeeFunds(24 - Len(todo))' /\ CoffeeCover(24 - Len(todo))'
        /\ CoffeeShown(24 - Len(todo))'
    BY <2>4, <2>5, <2>6
  <2>8. EvidenceHonest'
    <3> SUFFICES ASSUME outcome' = "complete" PROVE EvidenceHonest'
      BY DEF EvidenceHonest
    <3>1. p + 1 >= 18
      <4>1. Len(todo) = 1
        BY <1>2, <1>4, <1>7
      <4> QED
        BY ONLY <4>1, <1>b
    <3>2. PICK a \in DOMAIN evidence', b \in DOMAIN evidence', c \in DOMAIN evidence' :
            a < b /\ b < c /\ Released(a)' /\ Withheld(b)' /\ Released(c)'
      BY <2>4, <3>1 DEF CoffeeShown
    <3>3. /\ a \in draws(TRUE)' /\ evidence'[a].state = "COMPLIANT"
          /\ b \in draws(FALSE)' /\ evidence'[b].refusal = "CURE" /\ evidence'[b].affordable
          /\ c \in draws(TRUE)' /\ evidence'[c].state = "COMPLIANT"
      BY <3>2 DEF Released, Withheld
    <3> QED
      BY <3>2, <3>3 DEF EvidenceHonest
  <2> QED
    BY <1>1, <1>5, <2>6, <2>7, <2>8 DEF CoffeeSoFar
<1> QED
  BY <1>1, <1>6, <1>7 DEF recordReceipt

CoffeeInRuns == route = "coffee" => CoffeeSoFar

\* On the private chain nobody else is there, and time alone goes by.
LEMMA RunsStepCoffee ==
  ASSUME CoffeeInRuns, [RunsNext]_systemVars
  PROVE  CoffeeInRuns'
<1>1. route' = route
  BY DEF RunsNext, perform, readReceipt, quorumSetup, deployVault, startArcFacility, synchronizeByAnyone, timePasses,
         systemVars, runVars
<1> SUFFICES ASSUME route = "coffee", CoffeeSoFar PROVE CoffeeSoFar'
  BY <1>1 DEF CoffeeInRuns
<1>2. CASE perform
  BY <1>2, PerformKeepsCoffee
<1>5. CASE readReceipt
  BY <1>5, ReadReceiptKeepsCoffee
<1>3. CASE timePasses \/ UNCHANGED systemVars
  <2>1. UNCHANGED <<policy, balanceOf, activeTradeIds, hedges, exposure, covenantState,
                    todo, evidence, result, outcome>>
    BY <1>3 DEF timePasses, systemVars, runVars, vars, engineVars, credVars, registryVars, credentialVars,
                listVars, vaultVars, covenantVars
  <2>2. /\ Sufficient' <=> Sufficient
        /\ \A p : CoffeeFunds(p) => CoffeeFunds(p)'
        /\ \A p : CoffeeCover(p) => CoffeeCover(p)'
    BY <2>1, CoverStands
  <2>3. todo' # << >> => CoffeeShown(24 - Len(todo))'
    <3>1. PICK p : p = 24 - Len(todo)
      OBVIOUS
    <3>2. todo # << >> => CoffeeShown(p)'
      BY <2>1, <2>2, <3>1, ShownStands DEF CoffeeSoFar
    <3> QED  BY <2>1, <3>1, <3>2
  <2>4. /\ result' = "none" /\ todo' # << >> =>
             CoffeeFunds(24 - Len(todo))' /\ CoffeeCover(24 - Len(todo))'
        /\ result' # "none" /\ AsAsserted' =>
             CoffeeFunds(25 - Len(todo))' /\ CoffeeCover(25 - Len(todo))'
    <3>1. AsAsserted' <=> AsAsserted
      BY <2>1 DEF AsAsserted
    <3> QED  BY <2>1, <2>2, <3>1 DEF CoffeeSoFar
  <2>5. EvidenceHonest'
    BY <2>1 DEF CoffeeSoFar, EvidenceHonest, draws
  <2>6. /\ CoffeeLeft(todo') /\ evidence' \in Seq(Range(evidence'))
        /\ outcome' # "running" => todo' = << >>
        /\ result' # "none" => todo' # << >>
    BY <2>1 DEF CoffeeSoFar
  <2> QED
    BY <2>3, <2>4, <2>5, <2>6 DEF CoffeeSoFar
<1>4. CASE quorumSetup \/ deployVault \/ startArcFacility \/ synchronizeByAnyone
  BY <1>4 DEF quorumSetup, deployVault, startArcFacility, synchronizeByAnyone
<1> QED
  BY <1>2, <1>3, <1>4, <1>5 DEF RunsNext

LEMMA RunsInitCoffee == RunsInit => CoffeeInRuns
<1> SUFFICES ASSUME RunsInit, route = "coffee" PROVE CoffeeSoFar
  BY DEF CoffeeInRuns
<1>1. todo = coffeeScript /\ evidence = << >> /\ result = "none" /\ outcome = "running"
  BY DEF RunsInit
<1>2. CoffeeLeft(todo) /\ Len(todo) = 23
  BY <1>1, CoffeeScriptLeft, CoffeeParts
<1>3. CoffeeFunds(1)
  <2>1. balanceOf = [a \in Accounts \cup {Vault} |-> IF a = Vault THEN 0 ELSE Supply[a]]
    BY DEF RunsInit, Init
  <2> QED
    BY <2>1, VaultAssumption DEF CoffeeFunds, Ledger
<1>4. CoffeeCover(1)
  BY DEF CoffeeCover, RunsInit, Init, EngineInit, CredentialInit
<1>5. CoffeeShown(1)
  BY DEF CoffeeShown
<1>6. evidence \in Seq(Range(evidence)) /\ EvidenceHonest
  BY <1>1 DEF EvidenceHonest
<1>7. 24 - Len(todo) = 1
  BY <1>2
<1> QED
  BY <1>1, <1>2, <1>3, <1>4, <1>5, <1>6, <1>7 DEF CoffeeSoFar

\* Whatever facility it is, a run that calls itself complete holds a draw released, a draw
\* refused by a covenant in cure that the vault could have paid, and a draw released again,
\* in that order: on the public chain, where anybody may synchronize the covenant between
\* two calls and behind a call in its very block, and on the private one, whose script does not look at why a draw was refused.
THEOREM CompleteEvidenceIsHonest == RunsSpec => []EvidenceHonest
<1>1. EvidenceInRuns /\ CoffeeInRuns => EvidenceHonest
  BY DEF EvidenceInRuns, CoffeeInRuns, EvidenceSoFar, CoffeeSoFar
<1> QED
  BY <1>1, RunsInitEvidence, RunsStepEvidence, RunsInitCoffee, RunsStepCoffee, PTL DEF RunsSpec

=================================================================================
