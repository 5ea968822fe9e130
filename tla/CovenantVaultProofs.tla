-------------------------- MODULE CovenantVaultProofs --------------------------
(***************************************************************************)
(* Theorems of the covenant vault over the whole on-chain system: types,   *)
(* deadlines and waivers in every reachable state, the cure clock, the     *)
(* gate and the capital in every step, and the promise it implements.      *)
(***************************************************************************)
EXTENDS CovenantVault, CoverageEngineProofs

\* The covenant's part of the invariant.  The facility is frozen before the vault
\* exists, so the policy the vault reads never moves; its cure period is positive
\* because createFacility refuses zero, so a deadline that is set is never 0.
CovenantInv ==
  /\ exists => policy.curePeriod # 0
  /\ deployed => policy.frozen
  /\ ~deployed => covenantState = "UNASSESSED"
  /\ DeadlineTracksStanding
  /\ BreachAfterDeadline
  /\ WaiverBounded

VaultInv == EngineInv /\ TypeOK /\ CovenantInv

\* A vault nobody has deployed satisfies the invariant.
LEMMA InitInv == Init => VaultInv
<1> SUFFICES ASSUME Init PROVE VaultInv
  OBVIOUS
<1>1. EngineInv
  BY EngineInitInv DEF Init
<1>2. exists = FALSE
  BY DEF Init, EngineInit, CredentialInit, RegistryInit
<1>3. balanceOf \in [Accounts \cup {Vault} -> Nat]
  BY VaultAssumption DEF Init
<1>4. TypeOK
  BY <1>1, <1>3 DEF Init, TypeOK, EngineTypeOK, EngineInv, CredentialInv, CovenantStates
<1>5. CovenantInv
  BY <1>2 DEF Init, CovenantInv, DeadlineTracksStanding, BreachAfterDeadline, WaiverBounded,
              standing
<1> QED
  BY <1>1, <1>4, <1>5 DEF VaultInv

\* Where the covenant can stand, and the values a deployed vault computes with.
LEMMA StandingValues ==
  ASSUME VaultInv
  PROVE  /\ standing \in {"UNASSESSED", "COMPLIANT", "CURE", "BREACH"}
         /\ cureDeadline \in Nat
         /\ now \in Nat
         /\ policy.curePeriod \in Nat
         /\ policy.maxWaiverDuration \in Nat
         /\ policy.reserveAmount \in Nat
         /\ deployed => policy.curePeriod # 0
<1>1. standing \in {"UNASSESSED", "COMPLIANT", "CURE", "BREACH"}
  BY DEF VaultInv, TypeOK, CovenantStates, CovenantInv, WaiverBounded, standing
<1>2. policy \in FacilityPolicy
  BY DEF VaultInv, EngineInv, CredentialInv, RegistryInv, RegistryTypeOK
<1>3. deployed => policy.curePeriod # 0
  BY DEF VaultInv, CovenantInv, EngineInv, CredentialInv, EvidenceAccepted
<1> QED
  BY <1>1, <1>2, <1>3, MaxTimeAssumption
  DEF VaultInv, TypeOK, EngineInv, FacilityPolicy

\* What an evaluation from where the covenant stands may find.
LEMMA Judgement ==
  ASSUME VaultInv, deployed
  PROVE  LET after == judged(standing)
         IN /\ after.state \in {"COMPLIANT", "CURE", "BREACH"}
            /\ after.state = "COMPLIANT" <=> compliant
            /\ after.state = "BREACH" => standing \in {"CURE", "BREACH"}
            /\ standing = "BREACH" => after.state \in {"COMPLIANT", "BREACH"}
            /\ after.deadline \in Nat
            /\ after.deadline # 0 <=> after.state \in {"CURE", "BREACH"}
            /\ after.state = "BREACH" => after.deadline \in 1..(now - 1)
            /\ after.deadline # cureDeadline =>
                 \/ compliant /\ after.deadline = 0
                 \/ ~compliant /\ cureDeadline = 0 /\ after.deadline = now + policy.curePeriod
            /\ after.endsAt = 0
            /\ after.reason = Zero
<1> DEFINE base == standing
<1>1. judged(base) =
        [state    |-> judgedState(base),
         deadline |-> judgedDeadline(base),
         endsAt   |-> IF covenantState = "WAIVED" THEN 0 ELSE waiverEndsAt,
         reason   |-> IF covenantState = "WAIVED" THEN Zero ELSE waiverReasonCommitment]
  BY DEF judged
<1>2. /\ cureDeadline # 0 <=> base \in {"CURE", "BREACH"}
      /\ base = "BREACH" => cureDeadline \in 1..(now - 1)
      /\ covenantState # "WAIVED" => waiverEndsAt = 0 /\ waiverReasonCommitment = Zero
  BY DEF VaultInv, CovenantInv, DeadlineTracksStanding, BreachAfterDeadline, WaiverBounded
<1> HIDE DEF base
<1>3. CASE compliant
  BY <1>1, <1>2, <1>3 DEF judgedState, judgedDeadline, base
<1>4. CASE ~compliant
  <2>1. /\ base \in {"UNASSESSED", "COMPLIANT", "CURE", "BREACH"}
        /\ cureDeadline \in Nat
        /\ now \in Nat
        /\ policy.curePeriod \in Nat \ {0}
    BY StandingValues DEF base
  <2>2. judgedState(base) \in {"CURE", "BREACH"}
    BY <1>4 DEF judgedState
  <2>3. CASE judgedState(base) = "BREACH"
    <3>1. /\ base \in {"CURE", "BREACH"}
          /\ cureDeadline \in 1..(now - 1)
      BY <1>2, <1>4, <2>1, <2>3 DEF judgedState
    <3>2. judgedDeadline(base) = cureDeadline
      BY <1>4, <2>3 DEF judgedDeadline
    <3> QED
      BY <1>1, <1>2, <1>4, <2>1, <2>3, <3>1, <3>2 DEF base
  <2>4. CASE judgedState(base) = "CURE"
    <3>1. base # "BREACH"
      BY <1>4, <2>4 DEF judgedState
    <3>2. \/ judgedDeadline(base) = now + policy.curePeriod /\ cureDeadline = 0
          \/ judgedDeadline(base) = cureDeadline /\ cureDeadline # 0
      BY <1>2, <1>4, <2>1, <2>4, <3>1 DEF judgedDeadline
    <3> QED
      BY <1>1, <1>2, <1>4, <2>1, <2>4, <3>1, <3>2 DEF base
  <2> QED
    BY <2>2, <2>3, <2>4
<1> QED
  BY <1>3, <1>4

\* The types of the covenant's own variables.
CovenantTypes ==
  /\ covenantState \in CovenantStates
  /\ stateBeforeWaiver \in CovenantStates
  /\ cureDeadline \in Nat
  /\ waiverEndsAt \in Nat
  /\ waiverReasonCommitment \in Reasons \cup {Zero}

\* A transaction of the vault leaves the engine and the registries alone.
LEMMA EngineUntouched ==
  ASSUME VaultInv, UNCHANGED engineVars
  PROVE  /\ EngineInv'
         /\ exists' = exists
         /\ policy' = policy
         /\ now' = now
<1>1. EngineInv'
  BY EngineStepInv DEF VaultInv
<1> QED
  BY <1>1 DEF engineVars, credVars, registryVars

\* The covenant that an evaluation leaves keeps the invariant.
LEMMA BecomeJudged ==
  ASSUME VaultInv, deployed, UNCHANGED <<engineVars, deployed>>, become(judged(standing))
  PROVE  CovenantInv' /\ CovenantTypes'
<1> DEFINE after == judged(standing)
<1>1. /\ after.state \in {"COMPLIANT", "CURE", "BREACH"}
      /\ after.deadline \in Nat
      /\ after.deadline # 0 <=> after.state \in {"CURE", "BREACH"}
      /\ after.state = "BREACH" => after.deadline \in 1..(now - 1)
      /\ after.endsAt = 0
      /\ after.reason = Zero
  BY Judgement
<1>2. /\ covenantState' = after.state
      /\ cureDeadline' = after.deadline
      /\ waiverEndsAt' = after.endsAt
      /\ waiverReasonCommitment' = after.reason
      /\ stateBeforeWaiver' = stateBeforeWaiver
      /\ deployed' = deployed
  BY DEF become
<1> HIDE DEF after
<1>3. exists' = exists /\ policy' = policy /\ now' = now
  BY EngineUntouched
<1>4. standing' = after.state
  BY <1>1, <1>2 DEF standing
<1>5. CovenantTypes'
  BY <1>1, <1>2 DEF CovenantTypes, CovenantStates, VaultInv, TypeOK
<1>6. (exists => policy.curePeriod # 0)' /\ (deployed => policy.frozen)' /\ deployed'
  BY <1>2, <1>3 DEF VaultInv, CovenantInv
<1>7. DeadlineTracksStanding' /\ BreachAfterDeadline' /\ WaiverBounded'
  BY <1>1, <1>2, <1>3, <1>4 DEF DeadlineTracksStanding, BreachAfterDeadline, WaiverBounded
<1> QED
  BY <1>5, <1>6, <1>7 DEF CovenantInv

\* A covenant that does not move, over an engine that does not move, keeps it too.
LEMMA CovenantUntouched ==
  ASSUME VaultInv, UNCHANGED <<engineVars, deployed, covenantVars>>
  PROVE  CovenantInv' /\ CovenantTypes'
<1>1. exists' = exists /\ policy' = policy /\ now' = now
  BY EngineUntouched
<1>2. /\ UNCHANGED <<deployed, covenantState, cureDeadline, stateBeforeWaiver, waiverEndsAt>>
      /\ UNCHANGED waiverReasonCommitment
  BY DEF covenantVars, waiverVars
<1> QED
  BY <1>1, <1>2
  DEF VaultInv, TypeOK, CovenantInv, CovenantTypes, DeadlineTracksStanding, BreachAfterDeadline,
      WaiverBounded, standing

\* So does a synchronization, under an active waiver or not.
LEMMA BecomeSynchronized ==
  ASSUME VaultInv, deployed, UNCHANGED <<engineVars, deployed>>, become(synchronized)
  PROVE  CovenantInv' /\ CovenantTypes'
<1>1. CASE activeWaiver
  <2>1. UNCHANGED covenantVars
    BY <1>1 DEF become, synchronized, covenantVars, waiverVars
  <2> QED
    BY <2>1, CovenantUntouched
<1>2. CASE ~activeWaiver
  BY <1>2, BecomeJudged DEF synchronized
<1> QED
  BY <1>1, <1>2

\* A waiver is laid over a CURE or a BREACH just found, whose deadline it keeps.
LEMMA CreateWaiverKeeps ==
  ASSUME VaultInv, deployed, UNCHANGED engineVars,
         NEW sender \in Accounts, NEW duration \in Durations, NEW reason \in Reasons,
         createWaiver(sender, duration, reason)
  PROVE  CovenantInv' /\ CovenantTypes'
<1> DEFINE after == judged(standing)
<1>1. ~activeWaiver
  BY DEF createWaiver, synchronized, activeWaiver
<1>2. /\ after.state \in {"CURE", "BREACH"}
      /\ after.deadline \in Nat \ {0}
      /\ after.state = "BREACH" => after.deadline \in 1..(now - 1)
  BY <1>1, Judgement DEF createWaiver, synchronized
<1>3. /\ stateBeforeWaiver' = after.state
      /\ covenantState' = "WAIVED"
      /\ cureDeadline' = after.deadline
      /\ waiverReasonCommitment' = reason
      /\ waiverEndsAt' = now + duration
      /\ deployed' = deployed
      /\ reason # Zero
      /\ duration \in 1..policy.maxWaiverDuration
  BY <1>1 DEF createWaiver, synchronized
<1> HIDE DEF after
<1>4. exists' = exists /\ policy' = policy /\ now' = now
  BY EngineUntouched
<1>5. now \in Nat /\ policy.maxWaiverDuration \in Nat
  BY StandingValues
<1>6. CovenantTypes'
  BY <1>2, <1>3, <1>5 DEF CovenantTypes, CovenantStates
<1>7. (exists => policy.curePeriod # 0)' /\ (deployed => policy.frozen)' /\ deployed'
  BY <1>3, <1>4 DEF VaultInv, CovenantInv
<1>8. DeadlineTracksStanding' /\ BreachAfterDeadline' /\ WaiverBounded'
  BY <1>2, <1>3, <1>4, <1>5
  DEF DeadlineTracksStanding, BreachAfterDeadline, WaiverBounded, standing
<1> QED
  BY <1>6, <1>7, <1>8 DEF CovenantInv

\* A revocation goes back to the state beneath the waiver and judges from there.
LEMMA RevokeWaiverKeeps ==
  ASSUME VaultInv, deployed, UNCHANGED engineVars, NEW sender, revokeWaiver(sender)
  PROVE  CovenantInv' /\ CovenantTypes'
<1>1. standing = stateBeforeWaiver
  BY DEF revokeWaiver, activeWaiver, standing
<1> QED
  BY <1>1, BecomeJudged DEF revokeWaiver

\* A transfer keeps the balances natural numbers and moves the amount.
LEMMA TransferMoves ==
  ASSUME VaultInv, NEW from \in Accounts \cup {Vault}, NEW to \in Accounts \cup {Vault},
         from # to, NEW amount \in Nat, transfer(from, to, amount)
  PROVE  /\ balanceOf' \in [Accounts \cup {Vault} -> Nat]
         /\ balanceOf'[from] = balanceOf[from] - amount
         /\ balanceOf'[to] = balanceOf[to] + amount
BY DEF VaultInv, TypeOK, transfer

\* A draw: what it moves, and what the gate and the synchronization had found.
LEMMA DrawMoves ==
  ASSUME VaultInv, deployed, NEW sender \in Accounts, NEW amount \in Amounts,
         draw(sender, amount)
  PROVE  /\ amount \in Nat \ {0}
         /\ principal' = principal + amount
         /\ balanceOf' \in [Accounts \cup {Vault} -> Nat]
         /\ balanceOf'[Vault] = balanceOf[Vault] - amount
         /\ balanceOf'[Vault] >= policy.reserveAmount
         /\ become(synchronized)
         /\ deployed' = deployed
         /\ \/ ~activeWaiver /\ compliant /\ covenantState' = "COMPLIANT"
            \/ activeWaiver /\ UNCHANGED covenantVars
<1>1. /\ sender = policy.operator
      /\ sender # Vault
      /\ amount \in Nat \ {0}
  BY VaultAssumption DEF draw
<1>2. transfer(Vault, sender, amount)
  BY <1>1 DEF draw
<1>3. /\ balanceOf' \in [Accounts \cup {Vault} -> Nat]
      /\ balanceOf'[Vault] = balanceOf[Vault] - amount
  BY <1>1, <1>2, TransferMoves
<1>4. /\ principal' = principal + amount
      /\ become(synchronized)
      /\ deployed' = deployed
      /\ balanceOf[Vault] - amount >= policy.reserveAmount
      /\ compliant \/ (synchronized.state = "WAIVED" /\ now <= synchronized.endsAt)
  BY DEF draw, assessAllowed
<1>5. CASE activeWaiver
  <2>1. UNCHANGED covenantVars
    BY <1>4, <1>5 DEF become, synchronized, covenantVars, waiverVars
  <2> QED
    BY <1>1, <1>3, <1>4, <1>5, <2>1
<1>6. CASE ~activeWaiver
  <2>1. /\ synchronized = judged(standing)
        /\ synchronized.state \in {"COMPLIANT", "CURE", "BREACH"}
        /\ synchronized.state = "COMPLIANT" <=> compliant
    BY <1>6, Judgement DEF synchronized
  <2>2. compliant /\ covenantState' = "COMPLIANT"
    BY <1>4, <2>1 DEF become
  <2> QED
    BY <1>1, <1>3, <1>4, <1>6, <2>2
<1> QED
  BY <1>5, <1>6

\* A deposit and a repayment: what they move.
LEMMA PaymentMoves ==
  ASSUME VaultInv, NEW sender \in Accounts, NEW amount \in Amounts,
         deposit(sender, amount) \/ repay(sender, amount)
  PROVE  /\ amount \in Nat \ {0}
         /\ balanceOf' \in [Accounts \cup {Vault} -> Nat]
         /\ balanceOf'[Vault] = balanceOf[Vault] + amount
         /\ deposit(sender, amount) => principal' = principal
         /\ repay(sender, amount) => principal' = principal - amount
         /\ principal' \in Nat
         /\ UNCHANGED <<deployed, covenantVars>>
<1>1. amount \in Nat \ {0} /\ sender # Vault
  BY VaultAssumption DEF deposit, repay
<1>2. transfer(sender, Vault, amount)
  BY DEF deposit, repay
<1>3. /\ balanceOf' \in [Accounts \cup {Vault} -> Nat]
      /\ balanceOf'[Vault] = balanceOf[Vault] + amount
  BY <1>1, <1>2, TransferMoves
<1>4. principal \in Nat
  BY DEF VaultInv, TypeOK
<1> QED
  BY <1>1, <1>3, <1>4 DEF deposit, repay

\* The deployment finds the facility frozen and leaves the covenant unassessed.
LEMMA DeployKeeps ==
  ASSUME VaultInv, UNCHANGED engineVars, deploy
  PROVE  CovenantInv' /\ CovenantTypes'
<1>1. exists' = exists /\ policy' = policy /\ now' = now
  BY EngineUntouched
<1>2. /\ UNCHANGED <<covenantState, cureDeadline, stateBeforeWaiver, waiverEndsAt>>
      /\ UNCHANGED waiverReasonCommitment
      /\ policy.frozen /\ deployed'
  BY DEF deploy, covenantVars, waiverVars
<1> QED
  BY <1>1, <1>2
  DEF VaultInv, TypeOK, CovenantInv, CovenantTypes, DeadlineTracksStanding, BreachAfterDeadline,
      WaiverBounded, standing

\* What lies before a moment lies before every later one.
LEMMA LaterBound ==
  ASSUME NEW d \in Nat, NEW m \in Nat, NEW n \in Nat, n >= m
  PROVE  d \in 1..(m - 1) => d \in 1..(n - 1)
OBVIOUS

\* Time and the registries move beneath a vault that stands still.
LEMMA EngineMoves ==
  ASSUME VaultInv, EngineNext, UNCHANGED vaultVars
  PROVE  VaultInv'
<1>1. EngineInv' /\ [CredentialNext]_credVars
  BY EngineStepInv DEF VaultInv, EngineNext, Tick
<1>2. /\ policy.frozen => policy' = policy
      /\ now' >= now
  BY EngineStepGrows DEF VaultInv
<1>3. /\ UNCHANGED <<deployed, covenantState, cureDeadline, stateBeforeWaiver, waiverEndsAt>>
      /\ UNCHANGED <<waiverReasonCommitment, principal, balanceOf>>
  BY DEF vaultVars, covenantVars, waiverVars
<1>4. TypeOK'
  BY <1>1, <1>3 DEF VaultInv, TypeOK, EngineTypeOK, EngineInv, CredentialInv, CovenantStates
<1>5. (exists => policy.curePeriod # 0)'
  <2>1. PolicyStep
    BY <1>1, RegistryStepPolicy
    DEF CredentialNext, credVars, VaultInv, EngineInv, CredentialInv, RegistryInv
  <2>2. policy \in FacilityPolicy
    BY DEF VaultInv, EngineInv, CredentialInv, RegistryInv, RegistryTypeOK
  <2> QED
    BY <2>1, <2>2 DEF PolicyStep, ValidPolicy, VaultInv, CovenantInv, FacilityPolicy
<1>6. now \in Nat /\ now' \in Nat /\ cureDeadline \in Nat /\ waiverEndsAt \in Nat
  BY <1>1, StandingValues, MaxTimeAssumption DEF VaultInv, EngineInv, TypeOK
<1>7. DeadlineTracksStanding' /\ BreachAfterDeadline'
  <2>1. standing' = standing
    BY <1>3 DEF standing
  <2>2. DeadlineTracksStanding /\ BreachAfterDeadline
    BY DEF VaultInv, CovenantInv
  <2>3. cureDeadline' = cureDeadline
    BY <1>3
  <2>4. DeadlineTracksStanding'
    BY <2>1, <2>2, <2>3 DEF DeadlineTracksStanding
  <2>5. cureDeadline \in 1..(now - 1) => cureDeadline \in 1..(now' - 1)
    <3>1. now' >= now
      BY <1>2
    <3> QED
      BY <1>6, <3>1, LaterBound
  <2>6. BreachAfterDeadline'
    BY <2>1, <2>2, <2>3, <2>5 DEF BreachAfterDeadline
  <2> QED
    BY <2>4, <2>6
<1>8. WaiverBounded' /\ (deployed => policy.frozen)'
  <2>1. CASE deployed
    <3>1. policy' = policy /\ policy.maxWaiverDuration \in Nat /\ policy.frozen
      BY <1>2, <2>1, StandingValues DEF VaultInv, CovenantInv
    <3> QED
      BY <1>2, <1>3, <1>6, <3>1 DEF VaultInv, CovenantInv, WaiverBounded
  <2>2. CASE ~deployed
    BY <1>3, <2>2 DEF VaultInv, CovenantInv, WaiverBounded
  <2> QED
    BY <2>1, <2>2
<1> QED
  BY <1>1, <1>3, <1>4, <1>5, <1>7, <1>8 DEF VaultInv, CovenantInv

\* Types of the whole state from those of its parts.
LEMMA TypesTogether ==
  ASSUME EngineInv, CovenantTypes, CovenantInv, deployed \in BOOLEAN, principal \in Nat,
         balanceOf \in [Accounts \cup {Vault} -> Nat]
  PROVE  VaultInv
BY DEF EngineInv, CovenantTypes, VaultInv, TypeOK, EngineTypeOK, CredentialInv

\* Every step of the system keeps the invariant.
LEMMA StepInv == VaultInv /\ [Next]_vars => VaultInv'
<1> SUFFICES ASSUME VaultInv, [Next]_vars
             PROVE  VaultInv'
  OBVIOUS
<1>1. CASE EngineNext /\ UNCHANGED vaultVars
  BY <1>1, EngineMoves
<1>2. CASE UNCHANGED vars
  <2>1. UNCHANGED <<engineVars, deployed, covenantVars, principal, balanceOf>>
    BY <1>2 DEF vars, vaultVars
  <2>2. CovenantInv' /\ CovenantTypes' /\ EngineInv'
    BY <2>1, CovenantUntouched, EngineUntouched
  <2>3. /\ (deployed \in BOOLEAN)'
        /\ (principal \in Nat)'
        /\ (balanceOf \in [Accounts \cup {Vault} -> Nat])'
    BY <2>1 DEF VaultInv, TypeOK
  <2> QED
    BY <2>2, <2>3, TypesTogether, PTL
<1>3. ASSUME VaultNext, UNCHANGED engineVars
      PROVE  VaultInv'
  <2>1. EngineInv'
    BY <1>3, EngineUntouched
  <2>2. principal \in Nat /\ balanceOf \in [Accounts \cup {Vault} -> Nat]
    BY DEF VaultInv, TypeOK
  <2> SUFFICES CovenantInv' /\ CovenantTypes' /\ (deployed \in BOOLEAN)' /\ (principal \in Nat)'
                 /\ (balanceOf \in [Accounts \cup {Vault} -> Nat])'
    BY <2>1, TypesTogether, PTL
  <2>3. CASE deploy
    BY <1>3, <2>2, <2>3, DeployKeeps DEF deploy
  <2>4. CASE deployed /\ (syncCovenant \/ restoreCompliance)
    BY <1>3, <2>2, <2>4, BecomeSynchronized DEF syncCovenant, restoreCompliance
  <2>5. ASSUME deployed, NEW sender \in Accounts, revokeWaiver(sender)
        PROVE  /\ CovenantInv' /\ CovenantTypes' /\ deployed' \in BOOLEAN /\ principal' \in Nat
               /\ balanceOf' \in [Accounts \cup {Vault} -> Nat]
    BY <1>3, <2>2, <2>5, RevokeWaiverKeeps DEF revokeWaiver
  <2>6. ASSUME deployed, NEW sender \in Accounts, NEW amount \in Amounts,
               deposit(sender, amount) \/ repay(sender, amount)
        PROVE  /\ CovenantInv' /\ CovenantTypes' /\ deployed' \in BOOLEAN /\ principal' \in Nat
               /\ balanceOf' \in [Accounts \cup {Vault} -> Nat]
    <3>1. /\ UNCHANGED <<deployed, covenantVars>>
          /\ principal' \in Nat
          /\ balanceOf' \in [Accounts \cup {Vault} -> Nat]
      BY <2>6, PaymentMoves
    <3> QED
      BY <1>3, <2>6, <3>1, CovenantUntouched
  <2>7. ASSUME deployed, NEW sender \in Accounts, NEW amount \in Amounts, draw(sender, amount)
        PROVE  /\ CovenantInv' /\ CovenantTypes' /\ deployed' \in BOOLEAN /\ principal' \in Nat
               /\ balanceOf' \in [Accounts \cup {Vault} -> Nat]
    <3>1. /\ amount \in Nat
          /\ principal' = principal + amount
          /\ balanceOf' \in [Accounts \cup {Vault} -> Nat]
          /\ become(synchronized)
          /\ deployed' = deployed
      BY <2>7, DrawMoves
    <3> QED
      BY <1>3, <2>2, <2>7, <3>1, BecomeSynchronized
  <2>8. ASSUME deployed, NEW sender \in Accounts, NEW duration \in Durations,
               NEW reason \in Reasons, createWaiver(sender, duration, reason)
        PROVE  /\ CovenantInv' /\ CovenantTypes' /\ deployed' \in BOOLEAN /\ principal' \in Nat
               /\ balanceOf' \in [Accounts \cup {Vault} -> Nat]
    BY <1>3, <2>2, <2>8, CreateWaiverKeeps DEF createWaiver
  <2> QED
    BY <1>3, <2>3, <2>4, <2>5, <2>6, <2>7, <2>8 DEF VaultNext
<1> QED
  BY <1>1, <1>2, <1>3 DEF Next

-----------------------------------------------------------------------------
(* What holds in every reachable state.                                    *)

\* Every reachable state satisfies the invariant.
LEMMA VaultInvariant == Spec => []VaultInv
BY InitInv, StepInv, PTL DEF Spec

\* Every reachable state is well typed: principal and balances never underflow.
THEOREM TypeCorrect == Spec => []TypeOK
<1>1. VaultInv => TypeOK
  BY DEF VaultInv
<1> QED
  BY <1>1, VaultInvariant, PTL

\* Deadlines exist exactly for CURE and BREACH, beneath a waiver too, for any policy,
\* any evidence and any order of transactions (CovenantVault.sol:196-230).
THEOREM CovenantSafety == Spec => []DeadlineTracksStanding
<1>1. VaultInv => DeadlineTracksStanding
  BY DEF VaultInv, CovenantInv
<1> QED
  BY <1>1, VaultInvariant, PTL

\* Nobody is in breach before the cure period is over, to the second
\* (CovenantVault.sol:212-222).
THEOREM BreachIsLate == Spec => []BreachAfterDeadline
<1>1. VaultInv => BreachAfterDeadline
  BY DEF VaultInv, CovenantInv
<1> QED
  BY <1>1, VaultInvariant, PTL

\* Waivers cover deficiencies only and never reach further ahead than the policy's
\* longest duration, however they are created and replaced (CovenantVault.sol:157-184).
THEOREM WaiversAreBounded == Spec => []WaiverBounded
<1>1. VaultInv => WaiverBounded
  BY DEF VaultInv, CovenantInv
<1> QED
  BY <1>1, VaultInvariant, PTL

-----------------------------------------------------------------------------
(* What every step does.                                                   *)

\* The steps of the vault that move the covenant or the money, by what they move.
\* A step of any other kind leaves both alone.
LEMMA VaultSteps ==
  ASSUME VaultInv, [Next]_vars
  PROVE  \/ UNCHANGED <<covenantVars, principal, balanceOf>>
         \/ /\ deployed /\ become(judged(standing))
            /\ UNCHANGED <<principal, balanceOf>>
         \/ /\ deployed
            /\ \E sender \in Accounts, duration \in Durations, reason \in Reasons :
                 createWaiver(sender, duration, reason)
         \/ \E sender \in Accounts, amount \in Amounts :
              deployed /\ (deposit(sender, amount) \/ repay(sender, amount))
         \/ \E sender \in Accounts, amount \in Amounts :
              deployed /\ draw(sender, amount)
<1>1. CASE UNCHANGED <<covenantVars, principal, balanceOf>>
  BY <1>1
<1>2. CASE deployed /\ (syncCovenant \/ restoreCompliance)
  <2>1. CASE activeWaiver
    BY <1>2, <2>1
    DEF syncCovenant, restoreCompliance, become, synchronized, covenantVars, waiverVars
  <2>2. CASE ~activeWaiver
    BY <1>2, <2>2 DEF syncCovenant, restoreCompliance, synchronized
  <2> QED
    BY <2>1, <2>2
<1>3. ASSUME deployed, NEW sender \in Accounts, revokeWaiver(sender)
      PROVE  become(judged(standing)) /\ UNCHANGED <<principal, balanceOf>>
  BY <1>3 DEF revokeWaiver, activeWaiver, standing
<1> QED
  BY <1>1, <1>2, <1>3 DEF Next, VaultNext, deploy, vars, vaultVars

\* A waiver is only laid over a deficiency that was just found.
LEMMA WaiverStep ==
  ASSUME VaultInv, deployed,
         NEW sender \in Accounts, NEW duration \in Durations, NEW reason \in Reasons,
         createWaiver(sender, duration, reason)
  PROVE  /\ judged(standing).state \in {"CURE", "BREACH"}
         /\ stateBeforeWaiver' = judged(standing).state
         /\ covenantState' = "WAIVED"
         /\ cureDeadline' = judged(standing).deadline
         /\ UNCHANGED <<principal, balanceOf>>
<1>1. ~activeWaiver
  BY DEF createWaiver, synchronized, activeWaiver
<1> QED
  BY <1>1, Judgement DEF createWaiver, synchronized

\* The cure clock in one step.
CureClockStep ==
  cureDeadline' # cureDeadline =>
    \/ compliant /\ cureDeadline' = 0
    \/ /\ ~compliant
       /\ cureDeadline = 0
       /\ cureDeadline' = now + policy.curePeriod

\* No step moves the deadline but the first finding of a deficiency and the return
\* of coverage.
LEMMA StepCureClock == VaultInv /\ [Next]_vars => CureClockStep
<1> SUFFICES ASSUME VaultInv, [Next]_vars
             PROVE  CureClockStep
  OBVIOUS
<1>1. CASE UNCHANGED covenantVars
  BY <1>1 DEF covenantVars, CureClockStep
<1>2. CASE deployed /\ become(judged(standing))
  BY <1>2, Judgement DEF become, CureClockStep
<1>3. ASSUME deployed, NEW sender \in Accounts, NEW duration \in Durations,
             NEW reason \in Reasons, createWaiver(sender, duration, reason)
      PROVE  CureClockStep
  BY <1>3, WaiverStep, Judgement DEF CureClockStep
<1>4. ASSUME NEW sender \in Accounts, NEW amount \in Amounts,
             deposit(sender, amount) \/ repay(sender, amount)
      PROVE  UNCHANGED covenantVars
  BY <1>4 DEF deposit, repay
<1>5. ASSUME deployed, NEW sender \in Accounts, NEW amount \in Amounts, draw(sender, amount)
      PROVE  UNCHANGED covenantVars \/ become(judged(standing))
  BY <1>5, DrawMoves DEF synchronized
<1> QED
  BY <1>1, <1>2, <1>3, <1>4, <1>5, VaultSteps

\* Neither synchronizing again and again nor any waiver buys the borrower time
\* (CovenantVault.sol:212-227).
THEOREM CureClockHonest == Spec => CureClock
<1>1. VaultInv /\ [Next]_vars => [CureClockStep]_vars
  BY StepCureClock
<1>2. Spec => [][CureClockStep]_vars
  BY <1>1, VaultInvariant, PTL DEF Spec
<1> QED
  BY <1>2 DEF CureClock, CureClockStep

\* The gate in one step.
DrawGatedStep ==
  principal' > principal =>
    /\ compliant \/ activeWaiver
    /\ covenantState' \in {"COMPLIANT", "WAIVED"}

\* Only a draw raises the principal, and the gate and the synchronization agree on
\* what let it pass.
LEMMA StepDrawGated == VaultInv /\ [Next]_vars => DrawGatedStep
<1> SUFFICES ASSUME VaultInv, [Next]_vars
             PROVE  DrawGatedStep
  OBVIOUS
<1>1. principal \in Nat
  BY DEF VaultInv, TypeOK
<1>2. CASE UNCHANGED principal
  BY <1>1, <1>2 DEF DrawGatedStep
<1>3. ASSUME deployed, NEW sender \in Accounts, NEW duration \in Durations,
             NEW reason \in Reasons, createWaiver(sender, duration, reason)
      PROVE  UNCHANGED principal
  BY <1>3, WaiverStep
<1>4. ASSUME NEW sender \in Accounts, NEW amount \in Amounts,
             deposit(sender, amount) \/ repay(sender, amount)
      PROVE  ~(principal' > principal)
  <2>1. amount \in Nat \ {0} /\ principal' \in {principal, principal - amount}
    BY <1>4, PaymentMoves
  <2> QED
    BY <1>1, <2>1
<1>5. ASSUME deployed, NEW sender \in Accounts, NEW amount \in Amounts, draw(sender, amount)
      PROVE  DrawGatedStep
  <2>1. \/ compliant /\ covenantState' = "COMPLIANT"
        \/ activeWaiver /\ UNCHANGED covenantVars
    BY <1>5, DrawMoves
  <2> QED
    BY <2>1 DEF DrawGatedStep, activeWaiver, covenantVars
<1> QED
  BY <1>2, <1>3, <1>4, <1>5, VaultSteps DEF DrawGatedStep

\* Nothing is released on a verdict of the past (CovenantVault.sol:112-131).
THEOREM NoStaleDraw == Spec => DrawsGated
<1>1. VaultInv /\ [Next]_vars => [DrawGatedStep]_vars
  BY StepDrawGated
<1>2. Spec => [][DrawGatedStep]_vars
  BY <1>1, VaultInvariant, PTL DEF Spec
<1> QED
  BY <1>2 DEF DrawsGated, DrawGatedStep

\* The capital in one step.
CapitalStep ==
  /\ balanceOf'[Vault] < balanceOf[Vault] => balanceOf'[Vault] >= policy.reserveAmount
  /\ balanceOf'[Vault] + principal' >= balanceOf[Vault] + principal

\* A draw turns tokens into as much principal and stops at the reserve, a repayment
\* turns it back, a deposit only adds.
LEMMA StepCapital == VaultInv /\ [Next]_vars => CapitalStep
<1> SUFFICES ASSUME VaultInv, [Next]_vars
             PROVE  CapitalStep
  OBVIOUS
<1>1. principal \in Nat /\ balanceOf[Vault] \in Nat
  BY DEF VaultInv, TypeOK
<1>2. CASE UNCHANGED <<principal, balanceOf>>
  BY <1>1, <1>2 DEF CapitalStep
<1>3. ASSUME deployed, NEW sender \in Accounts, NEW duration \in Durations,
             NEW reason \in Reasons, createWaiver(sender, duration, reason)
      PROVE  UNCHANGED <<principal, balanceOf>>
  BY <1>3, WaiverStep
<1>4. ASSUME NEW sender \in Accounts, NEW amount \in Amounts,
             deposit(sender, amount) \/ repay(sender, amount)
      PROVE  CapitalStep
  <2>1. /\ amount \in Nat \ {0}
        /\ balanceOf'[Vault] = balanceOf[Vault] + amount
        /\ principal' \in {principal, principal - amount}
    BY <1>4, PaymentMoves
  <2> QED
    BY <1>1, <2>1 DEF CapitalStep
<1>5. ASSUME deployed, NEW sender \in Accounts, NEW amount \in Amounts, draw(sender, amount)
      PROVE  CapitalStep
  <2>1. /\ amount \in Nat \ {0}
        /\ principal' = principal + amount
        /\ balanceOf'[Vault] = balanceOf[Vault] - amount
        /\ balanceOf'[Vault] >= policy.reserveAmount
    BY <1>5, DrawMoves
  <2> QED
    BY <1>1, <2>1 DEF CapitalStep
<1> QED
  BY <1>2, <1>3, <1>4, <1>5, VaultSteps

\* The reserve stays in the vault and every token that leaves is owed
\* (CovenantVault.sol:112-143).
THEOREM CapitalStaysProtected == Spec => CapitalProtected
<1>1. VaultInv /\ [Next]_vars => [CapitalStep]_vars
  BY StepCapital
<1>2. Spec => [][CapitalStep]_vars
  BY <1>1, VaultInvariant, PTL DEF Spec
<1> QED
  BY <1>2 DEF CapitalProtected, CapitalStep

-----------------------------------------------------------------------------
(* The vault implements the promise.                                       *)

\* Every judgement is one of the verdicts the promise allows.
LEMMA JudgedIsVerdict ==
  ASSUME VaultInv, deployed
  PROVE  judged(standing).state \in Promise!Verdicts[standing]
BY StandingValues, Judgement DEF Promise!Verdicts

\* Each step of the system is a step of the promise or leaves it alone.
LEMMA StepPromise == VaultInv /\ [Next]_vars => [Promise!Next]_(Promise!promiseVars)
<1> SUFFICES ASSUME VaultInv, [Next]_vars
             PROVE  [Promise!Next]_(Promise!promiseVars)
  OBVIOUS
<1>1. principal \in Nat
  BY DEF VaultInv, TypeOK
<1>2. ASSUME UNCHANGED covenantVars
      PROVE  /\ standing' = standing
             /\ (covenantState = "WAIVED")' = (covenantState = "WAIVED")
  BY <1>2 DEF covenantVars, waiverVars, standing
<1>3. CASE UNCHANGED <<covenantVars, principal>>
  BY <1>2, <1>3 DEF Promise!promiseVars
<1>4. ASSUME deployed, become(judged(standing))
      PROVE  /\ standing' \in Promise!Verdicts[standing]
             /\ (covenantState = "WAIVED")' = FALSE
  <2>1. /\ covenantState' = judged(standing).state
        /\ judged(standing).state \in {"COMPLIANT", "CURE", "BREACH"}
    BY <1>4, Judgement DEF become
  <2>2. standing' = judged(standing).state
    BY <2>1 DEF standing
  <2> QED
    BY <1>4, <2>1, <2>2, JudgedIsVerdict
<1>5. CASE deployed /\ become(judged(standing)) /\ UNCHANGED principal
  BY <1>4, <1>5 DEF Promise!Next, Promise!Evaluate
<1>6. ASSUME deployed, NEW sender \in Accounts, NEW duration \in Durations,
             NEW reason \in Reasons, createWaiver(sender, duration, reason)
      PROVE  Promise!Waive
  <2>1. standing' = judged(standing).state
    BY <1>6, WaiverStep DEF standing
  <2> QED
    BY <1>6, <2>1, WaiverStep, JudgedIsVerdict DEF Promise!Waive
<1>7. ASSUME NEW sender \in Accounts, NEW amount \in Amounts,
             deposit(sender, amount) \/ repay(sender, amount)
      PROVE  [Promise!Next]_(Promise!promiseVars)
  <2>1. /\ amount \in Nat \ {0}
        /\ principal' = principal \/ principal' = principal - amount
        /\ UNCHANGED covenantVars
    BY <1>7, PaymentMoves
  <2>2. CASE principal' = principal
    BY <1>3, <2>1, <2>2
  <2>3. CASE principal' = principal - amount
    <3>1. principal' < principal
      BY <1>1, <2>1, <2>3
    <3> QED
      BY <1>2, <2>1, <3>1 DEF Promise!Next, Promise!Repay
  <2> QED
    BY <2>1, <2>2, <2>3
<1>8. ASSUME deployed, NEW sender \in Accounts, NEW amount \in Amounts, draw(sender, amount)
      PROVE  Promise!Release
  <2>1. principal' > principal
    <3>1. amount \in Nat \ {0} /\ principal' = principal + amount
      BY <1>8, DrawMoves
    <3> QED
      BY <1>1, <3>1
  <2>2. CASE covenantState' = "COMPLIANT"
    BY <2>1, <2>2 DEF Promise!Release, standing
  <2>3. CASE activeWaiver /\ UNCHANGED covenantVars
    BY <1>2, <2>1, <2>3 DEF Promise!Release, activeWaiver
  <2> QED
    BY <1>8, <2>2, <2>3, DrawMoves
<1> QED
  BY <1>3, <1>5, <1>6, <1>7, <1>8, VaultSteps DEF Promise!Next

\* Whatever the evidence, the clock and the callers do, the lender of this vault
\* sees a facility that keeps CovenantPromise.
THEOREM PromiseImplemented == Spec => PromiseKept
<1>1. Init => Promise!Init
  BY DEF Init, Promise!Init, standing
<1>2. Spec => [][Promise!Next]_(Promise!promiseVars)
  BY StepPromise, VaultInvariant, PTL DEF Spec
<1> QED
  BY <1>1, <1>2, PTL DEF Spec, PromiseKept, Promise!Spec
=============================================================================
