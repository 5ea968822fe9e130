---------------------------- MODULE CovenantVault ----------------------------
(***************************************************************************)
(* contracts/src/CovenantVault.sol over the coverage engine, the two       *)
(* registries and the settlement token: every transaction that can change  *)
(* what the operator may draw, in any order, with time passing in between. *)
(*                                                                         *)
(* A transaction that reverts changes nothing, the synchronization it did  *)
(* first included, so each action is enabled exactly when the handler gets *)
(* to its end.  Allowances are taken as given: a transferFrom without one  *)
(* reverts.  The token calls nobody back, so the reentrancy lock never     *)
(* shuts anyone out and is left out.  Timestamps stay far below 2^64, where *)
(* the uint64 casts of deadlines change nothing.                           *)
(***************************************************************************)
EXTENDS CoverageEngine

CONSTANTS
  Vault,     \* the vault's own address
  Amounts,   \* token amounts that transactions name
  Durations, \* waiver durations that createWaiver is called with
  Reasons,   \* reason commitments, possibly with Zero
  Supply,    \* tokens minted to each account
  MaxPrincipal \* bound: principal += reverts above it, as above 2^256-1

ASSUME VaultAssumption ==
  /\ Vault \notin Accounts
  /\ Amounts \subseteq Nat
  /\ Durations \subseteq Nat
  /\ Supply \in [Accounts -> Nat]
  /\ MaxPrincipal \in Nat

VARIABLES
  deployed,               \* the constructor has run
  covenantState,
  stateBeforeWaiver,
  principal,
  cureDeadline,
  waiverEndsAt,
  waiverReasonCommitment,
  balanceOf               \* the settlement token

CovenantStates == {"UNASSESSED", "COMPLIANT", "CURE", "BREACH", "WAIVED"}

waiverVars == <<stateBeforeWaiver, waiverEndsAt, waiverReasonCommitment>>
covenantVars == <<covenantState, cureDeadline, waiverVars>>
vaultVars == <<deployed, covenantVars, principal, balanceOf>>
vars == <<engineVars, vaultVars>>

Init ==
  /\ EngineInit
  /\ deployed = FALSE
  /\ covenantState = "UNASSESSED"
  /\ stateBeforeWaiver = "UNASSESSED"
  /\ principal = 0
  /\ cureDeadline = 0
  /\ waiverEndsAt = 0
  /\ waiverReasonCommitment = Zero
  /\ balanceOf = [a \in Accounts \cup {Vault} |-> IF a = Vault THEN 0 ELSE Supply[a]]

-----------------------------------------------------------------------------

transfer(from, to, amount) ==
  /\ balanceOf[from] >= amount
  /\ balanceOf' = [balanceOf EXCEPT ![from] = @ - amount, ![to] = @ + amount]

\* The constructor: the facility exists and is frozen.
deploy ==
  /\ ~deployed
  /\ policy.frozen
  /\ deployed' = TRUE
  /\ UNCHANGED <<covenantVars, principal, balanceOf>>

\* Mutant of activeWaiver: the end is not looked at.
waiverNeverEnds == covenantState = "WAIVED"

activeWaiver == covenantState = "WAIVED" /\ now <= waiverEndsAt

\* Mutant of judgedState: the deadline itself is already too late.
judgedStateAtDeadline(base) ==
  IF compliant THEN "COMPLIANT"
  ELSE IF \/ base = "BREACH"
          \/ base = "CURE" /\ cureDeadline # 0 /\ now >= cureDeadline
       THEN "BREACH"
       ELSE "CURE"

\* Mutant of judgedState: the cure period never runs out.
judgedStateWithoutDeadline(base) ==
  IF compliant THEN "COMPLIANT" ELSE IF base = "BREACH" THEN "BREACH" ELSE "CURE"

\* What a fresh evaluation makes of the state the covenant stands in.
judgedState(base) ==
  IF compliant THEN "COMPLIANT"
  ELSE IF \/ base = "BREACH"
          \/ base = "CURE" /\ cureDeadline # 0 /\ now > cureDeadline
       THEN "BREACH"
       ELSE "CURE"

\* Mutant of judgedDeadline: every non-compliant evaluation starts the period again.
judgedDeadlineRestarted(base) ==
  IF compliant THEN 0
  ELSE IF judgedState(base) = "BREACH" THEN cureDeadline
  ELSE now + policy.curePeriod

\* Mutant of judgedDeadline: a compliant evaluation leaves the old deadline behind.
judgedDeadlineKept(base) ==
  IF judgedState(base) = "CURE" /\ (base # "CURE" \/ cureDeadline = 0)
  THEN now + policy.curePeriod
  ELSE cureDeadline

judgedDeadline(base) ==
  IF compliant THEN 0
  ELSE IF judgedState(base) = "CURE" /\ (base # "CURE" \/ cureDeadline = 0)
       THEN now + policy.curePeriod
       ELSE cureDeadline

\* The covenant after an evaluation from base; a waiver that is over is cleared.
judged(base) ==
  [state    |-> judgedState(base),
   deadline |-> judgedDeadline(base),
   endsAt   |-> IF covenantState = "WAIVED" THEN 0 ELSE waiverEndsAt,
   reason   |-> IF covenantState = "WAIVED" THEN Zero ELSE waiverReasonCommitment]

\* The state that counts beneath a waiver.
standing == IF covenantState = "WAIVED" THEN stateBeforeWaiver ELSE covenantState

\* _syncCovenant, as the covenant it leaves: nothing moves under an active waiver.
synchronized ==
  IF activeWaiver
  THEN [state |-> covenantState, deadline |-> cureDeadline,
        endsAt |-> waiverEndsAt, reason |-> waiverReasonCommitment]
  ELSE judged(standing)

become(covenant) ==
  /\ covenantState' = covenant.state
  /\ cureDeadline' = covenant.deadline
  /\ waiverEndsAt' = covenant.endsAt
  /\ waiverReasonCommitment' = covenant.reason
  /\ UNCHANGED stateBeforeWaiver

-----------------------------------------------------------------------------

\* Also MockUSDC.transfer to the vault, which moves the same balances.
deposit(sender, amount) ==
  /\ amount # 0
  /\ transfer(sender, Vault, amount)
  /\ UNCHANGED <<deployed, covenantVars, principal>>

\* Mutant of draw: the gate is not asked, the state found before the call decides.
drawOnCachedState(sender, amount) ==
  /\ sender = policy.operator
  /\ amount # 0
  /\ covenantState \in {"COMPLIANT", "WAIVED"}
  /\ balanceOf[Vault] >= amount + policy.reserveAmount
  /\ become(synchronized)
  /\ principal + amount <= MaxPrincipal
  /\ principal' = principal + amount
  /\ transfer(Vault, policy.operator, amount)
  /\ UNCHANGED deployed

\* Mutant of draw: the amount paid out is not recorded as principal.
drawUnrecorded(sender, amount) ==
  /\ sender = policy.operator
  /\ amount # 0
  /\ assessAllowed(amount, balanceOf[Vault], activeWaiver)
  /\ become(synchronized)
  /\ transfer(Vault, policy.operator, amount)
  /\ UNCHANGED <<deployed, principal>>

\* Synchronize, ask the gate (which calls back for the waiver as synchronized and
\* for the token balance), then record and pay.
draw(sender, amount) ==
  LET waived == synchronized.state = "WAIVED" /\ now <= synchronized.endsAt
  IN /\ sender = policy.operator
     /\ amount # 0
     /\ assessAllowed(amount, balanceOf[Vault], waived)
     /\ become(synchronized)
     /\ principal + amount <= MaxPrincipal
     /\ principal' = principal + amount
     /\ transfer(Vault, policy.operator, amount)
     /\ UNCHANGED deployed

repay(sender, amount) ==
  /\ sender = policy.operator
  /\ amount # 0
  /\ amount <= principal
  /\ transfer(sender, Vault, amount)
  /\ principal' = principal - amount
  /\ UNCHANGED <<deployed, covenantVars>>

syncCovenant ==
  /\ become(synchronized)
  /\ UNCHANGED <<deployed, principal, balanceOf>>

restoreCompliance ==
  /\ compliant
  /\ become(synchronized)
  /\ UNCHANGED <<deployed, principal, balanceOf>>

\* Mutant of createWaiver: the caller's duration is not held against the policy.
createUnboundedWaiver(sender, duration, reason) ==
  /\ sender = policy.admin
  /\ duration # 0
  /\ reason # Zero
  /\ synchronized.state \notin {"COMPLIANT", "WAIVED"}
  /\ stateBeforeWaiver' = synchronized.state
  /\ covenantState' = "WAIVED"
  /\ cureDeadline' = synchronized.deadline
  /\ waiverReasonCommitment' = reason
  /\ waiverEndsAt' = now + duration
  /\ UNCHANGED <<deployed, principal, balanceOf>>

createWaiver(sender, duration, reason) ==
  /\ sender = policy.admin
  /\ duration \in 1..policy.maxWaiverDuration
  /\ reason # Zero
  /\ synchronized.state \notin {"COMPLIANT", "WAIVED"}
  /\ stateBeforeWaiver' = synchronized.state
  /\ covenantState' = "WAIVED"
  /\ cureDeadline' = synchronized.deadline
  /\ waiverReasonCommitment' = reason
  /\ waiverEndsAt' = now + duration
  /\ UNCHANGED <<deployed, principal, balanceOf>>

\* Mutant of revokeWaiver: the covenant comes back as newly assessed.
revokeWaiverForgetting(sender) ==
  /\ sender = policy.admin
  /\ activeWaiver
  /\ become(judged("UNASSESSED"))
  /\ UNCHANGED <<deployed, principal, balanceOf>>

\* Back to the state before the waiver, then synchronize from there.
revokeWaiver(sender) ==
  /\ sender = policy.admin
  /\ activeWaiver
  /\ become(judged(stateBeforeWaiver))
  /\ UNCHANGED <<deployed, principal, balanceOf>>

VaultNext ==
  \/ deploy
  \/ /\ deployed
     /\ \/ syncCovenant
        \/ restoreCompliance
        \/ \E sender \in Accounts :
             \/ revokeWaiver(sender)
             \/ \E amount \in Amounts :
                  \/ deposit(sender, amount)
                  \/ draw(sender, amount)
                  \/ repay(sender, amount)
             \/ \E duration \in Durations, reason \in Reasons :
                  createWaiver(sender, duration, reason)

Next ==
  \/ VaultNext /\ UNCHANGED engineVars
  \/ EngineNext /\ UNCHANGED vaultVars

Spec == Init /\ [][Next]_vars

\* Block time never stops, and syncCovenant is open to everyone: the liveness
\* properties are about behaviours in which somebody goes on calling it.
Fairness ==
  /\ WF_vars(Tick /\ UNCHANGED vaultVars)
  /\ WF_vars(deployed /\ syncCovenant /\ UNCHANGED engineVars)

FairSpec == Spec /\ Fairness

-----------------------------------------------------------------------------

TypeOK ==
  /\ EngineTypeOK
  /\ deployed \in BOOLEAN
  /\ covenantState \in CovenantStates
  /\ stateBeforeWaiver \in CovenantStates
  /\ principal \in Nat
  /\ cureDeadline \in Nat
  /\ waiverEndsAt \in Nat
  /\ waiverReasonCommitment \in Reasons \cup {Zero}
  /\ balanceOf \in [Accounts \cup {Vault} -> Nat]

\* A cure deadline exists exactly while the covenant stands in CURE or BREACH,
\* beneath a waiver too.
DeadlineTracksStanding == cureDeadline # 0 <=> standing \in {"CURE", "BREACH"}

\* A breach is only ever recorded after the deadline of a cure period that some
\* earlier synchronization had started, through whatever waivers lay between.
BreachAfterDeadline == standing = "BREACH" => cureDeadline \in 1..(now - 1)

\* A waiver covers a CURE or a BREACH and nothing else, ends within the policy's
\* longest duration from now, and leaves no end and no reason behind.
WaiverBounded ==
  /\ covenantState = "WAIVED" =>
       /\ stateBeforeWaiver \in {"CURE", "BREACH"}
       /\ waiverEndsAt <= now + policy.maxWaiverDuration
  /\ covenantState = "WAIVED" <=> waiverEndsAt # 0
  /\ covenantState = "WAIVED" <=> waiverReasonCommitment # Zero

\* The cure clock: a deadline is set once, one cure period after the non-compliant
\* evaluation that sets it, and only a compliant evaluation clears it.  Neither
\* repeated synchronization nor a waiver, its expiry or its revocation buys the
\* borrower another second.
CureClock ==
  [][cureDeadline' # cureDeadline =>
       \/ compliant /\ cureDeadline' = 0
       \/ /\ ~compliant
          /\ cureDeadline = 0
          /\ cureDeadline' = now + policy.curePeriod]_vars

\* Principal is released only on the evaluation of that very moment or under a
\* waiver that has not ended, and the covenant then reads COMPLIANT or WAIVED
\* (PRD.md R-F3-1, R-F3-2); what an earlier synchronization left in the state
\* releases nothing.
DrawsGated ==
  [][principal' > principal =>
       /\ compliant \/ activeWaiver
       /\ covenantState' \in {"COMPLIANT", "WAIVED"}]_vars

\* Tokens leave the vault only down to the reserve, and never without becoming
\* principal that is owed: vault balance and principal together never shrink.
CapitalProtected ==
  [][/\ balanceOf'[Vault] < balanceOf[Vault]
          => balanceOf'[Vault] >= policy.reserveAmount
     /\ balanceOf'[Vault] + principal' >= balanceOf[Vault] + principal]_vars

\* The contract keeps the promise made of any coverage-gated facility.
Promise == INSTANCE CovenantPromise WITH
  standing <- standing,
  waived <- covenantState = "WAIVED",
  released <- principal

PromiseKept == Promise!Spec

\* A cure period that has run out, or a waiver that has, which no transaction has
\* noticed yet.
overdueCure == covenantState = "CURE" /\ cureDeadline < now
overdueWaiver == covenantState = "WAIVED" /\ waiverEndsAt < now

\* A cure period does not outlast its deadline: the covenant leaves this CURE for
\* COMPLIANT, BREACH or WAIVED.
CureResolves == overdueCure ~> ~overdueCure

\* A waiver does not outlive its end: it is cleared or replaced by a new one.
WaiverLapses == overdueWaiver ~> ~overdueWaiver

=============================================================================
