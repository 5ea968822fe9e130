----------------------------- MODULE FacilityRuns -----------------------------
(***************************************************************************)
(* A facility from its creation to the evidence published about it, over   *)
(* the contracts of CovenantVault and the quorum of FacilitySetup:         *)
(*   coffee  scenarios/coffee-facility.ts against a private Anvil;         *)
(*   deploy  contracts/script/Deploy.s.sol, then scenarios/arc-facility.ts *)
(*           on the public testnet;                                        *)
(*   quorum  the provisioning scripts in the place of Deploy.s.sol.        *)
(* A script is a list of calls with what it asserts of each; the first     *)
(* assertion that fails ends it.  A call's receipt is recorded with the    *)
(* covenant as the block ends that holds it.  On the public chain anybody  *)
(* may synchronize the covenant in between, and behind a call in the very  *)
(* block of it; Anvil gives every transaction a block.  Time passes on     *)
(* both between blocks.                                                    *)
(*                                                                         *)
(* Hours stand for seconds.  Amounts are in 100 000 units of the coffee    *)
(* facility and in thousandths of the Arc one.  The block a message is     *)
(* observed at and the one that stores it are the same hour.               *)
(***************************************************************************)
EXTENDS CovenantVault, FacilitySetup

CONSTANT Pauses \* bound: how many hours may pass between two calls

ASSUME PausesAssumption == Pauses \subseteq Nat \ {0}

VARIABLES
  route,     \* how the facility comes to be
  todo,      \* the calls that the script has before it
  result,    \* of the call that it waits for, in the block that is being filled
  evidence,  \* the receipts it has, with the covenant at the end of their block
  outcome,   \* "running", "complete" or "failed"
  startedAt, \* the block arc-facility.ts records as it begins
  early,     \* history: somebody synchronized a covenant that was never assessed
  behind     \* history: somebody's synchronization moved the covenant behind an observed
             \* hedge, in its block

runVars == <<route, todo, result, evidence, outcome, startedAt, early, behind>>
systemVars == <<vars, setupVars, runVars>>

admin == ManifestPolicy.admin
operator == ManifestPolicy.operator

-----------------------------------------------------------------------------
(* packages/provider-adapter                                               *)

\* Checked-in fixtures: the trade as booked, then as its provider reports it later.
fixture(trade, amount, status, updatedAt, sequence) ==
  [id |-> trade, remaining |-> amount, status |-> status, updatedAt |-> updatedAt,
   validUntil |-> updatedAt + 24, sequence |-> sequence,
   maturity |-> IF trade = "MOCK-USD-COP-001" THEN 720 ELSE 4464]

mockForward == [active    |-> fixture("MOCK-USD-COP-001", 45, "booked", 0, 1),
                refreshed |-> fixture("MOCK-USD-COP-001", 50, "partially_funded", 1, 2),
                cancelled |-> fixture("MOCK-USD-COP-001", 0, "cancelled", 2, 3)]

arcForward == [active    |-> fixture("ARC-EUR-USD-001", 1060, "booked", 0, 1),
               refreshed |-> fixture("ARC-EUR-USD-001", 720, "partially_funded", 1, 2),
               restored  |-> fixture("ARC-EUR-USD-001", 1060, "booked", 2, 4)]

mapProviderStatus ==
  [booked |-> "ACTIVE", partially_funded |-> "ACTIVE",
   cancelled |-> "CANCELLED", closed |-> "SETTLED", disputed |-> "DISPUTED"]

mapProviderFixture(f) ==
  [tradeId |-> f.id, baseCurrency |-> policy.settlementCurrency,
   quoteCurrency |-> policy.exposureCurrency, remainingNotional |-> f.remaining,
   maturity |-> f.maturity, status |-> mapProviderStatus[f.status],
   observedAt |-> f.updatedAt, validUntil |-> f.validUntil, sequence |-> f.sequence]

mappable(f) == f.validUntil >= f.updatedAt /\ f.maturity >= f.updatedAt

\* The booked tenor, from the block the run starts at.
bookedMaturity(f, start) == start + f.maturity - f.updatedAt

\* Mutant of observeAt: the local clock, which runs ahead of the chain.
observeAtLocalClock(f, block, maturity) ==
  [f EXCEPT !.updatedAt = block + 1, !.maturity = maturity,
            !.validUntil = block + 1 + (f.validUntil - f.updatedAt)]

\* Only the times move, to a block the chain has produced.
observeAt(f, block, maturity) ==
  [f EXCEPT !.updatedAt = block, !.maturity = maturity,
            !.validUntil = block + (f.validUntil - f.updatedAt)]

exposureCredential(amount, observedAt, maturity, sequence) ==
  [settlementCurrency |-> policy.settlementCurrency, exposureCurrency |-> policy.exposureCurrency,
   outstandingValue |-> amount, exposureMaturity |-> maturity,
   observedAt |-> observedAt, validUntil |-> observedAt + 24, sequence |-> sequence]

-----------------------------------------------------------------------------
(* The scripts.                                                            *)

Unchecked == -1

send(by, fn, arg) ==
  [by |-> by, fn |-> fn, arg |-> arg, ok |-> TRUE, bps |-> Unchecked, state |-> "any",
   principal |-> Unchecked]
expecting(i, bps, state) == [i EXCEPT !.bps = bps, !.state = state]
expectingRevert(i) == [i EXCEPT !.ok = FALSE]

coffeePolicy ==
  [settlementCurrency |-> "USD", exposureCurrency |-> "COP", minCoverageBps |-> 8000,
   credentialMaxAge |-> 24, maturityTolerance |-> 24, defaultHaircutBps |-> 0,
   reserveAmount |-> 10, curePeriod |-> 48, maxWaiverDuration |-> 12, maxActiveHedges |-> 8,
   admin |-> admin, operator |-> operator, frozen |-> FALSE]

DeployPolicy(facilityAdmin, originatorOperator) ==
  [settlementCurrency |-> "USD", exposureCurrency |-> "EUR", minCoverageBps |-> 10000,
   credentialMaxAge |-> 24, maturityTolerance |-> 168, defaultHaircutBps |-> 500,
   reserveAmount |-> 500, curePeriod |-> 120, maxWaiverDuration |-> 72, maxActiveHedges |-> 8,
   admin |-> facilityAdmin, operator |-> originatorOperator, frozen |-> FALSE]

setUpAndDeploy(p) ==
  <<send(admin, "createFacility", p),
    send(admin, "setExposureIssuer", ExposureIssuer),
    send(admin, "setHedgeIssuer", HedgeIssuer),
    send(admin, "freezeFacility", 0),
    send(admin, "deploy", 0)>>

\* Loans of 50 against a hedge of 45, and a first draw.
coveredAndDrawn ==
  <<send(admin, "deposit", 100),
    send(admin, "submitExposure", [amount |-> 50, fresh |-> FALSE, sequence |-> 1]),
    send(admin, "submitHedge", mockForward.active),
    expecting(send(admin, "syncCovenant", 0), 9000, "COMPLIANT"),
    send(operator, "draw", 5)>>

\* The book grows past its cover until the hedge is refreshed.
grownAndRestored ==
  <<send(admin, "submitExposure", [amount |-> 60, fresh |-> TRUE, sequence |-> 2]),
    expectingRevert(send(operator, "draw", 1)),
    expecting(send(admin, "syncCovenant", 0), 7500, "CURE"),
    send(admin, "moveToTimestamp", 1),
    send(admin, "submitHedge", mockForward.refreshed),
    expecting(send(admin, "restoreCompliance", 0), 8333, "COMPLIANT"),
    send(operator, "draw", 1)>>

\* The hedge is cancelled, nobody cures it, and the loan is paid back in breach.
cancelledAndRepaid ==
  <<send(admin, "moveToTimestamp", 2),
    send(admin, "submitHedge", mockForward.cancelled),
    send(admin, "syncCovenant", 0),
    send(admin, "moveBeyondDeadline", 0),
    expecting(send(admin, "syncCovenant", 0), Unchecked, "BREACH"),
    [send(operator, "repay", 1) EXCEPT !.principal = 5]>>

\* The mutable references of the script are read when their turn comes: exposures
\* observed at the current block, the end of the cure period.
coffeeScript ==
  setUpAndDeploy(coffeePolicy) \o coveredAndDrawn \o grownAndRestored \o cancelledAndRepaid

DRAW == 1000

\* Funding the vault is a cast send of the admin; the preflight is of arc-facility.ts.
arcScript ==
  <<send(admin, "deposit", 5000),
    send(operator, "preflight", 0),
    send(operator, "start", 0),
    send(operator, "submitExposure", [amount |-> 1000, fresh |-> FALSE, sequence |-> 1]),
    expecting(send(operator, "observeHedge", arcForward.active), 10000, "UNASSESSED"),
    expecting(send(operator, "draw", DRAW), 10000, "COMPLIANT"),
    expecting(send(operator, "observeHedge", arcForward.refreshed), 6840, "COMPLIANT"),
    expecting(send(operator, "syncCovenant", 0), 6840, "CURE"),
    send(operator, "predictRefusal", DRAW),
    expecting(expectingRevert(send(operator, "draw", DRAW)), 6840, "CURE"),
    expecting(send(operator, "observeHedge", arcForward.restored), 10000, "CURE"),
    expecting(send(operator, "restoreCompliance", 0), 10000, "COMPLIANT"),
    expecting(send(operator, "draw", DRAW), 10000, "COMPLIANT")>>

-----------------------------------------------------------------------------
(* What a call does; a call that is not enabled reverts, or throws.        *)

\* What the draw is refused with at the end of the block.
refusalAt == synchronized.state

registryCall(i) ==
  /\ \/ i.fn = "createFacility" /\ createFacility(i.by, i.arg)
     \/ i.fn = "setExposureIssuer" /\ setExposureIssuer(i.by, i.arg, TRUE)
     \/ i.fn = "setHedgeIssuer" /\ setHedgeIssuer(i.by, i.arg, TRUE)
     \/ i.fn = "freezeFacility" /\ freezeFacility(i.by)
  /\ UNCHANGED <<credentialVars, now, vaultVars, startedAt>>

\* The coffee facility's exposure matures 30 days on, the Arc one's with its trade.
submitted(arg) ==
  LET at == IF arg.fresh THEN now ELSE startedAt
  IN exposureCredential(arg.amount, at,
       IF route = "coffee" THEN at + 720 ELSE bookedMaturity(arcForward.active, startedAt),
       arg.sequence)

observed(f) == observeAt(f, now, bookedMaturity(arcForward.active, startedAt))

credentialCall(i) ==
  /\ \/ i.fn = "submitExposure" /\ submitExposure(submitted(i.arg), ExposureIssuer)
     \/ /\ i.fn = "submitHedge" /\ mappable(i.arg)
        /\ submitHedge(mapProviderFixture(i.arg), HedgeIssuer)
     \/ /\ i.fn = "observeHedge" /\ mappable(observed(i.arg))
        /\ submitHedge(mapProviderFixture(observed(i.arg)), HedgeIssuer)
  /\ UNCHANGED <<registryVars, now, vaultVars, startedAt>>

vaultCall(i) ==
  /\ \/ i.fn = "deploy" /\ deploy
     \/ i.fn = "deposit" /\ deposit(i.by, i.arg)
     \/ i.fn = "draw" /\ draw(i.by, i.arg)
     \/ i.fn = "repay" /\ repay(i.by, i.arg)
     \/ i.fn = "syncCovenant" /\ syncCovenant
     \/ i.fn = "restoreCompliance" /\ restoreCompliance
  /\ UNCHANGED <<engineVars, startedAt>>

moveTo(timestamp) ==
  /\ now' = IF now < timestamp THEN timestamp ELSE now
  /\ UNCHANGED <<credVars, vaultVars, startedAt>>

look(i) ==
  /\ \/ /\ i.fn = "preflight"
        /\ ExposureIssuer \in exposureIssuers /\ HedgeIssuer \in hedgeIssuers
        /\ sequenceOf(exposure) = 0 /\ sequenceOf(hedges[arcForward.active.id]) = 0
        /\ balanceOf[Vault] >= policy.reserveAmount + 2 * DRAW
        /\ UNCHANGED startedAt
     \/ i.fn = "predictRefusal" /\ refusalAt = "CURE" /\ UNCHANGED startedAt
     \/ i.fn = "start" /\ startedAt' = now
  /\ UNCHANGED <<engineVars, vaultVars>>

call(i) ==
  \/ registryCall(i) \/ credentialCall(i) \/ vaultCall(i) \/ look(i)
  \/ i.fn = "moveToTimestamp" /\ moveTo(i.arg)
  \/ i.fn = "moveBeyondDeadline" /\ moveTo(cureDeadline + 1)

reportedBps == IF assessed THEN coverageBps ELSE 0

\* What is read at the number of the call's block is as of its end.
receiptOf(i, ok) ==
  [fn |-> i.fn, ok |-> ok, bps |-> reportedBps, state |-> covenantState,
   refusal |-> IF i.fn = "draw" /\ ~ok THEN refusalAt ELSE "none",
   affordable |-> i.fn = "draw" /\ ~ok => balanceOf[Vault] >= policy.reserveAmount + i.arg]

\* Mutant of recordReceipt: the receipts are kept and not asserted.
recordReceiptUnasserted(i, ok) ==
  /\ evidence' = Append(evidence, receiptOf(i, ok))
  /\ todo' = Tail(todo)
  /\ outcome' = IF todo' = << >> THEN "complete" ELSE outcome

\* Every receipt in the direction its step expects; a refusal by the covenant's state.
recordReceipt(i, ok) ==
  /\ evidence' = Append(evidence, receiptOf(i, ok))
  /\ IF /\ ok = i.ok
        /\ i.bps # Unchecked => reportedBps = i.bps
        /\ i.state # "any" => covenantState = i.state
        /\ i.principal # Unchecked => principal = i.principal
        /\ i.fn = "draw" /\ ~ok /\ route # "coffee" => refusalAt = "CURE"
     THEN /\ todo' = Tail(todo)
          /\ outcome' = IF todo' = << >> THEN "complete" ELSE outcome
     ELSE todo' = << >> /\ outcome' = "failed"

\* The call is mined, into a block that is not full yet.
perform ==
  /\ todo # << >> /\ result = "none"
  /\ LET i == Head(todo)
     IN \/ call(i) /\ result' = "success"
        \/ ~ENABLED call(i) /\ UNCHANGED <<vars, startedAt>> /\ result' = "reverted"
  /\ UNCHANGED <<setupVars, route, todo, evidence, outcome, early, behind>>

\* The block has ended, and the script has its receipt.
readReceipt ==
  /\ result # "none"
  /\ recordReceipt(Head(todo), result = "success")
  /\ result' = "none"
  /\ UNCHANGED <<vars, setupVars, route, startedAt, early, behind>>

-----------------------------------------------------------------------------

RunsInit ==
  /\ Init
  /\ SetupInit
  /\ route \in {"coffee", "deploy", "quorum"}
  /\ todo = CASE route = "coffee" -> coffeeScript
              [] route = "deploy" -> setUpAndDeploy(ManifestPolicy) \o arcScript
              [] route = "quorum" -> << >>
  /\ result = "none" /\ evidence = << >>
  /\ outcome = "running"
  /\ startedAt = 0
  /\ early = FALSE /\ behind = FALSE

\* The quorum's way: its scripts, one at a time, and the vault anybody may deploy once it is frozen.
\* The manifest names the new admin together with the new vault.
quorumSetup ==
  /\ route = "quorum" /\ todo = << >>
  /\ SetupNext
  /\ manifestAdmin' # manifestAdmin => deployed
  /\ UNCHANGED <<credentialVars, now, vaultVars, runVars>>

deployVault ==
  /\ route = "quorum"
  /\ deploy
  /\ UNCHANGED <<engineVars, setupVars, runVars>>

startArcFacility ==
  /\ route = "quorum" /\ setup = Idle /\ deployed /\ manifestAdmin # admin
  /\ outcome = "running" /\ todo = << >>
  /\ todo' = arcScript
  /\ UNCHANGED <<vars, setupVars, route, result, evidence, outcome, startedAt, early, behind>>

\* The block is being filled that has the message of a hedge.
hedgeObserved == result # "none" /\ Head(todo).fn = "observeHedge"

\* syncCovenant is permissionless, in the block of a call, too.
synchronizeByAnyone ==
  /\ route # "coffee" /\ deployed /\ todo # << >>
  /\ syncCovenant
  /\ early' = (early \/ covenantState = "UNASSESSED")
  /\ behind' = (behind \/ (hedgeObserved /\ covenantState' # covenantState))
  /\ UNCHANGED <<engineVars, setupVars, route, todo, result, evidence, outcome, startedAt>>

\* Time is followed while a script has calls before it, from block to block.
timePasses ==
  /\ todo # << >> /\ result = "none"
  /\ \E pause \in Pauses :
       /\ now + pause <= MaxTime
       /\ now' = now + pause
  /\ UNCHANGED <<credVars, vaultVars, setupVars, runVars>>

RunsNext ==
  \/ perform \/ readReceipt \/ quorumSetup \/ deployVault \/ startArcFacility
  \/ synchronizeByAnyone \/ timePasses

\* The operator goes on until she is done; Privy signs, the chain mines and blocks end.
RunsFairness ==
  /\ WF_systemVars(perform \/ readReceipt)
  /\ WF_systemVars(deployVault \/ startArcFacility)
  /\ WF_systemVars(quorumSetup /\ SetupProgress)
  /\ WF_systemVars(quorumSetup /\ mineSetupCall)

RunsSpec == RunsInit /\ [][RunsNext]_systemVars /\ RunsFairness

-----------------------------------------------------------------------------

\* Draws in the evidence, in the order of their blocks.
draws(ok) == {k \in DOMAIN evidence : evidence[k].fn = "draw" /\ evidence[k].ok = ok}

\* A run that calls itself complete has shown the control: a draw released, one refused
\* by a covenant in cure although the vault could have paid it, and one released again,
\* whatever anybody synchronized and however long it took.
EvidenceHonest ==
  outcome = "complete" =>
    \E a \in draws(TRUE), b \in draws(FALSE), c \in draws(TRUE) :
      /\ a < b /\ b < c
      /\ evidence[a].state = "COMPLIANT" /\ evidence[c].state = "COMPLIANT"
      /\ evidence[b].refusal = "CURE" /\ evidence[b].affordable

\* What the scripts assert holds of the contracts, whoever synchronizes between two blocks
\* and behind a draw, a synchronization or a restoration: a run fails only where somebody
\* synchronized a covenant that was never assessed, or moved it in the very block of an
\* observed hedge (arc-facility.ts:466 reads the end of that block, 215 and 220 expect the
\* covenant unmoved), or the exposure aged under it.
FailsOnlyDisturbed ==
  outcome = "failed" => early \/ behind \/ now > startedAt + policy.credentialMaxAge

\* Setting up is resumable in the composition too.
SetUpInTheEnd == route = "quorum" => SetupCompletes
=============================================================================
