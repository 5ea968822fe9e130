# signa-arc in TLA+

This directory specifies, model-checks and proves parts of signa-arc: a set of
Solidity contracts that release a lender's capital only while a borrower's FX
exposure is hedged, and the off-chain programs that operate them. Paths below
are relative to the repository; line numbers are in `PROJECT.json` under `map`.

## The system

| Part | State it keeps | Operations | Hard about it |
|---|---|---|---|
| `contracts/src/FacilityRegistry.sol` | policy of a facility, two issuer roles, their counters and epochs | create, freeze, grant and withdraw either role | long alternations of grants and withdrawals |
| `contracts/src/CredentialRegistry.sol` | latest exposure message, latest hedge message per trade, list of active trades with a one-based index, revoked digests | submit (by anyone, any time), revoke | messages late, repeated, out of order; swap-and-pop |
| `contracts/src/CoverageEngine.sol` | none | `evaluate`, `assess`, eligibility views | boundaries of time and threshold, stale authority, integer division |
| `contracts/src/CovenantVault.sol` | covenant state, state beneath a waiver, principal, cure deadline, waiver end and reason, tokens | deposit, draw, repay, synchronize, restore, waive, revoke | deadlines that only show at a transaction; waivers over cures; stored state that is stale |
| `contracts/src/mocks/MockUSDC.sol` | balances, allowances | mint, approve, transfer | - |
| `packages/privy-waiver/src` | one JSON file of proposed actions, intents at Privy, the admin wallet's nonce | propose, approve, reject, execute; setup steps | check-then-act across awaits, crash between Privy and the file, reverted or already known broadcasts |
| `packages/privy-waiver/scripts` | `quorum.json`, evidence | create quorum, wallet and policy, set a facility up, run one waiver | killed anywhere and run again |
| `packages/cli` | append-only journal of transactions | simulate, send, wait, reconcile; the waiver commands | crash between send and journal, answers that are lost, receipts that time out, codes that must say whether anything was sent |
| `packages/client` | none | reads anchored at one block, receipts, aggregate status | reads that must all be of one block |
| `packages/credentials`, `packages/provider-adapter` | none | decimals, EIP-712 hashing, mapping of provider records | numeric limits |
| `scenarios`, `contracts/script` | evidence files | drivers for a live chain, one of them killed and resumed, others beside it with the same key | what is on chain must not be sent again; evidence must not claim more than was shown |
| `apps/dashboard` | browser state | poll, simulate, act | answers that arrive after the question changed |
| `apps/docs`, `scripts` | none | generate documents and ABIs | - |

How they interact. The two registries are storage: the credential registry reads
roles and policy of the facility registry when a message arrives, and the engine
reads both when it evaluates. The vault calls `evaluate` in every
synchronization and `assess` in every draw; `assess` calls the vault back for
`activeWaiver` and the token for the vault's balance. Messages are signed off
chain by the issuers and submitted by anybody. The admin's transactions are
signed by a quorum through the waiver service or by a key through the CLI; the
operator draws and repays through the CLI or the dashboard. Nothing on chain
happens by itself: time passes between transactions and what it changed shows
at the next one.

## Modules

    FacilityRegistry <- CredentialRegistry <- CoverageEngine <- CovenantVault
           ^                                                     |        |  implements
           |                                                     |   CovenantPromise
      FacilitySetup <------------- FacilityRuns -----------------+

    Reads <- Reports, Desk, Console     WaiverPanel     WaiverService     Cli     Scenarios

The first row is the on-chain system. Each module EXTENDS the one below it in the call graph, adds its variables, and
conjoins the others' actions with UNCHANGED on its own, so every module can be
checked and proved about alone and the last is the composed on-chain system.
`FacilityRuns` composes it with the quorum's setup and the scripts that run over it. The
other modules see of the chain what their component can tell apart of it.

Common to all: one facility (each mapping of the contracts is keyed by facility
and no handler touches another one's entries); one action per external handler,
enabled exactly when the handler does not revert and has an effect (a revert
undoes everything, so a reverting call is no step); the caller, and every
argument, chosen by `\E` from a constant set that also holds malformed ones.

**FacilityRegistry.** Variables are the contract's mappings at this facility.
`createFacility`, `freezeFacility`, `setExposureIssuer` and `setHedgeIssuer` are
the handlers; a set call that repeats the present authorization returns early
and is no step.

**CredentialRegistry.** `exposure` and `hedges` are the stored assertions,
`activeTradeIds` and `activeTradeIndex` the list and its index, maintained
literally by append, swap and pop. A submission is any message of the constant
sets recovered to any address: a signed message may be held back and delivered
later by anyone. A digest is modelled by the message it is the digest of.
`sourceCommitment` and `acceptedAt` are read by nothing and left out; all message
fields the facility does not vary over (facility id, settlement asset) too.

**CoverageEngine.** Adds `now`, the block timestamp, and `Tick`. `exposureReason`
and `hedgeReason` test in the contract's order; `grossEligible` sums over the
list as `evaluate` does; `coverageBps` divides and casts to 16 bits;
`assessAllowed` is `assess` for a host with a given balance and waiver.

**CovenantVault.** `synchronized` is the covenant `_syncCovenant` leaves, as a
record, so that `draw`, `createWaiver` and `revokeWaiver` can act on it within
their own step; `judged(base)` is the part below an active waiver's early
return. The token is its balances. Principal is bounded by `MaxPrincipal`: the
code's `+=` reverts at its own bound.

**CovenantPromise.** The abstract specification: where the covenant stands,
whether a waiver lies over it, how much is released. `PromiseKept` says the vault
implements it with `standing` (the state beneath a waiver), `covenantState =
"WAIVED"` and `principal`.

**WaiverService.** The quorum desk of `packages/privy-waiver`; it stands beside
the contracts' modules and sees the covenant only as `waivable`, whether
`createWaiver` would succeed at this moment.

- *State.* `actions[p]` is the `JsonFileStore`'s map in process `p`, read from
  `file` when the process starts; a save changes the map and then replaces the
  file by it. `requests[r]` is where the code of request `r` is suspended and what
  its local variables hold. `intents` is what Privy keeps; `mempool` and `mined`
  are the wallet's transactions at the node and on chain, by nonce.
- *Steps.* One awaited call taking effect, with the code that runs undisturbed
  after it. Proposing is seven steps (readiness, the list of open actions, a
  question to Privy for each, simulation, pinning, Privy's intent, the save),
  executing three (the comparison of what was pinned, recorded and signed; the
  broadcast; the receipt). A refusal or an exception ends the request where it is.
- *Environment.* Privy may record a different call, sign a different one, answer
  without a signature, refuse, or let an intent expire. The covenant changes at any
  time. Approvals come from any member in any order, and a rejection at any time
  before the signature is used.
- *Failures.* `MaxFailures` bounds crashes, failed writes and broken connections
  together; each can happen at every suspension point.
- *Left out.* Hashes, fees and the encoding of a transaction (it is its call and
  nonce), the age of an approval's signature, HTTP parsing.

Privy, the node and the covenant are external to this package: their actions are
marked so in `map` and modelled by how the code uses them.

**FacilitySetup.** The three provisioning scripts, each a sequence of steps with a
record on disk (`record` is `quorum.json`, `store` the service's actions), killed
anywhere and run again. `nextFacilitySetupStep` reads from `FacilityRegistry`'s own variables
what is still missing; `resumeOpen` finishes what an earlier run left open before more
is proposed. A call that is mined has its effect, changes nothing, or reverts with one
of the registry's errors (`reverts`). Anybody may take the facility's label first. Privy
may let an intent fail. `SetupAssumption` says what the manifest and Privy guarantee: the
wallets have different addresses, none of them an account of the manifest's, there is one
for every kill that may leave a wallet behind, the two issuers differ, and the manifest's
policy is one that the registry takes.

**FacilityRuns.** Three routes from nothing to published evidence:
`coffee-facility.ts` on a private chain; `Deploy.s.sol` and then `arc-facility.ts`;
the quorum's setup and then `arc-facility.ts`. A script is a list of calls with what it
asserts of each, performed by the actions of `CovenantVault` itself: the numbers
expected of coverage, the refusals and the states are those the scripts assert. A call
and its receipt are two steps: `perform` mines the call into a block that is not full
yet, `readReceipt` records it with the covenant as that block ends (arc-facility.ts:466)
and asserts. On the public chain anybody synchronizes between the blocks and behind a
call in the call's own block, and time passes from block to block, so that credentials
age; the private Anvil gives every transaction a block. Others only synchronize: they
neither deposit nor submit the script's messages before it does. Two things that they can
do make the script fail: to synchronize a covenant that was never assessed (`early`), and
to synchronize in the very block of an observed hedge where that moves the covenant, so
that the script finds a state it does not expect (lines 215, 220; `behind`).
`FailsOnlyDisturbed` names both.
The gate's answer at the block before a refused draw (lines 405-412) is not modelled.
`observeAt` and `mapProviderFixture` are the provider adapter's.

**Scenarios.** `arc-waiver-run.ts` with `--resume`, `--adopt` and `--adopt-waiver`,
`run-waiver.ts`, and the two update scripts in a second terminal. `program` is the list
of instructions a run works off, less what `planRun` leaves out because it is on chain;
sending and recording are two steps, with a kill, another script's transaction, a
rejection at the desk or the waiver's end between them. `file` and `report` are the
evidence on disk. The operator key's transactions are mined in the order of `queue`, the
waivers in that of their proposals: each pins the next nonce of the wallet. An operator
who adopts a waiver names the one of the runs she adopts (`belongs`), which the script
does not check.

**Cli.** A sending command from the session to its report (`performSend` in five
steps), `waiver broadcast`, `tx show`, the journal, and an operator who sends again only
what she may take for not broadcast: by the codes of errors.md, the journal and `tx
show`. Kills, a journal that cannot be written, an answer of cast that is lost, a
transaction the node forgets and RPC failures at every read. A block holds any number of
transactions: hers, and those of others before, between and behind hers, a
synchronization of the covenant among them. `open` has her transactions in the block that is
being filled; nobody sees it before `sealBlock`. A report reads the facility as the
receipt's block ends, as the code does (cli.ts:469, 578, 663), so another's revocation
and synchronization behind a restoration in the same block are in what it says. `last`
tells whether anything stands behind a transaction in its block, and `ReportShowsEffect`
says what the report means then and what it means otherwise.

**Reads, Reports, Desk, Console.** `Reads` is a chain that goes on and a read in
stages whose answers come in any order. `Reports` has the five reading commands of
signa at their session's block. `Desk` is the page of `Desk.tsx` over `data/client.ts`:
the polled snapshot, the debounced preflight cached by key, the verdict held over while
the same request is asked again, the maximum. `Console` is the earlier page `main.ts`:
the gate with its request numbers, the wallet, one action at a time.

**WaiverPanel.** The panel `WaiverPanel.tsx` over `data/approver.ts` and
`data/approverKeys.ts`. `keys` are the members' keys the page holds, `signing` the approval
under way for each role, with the call that was on the page at the click, `signatures`
those given: the payload, the key, and what was shown at the click. The service is its
environment and may do anything: list any call with any intent, status and ticks, hand out
the payload of another, hold back, repeat or never pass on what was signed. What the panel
ticks off and which buttons it offers is the service's word (`actionSteps`,
approver.ts:139-150), so nothing is claimed of it, and every button may be there at any
time. Privy alone is trusted, to verify a signature over what it recorded, which need not
be what the service says it proposed. A call stands for what `inspectPayload` compares.
The panel shares no state with the rest of the page.

**Coarser than the code.** Some definitions allow more than the code does, or leave out a
path of it that no property tells apart. `Cli.executeSend` has one code for the desk's
502 and 409 (waiver.ts:214-217). `Scenarios.transact` sends the draw that is to be refused
only when a cure refusal is predicted, the script on any refusal it can decode; `waive`
leaves out that the service refuses a second proposal. `Desk.readStage` takes a multicall
as answered or failed as a whole (client.ts:55, 65). `Desk.findMax` asks after a failed
read, too. `Console.simulateWrite` permits a repayment by a stranger or beyond the
principal, and `connectWallet` leaves out the refresh after a connection that failed or
changed nothing. `WaiverService.confirm` takes a receipt by its hash only; viem can return
that of a replacing transaction.

## Runs

| Run | Question | Bounds and why they are enough |
|---|---|---|
| `MCAuthority` | do roles, counters, epochs and the active list agree under every order of calls and messages, and is revocation, and loss of authority, final? | three issuers and the zero address; one withdrawal per role and a grant after it; two trades for one or two places (a refusal at the limit, a swap), two sequence numbers, ACTIVE and then CANCELLED, malformed messages; that a trade returns to the list is in `ActiveListSafety` only; valid and invalid policies |
| `MCCoverageEngine` | does the evaluation rule as specified? | two trades whose notionals floor to exactly the threshold and one unit below; post-dated, expiring and stale messages within three seconds; one withdrawal per role |
| `MCCovenantClock` | does the cure clock run as promised, and does a cure period, and a waiver, end? | coverage that comes, falls short and comes back; time for two cure periods, waivers of one and two seconds and a breach |
| `MCCapital` | is capital released only when it may be? | amounts up to the vault's balance, a reserve of one, every kind of loss of coverage |
| `MCDeskInTurn` | is one action in flight, its nonce free, only what was approved sent, only what succeeded recorded, no proposal forgotten, and a successful waiver recorded in the end? | one console and one request at a time; a quorum of two; two calls, so that Privy can swap one for the other; two intents, so that a later proposal meets what the first left behind; two crashes, failed writes or broken connections anywhere |
| `MCScenarios` | is nothing sent twice, is the evidence kept up, and does it claim no more than happened? | two runs, so that every killed run can be resumed or adopted once; one run of an update script, one rejection, waivers that lapse |
| `MCFacilityRuns` | does a facility get set up once and in the end, and what does its evidence show? | the repository's two facilities with their own policies and amounts; one kill and one intent that fails; pauses of twelve hours up to thirty-six, past the age a credential may have; synchronizations by anybody, between blocks and within one, are unbounded |
| `MCCli` | is nothing done twice, and is what was sent known in the end? | two commands, so that a retry meets what the first left; four goals; one fault anywhere; any number of other people's transactions, in her blocks too. A synchronizing command differs from a restoring one only in being accepted always: what its report says is shown by the theorem |
| `MCReads` | are reports and snapshots of one block, what is shown beside an amount the answer for it, and is what a member's key signs at the panel the call shown beside it? | two blocks, the second any change of evidence, waiver or tokens; amounts around the reserve; three gate requests. For the panel, two members, two intents and two calls, so that a payload can be of another of either, one proposal at Privy (`MaxProposals`), because the panel compares one at a time, and two approvals under way or given (`MaxSignatures`), enough for a full quorum; the theorem has no bound. The readers only share the chain, so each is run beside it alone, and the panel by itself |
| `MCOneInFlight` (violation) | is one action in flight when requests overlap? | two requests at one console, no failure |
| `MCMinedUnrecorded` (violation) | is every mined transaction recorded in the end? | one request at a time, no failure |
| `MCCodeAnswers` (violation) | does the code of a failed command say whether anything was broadcast? | one goal, two commands, one fault |

The desk's runs check for deadlock. The others do not: time, epochs, blocks, runs and
scripts are bounded and end, so a behaviour of the model may end where the system's
would go on, or where nothing is left to do. Symmetry is used where issuers and trades
are interchangeable (`MCAuthority`, which has no liveness property).

The three violations are disagreements between the code and what its comments and
documents say. `MCOneInFlight`: service.ts says that only one action may be in flight,
but lists the open ones several awaits before it saves the new one; two overlapping
proposals both pass and pin the same nonce, and one of the two waivers can never be
executed. `MCMinedUnrecorded`: a comment says the broadcast is recorded because the
transaction is mined either way; a reverted receipt throws before that line, and the
action stays in flight and refuses every later proposal. `MCCodeAnswers`: errors.md says
that `INVALID_*` and `SIGNER_UNAVAILABLE` mean that nothing reached the chain; a journal
that cannot be written after the send ends with the first, without the hash, and an
answer of cast that is lost after its broadcast with the second. `DoneOnce` and
`HashOutlivesCommand` therefore leave these two windows out, and hold outside them.

**Fairness.** `FairSpec` assumes that block time goes on (weak fairness of
`Tick`), and that somebody goes on calling `syncCovenant`, which is open to
everyone. The second is an assumption about operators, not a fact of the code:
the vault never moves by itself. Nobody is assumed to submit messages, to draw
or to waive. The desk's `FairSpec` assumes that the node mines the next transaction
it holds, that a process goes on with a request it has begun (both weak), and that
approvers keep asking for the execution of a waiver that was signed. The last is
strong fairness, per intent: each of the finitely many other requests is served
and ends, so there is again and again a moment at which to ask. Nobody is assumed to
propose, approve or restart. `RunsSpec` assumes that the operator runs the scripts until
they are done and that approvers, Privy and the chain do their part (weak, over the
steps of `SetupProgress`); kills and failed intents are bounded, so there is a last
one. `Cli`'s `Spec` is weak fairness of `progress`: blocks end, a command that has begun
goes on until it ends, and the operator looks at a mined hash on a day the RPC answers.
It does not assume that a transaction is mined. `Scenarios` and the readers have no
liveness property: a run that is killed may never be started again.

**Seen while modelling, and not a run.** Behaviour a reader of the code may want to
know of; each is in the model or beside it.

- A message observed in the future is accepted and begins to count when its time comes,
  so an evaluation can become compliant by time alone (PRD.md R-F3-9 and
  PROTOTYPE-SPEC.md section 8 say time restores nothing). The epoch is not part of a
  signed message: one held back until its issuer has the role again counts.
- An UNASSESSED covenant goes to CURE, with a deadline, also when the exposure is
  missing or unusable; PROTOTYPE-SPEC.md section 8 says *valid* evaluation.
- Two processes on one store file lose each other's proposals: each reads the file once
  and writes its own copy of it. cli.ts:147 documents that they do not see each other's,
  store.ts:11 wants the record to outlive a restart.
- waiver.ts:208 says that a 502 only ever comes from `execute` after the transaction is
  on chain; `assertIntentMatches` in propose and approve throws one too, and it is
  reported as TRANSACTION_REVERTED. A reverted waiver is reported as RPC_UNAVAILABLE,
  retryable. `waiver broadcast` journals "failed" for a timeout.
- A postcondition that cannot be read after a mined draw ends with RPC_UNAVAILABLE and no
  hash; `tx show` takes an RPC error for "unknown" or "pending". Only the journal tells.
- `arc-waiver-run.ts` re-asserts an adopted W-2 or W-6 by its status only; it does not
  check that an adopted waiver precedes the adopted W-5; killed between W-2 and the
  proposal it cannot be resumed; a resumed run's first write replaces the earlier
  evidence. `run-waiver.ts` resuming a waiver that is already active reports FAILED.
- The waiver-only policy would refuse the probe that provision-quorum.ts sends "on every
  run". A create that reverted because the label was taken is never recorded and stays
  open.
- The draw of W-3 is sent with a gas limit of its own and is refused by definition; when
  another terminal restores coverage between its simulation and its block it succeeds,
  the run fails, and a later run asks for it again. `DrawnOncePerStep` is therefore about
  the two draws that are meant to release capital.
- `--adopt-waiver` takes any waiver that is recorded (arc-waiver-run.ts:638); one that
  was mined before the refused draw, or after an adopted W-5, makes evidence that calls
  itself complete out of order. The model leaves the choice to the operator (`belongs`).
- The waiver panel looks the stored keys up one after the other when it is opened and then
  sets them all: a key imported meanwhile disappears from the page, and one forgotten
  meanwhile comes back to it, until it is opened again. Its "Propose" button is only
  marked as disabled and takes clicks all the same. Any key can be imported in a role's
  place, and signing with it is reported as that role's approval although Privy counts it
  for the member whose key it is.
- The console's panels (main.ts) read without naming a block, so fields shown together
  may be of different blocks; its gate is not refreshed by the first reading, although a
  comment says "after every state refresh"; a repayment whose second transaction fails
  leaves its allowance behind.

## Proofs

Eight proof modules. Those of the contracts extend each other like the contracts'
modules do, so that a step of a registry is handled once and cited by everything above;
that of the scripts' evidence takes the lemmas of the coverage engine, and the other four
each stand over their component. All hold for any
sets of accounts, issuers, trades, messages, amounts,
durations and reasons, any numbers of requests, runs, commands, kills and faults, and any
bounds on time, epochs and principal. The
assumptions are those named in the modules: constants have their fields' types,
the zero address is nobody's, the vault is no account, exposure and hedge
messages differ, a reader's trades are finite, and `SetupAssumption` above.

**RegistryProofs.** `RegistryInv` (types, disjoint roles, exact
counters) is inductive: a counter that equals the cardinality of its role cannot
underflow in a withdrawal. From it `RegistrySafety`, `RolesStayDisjoint`,
`PolicyNeverChanges` and `EpochsSeparatePeriods`.
`CredentialInv` adds that list,
index and stored messages agree, that the list is within the policy's limit, and
what the action properties rest on: stored messages were acceptable when they
came, their recorded epoch is not ahead of their issuer's, and sequences only
grow. The proof splits each submission into its effect on the list (none,
append, swap and pop) and its effect on the slot. `ActiveListSafety`,
`RevocationIsFinal`, `LostAuthorityStaysLost`.

**CoverageEngineProofs.** The evaluation tests reasons one after another and
rounds twice; the theorems compare it with a rule that does neither.
`ExposureReasonMeans` and `HedgeReasonMeans` say which conjunction each reason
stands for, `FlooredThreshold` that `a * 10000 \div v >= m` is `a * 10000 >= m *
v`. `UnreachableReasons`, `EvaluationIsExact`, `SpentStaysSpent`.
For `EvaluationIsExact` the two have to agree on a total. The model sums with the
library's `MapThenSumSet`, which recurs over a set; the library's induction theorem takes
an operator, so the induction is over finite sets with a set of sets in its place
(`SetInduction`), on the function that the recursion defines (`TotalsExist`,
`TotalsUnique`, and `TotalOfOneAndRest`: the order of taking members does not matter). The
code's loop over the places of the list is then the rule's sum over the usable trades
(`TotalsAgree`, `LoopSumsUsable`), because the list holds each of them once. A haircut
is a share in every policy that can be created, so no term is negative; and what counts is
at most the outstanding value, so the ratio fits the 16 bits it is cast to.

**CovenantVaultProofs.** `VaultInv` is `EngineInv`, the types, and
`CovenantInv`. The latter strengthens the three invariants of the covenant by
what they need to survive a step: an existing facility has a positive cure period
(so a deadline that was set is never mistaken for none), a deployed vault's
policy is frozen (so the bound on a waiver does not move under it), and a vault
not yet deployed is unassessed. `Judgement` says once what an evaluation makes of
any covenant; `VaultSteps` reduces the handlers to five kinds of step; each
action property and the refinement then takes one case per kind.
`TypeCorrect` (principal and balances never underflow; no run repeats it),
`CovenantSafety`, `BreachIsLate`, `WaiversAreBounded`,
`CureClockHonest`, `NoStaleDraw`, `CapitalStaysProtected`, and `PromiseImplemented`: the
initial states map to the
promise's, a judgement to `Evaluate`, `createWaiver` to `Waive`, `draw` to
`Release`, `repay` to `Repay`, and everything else to a stutter.

**WaiverServiceProofs.** `ServiceInv` is the types and what relates the three
places a waiver is known in. Privy goes on only with an intent whose quorum is full
(`QuorumFirst`); each copy of the store, in memory and on disk, agrees with Privy on
the pinned transaction and records only broadcasts that succeeded
(`FaithfulCopy`); a request that has begun to execute still finds its action in its
process's store, with a full quorum behind it (`FaithfulRequest`, needed because
execution resumes after awaits). `Grown` says what time never undoes, and
`GrowthKeeps` that all three survive it, so a step of the environment needs only
that it grows. The desk's saves are one lemma (`SaveKeeps`), for a proposal and for
a broadcast, whether the write succeeds or not. `ServiceTypesHold`,
`OnlyApprovedIsSent`, `RecordedHappened`, for any number of processes and requests.

Two more hold for one process that serves one request at a time, which is their
hypothesis `InTurn(r)`, as in `MCDeskInTurn`; the violation `MCOneInFlight` is why it is
needed. `NoncesInOrder` says that the chain holds the wallet's transactions by nonce and
the node one for each later nonce, so that a pending nonce is free (`PendingNonceIsFree`).
`TurnInv` says that of the actions in memory and on disk that may still be sent there is
one, whose nonce nobody has taken (`StoresInTurn`), and what the request has found out by
where it stands (`RequestInTurn`): which of the stored actions it has still to ask Privy
about, that none is open once it has asked about all, that the nonce it pinned is free.
`OneInFlightInTurn`, `NonceHeldInTurn`. `FileOutlivesRestarts` needs one process only,
with any number of requests: the process knows every action on disk (`KnowsFile`), so
that what it writes holds them all.

**CliProofs.** `CliInv` says of every
command what its stage implies (`Consistent`: whether it has sent, whether it was
misled, which codes it may still end with), of every transaction which command it
belongs to, and that a command only ever begins for a goal whose earlier commands all
came to nothing (`OrderInv`). A step moves one command and may send its transaction
(`Moved`, `MaySend`); `MoveKeeps` does once what each of the command's steps then needs.
`HashIsKept` and `NothingTwice` follow: two transactions of one goal would need two
commands, the later begun on a code that can only be given when nothing was sent, or
when the journal showed that it failed. `ReportIsOfTheEffect`: the facility at the end of
the block in which a transaction succeeded has of its effect what others behind it in the
block leave (`Effect(goal, c, last)`), and a command reads its postconditions there
(`Shows`). The block that is being filled ends where the chain is; a transaction that is
added to it, hers or another's, leaves each earlier one what it promises (`BlockGoesOn`),
and a sealed block does not change any more (`SealKeeps`).

**ReadsProofs.** A block that was mined stays what it was (`MineGrows`), so that what is
true at a block stays true of it. A reading has of its block what it has been answered
(`ReadingOf`), and a stage answered adds to it what is true there, whatever is mined
meanwhile. `ReportInv` and `DeskInv` say so of the report and of the snapshot on its way;
`DeskInv` also that the cached answers are right for their keys, a held one included. `ReportsAreOfOneBlock`,
`DeskIsOfOneBlock`, `VerdictIsTheVaults`. For the console, the newest request, if it is
still on its way, is for what the gate shows, and while no action is carried out and no
timer runs what the gate shows is the field (`ConsoleInv`): `GateAnswers`. For the panel, a
signature is over the payload that was shown at its click (`SignaturesInv`), and each
approval that Privy counts rests on a signature given beside the call it recorded
(`ProposalsInv`), whatever the service said in between: `PanelSignsWhatItShows`.

**ScenariosProofs.**
`WaiverInv`: what is approved, rejected or broadcast was open before, and a waiver is
proposed only where none is (`NeverASecondProposal`). `DrawInv`: a draw of a step is in
one of three places, and once: asked for in what is left of the program, queued, or on
chain (`Once`). The program of a run is joined from lists that each ask for their own
step's draw at most (`PartsJoin`, `ProgramPart`); a run starts only with an empty queue
and plans no step that is on chain (`StartKeeps`): `NoSecondDraw`. `FreshInv`: if a run of
`run-waiver.ts` passed its check at the start although its waiver was already on chain,
no waiver is active then, and none becomes so while it runs, so it cannot read one back
(`VerifiedWaiverIsFresh`). `JournalInv`: of the transactions of the run that is
going on, the evidence misses none while it is between two steps and the one just sent
while it waits for its receipt; of one that was killed, at most the one it had sent
(`EvidenceKeepsUp`).

`CompleteRunIsWhole` needs where a run stands. `ThirdInv`: a run's own draw of W-3 has one
receipt. `LinkInv`: the last call of W-2, of W-3 or of W-6 is queued or on chain only when
that of the step before it is on chain. `Script` relates a run to its program: what
is left is the end of the program in the order of the stages (`Place`); every step's
transactions are in the evidence, still to be adopted or waited for, and those of a step
not done are still asked for (`Books`); receipts recorded were as asserted (`Verified`);
and the waiver lies between the refused draw and the one it releases unless it lapsed
(`Waiving`). At the end of the program nothing is left to ask for, so everything is done,
and in order (`EndIsWhole`).

**FacilityRunsProofs.** The setup's order. `SetupInv`: Privy has a wallet for each kill
that can have left one and the one that is recorded (`WalletsCounted`); every action is
the recorded wallet's, one at most is open, and one that was signed has no receipt yet
(`ByQuorum`); and, unless somebody took the label, an action that can still be sent is
the next call the chain misses, and no two receipts are of the same call (`InOrder`).
`CallsLandOnce` states it of the composition, in which the setup of the other routes
never starts. The evidence. `EvidenceSoFar`: by how many calls are left of the script,
what the evidence already shows (`Shown`) and how much the vault still holds (`Affords`),
so that the draw refused could have been paid; a call that does not go as asserted ends the
run as failed, and one that does leaves what the rest needs until its receipt is
read. `PublicEvidenceIsHonest` takes the two routes on the public chain, where whoever
likes synchronizes meanwhile. `CompleteEvidenceIsHonest` adds the coffee script, which
reads only that its draw was refused, not why. `CoffeeFunds`, `CoffeeCover` and
`CoffeeShown` say what each call of it finds once the call before it went as asserted
(`AsAsserted`): the vault's balance, the exposure, one trade at most on the list, a
compliant covenant before the draw that is to be refused. That draw
is refused by a covenant in cure, or by one whose cover was sufficient (`Explained`,
`RefusalExplained`). With
one trade all of the list counts or nothing does, as time passes (`AllOrNothing`), so after
a sufficient cover no synchronization finds the shortfall in cure that the next call
asserts (`CureMeansCure`): the run would have ended as failed.

Every invariant of a run that is proved was checked in its run first. Model-checked only:

- liveness, and everything below a fairness assumption (`CureResolves`, `WaiverLapses`,
  `SuccessIsRecorded`, `SetUpInTheEnd`, `Reconciled`), which is outside the prover's reach;
- `FailsOnlyDisturbed`. Its runs take a call as refused where the handler is not
  `ENABLED`, which the prover does not expand; and it holds of the amounts and supplies
  that the deployments use, not of every value of the constants: a `Supply` smaller than
  the script's deposit makes a run fail that nobody disturbed.

## Plan

Modelled so far: the contracts, the quorum desk, the facility's setup, the scripts, the
CLI, the reports and the dashboard; proved, what the last section lists. In the order of
what it would add:

1. A kill of `arc-facility.ts`, which has no resumption, with the evidence it leaves.
2. Pure operators for decimals and the provider's schema, against reference definitions
   over bounded inputs.

## Not modelled

- *On chain.* Signature recovery and hashing (assumed injective), events, gas, other
  facilities in the same registries, allowances and minting of the mock token, and
  timestamps near 2^64.
- *Quorum service.* The age and encoding of approvals' signatures, HTTP parsing, what the
  wallet's policy compares, and the probes the provisioning scripts send to Privy to show
  what it refuses.
- *CLI and client.* `waiver status` and `credentials inspect`, which only read; the keys'
  files; the formats of configuration, manifests, envelopes and output.
- *Credentials.* Decimals, currency codes and typed data are pure conversions without
  state. Of the provider adapter, the schema, the signing and the command line.
- *Scripts.* A kill of a linear script, keystores, the wording of evidence.
- *Dashboard.* Rendering, and the readiness that the waiver panel shows.
- *Documentation site and build scripts.* They generate files.
