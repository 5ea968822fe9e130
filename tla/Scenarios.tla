------------------------------- MODULE Scenarios -------------------------------
(***************************************************************************)
(* The scripts an operator runs against the deployed facility:             *)
(* scenarios/arc-waiver-run.ts, which can be killed and started again with *)
(* --resume, --adopt and --adopt-waiver; privy-waiver/scripts/             *)
(* run-waiver.ts; and arc-hedge-update.ts and arc-exposure-refresh.ts,     *)
(* which somebody runs in a second terminal with the same keys.            *)
(*                                                                         *)
(* A script is a list of instructions worked off one by one.  Sending a    *)
(* transaction and recording its receipt are two steps, because the        *)
(* process can be killed, and other transactions mined, between them.      *)
(* The facility is what the scripts can tell apart of it: whether hedges   *)
(* cover it, the covenant and its waiver, and how many draws the vault can *)
(* pay above its reserve.  The exposure stays eligible throughout, as the  *)
(* preflight demands with a margin, and the cure period does not run out.  *)
(***************************************************************************)
EXTENDS Integers, Sequences, SequencesExt, FiniteSets

CONSTANTS
  MaxStarts,   \* bound: runs of the two waiver scripts
  MaxUpdates,  \* bound: runs of the two update scripts
  MaxRejects   \* bound: rejections at another console

ASSUME ScenariosAssumption == MaxStarts \in Nat /\ MaxUpdates \in Nat /\ MaxRejects \in Nat

VARIABLES
  chain,    \* the facility
  queue,    \* transactions of the operator key on their way, in nonce order
  signed,   \* waiver intents whose transaction was broadcast and is not mined
  landed,   \* receipts
  intents,  \* the desk's waiver proposals
  main,     \* the waiver script that is running
  update,   \* the update script that is running
  file,     \* scenarios/output/arc-waiver-run-evidence.json
  report,   \* privy-waiver/evidence/arc-waiver-evidence.json, of run-waiver
  starts, updates, rejects

scriptVars == <<main, update, file, report>>
vars == <<chain, queue, signed, landed, intents, scriptVars, starts, updates, rejects>>

PHASES == <<"W-1", "W-2", "W-3", "W-4", "W-5", "W-6", "W-7">>
Phases == Range(PHASES)

Off == [name |-> "none"]

Init ==
  /\ chain \in [full : {TRUE}, hedge : {1}, exposure : {1}, state : {"COMPLIANT"},
                waiver : {"none"}, liquidity : {0, 3}, allowance : {0}]
  /\ queue = << >> /\ signed = {} /\ landed = << >>
  /\ intents = << >>
  /\ main = Off /\ update = Off
  /\ file = [run |-> 0, steps |-> {}, outcome |-> "none"]
  /\ report = [intent |-> 0, since |-> 0, outcome |-> "none"]
  /\ starts = 0 /\ updates = 0 /\ rejects = 0

-----------------------------------------------------------------------------
(* The facility.                                                           *)

\* The covenant as a synchronization would leave it.
judged == IF chain.waiver = "active" THEN "WAIVED"
          ELSE IF chain.full THEN "COMPLIANT" ELSE "CURE"

synchronized ==
  [chain EXCEPT !.state = judged, !.waiver = IF @ = "active" THEN @ ELSE "none"]

released == chain.full \/ chain.waiver = "active"

wouldSucceed(tx) ==
  CASE tx.fn = "deposit"           -> chain.allowance >= tx.arg
    [] tx.fn = "draw"              -> released /\ chain.liquidity > 0
    [] tx.fn \in {"submitRefreshed", "submitRestored"} -> tx.arg > chain.hedge
    [] tx.fn = "submitExposure"    -> tx.arg > chain.exposure
    [] tx.fn = "restoreCompliance" -> chain.full
    [] tx.fn = "createWaiver"      -> ~released
    [] OTHER                       -> TRUE

after(tx) ==
  CASE tx.fn = "approve"         -> [chain EXCEPT !.allowance = tx.arg]
    [] tx.fn = "deposit"         -> [chain EXCEPT !.allowance = @ - tx.arg,
                                                  !.liquidity = @ + tx.arg]
    [] tx.fn = "draw"            -> [synchronized EXCEPT !.liquidity = @ - 1]
    [] tx.fn = "submitRefreshed" -> [chain EXCEPT !.hedge = tx.arg, !.full = FALSE]
    [] tx.fn = "submitRestored"  -> [chain EXCEPT !.hedge = tx.arg, !.full = TRUE]
    [] tx.fn = "submitExposure"  -> [chain EXCEPT !.exposure = tx.arg]
    [] tx.fn = "createWaiver"    -> [chain EXCEPT !.state = "WAIVED", !.waiver = "active"]
    [] OTHER                     -> synchronized

\* What a draw simulated at this block is refused with.
refusalAt == synchronized.state

\* What the vault and the engine say at a block.
covenantAt(block) == [state |-> block.state, full |-> block.full]

land(tx) ==
  /\ chain' = IF wouldSucceed(tx) THEN after(tx) ELSE chain
  /\ landed' = Append(landed, [tx |-> tx, ok |-> wouldSucceed(tx), refusal |-> refusalAt,
                               covenant |-> covenantAt(chain')])

waiverTransaction(i) == [run |-> 0, step |-> "W-4", fn |-> "createWaiver", arg |-> i]

\* Either wallet's transactions are mined in nonce order.  The admin wallet's is the order of
\* the proposals: each pins the nonce behind what the node holds of it, and by then no older
\* one is sent any more.
mine ==
  \/ /\ queue # << >>
     /\ land(Head(queue))
     /\ queue' = Tail(queue)
     /\ UNCHANGED <<signed, intents, scriptVars, starts, updates, rejects>>
  \/ \E i \in signed :
       /\ \A j \in signed : i <= j
       /\ land(waiverTransaction(i))
       /\ signed' = signed \ {i}
       /\ UNCHANGED <<queue, intents, scriptVars, starts, updates, rejects>>

waiverLapses ==
  /\ chain.waiver = "active"
  /\ chain' = [chain EXCEPT !.waiver = "lapsed"]
  /\ UNCHANGED <<queue, signed, landed, intents, scriptVars, starts, updates, rejects>>

receipts(tx) == {r \in Range(landed) : r.tx = tx}

-----------------------------------------------------------------------------
(* The desk.                                                               *)

openIntents == {i \in DOMAIN intents : /\ intents[i].status \in {"pending", "executed"}
                                       /\ ~intents[i].broadcast}
recordedWaivers == {i \in DOMAIN intents : intents[i].broadcast}

\* An approver takes the proposal back at another console, signed or not.
reject ==
  /\ rejects < MaxRejects
  /\ rejects' = rejects + 1
  /\ \E i \in openIntents : intents' = [intents EXCEPT ![i].status = "rejected"]
  /\ UNCHANGED <<chain, queue, signed, landed, scriptVars, starts, updates>>

-----------------------------------------------------------------------------
(* What a run will send.                                                   *)

\* Mutant of planRun: the first version, which decided per mode.
planRunPerMode(adopted, adoptedWaiver, refreshExposure) ==
  LET done == IF adopted = {} THEN {} ELSE {"W-1", "W-2", "W-3"}
      all  == IF adoptedWaiver THEN done \cup {"W-4"} ELSE done
  IN {p \in Phases : (p = "W-7" => refreshExposure) /\ p \notin all}

\* The steps to send: those wanted and not adopted.
planRun(adopted, adoptedWaiver, refreshExposure) ==
  LET done == IF adoptedWaiver THEN adopted \cup {"W-4"} ELSE adopted
  IN {p \in Phases : (p = "W-7" => refreshExposure) /\ p \notin done}

atLeast0(n) == IF n < 0 THEN 0 ELSE n

\* In draws above the reserve: two for a fresh run, one after the first, then none.
depositNeeded(adoptedWaiver, resuming) ==
  atLeast0((IF adoptedWaiver THEN 0 ELSE IF resuming THEN 1 ELSE 2) - chain.liquidity)

send(step, fn, arg) ==
  << [op |-> "send", tx |-> [run |-> starts + 1, step |-> step, fn |-> fn, arg |-> arg]] >>
perform(op) == << [op |-> op] >>

fundAndDraw(deposit) ==
  (IF chain.allowance < deposit THEN send("W-1", "approve", deposit) ELSE << >>)
    \o (IF deposit > 0 THEN send("W-1", "deposit", deposit) ELSE << >>)
    \o send("W-1", "draw", 1)

Outcome(step) == step # "W-3"   \* W-3 is the refusal by definition

\* The last call of a step decides whether it is on chain.
lastCall(step) == IF step \in {"W-2", "W-6"} THEN "syncCovenant" ELSE "draw"
stepsOnChain ==
  {step \in Phases \ {"W-4", "W-7"} :
     \E r \in Range(landed) : /\ r.tx.run > 0 /\ r.tx.step = step
                              /\ r.tx.fn = lastCall(step) /\ r.ok = Outcome(step)}
nth(S, n) == CHOOSE k \in S : Cardinality({j \in S : j <= k}) = n
adoptions(steps) ==
  LET named == {k \in DOMAIN landed : /\ landed[k].tx.run > 0 /\ landed[k].tx.step \in steps
                                      /\ landed[k].ok = Outcome(landed[k].tx.step)}
  IN [n \in 1..Cardinality(named) |-> [op |-> "adopt", tx |-> landed[nth(named, n)].tx]]

\* The sequence of the script, less what the plan leaves out.  The hedge's number was
\* read by the preflight; the exposure's is read when its turn comes.
program(adopted, plan, deposit) ==
  LET when(step, instructions) == IF step \in plan THEN instructions ELSE << >>
  IN adoptions(adopted)
       \o when("W-1", fundAndDraw(deposit))
       \o when("W-2", send("W-2", "submitRefreshed", chain.hedge + 1)
                        \o send("W-2", "syncCovenant", 0))
       \o when("W-3", send("W-3", "draw", 1))
       \o perform("waive")
       \o when("W-5", send("W-5", "draw", 1))
       \o perform("lapse")
       \o when("W-6", send("W-6", "syncCovenant", 0))
       \o perform("waiverOver")
       \o when("W-7", perform("refresh"))
       \o perform("end")

\* The draw is expected not to simulate before a deposit and in a resumed run.
Blockers(adoptedWaiver, resuming) ==
  {b \in {"state", "waiver", "intent", "draw"} :
     \/ b = "state"  /\ chain.state # (IF adoptedWaiver THEN "WAIVED"
                                       ELSE IF resuming THEN "CURE" ELSE "COMPLIANT")
     \/ b = "waiver" /\ chain.waiver = "active"
     \/ b = "intent" /\ (openIntents = {}) = (resuming /\ ~adoptedWaiver)
     \/ b = "draw"   /\ depositNeeded(adoptedWaiver, resuming) = 0
                     /\ ~resuming /\ ~adoptedWaiver
                     /\ ~wouldSucceed([fn |-> "draw", arg |-> 1])}

\* The waiver that a draw was refused before, and that a draw of W-5 on chain was released
\* by.  The script does not ask.
belongs(i) ==
  \A j \in DOMAIN landed :
    landed[j].tx = waiverTransaction(i) =>
      /\ \E c \in DOMAIN landed : c < j /\ landed[c].tx.step = "W-3" /\ ~landed[c].ok
      /\ \A e \in DOMAIN landed : landed[e].tx.step = "W-5" /\ landed[e].ok => j < e

\* The operator starts arc-waiver-run when nothing of hers is on its way, names every
\* step that is on chain, and the waiver they belong with, until a run is complete.
startRun(adoptedWaiver, resuming, refreshExposure) ==
  LET adopted == stepsOnChain
      adopting == adoptedWaiver # 0
      deposit == depositNeeded(adopting, resuming)
  IN /\ main = Off /\ queue = << >>
     /\ starts < MaxStarts
     /\ file.outcome # "complete"
     /\ resuming => adopted # {}
     /\ adopting => adoptedWaiver \in recordedWaivers /\ belongs(adoptedWaiver)
     /\ "W-5" \in adopted => adopting
     /\ Blockers(adopting, resuming) = {}
     /\ main' = [name |-> "arc-waiver-run", at |-> "next", run |-> starts + 1, steps |-> {},
                 resuming |-> resuming, adoptedWaiver |-> adoptedWaiver, intent |-> 0,
                 todo |-> program(adopted, planRun(adopted, adopting, refreshExposure), deposit)]
     /\ starts' = starts + 1
     /\ UNCHANGED <<chain, queue, signed, landed, intents, update, file, report, updates, rejects>>

\* run-waiver.ts reads the chain and its proposals: it goes on with the one that is open,
\* or when the contract would take a waiver now.
startRunWaiver ==
  LET start(i) ==
        main' = [name |-> "run-waiver", at |-> "next", run |-> starts + 1, steps |-> {},
                 intent |-> i, passed |-> ~released, since |-> Len(landed),
                 todo |-> perform("propose")]
  IN /\ main = Off
     /\ starts < MaxStarts
     /\ \/ \E i \in openIntents : start(i)
        \/ openIntents = {} /\ ~released /\ start(0)
     /\ starts' = starts + 1
     /\ UNCHANGED <<chain, queue, signed, landed, intents, update, file, report, updates, rejects>>

-----------------------------------------------------------------------------
(* Working it off.                                                         *)

instruction == Head(main.todo)
doing(op) ==
  main # Off /\ main.at = "next" /\ main.todo # << >> /\ instruction.op = op
goOn(steps) == main' = [main EXCEPT !.at = "next", !.todo = Tail(@), !.steps = steps]

\* Only arc-waiver-run keeps its evidence step by step.
writeEvidence(steps, outcome) ==
  file' = IF main.name = "arc-waiver-run"
          THEN [run |-> main.run, steps |-> steps, outcome |-> outcome] ELSE file

\* An assertion throws: the finally block writes what there is.
fail(steps) == writeEvidence(steps, "failed") /\ main' = Off

\* What a draw must show after its receipt: W-5 that it was released by the waiver
\* alone, W-3 that the covenant refused it and not the reserve.
verifyDraw(r) ==
  /\ r.tx.step = "W-5" => r.covenant = [state |-> "WAIVED", full |-> FALSE]
  /\ r.tx.step = "W-3" => r.refusal = "CURE"

\* Mutant of record: the receipt is kept for the finally block.
recordAtEnd(r, asExpected) ==
  LET steps == main.steps \cup {r.tx}
  IN IF r.ok = Outcome(r.tx.step) /\ (r.tx.fn = "draw" => verifyDraw(r)) /\ asExpected
     THEN goOn(steps) /\ UNCHANGED file
     ELSE fail(steps)

\* Mutant of record: what a receipt shows is written and not asserted.
recordUnasserted(r, asExpected) ==
  LET steps == main.steps \cup {r.tx}
  IN goOn(steps) /\ writeEvidence(steps, "incomplete")

\* Written first, then asserted.
record(r, asExpected) ==
  LET steps == main.steps \cup {r.tx}
  IN IF r.ok = Outcome(r.tx.step) /\ (r.tx.fn = "draw" => verifyDraw(r)) /\ asExpected
     THEN goOn(steps) /\ writeEvidence(steps, "incomplete")
     ELSE fail(steps)

adoptStep ==
  /\ doing("adopt")
  /\ \E r \in receipts(instruction.tx) : record(r, TRUE)
  /\ UNCHANGED <<chain, queue, signed, landed, intents, update, report, starts, updates, rejects>>

\* The estimate of a call that would revert stops the script.  The refusal is sent with
\* a gas limit of its own, once it is predicted.
transact ==
  LET tx == instruction.tx
      ready == IF tx.step = "W-3" THEN refusalAt = "CURE" ELSE wouldSucceed(tx)
  IN /\ doing("send")
     /\ IF ready
        THEN /\ queue' = Append(queue, tx)
             /\ main' = [main EXCEPT !.at = "await"]
             /\ UNCHANGED file
        ELSE fail(main.steps) /\ UNCHANGED queue
     /\ UNCHANGED <<chain, signed, landed, intents, update, report, starts, updates, rejects>>

awaitReceipt ==
  /\ main # Off /\ main.at = "await"
  /\ \E r \in receipts(instruction.tx) :
       record(r, r.tx.fn = "syncCovenant" => r.covenant.state = "CURE")
  /\ UNCHANGED <<chain, queue, signed, landed, intents, update, report, starts, updates, rejects>>

refreshExposureCredential ==
  /\ doing("refresh")
  /\ main' = [main EXCEPT !.todo = << [op |-> "send",
                 tx |-> [run |-> main.run, step |-> "W-7", fn |-> "submitExposure",
                         arg |-> chain.exposure + 1]] >> \o Tail(@)]
  /\ UNCHANGED <<chain, queue, signed, landed, intents, update, file, report, starts, updates, rejects>>

newIntent == [status |-> "pending", approvals |-> 0, broadcast |-> FALSE]

\* Mutant of waive: an interrupted attempt's proposal is not looked for.
waiveAnew ==
  /\ doing("waive") /\ ~released
  /\ intents' = Append(intents, newIntent)
  /\ main' = [main EXCEPT !.at = "approve", !.intent = Len(intents) + 1]
  /\ UNCHANGED <<chain, queue, signed, landed, update, file, report, starts, updates, rejects>>

\* The waiver broadcast already, the one that is open, or a new one.
waive ==
  LET stuck == released \/ (main.resuming /\ openIntents = {} /\ main.adoptedWaiver = 0)
      taken(i, at) == main' = [main EXCEPT !.at = at, !.intent = i] /\ UNCHANGED <<intents, file>>
  IN /\ doing("waive")
     /\ \/ stuck /\ fail(main.steps) /\ UNCHANGED intents
        \/ ~stuck /\ main.adoptedWaiver # 0 /\ taken(main.adoptedWaiver, "recordWaiver")
        \/ ~stuck /\ main.adoptedWaiver = 0 /\ \E i \in openIntents : taken(i, "approve")
        \/ /\ ~stuck /\ main.adoptedWaiver = 0 /\ openIntents = {}
           /\ intents' = Append(intents, newIntent)
           /\ main' = [main EXCEPT !.at = "approve", !.intent = Len(intents) + 1]
           /\ UNCHANGED file
     /\ UNCHANGED <<chain, queue, signed, landed, update, report, starts, updates, rejects>>

\* run-waiver resumes what was open when it started; the desk refuses a second proposal,
\* and one that the contract would refuse by now.
proposeWaiver ==
  /\ doing("propose")
  /\ IF main.intent # 0
     THEN main' = [main EXCEPT !.at = "approve"] /\ UNCHANGED <<intents, file>>
     ELSE IF openIntents # {} \/ released
     THEN fail(main.steps) /\ UNCHANGED intents
     ELSE /\ intents' = Append(intents, newIntent)
          /\ main' = [main EXCEPT !.at = "approve", !.intent = Len(intents) + 1]
          /\ UNCHANGED file
  /\ UNCHANGED <<chain, queue, signed, landed, update, report, starts, updates, rejects>>

\* Each approver whose signature is missing signs; with the second Privy signs the
\* transaction, or fails.
approve ==
  LET i == main.intent
  IN /\ main # Off /\ main.at = "approve"
     /\ IF intents[i].status # "pending"
        THEN main' = [main EXCEPT !.at = "execute"] /\ UNCHANGED intents
        ELSE /\ UNCHANGED main
             /\ \E status \in IF intents[i].approvals = 0 THEN {"pending"} ELSE {"executed", "failed"} :
                  intents' = [intents EXCEPT ![i].approvals = @ + 1, ![i].status = status]
     /\ UNCHANGED <<chain, queue, signed, landed, update, file, report, starts, updates, rejects>>

\* The desk broadcasts what Privy signed, once more if it was broadcast before.
execute ==
  LET i == main.intent
  IN /\ main # Off /\ main.at = "execute"
     /\ IF intents[i].status # "executed"
        THEN fail(main.steps) /\ UNCHANGED signed
        ELSE /\ signed' = IF receipts(waiverTransaction(i)) = {} THEN signed \cup {i} ELSE signed
             /\ main' = [main EXCEPT !.at = "confirm"]
             /\ UNCHANGED file
     /\ UNCHANGED <<chain, queue, landed, intents, update, report, starts, updates, rejects>>

confirm ==
  LET i == main.intent
  IN /\ main # Off /\ main.at = "confirm"
     /\ \E r \in receipts(waiverTransaction(i)) :
          IF r.ok
          THEN /\ intents' = [intents EXCEPT ![i].broadcast = TRUE]
               /\ main' = [main EXCEPT !.at = "recordWaiver"]
               /\ UNCHANGED file
          ELSE fail(main.steps) /\ UNCHANGED intents
     /\ UNCHANGED <<chain, queue, signed, landed, update, report, starts, updates, rejects>>

recordWaiver ==
  /\ main # Off /\ main.at = "recordWaiver" /\ main.name = "arc-waiver-run"
  /\ \E r \in receipts(waiverTransaction(main.intent)) : record(r, r.covenant.state = "WAIVED")
  /\ UNCHANGED <<chain, queue, signed, landed, intents, update, report, starts, updates, rejects>>

\* Mutant of verifyWaiver: the receipt is enough, and the vault is not read back.
verifyReceipt ==
  /\ main # Off /\ main.at = "recordWaiver" /\ main.name = "run-waiver"
  /\ report' = [intent |-> main.intent, since |-> main.since,
                outcome |-> IF main.passed THEN "waiver created and verified" ELSE "FAILED"]
  /\ main' = Off
  /\ UNCHANGED <<chain, queue, signed, landed, intents, update, file, starts, updates, rejects>>

\* run-waiver reads the receipt again and the vault at its newest block, and says the
\* waiver was created and verified when the contract would have taken it at the start too.
verifyWaiver ==
  /\ main # Off /\ main.at = "recordWaiver" /\ main.name = "run-waiver"
  /\ LET readBack == chain.waiver = "active" /\ chain.state = "WAIVED"
         verified == main.passed /\ readBack
     IN report' = [intent |-> main.intent, since |-> main.since,
                   outcome |-> IF verified THEN "waiver created and verified" ELSE "FAILED"]
  /\ main' = Off
  /\ UNCHANGED <<chain, queue, signed, landed, intents, update, file, starts, updates, rejects>>

\* The run waits for the waiver to lapse, and later finds that it did.
lapse ==
  /\ doing("lapse") /\ chain.waiver # "active"
  /\ goOn(main.steps)
  /\ UNCHANGED <<chain, queue, signed, landed, intents, update, file, report, starts, updates, rejects>>

waiverOver ==
  /\ doing("waiverOver")
  /\ IF chain.waiver = "active" THEN fail(main.steps)
     ELSE goOn(main.steps) /\ UNCHANGED file
  /\ UNCHANGED <<chain, queue, signed, landed, intents, update, report, starts, updates, rejects>>

\* Left in CURE on purpose.
end ==
  /\ doing("end")
  /\ writeEvidence(main.steps, IF chain.state = "CURE" THEN "complete" ELSE "failed")
  /\ main' = Off
  /\ UNCHANGED <<chain, queue, signed, landed, intents, update, report, starts, updates, rejects>>

\* No finally block runs in a process that is killed.
kill ==
  /\ main # Off
  /\ main' = Off
  /\ UNCHANGED <<chain, queue, signed, landed, intents, update, file, report, starts, updates, rejects>>

-----------------------------------------------------------------------------
(* The second terminal.                                                    *)

updateTx(fn, arg) == [run |-> MaxStarts + updates + 1, step |-> "update", fn |-> fn, arg |-> arg]

startUpdate(todo) ==
  /\ update = Off
  /\ updates < MaxUpdates
  /\ updates' = updates + 1
  /\ update' = [name |-> "update", at |-> "next", todo |-> todo]
  /\ UNCHANGED <<chain, queue, signed, landed, intents, main, file, report, starts, rejects>>

\* arc-hedge-update.ts: "refreshed syncCovenant" or "restored restoreCompliance", one
\* above the number the registry holds when the script starts.
startHedgeUpdate ==
  /\ chain.waiver # "active"
  /\ \/ startUpdate(<<updateTx("submitRefreshed", chain.hedge + 1), updateTx("syncCovenant", 0)>>)
     \/ startUpdate(<<updateTx("submitRestored", chain.hedge + 1),
                      updateTx("restoreCompliance", 0)>>)

startExposureRefresh == startUpdate(<<updateTx("submitExposure", chain.exposure + 1)>>)

sendUpdate ==
  /\ update # Off /\ update.at = "next"
  /\ IF wouldSucceed(Head(update.todo))
     THEN /\ queue' = Append(queue, Head(update.todo))
          /\ update' = [update EXCEPT !.at = "await"]
     ELSE update' = Off /\ UNCHANGED queue
  /\ UNCHANGED <<chain, signed, landed, intents, main, file, report, starts, updates, rejects>>

\* The receipt that the update script is waiting for, if it is for one of these calls.
recorded(fns) ==
  IF update # Off /\ update.at = "await" /\ Head(update.todo).fn \in fns
  THEN receipts(Head(update.todo)) ELSE {}

\* A refused call is reported and never retried; a restored hedge that does not cover
\* the facility ends the script before it asks for the restoration.
recordHedgeUpdate ==
  /\ \E r \in recorded({"submitRefreshed", "submitRestored", "syncCovenant", "restoreCompliance"}) :
       update' = IF /\ r.ok /\ Len(update.todo) > 1
                    /\ r.tx.fn = "submitRestored" => r.covenant.full
                 THEN [update EXCEPT !.at = "next", !.todo = Tail(@)] ELSE Off
  /\ UNCHANGED <<chain, queue, signed, landed, intents, main, file, report, starts, updates, rejects>>

recordExposureRefresh ==
  /\ recorded({"submitExposure"}) # {}
  /\ update' = Off
  /\ UNCHANGED <<chain, queue, signed, landed, intents, main, file, report, starts, updates, rejects>>

-----------------------------------------------------------------------------

Next ==
  \/ mine \/ waiverLapses \/ reject
  \/ \E w \in 0..Len(intents), resuming, refreshExposure \in BOOLEAN :
       startRun(w, resuming, refreshExposure)
  \/ startRunWaiver
  \/ adoptStep \/ transact \/ awaitReceipt \/ refreshExposureCredential
  \/ waive \/ proposeWaiver \/ approve \/ execute \/ confirm \/ recordWaiver \/ verifyWaiver
  \/ lapse \/ waiverOver \/ end \/ kill
  \/ startHedgeUpdate \/ startExposureRefresh \/ sendUpdate
  \/ recordHedgeUpdate \/ recordExposureRefresh

Spec == Init /\ [][Next]_vars

-----------------------------------------------------------------------------

drawsOf(step) ==
  {k \in DOMAIN landed : landed[k].tx.step = step /\ landed[k].tx.fn = "draw" /\ landed[k].ok}

\* run-plan.ts:3-7: a step that is on chain is not sent again, so that neither step that
\* releases capital draws twice, however often runs are killed and started anew.  (The draw
\* of W-3 is refused by definition; should another terminal restore coverage before it is
\* mined, that run fails and a later one asks again.)
DrawnOncePerStep == \A step \in {"W-1", "W-5"} : Cardinality(drawsOf(step)) <= 1

\* "A finally is not a journal" (arc-waiver-run.ts:894): of what the latest run has on
\* chain the evidence on disk misses one transaction at most, killed or not.
JournalKeepsUp ==
  Cardinality({r.tx : r \in {q \in Range(landed) : q.tx.run = starts}}
                \ (IF file.run = starts THEN file.steps ELSE {})) <= 1

\* "Never a second proposal": runs that are killed and resumed leave one waiver in
\* flight at most.
OneWaiverInFlight == Cardinality(openIntents) <= 1

\* Where the evidence has what a step is about, in the order of the chain.
evidenced(step, fn, ok) ==
  {k \in DOMAIN landed : /\ landed[k].tx \in file.steps
                         /\ landed[k].tx.step = step /\ landed[k].tx.fn = fn
                         /\ landed[k].ok = ok}

\* run-waiver calls a waiver verified only when its transaction was mined after the run
\* had found that the contract would take one: neither a reverted one nor one that was
\* mined for an earlier run, has lapsed since, and is finished now.
VerifiedIsFresh ==
  report.outcome = "waiver created and verified" =>
    \E k \in DOMAIN landed : /\ landed[k].tx = waiverTransaction(report.intent)
                             /\ landed[k].ok /\ k > report.since

\* A run calls itself complete only with the whole sequence in hand, part of it perhaps
\* adopted from killed runs and with other scripts in between: released, reduced,
\* refused by the covenant, waived, released again by the waiver alone, and lapsed.
CompleteIsWhole ==
  file.outcome = "complete" =>
    \E a \in evidenced("W-1", "draw", TRUE), b \in evidenced("W-2", "syncCovenant", TRUE),
       c \in evidenced("W-3", "draw", FALSE), d \in evidenced("W-4", "createWaiver", TRUE),
       e \in evidenced("W-5", "draw", TRUE), f \in evidenced("W-6", "syncCovenant", TRUE) :
      /\ a < b /\ b < c /\ c < d /\ d < e /\ e < f
      /\ landed[c].refusal = "CURE"
      /\ landed[e].covenant = [state |-> "WAIVED", full |-> FALSE]
=============================================================================
