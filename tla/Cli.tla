---------------------------------- MODULE Cli ----------------------------------
(***************************************************************************)
(* packages/cli: the commands of signa that send one transaction, and the  *)
(* operator who runs them, one after the other.  A command reads at        *)
(* the block it started from, simulates there, sends through cast (or      *)
(* through the desk, for a waiver that Privy has signed), and decides by   *)
(* the receipt.  It can be killed at every step, the journal may not take  *)
(* a line, cast may lose an answer and the RPC may fail at any read.       *)
(*                                                                         *)
(* The operator goes by apps/docs/.../errors.md, "Was anything broadcast?": *)
(* she sends again what the code says was not broadcast or was reverted,   *)
(* and reconciles the rest with the journal and `signa tx show`.           *)
(*                                                                         *)
(* The facility is what the commands can tell apart of it; a waiver does   *)
(* not run out.  Transactions are mined in any order, long after the       *)
(* command that sent them has given up, too, and a block holds any number  *)
(* of them: hers, and those of others before, between and behind hers.     *)
(***************************************************************************)
EXTENDS Integers, Sequences, FiniteSets, Functions

CONSTANTS
  Goals,       \* what the operator wants done, once each
  MaxSequence, \* bound: sequences the credential's issuer signs; hers is 1
  MaxRuns,     \* bound: commands she runs
  MaxFaults    \* bound: kills, journal failures, answers and transactions lost

ASSUME CliAssumption ==
  /\ Goals \subseteq {"draw", "submit", "sync", "restore", "waiver"}
  /\ MaxSequence \in Nat /\ MaxRuns \in Nat /\ MaxFaults \in Nat

VARIABLES
  chain,     \* the facility at the head of the chain
  pool,      \* transactions that the node holds
  open,      \* those it has mined into the block that is being filled
  receipts,  \* those it has mined: status, of a success the facility at the end of its
             \* block, and whether it is the last in it
  journal,   \* operations.jsonl: the runs whose hash it has
  runs,      \* the commands run so far
  confirmed, \* the desk's store records the waiver's broadcast
  faults

vars == <<chain, pool, open, receipts, journal, runs, confirmed, faults>>

Init ==
  /\ chain \in [covered : BOOLEAN, waived : {FALSE}, sequence : {0},
                state : {"COMPLIANT", "CURE"}]
  /\ pool = {} /\ open = {} /\ receipts = << >>
  /\ journal = {}
  /\ runs = << >>
  /\ confirmed = FALSE
  /\ faults = 0

-----------------------------------------------------------------------------
(* The chain.                                                              *)

judged(c) == IF c.waived THEN "WAIVED" ELSE IF c.covered THEN "COMPLIANT" ELSE "CURE"

accepts(c, goal) ==
  CASE goal = "draw"    -> c.covered \/ c.waived
    [] goal = "submit"  -> c.sequence < 1
    [] goal = "sync"    -> TRUE
    [] goal = "restore" -> c.covered
    [] goal = "waiver"  -> ~c.covered /\ ~c.waived

after(c, goal) ==
  CASE goal = "submit" -> [c EXCEPT !.sequence = 1]
    [] goal = "waiver" -> [c EXCEPT !.waived = TRUE, !.state = "WAIVED"]
    [] OTHER           -> [c EXCEPT !.state = judged(c)]

\* What anybody else's transaction does: coverage moves, a later message lands, or the
\* very envelope is submitted by somebody else, and anybody synchronizes the covenant.
others(c) ==
  {[c EXCEPT !.covered = ~@], [c EXCEPT !.state = judged(c)]}
    \cup {[c EXCEPT !.sequence = s] : s \in (c.sequence + 1)..MaxSequence}

\* The facility is at c behind one more transaction of the block that is being filled.
receiptsAt(c) ==
  [t \in DOMAIN receipts |->
     IF t \in open /\ receipts[t].ok
     THEN [receipts[t] EXCEPT !.block = {c}, !.last = FALSE] ELSE receipts[t]]

chainMoves ==
  /\ chain' \in others(chain)
  /\ receipts' = receiptsAt(chain')
  /\ UNCHANGED <<pool, open, journal, runs, confirmed, faults>>

mine ==
  /\ \E tx \in pool :
       LET ok == accepts(chain, tx.goal)
       IN /\ chain' = IF ok THEN after(chain, tx.goal) ELSE chain
          /\ receipts' = [t \in DOMAIN receipts \cup {tx} |->
               IF t = tx
               THEN [ok |-> ok, block |-> IF ok THEN {chain'} ELSE {}, last |-> TRUE]
               ELSE receiptsAt(chain')[t]]
          /\ open' = open \cup {tx}
          /\ pool' = pool \ {tx}
  /\ UNCHANGED <<journal, runs, confirmed, faults>>

\* The block is full, and there for everybody to see.
sealBlock ==
  /\ open # {}
  /\ open' = {}
  /\ UNCHANGED <<chain, pool, receipts, journal, runs, confirmed, faults>>

fault == faults < MaxFaults /\ faults' = faults + 1

\* Replaced, or forgotten by the node.
lose ==
  /\ fault
  /\ \E tx \in pool : pool' = pool \ {tx}
  /\ UNCHANGED <<chain, open, receipts, journal, runs, confirmed>>

\* Every run's own transaction; all runs for the waiver share the one Privy signed.
txOf(r) == [goal |-> runs[r].goal, run |-> IF runs[r].goal = "waiver" THEN 0 ELSE r]

isMined(r) == txOf(r) \in DOMAIN receipts

receiptStatus(r) == IF receipts[txOf(r)].ok THEN "success" ELSE "reverted"

\* Mutant of readTransaction: the transaction is looked up before its receipt.
readTransactionFirst(r) ==
  {"unknown"} \cup IF isMined(r) \/ txOf(r) \in pool THEN {"pending"} ELSE {}

\* What a look at a hash can say.  An RPC failure counts as nothing found.
readTransaction(r) ==
  {"unknown"}
    \cup (IF isMined(r) \/ txOf(r) \in pool THEN {"pending"} ELSE {})
    \cup (IF isMined(r) THEN {receiptStatus(r)} ELSE {})

-----------------------------------------------------------------------------
(* The journal, and how a command goes on or ends.                         *)

goTo(r, at) == runs' = [runs EXCEPT ![r].at = at]

\* A run that ends with its hash in hand, not yet journalled, takes the hash with it.
end(r, code) ==
  runs' = [runs EXCEPT ![r].at = "ended", ![r].code = code, ![r].seen = {},
                       ![r].lost = runs[r].at = "sent"]

\* A read that fails.
rpcFails(r) == end(r, "RPC_UNAVAILABLE")

journalled(r) == r \in journal

\* Journal a line with the hash and do what follows, or end with INVALID_INPUT.
append(r, next) ==
  \/ /\ journal' = journal \cup {r}
     /\ next
     /\ UNCHANGED faults
  \/ /\ fault
     /\ end(r, "INVALID_INPUT")
     /\ UNCHANGED journal

noLine(next) == next /\ UNCHANGED <<journal, faults>>

world == <<chain, pool, open, receipts, confirmed>>

-----------------------------------------------------------------------------
(* credentials submit, draw send, covenant sync and covenant restore.      *)

\* The block that the run reads and simulates at.
session(r) == CHOOSE c \in runs[r].seen : TRUE

\* operate: arguments and envelope, configuration, session, vault binding and signer, in this order.
operate(r) ==
  /\ runs[r].at = "opening" /\ runs[r].goal # "waiver"
  /\ noLine(\/ runs' = [runs EXCEPT ![r].at = "checking", ![r].seen = {chain}]
            \/ \E code \in {"INVALID_INPUT", "MISMATCH", "RPC_UNAVAILABLE", "SIGNER_UNAVAILABLE"} :
                 end(r, code))
  /\ UNCHANGED world

\* Simulated at that block, too, after the operation's own reads.
simulateCall(r) ==
  \/ rpcFails(r)
  \/ IF accepts(session(r), runs[r].goal)
     THEN runs' = [runs EXCEPT ![r].at = "permitted", ![r].seen = {}]
     ELSE end(r, "ACTION_REFUSED")

\* The operation's own reads at that block, and what they lead to.
checking(r, goals, outcome) ==
  /\ runs[r].at = "checking" /\ runs[r].goal \in goals
  /\ noLine(outcome \/ rpcFails(r))
  /\ UNCHANGED world

\* A credential the registry has overtaken is not sent.
checkSequence(r) ==
  checking(r, {"submit"},
    IF session(r).sequence >= 1 THEN end(r, "STALE_SEQUENCE") ELSE simulateCall(r))

\* Only the operator draws.
checkRole(r) == checking(r, {"draw"}, simulateCall(r) \/ end(r, "MISMATCH"))

\* The state before the move.
readState(r) == checking(r, {"sync", "restore"}, simulateCall(r))

\* The line that the simulation permitted it has no hash; it may still fail.
journalSimulation(r) ==
  /\ runs[r].at = "permitted"
  /\ \/ noLine(goTo(r, "sending"))
     \/ fault /\ end(r, "INVALID_INPUT") /\ UNCHANGED journal
  /\ UNCHANGED world

\* cast estimates the gas at the head and broadcasts.  Its answer may be lost.
send(r) ==
  /\ runs[r].at = "sending"
  /\ \/ /\ accepts(chain, runs[r].goal)
        /\ pool' = pool \cup {txOf(r)}
        /\ \/ runs' = [runs EXCEPT ![r].at = "sent", ![r].sent = TRUE] /\ UNCHANGED faults
           \/ /\ fault
              /\ runs' = [runs EXCEPT ![r].at = "ended", ![r].sent = TRUE, ![r].lost = TRUE,
                                      ![r].seen = {}, ![r].code = "SIGNER_UNAVAILABLE"]
     \/ /\ ~accepts(chain, runs[r].goal) /\ end(r, "ACTION_REFUSED")
        /\ UNCHANGED <<pool, faults>>
     \/ end(r, "SIGNER_UNAVAILABLE") /\ UNCHANGED <<pool, faults>>
  /\ UNCHANGED <<chain, open, receipts, journal, confirmed>>

\* Mutant of journalHash: the hash is left to the line of the outcome.
journalHashLater(r) ==
  /\ runs[r].at = "sent"
  /\ noLine(goTo(r, "waiting"))
  /\ UNCHANGED world

journalHash(r) ==
  /\ runs[r].at = "sent"
  /\ append(r, goTo(r, "waiting"))
  /\ UNCHANGED world

\* Mutant of awaitReceipt: a timeout is taken for a failure.
awaitReceiptGivesUp(r) ==
  {"reverted"} \cup IF isMined(r) THEN {receiptStatus(r), "unreadable"} ELSE {}

\* The receipt or the timeout, or a receipt whose block cannot be read.
awaitReceipt(r) ==
  {"pending"} \cup IF isMined(r) THEN {receiptStatus(r), "unreadable"} ELSE {}

\* The outcome is journalled and decides; the error of the block goes up as it is.
settle(r) ==
  /\ runs[r].at = "waiting" /\ runs[r].goal # "waiver"
  /\ \E outcome \in awaitReceipt(r) :
       CASE outcome = "success"    -> append(r, goTo(r, "reporting"))
         [] outcome = "reverted"   -> append(r, end(r, "TRANSACTION_REVERTED"))
         [] outcome = "pending"    -> append(r, end(r, "TRANSACTION_PENDING"))
         [] outcome = "unreadable" -> noLine(end(r, "UNKNOWN"))
  /\ UNCHANGED world

\* Mutant of postconditions: read at the head, when the report is put together.
postconditionsAtHead(r) ==
  /\ runs[r].at = "reporting"
  /\ noLine(\/ runs' = [runs EXCEPT ![r].at = "ended", ![r].seen = {chain}]
            \/ rpcFails(r))
  /\ UNCHANGED world

\* At the end of the receipt's own block.
postconditions(r) ==
  /\ runs[r].at = "reporting"
  /\ noLine(\/ runs' = [runs EXCEPT ![r].at = "ended", ![r].seen = receipts[txOf(r)].block]
            \/ rpcFails(r))
  /\ UNCHANGED world

\* What the registry holds now and whether it counts.
submitReport(r) == runs[r].goal = "submit" /\ postconditions(r)

\* The balances and the covenant after the draw.
drawReport(r) == runs[r].goal = "draw" /\ postconditions(r)

\* The state after the move and the evaluation it was judged by.
covenantReport(r) == runs[r].goal \in {"sync", "restore"} /\ postconditions(r)

-----------------------------------------------------------------------------
(* waiver broadcast.                                                       *)

\* The one proposal in flight, and the transaction Privy signed for it.
resolveProposal(r) ==
  /\ runs[r].at = "opening" /\ runs[r].goal = "waiver"
  /\ noLine(\/ IF confirmed THEN end(r, "INVALID_INPUT") ELSE goTo(r, "resolved")
            \/ \E code \in {"SIGNER_UNAVAILABLE", "MISMATCH", "RPC_UNAVAILABLE", "ACTION_REFUSED"} :
                 end(r, code))
  /\ UNCHANGED world

\* signedTransactionHash is known, and journalled, before anything is sent.
journalSignedHash(r) ==
  /\ runs[r].at = "resolved"
  /\ append(r, goTo(r, "executing"))
  /\ UNCHANGED world

\* The desk sends; a node that has the transaction already is fine.
executeSend(r) ==
  /\ runs[r].at = "executing"
  /\ \/ /\ pool' = IF isMined(r) THEN pool ELSE pool \cup {txOf(r)}
        /\ runs' = [runs EXCEPT ![r].at = "waiting", ![r].sent = TRUE]
        /\ UNCHANGED <<journal, faults>>
     \/ /\ \E code \in {"RPC_UNAVAILABLE", "ACTION_REFUSED"} : append(r, end(r, code))
        /\ UNCHANGED pool
  /\ UNCHANGED <<chain, open, receipts, confirmed>>

\* Success is recorded in the store; a revert or a timeout throws.
executeConfirm(r) ==
  /\ runs[r].at = "waiting" /\ runs[r].goal = "waiver"
  /\ \/ /\ isMined(r) /\ receipts[txOf(r)].ok
        /\ confirmed' = TRUE
        /\ append(r, end(r, "none"))
     \/ append(r, end(r, "RPC_UNAVAILABLE")) /\ UNCHANGED confirmed
  /\ UNCHANGED <<chain, pool, open, receipts>>

-----------------------------------------------------------------------------
(* The operator.                                                           *)

ended(r) == runs[r].at = "ended"

\* errors.md: "No.  Nothing reached the chain and nothing was spent".  MISMATCH is that of
\* the chain, of the deployment or of the signer's role.
NotBroadcast ==
  {"ACTION_REFUSED", "MISMATCH", "STALE_SEQUENCE", "SIGNER_UNAVAILABLE", "INVALID_INPUT"}

\* As far as she can know, the run has changed nothing and never will.
cameToNothing(r) ==
  /\ ended(r)
  /\ \/ runs[r].code \in NotBroadcast \cup {"TRANSACTION_REVERTED"}
     \/ runs[r].code \in {"RPC_UNAVAILABLE", "UNKNOWN", "killed"} /\ ~journalled(r)
     \/ runs[r].shown = "reverted"

\* Running waiver broadcast again sends the same transaction.
start(goal) ==
  /\ Len(runs) < MaxRuns
  /\ \A r \in DOMAIN runs : ended(r)
  /\ \A r \in DOMAIN runs : runs[r].goal = goal =>
       IF goal = "waiver" THEN runs[r].code # "none" ELSE cameToNothing(r)
  /\ runs' = Append(runs, [goal |-> goal, at |-> "opening", seen |-> {}, sent |-> FALSE,
                           lost |-> FALSE, code |-> "none", shown |-> "nothing"])
  /\ UNCHANGED <<chain, pool, open, receipts, journal, confirmed, faults>>

\* tx show, for what the journal has and the command did not settle.
show(r) ==
  /\ ended(r) /\ journalled(r)
  /\ runs[r].code \notin {"none", "TRANSACTION_REVERTED"}
  /\ runs[r].shown = "nothing"
  /\ \E answer \in readTransaction(r) :
       runs' = IF answer \in {"success", "reverted"}
               THEN [runs EXCEPT ![r].shown = answer] ELSE runs
  /\ UNCHANGED <<chain, pool, open, receipts, journal, confirmed, faults>>

kill(r) ==
  /\ fault
  /\ ~ended(r)
  /\ end(r, "killed")
  /\ UNCHANGED <<chain, pool, open, receipts, journal, confirmed>>

step(r) ==
  \/ operate(r) \/ checkSequence(r) \/ checkRole(r) \/ readState(r)
  \/ journalSimulation(r) \/ send(r) \/ journalHash(r) \/ settle(r)
  \/ submitReport(r) \/ drawReport(r) \/ covenantReport(r)
  \/ resolveProposal(r) \/ journalSignedHash(r) \/ executeSend(r) \/ executeConfirm(r)

\* Nobody sees a block before it is full.
Next ==
  \/ chainMoves \/ mine \/ sealBlock
  \/ /\ open = {}
     /\ \/ lose
        \/ \E goal \in Goals : start(goal)
        \/ \E r \in DOMAIN runs : step(r) \/ show(r) \/ kill(r)

-----------------------------------------------------------------------------
\* The operator's reconciliation of r, on a day the RPC answers.
reconcile(r) == show(r) /\ runs'[r].shown \in {"success", "reverted"}

\* Blocks end, a command runs on until it ends, and the operator looks until she has the
\* answer: it is enough that one of them goes on when it can.
progress ==
  \/ sealBlock
  \/ open = {} /\ \E r \in DOMAIN runs : step(r) \/ reconcile(r)

Spec == Init /\ [][Next]_vars /\ WF_vars(progress)

-----------------------------------------------------------------------------
\* The code or the window in which the hash is lost told the operator the opposite of
\* what happened (see CodeAnswersBroadcast).
misled(r) == runs[r].sent /\ (runs[r].lost \/ runs[r].code \in NotBroadcast)

\* An operator who goes by the codes, the journal and tx show, and whom they did not
\* mislead, gets each thing done once however often she runs its command: no draw is
\* sent twice on a timeout, a failed read or a kill.
DoneOnce ==
  \A goal \in Goals :
    (\A r \in DOMAIN runs : runs[r].goal = goal => ~misled(r)) =>
      Cardinality({tx \in DOMAIN receipts : tx.goal = goal /\ receipts[tx].ok}) <= 1

\* A command that broadcast leaves the hash in the journal, wherever it is interrupted,
\* but for the window between cast's broadcast and the line (operations.ts:102-104).
HashOutlivesCommand ==
  \A r \in DOMAIN runs : ended(r) /\ runs[r].sent /\ ~runs[r].lost => journalled(r)

\* What an exit 0 reports is what the command's own transaction made of the facility,
\* whatever happens between its receipt and the reads: an accepted credential is the held
\* one or overtaken, and, unless others stand behind it in its own block, a restored or
\* drawn-upon covenant is not in CURE and a synchronized one is as it is judged.
ReportShowsEffect ==
  \A r \in {run \in DOMAIN runs : ended(run)} : \A seen \in runs[r].seen :
    /\ runs[r].goal = "submit" => seen.sequence >= 1
    /\ receipts[txOf(r)].last =>
         /\ runs[r].goal \in {"restore", "draw"} => seen.state # "CURE"
         /\ runs[r].goal = "sync" => seen.state = judged(seen)

\* A mined transaction that the journal has is known for what it is in the end, killed
\* and timed out commands included.
known(r) == ended(r) /\ (\/ runs[r].code \in {"none", "TRANSACTION_REVERTED"}
                         \/ runs[r].shown \in {"success", "reverted"})

Reconciled ==
  []<>(\A r \in DOMAIN runs : isMined(r) /\ journalled(r) => known(r))

\* errors.md:87, "the code answers it on its own": with a code of the second row nothing
\* was broadcast.
CodeAnswersBroadcast ==
  \A r \in DOMAIN runs : ended(r) /\ runs[r].code \in NotBroadcast => ~runs[r].sent
=============================================================================
