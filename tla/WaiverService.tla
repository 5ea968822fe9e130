---------------------------- MODULE WaiverService ----------------------------
(***************************************************************************)
(* packages/privy-waiver: the desk that proposes admin transactions to a   *)
(* quorum at Privy, forwards approvals, and broadcasts what Privy signed.  *)
(* The approver console is one process of it, each CLI command another;    *)
(* all keep the same file.  Within a process requests interleave at their  *)
(* awaits, so an action is one awaited call taking effect, or the code     *)
(* that runs undisturbed after it.  A refused request ends where it is.    *)
(*                                                                         *)
(* Privy, the chain and the covenant under the wallet's transactions are   *)
(* external and modelled as this code meets them: Privy may record or sign *)
(* something else than it was given, a node may lose a transaction or its  *)
(* answer, and the contract may change its mind about a waiver any time.   *)
(* Hashes and fees are left out: a transaction is its call and its nonce.  *)
(***************************************************************************)
EXTENDS Integers, Sequences, FiniteSets

CONSTANTS
  Processes,
  Requests,   \* requests that can be under way at the same time
  home,       \* the process that serves each of them
  Intents,    \* intent ids that Privy gives out
  Members,    \* keys of the quorum
  Threshold,
  Calls,      \* createWaiver calls: vault, duration and reason commitment
  MaxFailures \* bound: crashes, failed writes and broken connections

ASSUME QuorumAssumption ==
  /\ home \in [Requests -> Processes]
  /\ IsFiniteSet(Members)
  /\ Threshold \in Nat
  /\ MaxFailures \in Nat

VARIABLES
  requests,  \* where each request stands
  actions,   \* each process's copy of the store, in memory
  file,      \* the store on disk
  intents,   \* Privy's intents
  waivable,  \* createWaiver would succeed now
  mempool,   \* signed transactions of the wallet known to the node
  mined,     \* its transactions on chain, by nonce, with the receipt's status
  failures

deskVars == <<requests, actions, file>>
chainVars == <<waivable, mempool, mined>>
vars == <<deskVars, intents, chainVars, failures>>

Transaction == [call : Calls, nonce : Nat]

OPEN_STATUSES == {"pending", "granted", "executed"} \* "granted" is "processing" too
Statuses == OPEN_STATUSES \cup {"failed", "expired", "rejected"}

Idle == [at |-> "idle"]

Init ==
  /\ requests = [r \in Requests |-> Idle]
  /\ actions = [p \in Processes |-> << >>]
  /\ file = << >>
  /\ intents = << >>
  /\ waivable \in BOOLEAN
  /\ mempool = {}
  /\ mined = << >>
  /\ failures = 0

-----------------------------------------------------------------------------
(* The wallet's side of the chain.                                         *)

isMined(tx) == \E k \in 1..Len(mined) : mined[k].tx = tx

succeeded(tx) == \E k \in 1..Len(mined) : mined[k] = [tx |-> tx, success |-> TRUE]

\* getTransactionCount at "pending": what is mined and what waits without a gap.
pendingNonce ==
  Len(mined) + Cardinality({tx \in mempool :
                  \A n \in Len(mined)..tx.nonce : \E before \in mempool : before.nonce = n})

\* A node takes a transaction whose nonce is neither used nor held by another one.
nodeTakes(tx) ==
  /\ tx.nonce >= Len(mined)
  /\ \A other \in mempool : other.nonce # tx.nonce

\* "already known" and "nonce too low" are the errors the desk forgives.
forgiven(tx) == tx \in mempool \/ tx.nonce < Len(mined)

\* The contract accepts a waiver once: while it is active there is no second one.
mine ==
  /\ \E tx \in mempool :
       /\ tx.nonce = Len(mined)
       /\ mined' = Append(mined, [tx |-> tx, success |-> waivable])
       /\ mempool' = mempool \ {tx}
  /\ waivable' = FALSE
  /\ UNCHANGED <<deskVars, intents, failures>>

\* Coverage is lost or restored, a waiver lapses or is revoked.
covenantMoves ==
  /\ waivable' = ~waivable
  /\ UNCHANGED <<deskVars, intents, mempool, mined, failures>>

-----------------------------------------------------------------------------
(* Privy.                                                                  *)

setStatus(i, status) == intents' = [intents EXCEPT ![i].status = status]

\* The threshold is met and Privy asks the enclave: signed as recorded, signed
\* differently, answered without a signature, or denied by the wallet's policy.
privyExecutes(i) ==
  /\ intents[i].status = "granted"
  /\ \/ \E signed \in {{}} \cup {{[intents[i].request EXCEPT !.call = c]} : c \in Calls} :
          intents' = [intents EXCEPT ![i].status = "executed", ![i].signed = signed]
     \/ setStatus(i, "failed")
  /\ UNCHANGED <<deskVars, chainVars, failures>>

privyExpires(i) ==
  /\ intents[i].status = "pending"
  /\ setStatus(i, "expired")
  /\ UNCHANGED <<deskVars, chainVars, failures>>

-----------------------------------------------------------------------------
(* The store.                                                              *)

Put(f, i, value) == [j \in DOMAIN f \cup {i} |-> IF j = i THEN value ELSE f[j]]

fails == failures < MaxFailures /\ failures' = failures + 1

\* Mutant of save: only the action at hand is written.
saveAlone(p, i, action) ==
  /\ actions' = [actions EXCEPT ![p] = Put(@, i, action)]
  /\ \/ file' = [j \in {i} |-> action] /\ UNCHANGED failures
     \/ fails /\ UNCHANGED file

\* Memory first, then the whole of this process's copy to a new file that replaces
\* the old one.  The write may fail; memory has changed by then.
save(p, i, action) ==
  /\ actions' = [actions EXCEPT ![p] = Put(@, i, action)]
  /\ \/ file' = actions'[p] /\ UNCHANGED failures
     \/ fails /\ UNCHANGED file

recordBroadcast(p, i) == save(p, i, [actions[p][i] EXCEPT !.broadcast = TRUE])

moveTo(r, state) == requests' = [requests EXCEPT ![r] = state]

stored(r) == actions[home[r]]

\* Every new process reads the file once.  A command ends with its request; the
\* console may be restarted between requests.
openDesk(p) ==
  /\ \A r \in Requests : home[r] = p => requests[r] = Idle
  /\ actions' = [actions EXCEPT ![p] = file]
  /\ UNCHANGED <<requests, file, intents, chainVars, failures>>

\* The process dies, and the next one has what is on disk.
crash(p) ==
  /\ fails
  /\ requests' = [r \in Requests |-> IF home[r] = p THEN Idle ELSE requests[r]]
  /\ actions' = [actions EXCEPT ![p] = file]
  /\ UNCHANGED <<file, intents, chainVars>>

-----------------------------------------------------------------------------
(* What is compared before anybody signs and before anything is sent.      *)

\* Every field of the request that Privy recorded is the pinned one's.
assertIntentMatches(intent, pinned) == intent.request = pinned

\* Privy returned a transaction, and every field of it is the pinned one's.
verifySignedTransaction(intent, pinned) == intent.signed = {pinned}

-----------------------------------------------------------------------------
(* Proposing.                                                              *)

\* waiverReadiness refuses none: the contract would take a waiver now.
proposeWaiver(r, call) ==
  /\ requests[r] = Idle
  /\ waivable
  /\ moveTo(r, [at |-> "ready", call |-> call])
  /\ UNCHANGED <<actions, file, intents, chainVars, failures>>

\* Mutant of takeStock: the stored actions are not asked about.
takeNoStock(r) ==
  /\ requests[r].at = "ready"
  /\ moveTo(r, [at |-> "checking", call |-> requests[r].call, rest |-> {}])
  /\ UNCHANGED <<actions, file, intents, chainVars, failures>>

\* assertNoOpenAction lists the store once, before it waits for anything.
takeStock(r) ==
  /\ requests[r].at = "ready"
  /\ moveTo(r, [at   |-> "checking",
                call |-> requests[r].call,
                rest |-> {i \in DOMAIN stored(r) : ~stored(r)[i].broadcast}])
  /\ UNCHANGED <<actions, file, intents, chainVars, failures>>

\* ... then asks Privy about each of them in turn, in the store's order, which is
\* left open here: an open one refuses the proposal whichever comes first.
assertNotOpen(r) ==
  /\ requests[r].at = "checking"
  /\ \E i \in requests[r].rest :
       IF intents[i].status \in OPEN_STATUSES
       THEN moveTo(r, Idle)
       ELSE moveTo(r, [requests[r] EXCEPT !.rest = @ \ {i}])
  /\ UNCHANGED <<actions, file, intents, chainVars, failures>>

\* pinAdminTransaction simulates the call ...
simulate(r) ==
  /\ requests[r].at = "checking"
  /\ requests[r].rest = {}
  /\ moveTo(r, IF waivable THEN [at |-> "simulated", call |-> requests[r].call] ELSE Idle)
  /\ UNCHANGED <<actions, file, intents, chainVars, failures>>

\* Mutant of pin: the nonce after what is mined, whatever else is on its way.
pinLatest(r) ==
  /\ requests[r].at = "simulated"
  /\ moveTo(r, [at |-> "pinned", tx |-> [call |-> requests[r].call, nonce |-> Len(mined)]])
  /\ UNCHANGED <<actions, file, intents, chainVars, failures>>

\* ... and pins the nonce, with a gas estimate that fails as the call would.
pin(r) ==
  /\ requests[r].at = "simulated"
  /\ moveTo(r, IF waivable
               THEN [at |-> "pinned", tx |-> [call |-> requests[r].call, nonce |-> pendingNonce]]
               ELSE Idle)
  /\ UNCHANGED <<actions, file, intents, chainVars, failures>>

\* Privy keeps an intent, of the call proposed or of another one.
proposeRpcIntent(r) ==
  /\ requests[r].at = "pinned"
  /\ \E i \in Intents \ DOMAIN intents, c \in Calls :
       /\ intents' = Put(intents, i, [request   |-> [requests[r].tx EXCEPT !.call = c],
                                      status    |-> "pending",
                                      approvals |-> {},
                                      signed    |-> {}])
       /\ moveTo(r, [at |-> "proposed", tx |-> requests[r].tx, intent |-> i])
  /\ UNCHANGED <<actions, file, chainVars, failures>>

\* assertIntentMatches, then save.  An intent that does not match stays at Privy,
\* where nobody will approve it through this desk.
saveProposal(r) ==
  /\ requests[r].at = "proposed"
  /\ IF assertIntentMatches(intents[requests[r].intent], requests[r].tx)
     THEN save(home[r], requests[r].intent, [pinned |-> requests[r].tx, broadcast |-> FALSE])
     ELSE UNCHANGED <<actions, file, failures>>
  /\ moveTo(r, Idle)
  /\ UNCHANGED <<intents, chainVars>>

-----------------------------------------------------------------------------
(* Approving and rejecting.                                                *)

\* The desk checks that the intent is pending and what was pinned, that the key is a
\* member's, and the signature with its age; Privy checks again, so nothing is lost
\* by taking check and call together.  Privy counts each member once.
approve(p, i, m) ==
  LET approvals == intents[i].approvals \cup {m}
  IN /\ i \in DOMAIN actions[p]
     /\ intents[i].status = "pending"
     /\ assertIntentMatches(intents[i], actions[p][i].pinned)
     /\ intents' = [intents EXCEPT
                      ![i].approvals = approvals,
                      ![i].status = IF Cardinality(approvals) >= Threshold
                                    THEN "granted" ELSE "pending"]
     /\ UNCHANGED <<deskVars, chainVars, failures>>

\* Privy takes back whatever it has not signed, and may do so with the rest.
reject(p, i) ==
  /\ i \in DOMAIN actions[p]
  /\ intents[i].status \in OPEN_STATUSES
  /\ setStatus(i, "rejected")
  /\ UNCHANGED <<deskVars, chainVars, failures>>

-----------------------------------------------------------------------------
(* Executing.                                                              *)

\* Mutant of execute: the signed transaction is not compared with the pinned one.
executeUnverified(r, i) ==
  /\ requests[r] = Idle
  /\ i \in DOMAIN stored(r)
  /\ ~stored(r)[i].broadcast
  /\ intents[i].status = "executed"
  /\ \E tx \in intents[i].signed : moveTo(r, [at |-> "signed", tx |-> tx, intent |-> i])
  /\ UNCHANGED <<actions, file, intents, chainVars, failures>>

\* Privy has signed, and signed what was pinned and recorded.
execute(r, i) ==
  /\ requests[r] = Idle
  /\ i \in DOMAIN stored(r)
  /\ ~stored(r)[i].broadcast
  /\ intents[i].status = "executed"
  /\ assertIntentMatches(intents[i], stored(r)[i].pinned)
  /\ verifySignedTransaction(intents[i], stored(r)[i].pinned)
  /\ moveTo(r, [at |-> "signed", tx |-> stored(r)[i].pinned, intent |-> i])
  /\ UNCHANGED <<actions, file, intents, chainVars, failures>>

\* Mutant of broadcast: no error of the node is forgiven.
broadcastOnce(r) ==
  /\ requests[r].at = "signed"
  /\ IF nodeTakes(requests[r].tx)
     THEN /\ mempool' = mempool \cup {requests[r].tx}
          /\ moveTo(r, [requests[r] EXCEPT !.at = "sent"])
     ELSE UNCHANGED mempool /\ moveTo(r, Idle)
  /\ UNCHANGED <<actions, file, intents, waivable, mined, failures>>

\* broadcastAndConfirm: send, and go on to wait unless the node gives another error
\* than that it knows the transaction or has used the nonce.
broadcast(r) ==
  LET tx == requests[r].tx
  IN /\ requests[r].at = "signed"
     /\ IF nodeTakes(tx) THEN mempool' = mempool \cup {tx} ELSE UNCHANGED mempool
     /\ moveTo(r, IF nodeTakes(tx) \/ forgiven(tx) THEN [requests[r] EXCEPT !.at = "sent"]
                                                   ELSE Idle)
     /\ UNCHANGED <<actions, file, intents, waivable, mined, failures>>

\* Mutant of confirm: a receipt is a receipt, whatever its status.
confirmReverted(r) ==
  /\ requests[r].at = "sent"
  /\ isMined(requests[r].tx)
  /\ recordBroadcast(home[r], requests[r].intent)
  /\ moveTo(r, Idle)
  /\ UNCHANGED <<intents, chainVars>>

\* The receipt: a transaction that failed throws before anything is recorded.  The
\* events of one that succeeded are those of the call that was pinned.
confirm(r) ==
  /\ requests[r].at = "sent"
  /\ isMined(requests[r].tx)
  /\ IF succeeded(requests[r].tx)
     THEN recordBroadcast(home[r], requests[r].intent)
     ELSE UNCHANGED <<actions, file, failures>>
  /\ moveTo(r, Idle)
  /\ UNCHANGED <<intents, chainVars>>

\* waitForReceipt gives up on what is not mined.
timeout(r) ==
  /\ requests[r].at = "sent"
  /\ ~isMined(requests[r].tx)
  /\ moveTo(r, Idle)
  /\ UNCHANGED <<actions, file, intents, chainVars, failures>>

\* A connection breaks: the next call is not made, or the answer to the one that took
\* effect is lost.
connectionBreaks(r) ==
  /\ fails
  /\ requests[r] # Idle
  /\ moveTo(r, Idle)
  /\ UNCHANGED <<actions, file, intents, chainVars>>

-----------------------------------------------------------------------------

serve(r) ==
  \/ takeStock(r) \/ assertNotOpen(r) \/ simulate(r) \/ pin(r)
  \/ proposeRpcIntent(r) \/ saveProposal(r)
  \/ broadcast(r) \/ confirm(r)

\* A request for a waiver or for an execution: a route of the console, or a command.
route(r) ==
  \/ \E call \in Calls : proposeWaiver(r, call)
  \/ \E i \in DOMAIN intents : execute(r, i)

\* What a member does at the console, or with signa waiver approve and waiver reject.
decide(p) ==
  \E i \in DOMAIN intents : reject(p, i) \/ \E m \in Members : approve(p, i, m)

Next ==
  \/ mine \/ covenantMoves
  \/ \E i \in DOMAIN intents : privyExecutes(i) \/ privyExpires(i)
  \/ \E p \in Processes : openDesk(p) \/ crash(p) \/ decide(p)
  \/ \E r \in Requests : route(r) \/ serve(r) \/ timeout(r) \/ connectionBreaks(r)

Spec == Init /\ [][Next]_vars

\* The node mines what it holds, the process goes on with a request it has begun, and
\* approvers whose waiver was signed keep asking for it to be executed.  A process
\* serves requests without limit, so asking is not starved by other requests.
Fairness ==
  /\ WF_vars(mine)
  /\ \A r \in Requests : WF_vars(serve(r))
  /\ \A i \in Intents : SF_vars(\E r \in Requests : i \in DOMAIN intents /\ execute(r, i))

FairSpec == Spec /\ Fairness

-----------------------------------------------------------------------------

Action == [pinned : Transaction, broadcast : BOOLEAN]
Intent == [request : Transaction, status : Statuses, approvals : SUBSET Members,
           signed : SUBSET Transaction]
isStore(copy) == DOMAIN copy \subseteq Intents /\ \A i \in DOMAIN copy : copy[i] \in Action

TypeOK ==
  /\ DOMAIN actions = Processes
  /\ \A p \in Processes : isStore(actions[p])
  /\ isStore(file)
  /\ DOMAIN intents \subseteq Intents
  /\ \A i \in DOMAIN intents : intents[i] \in Intent
  /\ waivable \in BOOLEAN
  /\ mempool \subseteq Transaction
  /\ mined \in Seq([tx : Transaction, success : BOOLEAN])
  /\ failures \in 0..MaxFailures

\* What the wallet has sent.
broadcastTransactions == mempool \cup {mined[k].tx : k \in 1..Len(mined)}

\* No transaction of the wallet reaches a node unless it is, to the last field, one
\* that a full quorum approved at Privy, whatever Privy recorded or signed.
BroadcastWasApproved ==
  \A tx \in broadcastTransactions :
    \E i \in DOMAIN intents :
      intents[i].request = tx /\ Cardinality(intents[i].approvals) >= Threshold

\* What the store says was broadcast is on chain and succeeded, also when another
\* transaction took the nonce, an answer was lost, or several requests sent it.
RecordedIsMined ==
  \A p \in Processes : \A copy \in {actions[p], file} :
    \A i \in DOMAIN copy : copy[i].broadcast => succeeded(copy[i].pinned)

recorded(i) == \E p \in Processes : i \in DOMAIN actions[p] /\ actions[p][i].broadcast

\* The actions that a process knows, and that hold a nonce.
inFlight ==
  {i \in DOMAIN intents :
     /\ \E p \in Processes : i \in DOMAIN actions[p]
     /\ intents[i].status \in OPEN_STATUSES
     /\ ~recorded(i)}

\* service.ts:384, "only one may be in flight at a time"; WIRE-UP.md:182, "Only one
\* proposal is in flight at a time".
OneActionInFlight == \A i, j \in inFlight : i = j

\* The nonce an action in flight has pinned is not taken by another transaction, so
\* that the approvals it collects are not collected in vain.
NonceStillOurs ==
  \A i \in inFlight :
    LET tx == intents[i].request
    IN \A other \in broadcastTransactions : other.nonce = tx.nonce => other = tx

\* store.ts:10-12, "Our own record of every proposal ... it must outlive a restart":
\* what the file has once held, it holds.
ProposalsOutliveRestart == [][DOMAIN file \subseteq DOMAIN file']_vars

\* A stored action that Privy has signed as it was approved.
awaitsExecution(i) ==
  /\ i \in DOMAIN file
  /\ i \in DOMAIN intents
  /\ intents[i].status = "executed"
  /\ intents[i].signed = {intents[i].request}
  /\ ~recorded(i)

\* A waiver that is on chain and succeeded is recorded in the end, through broken
\* connections, restarts and repeated executions, unless it is rejected meanwhile.
SuccessIsRecorded ==
  \A i \in Intents :
    awaitsExecution(i) /\ succeeded(intents[i].request) ~> ~awaitsExecution(i)

\* service.ts:304, "Recorded before any assertion can throw: the transaction is mined
\* either way": the same of every mined transaction.
MinedIsRecorded ==
  \A i \in Intents :
    awaitsExecution(i) /\ isMined(intents[i].request) ~> ~awaitsExecution(i)
=============================================================================
