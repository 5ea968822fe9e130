-------------------------------- MODULE Console --------------------------------
(***************************************************************************)
(* apps/dashboard, main.ts: the console with a wallet.  It reads the       *)
(* facility, keeps a gate that shows what drawing the amount in its field  *)
(* would do, and carries out one action at a time, simulated first.  The   *)
(* panels are read field by field at whatever block the node is at, so     *)
(* what they show together need never have been so at one block: here they *)
(* only are there, or marked stale, or not.                                *)
(***************************************************************************)
EXTENDS Reads

CONSTANT MaxRequests \* bound: refreshes of the gate that the operator may cause

ASSUME ConsoleAssumption == MaxRequests \in Nat

VARIABLES
  amountValue,   \* the field; 0 stands for what does not parse
  walletAddress, \* "none" until a wallet is connected
  scheduled,     \* the timer of a gate refresh is running
  gate,          \* what the strip shows
  gateRequestId,
  simulations,   \* of the gate, on their way
  busy,
  live,          \* the panels show a reading
  stale,
  action,        \* the one being carried out
  allowance      \* what the token lets the vault take for a repayment

consoleVars == <<amountValue, walletAddress, scheduled, gate, gateRequestId, simulations, busy,
                 live, stale, action, allowance>>

Accounts == {"operator", "stranger"}

NoAction == [kind |-> "none", at |-> "none", amount |-> 0, account |-> "none"]

NoGate == [status |-> "idle", amount |-> 0, account |-> "none"]

-----------------------------------------------------------------------------
(* The gate.                                                               *)

\* The account a simulation is sent from before a wallet is connected is the operator's.
gateAccount(wallet) == IF wallet = "none" THEN "operator" ELSE wallet

\* A new request supersedes every older one, also one for a field that does not parse.
refreshGate(amount, wallet) ==
  LET id == gateRequestId + 1
  IN /\ gateRequestId' = id
     /\ gate' = IF amount = 0 THEN NoGate
                ELSE [status |-> "pending", amount |-> amount, account |-> gateAccount(wallet)]
     /\ simulations' = IF amount = 0 THEN simulations
          ELSE simulations \cup {[id |-> id, amount |-> amount, account |-> gateAccount(wallet)]}

\* onlyOperator comes before everything else that draw checks.
simulateWrite(kind, amount, account) ==
  IF kind = "draw"
  THEN IF account = "operator" THEN drawAnswer(chain[latest], amount) ELSE "NotOperator"
  ELSE IF kind = "restore" THEN IF covered(chain[latest]) THEN "permitted" ELSE "StillInCure"
  ELSE "permitted"

\* Mutant of superseded: every answer is taken.
supersededNever(request) == FALSE

superseded(request) == request.id # gateRequestId

gateAnswers ==
  \E request \in simulations :
    /\ simulations' = simulations \ {request}
    /\ IF superseded(request) THEN UNCHANGED gate
       ELSE \E status \in {simulateWrite("draw", request.amount, request.account), "errored"} :
              gate' = [status |-> status, amount |-> request.amount, account |-> request.account]
    /\ UNCHANGED <<amountValue, walletAddress, scheduled, gateRequestId, busy, live,
                   stale, action, allowance>>

input(value) ==
  /\ gateRequestId <= MaxRequests
  /\ value # amountValue
  /\ amountValue' = value /\ scheduled' = TRUE
  /\ UNCHANGED <<walletAddress, gate, gateRequestId, simulations, busy, live, stale,
                 action, allowance>>

scheduleGateRefresh ==
  /\ scheduled
  /\ scheduled' = FALSE
  /\ refreshGate(amountValue, walletAddress)
  /\ UNCHANGED <<amountValue, walletAddress, busy, live, stale, action, allowance>>

\* Also while an action is under way.
connectWallet ==
  /\ gateRequestId <= MaxRequests
  /\ \E account \in Accounts :
       /\ account # walletAddress
       /\ walletAddress' = account
       /\ refreshGate(amountValue, account)
  /\ UNCHANGED <<amountValue, scheduled, busy, live, stale, action, allowance>>

-----------------------------------------------------------------------------
(* The panels.                                                             *)

\* As the page loads, the facility and the gate are read side by side.
ConsoleInit ==
  /\ amountValue = 1 /\ walletAddress = "none" /\ scheduled = FALSE
  /\ gateRequestId = 1
  /\ gate = [status |-> "pending", amount |-> 1, account |-> "operator"]
  /\ simulations = {[id |-> 1, amount |-> 1, account |-> "operator"]}
  /\ busy = TRUE /\ live = FALSE /\ stale = FALSE
  /\ action = NoAction /\ allowance = 0

\* The action that asked for the reading is over as soon as it ends.
finishAction ==
  /\ action' = NoAction /\ busy' = FALSE
  /\ IF action = NoAction THEN UNCHANGED <<gate, gateRequestId, simulations>>
     ELSE refreshGate(amountValue, walletAddress)

\* All of a reading is shown, or none of it and what is shown is marked.
refreshLive ==
  /\ busy /\ (action = NoAction \/ action.at = "refreshing")
  /\ \/ live' = TRUE /\ stale' = FALSE
     \/ live' = live /\ stale' = live
  /\ finishAction
  /\ UNCHANGED <<amountValue, walletAddress, scheduled, allowance>>

-----------------------------------------------------------------------------
(* Actions.                                                                *)

actionsGated == busy \/ walletAddress = "none"

\* The amount is the field's at the click, whatever the gate shows.
execute(kind) ==
  /\ gateRequestId <= MaxRequests
  /\ ~actionsGated
  /\ kind \in {"draw", "repay"} => amountValue > 0
  /\ busy' = TRUE
  /\ action' = [kind |-> kind, at |-> "requesting", account |-> "none",
                amount |-> IF kind \in {"draw", "repay"} THEN amountValue ELSE 0]
  /\ UNCHANGED <<amountValue, walletAddress, scheduled, gate, gateRequestId, simulations,
                 live, stale, allowance>>

goTo(at) == action' = [action EXCEPT !.at = at]

unmoved == UNCHANGED <<amountValue, scheduled, live, stale>>

\* The wallet answers with the account it is on by now.
requestAddresses ==
  /\ action.at = "requesting"
  /\ \E account \in Accounts :
       /\ walletAddress' = account
       /\ action' = [action EXCEPT !.at = "simulating", !.account = account]
  /\ UNCHANGED <<busy, gate, gateRequestId, simulations, allowance>> /\ unmoved

\* A refusal ends it before anything is signed; a repayment is approved first.
simulateFirst ==
  /\ action.at = "simulating"
  /\ simulateWrite(action.kind, action.amount, action.account) = "permitted"
  /\ goTo(IF action.kind = "repay" THEN "approving" ELSE "writing")
  /\ UNCHANGED <<walletAddress, busy, gate, gateRequestId, simulations, allowance>> /\ unmoved

approve ==
  /\ action.at = "approving"
  /\ allowance' = action.amount
  /\ goTo("writing")
  /\ UNCHANGED <<walletAddress, busy, gate, gateRequestId, simulations>> /\ unmoved

\* The receipt is that of a success; one that reverted is an error.
writeSimulatedRequest ==
  /\ action.at = "writing"
  /\ simulateWrite(action.kind, action.amount, action.account) = "permitted"
  /\ allowance' = IF action.kind = "repay" THEN allowance - action.amount ELSE allowance
  /\ goTo("refreshing")
  /\ UNCHANGED <<walletAddress, busy, gate, gateRequestId, simulations>> /\ unmoved

\* Refused by the simulation, the wallet, the node or the chain.
actionFails ==
  /\ action # NoAction /\ action.at # "refreshing"
  /\ finishAction
  /\ UNCHANGED <<walletAddress, allowance>> /\ unmoved

ConsoleNext ==
  \/ gateAnswers \/ scheduleGateRefresh \/ connectWallet
  \/ \E value \in 0..MaxAmount + 1 : input(value)
  \/ refreshLive
  \/ \E kind \in {"draw", "repay", "sync", "restore"} : execute(kind)
  \/ requestAddresses \/ simulateFirst \/ approve \/ writeSimulatedRequest \/ actionFails

\* The console beside a chain that goes on.
ConsoleSpec ==
  /\ ChainInit /\ ConsoleInit
  /\ [][\/ ConsoleNext /\ UNCHANGED chain
        \/ mineBlock /\ UNCHANGED consoleVars]_<<chain, consoleVars>>

-----------------------------------------------------------------------------
\* Once nothing is on its way, the gate shows the answer for the amount in the field and
\* the connected account; an answer for an older amount or account that comes late never
\* replaces it, and a field that does not parse has no answer (main.ts:384).
GateAnswersField ==
  (~scheduled /\ ~busy /\ \A request \in simulations : superseded(request)) =>
    IF amountValue = 0 THEN gate = NoGate
    ELSE /\ gate.status # "pending"
         /\ gate.amount = amountValue /\ gate.account = gateAccount(walletAddress)
=============================================================================
