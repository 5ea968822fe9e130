-------------------------------- MODULE Reports --------------------------------
(***************************************************************************)
(* packages/client, status.ts and reads.ts: the reading commands of signa. *)
(* Each opens a session, checks the vault's binding and reads its fields   *)
(* at the session's block; draw simulate then calls the vault there.       *)
(***************************************************************************)
EXTENDS Reads

VARIABLE report

NoReport == [command |-> "none", at |-> 0, reading |-> reading(<< >>), amount |-> 0,
             outcome |-> "none"]

readDeploymentStatus == <<{"policy"}>>
readFacility         == <<{"policy"}, {"available", "activeWaiver"}>>
readCoverage         == <<{"evaluation", "trades", "activeWaiver"}, {"eligibility"}>>
readCredentials      == <<{"trades", "policy"}, {"eligibility"}>>
simulateDraw         == <<{"policy"}, {"evaluation", "activeWaiver"}>>

stagesOf(command) ==
  CASE command = "status"           -> readDeploymentStatus
    [] command = "facility show"    -> readFacility
    [] command = "coverage show"    -> readCoverage
    [] command = "credentials list" -> readCredentials
    [] command = "draw simulate"    -> simulateDraw

ReportsInit == report = NoReport

openSession(command, amount) ==
  /\ report.outcome # "open"
  /\ report' = [command |-> command, at |-> latest, reading |-> reading(stagesOf(command)),
                amount |-> amount, outcome |-> "open"]

\* Every command but credentials list reads the vault, and checks first that it is the
\* manifest's; any mismatch ends a command, and so does any failed read.
readFails ==
  /\ report.outcome = "open"
  /\ \E code \in {"DEPLOYMENT_MISMATCH", "RPC_UNAVAILABLE"} : report' = [report EXCEPT !.outcome = code]

\* Mutant of sessionBlock: reads go to the node's latest block.
sessionBlockLatest == chain[latest]

sessionBlock == chain[report.at]

readContract ==
  /\ report.outcome = "open"
  /\ \E field \in asked(report.reading) :
       report' = [report EXCEPT !.reading = answered(report.reading, field, sessionBlock)]

\* The operation of draw simulate, with the amount given.
askDraw(amount) == openSession("draw simulate", amount)

\* A decoded refusal is an answer too.
callDraw ==
  /\ report.outcome = "open" /\ report.command = "draw simulate" /\ complete(report.reading)
  /\ report' = [report EXCEPT !.outcome = drawAnswer(sessionBlock, report.amount)]

showReport ==
  /\ report.outcome = "open" /\ report.command # "draw simulate" /\ complete(report.reading)
  /\ report' = [report EXCEPT !.outcome = "shown"]

Commands == {"status", "facility show", "coverage show", "credentials list", "draw simulate"}

ReportsNext ==
  \/ \E command \in Commands \ {"draw simulate"} : openSession(command, 0)
  \/ \E amount \in 1..MaxAmount + 1 : askDraw(amount)
  \/ readFails \/ readContract \/ callDraw \/ showReport

\* A command beside a chain that goes on.
ReportsSpec ==
  /\ ChainInit /\ ReportsInit
  /\ [][\/ ReportsNext /\ UNCHANGED chain
        \/ mineBlock /\ UNCHANGED report]_<<chain, report>>

-----------------------------------------------------------------------------
Answers == {"permitted", "DrawNotAllowed", "ReserveViolation"}

\* What a reading command prints was true together at the block it names, however many
\* blocks were mined meanwhile, and the refusal that draw simulate explains agrees with the
\* evaluation and the waiver printed beside it.
ReportsOneBlock ==
  LET got == report.reading.got
  IN report.outcome \in Answers \cup {"shown"} =>
       /\ trueAt(got, chain[report.at])
       /\ report.outcome = "DrawNotAllowed" => got["evaluation"] = 0 /\ ~got["activeWaiver"]
       /\ report.outcome \in {"permitted", "ReserveViolation"} =>
            got["evaluation"] > 0 \/ got["activeWaiver"]
=============================================================================
