------------------------------- MODULE CliProofs -------------------------------
(***************************************************************************)
(* That the journal outlives a command, that a report shows the effect of *)
(* what was sent, and that an operator who goes by the codes does nothing  *)
(* twice: for any goals, and any number of runs and of faults.             *)
(***************************************************************************)
EXTENDS Cli, TLAPS, SequenceTheorems, FiniteSetTheorems

Facility ==
  [covered : BOOLEAN, waived : BOOLEAN, sequence : Nat, state : {"COMPLIANT", "CURE", "WAIVED"}]

Before == {"opening", "checking", "permitted", "sending", "resolved", "executing"}
Places == Before \cup {"sent", "waiting", "reporting", "ended"}

Codes == {"none", "INVALID_INPUT", "MISMATCH", "RPC_UNAVAILABLE", "SIGNER_UNAVAILABLE",
          "STALE_SEQUENCE", "ACTION_REFUSED", "TRANSACTION_REVERTED", "TRANSACTION_PENDING",
          "UNKNOWN", "killed"}

Run == [goal : Goals, at : Places, seen : SUBSET Facility, sent : BOOLEAN, lost : BOOLEAN,
        code : Codes, shown : {"nothing", "success", "reverted"}]

Tx == [goal : Goals, run : Nat]

Receipt == [ok : BOOLEAN, block : SUBSET Facility, last : BOOLEAN]

TypeOK ==
  /\ chain \in Facility
  /\ pool \subseteq Tx
  /\ DOMAIN receipts \subseteq Tx
  /\ open \subseteq DOMAIN receipts
  /\ receipts \in [DOMAIN receipts -> Receipt]
  /\ runs \in Seq(Run)
  /\ journal \subseteq DOMAIN runs

\* What a run's fields say of each other and of the journal: a hash is in the journal once
\* its run is past the line, and the window closes with the run.
Consistent(run, inJournal) ==
  /\ run.at \in Before => ~run.sent
  /\ run.at \in {"executing", "waiting", "reporting"} => inJournal
  /\ run.sent /\ run.at # "sent" /\ ~run.lost => inJournal
  /\ run.lost \/ run.shown # "nothing" \/ run.code # "none" => run.at = "ended"
  /\ run.at \in {"checking", "permitted", "sending", "sent", "reporting"} =>
       run.goal # "waiver"

\* What the facility is at the end of a block in which a transaction for goal succeeded,
\* as the last one or not.
Effect(goal, c, last) ==
  /\ goal = "submit" => c.sequence >= 1
  /\ last => /\ goal \in {"restore", "draw"} => c.state # "CURE"
             /\ goal = "sync" => c.state = judged(c)

\* A run that has ended shows the end of a block that is full, if anything.
Shows(run, tx) ==
  run.at = "ended" =>
    \/ run.seen = {}
    \/ tx \in DOMAIN receipts \ open /\ run.seen = receipts[tx].block

\* A code or an answer that says reverted has to be right, and a report needs the
\* receipt of a success.
SaysReverted(run) == run.code = "TRANSACTION_REVERTED" \/ run.shown = "reverted"

RunsInv ==
  \A r \in DOMAIN runs :
    /\ Consistent(runs[r], r \in journal)
    /\ SaysReverted(runs[r]) => txOf(r) \in DOMAIN receipts /\ ~receipts[txOf(r)].ok
    /\ runs[r].at = "reporting" => txOf(r) \in DOMAIN receipts /\ receipts[txOf(r)].ok
    /\ Shows(runs[r], txOf(r))

\* What the node holds or has mined was sent by a run, and a success has its effect; the
\* block that is being filled ends, so far, where the chain is.
ChainInv ==
  /\ \A tx \in DOMAIN receipts : \A c \in receipts[tx].block : Effect(tx.goal, c, receipts[tx].last)
  /\ \A tx \in open : receipts[tx].ok => receipts[tx].block = {chain}
  /\ pool \cap DOMAIN receipts = {}
  /\ \A tx \in pool \cup DOMAIN receipts :
       \E r \in DOMAIN runs : tx = txOf(r) /\ (runs[r].goal # "waiver" => runs[r].sent)

\* A second run for a goal begins only after the first has come to nothing.
OrderInv ==
  \A r, k \in DOMAIN runs :
    r < k /\ runs[r].goal = runs[k].goal /\ runs[r].goal # "waiver" => cameToNothing(r)

CliInv == TypeOK /\ RunsInv /\ ChainInv /\ OrderInv

-----------------------------------------------------------------------------
(* A step of one run.                                                      *)

\* Run r goes over to run, and perhaps into the journal, and both agree.
Moved(r, run) ==
  /\ runs' = [runs EXCEPT ![r] = run]
  /\ run \in Run /\ run.goal = runs[r].goal
  /\ runs[r].sent => run.sent
  /\ journal \subseteq journal' /\ journal' \subseteq journal \cup {r}
  /\ Consistent(run, r \in journal')
  /\ SaysReverted(run) => txOf(r) \in DOMAIN receipts /\ ~receipts[txOf(r)].ok
  /\ run.at = "reporting" => txOf(r) \in DOMAIN receipts /\ receipts[txOf(r)].ok
  /\ Shows(run, txOf(r))
  /\ cameToNothing(r) => cameToNothing(r)'

\* It may have sent its transaction.
MaySend(r) ==
  /\ UNCHANGED <<chain, open, receipts>>
  /\ \/ pool' = pool
     \/ /\ pool' = pool \cup {txOf(r)}
        /\ txOf(r) \notin DOMAIN receipts
        /\ runs[r].goal # "waiver" => runs'[r].sent

LEMMA RunsAt ==
  ASSUME TypeOK, NEW r \in DOMAIN runs
  PROVE  runs[r] \in Run /\ DOMAIN runs = 1..Len(runs) /\ r \in Nat
BY DEF TypeOK

LEMMA MovedRuns ==
  ASSUME TypeOK, NEW r \in DOMAIN runs, NEW run \in Run, runs' = [runs EXCEPT ![r] = run]
  PROVE  /\ runs' \in Seq(Run) /\ DOMAIN runs' = DOMAIN runs
         /\ runs'[r] = run
         /\ \A k \in DOMAIN runs : k # r => runs'[k] = runs[k]
BY ExceptSeq DEF TypeOK

LEMMA MoveKeeps ==
  ASSUME CliInv, NEW r \in DOMAIN runs, NEW run, Moved(r, run), MaySend(r)
  PROVE  CliInv'
<1>1. /\ runs' \in Seq(Run) /\ DOMAIN runs' = DOMAIN runs /\ runs'[r] = run
      /\ \A k \in DOMAIN runs : k # r => runs'[k] = runs[k]
  BY MovedRuns DEF Moved, CliInv
<1>2. \A k \in DOMAIN runs : runs'[k].goal = runs[k].goal /\ (runs[k].sent => runs'[k].sent)
  BY <1>1 DEF Moved
<1>3. \A k \in DOMAIN runs : txOf(k)' = txOf(k)
  BY <1>2 DEF txOf
<1>4. TypeOK'
  <2>1. txOf(r) \in Tx
    BY RunsAt DEF txOf, Tx, CliInv, Run
  <2>2. journal' \subseteq DOMAIN runs'
    BY <1>1 DEF Moved, CliInv, TypeOK
  <2> QED  BY <1>1, <2>1, <2>2 DEF MaySend, CliInv, TypeOK
<1>5. RunsInv'
  <2> SUFFICES ASSUME NEW k \in DOMAIN runs
               PROVE  /\ Consistent(runs'[k], k \in journal')
                      /\ SaysReverted(runs'[k]) =>
                           txOf(k) \in DOMAIN receipts /\ ~receipts[txOf(k)].ok
                      /\ runs'[k].at = "reporting" => txOf(k) \in DOMAIN receipts /\ receipts[txOf(k)].ok
                      /\ Shows(runs'[k], txOf(k))
    BY <1>1, <1>3 DEF RunsInv, MaySend, Shows
  <2>1. CASE k = r
    BY <1>1, <2>1 DEF Moved
  <2>2. CASE k # r
    <3>1. runs'[k] = runs[k] /\ (k \in journal' <=> k \in journal)
      BY <1>1, <2>2 DEF Moved
    <3> QED  BY <3>1 DEF CliInv, RunsInv
  <2> QED  BY <2>1, <2>2
<1>6. ChainInv'
  <2>1. ASSUME NEW tx \in pool' \cup DOMAIN receipts
        PROVE  \E k \in DOMAIN runs : tx = txOf(k) /\ (runs'[k].goal # "waiver" => runs'[k].sent)
    <3>1. CASE tx \in pool \cup DOMAIN receipts
      BY <1>2, <3>1 DEF CliInv, ChainInv
    <3>2. CASE tx \notin pool \cup DOMAIN receipts
      BY <1>2, <2>1, <3>2 DEF MaySend
    <3> QED  BY <3>1, <3>2
  <2>2. pool' \cap DOMAIN receipts = {}
    BY DEF MaySend, CliInv, ChainInv
  <2>3. /\ \A tx \in DOMAIN receipts' : \A c \in receipts'[tx].block :
             Effect(tx.goal, c, receipts'[tx].last)
        /\ \A tx \in open' : receipts'[tx].ok => receipts'[tx].block = {chain'}
    BY DEF MaySend, CliInv, ChainInv
  <2> QED  BY <1>1, <1>3, <2>1, <2>2, <2>3 DEF ChainInv, MaySend
<1>7. OrderInv'
  <2> SUFFICES ASSUME NEW j \in DOMAIN runs, NEW k \in DOMAIN runs, j < k,
                      runs[j].goal = runs[k].goal, runs[j].goal # "waiver"
               PROVE  cameToNothing(j)'
    BY <1>1, <1>2 DEF OrderInv
  <2>1. cameToNothing(j)
    BY DEF CliInv, OrderInv
  <2>2. CASE j = r
    BY <2>1, <2>2 DEF Moved
  <2>3. CASE j # r
    <3>1. runs'[j] = runs[j] /\ (j \in journal' <=> j \in journal)
      BY <1>1, <2>3 DEF Moved
    <3> QED  BY <2>1, <3>1 DEF cameToNothing, ended, journalled
  <2> QED  BY <2>2, <2>3
<1> QED  BY <1>4, <1>5, <1>6, <1>7 DEF CliInv

-----------------------------------------------------------------------------
(* What each step does to its run.                                         *)

\* The journal's line for r is written, or nothing is.
MayJournal(r) == journal' = journal \/ journal' = journal \cup {r}

\* A run that has not ended has nothing to say of its outcome yet.
LEMMA Undecided ==
  ASSUME CliInv, NEW r \in DOMAIN runs, ~ended(r)
  PROVE  /\ runs[r] \in Run /\ Consistent(runs[r], r \in journal)
         /\ ~runs[r].lost /\ runs[r].shown = "nothing" /\ runs[r].code = "none"
         /\ ~cameToNothing(r)
BY RunsAt DEF CliInv, RunsInv, Consistent, ended, cameToNothing, Run

\* Ending is sound wherever it happens, with any code but a wrong "reverted".
LEMMA EndMoves ==
  ASSUME CliInv, NEW r \in DOMAIN runs, ~ended(r), NEW code \in Codes, end(r, code),
         MayJournal(r),
         code = "TRANSACTION_REVERTED" => txOf(r) \in DOMAIN receipts /\ ~receipts[txOf(r)].ok
  PROVE  \E run : Moved(r, run)
<1> DEFINE run == [runs[r] EXCEPT !.at = "ended", !.code = code, !.seen = {},
                                  !.lost = runs[r].at = "sent"]
<1>1. runs[r] \in Run /\ Consistent(runs[r], r \in journal)
      /\ ~runs[r].lost /\ runs[r].shown = "nothing" /\ ~cameToNothing(r)
  BY Undecided
<1>2. runs' = [runs EXCEPT ![r] = run]
  BY DEF end
<1>3. /\ run.at = "ended" /\ run.code = code /\ run.seen = {} /\ run.lost = (runs[r].at = "sent")
      /\ run.goal = runs[r].goal /\ run.sent = runs[r].sent /\ run.shown = "nothing"
      /\ run \in Run
  BY <1>1 DEF Run, Places
<1> HIDE DEF run
<1>4. Consistent(run, r \in journal')
  BY <1>1, <1>3 DEF Consistent, MayJournal, Before, Run
<1>5. SaysReverted(run) => txOf(r) \in DOMAIN receipts /\ ~receipts[txOf(r)].ok
  BY <1>3 DEF SaysReverted
<1>6. Shows(run, txOf(r))
  BY <1>3 DEF Shows
<1> QED  BY <1>1, <1>2, <1>3, <1>4, <1>5, <1>6 DEF Moved, MayJournal

\* So is going on to another place, when the hash is in the journal where it has to be.
LEMMA GoesOn ==
  ASSUME CliInv, NEW r \in DOMAIN runs, ~ended(r), NEW at \in Places \ {"ended"},
         NEW run \in Run, runs' = [runs EXCEPT ![r] = run], MayJournal(r),
         run.at = at, run.goal = runs[r].goal, run.lost = runs[r].lost,
         run.code = runs[r].code, run.shown = runs[r].shown,
         runs[r].sent => run.sent,
         at \in Before => ~run.sent,
         at \in {"executing", "waiting", "reporting"} => r \in journal',
         at \in {"checking", "permitted", "sending", "sent", "reporting"} =>
           runs[r].goal # "waiver",
         at = "reporting" => txOf(r) \in DOMAIN receipts /\ receipts[txOf(r)].ok
  PROVE  Moved(r, run)
<1>1. ~runs[r].lost /\ runs[r].shown = "nothing" /\ runs[r].code = "none" /\ ~cameToNothing(r)
  BY Undecided
<1>2. Consistent(run, r \in journal')
  BY <1>1 DEF Consistent, Before, Places
<1> QED  BY <1>1, <1>2 DEF Moved, MayJournal, SaysReverted, Shows

\* goTo changes the place alone.
LEMMA GoToMoves ==
  ASSUME CliInv, NEW r \in DOMAIN runs, ~ended(r), NEW at \in Places \ {"ended"}, goTo(r, at),
         MayJournal(r),
         at \in Before => runs[r].at \in Before,
         at \in {"executing", "waiting", "reporting"} => r \in journal',
         at \in {"checking", "permitted", "sending", "sent", "reporting"} =>
           runs[r].goal # "waiver",
         at = "reporting" => txOf(r) \in DOMAIN receipts /\ receipts[txOf(r)].ok
  PROVE  \E run : Moved(r, run)
<1> DEFINE run == [runs[r] EXCEPT !.at = at]
<1>1. runs[r] \in Run /\ Consistent(runs[r], r \in journal)
  BY Undecided
<1>2. runs' = [runs EXCEPT ![r] = run]
  BY DEF goTo
<1>3. /\ run.at = at /\ run.goal = runs[r].goal /\ run.lost = runs[r].lost
      /\ run.code = runs[r].code /\ run.shown = runs[r].shown /\ run.sent = runs[r].sent
      /\ run \in Run
  BY <1>1 DEF Run
<1>4. at \in Before => ~run.sent
  BY <1>1, <1>3 DEF Consistent
<1> HIDE DEF run
<1> QED  BY <1>2, <1>3, <1>4, GoesOn

\* The two ways in which a command reads and goes on, or ends.
LEMMA Quietly ==
  ASSUME CliInv, NEW r \in DOMAIN runs, ~ended(r), UNCHANGED world,
         \/ UNCHANGED journal
         \/ journal' = journal \cup {r},
         \/ runs[r].at \in Before /\ runs[r].goal # "waiver" /\ goTo(r, "sending")
         \/ runs[r].at \in Before /\ goTo(r, "resolved")
         \/ runs[r].at \in Before /\ goTo(r, "executing") /\ r \in journal'
         \/ goTo(r, "waiting") /\ r \in journal'
         \/ \E code \in Codes \ {"TRANSACTION_REVERTED"} : end(r, code)
  PROVE  (\E run : Moved(r, run)) /\ MaySend(r)
<1>1. MaySend(r) /\ MayJournal(r)
  BY DEF MaySend, MayJournal, world
<1>2. CASE runs[r].at \in Before /\ runs[r].goal # "waiver" /\ goTo(r, "sending")
  BY <1>1, <1>2, GoToMoves DEF Places, Before
<1>3. CASE runs[r].at \in Before /\ goTo(r, "resolved")
  BY <1>1, <1>3, GoToMoves DEF Places, Before
<1>4. CASE runs[r].at \in Before /\ goTo(r, "executing") /\ r \in journal'
  BY <1>1, <1>4, GoToMoves DEF Places, Before
<1>5. CASE goTo(r, "waiting") /\ r \in journal'
  BY <1>1, <1>5, GoToMoves DEF Places, Before
<1>6. CASE \E code \in Codes \ {"TRANSACTION_REVERTED"} : end(r, code)
  BY <1>1, <1>6, EndMoves
<1> QED  BY <1>2, <1>3, <1>4, <1>5, <1>6

LEMMA OperateMoves ==
  ASSUME CliInv, NEW r \in DOMAIN runs, operate(r)
  PROVE  (\E run : Moved(r, run)) /\ MaySend(r)
<1>1. /\ ~ended(r) /\ UNCHANGED world /\ journal' = journal
      /\ runs[r].at = "opening" /\ runs[r].goal # "waiver"
  BY DEF operate, ended, noLine
<1>2. CASE runs' = [runs EXCEPT ![r].at = "checking", ![r].seen = {chain}]
  <2> DEFINE run == [runs[r] EXCEPT !.at = "checking", !.seen = {chain}]
  <2>1. runs[r] \in Run /\ Consistent(runs[r], r \in journal)
    BY <1>1, Undecided
  <2>2. runs' = [runs EXCEPT ![r] = run]
    BY <1>2
  <2>3. /\ run.at = "checking" /\ run.goal = runs[r].goal /\ run.lost = runs[r].lost
        /\ run.code = runs[r].code /\ run.shown = runs[r].shown /\ run.sent = runs[r].sent
        /\ run \in Run
    BY <2>1 DEF Run, Places, Before, CliInv, TypeOK
  <2>4. ~runs[r].sent
    BY <1>1, <2>1 DEF Consistent, Before
  <2> HIDE DEF run
  <2>5. Moved(r, run)
    BY <1>1, <2>2, <2>3, <2>4, GoesOn DEF Places, Before, MayJournal
  <2> QED  BY <1>1, <2>5 DEF MaySend, world
<1>3. CASE \E code \in {"INVALID_INPUT", "MISMATCH", "RPC_UNAVAILABLE", "SIGNER_UNAVAILABLE"} :
             end(r, code)
  BY <1>1, <1>3, Quietly DEF Codes
<1> QED  BY <1>2, <1>3 DEF operate, noLine

\* The reads, the simulation behind them, and its line.
LEMMA PreparationMoves ==
  ASSUME CliInv, NEW r \in DOMAIN runs,
         \/ checkSequence(r) \/ checkRole(r) \/ readState(r)
         \/ journalSimulation(r) \/ resolveProposal(r) \/ journalSignedHash(r)
  PROVE  (\E run : Moved(r, run)) /\ MaySend(r)
<1>1. runs[r] \in Run /\ Consistent(runs[r], r \in journal)
  BY RunsAt DEF CliInv, RunsInv
<1>2. CASE checkSequence(r) \/ checkRole(r) \/ readState(r)
  <2>1. /\ ~ended(r) /\ UNCHANGED world /\ journal' = journal
        /\ runs[r].at \in Before /\ runs[r].goal # "waiver"
        /\ \/ runs' = [runs EXCEPT ![r].at = "permitted", ![r].seen = {}]
           \/ \E code \in Codes \ {"TRANSACTION_REVERTED"} : end(r, code)
    BY <1>2 DEF checkSequence, checkRole, readState, checking, simulateCall, noLine, rpcFails,
                ended, Before, Codes
  <2>2. CASE runs' = [runs EXCEPT ![r].at = "permitted", ![r].seen = {}]
    <3> DEFINE run == [runs[r] EXCEPT !.at = "permitted", !.seen = {}]
    <3>1. runs' = [runs EXCEPT ![r] = run]
      BY <2>2
    <3>2. /\ run.at = "permitted" /\ run.goal = runs[r].goal /\ run.lost = runs[r].lost
          /\ run.code = runs[r].code /\ run.shown = runs[r].shown /\ run.sent = runs[r].sent
          /\ run \in Run
      BY <1>1 DEF Run, Places, Before
    <3>3. ~runs[r].sent
      BY <1>1, <2>1 DEF Consistent
    <3> HIDE DEF run
    <3>4. Moved(r, run)
      BY <2>1, <3>1, <3>2, <3>3, GoesOn DEF Places, Before, MayJournal
    <3> QED  BY <2>1, <3>4 DEF MaySend, world
  <2> QED  BY <2>1, <2>2, Quietly
<1>4. CASE journalSimulation(r)
  <2>1. /\ ~ended(r) /\ UNCHANGED world /\ journal' = journal
        /\ runs[r].at \in Before /\ runs[r].goal # "waiver"
        /\ goTo(r, "sending") \/ \E code \in Codes \ {"TRANSACTION_REVERTED"} : end(r, code)
    BY <1>1, <1>4 DEF journalSimulation, noLine, ended, Before, Codes, Consistent
  <2> QED  BY <2>1, Quietly
<1>5. CASE resolveProposal(r)
  <2>1. /\ ~ended(r) /\ UNCHANGED world /\ journal' = journal
        /\ runs[r].at \in Before
        /\ goTo(r, "resolved") \/ \E code \in Codes \ {"TRANSACTION_REVERTED"} : end(r, code)
    BY <1>5 DEF resolveProposal, noLine, ended, Before, Codes
  <2> QED  BY <2>1, Quietly
<1>6. CASE journalSignedHash(r)
  <2>1. /\ ~ended(r) /\ UNCHANGED world /\ runs[r].at \in Before
        /\ \/ journal' = journal \cup {r} /\ r \in journal' /\ goTo(r, "executing")
           \/ journal' = journal /\ end(r, "INVALID_INPUT")
    BY <1>6 DEF journalSignedHash, append, ended, Before
  <2> QED  BY <2>1, Quietly DEF Codes
<1> QED  BY <1>2, <1>4, <1>5, <1>6

\* Broadcasting, with the answer or without it.
LEMMA SendMoves ==
  ASSUME CliInv, NEW r \in DOMAIN runs, send(r)
  PROVE  (\E run : Moved(r, run)) /\ MaySend(r)
<1>1. /\ ~ended(r) /\ journal' = journal /\ UNCHANGED <<chain, open, receipts>>
      /\ runs[r].at = "sending"
  BY DEF send, ended
<1>2. /\ runs[r] \in Run /\ Consistent(runs[r], r \in journal)
      /\ ~runs[r].lost /\ runs[r].shown = "nothing" /\ runs[r].code = "none" /\ ~cameToNothing(r)
  BY <1>1, Undecided
<1>3. runs[r].goal # "waiver" /\ ~runs[r].sent
  BY <1>1, <1>2 DEF Consistent, Before
<1>4. txOf(r) \notin DOMAIN receipts
  <2>1. \A k \in DOMAIN runs : txOf(k) = txOf(r) => k = r
    BY <1>3, RunsAt DEF txOf, CliInv
  <2> QED  BY <1>3, <2>1 DEF CliInv, ChainInv
<1>5. CASE /\ pool' = pool \cup {txOf(r)}
           /\ runs' = [runs EXCEPT ![r].at = "sent", ![r].sent = TRUE]
  <2> DEFINE run == [runs[r] EXCEPT !.at = "sent", !.sent = TRUE]
  <2>1. runs' = [runs EXCEPT ![r] = run]
    BY <1>5
  <2>2. /\ run.at = "sent" /\ run.goal = runs[r].goal /\ run.lost = runs[r].lost
        /\ run.code = runs[r].code /\ run.shown = runs[r].shown /\ run.sent = TRUE
        /\ run \in Run
    BY <1>2 DEF Run, Places
  <2> HIDE DEF run
  <2>3. Moved(r, run)
    BY <1>1, <1>3, <2>1, <2>2, GoesOn DEF Places, Before, MayJournal
  <2>4. runs'[r] = run
    BY <2>1, <2>2, MovedRuns DEF CliInv
  <2> QED  BY <1>1, <1>4, <1>5, <2>2, <2>3, <2>4 DEF MaySend
<1>6. CASE /\ pool' = pool \cup {txOf(r)}
           /\ runs' = [runs EXCEPT ![r].at = "ended", ![r].sent = TRUE, ![r].lost = TRUE,
                                   ![r].seen = {}, ![r].code = "SIGNER_UNAVAILABLE"]
  <2> DEFINE run == [runs[r] EXCEPT !.at = "ended", !.sent = TRUE, !.lost = TRUE,
                                    !.seen = {}, !.code = "SIGNER_UNAVAILABLE"]
  <2>1. runs' = [runs EXCEPT ![r] = run]
    BY <1>6
  <2>2. /\ run.at = "ended" /\ run.goal = runs[r].goal /\ run.lost = TRUE
        /\ run.code = "SIGNER_UNAVAILABLE" /\ run.shown = runs[r].shown /\ run.sent = TRUE
        /\ run.seen = {} /\ run \in Run
    BY <1>2 DEF Run, Places, Codes
  <2> HIDE DEF run
  <2>3. Moved(r, run)
    BY <1>1, <1>2, <1>3, <2>1, <2>2 DEF Moved, Consistent, Before, SaysReverted, Shows
  <2>4. runs'[r] = run
    BY <2>1, <2>2, MovedRuns DEF CliInv
  <2> QED  BY <1>1, <1>4, <1>6, <2>2, <2>3, <2>4 DEF MaySend
<1>7. CASE pool' = pool /\ (end(r, "ACTION_REFUSED") \/ end(r, "SIGNER_UNAVAILABLE"))
  BY <1>1, <1>7, EndMoves DEF Codes, MaySend, MayJournal
<1> QED  BY <1>5, <1>6, <1>7 DEF send

\* The line of the hash, and the line of the outcome.
LEMMA SettlementMoves ==
  ASSUME CliInv, NEW r \in DOMAIN runs, journalHash(r) \/ settle(r)
  PROVE  (\E run : Moved(r, run)) /\ MaySend(r)
<1>1. /\ ~ended(r) /\ UNCHANGED world
      /\ runs[r] \in Run /\ Consistent(runs[r], r \in journal)
  BY RunsAt DEF journalHash, settle, ended, CliInv, RunsInv
<1>2. CASE journalHash(r)
  <2>1. \/ journal' = journal \cup {r} /\ r \in journal' /\ goTo(r, "waiting")
        \/ journal' = journal /\ end(r, "INVALID_INPUT")
    BY <1>2 DEF journalHash, append
  <2> QED  BY <1>1, <2>1, Quietly DEF Codes
<1>3. CASE settle(r)
  <2>1. runs[r].at = "waiting" /\ runs[r].goal # "waiver" /\ r \in journal
    BY <1>1, <1>3 DEF settle, Consistent
  <2>2. MaySend(r)
    BY <1>1 DEF MaySend, world
  <2>3. PICK outcome \in awaitReceipt(r) :
          CASE outcome = "success"    -> append(r, goTo(r, "reporting"))
            [] outcome = "reverted"   -> append(r, end(r, "TRANSACTION_REVERTED"))
            [] outcome = "pending"    -> append(r, end(r, "TRANSACTION_PENDING"))
            [] outcome = "unreadable" -> noLine(end(r, "UNKNOWN"))
    BY <1>3 DEF settle
  <2>4. /\ outcome \in {"success", "reverted", "pending", "unreadable"}
        /\ outcome # "pending" => isMined(r)
        /\ outcome = "reverted" => ~receipts[txOf(r)].ok
        /\ outcome = "success" => receipts[txOf(r)].ok
    BY <2>3 DEF awaitReceipt, receiptStatus
  <2>5. CASE end(r, "INVALID_INPUT") /\ journal' = journal
    BY <1>1, <2>5, Quietly DEF Codes
  <2>6. CASE outcome = "success" /\ goTo(r, "reporting") /\ journal' = journal \cup {r}
    BY <1>1, <2>1, <2>2, <2>4, <2>6, GoToMoves DEF Places, Before, MayJournal, isMined
  <2>7. CASE outcome = "reverted" /\ end(r, "TRANSACTION_REVERTED") /\ journal' = journal \cup {r}
    BY <1>1, <2>2, <2>4, <2>7, EndMoves DEF Codes, MayJournal, isMined
  <2>8. CASE outcome = "pending" /\ end(r, "TRANSACTION_PENDING") /\ journal' = journal \cup {r}
    BY <1>1, <2>8, Quietly DEF Codes
  <2>9. CASE outcome = "unreadable" /\ end(r, "UNKNOWN") /\ journal' = journal
    BY <1>1, <2>9, Quietly DEF Codes
  <2> QED  BY <2>3, <2>4, <2>5, <2>6, <2>7, <2>8, <2>9 DEF append, noLine
<1> QED  BY <1>2, <1>3

\* The report at the receipt's block.
LEMMA ReportMoves ==
  ASSUME CliInv, open = {}, NEW r \in DOMAIN runs, postconditions(r)
  PROVE  (\E run : Moved(r, run)) /\ MaySend(r)
<1>1. /\ ~ended(r) /\ UNCHANGED world /\ journal' = journal /\ runs[r].at = "reporting"
  BY DEF postconditions, noLine, ended
<1>2. /\ runs[r] \in Run /\ Consistent(runs[r], r \in journal)
      /\ ~runs[r].lost /\ runs[r].shown = "nothing" /\ runs[r].code = "none" /\ ~cameToNothing(r)
  BY <1>1, Undecided
<1>3. CASE rpcFails(r)
  BY <1>1, <1>3, Quietly DEF rpcFails, Codes
<1>4. CASE runs' = [runs EXCEPT ![r].at = "ended", ![r].seen = receipts[txOf(r)].block]
  <2> DEFINE run == [runs[r] EXCEPT !.at = "ended", !.seen = receipts[txOf(r)].block]
  <2>1. txOf(r) \in DOMAIN receipts \ open /\ receipts[txOf(r)].block \subseteq Facility
    <3>1. txOf(r) \in DOMAIN receipts
      BY <1>1 DEF CliInv, RunsInv
    <3> QED  BY <3>1 DEF CliInv, TypeOK, Receipt
  <2>2. runs' = [runs EXCEPT ![r] = run]
    BY <1>4
  <2>3. /\ run.at = "ended" /\ run.goal = runs[r].goal /\ run.lost = runs[r].lost
        /\ run.code = runs[r].code /\ run.shown = runs[r].shown /\ run.sent = runs[r].sent
        /\ run \in Run /\ run.seen = receipts[txOf(r)].block
    BY <1>2, <2>1 DEF Run, Places
  <2> HIDE DEF run
  <2>4. Moved(r, run)
    BY <1>1, <1>2, <2>1, <2>2, <2>3 DEF Moved, Consistent, Before, SaysReverted, Shows
  <2> QED  BY <1>1, <2>4 DEF MaySend, world
<1> QED  BY <1>3, <1>4 DEF postconditions, noLine

\* The desk's side of waiver broadcast.
LEMMA WaiverMoves ==
  ASSUME CliInv, NEW r \in DOMAIN runs, executeSend(r) \/ executeConfirm(r)
  PROVE  (\E run : Moved(r, run)) /\ MaySend(r)
<1>1. /\ ~ended(r) /\ UNCHANGED <<chain, open, receipts>>
      /\ runs[r] \in Run /\ Consistent(runs[r], r \in journal)
  BY RunsAt DEF executeSend, executeConfirm, ended, CliInv, RunsInv
<1>2. MayJournal(r)
  BY DEF executeSend, executeConfirm, append, MayJournal
<1>3. CASE executeSend(r)
  <2>1. CASE /\ pool' = IF isMined(r) THEN pool ELSE pool \cup {txOf(r)}
             /\ runs' = [runs EXCEPT ![r].at = "waiting", ![r].sent = TRUE]
             /\ journal' = journal
    <3> DEFINE run == [runs[r] EXCEPT !.at = "waiting", !.sent = TRUE]
    <3>1. runs' = [runs EXCEPT ![r] = run]
      BY <2>1
    <3>2. /\ run.at = "waiting" /\ run.goal = runs[r].goal /\ run.lost = runs[r].lost
          /\ run.code = runs[r].code /\ run.shown = runs[r].shown /\ run.sent = TRUE
          /\ run \in Run
      BY <1>1 DEF Run, Places
    <3> HIDE DEF run
    <3>3. r \in journal
      BY <1>1, <1>3 DEF executeSend, Consistent
    <3>4. Moved(r, run)
      BY <1>1, <1>2, <2>1, <3>1, <3>2, <3>3, GoesOn DEF Places, Before
    <3>5. runs'[r] = run
      BY <3>1, <3>2, MovedRuns DEF CliInv
    <3> QED  BY <1>1, <2>1, <3>2, <3>4, <3>5 DEF MaySend, isMined
  <2>2. CASE pool' = pool /\ \E code \in {"RPC_UNAVAILABLE", "ACTION_REFUSED"} : append(r, end(r, code))
    <3>1. end(r, "RPC_UNAVAILABLE") \/ end(r, "ACTION_REFUSED") \/ end(r, "INVALID_INPUT")
      BY <2>2 DEF append
    <3> QED  BY <1>1, <1>2, <2>2, <3>1, EndMoves DEF Codes, MaySend
  <2> QED  BY <1>3, <2>1, <2>2 DEF executeSend
<1>4. CASE executeConfirm(r)
  <2>1. pool' = pool /\ (end(r, "none") \/ end(r, "RPC_UNAVAILABLE") \/ end(r, "INVALID_INPUT"))
    BY <1>4 DEF executeConfirm, append
  <2> QED  BY <1>1, <1>2, <2>1, EndMoves DEF Codes, MaySend
<1> QED  BY <1>3, <1>4

LEMMA KillMoves ==
  ASSUME CliInv, NEW r \in DOMAIN runs, kill(r)
  PROVE  (\E run : Moved(r, run)) /\ MaySend(r)
BY EndMoves DEF kill, Codes, MayJournal, MaySend

\* tx show adds what it learned of a journalled run that has ended.
LEMMA ShowMoves ==
  ASSUME CliInv, NEW r \in DOMAIN runs, show(r)
  PROVE  \/ UNCHANGED runs
         \/ \E run : Moved(r, run)
<1> SUFFICES ASSUME NEW answer \in readTransaction(r), answer \in {"success", "reverted"},
                    runs' = [runs EXCEPT ![r].shown = answer]
             PROVE  \E run : Moved(r, run)
  BY DEF show
<1> DEFINE run == [runs[r] EXCEPT !.shown = answer]
<1>1. runs[r] \in Run /\ Consistent(runs[r], r \in journal)
  BY RunsAt DEF CliInv, RunsInv
<1>2. /\ ended(r) /\ r \in journal /\ journal' = journal /\ runs[r].shown = "nothing"
      /\ runs[r].code \notin {"none", "TRANSACTION_REVERTED"}
  BY DEF show, journalled
<1>3. runs' = [runs EXCEPT ![r] = run]
  OBVIOUS
<1>4. /\ run.at = "ended" /\ run.goal = runs[r].goal /\ run.lost = runs[r].lost
      /\ run.code = runs[r].code /\ run.shown = answer /\ run.sent = runs[r].sent
      /\ run.seen = runs[r].seen /\ run \in Run
  BY <1>1, <1>2 DEF Run, ended
<1>5. answer = "reverted" => txOf(r) \in DOMAIN receipts /\ ~receipts[txOf(r)].ok
  BY DEF readTransaction, receiptStatus, isMined
<1> HIDE DEF run
<1>6. Consistent(run, r \in journal')
  BY <1>1, <1>2, <1>4 DEF Consistent, Before
<1>7. cameToNothing(r) => cameToNothing(r)'
  <2>1. runs'[r] = run
    BY <1>3, <1>4, MovedRuns DEF CliInv
  <2> QED  BY <1>2, <1>4, <2>1 DEF cameToNothing, ended, journalled
<1>8. Shows(run, txOf(r))
  BY <1>2, <1>4 DEF CliInv, RunsInv, Shows, ended
<1> QED  BY <1>2, <1>3, <1>4, <1>5, <1>6, <1>7, <1>8 DEF Moved, SaysReverted

-----------------------------------------------------------------------------
(* The invariant.                                                          *)

LEMMA JudgedFacility ==
  ASSUME NEW c \in Facility, NEW goal
  PROVE  after(c, goal) \in Facility
<1>1. judged(c) \in {"COMPLIANT", "CURE", "WAIVED"}
  BY DEF judged
<1>2. CASE goal = "submit"
  BY <1>2 DEF after, Facility
<1>3. CASE goal = "waiver"
  BY <1>3 DEF after, Facility
<1>4. CASE goal # "submit" /\ goal # "waiver"
  <2>1. after(c, goal) = [c EXCEPT !.state = judged(c)]
    BY <1>4 DEF after
  <2> QED  BY <1>1, <2>1 DEF Facility
<1> QED  BY <1>2, <1>3, <1>4

\* The block that is being filled goes on, to a facility that no message is lost from.
LEMMA BlockGoesOn ==
  ASSUME CliInv, NEW c \in Facility, c.sequence >= chain.sequence
  PROVE  /\ DOMAIN receiptsAt(c) = DOMAIN receipts
         /\ \A t \in DOMAIN receipts :
              /\ receiptsAt(c)[t] \in Receipt
              /\ receiptsAt(c)[t].ok = receipts[t].ok
              /\ t \notin open => receiptsAt(c)[t] = receipts[t]
              /\ t \in open /\ receipts[t].ok => receiptsAt(c)[t].block = {c}
              /\ \A d \in receiptsAt(c)[t].block : Effect(t.goal, d, receiptsAt(c)[t].last)
<1>1. DOMAIN receiptsAt(c) = DOMAIN receipts
  BY DEF receiptsAt
<1> SUFFICES ASSUME NEW t \in DOMAIN receipts
             PROVE  /\ receiptsAt(c)[t] \in Receipt
                    /\ receiptsAt(c)[t].ok = receipts[t].ok
                    /\ t \notin open => receiptsAt(c)[t] = receipts[t]
                    /\ t \in open /\ receipts[t].ok => receiptsAt(c)[t].block = {c}
                    /\ \A d \in receiptsAt(c)[t].block : Effect(t.goal, d, receiptsAt(c)[t].last)
  BY <1>1
<1>2. /\ receipts[t] \in Receipt /\ chain \in Facility
      /\ \A d \in receipts[t].block : Effect(t.goal, d, receipts[t].last)
      /\ t \in open /\ receipts[t].ok => receipts[t].block = {chain}
  BY DEF CliInv, TypeOK, ChainInv
<1>3. CASE t \in open /\ receipts[t].ok
  <2>1. receiptsAt(c)[t] = [receipts[t] EXCEPT !.block = {c}, !.last = FALSE]
    BY <1>3 DEF receiptsAt
  <2>2. /\ receiptsAt(c)[t].block = {c} /\ receiptsAt(c)[t].last = FALSE
        /\ receiptsAt(c)[t].ok = receipts[t].ok
        /\ receiptsAt(c)[t] \in Receipt
    BY <1>2, <2>1 DEF Receipt
  <2>3. t.goal = "submit" => c.sequence >= 1
    BY <1>2, <1>3 DEF Effect, Facility
  <2> QED  BY <1>3, <2>2, <2>3 DEF Effect
<1>4. CASE ~(t \in open /\ receipts[t].ok)
  <2>1. receiptsAt(c)[t] = receipts[t]
    BY <1>4 DEF receiptsAt
  <2> QED  BY <1>2, <1>4, <2>1
<1> QED  BY <1>3, <1>4

LEMMA ChainKeeps == ASSUME CliInv, chainMoves PROVE CliInv'
<1>1. chain' \in Facility /\ chain'.sequence >= chain.sequence
  <2>1. chain \in Facility /\ chain' \in others(chain)
    BY DEF chainMoves, CliInv, TypeOK
  <2>2. CASE chain' = [chain EXCEPT !.covered = ~@]
    <3>1. chain' \in Facility /\ chain'.sequence = chain.sequence /\ chain.sequence \in Nat
      BY <2>1, <2>2 DEF Facility
    <3> QED  BY <3>1
  <2>3. ASSUME NEW s \in (chain.sequence + 1)..MaxSequence, chain' = [chain EXCEPT !.sequence = s]
        PROVE  chain' \in Facility /\ chain'.sequence >= chain.sequence
    <3>1. s \in Nat /\ s >= chain.sequence
      BY <2>1, CliAssumption DEF Facility
    <3> QED  BY <2>1, <2>3, <3>1 DEF Facility
  <2>4. CASE chain' = [chain EXCEPT !.state = judged(chain)]
    <3>1. judged(chain) \in {"COMPLIANT", "CURE", "WAIVED"}
      BY DEF judged
    <3> QED  BY <2>1, <2>4, <3>1 DEF Facility
  <2> QED  BY <2>1, <2>2, <2>3, <2>4 DEF others
<1>2. receipts' = receiptsAt(chain') /\ UNCHANGED <<pool, open, journal, runs>>
  BY DEF chainMoves
<1>3. /\ DOMAIN receipts' = DOMAIN receipts
      /\ \A t \in DOMAIN receipts :
           /\ receipts'[t] \in Receipt
           /\ receipts'[t].ok = receipts[t].ok
           /\ t \notin open => receipts'[t] = receipts[t]
           /\ t \in open /\ receipts[t].ok => receipts'[t].block = {chain'}
           /\ \A d \in receipts'[t].block : Effect(t.goal, d, receipts'[t].last)
  BY <1>1, <1>2, BlockGoesOn
<1>4. receipts' \in [DOMAIN receipts' -> Receipt]
  <2>1. receipts' = [t \in DOMAIN receipts |-> receipts'[t]]
    BY <1>2 DEF receiptsAt
  <2> QED  BY <1>3, <2>1
<1>5. TypeOK'
  BY <1>1, <1>2, <1>3, <1>4 DEF CliInv, TypeOK
<1>6. RunsInv'
  BY <1>2, <1>3 DEF CliInv, RunsInv, txOf, Shows
<1>7. ChainInv'
  BY <1>2, <1>3 DEF CliInv, ChainInv, TypeOK, txOf
<1>8. OrderInv'
  BY <1>2 DEF CliInv, OrderInv, cameToNothing, ended, journalled
<1> QED  BY <1>5, <1>6, <1>7, <1>8 DEF CliInv

LEMMA LoseKeeps == ASSUME CliInv, lose PROVE CliInv'
BY DEF lose, CliInv, TypeOK, RunsInv, ChainInv, OrderInv, txOf, cameToNothing, ended, journalled,
       Shows

LEMMA SealKeeps == ASSUME CliInv, sealBlock PROVE CliInv'
BY DEF sealBlock, CliInv, TypeOK, RunsInv, ChainInv, OrderInv, txOf, cameToNothing, ended,
       journalled, Shows

\* A draw or a restoration is accepted of a facility that is then not judged in CURE.
LEMMA SuccessHasEffect ==
  ASSUME NEW c \in Facility, NEW goal, accepts(c, goal)
  PROVE  Effect(goal, after(c, goal), TRUE) /\ after(c, goal).sequence >= c.sequence
<1>1. CASE goal \in {"restore", "draw", "sync"}
  <2>1. /\ after(c, goal) = [c EXCEPT !.state = judged(c)]
        /\ goal # "sync" => judged(c) # "CURE"
    BY <1>1 DEF accepts, after, judged
  <2>2. /\ after(c, goal).state = judged(c) /\ after(c, goal).sequence = c.sequence
        /\ after(c, goal).waived = c.waived /\ after(c, goal).covered = c.covered
        /\ c.sequence \in Nat
    BY <2>1 DEF Facility
  <2>3. judged(after(c, goal)) = judged(c)
    BY <2>2 DEF judged
  <2> QED  BY <1>1, <2>1, <2>2, <2>3 DEF Effect
<1>2. CASE goal = "submit"
  <2>1. c.sequence \in Nat /\ c.sequence < 1
    BY <1>2 DEF accepts, Facility
  <2>2. after(c, goal).sequence = 1
    BY <1>2 DEF after, Facility
  <2> QED  BY <1>2, <2>1, <2>2 DEF Effect
<1>3. CASE goal \notin {"restore", "draw", "sync", "submit"}
  <2>1. c.sequence \in Nat /\ after(c, goal).sequence = c.sequence
    BY <1>3 DEF after, Facility
  <2> QED  BY <1>3, <2>1 DEF Effect
<1> QED  BY <1>1, <1>2, <1>3

LEMMA AcceptsIsBoolean ==
  ASSUME NEW c \in Facility, NEW goal \in Goals PROVE accepts(c, goal) \in BOOLEAN
<1>1. goal \in {"draw", "submit", "sync", "restore", "waiver"}
  BY CliAssumption
<1>2. c.covered \in BOOLEAN /\ c.waived \in BOOLEAN /\ (c.sequence < 1) \in BOOLEAN
  BY DEF Facility
<1>3. CASE goal = "draw"
  BY <1>2, <1>3 DEF accepts
<1>4. CASE goal = "submit"
  BY <1>2, <1>4 DEF accepts
<1>5. CASE goal = "sync"
  BY <1>5 DEF accepts
<1>6. CASE goal = "restore"
  BY <1>2, <1>6 DEF accepts
<1>7. CASE goal = "waiver"
  BY <1>2, <1>7 DEF accepts
<1> QED  BY <1>1, <1>3, <1>4, <1>5, <1>6, <1>7

\* Receipts are never taken back.
LEMMA MineKeeps == ASSUME CliInv, mine PROVE CliInv'
<1> PICK tx \in pool :
      LET ok == accepts(chain, tx.goal)
      IN /\ chain' = IF ok THEN after(chain, tx.goal) ELSE chain
         /\ receipts' = [t \in DOMAIN receipts \cup {tx} |->
              IF t = tx
              THEN [ok |-> ok, block |-> IF ok THEN {chain'} ELSE {}, last |-> TRUE]
              ELSE receiptsAt(chain')[t]]
         /\ open' = open \cup {tx}
         /\ pool' = pool \ {tx}
  BY DEF mine
<1> DEFINE ok == accepts(chain, tx.goal)
<1>1. UNCHANGED <<journal, runs>>
  BY DEF mine
<1>2. /\ chain \in Facility /\ tx \in Tx /\ tx \notin DOMAIN receipts
      /\ ok \in BOOLEAN
  BY AcceptsIsBoolean DEF CliInv, TypeOK, ChainInv, Tx
<1>3. /\ chain' \in Facility /\ chain'.sequence >= chain.sequence
      /\ ok => Effect(tx.goal, chain', TRUE)
  <2>1. CASE ok
    <3>1. chain' = after(chain, tx.goal)
      BY <2>1
    <3> QED  BY <1>2, <2>1, <3>1, JudgedFacility, SuccessHasEffect
  <2>2. CASE ~ok
    <3>1. chain' = chain
      BY <2>2
    <3>2. chain.sequence >= chain.sequence
      BY <1>2 DEF Facility
    <3> HIDE DEF ok
    <3> QED  BY <1>2, <2>2, <3>1, <3>2
  <2> QED  BY <2>1, <2>2
<1>4. /\ DOMAIN receipts' = DOMAIN receipts \cup {tx}
      /\ receipts'[tx] = [ok |-> ok, block |-> IF ok THEN {chain'} ELSE {}, last |-> TRUE]
      /\ \A t \in DOMAIN receipts : receipts'[t] = receiptsAt(chain')[t]
  BY <1>2
<1>5. \A t \in DOMAIN receipts :
        /\ receipts'[t] \in Receipt
        /\ receipts'[t].ok = receipts[t].ok
        /\ t \notin open => receipts'[t] = receipts[t]
        /\ t \in open /\ receipts[t].ok => receipts'[t].block = {chain'}
        /\ \A d \in receipts'[t].block : Effect(t.goal, d, receipts'[t].last)
  <2>1. \A t \in DOMAIN receipts :
          /\ receiptsAt(chain')[t] \in Receipt
          /\ receiptsAt(chain')[t].ok = receipts[t].ok
          /\ t \notin open => receiptsAt(chain')[t] = receipts[t]
          /\ t \in open /\ receipts[t].ok => receiptsAt(chain')[t].block = {chain'}
          /\ \A d \in receiptsAt(chain')[t].block : Effect(t.goal, d, receiptsAt(chain')[t].last)
    BY <1>3, BlockGoesOn
  <2>2. \A t \in DOMAIN receipts : receipts'[t] = receiptsAt(chain')[t]
    BY <1>4
  <2> HIDE DEF ok
  <2> QED  BY <2>1, <2>2
<1>6. /\ receipts'[tx] \in Receipt
      /\ receipts'[tx].ok => receipts'[tx].block = {chain'}
      /\ \A d \in receipts'[tx].block : Effect(tx.goal, d, receipts'[tx].last)
  <2> HIDE DEF ok
  <2> QED  BY <1>2, <1>3, <1>4 DEF Receipt
<1>7. receipts' \in [DOMAIN receipts' -> Receipt]
  <2>1. receipts' = [t \in DOMAIN receipts \cup {tx} |-> receipts'[t]]
    OBVIOUS
  <2> QED  BY <1>4, <1>5, <1>6, <2>1
<1>8. open' = open \cup {tx} /\ pool' = pool \ {tx}
  OBVIOUS
<1> HIDE DEF ok
<1>9. TypeOK'
  BY <1>1, <1>2, <1>3, <1>4, <1>7, <1>8 DEF CliInv, TypeOK
<1>10. RunsInv'
  <2> SUFFICES ASSUME NEW r \in DOMAIN runs
               PROVE  /\ Consistent(runs[r], r \in journal)
                      /\ SaysReverted(runs[r]) => txOf(r) \in DOMAIN receipts' /\ ~receipts'[txOf(r)].ok
                      /\ runs[r].at = "reporting" => txOf(r) \in DOMAIN receipts' /\ receipts'[txOf(r)].ok
                      /\ Shows(runs[r], txOf(r))'
    BY <1>1 DEF RunsInv, txOf, Shows
  <2>1. /\ Consistent(runs[r], r \in journal)
        /\ SaysReverted(runs[r]) => txOf(r) \in DOMAIN receipts /\ ~receipts[txOf(r)].ok
        /\ runs[r].at = "reporting" => txOf(r) \in DOMAIN receipts /\ receipts[txOf(r)].ok
        /\ Shows(runs[r], txOf(r))
    BY DEF CliInv, RunsInv
  <2>2. runs[r].at = "ended" =>
          \/ runs[r].seen = {}
          \/ txOf(r) \in DOMAIN receipts' \ open' /\ runs[r].seen = receipts'[txOf(r)].block
    BY <1>2, <1>4, <1>5, <1>8, <2>1 DEF Shows
  <2>3. Shows(runs[r], txOf(r))'
    BY <1>1, <2>2 DEF Shows, txOf
  <2> QED  BY <1>4, <1>5, <2>1, <2>3
<1>11. ChainInv'
  <2>1. \A t \in DOMAIN receipts' : \A c \in receipts'[t].block : Effect(t.goal, c, receipts'[t].last)
    BY <1>4, <1>5, <1>6
  <2>2. \A t \in open' : receipts'[t].ok => receipts'[t].block = {chain'}
    BY <1>5, <1>6, <1>8 DEF CliInv, TypeOK
  <2>3. pool' \cap DOMAIN receipts' = {}
    BY <1>4, <1>8 DEF CliInv, ChainInv
  <2>4. \A t \in pool' \cup DOMAIN receipts' :
          \E r \in DOMAIN runs : t = txOf(r) /\ (runs[r].goal # "waiver" => runs[r].sent)
    BY <1>4, <1>8 DEF CliInv, ChainInv
  <2> QED  BY <1>1, <2>1, <2>2, <2>3, <2>4 DEF ChainInv, txOf
<1>12. OrderInv'
  BY <1>1 DEF CliInv, OrderInv, cameToNothing, ended, journalled
<1> QED  BY <1>9, <1>10, <1>11, <1>12 DEF CliInv

\* A run begins when all have ended and those for its goal have come to nothing.
LEMMA StartKeeps == ASSUME CliInv, NEW goal \in Goals, start(goal) PROVE CliInv'
<1> DEFINE run == [goal |-> goal, at |-> "opening", seen |-> {}, sent |-> FALSE,
                   lost |-> FALSE, code |-> "none", shown |-> "nothing"]
<1>1. UNCHANGED <<chain, pool, open, receipts, journal>> /\ runs' = Append(runs, run)
  BY DEF start
<1>2. run \in Run
  BY DEF Run, Places, Before, Codes
<1>3. /\ Consistent(run, FALSE) /\ ~SaysReverted(run) /\ run.at # "reporting" /\ run.goal = goal
      /\ run.at # "ended"
  BY DEF Consistent, SaysReverted, Before
<1> HIDE DEF run
<1>4. /\ runs \in Seq(Run) /\ runs' \in Seq(Run) /\ Len(runs') = Len(runs) + 1
      /\ \A k \in 1..Len(runs) : runs'[k] = runs[k]
      /\ runs'[Len(runs) + 1] = run
  BY <1>1, <1>2, AppendProperties DEF CliInv, TypeOK
<1>5. DOMAIN runs = 1..Len(runs) /\ DOMAIN runs' = 1..Len(runs) + 1 /\ Len(runs) \in Nat
  BY <1>4
<1>6. TypeOK'
  BY <1>1, <1>4, <1>5 DEF CliInv, TypeOK
<1>7. \A k \in DOMAIN runs : k \in DOMAIN runs' /\ runs'[k] = runs[k] /\ txOf(k)' = txOf(k)
  BY <1>4, <1>5 DEF txOf
<1>8. RunsInv'
  <2> SUFFICES ASSUME NEW k \in DOMAIN runs'
               PROVE  /\ Consistent(runs'[k], k \in journal)
                      /\ SaysReverted(runs'[k]) => txOf(k)' \in DOMAIN receipts /\ ~receipts[txOf(k)'].ok
                      /\ runs'[k].at = "reporting" => txOf(k)' \in DOMAIN receipts /\ receipts[txOf(k)'].ok
                      /\ Shows(runs'[k], txOf(k)')
    BY <1>1 DEF RunsInv, Shows
  <2>1. CASE k \in DOMAIN runs
    BY <1>7, <2>1 DEF CliInv, RunsInv
  <2>2. CASE k \notin DOMAIN runs
    <3>1. k = Len(runs) + 1 /\ k \notin journal
      BY <1>5, <2>2 DEF CliInv, TypeOK
    <3>2. runs'[k] = run
      BY <1>4, <3>1
    <3>3. Consistent(run, k \in journal)
      BY <1>3, <3>1 DEF Consistent
    <3> QED  BY <1>3, <3>2, <3>3 DEF Shows
  <2> QED  BY <2>1, <2>2
<1>9. ChainInv'
  BY <1>1, <1>7 DEF CliInv, ChainInv
<1>10. OrderInv'
  <2> SUFFICES ASSUME NEW j \in DOMAIN runs', NEW k \in DOMAIN runs', j < k,
                      runs'[j].goal = runs'[k].goal, runs'[j].goal # "waiver"
               PROVE  cameToNothing(j)'
    BY DEF OrderInv
  <2>1. j \in DOMAIN runs /\ runs'[j] = runs[j]
    BY <1>4, <1>5
  <2>2. cameToNothing(j)
    <3>1. CASE k \in DOMAIN runs
      BY <1>7, <2>1, <3>1 DEF CliInv, OrderInv
    <3>2. CASE k \notin DOMAIN runs
      <4>1. runs[j].goal = goal
        BY <1>3, <1>4, <1>5, <2>1, <3>2
      <4> QED  BY <2>1, <4>1 DEF start
    <3> QED  BY <3>1, <3>2
  <2> QED  BY <1>1, <2>1, <2>2 DEF cameToNothing, ended, journalled
<1> QED  BY <1>6, <1>8, <1>9, <1>10 DEF CliInv

LEMMA CliInvariant == Spec => []CliInv
<1>1. Init => CliInv
  <2> SUFFICES ASSUME Init PROVE CliInv
    OBVIOUS
  <2>1. TypeOK
    <3>1. chain \in Facility
      <4>1. \A a \in BOOLEAN, b \in {"COMPLIANT", "CURE"} :
              [covered |-> a, waived |-> FALSE, sequence |-> 0, state |-> b] \in Facility
        <5> SUFFICES ASSUME NEW a \in BOOLEAN, NEW b \in {"COMPLIANT", "CURE"}
                     PROVE  [covered |-> a, waived |-> FALSE, sequence |-> 0, state |-> b]
                              \in [covered : BOOLEAN, waived : BOOLEAN, sequence : Nat,
                                   state : {"COMPLIANT", "CURE", "WAIVED"}]
          BY DEF Facility
        <5> 0 \in Nat
          OBVIOUS
        <5> QED  BY Zenon
      <4>2. PICK a \in BOOLEAN, b \in {"COMPLIANT", "CURE"} :
              chain = [covered |-> a, waived |-> FALSE, sequence |-> 0, state |-> b]
        BY Zenon DEF Init
      <4> QED  BY <4>1, <4>2
    <3>2. runs = << >> /\ runs \in Seq(Run) /\ journal = {} /\ pool = {}
      BY DEF Init
    <3>3. receipts = << >> /\ DOMAIN receipts = {}
      BY DEF Init
    <3>4. receipts \in [DOMAIN receipts -> Receipt] /\ open = {}
      BY <3>3 DEF Init
    <3> QED  BY <3>1, <3>2, <3>3, <3>4 DEF TypeOK
  <2>2. DOMAIN runs = {} /\ DOMAIN receipts = {} /\ pool = {} /\ open = {}
    BY DEF Init
  <2> QED  BY <2>1, <2>2 DEF CliInv, RunsInv, ChainInv, OrderInv
<1>2. CliInv /\ [Next]_vars => CliInv'
  <2> SUFFICES ASSUME CliInv, [Next]_vars PROVE CliInv'
    OBVIOUS
  <2>1. CASE chainMoves \/ mine \/ sealBlock \/ lose
    BY <2>1, ChainKeeps, MineKeeps, SealKeeps, LoseKeeps
  <2>2. ASSUME NEW goal \in Goals, start(goal) PROVE CliInv'
    BY <2>2, StartKeeps
  <2>3. ASSUME open = {}, NEW r \in DOMAIN runs, step(r) \/ kill(r) PROVE CliInv'
    <3>1. (\E run : Moved(r, run)) /\ MaySend(r)
      BY <2>3, OperateMoves, PreparationMoves, SendMoves, SettlementMoves, ReportMoves,
         WaiverMoves, KillMoves DEF step, submitReport, drawReport, covenantReport
    <3> QED  BY <3>1, MoveKeeps
  <2>4. ASSUME NEW r \in DOMAIN runs, show(r) PROVE CliInv'
    <3>1. MaySend(r) /\ UNCHANGED <<chain, pool, open, receipts, journal>>
      BY <2>4 DEF show, MaySend
    <3>2. CASE UNCHANGED runs
      BY <3>1, <3>2 DEF CliInv, TypeOK, RunsInv, ChainInv, OrderInv, txOf, cameToNothing,
                        ended, journalled, Shows
    <3>3. CASE \E run : Moved(r, run)
      BY <3>1, <3>3, MoveKeeps
    <3> QED  BY <2>4, <3>2, <3>3, ShowMoves
  <2>5. CASE UNCHANGED vars
    BY <2>5 DEF vars, CliInv, TypeOK, RunsInv, ChainInv, OrderInv, txOf, cameToNothing,
                ended, journalled, Shows
  <2> QED  BY <2>1, <2>2, <2>3, <2>4, <2>5 DEF Next
<1> QED  BY <1>1, <1>2, PTL DEF Spec

-----------------------------------------------------------------------------

\* Wherever a command is interrupted, the journal has the hash of what it broadcast,
\* outside the window between the send and the line.
THEOREM HashIsKept == Spec => []HashOutlivesCommand
<1>1. CliInv => HashOutlivesCommand
  BY DEF CliInv, RunsInv, Consistent, HashOutlivesCommand, ended, journalled
<1> QED  BY <1>1, CliInvariant, PTL

\* Nothing is done twice by an operator whom neither the codes nor that window misled.
THEOREM NothingTwice == Spec => []DoneOnce
<1>1. ASSUME CliInv PROVE DoneOnce
  <2> SUFFICES ASSUME NEW goal \in Goals,
                      \A r \in DOMAIN runs : runs[r].goal = goal => ~misled(r)
               PROVE  Cardinality({tx \in DOMAIN receipts : tx.goal = goal /\ receipts[tx].ok}) <= 1
    BY DEF DoneOnce
  <2> DEFINE done == {tx \in DOMAIN receipts : tx.goal = goal /\ receipts[tx].ok}
  <2>1. \A tx \in done : \E r \in DOMAIN runs :
          /\ tx = txOf(r) /\ runs[r].goal = goal
          /\ goal # "waiver" => runs[r].sent
    BY <1>1 DEF CliInv, ChainInv, txOf
  <2>2. ASSUME NEW r \in DOMAIN runs, runs[r].goal = goal, goal # "waiver", runs[r].sent,
               cameToNothing(r), txOf(r) \in done
        PROVE  FALSE
    <3>1. Consistent(runs[r], r \in journal) /\ ended(r) /\ ~SaysReverted(runs[r])
      BY <1>1, <2>2 DEF CliInv, RunsInv, cameToNothing
    <3>2. ~runs[r].lost /\ runs[r].code \notin NotBroadcast
      BY <2>2 DEF misled
    <3>3. r \in journal
      BY <2>2, <3>1, <3>2 DEF Consistent, ended
    <3> QED  BY <2>2, <3>1, <3>2, <3>3 DEF cameToNothing, SaysReverted, journalled
  <2>3. \A s, t \in done : s = t
    <3> SUFFICES ASSUME NEW s \in done, NEW t \in done PROVE s = t
      OBVIOUS
    <3>1. PICK i \in DOMAIN runs : s = txOf(i) /\ runs[i].goal = goal
                                   /\ (goal # "waiver" => runs[i].sent)
      BY <2>1
    <3>2. PICK j \in DOMAIN runs : t = txOf(j) /\ runs[j].goal = goal
                                   /\ (goal # "waiver" => runs[j].sent)
      BY <2>1
    <3>3. CASE goal = "waiver"
      BY <3>1, <3>2, <3>3 DEF txOf
    <3>4. CASE goal # "waiver"
      <4>1. ~cameToNothing(i) /\ ~cameToNothing(j)
        BY <2>2, <3>1, <3>2, <3>4
      <4>2. i \in Nat /\ j \in Nat
        BY <1>1, RunsAt DEF CliInv
      <4>3. ~(i < j) /\ ~(j < i)
        BY <1>1, <3>1, <3>2, <3>4, <4>1 DEF CliInv, OrderInv
      <4>4. i = j
        BY <4>2, <4>3
      <4> QED  BY <3>1, <3>2, <4>4
    <3> QED  BY <3>3, <3>4
  <2>4. done = {} \/ \E s : done = {s}
    <3> HIDE DEF done
    <3> QED  BY <2>3
  <2> HIDE DEF done
  <2>5. Cardinality(done) <= 1
    <3>1. CASE done = {}
      BY <3>1, FS_EmptySet
    <3>2. ASSUME NEW s, done = {s} PROVE Cardinality(done) <= 1
      <4>1. Cardinality({s}) = 1
        BY FS_Singleton
      <4> QED  BY <3>2, <4>1
    <3> QED  BY <2>4, <3>1, <3>2
  <2> QED  BY <2>5 DEF done
<1> QED  BY <1>1, CliInvariant, PTL

\* An exit 0 reports the effect of the command's own transaction, whatever others do in the
\* blocks between it and the reads, and in its own block unless they stand behind it there.
THEOREM ReportIsOfTheEffect == Spec => []ReportShowsEffect
<1>1. ASSUME CliInv PROVE ReportShowsEffect
  <2> SUFFICES ASSUME NEW r \in DOMAIN runs, ended(r), NEW seen \in runs[r].seen
               PROVE  Effect(runs[r].goal, seen, receipts[txOf(r)].last)
    BY DEF ReportShowsEffect, Effect
  <2>1. txOf(r) \in DOMAIN receipts /\ runs[r].seen = receipts[txOf(r)].block
    BY <1>1 DEF CliInv, RunsInv, Shows, ended
  <2>2. txOf(r).goal = runs[r].goal
    BY DEF txOf
  <2> QED  BY <1>1, <2>1, <2>2 DEF CliInv, ChainInv
<1> QED  BY <1>1, CliInvariant, PTL
=============================================================================
