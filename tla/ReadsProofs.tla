------------------------------ MODULE ReadsProofs ------------------------------
(***************************************************************************)
(* Proofs about the three readers of the chain and the waiver panel. What  *)
(* a reading command prints and what the desk shows was true together at   *)
(* one block, whatever is mined meanwhile; a verdict on the desk is the    *)
(* vault's own for the amount in the field; the console's gate shows the   *)
(* answer for the amount in its field, for any number of requests in any   *)
(* order; and an approval that Privy counts was given at the panel beside   *)
(* the very call that Privy recorded, whatever the service lists and hands *)
(* out.                                                                    *)
(***************************************************************************)
EXTENDS Reports, Desk, Console, WaiverPanel, FiniteSetTheorems, TLAPS

-----------------------------------------------------------------------------
(* The chain.                                                              *)

ChainInv == chain \in Seq(Blocks) /\ chain # << >>

\* What a block was stays so.
LEMMA MineGrows ==
  ASSUME ChainInv, mineBlock
  PROVE  /\ ChainInv' /\ latest \in Nat /\ latest' = latest + 1
         /\ \A n \in 1..latest : chain'[n] = chain[n] /\ chain[n] \in Blocks
<1>1. PICK b \in Blocks : chain' = Append(chain, b)
  BY DEF mineBlock
<1> QED  BY <1>1 DEF ChainInv, latest

LEMMA LatestIsMined == ASSUME ChainInv PROVE latest \in 1..latest
  BY DEF ChainInv, latest

LEMMA MinedIsBlock == ASSUME ChainInv, NEW n \in 1..latest PROVE chain[n] \in Blocks
  BY DEF ChainInv, latest

LEMMA ChainStays == ASSUME ChainInv, UNCHANGED chain PROVE ChainInv' /\ latest' = latest
  BY DEF ChainInv, latest

\* The empty reading is true at any block.
LEMMA NothingRead == ASSUME NEW b, NEW stages PROVE trueAt(reading(stages).got, b)
  BY DEF trueAt, reading

\* The trades whose eligibility is asked for were read before.
LEMMA FieldTrue ==
  ASSUME NEW b \in Blocks, NEW r, NEW field, trueAt(r.got, b),
         field = "eligibility" => "trades" \in DOMAIN r.got
  PROVE  fieldRead(r, b, field) = fieldAt(b, field)
<1>1. CASE field = "eligibility"
  <2>1. fieldAt(b, "trades") = b.trades /\ fieldAt(b, "eligibility") = b.eligible
    BY DEF fieldAt
  <2>2. b.eligible \subseteq b.trades
    BY DEF Blocks
  <2> QED  BY <1>1, <2>1, <2>2 DEF fieldRead, trueAt
<1>2. CASE field # "eligibility"
  BY <1>2 DEF fieldRead
<1> QED  BY <1>1, <1>2

Fields == {"policy", "evaluation", "available", "activeWaiver", "trades", "eligibility"}

\* A reading of some wanted fields: what was answered is true at b, what was not is still
\* asked for, and eligibility never before the trades.
ReadingOf(r, wanted, b) ==
  /\ r = [stages |-> r.stages, got |-> r.got]
  /\ r.stages \in Seq(SUBSET Fields)
  /\ r.got = [f \in DOMAIN r.got |-> r.got[f]] /\ trueAt(r.got, b)
  /\ \A f \in wanted : f \in DOMAIN r.got \/ \E i \in DOMAIN r.stages : f \in r.stages[i]
  /\ \A i \in DOMAIN r.stages :
       "eligibility" \in r.stages[i] =>
         "trades" \in DOMAIN r.got \/ \E j \in 1..(i - 1) : "trades" \in r.stages[j]

\* A complete one has it all.
LEMMA CompleteHas ==
  ASSUME NEW r, NEW wanted, NEW b, ReadingOf(r, wanted, b), complete(r)
  PROVE  wanted \subseteq DOMAIN r.got /\ trueAt(r.got, b)
BY DEF ReadingOf, complete

\* The fields of the first stage can be read: the trades are there if they are needed.
LEMMA HeadReadable ==
  ASSUME NEW r, NEW wanted, NEW b, ReadingOf(r, wanted, b), ~complete(r),
         "eligibility" \in Head(r.stages)
  PROVE  "trades" \in DOMAIN r.got
<1>1. 1 \in DOMAIN r.stages /\ r.stages[1] = Head(r.stages)
  BY DEF ReadingOf, complete
<1> QED  BY <1>1 DEF ReadingOf

\* Answers that are true go with what was true, and a stage that has them all is over.
LEMMA MoreRead ==
  ASSUME NEW r, NEW wanted, NEW b, ReadingOf(r, wanted, b), ~complete(r), NEW got,
         got = [f \in DOMAIN got |-> got[f]], DOMAIN r.got \subseteq DOMAIN got, trueAt(got, b),
         NEW stages, \/ stages = r.stages
                     \/ stages = Tail(r.stages) /\ Head(r.stages) \subseteq DOMAIN got
  PROVE  ReadingOf([stages |-> stages, got |-> got], wanted, b)
<1> DEFINE next == [stages |-> stages, got |-> got]
<1>1. next.stages = stages /\ next.got = got /\ next = [stages |-> next.stages, got |-> next.got]
  OBVIOUS
<1>2. CASE stages = r.stages
  <2> HIDE DEF next
  <2> QED  BY <1>1, <1>2 DEF ReadingOf
<1>3. CASE stages = Tail(r.stages) /\ Head(r.stages) \subseteq DOMAIN got
  <2>1. /\ r.stages \in Seq(SUBSET Fields) /\ r.stages # << >>
        /\ Len(stages) = Len(r.stages) - 1 /\ Head(r.stages) = r.stages[1]
        /\ stages \in Seq(SUBSET Fields)
        /\ \A i \in DOMAIN stages : stages[i] = r.stages[i + 1]
        /\ \A i \in DOMAIN stages : i + 1 \in DOMAIN r.stages
        /\ \A i \in DOMAIN r.stages : i = 1 \/ i - 1 \in DOMAIN stages
    BY <1>3 DEF ReadingOf, complete
  <2> HIDE DEF next
  <2>2. \A f \in wanted : f \in DOMAIN got \/ \E i \in DOMAIN stages : f \in stages[i]
    <3> SUFFICES ASSUME NEW f \in wanted, f \notin DOMAIN got
                 PROVE  \E i \in DOMAIN stages : f \in stages[i]
      OBVIOUS
    <3>1. PICK i \in DOMAIN r.stages : f \in r.stages[i]
      BY DEF ReadingOf
    <3>2. i # 1
      BY <1>3, <2>1, <3>1
    <3>3. i - 1 \in DOMAIN stages /\ stages[i - 1] = r.stages[i]
      BY <2>1, <3>1, <3>2
    <3> QED  BY <3>1, <3>3
  <2>3. \A i \in DOMAIN stages : "eligibility" \in stages[i] =>
          "trades" \in DOMAIN got \/ \E j \in 1..(i - 1) : "trades" \in stages[j]
    <3> SUFFICES ASSUME NEW i \in DOMAIN stages, "eligibility" \in stages[i],
                        "trades" \notin DOMAIN got
                 PROVE  \E j \in 1..(i - 1) : "trades" \in stages[j]
      OBVIOUS
    <3>1. PICK j \in 1..i : "trades" \in r.stages[j]
      <4>1. i + 1 \in DOMAIN r.stages /\ "eligibility" \in r.stages[i + 1] /\ i \in Nat
        BY <2>1
      <4> QED  BY <4>1 DEF ReadingOf
    <3>2. j # 1
      BY <1>3, <2>1, <3>1
    <3>4. i \in Nat /\ i <= Len(stages) /\ DOMAIN stages = 1..Len(stages) /\ Len(stages) \in Nat
      BY <2>1
    <3>5. j - 1 \in 1..(i - 1) /\ j - 1 \in DOMAIN stages /\ (j - 1) + 1 = j
      BY ONLY <3>1, <3>2, <3>4
    <3>3. j - 1 \in 1..(i - 1) /\ stages[j - 1] = r.stages[j]
      BY <2>1, <3>5
    <3> QED  BY <3>1, <3>3
  <2> QED  BY <1>1, <2>1, <2>2, <2>3 DEF ReadingOf
<1> QED  BY <1>2, <1>3

\* One answer.
LEMMA AnswerReads ==
  ASSUME NEW b \in Blocks, NEW r, NEW wanted, ReadingOf(r, wanted, b), NEW field \in asked(r)
  PROVE  ReadingOf(answered(r, field, b), wanted, b)
<1> DEFINE got == [f \in DOMAIN r.got \cup {field} |->
                     IF f = field THEN fieldRead(r, b, field) ELSE r.got[f]]
<1>1. ~complete(r) /\ field \in Head(r.stages)
  BY DEF asked
<1>2. fieldRead(r, b, field) = fieldAt(b, field)
  BY <1>1, HeadReadable, FieldTrue DEF ReadingOf
<1>3. trueAt(got, b)
  BY <1>2 DEF trueAt, ReadingOf
<1>4. got = [f \in DOMAIN got |-> got[f]] /\ DOMAIN r.got \subseteq DOMAIN got
  OBVIOUS
<1>5. answered(r, field, b)
      = [stages |-> IF Head(r.stages) \subseteq DOMAIN got THEN Tail(r.stages) ELSE r.stages,
         got |-> got]
  BY DEF answered
<1> HIDE DEF got
<1> QED  BY <1>1, <1>3, <1>4, <1>5, MoreRead

\* The answers of a stage, together.
LEMMA StageReads ==
  ASSUME NEW b \in Blocks, NEW r, NEW wanted, ReadingOf(r, wanted, b), ~complete(r)
  PROVE  ReadingOf(stageAnswered(r, b), wanted, b)
<1> DEFINE got == [f \in DOMAIN r.got \cup Head(r.stages) |->
                     IF f \in Head(r.stages) THEN fieldRead(r, b, f) ELSE r.got[f]]
<1>1. \A f \in Head(r.stages) : fieldRead(r, b, f) = fieldAt(b, f)
  BY HeadReadable, FieldTrue DEF ReadingOf
<1>2. trueAt(got, b)
  BY <1>1 DEF trueAt, ReadingOf
<1>3. /\ got = [f \in DOMAIN got |-> got[f]] /\ DOMAIN r.got \subseteq DOMAIN got
      /\ Head(r.stages) \subseteq DOMAIN got
  OBVIOUS
<1>4. stageAnswered(r, b) = [stages |-> Tail(r.stages), got |-> got]
  BY DEF stageAnswered
<1> HIDE DEF got
<1> QED  BY <1>2, <1>3, <1>4, MoreRead

-----------------------------------------------------------------------------
(* The reading commands.                                                   *)

\* The fields of a command.
wantedOf(command) ==
  CASE command = "status"           -> {"policy"}
    [] command = "facility show"    -> {"policy", "available", "activeWaiver"}
    [] command = "coverage show"    -> {"evaluation", "trades", "activeWaiver", "eligibility"}
    [] command = "credentials list" -> {"trades", "policy", "eligibility"}
    [] command = "draw simulate"    -> {"policy", "evaluation", "activeWaiver"}

\* Whatever they are, what is asked for at the start is all that is wanted, in order.
LEMMA CommandAsks ==
  ASSUME NEW command \in Commands, NEW b
  PROVE  ReadingOf(reading(stagesOf(command)), wantedOf(command), b)
<1> DEFINE r == reading(stagesOf(command))
<1>1. r.got = << >> /\ DOMAIN r.got = {} /\ r.stages = stagesOf(command)
      /\ r = [stages |-> r.stages, got |-> r.got] /\ r.got = [f \in DOMAIN r.got |-> r.got[f]]
  BY DEF reading
<1>2. trueAt(r.got, b)
  BY <1>1 DEF trueAt
<1>3. /\ r.stages \in Seq(SUBSET Fields)
      /\ \A f \in wantedOf(command) : \E i \in DOMAIN r.stages : f \in r.stages[i]
      /\ \A i \in DOMAIN r.stages : "eligibility" \in r.stages[i] =>
           \E j \in 1..(i - 1) : "trades" \in r.stages[j]
  <2>1. CASE command = "status"
    <3>1. r.stages = <<{"policy"}>> /\ wantedOf(command) = {"policy"}
      BY <1>1, <2>1 DEF stagesOf, wantedOf, readDeploymentStatus
    <3> HIDE DEF r
    <3> QED  BY <3>1 DEF Fields
  <2>2. CASE command = "facility show"
    <3>1. /\ r.stages = <<{"policy"}, {"available", "activeWaiver"}>>
          /\ wantedOf(command) = {"policy", "available", "activeWaiver"}
      BY <1>1, <2>2 DEF stagesOf, wantedOf, readFacility
    <3> HIDE DEF r
    <3> QED  BY <3>1 DEF Fields
  <2>3. CASE command = "coverage show"
    <3>1. /\ r.stages = <<{"evaluation", "trades", "activeWaiver"}, {"eligibility"}>>
          /\ wantedOf(command) = {"evaluation", "trades", "activeWaiver", "eligibility"}
      BY <1>1, <2>3 DEF stagesOf, wantedOf, readCoverage
    <3> HIDE DEF r
    <3> QED  BY <3>1 DEF Fields
  <2>4. CASE command = "credentials list"
    <3>1. /\ r.stages = <<{"trades", "policy"}, {"eligibility"}>>
          /\ wantedOf(command) = {"trades", "policy", "eligibility"}
      BY <1>1, <2>4 DEF stagesOf, wantedOf, readCredentials
    <3> HIDE DEF r
    <3> QED  BY <3>1 DEF Fields
  <2>5. CASE command = "draw simulate"
    <3>1. /\ r.stages = <<{"policy"}, {"evaluation", "activeWaiver"}>>
          /\ wantedOf(command) = {"policy", "evaluation", "activeWaiver"}
      BY <1>1, <2>5 DEF stagesOf, wantedOf, simulateDraw
    <3> HIDE DEF r
    <3> QED  BY <3>1 DEF Fields
  <2> QED  BY <2>1, <2>2, <2>3, <2>4, <2>5 DEF Commands
<1> HIDE DEF r
<1>4. ReadingOf(r, wantedOf(command), b)
  BY <1>1, <1>2, <1>3 DEF ReadingOf
<1> QED  BY <1>4 DEF r

ReportInv ==
  /\ ChainInv
  /\ report = [command |-> report.command, at |-> report.at, reading |-> report.reading,
               amount |-> report.amount, outcome |-> report.outcome]
  /\ report.outcome # "none" =>
       /\ report.command \in Commands /\ report.at \in 1..latest
       /\ ReadingOf(report.reading, wantedOf(report.command), chain[report.at])
  /\ report.outcome \in Answers \cup {"shown"} => complete(report.reading)
  /\ report.outcome \in Answers =>
       /\ report.command = "draw simulate"
       /\ report.outcome = drawAnswer(chain[report.at], report.amount)

LEMMA SessionOpens ==
  ASSUME ReportInv, NEW command \in Commands, NEW wanted, openSession(command, wanted),
         UNCHANGED chain
  PROVE  ReportInv'
<1>1. report' = [command |-> command, at |-> latest, reading |-> reading(stagesOf(command)),
                 amount |-> wanted, outcome |-> "open"]
  BY DEF openSession
<1>2. ReadingOf(reading(stagesOf(command)), wantedOf(command), chain[latest])
  BY CommandAsks
<1>3. latest \in 1..latest /\ latest' = latest
  BY LatestIsMined, ChainStays DEF ReportInv
<1> QED  BY <1>1, <1>2, <1>3 DEF ReportInv, Answers, ChainInv

LEMMA ReportsSteps == ASSUME ReportInv, ReportsNext, UNCHANGED chain PROVE ReportInv'
<1> USE DEF ReportInv
<1>0. latest' = latest
  BY ChainStays
<1>1. ASSUME NEW command \in Commands \ {"draw simulate"}, openSession(command, 0)
      PROVE  ReportInv'
  BY <1>1, SessionOpens
<1>2. ASSUME NEW wanted \in 1..MaxAmount + 1, askDraw(wanted) PROVE ReportInv'
  BY <1>2, SessionOpens DEF askDraw, Commands
<1>3. CASE readFails
  BY <1>0, <1>3 DEF readFails, Answers, ChainInv
<1>4. CASE readContract
  <2>1. PICK field \in asked(report.reading) :
          report' = [report EXCEPT !.reading = answered(report.reading, field, sessionBlock)]
    BY <1>4 DEF readContract
  <2>2. sessionBlock \in Blocks
    BY <1>4, MinedIsBlock DEF readContract, sessionBlock
  <2>3. ReadingOf(answered(report.reading, field, sessionBlock), wantedOf(report.command),
                  sessionBlock)
    BY <1>4, <2>2, AnswerReads DEF readContract, sessionBlock
  <2> QED  BY <1>0, <1>4, <2>1, <2>3 DEF readContract, sessionBlock, Answers, ChainInv
<1>5. CASE callDraw
  BY <1>0, <1>5 DEF callDraw, sessionBlock, drawAnswer, Answers, ChainInv
<1>6. CASE showReport
  BY <1>0, <1>6 DEF showReport, Answers, ChainInv
<1> QED  BY <1>1, <1>2, <1>3, <1>4, <1>5, <1>6 DEF ReportsNext

\* No trade is eligible exactly when as many as none are.
LEMMA CoveredCounts ==
  ASSUME NEW b \in Blocks
  PROVE  /\ covered(b) <=> Cardinality(b.eligible) # 0
         /\ Cardinality(b.eligible) \in Nat
<1>1. b.eligible \subseteq Trades
  BY DEF Blocks
<1>2. IsFiniteSet(b.eligible)
  BY <1>1, FS_Subset, ReadsAssumption
<1> QED  BY <1>2, FS_EmptySet, FS_CardinalityType DEF covered

\* What a reading command prints was true together at the block it names, and the refusal
\* it explains agrees with what is printed beside it.
THEOREM ReportsAreOfOneBlock == ReportsSpec => []ReportsOneBlock
<1>1. ChainInit /\ ReportsInit => ReportInv
  BY DEF ChainInit, ReportsInit, ReportInv, NoReport, ChainInv, Answers
<1>2. ReportInv /\ [\/ ReportsNext /\ UNCHANGED chain
                    \/ mineBlock /\ UNCHANGED report]_<<chain, report>> => ReportInv'
  <2>1. CASE ReportsNext /\ UNCHANGED chain
    BY <2>1, ReportsSteps
  <2>2. ASSUME ReportInv, mineBlock, UNCHANGED report PROVE ReportInv'
    <3>1. /\ ChainInv' /\ latest \in Nat /\ latest' = latest + 1
          /\ \A n \in 1..latest : chain'[n] = chain[n]
      BY <2>2, MineGrows DEF ReportInv
    <3>2. report.outcome # "none" =>
            report.at \in 1..latest' /\ chain'[report.at] = chain[report.at]
      <4>1. report.outcome # "none" => report.at \in 1..latest
        BY <2>2 DEF ReportInv
      <4> QED  BY <3>1, <4>1
    <3> QED  BY <2>2, <3>1, <3>2 DEF ReportInv, Answers
  <2>3. CASE UNCHANGED <<chain, report>>
    BY <2>3 DEF ReportInv, ChainInv, latest
  <2> QED  BY <2>1, <2>2, <2>3
<1>3. ReportInv => ReportsOneBlock
  <2> SUFFICES ASSUME ReportInv, report.outcome \in Answers \cup {"shown"}
               PROVE  ReportsOneBlock
    BY DEF ReportsOneBlock
  <2> DEFINE got == report.reading.got
             b == chain[report.at]
  <2>1. wantedOf(report.command) \subseteq DOMAIN got /\ trueAt(got, b) /\ b \in Blocks
    <3>1. /\ report.at \in 1..latest /\ complete(report.reading)
          /\ ReadingOf(report.reading, wantedOf(report.command), b)
      BY DEF ReportInv, Answers
    <3> QED  BY <3>1, CompleteHas, MinedIsBlock DEF ReportInv
  <2>2. ASSUME report.outcome \in Answers
        PROVE  /\ report.outcome = drawAnswer(b, report.amount)
               /\ got["evaluation"] = Cardinality(b.eligible) /\ got["activeWaiver"] = b.waiver
    <3>1. "evaluation" \in DOMAIN got /\ "activeWaiver" \in DOMAIN got
      BY <2>1, <2>2 DEF ReportInv, wantedOf
    <3>2. fieldAt(b, "evaluation") = Cardinality(b.eligible) /\ fieldAt(b, "activeWaiver") = b.waiver
      BY DEF fieldAt
    <3> QED  BY <2>1, <2>2, <3>1, <3>2 DEF ReportInv, trueAt
  <2> HIDE DEF got, b
  <2>3. report.outcome = "DrawNotAllowed" => got["evaluation"] = 0 /\ ~got["activeWaiver"]
    BY <2>1, <2>2, CoveredCounts DEF drawAnswer, Answers
  <2>4. report.outcome \in {"permitted", "ReserveViolation"} =>
          got["evaluation"] > 0 \/ got["activeWaiver"]
    <3> SUFFICES ASSUME report.outcome \in {"permitted", "ReserveViolation"}
                 PROVE  got["evaluation"] > 0 \/ got["activeWaiver"]
      OBVIOUS
    <3>1. covered(b) \/ b.waiver
      BY <2>2 DEF drawAnswer, Answers
    <3>2. covered(b) => Cardinality(b.eligible) > 0
      BY <2>1, CoveredCounts
    <3> QED  BY <2>2, <3>1, <3>2 DEF Answers
  <2> QED  BY <2>1, <2>3, <2>4 DEF ReportsOneBlock, got, b
<1> QED  BY <1>1, <1>2, <1>3, PTL DEF ReportsSpec

-----------------------------------------------------------------------------
(* The desk.                                                               *)

\* What may be simulated: an amount at a block that was mined.
Keys == [amount : Amounts, block : 1..latest]

FieldsInv == amount \in Amounts /\ debounced \in Amounts

PollingInv ==
  polling # Nothing =>
    /\ polling = [block |-> polling.block, reading |-> polling.reading]
    /\ polling.block \in 1..latest
    /\ ReadingOf(polling.reading, Fields, chain[polling.block])

SnapshotInv ==
  snapshot # Nothing =>
    /\ snapshot = [block |-> snapshot.block, got |-> snapshot.got, stale |-> snapshot.stale]
    /\ snapshot.block \in 1..latest
    /\ Fields \subseteq DOMAIN snapshot.got /\ trueAt(snapshot.got, chain[snapshot.block])

\* Answers are right for their keys, and what is held has one.
CacheInv ==
  /\ preflights \subseteq Keys
  /\ DOMAIN cache \subseteq Keys /\ \A k \in DOMAIN cache : cache[k] = simulate(k)
  /\ held # Nothing => held \in DOMAIN cache

MaxInv ==
  /\ findingMax # Nothing =>
       /\ findingMax.block \in 1..latest
       /\ findingMax.amount = candidate(chain[findingMax.block].available)
  /\ maxResult # Nothing =>
       /\ maxResult.block \in 1..latest
       /\ LET b == chain[maxResult.block]
          IN maxResult.amount
             = IF drawAnswer(b, candidate(b.available)) = "permitted"
               THEN candidate(b.available) ELSE 0

DeskInv == ChainInv /\ FieldsInv /\ PollingInv /\ SnapshotInv /\ CacheInv /\ MaxInv

\* What the page reads of the chain is still so after another block.
LEMMA DeskOutlivesBlocks == ASSUME DeskInv, mineBlock, UNCHANGED deskVars PROVE DeskInv'
<1> USE DEF DeskInv, deskVars
<1>1. /\ ChainInv' /\ latest \in Nat /\ latest' = latest + 1
      /\ \A n \in 1..latest : chain'[n] = chain[n]
  BY MineGrows
<1>2. \A n \in 1..latest : n \in 1..latest'
  BY <1>1
<1>3. FieldsInv' /\ PollingInv' /\ SnapshotInv' /\ MaxInv'
  <2>1. FieldsInv'
    BY DEF FieldsInv
  <2>2. PollingInv'
    BY <1>1, <1>2 DEF PollingInv
  <2>3. SnapshotInv'
    BY <1>1, <1>2 DEF SnapshotInv
  <2>4. MaxInv'
    BY <1>1, <1>2 DEF MaxInv
  <2> QED  BY <2>1, <2>2, <2>3, <2>4
<1>4. CacheInv'
  <2>1. \A k \in Keys : k \in Keys' /\ chain'[k.block] = chain[k.block]
    BY <1>1, <1>2 DEF Keys
  <2> QED  BY <2>1 DEF CacheInv, simulate
<1> QED  BY <1>1, <1>3, <1>4

\* The key of the page is one that can be simulated, and remembering it keeps the cache.
LEMMA KeyIsMined ==
  ASSUME FieldsInv, SnapshotInv, snapshot # Nothing PROVE preflightKey \in Keys
BY DEF FieldsInv, SnapshotInv, Keys, preflightKey

LEMMA RememberKeeps ==
  ASSUME CacheInv, remember, UNCHANGED <<chain, preflights, cache>> PROVE CacheInv'
<1>1. Keys' = Keys
  BY DEF Keys, latest
<1> QED  BY <1>1 DEF CacheInv, remember, onKey, simulate

LEMMA PollKeeps ==
  ASSUME DeskInv, UNCHANGED chain, poll \/ readStage \/ snapshotArrives \/ snapshotFails
  PROVE  DeskInv'
<1> USE DEF DeskInv
<1>1. latest' = latest /\ ChainInv' /\ latest \in 1..latest
  BY ChainStays, LatestIsMined
<1>2. FieldsInv' /\ MaxInv'
  BY <1>1 DEF poll, readStage, snapshotArrives, snapshotFails, FieldsInv, MaxInv
<1>3. CASE poll
  <2>1. ReadingOf(reading(readSnapshot), Fields, chain[latest])
    <3> DEFINE r == reading(readSnapshot)
    <3>1. r.got = << >> /\ DOMAIN r.got = {} /\ r.stages = readSnapshot
          /\ r = [stages |-> r.stages, got |-> r.got] /\ r.got = [f \in DOMAIN r.got |-> r.got[f]]
      BY DEF reading
    <3>2. trueAt(r.got, chain[latest])
      BY <3>1 DEF trueAt
    <3> HIDE DEF r
    <3>3. ReadingOf(r, Fields, chain[latest])
      BY <3>1, <3>2 DEF ReadingOf, readSnapshot, Fields
    <3> QED  BY <3>3 DEF r
  <2>2. PollingInv'
    BY <1>1, <1>3, <2>1 DEF poll, PollingInv
  <2>3. SnapshotInv' /\ CacheInv'
    BY <1>1, <1>3 DEF poll, SnapshotInv, CacheInv, Keys, simulate
  <2> QED  BY <1>1, <1>2, <2>2, <2>3
<1>4. CASE readStage
  <2>1. ReadingOf(stageAnswered(polling.reading, snapshotBlock), Fields, snapshotBlock)
    BY <1>4, StageReads, MinedIsBlock DEF readStage, PollingInv, snapshotBlock
  <2>2. polling' = [block |-> polling.block, reading |-> stageAnswered(polling.reading, snapshotBlock)]
    BY <1>4 DEF readStage, PollingInv
  <2>3. PollingInv'
    BY <1>1, <1>4, <2>1, <2>2 DEF readStage, PollingInv, snapshotBlock
  <2>4. SnapshotInv' /\ CacheInv'
    BY <1>1, <1>4 DEF readStage, SnapshotInv, CacheInv, Keys, simulate
  <2> QED  BY <1>1, <1>2, <2>3, <2>4
<1>5. CASE snapshotArrives
  <2>1. Fields \subseteq DOMAIN polling.reading.got /\ trueAt(polling.reading.got, chain[polling.block])
    BY <1>5, CompleteHas DEF snapshotArrives, PollingInv
  <2>2. SnapshotInv'
    BY <1>1, <1>5, <2>1 DEF snapshotArrives, PollingInv, SnapshotInv
  <2>3. CacheInv' /\ PollingInv'
    BY <1>5, RememberKeeps DEF snapshotArrives, PollingInv
  <2> QED  BY <1>1, <1>2, <2>2, <2>3
<1>6. CASE snapshotFails
  <2>1. PollingInv' /\ CacheInv'
    BY <1>1, <1>6 DEF snapshotFails, PollingInv, CacheInv, Keys, simulate
  <2>2. CASE snapshot = Nothing
    BY <1>1, <1>2, <1>6, <2>1, <2>2 DEF snapshotFails, SnapshotInv
  <2>3. CASE snapshot # Nothing
    <3>1. snapshot' = [block |-> snapshot.block, got |-> snapshot.got, stale |-> TRUE]
      BY <1>6, <2>3 DEF snapshotFails, SnapshotInv
    <3>2. SnapshotInv'
      BY <1>1, <1>6, <2>3, <3>1 DEF snapshotFails, SnapshotInv
    <3> QED  BY <1>1, <1>2, <2>1, <3>2
  <2> QED  BY <2>2, <2>3
<1> QED  BY <1>3, <1>4, <1>5, <1>6

LEMMA PreflightKeeps ==
  ASSUME DeskInv, UNCHANGED chain,
         (\E a \in Amounts : setAmount(a)) \/ debounce \/ preflight \/ preflightArrives
  PROVE  DeskInv'
<1> USE DEF DeskInv
<1>1. latest' = latest /\ ChainInv' /\ Keys' = Keys
  BY ChainStays DEF Keys
<1>2. PollingInv' /\ SnapshotInv' /\ FieldsInv' /\ MaxInv'
  <2>1. UNCHANGED <<polling, snapshot, findingMax>> /\ maxResult' \in {maxResult, Nothing}
    BY DEF setAmount, debounce, preflight, preflightArrives
  <2>2. FieldsInv'
    BY DEF setAmount, debounce, preflight, preflightArrives, FieldsInv
  <2>3. PollingInv' /\ SnapshotInv'
    BY <1>1, <2>1 DEF PollingInv, SnapshotInv
  <2>4. MaxInv'
    BY <1>1, <2>1 DEF MaxInv
  <2> QED  BY <2>2, <2>3, <2>4
<1>3. CASE \E a \in Amounts : setAmount(a)
  <2>1. CacheInv'
    BY <1>1, <1>3 DEF setAmount, CacheInv, simulate
  <2> QED  BY <1>1, <1>2, <2>1
<1>4. CASE debounce
  BY <1>1, <1>2, <1>4, RememberKeeps DEF debounce
<1>5. CASE preflight
  <2>1. preflightKey \in Keys
    BY <1>5, KeyIsMined DEF preflight, readable
  <2>2. CacheInv'
    BY <1>1, <1>5, <2>1 DEF preflight, CacheInv, simulate
  <2> QED  BY <1>1, <1>2, <2>2
<1>6. CASE preflightArrives
  <2>1. PICK key \in preflights :
          /\ preflights' = preflights \ {key}
          /\ \/ cache' = [k \in DOMAIN cache \cup {key} |-> IF k = key THEN simulate(k) ELSE cache[k]]
             \/ UNCHANGED cache
          /\ remember
    BY <1>6 DEF preflightArrives
  <2>2. /\ DOMAIN cache \subseteq DOMAIN cache' /\ DOMAIN cache' \subseteq Keys
        /\ \A k \in DOMAIN cache' : cache'[k] = simulate(k)
    BY <2>1 DEF CacheInv
  <2>3. CacheInv'
    BY <1>1, <2>1, <2>2 DEF CacheInv, remember, onKey, simulate
  <2> QED  BY <1>1, <1>2, <2>3
<1> QED  BY <1>3, <1>4, <1>5, <1>6

LEMMA MaxKeeps ==
  ASSUME DeskInv, UNCHANGED chain, findMax \/ maxArrives PROVE DeskInv'
<1> USE DEF DeskInv
<1>1. latest' = latest /\ ChainInv' /\ Keys' = Keys
  BY ChainStays DEF Keys
<1>2. FieldsInv' /\ PollingInv' /\ SnapshotInv' /\ CacheInv'
  <2>1. UNCHANGED <<amount, debounced, polling, snapshot, preflights, cache, held>>
    BY DEF findMax, maxArrives
  <2> QED  BY <1>1, <2>1 DEF FieldsInv, PollingInv, SnapshotInv, CacheInv, simulate
<1>3. CASE findMax
  <2>1. snapshot.got["available"] = chain[snapshot.block].available /\ snapshot.block \in 1..latest
    <3>1. fieldAt(chain[snapshot.block], "available") = chain[snapshot.block].available
      BY DEF fieldAt
    <3> QED  BY <1>3, <3>1 DEF findMax, SnapshotInv, Fields, trueAt
  <2>2. MaxInv'
    BY <1>1, <1>3, <2>1 DEF findMax, MaxInv
  <2> QED  BY <1>1, <1>2, <2>2
<1>4. CASE maxArrives
  <2>1. MaxInv'
    BY <1>1, <1>4 DEF maxArrives, MaxInv, maximumDraw
  <2> QED  BY <1>1, <1>2, <2>1
<1> QED  BY <1>3, <1>4

LEMMA DeskKeeps == DeskSpec => []DeskInv
<1>1. ChainInit /\ DeskInit => DeskInv
  BY ReadsAssumption DEF ChainInit, DeskInit, DeskInv, ChainInv, FieldsInv, PollingInv, SnapshotInv,
       CacheInv, MaxInv, Amounts
<1>2. DeskInv /\ [\/ DeskNext /\ UNCHANGED chain
                  \/ mineBlock /\ UNCHANGED deskVars]_<<chain, deskVars>> => DeskInv'
  <2>1. ASSUME DeskInv, DeskNext, UNCHANGED chain PROVE DeskInv'
    BY <2>1, PollKeeps, PreflightKeeps, MaxKeeps DEF DeskNext
  <2>2. ASSUME DeskInv, UNCHANGED <<chain, deskVars>> PROVE DeskInv'
    BY <2>2, ChainStays DEF DeskInv, deskVars, FieldsInv, PollingInv, SnapshotInv, CacheInv, MaxInv,
         Keys, simulate
  <2> QED  BY <2>1, <2>2, DeskOutlivesBlocks
<1> QED  BY <1>1, <1>2, PTL DEF DeskSpec

\* A verdict on the page is for the amount in the field, and it is the vault's own at the
\* block that it names.
THEOREM VerdictIsTheVaults == DeskSpec => []VerdictAnswersField
<1>1. DeskInv => VerdictAnswersField
  BY DEF DeskInv, CacheInv, VerdictAnswersField, verdict, onKey, preflightKey, sameRequest, simulate
<1> QED  BY <1>1, DeskKeeps, PTL

\* The maximum offered is the largest amount that the vault would have paid at its block.
THEOREM DeskIsOfOneBlock == DeskSpec => []DeskOneBlock
<1>1. DeskInv => DeskOneBlock
  <2> SUFFICES ASSUME DeskInv, maxResult # Nothing
               PROVE  LET payable == {a \in Amounts \ {0} :
                                        drawAnswer(chain[maxResult.block], a) = "permitted"}
                      IN IF payable = {} THEN maxResult.amount = 0
                         ELSE maxResult.amount \in payable
                              /\ \A a \in payable : a <= maxResult.amount
    BY DEF DeskInv, SnapshotInv, DeskOneBlock
  <2> DEFINE b == chain[maxResult.block]
             max == candidate(b.available)
  <2>1. b \in Blocks
    BY MinedIsBlock DEF DeskInv, MaxInv
  <2>2. b.available \in 0..MaxAmount
    BY <2>1 DEF Blocks
  <2>3. maxResult.amount = IF drawAnswer(b, max) = "permitted" THEN max ELSE 0
    BY DEF DeskInv, MaxInv
  <2> HIDE DEF b
  <2>4. max \in Amounts \ {0} /\ \A a \in Amounts \ {0} : a <= b.available => a <= max
    BY <2>2, ReadsAssumption DEF candidate, Amounts
  <2>5. \A a \in Amounts \ {0} : drawAnswer(b, a) = "permitted" <=>
          (covered(b) \/ b.waiver) /\ a <= b.available
    BY <2>2, ReadsAssumption DEF drawAnswer, Amounts
  <2>6. \A a \in Amounts \ {0} : a <= b.available => max <= b.available
    BY <2>2, ReadsAssumption DEF candidate, Amounts
  <2> HIDE DEF max
  <2> QED  BY <2>3, <2>4, <2>5, <2>6 DEF b
<1> QED  BY <1>1, DeskKeeps, PTL

-----------------------------------------------------------------------------
(* The console.                                                            *)

\* Requests are numbered up to the newest; the newest, if it is still on its way, is for
\* what the gate shows, and the gate is pending only while it is.
RequestsInv ==
  /\ gateRequestId \in Nat
  /\ \A s \in simulations :
       /\ s.id \in Nat /\ s.id <= gateRequestId
       /\ s.id = gateRequestId =>
            s.amount # 0 /\ s.amount = gate.amount /\ s.account = gate.account
  /\ gate.status = "pending" => \E s \in simulations : s.id = gateRequestId

AnswersFor(value, wallet) ==
  IF value = 0 THEN gate = NoGate
  ELSE gate.amount = value /\ gate.account = gateAccount(wallet)

Actions ==
  [kind : {"none", "draw", "repay", "sync", "restore"}, amount : Nat,
   at : {"none", "requesting", "simulating", "approving", "writing", "refreshing"},
   account : Accounts \cup {"none"}]

\* While no action is carried out and no timer runs, the gate is about the field.
FieldInv ==
  /\ amountValue \in Nat /\ action \in Actions
  /\ action # NoAction => busy
  /\ ~scheduled /\ action = NoAction => AnswersFor(amountValue, walletAddress)

ConsoleInv == RequestsInv /\ FieldInv

\* A refresh of the gate numbers its request anew and makes the gate about its arguments.
LEMMA RefreshAsks ==
  ASSUME NEW value, NEW wallet, RequestsInv, refreshGate(value, wallet)
  PROVE  RequestsInv' /\ (IF value = 0 THEN gate' = NoGate
                          ELSE gate'.amount = value /\ gate'.account = gateAccount(wallet))
<1> DEFINE request == [id |-> gateRequestId + 1, amount |-> value, account |-> gateAccount(wallet)]
<1>1. gateRequestId' = gateRequestId + 1 /\ gateRequestId \in Nat
  BY DEF refreshGate, RequestsInv
<1>2. \A s \in simulations : s.id \in Nat /\ s.id < gateRequestId'
  BY <1>1 DEF RequestsInv
<1>3. CASE value = 0
  BY <1>1, <1>2, <1>3 DEF refreshGate, RequestsInv, NoGate
<1>4. CASE value # 0
  <2>1. /\ gate' = [status |-> "pending", amount |-> value, account |-> gateAccount(wallet)]
        /\ simulations' = simulations \cup {request}
    BY <1>4 DEF refreshGate
  <2>2. request.id = gateRequestId' /\ request.amount = value /\ request.account = gateAccount(wallet)
    BY <1>1
  <2> HIDE DEF request
  <2> QED  BY <1>1, <1>2, <1>4, <2>1, <2>2 DEF RequestsInv
<1> QED  BY <1>3, <1>4

\* An answer that is not superseded is the newest request's.
LEMMA AnswerKeeps == ASSUME ConsoleInv, gateAnswers PROVE ConsoleInv'
<1>1. PICK request \in simulations :
        /\ simulations' = simulations \ {request}
        /\ IF superseded(request) THEN UNCHANGED gate
           ELSE \E status \in {simulateWrite("draw", request.amount, request.account), "errored"} :
                  gate' = [status |-> status, amount |-> request.amount, account |-> request.account]
        /\ UNCHANGED <<amountValue, walletAddress, scheduled, gateRequestId, busy, live,
                       stale, action, allowance>>
  BY DEF gateAnswers
<1>2. CASE superseded(request)
  <2>1. gate' = gate
    BY <1>1, <1>2
  <2> QED  BY <1>1, <1>2, <2>1 DEF ConsoleInv, RequestsInv, FieldInv, AnswersFor, superseded
<1>3. CASE ~superseded(request)
  <2>1. request.id = gateRequestId
    BY <1>3 DEF superseded
  <2>2. simulateWrite("draw", request.amount, request.account) # "pending"
    BY DEF simulateWrite, drawAnswer
  <2>3. gate'.status # "pending" /\ gate'.amount = gate.amount /\ gate'.account = gate.account
    BY <1>1, <1>3, <2>1, <2>2 DEF ConsoleInv, RequestsInv
  <2>4. gate.amount # 0
    BY <2>1 DEF ConsoleInv, RequestsInv
  <2>5. RequestsInv'
    BY <1>1, <2>3 DEF ConsoleInv, RequestsInv
  <2>6. FieldInv'
    BY <1>1, <2>3, <2>4 DEF ConsoleInv, FieldInv, AnswersFor, NoGate
  <2> QED  BY <2>5, <2>6 DEF ConsoleInv
<1> QED  BY <1>2, <1>3

\* An action that is over, or a first reading that is, leaves the gate about the field.
LEMMA FinishKeeps ==
  ASSUME ConsoleInv, finishAction, UNCHANGED <<amountValue, walletAddress, scheduled>>
  PROVE  ConsoleInv'
<1>1. CASE action = NoAction
  BY <1>1 DEF finishAction, ConsoleInv, RequestsInv, FieldInv, AnswersFor, NoAction, Actions
<1>2. CASE action # NoAction
  <2>1. refreshGate(amountValue, walletAddress)
    BY <1>2 DEF finishAction
  <2>2. RequestsInv' /\ (AnswersFor(amountValue, walletAddress))'
    BY <2>1, RefreshAsks DEF ConsoleInv, AnswersFor
  <2> QED  BY <2>2 DEF ConsoleInv, FieldInv, finishAction, NoAction, Actions
<1> QED  BY <1>1, <1>2

LEMMA ConsoleSteps == ASSUME ConsoleInv, ConsoleNext PROVE ConsoleInv'
<1>1. CASE gateAnswers
  BY <1>1, AnswerKeeps
<1>2. CASE scheduleGateRefresh
  <2>1. refreshGate(amountValue, walletAddress) /\ UNCHANGED <<amountValue, walletAddress, busy, action>>
    BY <1>2 DEF scheduleGateRefresh
  <2>2. RequestsInv' /\ (AnswersFor(amountValue, walletAddress))'
    BY <2>1, RefreshAsks DEF ConsoleInv, AnswersFor
  <2> QED  BY <2>1, <2>2 DEF ConsoleInv, FieldInv
<1>3. CASE connectWallet
  <2>1. PICK account \in Accounts : walletAddress' = account /\ refreshGate(amountValue, account)
    BY <1>3 DEF connectWallet
  <2>2. RequestsInv' /\ (AnswersFor(amountValue, walletAddress))'
    BY <1>3, <2>1, RefreshAsks DEF ConsoleInv, AnswersFor, connectWallet
  <2> QED  BY <1>3, <2>2 DEF ConsoleInv, FieldInv, connectWallet
<1>4. ASSUME NEW value \in 0..MaxAmount + 1, input(value) PROVE ConsoleInv'
  BY <1>4, ReadsAssumption DEF input, ConsoleInv, RequestsInv, FieldInv
<1>5. CASE refreshLive
  BY <1>5, FinishKeeps DEF refreshLive
<1>6. ASSUME NEW kind \in {"draw", "repay", "sync", "restore"}, execute(kind) PROVE ConsoleInv'
  <2>1. action' \in Actions /\ action' # NoAction
    BY <1>6 DEF execute, NoAction, Actions, ConsoleInv, FieldInv
  <2> QED  BY <1>6, <2>1 DEF execute, ConsoleInv, RequestsInv, FieldInv
<1>7. CASE requestAddresses
  <2>1. action' \in Actions /\ action' # NoAction /\ action # NoAction
    <3>1. PICK account \in Accounts :
            action' = [action EXCEPT !.at = "simulating", !.account = account]
      BY <1>7 DEF requestAddresses
    <3>2. action \in Actions /\ action.at = "requesting"
      BY <1>7 DEF requestAddresses, ConsoleInv, FieldInv
    <3>3. action' = [kind |-> action.kind, amount |-> action.amount, at |-> "simulating",
                     account |-> account]
      BY <3>1, <3>2 DEF Actions
    <3>4. action'.at = "simulating" /\ NoAction.at = "none"
      BY <3>3 DEF NoAction
    <3> QED  BY <3>2, <3>3, <3>4 DEF Actions
  <2> QED  BY <1>7, <2>1 DEF requestAddresses, unmoved, ConsoleInv, RequestsInv, FieldInv
<1>8. CASE simulateFirst \/ approve \/ writeSimulatedRequest
  <2>1. action' \in Actions /\ action' # NoAction /\ action # NoAction
    BY <1>8 DEF simulateFirst, approve, writeSimulatedRequest, goTo, NoAction, Actions,
                ConsoleInv, FieldInv
  <2>2. UNCHANGED <<busy, gate, gateRequestId, simulations, amountValue, scheduled>>
    BY <1>8 DEF simulateFirst, approve, writeSimulatedRequest, unmoved
  <2> QED  BY <2>1, <2>2 DEF ConsoleInv, RequestsInv, FieldInv
<1>9. CASE actionFails
  BY <1>9, FinishKeeps DEF actionFails, unmoved
<1> QED  BY <1>1, <1>2, <1>3, <1>4, <1>5, <1>6, <1>7, <1>8, <1>9 DEF ConsoleNext

\* The gate never shows the answer for an amount or an account that has been replaced.
THEOREM GateAnswers == ConsoleSpec => []GateAnswersField
<1>1. ConsoleInit => ConsoleInv
  BY DEF ConsoleInit, ConsoleInv, RequestsInv, FieldInv, AnswersFor, gateAccount, NoAction, Actions
<1>2. ConsoleInv /\ [\/ ConsoleNext /\ UNCHANGED chain
                     \/ mineBlock /\ UNCHANGED consoleVars]_<<chain, consoleVars>> => ConsoleInv'
  <2> SUFFICES ASSUME ConsoleInv, ConsoleNext \/ UNCHANGED consoleVars PROVE ConsoleInv'
    OBVIOUS
  <2>1. CASE UNCHANGED consoleVars
    BY <2>1 DEF consoleVars, ConsoleInv, RequestsInv, FieldInv, AnswersFor
  <2> QED  BY <2>1, ConsoleSteps
<1>3. ConsoleInv => GateAnswersField
  BY DEF ConsoleInv, RequestsInv, FieldInv, AnswersFor, GateAnswersField, superseded
<1> QED  BY <1>1, <1>2, <1>3, PTL DEF ConsoleSpec

-----------------------------------------------------------------------------
(* The waiver panel.                                                       *)

Proposals == [recorded : Calls, status : Statuses, approvals : SUBSET Roles, broadcast : BOOLEAN]

Signatures == [payload : ServiceAction, key : Signers, shown : ServiceAction]

\* What is signed was shown at the click.
SignaturesInv ==
  \A signature \in signatures : signature \in Signatures /\ signature.shown = signature.payload

\* A payload is fetched for what was shown at the click, to be signed with a key.
Fetching(state) == state.action \in ServiceAction /\ state.key \in Signers

SigningInv ==
  \A role \in Roles : signing[role].at = "fetching" => Fetching(signing[role])

SigningIsMap == DOMAIN signing = Roles

\* The keys at hand are keys, or none.
KeysInv ==
  /\ storedKeys \in [Roles -> Signers \cup {NoKey}]
  /\ keys \in [Roles -> Signers \cup {NoKey}]
  /\ loaded \in [Roles -> Signers \cup {NoKey}]

\* There is a signature by the member over the call recorded for the intent.
Signed(member, i, call) ==
  \E signature \in signatures :
    signature.key = member /\ signature.payload = [intent |-> i, call |-> call]

\* An approval is a signature, and what is granted, or has been signed, every member has
\* approved.
Approved(i, p) ==
  /\ \A member \in p.approvals : Signed(member, i, p.recorded)
  /\ p.status \in {"granted", "executed", "failed"} \/ p.broadcast => Roles \subseteq p.approvals

ProposalsInv ==
  \A i \in DOMAIN proposals : proposals[i] \in Proposals /\ Approved(i, proposals[i])

PanelInv == KeysInv /\ SigningIsMap /\ SigningInv /\ SignaturesInv /\ ProposalsInv

\* Proposals stay approved while signatures are added.
LEMMA SignaturesGrow ==
  ASSUME ProposalsInv, UNCHANGED proposals, signatures \subseteq signatures' PROVE ProposalsInv'
<1> SUFFICES ASSUME NEW i \in DOMAIN proposals
             PROVE  (proposals[i] \in Proposals /\ Approved(i, proposals[i]))'
  BY DEF ProposalsInv
<1>1. proposals[i] \in Proposals /\ Approved(i, proposals[i])
  BY DEF ProposalsInv
<1>2. \A member \in proposals[i].approvals : Signed(member, i, proposals[i].recorded)'
  BY <1>1 DEF Approved, Signed
<1> QED  BY <1>1, <1>2 DEF Approved, Proposals

\* One proposal is added or moves on, and the signatures stay.
LEMMA SetProposalKeeps ==
  ASSUME PanelInv, NEW i, NEW p \in Proposals, Approved(i, p), setProposal(i, p), panelUnmoved
  PROVE  PanelInv'
<1>1. /\ DOMAIN proposals' = DOMAIN proposals \cup {i}
      /\ \A j \in DOMAIN proposals' : proposals'[j] = IF j = i THEN p ELSE proposals[j]
  BY DEF setProposal
<1>2. UNCHANGED signatures
  BY DEF panelUnmoved
<1>3. \A j \in DOMAIN proposals' : proposals'[j] \in Proposals /\ Approved(j, proposals'[j])
  BY <1>1 DEF PanelInv, ProposalsInv
<1>4. ProposalsInv'
  BY <1>2, <1>3 DEF ProposalsInv, Approved, Signed
<1> QED  BY <1>4 DEF PanelInv, panelUnmoved, keysUnmoved, KeysInv, SigningIsMap, SigningInv,
            SignaturesInv, Fetching

LEMMA StatusKeeps ==
  ASSUME PanelInv, NEW i \in DOMAIN proposals, NEW status, setProposalStatus(i, status),
         \/ status \in {"expired", "rejected"}
         \/ status \in {"executed", "failed"} /\ proposals[i].status = "granted",
         panelUnmoved
  PROVE  PanelInv'
<1> DEFINE p == [proposals[i] EXCEPT !.status = status]
<1>1. proposals[i] \in Proposals /\ Approved(i, proposals[i])
  BY DEF PanelInv, ProposalsInv
<1>2. /\ p \in Proposals /\ p.recorded = proposals[i].recorded /\ p.status = status
      /\ p.approvals = proposals[i].approvals /\ p.broadcast = proposals[i].broadcast
  BY <1>1 DEF Proposals, Statuses, OpenStatuses
<1>3. Approved(i, p)
  BY <1>1, <1>2 DEF Approved
<1>4. setProposal(i, p)
  BY DEF setProposalStatus
<1> QED
  <2> HIDE DEF p
  <2> QED  BY <1>2, <1>3, <1>4, SetProposalKeeps

LEMMA ProposeKeeps ==
  ASSUME PanelInv, NEW i \in Intents, propose(i) PROVE PanelInv'
<1>1. PICK recorded \in Calls :
        setProposal(i, [recorded |-> recorded, status |-> "pending",
                        approvals |-> {}, broadcast |-> FALSE])
  BY DEF propose
<1> DEFINE p == [recorded |-> recorded, status |-> "pending", approvals |-> {}, broadcast |-> FALSE]
<1>2. p \in Proposals
  BY DEF Proposals, Statuses, OpenStatuses
<1>3. Approved(i, p)
  BY DEF Approved
<1>4. setProposal(i, p) /\ panelUnmoved
  BY <1>1 DEF propose
<1> QED
  <2> HIDE DEF p
  <2> QED  BY <1>2, <1>3, <1>4, SetProposalKeeps

LEMMA RejectKeeps ==
  ASSUME PanelInv, NEW listed \in ServiceAction, rejectProposal(listed) PROVE PanelInv'
BY StatusKeeps DEF rejectProposal

LEMMA BroadcastKeeps ==
  ASSUME PanelInv, NEW listed \in ServiceAction, broadcastProposal(listed) PROVE PanelInv'
<1> DEFINE i == listed.intent
           p == [proposals[i] EXCEPT !.broadcast = TRUE]
<1>1. /\ i \in DOMAIN proposals /\ proposals[i].status = "executed"
      /\ setProposal(i, p) /\ panelUnmoved
  BY DEF broadcastProposal
<1>2. proposals[i] \in Proposals /\ Approved(i, proposals[i])
  BY <1>1 DEF PanelInv, ProposalsInv
<1>3. /\ p \in Proposals /\ p.recorded = proposals[i].recorded
      /\ p.approvals = proposals[i].approvals /\ p.status = proposals[i].status
  BY <1>2 DEF Proposals
<1>4. Approved(i, p)
  BY <1>1, <1>2, <1>3 DEF Approved
<1> QED
  <2> HIDE DEF p, i
  <2> QED  BY <1>1, <1>3, <1>4, SetProposalKeeps

\* A signature that Privy counts is over what it recorded.
LEMMA ApprovalKeeps ==
  ASSUME PanelInv, NEW signature \in signatures, approveAction(signature) PROVE PanelInv'
<1> DEFINE i == signature.payload.intent
           key == signature.key
           p == counted(proposals[i], key)
<1>1. /\ key \in Roles /\ i \in DOMAIN proposals /\ proposals[i].status = "pending"
      /\ proposals[i].recorded = signature.payload.call
      /\ setProposal(i, p) /\ panelUnmoved
  BY DEF approveAction, signatureVerifies
<1>2. proposals[i] \in Proposals /\ Approved(i, proposals[i])
  BY <1>1 DEF PanelInv, ProposalsInv
<1>3. /\ p \in Proposals /\ p.recorded = proposals[i].recorded
      /\ p.approvals = proposals[i].approvals \cup {key} /\ p.broadcast = proposals[i].broadcast
      /\ p.status = IF Roles \subseteq p.approvals THEN "granted" ELSE "pending"
  BY <1>1, <1>2 DEF counted, Proposals, Statuses, OpenStatuses
<1>4. signature.payload = [intent |-> i, call |-> proposals[i].recorded]
  BY <1>1 DEF PanelInv, SignaturesInv, Signatures, ServiceAction
<1>5. Signed(key, i, p.recorded)
  BY <1>3, <1>4 DEF Signed
<1>6. Approved(i, p)
  BY <1>2, <1>3, <1>5 DEF Approved
<1> QED
  <2> HIDE DEF p, i, key
  <2> QED  BY <1>1, <1>3, <1>6, SetProposalKeeps

\* The call under a role's approval moves, with the signatures as they are or more.
LEMMA SigningKeeps ==
  ASSUME PanelInv, NEW role \in Roles, NEW state, signingMoves(role, state),
         state.at = "fetching" => Fetching(state),
         signatures \subseteq signatures', SignaturesInv'
  PROVE  PanelInv'
<1>1. \A other \in Roles : signing'[other] = IF other = role THEN state ELSE signing[other]
  BY DEF PanelInv, SigningIsMap, signingMoves
<1>2. SigningInv'
  BY <1>1 DEF PanelInv, SigningInv, Fetching
<1>3. ProposalsInv'
  BY SignaturesGrow DEF PanelInv, signingMoves
<1> QED  BY <1>2, <1>3 DEF PanelInv, signingMoves, keysUnmoved, KeysInv, SigningIsMap

LEMMA SignaturesStay == ASSUME PanelInv, UNCHANGED signatures PROVE SignaturesInv'
BY DEF PanelInv, SignaturesInv

\* What is shown at the click, and the key held at the click.
LEMMA ClickKeeps ==
  ASSUME PanelInv, NEW role \in Roles, NEW listed \in ServiceAction, approveAs(role, listed)
  PROVE  PanelInv'
<1> DEFINE state == [at |-> "fetching", action |-> listed, key |-> keys[role]]
<1>1. keys[role] \in Signers
  BY DEF PanelInv, KeysInv, approveAs
<1>2. Fetching(state)
  BY <1>1 DEF Fetching
<1>3. signingMoves(role, state) /\ UNCHANGED signatures
  BY DEF approveAs
<1> QED
  <2> HIDE DEF state
  <2> QED  BY <1>2, <1>3, SigningKeeps, SignaturesStay

\* What is signed has passed the comparison with what was clicked.
LEMMA PayloadKeeps ==
  ASSUME PanelInv, NEW role \in Roles, fetchSigningPayload(role) PROVE PanelInv'
<1> DEFINE listed == signing[role].action
           key == signing[role].key
<1>1. signing[role].at = "fetching" /\ signingMoves(role, NotSigning)
  BY DEF fetchSigningPayload
<1>2. listed \in ServiceAction /\ key \in Signers
  BY <1>1 DEF PanelInv, SigningInv, Fetching
<1>3. PICK payload \in ServiceAction :
        signatures' = IF inspectPayload(listed, payload)
                      THEN signatures \cup {[payload |-> payload, key |-> key, shown |-> listed]}
                      ELSE signatures
  BY DEF fetchSigningPayload
<1>4. inspectPayload(listed, payload) => listed = payload
  BY <1>2, <1>3 DEF inspectPayload, ServiceAction
<1>5. signatures \subseteq signatures' /\ SignaturesInv'
  BY <1>2, <1>3, <1>4 DEF PanelInv, SignaturesInv, Signatures
<1> QED  BY <1>1, <1>5, SigningKeeps DEF NotSigning

LEMMA PanelInitInv == ASSUME PanelInit PROVE PanelInv
<1>1. DOMAIN proposals = {}
  BY DEF PanelInit
<1>2. \A role \in Roles : signing[role].at = "idle"
  BY DEF PanelInit, NotSigning
<1> QED  BY <1>1, <1>2 DEF PanelInit, PanelInv, ProposalsInv, KeysInv, SigningIsMap, SigningInv,
            SignaturesInv, NoKeys

\* Keys come and go.
LEMMA KeysMove ==
  ASSUME PanelInv, KeysInv', UNCHANGED <<proposals, signing, signatures>> PROVE PanelInv'
BY DEF PanelInv, ProposalsInv, Approved, Signed, SigningIsMap, SigningInv, Fetching, SignaturesInv

LEMMA KeysKeep ==
  ASSUME PanelInv, NEW role \in Roles,
         \/ loadApproverKey(role) \/ doForget(role)
         \/ \E key \in Signers : doImport(role, key)
  PROVE  PanelInv'
<1>1. KeysInv
  BY DEF PanelInv
<1>2. CASE loadApproverKey(role)
  <2>1. PICK found \in keyFound(role) :
          LET next == [loaded EXCEPT ![role] = found]
          IN IF toLoad' = {} THEN keys' = next /\ loaded' = NoKeys
             ELSE loaded' = next /\ UNCHANGED keys
    BY <1>2 DEF loadApproverKey
  <2>2. found \in Signers \cup {NoKey}
    BY <1>1, <2>1 DEF keyFound, KeysInv
  <2>3. [loaded EXCEPT ![role] = found] \in [Roles -> Signers \cup {NoKey}]
    BY <1>1, <2>2 DEF KeysInv
  <2>4. KeysInv' /\ UNCHANGED <<proposals, signing, signatures>>
    BY <1>1, <1>2, <2>1, <2>3 DEF KeysInv, NoKeys, loadApproverKey
  <2> QED  BY <2>4, KeysMove
<1>3. CASE doForget(role)
  <2>1. KeysInv'
    BY <1>1, <1>3 DEF KeysInv, doForget, forgetApproverKey
  <2> QED  BY <1>3, <2>1, KeysMove DEF doForget
<1>4. ASSUME NEW key \in Signers, doImport(role, key) PROVE PanelInv'
  <2>1. KeysInv'
    BY <1>1, <1>4 DEF KeysInv, doImport, importApproverKey
  <2> QED  BY <1>4, <2>1, KeysMove DEF doImport
<1> QED  BY <1>2, <1>3, <1>4

LEMMA PanelInductive == ASSUME PanelInv, [PanelNext]_panelVars PROVE PanelInv'
<1>1. ASSUME UNCHANGED <<proposals, signing, signatures>>, keysUnmoved PROVE PanelInv'
  BY <1>1, KeysMove DEF PanelInv, KeysInv, keysUnmoved
<1>2. CASE UNCHANGED panelVars
  BY <1>1, <1>2 DEF panelVars, keysUnmoved
<1>3. CASE fetchInfo
  BY <1>1, <1>3 DEF fetchInfo
<1>4. fetchActions \subseteq ServiceAction
  BY DEF fetchActions
<1>5. ASSUME NEW role \in Roles, NEW listed \in fetchActions, approveAs(role, listed)
      PROVE  PanelInv'
  BY <1>4, <1>5, ClickKeeps
<1>6. ASSUME NEW role \in Roles, fetchSigningPayload(role) \/ approvalFails(role)
      PROVE  PanelInv'
  <2>1. CASE approvalFails(role)
    BY <2>1, SigningKeeps, SignaturesStay DEF approvalFails, NotSigning
  <2> QED  BY <1>6, <2>1, PayloadKeeps
<1>7. ASSUME NEW listed \in fetchActions, rejectProposal(listed) \/ broadcastProposal(listed)
      PROVE  PanelInv'
  BY <1>4, <1>7, RejectKeeps, BroadcastKeeps
<1>8. ASSUME NEW i \in DOMAIN proposals, privySigns(i) \/ intentExpires(i) PROVE PanelInv'
  BY <1>8, StatusKeeps DEF privySigns, intentExpires
<1>9. ASSUME NEW role \in Roles,
             \/ loadApproverKey(role) \/ doForget(role)
             \/ \E key \in Signers : doImport(role, key)
      PROVE  PanelInv'
  BY <1>9, KeysKeep
<1> QED  BY <1>2, <1>3, <1>5, <1>6, <1>7, <1>8, <1>9, ProposeKeeps, ApprovalKeeps DEF PanelNext

LEMMA PanelImplies == ASSUME PanelInv PROVE ApprovedWasShown
<1> SUFFICES ASSUME NEW i \in DOMAIN proposals
             PROVE  LET wereShown == {member \in Roles : \E signature \in signatures :
                          /\ signature.key = member
                          /\ signature.shown = [intent |-> i, call |-> proposals[i].recorded]}
                    IN /\ proposals[i].approvals \subseteq wereShown
                       /\ proposals[i].status = "executed" \/ proposals[i].broadcast
                            => wereShown = Roles
  BY DEF ApprovedWasShown
<1> DEFINE wereShown == {member \in Roles : \E signature \in signatures :
                          /\ signature.key = member
                          /\ signature.shown = [intent |-> i, call |-> proposals[i].recorded]}
<1>1. proposals[i] \in Proposals /\ Approved(i, proposals[i])
  BY DEF PanelInv, ProposalsInv
<1>2. \A member \in proposals[i].approvals : member \in Roles /\ member \in wereShown
  BY <1>1 DEF Approved, Signed, Proposals, PanelInv, SignaturesInv
<1> QED  BY <1>1, <1>2 DEF Approved

\* An approval that Privy counts was given beside the very call that it recorded, whatever
\* the service lists, hands out, holds back or repeats, for any members, keys, proposals and
\* calls; and what is signed for the wallet was shown to every member.
THEOREM PanelSignsWhatItShows == PanelSpec => []ApprovedWasShown
BY PanelInitInv, PanelInductive, PanelImplies, PTL DEF PanelSpec
=============================================================================
