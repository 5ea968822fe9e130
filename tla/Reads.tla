--------------------------------- MODULE Reads ---------------------------------
(***************************************************************************)
(* The chain as its readers see it, and a read model: a command or a page  *)
(* asks for its fields in stages, the answers of a stage come in any       *)
(* order, and blocks are mined in between.                                 *)
(***************************************************************************)
EXTENDS Integers, Sequences, FiniteSets

CONSTANTS
  Trades,    \* trades that may be on the active list, which is finite
  MaxAmount, \* bound: what the vault may hold above its reserve
  MaxBlocks  \* bound: blocks mined

ASSUME ReadsAssumption ==
  IsFiniteSet(Trades) /\ MaxAmount \in Nat \ {0} /\ MaxBlocks \in Nat \ {0}

VARIABLE chain \* the facility at the end of every block

\* Which trades are listed and eligible, whether a waiver is active, and what could be drawn.
Blocks == {b \in [trades : SUBSET Trades, eligible : SUBSET Trades, waiver : BOOLEAN,
                  available : 0..MaxAmount] : b.eligible \subseteq b.trades}

latest == Len(chain)

ChainInit == \E b \in Blocks : chain = <<b>>

\* Evidence moves, the waiver does, or tokens do.
mineBlock ==
  /\ latest < MaxBlocks
  /\ \E b \in Blocks :
       /\ \/ b = [chain[latest] EXCEPT !.trades = b.trades, !.eligible = b.eligible]
          \/ b = [chain[latest] EXCEPT !.waiver = b.waiver]
          \/ b = [chain[latest] EXCEPT !.available = b.available]
       /\ chain' = Append(chain, b)

covered(b) == b.eligible # {}

\* What a call of draw answers, its refusals in the order of the code.
drawAnswer(b, amount) ==
  IF ~covered(b) /\ ~b.waiver THEN "DrawNotAllowed"
  ELSE IF amount > b.available THEN "ReserveViolation" ELSE "permitted"

-----------------------------------------------------------------------------
\* A reading: the stages still to come, each a set of fields, and what has been answered.
reading(stages) == [stages |-> stages, got |-> << >>]

complete(r) == r.stages = << >>

asked(r) == IF complete(r) THEN {} ELSE Head(r.stages) \ DOMAIN r.got

fieldAt(b, field) ==
  CASE field = "evaluation"   -> Cardinality(b.eligible)
    [] field = "trades"       -> b.trades
    [] field = "eligibility"  -> b.eligible
    [] field = "activeWaiver" -> b.waiver
    [] field = "available"    -> b.available
    [] field = "policy"       -> "policy"

\* The eligibility of every trade is asked for the trades that were listed.
fieldRead(r, b, field) ==
  IF field = "eligibility" THEN r.got["trades"] \cap b.eligible ELSE fieldAt(b, field)

\* The reading after the answer for one field came from block b.
answered(r, field, b) ==
  LET got == [f \in DOMAIN r.got \cup {field} |->
                IF f = field THEN fieldRead(r, b, field) ELSE r.got[f]]
  IN [stages |-> IF Head(r.stages) \subseteq DOMAIN got THEN Tail(r.stages) ELSE r.stages,
      got |-> got]

\* The reading after a whole stage was answered from block b.
stageAnswered(r, b) ==
  [stages |-> Tail(r.stages),
   got |-> [f \in DOMAIN r.got \cup Head(r.stages) |->
              IF f \in Head(r.stages) THEN fieldRead(r, b, f) ELSE r.got[f]]]

\* What was read was all true at the end of block b.
trueAt(got, b) == \A field \in DOMAIN got : got[field] = fieldAt(b, field)
=============================================================================
