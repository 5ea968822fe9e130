---------------------------------- MODULE Desk ----------------------------------
(***************************************************************************)
(* apps/dashboard, app/Desk.tsx over data/client.ts: the page that polls a *)
(* snapshot of the facility and shows what a draw of the amount in its     *)
(* field would answer.  Queries are those of React Query: one in flight    *)
(* for a key, answers cached by key, and while a key has none the page may *)
(* go on with the last answer it had for another key.                      *)
(***************************************************************************)
EXTENDS Reads

VARIABLES
  amount,     \* the field; 0 stands for what parseAmount refuses
  debounced,  \* the field 250 ms ago
  polling,    \* the reading of the next snapshot, if one is under way
  snapshot,   \* the last one: block and fields, and whether it has gone stale
  preflights, \* keys being simulated
  cache,      \* answers by key, a key being an amount and a snapshot's block
  held,       \* the last key that the page was on and had an answer for
  findingMax, \* the snapshot's block and figure that are being confirmed
  maxResult   \* what the operator was told she can draw

deskVars == <<amount, debounced, polling, snapshot, preflights, cache, held, findingMax, maxResult>>

Amounts == 0..MaxAmount + 1

Nothing == [block |-> 0]

DeskInit ==
  /\ amount = 1 /\ debounced = 1
  /\ polling = Nothing /\ snapshot = Nothing
  /\ preflights = {} /\ cache = << >> /\ held = Nothing
  /\ findingMax = Nothing /\ maxResult = Nothing

-----------------------------------------------------------------------------
\* What the page is on, and whether that has an answer.
preflightKey == [amount |-> debounced, block |-> snapshot.block]

onKey == snapshot # Nothing /\ preflightKey \in DOMAIN cache

\* React Query remembers it whenever the page's key or the cache changes.
remember == held' = IF onKey' THEN preflightKey' ELSE held

readable == snapshot # Nothing /\ ~snapshot.stale

-----------------------------------------------------------------------------
(* The snapshot.                                                           *)

readSnapshot ==
  <<{"policy", "evaluation", "available", "activeWaiver", "trades"}, {"eligibility"}>>

\* Every four seconds, or on request, which once there is a snapshot takes the place of a
\* reading under way; never two at a time.
poll ==
  /\ polling = Nothing \/ snapshot # Nothing
  /\ polling' = [block |-> latest, reading |-> reading(readSnapshot)]
  /\ UNCHANGED <<amount, debounced, snapshot, preflights, cache, held, findingMax, maxResult>>

\* Mutant of snapshotBlock: the calls name no block.
snapshotBlockLatest == chain[latest]

snapshotBlock == chain[polling.block]

\* One multicall for a stage.
readStage ==
  /\ polling # Nothing /\ ~complete(polling.reading)
  /\ polling' = [polling EXCEPT !.reading = stageAnswered(polling.reading, snapshotBlock)]
  /\ UNCHANGED <<amount, debounced, snapshot, preflights, cache, held, findingMax, maxResult>>

snapshotArrives ==
  /\ polling # Nothing /\ complete(polling.reading)
  /\ snapshot' = [block |-> polling.block, got |-> polling.reading.got, stale |-> FALSE]
  /\ polling' = Nothing
  /\ UNCHANGED <<amount, debounced, preflights, cache, findingMax, maxResult>>
  /\ remember

\* The read fails, or twelve seconds pass, or the exposure's validity runs out by the page's
\* own clock: the page says so and takes the verdict off until the next snapshot.
snapshotFails ==
  /\ polling' \in {polling, Nothing}
  /\ snapshot' = IF snapshot = Nothing THEN Nothing ELSE [snapshot EXCEPT !.stale = TRUE]
  /\ UNCHANGED <<amount, debounced, preflights, cache, held, findingMax, maxResult>>

-----------------------------------------------------------------------------
(* The amount and its preflight.                                           *)

\* A new amount takes the maximum of the old one off the page.
setAmount(a) ==
  /\ a # amount
  /\ amount' = a /\ maxResult' = Nothing
  /\ UNCHANGED <<debounced, polling, snapshot, preflights, cache, held, findingMax>>

debounce ==
  /\ debounced' = amount
  /\ UNCHANGED <<amount, polling, snapshot, preflights, cache, findingMax, maxResult>>
  /\ remember

preflight ==
  /\ readable /\ debounced > 0
  /\ preflightKey \notin preflights
  /\ preflights' = preflights \cup {preflightKey}
  /\ UNCHANGED <<amount, debounced, polling, snapshot, cache, held, findingMax, maxResult>>

simulate(key) == drawAnswer(chain[key.block], key.amount)

\* The answer is cached under its key, whatever key the page is on by then.  A call that
\* fails shows as such, or not at all: no answer either way.
preflightArrives ==
  \E key \in preflights :
    /\ preflights' = preflights \ {key}
    /\ \/ cache' = [k \in DOMAIN cache \cup {key} |-> IF k = key THEN simulate(k) ELSE cache[k]]
       \/ UNCHANGED cache
    /\ UNCHANGED <<amount, debounced, polling, snapshot, findingMax, maxResult>>
    /\ remember

\* Mutant of sameRequest: the last answer stays up whatever it was for.
sameRequestAny(key) == TRUE

\* Nothing but the block may differ.
sameRequest(key) == key.amount = debounced

\* The verdict on the page, and the key it answers; none is the empty set.
verdict ==
  IF ~readable \/ amount = 0 \/ amount # debounced THEN {}
  ELSE IF onKey THEN {[key |-> preflightKey, result |-> cache[preflightKey]]}
  ELSE IF held # Nothing /\ sameRequest(held) THEN {[key |-> held, result |-> cache[held]]}
  ELSE {}

-----------------------------------------------------------------------------
(* Find permitted amount.                                                  *)

candidate(available) == IF available > 0 THEN available ELSE 1

\* The code asks that the last read did not fail and does not look at the validity, as stale
\* does; here the page may ask in both.
findMax ==
  /\ snapshot # Nothing /\ findingMax = Nothing
  /\ findingMax' = [block |-> snapshot.block, amount |-> candidate(snapshot.got["available"])]
  /\ UNCHANGED <<amount, debounced, polling, snapshot, preflights, cache, held, maxResult>>

\* The candidate, if the vault would pay it; the candidate of an empty vault never is.
maximumDraw ==
  IF drawAnswer(chain[findingMax.block], findingMax.amount) = "permitted"
  THEN findingMax.amount ELSE 0

maxArrives ==
  /\ findingMax # Nothing
  /\ maxResult' \in {[block |-> findingMax.block, amount |-> maximumDraw], maxResult}
  /\ findingMax' = Nothing
  /\ UNCHANGED <<amount, debounced, polling, snapshot, preflights, cache, held>>

DeskNext ==
  \/ poll \/ readStage \/ snapshotArrives \/ snapshotFails
  \/ \E a \in Amounts : setAmount(a)
  \/ debounce \/ preflight \/ preflightArrives
  \/ findMax \/ maxArrives

\* The page beside a chain that goes on.
DeskSpec ==
  /\ ChainInit /\ DeskInit
  /\ [][\/ DeskNext /\ UNCHANGED chain
        \/ mineBlock /\ UNCHANGED deskVars]_<<chain, deskVars>>

-----------------------------------------------------------------------------
\* Whatever order snapshots and simulations arrive in, a verdict on the page is for the
\* amount in the field, and it is the vault's own at the block that it names: no permit for
\* another amount stays up while a new one is asked for (Desk.tsx:47-48).
VerdictAnswersField ==
  \A v \in verdict :
    /\ v.key.amount = amount
    /\ v.result = drawAnswer(chain[v.key.block], amount)

\* The amount offered as the maximum is the largest the vault would have paid at the block
\* it is shown for, and the fields of a snapshot were true together at its block.
DeskOneBlock ==
  /\ snapshot # Nothing => trueAt(snapshot.got, chain[snapshot.block])
  /\ maxResult # Nothing =>
       LET payable == {a \in Amounts \ {0} : drawAnswer(chain[maxResult.block], a) = "permitted"}
       IN IF payable = {} THEN maxResult.amount = 0
          ELSE maxResult.amount \in payable /\ \A a \in payable : a <= maxResult.amount
=============================================================================
