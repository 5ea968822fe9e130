-------------------------- MODULE WaiverServiceProofs --------------------------
(***************************************************************************)
(* Theorems of the waiver desk, for any intents, calls and failures. For   *)
(* any number of processes and requests: what reaches a node was approved, *)
(* and what the store records as broadcast is on chain. For one process:   *)
(* its file loses no proposal. For one process that serves one request at  *)
(* a time: one action is in flight and its nonce is free.                  *)
(***************************************************************************)
EXTENDS WaiverService, FiniteSetTheorems, TLAPS

\* Where a request can stand.
RequestState ==
  {Idle}
  \cup [at : {"ready", "simulated"}, call : Calls]
  \cup [at : {"checking"}, call : Calls, rest : SUBSET Intents]
  \cup [at : {"pinned"}, tx : Transaction]
  \cup [at : {"proposed", "signed", "sent"}, tx : Transaction, intent : Intents]

ServiceTypes ==
  /\ TypeOK
  /\ requests \in [Requests -> RequestState]
  /\ IsFiniteSet(mempool)

\* A transaction on that chain succeeded.
SucceededIn(chain, tx) == \E k \in 1..Len(chain) : chain[k] = [tx |-> tx, success |-> TRUE]

\* A full quorum stands behind the intent, and no later approval can change it.
ApprovedIn(its, i) ==
  /\ i \in DOMAIN its
  /\ its[i].status # "pending"
  /\ Cardinality(its[i].approvals) >= Threshold

\* Privy has gone on with an intent only after the quorum approved it.
QuorumFirst(its) ==
  \A i \in DOMAIN its : its[i].status \in {"granted", "executed"} => ApprovedIn(its, i)

Backed(tx, its) == \E i \in DOMAIN its : its[i].request = tx /\ ApprovedIn(its, i)

\* A copy of the store holds what Privy recorded, and broadcasts that succeeded.
FaithfulCopy(copy, its, chain) ==
  \A i \in DOMAIN copy :
    /\ i \in DOMAIN its
    /\ copy[i].pinned = its[i].request
    /\ copy[i].broadcast => SucceededIn(chain, copy[i].pinned)

\* A request that executes an action still finds it in the store of its process.
FaithfulRequest(q, copy, its) ==
  /\ q.at \in {"proposed", "signed", "sent"} => q.intent \in DOMAIN its
  /\ q.at \in {"signed", "sent"} =>
       /\ q.intent \in DOMAIN copy
       /\ q.tx = its[q.intent].request
       /\ ApprovedIn(its, q.intent)

ServiceInv ==
  /\ ServiceTypes
  /\ QuorumFirst(intents)
  /\ \A p \in Processes : FaithfulCopy(actions[p], intents, mined)
  /\ FaithfulCopy(file, intents, mined)
  /\ \A r \in Requests : FaithfulRequest(requests[r], actions[home[r]], intents)
  /\ \A tx \in broadcastTransactions : Backed(tx, intents)

\* An idle desk with an empty store satisfies the invariant.
LEMMA ServiceInitInv == Init => ServiceInv
<1> SUFFICES ASSUME Init PROVE ServiceInv
  OBVIOUS
<1>1. ServiceTypes
  <2>1. IsFiniteSet(mempool)
    BY FS_EmptySet DEF Init
  <2>2. requests \in [Requests -> RequestState]
    BY DEF Init, RequestState
  <2>3. isStore(<< >>)
    BY DEF isStore
  <2> QED
    BY <2>1, <2>2, <2>3, QuorumAssumption DEF Init, ServiceTypes, TypeOK
<1>2. broadcastTransactions = {}
  BY DEF Init, broadcastTransactions
<1> QED
  BY <1>1, <1>2, QuorumAssumption
  DEF Init, ServiceInv, QuorumFirst, FaithfulCopy, FaithfulRequest, Idle

-----------------------------------------------------------------------------
(* What time does to intents and to the chain.                             *)

\* Intents keep their request and a full quorum stays full; what succeeded has.
Grown(its, chain, its2, chain2) ==
  /\ DOMAIN its \subseteq DOMAIN its2
  /\ \A i \in DOMAIN its :
       its2[i].request = its[i].request /\ (ApprovedIn(its, i) => ApprovedIn(its2, i))
  /\ \A tx : SucceededIn(chain, tx) => SucceededIn(chain2, tx)

\* What is faithful stays so while intents and chain grow.
LEMMA GrowthKeeps ==
  ASSUME NEW its, NEW chain, NEW its2, NEW chain2, Grown(its, chain, its2, chain2)
  PROVE  /\ \A copy : FaithfulCopy(copy, its, chain) => FaithfulCopy(copy, its2, chain2)
         /\ \A q, copy : FaithfulRequest(q, copy, its) => FaithfulRequest(q, copy, its2)
         /\ \A tx : Backed(tx, its) => Backed(tx, its2)
<1>1. ASSUME NEW copy, FaithfulCopy(copy, its, chain)
      PROVE  FaithfulCopy(copy, its2, chain2)
  BY <1>1 DEF Grown, FaithfulCopy
<1>2. ASSUME NEW q, NEW copy, FaithfulRequest(q, copy, its)
      PROVE  FaithfulRequest(q, copy, its2)
  BY <1>2 DEF Grown, FaithfulRequest
<1>3. ASSUME NEW tx, Backed(tx, its)
      PROVE  Backed(tx, its2)
  BY <1>3 DEF Grown, Backed
<1> QED
  BY <1>1, <1>2, <1>3

\* Nothing grows into itself.
LEMMA GrowthStill == \A its, chain : Grown(its, chain, its, chain)
BY DEF Grown

\* What a request carries, by where it stands.
LEMMA RequestFields ==
  ASSUME NEW q \in RequestState
  PROVE  /\ q.at \in {"ready", "checking", "simulated"} => q.call \in Calls
         /\ q.at = "checking" =>
              /\ q \in [at : {"checking"}, call : Calls, rest : SUBSET Intents]
              /\ q.rest \subseteq Intents
         /\ q.at \in {"pinned", "proposed", "signed", "sent"} => q.tx \in Transaction
         /\ q.at \in {"proposed", "signed", "sent"} =>
              q \in [at : {"proposed", "signed", "sent"}, tx : Transaction, intent : Intents]
<1>1. CASE q = Idle
  BY <1>1 DEF Idle
<1>2. CASE q \in [at : {"ready", "simulated"}, call : Calls]
  BY <1>2
<1>3. CASE q \in [at : {"checking"}, call : Calls, rest : SUBSET Intents]
  BY <1>3
<1>4. CASE q \in [at : {"pinned"}, tx : Transaction]
  BY <1>4
<1>5. CASE q \in [at : {"proposed", "signed", "sent"}, tx : Transaction, intent : Intents]
  BY <1>5
<1> QED
  BY <1>1, <1>2, <1>3, <1>4, <1>5 DEF RequestState

\* The nonce that is pinned is a number, for the mempool is finite.
LEMMA PendingNonceType == ServiceInv => pendingNonce \in Nat
<1> SUFFICES ASSUME ServiceInv PROVE pendingNonce \in Nat
  OBVIOUS
<1> DEFINE run == {tx \in mempool :
                     \A n \in Len(mined)..tx.nonce : \E before \in mempool : before.nonce = n}
<1>1. IsFiniteSet(run)
  <2>1. IsFiniteSet(mempool) /\ run \subseteq mempool
    BY DEF ServiceInv, ServiceTypes
  <2> QED
    BY <2>1, FS_Subset
<1>2. Cardinality(run) \in Nat
  BY <1>1, FS_CardinalityType
<1>3. Len(mined) \in Nat
  BY DEF ServiceInv, ServiceTypes, TypeOK
<1> QED
  BY <1>2, <1>3 DEF pendingNonce

-----------------------------------------------------------------------------
(* Steps of the environment.                                               *)

\* The step leaves requests and stores alone.
DeskStill == UNCHANGED <<requests, actions, file, failures>>

\* Time that passes at Privy and on chain keeps the invariant of a desk that stands still.
LEMMA EnvironmentKeeps ==
  ASSUME ServiceInv, DeskStill, ServiceTypes', QuorumFirst(intents'),
         Grown(intents, mined, intents', mined'),
         broadcastTransactions' \subseteq broadcastTransactions
  PROVE  ServiceInv'
<1>1. /\ \A p \in Processes : FaithfulCopy(actions[p], intents', mined')
      /\ FaithfulCopy(file, intents', mined')
      /\ \A r \in Requests : FaithfulRequest(requests[r], actions[home[r]], intents')
      /\ \A tx \in broadcastTransactions : Backed(tx, intents')
  BY GrowthKeeps DEF ServiceInv
<1> QED
  BY <1>1 DEF ServiceInv, DeskStill

\* A block: the transaction moves from the node onto the chain.
LEMMA MineKeeps == ServiceInv /\ mine => ServiceInv'
<1> SUFFICES ASSUME ServiceInv, mine PROVE ServiceInv'
  OBVIOUS
<1>1. PICK tx \in mempool : /\ mined' = Append(mined, [tx |-> tx, success |-> waivable])
                            /\ mempool' = mempool \ {tx}
  BY DEF mine
<1> DEFINE entry == [tx |-> tx, success |-> waivable]
<1>2. /\ mined \in Seq([tx : Transaction, success : BOOLEAN])
      /\ mempool \subseteq Transaction
      /\ IsFiniteSet(mempool)
      /\ entry \in [tx : Transaction, success : BOOLEAN]
  BY DEF ServiceInv, ServiceTypes, TypeOK
<1>3. /\ mined' \in Seq([tx : Transaction, success : BOOLEAN])
      /\ Len(mined') = Len(mined) + 1
      /\ Len(mined) \in Nat
      /\ mined'[Len(mined) + 1] = entry
      /\ \A k \in 1..Len(mined) : mined'[k] = mined[k]
  BY <1>1, <1>2
<1>4. ServiceTypes'
  <2>1. IsFiniteSet(mempool')
    BY <1>1, <1>2, FS_RemoveElement
  <2>2. TypeOK'
    BY <1>1, <1>2, <1>3 DEF mine, ServiceInv, ServiceTypes, TypeOK, deskVars
  <2> QED
    BY <2>1, <2>2 DEF mine, ServiceInv, ServiceTypes, deskVars
<1>5. Grown(intents, mined, intents', mined')
  <2>1. intents' = intents
    BY DEF mine
  <2>2. ASSUME NEW t, SucceededIn(mined, t)
        PROVE  SucceededIn(mined', t)
    <3>1. PICK k \in 1..Len(mined) : mined[k] = [tx |-> t, success |-> TRUE]
      BY <2>2 DEF SucceededIn
    <3>2. k \in 1..Len(mined') /\ mined'[k] = [tx |-> t, success |-> TRUE]
      BY <1>3, <3>1
    <3> QED
      BY <3>2 DEF SucceededIn
  <2> QED
    BY <2>1, <2>2 DEF Grown
<1>6. broadcastTransactions' \subseteq broadcastTransactions
  <2>1. SUFFICES ASSUME NEW t \in broadcastTransactions', t \notin mempool
                 PROVE  t \in broadcastTransactions
    BY DEF broadcastTransactions
  <2>2. PICK k \in 1..Len(mined') : mined'[k].tx = t
    BY <1>1, <2>1 DEF broadcastTransactions
  <2>3. CASE k \in 1..Len(mined)
    BY <1>3, <2>2, <2>3 DEF broadcastTransactions
  <2>4. CASE k = Len(mined) + 1
    BY <1>3, <2>1, <2>2, <2>4
  <2> QED
    BY <1>3, <2>2, <2>3, <2>4
<1> QED
  BY <1>4, <1>5, <1>6, EnvironmentKeeps
  DEF mine, ServiceInv, DeskStill, deskVars

\* Privy changes one intent: its request stays, and a full quorum stays behind it.
LEMMA IntentKeeps ==
  ASSUME ServiceInv, UNCHANGED <<deskVars, chainVars, failures>>,
         NEW i \in DOMAIN intents, NEW after \in Intent,
         intents' = [intents EXCEPT ![i] = after],
         after.request = intents[i].request,
         after.status \in {"granted", "executed"} => Cardinality(after.approvals) >= Threshold,
         intents[i].status # "pending" =>
           after.status # "pending" /\ after.approvals = intents[i].approvals
  PROVE  ServiceInv'
<1>1. /\ DOMAIN intents' = DOMAIN intents
      /\ intents'[i] = after
      /\ \A j \in DOMAIN intents : j # i => intents'[j] = intents[j]
  OBVIOUS
<1>2. UNCHANGED <<requests, actions, file, waivable, mempool, mined, failures>>
  BY DEF deskVars, chainVars
<1>3. ServiceTypes'
  BY <1>1, <1>2 DEF ServiceInv, ServiceTypes, TypeOK
<1>4. QuorumFirst(intents')
  BY <1>1 DEF ServiceInv, QuorumFirst, ApprovedIn
<1>5. Grown(intents, mined, intents', mined')
  BY <1>1, <1>2 DEF Grown, ApprovedIn
<1>6. broadcastTransactions' = broadcastTransactions
  BY <1>2 DEF broadcastTransactions
<1> QED
  BY <1>2, <1>3, <1>4, <1>5, <1>6, EnvironmentKeeps DEF DeskStill

\* The covenant moves under the desk.
LEMMA CovenantMovesKeeps == ServiceInv /\ covenantMoves => ServiceInv'
<1> SUFFICES ASSUME ServiceInv, covenantMoves PROVE ServiceInv'
  OBVIOUS
<1>1. /\ UNCHANGED <<requests, actions, file, failures, intents, mempool, mined>>
      /\ waivable' \in BOOLEAN
  BY DEF covenantMoves, deskVars
<1>2. ServiceTypes'
  BY <1>1 DEF ServiceInv, ServiceTypes, TypeOK
<1> QED
  BY <1>1, <1>2 DEF ServiceInv, broadcastTransactions

\* Privy signs, refuses, lets an intent expire or takes an approval or a rejection.
LEMMA PrivyKeeps ==
  ASSUME ServiceInv, NEW i \in DOMAIN intents,
         \/ privyExecutes(i)
         \/ privyExpires(i)
         \/ \E p \in Processes : reject(p, i) \/ \E m \in Members : approve(p, i, m)
  PROVE  ServiceInv'
<1> USE DEF Statuses, OPEN_STATUSES
<1>1. /\ intents[i] \in Intent
      /\ intents[i].status \in {"granted", "executed"} =>
           Cardinality(intents[i].approvals) >= Threshold
      /\ IsFiniteSet(Members)
  BY QuorumAssumption DEF ServiceInv, ServiceTypes, TypeOK, QuorumFirst, ApprovedIn
<1>2. ASSUME NEW status \in Statuses \ {"pending"}, setStatus(i, status),
             status \in {"granted", "executed"} => intents[i].status \in {"granted", "executed"},
             UNCHANGED <<deskVars, chainVars, failures>>
      PROVE  ServiceInv'
  <2> DEFINE after == [intents[i] EXCEPT !.status = status]
  <2>1. /\ after \in Intent
        /\ after.request = intents[i].request
        /\ after.approvals = intents[i].approvals
        /\ after.status = status
    BY <1>1 DEF Intent
  <2>2. intents' = [intents EXCEPT ![i] = after]
    BY <1>2 DEF setStatus
  <2> HIDE DEF after
  <2> QED
    BY <1>1, <1>2, <2>1, <2>2, IntentKeeps
<1>3. CASE privyExecutes(i)
  <2>1. CASE setStatus(i, "failed")
    BY <1>2, <1>3, <2>1 DEF privyExecutes
  <2>2. ASSUME NEW signed \in {{}} \cup {{[intents[i].request EXCEPT !.call = c]} : c \in Calls},
               intents' = [intents EXCEPT ![i].status = "executed", ![i].signed = signed]
        PROVE  ServiceInv'
    <3> DEFINE after == [intents[i] EXCEPT !.status = "executed", !.signed = signed]
    <3>1. signed \subseteq Transaction
      BY <1>1 DEF Intent, Transaction
    <3>2. /\ after \in Intent
          /\ after.request = intents[i].request
          /\ after.approvals = intents[i].approvals
          /\ after.status = "executed"
      BY <1>1, <3>1 DEF Intent
    <3>3. intents' = [intents EXCEPT ![i] = after]
      BY <2>2
    <3>4. intents[i].status = "granted" /\ UNCHANGED <<deskVars, chainVars, failures>>
      BY <1>3 DEF privyExecutes
    <3> HIDE DEF after
    <3> QED
      BY <1>1, <3>2, <3>3, <3>4, IntentKeeps
  <2> QED
    BY <1>3, <2>1, <2>2 DEF privyExecutes
<1>4. CASE privyExpires(i)
  BY <1>2, <1>4 DEF privyExpires
<1>5. ASSUME NEW p \in Processes, reject(p, i)
      PROVE  ServiceInv'
  BY <1>2, <1>5 DEF reject
<1>6. ASSUME NEW p \in Processes, NEW m \in Members, approve(p, i, m)
      PROVE  ServiceInv'
  <2> DEFINE approvals == intents[i].approvals \cup {m}
             status == IF Cardinality(approvals) >= Threshold THEN "granted" ELSE "pending"
             after == [intents[i] EXCEPT !.approvals = approvals, !.status = status]
  <2>1. /\ after \in Intent
        /\ after.request = intents[i].request
        /\ after.approvals = approvals
        /\ after.status = status
    BY <1>1 DEF Intent
  <2>2. intents' = [intents EXCEPT ![i] = after]
    BY <1>6 DEF approve
  <2>3. intents[i].status = "pending" /\ UNCHANGED <<deskVars, chainVars, failures>>
    BY <1>6 DEF approve
  <2>4. status \in {"granted", "executed"} => Cardinality(approvals) >= Threshold
    OBVIOUS
  <2> HIDE DEF after, approvals, status
  <2> QED
    BY <2>1, <2>2, <2>3, <2>4, IntentKeeps
<1> QED
  BY <1>3, <1>4, <1>5, <1>6

-----------------------------------------------------------------------------
(* Steps of the desk.                                                      *)

\* A request goes on while stores, Privy and chain stand still.
LEMMA RequestKeeps ==
  ASSUME ServiceInv, UNCHANGED <<actions, file, intents, chainVars>>,
         failures' \in 0..MaxFailures,
         NEW r \in Requests, NEW q \in RequestState, moveTo(r, q),
         FaithfulRequest(q, actions[home[r]], intents)
  PROVE  ServiceInv'
<1>1. UNCHANGED <<actions, file, intents, waivable, mempool, mined>>
  BY DEF chainVars
<1>2. /\ requests \in [Requests -> RequestState]
      /\ requests' = [requests EXCEPT ![r] = q]
  BY DEF ServiceInv, ServiceTypes, moveTo
<1>3. ServiceTypes'
  BY <1>1, <1>2 DEF ServiceInv, ServiceTypes, TypeOK
<1>4. \A s \in Requests : FaithfulRequest(requests'[s], actions[home[s]], intents)
  BY <1>2 DEF ServiceInv
<1>5. broadcastTransactions' = broadcastTransactions
  BY <1>1 DEF broadcastTransactions
<1> QED
  BY <1>1, <1>3, <1>4, <1>5 DEF ServiceInv

\* A request that ends claims nothing.
LEMMA IdleClaimsNothing ==
  /\ Idle \in RequestState
  /\ \A copy, its : FaithfulRequest(Idle, copy, its)
BY DEF Idle, RequestState, FaithfulRequest

\* A step of a request before it proposes, or after it ends.
LEMMA PlanningKeeps ==
  ASSUME ServiceInv, NEW r \in Requests,
         \/ \E call \in Calls : proposeWaiver(r, call)
         \/ takeStock(r) \/ assertNotOpen(r) \/ simulate(r) \/ pin(r)
         \/ timeout(r) \/ connectionBreaks(r)
  PROVE  ServiceInv'
<1>1. /\ requests[r] \in RequestState
      /\ failures \in 0..MaxFailures
      /\ isStore(stored(r))
  BY QuorumAssumption DEF ServiceInv, ServiceTypes, TypeOK, stored
<1>2. ASSUME UNCHANGED <<actions, file, intents, chainVars, failures>>,
             NEW q \in RequestState, moveTo(r, q), q.at \notin {"proposed", "signed", "sent"}
      PROVE  ServiceInv'
  BY <1>1, <1>2, RequestKeeps DEF FaithfulRequest
<1>3. Idle \in RequestState /\ Idle.at \notin {"proposed", "signed", "sent"}
  BY DEF Idle, RequestState
<1>4. ASSUME NEW call \in Calls, proposeWaiver(r, call) PROVE ServiceInv'
  <2>1. [at |-> "ready", call |-> call] \in RequestState
    BY DEF RequestState
  <2> QED
    BY <1>2, <1>4, <2>1 DEF proposeWaiver
<1>5. CASE takeStock(r)
  <2> DEFINE q == [at   |-> "checking", call |-> requests[r].call,
                   rest |-> {i \in DOMAIN stored(r) : ~stored(r)[i].broadcast}]
  <2>1. q \in RequestState
    BY <1>1, <1>5, RequestFields DEF takeStock, RequestState, isStore
  <2>2. /\ q.at = "checking"
        /\ moveTo(r, q)
        /\ UNCHANGED <<actions, file, intents, chainVars, failures>>
    BY <1>5 DEF takeStock
  <2> HIDE DEF q
  <2> QED
    BY <1>2, <2>1, <2>2
<1>6. CASE assertNotOpen(r)
  <2>1. PICK i \in requests[r].rest :
          \/ moveTo(r, Idle)
          \/ moveTo(r, [requests[r] EXCEPT !.rest = @ \ {i}])
    BY <1>6 DEF assertNotOpen
  <2> DEFINE q == [requests[r] EXCEPT !.rest = @ \ {i}]
  <2>2. q \in RequestState /\ q.at = "checking"
    BY <1>1, <1>6, RequestFields DEF assertNotOpen, RequestState
  <2>3. UNCHANGED <<actions, file, intents, chainVars, failures>>
    BY <1>6 DEF assertNotOpen
  <2>4. CASE moveTo(r, Idle)
    BY <1>2, <1>3, <2>3, <2>4
  <2>5. CASE moveTo(r, q)
    <3> HIDE DEF q
    <3> QED
      BY <1>2, <2>2, <2>3, <2>5
  <2> QED
    BY <2>1, <2>4, <2>5
<1>7. CASE simulate(r)
  <2> DEFINE q == [at |-> "simulated", call |-> requests[r].call]
  <2>1. q \in RequestState /\ q.at = "simulated"
    BY <1>1, <1>7, RequestFields DEF simulate, RequestState
  <2>2. moveTo(r, q) \/ moveTo(r, Idle)
    BY <1>7 DEF simulate
  <2>3. UNCHANGED <<actions, file, intents, chainVars, failures>>
    BY <1>7 DEF simulate
  <2> HIDE DEF q
  <2> QED
    BY <1>2, <1>3, <2>1, <2>2, <2>3
<1>8. CASE pin(r)
  <2> DEFINE tx == [call |-> requests[r].call, nonce |-> pendingNonce]
             q == [at |-> "pinned", tx |-> tx]
  <2>1. tx \in Transaction
    BY <1>1, <1>8, RequestFields, PendingNonceType DEF pin, Transaction
  <2>2. q \in RequestState /\ q.at = "pinned"
    BY <2>1 DEF RequestState
  <2>3. moveTo(r, q) \/ moveTo(r, Idle)
    BY <1>8 DEF pin
  <2>4. UNCHANGED <<actions, file, intents, chainVars, failures>>
    BY <1>8 DEF pin
  <2> HIDE DEF q
  <2> QED
    BY <1>2, <1>3, <2>2, <2>3, <2>4
<1>9. CASE timeout(r)
  BY <1>2, <1>3, <1>9 DEF timeout
<1>10. CASE connectionBreaks(r)
  <2>1. failures' \in 0..MaxFailures
    BY <1>1, <1>10, QuorumAssumption DEF connectionBreaks, fails
  <2>2. moveTo(r, Idle) /\ UNCHANGED <<actions, file, intents, chainVars>>
    BY <1>10 DEF connectionBreaks
  <2> QED
    BY <2>1, <2>2, IdleClaimsNothing, RequestKeeps
<1> QED
  BY <1>4, <1>5, <1>6, <1>7, <1>8, <1>9, <1>10

\* Privy takes a proposal, as it was pinned or otherwise.
LEMMA ProposalKeeps ==
  ASSUME ServiceInv, NEW r \in Requests, proposeRpcIntent(r)
  PROVE  ServiceInv'
<1>1. PICK i \in Intents \ DOMAIN intents, c \in Calls :
        /\ intents' = Put(intents, i, [request   |-> [requests[r].tx EXCEPT !.call = c],
                                       status    |-> "pending",
                                       approvals |-> {},
                                       signed    |-> {}])
        /\ moveTo(r, [at |-> "proposed", tx |-> requests[r].tx, intent |-> i])
  BY DEF proposeRpcIntent
<1> DEFINE entry == [request   |-> [requests[r].tx EXCEPT !.call = c],
                     status    |-> "pending", approvals |-> {}, signed |-> {}]
           q == [at |-> "proposed", tx |-> requests[r].tx, intent |-> i]
<1>2. /\ UNCHANGED <<actions, file, waivable, mempool, mined, failures>>
      /\ requests[r].at = "pinned"
      /\ requests \in [Requests -> RequestState]
      /\ requests' = [requests EXCEPT ![r] = q]
  BY <1>1 DEF proposeRpcIntent, chainVars, moveTo, ServiceInv, ServiceTypes
<1>3. requests[r].tx \in Transaction
  BY <1>2, RequestFields
<1>4. q \in RequestState /\ q.at = "proposed" /\ q.intent = i
  BY <1>3 DEF RequestState
<1>5. entry \in Intent /\ entry.status = "pending"
  BY <1>3 DEF Intent, Statuses, OPEN_STATUSES, Transaction
<1>6. intents' = Put(intents, i, entry)
  BY <1>1
<1> HIDE DEF entry, q
<1>7. /\ DOMAIN intents' = DOMAIN intents \cup {i}
      /\ intents'[i] = entry
      /\ \A j \in DOMAIN intents : intents'[j] = intents[j]
  BY <1>1, <1>6 DEF Put
<1>8. ServiceTypes'
  BY <1>2, <1>4, <1>5, <1>7 DEF ServiceInv, ServiceTypes, TypeOK
<1>9. Grown(intents, mined, intents', mined')
  BY <1>2, <1>7 DEF Grown, ApprovedIn
<1>10. QuorumFirst(intents')
  BY <1>5, <1>7 DEF ServiceInv, QuorumFirst, ApprovedIn
<1>11. \A s \in Requests : FaithfulRequest(requests'[s], actions'[home[s]], intents')
  <2>1. \A s \in Requests : FaithfulRequest(requests[s], actions[home[s]], intents')
    BY <1>9, GrowthKeeps DEF ServiceInv
  <2>2. FaithfulRequest(q, actions[home[r]], intents')
    BY <1>4, <1>7 DEF FaithfulRequest
  <2> QED
    BY <1>2, <2>1, <2>2
<1>12. /\ \A p \in Processes : FaithfulCopy(actions'[p], intents', mined')
       /\ FaithfulCopy(file', intents', mined')
  BY <1>2, <1>9, GrowthKeeps DEF ServiceInv
<1>13. \A tx \in broadcastTransactions' : Backed(tx, intents')
  <2>1. broadcastTransactions' = broadcastTransactions
    BY <1>2 DEF broadcastTransactions
  <2> QED
    BY <1>9, <2>1, GrowthKeeps DEF ServiceInv
<1> QED
  BY <1>8, <1>10, <1>11, <1>12, <1>13 DEF ServiceInv

\* A process saves an action that Privy has recorded and ends the request.
LEMMA SaveKeeps ==
  ASSUME ServiceInv, UNCHANGED <<intents, chainVars>>,
         NEW r \in Requests, moveTo(r, Idle), NEW i \in DOMAIN intents, NEW entry \in Action,
         save(home[r], i, entry), entry.pinned = intents[i].request,
         entry.broadcast => SucceededIn(mined, entry.pinned)
  PROVE  ServiceInv'
<1> DEFINE p == home[r]
           copy == Put(actions[p], i, entry)
<1>1. /\ p \in Processes
      /\ DOMAIN actions = Processes
      /\ UNCHANGED <<intents, waivable, mempool, mined>>
      /\ requests' = [requests EXCEPT ![r] = Idle]
      /\ requests \in [Requests -> RequestState]
      /\ failures \in 0..MaxFailures
      /\ i \in Intents
  BY QuorumAssumption DEF chainVars, moveTo, ServiceInv, ServiceTypes, TypeOK
<1>2. /\ actions' = [actions EXCEPT ![p] = copy]
      /\ \/ file' = copy /\ UNCHANGED failures
         \/ fails /\ UNCHANGED file
  BY <1>1 DEF save
<1>3. /\ DOMAIN copy = DOMAIN actions[p] \cup {i}
      /\ copy[i] = entry
      /\ \A j \in DOMAIN actions[p] : j # i => copy[j] = actions[p][j]
  BY DEF Put
<1> HIDE DEF copy
<1>4. isStore(copy)
  BY <1>1, <1>3 DEF isStore, ServiceInv, ServiceTypes, TypeOK
<1>5. FaithfulCopy(copy, intents, mined)
  <2>1. FaithfulCopy(actions[p], intents, mined)
    BY <1>1 DEF ServiceInv
  <2> QED
    BY <1>3, <2>1 DEF FaithfulCopy
<1>6. ServiceTypes'
  <2>1. failures' \in 0..MaxFailures
    BY <1>1, <1>2, QuorumAssumption DEF fails
  <2>2. \A b \in Processes : isStore(actions'[b])
    BY <1>1, <1>2, <1>4 DEF ServiceInv, ServiceTypes, TypeOK
  <2>3. isStore(file') /\ DOMAIN actions' = Processes
    BY <1>1, <1>2, <1>4 DEF ServiceInv, ServiceTypes, TypeOK
  <2>4. requests' \in [Requests -> RequestState]
    BY <1>1, IdleClaimsNothing
  <2> QED
    BY <1>1, <2>1, <2>2, <2>3, <2>4 DEF ServiceInv, ServiceTypes, TypeOK
<1>7. /\ \A b \in Processes : FaithfulCopy(actions'[b], intents, mined)
      /\ FaithfulCopy(file', intents, mined)
  BY <1>1, <1>2, <1>5 DEF ServiceInv
<1>8. \A s \in Requests : FaithfulRequest(requests'[s], actions'[home[s]], intents)
  <2>1. ASSUME NEW s \in Requests, s # r
        PROVE  FaithfulRequest(requests[s], actions'[home[s]], intents)
    <3>1. FaithfulRequest(requests[s], actions[home[s]], intents)
      BY DEF ServiceInv
    <3>2. DOMAIN actions[home[s]] \subseteq DOMAIN actions'[home[s]]
      BY <1>1, <1>2, <1>3, QuorumAssumption
    <3> QED
      BY <3>1, <3>2 DEF FaithfulRequest
  <2> QED
    BY <1>1, <2>1, IdleClaimsNothing
<1>9. broadcastTransactions' = broadcastTransactions
  BY <1>1 DEF broadcastTransactions
<1> QED
  BY <1>1, <1>6, <1>7, <1>8, <1>9 DEF ServiceInv

\* A proposal is saved when Privy recorded what was pinned.
LEMMA SaveProposalKeeps ==
  ASSUME ServiceInv, NEW r \in Requests, saveProposal(r)
  PROVE  ServiceInv'
<1> DEFINE i == requests[r].intent
           entry == [pinned |-> requests[r].tx, broadcast |-> FALSE]
<1>1. /\ requests[r].at = "proposed"
      /\ moveTo(r, Idle)
      /\ UNCHANGED <<intents, chainVars>>
      /\ requests[r] \in RequestState
      /\ failures \in 0..MaxFailures
  BY DEF saveProposal, assertIntentMatches, ServiceInv, ServiceTypes, TypeOK
<1>2. i \in DOMAIN intents
  BY <1>1 DEF ServiceInv, FaithfulRequest
<1>3. entry \in Action /\ entry.pinned = requests[r].tx /\ ~entry.broadcast
  BY <1>1, RequestFields DEF Action
<1>4. CASE intents[i].request = requests[r].tx /\ save(home[r], i, entry)
  <2> HIDE DEF entry
  <2> QED
    BY <1>1, <1>2, <1>3, <1>4, SaveKeeps
<1>5. CASE UNCHANGED <<actions, file, failures>>
  BY <1>1, <1>5, IdleClaimsNothing, RequestKeeps
<1> QED
  BY <1>4, <1>5 DEF saveProposal, assertIntentMatches

\* A broadcast is recorded when the receipt says that it succeeded.
LEMMA ConfirmKeeps ==
  ASSUME ServiceInv, NEW r \in Requests, confirm(r)
  PROVE  ServiceInv'
<1> DEFINE i == requests[r].intent
           entry == [actions[home[r]][i] EXCEPT !.broadcast = TRUE]
<1>1. /\ requests[r].at = "sent"
      /\ moveTo(r, Idle)
      /\ UNCHANGED <<intents, chainVars>>
      /\ failures \in 0..MaxFailures
      /\ home[r] \in Processes
  BY QuorumAssumption DEF confirm, ServiceInv, ServiceTypes, TypeOK
<1>2. /\ i \in DOMAIN actions[home[r]]
      /\ requests[r].tx = intents[i].request
  BY <1>1 DEF ServiceInv, FaithfulRequest
<1>3. /\ i \in DOMAIN intents
      /\ actions[home[r]][i] \in Action
      /\ actions[home[r]][i].pinned = intents[i].request
  BY <1>1, <1>2 DEF ServiceInv, ServiceTypes, TypeOK, FaithfulCopy, isStore
<1>4. entry \in Action /\ entry.pinned = intents[i].request
  BY <1>3 DEF Action
<1>5. CASE succeeded(requests[r].tx) /\ recordBroadcast(home[r], i)
  <2>1. SucceededIn(mined, intents[i].request)
    BY <1>2, <1>5 DEF succeeded, SucceededIn
  <2>2. save(home[r], i, entry)
    BY <1>5 DEF recordBroadcast
  <2> HIDE DEF entry
  <2> QED
    BY <1>1, <1>3, <1>4, <2>1, <2>2, SaveKeeps
<1>6. CASE UNCHANGED <<actions, file, failures>>
  BY <1>1, <1>6, IdleClaimsNothing, RequestKeeps
<1> QED
  BY <1>5, <1>6 DEF confirm

\* A process comes back with what is on disk and none of its requests.
LEMMA RestartKeeps ==
  ASSUME ServiceInv, NEW p \in Processes, openDesk(p) \/ crash(p)
  PROVE  ServiceInv'
<1>1. /\ actions' = [actions EXCEPT ![p] = file]
      /\ UNCHANGED <<file, intents, waivable, mempool, mined>>
      /\ requests' \in [Requests -> RequestState]
      /\ failures' \in 0..MaxFailures
      /\ \A s \in Requests : requests'[s] = IF home[s] = p THEN Idle ELSE requests[s]
      /\ DOMAIN actions = Processes
  <2>1. /\ requests \in [Requests -> RequestState]
        /\ failures \in 0..MaxFailures
        /\ DOMAIN actions = Processes
    BY DEF ServiceInv, ServiceTypes, TypeOK
  <2>2. CASE openDesk(p)
    BY <2>1, <2>2 DEF openDesk, chainVars
  <2>3. CASE crash(p)
    <3>1. failures' \in 0..MaxFailures
      BY <2>1, <2>3, QuorumAssumption DEF crash, fails
    <3>2. requests' = [s \in Requests |-> IF home[s] = p THEN Idle ELSE requests[s]]
      BY <2>3 DEF crash
    <3> QED
      BY <2>1, <2>3, <3>1, <3>2, IdleClaimsNothing DEF crash, chainVars
  <2> QED
    BY <2>2, <2>3
<1>2. ServiceTypes'
  BY <1>1 DEF ServiceInv, ServiceTypes, TypeOK
<1>3. \A b \in Processes : FaithfulCopy(actions'[b], intents, mined)
  BY <1>1 DEF ServiceInv
<1>4. \A s \in Requests : FaithfulRequest(requests'[s], actions'[home[s]], intents)
  BY <1>1, IdleClaimsNothing, QuorumAssumption DEF ServiceInv
<1>5. broadcastTransactions' = broadcastTransactions
  BY <1>1 DEF broadcastTransactions
<1> QED
  BY <1>1, <1>2, <1>3, <1>4, <1>5 DEF ServiceInv

\* An action is executed only as it was pinned, recorded and signed.
LEMMA ExecuteKeeps ==
  ASSUME ServiceInv, NEW r \in Requests, NEW i \in DOMAIN intents, execute(r, i)
  PROVE  ServiceInv'
<1> DEFINE tx == actions[home[r]][i].pinned
           q == [at |-> "signed", tx |-> tx, intent |-> i]
<1>1. /\ i \in DOMAIN actions[home[r]]
      /\ intents[i].status = "executed"
      /\ intents[i].request = tx
      /\ moveTo(r, q)
      /\ UNCHANGED <<actions, file, intents, chainVars, failures>>
  BY DEF execute, stored, assertIntentMatches, verifySignedTransaction
<1>2. /\ ApprovedIn(intents, i)
      /\ i \in Intents
      /\ intents[i] \in Intent
      /\ failures \in 0..MaxFailures
  BY <1>1 DEF ServiceInv, ServiceTypes, TypeOK, QuorumFirst
<1>3. q \in RequestState
  BY <1>1, <1>2 DEF RequestState, Intent
<1>4. FaithfulRequest(q, actions[home[r]], intents)
  BY <1>1, <1>2 DEF FaithfulRequest
<1> HIDE DEF q
<1> QED
  BY <1>1, <1>2, <1>3, <1>4, RequestKeeps

\* What is sent to a node was approved.
LEMMA BroadcastKeeps ==
  ASSUME ServiceInv, NEW r \in Requests, broadcast(r)
  PROVE  ServiceInv'
<1> DEFINE tx == requests[r].tx
           q == [requests[r] EXCEPT !.at = "sent"]
<1>1. /\ requests[r].at = "signed"
      /\ mempool' = mempool \cup {tx} \/ mempool' = mempool
      /\ moveTo(r, q) \/ moveTo(r, Idle)
      /\ UNCHANGED <<actions, file, intents, waivable, mined, failures>>
  BY DEF broadcast
<1>2. /\ requests \in [Requests -> RequestState]
      /\ FaithfulRequest(requests[r], actions[home[r]], intents)
  BY DEF ServiceInv, ServiceTypes
<1>3. tx \in Transaction /\ Backed(tx, intents)
  BY <1>1, <1>2, RequestFields DEF FaithfulRequest, ApprovedIn, Backed
<1>4. /\ q \in RequestState
      /\ FaithfulRequest(q, actions[home[r]], intents)
  BY <1>1, <1>2, RequestFields DEF FaithfulRequest, RequestState
<1> HIDE DEF q, tx
<1>5. IsFiniteSet(mempool')
  BY <1>1, FS_AddElement DEF ServiceInv, ServiceTypes
<1>6. requests' \in [Requests -> RequestState]
  BY <1>1, <1>2, <1>4, IdleClaimsNothing DEF moveTo
<1>7. ServiceTypes'
  BY <1>1, <1>3, <1>5, <1>6 DEF ServiceInv, ServiceTypes, TypeOK
<1>8. \A s \in Requests : FaithfulRequest(requests'[s], actions[home[s]], intents)
  BY <1>1, <1>2, <1>4, IdleClaimsNothing DEF ServiceInv, moveTo
<1>9. broadcastTransactions' \subseteq broadcastTransactions \cup {tx}
  BY <1>1 DEF broadcastTransactions
<1> QED
  BY <1>1, <1>3, <1>7, <1>8, <1>9 DEF ServiceInv

-----------------------------------------------------------------------------
(* Every step, and the theorems.                                           *)

LEMMA ServiceStepInv == ServiceInv /\ [Next]_vars => ServiceInv'
<1> SUFFICES ASSUME ServiceInv, [Next]_vars PROVE ServiceInv'
  OBVIOUS
<1>1. CASE mine
  BY <1>1, MineKeeps
<1>2. CASE covenantMoves
  BY <1>2, CovenantMovesKeeps
<1>3. ASSUME NEW i \in DOMAIN intents, privyExecutes(i) \/ privyExpires(i)
      PROVE  ServiceInv'
  BY <1>3, PrivyKeeps
<1>4. ASSUME NEW p \in Processes, openDesk(p) \/ crash(p)
      PROVE  ServiceInv'
  BY <1>4, RestartKeeps
<1>5. ASSUME NEW p \in Processes, NEW i \in DOMAIN intents,
             reject(p, i) \/ \E m \in Members : approve(p, i, m)
      PROVE  ServiceInv'
  BY <1>5, PrivyKeeps
<1>6. ASSUME NEW r \in Requests,
             \/ \E call \in Calls : proposeWaiver(r, call)
             \/ takeStock(r) \/ assertNotOpen(r) \/ simulate(r) \/ pin(r)
             \/ timeout(r) \/ connectionBreaks(r)
      PROVE  ServiceInv'
  BY <1>6, PlanningKeeps
<1>7. ASSUME NEW r \in Requests,
             proposeRpcIntent(r) \/ saveProposal(r) \/ broadcast(r) \/ confirm(r)
      PROVE  ServiceInv'
  BY <1>7, ProposalKeeps, SaveProposalKeeps, BroadcastKeeps, ConfirmKeeps
<1>8. ASSUME NEW r \in Requests, NEW i \in DOMAIN intents, execute(r, i)
      PROVE  ServiceInv'
  BY <1>8, ExecuteKeeps
<1>9. CASE UNCHANGED vars
  BY <1>9 DEF vars, deskVars, chainVars, ServiceInv, ServiceTypes, TypeOK, broadcastTransactions
<1> QED
  BY <1>1, <1>2, <1>3, <1>4, <1>5, <1>6, <1>7, <1>8, <1>9 DEF Next, serve, route, decide

THEOREM ServiceInvariant == Spec => []ServiceInv
<1> QED
  BY ServiceInitInv, ServiceStepInv, PTL DEF Spec

\* Every variable of the desk keeps its type, the two copies of the store included.
THEOREM ServiceTypesHold == Spec => []TypeOK
<1>1. ServiceInv => TypeOK
  BY DEF ServiceInv, ServiceTypes
<1> QED
  BY <1>1, ServiceInvariant, PTL

\* No transaction of the wallet reaches a node that a full quorum has not approved to
\* the last field: service.ts compares what Privy recorded and what it signed with
\* what was pinned before it broadcasts.
THEOREM OnlyApprovedIsSent == Spec => []BroadcastWasApproved
<1>1. ServiceInv => BroadcastWasApproved
  BY DEF ServiceInv, BroadcastWasApproved, Backed, ApprovedIn
<1> QED
  BY <1>1, ServiceInvariant, PTL

\* The store records as broadcast only what is on chain and succeeded.
THEOREM RecordedHappened == Spec => []RecordedIsMined
<1>1. ServiceInv => RecordedIsMined
  BY DEF ServiceInv, RecordedIsMined, FaithfulCopy, SucceededIn, succeeded
<1> QED
  BY <1>1, ServiceInvariant, PTL

-----------------------------------------------------------------------------
(* The wallet's nonces.                                                    *)

\* The chain holds the wallet's transactions by nonce, and a node at most one for
\* each nonce after them.
NoncesInOrder ==
  /\ \A k \in 1..Len(mined) : mined[k].tx.nonce = k - 1
  /\ \A tx \in mempool : tx.nonce >= Len(mined)
  /\ \A a, b \in mempool : a.nonce = b.nonce => a = b

LEMMA NoncesInit == Init => NoncesInOrder
BY DEF Init, NoncesInOrder

LEMMA NoncesStep == ServiceInv /\ NoncesInOrder /\ [Next]_vars => NoncesInOrder'
<1> SUFFICES ASSUME ServiceInv, NoncesInOrder, [Next]_vars PROVE NoncesInOrder'
  OBVIOUS
<1>1. /\ mined \in Seq([tx : Transaction, success : BOOLEAN])
      /\ mempool \subseteq Transaction
      /\ \A tx \in Transaction : tx.nonce \in Nat
      /\ waivable \in BOOLEAN
  BY DEF ServiceInv, ServiceTypes, TypeOK, Transaction
<1>2. CASE UNCHANGED <<mempool, mined>>
  BY <1>2 DEF NoncesInOrder
<1>3. CASE mine
  <2>1. PICK tx \in mempool : /\ tx.nonce = Len(mined)
                              /\ mined' = Append(mined, [tx |-> tx, success |-> waivable])
                              /\ mempool' = mempool \ {tx}
    BY <1>3 DEF mine
  <2> DEFINE entry == [tx |-> tx, success |-> waivable]
  <2>2. entry \in [tx : Transaction, success : BOOLEAN] /\ entry.tx = tx
    BY <1>1
  <2> HIDE DEF entry
  <2>3. /\ Len(mined) \in Nat
        /\ Len(mined') = Len(mined) + 1
        /\ mined'[Len(mined) + 1] = entry
        /\ \A k \in 1..Len(mined) : mined'[k] = mined[k]
    BY <1>1, <2>1, <2>2 DEF entry
  <2>4. \A k \in 1..Len(mined') : mined'[k].tx.nonce = k - 1
    BY <2>1, <2>2, <2>3 DEF NoncesInOrder
  <2>5. \A other \in mempool' : other.nonce >= Len(mined')
    BY <1>1, <2>1, <2>3 DEF NoncesInOrder
  <2> QED
    BY <2>1, <2>4, <2>5 DEF NoncesInOrder
<1>4. ASSUME NEW r \in Requests, broadcast(r), nodeTakes(requests[r].tx)
      PROVE  NoncesInOrder'
  BY <1>4 DEF broadcast, nodeTakes, NoncesInOrder
<1>5. ASSUME NEW r \in Requests, broadcast(r), ~nodeTakes(requests[r].tx)
      PROVE  NoncesInOrder'
  BY <1>2, <1>5 DEF broadcast
<1>6. ASSUME NEW r \in Requests, route(r) \/ (serve(r) /\ ~broadcast(r))
      PROVE  NoncesInOrder'
  <2>1. UNCHANGED chainVars
    BY <1>6 DEF route, serve, proposeWaiver, execute, takeStock, assertNotOpen, simulate, pin,
                proposeRpcIntent, saveProposal, confirm
  <2> QED
    BY <1>2, <2>1 DEF chainVars
<1>7. ASSUME NEW r \in Requests, timeout(r) \/ connectionBreaks(r)
      PROVE  NoncesInOrder'
  BY <1>2, <1>7 DEF timeout, connectionBreaks, chainVars
<1>8. ASSUME NEW p \in Processes, openDesk(p) \/ crash(p) \/ decide(p)
      PROVE  NoncesInOrder'
  BY <1>2, <1>8 DEF openDesk, crash, decide, reject, approve, chainVars
<1>9. ASSUME NEW i \in DOMAIN intents, privyExecutes(i) \/ privyExpires(i)
      PROVE  NoncesInOrder'
  BY <1>2, <1>9 DEF privyExecutes, privyExpires, chainVars
<1>10. CASE covenantMoves
  BY <1>2, <1>10 DEF covenantMoves
<1>11. CASE UNCHANGED vars
  BY <1>2, <1>11 DEF vars, chainVars
<1> QED
  BY <1>3, <1>4, <1>5, <1>6, <1>7, <1>8, <1>9, <1>10, <1>11 DEF Next

\* The nonce that the node gives out is used by nothing that the wallet has sent:
\* getTransactionCount at "pending" counts without a gap from what is mined.
LEMMA PendingNonceIsFree ==
  ASSUME ServiceInv, NoncesInOrder
  PROVE  \A tx \in broadcastTransactions : tx.nonce # pendingNonce
<1> DEFINE base == Len(mined)
           held(n) == \E before \in mempool : before.nonce = n
           run == {tx \in mempool : \A n \in base..tx.nonce : held(n)}
           count == Cardinality(run)
<1>1. /\ mined \in Seq([tx : Transaction, success : BOOLEAN])
      /\ \A tx \in mempool : tx.nonce \in Nat /\ tx.nonce >= base
      /\ \A a, b \in mempool : a.nonce = b.nonce => a = b
      /\ \A k \in 1..base : mined[k].tx.nonce = k - 1
      /\ base \in Nat
  BY DEF ServiceInv, ServiceTypes, TypeOK, Transaction, NoncesInOrder
<1>2. run \subseteq mempool /\ IsFiniteSet(run) /\ count \in Nat
  BY FS_Subset, FS_CardinalityType DEF ServiceInv, ServiceTypes
<1>3. pendingNonce = base + count
  BY DEF pendingNonce
<1>4. ASSUME NEW tx \in mempool, tx.nonce = base + count
      PROVE  FALSE
  <2>1. CASE \A n \in base..(base + count) : held(n)
    <3> DEFINE f == [n \in base..(base + count) |->
                       CHOOSE before \in mempool : before.nonce = n]
    <3>1. \A n \in base..(base + count) : f[n] \in mempool /\ f[n].nonce = n
      BY <2>1
    <3> HIDE DEF f
    <3>2. ASSUME NEW n \in base..(base + count)
          PROVE  f[n] \in run
      <4>1. f[n] \in mempool /\ f[n].nonce = n
        BY <3>1
      <4>2. \A m \in base..n : held(m)
        BY <1>1, <1>2, <2>1
      <4> HIDE DEF held
      <4> QED
        BY <4>1, <4>2
    <3>3. f \in Injection(base..(base + count), run)
      <4>1. f \in [base..(base + count) -> run]
        BY <3>2 DEF f
      <4>2. \A a, b \in base..(base + count) : f[a] = f[b] => a = b
        BY <3>1
      <4> QED
        BY <4>1, <4>2 DEF Injection, IsInjective
    <3>4. Cardinality(base..(base + count)) <= count
      BY <1>2, <3>3, FS_Injection
    <3>5. Cardinality(base..(base + count)) = count + 1
      <4> DEFINE top == base + count
      <4>1. base \in Int /\ top \in Int /\ ~(base > top) /\ top - base + 1 = count + 1
        BY <1>1, <1>2
      <4> HIDE DEF base, top
      <4>2. Cardinality(base..top) = IF base > top THEN 0 ELSE top - base + 1
        BY ONLY <4>1, FS_Interval
      <4> QED
        BY <4>1, <4>2 DEF top
    <3> QED
      BY <1>2, <3>4, <3>5
  <2>2. ASSUME NEW gap \in base..(base + count), ~held(gap)
        PROVE  FALSE
    <3>1. gap \in Int /\ gap < base + count /\ base <= gap
      BY <1>1, <1>2, <1>4, <2>2
    <3>2. \A b \in run : b.nonce \in base..(gap - 1)
      <4> SUFFICES ASSUME NEW b \in run, b.nonce >= gap PROVE FALSE
        BY <1>1, <1>2, <3>1
      <4>1. gap \in base..b.nonce
        BY <1>1, <1>2, <3>1
      <4> QED
        BY <2>2, <4>1
    <3> DEFINE f == [b \in run |-> b.nonce]
    <3>3. f \in Injection(run, base..(gap - 1))
      <4>1. f \in [run -> base..(gap - 1)]
        BY <3>2
      <4>2. \A a, b \in run : f[a] = f[b] => a = b
        BY <1>1, <1>2
      <4> HIDE DEF f
      <4> QED
        BY <4>1, <4>2 DEF Injection, IsInjective
    <3> HIDE DEF f, run
    <3>4. IsFiniteSet(base..(gap - 1)) /\ Cardinality(base..(gap - 1)) = gap - base
      <4>1. base \in Int /\ gap - 1 \in Int
        BY <1>1, <3>1
      <4>2. /\ IsFiniteSet(base..(gap - 1))
            /\ Cardinality(base..(gap - 1)) =
                 IF base > gap - 1 THEN 0 ELSE gap - 1 - base + 1
        BY ONLY <4>1, FS_Interval
      <4> QED
        BY <1>1, <3>1, <4>1, <4>2
    <3>5. count <= Cardinality(base..(gap - 1))
      BY <3>3, <3>4, FS_Injection
    <3> QED
      BY <1>1, <1>2, <3>1, <3>4, <3>5
  <2> QED
    BY <2>1, <2>2
<1>5. ASSUME NEW k \in 1..base, mined[k].tx.nonce = base + count
      PROVE  FALSE
  BY <1>1, <1>2, <1>5
<1> HIDE DEF base, count
<1> QED
  BY <1>3, <1>4, <1>5 DEF broadcastTransactions, base

-----------------------------------------------------------------------------
(* One process that serves one request at a time.                          *)

\* The hypothesis of what follows: without it neither holds, for another process or
\* another request overtakes what assertNoOpenAction has read.
InTurn(r) == r \in Requests /\ Requests = {r} /\ Processes = {home[r]}

\* The actions of a copy of the store that may still be sent.
Open(copy, its) == {i \in DOMAIN copy : its[i].status \in OPEN_STATUSES /\ ~copy[i].broadcast}

\* No other transaction among those sent has the action's nonce.
Holds(i, its, sent) ==
  \A other \in sent : other.nonce = its[i].request.nonce => other = its[i].request

\* Each copy of the store has one open action at most, which holds its nonce, and the
\* process knows whatever is on disk.
StoresInTurn(copy, disk, its, sent) ==
  /\ \A i, j \in Open(copy, its) : i = j
  /\ \A i, j \in Open(disk, its) : i = j
  /\ DOMAIN disk \subseteq DOMAIN copy
  /\ \A i \in DOMAIN disk : disk[i].broadcast => copy[i].broadcast
  /\ \A i \in Open(copy, its) \cup Open(disk, its) : Holds(i, its, sent)

\* A proposal that has passed the check finds no open action, and its nonce unused;
\* what is about to be sent takes no open action's nonce.
RequestInTurn(q, copy, disk, its, sent) ==
  /\ q.at = "checking" => Open(copy, its) \subseteq q.rest
  /\ q.at \in {"simulated", "pinned", "proposed"} => Open(copy, its) = {}
  /\ q.at \in {"pinned", "proposed"} => \A tx \in sent : tx.nonce # q.tx.nonce
  /\ q.at = "proposed" => q.intent \notin DOMAIN copy
  /\ q.at = "signed" => \A i \in Open(copy, its) \cup Open(disk, its) :
                          its[i].request.nonce = q.tx.nonce => its[i].request = q.tx

TurnInv(r) ==
  /\ StoresInTurn(actions[home[r]], file, intents, broadcastTransactions)
  /\ RequestInTurn(requests[r], actions[home[r]], file, intents, broadcastTransactions)

LEMMA TurnInit == ASSUME NEW r, InTurn(r), Init PROVE TurnInv(r)
<1>1. /\ requests[r] = Idle /\ actions[home[r]] = << >> /\ file = << >>
  BY QuorumAssumption DEF Init, InTurn
<1> QED
  BY <1>1 DEF TurnInv, StoresInTurn, RequestInTurn, Open, Idle

\* Stores in turn stay so while Privy closes intents or records new ones, and nothing
\* is sent.
LEMMA StoresStay ==
  ASSUME NEW copy, NEW disk, NEW its, NEW sent, NEW its2, NEW sent2,
         StoresInTurn(copy, disk, its, sent),
         DOMAIN copy \subseteq DOMAIN its, sent2 \subseteq sent,
         \A i \in DOMAIN its :
           /\ its2[i].request = its[i].request
           /\ its2[i].status \in OPEN_STATUSES => its[i].status \in OPEN_STATUSES
  PROVE  /\ StoresInTurn(copy, disk, its2, sent2)
         /\ \A q : RequestInTurn(q, copy, disk, its, sent)
                     => RequestInTurn(q, copy, disk, its2, sent2)
<1>1. DOMAIN disk \subseteq DOMAIN its
  BY DEF StoresInTurn
<1>2. /\ Open(copy, its2) \subseteq Open(copy, its)
      /\ Open(disk, its2) \subseteq Open(disk, its)
  BY <1>1 DEF Open
<1>3. \A i \in Open(copy, its) \cup Open(disk, its) : its2[i].request = its[i].request
  BY <1>1 DEF Open
<1>4. StoresInTurn(copy, disk, its2, sent2)
  BY <1>2, <1>3 DEF StoresInTurn, Holds
<1>5. ASSUME NEW q, RequestInTurn(q, copy, disk, its, sent)
      PROVE  RequestInTurn(q, copy, disk, its2, sent2)
  BY <1>2, <1>3, <1>5 DEF RequestInTurn
<1> QED
  BY <1>4, <1>5

\* Nobody but the desk moves: what Privy, a node and the covenant do.
LEMMA EnvironmentTakesTurns ==
  ASSUME ServiceInv, NEW r, InTurn(r), TurnInv(r),
         UNCHANGED deskVars, broadcastTransactions' \subseteq broadcastTransactions,
         \A i \in DOMAIN intents :
           /\ intents'[i].request = intents[i].request
           /\ intents'[i].status \in OPEN_STATUSES => intents[i].status \in OPEN_STATUSES
  PROVE  TurnInv(r)'
<1> DEFINE copy == actions[home[r]]
           its == intents
           sent == broadcastTransactions
<1>1. DOMAIN copy \subseteq DOMAIN its
  BY DEF InTurn, ServiceInv, FaithfulCopy
<1>2. /\ requests' = requests /\ copy' = copy /\ file' = file
  BY DEF deskVars
<1>3. StoresInTurn(copy, file, its, sent) /\ RequestInTurn(requests[r], copy, file, its, sent)
  BY DEF TurnInv
<1>4. /\ StoresInTurn(copy, file, its', sent')
      /\ RequestInTurn(requests[r], copy, file, its', sent')
  <2> DEFINE its2 == its'
             sent2 == sent'
  <2>1. /\ sent2 \subseteq sent
        /\ \A i \in DOMAIN its :
             /\ its2[i].request = its[i].request
             /\ its2[i].status \in OPEN_STATUSES => its[i].status \in OPEN_STATUSES
    OBVIOUS
  <2> HIDE DEF copy, its, sent, its2, sent2
  <2>2. /\ StoresInTurn(copy, file, its2, sent2)
        /\ RequestInTurn(requests[r], copy, file, its2, sent2)
    BY <1>1, <1>3, <2>1, StoresStay
  <2> QED
    BY <2>2 DEF its2, sent2
<1> QED
  BY <1>2, <1>4 DEF TurnInv

LEMMA PrivyTakesTurns ==
  ASSUME ServiceInv, NEW r, InTurn(r), TurnInv(r), NEW i \in DOMAIN intents,
         \/ privyExecutes(i)
         \/ privyExpires(i)
         \/ \E p \in Processes : reject(p, i) \/ \E m \in Members : approve(p, i, m)
  PROVE  TurnInv(r)'
<1>1. UNCHANGED <<deskVars, chainVars>>
  BY DEF privyExecutes, privyExpires, reject, approve
<1>2. broadcastTransactions' = broadcastTransactions
  BY <1>1 DEF chainVars, broadcastTransactions
<1> DEFINE only == /\ intents[i].status \in OPEN_STATUSES
                   /\ \A j \in DOMAIN intents : j # i => intents'[j] = intents[j]
                   /\ intents'[i].request = intents[i].request
<1>3. only
  <2>1. intents[i] \in Intent
    BY DEF ServiceInv, ServiceTypes, TypeOK
  <2>2. CASE privyExecutes(i)
    <3>1. intents[i].status = "granted"
      BY <2>2 DEF privyExecutes
    <3>2. ASSUME NEW signed,
                 intents' = [intents EXCEPT ![i].status = "executed", ![i].signed = signed]
          PROVE  only
      BY ONLY <2>1, <3>1, <3>2, i \in DOMAIN intents DEF OPEN_STATUSES, Intent
    <3>3. ASSUME intents' = [intents EXCEPT ![i].status = "failed"]
          PROVE  only
      BY ONLY <2>1, <3>1, <3>3, i \in DOMAIN intents DEF OPEN_STATUSES, Intent
    <3> HIDE DEF only
    <3> QED
      BY <2>2, <3>2, <3>3 DEF privyExecutes, setStatus
  <2>3. CASE privyExpires(i)
    BY <2>1, <2>3 DEF privyExpires, setStatus, OPEN_STATUSES, Intent
  <2>4. ASSUME NEW p \in Processes, reject(p, i)
        PROVE  only
    BY <2>1, <2>4 DEF reject, setStatus, OPEN_STATUSES, Intent
  <2>5. ASSUME NEW p \in Processes, NEW m \in Members, approve(p, i, m)
        PROVE  only
    BY <2>1, <2>5 DEF approve, OPEN_STATUSES, Intent
  <2> QED
    BY <2>2, <2>3, <2>4, <2>5
<1> QED
  BY <1>1, <1>2, <1>3, EnvironmentTakesTurns

LEMMA MineTakesTurns ==
  ASSUME ServiceInv, NEW r, InTurn(r), TurnInv(r), mine
  PROVE  TurnInv(r)'
<1>1. PICK tx \in mempool : /\ mined' = Append(mined, [tx |-> tx, success |-> waivable])
                            /\ mempool' = mempool \ {tx}
  BY DEF mine
<1>2. /\ mined \in Seq([tx : Transaction, success : BOOLEAN])
      /\ tx \in Transaction /\ waivable \in BOOLEAN
  BY DEF ServiceInv, ServiceTypes, TypeOK
<1> DEFINE entry == [tx |-> tx, success |-> waivable]
<1>3. entry \in [tx : Transaction, success : BOOLEAN] /\ entry.tx = tx
  BY <1>2
<1> HIDE DEF entry
<1>4. \A k \in 1..Len(mined') : mined'[k] = entry \/ (k \in 1..Len(mined) /\ mined'[k] = mined[k])
  BY <1>1, <1>2, <1>3 DEF entry
<1>5. broadcastTransactions' \subseteq broadcastTransactions
  BY <1>1, <1>3, <1>4 DEF broadcastTransactions
<1> QED
  BY <1>5, EnvironmentTakesTurns DEF mine

\* What a request's state claims of the stores, when only the request moves.
LEMMA RequestTakesTurns ==
  ASSUME ServiceInv, NEW r, InTurn(r), TurnInv(r), NEW q, moveTo(r, q),
         UNCHANGED <<actions, file, intents>>, UNCHANGED broadcastTransactions,
         RequestInTurn(q, actions[home[r]], file, intents, broadcastTransactions)
  PROVE  TurnInv(r)'
<1>1. requests'[r] = q
  BY DEF moveTo, InTurn, ServiceInv, ServiceTypes
<1> QED
  BY <1>1 DEF TurnInv

LEMMA IdleTakesNoTurn == \A copy, disk, its, sent : RequestInTurn(Idle, copy, disk, its, sent)
BY DEF Idle, RequestInTurn

\* A step of a request before it proposes, or after it ends.
LEMMA PlanningTakesTurns ==
  ASSUME ServiceInv, NoncesInOrder, NEW r, InTurn(r), TurnInv(r),
         \/ \E call \in Calls : proposeWaiver(r, call)
         \/ takeStock(r) \/ assertNotOpen(r) \/ simulate(r) \/ pin(r)
         \/ timeout(r) \/ connectionBreaks(r)
  PROVE  TurnInv(r)'
<1> DEFINE copy == actions[home[r]]
           inTurn(q) == RequestInTurn(q, copy, file, intents, broadcastTransactions)
<1>1. /\ UNCHANGED <<actions, file, intents>>
      /\ UNCHANGED broadcastTransactions
  BY DEF proposeWaiver, takeStock, assertNotOpen, simulate, pin, timeout, connectionBreaks,
         chainVars, broadcastTransactions
<1>2. /\ r \in Requests /\ requests[r] \in RequestState
      /\ inTurn(requests[r])
  BY DEF InTurn, ServiceInv, ServiceTypes, TurnInv
<1>3. ASSUME NEW q, moveTo(r, q), inTurn(q)
      PROVE  TurnInv(r)'
  BY <1>1, <1>3, RequestTakesTurns
<1>4. moveTo(r, Idle) => TurnInv(r)'
  BY <1>3, IdleTakesNoTurn
<1>5. ASSUME NEW call \in Calls, proposeWaiver(r, call)
      PROVE  TurnInv(r)'
  <2>1. inTurn([at |-> "ready", call |-> call])
    BY DEF RequestInTurn
  <2> QED
    BY <1>3, <1>5, <2>1 DEF proposeWaiver
<1>6. CASE takeStock(r)
  <2> DEFINE q == [at   |-> "checking", call |-> requests[r].call,
                   rest |-> {i \in DOMAIN copy : ~copy[i].broadcast}]
  <2>1. inTurn(q)
    BY DEF RequestInTurn, Open
  <2>2. moveTo(r, q)
    BY <1>6 DEF takeStock, stored
  <2> HIDE DEF q, inTurn
  <2> QED
    BY <1>3, <2>1, <2>2
<1>7. CASE assertNotOpen(r)
  <2>1. PICK i \in requests[r].rest :
          IF intents[i].status \in OPEN_STATUSES
          THEN moveTo(r, Idle)
          ELSE moveTo(r, [requests[r] EXCEPT !.rest = @ \ {i}])
    BY <1>7 DEF assertNotOpen
  <2>2. CASE intents[i].status \notin OPEN_STATUSES
    <3> DEFINE q == [requests[r] EXCEPT !.rest = @ \ {i}]
    <3>1. q.at = "checking" /\ q.rest = requests[r].rest \ {i}
      BY <1>2, <1>7, RequestFields DEF assertNotOpen
    <3>2. moveTo(r, q)
      BY <2>1, <2>2
    <3> HIDE DEF q
    <3>3. Open(copy, intents) \subseteq q.rest
      <4>1. Open(copy, intents) \subseteq requests[r].rest
        BY <1>2, <1>7 DEF assertNotOpen, RequestInTurn
      <4>2. i \notin Open(copy, intents)
        BY <2>2 DEF Open
      <4> QED
        BY <3>1, <4>1, <4>2
    <3>4. inTurn(q)
      BY <3>1, <3>3 DEF RequestInTurn
    <3> HIDE DEF inTurn
    <3> QED
      BY <1>3, <3>2, <3>4
  <2> QED
    BY <1>4, <2>1, <2>2
<1>8. CASE simulate(r)
  <2> DEFINE q == [at |-> "simulated", call |-> requests[r].call]
  <2>1. Open(copy, intents) = {}
    BY <1>2, <1>8 DEF simulate, RequestInTurn
  <2>2. inTurn(q)
    BY <2>1 DEF RequestInTurn
  <2>3. moveTo(r, q) \/ moveTo(r, Idle)
    BY <1>8 DEF simulate
  <2> HIDE DEF q, inTurn
  <2> QED
    BY <1>3, <1>4, <2>2, <2>3
<1>9. CASE pin(r)
  <2> DEFINE q == [at |-> "pinned", tx |-> [call |-> requests[r].call, nonce |-> pendingNonce]]
  <2>1. Open(copy, intents) = {}
    BY <1>2, <1>9 DEF pin, RequestInTurn
  <2>2. \A tx \in broadcastTransactions : tx.nonce # q.tx.nonce
    BY PendingNonceIsFree
  <2>3. inTurn(q)
    BY <2>1, <2>2 DEF RequestInTurn
  <2>4. moveTo(r, q) \/ moveTo(r, Idle)
    BY <1>9 DEF pin
  <2> HIDE DEF q, inTurn
  <2> QED
    BY <1>3, <1>4, <2>3, <2>4
<1>10. CASE timeout(r) \/ connectionBreaks(r)
  BY <1>4, <1>10 DEF timeout, connectionBreaks
<1> QED
  BY <1>5, <1>6, <1>7, <1>8, <1>9, <1>10

\* Privy takes the proposal: an intent that no copy of the store knows.
LEMMA ProposalTakesTurns ==
  ASSUME ServiceInv, NEW r, InTurn(r), TurnInv(r), proposeRpcIntent(r)
  PROVE  TurnInv(r)'
<1> DEFINE copy == actions[home[r]]
           its == intents
           sent == broadcastTransactions
<1>1. PICK i \in Intents \ DOMAIN intents :
        /\ \E entry : intents' = Put(intents, i, entry)
        /\ moveTo(r, [at |-> "proposed", tx |-> requests[r].tx, intent |-> i])
  BY DEF proposeRpcIntent
<1> DEFINE q == [at |-> "proposed", tx |-> requests[r].tx, intent |-> i]
<1>2. /\ requests[r].at = "pinned"
      /\ UNCHANGED <<actions, file, mempool, mined>>
      /\ requests'[r] = q
  BY <1>1 DEF proposeRpcIntent, chainVars, moveTo, InTurn, ServiceInv, ServiceTypes
<1>3. DOMAIN copy \subseteq DOMAIN its /\ i \notin DOMAIN copy
  BY DEF InTurn, ServiceInv, FaithfulCopy
<1>4. sent' = sent
  BY <1>2 DEF broadcastTransactions
<1>5. \A j \in DOMAIN its : its'[j] = its[j]
  BY <1>1 DEF Put
<1>6. StoresInTurn(copy, file, its, sent) /\ RequestInTurn(requests[r], copy, file, its, sent)
  BY DEF TurnInv
<1>7. StoresInTurn(copy, file, its', sent)
  <2> DEFINE its2 == its'
  <2>1. \A j \in DOMAIN its : its2[j] = its[j]
    BY <1>5
  <2> HIDE DEF copy, its, sent, its2
  <2>2. StoresInTurn(copy, file, its2, sent)
    BY <1>3, <1>6, <2>1, StoresStay
  <2> QED
    BY <2>2 DEF its2
<1>8. Open(copy, its') = {}
  <2>1. Open(copy, its) = {}
    BY <1>2, <1>6 DEF RequestInTurn
  <2> QED
    BY <1>3, <1>5, <2>1 DEF Open
<1>9. RequestInTurn(q, copy, file, its', sent)
  BY <1>2, <1>3, <1>6, <1>8 DEF RequestInTurn
<1> HIDE DEF q
<1> QED
  BY <1>2, <1>4, <1>7, <1>9 DEF TurnInv

\* A process saves an action and ends the request, on disk or in memory only.
LEMMA SaveTakesTurns ==
  ASSUME ServiceInv, NEW r, InTurn(r), moveTo(r, Idle), UNCHANGED <<intents, chainVars>>,
         NEW i, NEW entry, save(home[r], i, entry),
         StoresInTurn(Put(actions[home[r]], i, entry), file, intents, broadcastTransactions)
  PROVE  TurnInv(r)'
<1> DEFINE copy == Put(actions[home[r]], i, entry)
<1>1. /\ requests'[r] = Idle
      /\ UNCHANGED <<intents, mempool, mined>>
      /\ DOMAIN actions = Processes /\ home[r] \in Processes
  BY DEF chainVars, moveTo, InTurn, ServiceInv, ServiceTypes, TypeOK
<1>2. actions'[home[r]] = copy /\ (file' = copy \/ file' = file)
  BY <1>1 DEF save
<1>3. broadcastTransactions' = broadcastTransactions
  BY <1>1 DEF broadcastTransactions
<1>4. StoresInTurn(copy, copy, intents, broadcastTransactions)
  BY DEF StoresInTurn
<1>5. \A disk : RequestInTurn(Idle, copy, disk, intents, broadcastTransactions)
  BY IdleTakesNoTurn
<1> HIDE DEF copy
<1> QED
  BY <1>1, <1>2, <1>3, <1>4, <1>5 DEF TurnInv, copy

\* A new action is the only open one, and its nonce unused.
LEMMA SaveProposalTakesTurns ==
  ASSUME ServiceInv, NEW r, InTurn(r), TurnInv(r), saveProposal(r)
  PROVE  TurnInv(r)'
<1> DEFINE copy == actions[home[r]]
           i == requests[r].intent
           entry == [pinned |-> requests[r].tx, broadcast |-> FALSE]
           after == Put(copy, i, entry)
<1>1. /\ requests[r].at = "proposed"
      /\ moveTo(r, Idle)
      /\ UNCHANGED <<intents, chainVars>>
      /\ broadcastTransactions' = broadcastTransactions
  BY DEF saveProposal, chainVars, broadcastTransactions
<1>2. /\ StoresInTurn(copy, file, intents, broadcastTransactions)
      /\ Open(copy, intents) = {}
      /\ \A tx \in broadcastTransactions : tx.nonce # requests[r].tx.nonce
      /\ i \notin DOMAIN copy
  BY <1>1 DEF TurnInv, RequestInTurn
<1>3. CASE intents[i].request = requests[r].tx /\ save(home[r], i, entry)
  <2>1. /\ DOMAIN after = DOMAIN copy \cup {i}
        /\ \A j \in DOMAIN copy : after[j] = copy[j]
    BY <1>2 DEF Put
  <2>2. Open(after, intents) \subseteq {i}
    BY <1>2, <2>1 DEF Open
  <2>3. Holds(i, intents, broadcastTransactions)
    BY <1>2, <1>3 DEF Holds
  <2> HIDE DEF after
  <2>4. StoresInTurn(after, file, intents, broadcastTransactions)
    BY <1>2, <2>1, <2>2, <2>3 DEF StoresInTurn
  <2> QED
    BY <1>1, <1>3, <2>4, SaveTakesTurns DEF after
<1>4. CASE UNCHANGED <<actions, file>>
  BY <1>1, <1>4, IdleTakesNoTurn, RequestTakesTurns
<1> QED
  BY <1>3, <1>4 DEF saveProposal, assertIntentMatches

\* A recorded broadcast closes an action.
LEMMA ConfirmTakesTurns ==
  ASSUME ServiceInv, NEW r, InTurn(r), TurnInv(r), confirm(r)
  PROVE  TurnInv(r)'
<1> DEFINE copy == actions[home[r]]
           i == requests[r].intent
           entry == [copy[i] EXCEPT !.broadcast = TRUE]
           after == Put(copy, i, entry)
<1>1. /\ requests[r].at = "sent"
      /\ moveTo(r, Idle)
      /\ UNCHANGED <<intents, chainVars>>
      /\ broadcastTransactions' = broadcastTransactions
  BY DEF confirm, chainVars, broadcastTransactions
<1>2. i \in DOMAIN copy
  BY <1>1 DEF InTurn, ServiceInv, FaithfulRequest
<1>3. copy[i] \in Action
  BY <1>2, QuorumAssumption DEF InTurn, ServiceInv, ServiceTypes, TypeOK, isStore
<1>4. StoresInTurn(copy, file, intents, broadcastTransactions)
  BY DEF TurnInv
<1>5. CASE recordBroadcast(home[r], i)
  <2>1. entry.broadcast
    BY <1>3 DEF Action
  <2> HIDE DEF entry
  <2>2. /\ DOMAIN after = DOMAIN copy
        /\ \A j \in DOMAIN copy : after[j].broadcast \/ after[j] = copy[j]
        /\ \A j \in DOMAIN copy : copy[j].broadcast => after[j].broadcast
    BY <1>2, <2>1 DEF Put
  <2> HIDE DEF after
  <2>3. Open(after, intents) \subseteq Open(copy, intents)
    BY <2>2 DEF Open
  <2>4. StoresInTurn(after, file, intents, broadcastTransactions)
    BY <1>4, <2>2, <2>3 DEF StoresInTurn
  <2>5. save(home[r], i, entry)
    BY <1>5 DEF recordBroadcast, entry
  <2> QED
    BY <1>1, <2>4, <2>5, SaveTakesTurns DEF after
<1>6. CASE UNCHANGED <<actions, file>>
  BY <1>1, <1>6, IdleTakesNoTurn, RequestTakesTurns
<1> QED
  BY <1>5, <1>6 DEF confirm

\* The process comes back with what is on disk, of which one action at most is open.
LEMMA RestartTakesTurns ==
  ASSUME ServiceInv, NEW r, InTurn(r), TurnInv(r),
         NEW p \in Processes, openDesk(p) \/ crash(p)
  PROVE  TurnInv(r)'
<1>1. p = home[r] /\ r \in Requests /\ DOMAIN actions = Processes
  BY DEF InTurn, ServiceInv, ServiceTypes, TypeOK
<1>2. /\ actions'[home[r]] = file
      /\ requests'[r] = Idle
      /\ UNCHANGED <<file, intents, mempool, mined>>
  BY <1>1 DEF openDesk, crash, chainVars
<1>3. broadcastTransactions' = broadcastTransactions
  BY <1>2 DEF broadcastTransactions
<1>4. StoresInTurn(file, file, intents, broadcastTransactions)
  BY DEF TurnInv, StoresInTurn
<1>5. RequestInTurn(Idle, file, file, intents, broadcastTransactions)
  BY IdleTakesNoTurn
<1> QED
  BY <1>2, <1>3, <1>4, <1>5 DEF TurnInv

\* What is about to be sent is the open action itself, or nothing that is open is as
\* far: what another copy still shows as open has its nonce on chain.
LEMMA ExecuteTakesTurns ==
  ASSUME ServiceInv, NEW r, InTurn(r), TurnInv(r), NEW i \in DOMAIN intents, execute(r, i)
  PROVE  TurnInv(r)'
<1> DEFINE copy == actions[home[r]]
           q == [at |-> "signed", tx |-> copy[i].pinned, intent |-> i]
<1>1. /\ i \in DOMAIN copy /\ ~copy[i].broadcast
      /\ intents[i].status = "executed"
      /\ intents[i].request = copy[i].pinned
      /\ moveTo(r, q)
      /\ UNCHANGED <<actions, file, intents, mempool, mined>>
  BY DEF execute, stored, assertIntentMatches, chainVars
<1>2. broadcastTransactions' = broadcastTransactions
  BY <1>1 DEF broadcastTransactions
<1>3. i \in Open(copy, intents)
  BY <1>1 DEF Open, OPEN_STATUSES
<1>4. StoresInTurn(copy, file, intents, broadcastTransactions)
  BY DEF TurnInv
<1>5. ASSUME NEW j \in Open(copy, intents) \cup Open(file, intents),
             intents[j].request.nonce = intents[i].request.nonce
      PROVE  intents[j].request = intents[i].request
  <2>1. CASE j \in Open(copy, intents)
    BY <1>3, <1>4, <2>1 DEF StoresInTurn
  <2>2. CASE j \notin Open(copy, intents)
    <3>1. j \in DOMAIN copy /\ copy[j].broadcast
      BY <1>4, <1>5, <2>2 DEF StoresInTurn, Open
    <3>2. SucceededIn(mined, intents[j].request)
      BY <3>1 DEF InTurn, ServiceInv, FaithfulCopy
    <3>3. intents[j].request \in broadcastTransactions
      BY <3>2 DEF SucceededIn, broadcastTransactions
    <3>4. Holds(i, intents, broadcastTransactions)
      BY <1>3, <1>4 DEF StoresInTurn
    <3> QED
      BY <1>5, <3>3, <3>4 DEF Holds
  <2> QED
    BY <2>1, <2>2
<1>6. RequestInTurn(q, copy, file, intents, broadcastTransactions)
  BY <1>1, <1>5 DEF RequestInTurn
<1> HIDE DEF q
<1> QED
  BY <1>1, <1>2, <1>6, RequestTakesTurns

\* What is sent takes no other open action's nonce.
LEMMA BroadcastTakesTurns ==
  ASSUME ServiceInv, NEW r, InTurn(r), TurnInv(r), broadcast(r)
  PROVE  TurnInv(r)'
<1> DEFINE copy == actions[home[r]]
           tx == requests[r].tx
           sent == broadcastTransactions
<1>1. /\ requests[r].at = "signed"
      /\ mempool' \subseteq mempool \cup {tx}
      /\ moveTo(r, [requests[r] EXCEPT !.at = "sent"]) \/ moveTo(r, Idle)
      /\ UNCHANGED <<actions, file, intents, mined>>
  BY DEF broadcast
<1>2. /\ requests[r] \in RequestState
      /\ DOMAIN requests = Requests /\ r \in Requests
  BY DEF InTurn, ServiceInv, ServiceTypes
<1>3. requests'[r].at \notin {"checking", "simulated", "pinned", "proposed", "signed"}
  <2> DEFINE q == [requests[r] EXCEPT !.at = "sent"]
  <2>1. q.at = "sent" /\ Idle.at = "idle"
    BY <1>1, <1>2, RequestFields DEF Idle
  <2>2. moveTo(r, q) \/ moveTo(r, Idle)
    BY <1>1
  <2> HIDE DEF q
  <2>3. requests'[r] = q \/ requests'[r] = Idle
    BY <1>2, <2>2 DEF moveTo
  <2> QED
    BY <2>1, <2>3
<1>4. sent' \subseteq sent \cup {tx}
  BY <1>1 DEF broadcastTransactions
<1>5. /\ StoresInTurn(copy, file, intents, sent)
      /\ \A i \in Open(copy, intents) \cup Open(file, intents) :
           intents[i].request.nonce = tx.nonce => intents[i].request = tx
  BY <1>1 DEF TurnInv, RequestInTurn
<1>6. StoresInTurn(copy, file, intents, sent')
  BY <1>4, <1>5 DEF StoresInTurn, Holds
<1>7. RequestInTurn(requests'[r], copy, file, intents, sent')
  BY <1>3 DEF RequestInTurn
<1> QED
  BY <1>1, <1>6, <1>7 DEF TurnInv

LEMMA TurnStep ==
  ASSUME NEW r, InTurn(r), ServiceInv, NoncesInOrder, TurnInv(r), [Next]_vars
  PROVE  TurnInv(r)'
<1>1. CASE mine
  BY <1>1, MineTakesTurns
<1>2. CASE covenantMoves \/ UNCHANGED vars
  <2>1. UNCHANGED <<deskVars, intents, mempool, mined>>
    BY <1>2 DEF covenantMoves, vars, chainVars
  <2>2. broadcastTransactions' = broadcastTransactions
    BY <2>1 DEF broadcastTransactions
  <2> QED
    BY <2>1, <2>2, EnvironmentTakesTurns
<1>3. ASSUME NEW i \in DOMAIN intents, privyExecutes(i) \/ privyExpires(i)
      PROVE  TurnInv(r)'
  BY <1>3, PrivyTakesTurns
<1>4. ASSUME NEW p \in Processes, openDesk(p) \/ crash(p)
      PROVE  TurnInv(r)'
  BY <1>4, RestartTakesTurns
<1>5. ASSUME NEW p \in Processes, decide(p)
      PROVE  TurnInv(r)'
  BY <1>5, PrivyTakesTurns DEF decide
<1>6. ASSUME \/ \E call \in Calls : proposeWaiver(r, call)
             \/ takeStock(r) \/ assertNotOpen(r) \/ simulate(r) \/ pin(r)
             \/ timeout(r) \/ connectionBreaks(r)
      PROVE  TurnInv(r)'
  BY <1>6, PlanningTakesTurns
<1>7. ASSUME proposeRpcIntent(r) \/ saveProposal(r) \/ broadcast(r) \/ confirm(r)
      PROVE  TurnInv(r)'
  BY <1>7, ProposalTakesTurns, SaveProposalTakesTurns, BroadcastTakesTurns, ConfirmTakesTurns
<1>8. ASSUME NEW i \in DOMAIN intents, execute(r, i)
      PROVE  TurnInv(r)'
  BY <1>8, ExecuteTakesTurns
<1>9. \A s \in Requests : s = r
  BY DEF InTurn
<1> QED
  BY <1>1, <1>2, <1>3, <1>4, <1>5, <1>6, <1>7, <1>8, <1>9 DEF Next, serve, route

LEMMA TurnInvariant == ASSUME NEW CONSTANT r, InTurn(r) PROVE Spec => []TurnInv(r)
<1>1. Init => TurnInv(r) /\ NoncesInOrder
  BY TurnInit, NoncesInit
<1>2. ServiceInv /\ (TurnInv(r) /\ NoncesInOrder) /\ [Next]_vars => (TurnInv(r) /\ NoncesInOrder)'
  BY TurnStep, NoncesStep
<1> QED
  BY <1>1, <1>2, ServiceInvariant, PTL DEF Spec

\* What is in flight is open in the one process's copy of the store.
LEMMA InFlightIsOpen ==
  ASSUME NEW r, InTurn(r)
  PROVE  inFlight \subseteq Open(actions[home[r]], intents)
BY DEF InTurn, inFlight, recorded, Open

\* A desk that one process runs, and that serves one request at a time, never has two
\* actions in flight: assertNoOpenAction asks Privy about every stored one before the
\* next is proposed, and a process that restarts knows all that it had saved.
THEOREM OneInFlightInTurn ==
  ASSUME NEW CONSTANT r, InTurn(r) PROVE Spec => []OneActionInFlight
<1>1. TurnInv(r) => OneActionInFlight
  BY InFlightIsOpen DEF TurnInv, StoresInTurn, OneActionInFlight
<1> QED
  BY <1>1, TurnInvariant, PTL

\* ... and the nonce that the action in flight has pinned is not taken by another
\* transaction of the wallet, whatever the desk sends again after a restart.
THEOREM NonceHeldInTurn ==
  ASSUME NEW CONSTANT r, InTurn(r) PROVE Spec => []NonceStillOurs
<1>1. TurnInv(r) => NonceStillOurs
  BY InFlightIsOpen DEF TurnInv, StoresInTurn, Holds, NonceStillOurs
<1> QED
  BY <1>1, TurnInvariant, PTL

-----------------------------------------------------------------------------
(* One process, with any number of requests under way.                     *)

\* The one process knows every action that is on disk.
KnowsFile(p) == DOMAIN file \subseteq DOMAIN actions[p]

\* A step keeps what the process knows and what the file holds.
LEMMA FileGrows ==
  ASSUME ServiceInv, NEW p, Processes = {p}, KnowsFile(p), [Next]_vars
  PROVE  KnowsFile(p)' /\ DOMAIN file \subseteq DOMAIN file'
<1>1. DOMAIN actions = Processes /\ \A r \in Requests : home[r] = p
  BY QuorumAssumption DEF ServiceInv, ServiceTypes, TypeOK
<1>2. CASE UNCHANGED <<actions, file>>
  BY <1>2 DEF KnowsFile
<1>3. ASSUME NEW r \in Requests, NEW i, NEW entry, save(home[r], i, entry)
      PROVE  KnowsFile(p)' /\ DOMAIN file \subseteq DOMAIN file'
  <2> DEFINE copy == Put(actions[p], i, entry)
  <2>1. DOMAIN actions[p] \subseteq DOMAIN copy
    BY DEF Put
  <2> HIDE DEF copy
  <2>2. actions'[p] = copy /\ (file' = copy \/ file' = file)
    BY <1>1, <1>3 DEF save, copy
  <2> QED
    BY <2>1, <2>2 DEF KnowsFile
<1>4. ASSUME NEW r \in Requests, saveProposal(r) \/ confirm(r)
      PROVE  KnowsFile(p)' /\ DOMAIN file \subseteq DOMAIN file'
  BY <1>2, <1>3, <1>4 DEF saveProposal, confirm, recordBroadcast
<1>5. ASSUME NEW b \in Processes, openDesk(b) \/ crash(b)
      PROVE  KnowsFile(p)' /\ DOMAIN file \subseteq DOMAIN file'
  BY <1>1, <1>5 DEF openDesk, crash, KnowsFile
<1>6. ASSUME NEW r \in Requests, route(r) \/ timeout(r) \/ connectionBreaks(r)
      PROVE  UNCHANGED <<actions, file>>
  BY <1>6 DEF route, proposeWaiver, execute, timeout, connectionBreaks
<1>7. ASSUME NEW r \in Requests, serve(r)
      PROVE  UNCHANGED <<actions, file>> \/ saveProposal(r) \/ confirm(r)
  BY <1>7 DEF serve, takeStock, assertNotOpen, simulate, pin, proposeRpcIntent, broadcast
<1>8. ASSUME NEW i \in DOMAIN intents, privyExecutes(i) \/ privyExpires(i)
      PROVE  UNCHANGED <<actions, file>>
  BY <1>8 DEF privyExecutes, privyExpires, deskVars
<1>9. ASSUME NEW b \in Processes, decide(b)
      PROVE  UNCHANGED <<actions, file>>
  BY <1>9 DEF decide, reject, approve, deskVars
<1>10. CASE mine \/ covenantMoves \/ UNCHANGED vars
  BY <1>2, <1>10 DEF mine, covenantMoves, vars, deskVars
<1> QED
  BY <1>2, <1>4, <1>5, <1>6, <1>7, <1>8, <1>9, <1>10 DEF Next

\* The file of a desk that one process runs loses no action it has held, through failed
\* writes and crashes and with any number of requests under way: the process loads the
\* whole file first, and writes back the whole of what it has.
THEOREM FileOutlivesRestarts ==
  ASSUME NEW CONSTANT p, Processes = {p} PROVE Spec => ProposalsOutliveRestart
<1>1. Init => KnowsFile(p)
  BY DEF Init, KnowsFile
<1>2. ServiceInv /\ KnowsFile(p) /\ [Next]_vars
        => KnowsFile(p)' /\ [DOMAIN file \subseteq DOMAIN file']_vars
  BY FileGrows
<1> QED
  BY <1>1, <1>2, ServiceInvariant, PTL DEF Spec, ProposalsOutliveRestart
=============================================================================
