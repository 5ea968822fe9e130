---------------------------- MODULE ScenariosProofs ----------------------------
(***************************************************************************)
(* Theorems of the waiver scripts, for any number of runs, kills, updates  *)
(* and rejections: no step draws twice, one waiver is in flight, the       *)
(* evidence misses one transaction at most, a waiver that is called        *)
(* verified was created meanwhile, and a run that is called complete has   *)
(* the whole sequence.                                                     *)
(***************************************************************************)
EXTENDS Scenarios, FiniteSetTheorems, SequenceTheorems, TLAPS

-----------------------------------------------------------------------------
(* Sequences of whatever elements, and sets that lose elements.            *)

IsSeq(t) == \E S : t \in Seq(S)

Single(A) == \A a, b \in A : a = b

\* A has no element where B has none, and one at most where B has.
Fewer(A, B) == (Single(B) => Single(A)) /\ (B = {} => A = {})

LEMMA Shifted ==
  ASSUME NEW A, NEW B, NEW d \in Int, A \subseteq Int, \A k \in A : k + d \in B
  PROVE  Fewer(A, B)
BY DEF Fewer, Single

LEMMA SingleCardinality == ASSUME NEW A, Single(A) PROVE Cardinality(A) <= 1
<1>1. A = {} \/ \E a : A = {a}
  BY DEF Single
<1>2. CASE A = {}
  BY <1>2, FS_EmptySet
<1>3. ASSUME NEW a, A = {a} PROVE Cardinality(A) <= 1
  <2> Cardinality({a}) = 1
    BY FS_Singleton
  <2> QED  BY <1>3
<1> QED  BY <1>1, <1>2, <1>3

LEMMA SeqDomain == ASSUME NEW t, IsSeq(t) PROVE Len(t) \in Nat /\ DOMAIN t = 1..Len(t)
BY DEF IsSeq

LEMMA Joined ==
  ASSUME NEW t, NEW u, IsSeq(t), IsSeq(u)
  PROVE  /\ IsSeq(t \o u)
         /\ Len(t \o u) = Len(t) + Len(u)
         /\ \A k \in 1..Len(t) : (t \o u)[k] = t[k]
         /\ \A k \in DOMAIN (t \o u) : k > Len(t) => k - Len(t) \in DOMAIN u /\ (t \o u)[k] = u[k - Len(t)]
<1>1. PICK S : t \in Seq(S)
  BY DEF IsSeq
<1>2. PICK T : u \in Seq(T)
  BY DEF IsSeq
<1>3. t \in Seq(S \cup T) /\ u \in Seq(S \cup T)
  BY <1>1, <1>2
<1> QED  BY <1>3, ConcatProperties DEF IsSeq

LEMMA Appended ==
  ASSUME NEW t, NEW x, IsSeq(t)
  PROVE  /\ IsSeq(Append(t, x))
         /\ DOMAIN Append(t, x) = DOMAIN t \cup {Len(t) + 1}
         /\ Len(t) + 1 \notin DOMAIN t
         /\ \A k \in DOMAIN t : Append(t, x)[k] = t[k]
         /\ Append(t, x)[Len(t) + 1] = x
<1>1. PICK S : t \in Seq(S)
  BY DEF IsSeq
<1>2. t \in Seq(S \cup {x})
  BY <1>1
<1>3. Append(t, x) \in Seq(S \cup {x})
  BY <1>2
<1> QED  BY <1>2, <1>3 DEF IsSeq

LEMMA Shortened ==
  ASSUME NEW t, IsSeq(t), t # << >>
  PROVE  /\ IsSeq(Tail(t)) /\ 1 \in DOMAIN t /\ Head(t) = t[1]
         /\ \A k \in DOMAIN Tail(t) :
              k \in Nat /\ k + 1 \in DOMAIN t /\ k + 1 # 1 /\ Tail(t)[k] = t[k + 1]
<1>1. PICK S : t \in Seq(S)
  BY DEF IsSeq
<1>2. Tail(t) \in Seq(S)
  BY <1>1
<1> QED  BY <1>1, <1>2 DEF IsSeq

-----------------------------------------------------------------------------
(* One waiver in flight.                                                   *)

Intent == [status : {"pending", "executed", "failed", "rejected"}, approvals : Nat,
           broadcast : BOOLEAN]

\* Only the last proposal can be open.
WaiverInv == intents \in Seq(Intent) /\ openIntents \subseteq {Len(intents)}

\* What is approved, rejected or broadcast was open before, or is not open now.
LEMMA IntentMoves ==
  ASSUME WaiverInv, NEW i \in DOMAIN intents, NEW intent \in Intent,
         intents' = [intents EXCEPT ![i] = intent],
         \/ intents[i].status = "pending" /\ intent.broadcast = intents[i].broadcast
         \/ intent.status \in {"failed", "rejected"}
         \/ intent.broadcast
  PROVE  WaiverInv'
<1>1. /\ intents' \in Seq(Intent) /\ DOMAIN intents' = DOMAIN intents /\ intents'[i] = intent
      /\ Len(intents') = Len(intents)
      /\ \A k \in DOMAIN intents : k # i => intents'[k] = intents[k]
  BY DEF WaiverInv
<1>2. i \in openIntents' => i \in openIntents
  BY <1>1 DEF openIntents
<1>3. openIntents' \subseteq openIntents
  BY <1>1, <1>2 DEF openIntents
<1> QED  BY <1>1, <1>3 DEF WaiverInv

LEMMA ProposedAlone ==
  ASSUME WaiverInv, openIntents = {}, intents' = Append(intents, newIntent)
  PROVE  WaiverInv'
<1>1. newIntent \in Intent
  BY DEF newIntent, Intent
<1>2. /\ intents' \in Seq(Intent) /\ DOMAIN intents' = DOMAIN intents \cup {Len(intents) + 1}
      /\ Len(intents') = Len(intents) + 1
      /\ \A k \in DOMAIN intents : intents'[k] = intents[k]
  BY <1>1 DEF WaiverInv
<1> QED  BY <1>2 DEF WaiverInv, openIntents

LEMMA WaiverInvariant == Spec => []WaiverInv
<1>1. Init => WaiverInv
  BY DEF Init, WaiverInv, openIntents
<1>2. ASSUME WaiverInv, [Next]_vars PROVE WaiverInv'
  <2>1. CASE UNCHANGED intents
    BY <1>2, <2>1 DEF WaiverInv, openIntents
  <2>2. CASE reject
    <3>1. PICK i \in openIntents : intents' = [intents EXCEPT ![i].status = "rejected"]
      BY <2>2 DEF reject
    <3>2. i \in DOMAIN intents /\ intents[i] \in Intent
      BY <1>2, <3>1 DEF WaiverInv, openIntents
    <3> DEFINE intent == [intents[i] EXCEPT !.status = "rejected"]
    <3>3. intent \in Intent /\ intent.status = "rejected" /\ intents' = [intents EXCEPT ![i] = intent]
      BY <3>1, <3>2 DEF Intent
    <3> HIDE DEF intent
    <3> QED  BY <1>2, <3>2, <3>3, IntentMoves
  <2>3. CASE waive
    BY <1>2, <2>1, <2>3, ProposedAlone DEF waive
  <2>4. CASE proposeWaiver
    BY <1>2, <2>1, <2>4, ProposedAlone DEF proposeWaiver
  <2>5. CASE approve
    <3> DEFINE i == main.intent
    <3> SUFFICES ASSUME intents' # intents PROVE WaiverInv'
      BY <2>1
    <3>1. /\ intents[i].status = "pending"
          /\ \E status \in {"pending", "executed", "failed"} :
               intents' = [intents EXCEPT ![i].approvals = @ + 1, ![i].status = status]
      BY <2>5 DEF approve
    <3>2. PICK status \in {"pending", "executed", "failed"} :
            intents' = [intents EXCEPT ![i].approvals = @ + 1, ![i].status = status]
      BY <3>1
    <3>3. i \in DOMAIN intents /\ intents[i] \in Intent
      BY <1>2, <3>2 DEF WaiverInv
    <3> DEFINE intent == [intents[i] EXCEPT !.approvals = @ + 1, !.status = status]
    <3>4. intent \in Intent /\ intent.broadcast = intents[i].broadcast
      <4> DEFINE approved == [intents[i] EXCEPT !.approvals = @ + 1]
      <4>1. approved \in Intent /\ approved.broadcast = intents[i].broadcast
        BY <3>3 DEF Intent
      <4>2. intent = [approved EXCEPT !.status = status]
        BY <3>3 DEF Intent
      <4> HIDE DEF approved, intent
      <4> QED  BY <4>1, <4>2 DEF Intent
    <3>5. intents' = [intents EXCEPT ![i] = intent]
      <4>1. intents' = [[intents EXCEPT ![i].approvals = @ + 1] EXCEPT ![i].status = status]
        BY <3>2
      <4> QED  BY <3>3, <4>1
    <3> HIDE DEF intent, i
    <3> QED  BY <1>2, <3>1, <3>3, <3>4, <3>5, IntentMoves
  <2>6. CASE confirm
    <3> DEFINE i == main.intent
    <3> SUFFICES ASSUME intents' # intents PROVE WaiverInv'
      BY <2>1
    <3>1. intents' = [intents EXCEPT ![i].broadcast = TRUE]
      BY <2>6 DEF confirm
    <3>2. i \in DOMAIN intents /\ intents[i] \in Intent
      BY <1>2, <3>1 DEF WaiverInv
    <3> DEFINE intent == [intents[i] EXCEPT !.broadcast = TRUE]
    <3>3. intent \in Intent /\ intent.broadcast /\ intents' = [intents EXCEPT ![i] = intent]
      BY <3>1, <3>2 DEF Intent
    <3> HIDE DEF intent, i
    <3> QED  BY <1>2, <3>2, <3>3, IntentMoves
  <2>7. CASE mine \/ waiverLapses
    BY <2>1, <2>7 DEF mine, waiverLapses
  <2>8. CASE \/ startRunWaiver
             \/ \E w \in 0..Len(intents), resuming, refreshExposure \in BOOLEAN :
                  startRun(w, resuming, refreshExposure)
    BY <2>1, <2>8 DEF startRunWaiver, startRun
  <2>9. CASE adoptStep \/ transact \/ awaitReceipt \/ refreshExposureCredential \/ execute
    BY <2>1, <2>9 DEF adoptStep, transact, awaitReceipt, refreshExposureCredential, execute
  <2>10. CASE recordWaiver \/ verifyWaiver \/ lapse \/ waiverOver \/ end \/ kill
    BY <2>1, <2>10 DEF recordWaiver, verifyWaiver, lapse, waiverOver, end, kill
  <2>11. CASE \/ startHedgeUpdate \/ startExposureRefresh \/ sendUpdate
              \/ recordHedgeUpdate \/ recordExposureRefresh
    BY <2>1, <2>11 DEF startHedgeUpdate, startExposureRefresh, startUpdate, sendUpdate,
                       recordHedgeUpdate, recordExposureRefresh
  <2>12. CASE UNCHANGED vars
    BY <2>1, <2>12 DEF vars
  <2> QED  BY <1>2, <2>2, <2>3, <2>4, <2>5, <2>6, <2>7, <2>8, <2>9, <2>10, <2>11, <2>12 DEF Next
<1> QED  BY <1>1, <1>2, PTL DEF Spec

\* Runs that are killed and resumed never leave a second waiver in flight.
THEOREM NeverASecondProposal == Spec => []OneWaiverInFlight
<1>1. WaiverInv => OneWaiverInFlight
  BY SingleCardinality DEF WaiverInv, OneWaiverInFlight, Single
<1> QED  BY <1>1, WaiverInvariant, PTL

-----------------------------------------------------------------------------
(* One draw for a step: asked for by the program, sent, or on chain.       *)

Releasing == {"W-1", "W-5"}
Drawing == Releasing \cup {"W-3"}

Numbered(tx) == tx.fn = "draw" => tx.run \in Nat \ {0}

\* Where a list of instructions asks for the draw of a step.
Asked(step, t) ==
  {k \in DOMAIN t : t[k].op = "send" /\ t[k].tx.step = step /\ t[k].tx.fn = "draw"}

\* What a run sends is its own, and never a waiver: that is the desk's to send.
Sendable(tx, run) == tx.run = run /\ tx.fn # "createWaiver"

WellFormed(t, run) ==
  IsSeq(t) /\ \A k \in DOMAIN t : t[k].op = "send" => Sendable(t[k].tx, run)

IsRun(m) ==
  m = [x \in DOMAIN m |-> m[x]] /\ {"name", "at", "run", "steps", "intent", "todo"} \subseteq DOMAIN m

MainInv ==
  main # Off => /\ IsRun(main) /\ main.run \in Nat \ {0}
                /\ WellFormed(main.todo, main.run)
                /\ main.at # "next" => main.todo # << >>

ToAsk(step) ==
  IF main = Off THEN {}
  ELSE Asked(step, IF main.at = "next" THEN main.todo ELSE Tail(main.todo))

Queued(step) == {k \in DOMAIN queue : queue[k].step = step /\ queue[k].fn = "draw"}

ChainInv ==
  /\ starts \in Nat /\ IsSeq(queue) /\ IsSeq(landed)
  /\ \A k \in DOMAIN queue : Numbered(queue[k]) /\ queue[k].fn # "createWaiver"
  /\ \A k \in DOMAIN landed :
       Numbered(landed[k].tx) /\ (landed[k].tx.fn = "draw" => landed[k].ok \in BOOLEAN)

Once(step) ==
  /\ Single(drawsOf(step)) /\ Single(Queued(step)) /\ Single(ToAsk(step))
  /\ drawsOf(step) = {} \/ Queued(step) = {}
  /\ drawsOf(step) = {} \/ ToAsk(step) = {}
  /\ Queued(step) = {} \/ ToAsk(step) = {}

DrawInv == MainInv /\ ChainInv /\ \A step \in Releasing : Once(step)

-----------------------------------------------------------------------------
(* Lists of instructions.                                                  *)

LEMMA JoinedForm ==
  ASSUME NEW t, NEW u, NEW run, WellFormed(t, run), WellFormed(u, run)
  PROVE  /\ WellFormed(t \o u, run)
         /\ \A step : Asked(step, t) = {} => Fewer(Asked(step, t \o u), Asked(step, u))
         /\ \A step : Asked(step, u) = {} => Fewer(Asked(step, t \o u), Asked(step, t))
<1>1. /\ IsSeq(t \o u) /\ Len(t) \in Nat /\ DOMAIN t = 1..Len(t)
      /\ DOMAIN (t \o u) = 1..Len(t \o u) /\ Len(t \o u) \in Nat
      /\ \A k \in DOMAIN t : (t \o u)[k] = t[k]
      /\ \A k \in DOMAIN (t \o u) :
           k \notin DOMAIN t => k - Len(t) \in DOMAIN u /\ (t \o u)[k] = u[k - Len(t)]
  BY Joined, SeqDomain DEF WellFormed
<1>2. WellFormed(t \o u, run)
  <2> SUFFICES ASSUME NEW k \in DOMAIN (t \o u), (t \o u)[k].op = "send"
               PROVE  Sendable((t \o u)[k].tx, run)
    BY <1>1 DEF WellFormed
  <2> QED  BY <1>1 DEF WellFormed
<1>3. ASSUME NEW step, Asked(step, t) = {} PROVE Fewer(Asked(step, t \o u), Asked(step, u))
  <2> DEFINE A == Asked(step, t \o u)
             B == Asked(step, u)
             d == 0 - Len(t)
  <2>1. d \in Int /\ A \subseteq Int
    BY <1>1 DEF Asked
  <2>2. \A k \in A : k + d \in B
    <3> SUFFICES ASSUME NEW k \in A PROVE k + d \in B
      OBVIOUS
    <3>1. k \in Int /\ k + d = k - Len(t)
      BY <1>1, <2>1
    <3>2. k \in DOMAIN (t \o u) /\ k \notin DOMAIN t
      BY <1>1, <1>3 DEF Asked
    <3> QED  BY <1>1, <3>1, <3>2 DEF Asked
  <2> HIDE DEF A, B, d
  <2>3. Fewer(A, B)
    BY <2>1, <2>2, Shifted, Zenon
  <2> QED  BY <2>3 DEF A, B
<1>4. ASSUME NEW step, Asked(step, u) = {} PROVE Fewer(Asked(step, t \o u), Asked(step, t))
  <2>1. Asked(step, t \o u) \subseteq Asked(step, t)
    BY <1>1, <1>4 DEF Asked
  <2> QED  BY <2>1 DEF Fewer, Single
<1> QED  BY <1>2, <1>3, <1>4

\* A list asks for the draws of these steps at most, and for each once.
Part(t, steps, run) ==
  /\ WellFormed(t, run)
  /\ \A step \in Drawing :
       Single(Asked(step, t)) /\ (step \notin steps => Asked(step, t) = {})

LEMMA PartsJoin ==
  ASSUME NEW t, NEW u, NEW D, NEW E, NEW run, Part(t, D, run), Part(u, E, run), D \cap E = {}
  PROVE  Part(t \o u, D \cup E, run)
<1>1. WellFormed(t \o u, run)
  BY JoinedForm DEF Part
<1>2. ASSUME NEW step \in Drawing
      PROVE  /\ Single(Asked(step, t \o u))
             /\ step \notin D \cup E => Asked(step, t \o u) = {}
  <2>1. CASE step \notin D
    BY <2>1, JoinedForm DEF Part, Fewer
  <2>2. CASE step \notin E
    BY <2>2, JoinedForm DEF Part, Fewer
  <2> QED  BY <2>1, <2>2
<1> QED  BY <1>1, <1>2 DEF Part

LEMMA NoInstruction == ASSUME NEW run PROVE Part(<< >>, {}, run)
<1>1. IsSeq(<< >>) /\ DOMAIN << >> = {}
  BY DEF IsSeq
<1> QED  BY <1>1 DEF Part, WellFormed, Asked, Single

LEMMA OneInstruction ==
  ASSUME NEW i, NEW run, i.op = "send" => Sendable(i.tx, run)
  PROVE  Part(<<i>>, IF i.op = "send" /\ i.tx.fn = "draw" THEN {i.tx.step} ELSE {}, run)
<1>1. <<i>> \in Seq({i}) /\ DOMAIN <<i>> = {1} /\ <<i>>[1] = i
  OBVIOUS
<1> QED  BY <1>1 DEF Part, WellFormed, Asked, Single, IsSeq

-----------------------------------------------------------------------------
(* Steps of the script.                                                    *)

\* The script moved, or was left alone, and asks for no draw that it did not ask for.
MainMoves == MainInv' /\ \A step \in Drawing : Fewer(ToAsk(step)', ToAsk(step))

LEMMA MoveKeeps ==
  ASSUME DrawInv, MainMoves, UNCHANGED <<queue, landed, starts>> PROVE DrawInv'
<1>1. ChainInv'
  BY DEF DrawInv, ChainInv
<1>2. ASSUME NEW step \in Releasing PROVE Once(step)'
  <2>1. drawsOf(step)' = drawsOf(step) /\ Queued(step)' = Queued(step)
    BY DEF drawsOf, Queued
  <2>2. Fewer(ToAsk(step)', ToAsk(step)) /\ Once(step)
    BY DEF DrawInv, MainMoves, Drawing
  <2> QED  BY <2>1, <2>2 DEF Once, Fewer
<1> QED  BY <1>1, <1>2 DEF DrawInv, MainMoves

LEMMA Halted == ASSUME main' = Off PROVE MainMoves
BY DEF MainMoves, MainInv, ToAsk, Fewer, Single, Off

\* What is left to ask is what the rest of the list asks, or was so already.
LEMMA RestAsks ==
  ASSUME MainInv, main # Off, main.todo # << >>, NEW step
  PROVE  /\ WellFormed(Tail(main.todo), main.run)
         /\ Fewer(Asked(step, Tail(main.todo)), ToAsk(step))
<1>1. WellFormed(main.todo, main.run)
  BY DEF MainInv
<1>2. /\ IsSeq(Tail(main.todo))
      /\ \A k \in DOMAIN Tail(main.todo) :
           k \in Nat /\ k + 1 \in DOMAIN main.todo /\ Tail(main.todo)[k] = main.todo[k + 1]
  BY <1>1, Shortened DEF WellFormed
<1>3. WellFormed(Tail(main.todo), main.run)
  BY <1>1, <1>2 DEF WellFormed
<1>4. Fewer(Asked(step, Tail(main.todo)), Asked(step, main.todo))
  <2> DEFINE A == Asked(step, Tail(main.todo))
             B == Asked(step, main.todo)
  <2>1. 1 \in Int /\ A \subseteq Int /\ \A k \in A : k + 1 \in B
    BY <1>2 DEF Asked
  <2> HIDE DEF A, B
  <2>2. Fewer(A, B)
    BY <2>1, Shifted, Zenon
  <2> QED  BY <2>2 DEF A, B
<1>5. CASE main.at = "next"
  BY <1>3, <1>4, <1>5 DEF ToAsk
<1>6. CASE main.at # "next"
  BY <1>3, <1>6 DEF ToAsk, Fewer
<1> QED  BY <1>5, <1>6

LEMMA WentOn ==
  ASSUME MainInv, main # Off, main.todo # << >>, IsRun(main'), main'.run = main.run,
         main'.at = "next", main'.todo = Tail(main.todo)
  PROVE  MainMoves
<1>1. MainInv'
  BY RestAsks DEF MainInv
<1>2. ASSUME NEW step \in Drawing PROVE Fewer(ToAsk(step)', ToAsk(step))
  BY RestAsks DEF ToAsk, Fewer, Single
<1> QED  BY <1>1, <1>2 DEF MainMoves

LEMMA Stayed ==
  ASSUME MainInv, main # Off, main.todo # << >>, IsRun(main'), main'.run = main.run,
         main'.at # "next", main'.todo = main.todo
  PROVE  MainMoves
<1>1. MainInv'
  BY DEF MainInv
<1>2. ASSUME NEW step \in Drawing PROVE Fewer(ToAsk(step)', ToAsk(step))
  BY RestAsks DEF ToAsk, Fewer, Single
<1> QED  BY <1>1, <1>2 DEF MainMoves

LEMMA RecordMoves ==
  ASSUME MainInv, main # Off, main.todo # << >>, NEW r, NEW asExpected, record(r, asExpected)
  PROVE  MainMoves
<1>1. CASE main' = Off
  BY <1>1, Halted
<1>2. CASE goOn(main.steps \cup {r.tx})
  <2>1. /\ IsRun(main') /\ main'.run = main.run
        /\ main'.at = "next" /\ main'.todo = Tail(main.todo)
    BY <1>2 DEF goOn, MainInv, IsRun
  <2> QED  BY <2>1, WentOn
<1> QED  BY <1>1, <1>2 DEF record, fail

\* Steps of the script that send nothing.
LEMMA QuietSteps ==
  ASSUME MainInv,
         \/ adoptStep \/ awaitReceipt \/ refreshExposureCredential \/ waive \/ proposeWaiver
         \/ approve \/ execute \/ confirm \/ recordWaiver \/ verifyWaiver
         \/ lapse \/ waiverOver \/ end \/ kill
  PROVE  MainMoves
<1>1. CASE adoptStep
  BY <1>1, RecordMoves DEF adoptStep, doing
<1>2. CASE awaitReceipt
  BY <1>2, RecordMoves DEF awaitReceipt, MainInv
<1>3. CASE recordWaiver
  BY <1>3, RecordMoves DEF recordWaiver, MainInv
<1>4. CASE lapse \/ waiverOver
  <2>1. CASE fail(main.steps)
    BY <2>1, Halted DEF fail
  <2>2. CASE goOn(main.steps)
    <3>1. /\ IsRun(main') /\ main'.run = main.run
        /\ main'.at = "next" /\ main'.todo = Tail(main.todo)
      BY <1>4, <2>2 DEF goOn, MainInv, IsRun, lapse, waiverOver, doing
    <3> QED  BY <1>4, <3>1, WentOn DEF lapse, waiverOver, doing
  <2> QED  BY <1>4, <2>1, <2>2 DEF lapse, waiverOver
<1>5. CASE verifyWaiver \/ end \/ kill
  BY <1>5, Halted DEF verifyWaiver, end, kill
<1>6. CASE waive
  <2>1. main # Off /\ main.todo # << >> /\ IsRun(main)
    BY <1>6 DEF waive, doing, MainInv
  <2>2. CASE fail(main.steps)
    BY <2>2, Halted DEF fail
  <2>3. ASSUME NEW at \in {"recordWaiver", "approve"}, NEW i,
               main' = [main EXCEPT !.at = at, !.intent = i]
        PROVE  MainMoves
    <3>1. /\ IsRun(main') /\ main'.run = main.run
        /\ main'.at # "next" /\ main'.todo = main.todo
      BY <2>1, <2>3 DEF IsRun
    <3> QED  BY <2>1, <3>1, Stayed
  <2> QED  BY <1>6, <2>2, <2>3 DEF waive
<1>7. CASE proposeWaiver \/ approve \/ execute \/ confirm
  <2>1. main # Off /\ main.todo # << >> /\ IsRun(main)
    BY <1>7 DEF proposeWaiver, approve, execute, confirm, doing, MainInv
  <2>2. CASE fail(main.steps)
    BY <2>2, Halted DEF fail
  <2>3. CASE UNCHANGED main
    BY <2>1, <2>3 DEF MainMoves, MainInv, ToAsk, Fewer
  <2>4. ASSUME NEW at \in {"approve", "execute", "confirm", "recordWaiver"}, NEW i,
               \/ main' = [main EXCEPT !.at = at]
               \/ main' = [main EXCEPT !.at = at, !.intent = i]
        PROVE  MainMoves
    <3>1. /\ IsRun(main') /\ main'.run = main.run
        /\ main'.at # "next" /\ main'.todo = main.todo
      BY <2>1, <2>4 DEF IsRun
    <3> QED  BY <2>1, <3>1, Stayed
  <2> QED  BY <1>7, <2>2, <2>3, <2>4 DEF proposeWaiver, approve, execute, confirm
<1>8. CASE refreshExposureCredential
  <2> DEFINE tx == [run |-> main.run, step |-> "W-7", fn |-> "submitExposure",
                    arg |-> chain.exposure + 1]
             ask == << [op |-> "send", tx |-> tx] >>
  <2>1. /\ main # Off /\ main.at = "next" /\ main.todo # << >> /\ IsRun(main)
        /\ main.run \in Nat \ {0}
    BY <1>8 DEF refreshExposureCredential, doing, MainInv
  <2>2. /\ IsRun(main') /\ main'.run = main.run
        /\ main'.at = "next" /\ main'.todo = ask \o Tail(main.todo)
    BY <1>8, <2>1 DEF refreshExposureCredential, IsRun
  <2>3. Part(ask, {}, main.run)
    <3>1. tx.fn = "submitExposure" /\ tx.run = main.run
      OBVIOUS
    <3> HIDE DEF tx
    <3> QED  BY <3>1, OneInstruction DEF Sendable
  <2>4. WellFormed(ask, main.run) /\ WellFormed(Tail(main.todo), main.run)
    BY <2>1, <2>3, RestAsks DEF Part
  <2> HIDE DEF ask
  <2>5. WellFormed(main'.todo, main.run)
    BY <2>2, <2>4, JoinedForm
  <2>6. ASSUME NEW step \in Drawing PROVE Fewer(ToAsk(step)', ToAsk(step))
    <3>1. Fewer(Asked(step, main'.todo), Asked(step, Tail(main.todo)))
      <4>1. Asked(step, ask) = {}
        BY <2>3 DEF Part
      <4> QED  BY <2>2, <2>4, <4>1, JoinedForm
    <3> QED  BY <2>1, <2>2, <3>1, RestAsks DEF ToAsk, Fewer, Single
  <2>7. MainInv'
    BY <2>1, <2>2, <2>5 DEF MainInv
  <2> QED  BY <2>6, <2>7 DEF MainMoves
<1> QED  BY <1>1, <1>2, <1>3, <1>4, <1>5, <1>6, <1>7, <1>8

-----------------------------------------------------------------------------
(* What a run will send.                                                   *)

LEMMA SendPart ==
  ASSUME starts \in Nat, NEW step, NEW fn, NEW arg, fn # "createWaiver"
  PROVE  Part(send(step, fn, arg), IF fn = "draw" THEN {step} ELSE {}, starts + 1)
<1> DEFINE tx == [run |-> starts + 1, step |-> step, fn |-> fn, arg |-> arg]
           i == [op |-> "send", tx |-> tx]
<1>1. i.op = "send" /\ i.tx.step = step /\ i.tx.fn = fn /\ i.tx.run = starts + 1
  OBVIOUS
<1>2. send(step, fn, arg) = <<i>>
  BY DEF send
<1> HIDE DEF i, tx
<1> QED  BY <1>1, <1>2, OneInstruction DEF Sendable

LEMMA PerformPart == ASSUME NEW op, op # "send"
  PROVE  Part(perform(op), {}, starts + 1)
<1> DEFINE i == [op |-> op]
<1>1. i.op # "send" /\ perform(op) = <<i>>
  BY DEF perform
<1> HIDE DEF i
<1> QED  BY <1>1, OneInstruction

LEMMA AdoptionsPart == ASSUME ChainInv, NEW steps PROVE Part(adoptions(steps), {}, starts + 1)
<1> DEFINE named == {k \in DOMAIN landed : /\ landed[k].tx.run > 0 /\ landed[k].tx.step \in steps
                                          /\ landed[k].ok = Outcome(landed[k].tx.step)}
           adoption(n) == [op |-> "adopt", tx |-> landed[nth(named, n)].tx]
           N == Cardinality(named)
<1>1. adoptions(steps) = [n \in 1..N |-> adoption(n)]
  BY DEF adoptions
<1>2. N \in Nat
  <2>1. DOMAIN landed = 1..Len(landed) /\ Len(landed) \in Nat
    BY SeqDomain DEF ChainInv
  <2>2. IsFiniteSet(DOMAIN landed)
    BY <2>1, FS_Interval
  <2>3. named \subseteq DOMAIN landed
    OBVIOUS
  <2> HIDE DEF named
  <2>4. IsFiniteSet(named)
    BY <2>2, <2>3, FS_Subset
  <2> QED  BY <2>4, FS_CardinalityType
<1>3. \A n \in 1..N : adoption(n).op = "adopt"
  OBVIOUS
<1> HIDE DEF adoption, N
<1> DEFINE t == [n \in 1..N |-> adoption(n)]
           S == {adoption(n) : n \in 1..N}
<1>4. t \in [1..N -> S]
  OBVIOUS
<1>5. t \in Seq(S) /\ DOMAIN t = 1..N /\ \A n \in DOMAIN t : t[n].op # "send"
  <2>1. DOMAIN t = 1..N /\ \A n \in 1..N : t[n] = adoption(n)
    OBVIOUS
  <2>2. \A n \in DOMAIN t : t[n].op # "send"
    BY <1>3, <2>1
  <2> HIDE DEF t, S
  <2>3. t \in Seq(S)
    BY <1>2, <1>4, SeqDef
  <2> QED  BY <2>1, <2>2, <2>3
<1> HIDE DEF t
<1>6. Part(t, {}, starts + 1)
  BY <1>5 DEF Part, WellFormed, IsSeq, Asked, Single
<1> QED  BY <1>1, <1>6 DEF t

LEMMA FundAndDrawPart ==
  ASSUME starts \in Nat, NEW deposit PROVE Part(fundAndDraw(deposit), {"W-1"}, starts + 1)
<1> DEFINE a == IF chain.allowance < deposit THEN send("W-1", "approve", deposit) ELSE << >>
           b == IF deposit > 0 THEN send("W-1", "deposit", deposit) ELSE << >>
           c == send("W-1", "draw", 1)
<1>1. Part(a, {}, starts + 1) /\ Part(b, {}, starts + 1) /\ Part(c, {"W-1"}, starts + 1)
  BY SendPart, NoInstruction
<1>2. fundAndDraw(deposit) = (a \o b) \o c
  BY DEF fundAndDraw
<1> HIDE DEF a, b, c
<1>3. Part(a \o b, {} \cup {}, starts + 1)
  BY <1>1, PartsJoin
<1>4. Part((a \o b) \o c, ({} \cup {}) \cup {"W-1"}, starts + 1)
  BY <1>1, <1>3, PartsJoin
<1> QED  BY <1>2, <1>4

\* The program of a run asks for the draws of the steps it plans, each once.
LEMMA ProgramPart ==
  ASSUME ChainInv, NEW adopted, NEW plan, NEW deposit
  PROVE  Part(program(adopted, plan, deposit), plan \cap Drawing, starts + 1)
<1> DEFINE when(step, instructions) == IF step \in plan THEN instructions ELSE << >>
           update2 == send("W-2", "submitRefreshed", chain.hedge + 1) \o send("W-2", "syncCovenant", 0)
           p0 == adoptions(adopted)
           p1 == when("W-1", fundAndDraw(deposit))
           p2 == when("W-2", update2)
           p3 == when("W-3", send("W-3", "draw", 1))
           p4 == perform("waive")
           p5 == when("W-5", send("W-5", "draw", 1))
           p6 == perform("lapse")
           p7 == when("W-6", send("W-6", "syncCovenant", 0))
           p8 == perform("waiverOver")
           p9 == when("W-7", perform("refresh"))
           p10 == perform("end")
           D1 == plan \cap {"W-1"}
           D3 == plan \cap {"W-3"}
           D5 == plan \cap {"W-5"}
<1>1. starts \in Nat
  BY DEF ChainInv
<1>2. Part(p0, {}, starts + 1)
  BY AdoptionsPart
<1>3. Part(p1, D1, starts + 1)
  BY <1>1, FundAndDrawPart, NoInstruction
<1>4. Part(p2, {}, starts + 1)
  <2>1. Part(update2, {} \cup {}, starts + 1)
    BY <1>1, SendPart, PartsJoin
  <2> HIDE DEF update2
  <2> QED  BY <2>1, NoInstruction
<1>5. Part(p3, D3, starts + 1)
  BY <1>1, SendPart, NoInstruction
<1>6. Part(p5, D5, starts + 1)
  BY <1>1, SendPart, NoInstruction
<1>7. Part(p4, {}, starts + 1) /\ Part(p6, {}, starts + 1) /\ Part(p8, {}, starts + 1) /\ Part(p10, {}, starts + 1)
  BY PerformPart
<1>8. Part(p7, {}, starts + 1) /\ Part(p9, {}, starts + 1)
  BY <1>1, SendPart, PerformPart, NoInstruction
<1>9. program(adopted, plan, deposit)
        = (((((((((p0 \o p1) \o p2) \o p3) \o p4) \o p5) \o p6) \o p7) \o p8) \o p9) \o p10
  BY DEF program
<1> HIDE DEF p0, p1, p2, p3, p4, p5, p6, p7, p8, p9, p10
<1> DEFINE q3 == ((p0 \o p1) \o p2) \o p3
           q6 == ((q3 \o p4) \o p5) \o p6
<1>10. Part(q3, D1 \cup D3, starts + 1)
  <2>1. Part(p0 \o p1, D1, starts + 1)
    BY <1>2, <1>3, PartsJoin
  <2>2. Part((p0 \o p1) \o p2, D1, starts + 1)
    BY <1>4, <2>1, PartsJoin
  <2> QED  BY <1>5, <2>2, PartsJoin
<1> HIDE DEF q3
<1>11. Part(q6, (D1 \cup D3) \cup D5, starts + 1)
  <2>1. Part(q3 \o p4, D1 \cup D3, starts + 1)
    BY <1>7, <1>10, PartsJoin
  <2>2. Part((q3 \o p4) \o p5, (D1 \cup D3) \cup D5, starts + 1)
    BY <1>6, <2>1, PartsJoin
  <2> QED  BY <1>7, <2>2, PartsJoin
<1> HIDE DEF q6
<1> DEFINE D == (D1 \cup D3) \cup D5
<1>12. Part((((q6 \o p7) \o p8) \o p9) \o p10, D, starts + 1)
  <2> HIDE DEF D1, D3, D5
  <2>1. Part(q6 \o p7, D, starts + 1)
    BY <1>8, <1>11, PartsJoin
  <2>2. Part((q6 \o p7) \o p8, D, starts + 1)
    BY <1>7, <2>1, PartsJoin
  <2>3. Part(((q6 \o p7) \o p8) \o p9, D, starts + 1)
    BY <1>8, <2>2, PartsJoin
  <2> QED  BY <1>7, <2>3, PartsJoin
<1>13. D = plan \cap Drawing
  BY DEF Drawing, Releasing
<1> QED  BY <1>9, <1>12, <1>13 DEF q3, q6

-----------------------------------------------------------------------------
(* Steps that send, mine and start.                                        *)

LEMMA TransactKeeps == ASSUME DrawInv, transact PROVE DrawInv'
<1> DEFINE tx == instruction.tx
<1>1. /\ main # Off /\ main.at = "next" /\ main.todo # << >> /\ instruction.op = "send"
      /\ IsRun(main) /\ WellFormed(main.todo, main.run) /\ main.run \in Nat \ {0}
  BY DEF transact, doing, DrawInv, MainInv
<1>2. CASE fail(main.steps) /\ UNCHANGED queue
  BY <1>2, Halted, MoveKeeps DEF fail, transact
<1>3. CASE queue' = Append(queue, tx) /\ main' = [main EXCEPT !.at = "await"]
  <2>1. /\ IsRun(main') /\ main'.run = main.run
        /\ main'.at # "next" /\ main'.todo = main.todo
    BY <1>1, <1>3 DEF IsRun
  <2>2. MainInv' /\ MainMoves
    BY <1>1, <2>1, Stayed DEF DrawInv, MainMoves
  <2>3. /\ IsSeq(Tail(main.todo)) /\ 1 \in DOMAIN main.todo /\ instruction = main.todo[1]
        /\ \A k \in DOMAIN Tail(main.todo) :
             k \in Nat /\ k + 1 \in DOMAIN main.todo /\ k + 1 # 1
               /\ Tail(main.todo)[k] = main.todo[k + 1]
    BY <1>1, Shortened DEF WellFormed, instruction
  <2>4. Numbered(tx) /\ tx.fn # "createWaiver"
    BY <1>1, <2>3 DEF WellFormed, Sendable, Numbered
  <2> HIDE DEF tx
  <2>5. /\ IsSeq(queue') /\ DOMAIN queue' = DOMAIN queue \cup {Len(queue) + 1}
        /\ \A k \in DOMAIN queue : queue'[k] = queue[k]
        /\ queue'[Len(queue) + 1] = tx
    BY <1>3, Appended DEF DrawInv, ChainInv
  <2>6. ChainInv'
    BY <2>4, <2>5 DEF DrawInv, ChainInv, transact
  <2>7. ASSUME NEW step \in Releasing PROVE Once(step)'
    <3>1. Once(step) /\ drawsOf(step)' = drawsOf(step) /\ Fewer(ToAsk(step)', ToAsk(step))
      BY <2>2 DEF DrawInv, drawsOf, transact, MainMoves, Drawing
    <3>2. CASE tx.step = step /\ tx.fn = "draw"
      <4>1. 1 \in ToAsk(step)
        BY <1>1, <2>3, <3>2 DEF ToAsk, Asked, tx
      <4>2. drawsOf(step) = {} /\ Queued(step) = {} /\ ToAsk(step) = {1}
        BY <3>1, <4>1 DEF Once, Single
      <4>3. Queued(step)' \subseteq {Len(queue) + 1}
        BY <2>5, <4>2 DEF Queued
      <4>4. ToAsk(step)' = {}
        <5> SUFFICES ASSUME NEW k \in Asked(step, Tail(main.todo)) PROVE FALSE
          BY <2>1 DEF ToAsk
        <5>1. k + 1 \in ToAsk(step) /\ k + 1 # 1
          BY <1>1, <2>3 DEF ToAsk, Asked
        <5> QED  BY <4>2, <5>1
      <4> QED  BY <3>1, <4>2, <4>3, <4>4 DEF Once, Single
    <3>3. CASE ~(tx.step = step /\ tx.fn = "draw")
      <4>1. Queued(step)' = Queued(step)
        BY <2>5, <3>3 DEF Queued
      <4> QED  BY <3>1, <4>1 DEF Once, Fewer
    <3> QED  BY <3>2, <3>3
  <2> QED  BY <2>2, <2>6, <2>7 DEF DrawInv
<1> QED  BY <1>2, <1>3 DEF transact

\* A transaction that is mined, from the queue or not, counts as a draw only if it is one.
LEMMA LandKeeps ==
  ASSUME ChainInv, NEW tx, land(tx), Numbered(tx), NEW step \in Releasing
  PROVE  /\ IsSeq(landed')
         /\ \A k \in DOMAIN landed' :
              Numbered(landed'[k].tx) /\ (landed'[k].tx.fn = "draw" => landed'[k].ok \in BOOLEAN)
         /\ drawsOf(step)' \subseteq drawsOf(step) \cup {Len(landed) + 1}
         /\ ~(tx.step = step /\ tx.fn = "draw") => drawsOf(step)' = drawsOf(step)
<1> DEFINE receipt == [tx |-> tx, ok |-> wouldSucceed(tx), refusal |-> refusalAt,
                       covenant |-> covenantAt(chain')]
<1>1. receipt.tx = tx /\ receipt.ok = wouldSucceed(tx)
  OBVIOUS
<1>2. tx.fn = "draw" => wouldSucceed(tx) \in BOOLEAN
  BY DEF wouldSucceed
<1>3. landed' = Append(landed, receipt)
  BY DEF land
<1> HIDE DEF receipt
<1>4. /\ IsSeq(landed') /\ DOMAIN landed' = DOMAIN landed \cup {Len(landed) + 1}
      /\ Len(landed) + 1 \notin DOMAIN landed
      /\ \A k \in DOMAIN landed : landed'[k] = landed[k]
      /\ landed'[Len(landed) + 1] = receipt
  BY <1>3, Appended DEF ChainInv
<1> QED  BY <1>1, <1>2, <1>4 DEF ChainInv, drawsOf

LEMMA MineKeeps == ASSUME DrawInv, mine PROVE DrawInv'
<1>1. UNCHANGED <<main, starts>> /\ MainInv'
  BY DEF mine, scriptVars, DrawInv, MainInv
<1>2. ASSUME NEW step PROVE ToAsk(step)' = ToAsk(step)
  BY <1>1 DEF ToAsk
<1>3. CASE queue # << >> /\ land(Head(queue)) /\ queue' = Tail(queue)
  <2>1. /\ IsSeq(queue') /\ 1 \in DOMAIN queue /\ Head(queue) = queue[1]
        /\ \A k \in DOMAIN queue' :
             k \in Nat /\ k + 1 \in DOMAIN queue /\ k + 1 # 1 /\ queue'[k] = queue[k + 1]
    BY <1>3, Shortened DEF DrawInv, ChainInv
  <2>2. Numbered(Head(queue)) /\ ChainInv
    BY <2>1 DEF DrawInv, ChainInv
  <2>3. ChainInv'
    <3>1. \A k \in DOMAIN queue' : Numbered(queue'[k]) /\ queue'[k].fn # "createWaiver"
      BY <2>1, <2>2 DEF ChainInv
    <3>2. "W-1" \in Releasing
      BY DEF Releasing
    <3> QED  BY <1>1, <1>3, <2>1, <2>2, <3>1, <3>2, LandKeeps DEF ChainInv
  <2>4. ASSUME NEW step \in Releasing PROVE Once(step)'
    <3>1. /\ drawsOf(step)' \subseteq drawsOf(step) \cup {Len(landed) + 1}
          /\ ~(Head(queue).step = step /\ Head(queue).fn = "draw") => drawsOf(step)' = drawsOf(step)
      BY <1>3, <2>2, LandKeeps
    <3>2. Once(step) /\ ToAsk(step)' = ToAsk(step)
      BY <1>2 DEF DrawInv
    <3>3. \A k \in Queued(step)' : k + 1 \in Queued(step) /\ k + 1 # 1 /\ k \in Int
      BY <2>1 DEF Queued
    <3>4. CASE Head(queue).step = step /\ Head(queue).fn = "draw"
      <4>1. 1 \in Queued(step)
        BY <2>1, <3>4 DEF Queued
      <4>2. drawsOf(step) = {} /\ ToAsk(step) = {} /\ Queued(step) = {1}
        BY <3>2, <4>1 DEF Once, Single
      <4>3. Queued(step)' = {}
        BY <3>3, <4>2
      <4> QED  BY <3>1, <3>2, <4>2, <4>3 DEF Once, Single
    <3>5. CASE ~(Head(queue).step = step /\ Head(queue).fn = "draw")
      <4> DEFINE A == Queued(step)'
                 B == Queued(step)
      <4>1. 1 \in Int /\ A \subseteq Int /\ \A k \in A : k + 1 \in B
        BY <3>3
      <4> HIDE DEF A, B
      <4>2. Fewer(A, B)
        BY <4>1, Shifted, Zenon
      <4> QED  BY <3>1, <3>2, <3>5, <4>2 DEF Once, Fewer, A, B
    <3> QED  BY <3>4, <3>5
  <2> QED  BY <1>1, <2>3, <2>4 DEF DrawInv
<1>4. ASSUME NEW i, land(waiverTransaction(i)), UNCHANGED queue PROVE DrawInv'
  <2> DEFINE tx == waiverTransaction(i)
  <2>1. Numbered(tx) /\ tx.fn # "draw" /\ ChainInv
    BY DEF Numbered, waiverTransaction, DrawInv
  <2> HIDE DEF tx
  <2>2. ASSUME NEW step \in Releasing PROVE Once(step)'
    <3>1. drawsOf(step)' = drawsOf(step)
      BY <1>4, <2>1, LandKeeps DEF tx
    <3>2. Queued(step)' = Queued(step) /\ ToAsk(step)' = ToAsk(step) /\ Once(step)
      BY <1>2, <1>4 DEF Queued, DrawInv
    <3> QED  BY <3>1, <3>2 DEF Once
  <2>3. ChainInv'
    <3>1. "W-1" \in Releasing
      BY DEF Releasing
    <3> QED  BY <1>1, <1>4, <2>1, <3>1, LandKeeps DEF ChainInv, tx
  <2> QED  BY <1>1, <2>2, <2>3 DEF DrawInv
<1> QED  BY <1>3, <1>4 DEF mine

\* A draw on chain is named to the run that starts, which plans every other step.
LEMMA StartKeeps ==
  ASSUME DrawInv, NEW w, NEW resuming, NEW refreshExposure, startRun(w, resuming, refreshExposure)
  PROVE  DrawInv'
<1> DEFINE plan == planRun(stepsOnChain, w # 0, refreshExposure)
           list == program(stepsOnChain, plan, depositNeeded(w # 0, resuming))
<1>1. /\ IsRun(main') /\ main'.at = "next" /\ main'.todo = list /\ starts' = starts + 1
      /\ main'.run = starts + 1 /\ starts \in Nat
      /\ queue = << >> /\ UNCHANGED <<queue, landed>>
  BY DEF startRun, IsRun, DrawInv, ChainInv
<1>2. Part(list, plan \cap Drawing, starts + 1)
  BY ProgramPart DEF DrawInv
<1> HIDE DEF list
<1>3. MainInv'
  BY <1>1, <1>2 DEF MainInv, Part
<1>4. ChainInv'
  BY <1>1 DEF DrawInv, ChainInv
<1>5. ASSUME NEW step \in Releasing PROVE Once(step)'
  <2>1. Single(Asked(step, list)) /\ (step \notin plan => Asked(step, list) = {})
    BY <1>2 DEF Part, Drawing
  <2>2. ToAsk(step)' = {} \/ ToAsk(step)' = Asked(step, list)
    BY <1>1 DEF ToAsk
  <2>3. Queued(step)' = {} /\ drawsOf(step)' = drawsOf(step) /\ Single(drawsOf(step))
    <3>1. queue' = << >> /\ DOMAIN << >> = {}
      BY <1>1
    <3>2. Queued(step)' = {}
      BY <3>1 DEF Queued
    <3>3. drawsOf(step)' = drawsOf(step)
      BY <1>1 DEF drawsOf
    <3> QED  BY <3>2, <3>3 DEF DrawInv, Once
  <2>4. ASSUME NEW k \in drawsOf(step) PROVE step \notin plan
    <3>1. /\ k \in DOMAIN landed /\ landed[k].tx.step = step /\ landed[k].tx.fn = "draw"
          /\ landed[k].ok
      BY <2>4 DEF drawsOf
    <3>2. landed[k].tx.run > 0 /\ landed[k].ok = TRUE
      BY <3>1 DEF DrawInv, ChainInv, Numbered
    <3>3. lastCall(step) = "draw" /\ Outcome(step) = TRUE
      BY DEF lastCall, Outcome, Releasing
    <3>4. landed[k] \in Range(landed)
      BY <3>1 DEF Range
    <3>5. step \in Phases => step \in stepsOnChain
      BY <3>1, <3>2, <3>3, <3>4 DEF stepsOnChain, Releasing
    <3> QED  BY <3>5 DEF planRun
  <2> QED  BY <2>1, <2>2, <2>3, <2>4 DEF Once, Single
<1> QED  BY <1>3, <1>4, <1>5 DEF DrawInv

LEMMA StartRunWaiverKeeps == ASSUME DrawInv, startRunWaiver PROVE DrawInv'
<1> DEFINE list == perform("propose")
<1>1. /\ IsRun(main') /\ main'.at = "next" /\ main'.todo = list /\ starts' = starts + 1
      /\ main'.run = starts + 1 /\ starts \in Nat
      /\ UNCHANGED <<queue, landed>>
  BY DEF startRunWaiver, IsRun, DrawInv, ChainInv
<1>2. Part(list, {}, starts + 1)
  BY PerformPart
<1> HIDE DEF list
<1>3. MainInv'
  BY <1>1, <1>2 DEF MainInv, Part
<1>4. ChainInv'
  BY <1>1 DEF DrawInv, ChainInv
<1>5. ASSUME NEW step \in Releasing PROVE Once(step)'
  <2>1. ToAsk(step)' = {}
    BY <1>1, <1>2 DEF ToAsk, Part, Drawing
  <2>2. Queued(step)' = Queued(step) /\ drawsOf(step)' = drawsOf(step) /\ Once(step)
    BY <1>1 DEF Queued, drawsOf, DrawInv
  <2> QED  BY <2>1, <2>2 DEF Once, Single
<1> QED  BY <1>3, <1>4, <1>5 DEF DrawInv

-----------------------------------------------------------------------------
(* The second terminal sends neither draws nor waivers, and under its own numbers. *)

IsUpdateTx(tx) ==
  /\ tx.fn \notin {"draw", "createWaiver"} /\ tx.run \in Nat /\ tx.run > MaxStarts
  /\ tx.step = "update"

SendsOther(t) == IsSeq(t) /\ t # << >> /\ \A k \in DOMAIN t : IsUpdateTx(t[k])

IsUpdate(m) == m = [x \in DOMAIN m |-> m[x]] /\ {"at", "todo"} \subseteq DOMAIN m

UpdateInv ==
  updates \in Nat /\ (update # Off => IsUpdate(update) /\ SendsOther(update.todo))

begun(todo) == [name |-> "update", at |-> "next", todo |-> todo]

LEMMA UpdatesStart ==
  ASSUME NEW todo, update' = begun(todo), SendsOther(todo), updates' \in Nat PROVE UpdateInv'
<1>1. IsUpdate(update') /\ update'.todo = todo
  BY DEF begun, IsUpdate
<1> QED  BY <1>1 DEF UpdateInv

LEMMA UpdateInvariant == Spec => []UpdateInv
<1>1. Init => UpdateInv
  BY DEF Init, UpdateInv
<1>2. ASSUME UpdateInv, [Next]_vars PROVE UpdateInv'
  <2>1. CASE (UNCHANGED update \/ update' = Off) /\ UNCHANGED updates
    BY <1>2, <2>1 DEF UpdateInv
  <2>2. ASSUME NEW x, NEW y, IsUpdateTx(x), IsUpdateTx(y)
        PROVE  SendsOther(<<x>>) /\ SendsOther(<<x, y>>)
    <3>1. <<x>> \in Seq({x}) /\ <<x, y>> \in Seq({x, y}) /\ <<x>> # << >> /\ <<x, y>> # << >>
      OBVIOUS
    <3>2. /\ DOMAIN <<x>> = {1} /\ <<x>>[1] = x
          /\ DOMAIN <<x, y>> = {1, 2} /\ <<x, y>>[1] = x /\ <<x, y>>[2] = y
      OBVIOUS
    <3> QED  BY <2>2, <3>1, <3>2, Zenon DEF SendsOther, IsSeq
  <2>3. CASE startHedgeUpdate \/ startExposureRefresh
    <3> DEFINE a == updateTx("submitRefreshed", chain.hedge + 1)
               b == updateTx("syncCovenant", 0)
               c == updateTx("submitRestored", chain.hedge + 1)
               d == updateTx("restoreCompliance", 0)
               e == updateTx("submitExposure", chain.exposure + 1)
    <3>1. update' = begun(<<a, b>>) \/ update' = begun(<<c, d>>) \/ update' = begun(<<e>>)
      BY <2>3 DEF startHedgeUpdate, startExposureRefresh, startUpdate, begun
    <3>2. \A x \in {a, b, c, d, e} : IsUpdateTx(x)
      BY <1>2, ScenariosAssumption DEF updateTx, IsUpdateTx, UpdateInv
    <3> HIDE DEF a, b, c, d, e
    <3>3. SendsOther(<<a, b>>) /\ SendsOther(<<c, d>>) /\ SendsOther(<<e>>)
      BY <2>2, <3>2
    <3>4. updates' \in Nat
      BY <1>2, <2>3 DEF startHedgeUpdate, startExposureRefresh, startUpdate, UpdateInv
    <3> QED  BY <3>1, <3>3, <3>4, UpdatesStart
  <2>4. CASE sendUpdate /\ update' = [update EXCEPT !.at = "await"]
    <3>1. update # Off /\ IsUpdate(update)
      BY <1>2, <2>4 DEF sendUpdate, UpdateInv
    <3>2. IsUpdate(update') /\ update'.todo = update.todo
      BY <2>4, <3>1 DEF IsUpdate
    <3>3. UNCHANGED updates
      BY <2>4 DEF sendUpdate
    <3> QED  BY <1>2, <3>1, <3>2, <3>3 DEF UpdateInv
  <2>5. CASE Len(update.todo) > 1 /\ update # Off /\ UNCHANGED updates
               /\ update' = [update EXCEPT !.at = "next", !.todo = Tail(@)]
    <3>1. IsUpdate(update) /\ SendsOther(update.todo)
      BY <1>2, <2>5 DEF UpdateInv
    <3>2. IsUpdate(update') /\ update'.todo = Tail(update.todo)
      BY <2>5, <3>1 DEF IsUpdate
    <3>3. /\ IsSeq(Tail(update.todo))
          /\ \A k \in DOMAIN Tail(update.todo) :
               k + 1 \in DOMAIN update.todo /\ Tail(update.todo)[k] = update.todo[k + 1]
      BY <3>1, Shortened DEF SendsOther
    <3>4. Tail(update.todo) # << >>
      <4> DEFINE todo == update.todo
      <4>1. PICK S : todo \in Seq(S)
        BY <3>1 DEF SendsOther, IsSeq
      <4>2. Len(todo) \in Nat /\ Len(todo) > 1
        BY <2>5, <4>1
      <4> HIDE DEF todo
      <4>3. Len(Tail(todo)) = Len(todo) - 1
        BY <4>1, <4>2
      <4>4. Tail(todo) # << >>
        BY <4>2, <4>3
      <4> QED  BY <4>4 DEF todo
    <3>5. SendsOther(Tail(update.todo))
      BY <3>1, <3>3, <3>4 DEF SendsOther
    <3> QED  BY <1>2, <2>5, <3>2, <3>5 DEF UpdateInv
  <2>6. CASE sendUpdate
    BY <2>1, <2>4, <2>6 DEF sendUpdate
  <2>7. CASE recordHedgeUpdate
    <3>1. update # Off
      BY <2>7 DEF recordHedgeUpdate, recorded
    <3> QED  BY <2>1, <2>5, <2>7, <3>1 DEF recordHedgeUpdate
  <2>8. CASE recordExposureRefresh
    BY <2>1, <2>8 DEF recordExposureRefresh
  <2>9. CASE mine \/ waiverLapses \/ reject
    BY <2>1, <2>9 DEF mine, waiverLapses, reject, scriptVars
  <2>10. CASE \/ startRunWaiver
              \/ \E w \in 0..Len(intents), resuming, refreshExposure \in BOOLEAN :
                   startRun(w, resuming, refreshExposure)
    BY <2>1, <2>10 DEF startRunWaiver, startRun
  <2>11. CASE adoptStep \/ transact \/ awaitReceipt \/ refreshExposureCredential \/ waive
              \/ proposeWaiver \/ approve \/ execute \/ confirm
    BY <2>1, <2>11 DEF adoptStep, transact, awaitReceipt, refreshExposureCredential, waive,
                       proposeWaiver, approve, execute, confirm
  <2>12. CASE recordWaiver \/ verifyWaiver \/ lapse \/ waiverOver \/ end \/ kill
    BY <2>1, <2>12 DEF recordWaiver, verifyWaiver, lapse, waiverOver, end, kill
  <2>13. CASE UNCHANGED vars
    BY <2>1, <2>13 DEF vars, scriptVars
  <2> QED  BY <1>2, <2>3, <2>6, <2>7, <2>8, <2>9, <2>10, <2>11, <2>12, <2>13 DEF Next
<1> QED  BY <1>1, <1>2, PTL DEF Spec

LEMMA SendUpdateKeeps == ASSUME DrawInv, UpdateInv, sendUpdate PROVE DrawInv'
<1> DEFINE tx == Head(update.todo)
<1>1. tx.fn # "draw" /\ tx.fn # "createWaiver"
  BY Shortened DEF UpdateInv, SendsOther, IsUpdateTx, sendUpdate
<1>2. UNCHANGED <<main, landed, starts>>
  BY DEF sendUpdate
<1>3. MainMoves
  BY <1>2 DEF MainMoves, DrawInv, MainInv, ToAsk, Fewer
<1>4. CASE UNCHANGED queue
  BY <1>2, <1>3, <1>4, MoveKeeps
<1>5. CASE queue' = Append(queue, tx)
  <2> HIDE DEF tx
  <2>1. /\ IsSeq(queue') /\ DOMAIN queue' = DOMAIN queue \cup {Len(queue) + 1}
        /\ \A k \in DOMAIN queue : queue'[k] = queue[k]
        /\ queue'[Len(queue) + 1] = tx
    BY <1>5, Appended DEF DrawInv, ChainInv
  <2>2. ChainInv'
    BY <1>1, <1>2, <2>1 DEF DrawInv, ChainInv, Numbered
  <2>3. ASSUME NEW step \in Releasing PROVE Once(step)'
    <3>1. drawsOf(step)' = drawsOf(step) /\ ToAsk(step)' = ToAsk(step)
      BY <1>2 DEF drawsOf, ToAsk
    <3>2. Queued(step)' = Queued(step)
      BY <1>1, <2>1 DEF Queued
    <3> QED  BY <3>1, <3>2 DEF DrawInv, Once
  <2> QED  BY <1>3, <2>2, <2>3 DEF DrawInv, MainMoves
<1> QED  BY <1>4, <1>5 DEF sendUpdate

-----------------------------------------------------------------------------

LEMMA DrawInvariant == Spec => []DrawInv
<1>1. Init => DrawInv
  <2> SUFFICES ASSUME Init PROVE DrawInv
    OBVIOUS
  <2>1. main = Off /\ queue = << >> /\ landed = << >> /\ starts = 0
    BY DEF Init
  <2>2. IsSeq(<< >>) /\ DOMAIN << >> = {}
    BY DEF IsSeq
  <2> QED  BY <2>1, <2>2 DEF DrawInv, MainInv, ChainInv, Once, drawsOf, Queued, ToAsk, Single
<1>2. ASSUME DrawInv, UpdateInv, [Next]_vars PROVE DrawInv'
  <2>1. CASE UNCHANGED <<main, queue, landed, starts>>
    <3>1. MainMoves
      BY <1>2, <2>1 DEF MainMoves, DrawInv, MainInv, ToAsk, Fewer
    <3> QED  BY <1>2, <2>1, <3>1, MoveKeeps
  <2>2. CASE mine
    BY <1>2, <2>2, MineKeeps
  <2>3. CASE \E w \in 0..Len(intents), resuming, refreshExposure \in BOOLEAN :
               startRun(w, resuming, refreshExposure)
    BY <1>2, <2>3, StartKeeps
  <2>4. CASE startRunWaiver
    BY <1>2, <2>4, StartRunWaiverKeeps
  <2>5. CASE transact
    BY <1>2, <2>5, TransactKeeps
  <2>6. CASE \/ adoptStep \/ awaitReceipt \/ refreshExposureCredential \/ waive \/ proposeWaiver
             \/ approve \/ execute \/ confirm \/ recordWaiver \/ verifyWaiver
             \/ lapse \/ waiverOver \/ end \/ kill
    <3>1. MainMoves
      BY <1>2, <2>6, QuietSteps DEF DrawInv
    <3>2. UNCHANGED <<queue, landed, starts>>
      BY <2>6 DEF adoptStep, awaitReceipt, refreshExposureCredential, waive, proposeWaiver,
                  approve, execute, confirm, recordWaiver, verifyWaiver, lapse, waiverOver,
                  end, kill
    <3> QED  BY <1>2, <3>1, <3>2, MoveKeeps
  <2>7. CASE sendUpdate
    BY <1>2, <2>7, SendUpdateKeeps
  <2>8. CASE waiverLapses \/ reject
    BY <2>1, <2>8 DEF waiverLapses, reject, scriptVars
  <2>9. CASE startHedgeUpdate \/ startExposureRefresh \/ recordHedgeUpdate \/ recordExposureRefresh
    BY <2>1, <2>9 DEF startHedgeUpdate, startExposureRefresh, startUpdate, recordHedgeUpdate,
                      recordExposureRefresh
  <2>10. CASE UNCHANGED vars
    BY <2>1, <2>10 DEF vars, scriptVars
  <2> QED  BY <1>2, <2>2, <2>3, <2>4, <2>5, <2>6, <2>7, <2>8, <2>9, <2>10 DEF Next
<1> QED  BY <1>1, <1>2, UpdateInvariant, PTL DEF Spec

\* Whatever is killed, resumed, adopted or sent beside it, the two draws of the sequence
\* land once.
THEOREM NoSecondDraw == Spec => []DrawnOncePerStep
<1>1. DrawInv => DrawnOncePerStep
  BY SingleCardinality DEF DrawInv, Once, DrawnOncePerStep, Releasing
<1> QED  BY <1>1, DrawInvariant, PTL

-----------------------------------------------------------------------------
(* A waiver that run-waiver calls verified.                                *)

Mined(i) == \E k \in DOMAIN landed : landed[k].tx = waiverTransaction(i)

\* The admin wallet's waivers are mined in the order of their proposals.
MinedInv ==
  /\ signed \subseteq DOMAIN intents
  /\ \A i : Mined(i) => i \in DOMAIN intents /\ \A j \in signed : i < j
  /\ \A i \in DOMAIN intents : intents[i].broadcast => Mined(i)

LEMMA MinedReceipts == ASSUME NEW i PROVE Mined(i) <=> receipts(waiverTransaction(i)) # {}
BY DEF Mined, receipts, Range

LEMMA WaiverNamed ==
  ASSUME NEW i, NEW j, waiverTransaction(i) = waiverTransaction(j) PROVE i = j
<1>1. waiverTransaction(i).arg = i /\ waiverTransaction(j).arg = j
  BY DEF waiverTransaction
<1> QED  BY <1>1

LEMMA Lands ==
  ASSUME ChainInv, NEW tx, land(tx)
  PROVE  /\ IsSeq(landed') /\ Len(landed') = Len(landed) + 1
         /\ DOMAIN landed' = DOMAIN landed \cup {Len(landed) + 1}
         /\ \A k \in DOMAIN landed : landed'[k] = landed[k]
         /\ landed'[Len(landed) + 1].tx = tx
<1> DEFINE receipt == [tx |-> tx, ok |-> wouldSucceed(tx), refusal |-> refusalAt,
                       covenant |-> covenantAt(chain')]
<1>1. receipt.tx = tx /\ landed' = Append(landed, receipt)
  BY DEF land
<1> HIDE DEF receipt
<1>2. /\ IsSeq(landed') /\ DOMAIN landed' = DOMAIN landed \cup {Len(landed) + 1}
      /\ \A k \in DOMAIN landed : landed'[k] = landed[k]
      /\ landed'[Len(landed) + 1] = receipt
  BY <1>1, Appended DEF ChainInv
<1>3. Len(landed') = Len(landed) + 1
  <2>1. PICK S : landed \in Seq(S)
    BY DEF ChainInv, IsSeq
  <2>2. landed \in Seq(S \cup {receipt})
    BY <2>1
  <2> QED  BY <1>1, <2>2
<1> QED  BY <1>1, <1>2, <1>3

\* What is mined is one of the transactions on their way.
LEMMA MineCases ==
  ASSUME ChainInv, mine
  PROVE  \/ /\ signed' = signed
            /\ \E tx : /\ land(tx) /\ tx.fn # "createWaiver" /\ Numbered(tx)
                       /\ \E k \in DOMAIN queue : tx = queue[k]
         \/ \E i \in signed : /\ land(waiverTransaction(i)) /\ signed' = signed \ {i}
                              /\ \A j \in signed : i <= j
<1>1. CASE queue # << >> /\ land(Head(queue)) /\ signed' = signed
  <2>1. 1 \in DOMAIN queue /\ Head(queue) = queue[1]
    BY <1>1, Shortened DEF ChainInv
  <2> QED  BY <1>1, <2>1 DEF ChainInv
<1> QED  BY <1>1 DEF mine

LEMMA MinedGrows ==
  ASSUME ChainInv, NEW tx, land(tx), NEW i
  PROVE  Mined(i)' <=> Mined(i) \/ tx = waiverTransaction(i)
<1>1. waiverTransaction(i)' = waiverTransaction(i)
  BY DEF waiverTransaction
<1> QED  BY <1>1, Lands DEF Mined

LEMMA NotAWaiver ==
  ASSUME NEW tx, tx.fn # "createWaiver", NEW i PROVE tx # waiverTransaction(i)
BY DEF waiverTransaction

\* The list of proposals grows, and a broadcast is recorded when it is mined.
LEMMA IntentsGrow ==
  ASSUME WaiverInv, [Next]_vars
  PROVE  /\ DOMAIN intents \subseteq DOMAIN intents'
         /\ \A i \in DOMAIN intents' :
              intents'[i].broadcast => (i \in DOMAIN intents /\ intents[i].broadcast) \/ Mined(i)
<1> DEFINE Goal == /\ DOMAIN intents \subseteq DOMAIN intents'
                   /\ \A i \in DOMAIN intents' :
                        intents'[i].broadcast => (i \in DOMAIN intents /\ intents[i].broadcast) \/ Mined(i)
<1>1. CASE UNCHANGED intents
  BY <1>1
<1>2. CASE intents' = Append(intents, newIntent)
  <2>1. /\ DOMAIN intents' = DOMAIN intents \cup {Len(intents) + 1}
        /\ \A k \in DOMAIN intents : intents'[k] = intents[k]
        /\ intents'[Len(intents) + 1] = newIntent
    <3>1. IsSeq(intents)
      BY DEF WaiverInv, IsSeq
    <3> QED  BY <1>2, <3>1, Appended
  <2> QED  BY <2>1 DEF newIntent
<1>3. ASSUME NEW i, NEW intent, intents' = [intents EXCEPT ![i] = intent],
             i \in DOMAIN intents => intent.broadcast = intents[i].broadcast \/ Mined(i)
      PROVE  Goal
  BY <1>3
<1>4. CASE reject
  <2>1. PICK i \in openIntents : intents' = [intents EXCEPT ![i].status = "rejected"]
    BY <1>4 DEF reject
  <2> DEFINE intent == [intents[i] EXCEPT !.status = "rejected"]
  <2>2. intents' = [intents EXCEPT ![i] = intent]
    BY <2>1
  <2>3. i \in DOMAIN intents => intent.broadcast = intents[i].broadcast
    BY DEF WaiverInv, Intent
  <2> HIDE DEF intent
  <2> QED  BY <1>3, <2>2, <2>3
<1>5. CASE approve
  <2> SUFFICES ASSUME intents' # intents PROVE Goal
    BY <1>1
  <2> DEFINE i == main.intent
  <2>1. \E status \in {"pending", "executed", "failed"} :
          intents' = [intents EXCEPT ![i].approvals = @ + 1, ![i].status = status]
    BY <1>5 DEF approve
  <2>2. PICK status \in {"pending", "executed", "failed"} :
          intents' = [intents EXCEPT ![i].approvals = @ + 1, ![i].status = status]
    BY <2>1
  <2> HIDE DEF i
  <2>3. i \in DOMAIN intents /\ intents[i] \in Intent
    BY <2>2 DEF WaiverInv
  <2> DEFINE approved == [intents[i] EXCEPT !.approvals = @ + 1]
             intent == [approved EXCEPT !.status = status]
  <2>4. approved \in Intent /\ approved.broadcast = intents[i].broadcast
    BY <2>3 DEF Intent
  <2>5. intents' = [intents EXCEPT ![i] = intent]
    <3>1. intents' = [[intents EXCEPT ![i].approvals = @ + 1] EXCEPT ![i].status = status]
      BY <2>2
    <3> QED  BY <2>3, <3>1
  <2> HIDE DEF approved
  <2>6. intent.broadcast = intents[i].broadcast
    BY <2>4 DEF Intent
  <2> HIDE DEF intent
  <2> QED  BY <1>3, <2>5, <2>6
<1>6. CASE confirm
  <2> SUFFICES ASSUME intents' # intents PROVE Goal
    BY <1>1
  <2> DEFINE i == main.intent
             intent == [intents[i] EXCEPT !.broadcast = TRUE]
  <2>1. intents' = [intents EXCEPT ![i] = intent] /\ receipts(waiverTransaction(i)) # {}
    BY <1>6 DEF confirm
  <2>2. Mined(i)
    BY <2>1, MinedReceipts
  <2> HIDE DEF i, intent
  <2> QED  BY <1>3, <2>1, <2>2
<1>7. CASE waive \/ proposeWaiver
  BY <1>1, <1>2, <1>7 DEF waive, proposeWaiver
<1>8. CASE mine \/ waiverLapses
  BY <1>1, <1>8 DEF mine, waiverLapses
<1>9. CASE \/ startRunWaiver
           \/ \E w \in 0..Len(intents), resuming, refreshExposure \in BOOLEAN :
                startRun(w, resuming, refreshExposure)
  BY <1>1, <1>9 DEF startRunWaiver, startRun
<1>10. CASE adoptStep \/ transact \/ awaitReceipt \/ refreshExposureCredential \/ execute
  BY <1>1, <1>10 DEF adoptStep, transact, awaitReceipt, refreshExposureCredential, execute
<1>11. CASE recordWaiver \/ verifyWaiver \/ lapse \/ waiverOver \/ end \/ kill
  BY <1>1, <1>11 DEF recordWaiver, verifyWaiver, lapse, waiverOver, end, kill
<1>12. CASE \/ startHedgeUpdate \/ startExposureRefresh \/ sendUpdate
            \/ recordHedgeUpdate \/ recordExposureRefresh
  BY <1>1, <1>12 DEF startHedgeUpdate, startExposureRefresh, startUpdate, sendUpdate,
                     recordHedgeUpdate, recordExposureRefresh
<1>13. CASE UNCHANGED vars
  BY <1>1, <1>13 DEF vars
<1> QED  BY <1>4, <1>5, <1>6, <1>7, <1>8, <1>9, <1>10, <1>11, <1>12, <1>13 DEF Next

\* Which steps move the facility and the waivers that were broadcast.
LEMMA Movers ==
  ASSUME [Next]_vars
  PROVE  /\ mine \/ UNCHANGED landed
         /\ mine \/ waiverLapses \/ UNCHANGED chain
         /\ mine \/ execute \/ UNCHANGED signed
<1>1. CASE waiverLapses \/ execute
  BY <1>1 DEF waiverLapses, execute
<1>2. CASE \/ startRunWaiver
           \/ \E w \in 0..Len(intents), resuming, refreshExposure \in BOOLEAN :
                startRun(w, resuming, refreshExposure)
  BY <1>2 DEF startRunWaiver, startRun
<1>3. CASE reject \/ adoptStep \/ transact \/ awaitReceipt \/ refreshExposureCredential
  BY <1>3 DEF reject, adoptStep, transact, awaitReceipt, refreshExposureCredential
<1>4. CASE waive \/ proposeWaiver \/ approve \/ confirm \/ recordWaiver \/ verifyWaiver
  BY <1>4 DEF waive, proposeWaiver, approve, confirm, recordWaiver, verifyWaiver
<1>5. CASE lapse \/ waiverOver \/ end \/ kill
  BY <1>5 DEF lapse, waiverOver, end, kill
<1>6. CASE \/ startHedgeUpdate \/ startExposureRefresh \/ sendUpdate
           \/ recordHedgeUpdate \/ recordExposureRefresh
  BY <1>6 DEF startHedgeUpdate, startExposureRefresh, startUpdate, sendUpdate,
              recordHedgeUpdate, recordExposureRefresh
<1>7. CASE UNCHANGED vars
  BY <1>7 DEF vars
<1> QED  BY <1>1, <1>2, <1>3, <1>4, <1>5, <1>6, <1>7 DEF Next

\* A waiver that is sent once more is the newest, and no other is on its way.
Approving == main # Off /\ main.at \in {"approve", "execute", "confirm"}

LEMMA MinedKeeps ==
  ASSUME WaiverInv, ChainInv, MinedInv, Approving => main.intent \in DOMAIN intents, [Next]_vars
  PROVE  MinedInv'
<1>1. /\ DOMAIN intents = 1..Len(intents) /\ Len(intents) \in Nat
      /\ DOMAIN intents \subseteq DOMAIN intents'
      /\ \A i \in DOMAIN intents' :
           intents'[i].broadcast => (i \in DOMAIN intents /\ intents[i].broadcast) \/ Mined(i)
  BY IntentsGrow DEF WaiverInv
<1>2. CASE UNCHANGED <<signed, landed>>
  <2>1. \A i : Mined(i)' <=> Mined(i)
    BY <1>2 DEF Mined, waiverTransaction
  <2> QED  BY <1>1, <1>2, <2>1 DEF MinedInv
<1>3. CASE mine
  <2>1. ASSUME NEW tx, land(tx), tx.fn # "createWaiver", signed' = signed PROVE MinedInv'
    <3>1. \A i : Mined(i)' <=> Mined(i)
      BY <2>1, MinedGrows, NotAWaiver
    <3> QED  BY <1>1, <2>1, <3>1 DEF MinedInv
  <2>2. ASSUME NEW j \in signed, land(waiverTransaction(j)), signed' = signed \ {j},
               \A k \in signed : j <= k
        PROVE  MinedInv'
    <3>1. \A i : Mined(i)' <=> Mined(i) \/ i = j
      BY <2>2, MinedGrows, WaiverNamed
    <3>2. j \in DOMAIN intents /\ \A k \in signed' : k \in 1..Len(intents) /\ j < k
      BY <1>1, <2>2 DEF MinedInv
    <3> QED  BY <1>1, <2>2, <3>1, <3>2 DEF MinedInv
  <2> QED  BY <1>3, <2>1, <2>2, MineCases
<1>4. CASE execute /\ UNCHANGED landed /\ ~UNCHANGED signed
  <2> DEFINE i == main.intent
  <2>1. /\ main # Off /\ main.at = "execute" /\ intents[i].status = "executed"
        /\ signed' = IF receipts(waiverTransaction(i)) = {} THEN signed \cup {i} ELSE signed
    BY <1>4 DEF execute
  <2>2. signed' = signed \cup {i} /\ ~Mined(i)
    BY <1>4, <2>1, MinedReceipts
  <2>3. i \in DOMAIN intents
    BY <2>1 DEF Approving
  <2>4. i \in openIntents
    BY <2>1, <2>2, <2>3 DEF openIntents, MinedInv, WaiverInv, Intent
  <2>5. \A k : Mined(k) => k < i
    BY <1>1, <2>2, <2>3, <2>4 DEF MinedInv, WaiverInv
  <2>6. \A k : Mined(k)' <=> Mined(k)
    BY <1>4 DEF Mined, waiverTransaction
  <2> HIDE DEF i
  <2> QED  BY <1>1, <2>2, <2>3, <2>5, <2>6 DEF MinedInv
<1>5. execute => UNCHANGED landed
  BY DEF execute
<1> QED  BY <1>2, <1>3, <1>4, <1>5, Movers

-----------------------------------------------------------------------------
(* The facility keeps its fields, and only a waiver's transaction opens a waiver. *)

IsChain(c) ==
  /\ c = [x \in DOMAIN c |-> c[x]]
  /\ {"full", "hedge", "exposure", "state", "waiver", "liquidity", "allowance"} \subseteq DOMAIN c

LEMMA AfterKeeps ==
  ASSUME IsChain(chain), NEW tx
  PROVE  /\ IsChain(after(tx))
         /\ tx.fn # "createWaiver" /\ chain.waiver # "active" => after(tx).waiver # "active"
<1>1. /\ IsChain(synchronized)
      /\ chain.waiver # "active" => synchronized.waiver # "active"
  BY DEF IsChain, synchronized
<1>2. CASE tx.fn = "approve" \/ tx.fn = "submitExposure"
  BY <1>2 DEF IsChain, after
<1>3. CASE tx.fn = "deposit"
  BY <1>3 DEF IsChain, after
<1>4. CASE tx.fn = "draw"
  <2> DEFINE c == synchronized
  <2>1. after(tx) = [c EXCEPT !.liquidity = @ - 1]
    BY <1>4 DEF after
  <2> HIDE DEF c
  <2>2. IsChain(c) => IsChain(after(tx)) /\ after(tx).waiver = c.waiver
    BY <2>1 DEF IsChain
  <2> QED  BY <1>1, <2>2 DEF c
<1>5. CASE tx.fn = "submitRefreshed" \/ tx.fn = "submitRestored"
  BY <1>5 DEF IsChain, after
<1>6. CASE tx.fn = "createWaiver"
  BY <1>6 DEF IsChain, after
<1>7. CASE tx.fn \notin {"approve", "deposit", "draw", "submitRefreshed", "submitRestored",
                         "submitExposure", "createWaiver"}
  <2>1. after(tx) = synchronized
    BY <1>7 DEF after
  <2> QED  BY <1>1, <2>1
<1> QED  BY <1>2, <1>3, <1>4, <1>5, <1>6, <1>7

LEMMA ChainKeeps ==
  ASSUME IsChain(chain), ChainInv, [Next]_vars PROVE IsChain(chain')
<1>1. ASSUME NEW tx, land(tx) PROVE IsChain(chain')
  BY <1>1, AfterKeeps DEF land
<1>2. CASE waiverLapses
  BY <1>2 DEF waiverLapses, IsChain
<1> QED  BY <1>1, <1>2, MineCases, Movers

-----------------------------------------------------------------------------
(* The run of run-waiver.                                                  *)

\* Its waiver was mined before it found what the contract would say.
Stale ==
  \E k \in DOMAIN landed : k <= main.since /\ landed[k].tx = waiverTransaction(main.intent)

\* It has one instruction, and knows the proposal; it passed the check at the start while
\* no waiver was active, and a stale one cannot become active any more.
DeskRun ==
  /\ {"passed", "since"} \subseteq DOMAIN main
  /\ main.todo = perform("propose") /\ main.steps = {}
  /\ main.at \in {"next", "approve", "execute", "confirm", "recordWaiver"}
  /\ main.intent \in {0} \cup DOMAIN intents
  /\ main.since \in Nat /\ main.since <= Len(landed)
  /\ main.at = "recordWaiver" =>
       \E k \in DOMAIN landed : landed[k].tx = waiverTransaction(main.intent) /\ landed[k].ok
  /\ main.passed /\ Stale => signed = {} /\ chain.waiver # "active"

ScriptRun ==
  /\ {"adoptedWaiver"} \subseteq DOMAIN main
  /\ {main.intent, main.adoptedWaiver} \subseteq {0} \cup DOMAIN intents

RunInv ==
  /\ Approving => main.intent \in DOMAIN intents
  /\ main # Off => \/ main.name = "arc-waiver-run" /\ ScriptRun
                   \/ main.name = "run-waiver" /\ DeskRun

FreshInv == IsChain(chain) /\ MinedInv /\ RunInv /\ VerifiedIsFresh

LEMMA LandedGrows ==
  ASSUME ChainInv, [Next]_vars
  PROVE  /\ DOMAIN landed = 1..Len(landed) /\ Len(landed) \in Nat
         /\ DOMAIN landed' = 1..Len(landed') /\ Len(landed') \in Nat
         /\ Len(landed) <= Len(landed')
         /\ \A k \in DOMAIN landed : k \in DOMAIN landed' /\ landed'[k] = landed[k]
<1>1. DOMAIN landed = 1..Len(landed) /\ Len(landed) \in Nat
  BY SeqDomain DEF ChainInv
<1>2. ASSUME NEW tx, land(tx)
      PROVE  /\ DOMAIN landed' = 1..Len(landed') /\ Len(landed') = Len(landed) + 1
             /\ \A k \in DOMAIN landed : k \in DOMAIN landed' /\ landed'[k] = landed[k]
  BY <1>2, Lands, SeqDomain
<1>3. CASE mine
  BY <1>1, <1>2, <1>3, MineCases
<1> QED  BY <1>1, <1>3, Movers

\* Once a waiver is mined and nothing is on its way, no step makes one active.
LEMMA StaysOver ==
  ASSUME ChainInv, IsChain(chain), [Next]_vars, signed = {}, chain.waiver # "active",
         main # Off, Mined(main.intent)
  PROVE  signed' = {} /\ chain'.waiver # "active"
<1>1. CASE mine
  <2>1. ASSUME NEW tx, land(tx), tx.fn # "createWaiver" PROVE chain'.waiver # "active"
    BY <2>1, AfterKeeps DEF land
  <2> QED  BY <1>1, <2>1, MineCases
<1>2. CASE execute
  <2>1. UNCHANGED signed
    BY <1>2, MinedReceipts DEF execute
  <2>2. UNCHANGED chain
    BY <1>2 DEF execute
  <2> QED  BY <2>1, <2>2
<1>3. ~waiverLapses
  BY DEF waiverLapses
<1> QED  BY <1>1, <1>2, <1>3, Movers

\* A step that leaves the run where it is, or takes it on with the same proposal.
LEMMA DeskRunKeeps ==
  ASSUME ChainInv, WaiverInv, IsChain(chain), MinedInv, DeskRun, main # Off, [Next]_vars,
         {"passed", "since"} \subseteq DOMAIN main',
         main'.todo = main.todo, main'.steps = main.steps, main'.since = main.since,
         main'.passed = main.passed, main'.intent = main.intent,
         main'.at \in {"next", "approve", "execute", "confirm", "recordWaiver"},
         main'.at = "recordWaiver" /\ main.at # "recordWaiver" =>
           \E k \in DOMAIN landed : landed[k].tx = waiverTransaction(main.intent) /\ landed[k].ok
  PROVE  DeskRun'
<1>1. /\ DOMAIN landed = 1..Len(landed) /\ Len(landed) \in Nat
      /\ DOMAIN landed' = 1..Len(landed') /\ Len(landed') \in Nat
      /\ Len(landed) <= Len(landed')
      /\ \A k \in DOMAIN landed : k \in DOMAIN landed' /\ landed'[k] = landed[k]
  BY LandedGrows
<1>2. main'.since \in Nat /\ main'.since <= Len(landed')
  BY <1>1 DEF DeskRun
<1>3. main'.intent \in {0} \cup DOMAIN intents'
  BY IntentsGrow DEF DeskRun
<1>4. main'.at = "recordWaiver" =>
        \E k \in DOMAIN landed' : landed'[k].tx = waiverTransaction(main'.intent) /\ landed'[k].ok
  BY <1>1 DEF DeskRun
<1>5. Stale' => Stale
  <2> SUFFICES ASSUME NEW k \in DOMAIN landed', k <= main.since,
                      landed'[k].tx = waiverTransaction(main.intent)
               PROVE  Stale
    BY DEF Stale, waiverTransaction
  <2>1. k \in DOMAIN landed
    BY <1>1 DEF DeskRun
  <2> QED  BY <1>1, <2>1 DEF Stale
<1>6. ASSUME main'.passed, Stale' PROVE signed' = {} /\ chain'.waiver # "active"
  <2>1. main.passed /\ Stale
    BY <1>5, <1>6
  <2>2. signed = {} /\ chain.waiver # "active" /\ Mined(main.intent)
    BY <2>1 DEF DeskRun, Stale, Mined
  <2> QED  BY <2>2, StaysOver
<1>7. main'.todo = perform("propose") /\ main'.steps = {}
  BY DEF DeskRun
<1> QED  BY <1>2, <1>3, <1>4, <1>6, <1>7 DEF DeskRun, waiverTransaction, perform

LEMMA DeskDoes ==
  ASSUME main # Off, DeskRun, NEW op, doing(op) PROVE op = "propose"
BY DEF DeskRun, doing, instruction, perform

\* Which steps take the script on.
LEMMA MainMovers ==
  ASSUME [Next]_vars
  PROVE  \/ UNCHANGED main \/ main' = Off \/ startRunWaiver
         \/ \E w \in 0..Len(intents), resuming, refreshExposure \in BOOLEAN :
              startRun(w, resuming, refreshExposure)
         \/ adoptStep \/ transact \/ awaitReceipt \/ refreshExposureCredential
         \/ waive \/ proposeWaiver \/ approve \/ execute \/ confirm \/ recordWaiver
         \/ lapse \/ waiverOver
<1>1. CASE verifyWaiver \/ end \/ kill
  BY <1>1 DEF verifyWaiver, end, kill
<1>2. CASE mine \/ waiverLapses \/ reject
  BY <1>2 DEF mine, waiverLapses, reject, scriptVars
<1>3. CASE \/ startHedgeUpdate \/ startExposureRefresh \/ sendUpdate
           \/ recordHedgeUpdate \/ recordExposureRefresh
  BY <1>3 DEF startHedgeUpdate, startExposureRefresh, startUpdate, sendUpdate,
              recordHedgeUpdate, recordExposureRefresh
<1>4. CASE UNCHANGED vars
  BY <1>4 DEF vars, scriptVars
<1> QED  BY <1>1, <1>2, <1>3, <1>4 DEF Next

\* What proposing adds to the list is new.
LEMMA ProposedNew ==
  ASSUME WaiverInv, MinedInv, intents' = Append(intents, newIntent)
  PROVE  /\ Len(intents) + 1 \in DOMAIN intents'
         /\ ~Mined(Len(intents) + 1)
<1>1. DOMAIN intents = 1..Len(intents) /\ Len(intents) \in Nat
  BY DEF WaiverInv
<1>2. IsSeq(intents)
  BY DEF WaiverInv, IsSeq
<1> QED  BY <1>1, <1>2, Appended DEF MinedInv

LEMMA DeskRunSteps ==
  ASSUME ChainInv, MainInv, WaiverInv, IsChain(chain), MinedInv, RunInv, [Next]_vars,
         main # Off, main.name = "run-waiver"
  PROVE  RunInv'
<1>1. DeskRun /\ IsRun(main) /\ DOMAIN intents \subseteq DOMAIN intents'
  BY IntentsGrow DEF RunInv, MainInv
<1>2. CASE main' = Off
  BY <1>2 DEF RunInv, Approving
<1>3. ASSUME NEW at \in {"next", "approve", "execute", "confirm", "recordWaiver"},
             main' = main \/ main' = [main EXCEPT !.at = at],
             main' = main => at = main.at,
             at \in {"approve", "execute", "confirm"} => main.intent \in DOMAIN intents,
             at = "recordWaiver" /\ main.at # "recordWaiver" =>
               \E k \in DOMAIN landed : landed[k].tx = waiverTransaction(main.intent) /\ landed[k].ok
      PROVE  RunInv'
  <2>1. /\ {"passed", "since"} \subseteq DOMAIN main' /\ main'.at = at
        /\ main'.todo = main.todo /\ main'.steps = main.steps /\ main'.since = main.since
        /\ main'.passed = main.passed /\ main'.intent = main.intent /\ main'.name = main.name
    BY <1>1, <1>3 DEF DeskRun, IsRun
  <2>2. DeskRun'
    BY <1>1, <1>3, <2>1, DeskRunKeeps
  <2> QED  BY <1>1, <1>3, <2>1, <2>2 DEF RunInv, Approving
<1>4. CASE UNCHANGED main
  <2>1. /\ main.at \in {"next", "approve", "execute", "confirm", "recordWaiver"}
        /\ main.at \in {"approve", "execute", "confirm"} => main.intent \in DOMAIN intents
    BY <1>1 DEF RunInv, Approving, DeskRun
  <2> QED  BY <1>3, <1>4, <2>1
<1>5. CASE proposeWaiver
  <2>1. main.at = "next" /\ UNCHANGED <<chain, signed, landed>>
    BY <1>5 DEF proposeWaiver, doing
  <2>2. CASE main.intent # 0
    <3>1. main' = [main EXCEPT !.at = "approve"] /\ main.intent \in DOMAIN intents
      BY <1>1, <1>5, <2>2 DEF proposeWaiver, DeskRun
    <3> QED  BY <1>3, <3>1, <2>1
  <2>3. CASE /\ intents' = Append(intents, newIntent)
             /\ main' = [main EXCEPT !.at = "approve", !.intent = Len(intents) + 1]
    <3>1. /\ {"passed", "since"} \subseteq DOMAIN main' /\ main'.at = "approve"
          /\ main'.todo = main.todo /\ main'.steps = main.steps /\ main'.since = main.since
          /\ main'.passed = main.passed /\ main'.intent = Len(intents) + 1
          /\ main'.name = main.name
      BY <1>1, <2>3 DEF DeskRun, IsRun
    <3>2. main'.intent \in DOMAIN intents' /\ ~Mined(main'.intent)
      BY <2>3, <3>1, ProposedNew
    <3>3. ~Stale'
      BY <2>1, <3>2 DEF Stale, Mined, waiverTransaction
    <3>4. DeskRun'
      BY <1>1, <2>1, <3>1, <3>2, <3>3 DEF DeskRun, perform
    <3> QED  BY <3>1, <3>2, <3>4 DEF RunInv, Approving
  <2>4. CASE fail(main.steps)
    BY <1>2, <2>4 DEF fail
  <2> QED  BY <1>5, <2>2, <2>3, <2>4 DEF proposeWaiver
<1>6. CASE approve
  <2>1. Approving /\ main.intent \in DOMAIN intents
    BY <1>6 DEF approve, Approving, RunInv
  <2> QED  BY <1>3, <1>4, <1>6, <2>1 DEF approve
<1>7. CASE execute
  <2>1. Approving /\ main.intent \in DOMAIN intents
    BY <1>7 DEF execute, Approving, RunInv
  <2> QED  BY <1>2, <1>3, <1>7, <2>1 DEF execute, fail
<1>8. CASE confirm
  <2>1. CASE main' = [main EXCEPT !.at = "recordWaiver"] /\
             \E r \in receipts(waiverTransaction(main.intent)) : r.ok
    <3>1. \E k \in DOMAIN landed : landed[k].tx = waiverTransaction(main.intent) /\ landed[k].ok
      BY <2>1 DEF receipts, Range
    <3>2. main' = main => main.at = "recordWaiver"
      BY <1>1, <2>1 DEF IsRun
    <3> QED  BY <1>3, <2>1, <3>1, <3>2
  <2> QED  BY <1>2, <1>8, <2>1 DEF confirm, fail
<1>9. ~(adoptStep \/ transact \/ refreshExposureCredential \/ waive \/ lapse \/ waiverOver)
  BY <1>1, DeskDoes DEF adoptStep, transact, refreshExposureCredential, waive, lapse, waiverOver
<1>10. ~(awaitReceipt \/ recordWaiver)
  BY <1>1 DEF awaitReceipt, recordWaiver, DeskRun
<1>11. ~(\E w \in 0..Len(intents), resuming, refreshExposure \in BOOLEAN :
           startRun(w, resuming, refreshExposure)) /\ ~startRunWaiver
  BY DEF startRun, startRunWaiver
<1> QED  BY <1>2, <1>4, <1>5, <1>6, <1>7, <1>8, <1>9, <1>10, <1>11, MainMovers

LEMMA ScriptSteps ==
  ASSUME MainInv, WaiverInv, MinedInv, RunInv, [Next]_vars,
         main # Off => main.name = "arc-waiver-run", ~startRunWaiver
  PROVE  RunInv'
<1>1. DOMAIN intents \subseteq DOMAIN intents' /\ (main # Off => IsRun(main) /\ ScriptRun)
  BY IntentsGrow DEF MainInv, RunInv
<1>2. CASE main' = Off
  BY <1>2 DEF RunInv, Approving
<1>3. ASSUME main # Off, NEW at, main'.at = at, main'.name = main.name, NEW i, main'.intent = i,
             {"adoptedWaiver"} \subseteq DOMAIN main', main'.adoptedWaiver = main.adoptedWaiver,
             i \in {0} \cup DOMAIN intents',
             at \in {"approve", "execute", "confirm"} => i \in DOMAIN intents'
      PROVE  RunInv'
  BY <1>1, <1>3 DEF RunInv, ScriptRun, Approving
<1>4. CASE UNCHANGED main
  BY <1>1, <1>4 DEF RunInv, ScriptRun, Approving
<1>5. ASSUME main # Off, NEW at, NEW i, i \in {0} \cup DOMAIN intents',
             \/ main' = [main EXCEPT !.at = at] /\ i = main.intent
             \/ main' = [main EXCEPT !.at = at, !.intent = i],
             at \in {"approve", "execute", "confirm"} => i \in DOMAIN intents'
      PROVE  RunInv'
  <2>1. /\ main'.at = at /\ main'.intent = i /\ main'.name = main.name
        /\ {"adoptedWaiver"} \subseteq DOMAIN main' /\ main'.adoptedWaiver = main.adoptedWaiver
    BY <1>1, <1>5 DEF IsRun, ScriptRun
  <2> QED  BY <1>3, <1>5, <2>1
<1>6. ASSUME main # Off, NEW todo, NEW steps,
             main' = [main EXCEPT !.at = "next", !.todo = todo, !.steps = steps]
      PROVE  RunInv'
  <2>1. /\ main'.at = "next" /\ main'.intent = main.intent /\ main'.name = main.name
        /\ {"adoptedWaiver"} \subseteq DOMAIN main' /\ main'.adoptedWaiver = main.adoptedWaiver
    BY <1>1, <1>6 DEF IsRun, ScriptRun
  <2>2. main.intent \in {0} \cup DOMAIN intents'
    BY <1>1, <1>6 DEF ScriptRun
  <2> QED  BY <1>3, <1>6, <2>1, <2>2
<1>7. ASSUME NEW w \in 0..Len(intents), NEW resuming, NEW refreshExposure,
             startRun(w, resuming, refreshExposure)
      PROVE  RunInv'
  <2>1. /\ main' # Off /\ main'.at = "next" /\ main'.name = "arc-waiver-run"
        /\ {"adoptedWaiver"} \subseteq DOMAIN main'
        /\ main'.adoptedWaiver = w /\ main'.intent = 0
    BY <1>7 DEF startRun, Off
  <2>2. w \in {0} \cup DOMAIN intents'
    BY <1>1 DEF WaiverInv
  <2> QED  BY <2>1, <2>2 DEF RunInv, ScriptRun, Approving
<1>8. ASSUME main # Off, NEW steps, goOn(steps) PROVE RunInv'
  BY <1>6, <1>8 DEF goOn
<1>9. CASE adoptStep \/ awaitReceipt \/ recordWaiver
  BY <1>2, <1>8, <1>9 DEF adoptStep, awaitReceipt, recordWaiver, doing, record, fail
<1>10. main # Off => main.intent \in {0} \cup DOMAIN intents'
  BY <1>1 DEF ScriptRun
<1>11. CASE transact
  BY <1>2, <1>5, <1>10, <1>11 DEF transact, doing, fail
<1>12. CASE refreshExposureCredential
  <2> DEFINE todo == << [op |-> "send",
                 tx |-> [run |-> main.run, step |-> "W-7", fn |-> "submitExposure",
                         arg |-> chain.exposure + 1]] >> \o Tail(main.todo)
  <2>1. main # Off /\ main.at = "next" /\ main' = [main EXCEPT !.todo = todo]
    BY <1>12 DEF refreshExposureCredential, doing
  <2> HIDE DEF todo
  <2>2. /\ main'.at = "next" /\ main'.intent = main.intent /\ main'.name = main.name
        /\ {"adoptedWaiver"} \subseteq DOMAIN main' /\ main'.adoptedWaiver = main.adoptedWaiver
    BY <1>1, <2>1 DEF IsRun, ScriptRun
  <2> QED  BY <1>3, <1>10, <2>1, <2>2
<1>13. CASE waive
  <2>1. main # Off /\ main.adoptedWaiver \in {0} \cup DOMAIN intents'
    BY <1>1, <1>13 DEF waive, doing, ScriptRun
  <2>2. \A i \in openIntents : i \in DOMAIN intents'
    BY <1>1 DEF openIntents
  <2>3. intents' = Append(intents, newIntent) => Len(intents) + 1 \in DOMAIN intents'
    BY ProposedNew
  <2> QED  BY <1>2, <1>5, <1>13, <2>1, <2>2, <2>3 DEF waive, fail
<1>14. CASE proposeWaiver
  <2>1. main # Off /\ (main.intent # 0 => main.intent \in DOMAIN intents')
    BY <1>10, <1>14 DEF proposeWaiver, doing
  <2>2. intents' = Append(intents, newIntent) => Len(intents) + 1 \in DOMAIN intents'
    BY ProposedNew
  <2> QED  BY <1>2, <1>5, <1>14, <2>1, <2>2 DEF proposeWaiver, fail
<1>15. CASE approve \/ execute \/ confirm
  <2>1. main # Off /\ main.intent \in DOMAIN intents'
    BY <1>1, <1>15 DEF approve, execute, confirm, RunInv, Approving
  <2> QED  BY <1>2, <1>4, <1>5, <1>15, <2>1 DEF approve, execute, confirm, fail
<1>16. CASE lapse \/ waiverOver
  BY <1>2, <1>8, <1>16 DEF lapse, waiverOver, doing, fail
<1> QED  BY <1>2, <1>4, <1>7, <1>9, <1>11, <1>12, <1>13, <1>14, <1>15, <1>16, MainMovers

\* A run that starts with an open waiver that is mined finds nothing else on its way.
LEMMA DeskRunStarts ==
  ASSUME ChainInv, WaiverInv, MinedInv, startRunWaiver PROVE RunInv'
<1>1. UNCHANGED <<chain, signed, landed, intents>>
  BY DEF startRunWaiver
<1>2. ASSUME NEW i \in {0} \cup openIntents,
             main' = [name |-> "run-waiver", at |-> "next", run |-> starts + 1, steps |-> {},
                      intent |-> i, passed |-> ~released, since |-> Len(landed),
                      todo |-> perform("propose")]
      PROVE  RunInv'
  <2> DEFINE passed == ~released
             todo == perform("propose")
  <2>1. /\ passed => chain.waiver # "active"
        /\ main' = [name |-> "run-waiver", at |-> "next", run |-> starts + 1, steps |-> {},
                    intent |-> i, passed |-> passed, since |-> Len(landed), todo |-> todo]
    BY <1>2 DEF released
  <2> HIDE DEF passed, todo
  <2>2. /\ main'.name = "run-waiver" /\ main'.at = "next" /\ main'.steps = {}
        /\ main'.intent = i /\ main'.since = Len(landed) /\ main'.todo = todo
        /\ {"passed", "since"} \subseteq DOMAIN main'
    BY <2>1
  <2>3. main'.passed = passed
    BY <2>1
  <2>4. Len(landed) \in Nat /\ DOMAIN landed = 1..Len(landed)
    BY SeqDomain DEF ChainInv
  <2>5. i \in {0} \cup DOMAIN intents'
    BY <1>1 DEF openIntents
  <2>6. Stale' => signed' = {}
    <3> SUFFICES ASSUME Mined(i) PROVE signed = {}
      BY <1>1, <2>2 DEF Stale, Mined, waiverTransaction
    <3>1. i = Len(intents) /\ Len(intents) \in Nat /\ DOMAIN intents = 1..Len(intents)
      BY DEF MinedInv, WaiverInv
    <3> QED  BY <3>1 DEF MinedInv
  <2>7. todo = perform("propose")'
    BY DEF todo, perform
  <2>8. DeskRun'
    BY <1>1, <2>1, <2>2, <2>3, <2>4, <2>5, <2>6, <2>7 DEF DeskRun
  <2> QED  BY <2>2, <2>8 DEF RunInv, Approving
<1> QED  BY <1>2 DEF startRunWaiver

LEMMA FreshKeeps ==
  ASSUME ChainInv, MainInv, WaiverInv, FreshInv, [Next]_vars PROVE FreshInv'
<1>1. IsChain(chain) /\ MinedInv /\ RunInv
  BY DEF FreshInv
<1>2. IsChain(chain') /\ MinedInv'
  <2>1. Approving => main.intent \in DOMAIN intents
    BY <1>1 DEF RunInv
  <2> QED  BY <1>1, <2>1, ChainKeeps, MinedKeeps
<1>3. RunInv'
  <2>1. CASE main # Off /\ main.name = "run-waiver"
    BY <1>1, <2>1, DeskRunSteps
  <2>2. CASE startRunWaiver
    BY <1>1, <2>2, DeskRunStarts
  <2>3. CASE (main # Off => main.name = "arc-waiver-run") /\ ~startRunWaiver
    BY <1>1, <2>3, ScriptSteps
  <2> QED  BY <1>1, <2>1, <2>2, <2>3 DEF RunInv
<1>4. VerifiedIsFresh'
  <2>1. /\ DOMAIN landed' = 1..Len(landed') /\ Len(landed) \in Nat /\ DOMAIN landed = 1..Len(landed)
        /\ \A k \in DOMAIN landed : k \in DOMAIN landed' /\ landed'[k] = landed[k]
    BY LandedGrows
  <2>2. CASE UNCHANGED report
    <3>1. UNCHANGED <<report.outcome, report.intent, report.since>>
      BY <2>2
    <3> QED  BY <2>1, <3>1 DEF FreshInv, VerifiedIsFresh, waiverTransaction
  <2>3. CASE verifyWaiver
    <3> DEFINE verified == main.passed /\ chain.waiver = "active" /\ chain.state = "WAIVED"
               outcome == IF verified THEN "waiver created and verified" ELSE "FAILED"
    <3>1. /\ main # Off /\ main.at = "recordWaiver" /\ main.name = "run-waiver"
          /\ report' = [intent |-> main.intent, since |-> main.since, outcome |-> outcome]
          /\ UNCHANGED <<chain, landed>>
      BY <2>3 DEF verifyWaiver
    <3>2. outcome = "waiver created and verified" => main.passed /\ chain.waiver = "active"
      OBVIOUS
    <3> HIDE DEF outcome, verified
    <3>3. report'.intent = main.intent /\ report'.since = main.since /\ report'.outcome = outcome
      BY <3>1
    <3>4. DeskRun
      BY <1>1, <3>1 DEF RunInv
    <3>5. PICK k \in DOMAIN landed : landed[k].tx = waiverTransaction(main.intent) /\ landed[k].ok
      BY <3>1, <3>4 DEF DeskRun
    <3>6. outcome = "waiver created and verified" => k > main.since
      <4>1. ~(k > main.since) => Stale
        BY <2>1, <3>4, <3>5 DEF Stale, DeskRun
      <4> QED  BY <3>2, <3>4, <4>1 DEF DeskRun
    <3> QED  BY <3>1, <3>3, <3>5, <3>6 DEF VerifiedIsFresh, waiverTransaction
  <2>4. verifyWaiver \/ UNCHANGED report
    <3>1. CASE UNCHANGED vars
      BY <3>1 DEF vars, scriptVars
    <3>2. CASE mine \/ waiverLapses \/ reject
      BY <3>2 DEF mine, waiverLapses, reject, scriptVars
    <3>3. CASE \/ startRunWaiver
               \/ \E w \in 0..Len(intents), resuming, refreshExposure \in BOOLEAN :
                    startRun(w, resuming, refreshExposure)
      BY <3>3 DEF startRunWaiver, startRun
    <3>4. CASE adoptStep \/ transact \/ awaitReceipt \/ refreshExposureCredential
      BY <3>4 DEF adoptStep, transact, awaitReceipt, refreshExposureCredential
    <3>5. CASE waive \/ proposeWaiver \/ approve \/ execute \/ confirm \/ recordWaiver
      BY <3>5 DEF waive, proposeWaiver, approve, execute, confirm, recordWaiver
    <3>6. CASE lapse \/ waiverOver \/ end \/ kill
      BY <3>6 DEF lapse, waiverOver, end, kill
    <3>7. CASE \/ startHedgeUpdate \/ startExposureRefresh \/ sendUpdate
               \/ recordHedgeUpdate \/ recordExposureRefresh
      BY <3>7 DEF startHedgeUpdate, startExposureRefresh, startUpdate, sendUpdate,
                  recordHedgeUpdate, recordExposureRefresh
    <3> QED  BY <3>1, <3>2, <3>3, <3>4, <3>5, <3>6, <3>7 DEF Next
  <2> QED  BY <2>2, <2>3, <2>4
<1> QED  BY <1>2, <1>3, <1>4 DEF FreshInv

LEMMA FreshInvariant == Spec => []FreshInv
<1>1. Init => FreshInv
  <2> SUFFICES ASSUME Init PROVE FreshInv
    OBVIOUS
  <2>1. main = Off /\ landed = << >> /\ intents = << >> /\ signed = {} /\ DOMAIN << >> = {}
    BY DEF Init
  <2>2. IsChain(chain)
    <3>1. chain \in [full : {TRUE}, hedge : {1}, exposure : {1}, state : {"COMPLIANT"},
                     waiver : {"none"}, liquidity : {0, 3}, allowance : {0}]
      BY DEF Init
    <3> QED  BY <3>1, Zenon DEF IsChain
  <2>3. VerifiedIsFresh
    <3>1. report = [intent |-> 0, since |-> 0, outcome |-> "none"]
      BY DEF Init
    <3> QED  BY <3>1 DEF VerifiedIsFresh
  <2> QED  BY <2>1, <2>2, <2>3 DEF FreshInv, MinedInv, RunInv, Approving, Mined
<1>2. ASSUME DrawInv, WaiverInv, FreshInv, [Next]_vars PROVE FreshInv'
  BY <1>2, FreshKeeps DEF DrawInv
<1> QED  BY <1>1, <1>2, DrawInvariant, WaiverInvariant, PTL DEF Spec

\* "Waiver created and verified" is said of a transaction that was mined while the run went.
THEOREM VerifiedWaiverIsFresh == Spec => []VerifiedIsFresh
<1>1. FreshInv => VerifiedIsFresh
  BY DEF FreshInv
<1> QED  BY <1>1, FreshInvariant, PTL

-----------------------------------------------------------------------------
(* The evidence on disk and what the latest run has sent.                  *)

\* A run's transactions bear its number, an update's a number above all of them.
Dated(tx) == tx.run \in Nat /\ (tx.run <= starts \/ tx.run > MaxStarts)

IsSent(tx) ==
  /\ tx.run = starts
  /\ (\E k \in DOMAIN queue : tx = queue[k]) \/ (\E k \in DOMAIN landed : tx = landed[k].tx)

Written == IF file.run = starts THEN file.steps ELSE {}

Missing(tx) == IsSent(tx) /\ tx \notin Written

\* Of a run that goes on the evidence has all but what it waits for, of one that was
\* killed or is over all but one.
JournalInv ==
  /\ starts \in Nat /\ starts <= MaxStarts
  /\ \A k \in DOMAIN queue : Dated(queue[k]) /\ queue[k].run # 0
  /\ \A k \in DOMAIN landed : Dated(landed[k].tx)
  /\ file.run \in Nat /\ file.run <= starts
  /\ starts = 0 => main = Off /\ intents = << >>
  /\ main = Off => \A tx, ux : Missing(tx) /\ Missing(ux) => tx = ux
  /\ main # Off => /\ main.run = starts /\ Written = main.steps
                   /\ \A tx : Missing(tx) => main.at = "await" /\ tx = instruction.tx

\* A step that sends nothing, with the evidence as it was or written.
LEMMA JournalStays ==
  ASSUME JournalInv, main # Off, UNCHANGED <<queue, landed, starts>>, file'.run \in Nat,
         file'.run <= starts, IsRun(main), NEW steps, main.steps \subseteq steps,
         \A tx : Missing(tx) => tx \in steps,
         IF file'.run = starts THEN file'.steps = steps ELSE steps = {},
         main' # Off => main'.run = main.run /\ main'.steps = steps /\ main'.at # "await"
  PROVE  JournalInv'
<1>1. \A tx : IsSent(tx)' <=> IsSent(tx)
  BY DEF IsSent
<1>2. Written' = steps
  BY DEF Written
<1>3. \A tx : ~Missing(tx)'
  BY <1>1, <1>2 DEF Missing, JournalInv
<1>4. /\ \A k \in DOMAIN queue' : Dated(queue[k])' /\ queue'[k].run # 0
      /\ \A k \in DOMAIN landed' : Dated(landed[k].tx)'
  BY DEF JournalInv, Dated
<1> QED  BY <1>2, <1>3, <1>4 DEF JournalInv

LEMMA JournalRecord ==
  ASSUME JournalInv, MainInv, main # Off, main.name = "arc-waiver-run",
         UNCHANGED <<queue, landed, starts>>, NEW r, NEW asExpected, record(r, asExpected),
         \A tx : Missing(tx) => tx = r.tx
  PROVE  JournalInv'
<1> DEFINE steps == main.steps \cup {r.tx}
<1>1. main' = Off \/ goOn(steps)
  BY DEF record, fail
<1>2. \E outcome : file' = [run |-> main.run, steps |-> steps, outcome |-> outcome]
  BY DEF record, fail, writeEvidence
<1>3. IsRun(main) /\ main.run = starts /\ main.run \in Nat
  BY DEF MainInv, JournalInv
<1>4. main.steps \subseteq steps /\ \A tx : Missing(tx) => tx \in steps
  OBVIOUS
<1> HIDE DEF steps
<1>5. file'.run = main.run /\ file'.steps = steps
  BY <1>2
<1>6. main' # Off => main'.run = main.run /\ main'.steps = steps /\ main'.at # "await"
  BY <1>1, <1>3 DEF goOn, IsRun
<1> QED  BY <1>3, <1>4, <1>5, <1>6, JournalStays

\* Steps of either script with nothing of its own on the way.
LEMMA JournalQuiet ==
  ASSUME JournalInv, MainInv, RunInv, main # Off, UNCHANGED <<queue, landed, starts>>,
         \A tx : ~Missing(tx),
         \/ UNCHANGED file
         \/ \E outcome : writeEvidence(main.steps, outcome),
         main' # Off => main'.run = main.run /\ main'.steps = main.steps /\ main'.at # "await"
  PROVE  JournalInv'
<1>1. IsRun(main) /\ main.run = starts /\ main.run \in Nat
  BY DEF MainInv, JournalInv
<1>2. CASE UNCHANGED file
  <2>1. file'.run \in Nat /\ file'.run <= starts
    BY <1>2 DEF JournalInv
  <2>2. IF file'.run = starts THEN file'.steps = main.steps ELSE main.steps = {}
    BY <1>2 DEF JournalInv, Written
  <2> QED  BY <1>1, <2>1, <2>2, JournalStays
<1>3. ASSUME NEW outcome, file' = [run |-> main.run, steps |-> main.steps, outcome |-> outcome]
      PROVE  JournalInv'
  <2>1. file'.run = starts /\ file'.steps = main.steps
    BY <1>1, <1>3
  <2> QED  BY <1>1, <2>1, JournalStays
<1> QED  BY <1>2, <1>3 DEF writeEvidence

LEMMA JournalSteps ==
  ASSUME JournalInv, MainInv, RunInv,
         \/ adoptStep \/ awaitReceipt \/ refreshExposureCredential \/ waive \/ proposeWaiver
         \/ approve \/ execute \/ confirm \/ recordWaiver \/ verifyWaiver
         \/ lapse \/ waiverOver \/ end
  PROVE  JournalInv'
<1>1. main # Off /\ IsRun(main)
  BY DEF adoptStep, awaitReceipt, refreshExposureCredential, waive, proposeWaiver, approve,
         execute, confirm, recordWaiver, verifyWaiver, lapse, waiverOver, end, doing, MainInv
<1>2. UNCHANGED <<queue, landed, starts>>
  BY DEF adoptStep, awaitReceipt, refreshExposureCredential, waive, proposeWaiver, approve,
         execute, confirm, recordWaiver, verifyWaiver, lapse, waiverOver, end
<1>3. CASE adoptStep
  <2>1. main.name = "arc-waiver-run" /\ main.at = "next"
    BY <1>1, <1>3, DeskDoes DEF adoptStep, RunInv, doing
  <2>2. \A tx : ~Missing(tx)
    BY <1>1, <2>1 DEF JournalInv
  <2> QED  BY <1>1, <1>2, <1>3, <2>1, <2>2, JournalRecord DEF adoptStep
<1>4. CASE awaitReceipt
  <2>1. main.name = "arc-waiver-run"
    BY <1>1, <1>4 DEF awaitReceipt, RunInv, DeskRun
  <2>2. PICK r \in receipts(instruction.tx) :
          record(r, r.tx.fn = "syncCovenant" => r.covenant.state = "CURE")
    BY <1>4 DEF awaitReceipt
  <2>3. \A tx : Missing(tx) => tx = r.tx
    BY <1>1, <2>2 DEF JournalInv, receipts
  <2> QED  BY <1>1, <1>2, <2>1, <2>2, <2>3, JournalRecord
<1>5. CASE recordWaiver
  <2>1. main.name = "arc-waiver-run" /\ main.at # "await"
    BY <1>5 DEF recordWaiver
  <2>2. \A tx : ~Missing(tx)
    BY <1>1, <2>1 DEF JournalInv
  <2> QED  BY <1>1, <1>2, <1>5, <2>1, <2>2, JournalRecord DEF recordWaiver
<1>6. CASE ~(adoptStep \/ awaitReceipt \/ recordWaiver)
  <2>1. main.at # "await"
    BY <1>6 DEF refreshExposureCredential, waive, proposeWaiver, approve, execute, confirm,
                verifyWaiver, lapse, waiverOver, end, doing
  <2>2. \A tx : ~Missing(tx)
    BY <1>1, <2>1 DEF JournalInv
  <2>3. \/ UNCHANGED file
        \/ \E outcome : writeEvidence(main.steps, outcome)
    BY <1>6 DEF refreshExposureCredential, waive, proposeWaiver, approve, execute, confirm,
                verifyWaiver, lapse, waiverOver, end, fail
  <2>4. main' # Off => main'.run = main.run /\ main'.steps = main.steps /\ main'.at # "await"
    <3>1. ASSUME NEW at \in {"next", "approve", "execute", "confirm", "recordWaiver"}, NEW i,
                 \/ main' = [main EXCEPT !.at = at]
                 \/ main' = [main EXCEPT !.at = at, !.intent = i]
          PROVE  main'.run = main.run /\ main'.steps = main.steps /\ main'.at # "await"
      BY <1>1, <3>1 DEF IsRun
    <3>2. CASE main' = Off
      BY <3>2
    <3>3. CASE UNCHANGED main
      BY <2>1, <3>3
    <3>4. CASE goOn(main.steps)
      BY <1>1, <3>4 DEF goOn, IsRun
    <3>5. CASE refreshExposureCredential
      BY <1>1, <3>5 DEF refreshExposureCredential, doing, IsRun
    <3>6. CASE waive \/ proposeWaiver
      BY <3>1, <3>2, <3>6 DEF waive, proposeWaiver, fail
    <3>7. CASE approve \/ execute \/ confirm
      BY <3>1, <3>2, <3>3, <3>7 DEF approve, execute, confirm, fail
    <3>8. CASE verifyWaiver \/ lapse \/ waiverOver \/ end
      BY <3>2, <3>4, <3>8 DEF verifyWaiver, lapse, waiverOver, end, fail
    <3> QED  BY <1>6, <3>5, <3>6, <3>7, <3>8
  <2> QED  BY <1>1, <1>2, <2>2, <2>3, <2>4, JournalQuiet
<1> QED  BY <1>3, <1>4, <1>5, <1>6

\* Steps beside the script: what is on its way moves, and others send.
LEMMA JournalSame ==
  ASSUME JournalInv, UNCHANGED <<main, file, starts>>, starts = 0 => intents' = << >>,
         \A k \in DOMAIN queue' :
           \/ \E j \in DOMAIN queue : queue'[k] = queue[j]
           \/ Dated(queue'[k]) /\ queue'[k].run \notin {0, starts},
         \A k \in DOMAIN landed' :
           \/ \E j \in DOMAIN landed : landed'[k].tx = landed[j].tx
           \/ \E j \in DOMAIN queue : landed'[k].tx = queue[j]
           \/ Dated(landed'[k].tx) /\ landed'[k].tx.run # starts
  PROVE  JournalInv'
<1>1. \A tx : IsSent(tx)' => IsSent(tx)
  BY DEF IsSent
<1>2. Written' = Written
  BY DEF Written
<1>3. \A tx : Missing(tx)' => Missing(tx)
  BY <1>1, <1>2 DEF Missing
<1>4. \A k \in DOMAIN queue' : Dated(queue[k])' /\ queue'[k].run # 0
  BY DEF JournalInv, Dated
<1>5. \A k \in DOMAIN landed' : Dated(landed[k].tx)'
  BY DEF JournalInv, Dated
<1>6. instruction' = instruction
  BY DEF instruction
<1> QED  BY <1>2, <1>3, <1>4, <1>5, <1>6 DEF JournalInv

LEMMA JournalTransact == ASSUME JournalInv, DrawInv, RunInv, transact PROVE JournalInv'
<1> DEFINE tx == instruction.tx
<1>1. /\ main # Off /\ main.at = "next" /\ main.todo # << >> /\ instruction.op = "send"
      /\ IsRun(main) /\ WellFormed(main.todo, main.run) /\ MainInv /\ ChainInv
      /\ main.run = starts
  BY DEF transact, doing, DrawInv, MainInv, JournalInv
<1>2. UNCHANGED <<landed, starts>> /\ \A t : ~Missing(t)
  BY <1>1 DEF transact, JournalInv
<1>3. CASE fail(main.steps) /\ UNCHANGED queue
  <2>1. main' = Off /\ \E outcome : writeEvidence(main.steps, outcome)
    BY <1>3 DEF fail
  <2> QED  BY <1>1, <1>2, <1>3, <2>1, JournalQuiet
<1>4. CASE queue' = Append(queue, tx) /\ main' = [main EXCEPT !.at = "await"] /\ UNCHANGED file
  <2>1. /\ main'.at = "await" /\ main'.run = main.run /\ main'.steps = main.steps
        /\ main'.todo = main.todo
    BY <1>1, <1>4 DEF IsRun
  <2>2. instruction' = instruction
    BY <2>1 DEF instruction
  <2>3. 1 \in DOMAIN main.todo /\ instruction = main.todo[1]
    BY <1>1, Shortened DEF WellFormed, instruction
  <2>4. tx.run = starts
    BY <1>1, <2>3 DEF WellFormed, Sendable
  <2> HIDE DEF tx
  <2>5. /\ DOMAIN queue' = DOMAIN queue \cup {Len(queue) + 1}
        /\ \A k \in DOMAIN queue : queue'[k] = queue[k]
        /\ queue'[Len(queue) + 1] = tx
    BY <1>1, <1>4, Appended DEF ChainInv
  <2>6. \A t : IsSent(t)' => IsSent(t) \/ t = tx
    BY <1>2, <2>5 DEF IsSent
  <2>7. Written' = Written
    BY <1>2, <1>4 DEF Written
  <2>8. \A t : Missing(t)' => t = tx
    BY <1>2, <2>6, <2>7 DEF Missing
  <2>9. \A k \in DOMAIN queue' : Dated(queue[k])' /\ queue'[k].run # 0
    BY <1>1, <1>2, <2>4, <2>5 DEF JournalInv, Dated
  <2>10. main' # Off /\ tx = instruction'.tx
    <3>1. "at" \notin DOMAIN Off /\ "at" \in DOMAIN main'
      BY <1>1, <1>4 DEF Off, IsRun
    <3> QED  BY <2>2, <3>1 DEF tx
  <2>11. /\ \A k \in DOMAIN landed' : Dated(landed[k].tx)'
         /\ file'.run \in Nat /\ file'.run <= starts' /\ starts' \in Nat /\ starts' <= MaxStarts
         /\ starts' # 0
    BY <1>1, <1>2, <1>4 DEF JournalInv, Dated
  <2>12. main'.run = starts' /\ Written' = main'.steps
    BY <1>1, <1>2, <2>1, <2>7 DEF JournalInv
  <2> QED  BY <2>1, <2>8, <2>9, <2>10, <2>11, <2>12 DEF JournalInv
<1> QED  BY <1>3, <1>4 DEF transact

LEMMA JournalKill == ASSUME JournalInv, kill PROVE JournalInv'
<1>1. main # Off /\ main' = Off /\ UNCHANGED <<queue, landed, starts, file, intents>>
  BY DEF kill
<1>2. \A tx : Missing(tx)' <=> Missing(tx)
  BY <1>1 DEF Missing, IsSent, Written
<1>3. /\ \A k \in DOMAIN queue' : Dated(queue[k])' /\ queue'[k].run # 0
      /\ \A k \in DOMAIN landed' : Dated(landed[k].tx)'
  BY <1>1 DEF JournalInv, Dated
<1> QED  BY <1>1, <1>2, <1>3 DEF JournalInv

\* A run that starts has sent nothing under its number, and its evidence is its own.
LEMMA JournalStarts ==
  ASSUME JournalInv, starts < MaxStarts, starts' = starts + 1,
         UNCHANGED <<queue, landed, file>>,
         main' # Off, main'.run = starts + 1, main'.steps = {}
  PROVE  JournalInv'
<1>1. starts' \in Nat /\ starts' <= MaxStarts /\ starts' # 0 /\ MaxStarts \in Nat /\ starts \in Nat
  BY ScenariosAssumption DEF JournalInv
<1>2. \A tx : ~IsSent(tx)'
  BY <1>1 DEF IsSent, JournalInv, Dated
<1>3. Written' = {}
  BY <1>1 DEF Written, JournalInv
<1>4. /\ \A k \in DOMAIN queue' : Dated(queue[k])' /\ queue'[k].run # 0
      /\ \A k \in DOMAIN landed' : Dated(landed[k].tx)'
  BY <1>1 DEF JournalInv, Dated
<1>5. file'.run \in Nat /\ file'.run <= starts'
  BY <1>1 DEF JournalInv
<1> QED  BY <1>1, <1>2, <1>3, <1>4, <1>5 DEF JournalInv, Missing

LEMMA JournalMine ==
  ASSUME JournalInv, ChainInv, MinedInv, WaiverInv, mine PROVE JournalInv'
<1>1. UNCHANGED <<main, file, starts, intents>>
  BY DEF mine, scriptVars
<1>2. starts = 0 => intents' = << >>
  BY <1>1 DEF JournalInv
<1>3. CASE queue # << >> /\ land(Head(queue)) /\ queue' = Tail(queue)
  <2>1. /\ 1 \in DOMAIN queue /\ Head(queue) = queue[1]
        /\ \A k \in DOMAIN queue' : k + 1 \in DOMAIN queue /\ queue'[k] = queue[k + 1]
    BY <1>3, Shortened DEF ChainInv
  <2>2. /\ DOMAIN landed' = DOMAIN landed \cup {Len(landed) + 1}
        /\ \A k \in DOMAIN landed : landed'[k] = landed[k]
        /\ landed'[Len(landed) + 1].tx = Head(queue)
    BY <1>3, Lands
  <2> QED  BY <1>1, <1>2, <2>1, <2>2, JournalSame
<1>4. ASSUME NEW i \in signed, land(waiverTransaction(i)), UNCHANGED queue PROVE JournalInv'
  <2>1. starts # 0
    <3>1. i \in 1..Len(intents) /\ Len(<< >>) = 0
      BY DEF MinedInv, WaiverInv
    <3> QED  BY <3>1 DEF JournalInv
  <2>2. waiverTransaction(i).run = 0
    BY DEF waiverTransaction
  <2>3. /\ DOMAIN landed' = DOMAIN landed \cup {Len(landed) + 1}
        /\ \A k \in DOMAIN landed : landed'[k] = landed[k]
        /\ landed'[Len(landed) + 1].tx = waiverTransaction(i)
    BY <1>4, Lands
  <2>4. Dated(waiverTransaction(i))
    BY <2>2 DEF Dated, JournalInv
  <2> QED  BY <1>1, <1>2, <1>4, <2>1, <2>2, <2>3, <2>4, JournalSame
<1> QED  BY <1>3, <1>4 DEF mine

LEMMA JournalSendUpdate ==
  ASSUME JournalInv, ChainInv, UpdateInv, sendUpdate PROVE JournalInv'
<1>1. UNCHANGED <<landed, main, file, starts, intents>> /\ starts \in Nat /\ starts <= MaxStarts
  BY DEF sendUpdate, JournalInv
<1>2. starts = 0 => intents' = << >>
  BY <1>1 DEF JournalInv
<1>3. CASE UNCHANGED queue
  BY <1>1, <1>2, <1>3, JournalSame
<1>4. CASE queue' = Append(queue, Head(update.todo))
  <2> DEFINE tx == Head(update.todo)
  <2>1. IsUpdateTx(tx)
    BY Shortened DEF UpdateInv, SendsOther, sendUpdate
  <2> HIDE DEF tx
  <2>2. /\ DOMAIN queue' = DOMAIN queue \cup {Len(queue) + 1}
        /\ \A k \in DOMAIN queue : queue'[k] = queue[k]
        /\ queue'[Len(queue) + 1] = tx
    BY <1>4, Appended DEF ChainInv, tx
  <2>3. Dated(tx) /\ tx.run \notin {0, starts}
    BY <1>1, <2>1, ScenariosAssumption DEF Dated, IsUpdateTx
  <2> QED  BY <1>1, <1>2, <2>2, <2>3, JournalSame
<1> QED  BY <1>3, <1>4 DEF sendUpdate

LEMMA JournalInvariant == Spec => []JournalInv
<1>1. Init => JournalInv
  <2> SUFFICES ASSUME Init PROVE JournalInv
    OBVIOUS
  <2>1. /\ main = Off /\ queue = << >> /\ landed = << >> /\ starts = 0 /\ intents = << >>
        /\ file = [run |-> 0, steps |-> {}, outcome |-> "none"] /\ DOMAIN << >> = {}
    BY DEF Init
  <2>2. file.run = 0
    BY <2>1
  <2> QED  BY <2>1, <2>2, ScenariosAssumption DEF JournalInv, Missing, IsSent
<1>2. ASSUME JournalInv, DrawInv, UpdateInv, WaiverInv, FreshInv, [Next]_vars PROVE JournalInv'
  <2>1. ChainInv /\ MainInv /\ RunInv /\ MinedInv
    BY <1>2 DEF DrawInv, FreshInv
  <2>2. CASE UNCHANGED <<main, file, starts, intents, queue, landed>>
    <3>1. starts = 0 => intents' = << >>
      BY <1>2, <2>2 DEF JournalInv
    <3> QED  BY <1>2, <2>2, <3>1, JournalSame
  <2>3. CASE mine
    BY <1>2, <2>1, <2>3, JournalMine
  <2>4. CASE reject
    <3>1. starts # 0
      BY <1>2, <2>4 DEF reject, JournalInv, openIntents, WaiverInv
    <3>2. UNCHANGED <<main, file, starts, queue, landed>>
      BY <2>4 DEF reject, scriptVars
    <3> QED  BY <1>2, <3>1, <3>2, JournalSame
  <2>5. CASE \/ adoptStep \/ awaitReceipt \/ refreshExposureCredential \/ waive \/ proposeWaiver
             \/ approve \/ execute \/ confirm \/ recordWaiver \/ verifyWaiver
             \/ lapse \/ waiverOver \/ end
    BY <1>2, <2>1, <2>5, JournalSteps
  <2>6. CASE transact
    BY <1>2, <2>1, <2>6, JournalTransact
  <2>7. CASE kill
    BY <1>2, <2>7, JournalKill
  <2>8. CASE \E w \in 0..Len(intents), resuming, refreshExposure \in BOOLEAN :
               startRun(w, resuming, refreshExposure)
    <3>1. /\ starts < MaxStarts /\ starts' = starts + 1 /\ UNCHANGED <<queue, landed, file>>
          /\ main' # Off /\ main'.run = starts + 1 /\ main'.steps = {}
      BY <2>8 DEF startRun, Off
    <3> QED  BY <1>2, <3>1, JournalStarts
  <2>9. CASE startRunWaiver
    <3>1. /\ starts < MaxStarts /\ starts' = starts + 1 /\ UNCHANGED <<queue, landed, file>>
          /\ main' # Off /\ main'.run = starts + 1 /\ main'.steps = {}
      BY <2>9 DEF startRunWaiver, Off
    <3> QED  BY <1>2, <3>1, JournalStarts
  <2>10. CASE sendUpdate
    BY <1>2, <2>1, <2>10, JournalSendUpdate
  <2>11. CASE waiverLapses
    BY <2>2, <2>11 DEF waiverLapses, scriptVars
  <2>12. CASE startHedgeUpdate \/ startExposureRefresh \/ recordHedgeUpdate \/ recordExposureRefresh
    BY <2>2, <2>12 DEF startHedgeUpdate, startExposureRefresh, startUpdate, recordHedgeUpdate,
                       recordExposureRefresh
  <2>13. CASE UNCHANGED vars
    BY <2>2, <2>13 DEF vars, scriptVars
  <2> QED  BY <1>2, <2>3, <2>4, <2>5, <2>6, <2>7, <2>8, <2>9, <2>10, <2>11, <2>12, <2>13 DEF Next
<1> QED  BY <1>1, <1>2, DrawInvariant, UpdateInvariant, WaiverInvariant, FreshInvariant, PTL DEF Spec

\* Of what the latest run has on chain, killed or not, the evidence misses one at most.
THEOREM EvidenceKeepsUp == Spec => []JournalKeepsUp
<1>1. ASSUME JournalInv, DrawInv PROVE JournalKeepsUp
  <2> DEFINE A == {r.tx : r \in {q \in Range(landed) : q.tx.run = starts}}
                    \ (IF file.run = starts THEN file.steps ELSE {})
  <2>1. \A tx \in A : Missing(tx)
    BY DEF Range, Missing, IsSent, Written
  <2>2. Single(A)
    BY <1>1, <2>1 DEF JournalInv, Single
  <2> HIDE DEF A
  <2>3. Cardinality(A) <= 1
    BY <2>2, SingleCardinality
  <2> QED  BY <2>3 DEF JournalKeepsUp, A
<1> QED  BY <1>1, JournalInvariant, DrawInvariant, PTL

-----------------------------------------------------------------------------
(* A refusal is asked for once: a run's draw of W-3 has one receipt.       *)

\* Which steps send or mine.
LEMMA Senders ==
  ASSUME [Next]_vars PROVE mine \/ transact \/ sendUpdate \/ UNCHANGED <<queue, landed>>
<1>1. CASE \/ startRunWaiver
           \/ \E w \in 0..Len(intents), resuming, refreshExposure \in BOOLEAN :
                startRun(w, resuming, refreshExposure)
  BY <1>1 DEF startRunWaiver, startRun
<1>2. CASE waiverLapses \/ reject \/ adoptStep \/ awaitReceipt \/ refreshExposureCredential
  BY <1>2 DEF waiverLapses, reject, adoptStep, awaitReceipt, refreshExposureCredential
<1>3. CASE waive \/ proposeWaiver \/ approve \/ execute \/ confirm \/ recordWaiver \/ verifyWaiver
  BY <1>3 DEF waive, proposeWaiver, approve, execute, confirm, recordWaiver, verifyWaiver
<1>4. CASE lapse \/ waiverOver \/ end \/ kill
  BY <1>4 DEF lapse, waiverOver, end, kill
<1>5. CASE startHedgeUpdate \/ startExposureRefresh \/ recordHedgeUpdate \/ recordExposureRefresh
  BY <1>5 DEF startHedgeUpdate, startExposureRefresh, startUpdate, recordHedgeUpdate,
              recordExposureRefresh
<1>6. CASE UNCHANGED vars
  BY <1>6 DEF vars
<1> QED  BY <1>1, <1>2, <1>3, <1>4, <1>5, <1>6 DEF Next

\* What the script sends is what it asks for first, under its number.
LEMMA TransactSends ==
  ASSUME MainInv, ChainInv, JournalInv, transact
  PROVE  /\ main # Off /\ main.at = "next" /\ main.todo # << >> /\ instruction.op = "send"
         /\ Sendable(instruction.tx, starts) /\ main.run = starts
         /\ UNCHANGED <<chain, signed, landed, intents, starts>>
         /\ \/ fail(main.steps) /\ UNCHANGED queue
            \/ /\ DOMAIN queue' = DOMAIN queue \cup {Len(queue) + 1}
               /\ Len(queue) + 1 \notin DOMAIN queue
               /\ \A k \in DOMAIN queue : queue'[k] = queue[k]
               /\ queue'[Len(queue) + 1] = instruction.tx
               /\ main' = [main EXCEPT !.at = "await"] /\ UNCHANGED file
<1>1. /\ main # Off /\ main.at = "next" /\ main.todo # << >> /\ instruction.op = "send"
      /\ WellFormed(main.todo, main.run) /\ main.run = starts
  BY DEF transact, doing, MainInv, JournalInv
<1>2. 1 \in DOMAIN main.todo /\ instruction = main.todo[1]
  BY <1>1, Shortened DEF WellFormed, instruction
<1>3. Sendable(instruction.tx, starts)
  BY <1>1, <1>2 DEF WellFormed
<1>4. \/ fail(main.steps) /\ UNCHANGED queue
      \/ /\ queue' = Append(queue, instruction.tx)
         /\ main' = [main EXCEPT !.at = "await"] /\ UNCHANGED file
  BY DEF transact
<1>5. queue' = Append(queue, instruction.tx) =>
        /\ DOMAIN queue' = DOMAIN queue \cup {Len(queue) + 1}
        /\ Len(queue) + 1 \notin DOMAIN queue
        /\ \A k \in DOMAIN queue : queue'[k] = queue[k]
        /\ queue'[Len(queue) + 1] = instruction.tx
  BY Appended DEF ChainInv
<1>6. UNCHANGED <<chain, signed, landed, intents, starts>>
  BY DEF transact
<1> QED  BY <1>1, <1>3, <1>4, <1>5, <1>6

LEMMA UpdateSends ==
  ASSUME UpdateInv, ChainInv, sendUpdate
  PROVE  /\ UNCHANGED <<chain, signed, landed, intents, main, file, starts>>
         /\ \/ UNCHANGED queue
            \/ /\ DOMAIN queue' = DOMAIN queue \cup {Len(queue) + 1}
               /\ Len(queue) + 1 \notin DOMAIN queue
               /\ \A k \in DOMAIN queue : queue'[k] = queue[k]
               /\ IsUpdateTx(queue'[Len(queue) + 1])
<1> DEFINE tx == Head(update.todo)
<1>1. IsUpdateTx(tx)
  BY Shortened DEF UpdateInv, SendsOther, sendUpdate
<1>2. UNCHANGED queue \/ queue' = Append(queue, tx)
  BY DEF sendUpdate
<1>3. UNCHANGED <<chain, signed, landed, intents, main, file, starts>>
  BY DEF sendUpdate
<1> HIDE DEF tx
<1>4. queue' = Append(queue, tx) =>
        /\ DOMAIN queue' = DOMAIN queue \cup {Len(queue) + 1}
        /\ Len(queue) + 1 \notin DOMAIN queue
        /\ \A k \in DOMAIN queue : queue'[k] = queue[k]
        /\ queue'[Len(queue) + 1] = tx
  BY Appended DEF ChainInv
<1> QED  BY <1>1, <1>2, <1>3, <1>4

\* What is mined was first in the queue, or is a waiver.
LEMMA MineSends ==
  ASSUME ChainInv, mine
  PROVE  /\ UNCHANGED <<main, file, starts, intents>>
         /\ \E tx :
              /\ land(tx)
              /\ \/ /\ 1 \in DOMAIN queue /\ tx = queue[1] /\ signed' = signed
                    /\ tx.fn # "createWaiver"
                    /\ \A k \in DOMAIN queue' :
                         /\ k \in Nat /\ k + 1 \in DOMAIN queue /\ k + 1 # 1
                         /\ queue'[k] = queue[k + 1]
                 \/ /\ UNCHANGED queue
                    /\ \E i \in signed : /\ tx = waiverTransaction(i) /\ signed' = signed \ {i}
                                         /\ \A j \in signed : i <= j
<1>1. UNCHANGED <<main, file, starts, intents>>
  BY DEF mine, scriptVars
<1>2. CASE queue # << >> /\ land(Head(queue)) /\ queue' = Tail(queue) /\ signed' = signed
  <2>1. /\ 1 \in DOMAIN queue /\ Head(queue) = queue[1]
        /\ \A k \in DOMAIN queue' :
             /\ k \in Nat /\ k + 1 \in DOMAIN queue /\ k + 1 # 1
             /\ queue'[k] = queue[k + 1]
    BY <1>2, Shortened DEF ChainInv
  <2> QED  BY <1>1, <1>2, <2>1 DEF ChainInv
<1>3. ASSUME NEW i \in signed, \A j \in signed : i <= j, land(waiverTransaction(i)),
             signed' = signed \ {i}, UNCHANGED queue
      PROVE  \E tx :
              /\ land(tx)
              /\ UNCHANGED queue
              /\ \E l \in signed : /\ tx = waiverTransaction(l) /\ signed' = signed \ {l}
                                   /\ \A j \in signed : l <= j
  BY <1>3
<1> QED  BY <1>1, <1>2, <1>3 DEF mine

isThird(tx) == tx.step = "W-3" /\ tx.fn = "draw"

\* On chain, on its way, or still to be asked for.
ThirdInv ==
  /\ \A j, k \in DOMAIN landed : isThird(landed[j].tx) /\ landed[j].tx = landed[k].tx => j = k
  /\ \A j \in DOMAIN queue, k \in DOMAIN landed : isThird(queue[j]) => queue[j] # landed[k].tx
  /\ \A j, k \in DOMAIN queue : isThird(queue[j]) /\ queue[j] = queue[k] => j = k
  /\ Single(ToAsk("W-3"))
  /\ ToAsk("W-3") # {} =>
       /\ \A k \in DOMAIN landed : isThird(landed[k].tx) => landed[k].tx.run # starts
       /\ \A k \in DOMAIN queue : isThird(queue[k]) => queue[k].run # starts

LEMMA ThirdStays ==
  ASSUME ThirdInv, UNCHANGED <<queue, landed, starts>>, Fewer(ToAsk("W-3")', ToAsk("W-3"))
  PROVE  ThirdInv'
BY DEF ThirdInv, Fewer

LEMMA ThirdMines == ASSUME ThirdInv, ChainInv, mine PROVE ThirdInv'
<1>1. UNCHANGED <<main, starts>> /\ ToAsk("W-3")' = ToAsk("W-3")
  BY MineSends DEF ToAsk
<1>2. PICK tx :
        /\ land(tx)
        /\ \/ /\ 1 \in DOMAIN queue /\ tx = queue[1]
              /\ \A k \in DOMAIN queue' :
                   k \in Nat /\ k + 1 \in DOMAIN queue /\ k + 1 # 1 /\ queue'[k] = queue[k + 1]
           \/ UNCHANGED queue /\ \E i \in signed : tx = waiverTransaction(i)
  BY MineSends
<1>3. /\ DOMAIN landed' = DOMAIN landed \cup {Len(landed) + 1}
      /\ \A k \in DOMAIN landed : landed'[k] = landed[k]
      /\ landed'[Len(landed) + 1].tx = tx
  BY <1>2, Lands
<1>4. CASE UNCHANGED queue /\ ~isThird(tx)
  BY <1>1, <1>3, <1>4 DEF ThirdInv
<1>5. CASE /\ 1 \in DOMAIN queue /\ tx = queue[1]
           /\ \A k \in DOMAIN queue' :
                k \in Nat /\ k + 1 \in DOMAIN queue /\ k + 1 # 1 /\ queue'[k] = queue[k + 1]
  <2>1. \A j, k \in DOMAIN landed' :
          isThird(landed'[j].tx) /\ landed'[j].tx = landed'[k].tx => j = k
    BY <1>3, <1>5 DEF ThirdInv
  <2>2. \A j \in DOMAIN queue', k \in DOMAIN landed' :
          isThird(queue'[j]) => queue'[j] # landed'[k].tx
    BY <1>3, <1>5 DEF ThirdInv
  <2>3. \A j, k \in DOMAIN queue' : isThird(queue'[j]) /\ queue'[j] = queue'[k] => j = k
    <3> SUFFICES ASSUME NEW j \in DOMAIN queue', NEW k \in DOMAIN queue',
                        isThird(queue'[j]), queue'[j] = queue'[k]
                 PROVE  j = k
      OBVIOUS
    <3>1. j + 1 = k + 1
      BY <1>5 DEF ThirdInv
    <3> QED  BY <1>5, <3>1
  <2>4. ToAsk("W-3") # {} =>
          /\ \A k \in DOMAIN landed' : isThird(landed'[k].tx) => landed'[k].tx.run # starts
          /\ \A k \in DOMAIN queue' : isThird(queue'[k]) => queue'[k].run # starts
    BY <1>3, <1>5 DEF ThirdInv
  <2> QED  BY <1>1, <2>1, <2>2, <2>3, <2>4 DEF ThirdInv, isThird
<1>6. \A i : ~isThird(waiverTransaction(i))
  BY DEF isThird, waiverTransaction
<1> QED  BY <1>2, <1>4, <1>5, <1>6

LEMMA ThirdSends == ASSUME ThirdInv, DrawInv, JournalInv, transact PROVE ThirdInv'
<1> DEFINE tx == instruction.tx
           n == Len(queue) + 1
<1>1. /\ main # Off /\ main.at = "next" /\ main.todo # << >> /\ instruction.op = "send"
      /\ Sendable(tx, starts) /\ UNCHANGED <<landed, starts>>
  BY TransactSends DEF DrawInv
<1>2. MainMoves
  <2>1. CASE main' = Off
    BY <2>1, Halted
  <2>2. CASE main' = [main EXCEPT !.at = "await"]
    <3>1. /\ IsRun(main') /\ main'.run = main.run
          /\ main'.at # "next" /\ main'.todo = main.todo
      BY <1>1, <2>2 DEF IsRun, DrawInv, MainInv
    <3> QED  BY <1>1, <3>1, Stayed DEF DrawInv
  <2> QED  BY <2>1, <2>2 DEF transact, fail
<1>3. Fewer(ToAsk("W-3")', ToAsk("W-3"))
  BY <1>2 DEF MainMoves, Drawing
<1>4. CASE UNCHANGED queue
  BY <1>1, <1>3, <1>4, ThirdStays
<1>5. CASE /\ DOMAIN queue' = DOMAIN queue \cup {n} /\ n \notin DOMAIN queue
           /\ \A k \in DOMAIN queue : queue'[k] = queue[k]
           /\ queue'[n] = tx
           /\ main' = [main EXCEPT !.at = "await"]
  <2>1. CASE ~isThird(tx)
    <3> HIDE DEF tx, n
    <3> QED  BY <1>1, <1>3, <1>5, <2>1 DEF ThirdInv, Fewer
  <2>2. CASE isThird(tx)
    <3>1. /\ 1 \in DOMAIN main.todo /\ instruction = main.todo[1]
          /\ \A k \in DOMAIN Tail(main.todo) :
               k \in Nat /\ k + 1 \in DOMAIN main.todo /\ k + 1 # 1
                 /\ Tail(main.todo)[k] = main.todo[k + 1]
      BY <1>1, Shortened DEF DrawInv, MainInv, WellFormed, instruction
    <3>2. 1 \in ToAsk("W-3")
      BY <1>1, <2>2, <3>1 DEF ToAsk, Asked, isThird
    <3>3. main'.todo = main.todo /\ main'.at # "next"
      BY <1>1, <1>5 DEF DrawInv, MainInv, IsRun
    <3>4. ToAsk("W-3")' = {}
      <4> SUFFICES ASSUME NEW k \in Asked("W-3", Tail(main.todo)) PROVE FALSE
        BY <3>3 DEF ToAsk
      <4>1. k + 1 \in ToAsk("W-3") /\ k + 1 # 1
        BY <1>1, <3>1 DEF ToAsk, Asked
      <4> QED  BY <3>2, <4>1 DEF ThirdInv, Single
    <3>5. /\ \A k \in DOMAIN landed : isThird(landed[k].tx) => landed[k].tx # tx
          /\ \A k \in DOMAIN queue : isThird(queue[k]) => queue[k] # tx
      BY <1>1, <3>2 DEF ThirdInv, Sendable
    <3> HIDE DEF tx, n
    <3>6. \A j \in DOMAIN queue', k \in DOMAIN landed' :
            isThird(queue'[j]) => queue'[j] # landed'[k].tx
      BY <1>1, <1>5, <2>2, <3>5 DEF ThirdInv
    <3>7. \A j, k \in DOMAIN queue' : isThird(queue'[j]) /\ queue'[j] = queue'[k] => j = k
      BY <1>5, <2>2, <3>5 DEF ThirdInv
    <3>8. \A j, k \in DOMAIN landed' :
            isThird(landed'[j].tx) /\ landed'[j].tx = landed'[k].tx => j = k
      BY <1>1 DEF ThirdInv
    <3> QED  BY <3>4, <3>6, <3>7, <3>8 DEF ThirdInv, Single, isThird
  <2> QED  BY <2>1, <2>2
<1> QED  BY <1>4, <1>5, TransactSends DEF DrawInv

LEMMA ThirdStarts ==
  ASSUME ThirdInv, JournalInv, UNCHANGED <<queue, landed>>, starts' = starts + 1,
         starts < MaxStarts, Single(ToAsk("W-3")')
  PROVE  ThirdInv'
<1>1. starts \in Nat /\ MaxStarts \in Nat
  BY ScenariosAssumption DEF JournalInv
<1>2. /\ \A k \in DOMAIN landed : landed[k].tx.run # starts + 1
      /\ \A k \in DOMAIN queue : queue[k].run # starts + 1
  BY <1>1 DEF JournalInv, Dated
<1> QED  BY <1>2 DEF ThirdInv

LEMMA ThirdKeeps ==
  ASSUME ThirdInv, DrawInv, UpdateInv, JournalInv, [Next]_vars PROVE ThirdInv'
<1>1. MainInv /\ ChainInv
  BY DEF DrawInv
<1>2. CASE mine \/ transact
  BY <1>1, <1>2, ThirdMines, ThirdSends
<1>3. CASE sendUpdate
  <2>1. UNCHANGED <<landed, main, starts>> /\ ToAsk("W-3")' = ToAsk("W-3")
    BY <1>1, <1>3, UpdateSends DEF ToAsk
  <2>2. CASE UNCHANGED queue
    BY <2>1, <2>2 DEF ThirdInv
  <2>3. CASE /\ DOMAIN queue' = DOMAIN queue \cup {Len(queue) + 1}
             /\ \A k \in DOMAIN queue : queue'[k] = queue[k]
             /\ ~isThird(queue'[Len(queue) + 1])
    BY <2>1, <2>3 DEF ThirdInv
  <2> QED  BY <1>1, <1>3, <2>2, <2>3, UpdateSends DEF IsUpdateTx, isThird
<1>4. ASSUME NEW w, NEW resuming, NEW refreshExposure, startRun(w, resuming, refreshExposure)
      PROVE  ThirdInv'
  <2> DEFINE plan == planRun(stepsOnChain, w # 0, refreshExposure)
             list == program(stepsOnChain, plan, depositNeeded(w # 0, resuming))
  <2>1. /\ main'.at = "next" /\ main'.todo = list /\ starts' = starts + 1
        /\ starts < MaxStarts /\ UNCHANGED <<queue, landed>>
    BY <1>4 DEF startRun
  <2>2. Part(list, plan \cap Drawing, starts + 1)
    BY <1>1, ProgramPart
  <2> HIDE DEF list
  <2>3. Single(ToAsk("W-3")')
    BY <2>1, <2>2 DEF ToAsk, Part, Drawing, Single
  <2> QED  BY <2>1, <2>3, ThirdStarts
<1>5. CASE startRunWaiver
  <2>1. /\ main'.at = "next" /\ main'.todo = perform("propose") /\ starts' = starts + 1
        /\ starts < MaxStarts /\ UNCHANGED <<queue, landed>>
    BY <1>5 DEF startRunWaiver
  <2>2. Part(perform("propose"), {}, starts + 1)
    BY PerformPart
  <2>3. Single(ToAsk("W-3")')
    BY <2>1, <2>2 DEF ToAsk, Part, Drawing, Single
  <2> QED  BY <2>1, <2>3, ThirdStarts
<1>6. CASE \/ adoptStep \/ awaitReceipt \/ refreshExposureCredential \/ waive \/ proposeWaiver
           \/ approve \/ execute \/ confirm \/ recordWaiver \/ verifyWaiver
           \/ lapse \/ waiverOver \/ end \/ kill
  <2>1. MainMoves
    BY <1>1, <1>6, QuietSteps
  <2>2. UNCHANGED <<queue, landed, starts>>
    BY <1>6 DEF adoptStep, awaitReceipt, refreshExposureCredential, waive, proposeWaiver,
                approve, execute, confirm, recordWaiver, verifyWaiver, lapse, waiverOver, end, kill
  <2> QED  BY <2>1, <2>2, ThirdStays DEF MainMoves, Drawing
<1>7. CASE UNCHANGED <<main, queue, landed, starts>>
  <2>1. ToAsk("W-3")' = ToAsk("W-3")
    BY <1>7 DEF ToAsk
  <2> QED  BY <1>7, <2>1 DEF ThirdInv
<1>8. CASE waiverLapses \/ reject \/ UNCHANGED vars
  BY <1>7, <1>8 DEF waiverLapses, reject, scriptVars, vars
<1>9. CASE startHedgeUpdate \/ startExposureRefresh \/ recordHedgeUpdate \/ recordExposureRefresh
  BY <1>7, <1>9 DEF startHedgeUpdate, startExposureRefresh, startUpdate, recordHedgeUpdate,
                    recordExposureRefresh
<1> QED  BY <1>2, <1>3, <1>4, <1>5, <1>6, <1>8, <1>9 DEF Next

LEMMA ThirdInvariant == Spec => []ThirdInv
<1>1. Init => ThirdInv
  <2> SUFFICES ASSUME Init PROVE ThirdInv
    OBVIOUS
  <2>1. main = Off /\ queue = << >> /\ landed = << >> /\ DOMAIN << >> = {}
    BY DEF Init
  <2> QED  BY <2>1 DEF ThirdInv, ToAsk, Single
<1>2. ASSUME ThirdInv, DrawInv, UpdateInv, JournalInv, [Next]_vars PROVE ThirdInv'
  BY <1>2, ThirdKeeps
<1> QED  BY <1>1, <1>2, DrawInvariant, UpdateInvariant, JournalInvariant, PTL DEF Spec

-----------------------------------------------------------------------------
(* The order of a program.                                                 *)

stageOf(step) ==
  CASE step = "W-1" -> 1 [] step = "W-2" -> 2 [] step = "W-3" -> 3
    [] step = "W-5" -> 5 [] step = "W-6" -> 6 [] OTHER -> 7

stage(i) ==
  CASE i.op = "adopt"      -> 0
    [] i.op = "send"       -> stageOf(i.tx.step)
    [] i.op = "waive"      -> 4
    [] i.op = "lapse"      -> 5
    [] i.op = "waiverOver" -> 6
    [] i.op = "refresh"    -> 7
    [] OTHER               -> 8

\* The refusal and the draw under the waiver are draws, and are all of their steps.
Shaped(tx) == tx.step \in {"W-3", "W-5"} => tx.fn = "draw"

\* The script never proposes outside of its own waiver step.
Regular(i) == i.op # "propose" /\ (i.op = "send" => Shaped(i.tx))

InOrder(t, lo, hi) ==
  /\ IsSeq(t)
  /\ \A k \in DOMAIN t : /\ lo <= stage(t[k]) /\ stage(t[k]) <= hi
                         /\ Regular(t[k])
  /\ \A j, k \in DOMAIN t : j < k => stage(t[j]) <= stage(t[k])

LEMMA StageType == ASSUME NEW i PROVE stage(i) \in 0..8
<1>1. \A step : stageOf(step) \in 0..8
  BY DEF stageOf
<1> QED  BY <1>1 DEF stage

LEMMA OrderJoins ==
  ASSUME NEW t, NEW u, NEW a \in 0..8, NEW b \in 0..8, NEW c \in 0..8, NEW d \in 0..8,
         InOrder(t, a, b), InOrder(u, c, d), a <= b, b <= c, c <= d
  PROVE  /\ InOrder(t \o u, a, d)
         /\ Range(t \o u) = Range(t) \cup Range(u)
<1>1. /\ IsSeq(t \o u) /\ Len(t) \in Nat /\ DOMAIN t = 1..Len(t)
      /\ Len(u) \in Nat /\ DOMAIN u = 1..Len(u)
      /\ DOMAIN (t \o u) = 1..(Len(t) + Len(u))
      /\ \A k \in DOMAIN t : k \in DOMAIN (t \o u) /\ (t \o u)[k] = t[k]
      /\ \A k \in DOMAIN (t \o u) :
           k \notin DOMAIN t => k - Len(t) \in DOMAIN u /\ (t \o u)[k] = u[k - Len(t)]
  BY Joined, SeqDomain DEF InOrder
<1>2. Range(t \o u) = Range(t) \cup Range(u)
  <2>1. Range(t \o u) \subseteq Range(t) \cup Range(u)
    BY <1>1 DEF Range
  <2>2. Range(t) \subseteq Range(t \o u)
    BY <1>1 DEF Range
  <2>3. Range(u) \subseteq Range(t \o u)
    <3> SUFFICES ASSUME NEW k \in DOMAIN u PROVE u[k] \in Range(t \o u)
      BY DEF Range
    <3>1. k + Len(t) \in DOMAIN (t \o u) /\ k + Len(t) \notin DOMAIN t /\ (k + Len(t)) - Len(t) = k
      BY <1>1
    <3>2. (t \o u)[k + Len(t)] = u[k]
      BY <1>1, <3>1
    <3> QED  BY <3>1, <3>2 DEF Range
  <2> QED  BY <2>1, <2>2, <2>3
<1>3. ASSUME NEW k \in DOMAIN (t \o u)
      PROVE  /\ a <= stage((t \o u)[k]) /\ stage((t \o u)[k]) <= d
             /\ Regular((t \o u)[k])
             /\ k \in DOMAIN t => stage((t \o u)[k]) <= b
             /\ k \notin DOMAIN t => c <= stage((t \o u)[k])
  <2>1. stage((t \o u)[k]) \in 0..8
    BY StageType
  <2>2. CASE k \in DOMAIN t
    BY <1>1, <2>1, <2>2 DEF InOrder
  <2>3. CASE k \notin DOMAIN t
    <3>1. k - Len(t) \in DOMAIN u /\ (t \o u)[k] = u[k - Len(t)]
      BY <1>1, <2>3
    <3>2. /\ c <= stage(u[k - Len(t)]) /\ stage(u[k - Len(t)]) <= d
          /\ Regular(u[k - Len(t)])
      BY <3>1 DEF InOrder
    <3>3. a <= c
      BY ONLY a <= b, b <= c, a \in 0..8, b \in 0..8, c \in 0..8
    <3> QED
      BY ONLY <2>1, <2>3, <3>1, <3>2, <3>3, a \in 0..8, c \in 0..8
  <2> QED  BY <2>2, <2>3
<1>4. ASSUME NEW j \in DOMAIN (t \o u), NEW k \in DOMAIN (t \o u), j < k
      PROVE  stage((t \o u)[j]) <= stage((t \o u)[k])
  <2>1. CASE k \in DOMAIN t
    <3>1. j \in DOMAIN t
      BY <1>1, <1>4, <2>1
    <3> QED  BY <1>1, <1>4, <2>1, <3>1 DEF InOrder
  <2>2. CASE k \notin DOMAIN t /\ j \in DOMAIN t
    <3> DEFINE v == t \o u
    <3>1. stage(v[j]) \in 0..8 /\ stage(v[k]) \in 0..8
      BY StageType
    <3>2. stage(v[j]) <= b /\ c <= stage(v[k])
      BY <1>3, <2>2
    <3> HIDE DEF v
    <3>3. stage(v[j]) <= stage(v[k])
      BY ONLY <3>1, <3>2, b <= c, b \in 0..8, c \in 0..8
    <3> QED  BY <3>3 DEF v
  <2>3. CASE k \notin DOMAIN t /\ j \notin DOMAIN t
    <3>1. j - Len(t) < k - Len(t)
      BY <1>1, <1>4
    <3> QED  BY <1>1, <2>3, <3>1 DEF InOrder
  <2> QED  BY <2>1, <2>2, <2>3
<1> QED  BY <1>1, <1>2, <1>3, <1>4 DEF InOrder

LEMMA EmptyOrder == ASSUME NEW a, NEW b PROVE InOrder(<< >>, a, b) /\ Range(<< >>) = {}
<1>1. IsSeq(<< >>) /\ DOMAIN << >> = {}
  BY DEF IsSeq
<1> QED  BY <1>1 DEF InOrder, Range

LEMMA OneOrder ==
  ASSUME NEW i, Regular(i), NEW n \in 0..8, stage(i) = n
  PROVE  InOrder(<<i>>, n, n) /\ Range(<<i>>) = {i}
<1> DEFINE t == <<i>>
<1>1. t \in Seq({i}) /\ DOMAIN t = {1} /\ t[1] = i
  OBVIOUS
<1> HIDE DEF t
<1>2. Range(t) = {i}
  BY <1>1 DEF Range
<1>3. InOrder(t, n, n)
  BY <1>1 DEF InOrder, IsSeq
<1> QED  BY <1>2, <1>3 DEF t

\* What is left after the first instruction is not due before it.
LEMMA RestInOrder ==
  ASSUME NEW t, InOrder(t, 0, 8), t # << >>
  PROVE  /\ InOrder(Tail(t), stage(Head(t)), 8)
         /\ InOrder(Tail(t), 0, 8)
         /\ Range(t) = {Head(t)} \cup Range(Tail(t))
         /\ \A i \in Range(t) : stage(Head(t)) <= stage(i)
         /\ Regular(Head(t))
<1>1. /\ IsSeq(Tail(t)) /\ 1 \in DOMAIN t /\ Head(t) = t[1]
      /\ \A k \in DOMAIN Tail(t) :
           k \in Nat /\ k + 1 \in DOMAIN t /\ k + 1 # 1 /\ Tail(t)[k] = t[k + 1]
  BY Shortened DEF InOrder
<1>2. \A k \in DOMAIN t : k = 1 \/ (k - 1 \in DOMAIN Tail(t) /\ t[k] = Tail(t)[k - 1])
  <2>1. PICK S : t \in Seq(S)
    BY DEF InOrder, IsSeq
  <2> QED  BY <2>1
<1>3. Range(t) = {Head(t)} \cup Range(Tail(t))
  <2> DEFINE u == Tail(t)
             h == Head(t)
  <2>1. 1 \in DOMAIN t /\ h = t[1] /\ \A k \in DOMAIN u : k + 1 \in DOMAIN t /\ u[k] = t[k + 1]
    BY <1>1
  <2>2. \A k \in DOMAIN t : t[k] = h \/ (k - 1 \in DOMAIN u /\ t[k] = u[k - 1])
    BY <1>1, <1>2
  <2> HIDE DEF u, h
  <2>3. Range(t) = {h} \cup Range(u)
    BY <2>1, <2>2 DEF Range
  <2> QED  BY <2>3 DEF u, h
<1>4. \A k \in DOMAIN t : k \in Nat /\ 1 <= k
  BY SeqDomain DEF InOrder
<1>5. InOrder(Tail(t), stage(Head(t)), 8) /\ InOrder(Tail(t), 0, 8)
  <2>1. \A j, k \in DOMAIN Tail(t) : j < k => j + 1 < k + 1
    BY <1>1
  <2>2. \A k \in DOMAIN Tail(t) : 1 < k + 1
    BY <1>1, <1>4
  <2> QED  BY <1>1, <2>1, <2>2 DEF InOrder
<1>6. \A i \in Range(t) : stage(Head(t)) <= stage(i)
  <2> SUFFICES ASSUME NEW k \in DOMAIN t PROVE stage(t[1]) <= stage(t[k])
    BY <1>1 DEF Range
  <2>1. k = 1 \/ 1 < k
    BY <1>4
  <2>2. stage(t[1]) \in 0..8
    BY StageType
  <2> QED  BY <1>1, <2>1, <2>2 DEF InOrder
<1> QED  BY <1>1, <1>3, <1>5, <1>6 DEF InOrder

-----------------------------------------------------------------------------
(* What a program asks for.                                                *)

Steps == {"W-1", "W-2", "W-3", "W-5", "W-6"}

isCall(tx, step) == tx.step = step /\ tx.fn = lastCall(step)

\* Where the last call of a step is on chain with the outcome of the sequence.
done(step) ==
  {k \in DOMAIN landed : landed[k].tx.run > 0 /\ isCall(landed[k].tx, step)
                         /\ landed[k].ok = Outcome(step)}

Asks(t, step) == \E i \in Range(t) : i.op = "send" /\ isCall(i.tx, step)
Adopts(t, tx) == \E i \in Range(t) : i.op = "adopt" /\ i.tx = tx
Waives(t) == \E i \in Range(t) : i.op = "waive"

LEMMA DoneOnChain == ASSUME NEW step \in Steps PROVE step \in stepsOnChain <=> done(step) # {}
BY DEF Steps, stepsOnChain, done, isCall, Range, Phases, PHASES

\* The n-th of a set of numbers is each of them once.
LEMMA NthHits ==
  ASSUME NEW S, S \subseteq Nat, IsFiniteSet(S), NEW k \in S
  PROVE  \E n \in 1..Cardinality(S) : nth(S, n) = k
<1> DEFINE below(j) == {i \in S : i <= j}
           n == Cardinality(below(k))
<1>1. \A j \in S : IsFiniteSet(below(j))
  <2> SUFFICES ASSUME NEW j \in S PROVE IsFiniteSet(below(j))
    OBVIOUS
  <2>1. below(j) \subseteq S
    OBVIOUS
  <2> HIDE DEF below
  <2> QED  BY <2>1, FS_Subset
<1>2. n \in 1..Cardinality(S)
  <2>1. below(k) \subseteq S /\ k \in below(k)
    OBVIOUS
  <2> HIDE DEF below
  <2>2. Cardinality(below(k)) <= Cardinality(S) /\ Cardinality(S) \in Nat
    BY <2>1, FS_Subset, FS_CardinalityType
  <2>3. Cardinality(below(k)) \in Nat /\ Cardinality(below(k)) # 0
    BY <1>1, <2>1, FS_CardinalityType, FS_EmptySet
  <2> QED  BY <2>2, <2>3
<1>3. ASSUME NEW i \in S, NEW j \in S, i < j PROVE Cardinality(below(i)) # Cardinality(below(j))
  <2>1. below(i) \subseteq below(j) /\ j \in below(j) /\ j \notin below(i)
    <3>1. j <= j /\ ~(j <= i) /\ \A l \in S : l <= i => l <= j
      BY <1>3
    <3> QED  BY <3>1
  <2>2. IsFiniteSet(below(j))
    BY <1>1
  <2> HIDE DEF below
  <2> QED  BY <2>1, <2>2, FS_Subset
<1>4. \A j \in S : Cardinality(below(j)) = n => j = k
  <2> SUFFICES ASSUME NEW j \in S, Cardinality(below(j)) = n PROVE j = k
    OBVIOUS
  <2>1. j \in Nat /\ k \in Nat
    OBVIOUS
  <2> HIDE DEF below
  <2> QED  BY <1>3, <2>1 DEF n
<1>5. nth(S, n) = k
  <2>1. nth(S, n) = CHOOSE j \in S : Cardinality(below(j)) = n
    BY DEF nth
  <2> HIDE DEF below
  <2> QED  BY <1>4, <2>1 DEF n
<1> QED  BY <1>2, <1>5

LEMMA AdoptionsOrder ==
  ASSUME ChainInv, NEW steps
  PROVE  /\ InOrder(adoptions(steps), 0, 0)
         /\ \A i \in Range(adoptions(steps)) : i.op = "adopt"
         /\ \A step \in steps : \A k \in done(step) : Adopts(adoptions(steps), landed[k].tx)
<1> DEFINE named == {k \in DOMAIN landed : /\ landed[k].tx.run > 0 /\ landed[k].tx.step \in steps
                                          /\ landed[k].ok = Outcome(landed[k].tx.step)}
           adoption(n) == [op |-> "adopt", tx |-> landed[nth(named, n)].tx]
           N == Cardinality(named)
<1>1. adoptions(steps) = [n \in 1..N |-> adoption(n)]
  BY DEF adoptions
<1>2. IsFiniteSet(named) /\ named \subseteq Nat
  <2>1. DOMAIN landed = 1..Len(landed) /\ Len(landed) \in Nat
    BY SeqDomain DEF ChainInv
  <2>2. IsFiniteSet(DOMAIN landed)
    BY <2>1, FS_Interval
  <2>3. named \subseteq DOMAIN landed
    OBVIOUS
  <2> HIDE DEF named
  <2> QED  BY <2>1, <2>2, <2>3, FS_Subset
<1>3. N \in Nat
  <2> HIDE DEF named
  <2> QED  BY <1>2, FS_CardinalityType
<1>4. \A step \in steps : done(step) \subseteq named
  BY DEF done, isCall
<1>5. \A k \in named : \E n \in 1..N : nth(named, n) = k
  <2> HIDE DEF named
  <2> QED  BY <1>2, NthHits
<1>6. \A n \in 1..N : adoption(n).op = "adopt" /\ adoption(n).tx = landed[nth(named, n)].tx
  OBVIOUS
<1>7. \A n \in 1..N : stage(adoption(n)) = 0
  BY DEF stage
<1> HIDE DEF adoption, N, named
<1> DEFINE t == [n \in 1..N |-> adoption(n)]
           S == {adoption(n) : n \in 1..N}
<1>8. DOMAIN t = 1..N /\ \A n \in 1..N : t[n] = adoption(n)
  OBVIOUS
<1>9. t \in [1..N -> S]
  OBVIOUS
<1> HIDE DEF t, S
<1>10. IsSeq(t)
  BY <1>3, <1>9, SeqDef DEF IsSeq
<1>11. InOrder(t, 0, 0)
  BY <1>6, <1>7, <1>8, <1>10 DEF InOrder, Regular
<1>12. \A i \in Range(t) : i.op = "adopt"
  BY <1>6, <1>8 DEF Range
<1>13. ASSUME NEW step \in steps, NEW k \in done(step) PROVE Adopts(t, landed[k].tx)
  <2>1. PICK n \in 1..N : nth(named, n) = k
    BY <1>4, <1>5
  <2>2. t[n] \in Range(t) /\ t[n].op = "adopt" /\ t[n].tx = landed[k].tx
    BY <1>6, <1>8, <2>1 DEF Range
  <2> QED  BY <2>2 DEF Adopts
<1> QED  BY <1>1, <1>11, <1>12, <1>13 DEF t

LEMMA SendOrder ==
  ASSUME NEW step, NEW fn, NEW arg, step \in {"W-3", "W-5"} => fn = "draw"
  PROVE  /\ InOrder(send(step, fn, arg), stageOf(step), stageOf(step))
         /\ fn = lastCall(step) => Asks(send(step, fn, arg), step)
<1> DEFINE tx == [run |-> starts + 1, step |-> step, fn |-> fn, arg |-> arg]
           i == [op |-> "send", tx |-> tx]
<1>1. i.op = "send" /\ i.tx.step = step /\ i.tx.fn = fn /\ send(step, fn, arg) = <<i>>
  BY DEF send
<1> HIDE DEF i
<1>2. stage(i) = stageOf(step) /\ stageOf(step) \in 0..8 /\ Regular(i)
  BY <1>1 DEF stage, stageOf, Regular, Shaped
<1>3. InOrder(<<i>>, stageOf(step), stageOf(step)) /\ Range(<<i>>) = {i}
  BY <1>2, OneOrder
<1>4. fn = lastCall(step) => Asks(<<i>>, step)
  BY <1>1, <1>3 DEF Asks, isCall
<1> QED  BY <1>1, <1>3, <1>4

LEMMA PerformOrder ==
  ASSUME NEW op, op \notin {"send", "propose"}
  PROVE  /\ InOrder(perform(op), stage([op |-> op]), stage([op |-> op]))
         /\ op = "waive" => Waives(perform(op))
<1> DEFINE i == [op |-> op]
<1>1. i.op = op /\ perform(op) = <<i>>
  BY DEF perform
<1>2. stage(i) \in 0..8 /\ Regular(i)
  BY StageType DEF Regular
<1> HIDE DEF i
<1>3. InOrder(<<i>>, stage(i), stage(i)) /\ Range(<<i>>) = {i}
  BY <1>1, <1>2, OneOrder
<1>4. op = "waive" => Waives(perform(op))
  BY <1>1, <1>3 DEF Waives
<1>5. InOrder(perform(op), stage(i), stage(i))
  BY <1>1, <1>3
<1> QED  BY <1>4, <1>5 DEF i

LEMMA FundAndDrawOrder ==
  ASSUME NEW deposit
  PROVE  InOrder(fundAndDraw(deposit), 1, 1) /\ Asks(fundAndDraw(deposit), "W-1")
<1> DEFINE a == IF chain.allowance < deposit THEN send("W-1", "approve", deposit) ELSE << >>
           b == IF deposit > 0 THEN send("W-1", "deposit", deposit) ELSE << >>
           c == send("W-1", "draw", 1)
<1>1. stageOf("W-1") = 1 /\ lastCall("W-1") = "draw"
  BY DEF stageOf, lastCall
<1>2. InOrder(a, 1, 1) /\ InOrder(b, 1, 1) /\ InOrder(c, 1, 1) /\ Asks(c, "W-1")
  BY <1>1, SendOrder, EmptyOrder
<1>3. fundAndDraw(deposit) = (a \o b) \o c
  BY DEF fundAndDraw
<1> HIDE DEF a, b, c
<1>4. InOrder(a \o b, 1, 1)
  BY <1>2, OrderJoins
<1>5. InOrder((a \o b) \o c, 1, 1) /\ Range((a \o b) \o c) = Range(a \o b) \cup Range(c)
  BY <1>2, <1>4, OrderJoins
<1> QED  BY <1>2, <1>3, <1>5 DEF Asks

\* A program is in the order of the sequence, adopts all there is of what it is told to adopt,
\* and asks for the last call of every other step.
LEMMA ProgramOrder ==
  ASSUME ChainInv, NEW adopted, NEW plan, NEW deposit
  PROVE  /\ InOrder(program(adopted, plan, deposit), 0, 8)
         /\ Waives(program(adopted, plan, deposit))
         /\ \A step \in Steps \cap plan : Asks(program(adopted, plan, deposit), step)
         /\ \A step \in adopted : \A k \in done(step) :
              Adopts(program(adopted, plan, deposit), landed[k].tx)
<1> DEFINE when(step, instructions) == IF step \in plan THEN instructions ELSE << >>
           update2 == send("W-2", "submitRefreshed", chain.hedge + 1) \o send("W-2", "syncCovenant", 0)
           p0 == adoptions(adopted)
           p1 == when("W-1", fundAndDraw(deposit))
           p2 == when("W-2", update2)
           p3 == when("W-3", send("W-3", "draw", 1))
           p4 == perform("waive")
           p5 == when("W-5", send("W-5", "draw", 1))
           p6 == perform("lapse")
           p7 == when("W-6", send("W-6", "syncCovenant", 0))
           p8 == perform("waiverOver")
           p9 == when("W-7", perform("refresh"))
           p10 == perform("end")
<1>1. /\ stageOf("W-2") = 2 /\ stageOf("W-3") = 3 /\ stageOf("W-5") = 5 /\ stageOf("W-6") = 6
      /\ lastCall("W-2") = "syncCovenant" /\ lastCall("W-3") = "draw"
      /\ lastCall("W-5") = "draw" /\ lastCall("W-6") = "syncCovenant"
  BY DEF stageOf, lastCall
<1>2. /\ stage([op |-> "waive"]) = 4 /\ stage([op |-> "lapse"]) = 5
      /\ stage([op |-> "waiverOver"]) = 6 /\ stage([op |-> "refresh"]) = 7
      /\ stage([op |-> "end"]) = 8
  BY DEF stage
<1>3. /\ InOrder(p0, 0, 0)
      /\ \A step \in adopted : \A k \in done(step) : Adopts(p0, landed[k].tx)
  BY AdoptionsOrder
<1>4. InOrder(p1, 1, 1) /\ ("W-1" \in plan => Asks(p1, "W-1"))
  BY FundAndDrawOrder, EmptyOrder
<1>5. InOrder(p2, 2, 2) /\ ("W-2" \in plan => Asks(p2, "W-2"))
  <2> DEFINE a == send("W-2", "submitRefreshed", chain.hedge + 1)
             b == send("W-2", "syncCovenant", 0)
  <2>1. InOrder(a, 2, 2) /\ InOrder(b, 2, 2) /\ Asks(b, "W-2")
    BY <1>1, SendOrder
  <2> HIDE DEF a, b
  <2>2. InOrder(a \o b, 2, 2) /\ Asks(a \o b, "W-2")
    BY <2>1, OrderJoins DEF Asks
  <2>3. update2 = a \o b
    BY DEF a, b
  <2> QED  BY <2>2, <2>3, EmptyOrder
<1>6. InOrder(p3, 3, 3) /\ ("W-3" \in plan => Asks(p3, "W-3"))
  BY <1>1, SendOrder, EmptyOrder
<1>7. InOrder(p5, 5, 5) /\ ("W-5" \in plan => Asks(p5, "W-5"))
  BY <1>1, SendOrder, EmptyOrder
<1>8. InOrder(p7, 6, 6) /\ ("W-6" \in plan => Asks(p7, "W-6"))
  BY <1>1, SendOrder, EmptyOrder
<1>9. /\ InOrder(p4, 4, 4) /\ Waives(p4) /\ InOrder(p6, 5, 5) /\ InOrder(p8, 6, 6)
      /\ InOrder(p10, 8, 8)
  BY <1>2, PerformOrder
<1>10. InOrder(p9, 7, 7)
  BY <1>2, PerformOrder, EmptyOrder
<1>11. program(adopted, plan, deposit)
         = (((((((((p0 \o p1) \o p2) \o p3) \o p4) \o p5) \o p6) \o p7) \o p8) \o p9) \o p10
  BY DEF program
<1> HIDE DEF p0, p1, p2, p3, p4, p5, p6, p7, p8, p9, p10, when, update2
<1> DEFINE q1 == p0 \o p1
<1>12. InOrder(q1, 0, 1) /\ Range(q1) = Range(p0) \cup Range(p1)
  BY <1>3, <1>4, OrderJoins
<1> HIDE DEF q1
<1> DEFINE q2 == q1 \o p2
<1>13. InOrder(q2, 0, 2) /\ Range(q2) = Range(q1) \cup Range(p2)
  BY <1>5, <1>12, OrderJoins
<1> HIDE DEF q2
<1> DEFINE q3 == q2 \o p3
<1>14. InOrder(q3, 0, 3) /\ Range(q3) = Range(q2) \cup Range(p3)
  BY <1>6, <1>13, OrderJoins
<1> HIDE DEF q3
<1> DEFINE q4 == q3 \o p4
<1>15. InOrder(q4, 0, 4) /\ Range(q4) = Range(q3) \cup Range(p4)
  BY <1>9, <1>14, OrderJoins
<1> HIDE DEF q4
<1> DEFINE q5 == q4 \o p5
<1>16. InOrder(q5, 0, 5) /\ Range(q5) = Range(q4) \cup Range(p5)
  BY <1>7, <1>15, OrderJoins
<1> HIDE DEF q5
<1> DEFINE q6 == q5 \o p6
<1>17. InOrder(q6, 0, 5) /\ Range(q6) = Range(q5) \cup Range(p6)
  BY <1>9, <1>16, OrderJoins
<1> HIDE DEF q6
<1> DEFINE q7 == q6 \o p7
<1>18. InOrder(q7, 0, 6) /\ Range(q7) = Range(q6) \cup Range(p7)
  BY <1>8, <1>17, OrderJoins
<1> HIDE DEF q7
<1> DEFINE q8 == q7 \o p8
<1>19. InOrder(q8, 0, 6) /\ Range(q8) = Range(q7) \cup Range(p8)
  BY <1>9, <1>18, OrderJoins
<1> HIDE DEF q8
<1> DEFINE q9 == q8 \o p9
<1>20. InOrder(q9, 0, 7) /\ Range(q9) = Range(q8) \cup Range(p9)
  BY <1>10, <1>19, OrderJoins
<1> HIDE DEF q9
<1> DEFINE q10 == q9 \o p10
<1>21. InOrder(q10, 0, 8) /\ Range(q10) = Range(q9) \cup Range(p10)
  BY <1>9, <1>20, OrderJoins
<1> HIDE DEF q10
<1>22. program(adopted, plan, deposit) = q10
  BY <1>11 DEF q1, q2, q3, q4, q5, q6, q7, q8, q9, q10
<1>23. /\ Range(p0) \cup Range(p1) \cup Range(p2) \cup Range(p3) \subseteq Range(q10)
       /\ Range(p4) \cup Range(p5) \cup Range(p7) \subseteq Range(q10)
  BY <1>12, <1>13, <1>14, <1>15, <1>16, <1>17, <1>18, <1>19, <1>20, <1>21
<1>24. \A step \in Steps \cap plan : Asks(q10, step)
  BY <1>4, <1>5, <1>6, <1>7, <1>8, <1>23 DEF Asks, Steps
<1>25. \A step \in adopted : \A k \in done(step) : Adopts(q10, landed[k].tx)
  BY <1>3, <1>23 DEF Adopts
<1>26. Waives(q10)
  BY <1>9, <1>23 DEF Waives
<1> QED  BY <1>21, <1>22, <1>24, <1>25, <1>26

-----------------------------------------------------------------------------
(* What a mined transaction adds.                                          *)

\* One more receipt, with what the facility was and became.
LEMMA Receipt ==
  ASSUME ChainInv, NEW tx, land(tx)
  PROVE  /\ landed'[Len(landed) + 1].ok = wouldSucceed(tx)
         /\ landed'[Len(landed) + 1].covenant = covenantAt(chain')
<1> DEFINE receipt == [tx |-> tx, ok |-> wouldSucceed(tx), refusal |-> refusalAt,
                       covenant |-> covenantAt(chain')]
<1>1. /\ receipt.ok = wouldSucceed(tx) /\ receipt.covenant = covenantAt(chain')
      /\ landed' = Append(landed, receipt)
  BY DEF land
<1> HIDE DEF receipt
<1> QED  BY <1>1, Appended DEF ChainInv

LEMMA DoneLands ==
  ASSUME ChainInv, NEW tx, land(tx), NEW step
  PROVE  /\ done(step) \subseteq done(step)'
         /\ done(step)' \subseteq done(step) \cup {Len(landed) + 1}
         /\ Len(landed) + 1 \in done(step)' => isCall(tx, step)
         /\ \A k \in done(step) : k \in DOMAIN landed /\ k \in Nat /\ k < Len(landed) + 1
<1>1. /\ DOMAIN landed' = DOMAIN landed \cup {Len(landed) + 1}
      /\ \A k \in DOMAIN landed : landed'[k] = landed[k]
      /\ landed'[Len(landed) + 1].tx = tx
  BY Lands
<1>2. DOMAIN landed = 1..Len(landed) /\ Len(landed) \in Nat
  BY SeqDomain DEF ChainInv
<1> QED  BY <1>1, <1>2 DEF done, isCall

LEMMA DoneStays == ASSUME UNCHANGED landed, NEW step PROVE done(step)' = done(step)
BY DEF done, isCall

-----------------------------------------------------------------------------
(* A step goes ahead only when the one before it is on chain.              *)

Linked(first, second) ==
  /\ \A k \in done(second) : \E j \in done(first) : j < k
  /\ (\E k \in DOMAIN queue : isCall(queue[k], second)) => done(first) # {}

LinkInv ==
  /\ \A k \in DOMAIN queue : Shaped(queue[k])
  /\ \A k \in DOMAIN landed : Shaped(landed[k].tx)
  /\ Linked("W-1", "W-2") /\ Linked("W-2", "W-3") /\ Linked("W-5", "W-6")

LEMMA LinkedKeeps ==
  ASSUME MainInv, ChainInv, UpdateInv, JournalInv, [Next]_vars,
         NEW first \in Steps, NEW second \in Steps, Linked(first, second),
         transact /\ isCall(instruction.tx, second) => done(first) # {}
  PROVE  Linked(first, second)'
<1>1. ASSUME UNCHANGED landed,
             \A k \in DOMAIN queue' : isCall(queue'[k], second) =>
               (\E j \in DOMAIN queue : isCall(queue[j], second)) \/ done(first) # {}
      PROVE  Linked(first, second)'
  <2>1. done(first)' = done(first) /\ done(second)' = done(second)
    BY <1>1, DoneStays
  <2> QED  BY <1>1, <2>1 DEF Linked, isCall
<1>2. CASE UNCHANGED <<queue, landed>>
  BY <1>1, <1>2
<1>3. CASE transact
  BY <1>1, <1>3, TransactSends
<1>4. CASE sendUpdate
  <2>1. \A tx : IsUpdateTx(tx) => ~isCall(tx, second)
    BY DEF IsUpdateTx, isCall, Steps
  <2> QED  BY <1>1, <1>4, <2>1, UpdateSends
<1>5. CASE mine
  <2>1. PICK tx :
          /\ land(tx)
          /\ \/ /\ 1 \in DOMAIN queue /\ tx = queue[1]
                /\ \A k \in DOMAIN queue' : k + 1 \in DOMAIN queue /\ queue'[k] = queue[k + 1]
             \/ UNCHANGED queue /\ \E i : tx = waiverTransaction(i)
    BY <1>5, MineSends
  <2>2. \A i : ~isCall(waiverTransaction(i), second)
    BY DEF isCall, waiverTransaction, Steps
  <2>3. /\ done(second)' \subseteq done(second) \cup {Len(landed) + 1}
        /\ Len(landed) + 1 \in done(second)' => isCall(tx, second)
        /\ done(first) \subseteq done(first)'
        /\ \A k \in done(first) : k < Len(landed) + 1
    BY <2>1, DoneLands
  <2>4. \A k \in done(second)' : \E j \in done(first)' : j < k
    <3> SUFFICES ASSUME NEW k \in done(second)', k = Len(landed) + 1
                 PROVE  \E j \in done(first)' : j < k
      BY <2>3 DEF Linked
    <3>1. done(first) # {}
      BY <2>1, <2>2, <2>3 DEF Linked
    <3> QED  BY <2>3, <3>1
  <2>5. (\E k \in DOMAIN queue' : isCall(queue'[k], second)) => done(first)' # {}
    BY <2>1, <2>3 DEF Linked
  <2> QED  BY <2>4, <2>5 DEF Linked, isCall
<1> QED  BY <1>2, <1>3, <1>4, <1>5, Senders

LEMMA ShapeKeeps ==
  ASSUME MainInv, ChainInv, UpdateInv, JournalInv, LinkInv, [Next]_vars,
         transact => Shaped(instruction.tx)
  PROVE  /\ \A k \in DOMAIN queue' : Shaped(queue'[k])
         /\ \A k \in DOMAIN landed' : Shaped(landed'[k].tx)
<1>1. CASE UNCHANGED <<queue, landed>>
  BY <1>1 DEF LinkInv
<1>2. CASE transact
  BY <1>2, TransactSends DEF LinkInv
<1>3. CASE sendUpdate
  <2>1. \A tx : IsUpdateTx(tx) => Shaped(tx)
    BY DEF IsUpdateTx, Shaped
  <2> QED  BY <1>3, <2>1, UpdateSends DEF LinkInv
<1>4. CASE mine
  <2>1. PICK tx :
          /\ land(tx)
          /\ \/ /\ 1 \in DOMAIN queue /\ tx = queue[1]
                /\ \A k \in DOMAIN queue' : k + 1 \in DOMAIN queue /\ queue'[k] = queue[k + 1]
             \/ UNCHANGED queue /\ \E i : tx = waiverTransaction(i)
    BY <1>4, MineSends
  <2>2. \A i : Shaped(waiverTransaction(i))
    BY DEF Shaped, waiverTransaction
  <2>3. Shaped(tx)
    BY <2>1, <2>2 DEF LinkInv
  <2>4. /\ DOMAIN landed' = DOMAIN landed \cup {Len(landed) + 1}
        /\ \A k \in DOMAIN landed : landed'[k] = landed[k]
        /\ landed'[Len(landed) + 1].tx = tx
    BY <2>1, Lands
  <2> QED  BY <2>1, <2>3, <2>4 DEF LinkInv
<1> QED  BY <1>1, <1>2, <1>3, <1>4, Senders

-----------------------------------------------------------------------------
(* The waiver that a run goes by.                                          *)

\* A receipt of W-5 that shows success is one of its draw.
LEMMA FifthDone ==
  ASSUME ChainInv, LinkInv, NEW e \in DOMAIN landed, landed[e].tx.step = "W-5", landed[e].ok
  PROVE  e \in done("W-5") /\ e \in drawsOf("W-5")
<1>1. landed[e].tx.fn = "draw"
  BY DEF LinkInv, Shaped
<1>2. landed[e].tx.run \in Nat \ {0} /\ landed[e].ok \in BOOLEAN
  BY <1>1 DEF ChainInv, Numbered
<1>3. lastCall("W-5") = "draw" /\ Outcome("W-5") = TRUE
  BY DEF lastCall, Outcome
<1>4. landed[e].ok = TRUE
  BY <1>2
<1>5. landed[e].tx.run > 0
  BY <1>2
<1> QED  BY <1>1, <1>3, <1>4, <1>5 DEF done, isCall, drawsOf

\* A receipt of W-3 that shows a revert is its refusal.
LEMMA ThirdDone ==
  ASSUME ChainInv, LinkInv, NEW c \in DOMAIN landed, landed[c].tx.step = "W-3", ~landed[c].ok
  PROVE  c \in done("W-3")
<1>1. landed[c].tx.fn = "draw"
  BY DEF LinkInv, Shaped
<1>2. landed[c].tx.run \in Nat \ {0} /\ landed[c].ok \in BOOLEAN
  BY <1>1 DEF ChainInv, Numbered
<1>3. lastCall("W-3") = "draw" /\ Outcome("W-3") = FALSE
  BY DEF lastCall, Outcome
<1>4. landed[c].ok = FALSE
  BY <1>2
<1>5. landed[c].tx.run > 0
  BY <1>2
<1> QED  BY <1>1, <1>3, <1>4, <1>5 DEF done, isCall

LEMMA FifthDraw == ASSUME NEW e \in done("W-5") PROVE e \in drawsOf("W-5")
BY DEF done, isCall, drawsOf, lastCall, Outcome

\* The order of a refusal, a waiver that is mined and what it releases is for good.
LEMMA BelongsKeeps ==
  ASSUME ChainInv, WaiverInv, MinedInv, LinkInv, [Next]_vars, NEW w, belongs(w),
         Mined(w) \/ (done("W-3") # {} /\ done("W-5") = {})
  PROVE  belongs(w)'
<1>1. CASE UNCHANGED landed
  BY <1>1 DEF belongs, waiverTransaction
<1>2. CASE mine
  <2> DEFINE n == Len(landed) + 1
  <2>1. PICK tx :
          /\ land(tx)
          /\ \/ tx.fn # "createWaiver"
             \/ \E i \in signed : tx = waiverTransaction(i)
    BY <1>2, MineSends
  <2>2. /\ DOMAIN landed' = DOMAIN landed \cup {n}
        /\ \A k \in DOMAIN landed : landed'[k] = landed[k] /\ k \in Nat /\ k < n
        /\ landed'[n].tx = tx
    <3>1. \A k \in DOMAIN landed : k \in Nat /\ k < n
      BY SeqDomain DEF ChainInv
    <3>2. /\ DOMAIN landed' = DOMAIN landed \cup {n}
          /\ \A k \in DOMAIN landed : landed'[k] = landed[k]
          /\ landed'[n].tx = tx
      BY <2>1, Lands
    <3> QED  BY <3>1, <3>2
  <2> HIDE DEF n
  <2>3. waiverTransaction(w)' = waiverTransaction(w)
    BY DEF waiverTransaction
  <2>4. ASSUME NEW j \in DOMAIN landed', landed'[j].tx = waiverTransaction(w)
        PROVE  /\ \E c \in DOMAIN landed' : c < j /\ landed'[c].tx.step = "W-3" /\ ~landed'[c].ok
               /\ \A e \in DOMAIN landed' : landed'[e].tx.step = "W-5" /\ landed'[e].ok => j < e
    <3>1. CASE j \in DOMAIN landed
      BY <2>2, <2>4, <3>1 DEF belongs
    <3>2. CASE j = n
      <4>1. w \in signed /\ ~Mined(w)
        <5>1. PICK i \in signed : tx = waiverTransaction(i)
          BY <2>1, <2>2, <2>4, <3>2 DEF waiverTransaction
        <5>2. i = w
          BY <2>2, <2>4, <3>2, <5>1, WaiverNamed
        <5>3. w \in Nat
          BY <5>1, <5>2 DEF MinedInv, WaiverInv
        <5> QED  BY <5>1, <5>2, <5>3 DEF MinedInv
      <4>2. PICK c \in done("W-3") : TRUE
        BY <4>1
      <4>3. c \in DOMAIN landed /\ landed[c].tx.step = "W-3" /\ ~landed[c].ok
        BY DEF done, isCall, Outcome
      <4>4. landed'[n].tx.step = "W-4"
        BY <2>4, <3>2 DEF waiverTransaction
      <4>5. ASSUME NEW e \in DOMAIN landed', landed'[e].tx.step = "W-5", landed'[e].ok PROVE FALSE
        BY <2>2, <4>1, <4>4, <4>5, FifthDone
      <4> QED  BY <2>2, <3>2, <4>3, <4>5
    <3> QED  BY <2>2, <3>1, <3>2
  <2> QED  BY <2>3, <2>4 DEF belongs
<1> QED  BY <1>1, <1>2, Movers

\* The waiver of this run is over, and no draw of W-5 was released by one.
Lapsed ==
  /\ signed = {} /\ chain.waiver # "active" /\ Mined(main.intent)
  /\ \A e \in done("W-5") : landed[e].covenant.state # "WAIVED"

Follows == Lapsed \/ belongs(main.intent)

LEMMA DrawShows ==
  ASSUME IsChain(chain), NEW tx, tx.fn = "draw", land(tx), wouldSucceed(tx), chain.waiver # "active"
  PROVE  covenantAt(chain').state # "WAIVED"
<1> DEFINE c == synchronized
<1>1. chain' = [c EXCEPT !.liquidity = @ - 1]
  BY DEF land, after
<1>2. IsChain(c) /\ c.state # "WAIVED"
  BY DEF IsChain, synchronized, judged
<1> HIDE DEF c
<1>3. chain'.state = c.state
  BY <1>1, <1>2 DEF IsChain
<1> QED  BY <1>2, <1>3 DEF covenantAt

LEMMA FollowsKeeps ==
  ASSUME ChainInv, WaiverInv, MinedInv, LinkInv, IsChain(chain), [Next]_vars, main # Off,
         main'.intent = main.intent, Follows,
         Mined(main.intent) \/ (done("W-3") # {} /\ done("W-5") = {})
  PROVE  Follows'
<1>1. CASE belongs(main.intent)
  <2>1. belongs(main.intent)'
    <3> DEFINE w == main.intent
    <3>1. w' = w
      OBVIOUS
    <3>2. ASSUME NEW v, v = w PROVE belongs(v)'
      BY <1>1, <3>2, BelongsKeeps
    <3> QED  BY <3>1, <3>2 DEF belongs, waiverTransaction
  <2> QED  BY <2>1 DEF Follows
<1>2. CASE Lapsed
  <2>1. signed' = {} /\ chain'.waiver # "active"
    BY <1>2, StaysOver DEF Lapsed
  <2>2. Mined(main.intent)'
    BY <1>2, LandedGrows DEF Lapsed, Mined, waiverTransaction
  <2>3. \A e \in done("W-5")' : landed'[e].covenant.state # "WAIVED"
    <3>1. CASE UNCHANGED landed
      BY <1>2, <3>1, DoneStays DEF Lapsed
    <3>2. CASE mine
      <4>1. PICK tx : land(tx)
        BY <3>2, MineSends
      <4>2. /\ done("W-5")' \subseteq done("W-5") \cup {Len(landed) + 1}
            /\ Len(landed) + 1 \in done("W-5")' => isCall(tx, "W-5")
            /\ \A k \in done("W-5") : k \in DOMAIN landed
        BY <4>1, DoneLands
      <4>3. \A k \in DOMAIN landed : landed'[k] = landed[k]
        BY <4>1, Lands
      <4>4. ASSUME Len(landed) + 1 \in done("W-5")'
            PROVE  landed'[Len(landed) + 1].covenant.state # "WAIVED"
        <5>1. tx.fn = "draw" /\ landed'[Len(landed) + 1].ok = TRUE
          BY <4>2, <4>4 DEF isCall, lastCall, done, Outcome
        <5>2. wouldSucceed(tx) /\ landed'[Len(landed) + 1].covenant = covenantAt(chain')
          BY <4>1, <5>1, Receipt
        <5> QED  BY <1>2, <4>1, <5>1, <5>2, DrawShows DEF Lapsed
      <4> QED  BY <1>2, <4>2, <4>3, <4>4 DEF Lapsed
    <3> QED  BY <3>1, <3>2, Movers
  <2> QED  BY <2>1, <2>2, <2>3 DEF Follows, Lapsed
<1> QED  BY <1>1, <1>2 DEF Follows

-----------------------------------------------------------------------------
(* The run of arc-waiver-run.                                              *)

AtDesk == {"approve", "execute", "confirm", "recordWaiver"}

\* What is left is in the order of the sequence, and the script is where its first
\* instruction takes it.
Place ==
  /\ InOrder(main.todo, 0, 8)
  /\ main.at \in {"next", "await"} \cup AtDesk
  /\ main.at # "next" => main.todo # << >>
  /\ main.at = "await" => instruction.op = "send"
  /\ main.at \in AtDesk => instruction.op = "waive"

\* Of the steps of the sequence all that was sent is in the evidence, or still to adopt,
\* or waited for; and all that is not on chain is still to be sent.
Accounted(tx) ==
  tx.step \in Steps => \/ tx \in main.steps
                       \/ Adopts(main.todo, tx)
                       \/ main.at = "await" /\ tx = instruction.tx

Books ==
  /\ \A k \in DOMAIN queue : Accounted(queue[k])
  /\ \A step \in Steps : \A k \in done(step) : Accounted(landed[k].tx)
  /\ \A tx \in main.steps :
       \E k \in DOMAIN landed : landed[k].tx = tx /\ landed[k].ok = Outcome(tx.step)
  /\ \A step \in Steps : done(step) # {} \/ Asks(main.todo, step)

\* The refusal in the evidence was the covenant's, and the draw of W-5 the waiver's alone.
Verified(steps) ==
  /\ \A c \in done("W-3") : landed[c].tx \in steps => landed[c].refusal = "CURE"
  /\ \A e \in done("W-5") :
       landed[e].tx \in steps => landed[e].covenant = [state |-> "WAIVED", full |-> FALSE]

WaiverDone ==
  /\ waiverTransaction(main.intent) \in main.steps
  /\ \E d \in DOMAIN landed : landed[d].tx = waiverTransaction(main.intent) /\ landed[d].ok
  /\ Follows

\* Nothing was drawn under a waiver before the run has one, and the one that it has, adopted
\* or its own, is between the refusal and that draw unless it is over.
Waiving ==
  /\ main.at \in AtDesk => Follows /\ (main.adoptedWaiver # 0 => main.intent = main.adoptedWaiver)
  /\ main.adoptedWaiver = 0 /\ Waives(main.todo) =>
       done("W-5") = {} /\ \A k \in DOMAIN queue : queue[k].step # "W-5"
  /\ main.adoptedWaiver # 0 => Mined(main.adoptedWaiver) /\ belongs(main.adoptedWaiver)
  /\ Waives(main.todo) \/ WaiverDone

Script == Place /\ Books /\ Verified(main.steps) /\ Waiving

IsScript == main # Off /\ main.name = "arc-waiver-run"

\* What is proved above.
Known ==
  DrawInv /\ WaiverInv /\ UpdateInv /\ FreshInv /\ JournalInv /\ ThirdInv /\ LinkInv

LEMMA KnownParts ==
  ASSUME Known
  PROVE  /\ MainInv /\ ChainInv /\ DrawInv /\ WaiverInv /\ UpdateInv /\ FreshInv /\ JournalInv
         /\ ThirdInv /\ LinkInv /\ MinedInv /\ RunInv /\ IsChain(chain)
BY DEF Known, DrawInv, FreshInv

\* What the instruction that is due comes after is on chain.
LEMMA Before ==
  ASSUME Place, Books, main.todo # << >>, NEW step \in Steps, stageOf(step) < stage(instruction)
  PROVE  done(step) # {}
<1>1. \A i \in Range(main.todo) : stage(instruction) <= stage(i)
  BY RestInOrder DEF Place, instruction
<1>2. \A i : i.op = "send" /\ isCall(i.tx, step) => stage(i) = stageOf(step)
  BY DEF stage, isCall
<1>3. stageOf(step) \in 0..8 /\ stage(instruction) \in 0..8
  BY StageType DEF stageOf
<1>4. ~Asks(main.todo, step)
  BY <1>1, <1>2, <1>3 DEF Asks
<1> QED  BY <1>4 DEF Books

LEMMA WaiveStage ==
  ASSUME NEW i, i.op = "waive" PROVE stage(i) = 4
BY DEF stage

LEMMA StepStages ==
  /\ stageOf("W-1") = 1 /\ stageOf("W-2") = 2 /\ stageOf("W-3") = 3
  /\ stageOf("W-5") = 5 /\ stageOf("W-6") = 6
BY DEF stageOf

\* The run's waiver is mined, or nothing was drawn under one yet.
LEMMA WaiverInPlace ==
  ASSUME Known, IsScript, Script, main.at \in AtDesk \/ ~Waives(main.todo)
  PROVE  Follows /\ (Mined(main.intent) \/ (done("W-3") # {} /\ done("W-5") = {}))
<1>1. CASE ~Waives(main.todo)
  BY <1>1 DEF Script, Waiving, WaiverDone, Mined
<1>2. CASE main.at \in AtDesk
  <2>1. instruction.op = "waive" /\ main.todo # << >>
    BY <1>2 DEF Script, Place, AtDesk
  <2>2. done("W-3") # {}
    BY <2>1, WaiveStage, StepStages, Before DEF Script, Steps
  <2>3. Waives(main.todo)
    BY <2>1, RestInOrder DEF Script, Place, Waives, instruction
  <2> QED  BY <1>2, <2>2, <2>3 DEF Script, Waiving
<1> QED  BY <1>1, <1>2

-----------------------------------------------------------------------------
(* Steps beside the script.                                                *)

LEMMA WaivingBeside ==
  ASSUME Known, IsScript, Script, [Next]_vars, UNCHANGED main,
         done("W-5") = {} /\ (\A k \in DOMAIN queue : queue[k].step # "W-5") =>
           done("W-5")' = {} /\ \A k \in DOMAIN queue' : queue'[k].step # "W-5"
  PROVE  Waiving'
<1>1. /\ MainInv /\ ChainInv /\ WaiverInv /\ MinedInv /\ LinkInv /\ IsChain(chain)
  BY KnownParts
<1>2. main # Off
  BY DEF IsScript
<1>3. main.at \in AtDesk \/ ~Waives(main.todo) => Follows'
  BY <1>1, <1>2, WaiverInPlace, FollowsKeeps
<1>4. ASSUME main.adoptedWaiver # 0 PROVE Mined(main.adoptedWaiver)' /\ belongs(main.adoptedWaiver)'
  <2>1. ASSUME NEW w, w = main.adoptedWaiver PROVE Mined(w)' /\ belongs(w)'
    <3>1. Mined(w) /\ belongs(w)
      BY <1>4, <2>1 DEF Script, Waiving
    <3>2. Mined(w)'
      BY <1>1, <3>1, LandedGrows DEF Mined, waiverTransaction
    <3> QED  BY <1>1, <3>1, <3>2, BelongsKeeps
  <2> QED  BY <2>1 DEF Mined, belongs, waiverTransaction
<1>5. ASSUME ~Waives(main.todo) PROVE WaiverDone'
  <2>1. /\ waiverTransaction(main.intent) \in main.steps
        /\ \E d \in DOMAIN landed : landed[d].tx = waiverTransaction(main.intent) /\ landed[d].ok
    BY <1>5 DEF Script, Waiving, WaiverDone
  <2>2. \E d \in DOMAIN landed' : landed'[d].tx = waiverTransaction(main.intent) /\ landed'[d].ok
    BY <1>1, <2>1, LandedGrows
  <2> QED  BY <1>3, <1>5, <2>1, <2>2 DEF WaiverDone, waiverTransaction
<1>6. Waives(main.todo)' <=> Waives(main.todo)
  BY DEF Waives
<1> QED  BY <1>3, <1>4, <1>5, <1>6 DEF Script, Waiving, AtDesk

LEMMA PlaceBeside == ASSUME Place, UNCHANGED main PROVE Place'
BY DEF Place, instruction, AtDesk


LEMMA ScriptBeside ==
  ASSUME Known, IsScript, Script, UNCHANGED <<main, landed>>, [Next]_vars,
         \A k \in DOMAIN queue' : \/ \E j \in DOMAIN queue : queue'[k] = queue[j]
                                  \/ queue'[k].step \notin Steps
  PROVE  Script'
<1>1. \A step : done(step)' = done(step)
  BY DoneStays
<1>2. Books'
  <2>1. \A k \in DOMAIN queue' : Accounted(queue[k])'
    <3> SUFFICES ASSUME NEW k \in DOMAIN queue' PROVE Accounted(queue[k])'
      OBVIOUS
    <3>1. Accounted(queue'[k])
      BY DEF Script, Books, Accounted
    <3> QED  BY <3>1 DEF Accounted, Adopts, instruction
  <2>2. \A step \in Steps : \A k \in done(step) : Accounted(landed[k].tx)'
    BY DEF Script, Books, Accounted, Adopts, instruction
  <2>3. \A step : Asks(main.todo, step)' <=> Asks(main.todo, step)
    BY DEF Asks, isCall
  <2> QED  BY <1>1, <2>1, <2>2, <2>3 DEF Script, Books
<1>3. Verified(main.steps)'
  BY <1>1 DEF Script, Verified
<1>4. Waiving'
  BY <1>1, WaivingBeside DEF Steps
<1> QED  BY <1>2, <1>3, <1>4, PlaceBeside DEF Script

LEMMA ScriptMines ==
  ASSUME Known, IsScript, Script, mine PROVE Script'
<1> DEFINE n == Len(landed) + 1
<1>1. /\ MainInv /\ ChainInv /\ DrawInv /\ ThirdInv /\ LinkInv /\ [Next]_vars
  BY KnownParts DEF Next
<1>2. UNCHANGED main
  BY <1>1, MineSends
<1>3. PICK tx :
        /\ land(tx)
        /\ \/ /\ 1 \in DOMAIN queue /\ tx = queue[1]
              /\ \A k \in DOMAIN queue' : k + 1 \in DOMAIN queue /\ queue'[k] = queue[k + 1]
           \/ UNCHANGED queue /\ \E i : tx = waiverTransaction(i)
  BY <1>1, MineSends
<1>4. /\ DOMAIN landed' = DOMAIN landed \cup {n}
      /\ \A k \in DOMAIN landed : landed'[k] = landed[k]
      /\ landed'[n].tx = tx
  BY <1>1, <1>3, Lands
<1>5. \A step : /\ done(step) \subseteq done(step)'
                /\ done(step)' \subseteq done(step) \cup {n}
                /\ n \in done(step)' => isCall(tx, step)
                /\ \A k \in done(step) : k \in DOMAIN landed
  BY <1>1, <1>3, DoneLands
<1> HIDE DEF n
<1>6. \A step \in Steps : n \in done(step)' => 1 \in DOMAIN queue /\ tx = queue[1]
  <2>1. \A i, step : isCall(waiverTransaction(i), step) => step \notin Steps
    BY DEF isCall, waiverTransaction, Steps
  <2> QED  BY <1>3, <1>5, <2>1
<1>7. Books'
  <2>1. \A k \in DOMAIN queue' : Accounted(queue[k])'
    <3> SUFFICES ASSUME NEW k \in DOMAIN queue' PROVE Accounted(queue[k])'
      OBVIOUS
    <3>1. Accounted(queue'[k])
      BY <1>3 DEF Script, Books
    <3> QED  BY <1>2, <3>1 DEF Accounted, Adopts, instruction
  <2>2. \A step \in Steps : \A k \in done(step)' : Accounted(landed[k].tx)'
    <3> SUFFICES ASSUME NEW step \in Steps, NEW k \in done(step)' PROVE Accounted(landed[k].tx)'
      OBVIOUS
    <3>1. Accounted(landed'[k].tx)
      BY <1>4, <1>5, <1>6 DEF Script, Books
    <3> QED  BY <1>2, <3>1 DEF Accounted, Adopts, instruction
  <2>3. \A ux \in main.steps :
          \E k \in DOMAIN landed' : landed'[k].tx = ux /\ landed'[k].ok = Outcome(ux.step)
    BY <1>4 DEF Script, Books
  <2>4. \A step \in Steps : done(step)' # {} \/ Asks(main.todo, step)'
    BY <1>2, <1>5 DEF Script, Books, Asks, isCall
  <2> QED  BY <1>2, <2>1, <2>2, <2>3, <2>4 DEF Books
<1>8. Verified(main.steps)'
  <2>1. \A c \in done("W-3")' : landed'[c].tx \in main.steps => landed'[c].refusal = "CURE"
    <3>1. ASSUME n \in done("W-3")', tx \in main.steps PROVE FALSE
      <4>1. isThird(tx) /\ 1 \in DOMAIN queue /\ tx = queue[1]
        BY <1>5, <1>6, <3>1 DEF isThird, isCall, lastCall, Steps
      <4>2. \E k \in DOMAIN landed : landed[k].tx = tx
        BY <3>1 DEF Script, Books
      <4> QED  BY <1>1, <4>1, <4>2 DEF ThirdInv
    <3> QED  BY <1>4, <1>5, <3>1 DEF Script, Verified
  <2>2. \A e \in done("W-5")' :
          landed'[e].tx \in main.steps => landed'[e].covenant = [state |-> "WAIVED", full |-> FALSE]
    <3>1. ASSUME n \in done("W-5")', tx \in main.steps PROVE FALSE
      <4>1. tx.step = "W-5" /\ tx.fn = "draw" /\ 1 \in DOMAIN queue /\ tx = queue[1]
        BY <1>5, <1>6, <3>1 DEF isCall, lastCall, Steps
      <4>2. PICK k \in DOMAIN landed : landed[k].tx = tx /\ landed[k].ok = Outcome("W-5")
        BY <3>1, <4>1 DEF Script, Books
      <4>3. k \in drawsOf("W-5") /\ 1 \in Queued("W-5")
        BY <4>1, <4>2 DEF drawsOf, Queued, Outcome
      <4> QED  BY <1>1, <4>3 DEF DrawInv, Once, Releasing
    <3> QED  BY <1>4, <1>5, <3>1 DEF Script, Verified
  <2> QED  BY <1>2, <2>1, <2>2 DEF Verified
<1>9. Waiving'
  <2>1. ASSUME done("W-5") = {}, \A k \in DOMAIN queue : queue[k].step # "W-5"
        PROVE  done("W-5")' = {} /\ \A k \in DOMAIN queue' : queue'[k].step # "W-5"
    <3>1. n \notin done("W-5")'
      BY <1>5, <1>6, <2>1 DEF isCall, Steps
    <3> QED  BY <1>3, <1>5, <2>1, <3>1
  <2> QED  BY <1>1, <1>2, <2>1, WaivingBeside
<1> QED  BY <1>2, <1>7, <1>8, <1>9, PlaceBeside DEF Script

-----------------------------------------------------------------------------
(* Steps of arc-waiver-run.                                                *)

\* What a step that neither sends nor mines leaves of what the run goes by.
LEMMA FollowsSame ==
  ASSUME UNCHANGED <<chain, signed, landed>>, NEW w
  PROVE  /\ Mined(w)' <=> Mined(w)
         /\ belongs(w)' <=> belongs(w)
         /\ main'.intent = main.intent => (Follows' <=> Follows)
<1>1. \A v : (Mined(v)' <=> Mined(v)) /\ (belongs(v)' <=> belongs(v))
  BY DEF Mined, belongs, waiverTransaction
<1>2. ASSUME main'.intent = main.intent PROVE Follows' <=> Follows
  <2>1. \A e \in done("W-5") : landed'[e] = landed[e]
    OBVIOUS
  <2>2. done("W-5")' = done("W-5")
    BY DoneStays
  <2>3. Mined(main.intent)' <=> Mined(main.intent)
    BY <1>2 DEF Mined, waiverTransaction
  <2>4. belongs(main.intent)' <=> belongs(main.intent)
    BY <1>2 DEF belongs, waiverTransaction
  <2> QED  BY <2>1, <2>2, <2>3, <2>4 DEF Follows, Lapsed
<1> QED  BY <1>1, <1>2

\* The script goes on with what its evidence shows the instruction has come to.
LEMMA GoesOn ==
  ASSUME Known, IsScript, Script, main.todo # << >>, UNCHANGED <<chain, signed, landed, queue>>,
         NEW steps, goOn(steps), main.steps \subseteq steps,
         \A tx \in steps \ main.steps :
           \E k \in DOMAIN landed : landed[k].tx = tx /\ landed[k].ok = Outcome(tx.step),
         instruction.op = "adopt" \/ main.at = "await" => instruction.tx \in steps,
         instruction.op = "send" =>
           \A step \in Steps : isCall(instruction.tx, step) => done(step) # {},
         instruction.op = "waive" =>
           /\ waiverTransaction(main.intent) \in steps
           /\ \E d \in DOMAIN landed : landed[d].tx = waiverTransaction(main.intent) /\ landed[d].ok
           /\ Follows,
         Verified(steps)
  PROVE  Script'
<1>1. /\ MainInv /\ RunInv
  BY KnownParts
<1>2. /\ IsRun(main) /\ "adoptedWaiver" \in DOMAIN main
  BY <1>1 DEF MainInv, RunInv, ScriptRun, IsScript
<1>3. /\ main'.at = "next" /\ main'.todo = Tail(main.todo) /\ main'.steps = steps
      /\ main'.intent = main.intent /\ main'.adoptedWaiver = main.adoptedWaiver
  BY <1>2 DEF goOn, IsRun
<1>4. /\ InOrder(Tail(main.todo), 0, 8)
      /\ Range(main.todo) = {instruction} \cup Range(Tail(main.todo))
  BY RestInOrder DEF Script, Place, instruction
<1>5. \A step : done(step)' = done(step)
  BY DoneStays
<1>6. Place'
  BY <1>3, <1>4 DEF Place, AtDesk
<1>7. Books'
  <2>1. \A tx : Accounted(tx) => Accounted(tx)'
    <3> SUFFICES ASSUME NEW tx, Accounted(tx), tx.step \in Steps
                 PROVE  tx \in steps \/ Adopts(Tail(main.todo), tx)
      BY <1>3 DEF Accounted, Adopts
    <3> QED  BY <1>4 DEF Accounted, Adopts
  <2>2. \A k \in DOMAIN queue' : Accounted(queue[k])'
    BY <2>1 DEF Script, Books, Accounted, Adopts
  <2>3. \A step \in Steps : \A k \in done(step)' : Accounted(landed[k].tx)'
    BY <1>5, <2>1 DEF Script, Books, Accounted, Adopts
  <2>4. \A tx \in steps :
          \E k \in DOMAIN landed : landed[k].tx = tx /\ landed[k].ok = Outcome(tx.step)
    BY DEF Script, Books
  <2>5. \A step \in Steps : done(step) # {} \/ Asks(Tail(main.todo), step)
    BY <1>4 DEF Script, Books, Asks
  <2>6. \A step \in Steps : done(step)' # {} \/ Asks(main'.todo, step)
    BY <1>3, <1>5, <2>5
  <2>7. \A step : Asks(main.todo, step)' <=> Asks(main'.todo, step)
    BY DEF Asks, isCall
  <2> QED  BY <1>3, <2>2, <2>3, <2>4, <2>6, <2>7 DEF Books
<1>8. Verified(main.steps)'
  BY <1>3, <1>5 DEF Verified
<1>9. Waiving'
  <2>1. Waives(Tail(main.todo)) => Waives(main.todo)
    BY <1>4 DEF Waives
  <2>2. Waives(main.todo) /\ ~Waives(Tail(main.todo)) => instruction.op = "waive"
    BY <1>4 DEF Waives
  <2>3. Follows' <=> Follows
    BY <1>3, FollowsSame
  <2>4. Waives(Tail(main.todo)) \/ WaiverDone'
    BY <1>3, <2>2, <2>3 DEF Script, Waiving, WaiverDone, waiverTransaction
  <2>5. main.adoptedWaiver # 0 => Mined(main.adoptedWaiver)' /\ belongs(main.adoptedWaiver)'
    BY <1>3, FollowsSame DEF Script, Waiving, Mined, belongs, waiverTransaction
  <2>6. Waives(main.todo)' <=> Waives(Tail(main.todo))
    BY <1>3 DEF Waives
  <2>7. main'.at \notin AtDesk
    BY <1>3 DEF AtDesk
  <2> QED  BY <1>3, <1>5, <2>1, <2>4, <2>5, <2>6, <2>7 DEF Script, Waiving
<1> QED  BY <1>6, <1>7, <1>8, <1>9 DEF Script

\* What is recorded is asserted, and there is one receipt of it.
LEMMA RecordVerifies ==
  ASSUME Known, IsScript, Script, NEW k \in DOMAIN landed, landed[k].ok = Outcome(landed[k].tx.step),
         landed[k].tx.fn = "draw" => verifyDraw(landed[k])
  PROVE  Verified(main.steps \cup {landed[k].tx})
<1>1. DrawInv /\ ThirdInv
  BY KnownParts
<1>2. ASSUME NEW c \in done("W-3"), landed[c].tx = landed[k].tx PROVE landed[c].refusal = "CURE"
  <2>1. c \in DOMAIN landed /\ isThird(landed[c].tx)
    BY DEF done, isCall, lastCall, isThird
  <2>2. c = k
    BY <1>1, <1>2, <2>1 DEF ThirdInv
  <2> QED  BY <2>1, <2>2 DEF isThird, verifyDraw
<1>3. ASSUME NEW e \in done("W-5"), landed[e].tx = landed[k].tx
      PROVE  landed[e].covenant = [state |-> "WAIVED", full |-> FALSE]
  <2>1. e \in drawsOf("W-5") /\ landed[k].tx.step = "W-5" /\ landed[k].tx.fn = "draw"
    BY <1>3, FifthDraw DEF drawsOf
  <2>2. k \in drawsOf("W-5")
    BY <2>1 DEF drawsOf, Outcome
  <2>3. e = k
    BY <1>1, <2>1, <2>2 DEF DrawInv, Once, Single, Releasing
  <2> QED  BY <2>1, <2>3 DEF verifyDraw
<1> QED  BY <1>2, <1>3 DEF Script, Verified

LEMMA RecordGoesOn ==
  ASSUME Known, IsScript, Script, main.todo # << >>, UNCHANGED <<chain, signed, landed, queue>>,
         NEW r \in Range(landed), NEW asExpected, record(r, asExpected), main' # Off,
         instruction.op = "adopt" \/ main.at = "await" => instruction.tx = r.tx,
         instruction.op = "send" => instruction.tx = r.tx,
         instruction.op = "waive" => r.tx = waiverTransaction(main.intent) /\ Follows
  PROVE  Script'
<1> DEFINE steps == main.steps \cup {r.tx}
<1>1. /\ goOn(steps) /\ r.ok = Outcome(r.tx.step) /\ (r.tx.fn = "draw" => verifyDraw(r))
  BY DEF record, fail
<1>2. PICK k \in DOMAIN landed : r = landed[k]
  BY DEF Range
<1>3. Verified(steps)
  BY <1>1, <1>2, RecordVerifies
<1>4. instruction.op = "send" =>
        \A step \in Steps : isCall(instruction.tx, step) => done(step) # {}
  <2> SUFFICES ASSUME instruction.op = "send", NEW step \in Steps, isCall(r.tx, step)
               PROVE  k \in done(step)
    OBVIOUS
  <2>1. r.tx.run \in Nat \ {0}
    <3>1. MainInv /\ main # Off
      BY KnownParts DEF IsScript
    <3>2. 1 \in DOMAIN main.todo /\ instruction = main.todo[1]
      BY <3>1, Shortened DEF MainInv, WellFormed, instruction
    <3>3. r.tx.run = main.run /\ main.run \in Nat \ {0}
      BY <3>1, <3>2 DEF MainInv, WellFormed, Sendable
    <3> QED  BY <3>3
  <2>2. r.tx.run > 0
    BY <2>1
  <2>3. r.ok = Outcome(step)
    BY <1>1 DEF isCall
  <2> QED  BY <1>2, <2>2, <2>3 DEF done
<1>5. instruction.op = "waive" =>
        /\ waiverTransaction(main.intent) \in steps
        /\ \E d \in DOMAIN landed : landed[d].tx = waiverTransaction(main.intent) /\ landed[d].ok
        /\ Follows
  <2> SUFFICES ASSUME instruction.op = "waive" PROVE r.ok
    BY <1>2
  <2>1. r.tx.step = "W-4"
    BY DEF waiverTransaction
  <2> QED  BY <1>1, <2>1 DEF Outcome
<1>6. \A tx \in steps \ main.steps :
        \E d \in DOMAIN landed : landed[d].tx = tx /\ landed[d].ok = Outcome(tx.step)
  BY <1>1, <1>2
<1>7. main.steps \subseteq steps
  OBVIOUS
<1>8. instruction.op = "adopt" \/ main.at = "await" => instruction.tx \in steps
  OBVIOUS
<1> HIDE DEF steps
<1> QED  BY <1>1, <1>3, <1>4, <1>5, <1>6, <1>7, <1>8, GoesOn

LEMMA ScriptRecords ==
  ASSUME Known, IsScript, Script, adoptStep \/ awaitReceipt \/ recordWaiver, main' # Off
  PROVE  Script'
<1>1. UNCHANGED <<chain, signed, landed, queue>>
  BY DEF adoptStep, awaitReceipt, recordWaiver
<1>2. CASE adoptStep
  <2>1. main.todo # << >> /\ instruction.op = "adopt" /\ main.at = "next"
    BY <1>2 DEF adoptStep, doing
  <2>2. PICK r \in receipts(instruction.tx) : record(r, TRUE)
    BY <1>2 DEF adoptStep
  <2>3. r \in Range(landed) /\ r.tx = instruction.tx
    BY DEF receipts
  <2> QED  BY <1>1, <2>1, <2>2, <2>3, RecordGoesOn
<1>3. CASE awaitReceipt
  <2>1. main.at = "await" /\ main.todo # << >> /\ instruction.op = "send"
    BY <1>3 DEF awaitReceipt, Script, Place
  <2>2. PICK r \in receipts(instruction.tx) :
          record(r, r.tx.fn = "syncCovenant" => r.covenant.state = "CURE")
    BY <1>3 DEF awaitReceipt
  <2>3. r \in Range(landed) /\ r.tx = instruction.tx
    BY DEF receipts
  <2> QED  BY <1>1, <2>1, <2>2, <2>3, RecordGoesOn
<1>4. CASE recordWaiver
  <2>1. main.at = "recordWaiver" /\ main.todo # << >> /\ instruction.op = "waive" /\ Follows
    BY <1>4 DEF recordWaiver, Script, Place, Waiving, AtDesk
  <2>2. PICK r \in receipts(waiverTransaction(main.intent)) : record(r, r.covenant.state = "WAIVED")
    BY <1>4 DEF recordWaiver
  <2>3. r \in Range(landed) /\ r.tx = waiverTransaction(main.intent)
    BY DEF receipts
  <2> QED  BY <1>1, <2>1, <2>2, <2>3, RecordGoesOn
<1> QED  BY <1>2, <1>3, <1>4

LEMMA ScriptPasses ==
  ASSUME Known, IsScript, Script, lapse \/ waiverOver, main' # Off PROVE Script'
<1>1. /\ main.todo # << >> /\ instruction.op \in {"lapse", "waiverOver"} /\ main.at = "next"
      /\ UNCHANGED <<chain, signed, landed, queue>>
  BY DEF lapse, waiverOver, doing
<1>2. goOn(main.steps)
  BY DEF lapse, waiverOver, fail
<1> QED  BY <1>1, <1>2, GoesOn DEF Script

LEMMA AdoptedSame ==
  ASSUME UNCHANGED landed, main'.adoptedWaiver = main.adoptedWaiver
  PROVE  /\ Mined(main.adoptedWaiver)' <=> Mined(main.adoptedWaiver)
         /\ belongs(main.adoptedWaiver)' <=> belongs(main.adoptedWaiver)
<1>1. Mined(main.adoptedWaiver)' <=> Mined(main.adoptedWaiver)
  BY DEF Mined, waiverTransaction
<1>2. belongs(main.adoptedWaiver)' <=> belongs(main.adoptedWaiver)
  BY DEF belongs, waiverTransaction
<1> QED  BY <1>1, <1>2

\* The script is somewhere else with the same instruction.
LEMMA ScriptMoves ==
  ASSUME Known, IsScript, Script, UNCHANGED <<landed, queue>>,
         main.at # "await", main.todo # << >>, instruction.op = "waive",
         NEW at \in AtDesk,
         \/ main' = [main EXCEPT !.at = at]
         \/ \E i : main' = [main EXCEPT !.at = at, !.intent = i],
         Follows', main.adoptedWaiver # 0 => main'.intent = main.adoptedWaiver
  PROVE  Script'
<1>1. MainInv /\ RunInv
  BY KnownParts
<1>2. IsRun(main) /\ "adoptedWaiver" \in DOMAIN main
  BY <1>1 DEF MainInv, RunInv, ScriptRun, IsScript
<1>3. /\ main'.at = at /\ main'.todo = main.todo /\ main'.steps = main.steps
      /\ main'.adoptedWaiver = main.adoptedWaiver
  BY <1>2 DEF IsRun
<1>4. \A step : done(step)' = done(step)
  BY DoneStays
<1>5. Waives(main.todo)
  BY RestInOrder DEF Script, Place, Waives, instruction
<1>6. Place'
  BY <1>3 DEF Script, Place, instruction, AtDesk
<1>7. Books'
  <2>1. \A tx : Accounted(tx) => Accounted(tx)'
    BY <1>3 DEF Accounted, Adopts
  <2>2. \A k \in DOMAIN queue' : Accounted(queue[k])'
    BY <2>1 DEF Script, Books, Accounted, Adopts
  <2>3. \A step \in Steps : \A k \in done(step)' : Accounted(landed[k].tx)'
    <3> SUFFICES ASSUME NEW step \in Steps, NEW k \in done(step)' PROVE Accounted(landed[k].tx)'
      OBVIOUS
    <3>1. Accounted(landed[k].tx)
      BY <1>4 DEF Script, Books
    <3> QED  BY <1>3, <3>1 DEF Accounted, Adopts, instruction
  <2>4. \A step : Asks(main.todo, step)' <=> Asks(main.todo, step)
    BY <1>3 DEF Asks, isCall
  <2> QED  BY <1>3, <1>4, <2>2, <2>3, <2>4 DEF Script, Books
<1>8. Verified(main.steps)'
  BY <1>3, <1>4 DEF Script, Verified
<1>9. Waiving'
  <2>1. main.adoptedWaiver # 0 => Mined(main.adoptedWaiver)' /\ belongs(main.adoptedWaiver)'
    BY <1>3, AdoptedSame DEF Script, Waiving
  <2>2. Waives(main.todo)'
    BY <1>3, <1>5 DEF Waives
  <2> QED  BY <1>3, <1>4, <1>5, <2>1, <2>2 DEF Script, Waiving
<1> QED  BY <1>6, <1>7, <1>8, <1>9 DEF Script

LEMMA FollowsAt ==
  ASSUME UNCHANGED <<chain, signed, landed>>, NEW i, main'.intent = i,
         \/ belongs(i)
         \/ /\ signed = {} /\ chain.waiver # "active" /\ Mined(i)
            /\ \A e \in done("W-5") : landed[e].covenant.state # "WAIVED"
  PROVE  Follows'
<1>1. done("W-5")' = done("W-5")
  BY DoneStays
<1>2. Mined(main.intent)' <=> Mined(i)
  BY DEF Mined, waiverTransaction
<1>3. belongs(main.intent)' <=> belongs(i)
  BY DEF belongs, waiverTransaction
<1>4. \A e \in done("W-5") : landed'[e] = landed[e]
  OBVIOUS
<1> QED  BY <1>1, <1>2, <1>3, <1>4 DEF Follows, Lapsed

\* An open proposal that is mined already is over when the facility releases nothing.
LEMMA ScriptWaives ==
  ASSUME Known, IsScript, Script, waive, main' # Off PROVE Script'
<1>1. MainInv /\ WaiverInv /\ MinedInv
  BY KnownParts
<1>2. /\ main # Off /\ main.at = "next" /\ main.todo # << >> /\ instruction.op = "waive"
      /\ UNCHANGED <<chain, queue, signed, landed>> /\ ~released
  BY DEF waive, doing, fail
<1>3. Waives(main.todo)
  BY <1>2, RestInOrder DEF Script, Place, Waives, instruction
<1>4. ASSUME NEW i, NEW at \in AtDesk, main' = [main EXCEPT !.at = at, !.intent = i],
             main.adoptedWaiver # 0 => i = main.adoptedWaiver,
             \/ belongs(i)
             \/ /\ signed = {} /\ chain.waiver # "active" /\ Mined(i)
                /\ \A e \in done("W-5") : landed[e].covenant.state # "WAIVED"
      PROVE  Script'
  <2>1. main'.intent = i
    BY <1>1, <1>2, <1>4 DEF MainInv, IsRun
  <2>2. Follows'
    BY <1>2, <1>4, <2>1, FollowsAt
  <2> QED  BY <1>2, <1>4, <2>1, <2>2, ScriptMoves
<1>5. ASSUME main.adoptedWaiver # 0,
             main' = [main EXCEPT !.at = "recordWaiver", !.intent = main.adoptedWaiver]
      PROVE  Script'
  <2>1. belongs(main.adoptedWaiver)
    BY <1>5 DEF Script, Waiving
  <2> QED  BY <1>4, <1>5, <2>1 DEF AtDesk
<1>6. ASSUME main.adoptedWaiver = 0, NEW i \in openIntents,
             main' = [main EXCEPT !.at = "approve", !.intent = i]
      PROVE  Script'
  <2>1. CASE ~Mined(i)
    <3>1. belongs(i)
      BY <2>1 DEF belongs, Mined
    <3> QED  BY <1>4, <1>6, <3>1 DEF AtDesk
  <2>2. CASE Mined(i)
    <3>1. signed = {}
      <4>1. i = Len(intents) /\ Len(intents) \in Nat /\ DOMAIN intents = 1..Len(intents)
        BY <1>1 DEF WaiverInv
      <4> QED  BY <1>1, <2>2, <4>1 DEF MinedInv
    <3>2. chain.waiver # "active"
      BY <1>2 DEF released
    <3>3. done("W-5") = {}
      BY <1>3, <1>6 DEF Script, Waiving
    <3> QED  BY <1>4, <1>6, <2>2, <3>1, <3>2, <3>3 DEF AtDesk
  <2> QED  BY <2>1, <2>2
<1>7. ASSUME main.adoptedWaiver = 0, intents' = Append(intents, newIntent),
             main' = [main EXCEPT !.at = "approve", !.intent = Len(intents) + 1]
      PROVE  Script'
  <2>1. belongs(Len(intents) + 1)
    BY <1>1, <1>7, ProposedNew DEF belongs, Mined
  <2> QED  BY <1>4, <1>7, <2>1 DEF AtDesk
<1> QED  BY <1>5, <1>6, <1>7 DEF waive, fail

LEMMA ScriptDesk ==
  ASSUME Known, IsScript, Script, [Next]_vars, approve \/ execute \/ confirm, main' # Off
  PROVE  Script'
<1>1. /\ MainInv /\ ChainInv /\ WaiverInv /\ MinedInv /\ LinkInv /\ IsChain(chain)
  BY KnownParts
<1>2. /\ main # Off /\ main.at \in {"approve", "execute", "confirm"}
      /\ UNCHANGED <<queue, landed>>
  BY DEF approve, execute, confirm
<1>3. main.todo # << >> /\ instruction.op = "waive" /\ main.at \in AtDesk
  BY <1>2 DEF Script, Place, AtDesk
<1>4. CASE UNCHANGED main
  BY <1>2, <1>4, ScriptBeside
<1>5. ASSUME NEW at \in AtDesk, main' = [main EXCEPT !.at = at] PROVE Script'
  <2>1. main'.intent = main.intent
    BY <1>1, <1>2, <1>5 DEF MainInv, IsRun
  <2>2. Follows'
    BY <1>1, <1>2, <1>3, <2>1, WaiverInPlace, FollowsKeeps
  <2>3. main.adoptedWaiver # 0 => main'.intent = main.adoptedWaiver
    BY <1>3, <2>1 DEF Script, Waiving
  <2> QED  BY <1>2, <1>3, <1>5, <2>2, <2>3, ScriptMoves DEF AtDesk
<1>6. \/ UNCHANGED main \/ main' = [main EXCEPT !.at = "execute"]
      \/ main' = [main EXCEPT !.at = "confirm"] \/ main' = [main EXCEPT !.at = "recordWaiver"]
  BY DEF approve, execute, confirm, fail
<1> QED  BY <1>4, <1>5, <1>6 DEF AtDesk

LEMMA ScriptTransacts ==
  ASSUME Known, IsScript, Script, transact, main' # Off PROVE Script'
<1> DEFINE tx == instruction.tx
           n == Len(queue) + 1
<1>1. MainInv /\ ChainInv /\ JournalInv /\ RunInv
  BY KnownParts
<1>2. /\ main # Off /\ main.at = "next" /\ main.todo # << >> /\ instruction.op = "send"
      /\ UNCHANGED <<chain, signed, landed>>
      /\ DOMAIN queue' = DOMAIN queue \cup {n} /\ n \notin DOMAIN queue
      /\ \A k \in DOMAIN queue : queue'[k] = queue[k]
      /\ queue'[n] = tx
      /\ main' = [main EXCEPT !.at = "await"]
  BY <1>1, TransactSends DEF fail
<1>3. /\ main'.at = "await" /\ main'.todo = main.todo /\ main'.steps = main.steps
      /\ main'.intent = main.intent /\ main'.adoptedWaiver = main.adoptedWaiver
  <2>1. IsRun(main) /\ "adoptedWaiver" \in DOMAIN main
    BY <1>1 DEF MainInv, RunInv, ScriptRun, IsScript
  <2> QED  BY <1>2, <2>1 DEF IsRun
<1>4. instruction' = instruction
  BY <1>3 DEF instruction
<1>5. \A step : done(step)' = done(step)
  BY <1>2, DoneStays
<1>6. \A k \in DOMAIN queue' : k \in DOMAIN queue \/ k = n
  BY <1>2
<1> HIDE DEF n
<1>7. Place'
  BY <1>2, <1>3, <1>4 DEF Script, Place, AtDesk
<1>8. Books'
  <2>1. \A ux : Accounted(ux) => Accounted(ux)'
    BY <1>2, <1>3, <1>4 DEF Accounted, Adopts
  <2>2. \A k \in DOMAIN queue' : Accounted(queue[k])'
    <3> SUFFICES ASSUME NEW k \in DOMAIN queue' PROVE Accounted(queue[k])'
      OBVIOUS
    <3>1. CASE k \in DOMAIN queue
      <4>1. Accounted(queue[k]) /\ queue'[k] = queue[k]
        BY <1>2, <3>1 DEF Script, Books
      <4> QED  BY <1>2, <1>3, <4>1 DEF Accounted, Adopts
    <3>2. CASE k = n
      BY <1>2, <1>3, <1>4, <3>2 DEF Accounted
    <3> QED  BY <1>6, <3>1, <3>2
  <2>3. \A step \in Steps : \A k \in done(step)' : Accounted(landed[k].tx)'
    <3> SUFFICES ASSUME NEW step \in Steps, NEW k \in done(step)' PROVE Accounted(landed[k].tx)'
      OBVIOUS
    <3>1. Accounted(landed[k].tx)
      BY <1>5 DEF Script, Books
    <3> QED  BY <1>2, <1>3, <3>1 DEF Accounted, Adopts
  <2>4. \A step : Asks(main.todo, step)' <=> Asks(main.todo, step)
    BY <1>3 DEF Asks, isCall
  <2> QED  BY <1>2, <1>3, <1>5, <2>2, <2>3, <2>4 DEF Script, Books
<1>9. Verified(main.steps)'
  BY <1>2, <1>3, <1>5 DEF Script, Verified
<1>10. Waiving'
  <2>1. Waives(main.todo)' <=> Waives(main.todo)
    BY <1>3 DEF Waives
  <2>2. ASSUME Waives(main.todo) PROVE tx.step # "W-5"
    <3>1. PICK i \in Range(main.todo) : i.op = "waive"
      BY <2>2 DEF Waives
    <3>2. stage(instruction) <= 4
      BY <1>2, <3>1, WaiveStage, RestInOrder DEF Script, Place, instruction
    <3>3. stage(instruction) = stageOf(tx.step)
      BY <1>2 DEF stage
    <3>4. stageOf(tx.step) <= 4
      BY <3>2, <3>3
    <3> QED  BY <3>4, StepStages
  <2>3. main'.adoptedWaiver = 0 /\ Waives(main.todo)' =>
          done("W-5")' = {} /\ \A k \in DOMAIN queue' : queue'[k].step # "W-5"
    BY <1>2, <1>3, <1>5, <1>6, <2>1, <2>2 DEF Script, Waiving
  <2>4. main'.adoptedWaiver # 0 => Mined(main.adoptedWaiver)' /\ belongs(main.adoptedWaiver)'
    BY <1>2, <1>3, AdoptedSame DEF Script, Waiving
  <2>5. Follows' <=> Follows
    BY <1>2, <1>3, FollowsSame
  <2>6. Waives(main.todo)' \/ WaiverDone'
    BY <1>2, <1>3, <2>1, <2>5 DEF Script, Waiving, WaiverDone, waiverTransaction
  <2>7. main'.at \notin AtDesk
    BY <1>3 DEF AtDesk
  <2> QED  BY <2>3, <2>4, <2>6, <2>7 DEF Waiving
<1> QED  BY <1>7, <1>8, <1>9, <1>10 DEF Script

LEMMA ScriptRefreshes ==
  ASSUME Known, IsScript, Script, refreshExposureCredential PROVE Script'
<1> DEFINE tx == [run |-> main.run, step |-> "W-7", fn |-> "submitExposure", arg |-> chain.exposure + 1]
           i == [op |-> "send", tx |-> tx]
           rest == Tail(main.todo)
<1>1. MainInv /\ RunInv
  BY KnownParts
<1>2. /\ main # Off /\ main.at = "next" /\ main.todo # << >> /\ instruction.op = "refresh"
      /\ UNCHANGED <<chain, queue, signed, landed>>
      /\ main' = [main EXCEPT !.todo = <<i>> \o rest]
  BY DEF refreshExposureCredential, doing
<1>3. i.op = "send" /\ i.tx.step = "W-7" /\ i.tx = tx
  OBVIOUS
<1> HIDE DEF i
<1>4. /\ main'.at = "next" /\ main'.todo = <<i>> \o rest /\ main'.steps = main.steps
      /\ main'.intent = main.intent /\ main'.adoptedWaiver = main.adoptedWaiver
  <2>1. IsRun(main) /\ "adoptedWaiver" \in DOMAIN main
    BY <1>1 DEF MainInv, RunInv, ScriptRun, IsScript
  <2> DEFINE todo == <<i>> \o rest
  <2>2. main' = [main EXCEPT !.todo = todo]
    BY <1>2
  <2> HIDE DEF todo
  <2>3. /\ main'.at = "next" /\ main'.todo = todo /\ main'.steps = main.steps
        /\ main'.intent = main.intent /\ main'.adoptedWaiver = main.adoptedWaiver
    BY <1>2, <2>1, <2>2 DEF IsRun
  <2> QED  BY <2>3 DEF todo
<1>5. stage(instruction) = 7 /\ stage(i) = 7
  BY <1>2, <1>3 DEF stage, stageOf
<1>6. InOrder(rest, 7, 8) /\ Range(main.todo) = {instruction} \cup Range(rest)
  BY <1>2, <1>5, RestInOrder DEF Script, Place, instruction
<1>7. InOrder(<<i>>, 7, 7) /\ Range(<<i>>) = {i}
  <2>1. Regular(i)
    BY <1>3 DEF Regular, Shaped
  <2> QED  BY <1>5, <2>1, OneOrder
<1> HIDE DEF rest
<1>8. InOrder(main'.todo, 7, 8) /\ Range(main'.todo) = {i} \cup Range(rest)
  BY <1>4, <1>6, <1>7, OrderJoins
<1>9. \A step \in Steps : ~isCall(i.tx, step)
  BY <1>3 DEF isCall, Steps
<1>10. /\ \A ux : Adopts(main'.todo, ux) <=> Adopts(main.todo, ux)
       /\ \A step \in Steps : Asks(main.todo, step) => Asks(main'.todo, step)
       /\ Waives(main'.todo) <=> Waives(main.todo)
  BY <1>2, <1>3, <1>6, <1>8, <1>9 DEF Adopts, Asks, Waives
<1>11. \A step : done(step)' = done(step)
  BY <1>2, DoneStays
<1>12. Place'
  <2>1. InOrder(main'.todo, 0, 8)
    <3>1. \A j : 7 <= stage(j) => 0 <= stage(j)
      BY StageType
    <3> QED  BY <1>8, <3>1 DEF InOrder
  <2> QED  BY <1>4, <2>1 DEF Place, AtDesk
<1>13. Books'
  <2>1. \A ux : Accounted(ux) => Accounted(ux)'
    <3> SUFFICES ASSUME NEW ux, Accounted(ux), ux.step \in Steps
                 PROVE  ux \in main'.steps \/ Adopts(main'.todo, ux)
      BY DEF Accounted, Adopts
    <3> QED  BY <1>2, <1>4, <1>10 DEF Accounted
  <2>2. \A k \in DOMAIN queue' : Accounted(queue[k])'
    <3> SUFFICES ASSUME NEW k \in DOMAIN queue' PROVE Accounted(queue[k])'
      OBVIOUS
    <3>1. Accounted(queue[k]) /\ queue'[k] = queue[k]
      BY <1>2 DEF Script, Books
    <3> QED  BY <2>1, <3>1 DEF Accounted, Adopts
  <2>3. \A step \in Steps : \A k \in done(step)' : Accounted(landed[k].tx)'
    <3> SUFFICES ASSUME NEW step \in Steps, NEW k \in done(step)' PROVE Accounted(landed[k].tx)'
      OBVIOUS
    <3>1. Accounted(landed[k].tx) /\ landed' = landed
      BY <1>2, <1>11 DEF Script, Books
    <3> QED  BY <2>1, <3>1 DEF Accounted, Adopts
  <2>4. \A step \in Steps : done(step) # {} \/ Asks(main'.todo, step)
    BY <1>10 DEF Script, Books
  <2>5. \A step : Asks(main.todo, step)' <=> Asks(main'.todo, step)
    BY DEF Asks, isCall
  <2> QED  BY <1>2, <1>4, <1>11, <2>2, <2>3, <2>4, <2>5 DEF Script, Books
<1>14. Verified(main.steps)'
  BY <1>2, <1>4, <1>11 DEF Script, Verified
<1>15. Waiving'
  <2>1. Waives(main.todo)' <=> Waives(main.todo)
    BY <1>10 DEF Waives
  <2>2. main'.adoptedWaiver # 0 => Mined(main.adoptedWaiver)' /\ belongs(main.adoptedWaiver)'
    BY <1>2, <1>4, AdoptedSame DEF Script, Waiving
  <2>3. Follows' <=> Follows
    BY <1>2, <1>4, FollowsSame
  <2>4. Waives(main.todo)' \/ WaiverDone'
    BY <1>2, <1>4, <2>1, <2>3 DEF Script, Waiving, WaiverDone, waiverTransaction
  <2>5. main'.at \notin AtDesk
    BY <1>4 DEF AtDesk
  <2> QED  BY <1>2, <1>4, <1>11, <2>1, <2>2, <2>4, <2>5 DEF Script, Waiving
<1> QED  BY <1>12, <1>13, <1>14, <1>15 DEF Script

\* A run that starts plans what is not on chain, and adopts what is.
LEMMA ScriptStarts ==
  ASSUME Known, NEW w, NEW resuming, NEW refreshExposure, startRun(w, resuming, refreshExposure)
  PROVE  Script'
<1> DEFINE plan == planRun(stepsOnChain, w # 0, refreshExposure)
           list == program(stepsOnChain, plan, depositNeeded(w # 0, resuming))
<1>1. ChainInv /\ MinedInv
  BY KnownParts
<1>2. /\ main'.at = "next" /\ main'.todo = list /\ main'.steps = {} /\ main'.adoptedWaiver = w
      /\ queue = << >> /\ UNCHANGED <<queue, landed, signed, chain>>
      /\ w # 0 => w \in recordedWaivers /\ belongs(w)
      /\ "W-5" \in stepsOnChain => w # 0
  BY DEF startRun
<1>3. /\ InOrder(list, 0, 8) /\ Waives(list)
      /\ \A step \in Steps \cap plan : Asks(list, step)
      /\ \A step \in stepsOnChain : \A k \in done(step) : Adopts(list, landed[k].tx)
  BY <1>1, ProgramOrder
<1> HIDE DEF list
<1>4. \A step \in Steps : done(step) # {} \/ step \in plan
  BY DoneOnChain DEF planRun, Steps, Phases, PHASES, Range
<1>5. \A step : done(step)' = done(step)
  BY <1>2, DoneStays
<1>6. Place'
  BY <1>2, <1>3 DEF Place, AtDesk
<1>7. Books'
  <2>1. DOMAIN queue' = {}
    BY <1>2
  <2>2. \A step \in Steps : \A k \in done(step)' : Accounted(landed[k].tx)'
    <3> SUFFICES ASSUME NEW step \in Steps, NEW k \in done(step)' PROVE Accounted(landed[k].tx)'
      OBVIOUS
    <3>1. Adopts(list, landed[k].tx)
      BY <1>3, <1>5, DoneOnChain
    <3>2. Adopts(main'.todo, landed'[k].tx)
      BY <1>2, <3>1
    <3> QED  BY <3>2 DEF Accounted, Adopts
  <2>3. \A step \in Steps : done(step)' # {} \/ Asks(main'.todo, step)
    BY <1>2, <1>3, <1>4, <1>5
  <2>4. \A step : Asks(main.todo, step)' <=> Asks(main'.todo, step)
    BY DEF Asks, isCall
  <2> QED  BY <1>2, <2>1, <2>2, <2>3, <2>4 DEF Books
<1>8. Verified(main.steps)'
  BY <1>2 DEF Verified
<1>9. Waiving'
  <2>1. Waives(main.todo)'
    BY <1>2, <1>3 DEF Waives
  <2>2. w = 0 => done("W-5")' = {} /\ DOMAIN queue' = {}
    BY <1>2, <1>5, DoneOnChain DEF Steps
  <2>3. w # 0 => Mined(main.adoptedWaiver)' /\ belongs(main.adoptedWaiver)'
    <3>1. w # 0 => Mined(w) /\ belongs(w)
      BY <1>1, <1>2 DEF MinedInv, recordedWaivers
    <3>2. Mined(main.adoptedWaiver)' <=> Mined(w)
      BY <1>2 DEF Mined, waiverTransaction
    <3>3. belongs(main.adoptedWaiver)' <=> belongs(w)
      BY <1>2 DEF belongs, waiverTransaction
    <3> QED  BY <3>1, <3>2, <3>3
  <2>4. main'.at \notin AtDesk
    BY <1>2 DEF AtDesk
  <2> QED  BY <1>2, <2>1, <2>2, <2>3, <2>4 DEF Waiving
<1> QED  BY <1>6, <1>7, <1>8, <1>9 DEF Script

\* A run keeps its name.
LEMMA NameStays ==
  ASSUME MainInv, main' # Off,
         \/ adoptStep \/ transact \/ awaitReceipt \/ refreshExposureCredential
         \/ waive \/ proposeWaiver \/ approve \/ execute \/ confirm \/ recordWaiver
         \/ lapse \/ waiverOver
  PROVE  main # Off /\ main'.name = main.name
<1>1. ASSUME main # Off, NEW at, NEW todo, NEW steps, NEW i,
             \/ main' = main
             \/ main' = [main EXCEPT !.at = at]
             \/ main' = [main EXCEPT !.todo = todo]
             \/ main' = [main EXCEPT !.at = at, !.intent = i]
             \/ main' = [main EXCEPT !.at = at, !.todo = todo, !.steps = steps]
      PROVE  main # Off /\ main'.name = main.name
  BY <1>1 DEF MainInv, IsRun
<1>2. ASSUME main # Off, NEW steps, goOn(steps) PROVE main # Off /\ main'.name = main.name
  BY <1>1, <1>2 DEF goOn
<1>3. CASE adoptStep \/ awaitReceipt \/ recordWaiver
  BY <1>2, <1>3 DEF adoptStep, awaitReceipt, recordWaiver, doing, record, fail
<1>4. CASE transact \/ lapse \/ waiverOver
  BY <1>1, <1>2, <1>4 DEF transact, lapse, waiverOver, doing, fail
<1>5. CASE refreshExposureCredential
  <2> DEFINE todo == << [op |-> "send",
                 tx |-> [run |-> main.run, step |-> "W-7", fn |-> "submitExposure",
                         arg |-> chain.exposure + 1]] >> \o Tail(main.todo)
  <2>1. main # Off /\ main' = [main EXCEPT !.todo = todo]
    BY <1>5 DEF refreshExposureCredential, doing
  <2> HIDE DEF todo
  <2> QED  BY <1>1, <2>1
<1>6. CASE waive \/ proposeWaiver
  BY <1>1, <1>6 DEF waive, proposeWaiver, doing, fail
<1>7. CASE approve \/ execute \/ confirm
  BY <1>1, <1>7 DEF approve, execute, confirm, fail
<1> QED  BY <1>3, <1>4, <1>5, <1>6, <1>7

LEMMA ScriptKeeps ==
  ASSUME Known, IsScript => Script, [Next]_vars, IsScript' PROVE Script'
<1>1. MainInv /\ ChainInv /\ UpdateInv /\ JournalInv /\ RunInv
  BY KnownParts
<1>2. main' # Off /\ main'.name = "arc-waiver-run"
  BY DEF IsScript, Off
<1>3. CASE UNCHANGED main
  <2>1. IsScript /\ Script
    BY <1>3 DEF IsScript, Off
  <2>2. ASSUME UNCHANGED <<queue, landed>> PROVE Script'
    BY <1>3, <2>1, <2>2, ScriptBeside
  <2>3. CASE sendUpdate
    <3>1. /\ UNCHANGED landed
          /\ \A k \in DOMAIN queue' : \/ \E j \in DOMAIN queue : queue'[k] = queue[j]
                                      \/ queue'[k].step \notin Steps
      BY <1>1, <2>3, UpdateSends DEF IsUpdateTx, Steps
    <3> QED  BY <1>3, <2>1, <3>1, ScriptBeside
  <2>4. CASE transact
    BY <1>2, <2>1, <2>4, ScriptTransacts
  <2> QED  BY <2>1, <2>2, <2>3, <2>4, ScriptMines, Senders
<1>4. CASE startRunWaiver
  <2>1. main'.name = "run-waiver"
    BY <1>4 DEF startRunWaiver
  <2> QED  BY <1>2, <2>1
<1>5. CASE \E w \in 0..Len(intents), resuming, refreshExposure \in BOOLEAN :
             startRun(w, resuming, refreshExposure)
  BY <1>5, ScriptStarts
<1>6. CASE \/ adoptStep \/ transact \/ awaitReceipt \/ refreshExposureCredential
           \/ waive \/ proposeWaiver \/ approve \/ execute \/ confirm \/ recordWaiver
           \/ lapse \/ waiverOver
  <2>1. IsScript /\ Script
    BY <1>1, <1>2, <1>6, NameStays DEF IsScript
  <2>2. CASE proposeWaiver
    <3>1. main.todo # << >> /\ instruction.op = "propose"
      BY <2>2 DEF proposeWaiver, doing
    <3>2. Regular(instruction)
      BY <2>1, <3>1, RestInOrder DEF Script, Place, instruction
    <3> QED  BY <3>1, <3>2 DEF Regular
  <2> QED  BY <1>2, <1>6, <2>1, <2>2, ScriptRecords, ScriptTransacts, ScriptRefreshes,
              ScriptWaives, ScriptDesk, ScriptPasses
<1> QED  BY <1>2, <1>3, <1>4, <1>5, <1>6, MainMovers

LEMMA LinkKeeps == ASSUME Known, IsScript => Script, [Next]_vars PROVE LinkInv'
<1>1. MainInv /\ ChainInv /\ UpdateInv /\ JournalInv /\ LinkInv /\ RunInv
  BY KnownParts
<1>2. ASSUME transact
      PROVE  /\ Shaped(instruction.tx)
             /\ \A first, second \in Steps :
                  isCall(instruction.tx, second) /\ stageOf(first) < stageOf(second) => done(first) # {}
  <2>1. main # Off /\ main.todo # << >> /\ instruction.op = "send" /\ doing("send")
    BY <1>2 DEF transact, doing
  <2>2. IsScript /\ Script
    <3>1. ~DeskRun
      BY <2>1, DeskDoes
    <3> QED  BY <1>1, <2>1, <3>1 DEF RunInv, IsScript
  <2>3. Shaped(instruction.tx)
    BY <2>1, <2>2, RestInOrder DEF Script, Place, Regular, instruction
  <2>4. ASSUME NEW first \in Steps, NEW second \in Steps,
               isCall(instruction.tx, second), stageOf(first) < stageOf(second)
        PROVE  done(first) # {}
    <3>1. stage(instruction) = stageOf(second)
      BY <2>1, <2>4 DEF stage, isCall
    <3> QED  BY <2>1, <2>2, <2>4, <3>1, Before DEF Script
  <2> QED  BY <2>3, <2>4
<1>3. ASSUME NEW first \in Steps, NEW second \in Steps, Linked(first, second),
             stageOf(first) < stageOf(second)
      PROVE  Linked(first, second)'
  BY <1>1, <1>2, <1>3, LinkedKeeps
<1>4. Linked("W-1", "W-2")' /\ Linked("W-2", "W-3")' /\ Linked("W-5", "W-6")'
  BY <1>1, <1>3, StepStages DEF LinkInv, Steps
<1>5. /\ \A k \in DOMAIN queue' : Shaped(queue'[k])
      /\ \A k \in DOMAIN landed' : Shaped(landed'[k].tx)
  BY <1>1, <1>2, ShapeKeeps
<1> QED  BY <1>4, <1>5 DEF LinkInv, Shaped

-----------------------------------------------------------------------------
(* A complete run.                                                         *)

\* At its end a script has nothing left to ask for: all the steps are on chain and in the
\* evidence, each after the one before it.
LEMMA EndIsWhole == ASSUME Known, IsScript, Script, end PROVE CompleteIsWhole'
<1>1. ChainInv /\ LinkInv
  BY KnownParts
<1>2. /\ main.at = "next" /\ main.todo # << >> /\ instruction.op = "end"
      /\ UNCHANGED landed /\ file'.steps = main.steps
  BY DEF end, doing, writeEvidence, IsScript
<1>3. stage(instruction) = 8
  BY <1>2 DEF stage
<1>4. \A i \in Range(main.todo) : 8 <= stage(i)
  BY <1>2, <1>3, RestInOrder DEF Script, Place, instruction
<1>5. (\A tx : ~Adopts(main.todo, tx)) /\ ~Waives(main.todo)
  <2>1. \A i : i.op \in {"adopt", "waive"} => stage(i) \in {0, 4}
    BY DEF stage
  <2> QED  BY <1>4, <2>1 DEF Adopts, Waives
<1>6. ASSUME NEW step \in Steps
      PROVE  done(step) # {} /\ \A k \in done(step) : landed[k].tx \in main.steps
  <2>1. stageOf(step) < stage(instruction)
    BY <1>3, StepStages DEF Steps
  <2>2. done(step) # {}
    BY <1>2, <2>1, Before DEF Script
  <2>3. \A k \in done(step) : landed[k].tx.step = step
    BY DEF done, isCall
  <2> QED  BY <1>2, <1>5, <2>2, <2>3 DEF Script, Books, Accounted
<1>7. PICK f \in done("W-6") : TRUE
  BY <1>6 DEF Steps
<1>8. PICK e \in done("W-5") : e < f
  BY <1>1, <1>7 DEF LinkInv, Linked
<1>9. landed[e].covenant = [state |-> "WAIVED", full |-> FALSE]
  BY <1>6, <1>8 DEF Script, Verified, Steps
<1>10. waiverTransaction(main.intent) \in main.steps /\ belongs(main.intent)
  <2>1. landed[e].covenant.state = "WAIVED"
    BY <1>9
  <2> QED  BY <1>5, <1>8, <2>1 DEF Script, Waiving, WaiverDone, Follows, Lapsed
<1>11. PICK d \in DOMAIN landed : landed[d].tx = waiverTransaction(main.intent) /\ landed[d].ok = TRUE
  <2>1. waiverTransaction(main.intent).step = "W-4"
    BY DEF waiverTransaction
  <2> QED  BY <1>10, <2>1 DEF Script, Books, Outcome
<1>12. d < e
  <2>1. e \in DOMAIN landed /\ landed[e].tx.step = "W-5" /\ landed[e].ok
    BY DEF done, isCall, Outcome
  <2> QED  BY <1>10, <1>11, <2>1 DEF belongs
<1>13. PICK c \in done("W-3") : c < d
  <2>1. PICK c \in DOMAIN landed : c < d /\ landed[c].tx.step = "W-3" /\ ~landed[c].ok
    BY <1>10, <1>11 DEF belongs
  <2>2. c \in done("W-3")
    BY <1>1, <2>1, ThirdDone
  <2> QED  BY <2>1, <2>2
<1>14. PICK b \in done("W-2") : b < c
  BY <1>1, <1>13 DEF LinkInv, Linked
<1>15. PICK a \in done("W-1") : a < b
  BY <1>1, <1>14 DEF LinkInv, Linked
<1>16. ASSUME NEW step \in Steps, NEW k \in done(step)
       PROVE  k \in evidenced(step, lastCall(step), Outcome(step))'
  <2>1. k \in DOMAIN landed /\ isCall(landed[k].tx, step) /\ landed[k].ok = Outcome(step)
    BY DEF done
  <2> QED  BY <1>2, <1>6, <1>16, <2>1 DEF evidenced, isCall
<1>17. /\ lastCall("W-1") = "draw" /\ lastCall("W-2") = "syncCovenant" /\ lastCall("W-3") = "draw"
       /\ lastCall("W-5") = "draw" /\ lastCall("W-6") = "syncCovenant"
       /\ Outcome("W-1") = TRUE /\ Outcome("W-2") = TRUE /\ Outcome("W-3") = FALSE
       /\ Outcome("W-5") = TRUE /\ Outcome("W-6") = TRUE
  BY DEF lastCall, Outcome
<1>18. /\ a \in evidenced("W-1", "draw", TRUE)' /\ b \in evidenced("W-2", "syncCovenant", TRUE)'
       /\ c \in evidenced("W-3", "draw", FALSE)' /\ e \in evidenced("W-5", "draw", TRUE)'
       /\ f \in evidenced("W-6", "syncCovenant", TRUE)'
  <2>1. ASSUME NEW step \in Steps, NEW k \in done(step), NEW fn, NEW ok,
               fn = lastCall(step), ok = Outcome(step)
        PROVE  k \in evidenced(step, fn, ok)'
    BY <1>16, <2>1
  <2> QED  BY <1>17, <2>1 DEF Steps
<1>19. d \in evidenced("W-4", "createWaiver", TRUE)'
  <2>1. landed[d].tx.step = "W-4" /\ landed[d].tx.fn = "createWaiver"
    BY <1>11 DEF waiverTransaction
  <2> QED  BY <1>2, <1>10, <1>11, <2>1 DEF evidenced
<1>20. landed'[c].refusal = "CURE" /\ landed'[e].covenant = [state |-> "WAIVED", full |-> FALSE]
  BY <1>2, <1>6, <1>9 DEF Script, Verified, Steps
<1> QED  BY <1>8, <1>12, <1>13, <1>14, <1>15, <1>18, <1>19, <1>20 DEF CompleteIsWhole

\* Only the end of the script calls a run complete.
LEMMA FileMovers ==
  ASSUME [Next]_vars
  PROVE  UNCHANGED file \/ file'.outcome # "complete" \/ (end /\ main.name = "arc-waiver-run")
<1>1. ASSUME NEW steps, NEW outcome \in {"incomplete", "failed"}, writeEvidence(steps, outcome)
      PROVE  UNCHANGED file \/ file'.outcome # "complete"
  BY <1>1 DEF writeEvidence
<1>2. ASSUME NEW steps, fail(steps) PROVE UNCHANGED file \/ file'.outcome # "complete"
  BY <1>1, <1>2 DEF fail
<1>3. ASSUME NEW r, NEW asExpected, record(r, asExpected)
      PROVE  UNCHANGED file \/ file'.outcome # "complete"
  BY <1>1, <1>2, <1>3 DEF record
<1>4. CASE mine \/ waiverLapses \/ reject \/ UNCHANGED vars
  BY <1>4 DEF mine, waiverLapses, reject, scriptVars, vars
<1>5. CASE \/ startRunWaiver
           \/ \E w \in 0..Len(intents), resuming, refreshExposure \in BOOLEAN :
                startRun(w, resuming, refreshExposure)
  BY <1>5 DEF startRunWaiver, startRun
<1>6. CASE adoptStep \/ awaitReceipt \/ recordWaiver
  BY <1>3, <1>6 DEF adoptStep, awaitReceipt, recordWaiver
<1>7. CASE transact \/ waive \/ proposeWaiver
  BY <1>2, <1>7 DEF transact, waive, proposeWaiver
<1>8. CASE execute \/ confirm \/ waiverOver
  BY <1>2, <1>8 DEF execute, confirm, waiverOver
<1>9. CASE refreshExposureCredential \/ approve \/ verifyWaiver \/ lapse \/ kill
  BY <1>9 DEF refreshExposureCredential, approve, verifyWaiver, lapse, kill
<1>10. CASE end
  BY <1>10 DEF end, writeEvidence
<1>11. CASE \/ startHedgeUpdate \/ startExposureRefresh \/ sendUpdate
            \/ recordHedgeUpdate \/ recordExposureRefresh
  BY <1>11 DEF startHedgeUpdate, startExposureRefresh, startUpdate, sendUpdate,
               recordHedgeUpdate, recordExposureRefresh
<1> QED  BY <1>4, <1>5, <1>6, <1>7, <1>8, <1>9, <1>10, <1>11 DEF Next

LEMMA CompleteKeeps ==
  ASSUME Known, IsScript => Script, CompleteIsWhole, [Next]_vars PROVE CompleteIsWhole'
<1>1. ChainInv /\ RunInv
  BY KnownParts
<1>2. CASE file'.outcome # "complete"
  BY <1>2 DEF CompleteIsWhole
<1>3. CASE UNCHANGED file
  <2>1. \A k \in DOMAIN landed : k \in DOMAIN landed' /\ landed'[k] = landed[k]
    BY <1>1, LandedGrows
  <2>2. \A step, fn, ok : evidenced(step, fn, ok) \subseteq evidenced(step, fn, ok)'
    BY <1>3, <2>1 DEF evidenced
  <2>3. \A step, fn, ok : \A k \in evidenced(step, fn, ok) : landed'[k] = landed[k]
    BY <2>1 DEF evidenced
  <2>4. CASE file.outcome # "complete"
    BY <1>3, <2>4 DEF CompleteIsWhole
  <2>5. CASE file.outcome = "complete"
    <3>1. PICK a \in evidenced("W-1", "draw", TRUE), b \in evidenced("W-2", "syncCovenant", TRUE),
               c \in evidenced("W-3", "draw", FALSE), d \in evidenced("W-4", "createWaiver", TRUE),
               e \in evidenced("W-5", "draw", TRUE), f \in evidenced("W-6", "syncCovenant", TRUE) :
            /\ a < b /\ b < c /\ c < d /\ d < e /\ e < f
            /\ landed[c].refusal = "CURE"
            /\ landed[e].covenant = [state |-> "WAIVED", full |-> FALSE]
      BY <2>5 DEF CompleteIsWhole
    <3>2. /\ a \in evidenced("W-1", "draw", TRUE)' /\ b \in evidenced("W-2", "syncCovenant", TRUE)'
          /\ c \in evidenced("W-3", "draw", FALSE)' /\ d \in evidenced("W-4", "createWaiver", TRUE)'
          /\ e \in evidenced("W-5", "draw", TRUE)' /\ f \in evidenced("W-6", "syncCovenant", TRUE)'
          /\ landed'[c] = landed[c] /\ landed'[e] = landed[e]
      BY <2>2, <2>3
    <3> QED  BY <3>1, <3>2 DEF CompleteIsWhole
  <2> QED  BY <2>4, <2>5
<1>4. CASE end /\ main.name = "arc-waiver-run"
  <2>1. IsScript
    BY <1>4 DEF end, doing, IsScript
  <2> QED  BY <1>4, <2>1, EndIsWhole
<1> QED  BY <1>2, <1>3, <1>4, FileMovers

\* What of the scripts' invariants is about the sequence of a complete run.
WholeInv == LinkInv /\ (IsScript => Script) /\ CompleteIsWhole

LEMMA WholeInvariant == Spec => []WholeInv
<1>1. Init => WholeInv
  <2> SUFFICES ASSUME Init PROVE WholeInv
    OBVIOUS
  <2>1. main = Off /\ queue = << >> /\ landed = << >> /\ DOMAIN << >> = {} /\ ~IsScript
    BY DEF Init, IsScript
  <2>2. CompleteIsWhole
    BY DEF Init, CompleteIsWhole
  <2> QED  BY <2>1, <2>2 DEF WholeInv, LinkInv, Linked, done
<1>2. ASSUME DrawInv, WaiverInv, UpdateInv, FreshInv, JournalInv, ThirdInv, WholeInv, [Next]_vars
      PROVE  WholeInv'
  <2>1. Known /\ (IsScript => Script) /\ CompleteIsWhole
    BY <1>2 DEF Known, WholeInv
  <2>2. LinkInv' /\ CompleteIsWhole' /\ (IsScript' => Script')
    BY <1>2, <2>1, LinkKeeps, CompleteKeeps, ScriptKeeps
  <2> QED  BY <2>2 DEF WholeInv
<1> QED
  BY <1>1, <1>2, DrawInvariant, WaiverInvariant, UpdateInvariant, FreshInvariant, JournalInvariant,
     ThirdInvariant, PTL DEF Spec

\* A run that calls itself complete has the whole sequence on chain and in its evidence, each
\* step after the one before it, whatever was killed, adopted or sent by others in between.
THEOREM CompleteRunIsWhole == Spec => []CompleteIsWhole
<1>1. WholeInv => CompleteIsWhole
  BY DEF WholeInv
<1> QED  BY <1>1, WholeInvariant, PTL
==============================================================================
