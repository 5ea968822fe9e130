---------------------------- MODULE MCWaiverService ----------------------------
(***************************************************************************)
(* A quorum over two waivers and two intents, on one console. MCDeskInTurn *)
(* serves one request at a time, with a quorum of two; MCOneInFlight two   *)
(* at a time; MCMinedUnrecorded asks about a waiver that reverts.          *)
(***************************************************************************)
EXTENDS WaiverService

CONSTANTS console, r1, r2, i1, i2, m1, m2, w1, w2

MCMembers == {m1, m2}
MCCalls == {w1, w2}
OneMember == {m1}
OneCall == {w1}
TwoIntents == {i1, i2}

OneRequestHome == [r \in {r1} |-> console]
TwoRequestsHome == [r \in {r1, r2} |-> console]
=============================================================================
