---------------------------- MODULE CovenantPromise ----------------------------
(***************************************************************************)
(* What a covenant-gated facility promises its lender (PRD.md section 8    *)
(* and R-F3-2), with no credential, clock or token in sight: where the     *)
(* covenant stands, whether a waiver lies over it, and how much has been   *)
(* released to the operator.                                               *)
(***************************************************************************)
EXTENDS Naturals

VARIABLES
  standing, \* UNASSESSED, COMPLIANT, CURE or BREACH
  waived,   \* a waiver lies over it
  released

promiseVars == <<standing, waived, released>>

Init == standing = "UNASSESSED" /\ ~waived /\ released = 0

\* Where an evaluation may take the covenant.  A breach follows a cure and ends
\* only in compliance; nothing is unassessed twice.
Verdicts ==
  [UNASSESSED |-> {"COMPLIANT", "CURE"},
   COMPLIANT  |-> {"COMPLIANT", "CURE"},
   CURE       |-> {"COMPLIANT", "CURE", "BREACH"},
   BREACH     |-> {"COMPLIANT", "BREACH"}]

\* An evaluation, which also ends a waiver.
Evaluate ==
  /\ standing' \in Verdicts[standing]
  /\ waived' = FALSE
  /\ UNCHANGED released

\* A waiver is laid over what a fresh evaluation finds insufficient.
Waive ==
  /\ standing' \in Verdicts[standing] \ {"COMPLIANT"}
  /\ waived' = TRUE
  /\ UNCHANGED released

\* More is released to the operator with the covenant compliant as just evaluated,
\* or under the waiver as it lies.
Release ==
  /\ released' > released
  /\ \/ /\ standing' = "COMPLIANT"
        /\ waived' = FALSE
     \/ /\ waived
        /\ UNCHANGED <<standing, waived>>

Repay == released' < released /\ UNCHANGED <<standing, waived>>

Next == Evaluate \/ Waive \/ Release \/ Repay

Spec == Init /\ [][Next]_promiseVars
=============================================================================
