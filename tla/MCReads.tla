-------------------------------- MODULE MCReads --------------------------------
(***************************************************************************)
(* Reports, Desk and Console on one trade, an amount of at most MaxAmount *)
(* and MaxBlocks blocks.  The three only share the chain and only read     *)
(* it, so each is run beside the chain alone: which, is chosen at the      *)
(* start.  The waiver panel is part of the desk's page and shares nothing  *)
(* with the rest of it, so it is run alone.                                *)
(***************************************************************************)
EXTENDS Reports, Desk, Console, WaiverPanel, TLC

CONSTANTS
  MaxProposals,  \* bound: of the panel's service
  MaxSignatures  \* bound: approvals under way at the panel and signatures given there

VARIABLE reader

Readers == {"reports", "desk", "console", "panel"}

reportsVars == <<report>>

panelBound ==
  /\ Cardinality(DOMAIN proposals) <= MaxProposals
  /\ Cardinality(signatures) + Cardinality({role \in Roles : signing[role] # NotSigning})
       <= MaxSignatures

MCInit ==
  /\ chain = << [trades |-> Trades, eligible |-> Trades, waiver |-> FALSE, available |-> 1] >>
  /\ ReportsInit /\ DeskInit /\ ConsoleInit /\ PanelInit
  /\ reader \in Readers
  /\ reader # "panel" => storedKeys = NoKeys

MCNext ==
  /\ UNCHANGED reader
  /\ \/ reader # "panel" /\ mineBlock
          /\ UNCHANGED <<reportsVars, deskVars, consoleVars, panelVars>>
     \/ reader = "reports" /\ ReportsNext
          /\ UNCHANGED <<chain, deskVars, consoleVars, panelVars>>
     \/ reader = "desk" /\ DeskNext
          /\ UNCHANGED <<chain, reportsVars, consoleVars, panelVars>>
     \/ reader = "console" /\ ConsoleNext
          /\ UNCHANGED <<chain, reportsVars, deskVars, panelVars>>
     \/ reader = "panel" /\ PanelNext /\ panelBound'
          /\ UNCHANGED <<chain, reportsVars, deskVars, consoleVars>>

MCSpec ==
  MCInit /\ [][MCNext]_<<reader, chain, reportsVars, deskVars, consoleVars, panelVars>>
=============================================================================
