---------------------------- MODULE MCFacilityRuns ----------------------------
(***************************************************************************)
(* Both facilities of the repository with their policies and amounts, and  *)
(* a quorum whose scripts are killed once and whose intents fail once.     *)
(***************************************************************************)
EXTENDS FacilityRuns

CONSTANTS deployer, originator, w1, w2, e, h, vault

MCAccounts == {deployer, originator, w1, w2}
MCWallets == <<w1, w2>>
MCManifestPolicy == DeployPolicy(deployer, originator)
MCSupply == [a \in MCAccounts |-> IF a = deployer THEN 5000 ELSE 0]
=============================================================================
