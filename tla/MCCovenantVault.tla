---------------------------- MODULE MCCovenantVault ----------------------------
(***************************************************************************)
(* The whole on-chain system with one exposure issuer, one hedge issuer    *)
(* and one trade, whose messages take coverage away and give it back, and  *)
(* enough time for a cure period, a waiver and the maximum age to run out  *)
(* in every order.                                                         *)
(***************************************************************************)
EXTENDS CovenantVault

CONSTANTS admin, operator, e, h, t1, vault, reason

MCAccounts == {admin, operator}
MCIssuers == {e, h}
MCTrades == {t1}
MCSupply == [a \in MCAccounts |-> IF a = admin THEN 2 ELSE 1]

MCPolicies ==
  {[settlementCurrency |-> "EUR", exposureCurrency |-> "XAU",
    minCoverageBps |-> 9000, credentialMaxAge |-> 2, maturityTolerance |-> 1,
    defaultHaircutBps |-> 500, reserveAmount |-> 1, curePeriod |-> 1,
    maxWaiverDuration |-> 2, maxActiveHedges |-> 1,
    admin |-> admin, operator |-> operator, frozen |-> FALSE]}

exposureMessage(seq, observed) ==
  [settlementCurrency |-> "EUR", exposureCurrency |-> "XAU",
   outstandingValue |-> 100, exposureMaturity |-> 9,
   observedAt |-> observed, validUntil |-> 9, sequence |-> seq]

hedgeMessage(seq, notional, observed) ==
  [tradeId |-> t1, baseCurrency |-> "EUR", quoteCurrency |-> "XAU",
   remainingNotional |-> notional, maturity |-> 9, status |-> "ACTIVE",
   observedAt |-> observed, validUntil |-> 9, sequence |-> seq]

\* The covenant's clock: coverage comes at 1, falls short at 2, comes back at 3.
ClockExposures == {exposureMessage(1, 0), exposureMessage(2, 2)}
ClockHedges == {hedgeMessage(1, 95, 1), hedgeMessage(2, 94, 2), hedgeMessage(3, 100, 3)}

\* The capital: coverage that is there at once and is taken away by a message, a
\* revocation or age.
CapitalExposures == {exposureMessage(1, 0)}
CapitalHedges == {hedgeMessage(1, 95, 0), hedgeMessage(2, 94, 0)}
=============================================================================
