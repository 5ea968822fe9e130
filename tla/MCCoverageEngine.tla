--------------------------- MODULE MCCoverageEngine ---------------------------
(***************************************************************************)
(* CoverageEngine over two trades, one issuer per role whose authorization *)
(* the admin may withdraw and grant again, and messages around every       *)
(* boundary the evaluation tests: the haircut threshold, over-hedging, the *)
(* start and the end of validity, the maximum age, the maturity tolerance. *)
(***************************************************************************)
EXTENDS CoverageEngine, TLC

CONSTANTS admin, operator, e, h, t1, t2

MCAccounts == {admin, operator}
MCIssuers == {e, h}
MCTrades == {t1, t2}

MCPolicies ==
  {[settlementCurrency |-> "EUR", exposureCurrency |-> "XAU",
    minCoverageBps |-> 9000, credentialMaxAge |-> 2, maturityTolerance |-> 1,
    defaultHaircutBps |-> 500, reserveAmount |-> 1, curePeriod |-> 1,
    maxWaiverDuration |-> 1, maxActiveHedges |-> 2,
    admin |-> admin, operator |-> operator, frozen |-> FALSE]}

exposureMessage(seq, value, observed, until, maturity) ==
  [settlementCurrency |-> "EUR", exposureCurrency |-> "XAU",
   outstandingValue |-> value, exposureMaturity |-> maturity,
   observedAt |-> observed, validUntil |-> until, sequence |-> seq]

hedgeMessage(t, seq, status, notional, observed, until, maturity) ==
  [tradeId |-> t, baseCurrency |-> "EUR", quoteCurrency |-> "XAU",
   remainingNotional |-> notional, maturity |-> maturity, status |-> status,
   observedAt |-> observed, validUntil |-> until, sequence |-> seq]

\* With a haircut of 5%, 95 of notional floors to 90 and just meets the 90% of an
\* exposure of 100; 94 gives 89, one short; both over-hedge it.  The second exposure
\* message and t2 are post-dated, and that exposure matures beyond t2's tolerance.
MCExposures ==
  {exposureMessage(1, 100, 0, 3, 3), exposureMessage(2, 100, 1, 2, 4)}
MCHedges ==
  {hedgeMessage(t1, 1, "ACTIVE", 94, 0, 3, 3), hedgeMessage(t1, 2, "DISPUTED", 94, 1, 3, 3),
   hedgeMessage(t2, 1, "ACTIVE", 95, 1, 2, 2)}
=============================================================================
