-------------------------- MODULE MCCredentialRegistry --------------------------
(***************************************************************************)
(* CredentialRegistry with two trades for one or two places on the list of *)
(* active trades, three issuers that change roles, messages that take a    *)
(* trade onto the list and off it in two sequences, and policies that      *)
(* createFacility must accept and refuse.                                  *)
(***************************************************************************)
EXTENDS CredentialRegistry, TLC

CONSTANTS admin, operator, i1, i2, i3, t1, t2, MaxSequence

MCAccounts == {admin, operator}
MCIssuers == {i1, i2, i3, Zero}
MCTrades == {t1, t2}

policyOf(a, o, active) ==
  [settlementCurrency |-> "EUR", exposureCurrency |-> "XAU",
   minCoverageBps |-> 10000, credentialMaxAge |-> 2, maturityTolerance |-> 1,
   defaultHaircutBps |-> 500, reserveAmount |-> 1, curePeriod |-> 1,
   maxWaiverDuration |-> 1, maxActiveHedges |-> active,
   admin |-> a, operator |-> o, frozen |-> FALSE]

\* Two that are accepted; one party in both roles, too many hedges or none, frozen.
MCPolicies ==
  {policyOf(admin, operator, 1), policyOf(operator, admin, 2),
   policyOf(admin, admin, 2), policyOf(operator, admin, 9), policyOf(operator, admin, 0),
   [policyOf(admin, operator, 2) EXCEPT !.frozen = TRUE]}

exposureMessage(seq, value) ==
  [settlementCurrency |-> "EUR", exposureCurrency |-> "XAU",
   outstandingValue |-> value, exposureMaturity |-> 3, observedAt |-> 0,
   validUntil |-> 3, sequence |-> seq]

hedgeMessage(t, seq, status) ==
  [tradeId |-> t, baseCurrency |-> "EUR", quoteCurrency |-> "XAU",
   remainingNotional |-> 10, maturity |-> 3, status |-> status,
   observedAt |-> 0, validUntil |-> 3, sequence |-> seq]

\* Messages every submission refuses: a zero value, a reversed pair, an
\* observation after the end of validity.
MalformedExposures ==
  {exposureMessage(MaxSequence, 0),
   [exposureMessage(MaxSequence, 10) EXCEPT !.settlementCurrency = "XAU"],
   [exposureMessage(MaxSequence, 10) EXCEPT !.observedAt = 4]}
MalformedHedges ==
  UNION {{[hedgeMessage(t, MaxSequence, "ACTIVE") EXCEPT !.quoteCurrency = "EUR"],
          [hedgeMessage(t, MaxSequence, "ACTIVE") EXCEPT !.observedAt = 4]} : t \in MCTrades}

MCExposures ==
  {exposureMessage(n, 10) : n \in 0..MaxSequence} \cup MalformedExposures
MCHedges ==
  {hedgeMessage(t, 1, "ACTIVE") : t \in MCTrades}
    \cup {hedgeMessage(t, 2, "CANCELLED") : t \in MCTrades} \cup MalformedHedges

\* Issuers and trades are interchangeable: no operator tells two of them apart.
MCSymmetry == Permutations({i1, i2, i3}) \cup Permutations(MCTrades)
=============================================================================
