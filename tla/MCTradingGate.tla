---------------------------- MODULE MCTradingGate ----------------------------
(* Sizes are a fifth of the shipped ones: two contracts, one dollar an       *)
(* order, $2.30 an event.                                                    *)
EXTENDS TradingGate, TLC

CONSTANTS d1, d2

MCDesks == {d1, d2}
Symmetry == Permutations(MCDesks)

\* Paper sends nothing; these are a demo, a demo policy beside a production
\* environment, and an armed live policy.
MCPolicies ==
  {[mode |-> "demo", confirmation |-> TRUE, environment |-> "demo", armed |-> FALSE],
   [mode |-> "demo", confirmation |-> TRUE, environment |-> "production", armed |-> TRUE],
   [mode |-> "live", confirmation |-> TRUE, environment |-> "production", armed |-> TRUE]}

MCQuotes == {[bid |-> 43, ask |-> 45, status |-> "open"],
             [bid |-> 28, ask |-> 45, status |-> "open"]}
MCVersions == {"approved-v1", "v2"}
MCLowers == {25, 60}
MCDrafts == {[price |-> 50, contracts |-> 2, lower |-> 60, market |-> 45,
              version |-> "approved-v1", model |-> "unnamed"]}
MCAccounts == {[pnl |-> 0, open |-> 0, versions |-> {"approved-v1"}]}
=============================================================================
