----------------------------- MODULE MCServices -----------------------------
(***************************************************************************)
(* Small instances of the services that sign transactions and live with    *)
(* what becomes of them: bots trading one order, bridge runs, a            *)
(* distributor publishing claim roots.  They share nothing but the chain's *)
(* rules, so each behaviour has one of them at work.  Blocks are bounded   *)
(* for each, and midnight comes while at most one bot has run.             *)
(***************************************************************************)
EXTENDS Trades, Bridge, ClaimRoots, TLC

CONSTANTS
  bot1, bot2, t1, t2, t3, none, send, status, pass1, pass2,
  TradingHeight, BridgingHeight   \* bounds: the highest block for trades and for bridge runs

MCBots == {bot1, bot2}
MCSends == {t1, t2, t3}
MCRuns == {send, status}
MCStatusRuns == {status}
MCPasses == {pass1, pass2}

VARIABLE service   \* the one at work

servicesVars == <<landingVars, tradesVars, bridgeVars, claimsVars, service>>

Trading ==
  /\ service = "trades" /\ TradesNext /\ height' <= TradingHeight
  /\ Cardinality(ran) = 2 => today' = today
  /\ UNCHANGED <<bridgeVars, claimsVars>>
Bridging ==
  /\ service = "bridge" /\ BridgeNext /\ height' <= BridgingHeight
  /\ UNCHANGED <<tradesVars, claimsVars>>
Claiming == service = "claims" /\ ClaimsNext /\ UNCHANGED <<tradesVars, bridgeVars>>

(* Where no run bridges, nothing is said of bridging.                      *)
BridgeOver ==
  /\ journal = NoTransfers /\ copy = [r \in Runs |-> NoTransfers]
  /\ script = [r \in Runs |-> "off"] /\ transfer = [r \in Runs |-> {}]
  /\ arrived = {} /\ overlapped = TRUE

InitAt(which) ==
  /\ service \in which
  /\ TradesInit /\ ClaimsInit
  /\ IF service = "bridge" THEN BridgeInit ELSE BridgeOver
Next == (Trading \/ Bridging \/ Claiming) /\ UNCHANGED service

Spec == InitAt({"trades", "bridge", "claims"}) /\ [][Next]_servicesVars
TradesOnly == InitAt({"trades"}) /\ [][Next]_servicesVars
BridgeOnly == InitAt({"bridge"}) /\ [][Next]_servicesVars
ClaimsOnly == InitAt({"claims"}) /\ [][Next]_servicesVars

Symmetric == Permutations(MCBots) \cup Permutations(MCPasses)
=============================================================================
