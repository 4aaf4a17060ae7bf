------------------------------ MODULE MCBrowser ------------------------------
(* Small instances of BondPage and MarketPage, either of which is the page  *)
(* that is open.                                                            *)
EXTENDS BondPage, MarketPage, TLC

CONSTANTS o1, o2

MCBondOf == o1 :> "b1" @@ o2 :> "b2"
MCPrice == o1 :> 1 @@ o2 :> 2

VARIABLE open

BrowserInit ==
  /\ open \in {"bond", "market"} /\ PageInit /\ MarketInit
  /\ open = "market" => storageWorks
BrowserNext ==
  \/ open = "bond" /\ PageNext /\ UNCHANGED <<open, marketVars>>
  \/ open = "market" /\ MarketNext /\ UNCHANGED <<open, pageVars>>

BrowserSpec == BrowserInit /\ [][BrowserNext]_<<open, pageVars, marketVars>>
=============================================================================
