----------------------------- MODULE MCP2PTransfer -----------------------------
(* Small instances of P2PTransfer.                                          *)
EXTENDS P2PTransfer, TLC

CONSTANTS n1, n2, n3, f1, f2, c1, c2

TwoNodes == {n1, n2}
ThreeNodes == {n1, n2, n3}
OneFile  == {f1}
ShortFile == {f2}
TwoFiles == {f1, f2}
OneConn  == {c1}
TwoConns == {c1, c2}
(* f1 has two chunks: a transfer can be interrupted between them.           *)
Sizes == [f \in Files |-> IF f = f1 THEN 2 ELSE 1]
MdnsPairs == Nodes \X Nodes
Ops(c, t, p, d, x, o) ==
  [copy |-> c, text |-> t, paste |-> p, drop |-> d, cut |-> x, connect |-> o]
(* A second paste; two drops of one node, or crossing ones (an accepted     *)
(* drop is pasted without a further operation of the user); a new           *)
(* connection against a paste; a link failure and a new connection against  *)
(* a drop.                                                                  *)
SmallBudgets == {Ops(1, 0, 2, 0, 0, 0), Ops(0, 0, 0, 2, 0, 0),
                 Ops(1, 0, 1, 0, 0, 1), Ops(0, 0, 0, 1, 1, 1)}
(* Bounds of the behaviours in which a node has goroutines on two           *)
(* connections to the same peer: the later one is set up while a requested  *)
(* file has not been acknowledged, and after the failure, if there is one;  *)
(* from then on no copied file is announced, and the watchers of a node     *)
(* that sends do not see that it does.                                      *)
Alive(l) == rpc[l] # "dead" \/ wpc[l] # "dead"
Beside == \E n, m \in Nodes, c, d \in Conns :
            n # m /\ c # d /\ Alive(<<n, m, c>>) /\ Alive(<<n, m, d>>)
Starts == rpc' # rpc /\ wpc' # wpc
SecondConn ==
  /\ up' # up => budget'["cut"] = 0
  /\ Starts /\ ~Beside /\ Beside' =>
       \E n \in Nodes : state[n] = "PROCESSING_TRAN_ING"
  /\ (cur' # cur \/ last' # last) /\ Beside =>
       \A l \in Links : /\ last'[l] # last[l] => last'[l] = None
                        /\ cur'[l] # cur[l] => state[l[1]] # "SRC_INIT"
(* The paste of one node against the request that follows a drop of its own *)
(* or of the other's, against a copied text, a second copy, and a link      *)
(* failure with a new connection.                                           *)
PasteBudgets == {Ops(1, 0, 1, 1, 0, 0), Ops(1, 1, 1, 0, 0, 0), Ops(2, 0, 1, 0, 0, 0),
                 Ops(1, 0, 1, 0, 1, 1)}
OneDropper == {n1}
(* Two drops of one node; a drop, a link failure and a new connection; a    *)
(* copy and a paste.                                                        *)
LiveBudgets == {Ops(0, 0, 0, 2, 0, 0), Ops(0, 0, 0, 1, 1, 1), Ops(1, 0, 1, 0, 0, 0)}
TwoDrops == {Ops(0, 0, 0, 2, 0, 0)}
Symmetry == Permutations(Nodes) \cup Permutations(Conns)
================================================================================
