------------------------------ MODULE MCAlerts ------------------------------
(* One finding; anchors with a scope value and without.  The intervals in  *)
(* every order, limits of one and two, and three policies for the scope;   *)
(* scores of an event nothing fired on, below the floor, two of the lower  *)
(* severity and one of the higher.                                         *)
EXTENDS DecisionAlerts, TLC

CONSTANTS f1, e1

MCPolicies ==
  [grouping : {1, 2}, cooldown : {1, 2, 4}, horizon : {2, 4}, limit : {1, 2},
   bypass : BOOLEAN, scoped : {FALSE}, strict : {FALSE}]
  \cup [grouping : {1}, cooldown : {2}, horizon : {4}, limit : {1},
        bypass : {TRUE}, scoped : {TRUE}, strict : BOOLEAN]
=============================================================================
