-------------------------- MODULE MCBridgeRegistry --------------------------
(***************************************************************************)
(* Instances of BridgeRegistry: plugins of both types and of every kind of *)
(* task option compete for one bridge name.                        *)
(***************************************************************************)
EXTENDS BridgeRegistry, TLC

CONSTANTS n1, p1, p2, p3, json, binary

\* Every plugin has the same name.
OneName == [p \in Plugins |-> n1]
PluginTypes == [p \in Plugins |-> IF p = p2 THEN binary ELSE json]
PluginOptions ==
  [p \in Plugins |-> CASE p = p1 -> "serial" [] p = p2 -> None [] p = p3 -> "concurrent"]

\* Both ends of a bridge get through: every registration on either end returns to
\* its caller, and a plugin and a receiver of its type that stay registered under
\* one name find each other, whichever thread comes first.
EndsMeet == CallsReturn /\ PeerFound
=============================================================================
