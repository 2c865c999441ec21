-------------------------- MODULE MCBridgeMessaging --------------------------
(***************************************************************************)
(* Instances of BridgeMessaging: plugins of one bridge, with a serial      *)
(* queue, without a queue, with a concurrent one, and of the binary type.  *)
(***************************************************************************)
EXTENDS BridgeMessaging

CONSTANTS n1, json, binary, serialPlugin, plainPlugin, concurrentPlugin, binaryPlugin

OneName == [p \in Plugins |-> n1]
PluginTypes == [p \in Plugins |-> IF p = binaryPlugin THEN binary ELSE json]
PluginOptions ==
  [p \in Plugins |-> CASE p \in {serialPlugin, binaryPlugin} -> "serial"
                       [] p = plainPlugin -> None
                       [] p = concurrentPlugin -> "concurrent"]

\* What may find no delegate: the binary plugin may miss ArkUI's replies to its
\* calls, the serial one may miss the messages and the responses to its own.
PluginDeaf ==
  [p \in Plugins |-> CASE p = binaryPlugin -> {"result", "cancel"}
                       [] p = serialPlugin -> {"message", "response"}
                       [] OTHER -> {}]
NothingDeaf == [p \in Plugins |-> {}]

\* With the queues running and ArkUI replying, a call of either end is answered in the
\* end, by its result or by an error, or it was dropped and had an excuse: an end that
\* changed, an answer that cannot be sent, or one that nobody hears.
CallsSettled == ArkUICallsSettled /\ PluginCallsSettled
=============================================================================
