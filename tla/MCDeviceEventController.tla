---------------------- MODULE MCDeviceEventController ----------------------
(* Keystroke listeners for the run of DeviceEventController. *)
EXTENDS DeviceEventController

CONSTANTS a, b, c, m1, m2, k1, k2

Listener(client, p, m, ks, g, pre) ==
  [client |-> client, path |-> p, mask |-> m, keys |-> ks, global |-> g, preemptive |-> pre]

\* a, who may consume a key, meets an application with a listener for all keys and
\* one of toolkits' keys, or c, whose listener is registered for two masks and names
\* a's key twice.
Registrations ==
  {Listener(a, "l1", m1, <<k1>>, TRUE, TRUE),
   Listener(b, "l1", m1, <<>>, TRUE, FALSE), Listener(b, "l2", m1, <<k1>>, FALSE, TRUE),
   Listener(c, "l1", m1, <<k1, k1>>, TRUE, TRUE), Listener(c, "l1", m2, <<k1, k2>>, TRUE, TRUE)}

Pairs == {{a, b}, {a, c}}
Calls == [x \in Client |-> CASE x = a -> 1 [] x = b -> 2 [] x = c -> 4]
FirstKey == {[mask |-> m1, key |-> k1]}
RefusedKey == {<<m2, k2>>}
=============================================================================
