----------------------------- MODULE MCWsClient -----------------------------
\* Model-checking instances of the browser's realtime client.
EXTENDS WsClient, TLC

\* Accounts and WebSocket objects are interchangeable: no choice among them is
\* deterministic, and every property quantifies over all of them.
Symmetry == Permutations(Accounts) \cup Permutations(Sockets)
=============================================================================
