--------------------------- MODULE MCSrtHandshake ---------------------------
(* Instances of SrtHandshake for TLC. *)
EXTENDS SrtHandshake

CONSTANTS a, b, s, t, secret

\* One caller wishes for more latency than the listener, the other for less.
Latencies == [c \in Callers |-> IF c = a THEN 3 ELSE 1]
Allowed == [c \in Callers |-> {secret}]
SomeRefused == [c \in Callers |-> IF c = a THEN {secret} ELSE {secret, NoPass}]
AllOk == [c \in Callers |-> "ok"]
=============================================================================
