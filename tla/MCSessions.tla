------------------------------- MODULE MCSessions ------------------------------
(* Instances of Sessions for TLC. *)
EXTENDS Sessions

\* A medium the package knows before one it knows, and behind one it does not.
Media(t, k) == [type |-> t, known |-> k]
Descriptions ==
    {<<Media("video", TRUE), Media("audio", TRUE)>>,
     <<Media("application", FALSE), Media("video", TRUE)>>}

Latencies == [c \in Callers |-> 3]
Secrets   == [c \in Callers |-> {"secret"}]
AllOk     == [c \in Callers |-> "ok"]
================================================================================
