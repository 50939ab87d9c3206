--------------------------- MODULE MCIngestStudies ---------------------------
(* Studies of the session on one account: one life with two sources and a     *)
(* competing owner; two lives with one source, cancelled requests and both    *)
(* failover modes; and, under the fairness of its tasks, a single life.       *)
EXTENDS MCIngest

CONSTANT s1
VARIABLE study

StudyInit ==
    /\ study \in {"failover", "lives"} /\ Init
    /\ IF study = "failover" THEN eligible = Sources /\ allowFailover ELSE eligible = {s1}

StudyNext ==
    /\ UNCHANGED study /\ Next
    /\ IF study = "failover"
       THEN lives' <= 1 /\ ~\E c \in Clients : RequestCancelled(c)
       ELSE /\ eligible' \subseteq {s1}
            /\ \A o \in Owners \ {Self}, k \in Keys : allocations'[k][o] = {}

StudySpec == StudyInit /\ [][StudyNext]_<<vars, study>>

LiveInit == study = "live" /\ Init
LiveNext == Next /\ UNCHANGED study
LiveSpec == LiveInit /\ [][LiveNext]_<<vars, study>> /\ Fairness
=============================================================================
