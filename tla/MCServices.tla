------------------------------ MODULE MCServices -----------------------------
(* Services that share nothing, each explored for itself: an HLS output       *)
(* session, a 24/7 channel, and the task queue with three serial tasks of two *)
(* priorities - the imports of two guides named alike among them - and the    *)
(* library syncs of two categories, which share the task key "vod-sync".      *)
EXTENDS CsoHls, VodChannel, TaskQueue, TLC

CONSTANTS publish, guideA, guideB, syncA, syncB
VARIABLE service
serviceVars == <<hlsVars, chVars, queueVars, service>>

MCNames == [k \in Kinds |-> IF k = guideB THEN guideA ELSE k]
MCIdentity == [k \in Kinds |-> IF k \in Concurrent THEN "vod-sync" ELSE k]
MCPriority == publish :> 11 @@ guideA :> 20 @@ guideB :> 20 @@ syncA :> 27 @@ syncB :> 27

\* In the channel's last life the viewers do not watch together.
ChannelBudget ==
  Len(loops') = MaxLives => \E w \in Watchers : watchers'[w].at \notin {"waits", "started", "watching"}

ServicesInit ==
  /\ service \in {"hls", "channel", "queue"}
  /\ HlsInit /\ ChannelInit /\ QueueInit

ServicesNext ==
  /\ UNCHANGED service
  /\ \/ service = "hls" /\ HlsNext /\ UNCHANGED <<chVars, queueVars>>
     \/ service = "channel" /\ ChannelNext /\ ChannelBudget /\ UNCHANGED <<hlsVars, queueVars>>
     \/ service = "queue" /\ QueueNext /\ UNCHANGED <<hlsVars, chVars>>

ServicesSpec ==
  /\ ServicesInit /\ [][ServicesNext]_serviceVars
  /\ HlsFairness /\ ChannelFairness /\ QueueFairness
=============================================================================
