---------------------------- MODULE MCStolenTiles ----------------------------
(* Replicated rendering with the dynamic load balancer, in frames where    *)
(* worker 1 takes all the tiles, those that worker 2 owns included.        *)
EXTENDS DistributedFrame

StolenRenderers == [t \in 0..NumTiles-1 |-> {1}]
=============================================================================
