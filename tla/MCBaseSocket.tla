---------------------------- MODULE MCBaseSocket ----------------------------
(* Model-checking instance of BaseSocket: three descriptors and three heap *)
(* slots, enough for a listener with two accepted connections, or a        *)
(* listener, an outgoing connection and one accepted one, and for the      *)
(* accept loop to run out of descriptors with connections still queued.    *)
EXTENDS BaseSocket, TLC

MCFds == 1..3

(* Heap slots are interchangeable: allocation picks any free one. *)
ObjSymmetry == Permutations(Objs)

=============================================================================
