------------------------------- MODULE MCPipe -------------------------------
(* A buffer of two items and a pipe that hands its items over. *)
EXTENDS Pipe, TLC

CONSTANTS v1, v2, v3

MCItems == 2 :> {v1, v2, v3} @@ 0 :> {v1, v2}

MCCalls ==
  2 :> {"disable", "empty", "wait_until_empty", "destroy"} @@
  0 :> {"disable", "disable_enqueue", "disable_dequeue", "timeout",
        "wait_for_num_blocked_dequeues", "destroy"}
=============================================================================
