---------------------------- MODULE Supervision ----------------------------
(***************************************************************************)
(* What the supervisor of src/lib/synth3x-safe/src/process.rs promises of  *)
(* each process: it comes up by its one launch or by spending one of its   *)
(* restarts, never while it is up, and never more often than max_restarts  *)
(* allows between two calls of reset_restart_count.                        *)
(***************************************************************************)
EXTENDS Integers

CONSTANTS
  Processes,    (* The supervised processes.                                 *)
  Policy,       (* The restart_policy of each.                               *)
  MaxRestarts   (* The max_restarts of each.                                 *)

VARIABLES
  up,           (* The processes with a running instance.                    *)
  launched,     (* The processes start_all has tried to start.               *)
  used          (* Restarts spent by each.                                   *)

vars == <<up, launched, used>>

Init ==
  /\ up = {}
  /\ launched = {}
  /\ used = [p \in Processes |-> 0]

(* An attempt to start p may fail, and leaves it down then.                *)
Spawn(p) == up' \in {up, up \cup {p}}

Launch(p) ==
  /\ p \notin launched
  /\ launched' = launched \cup {p}
  /\ Spawn(p)
  /\ UNCHANGED used

Restart(p) ==
  /\ p \notin up
  /\ Policy[p] # "Never"
  /\ used[p] < MaxRestarts[p]
  /\ used' = [used EXCEPT ![p] = used[p] + 1]
  /\ Spawn(p)
  /\ UNCHANGED launched

GoDown(p) ==
  /\ up' = up \ {p}
  /\ UNCHANGED <<launched, used>>

Reset(p) ==
  /\ used' = [used EXCEPT ![p] = 0]
  /\ UNCHANGED <<up, launched>>

Next == \E p \in Processes : Launch(p) \/ Restart(p) \/ GoDown(p) \/ Reset(p)

Spec == Init /\ [][Next]_vars
=============================================================================
