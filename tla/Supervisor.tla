----------------------------- MODULE Supervisor -----------------------------
(***************************************************************************)
(* SafeProcess and Supervisor of src/lib/synth3x-safe/src/process.rs.      *)
(*                                                                         *)
(* One thread owns the supervisor (its methods take &mut self); between    *)
(* any two of its steps a child may exit.  A poll visits the processes in  *)
(* order and sleeps the backoff of each one it restarts before it visits   *)
(* the next.  try_wait keeps the status of a child that has exited until   *)
(* the handle is dropped.                                                  *)
(*                                                                         *)
(* The owner calls start_all once, polls for ever as Supervisor::run does, *)
(* and between polls makes the other calls Calls names.  try_wait never    *)
(* fails: nothing else reaps the children.                                 *)
(***************************************************************************)
EXTENDS Integers

CONSTANTS
  N,            (* Number of processes, numbered in the order of add.        *)
  Policy,       (* The restart_policy of each.                               *)
  MaxRestarts,  (* The max_restarts of each.                                 *)
  Calls         (* Calls the owner makes beside start_all and poll.          *)

Processes == 1..N

ASSUME SupervisorAssumption ==
  /\ N \in Nat \ {0}
  /\ Policy \in [Processes -> {"Always", "OnFailure", "Never"}]
  /\ MaxRestarts \in [Processes -> Nat]
  /\ Calls \subseteq {"stop", "wait", "reset"}

VARIABLES
  child,         (* Handle of each: "none", "live", or how the child exited. *)
  restart_count,
  backoff,       (* In milliseconds.                                         *)
  launched,      (* Processes start_all has reached.                         *)
  pc,            (* What the owner does ...                                  *)
  cur            (* ... and the process it is at.                            *)

vars == <<child, restart_count, backoff, launched, pc, cur>>

FIRST_BACKOFF == 500
LONGEST_BACKOFF == 30000

Init ==
  /\ child = [p \in Processes |-> "none"]
  /\ restart_count = [p \in Processes |-> 0]
  /\ backoff = [p \in Processes |-> FIRST_BACKOFF]
  /\ launched = {}
  /\ pc = "new"
  /\ cur = 1

(* The loops over the processes: on to the next, or back to the owner.     *)
Advance == IF cur < N THEN pc' = pc /\ cur' = cur + 1
                      ELSE pc' = "idle" /\ cur' = 1

(* start: a spawn that fails leaves the old handle.                        *)
SpawnOk(p) == child' = [child EXCEPT ![p] = "live"]
SpawnFails == UNCHANGED child

(* start_all: the first error ends it.                                     *)
StartAll ==
  /\ pc = "new"
  /\ launched' = launched \cup {cur}
  /\ \/ SpawnOk(cur) /\ Advance
     \/ SpawnFails /\ pc' = "idle" /\ cur' = 1
  /\ UNCHANGED <<restart_count, backoff>>

Poll ==
  /\ pc = "idle"
  /\ pc' = "poll"
  /\ UNCHANGED <<child, restart_count, backoff, launched, cur>>

(* Faulty variant: a restart too many.                                     *)
MayRestartOnceMore(p) ==
  /\ restart_count[p] <= MaxRestarts[p]
  /\ \/ Policy[p] = "Always"
     \/ Policy[p] = "OnFailure" /\ child[p] # "ok"

(* try_restart, up to its sleep: the policy and the budget.  A handle that *)
(* was dropped has no status to check.                                     *)
MayRestart(p) ==
  /\ restart_count[p] < MaxRestarts[p]
  /\ \/ Policy[p] = "Always"
     \/ Policy[p] = "OnFailure" /\ child[p] # "ok"

(* Faulty variant: poll returns at the first process that needs nothing.   *)
LeaveOthersToo ==
  /\ pc = "poll"
  /\ child[cur] = "live" \/ ~MayRestart(cur)
  /\ pc' = "idle" /\ cur' = 1
  /\ UNCHANGED <<child, restart_count, backoff, launched>>

(* poll at one process.                                                    *)
LeaveAlone ==
  /\ pc = "poll"
  /\ child[cur] = "live" \/ ~MayRestart(cur)
  /\ Advance
  /\ UNCHANGED <<child, restart_count, backoff, launched>>

Sleep ==
  /\ pc = "poll"
  /\ child[cur] # "live" /\ MayRestart(cur)
  /\ pc' = "sleep"
  /\ UNCHANGED <<child, restart_count, backoff, launched, cur>>

Doubled(b) == IF 2 * b < LONGEST_BACKOFF THEN 2 * b ELSE LONGEST_BACKOFF

(* try_restart after its sleep; poll ignores whether the spawn failed.     *)
Restart ==
  /\ pc = "sleep"
  /\ backoff' = [backoff EXCEPT ![cur] = Doubled(backoff[cur])]
  /\ restart_count' = [restart_count EXCEPT ![cur] = restart_count[cur] + 1]
  /\ SpawnOk(cur) \/ SpawnFails
  /\ IF cur < N THEN pc' = "poll" /\ cur' = cur + 1
                ELSE pc' = "idle" /\ cur' = 1
  /\ UNCHANGED launched

(* stop and kill: SIGKILL, and the handle is dropped.                      *)
Stop(p) ==
  /\ pc = "idle" /\ "stop" \in Calls
  /\ child' = [child EXCEPT ![p] = "none"]
  /\ UNCHANGED <<restart_count, backoff, launched, pc, cur>>

(* wait: returns when the child has exited, and drops its handle.          *)
Wait(p) ==
  /\ pc = "idle" /\ "wait" \in Calls
  /\ child[p] # "live"
  /\ child' = [child EXCEPT ![p] = "none"]
  /\ UNCHANGED <<restart_count, backoff, launched, pc, cur>>

(* Faulty variant: the backoff stays.                                      *)
ResetCountOnly(p) ==
  /\ pc = "idle" /\ "reset" \in Calls
  /\ restart_count' = [restart_count EXCEPT ![p] = 0]
  /\ UNCHANGED <<child, backoff, launched, pc, cur>>
Reset(p) ==
  /\ pc = "idle" /\ "reset" \in Calls
  /\ restart_count' = [restart_count EXCEPT ![p] = 0]
  /\ backoff' = [backoff EXCEPT ![p] = FIRST_BACKOFF]
  /\ UNCHANGED <<child, launched, pc, cur>>

(* A child exits by itself.                                                *)
Exit(p) ==
  /\ child[p] = "live"
  /\ child' \in {[child EXCEPT ![p] = status] : status \in {"ok", "failed"}}
  /\ UNCHANGED <<restart_count, backoff, launched, pc, cur>>

Run == StartAll \/ Poll \/ LeaveAlone \/ Sleep \/ Restart
Next == Run \/ \E p \in Processes : Stop(p) \/ Wait(p) \/ Reset(p) \/ Exit(p)

(* The owner's thread goes on with its loop.                               *)
Spec == Init /\ [][Next]_vars /\ WF_vars(Run)

(***************************************************************************)
(* Properties                                                              *)
(***************************************************************************)
TypeOK ==
  /\ child \in [Processes -> {"none", "live", "ok", "failed"}]
  /\ restart_count \in [Processes -> Nat]
  /\ backoff \in [Processes -> FIRST_BACKOFF..LONGEST_BACKOFF]
  /\ launched \subseteq Processes
  /\ pc \in {"new", "idle", "poll", "sleep"}
  /\ cur \in Processes

Up == {p \in Processes : child[p] = "live"}
Abstract == INSTANCE Supervision WITH up <- Up, used <- restart_count

(* The supervisor keeps the promise of Supervision: no second instance     *)
(* beside a running one, and no restart beyond the budget or the policy,   *)
(* although poll checks a process before the sleep and starts it after.    *)
KeepsPromise == Abstract!Spec

(* The delay before the next restart is 500 ms doubled once for each       *)
(* restart since the last reset, up to 30 s.                               *)
Delays == <<500, 1000, 2000, 4000, 8000, 16000>>
BackoffFollowsCount ==
  \A p \in Processes :
    backoff[p] = IF restart_count[p] < 6 THEN Delays[restart_count[p] + 1]
                                         ELSE 30000

(* A process under Always that is down is restarted, or has no restart     *)
(* left: the sleeps and failing starts of the others, and what the owner   *)
(* calls between polls, only delay it.                                     *)
AlwaysComesBack ==
  \A p \in Processes :
    Policy[p] = "Always" /\ child[p] # "live"
      ~> \/ child[p] = "live" \/ restart_count[p] = MaxRestarts[p]
         \/ pc = "sleep" /\ cur = p
=============================================================================
