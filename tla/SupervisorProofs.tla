-------------------------- MODULE SupervisorProofs --------------------------
(***************************************************************************)
(* Theorems about those who keep processes running: Supervisor, for any    *)
(* number of processes, any policies and budgets, and any calls of the     *)
(* owner; and, below, Synit, for any terminals.                            *)
(***************************************************************************)
EXTENDS Supervisor, Synit, TLAPS

(* The two ends of the delay, so that no leaf below has to expand them.    *)
LEMMA Ends == /\ FIRST_BACKOFF \in Int /\ LONGEST_BACKOFF \in Int
              /\ 0 < FIRST_BACKOFF /\ FIRST_BACKOFF <= LONGEST_BACKOFF
BY DEF FIRST_BACKOFF, LONGEST_BACKOFF

LEMMA DoubledBounds ==
  ASSUME NEW b \in FIRST_BACKOFF..LONGEST_BACKOFF
  PROVE  Doubled(b) \in FIRST_BACKOFF..LONGEST_BACKOFF
<1>1. b \in Int /\ FIRST_BACKOFF <= b /\ b <= LONGEST_BACKOFF
  BY Ends
<1>2. CASE 2 * b < LONGEST_BACKOFF
  <2>1. Doubled(b) = 2 * b
    BY <1>2 DEF Doubled
  <2>2. 2 * b \in Int /\ FIRST_BACKOFF <= 2 * b
    BY <1>1, Ends
  <2>3. QED
    BY <2>1, <2>2, <1>2, Ends
<1>3. CASE ~(2 * b < LONGEST_BACKOFF)
  BY <1>3, Ends DEF Doubled
<1>4. QED
  BY <1>2, <1>3

(* The order in which poll and start_all visit the processes.              *)
LEMMA Order ==
  ASSUME NEW p \in Processes
  PROVE  1 \in Processes /\ (p < N => p + 1 \in Processes)
BY SupervisorAssumption DEF Processes

(* The state keeps its types; the delay never leaves 500 ms to 30 s.       *)
THEOREM TypeCorrect == Spec => []TypeOK
<1>1. Init => TypeOK
  BY SupervisorAssumption
     DEF Init, TypeOK, Processes, FIRST_BACKOFF, LONGEST_BACKOFF
<1>2. ASSUME TypeOK, [Next]_vars PROVE TypeOK'
  <2>1. CASE StartAll
    <3>1. cur \in Processes /\ cur' \in Processes /\ pc' \in {"new", "idle"}
      BY <1>2, <2>1, Order DEF StartAll, Advance, TypeOK
    <3>2. child' \in [Processes -> {"none", "live", "ok", "failed"}]
      BY <1>2, <2>1 DEF StartAll, SpawnOk, SpawnFails, TypeOK
    <3>3. QED
      BY <1>2, <2>1, <3>1, <3>2 DEF StartAll, TypeOK
  <2>2. CASE Poll
    BY <1>2, <2>2 DEF Poll, TypeOK
  <2>3. CASE LeaveAlone \/ Sleep
    <3>1. cur' \in Processes /\ pc' \in {"idle", "poll", "sleep"}
      BY <1>2, <2>3, Order DEF LeaveAlone, Sleep, Advance, TypeOK
    <3>2. QED
      BY <1>2, <2>3, <3>1 DEF LeaveAlone, Sleep, TypeOK
  <2>4. CASE Restart
    <3>1. Doubled(backoff[cur]) \in FIRST_BACKOFF..LONGEST_BACKOFF
      BY <1>2, DoubledBounds DEF TypeOK
    <3>2. backoff' \in [Processes -> FIRST_BACKOFF..LONGEST_BACKOFF]
      BY <1>2, <2>4, <3>1 DEF Restart, TypeOK
    <3>3. cur' \in Processes /\ pc' \in {"idle", "poll"}
      BY <1>2, <2>4, Order DEF Restart, TypeOK
    <3>4. child' \in [Processes -> {"none", "live", "ok", "failed"}]
      BY <1>2, <2>4 DEF Restart, SpawnOk, SpawnFails, TypeOK
    <3>5. restart_count' \in [Processes -> Nat]
      BY <1>2, <2>4 DEF Restart, TypeOK
    <3>6. QED
      BY <1>2, <2>4, <3>2, <3>3, <3>4, <3>5 DEF Restart, TypeOK
  <2>5. ASSUME NEW p \in Processes, Stop(p) \/ Wait(p) \/ Exit(p) PROVE TypeOK'
    <3>1. /\ child' \in [Processes -> {"none", "live", "ok", "failed"}]
      BY <1>2, <2>5 DEF Stop, Wait, Exit, TypeOK
    <3>2. QED
      BY <1>2, <2>5, <3>1 DEF Stop, Wait, Exit, TypeOK
  <2>6. ASSUME NEW p \in Processes, Reset(p) PROVE TypeOK'
    <3>1. FIRST_BACKOFF \in FIRST_BACKOFF..LONGEST_BACKOFF
      BY DEF FIRST_BACKOFF, LONGEST_BACKOFF
    <3>2. backoff' \in [Processes -> FIRST_BACKOFF..LONGEST_BACKOFF]
      BY <1>2, <2>6, <3>1 DEF Reset, TypeOK
    <3>3. restart_count' \in [Processes -> Nat]
      BY <1>2, <2>6 DEF Reset, TypeOK
    <3>4. QED
      BY <1>2, <2>6, <3>2, <3>3 DEF Reset, TypeOK
  <2>7. CASE UNCHANGED vars
    BY <1>2, <2>7 DEF vars, TypeOK
  <2>8. QED
    BY <1>2, <2>1, <2>2, <2>3, <2>4, <2>5, <2>6, <2>7 DEF Next, Run
<1>3. QED
  BY <1>1, <1>2, PTL DEF Spec

(* The delay after n restarts: one more restart doubles it, up to 30 s.    *)
Delay(n) == IF n < 6 THEN Delays[n + 1] ELSE 30000

LEMMA DelayDoubles ==
  ASSUME NEW n \in Nat PROVE Delay(n + 1) = Doubled(Delay(n))
<1>1. CASE n < 6
  <2>1. n \in 0..5
    BY <1>1
  <2>2. QED
    BY <2>1 DEF Delay, Delays, Doubled, LONGEST_BACKOFF
<1>2. CASE ~(n < 6)
  BY <1>2 DEF Delay, Doubled, LONGEST_BACKOFF
<1>3. QED
  BY <1>1, <1>2

(* Count and delay change together: only try_restart and reset touch them. *)
THEOREM DelayedByCount == Spec => []BackoffFollowsCount
<1> USE DEF BackoffFollowsCount
<1>1. Init => BackoffFollowsCount
  BY DEF Init, FIRST_BACKOFF, Delays
<1>2. ASSUME TypeOK, BackoffFollowsCount, [Next]_vars
      PROVE  BackoffFollowsCount'
  <2>1. CASE Restart
    <3>1. cur \in Processes /\ restart_count[cur] \in Nat
      BY <1>2 DEF TypeOK
    <3>2. backoff[cur] = Delay(restart_count[cur])
      BY <1>2, <3>1 DEF Delay
    <3>3. backoff'[cur] = Delay(restart_count'[cur])
      BY <1>2, <2>1, <3>1, <3>2, DelayDoubles DEF Restart, TypeOK
    <3>4. QED
      BY <1>2, <2>1, <3>3 DEF Restart, TypeOK, Delay
  <2>2. ASSUME NEW p \in Processes, Reset(p) PROVE BackoffFollowsCount'
    BY <1>2, <2>2 DEF Reset, TypeOK, FIRST_BACKOFF, Delays
  <2>3. CASE UNCHANGED <<restart_count, backoff>>
    BY <1>2, <2>3
  <2>4. QED
    BY <1>2, <2>1, <2>2, <2>3
       DEF Next, Run, vars, StartAll, Poll, LeaveAlone, Sleep, Stop, Wait, Exit
<1>3. QED
  BY <1>1, <1>2, TypeCorrect, PTL DEF Spec

(* What holds between the steps of a pass: start_all has reached exactly   *)
(* the processes before cur, and the process a sleep is for is down and    *)
(* has a restart left that its policy allows.                              *)
Inv ==
  /\ pc = "new" => launched = 1..(cur - 1)
  /\ pc = "sleep" => /\ child[cur] # "live"
                     /\ Policy[cur] # "Never"
                     /\ restart_count[cur] < MaxRestarts[cur]

LEMMA InvStep ==
  ASSUME TypeOK, Inv, [Next]_vars PROVE Inv'
<1>1. CASE StartAll
  BY <1>1 DEF StartAll, Advance, TypeOK, Inv, Processes
<1>2. CASE Poll \/ LeaveAlone
  BY <1>2 DEF Poll, LeaveAlone, Advance, Inv
<1>3. CASE Sleep
  BY <1>3, SupervisorAssumption DEF Sleep, MayRestart, Inv, TypeOK
<1>4. CASE Restart
  BY <1>4 DEF Restart, Inv
<1>5. ASSUME NEW p \in Processes, Stop(p) \/ Wait(p) \/ Reset(p) PROVE Inv'
  BY <1>5 DEF Stop, Wait, Reset, Inv
<1>6. ASSUME NEW p \in Processes, Exit(p) PROVE Inv'
  BY <1>6 DEF Exit, Inv, TypeOK
<1>7. CASE UNCHANGED vars
  BY <1>7 DEF vars, Inv
<1>8. QED
  BY <1>1, <1>2, <1>3, <1>4, <1>5, <1>6, <1>7 DEF Next, Run

LEMMA AlwaysInv == Spec => []Inv
<1>1. Init => Inv
  BY DEF Init, Inv
<1>2. QED
  BY <1>1, InvStep, TypeCorrect, PTL DEF Spec

LEMMA UpAfter ==
  ASSUME TypeOK, NEW p \in Processes
  PROVE  /\ SpawnOk(p) => Up' = Up \cup {p}
         /\ SpawnFails => Up' = Up
         /\ \A s \in {"none", "ok", "failed"} :
              child' = [child EXCEPT ![p] = s] => Up' = Up \ {p}
BY DEF SpawnOk, SpawnFails, Up, TypeOK

(* A supervised process comes up only by its launch or by spending one of  *)
(* the restarts it has left, and never beside a running instance.          *)
THEOREM Implements == Spec => KeepsPromise
<1>1. Init => Abstract!Init
  BY DEF Init, Abstract!Init, Up
<1>2. ASSUME TypeOK, Inv, [Next]_vars PROVE [Abstract!Next]_Abstract!vars
  <2>1. CASE StartAll
    <3>1. cur \in Processes /\ cur \notin launched
      BY <1>2, <2>1 DEF StartAll, TypeOK, Inv, Processes
    <3>2. Up' \in {Up, Up \cup {cur}}
      BY <1>2, <2>1, <3>1, UpAfter DEF StartAll
    <3>3. Abstract!Launch(cur)
      BY <2>1, <3>1, <3>2 DEF StartAll, Abstract!Launch, Abstract!Spawn
    <3>4. \E p \in Processes : Abstract!Launch(p)
      BY <3>1, <3>3
    <3>5. QED
      BY <3>4 DEF Abstract!Next
  <2>2. CASE Poll \/ LeaveAlone \/ Sleep
    BY <2>2 DEF Poll, LeaveAlone, Sleep, Abstract!vars, Up
  <2>3. CASE Restart
    <3>1. /\ cur \in Processes /\ cur \notin Up
          /\ Policy[cur] # "Never" /\ restart_count[cur] < MaxRestarts[cur]
      BY <1>2, <2>3 DEF Restart, TypeOK, Inv, Up
    <3>2. Up' \in {Up, Up \cup {cur}}
      BY <1>2, <2>3, <3>1, UpAfter DEF Restart
    <3>3. Abstract!Restart(cur)
      BY <2>3, <3>1, <3>2 DEF Restart, Abstract!Restart, Abstract!Spawn
    <3>4. QED
      BY <3>1, <3>3 DEF Abstract!Next
  <2>4. ASSUME NEW p \in Processes, Stop(p) \/ Wait(p) \/ Exit(p)
        PROVE  [Abstract!Next]_Abstract!vars
    <3>1. Up' = Up \ {p}
      BY <1>2, <2>4, UpAfter DEF Stop, Wait, Exit
    <3>2. Abstract!GoDown(p)
      BY <2>4, <3>1 DEF Stop, Wait, Exit, Abstract!GoDown
    <3>3. QED
      BY <3>2 DEF Abstract!Next
  <2>5. ASSUME NEW p \in Processes, Reset(p) PROVE [Abstract!Next]_Abstract!vars
    BY <2>5 DEF Reset, Abstract!Reset, Abstract!Next, Up
  <2>6. CASE UNCHANGED vars
    BY <2>6 DEF vars, Abstract!vars, Up
  <2>7. QED
    BY <1>2, <2>1, <2>2, <2>3, <2>4, <2>5, <2>6 DEF Next, Run
<1>3. QED
  BY <1>1, <1>2, TypeCorrect, AlwaysInv, PTL
     DEF Spec, KeepsPromise, Abstract!Spec

(***************************************************************************)
(* Synit: one shell for each terminal, for every set of terminals.         *)
(*                                                                         *)
(* OneShellPerTty is not inductive: a step to "fork" must know that the    *)
(* shell that was waited for is gone.  ShellsSettled says so: only a       *)
(* supervisor that waits may have a shell that is running or unreaped.     *)
(***************************************************************************)
ShellsSettled == \A t \in Ttys : tty[t] # "wait" => sh[t] \in {"none", "gone"}

BootInv == BootTypeOK /\ OneShellPerTty /\ ShellsSettled

(* The boot starts with no shell on any terminal.                          *)
LEMMA BootStart == BootInit => BootInv
<1> SUFFICES ASSUME BootInit PROVE BootInv
  OBVIOUS
<1>1. /\ kid \in [Kids -> {"none", "run", "zombie", "gone"}]
      /\ tty \in [Ttys -> {"none", "never", "fork", "wait", "pause"}]
      /\ sh \in [Ttys -> {"none", "run", "gone", "ok", "failed"}]
      /\ old \in [Ttys -> Nat]
  BY DEF BootInit
<1>2. alert \in [Ttys -> BOOLEAN]
  BY Zenon DEF BootInit
<1>3. OneShellPerTty /\ ShellsSettled
  BY DEF BootInit, OneShellPerTty, ShellsSettled
<1>4. QED
  BY <1>1, <1>2, <1>3 DEF BootInit, BootInv, BootTypeOK

(* PID 1, its children and the daemon leave the terminals' shells alone; a *)
(* new supervisor has none.                                                *)
LEMMA Pid1Inv == BootInv /\ Pid1 => BootInv'
<1> SUFFICES ASSUME BootInv, Pid1 PROVE BootInv'
  OBVIOUS
<1> USE DEF BootInv, BootTypeOK, OneShellPerTty, ShellsSettled, shells, service
<1>1. CASE LoadModules
  BY <1>1 DEF LoadModules, Kids
<1>2. CASE WaitModules
  BY <1>2 DEF WaitModules, Kids
<1>3. CASE Firewall
  BY <1>3 DEF Firewall, Kids
<1>4. CASE StartService
  BY <1>4 DEF StartService, Kids
<1>5. CASE InstallHandler
  BY <1>5 DEF InstallHandler
<1>6. ASSUME NEW t \in Ttys, StartSupervisor(t) PROVE BootInv'
  BY <1>6 DEF StartSupervisor
<1>7. CASE Reap
  BY <1>7 DEF Reap
<1>8. QED
  BY <1>1, <1>2, <1>3, <1>4, <1>5, <1>6, <1>7 DEF Pid1

LEMMA OthersInv == BootInv /\ (Daemon \/ Alarm \/ Environment) => BootInv'
<1> SUFFICES ASSUME BootInv, Daemon \/ Alarm \/ Environment PROVE BootInv'
  OBVIOUS
<1> USE DEF BootInv, BootTypeOK, OneShellPerTty, ShellsSettled, boot, shells, service
<1>1. CASE StartDaemon
  BY <1>1 DEF StartDaemon
<1>2. CASE Check
  BY <1>2 DEF Check
<1>3. CASE RunDhcp
  BY <1>3 DEF RunDhcp
<1>4. CASE ChildDhcp
  BY <1>4 DEF ChildDhcp
<1>5. CASE LinkLost
  BY <1>5 DEF LinkLost
<1>6. CASE Alarm
  BY <1>6 DEF Alarm, Kids
<1>7. CASE ModulesLoaded
  BY <1>7 DEF ModulesLoaded, Kids
<1>8. CASE OrphanExits
  BY <1>8 DEF OrphanExits, Dies, Kids
<1>9. CASE FirewallEnds
  BY <1>9 DEF FirewallEnds, Dies, Kids
<1>10. CASE ServiceMissing
  BY <1>10 DEF ServiceMissing, Dies, Kids
<1>11. ASSUME NEW t \in Ttys, ShellExits(t) PROVE BootInv'
  BY <1>11 DEF ShellExits
<1>12. QED
  BY <1>1, <1>2, <1>3, <1>4, <1>5, <1>6, <1>7, <1>8, <1>9, <1>10, <1>11
  DEF Daemon, Environment

(* Whoever of waitpid and sigchld is first, the supervisor forks only when *)
(* the shell it knew is gone.                                              *)
LEMMA SuperviseInv ==
  ASSUME BootInv, NEW t \in Ttys, Supervise(t) \/ ForkShell(t) PROVE BootInv'
<1> USE DEF BootInv, BootTypeOK, OneShellPerTty, ShellsSettled, boot, service
<1>1. CASE ForkFails(t)
  BY <1>1 DEF ForkFails
<1>2. CASE ForkShell(t)
  <2>1. sh[t] \in {"none", "gone"}
    BY <1>2 DEF ForkShell
  <2>2. \A u \in Ttys : old'[u] = 0
    BY <1>2, <2>1 DEF ForkShell
  <2>3. QED
    BY <1>2, <2>2 DEF ForkShell
<1>3. CASE TakeZombies(t)
  BY <1>3 DEF TakeZombies
<1>4. CASE ShellWaited(t)
  BY <1>4 DEF ShellWaited
<1>5. CASE ShellGone(t)
  BY <1>5 DEF ShellGone
<1>6. CASE Pause(t)
  BY <1>6 DEF Pause
<1>7. QED
  BY <1>1, <1>2, <1>3, <1>4, <1>5, <1>6 DEF Supervise

LEMMA BootStutter == BootInv /\ UNCHANGED bootVars => BootInv'
  BY DEF BootInv, BootTypeOK, OneShellPerTty, ShellsSettled, bootVars, boot, shells, service

THEOREM BootInductive == BootSpec => []BootInv
<1>1. BootInit => BootInv
  BY BootStart
<1>2. BootInv /\ [BootNext]_bootVars => BootInv'
  BY Pid1Inv, OthersInv, SuperviseInv, BootStutter DEF BootNext
<1>3. QED
  BY <1>1, <1>2, PTL DEF BootSpec

(* The boot's state keeps its types, whatever terminals there are.         *)
THEOREM BootTypes == BootSpec => []BootTypeOK
<1>1. BootInv => BootTypeOK
  BY DEF BootInv
<1>2. QED
  BY <1>1, BootInductive, PTL

(* No supervisor ever starts a shell beside one that runs, or leaves one a *)
(* zombie, however waitpid and the inherited handler race.                 *)
THEOREM OneShell == BootSpec => []OneShellPerTty
<1>1. BootInv => OneShellPerTty
  BY DEF BootInv
<1>2. QED
  BY <1>1, BootInductive, PTL
=============================================================================
