------------------------------- MODULE Synit -------------------------------
(***************************************************************************)
(* Booting and supervising: PID 1 of src/init/init.c from syn_services on, *)
(* the supervisors syn_shell_on it forks for the terminals, and the daemon *)
(* of src/init/svc.                                                        *)
(*                                                                         *)
(* Every process is an actor.  A child that exits becomes a zombie of its  *)
(* parent and leaves SIGCHLD pending there; a pending signal runs sigchld  *)
(* at any later point, so that waitpid and the handler race for a child.   *)
(* An orphan becomes a child of PID 1.                                     *)
(*                                                                         *)
(* The steps before syn_services write files and print; they start no      *)
(* process.  Supervisors and daemon are not killed from outside.           *)
(***************************************************************************)
EXTENDS Integers

CONSTANTS
  Ttys,      (* The terminals main forks a supervisor for, in any order.     *)
  Anonymous  (* get_anonymity_mode() = 0.                                    *)

ASSUME BootAssumption == Anonymous \in BOOLEAN

Kids == {"hw", "modprobe", "nft", "svc"}

VARIABLES
  main,     (* Where PID 1 is.                                               *)
  kid,      (* Its children: "none", "run", "zombie", "gone"; modprobe is    *)
            (* hw's child until hw dies.                                     *)
  handler,  (* PID 1 has installed sigchld; supervisors inherit it.          *)
  pending,  (* PID 1 has SIGCHLD pending.                                    *)
  tty,      (* Where each supervisor is.                                     *)
  sh,       (* Its latest shell: "none", "run", "gone", or how it exited.    *)
  old,      (* Earlier shells that are still running or zombies.             *)
  alert,    (* The supervisor has SIGCHLD pending.                           *)
  rules,    (* The firewall's rules are loaded.                              *)
  daemon,   (* Where synit-svc is.                                           *)
  dhcp,     (* The DHCP child it forks first.                                *)
  net       (* Whether 1.1.1.1 answers.                                      *)

boot == <<main, kid, handler, pending, rules>>
shells == <<tty, sh, old, alert>>
service == <<daemon, dhcp, net>>
bootVars == <<boot, shells, service>>

BootInit ==
  /\ main = "modules"
  /\ kid = [k \in Kids |-> "none"]
  /\ handler = FALSE /\ pending = FALSE /\ rules = FALSE
  /\ tty = [t \in Ttys |-> "none"]
  /\ sh = [t \in Ttys |-> "none"]
  /\ old = [t \in Ttys |-> 0]
  /\ alert = [t \in Ttys |-> FALSE]
  /\ daemon = "none" /\ dhcp = "none" /\ net = FALSE

(***************************************************************************)
(* PID 1: syn_services                                                     *)
(***************************************************************************)

(* The child that loads the modules.  If the fork fails waitpid(-1) has    *)
(* nothing to wait for and the boot goes on.                               *)
LoadModules ==
  /\ main = "modules"
  /\ \/ /\ kid' = [kid EXCEPT !["hw"] = "run", !["modprobe"] = "run"]
        /\ main' = "wait"
     \/ kid' = kid /\ main' = "firewall"
  /\ UNCHANGED <<handler, pending, rules, shells, service>>

WaitModules ==
  /\ main = "wait" /\ kid["hw"] = "zombie"
  /\ kid' = [kid EXCEPT !["hw"] = "gone"]
  /\ main' = "firewall"
  /\ UNCHANGED <<handler, pending, rules, shells, service>>

(* Nobody looks at whether nft could be started, or at how it ended.       *)
Firewall ==
  /\ main = "firewall"
  /\ main' = "service"
  /\ \/ Anonymous /\ kid' = [kid EXCEPT !["nft"] = "run"]
     \/ kid' = kid
  /\ UNCHANGED <<handler, pending, rules, shells, service>>

StartService ==
  /\ main = "service"
  /\ main' = "handler"
  /\ \/ kid' = [kid EXCEPT !["svc"] = "run"] /\ daemon' = "start"
     \/ UNCHANGED <<kid, daemon>>
  /\ UNCHANGED <<handler, pending, rules, shells, dhcp, net>>

InstallHandler ==
  /\ main = "handler"
  /\ handler' = TRUE
  /\ main' = "ttys"
  /\ UNCHANGED <<kid, pending, rules, shells, service>>

(* A fork that fails leaves the terminal without a supervisor for good.    *)
StartSupervisor(t) ==
  /\ main = "ttys" /\ tty[t] = "none"
  /\ tty' \in {[tty EXCEPT ![t] = "fork"], [tty EXCEPT ![t] = "never"]}
  /\ main' = IF \A u \in Ttys \ {t} : tty[u] # "none" THEN "idle" ELSE main
  /\ UNCHANGED <<kid, handler, pending, rules, sh, old, alert, service>>

(* sigchld: every zombie PID 1 has.                                        *)
Reap ==
  /\ pending
  /\ pending' = FALSE
  /\ kid' = [k \in Kids |-> IF kid[k] = "zombie" THEN "gone" ELSE kid[k]]
  /\ UNCHANGED <<main, handler, rules, shells, service>>

(***************************************************************************)
(* PID 1's children                                                        *)
(***************************************************************************)
Dies(k) == /\ kid' = [kid EXCEPT ![k] = "zombie"]
           /\ pending' = (handler \/ pending)

(* modprobe may hang; with it the child that waits for it.                 *)
ModulesLoaded ==
  /\ kid["hw"] = "run"
  /\ kid' = [kid EXCEPT !["hw"] = "zombie", !["modprobe"] = "gone"]
  /\ UNCHANGED <<main, handler, pending, rules, shells, service>>

(* Faulty variant: no alarm.                                               *)
AlarmNever == FALSE /\ UNCHANGED bootVars
(* alarm(15): SIGALRM ends the child; modprobe becomes PID 1's.            *)
Alarm ==
  /\ kid["hw"] = "run"
  /\ kid' = [kid EXCEPT !["hw"] = "zombie"]
  /\ UNCHANGED <<main, handler, pending, rules, shells, service>>

OrphanExits ==
  /\ kid["modprobe"] = "run" /\ kid["hw"] # "run"
  /\ Dies("modprobe")
  /\ UNCHANGED <<main, handler, rules, shells, service>>

FirewallEnds ==
  /\ kid["nft"] = "run"
  /\ Dies("nft")
  /\ rules' \in BOOLEAN
  /\ UNCHANGED <<main, handler, shells, service>>

(* execl of synit-svc fails.                                               *)
ServiceMissing ==
  /\ daemon = "start"
  /\ Dies("svc")
  /\ daemon' = "none"
  /\ UNCHANGED <<main, handler, rules, shells, dhcp, net>>

(***************************************************************************)
(* syn_shell_on                                                            *)
(***************************************************************************)
ForkFails(t) ==
  /\ tty[t] = "fork"
  /\ tty' = [tty EXCEPT ![t] = "pause"]
  /\ UNCHANGED <<boot, sh, old, alert, service>>

ForkShell(t) ==
  /\ tty[t] = "fork"
  /\ tty' = [tty EXCEPT ![t] = "wait"]
  /\ sh' = [sh EXCEPT ![t] = "run"]
  /\ old' = [old EXCEPT ![t] = IF sh[t] \in {"none", "gone"} THEN old[t]
                                                             ELSE old[t] + 1]
  /\ UNCHANGED <<boot, alert, service>>

(* The user leaves the shell, or it fails, or neither shell could be run.  *)
ShellExits(t) ==
  /\ sh[t] = "run"
  /\ sh' \in {[sh EXCEPT ![t] = status] : status \in {"ok", "failed"}}
  /\ alert' = [alert EXCEPT ![t] = TRUE]
  /\ UNCHANGED <<boot, tty, old, service>>

(* The inherited sigchld takes whatever zombie it finds.                   *)
TakeZombies(t) ==
  /\ alert[t]
  /\ alert' = [alert EXCEPT ![t] = FALSE]
  /\ sh' = [sh EXCEPT ![t] = IF sh[t] \in {"ok", "failed"} THEN "gone" ELSE sh[t]]
  /\ UNCHANGED <<boot, tty, old, service>>

(* waitpid returns the shell's status: after 0 the next shell follows at   *)
(* once, after a failure in a second.                                      *)
ShellWaited(t) ==
  /\ tty[t] = "wait" /\ sh[t] \in {"ok", "failed"}
  /\ tty' = [tty EXCEPT ![t] = IF sh[t] = "ok" THEN "fork" ELSE "pause"]
  /\ sh' = [sh EXCEPT ![t] = "gone"]
  /\ UNCHANGED <<boot, old, alert, service>>

(* Faulty variants: waitpid does not block; the supervisor waits until it  *)
(* gets the shell itself.                                                  *)
ShellGoneNoHang(t) ==
  /\ tty[t] = "wait"
  /\ tty' \in {[tty EXCEPT ![t] = "fork"], [tty EXCEPT ![t] = "pause"]}
  /\ UNCHANGED <<boot, sh, old, alert, service>>
ShellGoneAgain(t) == ShellWaited(t)

(* The handler was first: waitpid fails and st, which nothing has written, *)
(* may read as either.                                                     *)
ShellGone(t) ==
  /\ tty[t] = "wait" /\ sh[t] = "gone"
  /\ tty' \in {[tty EXCEPT ![t] = "fork"], [tty EXCEPT ![t] = "pause"]}
  /\ UNCHANGED <<boot, sh, old, alert, service>>

(* sleep(1), which a signal may cut short.                                 *)
Pause(t) ==
  /\ tty[t] = "pause"
  /\ tty' = [tty EXCEPT ![t] = "fork"]
  /\ UNCHANGED <<boot, sh, old, alert, service>>

(***************************************************************************)
(* synit-svc daemon                                                        *)
(***************************************************************************)
StartDaemon ==
  /\ daemon = "start"
  /\ daemon' = "sleep"
  /\ dhcp' \in {"run", "none"}        \* fork may fail
  /\ UNCHANGED <<boot, shells, net>>

(* run_dhcp, in the daemon or its child, with or without success.  Nobody  *)
(* waits for the child.                                                    *)
ChildDhcp ==
  /\ dhcp = "run"
  /\ dhcp' = "zombie"
  /\ net' \in {net, TRUE}
  /\ UNCHANGED <<boot, shells, daemon>>

(* Faulty variant: a ping that ran is an answer, whatever it says.         *)
CheckAnyExit ==
  /\ daemon = "sleep"
  /\ daemon' = "sleep"
  /\ UNCHANGED <<boot, shells, dhcp, net>>

(* check_network: the ping may be lost although the link is up.            *)
Check ==
  /\ daemon = "sleep"
  /\ daemon' \in (IF net THEN {"sleep", "dhcp"} ELSE {"dhcp"})
  /\ UNCHANGED <<boot, shells, dhcp, net>>

RunDhcp ==
  /\ daemon = "dhcp"
  /\ daemon' = "sleep"
  /\ net' \in {net, TRUE}
  /\ UNCHANGED <<boot, shells, dhcp>>

LinkLost ==
  /\ net
  /\ net' = FALSE
  /\ UNCHANGED <<boot, shells, daemon, dhcp>>

(***************************************************************************)
(* The system                                                              *)
(***************************************************************************)
Pid1 == LoadModules \/ WaitModules \/ Firewall \/ StartService
          \/ InstallHandler \/ (\E t \in Ttys : StartSupervisor(t)) \/ Reap
Supervise(t) == ForkFails(t) \/ TakeZombies(t) \/ ShellWaited(t)
                  \/ ShellGone(t) \/ Pause(t)
Daemon == StartDaemon \/ Check
Environment == ModulesLoaded \/ OrphanExits \/ FirewallEnds \/ ServiceMissing
                 \/ ChildDhcp \/ RunDhcp \/ LinkLost
                 \/ \E t \in Ttys : ShellExits(t)

BootNext == Pid1 \/ Daemon \/ Environment \/ Alarm
          \/ \E t \in Ttys : Supervise(t) \/ ForkShell(t)

(* Processes run, the alarm goes off, and fork does not fail for ever.     *)
(* Nothing is assumed of the modules, the firewall, the users, the network *)
(* or the DHCP clients, which may wait for a lease for ever.               *)
BootSpec ==
  /\ BootInit /\ [][BootNext]_bootVars
  /\ WF_bootVars(Pid1) /\ WF_bootVars(Alarm) /\ WF_bootVars(Daemon)
  /\ \A t \in Ttys : WF_bootVars(Supervise(t)) /\ SF_bootVars(ForkShell(t))

(***************************************************************************)
(* Properties                                                              *)
(***************************************************************************)
BootTypeOK ==
  /\ main \in {"modules", "wait", "firewall", "service", "handler", "ttys", "idle"}
  /\ kid \in [Kids -> {"none", "run", "zombie", "gone"}]
  /\ handler \in BOOLEAN /\ pending \in BOOLEAN /\ rules \in BOOLEAN
  /\ tty \in [Ttys -> {"none", "never", "fork", "wait", "pause"}]
  /\ sh \in [Ttys -> {"none", "run", "gone", "ok", "failed"}]
  /\ old \in [Ttys -> Nat]
  /\ alert \in [Ttys -> BOOLEAN]
  /\ daemon \in {"none", "start", "sleep", "dhcp"}
  /\ dhcp \in {"none", "run", "zombie"}
  /\ net \in BOOLEAN

(* A terminal has one shell: whichever of waitpid and sigchld takes the    *)
(* shell that ended, no shell is started beside one that runs, and none is *)
(* left a zombie.                                                          *)
OneShellPerTty == \A t \in Ttys : old[t] = 0

(* "[shell restarted...]": a terminal whose shell ended, however it ended  *)
(* and whoever reaped it, gets the next one.                               *)
ShellComesBack ==
  \A t \in Ttys : sh[t] \in {"ok", "failed", "gone"} ~> sh[t] = "run"

(* The boot ends in PID 1's idle loop even if a module never loads.        *)
BootFinishes == <>(main = "idle")

(* A link that is lost is asked for again.                                 *)
NetworkRetried == daemon = "sleep" /\ ~net ~> net \/ daemon = "dhcp"
=============================================================================
