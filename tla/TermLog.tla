------------------------------ MODULE TermLog ------------------------------
(***************************************************************************)
(* The terminal's log of src/compositor/shell.c: shell_term_log, called by *)
(* the compositor's thread when a command is entered and by the detached   *)
(* thread async_exec_cmd of each command for every line of its output.     *)
(*                                                                         *)
(* No lock guards the log.  A call is split where another thread's call    *)
(* may come between its reads and writes of term_log_count; x++ is a read  *)
(* and a write.  A memmove and a strncpy are one step each, and a line is  *)
(* an element of a small set.  What the built code does once it has        *)
(* written past the array is unbounded: there the model ends.              *)
(***************************************************************************)
EXTENDS Integers, FiniteSets, Sequences

CONSTANTS
  Commands,        (* Commands that may be entered, each in a thread.        *)
  Output,          (* Lines a command may print.                             *)
  MAX_TERM_LOGS,   (* Lines the log holds (16).                              *)
  MAX_READ,        (* Lines read of a command's output (12).                 *)
  MaxBusy          (* Calls of shell_term_log that may be under way at once. *)

ASSUME LogAssumption ==
  /\ "shell" \notin Commands /\ IsFiniteSet(Commands)
  /\ MAX_TERM_LOGS \in Nat \ {0}
  /\ MAX_READ \in Nat \ {0}
  /\ MaxBusy \in Nat \ {0}

Threads == Commands \cup {"shell"}
Answers == {"cannot run", "not found", "no output", "exit code"}
Lines == Output \cup Answers \cup {"echo", "blank"}

VARIABLES
  term_logs, term_log_count,
  pc,            (* Where each thread is ...                                 *)
  back,          (* ... and goes when its call of shell_term_log returns.    *)
  msg,           (* The line it logs.                                        *)
  reg,           (* term_log_count as it has read it.                        *)
  lines_read,    (* Lines of output async_exec_cmd has read.                 *)
  past_end,      (* A line was written outside term_logs.                    *)
  said,          (* The last lines logged, at most MAX_TERM_LOGS, and        *)
  raced          (* whether anybody used the log during another's call: both *)
                 (* are no variables of the code.                            *)

vars == <<term_logs, term_log_count, pc, back, msg, reg, lines_read,
          past_end, said, raced>>
theLog == <<term_logs, term_log_count, past_end, said>>

Init ==
  /\ term_logs = [i \in 0..(MAX_TERM_LOGS - 1) |-> "blank"]
  /\ term_log_count = 0
  /\ pc = [t \in Threads |-> IF t = "shell" THEN "idle" ELSE "none"]
  /\ back = [t \in Threads |-> "idle"]
  /\ msg = [t \in Threads |-> "blank"]
  /\ reg = [t \in Threads |-> 0]
  /\ lines_read = [c \in Commands |-> 0]
  /\ past_end = FALSE
  /\ said = << >> /\ raced = FALSE

(***************************************************************************)
(* shell_term_log                                                          *)
(***************************************************************************)
InCall == {"check", "move", "shrink", "write", "grow", "store"}
Busy == {t \in Threads : pc[t] \in InCall}

Call(t, line, return) ==
  /\ Cardinality(Busy) < MaxBusy
  /\ pc' = [pc EXCEPT ![t] = "check"]
  /\ msg' = [msg EXCEPT ![t] = line]
  /\ back' = [back EXCEPT ![t] = return]
  /\ raced' = (raced \/ Busy # {})

Goto(t, place) == pc' = [pc EXCEPT ![t] = place]

(* Faulty variant: the test is off by one.                                 *)
CheckLate(t) ==
  /\ pc[t] = "check"
  /\ Goto(t, IF term_log_count > MAX_TERM_LOGS THEN "move" ELSE "write")
  /\ UNCHANGED <<theLog, back, msg, reg, lines_read, raced>>
Check(t) ==
  /\ pc[t] = "check"
  /\ Goto(t, IF term_log_count >= MAX_TERM_LOGS THEN "move" ELSE "write")
  /\ UNCHANGED <<theLog, back, msg, reg, lines_read, raced>>

(* Faulty variant: nothing is moved, and the newest line is overwritten.   *)
MoveNothing(t) ==
  /\ pc[t] = "move"
  /\ reg' = [reg EXCEPT ![t] = term_log_count]
  /\ Goto(t, "shrink")
  /\ UNCHANGED <<theLog, back, msg, lines_read, raced>>
(* The memmove, and the read of term_log_count--.                          *)
Move(t) ==
  /\ pc[t] = "move"
  /\ term_logs' = [i \in DOMAIN term_logs |->
                     IF i < MAX_TERM_LOGS - 1 THEN term_logs[i + 1]
                                              ELSE term_logs[i]]
  /\ reg' = [reg EXCEPT ![t] = term_log_count]
  /\ Goto(t, "shrink")
  /\ UNCHANGED <<term_log_count, past_end, said, back, msg, lines_read, raced>>

Shrink(t) ==
  /\ pc[t] = "shrink"
  /\ term_log_count' = reg[t] - 1
  /\ Goto(t, "write")
  /\ UNCHANGED <<term_logs, past_end, said, back, msg, reg, lines_read, raced>>

(* The strncpy, into the element term_log_count is the index of.           *)
Write(t) ==
  /\ pc[t] = "write"
  /\ IF term_log_count \in DOMAIN term_logs
     THEN term_logs' = [term_logs EXCEPT ![term_log_count] = msg[t]] /\ UNCHANGED past_end
     ELSE past_end' = TRUE /\ UNCHANGED term_logs
  /\ Goto(t, "grow")
  /\ UNCHANGED <<term_log_count, said, back, msg, reg, lines_read, raced>>

Grow(t) ==
  /\ pc[t] = "grow"
  /\ reg' = [reg EXCEPT ![t] = term_log_count]
  /\ Goto(t, "store")
  /\ UNCHANGED <<theLog, back, msg, lines_read, raced>>

LastOf(s) == IF Len(s) > MAX_TERM_LOGS THEN Tail(s) ELSE s
Store(t) ==
  /\ pc[t] = "store"
  /\ term_log_count' = reg[t] + 1
  /\ said' = LastOf(Append(said, msg[t]))
  /\ Goto(t, back[t])
  /\ UNCHANGED <<term_logs, past_end, back, msg, reg, lines_read, raced>>

(***************************************************************************)
(* The compositor's thread: Enter on the terminal's input line             *)
(***************************************************************************)
Enter ==
  /\ pc["shell"] = "idle"
  /\ Call("shell", "echo", "entered")
  /\ UNCHANGED <<theLog, reg, lines_read>>

(* "clear", between any two steps of a command's thread unless MaxBusy     *)
(* excludes it.                                                            *)
Clear ==
  /\ pc["shell"] = "entered"
  /\ Cardinality(Busy) < MaxBusy
  /\ term_log_count' = 0
  /\ said' = << >>
  /\ raced' = (raced \/ Busy # {})
  /\ Goto("shell", "idle")
  /\ UNCHANGED <<term_logs, past_end, back, msg, reg, lines_read>>

Start(c) ==
  /\ pc["shell"] = "entered" /\ pc[c] = "none"
  /\ pc' = [pc EXCEPT ![c] = "popen", !["shell"] = "idle"]
  /\ UNCHANGED <<theLog, raced, back, msg, reg, lines_read>>

(***************************************************************************)
(* async_exec_cmd                                                          *)
(***************************************************************************)
Popen(c) ==
  /\ pc[c] = "popen"
  /\ \/ Call(c, "cannot run", "done")
     \/ Goto(c, "read") /\ UNCHANGED <<back, msg, raced>>
  /\ UNCHANGED <<theLog, reg, lines_read>>

Read(c) ==
  /\ pc[c] = "read" /\ lines_read[c] < MAX_READ
  /\ \E line \in Output : Call(c, line, "read")
  /\ lines_read' = [lines_read EXCEPT ![c] = lines_read[c] + 1]
  /\ UNCHANGED <<theLog, reg>>

(* The output ends, or a line beyond the last wanted is read and dropped.  *)
EndOfOutput(c) ==
  /\ pc[c] = "read"
  /\ Goto(c, "close")
  /\ UNCHANGED <<theLog, raced, back, msg, reg, lines_read>>

(* pclose returns a wait status, an exit code in its second byte: never    *)
(* the 127 that the code compares it with.                                 *)
WaitStatus == {256 * code : code \in {0, 1, 127}}
AnswerFor(status) == IF status = 127 THEN "not found"
                     ELSE IF status = 0 THEN "no output" ELSE "exit code"
Pclose(c) ==
  /\ pc[c] = "close"
  /\ \/ lines_read[c] > 0 /\ Goto(c, "done") /\ UNCHANGED <<back, msg, raced>>
     \/ /\ lines_read[c] = 0
        /\ \E status \in WaitStatus : Call(c, AnswerFor(status), "done")
  /\ UNCHANGED <<theLog, reg, lines_read>>

shell_term_log(t) ==
  Check(t) \/ Move(t) \/ Shrink(t) \/ Write(t) \/ Grow(t) \/ Store(t)
async_exec_cmd(c) == Popen(c) \/ Read(c) \/ EndOfOutput(c) \/ Pclose(c)

Next ==
  /\ ~past_end
  /\ \/ Enter \/ Clear
     \/ \E t \in Threads : shell_term_log(t)
     \/ \E c \in Commands : Start(c) \/ async_exec_cmd(c)

Spec == Init /\ [][Next]_vars

(***************************************************************************)
(* Properties                                                              *)
(***************************************************************************)

(* Until two uses of the log overlap, what is shown between calls is the   *)
(* last MAX_TERM_LOGS lines logged since "clear", in order.                *)
QuietShowsTail ==
  ~raced /\ Busy = {} => [i \in 1..term_log_count |-> term_logs[i - 1]] = said

(* "char term_logs[MAX_TERM_LOGS][80]": no line is written past the end,   *)
(* where term_log_count and the input line lie, unless two uses overlap.   *)
InBounds == past_end => raced
=============================================================================
