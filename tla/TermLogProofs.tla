--------------------------- MODULE TermLogProofs ---------------------------
(***************************************************************************)
(* Theorems about TermLog for any commands, any length of the log and any  *)
(* number of calls under way: the two things that hold of the log until    *)
(* somebody uses it during another's call.                                 *)
(***************************************************************************)
EXTENDS TermLog, SequenceTheorems, TLAPS

Places == InCall \cup {"idle", "entered", "none", "popen", "read", "close", "done"}

TypeOK ==
  /\ term_logs \in [0..(MAX_TERM_LOGS - 1) -> Lines]
  /\ term_log_count \in 0..MAX_TERM_LOGS
  /\ pc \in [Threads -> Places] /\ back \in [Threads -> Places \ InCall]
  /\ msg \in [Threads -> Lines] /\ reg \in [Threads -> Int]
  /\ past_end = FALSE /\ said \in Seq(Lines)

(* The array holds the last lines said, but for the first d of them.       *)
Holds(n, d) ==
  /\ Len(said) = n + d
  /\ \A i \in 1..n : term_logs[i - 1] = said[i + d]

(* There is room for one more line, after the oldest was dropped or not.   *)
Room ==
  /\ term_log_count < MAX_TERM_LOGS
  /\ \/ Holds(term_log_count, 0)
     \/ term_log_count = MAX_TERM_LOGS - 1 /\ Holds(term_log_count, 1)

At(t, place) ==
  /\ place = "check" => Holds(term_log_count, 0)
  /\ place = "move" =>
       term_log_count = MAX_TERM_LOGS /\ Holds(term_log_count, 0)
  /\ place = "shrink" =>
       /\ term_log_count = MAX_TERM_LOGS /\ reg[t] = MAX_TERM_LOGS
       /\ Holds(MAX_TERM_LOGS - 1, 1)
  /\ place = "write" => Room
  /\ place = "grow" => Room /\ term_logs[term_log_count] = msg[t]
  /\ place = "store" =>
       Room /\ term_logs[term_log_count] = msg[t] /\ reg[t] = term_log_count
  /\ place \notin InCall => Holds(term_log_count, 0)

(* One call at a time, and what is true of the log where it is.            *)
OneAtATime ==
  \A t, u \in Threads : pc[t] \in InCall /\ pc[u] \in InCall => t = u
Calm ==
  /\ TypeOK
  /\ OneAtATime
  /\ \A t \in Threads : pc[t] \in InCall => At(t, pc[t])
  /\ Busy = {} => Holds(term_log_count, 0)

IInv == raced \in BOOLEAN /\ (~raced => Calm)

(* A step of a thread that is in no call: the log stays as it is, and who  *)
(* is in a call stays where it is.                                         *)
LEMMA OutsideCalm ==
  ASSUME Calm, NEW t \in Threads, pc[t] \notin InCall, theLog' = theLog,
         reg' = reg, back' = back, msg' = msg,
         NEW p \in [Threads -> Places], pc' = p,
         \A u \in Threads : IF p[u] \in InCall THEN p[u] = pc[u]
                                               ELSE pc[u] \notin InCall
  PROVE  Calm'
<1>1. TypeOK'
  BY DEF Calm, TypeOK, theLog
<1>2. OneAtATime'
  BY DEF Calm, OneAtATime
<1>3. /\ term_logs' = term_logs /\ term_log_count' = term_log_count /\ said' = said
  BY DEF theLog
<1>4. Holds(term_log_count, 0)' <=> Holds(term_log_count, 0)
  BY <1>3 DEF Holds
<1>5. \A u \in Threads : pc'[u] \in InCall => At(u, pc[u])'
  <2>1. SUFFICES ASSUME NEW u \in Threads, pc'[u] \in InCall PROVE At(u, pc[u])'
    OBVIOUS
  <2>2. pc'[u] = pc[u] /\ At(u, pc[u])
    BY <2>1 DEF Calm
  <2>3. QED
    BY <1>3, <2>1, <2>2 DEF At, Room, Holds
<1>6. Busy' = {} => Busy = {}
  BY DEF Busy
<1>7. QED
  BY <1>1, <1>2, <1>4, <1>5, <1>6 DEF Calm

(* A call begins when there is no other.                                   *)
LEMMA CallCalm ==
  ASSUME Calm, NEW t \in Threads, NEW line \in Lines,
         NEW return \in Places \ InCall, Call(t, line, return), ~raced',
         theLog' = theLog, reg' = reg
  PROVE  Calm'
<1>1. Busy = {}
  BY DEF Call
<1>2. /\ term_logs' = term_logs /\ term_log_count' = term_log_count /\ said' = said
  BY DEF theLog
<1>3. TypeOK'
  BY DEF Calm, TypeOK, Call, theLog, Places, InCall
<1>4. \A u \in Threads : pc'[u] \in InCall => u = t
  BY <1>1 DEF Calm, TypeOK, Call, Busy
<1>5. Holds(term_log_count, 0)'
  BY <1>1, <1>2 DEF Calm, Holds
<1>6. pc'[t] = "check"
  BY DEF Calm, TypeOK, Call
<1>7. At(t, pc[t])'
  BY <1>5, <1>6 DEF At, InCall
<1>8. QED
  BY <1>3, <1>4, <1>5, <1>7 DEF Calm, OneAtATime

(* A step of the call under way, from one place to the next.               *)
LEMMA InsideCalm ==
  ASSUME Calm, NEW t \in Threads, pc[t] \in InCall,
         NEW p \in Places, pc' = [pc EXCEPT ![t] = p],
         TypeOK', At(t, p)'
  PROVE  Calm'
<1>1. \A u \in Threads : u # t => pc'[u] \notin InCall
  BY DEF Calm, TypeOK, OneAtATime
<1>2. pc'[t] = p
  BY DEF Calm, TypeOK
<1>3. Busy' = {} => p \notin InCall
  BY <1>2 DEF Busy
<1>4. QED
  BY <1>1, <1>2, <1>3 DEF Calm, OneAtATime, At

(***************************************************************************)
(* shell_term_log                                                          *)
(***************************************************************************)
LEMMA CheckCalm == ASSUME Calm, NEW t \in Threads, Check(t) PROVE Calm'
<1>1. /\ pc[t] \in InCall /\ "move" \in Places /\ "write" \in Places
      /\ pc' = [pc EXCEPT ![t] = IF term_log_count >= MAX_TERM_LOGS
                                 THEN "move" ELSE "write"]
  BY DEF Check, Goto, InCall, Places
<1>2. /\ term_logs' = term_logs /\ term_log_count' = term_log_count
      /\ said' = said /\ past_end' = past_end
  BY DEF Check, theLog
<1>3. TypeOK'
  BY <1>1, <1>2 DEF Calm, TypeOK, Check
<1>4. Holds(term_log_count, 0)'
  BY <1>1, <1>2 DEF Calm, At, Check, Holds
<1>5. CASE term_log_count >= MAX_TERM_LOGS
  <2>1. pc' = [pc EXCEPT ![t] = "move"] /\ term_log_count' = MAX_TERM_LOGS
    BY <1>1, <1>2, <1>5, LogAssumption DEF Calm, TypeOK
  <2>2. At(t, "move")'
    BY <1>4, <2>1 DEF At, InCall
  <2>3. QED
    BY <1>1, <1>3, <2>1, <2>2, InsideCalm
<1>6. CASE ~(term_log_count >= MAX_TERM_LOGS)
  <2>1. pc' = [pc EXCEPT ![t] = "write"] /\ term_log_count' < MAX_TERM_LOGS
    BY <1>1, <1>2, <1>6, LogAssumption DEF Calm, TypeOK
  <2>2. At(t, "write")'
    BY <1>4, <2>1 DEF At, InCall, Room
  <2>3. QED
    BY <1>1, <1>3, <2>1, <2>2, InsideCalm
<1>7. QED
  BY <1>5, <1>6

LEMMA MoveCalm == ASSUME Calm, NEW t \in Threads, Move(t) PROVE Calm'
<1>1. pc[t] = "move" /\ pc[t] \in InCall /\ "shrink" \in Places
  BY DEF Move, InCall, Places
<1>2. term_log_count = MAX_TERM_LOGS /\ Holds(MAX_TERM_LOGS, 0)
  BY <1>1 DEF Calm, At
<1>3. /\ pc' = [pc EXCEPT ![t] = "shrink"] /\ reg' = [reg EXCEPT ![t] = term_log_count]
      /\ term_log_count' = term_log_count /\ said' = said
      /\ past_end' = past_end /\ back' = back /\ msg' = msg
  BY DEF Move, Goto
<1>4. \A i \in 0..(MAX_TERM_LOGS - 1) :
        term_logs'[i] = IF i < MAX_TERM_LOGS - 1 THEN term_logs[i + 1] ELSE term_logs[i]
  BY DEF Move, Calm, TypeOK
<1>5. term_logs' \in [0..(MAX_TERM_LOGS - 1) -> Lines]
  BY LogAssumption DEF Move, Calm, TypeOK
<1>6. TypeOK'
  BY <1>1, <1>3, <1>5, LogAssumption DEF Calm, TypeOK
<1>7. Holds(MAX_TERM_LOGS - 1, 1)'
  <2>1. Len(said') = (MAX_TERM_LOGS - 1) + 1
    BY <1>2, <1>3, LogAssumption DEF Holds
  <2>2. ASSUME NEW i \in 1..(MAX_TERM_LOGS - 1)
        PROVE  term_logs'[i - 1] = said'[i + 1]
    <3>1. i - 1 \in 0..(MAX_TERM_LOGS - 1) /\ i - 1 < MAX_TERM_LOGS - 1
          /\ (i - 1) + 1 = i /\ i + 1 \in 1..MAX_TERM_LOGS /\ (i + 1) - 1 = i
      BY LogAssumption
    <3>2. term_logs'[i - 1] = term_logs[i]
      BY <1>4, <3>1
    <3>3. term_logs[i] = said[(i + 1) + 0]
      BY <1>2, <3>1 DEF Holds
    <3>4. QED
      BY <1>3, <3>2, <3>3
  <2>3. QED
    BY <2>1, <2>2 DEF Holds
<1>8. At(t, "shrink")'
  BY <1>2, <1>3, <1>7 DEF At, InCall, Calm, TypeOK
<1>9. QED
  BY <1>1, <1>3, <1>6, <1>8, InsideCalm

LEMMA ShrinkCalm == ASSUME Calm, NEW t \in Threads, Shrink(t) PROVE Calm'
<1>1. pc[t] = "shrink" /\ pc[t] \in InCall /\ "write" \in Places
  BY DEF Shrink, InCall, Places
<1>2. reg[t] = MAX_TERM_LOGS /\ Holds(MAX_TERM_LOGS - 1, 1)
  BY <1>1 DEF Calm, At
<1>3. /\ pc' = [pc EXCEPT ![t] = "write"] /\ term_log_count' = MAX_TERM_LOGS - 1
      /\ term_logs' = term_logs /\ said' = said /\ past_end' = past_end
      /\ back' = back /\ msg' = msg /\ reg' = reg
  BY <1>2 DEF Shrink, Goto
<1>4. TypeOK'
  BY <1>1, <1>3, LogAssumption DEF Calm, TypeOK
<1>5. Room'
  BY <1>2, <1>3, LogAssumption DEF Room, Holds
<1>6. At(t, "write")'
  BY <1>5 DEF At, InCall
<1>7. QED
  BY <1>1, <1>3, <1>4, <1>6, InsideCalm

LEMMA WriteCalm == ASSUME Calm, NEW t \in Threads, Write(t) PROVE Calm'
<1>1. pc[t] = "write" /\ pc[t] \in InCall /\ "grow" \in Places
  BY DEF Write, InCall, Places
<1>2. Room
  BY <1>1 DEF Calm, At
<1>3. term_log_count \in DOMAIN term_logs /\ term_log_count \in Nat
  BY <1>2, LogAssumption DEF Calm, TypeOK, Room
<1>4. /\ pc' = [pc EXCEPT ![t] = "grow"]
      /\ term_logs' = [term_logs EXCEPT ![term_log_count] = msg[t]]
      /\ term_log_count' = term_log_count /\ said' = said /\ past_end' = past_end
      /\ back' = back /\ msg' = msg /\ reg' = reg
  BY <1>3 DEF Write, Goto
<1>5. TypeOK'
  BY <1>1, <1>4 DEF Calm, TypeOK
<1>6. ASSUME NEW i \in 1..term_log_count PROVE term_logs'[i - 1] = term_logs[i - 1]
  BY <1>3, <1>4
<1>7. Room'
  BY <1>2, <1>4, <1>6 DEF Room, Holds
<1>8. term_logs'[term_log_count'] = msg'[t]
  BY <1>3, <1>4
<1>9. At(t, "grow")'
  BY <1>7, <1>8 DEF At, InCall
<1>10. QED
  BY <1>1, <1>4, <1>5, <1>9, InsideCalm

LEMMA GrowCalm == ASSUME Calm, NEW t \in Threads, Grow(t) PROVE Calm'
<1>1. pc[t] = "grow" /\ pc[t] \in InCall /\ "store" \in Places
  BY DEF Grow, InCall, Places
<1>2. Room /\ term_logs[term_log_count] = msg[t]
  BY <1>1 DEF Calm, At
<1>3. /\ pc' = [pc EXCEPT ![t] = "store"] /\ reg' = [reg EXCEPT ![t] = term_log_count]
      /\ term_logs' = term_logs /\ term_log_count' = term_log_count
      /\ said' = said /\ past_end' = past_end /\ back' = back /\ msg' = msg
  BY DEF Grow, Goto, theLog
<1>4. TypeOK' /\ reg'[t] = term_log_count'
  BY <1>1, <1>3, LogAssumption DEF Calm, TypeOK
<1>5. Room' /\ term_logs'[term_log_count'] = msg'[t]
  BY <1>2, <1>3 DEF Room, Holds
<1>6. At(t, "store")'
  BY <1>4, <1>5 DEF At, InCall
<1>7. QED
  BY <1>1, <1>3, <1>4, <1>6, InsideCalm

LEMMA StoreCalm == ASSUME Calm, NEW t \in Threads, Store(t) PROVE Calm'
<1> DEFINE n == term_log_count
           line == msg[t]
           more == Append(said, line)
<1>1. pc[t] = "store" /\ pc[t] \in InCall
  BY DEF Store, InCall
<1>2. Room /\ term_logs[n] = line /\ reg[t] = n
  BY <1>1 DEF Calm, At
<1>3. /\ pc' = [pc EXCEPT ![t] = back[t]] /\ term_log_count' = n + 1
      /\ said' = LastOf(more) /\ term_logs' = term_logs
      /\ past_end' = past_end /\ back' = back /\ msg' = msg /\ reg' = reg
  BY <1>2 DEF Store, Goto
<1>4. n \in Nat /\ n + 1 \in 1..MAX_TERM_LOGS /\ said \in Seq(Lines) /\ line \in Lines
  BY <1>2, LogAssumption DEF Calm, TypeOK, Room
<1>5. /\ more \in Seq(Lines) /\ Len(more) = Len(said) + 1
      /\ \A i \in 1..Len(said) : more[i] = said[i]
      /\ more[Len(said) + 1] = line
  BY <1>4, AppendProperties
<1>6. said' \in Seq(Lines) /\ Holds(term_log_count, 0)'
  <2>1. CASE Holds(n, 0)
    <3>1. Len(said) = n /\ \A i \in 1..n : term_logs[i - 1] = said[i + 0]
      BY <1>4, <2>1 DEF Holds
    <3>2. said' = more
      BY <1>3, <1>4, <1>5, <3>1, LogAssumption DEF LastOf
    <3>3. ASSUME NEW i \in 1..(n + 1) PROVE term_logs[i - 1] = more[i + 0]
      <4>1. CASE i = n + 1
        <5>1. i - 1 = n /\ i + 0 = Len(said) + 1
          BY <1>4, <3>1, <4>1
        <5>2. QED
          BY <1>2, <1>5, <5>1
      <4>2. CASE i \in 1..n
        <5>1. i + 0 \in 1..Len(said)
          BY <1>4, <3>1, <4>2
        <5>2. QED
          BY <1>5, <3>1, <4>2, <5>1
      <4>3. i = n + 1 \/ i \in 1..n
        BY <1>4
      <4>4. QED
        BY <4>1, <4>2, <4>3
    <3>4. QED
      BY <1>3, <1>4, <1>5, <3>1, <3>2, <3>3 DEF Holds
  <2>2. CASE n = MAX_TERM_LOGS - 1 /\ Holds(n, 1)
    <3>1. Len(said) = n + 1 /\ \A i \in 1..n : term_logs[i - 1] = said[i + 1]
      BY <2>2 DEF Holds
    <3>2. said' = Tail(more) /\ more # << >>
      BY <1>3, <1>4, <1>5, <2>2, <3>1, LogAssumption DEF LastOf
    <3>3. /\ Tail(more) \in Seq(Lines) /\ Len(Tail(more)) = n + 1
          /\ \A i \in 1..(n + 1) : Tail(more)[i] = more[i + 1]
      BY <1>4, <1>5, <3>1, <3>2, HeadTailProperties
    <3>4. ASSUME NEW i \in 1..(n + 1) PROVE term_logs[i - 1] = more[i + 1]
      <4>1. CASE i = n + 1
        <5>1. i - 1 = n /\ i + 1 = Len(said) + 1
          BY <1>4, <3>1, <4>1
        <5>2. QED
          BY <1>2, <1>5, <5>1
      <4>2. CASE i \in 1..n
        <5>1. i + 1 \in 1..Len(said)
          BY <1>4, <3>1, <4>2
        <5>2. QED
          BY <1>5, <3>1, <4>2, <5>1
      <4>3. i = n + 1 \/ i \in 1..n
        BY <1>4
      <4>4. QED
        BY <4>1, <4>2, <4>3
    <3>5. QED
      BY <1>3, <1>4, <3>2, <3>3, <3>4 DEF Holds
  <2>3. QED
    BY <1>2, <2>1, <2>2 DEF Room
<1>7. back[t] \in Places \ InCall
  BY DEF Calm, TypeOK
<1>8. TypeOK'
  BY <1>3, <1>4, <1>6, <1>7 DEF Calm, TypeOK
<1>9. PICK p \in Places \ InCall : p = back[t]
  BY <1>7
<1>10. At(t, p)'
  BY <1>6, <1>9 DEF At, InCall
<1>11. QED
  BY <1>1, <1>3, <1>8, <1>9, <1>10, InsideCalm

LEMMA InCallGood == ASSUME Calm, NEW t \in Threads, shell_term_log(t) PROVE Calm'
BY CheckCalm, MoveCalm, ShrinkCalm, WriteCalm, GrowCalm, StoreCalm
   DEF shell_term_log

(***************************************************************************)
(* The compositor's thread and the commands'                               *)
(***************************************************************************)
LEMMA ShellCalm == ASSUME Calm, ~raced', Enter \/ Clear PROVE Calm'
<1>1. "shell" \in Threads
  BY DEF Threads
<1>2. CASE Enter
  <2>1. "echo" \in Lines /\ "entered" \in Places \ InCall
    BY DEF Lines, Places, InCall
  <2>2. QED
    BY <1>1, <1>2, <2>1, CallCalm DEF Enter
<1>3. CASE Clear
  <2>1. /\ Busy = {} /\ term_log_count' = 0 /\ said' = << >>
        /\ pc' = [pc EXCEPT !["shell"] = "idle"]
        /\ UNCHANGED <<term_logs, past_end, back, msg, reg>>
    BY <1>3 DEF Clear, Goto
  <2>2. TypeOK'
    <3>1. 0 \in 0..MAX_TERM_LOGS /\ << >> \in Seq(Lines) /\ "idle" \in Places
      BY LogAssumption DEF Places
    <3>2. pc' \in [Threads -> Places]
      BY <2>1, <3>1 DEF Calm, TypeOK
    <3>3. QED
      BY <2>1, <3>1, <3>2 DEF Calm, TypeOK
  <2>3. \A u \in Threads : pc'[u] \notin InCall
    BY <2>1 DEF Calm, TypeOK, Busy, InCall
  <2>4. Holds(term_log_count, 0)'
    BY <2>1 DEF Holds
  <2>5. QED
    BY <2>2, <2>3, <2>4 DEF Calm, OneAtATime
<1>4. QED
  BY <1>2, <1>3

(* A step that is no call, of a command's thread.                          *)
LEMMA GotoCalm ==
  ASSUME Calm, NEW c \in Threads, pc[c] \notin InCall,
         NEW p \in Places \ InCall, Goto(c, p),
         theLog' = theLog, UNCHANGED <<back, msg, reg>>
  PROVE  Calm'
<1>1. PICK q \in [Threads -> Places] : q = [pc EXCEPT ![c] = p]
  BY DEF Calm, TypeOK
<1>2. \A u \in Threads : IF q[u] \in InCall THEN q[u] = pc[u] ELSE pc[u] \notin InCall
  BY <1>1 DEF Calm, TypeOK
<1>3. QED
  BY <1>1, <1>2, OutsideCalm DEF Goto

LEMMA StartCalm == ASSUME Calm, NEW c \in Commands, Start(c) PROVE Calm'
<1>1. c \in Threads /\ "shell" \in Threads
  BY DEF Threads
<1>2. PICK q \in [Threads -> Places] :
        q = [pc EXCEPT ![c] = "popen", !["shell"] = "idle"]
  BY DEF Calm, TypeOK, Places
<1>3. \A u \in Threads : IF q[u] \in InCall THEN q[u] = pc[u] ELSE pc[u] \notin InCall
  BY <1>1, <1>2 DEF Calm, TypeOK, Start, InCall
<1>4. QED
  BY <1>1, <1>2, <1>3, OutsideCalm DEF Start

LEMMA CommandCalm ==
  ASSUME Calm, ~raced', NEW c \in Commands, async_exec_cmd(c)
  PROVE  Calm'
<1>1. /\ c \in Threads
      /\ {"read", "close", "done"} \subseteq Places \ InCall
      /\ Output \subseteq Lines /\ Answers \subseteq Lines
  BY DEF Threads, Places, InCall, Lines
<1>2. CASE Popen(c)
  <2>1. pc[c] \notin InCall /\ theLog' = theLog /\ reg' = reg
    BY <1>2 DEF Popen, InCall
  <2>2. CASE Call(c, "cannot run", "done")
    BY <1>1, <2>1, <2>2, CallCalm DEF Answers
  <2>3. CASE Goto(c, "read") /\ UNCHANGED <<back, msg, raced>>
    BY <1>1, <2>1, <2>3, GotoCalm
  <2>4. QED
    BY <1>2, <2>2, <2>3 DEF Popen
<1>3. CASE Read(c)
  <2>1. PICK line \in Output : Call(c, line, "read")
    BY <1>3 DEF Read
  <2>2. theLog' = theLog /\ reg' = reg
    BY <1>3 DEF Read
  <2>3. QED
    BY <1>1, <2>1, <2>2, CallCalm
<1>4. CASE EndOfOutput(c)
  <2>1. /\ pc[c] \notin InCall /\ Goto(c, "close")
        /\ theLog' = theLog /\ UNCHANGED <<back, msg, reg>>
    BY <1>4 DEF EndOfOutput, InCall
  <2>2. QED
    BY <1>1, <2>1, GotoCalm
<1>5. CASE Pclose(c)
  <2>1. pc[c] \notin InCall /\ theLog' = theLog /\ reg' = reg
    BY <1>5 DEF Pclose, InCall
  <2>2. CASE Goto(c, "done") /\ UNCHANGED <<back, msg, raced>>
    BY <1>1, <2>1, <2>2, GotoCalm
  <2>3. ASSUME NEW status \in WaitStatus, Call(c, AnswerFor(status), "done")
        PROVE  Calm'
    <3>1. PICK line \in Lines : line = AnswerFor(status)
      BY <1>1 DEF AnswerFor, Answers
    <3>2. QED
      BY <1>1, <2>1, <2>3, <3>1, CallCalm
  <2>4. QED
    BY <1>5, <2>2, <2>3 DEF Pclose
<1>6. QED
  BY <1>2, <1>3, <1>4, <1>5 DEF async_exec_cmd

(***************************************************************************)
(* The theorems                                                            *)
(***************************************************************************)
LEMMA InitCalm == Init => IInv
<1> SUFFICES ASSUME Init PROVE IInv
  OBVIOUS
<1>1. TypeOK
  BY LogAssumption DEF Init, TypeOK, Lines, Places, InCall
<1>2. \A u \in Threads : pc[u] \notin InCall
  BY DEF Init, InCall
<1>3. Holds(term_log_count, 0)
  BY DEF Init, Holds
<1>4. QED
  BY <1>1, <1>2, <1>3 DEF IInv, Calm, OneAtATime, Init

(* Once two uses of the log have overlapped, they have.                    *)
LEMMA RacedStays == ASSUME raced \in BOOLEAN, Next
                    PROVE  raced' \in BOOLEAN /\ (raced => raced')
<1>1. CASE Enter \/ Clear
  BY <1>1 DEF Enter, Clear, Call
<1>2. ASSUME NEW t \in Threads, shell_term_log(t) PROVE raced' = raced
  BY <1>2 DEF shell_term_log, Check, Move, Shrink, Write, Grow, Store
<1>3. ASSUME NEW c \in Commands, Start(c) \/ async_exec_cmd(c)
      PROVE  raced' = raced \/ raced' = (raced \/ Busy # {})
  BY <1>3 DEF Start, async_exec_cmd, Popen, Read, EndOfOutput, Pclose, Call
<1>4. QED
  BY <1>1, <1>2, <1>3 DEF Next

LEMMA StepCalm == IInv /\ [Next]_vars => IInv'
<1> SUFFICES ASSUME IInv, [Next]_vars PROVE IInv'
  OBVIOUS
<1>1. CASE Next
  <2>1. raced' \in BOOLEAN /\ (raced => raced')
    BY <1>1, RacedStays DEF IInv
  <2>2. SUFFICES ASSUME ~raced' PROVE Calm'
    BY <2>1 DEF IInv
  <2>3. Calm
    BY <2>1, <2>2 DEF IInv
  <2>4. QED
    BY <1>1, <2>2, <2>3, ShellCalm, InCallGood, StartCalm, CommandCalm DEF Next
<1>2. CASE UNCHANGED vars
  <2>1. \A t \in Threads : At(t, pc[t])' <=> At(t, pc[t])
    BY <1>2 DEF vars, At, Room, Holds
  <2>2. QED
    BY <1>2, <2>1 DEF vars, IInv, Calm, TypeOK, OneAtATime, Busy, Holds
<1>3. QED
  BY <1>1, <1>2

LEMMA Inductive == Spec => []IInv
BY InitCalm, StepCalm, PTL DEF Spec

(* A line is written outside term_logs only after two uses of the log      *)
(* have overlapped: the test and the memmove of shell_term_log are right   *)
(* for one caller, for any length of the log.                              *)
THEOREM NeverPastTheEnd == Spec => []InBounds
<1>1. IInv => InBounds
  BY DEF IInv, Calm, TypeOK, InBounds
<1>2. QED
  BY <1>1, Inductive, PTL

(* And as long as none have, the terminal shows the last lines logged.     *)
THEOREM TailIsShown == Spec => []QuietShowsTail
<1>1. IInv => QuietShowsTail
  <2> SUFFICES ASSUME IInv, ~raced, Busy = {}
               PROVE  [i \in 1..term_log_count |-> term_logs[i - 1]] = said
    BY DEF QuietShowsTail
  <2>1. said \in Seq(Lines) /\ Holds(term_log_count, 0) /\ term_log_count \in Nat
    BY LogAssumption DEF IInv, Calm, TypeOK
  <2>2. Len(said) = term_log_count /\ said = [i \in 1..Len(said) |-> said[i]]
    BY <2>1 DEF Holds
  <2>3. \A i \in 1..term_log_count : term_logs[i - 1] = said[i]
    BY <2>1 DEF Holds
  <2>4. QED
    BY <2>2, <2>3
<1>2. QED
  BY <1>1, Inductive, PTL
=============================================================================
