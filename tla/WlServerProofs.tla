--------------------------- MODULE WlServerProofs ---------------------------
(***************************************************************************)
(* Proofs about WlServer: whose number each open descriptor is, and how    *)
(* many objects a pool's references cover.                                 *)
(***************************************************************************)
EXTENDS WlServer, FiniteSetTheorems, TLAPS

(***************************************************************************)
(* Descriptors                                                             *)
(***************************************************************************)
InList(c) == \E i \in DOMAIN clients : clients[i] = c

(* A number is the batch's while that is read, or the socket of the client   *)
(* that has the number, which is in the list; a client that was not        *)
(* accepted has none.                                                      *)
Descriptors ==
  /\ fd \in [Clients -> 0..MaxFd]
  /\ fdtab \in [Numbers -> {"free", "shm"} \cup Clients]
  /\ sock \in [Clients -> {"new", "queued", "up", "down"}]
  /\ clients \in Seq(Clients)
  /\ \A n \in Numbers : fdtab[n] = "shm" => pc \notin {"accept", "visit"} /\ fds = n
  /\ \A n \in Numbers : \A c \in Clients : fdtab[n] = c => fd[c] = n /\ InList(c)
  /\ \A c \in Clients : sock[c] \in {"new", "queued"} => fd[c] = 0

LEMMA Closing ==
  ASSUME Descriptors, NEW ns, Close(ns)
  PROVE  /\ fdtab' \in [Numbers -> {"free", "shm"} \cup Clients]
         /\ sock' \in [Clients -> {"new", "queued", "up", "down"}]
         /\ \A n \in Numbers : /\ n \notin ns => fdtab'[n] = fdtab[n]
                               /\ n \in ns => fdtab'[n] = "free"
         /\ \A c \in Clients : sock'[c] \in {"new", "queued"} => sock'[c] = sock[c]
BY DEF Descriptors, Close

(* Numbers that are closed and nothing else.                               *)
LEMMA ClosingKeeps ==
  ASSUME Descriptors, NEW ns, Close(ns), UNCHANGED <<fd, clients>>,
         \A n \in Numbers : fdtab[n] = "shm" => n \in ns \/ (pc' \notin {"accept", "visit"} /\ fds' = n)
  PROVE  Descriptors'
PROOF
<1>1. /\ fdtab' \in [Numbers -> {"free", "shm"} \cup Clients]
      /\ sock' \in [Clients -> {"new", "queued", "up", "down"}]
      /\ \A n \in Numbers : /\ n \notin ns => fdtab'[n] = fdtab[n]
                            /\ n \in ns => fdtab'[n] = "free"
      /\ \A c \in Clients : sock'[c] \in {"new", "queued"} => sock'[c] = sock[c]
  BY Closing
<1>2. "free" \notin Clients /\ "shm" \notin Clients
  BY ServerAssumption
<1>3. \A n \in Numbers : fdtab'[n] = "shm" => pc' \notin {"accept", "visit"} /\ fds' = n
  BY <1>1
<1>4. ASSUME NEW n \in Numbers, NEW c \in Clients, fdtab'[n] = c
      PROVE  fd'[c] = n /\ InList(c)'
  <2>1. fdtab[n] = c
    BY <1>1, <1>2, <1>4
  <2> QED
    BY <2>1 DEF Descriptors, InList
<1>5. \A c \in Clients : sock'[c] \in {"new", "queued"} => fd'[c] = 0
  BY <1>1 DEF Descriptors
<1>6. fd' \in [Clients -> 0..MaxFd] /\ clients' \in Seq(Clients)
  BY DEF Descriptors
<1> QED
  BY <1>1, <1>3, <1>4, <1>5, <1>6 DEF Descriptors

LEMMA Unlinked ==
  ASSUME NEW S, NEW s \in Seq(S), NEW i \in DOMAIN s
  PROVE  /\ Without(s, i) \in Seq(S)
         /\ \A j \in DOMAIN s :
              j # i => \E k \in DOMAIN Without(s, i) : Without(s, i)[k] = s[j]
PROOF
<1> DEFINE t == Without(s, i)
<1>1. PICK n \in Nat : n = Len(s) /\ i \in 1..n /\ DOMAIN s = 1..n
  OBVIOUS
<1>2. \A k \in 1..n : s[k] \in S
  BY <1>1
<1>3. n - 1 \in Nat /\ \A k \in 1..(n - 1) : (IF k < i THEN k ELSE k + 1) \in 1..n
  BY <1>1
<1>4. /\ t \in [1..(n - 1) -> S]
      /\ \A k \in 1..(n - 1) : t[k] = s[IF k < i THEN k ELSE k + 1]
  BY <1>1, <1>2, <1>3 DEF Without
<1> HIDE DEF t
<1>5. t \in Seq(S)
  BY <1>3, <1>4
<1>6. ASSUME NEW j \in DOMAIN s, j # i PROVE \E k \in DOMAIN t : t[k] = s[j]
  <2>1. j \in 1..n /\ (j < i \/ j > i)
    BY <1>1, <1>6
  <2>2. CASE j < i
    <3>1. j \in 1..(n - 1)
      BY <1>1, <2>1, <2>2
    <3>2. t[j] = s[j]
      BY <1>4, <2>2, <3>1
    <3> QED
      BY <1>4, <3>1, <3>2
  <2>3. CASE j > i
    <3>1. PICK k \in 1..(n - 1) : k + 1 = j /\ ~(k < i)
      <4>1. j - 1 \in 1..(n - 1) /\ (j - 1) + 1 = j /\ ~(j - 1 < i)
        BY <1>1, <2>1, <2>3
      <4> QED
        BY <4>1
    <3>2. t[k] = s[j]
      BY <1>4, <3>1
    <3> QED
      BY <1>4, <3>2
  <2> QED
    BY <2>1, <2>2, <2>3
<1> QED
  BY <1>5, <1>6 DEF t

LEMMA AcceptDescriptors ==
  ASSUME Descriptors, Accept
  PROVE  Descriptors'
PROOF
<1>1. CASE \E c \in Clients, n \in Numbers :
             /\ sock[c] = "queued" /\ Lowest(n)
             /\ sock' = [sock EXCEPT ![c] = "up"]
             /\ fd' = [fd EXCEPT ![c] = n]
             /\ fdtab' = [fdtab EXCEPT ![n] = c]
             /\ clients' = <<c>> \o clients
  <2>1. PICK c \in Clients, n \in Numbers :
             /\ sock[c] = "queued" /\ Lowest(n)
             /\ sock' = [sock EXCEPT ![c] = "up"]
             /\ fd' = [fd EXCEPT ![c] = n]
             /\ fdtab' = [fdtab EXCEPT ![n] = c]
             /\ clients' = <<c>> \o clients
    BY <1>1
  <2>2. /\ clients' \in Seq(Clients)
        /\ InList(c)' /\ \A d : InList(d) => InList(d)'
    <3>1. clients \in Seq(Clients)
      BY DEF Descriptors
    <3>2. /\ clients' \in Seq(Clients) /\ 1 \in DOMAIN clients' /\ clients'[1] = c
          /\ \A i \in DOMAIN clients : i + 1 \in DOMAIN clients' /\ clients'[i + 1] = clients[i]
      BY <2>1, <3>1
    <3> QED
      BY <3>2 DEF InList
  <2>3. n \in 0..MaxFd
    BY ServerAssumption DEF Numbers
  <2>4. pc = "accept" /\ pc' = "visit"
    BY DEF Accept
  <2>5. fd[c] = 0 /\ (\A m \in Numbers : fdtab[m] # c)
    <3>1. \A m \in Numbers : m # 0
      BY ServerAssumption DEF Numbers
    <3> QED
      BY <2>1, <3>1 DEF Descriptors
  <2>6. "free" \notin Clients /\ "shm" \notin Clients
    BY ServerAssumption
  <2> QED
    BY <2>1, <2>2, <2>3, <2>4, <2>5, <2>6 DEF Descriptors
<1>2. CASE UNCHANGED <<clients, network, memory>>
  BY <1>2 DEF network, Descriptors, Accept, InList
<1> QED
  BY <1>1, <1>2 DEF Accept

LEMMA RemoveDescriptors ==
  ASSUME Descriptors, NEW c \in Clients, Remove(c)
  PROVE  Descriptors'
PROOF
<1>1. PICK ns : Close(ns)
  BY DEF Remove
<1>2. PICK i \in DOMAIN clients :
        /\ clients[i] = c
        /\ clients' = Without(clients, i)
  BY DEF Remove
<1>3. fd[c] = 0 /\ UNCHANGED <<pc, fds, fd>>
  BY DEF Remove
<1>4. clients \in Seq(Clients)
  BY DEF Descriptors
<1>5. clients' \in Seq(Clients) /\ \A d : d # c /\ InList(d) => InList(d)'
  BY <1>2, <1>4, Unlinked DEF InList
<1>6. /\ fdtab' \in [Numbers -> {"free", "shm"} \cup Clients]
      /\ sock' \in [Clients -> {"new", "queued", "up", "down"}]
      /\ \A n \in Numbers : fdtab'[n] = fdtab[n] \/ fdtab'[n] = "free"
      /\ \A d \in Clients : sock'[d] \in {"new", "queued"} => sock'[d] = sock[d]
  BY <1>1, Closing
<1>7. "free" \notin Clients /\ "shm" \notin Clients /\ \A n \in Numbers : n # 0
  BY ServerAssumption DEF Numbers
<1>8. \A n \in Numbers : fdtab'[n] = "shm" => pc' \notin {"accept", "visit"} /\ fds' = n
  BY <1>3, <1>6 DEF Descriptors
<1>9. ASSUME NEW n \in Numbers, NEW d \in Clients, fdtab'[n] = d
      PROVE  fd'[d] = n /\ InList(d)'
  <2>1. fdtab[n] = d
    BY <1>6, <1>7, <1>9
  <2>2. fd[d] = n /\ InList(d)
    BY <2>1 DEF Descriptors
  <2> QED
    BY <1>3, <1>5, <1>7, <2>2
<1>10. \A d \in Clients : sock'[d] \in {"new", "queued"} => fd'[d] = 0
  BY <1>3, <1>6 DEF Descriptors
<1>11. fd' \in [Clients -> 0..MaxFd]
  BY <1>3 DEF Descriptors
<1> QED
  BY <1>5, <1>6, <1>8, <1>9, <1>10, <1>11 DEF Descriptors

LEMMA DisconnectDescriptors ==
  ASSUME Descriptors, NEW c \in Clients, Disconnect(c)
  PROVE  Descriptors'
PROOF
<1>1. /\ Close({fd[c]}) /\ fd' = [fd EXCEPT ![c] = 0] /\ UNCHANGED <<clients, pc, fds>>
  BY DEF Disconnect
<1>2. /\ fdtab' \in [Numbers -> {"free", "shm"} \cup Clients]
      /\ sock' \in [Clients -> {"new", "queued", "up", "down"}]
      /\ \A n \in Numbers : /\ n \notin {fd[c]} => fdtab'[n] = fdtab[n]
                            /\ n \in {fd[c]} => fdtab'[n] = "free"
      /\ \A d \in Clients : sock'[d] \in {"new", "queued"} => sock'[d] = sock[d]
  BY <1>1, Closing
<1>3. "free" \notin Clients /\ "shm" \notin Clients /\ 0 \in 0..MaxFd
  BY ServerAssumption
<1>4. \A n \in Numbers : fdtab'[n] = "shm" => pc' \notin {"accept", "visit"} /\ fds' = n
  BY <1>1, <1>2 DEF Descriptors
<1>5. ASSUME NEW n \in Numbers, NEW d \in Clients, fdtab'[n] = d
      PROVE  fd'[d] = n /\ InList(d)'
  <2>1. fdtab[n] = d /\ n # fd[c]
    BY <1>2, <1>3, <1>5
  <2>2. fd[d] = n /\ InList(d)
    BY <2>1 DEF Descriptors
  <2>3. d # c
    BY <2>1, <2>2
  <2> QED
    BY <1>1, <2>2, <2>3 DEF InList, Descriptors
<1>6. \A d \in Clients : sock'[d] \in {"new", "queued"} => fd'[d] = 0
  BY <1>1, <1>2 DEF Descriptors
<1>7. fd' \in [Clients -> 0..MaxFd] /\ clients' \in Seq(Clients)
  BY <1>1, <1>3 DEF Descriptors
<1> QED
  BY <1>2, <1>4, <1>5, <1>6, <1>7 DEF Descriptors

LEMMA ReadDescriptors ==
  ASSUME Descriptors, NEW c \in Clients, Read(c)
  PROVE  Descriptors'
PROOF
<1>1. pc = "visit" /\ pc' = "read" /\ UNCHANGED <<clients, fd, sock>>
  BY DEF Read, Visiting
<1>2. "free" \notin Clients /\ "shm" \notin Clients
  BY ServerAssumption
<1>3. CASE UNCHANGED <<fdtab, fds>>
  BY <1>1, <1>2, <1>3 DEF Descriptors, InList
<1>4. CASE \E n \in Numbers : /\ fdtab' = [fdtab EXCEPT ![n] = "shm"]
                              /\ fds' = n
  BY <1>1, <1>2, <1>4 DEF Descriptors, InList
<1> QED
  BY <1>3, <1>4 DEF Read

LEMMA NextDescriptors ==
  ASSUME Descriptors, [Next]_vars
  PROVE  Descriptors'
PROOF
<1>1. CASE Accept
  BY <1>1, AcceptDescriptors
<1>2. CASE EndRead
  BY <1>2, ClosingKeeps DEF EndRead, Descriptors
<1>3. CASE WriteFails \/ EndPoll
  BY <1>3 DEF WriteFails, EndPoll, network, Descriptors, InList
<1>4. ASSUME NEW c \in Clients, Remove(c) \/ Skip(c) \/ Disconnect(c) \/ Read(c)
      PROVE  Descriptors'
  <2>1. CASE Skip(c)
    BY <2>1 DEF Skip, network, Descriptors, InList
  <2> QED
    BY <1>4, <2>1, RemoveDescriptors, DisconnectDescriptors, ReadDescriptors
<1>5. ASSUME NEW c \in Clients, Connect(c) \/ HangUp(c) \/ ReadEvents(c)
      PROVE  Descriptors'
  <2>1. CASE Connect(c)
    BY <2>1 DEF Connect, Descriptors, InList
  <2>2. CASE HangUp(c)
    BY <2>2 DEF HangUp, Descriptors, InList
  <2>3. CASE ReadEvents(c)
    BY <2>3 DEF ReadEvents, Descriptors, InList
  <2> QED
    BY <1>5, <2>1, <2>2, <2>3
<1>6. ASSUME NEW c \in Clients, Request(c)
      PROVE  Descriptors'
  <2>1. CASE MakePlain(c)
    BY <2>1 DEF MakePlain, network, Descriptors, InList
  <2>2. CASE CreatePool(c)
    BY <2>2 DEF CreatePool, network, Descriptors, InList
  <2>3. CASE CreatePoolFails(c)
    BY <2>3, ClosingKeeps DEF CreatePoolFails, Reading, Descriptors
  <2>4. CASE CreateBuffer(c)
    BY <2>4 DEF CreateBuffer, network, Descriptors, InList
  <2>5. CASE Destroy(c)
    <3>1. /\ UNCHANGED <<pc, fds, fd, clients>>
          /\ (\E ns : Close(ns)) \/ UNCHANGED <<fdtab, sock>>
      BY <2>5 DEF Destroy, Release
    <3>2. CASE \E ns : Close(ns)
      BY <3>1, <3>2, ClosingKeeps DEF Descriptors
    <3>3. CASE UNCHANGED <<fdtab, sock>>
      BY <3>1, <3>3 DEF Descriptors, InList
    <3> QED
      BY <3>1, <3>2, <3>3
  <2>6. CASE Unknown(c)
    <3>1. /\ pc = "read" /\ pc' \notin {"accept", "visit"}
          /\ UNCHANGED <<clients, fds, fd, fdtab>>
      BY <2>6 DEF Unknown, Reading, Send
    <3>2. /\ sock' \in [Clients -> {"new", "queued", "up", "down"}]
          /\ \A d \in Clients : sock'[d] \in {"new", "queued"} => sock'[d] = sock[d]
      BY <2>6 DEF Unknown, Descriptors
    <3> QED
      BY <3>1, <3>2 DEF Descriptors, InList
  <2>7. CASE MakeAnswered(c)
    <3>1. /\ pc = "read" /\ pc' \notin {"accept", "visit"}
          /\ UNCHANGED <<clients, fds, fd, fdtab, sock>>
      BY <2>7 DEF MakeAnswered, Reading, Send, network
    <3> QED
      BY <3>1 DEF Descriptors, InList
  <2> QED
    BY <1>6, <2>1, <2>2, <2>3, <2>4, <2>5, <2>6, <2>7 DEF Request
<1>7. CASE UNCHANGED vars
  BY <1>7 DEF vars, network, Descriptors, InList
<1> QED
  BY <1>1, <1>2, <1>3, <1>4, <1>5, <1>6, <1>7 DEF Next, Poll

(* Between reads every open number is the socket of a client in the list.  *)
THEOREM NoneLeft == Spec => []NoDescriptorLeft
PROOF
<1>1. Init => Descriptors
  BY ServerAssumption DEF Init, Descriptors, Numbers
<1>2. Descriptors => NoDescriptorLeft
  BY DEF Descriptors, NoDescriptorLeft, InList
<1> QED
  BY <1>1, <1>2, NextDescriptors, PTL DEF Spec

(***************************************************************************)
(* Pools                                                                   *)
(***************************************************************************)
Kinds == {"display", "shm", "callback", "pool", "buffer", "gone"}
Users(o, p) == {id \in DOMAIN o : o[id] = p}

(* One client's objects: its own view m, the server's table o and its      *)
(* pools q.  A pool that is mapped has as many references as objects use   *)
(* it, or more; an object of kind pool is its pool.                        *)
Sound(m, o, q) ==
  /\ m \in Seq(Kinds)
  /\ DOMAIN o \subseteq DOMAIN m
  /\ \A id \in DOMAIN o : /\ o[id] \in 0..Len(m)
                          /\ o[id] # 0 => o[id] \in DOMAIN q
                          /\ m[id] \in {"pool", "buffer"} => o[id] # 0
                          /\ m[id] = "pool" => o[id] = id
  /\ 0 \notin DOMAIN q
  /\ \A p \in DOMAIN q : /\ q[p] = [refs |-> q[p].refs, fd |-> q[p].fd]
                         /\ q[p].refs \in Nat
                         /\ Cardinality(Users(o, p)) <= q[p].refs

Pools ==
  /\ DOMAIN mine = Clients /\ DOMAIN objs = Clients /\ DOMAIN pools = Clients
  /\ \A c \in Clients : Sound(mine[c], objs[c], pools[c])

LEMMA ObjectsFinite ==
  ASSUME NEW m, NEW o, NEW q, Sound(m, o, q)
  PROVE  /\ IsFiniteSet(DOMAIN o)
         /\ Len(m) + 1 \notin DOMAIN o
         /\ \A p : IsFiniteSet(Users(o, p)) /\ Cardinality(Users(o, p)) \in Nat
PROOF
<1>1. Len(m) \in Nat /\ DOMAIN m = 1..Len(m)
  BY DEF Sound
<1>2. IsFiniteSet(DOMAIN m)
  BY <1>1, FS_Interval
<1>3. DOMAIN o \subseteq DOMAIN m
  BY DEF Sound
<1>4. IsFiniteSet(DOMAIN o)
  BY <1>2, <1>3, FS_Subset
<1>5. \A p : Users(o, p) \subseteq DOMAIN o
  BY DEF Users
<1> QED
  BY <1>1, <1>3, <1>4, <1>5, FS_Subset, FS_CardinalityType

(* The client's view grows and the server's table does not.                *)
LEMMA Grown ==
  ASSUME NEW m, NEW o, NEW q, Sound(m, o, q), NEW k \in Kinds
  PROVE  Sound(Append(m, k), o, q)
PROOF
<1>1. /\ Append(m, k) \in Seq(Kinds) /\ Len(Append(m, k)) = Len(m) + 1 /\ Len(m) \in Nat
      /\ \A i \in DOMAIN m : i \in DOMAIN Append(m, k) /\ Append(m, k)[i] = m[i]
  BY DEF Sound
<1>2. 0..Len(m) \subseteq 0..Len(Append(m, k))
  BY <1>1
<1> QED
  BY <1>1, <1>2 DEF Sound

(* A table with object n more.                                             *)
LEMMA OneMore ==
  ASSUME NEW o, IsFiniteSet(DOMAIN o), NEW n, n \notin DOMAIN o, NEW x, NEW p
  PROVE  Cardinality(Users(With(o, n, x), p))
           = IF x = p THEN Cardinality(Users(o, p)) + 1 ELSE Cardinality(Users(o, p))
PROOF
<1>1. Users(With(o, n, x), p) = IF x = p THEN Users(o, p) \cup {n} ELSE Users(o, p)
  BY DEF Users, With
<1>2. Users(o, p) \subseteq DOMAIN o /\ n \notin Users(o, p)
  BY DEF Users
<1>3. IsFiniteSet(Users(o, p))
  BY <1>2, FS_Subset
<1>4. Cardinality(Users(o, p) \cup {n}) = Cardinality(Users(o, p)) + 1
  BY <1>2, <1>3, FS_AddElement
<1> QED
  BY <1>1, <1>4

LEMMA NewPlain ==
  ASSUME NEW m, NEW o, NEW q, Sound(m, o, q), NEW n, n = Len(m) + 1,
         NEW k \in Kinds \ {"pool", "buffer"}
  PROVE  Sound(Append(m, k), With(o, n, 0), q)
PROOF
<1>0. n \notin DOMAIN o /\ IsFiniteSet(DOMAIN o)
  BY ObjectsFinite
<1>1. /\ Append(m, k) \in Seq(Kinds) /\ Len(Append(m, k)) = n /\ Len(m) \in Nat
      /\ n \in DOMAIN Append(m, k) /\ Append(m, k)[n] = k
      /\ \A i \in DOMAIN m : i \in DOMAIN Append(m, k) /\ Append(m, k)[i] = m[i]
  BY DEF Sound
<1>2. 0..Len(m) \subseteq 0..n /\ 0 \in 0..n
  BY <1>1
<1>3. /\ DOMAIN With(o, n, 0) = {n} \cup DOMAIN o
      /\ With(o, n, 0)[n] = 0
      /\ \A i \in DOMAIN o : With(o, n, 0)[i] = o[i] /\ i # n
  BY <1>0 DEF With
<1>4. ASSUME NEW p \in DOMAIN q PROVE Cardinality(Users(With(o, n, 0), p)) <= q[p].refs
  <2>1. p # 0
    BY DEF Sound
  <2>2. Cardinality(Users(With(o, n, 0), p)) = Cardinality(Users(o, p))
    BY <1>0, <2>1, OneMore
  <2> QED
    BY <2>2 DEF Sound
<1>5. \A id \in DOMAIN With(o, n, 0) :
        /\ With(o, n, 0)[id] \in 0..n
        /\ With(o, n, 0)[id] # 0 => With(o, n, 0)[id] \in DOMAIN q
        /\ Append(m, k)[id] \in {"pool", "buffer"} => With(o, n, 0)[id] # 0
        /\ Append(m, k)[id] = "pool" => With(o, n, 0)[id] = id
  BY <1>1, <1>2, <1>3 DEF Sound
<1> QED
  BY <1>1, <1>3, <1>4, <1>5 DEF Sound

LEMMA NewPool ==
  ASSUME NEW m, NEW o, NEW q, Sound(m, o, q), NEW n, n = Len(m) + 1, NEW f
  PROVE  LET r == With(q, n, [refs |-> 1, fd |-> f])
         IN  Sound(Append(m, "pool"), o, r) /\ Sound(Append(m, "pool"), With(o, n, n), r)
PROOF
<1> DEFINE r == With(q, n, [refs |-> 1, fd |-> f])
           a == Append(m, "pool")
<1>0. n \notin DOMAIN o /\ IsFiniteSet(DOMAIN o)
  BY ObjectsFinite
<1>1. /\ a \in Seq(Kinds) /\ Len(a) = n /\ Len(m) \in Nat /\ n \in Nat \ {0}
      /\ n \in DOMAIN a /\ a[n] = "pool"
      /\ \A i \in DOMAIN m : i \in DOMAIN a /\ a[i] = m[i]
  BY DEF Sound, Kinds
<1>2. 0..Len(m) \subseteq 0..n /\ n \in 0..n /\ n \notin 0..Len(m)
  BY <1>1
<1>3. /\ DOMAIN With(o, n, n) = {n} \cup DOMAIN o
      /\ With(o, n, n)[n] = n
      /\ \A i \in DOMAIN o : With(o, n, n)[i] = o[i] /\ i # n
  BY <1>0 DEF With
<1>4. /\ DOMAIN r = {n} \cup DOMAIN q
      /\ r[n] = [refs |-> 1, fd |-> f]
      /\ \A p \in DOMAIN q : p # n => r[p] = q[p]
  BY DEF With
<1>5. \A p \in DOMAIN r : r[p] = [refs |-> r[p].refs, fd |-> r[p].fd] /\ r[p].refs \in Nat
  BY <1>4 DEF Sound
<1>6. 0 \notin DOMAIN r
  BY <1>1, <1>4 DEF Sound
<1>7. Users(o, n) = {}
  BY <1>2 DEF Sound, Users
<1>8. ASSUME NEW p \in DOMAIN r
      PROVE  /\ Cardinality(Users(o, p)) <= r[p].refs
             /\ Cardinality(Users(With(o, n, n), p)) <= r[p].refs
  <2>1. CASE p = n
    <3>1. r[p].refs = 1
      BY <1>4, <2>1
    <3>2. Cardinality(Users(o, p)) = 0
      BY <1>7, <2>1, FS_EmptySet
    <3>3. Cardinality(Users(With(o, n, n), p)) = Cardinality(Users(o, p)) + 1
      BY <1>0, <2>1, OneMore
    <3> QED
      BY <3>1, <3>2, <3>3
  <2>2. CASE p # n
    <3>1. r[p] = q[p] /\ p \in DOMAIN q
      BY <1>4, <2>2
    <3>2. Cardinality(Users(o, p)) <= q[p].refs
      BY <3>1 DEF Sound
    <3>3. Cardinality(Users(With(o, n, n), p)) = Cardinality(Users(o, p))
      BY <1>0, <2>2, OneMore
    <3> QED
      BY <3>1, <3>2, <3>3
  <2> QED
    BY <2>1, <2>2
<1> HIDE DEF r, a
<1>9. \A id \in DOMAIN o : /\ o[id] \in 0..n
                           /\ o[id] # 0 => o[id] \in DOMAIN r
                           /\ a[id] \in {"pool", "buffer"} => o[id] # 0
                           /\ a[id] = "pool" => o[id] = id
  BY <1>1, <1>2, <1>4 DEF Sound
<1>10. \A id \in DOMAIN With(o, n, n) :
        /\ With(o, n, n)[id] \in 0..n
        /\ With(o, n, n)[id] # 0 => With(o, n, n)[id] \in DOMAIN r
        /\ a[id] \in {"pool", "buffer"} => With(o, n, n)[id] # 0
        /\ a[id] = "pool" => With(o, n, n)[id] = id
  BY <1>1, <1>2, <1>3, <1>4, <1>9
<1>11. DOMAIN o \subseteq DOMAIN a /\ DOMAIN With(o, n, n) \subseteq DOMAIN a
  BY <1>1, <1>3 DEF Sound
<1>12. Sound(a, o, r)
  BY <1>1, <1>5, <1>6, <1>8, <1>9, <1>11 DEF Sound
<1>13. Sound(a, With(o, n, n), r)
  BY <1>1, <1>5, <1>6, <1>8, <1>10, <1>11 DEF Sound
<1> QED
  BY <1>12, <1>13 DEF r, a

(* The references of pool p become x.                                      *)
Counted(q, p, x) == [q EXCEPT ![p].refs = x]

LEMMA Counting ==
  ASSUME NEW q, NEW p \in DOMAIN q, q[p] = [refs |-> q[p].refs, fd |-> q[p].fd],
         NEW x
  PROVE  /\ DOMAIN Counted(q, p, x) = DOMAIN q
         /\ Counted(q, p, x)[p] = [refs |-> x, fd |-> q[p].fd]
         /\ \A i \in DOMAIN q : i # p => Counted(q, p, x)[i] = q[i]
BY DEF Counted

LEMMA NewBuffer ==
  ASSUME NEW m, NEW o, NEW q, Sound(m, o, q), NEW n, n = Len(m) + 1,
         NEW p \in DOMAIN m, p \in DOMAIN o, m[p] = "pool"
  PROVE  LET r == Counted(q, p, q[p].refs + 1)
         IN  Sound(Append(m, "buffer"), o, r) /\ Sound(Append(m, "buffer"), With(o, n, p), r)
PROOF
<1> DEFINE r == Counted(q, p, q[p].refs + 1)
           a == Append(m, "buffer")
<1>0. n \notin DOMAIN o /\ IsFiniteSet(DOMAIN o)
  BY ObjectsFinite
<1>1. /\ a \in Seq(Kinds) /\ Len(a) = n /\ Len(m) \in Nat
      /\ n \in DOMAIN a /\ a[n] = "buffer"
      /\ \A i \in DOMAIN m : i \in DOMAIN a /\ a[i] = m[i]
  BY DEF Sound, Kinds
<1>2. 0..Len(m) \subseteq 0..n
  BY <1>1
<1>3. /\ DOMAIN With(o, n, p) = {n} \cup DOMAIN o
      /\ With(o, n, p)[n] = p
      /\ \A i \in DOMAIN o : With(o, n, p)[i] = o[i] /\ i # n
  BY <1>0 DEF With
<1>4. o[p] = p /\ p # 0 /\ p \in DOMAIN q /\ p \in 0..Len(m)
  BY DEF Sound
<1>5. q[p] = [refs |-> q[p].refs, fd |-> q[p].fd] /\ q[p].refs \in Nat
  BY <1>4 DEF Sound
<1>6. /\ DOMAIN r = DOMAIN q
      /\ r[p] = [refs |-> q[p].refs + 1, fd |-> q[p].fd]
      /\ \A i \in DOMAIN q : i # p => r[i] = q[i]
  BY <1>4, <1>5, Counting
<1> HIDE DEF r, a
<1>7. \A i \in DOMAIN r : r[i] = [refs |-> r[i].refs, fd |-> r[i].fd] /\ r[i].refs \in Nat
  BY <1>5, <1>6 DEF Sound
<1>8. ASSUME NEW i \in DOMAIN r
      PROVE  /\ Cardinality(Users(o, i)) <= r[i].refs
             /\ Cardinality(Users(With(o, n, p), i)) <= r[i].refs
  <2>1. Cardinality(Users(o, i)) <= q[i].refs /\ q[i].refs \in Nat
    BY <1>6 DEF Sound
  <2>2. Cardinality(Users(o, i)) \in Nat
    BY ObjectsFinite
  <2>3. Cardinality(Users(With(o, n, p), i))
          = IF p = i THEN Cardinality(Users(o, i)) + 1 ELSE Cardinality(Users(o, i))
    BY <1>0, OneMore
  <2>4. r[i].refs = IF p = i THEN q[i].refs + 1 ELSE q[i].refs
    BY <1>6
  <2> QED
    BY <2>1, <2>2, <2>3, <2>4
<1>9. \A id \in DOMAIN o : /\ o[id] \in 0..n
                           /\ o[id] # 0 => o[id] \in DOMAIN r
                           /\ a[id] \in {"pool", "buffer"} => o[id] # 0
                           /\ a[id] = "pool" => o[id] = id
  BY <1>1, <1>2, <1>6 DEF Sound
<1>10. \A id \in DOMAIN With(o, n, p) :
        /\ With(o, n, p)[id] \in 0..n
        /\ With(o, n, p)[id] # 0 => With(o, n, p)[id] \in DOMAIN r
        /\ a[id] \in {"pool", "buffer"} => With(o, n, p)[id] # 0
        /\ a[id] = "pool" => With(o, n, p)[id] = id
  BY <1>1, <1>2, <1>3, <1>4, <1>6, <1>9
<1>11. DOMAIN o \subseteq DOMAIN a /\ DOMAIN With(o, n, p) \subseteq DOMAIN a
  BY <1>1, <1>3 DEF Sound
<1>12. 0 \notin DOMAIN r
  BY <1>6 DEF Sound
<1>13. Sound(a, o, r)
  BY <1>1, <1>7, <1>8, <1>9, <1>11, <1>12 DEF Sound
<1>14. Sound(a, With(o, n, p), r)
  BY <1>1, <1>7, <1>8, <1>10, <1>11, <1>12 DEF Sound
<1> QED
  BY <1>13, <1>14 DEF r, a

(* A pool's last reference goes, and the pool with it, or one of several.  *)
Dropped(q, p) == [i \in DOMAIN q \ {p} |-> q[i]]
Released(q, p) == IF q[p].refs = 1 THEN Dropped(q, p) ELSE Counted(q, p, q[p].refs - 1)

LEMMA UserGone ==
  ASSUME NEW o, IsFiniteSet(DOMAIN o), NEW id \in DOMAIN o, o[id] # 0, NEW p, p # 0
  PROVE  Cardinality(Users([o EXCEPT ![id] = 0], p))
           = IF o[id] = p THEN Cardinality(Users(o, p)) - 1 ELSE Cardinality(Users(o, p))
PROOF
<1>1. Users([o EXCEPT ![id] = 0], p)
        = IF o[id] = p THEN Users(o, p) \ {id} ELSE Users(o, p)
  BY DEF Users
<1>2. Users(o, p) \subseteq DOMAIN o
  BY DEF Users
<1>3. IsFiniteSet(Users(o, p))
  BY <1>2, FS_Subset
<1>4. o[id] = p => id \in Users(o, p)
  BY DEF Users
<1>5. o[id] = p => Cardinality(Users(o, p) \ {id}) = Cardinality(Users(o, p)) - 1
  BY <1>3, <1>4, FS_RemoveElement
<1> QED
  BY <1>1, <1>5

LEMMA NoneUses ==
  ASSUME NEW o, IsFiniteSet(DOMAIN o), NEW p, Cardinality(Users(o, p)) = 0
  PROVE  \A i \in DOMAIN o : o[i] # p
PROOF
<1>1. Users(o, p) \subseteq DOMAIN o
  BY DEF Users
<1>2. IsFiniteSet(Users(o, p))
  BY <1>1, FS_Subset
<1>3. Users(o, p) = {}
  BY <1>2, FS_EmptySet
<1> QED
  BY <1>3 DEF Users

LEMMA Destroyed ==
  ASSUME NEW m, NEW o, NEW q, Sound(m, o, q), NEW id \in DOMAIN o,
         m[id] \in {"pool", "buffer"}
  PROVE  Sound([m EXCEPT ![id] = "gone"], [o EXCEPT ![id] = 0], Released(q, o[id]))
PROOF
<1> DEFINE a == [m EXCEPT ![id] = "gone"]
           b == [o EXCEPT ![id] = 0]
           p == o[id]
           r == Released(q, p)
<1>1. Len(m) \in Nat /\ m \in Seq(Kinds) /\ DOMAIN o \subseteq DOMAIN m /\ id \in DOMAIN m
  BY DEF Sound
<1>2. /\ a \in Seq(Kinds) /\ Len(a) = Len(m) /\ DOMAIN a = DOMAIN m
      /\ a[id] = "gone" /\ \A i \in DOMAIN m : i # id => a[i] = m[i]
  BY <1>1 DEF Kinds
<1>3. DOMAIN b = DOMAIN o /\ b[id] = 0 /\ \A i \in DOMAIN o : i # id => b[i] = o[i]
  OBVIOUS
<1>4. p # 0 /\ p \in DOMAIN q
  BY DEF Sound
<1>5. q[p] = [refs |-> q[p].refs, fd |-> q[p].fd] /\ q[p].refs \in Nat
  BY <1>4 DEF Sound
<1>6. IsFiniteSet(DOMAIN o) /\ \A i : Cardinality(Users(o, i)) \in Nat
  BY ObjectsFinite
<1>7. \A i : i # 0 => Cardinality(Users(b, i))
                        = IF p = i THEN Cardinality(Users(o, i)) - 1 ELSE Cardinality(Users(o, i))
  BY <1>4, <1>6, UserGone
<1>8. Cardinality(Users(o, p)) <= q[p].refs /\ Cardinality(Users(b, p)) \in Nat
  <2>1. Users(b, p) \subseteq DOMAIN o
    BY <1>3 DEF Users
  <2>2. IsFiniteSet(Users(b, p))
    BY <1>6, <2>1, FS_Subset
  <2> QED
    BY <1>4, <2>2, FS_CardinalityType DEF Sound
<1>9. Cardinality(Users(b, p)) <= q[p].refs - 1
  <2> HIDE DEF b, p
  <2>1. Cardinality(Users(b, p)) = Cardinality(Users(o, p)) - 1
    BY <1>4, <1>7
  <2>2. Cardinality(Users(o, p)) \in Nat
    BY <1>6
  <2> QED
    BY <1>5, <1>8, <2>1, <2>2
<1>10. /\ DOMAIN r \subseteq DOMAIN q
       /\ \A i \in DOMAIN q : i # p => i \in DOMAIN r /\ r[i] = q[i]
       /\ p \in DOMAIN r => r[p] = [refs |-> q[p].refs - 1, fd |-> q[p].fd] /\ q[p].refs # 1
       /\ p \notin DOMAIN r => q[p].refs = 1
  <2>1. CASE q[p].refs = 1
    BY <1>4, <2>1 DEF Released, Dropped
  <2>2. CASE q[p].refs # 1
    <3>1. r = Counted(q, p, q[p].refs - 1)
      BY <2>2 DEF Released
    <3>2. /\ DOMAIN r = DOMAIN q
          /\ r[p] = [refs |-> q[p].refs - 1, fd |-> q[p].fd]
          /\ \A i \in DOMAIN q : i # p => r[i] = q[i]
      BY <1>4, <1>5, <3>1, Counting
    <3> QED
      BY <1>4, <2>2, <3>2
  <2> QED
    BY <2>1, <2>2
<1> HIDE DEF a, b, r, p
<1>11. p \notin DOMAIN r => \A i \in DOMAIN o : b[i] # p
  <2>1. SUFFICES ASSUME p \notin DOMAIN r PROVE \A i \in DOMAIN o : b[i] # p
    OBVIOUS
  <2>2. q[p].refs = 1
    BY <1>10, <2>1
  <2>3. Cardinality(Users(b, p)) = 0
    BY <1>8, <1>9, <2>2
  <2>4. IsFiniteSet(DOMAIN b)
    BY <1>3, <1>6
  <2>5. \A i \in DOMAIN b : b[i] # p
    BY <2>3, <2>4, NoneUses
  <2> QED
    BY <1>3, <2>5
<1>12. \A i \in DOMAIN b :
         /\ b[i] \in 0..Len(a)
         /\ b[i] # 0 => b[i] \in DOMAIN r
         /\ a[i] \in {"pool", "buffer"} => b[i] # 0
         /\ a[i] = "pool" => b[i] = i
  <2>1. SUFFICES ASSUME NEW i \in DOMAIN b
        PROVE /\ b[i] \in 0..Len(a)
              /\ b[i] # 0 => b[i] \in DOMAIN r
              /\ a[i] \in {"pool", "buffer"} => b[i] # 0
              /\ a[i] = "pool" => b[i] = i
    OBVIOUS
  <2>2. CASE i = id
    BY <1>1, <1>2, <1>3, <2>2
  <2>3. CASE i # id
    <3>1. b[i] = o[i] /\ a[i] = m[i] /\ i \in DOMAIN o
      BY <1>1, <1>2, <1>3, <2>1, <2>3
    <3>2. b[i] # p \/ p \in DOMAIN r
      BY <1>11, <3>1
    <3> QED
      BY <1>2, <1>10, <3>1, <3>2 DEF Sound
  <2> QED
    BY <2>2, <2>3
<1>13. 0 \notin DOMAIN r
  BY <1>10 DEF Sound
<1>14. ASSUME NEW i \in DOMAIN r
       PROVE  /\ r[i] = [refs |-> r[i].refs, fd |-> r[i].fd] /\ r[i].refs \in Nat
              /\ Cardinality(Users(b, i)) <= r[i].refs
  <2>1. CASE i = p
    <3>1. r[i] = [refs |-> q[p].refs - 1, fd |-> q[p].fd]
      BY <1>10, <2>1
    <3>2. q[p].refs - 1 \in Nat
      BY <1>5, <1>8, <1>9
    <3> QED
      BY <1>9, <2>1, <3>1, <3>2
  <2>2. CASE i # p
    <3>1. i \in DOMAIN q /\ r[i] = q[i] /\ i # 0
      BY <1>10, <1>13, <2>2
    <3>2. Cardinality(Users(b, i)) = Cardinality(Users(o, i))
      BY <1>7, <2>2, <3>1
    <3> QED
      BY <3>1, <3>2 DEF Sound
  <2> QED
    BY <2>1, <2>2
<1>15. Sound(a, b, r)
  BY <1>1, <1>2, <1>3, <1>12, <1>13, <1>14 DEF Sound
<1> QED
  BY <1>15 DEF a, b, r, p

(* Only c's objects change.                                                *)
LEMMA Elsewhere ==
  ASSUME Pools, NEW c \in Clients,
         DOMAIN mine' = Clients, DOMAIN objs' = Clients, DOMAIN pools' = Clients,
         \A d \in Clients : d # c => /\ mine'[d] = mine[d] /\ objs'[d] = objs[d]
                                    /\ pools'[d] = pools[d],
         Sound(mine'[c], objs'[c], pools'[c])
  PROVE  Pools'
BY DEF Pools, Sound

LEMMA SamePools ==
  ASSUME Pools, UNCHANGED memory
  PROVE  Pools'
BY DEF Pools, memory

LEMMA NothingSound ==
  ASSUME NEW m, NEW o, NEW q, Sound(m, o, q), NEW r, DOMAIN r \subseteq DOMAIN q,
         \A p \in DOMAIN r : r[p] = q[p]
  PROVE  /\ Sound(<< >>, << >>, r)
         /\ Sound(<<"display">>, [id \in {DISPLAY} |-> 0], r)
PROOF
<1>1. \A p : Users(<< >>, p) = {}
  BY DEF Users
<1>2. \A p \in DOMAIN r : p # 0
  BY DEF Sound
<1>3. \A p \in DOMAIN r : Users([id \in {DISPLAY} |-> 0], p) = {}
  BY <1>2 DEF Users
<1>4. \A p \in DOMAIN r : /\ r[p] = [refs |-> r[p].refs, fd |-> r[p].fd]
                         /\ r[p].refs \in Nat /\ 0 <= r[p].refs
  BY DEF Sound
<1>5. << >> \in Seq(Kinds) /\ <<"display">> \in Seq(Kinds)
  BY DEF Kinds
<1>6. Sound(<< >>, << >>, r)
  <2>1. DOMAIN << >> = {}
    OBVIOUS
  <2>2. \A p : Cardinality(Users(<< >>, p)) = 0
    BY <1>1, FS_EmptySet
  <2> QED
    BY <1>2, <1>4, <1>5, <2>1, <2>2 DEF Sound
<1>7. /\ DOMAIN [id \in {DISPLAY} |-> 0] \subseteq DOMAIN <<"display">>
      /\ \A id \in {DISPLAY} : /\ <<"display">>[id] = "display"
                              /\ 0 \in 0..Len(<<"display">>)
  BY DEF DISPLAY
<1>8. Sound(<<"display">>, [id \in {DISPLAY} |-> 0], r)
  BY <1>2, <1>3, <1>4, <1>5, <1>7, FS_EmptySet DEF Sound
<1> QED
  BY <1>6, <1>8

LEMMA AcceptPools ==
  ASSUME Pools, Accept
  PROVE  Pools'
PROOF
<1>1. CASE UNCHANGED memory
  BY <1>1, SamePools
<1>2. CASE \E c \in Clients :
             /\ mine' = [mine EXCEPT ![c] = <<"display">>]
             /\ objs' = [objs EXCEPT ![c] = [id \in {DISPLAY} |-> 0]]
             /\ UNCHANGED pools
  <2>1. PICK c \in Clients :
             /\ mine' = [mine EXCEPT ![c] = <<"display">>]
             /\ objs' = [objs EXCEPT ![c] = [id \in {DISPLAY} |-> 0]]
             /\ UNCHANGED pools
    BY <1>2
  <2>2. Sound(<<"display">>, [id \in {DISPLAY} |-> 0], pools[c])
    BY NothingSound DEF Pools
  <2> QED
    BY <2>1, <2>2, Elsewhere DEF Pools
<1> QED
  BY <1>1, <1>2 DEF Accept

LEMMA RemovePools ==
  ASSUME Pools, NEW c \in Clients, Remove(c)
  PROVE  Pools'
PROOF
<1> DEFINE r == [p \in DOMAIN pools[c] \ PoolObjects(c) |-> pools[c][p]]
<1>1. /\ pools' = [pools EXCEPT ![c] = r]
      /\ objs' = [objs EXCEPT ![c] = << >>]
      /\ mine' = [mine EXCEPT ![c] = << >>]
  BY DEF Remove
<1>2. DOMAIN r \subseteq DOMAIN pools[c] /\ \A p \in DOMAIN r : r[p] = pools[c][p]
  OBVIOUS
<1> HIDE DEF r
<1>3. Sound(<< >>, << >>, r)
  BY <1>2, NothingSound DEF Pools
<1> QED
  BY <1>1, <1>3, Elsewhere DEF Pools

LEMMA RequestPools ==
  ASSUME Pools, NEW c \in Clients, Request(c)
  PROVE  Pools'
PROOF
<1> DEFINE m == mine[c]
           o == objs[c]
           q == pools[c]
           n == Len(mine[c]) + 1
<1>1. /\ Sound(m, o, q) /\ n = Len(m) + 1
      /\ DOMAIN mine = Clients /\ DOMAIN objs = Clients /\ DOMAIN pools = Clients
  BY DEF Pools
<1>2. ASSUME NEW k, Makes(c, k)
      PROVE  /\ DOMAIN mine' = Clients /\ mine'[c] = Append(m, k)
             /\ \A d \in Clients : d # c => mine'[d] = mine[d]
  BY <1>1, <1>2 DEF Makes
<1>3. ASSUME NEW x, AddObject(c, x)
      PROVE  /\ DOMAIN objs' = Clients /\ objs'[c] \in {o, With(o, n, x)}
             /\ \A d \in Clients : d # c => objs'[d] = objs[d]
  BY <1>1, <1>3 DEF AddObject, NewId
<1>4. CASE MakePlain(c) \/ MakeAnswered(c)
  <2>1. PICK k \in {"shm", "callback"} : Makes(c, k)
    BY <1>4 DEF MakePlain, MakeAnswered
  <2>2. AddObject(c, 0) /\ UNCHANGED pools
    BY <1>4 DEF MakePlain, MakeAnswered
  <2>3. k \in Kinds \ {"pool", "buffer"} /\ k \in Kinds
    BY DEF Kinds
  <2>4. Sound(Append(m, k), o, q) /\ Sound(Append(m, k), With(o, n, 0), q)
    BY <1>1, <2>3, Grown, NewPlain
  <2>5. Sound(mine'[c], objs'[c], pools'[c])
    BY <1>2, <1>3, <2>1, <2>2, <2>4
  <2> QED
    BY <1>1, <1>2, <1>3, <2>1, <2>2, <2>5, Elsewhere
<1>5. CASE CreatePool(c)
  <2> DEFINE r == With(q, n, [refs |-> 1, fd |-> fds])
  <2>1. Makes(c, "pool") /\ AddObject(c, n) /\ pools' = [pools EXCEPT ![c] = r]
    BY <1>5 DEF CreatePool, NewId
  <2>2. Sound(Append(m, "pool"), o, r) /\ Sound(Append(m, "pool"), With(o, n, n), r)
    BY <1>1, NewPool
  <2> HIDE DEF r
  <2>3. Sound(mine'[c], objs'[c], pools'[c])
    BY <1>1, <1>2, <1>3, <2>1, <2>2
  <2> QED
    BY <1>1, <1>2, <1>3, <2>1, <2>3, Elsewhere
<1>6. CASE CreatePoolFails(c)
  <2>1. Makes(c, "pool") /\ UNCHANGED <<objs, pools>>
    BY <1>6 DEF CreatePoolFails
  <2>2. Sound(Append(m, "pool"), o, q)
    BY <1>1, Grown DEF Kinds
  <2> QED
    BY <1>1, <1>2, <2>1, <2>2, Elsewhere
<1>7. CASE CreateBuffer(c)
  <2>1. PICK p \in DOMAIN m : Has(c, p, "pool") /\ Hold(c, p) /\ AddObject(c, p)
    BY <1>7 DEF CreateBuffer
  <2>2. Makes(c, "buffer")
    BY <1>7 DEF CreateBuffer
  <2>3. p \in DOMAIN o /\ m[p] = "pool"
    BY <2>1 DEF Has, Owns
  <2> DEFINE r == Counted(q, p, q[p].refs + 1)
  <2>4. /\ DOMAIN pools' = Clients /\ pools'[c] = r
        /\ \A d \in Clients : d # c => pools'[d] = pools[d]
    BY <1>1, <2>1 DEF Hold, Counted
  <2>5. Sound(Append(m, "buffer"), o, r) /\ Sound(Append(m, "buffer"), With(o, n, p), r)
    BY <1>1, <2>3, NewBuffer
  <2> HIDE DEF r
  <2>6. Sound(mine'[c], objs'[c], pools'[c])
    BY <1>2, <1>3, <2>1, <2>2, <2>4, <2>5
  <2> QED
    BY <1>2, <1>3, <2>1, <2>2, <2>4, <2>6, Elsewhere
<1>8. CASE Destroy(c)
  <2>1. PICK id \in DOMAIN m :
          /\ Has(c, id, "pool") \/ Has(c, id, "buffer")
          /\ Release(c, o[id])
          /\ objs' = [objs EXCEPT ![c][id] = 0]
          /\ mine' = [mine EXCEPT ![c][id] = "gone"]
    BY <1>8 DEF Destroy
  <2>2. id \in DOMAIN o /\ m[id] \in {"pool", "buffer"}
    BY <2>1 DEF Has, Owns
  <2>3. Sound([m EXCEPT ![id] = "gone"], [o EXCEPT ![id] = 0], Released(q, o[id]))
    BY <1>1, <2>2, Destroyed
  <2>4. /\ DOMAIN pools' = Clients /\ pools'[c] = Released(q, o[id])
        /\ \A d \in Clients : d # c => pools'[d] = pools[d]
    BY <1>1, <2>1 DEF Release, Released, Dropped, Counted
  <2>5. /\ DOMAIN mine' = Clients /\ DOMAIN objs' = Clients
        /\ mine'[c] = [m EXCEPT ![id] = "gone"] /\ objs'[c] = [o EXCEPT ![id] = 0]
        /\ \A d \in Clients : d # c => mine'[d] = mine[d] /\ objs'[d] = objs[d]
    BY <1>1, <2>1
  <2> QED
    BY <2>3, <2>4, <2>5, Elsewhere
<1>9. CASE Unknown(c)
  BY <1>9, SamePools DEF Unknown
<1> QED
  BY <1>4, <1>5, <1>6, <1>7, <1>8, <1>9 DEF Request

LEMMA NextPools ==
  ASSUME Pools, [Next]_vars
  PROVE  Pools'
PROOF
<1>1. CASE Accept
  BY <1>1, AcceptPools
<1>2. CASE EndRead \/ WriteFails \/ EndPoll \/ UNCHANGED vars
  BY <1>2, SamePools DEF EndRead, WriteFails, EndPoll, vars
<1>3. ASSUME NEW c \in Clients, Remove(c) \/ Skip(c) \/ Disconnect(c) \/ Read(c)
      PROVE  Pools'
  BY <1>3, RemovePools, SamePools DEF Skip, Disconnect, Read
<1>4. ASSUME NEW c \in Clients, Connect(c) \/ HangUp(c) \/ ReadEvents(c)
      PROVE  Pools'
  BY <1>4, SamePools DEF Connect, HangUp, ReadEvents
<1>5. ASSUME NEW c \in Clients, Request(c)
      PROVE  Pools'
  BY <1>5, RequestPools
<1> QED
  BY <1>1, <1>2, <1>3, <1>4, <1>5 DEF Next, Poll

(* An object the client can still name refers to a pool that is mapped: a  *)
(* pool's references are never fewer than the objects that use it.         *)
THEOREM PoolsOutlive == Spec => []PoolOutlivesBuffers
PROOF
<1>1. Init => Pools
  <2>1. Sound(<< >>, << >>, << >>)
    <3>1. << >> \in Seq(Kinds) /\ DOMAIN << >> = {}
      OBVIOUS
    <3> QED
      BY <3>1 DEF Sound
  <2> QED
    BY <2>1 DEF Init, Pools
<1>2. Pools => PoolOutlivesBuffers
  BY DEF Pools, Sound, PoolOutlivesBuffers
<1> QED
  BY <1>1, <1>2, NextPools, PTL DEF Spec
=============================================================================
