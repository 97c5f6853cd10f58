------------------------------ MODULE WlServer ------------------------------
(***************************************************************************)
(* Connections, descriptors and shared-memory pools of the Wayland server: *)
(* src/compositor/wl_server.c and protocols_cleanup_client.                *)
(*                                                                         *)
(* wl_server_poll runs on the compositor's thread: it accepts at most one  *)
(* connection and then visits the clients in the order of their list.  The *)
(* clients connect, send and hang up at any time.  recvmsg and accept      *)
(* return the lowest descriptor number that is free, as the kernel does;   *)
(* a number the server has closed may therefore come back as another file. *)
(*                                                                         *)
(* The sockets block and SIGPIPE keeps its default action: a reply waits   *)
(* while the client's buffer is full, and one to a connection that is down *)
(* ends the compositor.                                                    *)
(*                                                                         *)
(* Left out: surfaces and roles, which own no descriptor and no pool, and  *)
(* the descriptors of the rest of the program, none of which is opened     *)
(* while these are.  Each client connects once.                            *)
(***************************************************************************)
EXTENDS Integers, Sequences, FiniteSets

CONSTANTS
  Clients,      (* The programs that connect.                                *)
  MaxFd,        (* Descriptor numbers the kernel may give out (a bound).     *)
  MAX_OBJECTS,  (* Size of a client's object table (64).                     *)
  MaxId         (* Ids each client makes use of (a bound).                   *)

ASSUME ServerAssumption ==
  /\ IsFiniteSet(Clients)
  /\ MaxFd \in Nat /\ MaxFd > Cardinality(Clients)
  /\ MAX_OBJECTS \in Nat \ {0}
  /\ MaxId \in [Clients -> Nat]
  /\ Clients \cap {"free", "shm"} = {}

Numbers == 1..MaxFd
DISPLAY == 1            \* id of every client's wl_display

VARIABLES
  clients,      (* The list of clients, its head first.                      *)
  todo,         (* Those wl_server_poll still has to visit.                  *)
  pc,           (* "accept", "visit", "read" while in read_client; "write"   *)
                (* or "error" while a reply or an error waits in write();    *)
                (* "killed" once SIGPIPE has ended the compositor.           *)
  fd,           (* Descriptor of each client; 0 stands for -1.               *)
  fdtab,        (* What each number is: "free", "shm" or a client's socket.  *)
  fds,          (* Number of the descriptor that came with the batch, or 0.  *)
  sock,         (* Each client's connection.                                 *)
  mine,         (* Each client's own view of its objects: kinds by id.       *)
  objs,         (* Object table: implementation by id, 0 for NULL.           *)
  pools         (* Pools in memory, by client and id: references and fd.     *)

network == <<fd, fdtab, sock>>
memory == <<mine, objs, pools>>
vars == <<clients, todo, pc, fds, network, memory>>

Init ==
  /\ clients = << >> /\ todo = << >> /\ pc = "accept"
  /\ fd = [c \in Clients |-> 0]
  /\ fdtab = [n \in Numbers |-> "free"]
  /\ fds = 0
  /\ sock = [c \in Clients |-> "new"]
  /\ mine = [c \in Clients |-> << >>]
  /\ objs = [c \in Clients |-> << >>]
  /\ pools = [c \in Clients |-> << >>]

(***************************************************************************)
(* The clients                                                             *)
(***************************************************************************)
Connect(c) ==
  /\ sock[c] = "new"
  /\ sock' = [sock EXCEPT ![c] = "queued"]
  /\ UNCHANGED <<clients, todo, pc, fds, fd, fdtab, memory>>

HangUp(c) ==
  /\ sock[c] = "up"
  /\ sock' = [sock EXCEPT ![c] = "down"]
  /\ UNCHANGED <<clients, todo, pc, fds, fd, fdtab, memory>>

(* The number c has, as what it is at the moment.                          *)
Peer(c) == fdtab[fd[c]]

(* Client d reads what it was sent: a write that waited for room is done,  *)
(* and wl_post_error goes on to shut the connection down.  Nothing makes a *)
(* client read.                                                            *)
ReadEvents(d) ==
  /\ sock[d] = "up"
  /\ pc \in {"write", "error"} /\ Peer(Head(todo)) = d
  /\ sock' = IF pc = "error" THEN [sock EXCEPT ![d] = "down"] ELSE sock
  /\ pc' = "read"
  /\ UNCHANGED <<clients, todo, fds, fd, fdtab, memory>>

(***************************************************************************)
(* The kernel's descriptor table                                           *)
(***************************************************************************)
Lowest(n) == fdtab[n] = "free" /\ \A m \in 1..(n - 1) : fdtab[m] # "free"

(* close of every number in ns; a socket that has no number left is down.  *)
Close(ns) ==
  /\ fdtab' = [n \in Numbers |-> IF n \in ns THEN "free" ELSE fdtab[n]]
  /\ sock' = [c \in Clients |-> IF \E n \in ns \cap Numbers : fdtab[n] = c
                                THEN "down" ELSE sock[c]]

(***************************************************************************)
(* wl_server_poll                                                          *)
(***************************************************************************)

(* Faulty variant: a connection waits until every client has gone.         *)
AcceptWhenAlone ==
  /\ pc = "accept" /\ pc' = "visit"
  /\ \/ \E c \in Clients, n \in Numbers :
          /\ sock[c] = "queued" /\ Lowest(n) /\ clients = << >>
          /\ sock' = [sock EXCEPT ![c] = "up"]
          /\ fd' = [fd EXCEPT ![c] = n]
          /\ fdtab' = [fdtab EXCEPT ![n] = c]
          /\ mine' = [mine EXCEPT ![c] = <<"display">>]
          /\ objs' = [objs EXCEPT ![c] = [id \in {DISPLAY} |-> 0]]
          /\ clients' = <<c>>
          /\ UNCHANGED pools
     \/ clients # << >> /\ UNCHANGED <<clients, network, memory>>
     \/ /\ \A c \in Clients : sock[c] # "queued"
        /\ UNCHANGED <<clients, network, memory>>
  /\ todo' = clients'
  /\ UNCHANGED fds

(* accept_client, if a connection waits; the new client heads the list.    *)
Accept ==
  /\ pc = "accept" /\ pc' = "visit"
  /\ \/ \E c \in Clients, n \in Numbers :
          /\ sock[c] = "queued" /\ Lowest(n)
          /\ sock' = [sock EXCEPT ![c] = "up"]
          /\ fd' = [fd EXCEPT ![c] = n]
          /\ fdtab' = [fdtab EXCEPT ![n] = c]
          /\ mine' = [mine EXCEPT ![c] = <<"display">>]
          /\ objs' = [objs EXCEPT ![c] = [id \in {DISPLAY} |-> 0]]
          /\ clients' = <<c>> \o clients
          /\ UNCHANGED pools
     \/ /\ \A c \in Clients : sock[c] # "queued"
        /\ UNCHANGED <<clients, network, memory>>
  /\ todo' = clients'
  /\ UNCHANGED fds

Visiting(c) == pc = "visit" /\ todo # << >> /\ c = Head(todo)

(* The list without its ith node.                                          *)
Without(s, i) == [k \in 1..(Len(s) - 1) |-> s[IF k < i THEN k ELSE k + 1]]

(* protocols_cleanup_client, and the client leaves the list.  The pools    *)
(* that still have their object are freed, whatever refers to them.        *)
PoolObjects(c) == {id \in DOMAIN objs[c] : mine[c][id] = "pool"}
Remove(c) ==
  /\ Visiting(c) /\ fd[c] = 0
  /\ Close({pools[c][p].fd : p \in PoolObjects(c)})
  /\ pools' = [pools EXCEPT ![c] = [p \in DOMAIN pools[c] \ PoolObjects(c)
                                      |-> pools[c][p]]]
  /\ objs' = [objs EXCEPT ![c] = << >>]
  /\ mine' = [mine EXCEPT ![c] = << >>]
  /\ \E i \in DOMAIN clients :
       clients[i] = c /\ clients' = Without(clients, i)
  /\ todo' = Tail(todo)
  /\ UNCHANGED <<pc, fds, fd>>

(* Nothing to read.                                                        *)
Skip(c) ==
  /\ Visiting(c) /\ fd[c] # 0
  /\ \E d \in Clients : fdtab[fd[c]] = d /\ sock[d] = "up"
  /\ todo' = Tail(todo)
  /\ UNCHANGED <<clients, pc, fds, network, memory>>

(* read_client: recvmsg returns 0 from a connection that is down and fails *)
(* on a number that is not open, for which poll reports POLLNVAL.          *)
Disconnect(c) ==
  /\ Visiting(c) /\ fd[c] # 0
  /\ \/ fdtab[fd[c]] = "free"
     \/ \E d \in Clients : fdtab[fd[c]] = d /\ sock[d] = "down"
  /\ Close({fd[c]})
  /\ fd' = [fd EXCEPT ![c] = 0]
  /\ todo' = Tail(todo)
  /\ UNCHANGED <<clients, pc, fds, memory>>

(* read_client: recvmsg returns a batch of requests, with a descriptor or  *)
(* without.  If the number has become another client's socket the requests *)
(* are that client's, read against c's objects: any that c's objects allow *)
(* stand for them.                                                         *)
Read(c) ==
  /\ Visiting(c) /\ fd[c] # 0
  /\ fdtab[fd[c]] \in Clients
  /\ pc' = "read"
  /\ \/ UNCHANGED <<fdtab, fds>>
     \/ \E n \in Numbers : /\ Lowest(n)
                           /\ fdtab' = [fdtab EXCEPT ![n] = "shm"]
                           /\ fds' = n
  /\ UNCHANGED <<clients, todo, fd, sock, memory>>

(* Faulty variant: the batch's descriptor stays open.                      *)
EndReadKeeping ==
  /\ pc = "read" /\ pc' = "visit"
  /\ fds' = 0
  /\ todo' = Tail(todo)
  /\ UNCHANGED <<clients, network, memory>>

(* "Close unused FDs" closes all of them.                                  *)
EndRead ==
  /\ pc = "read" /\ pc' = "visit"
  /\ Close({fds})
  /\ fds' = 0
  /\ todo' = Tail(todo)
  /\ UNCHANGED <<clients, fd, memory>>

(* The client hung up while a reply waited.  write fails; whether SIGPIPE  *)
(* comes with it depends on what was written before, and on what the       *)
(* handler still writes.                                                   *)
WriteFails ==
  /\ pc \in {"write", "error"} /\ sock[Peer(Head(todo))] = "down"
  /\ pc' \in {"read", "killed"}
  /\ UNCHANGED <<clients, todo, fds, network, memory>>

EndPoll ==
  /\ pc = "visit" /\ todo = << >>
  /\ pc' = "accept"
  /\ UNCHANGED <<clients, todo, fds, network, memory>>

(***************************************************************************)
(* dispatch_message: one request of the batch                              *)
(***************************************************************************)
Reading(c) == pc = "read" /\ c = Head(todo)

(* The client may name object id, and the server finds it in its table.    *)
Owns(c, id, k) == id \in DOMAIN mine[c] /\ mine[c][id] = k
Has(c, id, k) == Owns(c, id, k) /\ id \in DOMAIN objs[c]

(* A table with an entry more.                                             *)
With(f, i, x) == [j \in {i} \cup DOMAIN f |-> IF j = i THEN x ELSE f[j]]

(* The client makes the next id an object of kind k; client_add_object     *)
(* gives it implementation impl unless the table is full.                  *)
NewId(c) == Len(mine[c]) + 1
Makes(c, k) ==
  Len(mine[c]) < MaxId[c] /\ mine' = [mine EXCEPT ![c] = Append(mine[c], k)]
AddObject(c, impl) ==
  objs' = IF Cardinality(DOMAIN objs[c]) >= MAX_OBJECTS THEN objs
          ELSE [objs EXCEPT ![c] = With(objs[c], NewId(c), impl)]

(* wl_send_event: nothing, if the number is closed or a file's; SIGPIPE,   *)
(* if that connection is down, by the client or by wl_post_error; else the *)
(* event is written, or the compositor waits for room.                     *)
Send(c, waiting) ==
  IF Peer(c) \notin Clients THEN pc' = pc
  ELSE IF sock[Peer(c)] = "down" THEN pc' = "killed"
  ELSE pc' \in {pc, waiting}

(* "Unknown object": wl_post_error writes and shuts the connection down;   *)
(* the batch goes on.                                                      *)
Unknown(c) ==
  /\ Reading(c)
  /\ \E id \in DOMAIN mine[c] \ DOMAIN objs[c] :
       mine[c][id] \in {"shm", "pool", "buffer"}
  /\ Send(c, "error")
  /\ sock' = [d \in Clients |-> IF d = Peer(c) /\ pc' = "read" THEN "down" ELSE sock[d]]
  /\ UNCHANGED <<clients, todo, fds, fd, fdtab, memory>>

(* bind and the other requests that make an object without implementation  *)
(* and answer nothing.  "callback" stands for every kind but wl_shm.       *)
MakePlain(c) ==
  /\ Reading(c)
  /\ \E k \in {"shm", "callback"} : Makes(c, k)
  /\ AddObject(c, 0)
  /\ UNCHANGED <<clients, todo, pc, fds, network, pools>>

(* sync, get_registry, frame and the others that answer with an event.     *)
MakeAnswered(c) ==
  /\ Reading(c)
  /\ Makes(c, "callback")
  /\ AddObject(c, 0)
  /\ Send(c, "write")
  /\ UNCHANGED <<clients, todo, fds, network, pools>>

(* handle_shm_create_pool takes the batch's first descriptor each time.    *)
CreatePool(c) ==
  /\ Reading(c)
  /\ \E s \in DOMAIN mine[c] : Has(c, s, "shm")
  /\ fds # 0 /\ fdtab[fds] = "shm"
  /\ Makes(c, "pool")
  /\ AddObject(c, NewId(c))
  /\ pools' = [pools EXCEPT ![c] = With(pools[c], NewId(c), [refs |-> 1, fd |-> fds])]
  /\ UNCHANGED <<clients, todo, pc, fds, network>>

(* mmap fails, or there is no descriptor: the client's id stays unknown.   *)
CreatePoolFails(c) ==
  /\ Reading(c)
  /\ \E s \in DOMAIN mine[c] : Has(c, s, "shm")
  /\ Makes(c, "pool")
  /\ Close({fds})
  /\ UNCHANGED <<clients, todo, pc, fds, fd, objs, pools>>

(* Faulty variant: the buffer does not hold its pool.                      *)
HoldNothing(c, p) == pools' = pools
Hold(c, p) == pools' = [pools EXCEPT ![c][p].refs = pools[c][p].refs + 1]

CreateBuffer(c) ==
  /\ Reading(c)
  /\ \E p \in DOMAIN mine[c] :
       /\ Has(c, p, "pool")
       /\ Hold(c, p)
       /\ AddObject(c, p)
  /\ Makes(c, "buffer")
  /\ UNCHANGED <<clients, todo, pc, fds, network>>

(* A reference to pool p goes; with the last one the pool is unmapped and  *)
(* its descriptor, as far as the server knows, closed.                     *)
Release(c, p) ==
  IF pools[c][p].refs = 1
  THEN /\ pools' = [pools EXCEPT ![c] = [q \in DOMAIN pools[c] \ {p} |-> pools[c][q]]]
       /\ Close({pools[c][p].fd})
  ELSE /\ pools' = [pools EXCEPT ![c][p].refs = pools[c][p].refs - 1]
       /\ UNCHANGED <<fdtab, sock>>

(* wl_shm_pool.destroy and wl_buffer.destroy: the table's entry stays.     *)
Destroy(c) ==
  /\ Reading(c)
  /\ \E id \in DOMAIN mine[c] :
       /\ Has(c, id, "pool") \/ Has(c, id, "buffer")
       /\ Release(c, objs[c][id])
       /\ objs' = [objs EXCEPT ![c][id] = 0]
       /\ mine' = [mine EXCEPT ![c][id] = "gone"]
  /\ UNCHANGED <<clients, todo, pc, fds, fd>>

Request(c) == MakePlain(c) \/ MakeAnswered(c) \/ CreatePool(c) \/ CreatePoolFails(c)
                \/ CreateBuffer(c) \/ Destroy(c) \/ Unknown(c)
Poll == Accept \/ EndRead \/ WriteFails \/ EndPoll
          \/ \E c \in Clients : Remove(c) \/ Skip(c) \/ Disconnect(c) \/ Read(c)
Next == Poll \/ \E c \in Clients : Connect(c) \/ HangUp(c) \/ ReadEvents(c) \/ Request(c)

(* The compositor keeps polling while it lives and no write() waits; a     *)
(* batch is at most 4096 bytes long.                                       *)
Spec == Init /\ [][Next]_vars /\ WF_vars(Poll)

(***************************************************************************)
(* Properties                                                              *)
(***************************************************************************)
(* In whatever order pools and buffers are made and destroyed, objects     *)
(* the client can still name refer to pools that are mapped: the memory    *)
(* goes with the last of them.                                             *)
PoolOutlivesBuffers ==
  \A c \in Clients : \A id \in DOMAIN objs[c] :
    objs[c][id] # 0 => objs[c][id] \in DOMAIN pools[c]

(* Between reads an open descriptor is the connection of a client that the *)
(* next polls will visit: neither a batch nor a client leaves one behind.  *)
NoDescriptorLeft ==
  pc \in {"accept", "visit"} =>
    \A n \in Numbers : fdtab[n] # "free" =>
      \E i \in DOMAIN clients : fd[clients[i]] = n

(* A connection that waits is accepted, whatever the clients before it     *)
(* send, unless the compositor waits for a client that never reads its     *)
(* events, or is ended by SIGPIPE: nothing else keeps it out.              *)
ConnectionsAccepted ==
  \A c \in Clients : \/ <>[](pc \in {"write", "error"})
                     \/ sock[c] = "queued" ~> sock[c] # "queued" \/ pc = "killed"
=============================================================================
