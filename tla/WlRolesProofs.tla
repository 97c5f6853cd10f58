--------------------------- MODULE WlRolesProofs ---------------------------
(***************************************************************************)
(* A client that keeps the rules is safe from the server and from the      *)
(* other clients, for any number of clients, blocks and table entries.     *)
(*                                                                         *)
(* None of the four properties is inductive: whether a request touches     *)
(* freed memory depends on what every pointer it may follow points at.     *)
(* The invariant says it for each client that kept the rules: what the     *)
(* object table names is live (NamesLive), what is live points at what is  *)
(* live (PointsLive), a role and its xdg_surface go together (RolesPaired),*)
(* of a client that has gone little is left (Left), and none that is going *)
(* or has gone still has an xdg_surface (Ended).  Of every client,         *)
(* whatever it does, it says that the global list has its live             *)
(* xdg_surfaces (Listed) and that no xdg_surface's role is another kind of *)
(* block (RolesPointed): the two keep a client that went astray from       *)
(* taking another's blocks with it.                                        *)
(***************************************************************************)
EXTENDS WlRoles, TLAPS

Blk == [kind : Kinds, live : BOOLEAN, named : BOOLEAN,
        ref : Nat, role : Nat, buffer : Nat]

IsLive(h, p, kind) == p \in DOMAIN h /\ h[p].live /\ h[p].kind = kind

(* Every pointer to a role is one, of any client.                          *)
RolesPointed(h) ==
  \A x \in DOMAIN h :
    h[x].role # 0 => h[x].role \in DOMAIN h /\ h[h[x].role].kind \in Roles

(* A role and its xdg_surface point at each other, and go together.        *)
RolesPaired(h) ==
  /\ \A t \in DOMAIN h : h[t].kind \in Roles =>
       /\ h[t].ref \in DOMAIN h /\ h[h[t].ref].kind = "xdg_surface"
       /\ h[h[t].ref].role = t
       /\ h[t].live = h[h[t].ref].live
  /\ \A x \in DOMAIN h : h[x].role # 0 => h[h[x].role].ref = x

(* What the table names is live, but for the roles.                        *)
NamesLive(h, o) == \A p \in o : h[p].live \/ h[p].kind \in Roles

(* While the client is there, its table has what it was given, and what is *)
(* live points at what is live.                                            *)
PointsLive(h, o) == \A p \in DOMAIN h : h[p].live =>
  /\ h[p].named => p \in o
  /\ h[p].kind = "xdg_surface" => IsLive(h, h[p].ref, "surface")
  /\ h[p].buffer # 0 => IsLive(h, h[p].buffer, "buffer")

(* And when it has gone, what it was given is freed.                       *)
Left(h, o) ==
  /\ o = {}
  /\ \A p \in DOMAIN h :
       h[p].live /\ h[p].named => h[p].kind \in Roles \cup {"xdg_surface"}

Tidy(h, o, gone) ==
  /\ RolesPaired(h) /\ NamesLive(h, o)
  /\ ~gone => PointsLive(h, o)
  /\ gone => Left(h, o)

HeapOK(h, o) == h \in Seq(Blk) /\ o \subseteq DOMAIN h /\ RolesPointed(h)

(* The list has the live xdg_surfaces of every client.                     *)
Listed(h, c, list) ==
  \A p : <<c, p>> \in list <=> IsLive(h, p, "xdg_surface")

Gone(c) == sock[c] = "gone"

Mine(c) ==
  /\ HeapOK(heap[c], objects[c])
  /\ Listed(heap[c], c, xdg_surfaces)
  /\ c \notin astray => Tidy(heap[c], objects[c], Gone(c))

Shape ==
  /\ DOMAIN sock = Clients /\ DOMAIN heap = Clients /\ DOMAIN objects = Clients
  /\ xdg_surfaces \subseteq Clients \X Nat

(* The last rule, kept: no entry of the list outlives its client.          *)
Ended == \A c \in Clients \ astray : sock[c] # "up" => NoneListed(c)

IInv == Shape /\ NoFault /\ Ended /\ \A c \in Clients : Mine(c)

LEMMA LiveBoolean ==
  ASSUME NEW b \in Blk PROVE b.live \in BOOLEAN
BY DEF Blk

(* Freed changes no field but live.                                        *)
LEMMA FreedBlocks ==
  ASSUME NEW h \in Seq(Blk), NEW ps
  PROVE  /\ Freed(h, ps) \in Seq(Blk) /\ DOMAIN Freed(h, ps) = DOMAIN h
         /\ \A p \in DOMAIN h :
              /\ h[p] \in Blk /\ h[p].live \in BOOLEAN
              /\ Freed(h, ps)[p] \in Blk
              /\ Freed(h, ps)[p].live = (h[p].live /\ p \notin ps)
              /\ Freed(h, ps)[p].kind = h[p].kind
              /\ Freed(h, ps)[p].named = h[p].named
              /\ Freed(h, ps)[p].ref = h[p].ref
              /\ Freed(h, ps)[p].role = h[p].role
              /\ Freed(h, ps)[p].buffer = h[p].buffer
PROOF
<1>1. DOMAIN h = 1..Len(h) /\ Len(h) \in Nat /\ \A p \in DOMAIN h : h[p] \in Blk
  OBVIOUS
<1>2. ASSUME NEW b \in Blk
      PROVE  /\ [b EXCEPT !.live = FALSE] \in Blk
             /\ [b EXCEPT !.live = FALSE].live = FALSE
             /\ [b EXCEPT !.live = FALSE].kind = b.kind
             /\ [b EXCEPT !.live = FALSE].named = b.named
             /\ [b EXCEPT !.live = FALSE].ref = b.ref
             /\ [b EXCEPT !.live = FALSE].role = b.role
             /\ [b EXCEPT !.live = FALSE].buffer = b.buffer
             /\ b.live \in BOOLEAN
  BY DEF Blk
<1>3. ASSUME NEW p \in DOMAIN h
      PROVE  /\ h[p].live \in BOOLEAN /\ Freed(h, ps)[p] \in Blk
             /\ Freed(h, ps)[p].live = (h[p].live /\ p \notin ps)
             /\ Freed(h, ps)[p].kind = h[p].kind
             /\ Freed(h, ps)[p].named = h[p].named
             /\ Freed(h, ps)[p].ref = h[p].ref
             /\ Freed(h, ps)[p].role = h[p].role
             /\ Freed(h, ps)[p].buffer = h[p].buffer
  <2>1. h[p] \in Blk
    BY <1>1
  <2>2. CASE p \in ps
    <3>1. Freed(h, ps)[p] = [h[p] EXCEPT !.live = FALSE]
      BY <2>2 DEF Freed
    <3> QED
      BY <1>2, <2>1, <2>2, <3>1
  <2>3. CASE p \notin ps
    <3>1. Freed(h, ps)[p] = h[p]
      BY <2>3 DEF Freed
    <3> QED
      BY <1>2, <2>1, <2>3, <3>1
  <2> QED
    BY <2>2, <2>3
<1>4. DOMAIN Freed(h, ps) = DOMAIN h
  BY DEF Freed
<1>5. Freed(h, ps) = [p \in DOMAIN h |-> Freed(h, ps)[p]]
  BY DEF Freed
<1>6. Freed(h, ps) \in [1..Len(h) -> Blk]
  BY <1>1, <1>3, <1>5
<1>7. Freed(h, ps) \in Seq(Blk)
  BY <1>1, <1>6
<1> QED
  BY <1>1, <1>3, <1>4, <1>7

(* Blocks that are freed with what points at them leave the heap tidy.     *)
LEMMA FreedTidy ==
  ASSUME NEW h \in Seq(Blk), NEW o \in SUBSET DOMAIN h, NEW gone \in BOOLEAN,
         Tidy(h, o, gone), RolesPointed(h),
         NEW ps, NEW o2 \in SUBSET o, NEW gone2 \in BOOLEAN, gone => gone2,
         \A t \in DOMAIN h : h[t].kind \in Roles => (t \in ps <=> h[t].ref \in ps),
         \A p \in o2 : p \in ps => h[p].kind \in Roles,
         ~gone2 =>
           \A p \in DOMAIN h : h[p].live /\ p \notin ps =>
             /\ p \in o => p \in o2
             /\ h[p].kind = "xdg_surface" => h[p].ref \notin ps
             /\ h[p].buffer # 0 => h[p].buffer \notin ps,
         gone2 => /\ o2 = {}
                  /\ \A p \in DOMAIN h : h[p].live /\ p \notin ps /\ h[p].named
                       => h[p].kind \in Roles \cup {"xdg_surface"}
  PROVE  Tidy(Freed(h, ps), o2, gone2)
PROOF
<1> DEFINE f == Freed(h, ps)
<1>1. /\ DOMAIN f = DOMAIN h
      /\ \A p \in DOMAIN h :
           /\ h[p].live \in BOOLEAN
           /\ f[p].live = (h[p].live /\ p \notin ps)
           /\ f[p].kind = h[p].kind
           /\ f[p].named = h[p].named
           /\ f[p].ref = h[p].ref
           /\ f[p].role = h[p].role
           /\ f[p].buffer = h[p].buffer
  BY FreedBlocks
<1> HIDE DEF f
<1>2. RolesPaired(f)
  BY <1>1 DEF RolesPaired, Tidy, RolesPointed
<1>3. NamesLive(f, o2)
  BY <1>1 DEF NamesLive, Tidy
<1>4. ASSUME ~gone2 PROVE PointsLive(f, o2)
  BY <1>1, <1>4 DEF PointsLive, Tidy, IsLive
<1>5. ASSUME gone2 PROVE Left(f, o2)
  BY <1>1, <1>5 DEF Left
<1> QED
  BY <1>2, <1>3, <1>4, <1>5 DEF Tidy, f

LEMMA FreedShape ==
  ASSUME NEW h, NEW o, HeapOK(h, o), NEW ps, NEW o2 \in SUBSET o
  PROVE  HeapOK(Freed(h, ps), o2)
PROOF
<1>1. /\ Freed(h, ps) \in Seq(Blk) /\ DOMAIN Freed(h, ps) = DOMAIN h
      /\ \A p \in DOMAIN h : /\ Freed(h, ps)[p].kind = h[p].kind
                             /\ Freed(h, ps)[p].role = h[p].role
  BY FreedBlocks DEF HeapOK
<1> QED
  BY <1>1 DEF HeapOK, RolesPointed

(***************************************************************************)
(* New blocks                                                              *)
(***************************************************************************)
LEMMA Appended ==
  ASSUME NEW h \in Seq(Blk), NEW b \in Blk
  PROVE  /\ Append(h, b) \in Seq(Blk)
         /\ DOMAIN Append(h, b) = DOMAIN h \cup {Len(h) + 1}
         /\ Len(h) + 1 \notin DOMAIN h /\ Len(h) + 1 \in Nat /\ Len(h) + 1 # 0
         /\ Append(h, b)[Len(h) + 1] = b
         /\ \A p \in DOMAIN h : Append(h, b)[p] = h[p]
OBVIOUS

(* The block that New adds.                                                *)
Given(c, block) == [block EXCEPT !.named = Room(c)]

LEMMA GivenBlock ==
  ASSUME NEW c, NEW kind \in Kinds, NEW ref \in Nat
  PROVE  /\ Given(c, Block(kind, ref)) \in Blk
         /\ Given(c, Block(kind, ref)).kind = kind
         /\ Given(c, Block(kind, ref)).ref = ref
         /\ Given(c, Block(kind, ref)).live
         /\ Given(c, Block(kind, ref)).role = 0
         /\ Given(c, Block(kind, ref)).buffer = 0
         /\ Given(c, Block(kind, ref)).named = Room(c)
PROOF
<1>1. Room(c) \in BOOLEAN
  BY DEF Room
<1> HIDE DEF Kinds
<1> QED
  BY <1>1 DEF Given, Block, Blk

(* A block that is no role.                                                *)
LEMMA NewTidy ==
  ASSUME NEW h \in Seq(Blk), NEW o \in SUBSET DOMAIN h,
         Tidy(h, o, FALSE), RolesPointed(h),
         NEW b \in Blk, b.kind \notin Roles, b.role = 0, b.buffer = 0, b.live,
         b.kind = "xdg_surface" => IsLive(h, b.ref, "surface"),
         NEW o2, o2 = IF b.named THEN o \cup {Len(h) + 1} ELSE o
  PROVE  Tidy(Append(h, b), o2, FALSE)
PROOF
<1> DEFINE q == Len(h) + 1
           g == Append(h, b)
<1>1. /\ DOMAIN g = DOMAIN h \cup {q} /\ q \notin DOMAIN h
      /\ g[q] = b /\ \A p \in DOMAIN h : g[p] = h[p]
  BY Appended
<1>2. o2 = IF b.named THEN o \cup {q} ELSE o
  OBVIOUS
<1> HIDE DEF g, q
<1>3. RolesPaired(g)
  BY <1>1 DEF RolesPaired, Tidy, RolesPointed
<1>4. NamesLive(g, o2)
  BY <1>1, <1>2 DEF NamesLive, Tidy
<1>5. PointsLive(g, o2)
  BY <1>1, <1>2 DEF PointsLive, Tidy, IsLive
<1> QED
  BY <1>3, <1>4, <1>5 DEF Tidy, g

LEMMA NewShape ==
  ASSUME NEW h, NEW o, HeapOK(h, o), NEW b \in Blk, b.role = 0,
         NEW o2, o2 = IF b.named THEN o \cup {Len(h) + 1} ELSE o
  PROVE  HeapOK(Append(h, b), o2)
PROOF
<1> DEFINE q == Len(h) + 1
           g == Append(h, b)
<1>1. /\ g \in Seq(Blk)
      /\ DOMAIN g = DOMAIN h \cup {q} /\ q \notin DOMAIN h
      /\ g[q] = b /\ \A p \in DOMAIN h : g[p] = h[p]
  BY Appended DEF HeapOK
<1>2. o2 = IF b.named THEN o \cup {q} ELSE o
  OBVIOUS
<1> HIDE DEF g, q
<1>3. g \in Seq(Blk) /\ o2 \subseteq DOMAIN g /\ RolesPointed(g)
  BY <1>1, <1>2 DEF HeapOK, RolesPointed
<1> QED
  BY <1>3 DEF HeapOK, g

(* An xdg_surface is given a role.                                         *)
Roled(h, x) == [h EXCEPT ![x].role = Len(h) + 1]

LEMMA RoledBlocks ==
  ASSUME NEW h \in Seq(Blk), NEW x \in DOMAIN h
  PROVE  /\ Roled(h, x) \in Seq(Blk) /\ DOMAIN Roled(h, x) = DOMAIN h
         /\ Len(Roled(h, x)) = Len(h)
         /\ \A p \in DOMAIN h :
              /\ Roled(h, x)[p].kind = h[p].kind /\ Roled(h, x)[p].live = h[p].live
              /\ Roled(h, x)[p].ref = h[p].ref /\ Roled(h, x)[p].named = h[p].named
              /\ Roled(h, x)[p].buffer = h[p].buffer
              /\ Roled(h, x)[p].role = IF p = x THEN Len(h) + 1 ELSE h[p].role
PROOF
<1>1. h[x] \in Blk /\ Len(h) + 1 \in Nat
  OBVIOUS
<1> DEFINE b == [h[x] EXCEPT !.role = Len(h) + 1]
<1>2. /\ b \in Blk /\ b.kind = h[x].kind /\ b.live = h[x].live /\ b.ref = h[x].ref
      /\ b.named = h[x].named /\ b.buffer = h[x].buffer /\ b.role = Len(h) + 1
  BY <1>1 DEF Blk
<1>3. Roled(h, x) = [h EXCEPT ![x] = b]
  BY DEF Roled
<1> HIDE DEF b
<1>4. [h EXCEPT ![x] = b] \in Seq(Blk) /\ Len([h EXCEPT ![x] = b]) = Len(h)
  BY <1>2
<1> QED
  BY <1>2, <1>3, <1>4

LEMMA RoleShape ==
  ASSUME NEW h, NEW o, HeapOK(h, o), NEW x \in DOMAIN h,
         NEW b \in Blk, b.role = 0, b.kind \in Roles, b.ref = x,
         NEW o2, o2 = IF b.named THEN o \cup {Len(h) + 1} ELSE o
  PROVE  HeapOK(Append(Roled(h, x), b), o2)
PROOF
<1> DEFINE q == Len(h) + 1
           r == Roled(h, x)
           g == Append(r, b)
<1>1. /\ r \in Seq(Blk) /\ DOMAIN r = DOMAIN h /\ Len(r) = Len(h)
      /\ \A p \in DOMAIN h : /\ r[p].kind = h[p].kind
                              /\ r[p].role = IF p = x THEN q ELSE h[p].role
  BY RoledBlocks DEF HeapOK
<1> HIDE DEF r
<1>2. /\ g \in Seq(Blk)
      /\ DOMAIN g = DOMAIN r \cup {q} /\ q \notin DOMAIN r
      /\ g[q] = b /\ \A p \in DOMAIN r : g[p] = r[p]
  <2>1. /\ g \in Seq(Blk)
        /\ DOMAIN g = DOMAIN r \cup {Len(r) + 1} /\ Len(r) + 1 \notin DOMAIN r
        /\ Len(r) + 1 # 0 /\ g[Len(r) + 1] = b /\ \A p \in DOMAIN r : g[p] = r[p]
    BY <1>1, Appended
  <2> QED
    BY <1>1, <2>1
<1>3. o2 = IF b.named THEN o \cup {q} ELSE o
  OBVIOUS
<1> HIDE DEF g, q
<1>4. g \in Seq(Blk) /\ o2 \subseteq DOMAIN g /\ RolesPointed(g)
  BY <1>1, <1>2, <1>3 DEF HeapOK, RolesPointed
<1> QED
  BY <1>4 DEF HeapOK, g, r

LEMMA RoleTidy ==
  ASSUME NEW h \in Seq(Blk), NEW o \in SUBSET DOMAIN h,
         Tidy(h, o, FALSE), RolesPointed(h),
         NEW x \in DOMAIN h, h[x].kind = "xdg_surface", h[x].live, h[x].role = 0,
         NEW b \in Blk, b.kind \in Roles, b.role = 0, b.buffer = 0, b.live, b.ref = x,
         NEW o2, o2 = IF b.named THEN o \cup {Len(h) + 1} ELSE o
  PROVE  Tidy(Append(Roled(h, x), b), o2, FALSE)
PROOF
<1> DEFINE q == Len(h) + 1
           r == Roled(h, x)
           g == Append(r, b)
<1>1. /\ r \in Seq(Blk) /\ DOMAIN r = DOMAIN h /\ Len(r) = Len(h)
      /\ \A p \in DOMAIN h : /\ r[p].kind = h[p].kind /\ r[p].live = h[p].live
                              /\ r[p].ref = h[p].ref /\ r[p].named = h[p].named
                              /\ r[p].buffer = h[p].buffer
                              /\ r[p].role = IF p = x THEN q ELSE h[p].role
  BY RoledBlocks
<1> HIDE DEF r
<1>2. /\ DOMAIN g = DOMAIN r \cup {q} /\ q \notin DOMAIN r /\ q # 0
      /\ g[q] = b /\ \A p \in DOMAIN r : g[p] = r[p]
  <2>1. /\ g \in Seq(Blk)
        /\ DOMAIN g = DOMAIN r \cup {Len(r) + 1} /\ Len(r) + 1 \notin DOMAIN r
        /\ Len(r) + 1 # 0 /\ g[Len(r) + 1] = b /\ \A p \in DOMAIN r : g[p] = r[p]
    BY <1>1, Appended
  <2> QED
    BY <1>1, <2>1
<1>3. o2 = IF b.named THEN o \cup {q} ELSE o
  OBVIOUS
<1>4. b.live \in BOOLEAN /\ \A p \in DOMAIN h : h[p].live \in BOOLEAN
  <2>1. \A p \in DOMAIN h : h[p] \in Blk
    OBVIOUS
  <2> QED
    BY <2>1, LiveBoolean
<1> HIDE DEF g, q
<1>5. RolesPaired(g)
  <2>1. RolesPaired(h)
    BY DEF Tidy
  <2>2. ASSUME NEW t \in DOMAIN g, g[t].kind \in Roles
        PROVE  /\ g[t].ref \in DOMAIN g /\ g[g[t].ref].kind = "xdg_surface"
               /\ g[g[t].ref].role = t
               /\ g[t].live = g[g[t].ref].live
    <3>1. CASE t = q
      <4>1. b.live = TRUE /\ h[x].live = TRUE
        BY <1>4
      <4>2. g[t] = b /\ g[x] = r[x] /\ x \in DOMAIN g
        BY <1>1, <1>2, <3>1
      <4>3. r[x].kind = "xdg_surface" /\ r[x].role = q /\ r[x].live = TRUE
        BY <1>1, <4>1
      <4> QED
        BY <3>1, <4>1, <4>2, <4>3
    <3>2. CASE t \in DOMAIN h
      <4>1. h[t].kind \in Roles
        BY <1>1, <1>2, <2>2, <3>2
      <4>2. /\ h[t].ref \in DOMAIN h /\ h[h[t].ref].kind = "xdg_surface"
            /\ h[h[t].ref].role = t /\ h[t].live = h[h[t].ref].live
        BY <2>1, <3>2, <4>1 DEF RolesPaired
      <4>3. h[t].ref # x
        BY <1>1, <1>2, <3>2, <4>2
      <4> QED
        BY <1>1, <1>2, <3>2, <4>2, <4>3
    <3> QED
      BY <1>1, <1>2, <3>1, <3>2
  <2>3. ASSUME NEW y \in DOMAIN g, g[y].role # 0 PROVE g[g[y].role].ref = y
    <3>1. CASE y = x
      BY <1>1, <1>2, <3>1
    <3>2. CASE y # x /\ y # q
      <4>1. y \in DOMAIN h /\ h[y].role # 0 /\ h[y].role = g[y].role
        BY <1>1, <1>2, <2>3, <3>2
      <4>2. h[y].role \in DOMAIN h /\ h[h[y].role].ref = y
        BY <2>1, <4>1 DEF RolesPaired, RolesPointed
      <4> QED
        BY <1>1, <1>2, <4>1, <4>2
    <3> QED
      BY <1>1, <1>2, <2>3, <3>1, <3>2
  <2> QED
    BY <2>2, <2>3 DEF RolesPaired
<1>6. NamesLive(g, o2)
  BY <1>1, <1>2, <1>3 DEF NamesLive, Tidy
<1>7. PointsLive(g, o2)
  BY <1>1, <1>2, <1>3 DEF PointsLive, Tidy, IsLive, Roles
<1> QED
  BY <1>5, <1>6, <1>7 DEF Tidy, g, r

(***************************************************************************)
(* The steps                                                               *)
(***************************************************************************)

(* What a request of client c leaves alone, and how it must end.           *)
OnlyFor(c) ==
  /\ DOMAIN heap' = Clients /\ DOMAIN objects' = Clients /\ DOMAIN sock' = Clients
  /\ xdg_surfaces' \subseteq Clients \X Nat
  /\ astray \subseteq astray'
  /\ \A d \in Clients \ {c} :
       /\ heap'[d] = heap[d] /\ objects'[d] = objects[d] /\ sock'[d] = sock[d]
       /\ \A p : <<d, p>> \in xdg_surfaces' <=> <<d, p>> \in xdg_surfaces

Handled(c) == OnlyFor(c) /\ Mine(c)' /\ (c \in astray' \/ server' = "ok")

LEMMA MineKept ==
  ASSUME NEW d, Mine(d), heap'[d] = heap[d], objects'[d] = objects[d],
         sock'[d] = sock[d], astray \subseteq astray',
         \A p : <<d, p>> \in xdg_surfaces' <=> <<d, p>> \in xdg_surfaces
  PROVE  Mine(d)'
BY DEF Mine, Listed, Gone

LEMMA HandledKeeps ==
  ASSUME IInv, NEW c \in Clients, Handled(c), sock[c] = "up", UNCHANGED sock
  PROVE  IInv'
PROOF
<1>1. Shape' /\ NoFault'
  BY DEF Handled, OnlyFor, Shape, NoFault
<1>2. ASSUME NEW d \in Clients PROVE Mine(d)'
  <2>1. CASE d = c
    BY <2>1 DEF Handled
  <2>2. CASE d # c
    BY <2>2, MineKept DEF Handled, OnlyFor, IInv
  <2> QED
    BY <2>1, <2>2
<1>3. Ended'
  <2>1. ASSUME NEW d \in Clients \ astray', sock'[d] # "up" PROVE NoneListed(d)'
    <3>1. d # c /\ d \notin astray /\ sock[d] # "up" /\ heap'[d] = heap[d]
      BY <2>1 DEF Handled, OnlyFor
    <3> QED
      BY <3>1 DEF IInv, Ended, NoneListed, Live, Blocks
  <2> QED
    BY <2>1 DEF Ended
<1> QED
  BY <1>1, <1>2, <1>3 DEF IInv

LEMMA MustAstray ==
  ASSUME NEW c, NEW rule \in BOOLEAN, Must(c, rule)
  PROVE  /\ astray \subseteq astray'
         /\ c \notin astray' => rule /\ c \notin astray
BY DEF Must

(* What the table of a client that keeps the rules names.                  *)
LEMMA NamedBlock ==
  ASSUME NEW c, Mine(c), NEW kinds, NEW p \in Named(c, kinds)
  PROVE  /\ p \in objects[c] /\ p \in DOMAIN heap[c] /\ heap[c][p].kind \in kinds
         /\ p \in Nat /\ p # 0
         /\ c \notin astray /\ heap[c][p].kind \notin Roles => p \in Live(c)
         /\ c \notin astray /\ heap[c][p].kind \in Roles /\ Based(c, p)
              => p \in Live(c)
PROOF
<1>1. p \in objects[c] /\ p \in DOMAIN heap[c] /\ heap[c][p].kind \in kinds
  BY DEF Named, Mine, HeapOK
<1>2. heap[c] \in Seq(Blk)
  BY DEF Mine, HeapOK
<1>3. p \in Nat /\ p # 0
  BY <1>1, <1>2
<1>4. ASSUME c \notin astray, heap[c][p].kind \notin Roles PROVE p \in Live(c)
  BY <1>1, <1>4 DEF Mine, Tidy, NamesLive, Live, Blocks
<1>5. ASSUME c \notin astray, heap[c][p].kind \in Roles, Based(c, p)
      PROVE  p \in Live(c)
  BY <1>1, <1>5 DEF Mine, Tidy, RolesPaired, Live, Blocks, Based
<1> QED
  BY <1>1, <1>3, <1>4, <1>5

(* A request that changes no block.                                        *)
LEMMA StillHandled ==
  ASSUME IInv, NEW c \in Clients, UNCHANGED <<heap, objects, xdg_surfaces, sock>>,
         astray \subseteq astray', c \in astray' \/ server' = "ok"
  PROVE  Handled(c)
PROOF
<1>1. Mine(c)
  BY DEF IInv
<1>2. OnlyFor(c)
  BY DEF OnlyFor, IInv, Shape
<1>3. Mine(c)'
  BY <1>1, MineKept
<1> QED
  BY <1>2, <1>3 DEF Handled

LEMMA NewHandled ==
  ASSUME IInv, NEW c \in Clients, ~Gone(c), UNCHANGED sock, astray \subseteq astray',
         NEW kind \in Kinds \ Roles, NEW ref \in Nat,
         New(c, heap[c], Block(kind, ref)),
         xdg_surfaces' = xdg_surfaces \cup
           (IF kind = "xdg_surface" THEN {<<c, Len(heap[c]) + 1>>} ELSE {}),
         kind = "xdg_surface" /\ c \notin astray' => IsLive(heap[c], ref, "surface"),
         c \in astray' \/ server' = "ok"
  PROVE  Handled(c)
PROOF
<1> DEFINE h == heap[c]
           q == Len(h) + 1
           b == Given(c, Block(kind, ref))
           o2 == IF b.named THEN objects[c] \cup {q} ELSE objects[c]
<1>1. Mine(c) /\ Shape
  BY DEF IInv
<1>2. h \in Seq(Blk) /\ HeapOK(h, objects[c]) /\ Listed(h, c, xdg_surfaces)
  BY <1>1 DEF Mine, HeapOK
<1>3. /\ b \in Blk /\ b.kind = kind /\ b.ref = ref /\ b.live /\ b.role = 0
      /\ b.buffer = 0 /\ b.named = Room(c)
  BY GivenBlock
<1>4. /\ heap' = [heap EXCEPT ![c] = Append(h, b)]
      /\ objects' = [objects EXCEPT ![c] = IF Room(c) THEN @ \cup {q} ELSE @]
  BY DEF New, Given
<1> HIDE DEF b
<1>5. heap'[c] = Append(h, b) /\ objects'[c] = o2
  BY <1>1, <1>3, <1>4 DEF Shape
<1>6. OnlyFor(c)
  <2>1. q \in Nat
    BY <1>2
  <2> QED
    BY <1>1, <1>4, <2>1 DEF OnlyFor, Shape
<1>7. HeapOK(heap'[c], objects'[c])
  <2>1. HeapOK(Append(h, b), o2)
    BY <1>2, <1>3, NewShape
  <2> QED
    BY <1>5, <2>1
<1>8. Listed(heap'[c], c, xdg_surfaces')
  <2>1. /\ DOMAIN Append(h, b) = DOMAIN h \cup {q} /\ q \notin DOMAIN h
        /\ Append(h, b)[q] = b /\ \A p \in DOMAIN h : Append(h, b)[p] = h[p]
    BY <1>2, <1>3, Appended
  <2>2. \A p : IsLive(Append(h, b), p, "xdg_surface") <=>
               IsLive(h, p, "xdg_surface") \/ (p = q /\ kind = "xdg_surface")
    BY <1>3, <2>1 DEF IsLive
  <2>3. \A p : <<c, p>> \in xdg_surfaces' <=>
               <<c, p>> \in xdg_surfaces \/ (p = q /\ kind = "xdg_surface")
    OBVIOUS
  <2> QED
    BY <1>2, <1>5, <2>2, <2>3 DEF Listed
<1>9. ASSUME c \notin astray' PROVE Tidy(heap'[c], objects'[c], Gone(c)')
  <2>1. Tidy(h, objects[c], FALSE)
    BY <1>1, <1>9 DEF Mine, Tidy
  <2>2. Tidy(Append(h, b), o2, FALSE)
    BY <1>2, <1>3, <1>9, <2>1, NewTidy DEF HeapOK
  <2>3. Gone(c)' = FALSE
    BY DEF Gone
  <2> QED
    BY <1>5, <2>2, <2>3
<1> QED
  BY <1>6, <1>7, <1>8, <1>9 DEF Handled, Mine

LEMMA RoleHandled ==
  ASSUME IInv, NEW c \in Clients, ~Gone(c), UNCHANGED <<sock, xdg_surfaces>>,
         NEW kind \in Roles, NEW x \in Named(c, {"xdg_surface"}),
         New(c, Roled(heap[c], x), Block(kind, x)),
         Must(c, heap[c][x].role = 0),
         c \in astray' \/ server' = "ok"
  PROVE  Handled(c)
PROOF
<1> DEFINE h == heap[c]
           r == Roled(h, x)
           q == Len(h) + 1
           b == Given(c, Block(kind, x))
           o2 == IF b.named THEN objects[c] \cup {q} ELSE objects[c]
<1>1. Mine(c) /\ Shape
  BY DEF IInv
<1>2. h \in Seq(Blk) /\ HeapOK(h, objects[c]) /\ Listed(h, c, xdg_surfaces)
  BY <1>1 DEF Mine, HeapOK
<1>3. /\ x \in DOMAIN h /\ h[x].kind = "xdg_surface" /\ x \in Nat
      /\ x \in Live(c) \/ c \in astray
  BY <1>1, NamedBlock DEF Roles
<1>4. /\ b \in Blk /\ b.kind = kind /\ b.ref = x /\ b.live /\ b.role = 0
      /\ b.buffer = 0 /\ b.named = Room(c)
  <2>1. kind \in Kinds
    BY DEF Kinds, Roles
  <2> QED
    BY <1>3, <2>1, GivenBlock
<1>5. /\ r \in Seq(Blk) /\ DOMAIN r = DOMAIN h /\ Len(r) = Len(h)
      /\ \A p \in DOMAIN h : r[p].kind = h[p].kind /\ r[p].live = h[p].live
  BY <1>2, <1>3, RoledBlocks
<1>6. /\ heap' = [heap EXCEPT ![c] = Append(r, b)]
      /\ objects' = [objects EXCEPT ![c] = IF Room(c) THEN @ \cup {q} ELSE @]
  BY <1>5 DEF New, Given
<1> HIDE DEF b, r
<1>7. heap'[c] = Append(r, b) /\ objects'[c] = o2
  BY <1>1, <1>4, <1>6 DEF Shape
<1>8. astray \subseteq astray' /\ (c \notin astray' => h[x].role = 0 /\ c \notin astray)
  BY MustAstray
<1>9. OnlyFor(c)
  BY <1>1, <1>6, <1>8 DEF OnlyFor, Shape
<1>10. HeapOK(heap'[c], objects'[c])
  <2>1. HeapOK(Append(Roled(h, x), b), o2)
    BY <1>2, <1>3, <1>4, RoleShape
  <2> QED
    BY <1>7, <2>1 DEF r
<1>11. Listed(heap'[c], c, xdg_surfaces')
  <2>1. /\ DOMAIN Append(r, b) = DOMAIN h \cup {q}
        /\ Append(r, b)[q] = b /\ \A p \in DOMAIN h : Append(r, b)[p] = r[p]
        /\ q \notin DOMAIN h
    <3>1. /\ DOMAIN Append(r, b) = DOMAIN r \cup {Len(r) + 1}
          /\ Append(r, b)[Len(r) + 1] = b /\ \A p \in DOMAIN r : Append(r, b)[p] = r[p]
          /\ Len(r) + 1 \notin DOMAIN r
      BY <1>4, <1>5, Appended
    <3> QED
      BY <1>5, <3>1
  <2>2. \A p : IsLive(Append(r, b), p, "xdg_surface") <=> IsLive(h, p, "xdg_surface")
    BY <1>4, <1>5, <2>1 DEF IsLive, Roles
  <2> QED
    BY <1>2, <1>7, <2>2 DEF Listed
<1>12. ASSUME c \notin astray' PROVE Tidy(heap'[c], objects'[c], Gone(c)')
  <2>1. Tidy(h, objects[c], FALSE)
    BY <1>1, <1>8, <1>12 DEF Mine, Tidy
  <2>2. h[x].live
    BY <1>3, <1>8, <1>12 DEF Live
  <2>3. Tidy(Append(Roled(h, x), b), o2, FALSE)
    BY <1>2, <1>3, <1>4, <1>8, <1>12, <2>1, <2>2, RoleTidy DEF HeapOK
  <2>4. Gone(c)' = FALSE
    BY DEF Gone
  <2> QED
    BY <1>7, <2>3, <2>4 DEF r
<1> QED
  BY <1>9, <1>10, <1>11, <1>12 DEF Handled, Mine

(* A block that nothing live points at is freed with its object.           *)
LEMMA FreeHandled ==
  ASSUME IInv, NEW c \in Clients, ~Gone(c), UNCHANGED <<sock, xdg_surfaces>>,
         NEW p \in objects[c], FreeObject(c, p, {}), heap[c][p].kind # "xdg_surface",
         astray \subseteq astray',
         c \notin astray' =>
           /\ heap[c][p].kind \notin Roles
           /\ \A q \in Live(c) : /\ heap[c][q].kind = "xdg_surface" => heap[c][q].ref # p
                                 /\ heap[c][q].buffer # 0 => heap[c][q].buffer # p,
         c \in astray' \/ server' = "ok"
  PROVE  Handled(c)
PROOF
<1> DEFINE h == heap[c]
           f == Freed(h, {p})
           o2 == objects[c] \ {p}
<1>1. Mine(c) /\ Shape
  BY DEF IInv
<1>2. /\ h \in Seq(Blk) /\ HeapOK(h, objects[c]) /\ Listed(h, c, xdg_surfaces)
      /\ p \in DOMAIN h
  BY <1>1 DEF Mine, HeapOK
<1>3. heap' = [heap EXCEPT ![c] = f] /\ objects' = [objects EXCEPT ![c] = o2]
  <2>1. {p} \cup {} = {p}
    OBVIOUS
  <2> QED
    BY <2>1 DEF FreeObject
<1>4. /\ f \in Seq(Blk) /\ DOMAIN f = DOMAIN h
      /\ \A q \in DOMAIN h : /\ f[q].kind = h[q].kind
                              /\ f[q].live = (h[q].live /\ q \notin {p})
  BY <1>2, FreedBlocks
<1>5. HeapOK(f, o2)
  BY <1>2, FreedShape
<1> HIDE DEF f
<1>6. heap'[c] = f /\ objects'[c] = o2
  BY <1>1, <1>3 DEF Shape
<1>7. OnlyFor(c)
  BY <1>1, <1>3 DEF OnlyFor, Shape
<1>8. Listed(heap'[c], c, xdg_surfaces')
  <2>1. \A q : IsLive(f, q, "xdg_surface") <=> IsLive(h, q, "xdg_surface")
    BY <1>4 DEF IsLive
  <2> QED
    BY <1>2, <1>6, <2>1 DEF Listed
<1>9. ASSUME c \notin astray' PROVE Tidy(heap'[c], objects'[c], Gone(c)')
  <2>1. Tidy(h, objects[c], FALSE) /\ RolesPointed(h)
    BY <1>1, <1>9 DEF Mine, Tidy, HeapOK
  <2>2. \A t \in DOMAIN h : h[t].kind \in Roles => (t \in {p} <=> h[t].ref \in {p})
    BY <1>9, <2>1 DEF Tidy, RolesPaired
  <2>3. \A q \in DOMAIN h : h[q].live /\ q \notin {p} =>
             /\ q \in objects[c] => q \in o2
             /\ h[q].kind = "xdg_surface" => h[q].ref \notin {p}
             /\ h[q].buffer # 0 => h[q].buffer \notin {p}
    BY <1>9 DEF Live, Blocks
  <2>4. Tidy(Freed(h, {p}), o2, FALSE)
    <3>1. objects[c] \in SUBSET DOMAIN h /\ o2 \in SUBSET objects[c]
      BY <1>2 DEF HeapOK
    <3> HIDE DEF h, o2
    <3>2. \A q \in o2 : q \in {p} => h[q].kind \in Roles
      BY DEF o2
    <3> QED
      BY <1>2, <2>1, <2>2, <2>3, <3>1, <3>2, FreedTidy
  <2>5. Gone(c)' = FALSE
    BY DEF Gone
  <2> QED
    BY <1>6, <2>4, <2>5 DEF f
<1> QED
  BY <1>5, <1>6, <1>7, <1>8, <1>9 DEF Handled, Mine

(***************************************************************************)
(* The requests                                                            *)
(***************************************************************************)
LEMMA AttachHandled ==
  ASSUME IInv, NEW c \in Clients, ~Gone(c), server = "ok", UNCHANGED sock, Attach(c)
  PROVE  Handled(c)
PROOF
<1> DEFINE h == heap[c]
<1>1. PICK s \in Named(c, {"surface"}), b \in Named(c, {"buffer"}) \cup {0} :
        /\ heap' = [heap EXCEPT ![c][s].buffer = b]
        /\ Use(c, {s, b})
        /\ UNCHANGED <<objects, obj_count, xdg_surfaces, astray>>
  BY DEF Attach
<1>2. Mine(c) /\ Shape
  BY DEF IInv
<1>3. /\ h \in Seq(Blk) /\ HeapOK(h, objects[c]) /\ Listed(h, c, xdg_surfaces)
  BY <1>2 DEF Mine, HeapOK
<1>4. /\ s \in DOMAIN h /\ h[s].kind = "surface"
      /\ s \in Live(c) \/ c \in astray
  BY <1>2, NamedBlock DEF Roles
<1>5. b = 0 \/ (b \in DOMAIN h /\ h[b].kind = "buffer" /\ (b \in Live(c) \/ c \in astray))
  BY <1>2, NamedBlock DEF Roles
<1>6. b \in Nat
  BY <1>3, <1>5
<1> DEFINE v == [h[s] EXCEPT !.buffer = b]
           g == [h EXCEPT ![s] = v]
<1>7. /\ v \in Blk /\ v.kind = h[s].kind /\ v.live = h[s].live /\ v.ref = h[s].ref
      /\ v.named = h[s].named /\ v.role = h[s].role /\ v.buffer = b
  <2>1. h[s] \in Blk
    BY <1>3, <1>4
  <2> QED
    BY <1>6, <2>1 DEF Blk
<1>8. heap' = [heap EXCEPT ![c] = g]
  BY <1>1
<1> HIDE DEF v
<1>9. /\ g \in Seq(Blk) /\ DOMAIN g = DOMAIN h
      /\ \A p \in DOMAIN h :
           /\ g[p].kind = h[p].kind /\ g[p].live = h[p].live
           /\ g[p].ref = h[p].ref /\ g[p].named = h[p].named /\ g[p].role = h[p].role
           /\ g[p].buffer = IF p = s THEN b ELSE h[p].buffer
  BY <1>3, <1>4, <1>7
<1> HIDE DEF g
<1>10. heap'[c] = g /\ objects'[c] = objects[c]
  BY <1>1, <1>2, <1>8 DEF Shape
<1>11. OnlyFor(c)
  BY <1>1, <1>2, <1>8 DEF OnlyFor, Shape
<1>12. HeapOK(g, objects[c]) /\ Listed(g, c, xdg_surfaces)
  BY <1>3, <1>9 DEF HeapOK, RolesPointed, Listed, IsLive
<1>13. ASSUME c \notin astray PROVE Tidy(g, objects[c], FALSE)
  <2>1. Tidy(h, objects[c], FALSE)
    BY <1>2, <1>13 DEF Mine, Tidy
  <2>2. RolesPaired(g) /\ NamesLive(g, objects[c])
    BY <1>3, <1>9, <2>1 DEF Tidy, RolesPaired, NamesLive, HeapOK, RolesPointed
  <2>3. PointsLive(g, objects[c])
    BY <1>5, <1>9, <1>13, <2>1 DEF Tidy, PointsLive, IsLive, Live, Blocks
  <2> QED
    BY <2>2, <2>3 DEF Tidy
<1>14. c \in astray' \/ server' = "ok"
  BY <1>1, <1>4, <1>5 DEF Use
<1>15. Gone(c)' = FALSE
  BY DEF Gone
<1> QED
  BY <1>1, <1>10, <1>11, <1>12, <1>13, <1>14, <1>15 DEF Handled, Mine

LEMMA XdgSurfaceDestroyHandled ==
  ASSUME IInv, NEW c \in Clients, ~Gone(c), server = "ok", UNCHANGED sock,
         XdgSurfaceDestroy(c)
  PROVE  Handled(c)
PROOF
<1> DEFINE h == heap[c]
<1>1. PICK x \in Named(c, {"xdg_surface"}) :
        /\ FreeObject(c, x, RoleOf(c, x))
        /\ xdg_surfaces' = Unlinked(c, x)
        /\ Use(c, {x, h[x].ref} \cup RoleOf(c, x))
        /\ UNCHANGED astray
  BY DEF XdgSurfaceDestroy
<1> DEFINE ps == {x} \cup RoleOf(c, x)
           f == Freed(h, ps)
           o2 == objects[c] \ {x}
<1>2. Mine(c) /\ Shape
  BY DEF IInv
<1>3. h \in Seq(Blk) /\ HeapOK(h, objects[c]) /\ Listed(h, c, xdg_surfaces)
  BY <1>2 DEF Mine, HeapOK
<1>4. /\ x \in DOMAIN h /\ h[x].kind = "xdg_surface" /\ x \in objects[c]
      /\ x \in Live(c) \/ c \in astray
  BY <1>2, NamedBlock DEF Roles
<1>5. \A p \in ps : p = x \/ (p = h[x].role /\ p \in DOMAIN h /\ h[p].kind \in Roles)
  BY <1>3, <1>4 DEF RoleOf, HeapOK, RolesPointed
<1>6. heap' = [heap EXCEPT ![c] = f] /\ objects' = [objects EXCEPT ![c] = o2]
  BY <1>1 DEF FreeObject
<1>7. /\ f \in Seq(Blk) /\ DOMAIN f = DOMAIN h
      /\ \A q \in DOMAIN h : /\ f[q].kind = h[q].kind
                              /\ f[q].live = (h[q].live /\ q \notin ps)
  BY <1>3, FreedBlocks
<1>8. HeapOK(f, o2)
  BY <1>3, FreedShape
<1> HIDE DEF f
<1>9. heap'[c] = f /\ objects'[c] = o2
  BY <1>2, <1>6 DEF Shape
<1>10. OnlyFor(c)
  BY <1>1, <1>2, <1>6 DEF OnlyFor, Shape, Unlinked
<1>11. Listed(heap'[c], c, xdg_surfaces')
  <2>1. \A q : IsLive(f, q, "xdg_surface") <=> IsLive(h, q, "xdg_surface") /\ q # x
    BY <1>4, <1>5, <1>7 DEF IsLive, Roles
  <2>2. \A q : <<c, q>> \in xdg_surfaces' <=> <<c, q>> \in xdg_surfaces /\ q # x
    BY <1>1 DEF Unlinked
  <2> QED
    BY <1>3, <1>9, <2>1, <2>2 DEF Listed
<1>12. ASSUME c \notin astray
       PROVE  Tidy(f, o2, FALSE) /\ server' = "ok"
  <2>1. Tidy(h, objects[c], FALSE) /\ RolesPointed(h)
    BY <1>2, <1>12 DEF Mine, Tidy, HeapOK
  <2>2. \A t \in DOMAIN h : h[t].kind \in Roles => (t \in ps <=> h[t].ref \in ps)
    <3>1. 0 \notin DOMAIN h
      BY <1>3
    <3>2. ASSUME NEW t \in DOMAIN h, h[t].kind \in Roles
          PROVE  /\ t \in ps <=> t = h[x].role
                 /\ t = h[x].role <=> h[t].ref = x
                 /\ h[t].ref \in ps <=> h[t].ref = x
      <4>1. h[t].ref \in DOMAIN h /\ h[h[t].ref].kind = "xdg_surface" /\ h[h[t].ref].role = t
        BY <2>1, <3>2 DEF Tidy, RolesPaired
      <4>2. h[x].role # 0 => h[h[x].role].ref = x
        BY <1>4, <2>1 DEF Tidy, RolesPaired
      <4>3. t # x /\ t # 0
        BY <1>4, <3>1, <3>2 DEF Roles
      <4> QED
        BY <1>5, <4>1, <4>2, <4>3 DEF RoleOf, Roles
    <3> QED
      BY <3>2
  <2>3. \A q \in DOMAIN h : h[q].live /\ q \notin ps =>
             /\ q \in objects[c] => q \in o2
             /\ h[q].kind = "xdg_surface" => h[q].ref \notin ps
             /\ h[q].buffer # 0 => h[q].buffer \notin ps
    BY <1>4, <1>5, <2>1 DEF Tidy, PointsLive, IsLive, Roles
  <2>4. Tidy(Freed(h, ps), o2, FALSE)
    <3>1. objects[c] \in SUBSET DOMAIN h /\ o2 \in SUBSET objects[c]
      BY <1>3 DEF HeapOK
    <3>2. \A q \in o2 : q \in ps => h[q].kind \in Roles
      BY <1>5
    <3> HIDE DEF h, o2, ps
    <3> QED
      BY <1>3, <2>1, <2>2, <2>3, <3>1, <3>2, FreedTidy
  <2>5. x \in Live(c) /\ h[x].live
    BY <1>4, <1>12 DEF Live
  <2>6. h[x].ref \in Live(c)
    BY <1>4, <2>1, <2>5 DEF Tidy, PointsLive, IsLive, Live, Blocks
  <2>7. RoleOf(c, x) \subseteq Live(c)
    <3>1. ASSUME h[x].role # 0 PROVE h[x].role \in Live(c)
      <4>1. h[x].role \in DOMAIN h /\ h[h[x].role].kind \in Roles
        BY <1>4, <2>1, <3>1 DEF RolesPointed
      <4>2. h[h[x].role].ref = x /\ h[h[x].role].live = h[x].live
        BY <1>4, <2>1, <3>1, <4>1 DEF Tidy, RolesPaired
      <4> QED
        BY <2>5, <4>1, <4>2 DEF Live, Blocks
    <3> QED
      BY <3>1 DEF RoleOf
  <2> QED
    BY <1>1, <2>4, <2>5, <2>6, <2>7 DEF Use, f
<1>13. Gone(c)' = FALSE
  BY DEF Gone
<1> QED
  BY <1>1, <1>8, <1>9, <1>10, <1>11, <1>12, <1>13 DEF Handled, Mine

LEMMA WriteHandled ==
  ASSUME IInv, NEW c \in Clients, ~Gone(c), server = "ok", UNCHANGED sock,
         NEW kinds, Write(c, kinds)
  PROVE  Handled(c)
PROOF
<1>1. PICK p \in Named(c, kinds) :
        /\ Use(c, {p})
        /\ Must(c, heap[c][p].kind \in Roles => Based(c, p))
        /\ UNCHANGED <<heap, objects, obj_count, xdg_surfaces>>
  BY DEF Write
<1>2. /\ astray \subseteq astray'
      /\ c \notin astray' => /\ heap[c][p].kind \in Roles => Based(c, p)
                             /\ c \notin astray
  BY <1>1, MustAstray
<1>3. c \notin astray' => p \in Live(c)
  BY <1>2, NamedBlock DEF IInv
<1> QED
  BY <1>1, <1>2, <1>3, StillHandled DEF Use

(* The requests of surfaces and buffers.                                   *)
LEMMA SurfaceHandled ==
  ASSUME IInv, NEW c \in Clients, ~Gone(c), server = "ok", UNCHANGED sock,
         \/ CreateSurface(c) \/ SurfaceDestroy(c) \/ Attach(c) \/ Commit(c)
         \/ SurfaceFrame(c) \/ CreateBuffer(c) \/ BufferDestroy(c)
  PROVE  Handled(c)
PROOF
<1>1. Mine(c)
  BY DEF IInv
<1>2. {"surface", "buffer", "positioner", "xdg_surface", "decoration"}
        \subseteq Kinds \ Roles
  BY DEF Kinds, Roles
<1>3. CASE CreateSurface(c)
  BY <1>2, <1>3, NewHandled DEF CreateSurface
<1>4. CASE CreateBuffer(c)
  BY <1>2, <1>4, NewHandled DEF CreateBuffer
<1>5. CASE SurfaceDestroy(c)
  <2>1. PICK s \in Named(c, {"surface"}) :
          /\ FreeObject(c, s, {}) /\ Use(c, {s}) /\ Must(c, Bare(c, s))
          /\ UNCHANGED xdg_surfaces
    BY <1>5 DEF SurfaceDestroy
  <2>2. /\ s \in objects[c] /\ heap[c][s].kind = "surface"
        /\ c \notin astray => s \in Live(c)
    BY <1>1, NamedBlock DEF Roles
  <2>3. astray \subseteq astray' /\ (c \notin astray' => Bare(c, s) /\ c \notin astray)
    BY <2>1, MustAstray DEF Bare
  <2>4. c \in astray' \/ server' = "ok"
    BY <2>1, <2>2, <2>3 DEF Use
  <2>5. ASSUME c \notin astray', NEW q \in Live(c)
        PROVE  /\ heap[c][q].kind = "xdg_surface" => heap[c][q].ref # s
               /\ heap[c][q].buffer # 0 => heap[c][q].buffer # s
    <3>1. heap[c][q].buffer # 0 => heap[c][heap[c][q].buffer].kind = "buffer"
      BY <1>1, <2>3, <2>5 DEF Mine, Tidy, PointsLive, IsLive, Live, Blocks
    <3> QED
      BY <2>2, <2>3, <2>5, <3>1 DEF Bare
  <2> QED
    BY <2>1, <2>2, <2>3, <2>4, <2>5, FreeHandled DEF Roles
<1>6. CASE BufferDestroy(c)
  <2>1. PICK b \in Named(c, {"buffer"}) :
          /\ FreeObject(c, b, {}) /\ Use(c, {b}) /\ Must(c, Detached(c, b))
          /\ UNCHANGED xdg_surfaces
    BY <1>6 DEF BufferDestroy
  <2>2. /\ b \in objects[c] /\ heap[c][b].kind = "buffer"
        /\ c \notin astray => b \in Live(c)
    BY <1>1, NamedBlock DEF Roles
  <2>3. astray \subseteq astray' /\ (c \notin astray' => Detached(c, b) /\ c \notin astray)
    BY <2>1, MustAstray DEF Detached
  <2>4. c \in astray' \/ server' = "ok"
    BY <2>1, <2>2, <2>3 DEF Use
  <2>5. ASSUME c \notin astray', NEW q \in Live(c)
        PROVE  /\ heap[c][q].kind = "xdg_surface" => heap[c][q].ref # b
               /\ heap[c][q].buffer # 0 => heap[c][q].buffer # b
    <3>1. heap[c][q].kind = "xdg_surface" => heap[c][heap[c][q].ref].kind = "surface"
      BY <1>1, <2>3, <2>5 DEF Mine, Tidy, PointsLive, IsLive, Live, Blocks
    <3> QED
      BY <2>2, <2>3, <2>5, <3>1 DEF Detached
  <2> QED
    BY <2>1, <2>2, <2>3, <2>4, <2>5, FreeHandled DEF Roles
<1>7. CASE Attach(c)
  BY <1>7, AttachHandled
<1>8. CASE Commit(c)
  <2>1. PICK s \in Named(c, {"surface"}) :
          /\ Use(c, {s, heap[c][s].buffer})
          /\ UNCHANGED <<heap, objects, obj_count, xdg_surfaces, astray>>
    BY <1>8 DEF Commit
  <2>2. c \notin astray => s \in Live(c)
    BY <1>1, NamedBlock DEF Roles
  <2>3. c \notin astray => heap[c][s].buffer \in Live(c) \cup {0}
    BY <1>1, <2>2 DEF Mine, Tidy, PointsLive, IsLive, Live, Blocks
  <2>4. c \in astray' \/ server' = "ok"
    BY <2>1, <2>2, <2>3 DEF Use
  <2> QED
    BY <2>1, <2>4, StillHandled
<1>9. CASE SurfaceFrame(c)
  BY <1>9, StillHandled DEF SurfaceFrame
<1> QED
  BY <1>3, <1>4, <1>5, <1>6, <1>7, <1>8, <1>9

(* Positioners and decorations: nothing points at them.                    *)
LEMMA PlainFreed ==
  ASSUME IInv, NEW c \in Clients, ~Gone(c), server = "ok", UNCHANGED sock,
         NEW kind \in {"positioner", "decoration"}, NEW p \in Named(c, {kind}),
         FreeObject(c, p, {}), Use(c, {p}), UNCHANGED <<xdg_surfaces, astray>>
  PROVE  Handled(c)
PROOF
<1>1. Mine(c)
  BY DEF IInv
<1>2. /\ p \in objects[c] /\ heap[c][p].kind = kind
      /\ c \notin astray => p \in Live(c)
  BY <1>1, NamedBlock DEF Roles
<1>3. c \in astray' \/ server' = "ok"
  BY <1>2 DEF Use
<1>4. ASSUME c \notin astray', NEW q \in Live(c)
      PROVE  /\ heap[c][q].kind = "xdg_surface" => heap[c][q].ref # p
             /\ heap[c][q].buffer # 0 => heap[c][q].buffer # p
  <2>1. /\ heap[c][q].kind = "xdg_surface" => heap[c][heap[c][q].ref].kind = "surface"
        /\ heap[c][q].buffer # 0 => heap[c][heap[c][q].buffer].kind = "buffer"
    BY <1>1, <1>4 DEF Mine, Tidy, PointsLive, IsLive, Live, Blocks
  <2> QED
    BY <1>2, <1>4, <2>1
<1> QED
  BY <1>2, <1>3, <1>4, FreeHandled DEF Roles

(* GetRole, whatever the kind: the configure it sends reads what is live.  *)
LEMMA GetRoleHandled ==
  ASSUME IInv, NEW c \in Clients, ~Gone(c), server = "ok", UNCHANGED sock,
         NEW x \in Named(c, {"xdg_surface"}), NEW kind \in Roles, GetRole(c, x, kind)
  PROVE  Handled(c)
PROOF
<1>1. Mine(c)
  BY DEF IInv
<1>2. /\ New(c, Roled(heap[c], x), Block(kind, x)) /\ Use(c, {x, heap[c][x].ref})
      /\ Must(c, heap[c][x].role = 0) /\ UNCHANGED xdg_surfaces
  BY DEF GetRole, Configure, Roled
<1>3. heap[c][x].kind = "xdg_surface" /\ (c \notin astray => x \in Live(c))
  BY <1>1, NamedBlock DEF Roles
<1>4. c \notin astray => heap[c][x].ref \in Live(c)
  BY <1>1, <1>3 DEF Mine, Tidy, PointsLive, IsLive, Live, Blocks
<1>5. c \notin astray' => c \notin astray
  BY <1>2, MustAstray
<1>6. c \in astray' \/ server' = "ok"
  BY <1>2, <1>3, <1>4, <1>5 DEF Use
<1> QED
  BY <1>2, <1>6, RoleHandled

(* The requests of xdg-shell's surfaces and positioners.                   *)
LEMMA ShellHandled ==
  ASSUME IInv, NEW c \in Clients, ~Gone(c), server = "ok", UNCHANGED sock,
         \/ CreatePositioner(c) \/ PositionerSet(c) \/ PositionerDestroy(c)
         \/ GetXdgSurface(c) \/ XdgSurfaceDestroy(c) \/ AckConfigure(c)
         \/ GetToplevel(c) \/ GetPopup(c)
  PROVE  Handled(c)
PROOF
<1>1. Mine(c)
  BY DEF IInv
<1>2. {"surface", "buffer", "positioner", "xdg_surface", "decoration"}
        \subseteq Kinds \ Roles
  BY DEF Kinds, Roles
<1>3. CASE CreatePositioner(c)
  BY <1>2, <1>3, NewHandled DEF CreatePositioner
<1>4. CASE PositionerSet(c)
  BY <1>4, WriteHandled DEF PositionerSet
<1>5. CASE PositionerDestroy(c)
  BY <1>5, PlainFreed DEF PositionerDestroy
<1>6. CASE GetXdgSurface(c)
  <2>1. PICK s \in Named(c, {"surface"}) :
          /\ New(c, heap[c], Block("xdg_surface", s))
          /\ xdg_surfaces' = xdg_surfaces \cup {<<c, Len(heap[c]) + 1>>}
          /\ Use(c, {s})
          /\ UNCHANGED astray
    BY <1>6 DEF GetXdgSurface
  <2>2. /\ s \in Nat /\ s \in DOMAIN heap[c] /\ heap[c][s].kind = "surface"
        /\ c \notin astray => s \in Live(c)
    BY <1>1, NamedBlock DEF Roles
  <2>3. c \notin astray => IsLive(heap[c], s, "surface")
    BY <2>2 DEF IsLive, Live
  <2>4. c \in astray' \/ server' = "ok"
    BY <2>1, <2>2 DEF Use
  <2> QED
    BY <1>2, <2>1, <2>2, <2>3, <2>4, NewHandled
<1>7. CASE XdgSurfaceDestroy(c)
  BY <1>7, XdgSurfaceDestroyHandled
<1>8. CASE AckConfigure(c)
  BY <1>8, WriteHandled DEF AckConfigure
<1>9. CASE GetToplevel(c)
  BY <1>9, GetRoleHandled DEF GetToplevel, Roles
<1>10. CASE GetPopup(c)
  BY <1>10, GetRoleHandled DEF GetPopup, Roles
<1> QED
  BY <1>3, <1>4, <1>5, <1>6, <1>7, <1>8, <1>9, <1>10

(* Destroying a role breaks a rule.                                        *)
LEMMA RoleDestroyHandled ==
  ASSUME IInv, NEW c \in Clients, ~Gone(c), server = "ok", UNCHANGED sock,
         NEW kind \in Roles, RoleDestroy(c, kind)
  PROVE  Handled(c)
PROOF
<1>1. PICK t \in Named(c, {kind}) :
        /\ FreeObject(c, t, {}) /\ Must(c, FALSE) /\ UNCHANGED xdg_surfaces
  BY DEF RoleDestroy
<1>2. t \in objects[c] /\ heap[c][t].kind # "xdg_surface"
  BY NamedBlock DEF IInv, Roles
<1>3. astray \subseteq astray' /\ c \in astray'
  BY <1>1 DEF Must
<1> QED
  BY <1>1, <1>2, <1>3, FreeHandled

(* The requests of roles, layers and decorations.                          *)
LEMMA RolesHandled ==
  ASSUME IInv, NEW c \in Clients, ~Gone(c), server = "ok", UNCHANGED sock,
         \/ ToplevelDestroy(c) \/ PopupDestroy(c) \/ ToplevelSet(c) \/ SetMinimized(c)
         \/ ToplevelFill(c) \/ ToplevelUnfill(c) \/ GetLayerSurface(c)
         \/ GetDecoration(c) \/ DecorationSet(c) \/ DecorationDestroy(c)
  PROVE  Handled(c)
PROOF
<1>1. Mine(c)
  BY DEF IInv
<1>2. CASE ToplevelDestroy(c) \/ PopupDestroy(c)
  BY <1>2, RoleDestroyHandled DEF ToplevelDestroy, PopupDestroy, Roles
<1>3. CASE ToplevelSet(c) \/ SetMinimized(c) \/ DecorationSet(c)
  BY <1>3, WriteHandled DEF ToplevelSet, SetMinimized, DecorationSet
<1>4. CASE ToplevelFill(c) \/ GetLayerSurface(c)
  <2>1. /\ Must(c, FALSE)
        /\ UNCHANGED <<heap, objects, obj_count, xdg_surfaces>>
    BY <1>4 DEF ToplevelFill, GetLayerSurface
  <2>2. astray \subseteq astray' /\ c \in astray'
    BY <2>1 DEF Must
  <2> QED
    BY <2>1, <2>2, StillHandled
<1>5. CASE ToplevelUnfill(c)
  <2>1. PICK t \in Named(c, {"toplevel"}) :
          /\ Use(c, {t, heap[c][t].ref, heap[c][heap[c][t].ref].ref})
          /\ Must(c, Based(c, t))
          /\ UNCHANGED <<heap, objects, obj_count, xdg_surfaces>>
    BY <1>5 DEF ToplevelUnfill
  <2>2. astray \subseteq astray' /\ (c \notin astray' => Based(c, t) /\ c \notin astray)
    <3>1. heap[c] \in Seq(Blk) /\ t \in DOMAIN heap[c]
      BY <1>1, NamedBlock DEF Mine, HeapOK
    <3> QED
      BY <2>1 DEF Must
  <2>3. c \in astray' \/ server' = "ok"
    <3>1. SUFFICES ASSUME c \notin astray' PROVE server' = "ok"
      OBVIOUS
    <3>2. t \in DOMAIN heap[c] /\ heap[c][t].kind \in Roles /\ t \in Live(c)
      BY <1>1, <2>2, <3>1, NamedBlock DEF Roles
    <3>3. /\ heap[c][t].ref \in DOMAIN heap[c]
          /\ heap[c][heap[c][t].ref].kind = "xdg_surface"
      BY <1>1, <2>2, <3>1, <3>2 DEF Mine, Tidy, RolesPaired
    <3>4. heap[c][t].ref \in Live(c)
      BY <2>2, <3>1, <3>3 DEF Live, Blocks, Based
    <3>5. heap[c][heap[c][t].ref].ref \in Live(c)
      BY <1>1, <2>2, <3>1, <3>3, <3>4 DEF Mine, Tidy, PointsLive, IsLive, Live, Blocks
    <3> QED
      BY <2>1, <3>2, <3>4, <3>5 DEF Use
  <2> QED
    BY <2>1, <2>2, <2>3, StillHandled
<1>6. CASE GetDecoration(c)
  <2>1. PICK t \in Named(c, {"toplevel"}) :
          /\ New(c, heap[c], Block("decoration", 0))
          /\ Use(c, {t})
          /\ Must(c, Based(c, t))
          /\ UNCHANGED xdg_surfaces
    BY <1>6 DEF GetDecoration
  <2>2. astray \subseteq astray' /\ (c \notin astray' => Based(c, t) /\ c \notin astray)
    BY <2>1 DEF Must
  <2>3. c \in astray' \/ server' = "ok"
    BY <1>1, <2>1, <2>2, NamedBlock DEF Use, Roles
  <2>4. "decoration" \in Kinds \ Roles
    BY DEF Kinds, Roles
  <2> QED
    BY <2>1, <2>2, <2>3, <2>4, NewHandled
<1>7. CASE DecorationDestroy(c)
  BY <1>7, PlainFreed DEF DecorationDestroy
<1> QED
  BY <1>2, <1>3, <1>4, <1>5, <1>6, <1>7

LEMMA RequestKeeps ==
  ASSUME IInv, NEW c \in Clients, Request(c)
  PROVE  IInv'
PROOF
<1>1. ~Gone(c) /\ sock[c] = "up" /\ server = "ok" /\ UNCHANGED sock
  BY DEF Request, Gone
<1>2. \/ \/ CreateSurface(c) \/ SurfaceDestroy(c) \/ Attach(c) \/ Commit(c)
         \/ SurfaceFrame(c) \/ CreateBuffer(c) \/ BufferDestroy(c)
      \/ \/ CreatePositioner(c) \/ PositionerSet(c) \/ PositionerDestroy(c)
         \/ GetXdgSurface(c) \/ XdgSurfaceDestroy(c) \/ AckConfigure(c)
         \/ GetToplevel(c) \/ GetPopup(c)
      \/ \/ ToplevelDestroy(c) \/ PopupDestroy(c) \/ ToplevelSet(c) \/ SetMinimized(c)
         \/ ToplevelFill(c) \/ ToplevelUnfill(c) \/ GetLayerSurface(c)
         \/ GetDecoration(c) \/ DecorationSet(c) \/ DecorationDestroy(c)
  BY DEF Request
<1>3. Handled(c)
  BY <1>1, <1>2, SurfaceHandled, ShellHandled, RolesHandled
<1> QED
  BY <1>1, <1>3, HandledKeeps

(***************************************************************************)
(* The end of a connection                                                 *)
(***************************************************************************)
LEMMA HangUpKeeps ==
  ASSUME IInv, NEW c \in Clients, HangUp(c)
  PROVE  IInv'
PROOF
<1>1. /\ UNCHANGED <<heap, objects, obj_count, xdg_surfaces, server>>
      /\ sock' = [sock EXCEPT ![c] = "down"] /\ sock[c] = "up"
      /\ astray \subseteq astray' /\ (c \notin astray' => NoneListed(c))
  <2>1. Must(c, NoneListed(c)) /\ NoneListed(c) \in BOOLEAN
    BY DEF HangUp, NoneListed
  <2> QED
    BY <2>1, MustAstray DEF HangUp
<1>2. Shape' /\ NoFault'
  <2>1. server = "ok"
    BY DEF HangUp
  <2> QED
    BY <1>1, <2>1 DEF IInv, Shape, NoFault
<1>3. ASSUME NEW d \in Clients PROVE Mine(d)'
  <2>1. Gone(d)' <=> Gone(d)
    BY <1>1 DEF Gone, IInv, Shape
  <2>2. Gone(d) \in BOOLEAN /\ Gone(d)' \in BOOLEAN
    BY DEF Gone
  <2>3. Gone(d)' = Gone(d)
    BY <2>1, <2>2
  <2> QED
    BY <1>1, <2>3 DEF IInv, Mine
<1>4. ASSUME NEW d \in Clients \ astray', sock'[d] # "up" PROVE NoneListed(d)'
  <2>1. NoneListed(d)
    BY <1>1, <1>4 DEF IInv, Shape, Ended
  <2> QED
    BY <1>1, <2>1 DEF NoneListed, Live, Blocks
<1> QED
  BY <1>2, <1>3, <1>4 DEF IInv, Ended

LEMMA OfEntries ==
  ASSUME NEW m, m \subseteq Clients \X Nat, NEW d, NEW p
  PROVE  p \in Of(d, m) <=> <<d, p>> \in m
BY DEF Of

(* Entries of the list are live; those of a client that is there and keeps *)
(* the rules are matched only if they are the client's that goes.          *)
LEMMA Matched ==
  ASSUME IInv, NEW c \in Clients, NEW m, MayMatch(c, m), NEW d \in Clients
  PROVE  /\ \A p \in Of(d, m) : IsLive(heap[d], p, "xdg_surface")
         /\ d # c /\ d \notin astray /\ ~Gone(d) => Of(d, m) = {}
PROOF
<1>1. Mine(d) /\ m \subseteq xdg_surfaces /\ m \subseteq Clients \X Nat
  BY DEF IInv, Shape, MayMatch
<1>2. ASSUME NEW p \in Of(d, m)
      PROVE  <<d, p>> \in xdg_surfaces /\ IsLive(heap[d], p, "xdg_surface")
  BY <1>1, <1>2, OfEntries DEF Mine, Listed
<1>3. ASSUME d # c, d \notin astray, ~Gone(d), NEW p \in Of(d, m) PROVE FALSE
  <2>1. heap[d][p].ref \in Live(d)
    BY <1>1, <1>2, <1>3 DEF Mine, Tidy, PointsLive, IsLive, Live, Blocks
  <2>2. ~Stale(c, <<d, p>>)
    BY <1>3, <2>1 DEF Stale, SurfaceOf
  <2>3. <<d, p>> \in m
    BY <1>1, <1>3, OfEntries
  <2> QED
    BY <1>2, <1>3, <2>2, <2>3 DEF MayMatch
<1> QED
  BY <1>2, <1>3

(* What is freed: matched xdg_surfaces, their roles, and what is swept.    *)
LEMMA GoneBlocks ==
  ASSUME NEW c, NEW d, NEW m, Mine(d), NEW p \in SweptOrMatched(c, d, m),
         \A q \in Of(d, m) : IsLive(heap[d], q, "xdg_surface")
  PROVE  \/ p \in Of(d, m)
         \/ /\ p \in DOMAIN heap[d] /\ heap[d][p].kind \in Roles
            /\ p # 0 /\ \E x \in Of(d, m) : heap[d][x].role = p
         \/ (d = c /\ p \in Swept(c))
PROOF
<1>1. CASE p \in Of(d, m) \/ (d = c /\ p \in Swept(c))
  BY <1>1
<1>2. CASE p \in UNION {RoleOf(d, x) : x \in Of(d, m)}
  <2>1. PICK x \in Of(d, m) : p = heap[d][x].role /\ p # 0
    BY <1>2 DEF RoleOf
  <2>2. x \in DOMAIN heap[d]
    BY DEF IsLive
  <2> QED
    BY <2>1, <2>2 DEF Mine, HeapOK, RolesPointed
<1> QED
  BY <1>1, <1>2 DEF SweptOrMatched

LEMMA CleanupMine ==
  ASSUME IInv, NEW c \in Clients, sock[c] = "down", NEW m, MayMatch(c, m),
         NEW d \in Clients,
         heap' = [e \in Clients |-> Freed(heap[e], SweptOrMatched(c, e, m))],
         xdg_surfaces' = xdg_surfaces \ m,
         sock' = [sock EXCEPT ![c] = "gone"],
         objects' = [objects EXCEPT ![c] = {}],
         UNCHANGED astray
  PROVE  Mine(d)'
PROOF
<1> DEFINE h == heap[d]
           ps == SweptOrMatched(c, d, m)
           f == Freed(h, ps)
           o == objects[d]
           o2 == IF d = c THEN {} ELSE o
           gone2 == d = c \/ Gone(d)
<1>1. Mine(d) /\ Shape
  BY DEF IInv
<1>2. /\ h \in Seq(Blk) /\ HeapOK(h, o) /\ Listed(h, d, xdg_surfaces)
      /\ 0 \notin DOMAIN h
  BY <1>1 DEF Mine, HeapOK
<1>3. heap'[d] = f /\ objects'[d] = o2
  BY <1>1 DEF Shape
<1>4. Gone(d)' = (d = c \/ Gone(d))
  BY <1>1 DEF Shape, Gone
<1>5. /\ \A p \in Of(d, m) : p \in DOMAIN h /\ h[p].live /\ h[p].kind = "xdg_surface"
      /\ d # c /\ d \notin astray /\ ~Gone(d) => Of(d, m) = {}
  BY Matched DEF IsLive
<1>6. \A p \in ps : \/ p \in Of(d, m)
                   \/ /\ p \in DOMAIN h /\ h[p].kind \in Roles
                      /\ \E x \in Of(d, m) : h[x].role = p
                   \/ (d = c /\ p \in Swept(c))
  BY <1>1, Matched, GoneBlocks
<1>7. /\ Of(d, m) \subseteq ps /\ (d = c => Swept(c) \subseteq ps)
      /\ \A x \in Of(d, m) : h[x].role # 0 => h[x].role \in ps
  BY DEF SweptOrMatched, RoleOf
<1>8. \A p \in Swept(c) : p \in objects[c] /\ heap[c][p].kind \in Kinds
                          /\ heap[c][p].kind \notin Roles \cup {"xdg_surface"}
  BY DEF Swept, Named, Kinds, Roles
<1>9. HeapOK(f, o2)
  BY <1>2, FreedShape
<1>10. Listed(f, d, xdg_surfaces \ m)
  <2>1. /\ f \in Seq(Blk) /\ DOMAIN f = DOMAIN h
        /\ \A q \in DOMAIN h : /\ f[q].kind = h[q].kind
                                /\ f[q].live = (h[q].live /\ q \notin ps)
    BY <1>2, FreedBlocks
  <2> HIDE DEF f
  <2>2. ASSUME NEW q, IsLive(h, q, "xdg_surface")
        PROVE  q \in ps <=> q \in Of(d, m)
    BY <1>6, <1>7, <1>8, <2>2 DEF IsLive, Roles
  <2>3. \A q : q \in Of(d, m) <=> <<d, q>> \in m
    BY <1>1, OfEntries DEF MayMatch, Shape
  <2>4. \A q : IsLive(f, q, "xdg_surface") <=>
               IsLive(h, q, "xdg_surface") /\ q \notin ps
    BY <2>1 DEF IsLive
  <2> QED
    BY <1>2, <2>2, <2>3, <2>4 DEF Listed
<1>11. ASSUME d \notin astray PROVE Tidy(f, o2, gone2)
  <2>1. Tidy(h, o, Gone(d)) /\ RolesPointed(h) /\ Gone(d) \in BOOLEAN
    BY <1>1, <1>11 DEF Mine, HeapOK, Gone
  <2>2. ASSUME NEW t \in DOMAIN h, h[t].kind \in Roles
        PROVE  t \in ps <=> h[t].ref \in ps
    <3>1. /\ h[t].ref \in DOMAIN h /\ h[h[t].ref].kind = "xdg_surface"
          /\ h[h[t].ref].role = t
      BY <2>1, <2>2 DEF Tidy, RolesPaired
    <3>2. \A x \in DOMAIN h : h[x].role # 0 => h[h[x].role].ref = x
      BY <2>1 DEF Tidy, RolesPaired
    <3>3. ASSUME t \in ps PROVE h[t].ref \in ps
      <4>1. t \notin Of(d, m) /\ ~(d = c /\ t \in Swept(c))
        BY <1>5, <1>8, <2>2 DEF Roles
      <4>2. PICK x \in Of(d, m) : h[x].role = t
        BY <1>6, <3>3, <4>1
      <4>3. h[t].ref = x
        BY <1>2, <1>5, <3>2, <4>2
      <4> QED
        BY <1>7, <4>3
    <3>4. ASSUME h[t].ref \in ps PROVE t \in ps
      <4>1. h[t].ref \in Of(d, m)
        BY <1>6, <1>8, <3>1, <3>4 DEF Roles
      <4> QED
        BY <1>2, <1>7, <3>1, <4>1
    <3> QED
      BY <3>3, <3>4
  <2>3. d # c /\ ~Gone(d) => ps = {}
    BY <1>5, <1>6, <1>11
  <2>4. \A p \in o2 : p \in ps => h[p].kind \in Roles
    BY <2>1, <2>3 DEF Tidy, Left
  <2>5. ~gone2 =>
          \A p \in DOMAIN h : h[p].live /\ p \notin ps =>
            /\ p \in o => p \in o2
            /\ h[p].kind = "xdg_surface" => h[p].ref \notin ps
            /\ h[p].buffer # 0 => h[p].buffer \notin ps
    BY <2>3
  <2>6. gone2 =>
          /\ o2 = {}
          /\ \A p \in DOMAIN h : h[p].live /\ p \notin ps /\ h[p].named
               => h[p].kind \in Roles \cup {"xdg_surface"}
    <3>1. CASE d = c
      <4>1. ~Gone(d)
        BY <3>1 DEF Gone
      <4>2. ASSUME NEW p \in DOMAIN h, h[p].live, p \notin ps, h[p].named
            PROVE  h[p].kind \in Roles \cup {"xdg_surface"}
        <5>1. p \in objects[c] /\ p \notin Swept(c)
          BY <1>7, <2>1, <3>1, <4>1, <4>2 DEF Tidy, PointsLive
        <5>2. h[p].kind \in Kinds
          <6>1. h[p] \in Blk
            BY <1>2
          <6> QED
            BY <6>1 DEF Blk
        <5> QED
          BY <3>1, <5>1, <5>2 DEF Swept, Named, Kinds, Roles
      <4> QED
        BY <3>1, <4>2
    <3>2. CASE d # c
      BY <2>1, <3>2 DEF Tidy, Left
    <3> QED
      BY <3>1, <3>2
  <2>7. Gone(d) => gone2
    OBVIOUS
  <2>8. o \in SUBSET DOMAIN h /\ o2 \in SUBSET o /\ gone2 \in BOOLEAN
    BY <1>2 DEF HeapOK
  <2> HIDE DEF h, ps, o, o2, gone2
  <2> QED
    BY <1>2, <2>1, <2>2, <2>4, <2>5, <2>6, <2>7, <2>8, FreedTidy
<1> QED
  BY <1>3, <1>4, <1>9, <1>10, <1>11 DEF Mine

LEMMA CleanupKeeps ==
  ASSUME IInv, NEW c \in Clients, CleanupClient(c)
  PROVE  IInv'
PROOF
<1>1. PICK m \in SUBSET xdg_surfaces :
        /\ MayMatch(c, m)
        /\ heap' = [d \in Clients |-> Freed(heap[d], SweptOrMatched(c, d, m))]
        /\ xdg_surfaces' = xdg_surfaces \ m
        /\ server' =
             IF /\ \A d \in Clients : SweptOrMatched(c, d, m) \subseteq Live(d)
                /\ \A e \in xdg_surfaces : e[2] \in Live(e[1]) /\ ~Stale(c, e)
             THEN "ok" ELSE "wild"
  BY DEF CleanupClient
<1>2. /\ sock[c] = "down" /\ sock' = [sock EXCEPT ![c] = "gone"]
      /\ objects' = [objects EXCEPT ![c] = {}] /\ UNCHANGED astray
  BY DEF CleanupClient
<1>3. \A d \in Clients : Mine(d)'
  BY <1>1, <1>2, CleanupMine
<1>4. Shape'
  BY <1>1, <1>2 DEF IInv, Shape
<1>5. ASSUME astray = {} PROVE server' = "ok"
  <2>1. ASSUME NEW e \in xdg_surfaces PROVE e[2] \in Live(e[1]) /\ ~Stale(c, e)
    <3>1. e[1] \in Clients /\ e = <<e[1], e[2]>>
      BY DEF IInv, Shape
    <3>2. IsLive(heap[e[1]], e[2], "xdg_surface")
      BY <3>1 DEF IInv, Mine, Listed
    <3>3. e[2] \in Live(e[1]) /\ heap[e[1]][e[2]].kind = "xdg_surface"
      BY <3>2 DEF IsLive, Live, Blocks
    <3>4. sock[e[1]] = "up"
      BY <1>5, <3>1, <3>3 DEF IInv, Ended, NoneListed
    <3>5. SurfaceOf(e) \in Live(e[1])
      BY <1>5, <3>1, <3>2, <3>4
        DEF IInv, Mine, Tidy, PointsLive, Gone, IsLive, SurfaceOf, Live, Blocks
    <3> QED
      BY <1>2, <3>3, <3>4, <3>5 DEF Stale
  <2>2. ASSUME NEW d \in Clients, NEW p \in SweptOrMatched(c, d, m)
        PROVE  p \in Live(d)
    <3>1. Mine(d) /\ RolesPaired(heap[d])
      BY <1>5 DEF IInv, Mine, Tidy
    <3>2. \A q \in Of(d, m) : IsLive(heap[d], q, "xdg_surface")
      BY <1>1, Matched
    <3>3. CASE p \in Of(d, m)
      BY <3>2, <3>3 DEF IsLive, Live, Blocks
    <3>4. CASE /\ p \in DOMAIN heap[d] /\ heap[d][p].kind \in Roles
               /\ p # 0 /\ \E x \in Of(d, m) : heap[d][x].role = p
      <4>1. PICK x \in Of(d, m) : heap[d][x].role = p
        BY <3>4
      <4>2. x \in DOMAIN heap[d] /\ heap[d][x].live
        BY <3>2 DEF IsLive
      <4>3. heap[d][p].ref = x /\ heap[d][p].live = heap[d][heap[d][p].ref].live
        BY <3>1, <3>4, <4>1, <4>2 DEF RolesPaired
      <4> QED
        BY <3>4, <4>2, <4>3 DEF Live, Blocks
    <3>5. CASE d = c /\ p \in Swept(c)
      BY <1>5, <3>1, <3>5, NamedBlock DEF Swept, Roles
    <3> QED
      BY <3>1, <3>2, <3>3, <3>4, <3>5, GoneBlocks
  <2> QED
    BY <1>1, <2>1, <2>2
<1>6. NoFault'
  BY <1>2, <1>5 DEF NoFault
<1>7. ASSUME NEW d \in Clients \ astray', sock'[d] # "up" PROVE NoneListed(d)'
  <2>1. NoneListed(d) /\ heap[d] \in Seq(Blk)
    BY <1>2, <1>7 DEF IInv, Shape, Ended, Mine, HeapOK
  <2>2. heap'[d] = Freed(heap[d], SweptOrMatched(c, d, m))
    BY <1>1
  <2> QED
    BY <2>1, <2>2, FreedBlocks DEF NoneListed, Live, Blocks
<1> QED
  BY <1>3, <1>4, <1>6, <1>7 DEF IInv, Ended

LEMMA AlwaysIInv == Spec => []IInv
PROOF
<1>1. Init => IInv
  <2> SUFFICES ASSUME Init PROVE IInv
    OBVIOUS
  <2>1. Shape /\ NoFault /\ Ended
    BY DEF Init, Shape, NoFault, Ended
  <2>2. ASSUME NEW c \in Clients PROVE Mine(c)
    <3>1. heap[c] = << >> /\ objects[c] = {} /\ xdg_surfaces = {} /\ ~Gone(c)
      BY DEF Init, Gone
    <3>2. << >> \in Seq(Blk) /\ DOMAIN << >> = {}
      OBVIOUS
    <3>3. HeapOK(heap[c], objects[c]) /\ Listed(heap[c], c, xdg_surfaces)
      BY <3>1, <3>2 DEF HeapOK, RolesPointed, Listed, IsLive
    <3>4. Tidy(heap[c], objects[c], Gone(c))
      BY <3>1, <3>2 DEF Tidy, RolesPaired, NamesLive, PointsLive
    <3> QED
      BY <3>3, <3>4 DEF Mine
  <2> QED
    BY <2>1, <2>2 DEF IInv
<1>2. IInv /\ [Next]_vars => IInv'
  <2> SUFFICES ASSUME IInv, [Next]_vars PROVE IInv'
    OBVIOUS
  <2>1. CASE Next
    BY <2>1, RequestKeeps, HangUpKeeps, CleanupKeeps DEF Next
  <2>2. CASE UNCHANGED vars
    BY <2>2 DEF vars, IInv, Shape, NoFault, Ended, NoneListed, Live, Blocks, Mine, Gone
  <2> QED
    BY <2>1, <2>2
<1> QED
  BY <1>1, <1>2, PTL DEF Spec

(* The rules are enough: while every client keeps them, the server uses no *)
(* freed block and never the missing g_comp.                               *)
THEOREM NeverFaults == Spec => []NoFault
PROOF
<1>1. IInv => NoFault
  BY DEF IInv
<1> QED
  BY <1>1, AlwaysIInv, PTL

(* The list of xdg_surfaces has the live ones of every client, whatever    *)
(* the clients do; a well-behaved client's have their surface.             *)
THEOREM ListTrue == Spec => []ListSound
PROOF
<1>1. ASSUME IInv PROVE ListSound
  <2>1. ASSUME NEW c \in Clients
        PROVE  Of(c, xdg_surfaces) = {p \in Live(c) : heap[c][p].kind = "xdg_surface"}
    <3>1. \A p : p \in Of(c, xdg_surfaces) <=> IsLive(heap[c], p, "xdg_surface")
      BY <1>1, OfEntries DEF IInv, Shape, Mine, Listed
    <3> QED
      BY <3>1 DEF IsLive, Live, Blocks
  <2>2. ASSUME NEW e \in xdg_surfaces, e[1] \notin astray, sock[e[1]] # "gone"
        PROVE  SurfaceOf(e) \in Live(e[1])
    <3>1. e[1] \in Clients /\ e = <<e[1], e[2]>>
      BY <1>1 DEF IInv, Shape
    <3>2. Mine(e[1]) /\ IsLive(heap[e[1]], e[2], "xdg_surface")
      BY <1>1, <3>1 DEF IInv, Mine, Listed
    <3> QED
      BY <2>2, <3>2 DEF Mine, Tidy, PointsLive, Gone, IsLive, SurfaceOf, Live, Blocks
  <2> QED
    BY <2>1, <2>2 DEF ListSound
<1> QED
  BY <1>1, AlwaysIInv, PTL

(* Of a client that kept the rules and has gone nothing is left but what   *)
(* the table had no room for.                                              *)
THEOREM LittleLeft == Spec => []LeftBehind
PROOF
<1>1. ASSUME IInv PROVE LeftBehind
  <2>1. ASSUME NEW c \in Clients \ astray, sock[c] = "gone", NEW p \in Live(c),
               heap[c][p].named
        PROVE  FALSE
    <3>1. Tidy(heap[c], objects[c], TRUE) /\ NoneListed(c)
      BY <1>1, <2>1 DEF IInv, Mine, Gone, Tidy, Ended
    <3>2. heap[c][p].kind \in Roles
      BY <2>1, <3>1 DEF Tidy, Left, NoneListed, Live, Blocks
    <3>3. /\ heap[c][p].ref \in Live(c)
          /\ heap[c][heap[c][p].ref].kind = "xdg_surface"
      BY <2>1, <3>1, <3>2 DEF Tidy, RolesPaired, Live, Blocks
    <3> QED
      BY <3>1, <3>3 DEF NoneListed
  <2> QED
    BY <2>1 DEF LeftBehind
<1> QED
  BY <1>1, AlwaysIInv, PTL

(* The end of one client frees nothing of another that is there and keeps  *)
(* the rules.                                                              *)
THEOREM OthersSafe == Spec => OthersKept
PROOF
<1> DEFINE Kept == \A c \in Clients \ astray' :
                     sock[c] = "up" /\ (\E d \in Clients : sock'[d] # sock[d])
                       => heap'[c] = heap[c]
<1>1. ASSUME IInv, [Next]_vars PROVE [Kept]_vars
  <2> SUFFICES ASSUME NEW c \in Clients \ astray', sock[c] = "up",
                      NEW d \in Clients, sock'[d] # sock[d]
               PROVE  heap'[c] = heap[c]
    OBVIOUS
  <2>1. PICK a \in Clients : HangUp(a) \/ CleanupClient(a)
    BY <1>1 DEF Next, Request, vars
  <2>2. CASE HangUp(a)
    BY <2>2 DEF HangUp
  <2>3. CASE CleanupClient(a)
    <3>1. PICK m \in SUBSET xdg_surfaces :
            /\ MayMatch(a, m)
            /\ heap' = [e \in Clients |-> Freed(heap[e], SweptOrMatched(a, e, m))]
      BY <2>3 DEF CleanupClient
    <3>2. a # c /\ c \notin astray /\ ~Gone(c)
      BY <2>3 DEF CleanupClient, Gone
    <3>3. Of(c, m) = {}
      BY <1>1, <3>1, <3>2, Matched
    <3>4. SweptOrMatched(a, c, m) = {}
      BY <3>2, <3>3 DEF SweptOrMatched
    <3>5. heap'[c] = [p \in DOMAIN heap[c] |-> heap[c][p]]
      BY <3>1, <3>4 DEF Freed
    <3>6. heap[c] \in Seq(Blk)
      BY <1>1 DEF IInv, Mine, HeapOK
    <3> QED
      BY <3>5, <3>6
  <2> QED
    BY <2>1, <2>2, <2>3
<1> QED
  BY <1>1, AlwaysIInv, PTL DEF Spec, OthersKept
=============================================================================
