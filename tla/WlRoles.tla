------------------------------ MODULE WlRoles -------------------------------
(***************************************************************************)
(* Surfaces and roles of the Wayland server: the memory behind the objects *)
(* of wl_surface, wl_buffer and xdg-shell in src/compositor/wl_server.c    *)
(* and protocols.c.                                                        *)
(*                                                                         *)
(* Handlers run one after another on the compositor's thread, in whatever  *)
(* order the clients' requests arrive.  Each allocates, links or frees     *)
(* blocks, and nothing counts who still points at a block.  A use of a     *)
(* freed block leaves the server in the state "wild", from which nothing   *)
(* is promised; g_comp is NULL, because nothing calls protocols_init, and  *)
(* a handler that reads through it leaves the server "crashed".  The model *)
(* also keeps `astray`, the clients that broke one of the rules collected  *)
(* under "What a client may do": the properties say that these rules are   *)
(* enough to use the server safely.                                        *)
(*                                                                         *)
(* Left out: everything nothing reads (sizes, titles, serials, damage, the *)
(* list of surfaces, mapped, configured, busy), pools and descriptors      *)
(* (WlServer), and callocs that fail.  The list of xdg_surfaces is a set:  *)
(* a node is linked once, and nothing depends on where.  Each client       *)
(* connects once, and an address is not used for two blocks of the model.  *)
(***************************************************************************)
EXTENDS Integers, Sequences, FiniteSets

CONSTANTS
  Clients,      (* The programs that connect.                                *)
  MaxBlocks,    (* Blocks each client causes to be allocated (a bound).      *)
  MAX_OBJECTS   (* What the registry's objects leave of the table's 64.      *)

ASSUME RolesAssumption ==
  /\ IsFiniteSet(Clients)
  /\ MaxBlocks \in [Clients -> Nat]
  /\ MAX_OBJECTS \in Nat

VARIABLES
  sock,         (* Each client's connection: "up", "down" or "gone".         *)
  heap,         (* The blocks allocated for each client, in order; a pointer *)
                (* is a position, and 0 is NULL.                             *)
  objects,      (* Blocks the client's object table still points at.         *)
  obj_count,    (* Entries of the table; none is ever given back.            *)
  xdg_surfaces, (* The global list of <<client, block>>.                     *)
  server,       (* "ok", "wild" or "crashed".                                *)
  astray        (* The clients that broke a rule.                            *)

vars == <<sock, heap, objects, obj_count, xdg_surfaces, server, astray>>

Kinds == {"surface", "buffer", "positioner", "xdg_surface",
          "toplevel", "popup", "decoration"}

(* A block: its surface or xdg_surface, an xdg_surface's role, a surface's *)
(* buffer, and whether the object table ever had it.                       *)
Block(kind, ref) ==
  [kind |-> kind, live |-> TRUE, named |-> FALSE, ref |-> ref,
   role |-> 0, buffer |-> 0]

Blocks(c) == DOMAIN heap[c]
Live(c) == {p \in Blocks(c) : heap[c][p].live}
Named(c, kinds) == {p \in objects[c] : heap[c][p].kind \in kinds}
Roles == {"toplevel", "popup"}

Init ==
  /\ sock = [c \in Clients |-> "up"]
  /\ heap = [c \in Clients |-> << >>]
  /\ objects = [c \in Clients |-> {}]
  /\ obj_count = [c \in Clients |-> 0]
  /\ xdg_surfaces = {}
  /\ server = "ok"
  /\ astray = {}

(***************************************************************************)
(* Memory                                                                  *)
(***************************************************************************)

(* The blocks a handler reads, writes or frees; 0 is tested before use.    *)
Use(c, ps) == server' = IF ps \ {0} \subseteq Live(c) THEN "ok" ELSE "wild"

Freed(h, ps) ==
  [p \in DOMAIN h |-> IF p \in ps THEN [h[p] EXCEPT !.live = FALSE] ELSE h[p]]

(* calloc and client_add_object: in a full table the block has no name.    *)
Room(c) == obj_count[c] < MAX_OBJECTS

New(c, h, block) ==
  LET p == Len(h) + 1
  IN  /\ p <= MaxBlocks[c]
      /\ heap' = [heap EXCEPT ![c] = Append(h, [block EXCEPT !.named = Room(c)])]
      /\ objects' = [objects EXCEPT ![c] = IF Room(c) THEN @ \cup {p} ELSE @]
      /\ obj_count' = [obj_count EXCEPT ![c] = IF Room(c) THEN @ + 1 ELSE @]

(* free(o->implementation) and o->implementation = NULL.                   *)
FreeObject(c, p, others) ==
  /\ heap' = [heap EXCEPT ![c] = Freed(@, {p} \cup others)]
  /\ objects' = [objects EXCEPT ![c] = @ \ {p}]
  /\ UNCHANGED obj_count

(***************************************************************************)
(* What a client may do.  The server is silent about these rules; a client *)
(* that keeps them all is safe from it, and the others from that client.   *)
(***************************************************************************)
Must(c, rule) == astray' = IF rule THEN astray ELSE astray \cup {c}

(* A buffer is detached, or its surface destroyed, before it goes.         *)
Detached(c, b) == \A s \in Live(c) : heap[c][s].buffer # b

(* A surface outlives its xdg_surfaces.                                    *)
Bare(c, s) == \A x \in Live(c) :
                heap[c][x].kind = "xdg_surface" => heap[c][x].ref # s

(* A role is used only while its xdg_surface exists.                       *)
Based(c, t) == heap[c][heap[c][t].ref].live

(* A client has destroyed its xdg_surfaces when it goes: at the end of the *)
(* connection their surfaces are freed first and read afterwards.  One     *)
(* that found the object table full cannot be destroyed.                   *)
NoneListed(c) == \A x \in Live(c) : heap[c][x].kind # "xdg_surface"

(***************************************************************************)
(* wl_compositor, wl_surface, wl_buffer                                    *)
(***************************************************************************)
CreateSurface(c) ==
  /\ New(c, heap[c], Block("surface", 0))
  /\ UNCHANGED <<xdg_surfaces, server, astray>>

SurfaceDestroy(c) == \E s \in Named(c, {"surface"}) :
  /\ FreeObject(c, s, {})
  /\ Use(c, {s})
  /\ Must(c, Bare(c, s))
  /\ UNCHANGED xdg_surfaces

(* Buffer 0 detaches.                                                      *)
Attach(c) == \E s \in Named(c, {"surface"}), b \in Named(c, {"buffer"}) \cup {0} :
  /\ heap' = [heap EXCEPT ![c][s].buffer = b]
  /\ Use(c, {s, b})
  /\ UNCHANGED <<objects, obj_count, xdg_surfaces, astray>>

(* Writes busy through the surface's buffer.                               *)
Commit(c) == \E s \in Named(c, {"surface"}) :
  /\ Use(c, {s, heap[c][s].buffer})
  /\ UNCHANGED <<heap, objects, obj_count, xdg_surfaces, astray>>

(* The callback fires at once, and its entry of the table is used up.      *)
SurfaceFrame(c) ==
  /\ Named(c, {"surface"}) # {} /\ Room(c)
  /\ obj_count' = [obj_count EXCEPT ![c] = @ + 1]
  /\ UNCHANGED <<heap, objects, xdg_surfaces, server, astray>>

CreateBuffer(c) ==
  /\ New(c, heap[c], Block("buffer", 0))
  /\ UNCHANGED <<xdg_surfaces, server, astray>>

BufferDestroy(c) == \E b \in Named(c, {"buffer"}) :
  /\ FreeObject(c, b, {})
  /\ Use(c, {b})
  /\ Must(c, Detached(c, b))
  /\ UNCHANGED xdg_surfaces

(***************************************************************************)
(* xdg_wm_base and xdg_positioner                                          *)
(***************************************************************************)
CreatePositioner(c) ==
  /\ New(c, heap[c], Block("positioner", 0))
  /\ UNCHANGED <<xdg_surfaces, server, astray>>

(* Handlers that only write fields of a block of the given kinds.          *)
Write(c, kinds) == \E p \in Named(c, kinds) :
  /\ Use(c, {p})
  /\ Must(c, heap[c][p].kind \in Roles => Based(c, p))
  /\ UNCHANGED <<heap, objects, obj_count, xdg_surfaces>>

PositionerSet(c) == Write(c, {"positioner"})

PositionerDestroy(c) == \E p \in Named(c, {"positioner"}) :
  /\ FreeObject(c, p, {})
  /\ Use(c, {p})
  /\ UNCHANGED <<xdg_surfaces, astray>>

(* The new xdg_surface joins the list; surf->xdg is only written.          *)
GetXdgSurface(c) == \E s \in Named(c, {"surface"}) :
  /\ New(c, heap[c], Block("xdg_surface", s))
  /\ xdg_surfaces' = xdg_surfaces \cup {<<c, Len(heap[c]) + 1>>}
  /\ Use(c, {s})
  /\ UNCHANGED astray

(***************************************************************************)
(* xdg_surface                                                             *)
(***************************************************************************)

(* Faulty variant: the destroyed xdg_surface stays in the list.            *)
UnlinkedNever(c, x) == xdg_surfaces

Unlinked(c, x) == xdg_surfaces \ {<<c, x>>}

(* Faulty variant: the role is forgotten.                                  *)
RoleOfNone(c, x) == {}

RoleOf(c, x) == {heap[c][x].role} \ {0}

(* xdg_surface_destroy: the role goes too, but not its object.             *)
XdgSurfaceDestroy(c) == \E x \in Named(c, {"xdg_surface"}) :
  /\ FreeObject(c, x, RoleOf(c, x))
  /\ xdg_surfaces' = Unlinked(c, x)
  /\ Use(c, {x, heap[c][x].ref} \cup RoleOf(c, x))
  /\ UNCHANGED astray

(* xdg_toplevel_send_configure and xdg_popup_send_configure go from the    *)
(* role to the client through the xdg_surface and the surface.             *)
Configure(c, x) == Use(c, {x, heap[c][x].ref})

GetRole(c, x, kind) ==
  /\ New(c, [heap[c] EXCEPT ![x].role = Len(heap[c]) + 1], Block(kind, x))
  /\ Configure(c, x)
  /\ Must(c, heap[c][x].role = 0)
  /\ UNCHANGED xdg_surfaces

GetToplevel(c) == \E x \in Named(c, {"xdg_surface"}) : GetRole(c, x, "toplevel")

(* The positioner, if it is still there, is copied.                        *)
GetPopup(c) == \E x \in Named(c, {"xdg_surface"}) : GetRole(c, x, "popup")

AckConfigure(c) == Write(c, {"xdg_surface"})

(***************************************************************************)
(* xdg_toplevel and xdg_popup                                              *)
(***************************************************************************)

(* The xdg_surface keeps its pointer to the role: a client has no order in *)
(* which it may destroy both.                                              *)
RoleDestroy(c, kind) == \E t \in Named(c, {kind}) :
  /\ FreeObject(c, t, {})
  /\ Use(c, {t})
  /\ Must(c, FALSE)
  /\ UNCHANGED xdg_surfaces

ToplevelDestroy(c) == RoleDestroy(c, "toplevel")
PopupDestroy(c) == RoleDestroy(c, "popup")

ToplevelSet(c) == Write(c, {"toplevel"})
SetMinimized(c) == Write(c, {"toplevel"})

(* set_maximized and set_fullscreen ask g_comp for the display's size.     *)
ToplevelFill(c) == \E t \in Named(c, {"toplevel"}) :
  /\ server' = "crashed"
  /\ Must(c, FALSE)
  /\ UNCHANGED <<heap, objects, obj_count, xdg_surfaces>>

(* unset_maximized and unset_fullscreen.                                   *)
ToplevelUnfill(c) == \E t \in Named(c, {"toplevel"}) :
  /\ LET x == heap[c][t].ref IN Use(c, {t, x, heap[c][x].ref})
  /\ Must(c, Based(c, t))
  /\ UNCHANGED <<heap, objects, obj_count, xdg_surfaces>>

(***************************************************************************)
(* zwlr_layer_shell and zxdg_decoration                                    *)
(***************************************************************************)

(* A surface's size is always 0: the configure asks g_comp for another.    *)
GetLayerSurface(c) ==
  /\ Named(c, {"surface"}) # {}
  /\ server' = "crashed"
  /\ Must(c, FALSE)
  /\ UNCHANGED <<heap, objects, obj_count, xdg_surfaces>>

GetDecoration(c) == \E t \in Named(c, {"toplevel"}) :
  /\ New(c, heap[c], Block("decoration", 0))
  /\ Use(c, {t})
  /\ Must(c, Based(c, t))
  /\ UNCHANGED xdg_surfaces

DecorationSet(c) == Write(c, {"decoration"})

DecorationDestroy(c) == \E d \in Named(c, {"decoration"}) :
  /\ FreeObject(c, d, {})
  /\ Use(c, {d})
  /\ UNCHANGED <<xdg_surfaces, astray>>

(***************************************************************************)
(* The end of a connection                                                 *)
(***************************************************************************)

(* The client hangs up, or names an object the table has not.              *)
HangUp(c) ==
  /\ server = "ok" /\ sock[c] = "up"
  /\ sock' = [sock EXCEPT ![c] = "down"]
  /\ Must(c, NoneListed(c))
  /\ UNCHANGED <<heap, objects, obj_count, xdg_surfaces, server>>

(* Faulty variant: roles are freed by the table too.                       *)
SweptRoles(c) ==
  Named(c, {"surface", "buffer", "positioner", "decoration"} \cup Roles)

(* What protocols_cleanup_client frees by the table: never an xdg_surface, *)
(* a toplevel or a popup.                                                  *)
Swept(c) == Named(c, {"surface", "buffer", "positioner", "decoration"})

SurfaceOf(e) == heap[e[1]][e[2]].ref

(* An entry's surface, freed by the sweep or earlier: what is read there   *)
(* as the client's address may be anything.                                *)
Stale(c, e) == \/ SurfaceOf(e) \notin Live(e[1])
               \/ e[1] = c /\ SurfaceOf(e) \in Swept(c)

(* Faulty variant: the walk does not ask whose the entry is.               *)
MayMatchAny(c, m) == m = xdg_surfaces

(* The entries the walk may take to be the client's.                       *)
MayMatch(c, m) ==
  /\ m \subseteq xdg_surfaces
  /\ \A e \in xdg_surfaces : ~Stale(c, e) => (e \in m <=> e[1] = c)

(* The blocks of client c among the entries m.                             *)
Of(c, m) == {e[2] : e \in {f \in m : f[1] = c}}

(* The blocks of client d that go with client c.                           *)
SweptOrMatched(c, d, m) ==
  Of(d, m) \cup (IF d = c THEN Swept(c) ELSE {})
           \cup UNION {RoleOf(d, x) : x \in Of(d, m)}

(* wl_server_poll comes by again and calls protocols_cleanup_client.  The  *)
(* walk reads every entry and the surface of every entry, and writes to    *)
(* the surfaces of those it takes.                                         *)
CleanupClient(c) ==
  /\ server = "ok" /\ sock[c] = "down"
  /\ \E m \in SUBSET xdg_surfaces :
       /\ MayMatch(c, m)
       /\ heap' = [d \in Clients |-> Freed(heap[d], SweptOrMatched(c, d, m))]
       /\ xdg_surfaces' = xdg_surfaces \ m
       /\ server' =
            IF /\ \A d \in Clients : SweptOrMatched(c, d, m) \subseteq Live(d)
               /\ \A e \in xdg_surfaces : e[2] \in Live(e[1]) /\ ~Stale(c, e)
            THEN "ok" ELSE "wild"
  /\ sock' = [sock EXCEPT ![c] = "gone"]
  /\ objects' = [objects EXCEPT ![c] = {}]
  /\ UNCHANGED <<obj_count, astray>>

(* dispatch_message and protocols_dispatch, for the handlers that do       *)
(* something; a request of an object whose block is gone does nothing.     *)
Request(c) ==
  /\ server = "ok" /\ sock[c] = "up"
  /\ \/ CreateSurface(c) \/ SurfaceDestroy(c) \/ Attach(c) \/ Commit(c)
     \/ SurfaceFrame(c) \/ CreateBuffer(c) \/ BufferDestroy(c)
     \/ CreatePositioner(c) \/ PositionerSet(c) \/ PositionerDestroy(c)
     \/ GetXdgSurface(c) \/ XdgSurfaceDestroy(c) \/ AckConfigure(c)
     \/ GetToplevel(c) \/ ToplevelDestroy(c) \/ ToplevelSet(c)
     \/ SetMinimized(c) \/ ToplevelFill(c) \/ ToplevelUnfill(c)
     \/ GetPopup(c) \/ PopupDestroy(c) \/ GetLayerSurface(c)
     \/ GetDecoration(c) \/ DecorationSet(c) \/ DecorationDestroy(c)
  /\ UNCHANGED sock

Next == \E c \in Clients : Request(c) \/ HangUp(c) \/ CleanupClient(c)

Spec == Init /\ [][Next]_vars

(***************************************************************************)
(* Properties                                                              *)
(***************************************************************************)

(* The rules are enough: the server uses freed memory or the missing       *)
(* g_comp only after some client broke one of them, whatever the others do *)
(* and in whatever order the clients go.                                   *)
NoFault == server = "ok" \/ astray # {}

(* The global list has every live xdg_surface and nothing else, and the    *)
(* surface of a client that is still there and kept the rules is live      *)
(* while an entry refers to it.                                            *)
ListSound == server = "ok" =>
  /\ \A c \in Clients :
       Of(c, xdg_surfaces) = {p \in Live(c) : heap[c][p].kind = "xdg_surface"}
  /\ \A e \in xdg_surfaces :
       e[1] \notin astray /\ sock[e[1]] # "gone" => SurfaceOf(e) \in Live(e[1])

(* Only blocks that found the object table full stay behind when a client  *)
(* that kept the rules has gone: no role outlives its xdg_surface, and the *)
(* end of the connection frees the rest.                                   *)
LeftBehind == server = "ok" =>
  \A c \in Clients \ astray : sock[c] = "gone" =>
    \A p \in Live(c) : ~heap[c][p].named

(* What a client that keeps the rules has allocated is freed only by its   *)
(* own requests, or after its connection is down: the end of another       *)
(* client does not take it, even of one that broke them.                   *)
OthersKept == [][\A c \in Clients \ astray' :
                   sock[c] = "up" /\ (\E d \in Clients : sock'[d] # sock[d])
                     => heap'[c] = heap[c]]_vars
=============================================================================
