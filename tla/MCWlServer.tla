----------------------------- MODULE MCWlServer -----------------------------
(* Instances of WlServer with two clients: the first fills a table of four *)
(* objects (its display, wl_shm, a pool and a buffer, in the order it      *)
(* likes) and makes one object more; the second has its own pool.          *)
EXTENDS WlServer, TLC

CONSTANTS a, b

Both == {a, b}
FiveAndThree == a :> 5 @@ b :> 3
=============================================================================
