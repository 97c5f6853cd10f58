---------------------------- MODULE MCSupervisor ----------------------------
(* Instances of Supervisor.                                                *)
EXTENDS Supervisor

(* Two processes that may restart, beside one that may not.  Seven         *)
(* restarts take the backoff from 500 ms to the limit of 30 s.             *)
EachPolicy == <<"Never", "OnFailure", "Always">>
UpToSeven == <<1, 1, 7>>
=============================================================================
