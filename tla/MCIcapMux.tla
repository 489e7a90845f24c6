------------------------------ MODULE MCIcapMux ------------------------------
EXTENDS IcapMux

\* The two virtual sockets of the design: vs_shift and vs_count.
MCVS == {"shift", "count"}
------------------------------------------------------------------------------
(* A well-behaved pair of masters, under which the release condition is      *)
(* judged: SEM keeps its request until it is asked to release; the           *)
(* controller loads only while it owns the port, withdraws its request with  *)
(* the status that ends the load, and no load ever fails.                    *)

CleanInit == Init /\ ~semReq /\ ~dfxcReq

Disciplined ==
  /\ err' = {}
  /\ semReq /\ ~semRel => semReq'
  /\ dfxcReq /\ ~dfxcReq' => loading # {} /\ loading' = {}
  /\ loading' \ loading # {} => dfxcGnt /\ dfxcReq
  /\ loading # {} /\ loading' = {} => ~dfxcReq'

CleanNext == Next /\ Disciplined

\* The controller starts the load it asked the port for, and finishes it.
LoadStarts == CleanNext /\ loading = {} /\ loading' # {}
LoadEnds   == CleanNext /\ loading # {} /\ loading' = {}

CleanSpec == /\ CleanInit /\ [][CleanNext]_vars
             /\ WF_<<fsm, tracking>>(CleanNext) /\ WF_vars(LoadStarts) /\ WF_vars(LoadEnds)

(* icap_mux.v:183: "If error is not detected after PR, DFXC release ICAP".   *)
(* Once the controller has finished its loads, without an error, and SEM     *)
(* requests the port, SEM is granted it (or a new load begins).              *)
ReleasedAfterCleanLoad ==
  (dfxcGnt /\ ~dfxcReq /\ semReq) ~> (semGnt \/ dfxcReq)
==============================================================================
