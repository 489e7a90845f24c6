------------------------------- MODULE IcapMux -------------------------------
(***************************************************************************)
(* hdl/icap_mux.v: the arbiter of the configuration port (ICAP) between    *)
(* the soft error mitigation core (SEM) and the DFX controller (DFXC).     *)
(*                                                                         *)
(* Every action is one rising edge of icap_clk: the registers take the     *)
(* values computed from the registers and inputs before the edge, and the  *)
(* masters drive new requests.  What the inputs do is not constrained: the *)
(* safety properties hold for any master and any status stream.            *)
(***************************************************************************)
EXTENDS Naturals

CONSTANTS VS  \* the virtual sockets whose status streams reach the arbiter

VARIABLES
  state,       \* the arbitration FSM
  semGnt, semRel, dfxcGnt, dfxcRel,     \* the registered outputs
  err,         \* sockets whose last status carried an error (vs_X_err)
  loading,     \* sockets whose last status was RM_LOAD (vs_X_loading)
  loadingD1,   \* vs_X_loading_shift[0]
  loadingD2,   \* vs_X_loading_shift[1]
  loadingEnd,  \* the one-cycle pulse vs_loading_end
  semReq, dfxcReq   \* the inputs: the masters' requests

outputs == <<semGnt, semRel, dfxcGnt, dfxcRel>>
fsm == <<state, outputs>>
tracking == <<err, loading, loadingD1, loadingD2, loadingEnd>>
vars == <<state, outputs, tracking, semReq, dfxcReq>>

ST_IDLE          == "ST_IDLE"
ST_SEM_GNT       == "ST_SEM_GNT"
ST_SEM_WAIT_REL  == "ST_SEM_WAIT_REL"
ST_DFXC_GNT      == "ST_DFXC_GNT"
ST_DFXC_WAIT_REL == "ST_DFXC_WAIT_REL"

States == {ST_IDLE, ST_SEM_GNT, ST_SEM_WAIT_REL, ST_DFXC_GNT, ST_DFXC_WAIT_REL}

Init == /\ state = ST_IDLE
        /\ semGnt = FALSE /\ semRel = FALSE
        /\ dfxcGnt = FALSE /\ dfxcRel = FALSE
        /\ err = {} /\ loading = {} /\ loadingD1 = {} /\ loadingD2 = {}
        /\ loadingEnd = FALSE
        /\ semReq \in BOOLEAN /\ dfxcReq \in BOOLEAN
------------------------------------------------------------------------------
(* The status streams: a beat is a status word with TVALID; it says whether *)
(* the socket is in RM_LOAD and whether its error field is non-zero.        *)

SampleStatus ==
  /\ \E beat \in SUBSET VS : \E inLoad, failed \in SUBSET beat :
       /\ err' = (err \ beat) \union failed
       /\ loading' = (loading \ beat) \union inLoad
  /\ loadingD1' = loading
  /\ loadingD2' = loadingD1
  /\ loadingEnd' = (loadingD2 \ loadingD1 # {})

Requests == semReq' \in BOOLEAN /\ dfxcReq' \in BOOLEAN

Inputs == SampleStatus /\ Requests
------------------------------------------------------------------------------
(* The arbitration FSM, one action per state.                               *)

Idle ==
  /\ state = ST_IDLE
  /\ state' = IF semGnt THEN ST_SEM_GNT
              ELSE IF dfxcGnt THEN ST_DFXC_GNT
              ELSE IF semReq THEN ST_SEM_GNT
              ELSE IF dfxcReq THEN ST_DFXC_GNT
              ELSE ST_IDLE
  /\ UNCHANGED outputs
  /\ Inputs

\* A plausible bug: the port is handed over without the release handshake.
SemOwnsEagerHandover ==
  /\ state = ST_SEM_GNT
  /\ semGnt' = TRUE
  /\ state' = IF dfxcReq THEN ST_DFXC_GNT ELSE ST_SEM_GNT
  /\ UNCHANGED <<semRel, dfxcGnt, dfxcRel>>
  /\ Inputs

\* A plausible bug: SEM is never asked to release.
SemOwnsForever ==
  /\ state = ST_SEM_GNT
  /\ semGnt' = TRUE
  /\ UNCHANGED <<state, semRel, dfxcGnt, dfxcRel>>
  /\ Inputs

SemOwns ==
  /\ state = ST_SEM_GNT
  /\ semGnt' = TRUE
  /\ state' = IF dfxcReq THEN ST_SEM_WAIT_REL ELSE ST_SEM_GNT
  /\ UNCHANGED <<semRel, dfxcGnt, dfxcRel>>
  /\ Inputs

\* A plausible bug: the grant is dropped without waiting for SEM to withdraw.
SemEvicted ==
  /\ state = ST_SEM_WAIT_REL
  /\ semRel' = FALSE /\ semGnt' = FALSE /\ state' = ST_DFXC_GNT
  /\ UNCHANGED <<dfxcGnt, dfxcRel>>
  /\ Inputs

\* A plausible bug: the release request outlives the handover.
SemRelStuck ==
  /\ state = ST_SEM_WAIT_REL
  /\ IF semReq
       THEN semRel' = TRUE /\ UNCHANGED <<semGnt, state>>
       ELSE semRel' = TRUE /\ semGnt' = FALSE /\ state' = ST_DFXC_GNT
  /\ UNCHANGED <<dfxcGnt, dfxcRel>>
  /\ Inputs

SemWaitRel ==
  /\ state = ST_SEM_WAIT_REL
  /\ IF semReq
       THEN semRel' = TRUE /\ UNCHANGED <<semGnt, state>>
       ELSE semRel' = FALSE /\ semGnt' = FALSE /\ state' = ST_DFXC_GNT
  /\ UNCHANGED <<dfxcGnt, dfxcRel>>
  /\ Inputs

\* A plausible bug: the controller is never asked to release.
DfxcOwnsForever ==
  /\ state = ST_DFXC_GNT
  /\ dfxcGnt' = TRUE
  /\ UNCHANGED <<state, semGnt, semRel, dfxcRel>>
  /\ Inputs

DfxcOwns ==
  /\ state = ST_DFXC_GNT
  /\ dfxcGnt' = TRUE
  /\ state' = IF semReq THEN ST_DFXC_WAIT_REL ELSE ST_DFXC_GNT
  /\ UNCHANGED <<semGnt, semRel, dfxcRel>>
  /\ Inputs

\* "If error is not detected after PR, DFXC release ICAP"
DfxcDone == ~dfxcReq /\ loadingEnd /\ err = {}

DfxcWaitRel ==
  /\ state = ST_DFXC_WAIT_REL
  /\ IF DfxcDone
       THEN dfxcRel' = FALSE /\ dfxcGnt' = FALSE /\ state' = ST_SEM_GNT
       ELSE dfxcRel' = TRUE /\ UNCHANGED <<dfxcGnt, state>>
  /\ UNCHANGED <<semGnt, semRel>>
  /\ Inputs

Next == Idle \/ SemOwns \/ SemWaitRel \/ DfxcOwns \/ DfxcWaitRel

Spec == Init /\ [][Next]_vars
------------------------------------------------------------------------------
(* The clock never stops, and both masters answer a release request by      *)
(* withdrawing: that is what cap_rel asks of them.                          *)

SemYields  == semRel /\ semReq /\ semReq' = FALSE
DfxcYields == dfxcRel /\ dfxcReq /\ dfxcReq' = FALSE

FairSpec == Spec /\ WF_fsm(Next) /\ WF_semReq(SemYields) /\ WF_dfxcReq(DfxcYields)
------------------------------------------------------------------------------
TypeOK ==
  /\ state \in States
  /\ semGnt \in BOOLEAN /\ semRel \in BOOLEAN
  /\ dfxcGnt \in BOOLEAN /\ dfxcRel \in BOOLEAN
  /\ err \in SUBSET VS /\ loading \in SUBSET VS
  /\ loadingD1 \in SUBSET VS /\ loadingD2 \in SUBSET VS
  /\ loadingEnd \in BOOLEAN
  /\ semReq \in BOOLEAN /\ dfxcReq \in BOOLEAN

(* The port is never granted to both masters (the output mux at lines 84-86 *)
(* would silently give it to SEM in the middle of a partial bitstream).     *)
MutualExclusion == ~(semGnt /\ dfxcGnt)

(* A master is asked to release only a port it holds, and only one master   *)
(* is asked at a time.                                                      *)
ReleaseAsksTheOwner == /\ semRel => semGnt /\ ~dfxcRel
                       /\ dfxcRel => dfxcGnt /\ ~semRel

(* Why the two hold: what the registered outputs are in each FSM state.     *)
(* The outputs lag the state by one edge, so a grant may still be low in    *)
(* the state that grants it.                                                *)
GrantsFollowState ==
  /\ state = ST_IDLE => ~semGnt /\ ~dfxcGnt
  /\ state \in {ST_SEM_GNT, ST_SEM_WAIT_REL} => ~dfxcGnt
  /\ state \in {ST_DFXC_GNT, ST_DFXC_WAIT_REL} => ~semGnt
  /\ state = ST_SEM_WAIT_REL => semGnt
  /\ state = ST_DFXC_WAIT_REL => dfxcGnt
  /\ semRel => state = ST_SEM_WAIT_REL
  /\ dfxcRel => state = ST_DFXC_WAIT_REL

IInv == TypeOK /\ GrantsFollowState

(* The arbiter keeps the abstract arbiter's promises: never two owners, no  *)
(* eviction of a requesting master, an idle port between two owners.        *)
Owner == IF semGnt THEN "SEM" ELSE IF dfxcGnt THEN "DFXC" ELSE "NONE"
Requesting == (IF semReq THEN {"SEM"} ELSE {}) \union
              (IF dfxcReq THEN {"DFXC"} ELSE {})

Arbiter == INSTANCE IcapArbiter
             WITH Master <- {"SEM", "DFXC"}, NoMaster <- "NONE",
                  owner <- Owner, requesting <- Requesting

ImplementsArbiter == Arbiter!ASpec

(* A controller that requests the port and keeps requesting it gets it.     *)
DfxcServed == dfxcReq ~> (dfxcGnt \/ ~dfxcReq)

(* A SEM core that requests the port and keeps requesting it gets it, or at *)
(* least the controller is asked to release it.                             *)
SemHeard == semReq ~> (semGnt \/ dfxcRel \/ ~semReq)

==============================================================================
