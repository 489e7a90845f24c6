---------------------------- MODULE IcapMuxProofs ----------------------------
(***************************************************************************)
(* The ICAP arbiter for any set of virtual sockets and any behaviour of    *)
(* its inputs: its invariant, mutual exclusion of the grants, and that it  *)
(* implements the abstract arbiter.                                        *)
(***************************************************************************)
EXTENDS IcapMux, TLAPS

(* The status registers keep their types whatever beats arrive.             *)
LEMMA InputsType ==
  ASSUME TypeOK, Inputs
  PROVE  /\ err' \in SUBSET VS /\ loading' \in SUBSET VS
         /\ loadingD1' \in SUBSET VS /\ loadingD2' \in SUBSET VS
         /\ loadingEnd' \in BOOLEAN
         /\ semReq' \in BOOLEAN /\ dfxcReq' \in BOOLEAN
BY DEF TypeOK, Inputs, SampleStatus, Requests

(* The five FSM states are different values.                                *)
LEMMA StatesDistinct ==
  /\ ST_IDLE \notin {ST_SEM_GNT, ST_SEM_WAIT_REL, ST_DFXC_GNT, ST_DFXC_WAIT_REL}
  /\ ST_SEM_GNT \notin {ST_SEM_WAIT_REL, ST_DFXC_GNT, ST_DFXC_WAIT_REL}
  /\ ST_SEM_WAIT_REL \notin {ST_DFXC_GNT, ST_DFXC_WAIT_REL}
  /\ ST_DFXC_GNT # ST_DFXC_WAIT_REL
BY DEF ST_IDLE, ST_SEM_GNT, ST_SEM_WAIT_REL, ST_DFXC_GNT, ST_DFXC_WAIT_REL

(* Power-up values of the registers.                                         *)
LEMMA InitInv == Init => IInv
BY DEF Init, IInv, TypeOK, GrantsFollowState, States, ST_IDLE, ST_SEM_GNT,
       ST_SEM_WAIT_REL, ST_DFXC_GNT, ST_DFXC_WAIT_REL

(* Every edge keeps the registered outputs in step with the FSM state.      *)
LEMMA StepInv == IInv /\ [Next]_vars => IInv'
<1> SUFFICES ASSUME IInv, [Next]_vars PROVE IInv'
  OBVIOUS
<1>t. TypeOK /\ GrantsFollowState
  BY DEF IInv
<1>1. CASE Idle
  <2>1. TypeOK'
    BY <1>t, <1>1, InputsType DEF Idle, TypeOK, States, outputs
  <2>2. GrantsFollowState'
    BY <1>t, <1>1, StatesDistinct DEF Idle, GrantsFollowState, TypeOK, outputs
  <2> QED BY <2>1, <2>2 DEF IInv
<1>2. CASE SemOwns
  <2>1. TypeOK'
    BY <1>t, <1>2, InputsType DEF SemOwns, TypeOK, States
  <2>2. GrantsFollowState'
    BY <1>t, <1>2, StatesDistinct DEF SemOwns, GrantsFollowState, TypeOK
  <2> QED BY <2>1, <2>2 DEF IInv
<1>3. CASE SemWaitRel
  <2>1. TypeOK'
    BY <1>t, <1>3, InputsType DEF SemWaitRel, TypeOK, States
  <2>2. GrantsFollowState'
    BY <1>t, <1>3, StatesDistinct DEF SemWaitRel, GrantsFollowState, TypeOK
  <2> QED BY <2>1, <2>2 DEF IInv
<1>4. CASE DfxcOwns
  <2>1. TypeOK'
    BY <1>t, <1>4, InputsType DEF DfxcOwns, TypeOK, States
  <2>2. GrantsFollowState'
    BY <1>t, <1>4, StatesDistinct DEF DfxcOwns, GrantsFollowState, TypeOK
  <2> QED BY <2>1, <2>2 DEF IInv
<1>5. CASE DfxcWaitRel
  <2>1. TypeOK'
    BY <1>t, <1>5, InputsType DEF DfxcWaitRel, TypeOK, States
  <2>2. GrantsFollowState'
    BY <1>t, <1>5, StatesDistinct DEF DfxcWaitRel, GrantsFollowState, TypeOK
  <2> QED BY <2>1, <2>2 DEF IInv
<1>6. CASE UNCHANGED vars
  BY <1>t, <1>6 DEF IInv, TypeOK, GrantsFollowState, vars, outputs, tracking
<1> QED
  BY <1>1, <1>2, <1>3, <1>4, <1>5, <1>6 DEF Next

(* The invariant holds in every reachable state, whatever the inputs do.    *)
THEOREM Invariance == Spec => []IInv
BY InitInv, StepInv, PTL DEF Spec

(* The two grants are never high together.                                  *)
THEOREM GrantsExclude == Spec => []MutualExclusion
<1>1. IInv => MutualExclusion
  BY DEF IInv, TypeOK, States, GrantsFollowState, MutualExclusion
<1> QED BY <1>1, Invariance, PTL

(* Only the owner of the port is asked to release it.                       *)
THEOREM OwnerReleases == Spec => []ReleaseAsksTheOwner
<1>1. IInv => ReleaseAsksTheOwner
  BY StatesDistinct DEF IInv, GrantsFollowState, ReleaseAsksTheOwner
<1> QED BY <1>1, Invariance, PTL
------------------------------------------------------------------------------
(* Refinement: each edge is a grant, a release, or leaves the owner alone.  *)

(* The mapped request set is a set of masters.                               *)
LEMMA RequestingType == Requesting' \in SUBSET {"SEM", "DFXC"}
BY DEF Requesting

(* One edge of the clock is one step of the abstract arbiter, or none.       *)
LEMMA StepRefines == IInv /\ IInv' /\ [Next]_vars => [Arbiter!ANext]_(Arbiter!avars)
<1> SUFFICES ASSUME IInv, IInv', [Next]_vars PROVE [Arbiter!ANext]_(Arbiter!avars)
  OBVIOUS
<1>t. TypeOK /\ GrantsFollowState
  BY DEF IInv
<1>a. ASSUME UNCHANGED <<semGnt, dfxcGnt>> PROVE Arbiter!ANext
  BY <1>a, RequestingType DEF Arbiter!ANext, Arbiter!ARequest, Owner
<1>1. CASE Idle
  BY <1>a, <1>1 DEF Idle, outputs
<1>2. CASE SemOwns
  <2>1. CASE semGnt
    BY <1>a, <1>2, <2>1, <1>t DEF SemOwns, TypeOK
  <2>2. CASE ~semGnt
    <3>1. Owner = "NONE" /\ Owner' = "SEM"
      BY <1>2, <2>2, <1>t DEF SemOwns, Owner, GrantsFollowState
    <3>2. Arbiter!AGrant("SEM")
      BY <3>1, RequestingType DEF Arbiter!AGrant
    <3> QED BY <3>2 DEF Arbiter!ANext
  <2> QED BY <2>1, <2>2
<1>3. CASE SemWaitRel
  <2>1. CASE semReq
    BY <1>a, <1>3, <2>1 DEF SemWaitRel
  <2>2. CASE ~semReq
    <3>1. Owner = "SEM" /\ Owner' = "NONE" /\ "SEM" \notin Requesting
      BY <1>3, <2>2, <1>t, StatesDistinct
         DEF SemWaitRel, Owner, GrantsFollowState, Requesting
    <3>2. Arbiter!ARelease
      BY <3>1, RequestingType DEF Arbiter!ARelease
    <3> QED BY <3>2 DEF Arbiter!ANext
  <2> QED BY <2>1, <2>2
<1>4. CASE DfxcOwns
  <2>1. CASE dfxcGnt
    BY <1>a, <1>4, <2>1, <1>t DEF DfxcOwns, TypeOK
  <2>2. CASE ~dfxcGnt
    <3>1. Owner = "NONE" /\ Owner' = "DFXC"
      BY <1>4, <2>2, <1>t DEF DfxcOwns, Owner, GrantsFollowState
    <3>2. Arbiter!AGrant("DFXC")
      BY <3>1, RequestingType DEF Arbiter!AGrant
    <3> QED BY <3>2 DEF Arbiter!ANext
  <2> QED BY <2>1, <2>2
<1>5. CASE DfxcWaitRel
  <2>1. CASE ~DfxcDone
    BY <1>a, <1>5, <2>1 DEF DfxcWaitRel
  <2>2. CASE DfxcDone
    <3>1. Owner = "DFXC" /\ Owner' = "NONE" /\ "DFXC" \notin Requesting
      BY <1>5, <2>2, <1>t, StatesDistinct
         DEF DfxcWaitRel, DfxcDone, Owner, GrantsFollowState, Requesting
    <3>2. Arbiter!ARelease
      BY <3>1, RequestingType DEF Arbiter!ARelease
    <3> QED BY <3>2 DEF Arbiter!ANext
  <2> QED BY <2>1, <2>2
<1>6. CASE UNCHANGED vars
  BY <1>6 DEF vars, outputs, Owner, Requesting, Arbiter!avars
<1> QED
  BY <1>1, <1>2, <1>3, <1>4, <1>5, <1>6 DEF Next

(* icap_mux.v implements the abstract arbiter: never two owners, never an   *)
(* eviction of a requesting master, an idle port between two owners.        *)
THEOREM Refinement == Spec => ImplementsArbiter
<1>1. Init => Arbiter!AInit
  BY DEF Init, Arbiter!AInit, Owner, Requesting
<1> QED
  BY <1>1, StepRefines, Invariance, PTL DEF Spec, ImplementsArbiter, Arbiter!ASpec
==============================================================================
