----------------------------- MODULE IcapArbiter -----------------------------
(***************************************************************************)
(* What a configuration-port arbiter promises its masters, whatever it is   *)
(* made of: at most one master owns the port, a master that still requests *)
(* the port is never evicted, and the port lies idle between two owners.   *)
(***************************************************************************)
CONSTANTS Master,   \* the masters that share the port
          NoMaster  \* the owner of an idle port, not a master

VARIABLES owner,      \* who drives the port
          requesting  \* the masters that request it

avars == <<owner, requesting>>

AInit == /\ owner = NoMaster
         /\ requesting \in SUBSET Master

\* Requests come and go as the masters please.
AGrant(m) == /\ owner = NoMaster
             /\ owner' = m
             /\ requesting' \in SUBSET Master

\* The owner may be relieved only in a step before which it withdrew.
ARelease == /\ owner # NoMaster
            /\ owner \notin requesting
            /\ owner' = NoMaster
            /\ requesting' \in SUBSET Master

ARequest == /\ requesting' \in SUBSET Master
            /\ UNCHANGED owner

ANext == \/ \E m \in Master : AGrant(m)
         \/ ARelease
         \/ ARequest

ASpec == AInit /\ [][ANext]_avars
==============================================================================
