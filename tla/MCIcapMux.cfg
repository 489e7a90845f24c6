\* Safety for arbitrary inputs, liveness when both masters yield on request.
CONSTANT VS <- MCVS
SPECIFICATION FairSpec
INVARIANT MutualExclusion
INVARIANT ReleaseAsksTheOwner
PROPERTY ImplementsArbiter
PROPERTY DfxcServed
PROPERTY SemHeard
