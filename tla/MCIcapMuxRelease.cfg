\* The release condition of icap_mux.v:184 can miss the end of the load.
CONSTANT VS <- MCVS
SPECIFICATION CleanSpec
PROPERTY ReleasedAfterCleanLoad
