----------------------------- MODULE MCDfxDemo -----------------------------
EXTENDS DfxDemo

\* vs_shift and vs_count, with two modules each, in the order of main.c.
MCVsm == <<"shift", "count">>
MCBitstreams == << [vs |-> "shift", rm |-> 1, size |-> 2],
                   [vs |-> "shift", rm |-> 0, size |-> 3],
                   [vs |-> "count", rm |-> 0, size |-> 1],
                   [vs |-> "count", rm |-> 1, size |-> 2] >>
==============================================================================
