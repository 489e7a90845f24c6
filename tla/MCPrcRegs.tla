----------------------------- MODULE MCPrcRegs -----------------------------
EXTENDS PrcRegs

\* The layout of xparameters.h: two sockets, two rows in each table.
MCConfigTable ==
  << [DeviceId |-> 0, BaseAddress |-> 1151401984, NumberOfVsms |-> 2,
      RegVsmLsb |-> 7, RegBankLsb |-> 5, RegSelectLsb |-> 2] >>

\* Alternating bits, the other ones, and all bits of each field.
MCControls == {<<1, 0, 2, 85>>, <<2, 1, 1, 170>>, <<3, 1, 3, 255>>}

\* Signals of a user control command: no two are the same in all three.
MCSignals == {<<0, 0, 0, 1, 1>>, <<0, 1, 1, 0, 0>>, <<1, 0, 1, 0, 1>>}

\* A manager that is empty, and in each field of its status.
Empty == [shutdown |-> 0, state |-> 0, error |-> 0, rm |-> 0, bs |-> 0]
MCManager == {Empty, [Empty EXCEPT !.shutdown = 1, !.state = 1, !.error = 4],
              [Empty EXCEPT !.state = 4, !.rm = 255], [Empty EXCEPT !.error = 15],
              [Empty EXCEPT !.state = 7, !.error = 14, !.bs = 255]}
==============================================================================
