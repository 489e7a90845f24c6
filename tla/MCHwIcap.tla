------------------------------- MODULE MCHwIcap -------------------------------
(* HwIcap with few words for each family, one frame address, and an IDCODE *)
(* that is listed or stands behind the entries that are looked at.           *)
EXTENDS HwIcap

MCExtraWords == [f \in Families |-> IF f = "7series" THEN 0 ELSE 1]
MCNumNoops == [f \in Families |-> 1]
MCAddresses == {[block |-> 1, top |-> 0, row |-> 2, column |-> 5, minor |-> 3]}
MCDeviceCodes == {<<"ultra_plus", 13>>, <<"ultra_plus", 14>>}
==============================================================================
