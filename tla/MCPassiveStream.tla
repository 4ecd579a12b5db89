------------------------ MODULE MCPassiveStream ------------------------
(* Instance of PassiveStream: seven packets, of which two are read         *)
(* answers for the same registers, and cuts within a header, within the    *)
(* values and across packets.                                              *)
EXTENDS PassiveStream

MCDatalog == <<66, 74, 49>>
MCInverter == <<161, 73, 26, 78, 86, 49, 50, 51, 52, 53, 54>>

Low  == [function |-> 4, register |-> 4, values |-> <<513, 161>>]
High == [function |-> 4, register |-> 5, values |-> <<65535, 7>>]
Held == [function |-> 3, register |-> 21, values |-> <<26>>]
Beat == [function |-> 193, register |-> 0, values |-> << >>]
Echo == [function |-> 6, register |-> 60, values |-> <<41246>>]
Many == [function |-> 16, register |-> 500, values |-> <<161, 26, 300>>]
Bad  == [function |-> 134, register |-> 0, values |-> <<3>>]

MCPackets == {Low, High, Held, Beat, Many, Echo, Bad}
MCBroadcast == {Low, High, Beat}
=============================================================================
