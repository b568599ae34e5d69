--------------------------- MODULE MCPagingRerun ----------------------------
(* The same script run twice, in a store of two frames. *)
EXTENDS DemandPaging

MCText == [ prog |-> [i \in 1 .. 8 |-> [op |-> "other"]] ]

MCCommands == { [name |-> "run", progs |-> <<"prog">>, policy |-> "RR"] }
=============================================================================
