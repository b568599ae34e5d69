--------------------------- MODULE MCPagingFresh ----------------------------
(***************************************************************************)
(* One exec, round robin with a slice of two lines, of one to three        *)
(* different scripts in a store that holds exactly two pages of each of    *)
(* three scripts.  Every script has two lines or more: a shorter one is    *)
(* created from pointers that were never set (CreateReadsUnset, which      *)
(* MCPagingSession's scripts reach).                                       *)
(***************************************************************************)
EXTENDS DemandPaging

Other(n) == [i \in 1 .. n |-> [op |-> "other"]]

MCText ==
  [ s11 |-> Other(11), s8 |-> Other(8), s7 |-> Other(7), s6 |-> Other(6),
    s4 |-> Other(4), s3 |-> Other(3), s2 |-> Other(2),
    sq |-> Other(7) \o <<[op |-> "quit"]>> \o Other(2) ]

MCScripts == DOMAIN MCText

\* exec takes one to three programs.
MCCommands ==
  { [name |-> "exec", progs |-> ps, policy |-> "RR"] :
      ps \in UNION { { q \in [1 .. n -> MCScripts] :
                         \A i, j \in 1 .. n : q[i] = q[j] => i = j } :
                     n \in 1 .. 3 } }

MCDirs == {"home"}
=============================================================================
