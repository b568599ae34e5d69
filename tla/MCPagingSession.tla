-------------------------- MODULE MCPagingSession ---------------------------
(***************************************************************************)
(* Sessions of up to MaxCommands commands in a small frame store: scripts  *)
(* run again, duplicates, missing files, scripts that change directory,    *)
(* truncate a script that is being run, or quit, every policy, and the     *)
(* accesses outside the arrays that end the shell.                         *)
(***************************************************************************)
EXTENDS DemandPaging

Other(n) == [i \in 1 .. n |-> [op |-> "other"]]
Do(instr) == <<instr>>

MCText ==
  [ long  |-> Other(8),
    short |-> Other(4),
    empty |-> <<>>,
    cd    |-> Other(2) \o Do([op |-> "my_cd", dir |-> "sub"]) \o Other(4),
    touch |-> Other(1) \o Do([op |-> "my_touch", file |-> "long"]) \o Other(1),
    quit  |-> Other(1) \o Do([op |-> "quit"]) \o Other(1),
    none  |-> Other(1) ]

MCScripts == DOMAIN MCText

MCMissing == {"none"}

MCDirs == {"home", "sub"}

Exec(ps, pol) == [name |-> "exec", progs |-> ps, policy |-> pol]

MCCommands ==
  { [name |-> "run", progs |-> <<s>>, policy |-> "RR"] : s \in MCScripts }
  \cup { Exec(<<s, t>>, "RR") : s \in {"long", "cd", "quit"}, t \in {"long", "touch", "empty"} }
  \cup { Exec(<<"long", "long", "cd">>, "RR30"), Exec(<<"touch", "none", "long">>, "RR30"),
         Exec(<<"short">>, "FCFS"), Exec(<<"none">>, "SJF"),
         Exec(<<"short">>, "LIFO"),
         [name |-> "quit", progs |-> <<>>, policy |-> "RR"] }
=============================================================================
