---------------------------- MODULE CommandChain ----------------------------
(***************************************************************************)
(* What parseInput promises of a line: its commands are handed to the      *)
(* interpreter one by one, in order, and none is left over.                *)
(***************************************************************************)
EXTENDS Sequences

VARIABLES todo, done

vars == <<todo, done>>

Init == done = << >>

Execute ==
  /\ todo # << >>
  /\ done' = Append(done, Head(todo))
  /\ todo' = Tail(todo)

Spec == Init /\ [][Execute]_vars

AllExecuted == <>(todo = << >>)

=============================================================================
