---------------------------- MODULE MCWorkerPool ----------------------------
(* Two workers, and one program in each exec command. *)
EXTENDS WorkerPool

\* A slice of two expires once in the middle of the program and once with its
\* last line.
MCPrograms == <<4>>

\* Bound: the user quits, or the input ends, in a session of at most one exec at
\* any time, and in one of two execs when one of the workers has ended.
QuitsWhenBounded ==
  Quitting' /\ ~Quitting => execs <= 1 \/ \E w \in Workers : at[w] = "ended"

PoolSpec == Init /\ [][Next /\ QuitsWhenBounded]_vars /\ Fairness
=============================================================================
