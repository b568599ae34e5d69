------------------------------ MODULE MCBatch -------------------------------
(* Sessions of up to four commands over four scripts and one that is       *)
(* missing, in ten lines of linememory.                                    *)
EXTENDS BatchScheduler

CONSTANTS FirstPolicies, LaterPolicies

MCText == [ long   |-> <<Other, Other, Other, Other>>,
            short  |-> <<Other, Other>>,
            tie    |-> <<Other, Other>>,
            quits  |-> <<Other, QuitCmd>>,
            absent |-> <<Other>> ]

Exec(progs, pol, hash) ==
  [op |-> "exec", progs |-> progs, policy |-> pol, hash |-> hash]

First ==
  { Exec(s, pol, hash) :
      s \in { <<>>, <<"long">>, <<"tie", "short">>, <<"long", "tie", "short">>,
              <<"short", "quits">>, <<"short", "absent">>, <<"tie", "tie">>,
              <<"long", "tie", "short", "quits">> },
      pol \in FirstPolicies, hash \in BOOLEAN }

Later(pol) ==
  { Exec(s, p, hash) :
      s \in { <<>>, <<"short">>, <<"tie", "long">>, <<"short", "absent">> },
      p \in {pol} \union LaterPolicies, hash \in BOOLEAN }

\* The exec that starts, lines around a later exec, and an end.
MCInputs ==
  UNION { { <<c>> \o before \o <<d>> \o after :
              before \in { <<>>, <<Other>> }, d \in Later(c.policy),
              after \in { <<>>, <<Other>>, <<QuitCmd>> } } : c \in First }
=============================================================================
