---------------------------- MODULE VariableMap -----------------------------
(***************************************************************************)
(* What the shell memory promises to the commands set, print, echo and     *)
(* my_mkdir: a map from variable names to values with room for a bounded   *)
(* number of names.  Every request is served at once, against the map as   *)
(* it is then.  ShellMemory implements this module.                        *)
(***************************************************************************)
EXTENDS Naturals

CONSTANTS Names, Values, Threads,
          Unset,      \* what a lookup of an unknown name returns; no value
          Idle        \* a thread with no request

VARIABLES map,       \* the value of each name
          room,      \* how many more names can be set
          request,   \* the request of each thread
          answer     \* what its last lookup returned

vars == <<map, room, request, answer>>

Sets == [op : {"set"}, name : Names, value : Values]
Gets == [op : {"get"}, name : Names]

Commands == Sets \cup Gets

Init ==
  /\ map \in [Names -> Values \cup {Unset}]
  /\ room \in Nat
  /\ request = [t \in Threads |-> Idle]
  /\ answer = [t \in Threads |-> Unset]

Ask(t, c) ==
  /\ request[t] = Idle
  /\ request' = [request EXCEPT ![t] = c]
  /\ UNCHANGED <<map, room, answer>>

Served(t) == request' = [request EXCEPT ![t] = Idle]

Overwrite(t) ==
  /\ request[t] \in Sets
  /\ map[request[t].name] # Unset
  /\ map' = [map EXCEPT ![request[t].name] = request[t].value]
  /\ Served(t)
  /\ UNCHANGED <<room, answer>>

Add(t) ==
  /\ request[t] \in Sets
  /\ map[request[t].name] = Unset
  /\ room > 0
  /\ map' = [map EXCEPT ![request[t].name] = request[t].value]
  /\ room' = room - 1
  /\ Served(t)
  /\ UNCHANGED answer

\* With no room left a new name is dropped, and nothing else is lost.
Drop(t) ==
  /\ request[t] \in Sets
  /\ map[request[t].name] = Unset
  /\ room = 0
  /\ Served(t)
  /\ UNCHANGED <<map, room, answer>>

Lookup(t) ==
  /\ request[t] \in Gets
  /\ answer' = [answer EXCEPT ![t] = map[request[t].name]]
  /\ Served(t)
  /\ UNCHANGED <<map, room>>

Next ==
  \E t \in Threads :
    \/ \E c \in Commands : Ask(t, c)
    \/ Overwrite(t)
    \/ Add(t)
    \/ Drop(t)
    \/ Lookup(t)

Spec == Init /\ [][Next]_vars

=============================================================================
