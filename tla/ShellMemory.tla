---------------------------- MODULE ShellMemory -----------------------------
(***************************************************************************)
(* shellmemory.c, slot by slot: mem_set_value looks for the name, then for *)
(* a slot that still bears the mark mem_init left ("none"), and writes the *)
(* slot's name before its value; mem_get_value looks for the name and      *)
(* copies the value.  There is no lock: the threads are the shell alone,   *)
(* or the workers of an MT exec, whose loops interleave at every slot they *)
(* compare and every field they read or write.                             *)
(***************************************************************************)
EXTENDS Naturals, FiniteSets

CONSTANTS Names,      \* names that set, print and echo are given
          Values,     \* values that set is given
          Threads,    \* who executes commands
          MEM_SIZE,
          Sentinel,   \* the mark of an empty slot
          NoneValue,  \* the value mem_init gives to a slot
          Unset,      \* what mem_get_value returns for an unknown name
          Idle

ASSUME ShellMemoryAssumption ==
  /\ MEM_SIZE \in Nat \ {0}
  /\ NoneValue \notin Values
  /\ Unset \notin Values \cup {NoneValue}
  /\ Idle \notin [op : {"set"}, name : Names, value : Values]
                    \cup [op : {"get"}, name : Names]

VARIABLES var, value,   \* the two fields of each slot of shellmemory
          pc,           \* where in its loops each thread is
          i,            \* the loop counter of each thread
          command,      \* its command
          answer        \* what its last mem_get_value returned

vars == <<var, value, pc, i, command, answer>>

Slots == 0 .. MEM_SIZE - 1

Sets == [op : {"set"}, name : Names, value : Values]
Gets == [op : {"get"}, name : Names]

-----------------------------------------------------------------------------
\* mem_init.
Init ==
  /\ var = [s \in Slots |-> Sentinel]
  /\ value = [s \in Slots |-> NoneValue]
  /\ pc = [t \in Threads |-> "idle"]
  /\ i = [t \in Threads |-> 0]
  /\ command = [t \in Threads |-> Idle]
  /\ answer = [t \in Threads |-> Unset]

At(t, label) == pc[t] = label

Goto(t, label) == pc' = [pc EXCEPT ![t] = label]

NextSlot(t) ==
  /\ i' = [i EXCEPT ![t] = @ + 1]
  /\ UNCHANGED pc

\* set VAR VALUE calls mem_set_value; print VAR, echo $VAR and my_mkdir $VAR
\* call mem_get_value.
Call(t, c) ==
  /\ At(t, "idle")
  /\ command' = [command EXCEPT ![t] = c]
  /\ i' = [i EXCEPT ![t] = 0]
  /\ Goto(t, IF c.op = "set" THEN "set" ELSE "get")
  /\ UNCHANGED <<var, value, answer>>

\* The first loop of mem_set_value.
FindName(t) ==
  /\ At(t, "set") /\ i[t] < MEM_SIZE
  /\ IF var[i[t]] = command[t].name
       THEN Goto(t, "overwrite") /\ UNCHANGED i
       ELSE NextSlot(t)
  /\ UNCHANGED <<var, value, command, answer>>

\* Mutant: the second loop goes on from where the first one ended.
NameNotFound_NotReset(t) ==
  /\ At(t, "set") /\ i[t] >= MEM_SIZE
  /\ Goto(t, "free")
  /\ UNCHANGED <<i, var, value, command, answer>>

NameNotFound(t) ==
  /\ At(t, "set") /\ i[t] >= MEM_SIZE
  /\ i' = [i EXCEPT ![t] = 0]
  /\ Goto(t, "free")
  /\ UNCHANGED <<var, value, command, answer>>

\* Mutant: the last slot is taken, free or not, rather than the set dropped.
IsFree_LastTaken(s) == var[s] = Sentinel \/ s = MEM_SIZE - 1

IsFree(s) == var[s] = Sentinel

\* The second loop: "Value does not exist, need to find a free spot".
FindFreeSpot(t) ==
  /\ At(t, "free") /\ i[t] < MEM_SIZE
  /\ IF IsFree(i[t])
       THEN Goto(t, "claim") /\ UNCHANGED i
       ELSE NextSlot(t)
  /\ UNCHANGED <<var, value, command, answer>>

\* Mutant: the slot at which the loop ends is taken without a look at it.
SetDropped_Claims(t) ==
  /\ At(t, "free") /\ i[t] >= MEM_SIZE
  /\ Goto(t, "claim")
  /\ UNCHANGED <<i, var, value, command, answer>>

\* The loop ends without a free spot: the set is dropped.
SetDropped(t) ==
  /\ At(t, "free") /\ i[t] >= MEM_SIZE
  /\ Goto(t, "idle")
  /\ UNCHANGED <<i, var, value, command, answer>>

WriteVar(t) ==
  /\ At(t, "claim")
  /\ var' = [var EXCEPT ![i[t]] = command[t].name]
  /\ Goto(t, "fill")
  /\ UNCHANGED <<i, value, command, answer>>

WriteValue(t) ==
  /\ At(t, "overwrite") \/ At(t, "fill")
  /\ value' = [value EXCEPT ![i[t]] = command[t].value]
  /\ Goto(t, "idle")
  /\ UNCHANGED <<i, var, command, answer>>

\* The loop of mem_get_value.
LookForName(t) ==
  /\ At(t, "get") /\ i[t] < MEM_SIZE
  /\ IF var[i[t]] = command[t].name
       THEN Goto(t, "copy") /\ UNCHANGED i
       ELSE NextSlot(t)
  /\ UNCHANGED <<var, value, command, answer>>

CopyValue(t) ==
  /\ At(t, "copy")
  /\ answer' = [answer EXCEPT ![t] = value[i[t]]]
  /\ Goto(t, "idle")
  /\ UNCHANGED <<i, var, value, command>>

\* "" in the third assignment, NULL ("Variable does not exist") in the others.
NoSuchName(t) ==
  /\ At(t, "get") /\ i[t] >= MEM_SIZE
  /\ answer' = [answer EXCEPT ![t] = Unset]
  /\ Goto(t, "idle")
  /\ UNCHANGED <<i, var, value, command>>

Next ==
  \E t \in Threads :
    \/ \E c \in Sets \cup Gets : Call(t, c)
    \/ FindName(t)
    \/ NameNotFound(t)
    \/ FindFreeSpot(t)
    \/ SetDropped(t)
    \/ WriteVar(t)
    \/ WriteValue(t)
    \/ LookForName(t)
    \/ CopyValue(t)
    \/ NoSuchName(t)

Spec == Init /\ [][Next]_vars

-----------------------------------------------------------------------------
\* The thread executes a set of a name for which a slot is to be claimed.
SetsNewName(t) ==
  /\ pc[t] # "idle"
  /\ command[t] \in Sets
  /\ \/ pc[t] = "fill"
     \/ /\ \E s \in Slots : var[s] = Sentinel
        /\ \A s \in Slots : var[s] # command[t].name

\* While a thread sets a new variable, no other executes a command: true of
\* the shell alone, and of workers that only use variables set before.
NewNamesAlone ==
  \A t, u \in Threads : SetsNewName(t) /\ t # u => pc[u] = "idle"

SpecNewNamesAlone == Init /\ [][Next /\ NewNamesAlone']_vars

-----------------------------------------------------------------------------
Labels == {"idle", "set", "overwrite", "free", "claim", "fill", "get", "copy"}

TypeOK ==
  /\ var \in [Slots -> Names \cup {Sentinel}]
  /\ value \in [Slots -> Values \cup {NoneValue}]
  /\ pc \in [Threads -> Labels]
  /\ i \in [Threads -> 0 .. MEM_SIZE]
  /\ command \in [Threads -> Sets \cup Gets \cup {Idle}]
  /\ answer \in [Threads -> Values \cup {NoneValue, Unset}]
  /\ \A t \in Threads :
       /\ pc[t] \in {"overwrite", "claim", "fill", "copy"} => i[t] \in Slots
       /\ pc[t] \in {"set", "overwrite", "free", "claim", "fill"} =>
            command[t] \in Sets
       /\ pc[t] \in {"get", "copy"} => command[t] \in Gets

\* A slot that set wrote keeps its name: the search for a free spot of
\* mem_set_value (shellmemory.c, lines 51-58) never takes a slot in which a
\* value was stored.
ClaimsOnlyFreeSpots ==
  [][\A s \in Slots : var'[s] # var[s] => value[s] = NoneValue]_vars

\* The slots that hold a variable; one whose value is still to be written
\* does not yet.
BeingFilled(s) == \E t \in Threads : pc[t] = "fill" /\ i[t] = s

Taken == { s \in Slots : var[s] # Sentinel /\ ~BeingFilled(s) }

Holds(n, s) == s \in Taken /\ var[s] = n

MapOf ==
  [n \in Names |->
     IF \E s \in Slots : Holds(n, s)
       THEN value[CHOOSE s \in Slots : Holds(n, s)]
       ELSE Unset]

\* The command a thread executes, until its effect.
Request ==
  [t \in Threads |-> IF pc[t] = "idle" THEN Idle ELSE command[t]]

Abstract == INSTANCE VariableMap WITH
              map     <- MapOf,
              room    <- Cardinality(Slots \ Taken),
              request <- Request

\* The two loops over the slots of shellmemory.c behave as a map: a set of a
\* known name replaces its value, a set of a new name takes one of the free
\* slots or, when there is none, is dropped, and a lookup returns what the
\* last set of the name stored.
ImplementsVariableMap == Abstract!Spec

=============================================================================
