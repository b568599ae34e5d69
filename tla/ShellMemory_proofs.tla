------------------------- MODULE ShellMemory_proofs -------------------------
(***************************************************************************)
(* When no command can name the mark of an empty slot, and a thread that   *)
(* sets a new variable does so alone, the loops of shellmemory.c implement *)
(* VariableMap, for every size of the table, every number of threads and   *)
(* every set of names and values.                                          *)
(***************************************************************************)
EXTENDS ShellMemory, FiniteSetTheorems, TLAPS

Untypable == Sentinel \notin Names

\* No two slots hold the same name.
NamesDistinct ==
  \A r, s \in Slots : var[r] = var[s] /\ var[r] # Sentinel => r = s

\* A slot has a value exactly when it holds a variable.
ValueWhenTaken ==
  \A s \in Slots : value[s] \in Values <=> s \in Taken

\* What each loop has established when it stands at slot i[t].
SearchedBy(t) ==
  /\ pc[t] \in {"set", "get"} =>
       \A s \in Slots : s < i[t] => var[s] # command[t].name
  /\ pc[t] \in {"free", "claim"} =>
       \A s \in Slots : var[s] # command[t].name
  /\ pc[t] = "free" => \A s \in Slots : s < i[t] => var[s] # Sentinel
  /\ pc[t] = "claim" => var[i[t]] = Sentinel
  /\ pc[t] \in {"overwrite", "copy", "fill"} => var[i[t]] = command[t].name

Searched == \A t \in Threads : SearchedBy(t)

IInv == TypeOK /\ NamesDistinct /\ ValueWhenTaken /\ Searched /\ NewNamesAlone

-----------------------------------------------------------------------------
LEMMA InitTypeOK == Init => TypeOK
<1> SUFFICES ASSUME Init PROVE TypeOK
  OBVIOUS
<1>1. var \in [Slots -> Names \cup {Sentinel}]
  BY DEF Init
<1>2. value \in [Slots -> Values \cup {NoneValue}]
  BY DEF Init
<1> QED
  BY <1>1, <1>2, ShellMemoryAssumption DEF Init, TypeOK, Labels

LEMMA InitIInv == ASSUME Untypable PROVE Init => IInv
<1> SUFFICES ASSUME Init PROVE IInv
  OBVIOUS
<1> USE ShellMemoryAssumption
<1>3. NamesDistinct
  BY DEF Init, NamesDistinct, Slots
<1>4. ValueWhenTaken
  BY DEF Init, ValueWhenTaken, Taken, BeingFilled, Slots
<1>5. Searched
  BY DEF Init, Searched, SearchedBy
<1> QED
  BY <1>3, <1>4, <1>5, InitTypeOK
     DEF IInv, NewNamesAlone, SetsNewName, Init

LEMMA NextTypeOK == TypeOK /\ [Next]_vars => TypeOK'
<1> SUFFICES ASSUME TypeOK, [Next]_vars PROVE TypeOK'
  OBVIOUS
<1> USE ShellMemoryAssumption DEF TypeOK
<1>1. CASE UNCHANGED vars
  BY <1>1 DEF vars
<1>2. ASSUME NEW t \in Threads, NEW c \in Sets \cup Gets, Call(t, c)
      PROVE  TypeOK'
  BY <1>2, Z3 DEF Call, At, Goto, Labels, Sets, Gets
<1>3. ASSUME NEW t \in Threads,
             FindName(t) \/ FindFreeSpot(t) \/ LookForName(t)
      PROVE  TypeOK'
  <2>0. /\ i[t] < MEM_SIZE /\ i[t] \in 0 .. MEM_SIZE
        /\ UNCHANGED <<var, value, command, answer>>
    BY <1>3 DEF FindName, FindFreeSpot, LookForName
  <2>1. CASE NextSlot(t)
    <3>1. i' = [i EXCEPT ![t] = i[t] + 1] /\ pc' = pc
      BY <2>1 DEF NextSlot
    <3>2. i' \in [Threads -> 0 .. MEM_SIZE]
      BY <2>0, <3>1
    <3>3. pc[t] \in {"set", "free", "get"}
      BY <1>3 DEF FindName, FindFreeSpot, LookForName, At
    <3> QED
      BY <2>0, <3>1, <3>2, <3>3
  <2>2. CASE /\ UNCHANGED i
             /\ \/ pc[t] = "set" /\ Goto(t, "overwrite")
                \/ pc[t] = "free" /\ Goto(t, "claim")
                \/ pc[t] = "get" /\ Goto(t, "copy")
    <3>1. i[t] \in Slots
      BY <2>0 DEF Slots
    <3>2. PICK label \in {"overwrite", "claim", "copy"} :
            /\ pc' = [pc EXCEPT ![t] = label]
            /\ label \in {"overwrite", "claim"} => command[t] \in Sets
            /\ label = "copy" => command[t] \in Gets
      BY <2>2 DEF Goto
    <3>3. pc' \in [Threads -> Labels]
      BY <3>2 DEF Labels
    <3> QED
      BY <2>0, <2>2, <3>1, <3>2, <3>3
  <2> QED
    BY <1>3, <2>1, <2>2 DEF FindName, FindFreeSpot, LookForName, At
<1>4. ASSUME NEW t \in Threads, WriteVar(t)
      PROVE  TypeOK'
  BY <1>4 DEF WriteVar, At, Goto, Labels, Sets
<1>6. ASSUME NEW t \in Threads, WriteValue(t)
      PROVE  TypeOK'
  BY <1>6 DEF WriteValue, At, Goto, Labels, Sets
<1>5. ASSUME NEW t \in Threads,
             NameNotFound(t) \/ SetDropped(t) \/ CopyValue(t) \/ NoSuchName(t)
      PROVE  TypeOK'
  <2>1. CASE NameNotFound(t)
    BY <2>1 DEF NameNotFound, At, Goto, Labels
  <2>2. CASE SetDropped(t)
    BY <2>2 DEF SetDropped, At, Goto, Labels
  <2>3. CASE CopyValue(t)
    <3>1. value[i[t]] \in Values \cup {NoneValue}
      BY <2>3 DEF CopyValue, At
    <3> QED
      BY <2>3, <3>1 DEF CopyValue, At, Goto, Labels
  <2>4. CASE NoSuchName(t)
    BY <2>4 DEF NoSuchName, At, Goto, Labels
  <2> QED
    BY <1>5, <2>1, <2>2, <2>3, <2>4
<1> HIDE DEF TypeOK
<1> QED
  BY <1>1, <1>2, <1>3, <1>4, <1>5, <1>6 DEF Next

NextAlone == Next /\ NewNamesAlone'

\* A thread that claims or fills a slot is the only one that is not idle.
LEMMA ClaimsAlone ==
  ASSUME IInv
  PROVE  \A t, u \in Threads :
           pc[t] \in {"claim", "fill"} /\ u # t => pc[u] = "idle"
<1> SUFFICES ASSUME NEW t \in Threads, NEW u \in Threads,
                    pc[t] \in {"claim", "fill"}, u # t
             PROVE  pc[u] = "idle"
  OBVIOUS
<1>1. SetsNewName(t)
  BY DEF IInv, TypeOK, Searched, SearchedBy, SetsNewName
<1> QED
  BY <1>1 DEF IInv, NewNamesAlone

LEMMA NextIInv ==
  ASSUME Untypable
  PROVE  IInv /\ [NextAlone]_vars => IInv'
<1> SUFFICES ASSUME IInv, [NextAlone]_vars PROVE IInv'
  OBVIOUS
<1> USE ShellMemoryAssumption
<1>0. TypeOK /\ TypeOK'
  BY NextTypeOK DEF IInv, NextAlone
<1>1. CASE UNCHANGED vars
  BY <1>0, <1>1 DEF vars, IInv, NamesDistinct, ValueWhenTaken, Taken,
                    BeingFilled, Searched, SearchedBy, NewNamesAlone, SetsNewName
<1>6. NewNamesAlone' \/ UNCHANGED vars
  BY DEF NextAlone
<1> DEFINE Rest == NamesDistinct /\ ValueWhenTaken /\ Searched
<1>2. ASSUME NEW t \in Threads, NEW c \in Sets \cup Gets, Call(t, c)
      PROVE  Rest'
  <2>1. Taken' = Taken
    BY <1>0, <1>2 DEF Call, At, Goto, Taken, BeingFilled, TypeOK
  <2>2. NamesDistinct' /\ ValueWhenTaken'
    BY <1>2, <2>1 DEF Call, IInv, NamesDistinct, ValueWhenTaken
  <2>3. Searched'
    BY <1>0, <1>2 DEF Call, At, Goto, IInv, Searched, SearchedBy, Slots, TypeOK
  <2> QED
    BY <2>2, <2>3
<1>3. ASSUME NEW t \in Threads,
             FindName(t) \/ NameNotFound(t) \/ FindFreeSpot(t)
               \/ SetDropped(t) \/ LookForName(t) \/ CopyValue(t)
               \/ NoSuchName(t)
      PROVE  Rest'
  <2> USE <1>0, <1>3 DEF FindName, NameNotFound, FindFreeSpot, SetDropped,
            LookForName, CopyValue, NoSuchName, At, Goto, NextSlot
  <2>1. UNCHANGED <<var, value>>
    OBVIOUS
  <2>2. Taken' = Taken
    BY DEF Taken, BeingFilled, TypeOK
  <2>3. NamesDistinct' /\ ValueWhenTaken'
    BY <2>1, <2>2 DEF IInv, NamesDistinct, ValueWhenTaken
  <2>4. SearchedBy(t)'
    <3>1. SearchedBy(t)
      BY DEF IInv, Searched
    <3> QED
      BY <3>1 DEF IsFree, SearchedBy, Slots, TypeOK
  <2>5. ASSUME NEW u \in Threads, u # t
        PROVE  SearchedBy(u)'
    <3>1. SearchedBy(u)
      BY DEF IInv, Searched
    <3>2. UNCHANGED <<pc[u], i[u], var, command>>
      BY <2>5 DEF TypeOK
    <3> QED
      BY <3>1, <3>2 DEF SearchedBy
  <2> QED
    BY <2>3, <2>4, <2>5 DEF Searched
<1>4. ASSUME NEW t \in Threads, WriteVar(t)
      PROVE  Rest'
  <2>0. /\ pc[t] = "claim" /\ i[t] \in Slots /\ command[t].name \in Names
        /\ var' = [var EXCEPT ![i[t]] = command[t].name]
        /\ pc' = [pc EXCEPT ![t] = "fill"]
        /\ UNCHANGED <<i, value, command>>
    BY <1>0, <1>4 DEF WriteVar, At, Goto, TypeOK, Sets
  <2>1. /\ var[i[t]] = Sentinel
        /\ \A s \in Slots : var[s] # command[t].name
    BY <2>0 DEF IInv, Searched, SearchedBy
  <2>2. NamesDistinct'
    BY <1>0, <2>0, <2>1 DEF IInv, NamesDistinct, TypeOK
  <2>3. Taken' = Taken
    BY <1>0, <2>0, <2>1, ClaimsAlone DEF Taken, BeingFilled, TypeOK
  <2>4. ValueWhenTaken'
    BY <2>0, <2>3 DEF IInv, ValueWhenTaken
  <2>5. Searched'
    BY <1>0, <2>0, <2>1, ClaimsAlone DEF IInv, Searched, SearchedBy, TypeOK
  <2> QED
    BY <2>2, <2>4, <2>5
<1>5. ASSUME NEW t \in Threads, WriteValue(t)
      PROVE  Rest'
  <2>0. /\ pc[t] \in {"overwrite", "fill"} /\ i[t] \in Slots
        /\ command[t].value \in Values /\ command[t].name \in Names
        /\ value' = [value EXCEPT ![i[t]] = command[t].value]
        /\ pc' = [pc EXCEPT ![t] = "idle"]
        /\ UNCHANGED <<i, var, command>>
    BY <1>0, <1>5 DEF WriteValue, At, Goto, TypeOK, Sets
  <2>1. var[i[t]] = command[t].name
    BY <2>0 DEF IInv, Searched, SearchedBy
  <2>2. Taken' = Taken \cup {i[t]}
    BY <1>0, <2>0, <2>1, ClaimsAlone DEF Taken, BeingFilled, Untypable, TypeOK
  <2>3. ValueWhenTaken'
    BY <1>0, <2>0, <2>2 DEF IInv, ValueWhenTaken, TypeOK
  <2>4. NamesDistinct' /\ Searched'
    BY <1>0, <2>0 DEF IInv, NamesDistinct, Searched, SearchedBy, TypeOK
  <2> QED
    BY <2>3, <2>4
<1> QED
  BY <1>0, <1>1, <1>2, <1>3, <1>4, <1>5, <1>6 DEF NextAlone, Next, IInv

\* The types of the table and of the threads' positions in it.
THEOREM TypeCorrect == Spec => []TypeOK
BY InitTypeOK, NextTypeOK, PTL DEF Spec

\* A slot in which a value was stored keeps its name.
THEOREM SpotsKept ==
  ASSUME Untypable
  PROVE  SpecNewNamesAlone => ClaimsOnlyFreeSpots
<1>1. IInv /\ [NextAlone]_vars =>
        [\A s \in Slots : var'[s] # var[s] => value[s] = NoneValue]_vars
  <2> SUFFICES ASSUME IInv, NextAlone, NEW s \in Slots, var'[s] # var[s]
               PROVE  value[s] = NoneValue
    BY DEF vars
  <2>1. PICK t \in Threads : WriteVar(t)
    BY DEF NextAlone, Next, Call, FindName, NameNotFound, FindFreeSpot, SetDropped,
           WriteValue, LookForName, CopyValue, NoSuchName
  <2>2. pc[t] = "claim" /\ s = i[t]
    BY <2>1 DEF WriteVar, At, IInv, TypeOK
  <2>3. s \notin Taken
    BY <2>2 DEF IInv, Searched, SearchedBy, Taken
  <2> QED
    BY <2>3 DEF IInv, ValueWhenTaken, TypeOK
<1> QED
  BY <1>1, InitIInv, NextIInv, PTL
     DEF SpecNewNamesAlone, NextAlone, ClaimsOnlyFreeSpots

-----------------------------------------------------------------------------
\* The value of a name is that of the only slot that holds it.
LEMMA MapAt ==
  ASSUME NamesDistinct, NEW n \in Names
  PROVE  /\ \A s \in Slots : Holds(n, s) => MapOf[n] = value[s]
         /\ (\A s \in Slots : ~Holds(n, s)) => MapOf[n] = Unset
<1>1. \A r, s \in Slots : Holds(n, r) /\ Holds(n, s) => r = s
  BY DEF NamesDistinct, Holds, Taken
<1>2. ASSUME NEW s \in Slots, Holds(n, s)
      PROVE  MapOf[n] = value[s]
  <2>1. (CHOOSE r \in Slots : Holds(n, r)) = s
    BY <1>1, <1>2
  <2> QED
    BY <1>2, <2>1 DEF MapOf
<1>3. (\A s \in Slots : ~Holds(n, s)) => MapOf[n] = Unset
  BY DEF MapOf
<1> QED
  BY <1>2, <1>3

\* The same, of every state: the form in which it is cited of a next state.
MapReadsSlots ==
  NamesDistinct =>
    \A n \in Names :
      /\ \A s \in Slots : Holds(n, s) => MapOf[n] = value[s]
      /\ (\A s \in Slots : ~Holds(n, s)) => MapOf[n] = Unset

LEMMA MapReads == MapReadsSlots
BY MapAt DEF MapReadsSlots

LEMMA MapType == IInv => MapOf \in [Names -> Values \cup {Unset}]
<1> SUFFICES ASSUME IInv, NEW n \in Names
             PROVE  MapOf[n] \in Values \cup {Unset}
  BY DEF MapOf
<1>1. CASE \E s \in Slots : Holds(n, s)
  BY <1>1, MapAt DEF IInv, Holds, ValueWhenTaken
<1>2. CASE \A s \in Slots : ~Holds(n, s)
  BY <1>2, MapAt DEF IInv
<1> QED
  BY <1>1, <1>2

\* The map depends on which slots are taken, their names and their values.
LEMMA MapUnchanged ==
  ASSUME Taken' = Taken, UNCHANGED value,
         \A s \in Taken : var'[s] = var[s]
  PROVE  MapOf' = MapOf
<1>1. \A n : \A s \in Slots : Holds(n, s)' <=> Holds(n, s)
  BY DEF Holds
<1>2. ASSUME NEW n \in Names
      PROVE  (CHOOSE s \in Slots : Holds(n, s)')
               = (CHOOSE s \in Slots : Holds(n, s))
  BY <1>1
<1> QED
  BY <1>1, <1>2 DEF MapOf

LEMMA FreeFinite ==
  /\ IsFiniteSet(Slots \ Taken)
  /\ Cardinality(Slots \ Taken) \in Nat
<1>1. IsFiniteSet(Slots)
  BY FS_Interval, ShellMemoryAssumption DEF Slots
<1> QED
  BY <1>1, FS_Subset, FS_CardinalityType

\* A step that leaves the table alone and ends the command of t.
LEMMA CommandEnds ==
  ASSUME TypeOK, NEW t \in Threads, pc[t] # "idle", UNCHANGED command,
         pc' = [pc EXCEPT ![t] = "idle"]
  PROVE  /\ Request[t] = command[t]
         /\ Request' = [Request EXCEPT ![t] = Idle]
BY DEF Request, TypeOK

\* Every step of the loops is a step of the map or leaves it alone: a request
\* takes effect where the value is written or copied, or the search fails.
THEOREM Refinement ==
  ASSUME Untypable
  PROVE  SpecNewNamesAlone => ImplementsVariableMap
<1> DEFINE room == Cardinality(Slots \ Taken)
           absvars == <<MapOf, room, Request, answer>>
<1>1. Init => Abstract!Init
  <2> SUFFICES ASSUME Init PROVE Abstract!Init
    OBVIOUS
  <2>1. MapOf \in [Names -> Values \cup {Unset}]
    BY InitIInv, MapType
  <2>2. room \in Nat
    BY FreeFinite
  <2>3. Request = [t \in Threads |-> Idle]
    BY DEF Init, Request
  <2> QED
    BY <2>1, <2>2, <2>3 DEF Abstract!Init, Init
<1>2. IInv /\ IInv' /\ [NextAlone]_vars => [Abstract!Next]_absvars
  <2> SUFFICES ASSUME IInv, IInv', [NextAlone]_vars
               PROVE  Abstract!Next \/ UNCHANGED absvars
    OBVIOUS
  <2>0. /\ TypeOK /\ NamesDistinct /\ ValueWhenTaken /\ Searched
        /\ NamesDistinct'
    BY DEF IInv
  <2>9. \A u, w \in Threads :
          pc[u] \in {"claim", "fill"} /\ w # u => pc[w] = "idle"
    BY ClaimsAlone
  <2>1. CASE UNCHANGED vars
    <3>1. Taken' = Taken /\ UNCHANGED <<var, value, pc, command, answer>>
      BY <2>1 DEF vars, Taken, BeingFilled
    <3>2. MapOf' = MapOf
      BY <3>1, MapUnchanged
    <3> QED
      BY <3>1, <3>2 DEF Request
  <2>2. ASSUME NEW t \in Threads, NEW c \in Sets \cup Gets, Call(t, c)
        PROVE  Abstract!Ask(t, c)
    <3>1. Taken' = Taken
      BY <2>0, <2>2 DEF Call, At, Goto, Taken, BeingFilled, TypeOK
    <3>2. MapOf' = MapOf
      BY <2>2, <3>1, MapUnchanged DEF Call
    <3>3. Request[t] = Idle /\ Request' = [Request EXCEPT ![t] = c]
      BY <2>0, <2>2 DEF Call, At, Goto, Request, TypeOK
    <3> QED
      BY <2>2, <3>1, <3>2, <3>3 DEF Abstract!Ask, Call
  <2>3. ASSUME NEW t \in Threads,
               FindName(t) \/ NameNotFound(t) \/ FindFreeSpot(t)
                 \/ LookForName(t)
        PROVE  UNCHANGED absvars
    <3> USE <2>0, <2>3 DEF FindName, NameNotFound, FindFreeSpot, LookForName,
              At, Goto, NextSlot
    <3>1. Taken' = Taken
      BY DEF Taken, BeingFilled, TypeOK
    <3>2. MapOf' = MapOf
      BY <3>1, MapUnchanged
    <3>3. Request' = Request
      BY DEF Request, TypeOK
    <3> QED
      BY <3>1, <3>2, <3>3
  <2>4. ASSUME NEW t \in Threads, SetDropped(t)
        PROVE  Abstract!Drop(t)
    <3>0. /\ pc[t] = "free" /\ i[t] >= MEM_SIZE /\ command[t] \in Sets
          /\ pc' = [pc EXCEPT ![t] = "idle"]
          /\ UNCHANGED <<i, var, value, command, answer>>
      BY <2>0, <2>4 DEF SetDropped, At, Goto, TypeOK
    <3>1. \A s \in Slots : var[s] # command[t].name /\ var[s] # Sentinel
      BY <2>0, <3>0, ShellMemoryAssumption DEF Searched, SearchedBy, Slots, TypeOK
    <3>2. Taken = Slots /\ Taken' = Slots
      BY <2>0, <2>9, <3>0, <3>1 DEF Taken, BeingFilled, TypeOK
    <3>3. room = 0 /\ room' = 0
      <4>1. Slots \ Taken = {} /\ (Slots \ Taken)' = {}
        BY <3>2 DEF Slots
      <4> QED
        BY <4>1, FS_EmptySet
    <3>4. MapOf[command[t].name] = Unset
      BY <2>0, <3>0, <3>1, MapAt DEF Holds, Sets
    <3>5. MapOf' = MapOf
      BY <3>0, <3>2, MapUnchanged
    <3>6. Request[t] = command[t] /\ Request' = [Request EXCEPT ![t] = Idle]
      BY <2>0, <3>0, CommandEnds
    <3> HIDE DEF room
    <3> QED
      BY <3>0, <3>3, <3>4, <3>5, <3>6
         DEF Abstract!Drop, Abstract!Served, Abstract!Sets, Sets, room
  <2>5. ASSUME NEW t \in Threads, WriteVar(t)
        PROVE  UNCHANGED absvars
    <3>0. /\ pc[t] = "claim" /\ i[t] \in Slots
          /\ var' = [var EXCEPT ![i[t]] = command[t].name]
          /\ pc' = [pc EXCEPT ![t] = "fill"]
          /\ UNCHANGED <<i, value, command, answer>>
      BY <2>0, <2>5 DEF WriteVar, At, Goto, TypeOK
    <3>1. Taken' = Taken /\ i[t] \notin Taken
      BY <2>0, <2>9, <3>0 DEF Searched, SearchedBy, Taken, BeingFilled, TypeOK
    <3>2. MapOf' = MapOf
      BY <2>0, <3>0, <3>1, MapUnchanged DEF TypeOK, Taken
    <3>3. Request' = Request
      BY <2>0, <3>0 DEF Request, TypeOK
    <3> QED
      BY <3>0, <3>1, <3>2, <3>3
  <2>6. ASSUME NEW t \in Threads, WriteValue(t)
        PROVE  Abstract!Overwrite(t) \/ Abstract!Add(t)
    <3> DEFINE s == i[t]
               n == command[t].name
               v == command[t].value
    <3>0. /\ pc[t] \in {"overwrite", "fill"} /\ s \in Slots
          /\ command[t] \in Sets /\ n \in Names /\ v \in Values
          /\ value' = [value EXCEPT ![s] = v]
          /\ pc' = [pc EXCEPT ![t] = "idle"]
          /\ UNCHANGED <<i, var, command, answer>>
      BY <2>0, <2>6 DEF WriteValue, At, Goto, TypeOK, Sets
    <3>1. var[s] = n
      BY <2>0, <3>0 DEF Searched, SearchedBy
    <3>2. Taken' = Taken \cup {s}
      BY <2>0, <2>9, <3>0, <3>1 DEF Taken, BeingFilled, Untypable, TypeOK
    <3>3. \A m \in Names \ {n} : \A r \in Slots : Holds(m, r)' <=> Holds(m, r)
      BY <3>0, <3>1, <3>2 DEF Holds
    <3>4. Holds(n, s)' /\ \A m \in Names \ {n} : ~Holds(m, s)
      BY <3>0, <3>1, <3>2 DEF Holds
    <3>5. MapReadsSlots /\ MapReadsSlots'
      BY MapReads, PTL
    <3>6. MapOf' = [MapOf EXCEPT ![n] = v]
      <4>1. MapOf'[n] = v
        BY <2>0, <3>0, <3>4, <3>5 DEF MapReadsSlots, TypeOK
      <4>2. ASSUME NEW m \in Names \ {n}
            PROVE  MapOf'[m] = MapOf[m]
        <5>1. CASE \E r \in Slots : Holds(m, r)
          <6>1. PICK r \in Slots : Holds(m, r)
            BY <5>1
          <6>2. r # s /\ Holds(m, r)'
            BY <6>1, <3>3, <3>4
          <6>3. MapOf[m] = value[r] /\ MapOf'[m] = value'[r]
            BY <2>0, <3>5, <6>1, <6>2 DEF MapReadsSlots
          <6> QED
            BY <2>0, <3>0, <6>2, <6>3 DEF TypeOK
        <5>2. CASE \A r \in Slots : ~Holds(m, r)
          BY <2>0, <3>3, <3>5, <5>2 DEF MapReadsSlots
        <5> QED
          BY <5>1, <5>2
      <4>3. \A m \in Names : MapOf'[m] = [MapOf EXCEPT ![n] = v][m]
        BY <4>1, <4>2, <3>0 DEF MapOf
      <4>4. /\ MapOf' = [m \in Names |-> MapOf'[m]]
            /\ DOMAIN MapOf = Names
        BY DEF MapOf
      <4> QED
        BY <4>3, <4>4
    <3>7. Request[t] = command[t] /\ Request' = [Request EXCEPT ![t] = Idle]
      BY <2>0, <3>0, CommandEnds
    <3>8. CASE pc[t] = "overwrite"
      <4>1. Holds(n, s) /\ Taken' = Taken
        BY <2>0, <2>9, <3>0, <3>1, <3>2, <3>8
           DEF Holds, Taken, BeingFilled, Untypable
      <4>2. MapOf[n] # Unset
        BY <2>0, <4>1, <3>0, MapAt, ShellMemoryAssumption
           DEF Holds, ValueWhenTaken
      <4> QED
        BY <3>0, <3>6, <3>7, <4>1, <4>2
           DEF Abstract!Overwrite, Abstract!Served, Abstract!Sets, Sets
    <3>9. CASE pc[t] = "fill"
      <4>1. s \notin Taken
        BY <3>9 DEF Taken, BeingFilled
      <4>2. MapOf[n] = Unset
        BY <2>0, <3>0, <3>1, <4>1, MapAt DEF Holds, NamesDistinct, Taken
      <4>3. (Slots \ Taken)' = (Slots \ Taken) \ {s}
        BY <3>2 DEF Slots
      <4>4. room' = room - 1
        BY <3>0, <4>1, <4>3, FreeFinite, FS_RemoveElement
      <4>5. room \in Nat /\ room' \in Nat
        <5>1. room' = Cardinality((Slots \ Taken) \ {s})
          BY <4>3
        <5> QED
          BY <5>1, FreeFinite, FS_RemoveElement, FS_CardinalityType
      <4>6. room > 0
        <5> HIDE DEF room
        <5> QED
          BY <4>4, <4>5
      <4> QED
        BY <3>0, <3>6, <3>7, <4>2, <4>4, <4>6
           DEF Abstract!Add, Abstract!Served, Abstract!Sets, Sets
    <3> QED
      BY <3>0, <3>8, <3>9
  <2>7. ASSUME NEW t \in Threads, CopyValue(t) \/ NoSuchName(t)
        PROVE  Abstract!Lookup(t)
    <3>0. /\ pc[t] \in {"get", "copy"} /\ command[t] \in Gets
          /\ command[t].name \in Names
          /\ pc' = [pc EXCEPT ![t] = "idle"]
          /\ UNCHANGED <<i, var, value, command>>
      BY <2>0, <2>7 DEF CopyValue, NoSuchName, At, Goto, TypeOK, Gets
    <3>1. Taken' = Taken
      BY <2>0, <3>0 DEF Taken, BeingFilled, TypeOK
    <3>2. MapOf' = MapOf
      BY <3>0, <3>1, MapUnchanged
    <3>3. Request[t] = command[t] /\ Request' = [Request EXCEPT ![t] = Idle]
      BY <2>0, <3>0, CommandEnds
    <3>4. answer' = [answer EXCEPT ![t] = MapOf[command[t].name]]
      <4>1. CASE CopyValue(t)
        <5>1. pc[t] = "copy" /\ i[t] \in Slots
          BY <2>0, <4>1 DEF CopyValue, At, TypeOK
        <5>2. Holds(command[t].name, i[t])
          BY <2>0, <2>9, <3>0, <5>1 DEF Searched, SearchedBy, Holds, Taken, BeingFilled,
                                  Untypable
        <5> QED
          BY <2>0, <3>0, <4>1, <5>1, <5>2, MapAt DEF CopyValue
      <4>2. CASE NoSuchName(t)
        <5>1. \A s \in Slots : var[s] # command[t].name
          <6>1. pc[t] = "get" /\ i[t] >= MEM_SIZE /\ i[t] \in 0 .. MEM_SIZE
            BY <2>0, <4>2 DEF NoSuchName, At, TypeOK
          <6>2. \A s \in Slots : s < i[t]
            BY <6>1, ShellMemoryAssumption DEF Slots
          <6> QED
            BY <2>0, <6>1, <6>2 DEF Searched, SearchedBy
        <5> QED
          BY <2>0, <3>0, <4>2, <5>1, MapAt DEF NoSuchName, Holds
      <4> QED
        BY <2>7, <4>1, <4>2
    <3> QED
      BY <3>0, <3>1, <3>2, <3>3, <3>4
         DEF Abstract!Lookup, Abstract!Served, Abstract!Gets, Gets
  <2> QED
    BY <2>1, <2>2, <2>3, <2>4, <2>5, <2>6, <2>7
       DEF NextAlone, Next, Abstract!Next, Abstract!Commands, Abstract!Sets,
           Abstract!Gets, Sets, Gets
<1> QED
  BY <1>1, <1>2, InitIInv, NextIInv, PTL
     DEF SpecNewNamesAlone, NextAlone, ImplementsVariableMap, Abstract!Spec, Abstract!vars

=============================================================================
