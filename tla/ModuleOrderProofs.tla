--------------------------- MODULE ModuleOrderProofs ---------------------------
(***************************************************************************)
(* Theorems about ModuleOrder, for every set of modules, every dependency  *)
(* relation and every list of modules.  The order in which startup takes   *)
(* the modules is right because a module enters the queue of _sort_modules *)
(* only when the ones it depends on are ordered.                           *)
(***************************************************************************)
EXTENDS ModuleOrder, FiniteSetTheorems, TLAPS

\* Every module of a sequence comes after the ones it depends on.
Before(q, i) == {q[j] : j \in 1 .. i - 1}
DependenciesFirst(q) == \A i \in DOMAIN q : DependsOn[q[i]] \subseteq Before(q, i)

\* What _sort_modules keeps: the indegrees count the dependencies that are not
\* ordered, and a module in the queue has none left.
SortInv ==
  /\ waiting \in [Listed -> SUBSET Modules]
  /\ \A m \in Listed : waiting[m] = DependsOn[m] \ Elements(ordered)
  /\ \A m \in Elements(ready) : waiting[m] = {}
  /\ DependenciesFirst(ordered)

RegistryInv ==
  /\ RegistryTypeOK
  /\ app = "discovered" => ordered = << >> /\ ready = << >>
  /\ app \in {"discovered", "sorting"} => SortInv
  /\ app \in {"discovered", "refused", "sorting"} => started = 0
  /\ app \in {"starting", "running", "stopping", "stopped", "failed"} => DependenciesFirst(modules)

-----------------------------------------------------------------------------
(* Sequences of modules.                                                     *)

\* A module may follow a sequence that holds all it depends on.
LEMMA AppendKeepsOrder ==
  ASSUME NEW S, NEW q \in Seq(S), NEW m \in S,
         DependenciesFirst(q), DependsOn[m] \subseteq Elements(q)
  PROVE  DependenciesFirst(Append(q, m))
<1> DEFINE r == Append(q, m)
<1>1. /\ Len(q) \in Nat /\ DOMAIN q = 1 .. Len(q) /\ Len(r) = Len(q) + 1
      /\ DOMAIN r = 1 .. Len(q) + 1
      /\ \A i \in 1 .. Len(q) : r[i] = q[i]
      /\ r[Len(q) + 1] = m
  OBVIOUS
<1>2. ASSUME NEW i \in 1 .. Len(q)
      PROVE  DependsOn[r[i]] \subseteq Before(r, i)
  <2>1. Before(r, i) = Before(q, i)
    BY <1>1 DEF Before
  <2> QED
    BY <1>1, <2>1 DEF DependenciesFirst
<1>3. Before(r, Len(q) + 1) = Elements(q)
  BY <1>1 DEF Before, Elements
<1> QED
  BY <1>1, <1>2, <1>3 DEF DependenciesFirst

\* The elements of an extended sequence.
LEMMA ElementsOfAppend ==
  ASSUME NEW S, NEW q \in Seq(S), NEW m \in S
  PROVE  Elements(Append(q, m)) = Elements(q) \cup {m}
<1>1. /\ Len(q) \in Nat /\ DOMAIN q = 1 .. Len(q) /\ DOMAIN Append(q, m) = 1 .. Len(q) + 1
      /\ \A i \in 1 .. Len(q) : Append(q, m)[i] = q[i]
      /\ Append(q, m)[Len(q) + 1] = m
  OBVIOUS
<1> QED
  BY <1>1 DEF Elements

\* The queue after a module is taken from it and its children are added.
LEMMA ElementsOfQueue ==
  ASSUME NEW S, NEW q \in Seq(S), q # << >>, NEW children \in Seq(S)
  PROVE  /\ Tail(q) \o children \in Seq(S)
         /\ Head(q) \in Elements(q)
         /\ Elements(Tail(q) \o children) \subseteq Elements(q) \cup Elements(children)
<1>1. /\ Tail(q) \in Seq(S) /\ Len(Tail(q)) = Len(q) - 1 /\ Len(q) \in Nat /\ Len(q) > 0
      /\ \A i \in 1 .. Len(q) - 1 : Tail(q)[i] = q[i + 1]
      /\ Head(q) = q[1] /\ DOMAIN q = 1 .. Len(q)
  OBVIOUS
<1>2. Tail(q) \o children \in Seq(S)
  BY <1>1
<1>3. ASSUME NEW i \in DOMAIN (Tail(q) \o children)
      PROVE  (Tail(q) \o children)[i] \in Elements(q) \cup Elements(children)
  <2>1. /\ Len(Tail(q) \o children) = Len(q) - 1 + Len(children)
        /\ Len(children) \in Nat /\ DOMAIN children = 1 .. Len(children)
        /\ i \in 1 .. Len(q) - 1 + Len(children)
    BY <1>1
  <2>2. CASE i <= Len(q) - 1
    <3>1. (Tail(q) \o children)[i] = q[i + 1]
      BY <1>1, <2>1, <2>2
    <3> QED
      BY <1>1, <2>1, <2>2, <3>1 DEF Elements
  <2>3. CASE i > Len(q) - 1
    <3>1. (Tail(q) \o children)[i] = children[i - (Len(q) - 1)]
      BY <1>1, <2>1, <2>3
    <3> QED
      BY <1>1, <2>1, <2>3, <3>1 DEF Elements
  <2> QED
    BY <1>1, <2>1, <2>2, <2>3
<1>4. Head(q) \in Elements(q)
  BY <1>1 DEF Elements
<1> QED
  BY <1>2, <1>3, <1>4 DEF Elements

\* sorted() of a set has the members of the set.
LEMMA SortedMembers ==
  ASSUME NEW S, NEW q \in Sorted(S), Cardinality(S) \in Nat
  PROVE  q \in Seq(S) /\ Elements(q) \subseteq S
<1>1. q \in [1 .. Cardinality(S) -> S]
  BY DEF Sorted
<1>2. q \in Seq(S)
  BY <1>1
<1> QED
  BY <1>1, <1>2 DEF Elements

\* The listed modules are finitely many.
LEMMA ListedFinite ==
  ASSUME RegistryTypeOK, NEW S, S \subseteq Listed
  PROVE  IsFiniteSet(S) /\ Cardinality(S) \in Nat
<1>1. /\ DOMAIN modules = 1 .. Len(modules) /\ Len(modules) \in Nat
  BY DEF RegistryTypeOK
<1>2. IsFiniteSet(DOMAIN modules)
  BY <1>1, FS_Interval
<1>3. modules \in Surjection(DOMAIN modules, Listed)
  BY <1>1 DEF RegistryTypeOK, Listed, Elements, Surjection
<1>4. IsFiniteSet(Listed)
  BY <1>2, <1>3, FS_Surjection
<1> QED
  BY <1>4, FS_Subset, FS_CardinalityType

-----------------------------------------------------------------------------
(* The invariant.                                                            *)

LEMMA InitRegistry == RegistryInit => RegistryInv
<1> SUFFICES ASSUME RegistryInit PROVE RegistryInv
  OBVIOUS
<1>1. modules \in Seq(Modules) /\ Len(modules) \in Nat
  BY ListsAssumption DEF RegistryInit
<1>2. Listed \subseteq Modules
  BY <1>1 DEF Listed, Elements
<1>3. \A m \in Listed : DependsOn[m] \in SUBSET Modules
  BY <1>2, DependsOnAssumption
<1>4. Elements(<< >>) = {} /\ DependenciesFirst(<< >>)
  BY DEF Elements, DependenciesFirst
<1>5. waiting \in [Listed -> SUBSET Modules] /\ DOMAIN waiting = Listed
  BY <1>3 DEF RegistryInit
<1>6. RegistryTypeOK
  BY <1>1, <1>5 DEF RegistryInit, RegistryTypeOK, AppStates
<1>7. SortInv
  BY <1>4, <1>5 DEF RegistryInit, SortInv
<1> QED
  BY <1>6, <1>7 DEF RegistryInit, RegistryInv

LEMMA ValidateKeeps == ASSUME RegistryInv, Validate PROVE RegistryInv'
<1>1. app = "discovered" /\ RegistryTypeOK /\ SortInv /\ started = 0 /\ ordered = << >>
  BY DEF Validate, RegistryInv
<1>2. CASE Refuse
  BY <1>1, <1>2 DEF Refuse, sortVars, RegistryInv, RegistryTypeOK, AppStates, Listed
<1>3. CASE ~Refuse
  <2> DEFINE first == {m \in Listed : DependsOn[m] = {}}
  <2>1. /\ ready' \in Sorted(first) /\ app' = "sorting"
        /\ UNCHANGED << modules, waiting, ordered, started >>
    BY <1>3 DEF Validate
  <2>2. ready' \in Seq(first) /\ Elements(ready') \subseteq first
    BY <1>1, <2>1, ListedFinite, SortedMembers
  <2>3. ready' \in Seq(Listed)
    BY <2>2
  <2>4. \A m \in Elements(ready') : waiting[m] = {}
    BY <1>1, <2>2 DEF SortInv
  <2>5. RegistryTypeOK'
    BY <1>1, <2>1, <2>3 DEF RegistryTypeOK, AppStates, Listed
  <2>6. SortInv'
    BY <1>1, <2>1, <2>4 DEF SortInv, Listed
  <2> QED
    BY <1>1, <2>1, <2>5, <2>6 DEF RegistryInv
<1> QED
  BY <1>2, <1>3

LEMMA PopModuleKeeps == ASSUME RegistryInv, PopModule PROVE RegistryInv'
<1> DEFINE name == Head(ready)
<1>1. /\ app = "sorting" /\ ready # << >> /\ RegistryTypeOK /\ SortInv /\ started = 0
      /\ ordered' = Append(ordered, name)
      /\ waiting' = [m \in Listed |-> waiting[m] \ {name}]
      /\ UNCHANGED << modules, app, started >>
  BY DEF PopModule, RegistryInv
<1>2. PICK children \in Sorted(Freed(name)) : ready' = Tail(ready) \o children
  BY DEF PopModule
<1>3. children \in Seq(Freed(name)) /\ Elements(children) \subseteq Freed(name)
  BY <1>1, ListedFinite, SortedMembers DEF Freed
<1>4. children \in Seq(Listed) /\ ready \in Seq(Listed) /\ ordered \in Seq(Listed)
  BY <1>1, <1>3 DEF Freed, RegistryTypeOK
<1>5. /\ ready' \in Seq(Listed) /\ name \in Elements(ready)
      /\ Elements(ready') \subseteq Elements(ready) \cup Elements(children)
  BY <1>1, <1>2, <1>4, ElementsOfQueue
<1>6. name \in Listed
  BY <1>4, <1>5 DEF Elements
<1>7. ordered' \in Seq(Listed) /\ Elements(ordered') = Elements(ordered) \cup {name}
  BY <1>1, <1>4, <1>6, ElementsOfAppend
<1>8. DependsOn[name] \subseteq Elements(ordered)
  BY <1>1, <1>5, <1>6 DEF SortInv
<1>9. DependenciesFirst(ordered')
  BY <1>1, <1>4, <1>6, <1>8, AppendKeepsOrder DEF SortInv
<1>10. /\ waiting' \in [Listed -> SUBSET Modules]
       /\ \A m \in Listed : waiting'[m] = DependsOn[m] \ Elements(ordered')
  BY <1>1, <1>7 DEF SortInv
<1>11. ASSUME NEW m \in Elements(ready') PROVE waiting'[m] = {}
  <2>1. m \in Listed
    BY <1>5, <1>11 DEF Elements
  <2>2. waiting[m] = {} \/ waiting[m] = {name}
    BY <1>1, <1>3, <1>5, <1>11 DEF SortInv, Freed
  <2> QED
    BY <1>1, <2>1, <2>2
<1>12. Listed' = Listed
  BY <1>1 DEF Listed
<1>13. SortInv'
  BY <1>9, <1>10, <1>11, <1>12 DEF SortInv
<1>14. RegistryTypeOK'
  BY <1>1, <1>5, <1>7, <1>10, <1>12 DEF RegistryTypeOK
<1> QED
  BY <1>1, <1>13, <1>14 DEF RegistryInv

LEMMA FinishSortKeeps == ASSUME RegistryInv, FinishSort PROVE RegistryInv'
<1>1. app = "sorting" /\ ready = << >> /\ RegistryTypeOK /\ SortInv /\ started = 0
  BY DEF FinishSort, RegistryInv
<1>2. CASE Refuse
  BY <1>1, <1>2 DEF Refuse, sortVars, RegistryInv, RegistryTypeOK, AppStates, Listed
<1>3. CASE ~Refuse
  <2>1. /\ app' = "starting" /\ modules' = ordered /\ ordered' = << >> /\ waiting' = << >>
        /\ ready' = << >> /\ started' = 0
    BY <1>1, <1>3 DEF FinishSort
  <2>2. Listed \subseteq Modules
    BY <1>1 DEF RegistryTypeOK, Listed, Elements
  <2>3. ordered \in Seq(Modules) /\ Len(ordered) \in Nat
    BY <1>1, <2>2 DEF RegistryTypeOK
  <2>4. DOMAIN waiting' = {} /\ waiting' \in [DOMAIN waiting' -> SUBSET Modules]
    BY <2>1
  <2>5. RegistryTypeOK'
    BY <2>1, <2>3, <2>4 DEF RegistryTypeOK, AppStates
  <2>6. DependenciesFirst(modules')
    BY <1>1, <2>1 DEF SortInv
  <2> QED
    BY <2>1, <2>5, <2>6 DEF RegistryInv
<1> QED
  BY <1>2, <1>3

\* startup and shutdown take the modules one by one, as they are ordered.
LEMMA LifeKeeps ==
  ASSUME RegistryInv, StartModule \/ StartFails \/ BeginShutdown \/ StopModule \/ StopFails
  PROVE  RegistryInv'
<1>1. /\ app \in {"starting", "running", "stopping"}
      /\ app' \in {"starting", "running", "stopping", "stopped", "failed"}
      /\ UNCHANGED sortVars
  BY DEF StartModule, StartFails, BeginShutdown, StopModule, StopFails
<1>2. RegistryTypeOK /\ DependenciesFirst(modules)
  BY <1>1 DEF RegistryInv
<1>3. Len(modules) \in Nat
  BY <1>2 DEF RegistryTypeOK
<1>4. started' \in Nat /\ started' <= Len(modules)
  BY <1>2, <1>3 DEF RegistryTypeOK, StartModule, StartFails, BeginShutdown, StopModule, StopFails
<1>5. RegistryTypeOK'
  BY <1>1, <1>2, <1>4 DEF RegistryTypeOK, AppStates, sortVars, Listed
<1> QED
  BY <1>1, <1>2, <1>5 DEF RegistryInv, sortVars

LEMMA RegistryStepKeeps == ASSUME RegistryInv, [Boot \/ ShutDown]_registryVars PROVE RegistryInv'
<1>1. CASE Boot \/ ShutDown
  BY <1>1, ValidateKeeps, PopModuleKeeps, FinishSortKeeps, LifeKeeps DEF Boot, ShutDown
<1>2. CASE UNCHANGED registryVars
  BY <1>2 DEF registryVars, sortVars, RegistryInv, RegistryTypeOK, SortInv, Listed
<1> QED
  BY <1>1, <1>2

\* Every state of the registry satisfies the invariant: the order found so far
\* puts dependencies first, and the indegrees agree with it.
THEOREM RegistryInvHolds == RegistrySpec => []RegistryInv
<1>1. RegistryInit => RegistryInv
  BY InitRegistry
<1>2. RegistryInv /\ [Boot \/ ShutDown]_registryVars => RegistryInv'
  BY RegistryStepKeeps
<1> QED
  BY <1>1, <1>2, PTL DEF RegistrySpec

-----------------------------------------------------------------------------
LEMMA InvGivesDependencies == RegistryInv => DependenciesAreUp
<1> SUFFICES ASSUME RegistryInv, NEW i \in 1 .. started
             PROVE  DependsOn[modules[i]] \subseteq StartedModules
  BY DEF DependenciesAreUp, StartedModules
<1>1. /\ started \in Nat /\ started <= Len(modules) /\ Len(modules) \in Nat
      /\ DOMAIN modules = 1 .. Len(modules) /\ app \in AppStates
  BY DEF RegistryInv, RegistryTypeOK
<1>2. DependenciesFirst(modules)
  BY <1>1 DEF RegistryInv, AppStates
<1>3. Before(modules, i) \subseteq StartedModules
  BY <1>1 DEF Before, StartedModules
<1> QED
  BY <1>1, <1>2, <1>3 DEF DependenciesFirst

\* A module is up only while all it depends on is up: at every point of startup
\* and shutdown, for every list of modules and every dependency relation.
THEOREM DependenciesAreUpHolds == RegistrySpec => []DependenciesAreUp
BY RegistryInvHolds, InvGivesDependencies, PTL
=============================================================================
