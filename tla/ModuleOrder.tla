----------------------------- MODULE ModuleOrder -----------------------------
(***************************************************************************)
(* ModuleRegistry: the modules named in the setting enabled_modules are    *)
(* checked for missing dependencies, put in an order that starts every     *)
(* module after the ones it depends on, started in that order and shut     *)
(* down in the reverse one.                                                *)
(***************************************************************************)
EXTENDS Integers, Sequences, FiniteSets

CONSTANTS
  Modules,         \* the packages under app.modules
  DependsOn,       \* depends_on of each
  NameRank,        \* the alphabetical order of the names
  Lists            \* the values of enabled_modules to consider

ASSUME DependsOnAssumption == DependsOn \in [Modules -> SUBSET Modules]
ASSUME NameRankAssumption ==
  /\ NameRank \in [Modules -> Nat]
  /\ \A m, n \in Modules : NameRank[m] = NameRank[n] => m = n
ASSUME ListsAssumption == Lists \subseteq Seq(Modules)

VARIABLES
  modules,         \* registry.modules: as listed, then as sorted
  waiting,         \* the dependencies of a module that are not ordered: its indegree
  ready,           \* the deque of modules without one
  ordered,         \* the order _sort_modules has found so far
  app,             \* where the process stands
  started          \* how many modules are started

sortVars == << modules, waiting, ready, ordered >>
registryVars == << sortVars, app, started >>

Elements(q) == {q[i] : i \in DOMAIN q}
Listed == Elements(modules)

\* sorted(): the members of S by name.
Sorted(S) ==
  {q \in [1 .. Cardinality(S) -> S] :
     \A i, j \in 1 .. Cardinality(S) : i < j => NameRank[q[i]] < NameRank[q[j]]}

RegistryInit ==
  /\ modules \in Lists
  /\ waiting = [m \in Listed |-> DependsOn[m]]
  /\ ready = << >> /\ ordered = << >>
  /\ app = "discovered"
  /\ started = 0

-----------------------------------------------------------------------------
Missing(m) == DependsOn[m] \ Listed

Refuse ==
  /\ app' = "refused"
  /\ UNCHANGED << sortVars, started >>

\* _validate_dependencies, and the first queue of _sort_modules.
Validate ==
  /\ app = "discovered"
  /\ \/ (\E m \in Listed : Missing(m) # {}) /\ Refuse
     \/ /\ \A m \in Listed : Missing(m) = {}
        /\ ready' \in Sorted({m \in Listed : DependsOn[m] = {}})
        /\ app' = "sorting"
        /\ UNCHANGED << modules, waiting, ordered, started >>

\* Mutant of Freed: a module is ready when its first dependency is ordered.
FreedByFirst(name) == {m \in Listed : name \in waiting[m] /\ waiting[m] = DependsOn[m]}

\* The modules that the next one was the last dependency of.
Freed(name) == {m \in Listed : waiting[m] = {name}}

PopModule ==
  /\ app = "sorting"
  /\ ready # << >>
  /\ LET name == Head(ready)
     IN  /\ ordered' = Append(ordered, name)
         /\ waiting' = [m \in Listed |-> waiting[m] \ {name}]
         /\ \E children \in Sorted(Freed(name)) : ready' = Tail(ready) \o children
  /\ UNCHANGED << modules, app, started >>

\* A cycle leaves modules out of the order; so does a name that is listed twice.
FinishSort ==
  /\ app = "sorting"
  /\ ready = << >>
  /\ \/ Len(ordered) # Len(modules) /\ Refuse
     \/ /\ Len(ordered) = Len(modules)
        /\ app' = "starting"
        /\ modules' = ordered
        /\ ordered' = << >> /\ waiting' = << >>
        /\ UNCHANGED << ready, started >>

-----------------------------------------------------------------------------
(* startup and shutdown.  A module that raises ends the process; startup is  *)
(* outside the try whose finally calls shutdown.                             *)
StartModule ==
  /\ app = "starting"
  /\ IF started < Len(modules)
     THEN started' = started + 1 /\ UNCHANGED app
     ELSE app' = "running" /\ UNCHANGED started
  /\ UNCHANGED sortVars

StartFails ==
  /\ app = "starting"
  /\ started < Len(modules)
  /\ app' = "failed"
  /\ UNCHANGED << sortVars, started >>

BeginShutdown ==
  /\ app = "running"
  /\ app' = "stopping"
  /\ UNCHANGED << sortVars, started >>

StopModule ==
  /\ app = "stopping"
  /\ IF started > 0
     THEN started' = started - 1 /\ UNCHANGED app
     ELSE app' = "stopped" /\ UNCHANGED started
  /\ UNCHANGED sortVars

StopFails ==
  /\ app = "stopping"
  /\ started > 0
  /\ app' = "failed"
  /\ UNCHANGED << sortVars, started >>

Boot == Validate \/ PopModule \/ FinishSort \/ StartModule \/ StartFails

ShutDown == BeginShutdown \/ StopModule \/ StopFails

RegistrySpec == RegistryInit /\ [][Boot \/ ShutDown]_registryVars

-----------------------------------------------------------------------------
AppStates == {"discovered", "refused", "sorting", "starting", "running",
              "stopping", "stopped", "failed"}

RegistryTypeOK ==
  /\ modules \in Seq(Modules)
  /\ waiting \in [DOMAIN waiting -> SUBSET Modules] /\ DOMAIN waiting \subseteq Listed
  /\ ready \in Seq(Listed)
  /\ ordered \in Seq(Listed)
  /\ app \in AppStates
  /\ started \in Nat /\ started <= Len(modules)

StartedModules == {modules[i] : i \in 1 .. started}

\* ModuleRegistry.startup and shutdown: a module is never up while one it
\* depends on is not, whatever enabled_modules says.
DependenciesAreUp == \A m \in StartedModules : DependsOn[m] \subseteq StartedModules
=============================================================================
