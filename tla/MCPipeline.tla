------------------------------ MODULE MCPipeline ------------------------------
(* Instances of Pipeline for TLC. *)
EXTENDS Pipeline, TLC

CONSTANTS t1, t2

AppModules == DOMAIN AppDependsOn

ByName == [execution |-> 1, market_data |-> 2, ml_strategy |-> 3, positions |-> 4,
           risk_engine |-> 5, settings |-> 6, signal_engine |-> 7]

Default == << "market_data", "signal_engine", "ml_strategy", "risk_engine", "execution",
              "positions", "settings" >>
Reversed == [i \in 1 .. 7 |-> Default[8 - i]]
WithoutMl == << "market_data", "signal_engine", "risk_engine", "execution", "settings" >>
WithoutGate == << "market_data", "signal_engine", "execution" >>
Twice == << "market_data", "signal_engine", "market_data" >>

AllLists == {Default, Reversed, WithoutMl, WithoutGate, Twice}
DefaultList == {Default}

TaskSymmetry == Permutations(Tasks)
=============================================================================
