------------------------------ MODULE MCQueue ------------------------------
(* One job of one run, two runners and a take-over: every order of claims, *)
(* expiries, stale calls and a hold.  Beside a second job of the unit,     *)
(* which may hold one live claim, one runner in a shorter time.            *)
EXTENDS JobQueue, TLC

MCRunOf == [j \in Jobs |-> "run"]
MCUnitOf == [j \in Jobs |-> "sales"]
MCPerUnit == [u \in Units |-> 1]
MCSymmetry == Permutations(Runners)

Few == 2
Early == 3
MCBounds ==
  row[2].phase # "new" =>
    /\ now <= Early
    /\ \A j \in Jobs : row[j].attempts <= Few
    /\ asked = {}
    /\ Cardinality({c.by : c \in issued}) <= 1

=============================================================================
