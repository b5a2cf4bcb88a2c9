---------------------------- MODULE ClaimEpochs -----------------------------
(***************************************************************************)
(* What the queue promises of one job's claims, and nothing of how: a job  *)
(* has an epoch, the number of its latest claim; a claim opens the next    *)
(* one; and a write of the job's run lands only under the latest.          *)
(***************************************************************************)
EXTENDS Naturals

CONSTANT Jobs

VARIABLES
  epoch,    \* the epoch of the latest claim of each job
  written   \* the epoch the latest write of each job's run landed under

Init ==
  /\ epoch = [j \in Jobs |-> 0]
  /\ written = [j \in Jobs |-> 0]

Claim(j) ==
  /\ epoch' = [epoch EXCEPT ![j] = @ + 1]
  /\ written' = written

Write(j) ==
  /\ written' = [written EXCEPT ![j] = epoch[j]]
  /\ epoch' = epoch

\* The claim passes on with the last write made under it.
WriteAndPass(j) ==
  /\ written' = [written EXCEPT ![j] = epoch[j]]
  /\ epoch' = [epoch EXCEPT ![j] = @ + 1]

Next == \E j \in Jobs : Claim(j) \/ Write(j) \/ WriteAndPass(j)

Spec == Init /\ [][Next]_<<epoch, written>>

=============================================================================
