----------------------------- MODULE Leadership -----------------------------
(***************************************************************************)
(* The lead of an elected role: an advisory lock of a database session     *)
(* that an instance keeps for as long as it leads.  The session may end    *)
(* under the instance, which learns of it when it next asks: before a      *)
(* round, never within one.  Two instances may so be in a round at once.   *)
(***************************************************************************)
EXTENDS Naturals

CONSTANTS
  Instances,    \* the processes that have the role
  NoOne,        \* nobody holds the lock
  MaxTroubles   \* bound on what goes wrong: sessions, processes and transactions that end early

ASSUME LeadershipAssumption == NoOne \notin Instances /\ MaxTroubles \in Nat

VARIABLES
  holder,       \* the instance whose session holds the lock
  leading,      \* the instances in the loop of a leader
  troubles      \* what went wrong so far

leadVars == <<holder, leading, troubles>>

LeadInit == holder = NoOne /\ leading = {} /\ troubles = 0

LeadTypeOK ==
  /\ holder \in Instances \cup {NoOne} /\ leading \subseteq Instances /\ troubles \in 0 .. MaxTroubles

\* The session is alive and the lock is its.
IsHeld(i) == i \in leading /\ holder = i

Trouble == troubles < MaxTroubles /\ troubles' = troubles + 1

TryLead(i) ==
  /\ i \notin leading /\ holder = NoOne
  /\ holder' = i /\ leading' = leading \cup {i}
  /\ UNCHANGED troubles

\* The session of a process that is gone ends when the server notices.
SessionOver(i) ==
  /\ holder = i /\ i \notin leading
  /\ holder' = NoOne
  /\ UNCHANGED <<leading, troubles>>

\* Before its next round the instance learns that its session is gone.
StepDown(i) ==
  /\ i \in leading /\ holder # i
  /\ leading' = leading \ {i}
  /\ UNCHANGED <<holder, troubles>>

\* The server ends the session under its instance.
SessionLost(i) == IsHeld(i) /\ Trouble /\ holder' = NoOne /\ UNCHANGED leading

\* The process ends: of its own accord it releases the lock, else its session is left behind.
Ends(i) ==
  /\ i \in leading /\ Trouble
  /\ leading' = leading \ {i}
  /\ holder' \in {holder, IF holder = i THEN NoOne ELSE holder}

=============================================================================
