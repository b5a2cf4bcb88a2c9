---------------------------- MODULE OpenWorkCap -----------------------------
(***************************************************************************)
(* The cap on a process's open work: how many of its runs may be in flight *)
(* and how many of its outcomes open outside before another of its runs    *)
(* starts.                                                                 *)
(*                                                                         *)
(* A run counts before it starts anything: the runs in flight, from the    *)
(* ledger, then the outcomes outside, through a connector.  A run below    *)
(* the cap records that it passed.  The entry takes the tenant's chain,    *)
(* which is held to the commit, and the runs in flight are read again      *)
(* under it: where they changed, the entry is rolled back and the count    *)
(* is made again, with what was read outside before.                       *)
(***************************************************************************)
EXTENDS Integers, FiniteSets

CONSTANTS
  Cap,          \* the process's cap
  Recounts,     \* how often a run counts again before it waits (RECOUNTS)
  MaxOutside,   \* bound on the outcomes open outside
  Unread        \* the outcomes outside could not be read

ASSUME CapAssumption ==
  /\ Cap \in Nat \ {0} /\ Recounts \in Nat \ {0} /\ MaxOutside \in Nat
  /\ Unread \notin Nat

VARIABLES
  flying,    \* the runs in flight: the ledger's projection
  outside    \* the outcomes of the process open outside

capVars == <<flying, outside>>

CapInit == flying = {} /\ outside = 0

\* A count: the runs seen in flight without the one that counts, what was read outside, and
\* how often it was made.
NoCount == [seen |-> {}, read |-> Unread, made |-> 0]

\* A count that could not be made holds the run as one that reached the cap.
Reached(count) == count.read # Unread => count.read + Cardinality(count.seen) >= Cap

\* The runs in flight, read under the tenant's chain, are those that were counted.
Unchanged_Assumed(r, count) == TRUE
Unchanged(r, count) == flying \ {r} = count.seen

Passed(r) == flying' = flying \cup {r}

\* A run that finishes or escalates is in flight no more; an outcome it opened is seen outside.
Ended(r) ==
  /\ flying' = flying \ {r}
  /\ outside' \in {outside, outside + 1} /\ outside' <= MaxOutside

\* An outcome outside is closed: a request merged, a ticket answered.
OutcomeCloses == outside > 0 /\ outside' = outside - 1 /\ UNCHANGED flying

=============================================================================
