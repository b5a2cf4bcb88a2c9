----------------------- MODULE AssignmentHandoverProofs -----------------------
(***************************************************************************)
(* That nothing is counted twice or left uncounted, that what works for    *)
(* the step is named, that a person who holds it works alone, that what is *)
(* kept of a step that succeeded is what it produced, and that a step goes *)
(* on from its last boundary, for any number of runners, assignments,      *)
(* units, claims and troubles.                                             *)
(*                                                                         *)
(* Operators of the invariants take the worker's memory A, its disk D, the *)
(* lives L it began for runners that had lost the run and the number n of  *)
(* identifiers minted as arguments, so that a step is compared with the    *)
(* one before.                                                             *)
(***************************************************************************)
EXTENDS AssignmentHandover, FiniteSetTheorems, TLAPS

Handing == {"post", "accepted", "rejected", "exists", "full", "broken"}
EndedSteps == {"succeeded", "rejected", "failed", "stopped"}

Holding(a) == a.status # "unknown"
Working(a) == a.status \in {"running", "stopping"}
Reported(a) == {m \in 1 .. Len(a.events) : a.events[m].kind = "report"}

\* An assignment i, n identifiers being minted: its events are of its life, each unit of its
\* lineage is reported once, and its end is its last event.
Orderly(a, i, n) ==
  /\ i > n => a.life = 0
  /\ a.life = 0 => ~Holding(a)
  /\ ~Holding(a) => Len(a.events) = 0
  /\ Working(a) => a.lineage \in Ids
  /\ Len(a.made) <= Closing
  /\ \A m \in 1 .. Len(a.events) : a.events[m].by = <<i, a.life>>
  /\ \A m \in Reported(a) : /\ a.events[m].unit \in 1 .. Len(a.made)
                            /\ Working(a) => a.events[m].unit <= Units
  /\ \A l, m \in Reported(a) : a.events[l].unit = a.events[m].unit => l = m
  /\ \A m \in 1 .. Len(a.events) :
       a.events[m].kind = "finished" => m = Len(a.events) /\ a.status = "finished"
  /\ \A m \in 1 .. Len(a.events) :
       a.events[m].outcome = "rejected" => m = 1 /\ a.events[m].kind = "finished"
  /\ a.status = "finished" => Len(a.events) > 0

\* The assignment a record names as open was minted.
Named(d, n) == d.open => d.id \in Ids /\ d.id <= n

\* An execution is of a claim that was made, and has an assignment when it hands one over.
Placed(c, x, claim, n) ==
  /\ x.at # "off" => c <= claim /\ x.by \in Runners
  /\ Named(x.doc, n)
  /\ x.at \in Handing \cup {"follow"} => x.doc.open
  /\ x.at = "after" => x.doc.step \in EndedSteps

\* A claim is kept for the person whose ask is pending.
ClaimKept == /\ job.claim + (IF job.ask = NoAsk THEN 0 ELSE 1) <= MaxClaims + 2 * asks
             /\ job.ask \in 0 .. asks

Stored == \A r \in Refs : disk[r] # <<>> => Len(disk[r]) = r[2]

Formed ==
  /\ TypeOK /\ ClaimKept /\ Stored
  /\ \A i \in Ids : Orderly(assignment[i], i, ids)
  /\ Named(doc, ids)
  /\ \A c \in Claims : Placed(c, exec[c], job.claim, ids)

-----------------------------------------------------------------------------
(* Records and sequences.                                                  *)

LEMMA Numbers ==
  /\ Units \in Nat /\ Closing \in Nat /\ Closing = Units + 1 /\ MaxLives \in Nat
  /\ MaxClaims \in Nat /\ MaxAsks \in Nat /\ MaxTroubles \in Nat
  /\ \A i \in Ids : i \in Nat
  /\ \A c \in Claims : c \in Nat /\ c > 0 /\ c <= MaxClaims + 2 * MaxAsks
<1>1. MaxLives \in Nat /\ MaxAsks \in Nat /\ MaxTroubles \in Nat /\ MaxClaims \in Nat
  BY WorkerAssumption, HandoverAssumption
<1>2. \A i \in Ids : i \in Nat BY WorkerAssumption
<1> QED BY <1>1, <1>2, WorkerAssumption DEF Closing, Claims

LEMMA NullsApart ==
  /\ NoId \notin Ids /\ NoOne \notin Runners /\ Person \notin Runners /\ NoOne # Person
  /\ NoRef \notin Refs
BY WorkerAssumption, HandoverAssumption DEF NoRef, Refs

LEMMA Joined ==
  ASSUME NEW S, NEW s \in Seq(S), NEW t \in Seq(S)
  PROVE  /\ s \o t \in Seq(S)
         /\ Len(s \o t) = Len(s) + Len(t)
         /\ \A m \in 1 .. Len(s) : (s \o t)[m] = s[m]
         /\ \A m \in 1 .. Len(t) : (s \o t)[Len(s) + m] = t[m]
OBVIOUS

LEMMA DocTyped ==
  ASSUME NEW d \in Doc, NEW s \in StepStates, NEW r \in RunStates, NEW k \in Refs \cup {NoRef},
         NEW b \in BOOLEAN, NEW i \in Ids \cup {NoId}, NEW g \in SUBSET {"failed", "rejected"},
         NEW h \in Claims \cup {NoHold}, NEW q \in Nat
  PROVE  /\ [d EXCEPT !.step = s] \in Doc /\ [d EXCEPT !.run = r] \in Doc
         /\ [d EXCEPT !.ckpt = k] \in Doc /\ [d EXCEPT !.open = b] \in Doc
         /\ [d EXCEPT !.id = i] \in Doc /\ [d EXCEPT !.again = g] \in Doc
         /\ [d EXCEPT !.held = h] \in Doc /\ [d EXCEPT !.handed = h] \in Doc
         /\ [d EXCEPT !.seq = q] \in Doc
<1>1. /\ [d EXCEPT !.step = s] \in Doc /\ [d EXCEPT !.run = r] \in Doc
      /\ [d EXCEPT !.ckpt = k] \in Doc
  BY DEF Doc
<1>2. /\ [d EXCEPT !.open = b] \in Doc /\ [d EXCEPT !.id = i] \in Doc
      /\ [d EXCEPT !.again = g] \in Doc
  BY DEF Doc
<1>3. /\ [d EXCEPT !.held = h] \in Doc /\ [d EXCEPT !.handed = h] \in Doc
      /\ [d EXCEPT !.seq = q] \in Doc
  BY DEF Doc
<1> QED BY <1>1, <1>2, <1>3

LEMMA ExecTyped ==
  ASSUME TypeOK, NEW c \in Claims, NEW d \in Doc,
         NEW s \in {"off", "begin", "loop", "admit", "assign", "post", "accepted", "rejected", "exists",
               "full", "broken", "follow", "after", "ended"}
  PROVE  /\ Goes(c, d, s) \in Exec
         /\ Goes(c, d, s).doc = d /\ Goes(c, d, s).at = s /\ Goes(c, d, s).by = exec[c].by
         /\ Goes(c, d, s).from = exec[c].from /\ Goes(c, d, s).adopted = exec[c].adopted
         /\ Goes(c, d, s).why = exec[c].why
         /\ exec[c] \in Exec
BY DEF TypeOK, Goes, Exec

LEMMA NoExecTyped == NoExec \in Exec /\ NoExec.at = "off" /\ NoExec.by = NoOne /\ NewDoc \in Doc
                     /\ NoExec.doc = NewDoc /\ ~NewDoc.open
BY Numbers DEF NoExec, NewDoc, Exec, Doc, RunStates, StepStates, NoLife, NoHold

LEMMA NoExecPlaced == \A c \in Claims : \A k, n \in Nat : Placed(c, NoExec, k, n)
BY NoExecTyped DEF Placed, Named, Handing

\* The document written by a commit, or the one before, and what every claim executes.
LEMMA CommitFormed ==
  ASSUME Formed, NEW c \in Claims, NEW next \in Exec, Commit(c, next), NEW n \in Nat, ids <= n,
         Named(next.doc, n), Placed(c, next, job.claim, n)
  PROVE  /\ doc' \in Doc /\ exec' \in [Claims -> Exec]
         /\ Named(doc', n)
         /\ \A k \in Claims : Placed(k, exec'[k], job.claim, n)
<1>1. ids \in Nat /\ job.claim \in Nat /\ exec \in [Claims -> Exec] /\ doc \in Doc
  BY Numbers DEF Formed, TypeOK, Job
<1>2. Named(doc, n) /\ \A k \in Claims : Placed(k, exec[k], job.claim, n)
  <2>1. \A d \in Doc : Named(d, ids) => Named(d, n)
    BY <1>1, Numbers DEF Named, Doc
  <2>2. \A k \in Claims : exec[k].doc \in Doc
    BY <1>1 DEF Exec
  <2> QED BY <2>1, <2>2, <1>1 DEF Formed, Placed
<1>3. next.doc \in Doc BY DEF Exec
<1>4. CASE Passes(c)
  <2>1. doc' = next.doc /\ exec' = [exec EXCEPT ![c] = next] BY <1>4 DEF Commit
  <2> QED BY <2>1, <1>1, <1>2, <1>3
<1>5. CASE ~Passes(c)
  <2>1. doc' = doc /\ exec' = [exec EXCEPT ![c] = NoExec] BY <1>5 DEF Commit
  <2> QED BY <2>1, <1>1, <1>2, NoExecTyped, NoExecPlaced
<1> QED BY <1>4, <1>5

\* A step that leaves the row, the disk and the identifiers alone.
LEMMA StepFormed ==
  ASSUME Formed, UNCHANGED <<disk, job, notes, asks, ids>>,
         doc' \in Doc, exec' \in [Claims -> Exec], Named(doc', ids),
         \A k \in Claims : Placed(k, exec'[k], job.claim, ids),
         assignment' \in [Ids -> Assignment],
         \A j \in Ids : Orderly(assignment'[j], j, ids),
         late' \subseteq Lives, troubles' \in 0 .. MaxTroubles
  PROVE  Formed'
<1>1. disk' = disk /\ job' = job /\ taking' = taking /\ told' = told /\ asks' = asks /\ ids' = ids
  BY DEF notes
<1>2. TypeOK' BY <1>1 DEF Formed, TypeOK
<1>3. ClaimKept' /\ Stored' BY <1>1 DEF Formed, ClaimKept, Stored
<1> QED BY <1>1, <1>2, <1>3 DEF Formed

LEMMA TroubleTyped ==
  ASSUME Formed, NEW kind, Trouble(kind) \/ UNCHANGED troubles
  PROVE  troubles' \in 0 .. MaxTroubles
BY Numbers DEF Formed, TypeOK, Trouble

\* A stop asked for changes no event.
LEMMA StopFormed ==
  ASSUME Formed, NEW i, assignment' = assignment \/ assignment' = Stopped(i)
  PROVE  /\ assignment' \in [Ids -> Assignment]
         /\ \A j \in Ids : Orderly(assignment'[j], j, ids)
<1>1. assignment \in [Ids -> Assignment] /\ \A j \in Ids : Orderly(assignment[j], j, ids)
  BY DEF Formed, TypeOK
<1>2. CASE assignment' = assignment BY <1>1, <1>2
<1>3. CASE assignment' # assignment
  <2>1. i \in Ids /\ Working(assignment[i])
        /\ assignment' = [assignment EXCEPT ![i].status = "stopping"]
    BY <1>3 DEF Stopped, AtWork, Working
  <2>2. \A a \in Assignment : [a EXCEPT !.status = "stopping"] \in Assignment
    BY DEF Assignment
  <2>3. assignment' \in [Ids -> Assignment] BY <2>1, <2>2, <1>1
  <2>4. Orderly(assignment'[i], i, ids)
    <3> DEFINE a == assignment[i]
               b == assignment'[i]
    <3>1. /\ b.status = "stopping" /\ b.life = a.life /\ b.events = a.events /\ b.made = a.made
          /\ b.lineage = a.lineage /\ a \in Assignment
      BY <2>1, <1>1 DEF Assignment
    <3>2. Orderly(a, i, ids) /\ Working(a) /\ Working(b) /\ Holding(b) /\ Holding(a)
      BY <3>1, <2>1, <1>1 DEF Working, Holding
    <3>3. Reported(b) = Reported(a) BY <3>1 DEF Reported
    <3> HIDE DEF a, b
    <3>4. Orderly(b, i, ids)
      BY <3>1, <3>2, <3>3 DEF Orderly, Working
    <3> QED BY <3>4 DEF b
  <2> QED BY <2>1, <2>3, <2>4, <1>1
<1> QED BY <1>2, <1>3

\* An execution that commits and asks the worker for nothing but a stop.
LEMMA CommitStepFormed ==
  ASSUME Formed, NEW c \in Claims, NEW next \in Exec, Commit(c, next),
         Named(next.doc, ids), Placed(c, next, job.claim, ids),
         UNCHANGED <<disk, job, notes, asks, ids, late>>, troubles' \in 0 .. MaxTroubles,
         NEW i, assignment' = assignment \/ assignment' = Stopped(i)
  PROVE  Formed'
<1>1. ids \in Nat /\ late' \subseteq Lives BY Numbers DEF Formed, TypeOK
<1>2. /\ doc' \in Doc /\ exec' \in [Claims -> Exec] /\ Named(doc', ids)
      /\ \A k \in Claims : Placed(k, exec'[k], job.claim, ids)
  BY <1>1, CommitFormed
<1>3. /\ assignment' \in [Ids -> Assignment]
      /\ \A j \in Ids : Orderly(assignment'[j], j, ids)
  BY StopFormed
<1> QED BY <1>1, <1>2, <1>3, StepFormed

\* An execution that moves on with the document it has.
LEMMA MoveFormed ==
  ASSUME Formed, NEW c \in Claims, NEW x \in Exec, Placed(c, x, job.claim, ids),
         exec' = [exec EXCEPT ![c] = x], UNCHANGED doc
  PROVE  /\ doc' \in Doc /\ exec' \in [Claims -> Exec] /\ Named(doc', ids)
         /\ \A k \in Claims : Placed(k, exec'[k], job.claim, ids)
BY DEF Formed, TypeOK

-----------------------------------------------------------------------------
(* The agent's steps.                                                      *)

\* What a boundary of the agent adds to an assignment.
Said(life, kind, unit, ref, outcome) ==
  [kind |-> kind, by |-> life, unit |-> unit, ref |-> ref, outcome |-> outcome]
Adds(unit, a) == IF unit <= Len(a.made) THEN 0 ELSE 1
EndAt(end, ref) == IF end \in {"stopped", "limit"} THEN ref ELSE NoRef
Reached(a, b, life, unit, end) ==
  LET s == a.events
      n == Len(s) + Adds(unit, a)
      ref == <<a.lineage, unit>>
  IN  /\ b.life = a.life /\ b.lineage = a.lineage /\ b.last = ref
      /\ b.status = IF end = "none" THEN a.status ELSE "finished"
      /\ b.made = IF unit <= Len(a.made) THEN a.made ELSE Append(a.made, life)
      /\ Len(b.events) = n + (IF end = "none" THEN 2 ELSE 3)
      /\ \A m \in 1 .. Len(s) : b.events[m] = s[m]
      /\ Adds(unit, a) = 1 => b.events[Len(s) + 1] = Said(life, "artifact", unit, NoRef, "none")
      /\ b.events[n + 1] = Said(life, "report", unit, NoRef, "none")
      /\ b.events[n + 2] = Said(life, "boundary", unit, ref, "none")
      /\ end # "none" => b.events[n + 3] = Said(life, "finished", 0, EndAt(end, ref), end)

Ends == {"none", "succeeded", "failed", "stopped", "limit"}

LEMMA LifeTyped ==
  ASSUME Formed, NEW i \in Ids, Holding(assignment[i])
  PROVE  /\ assignment[i] \in Assignment /\ Life(i) \in Lives /\ assignment[i].life > 0
<1>1. assignment[i] \in Assignment BY DEF Formed, TypeOK
<1>2. assignment[i].life # 0 BY DEF Formed, Orderly
<1> QED BY <1>1, <1>2, Numbers DEF Assignment, Life, Lives

LEMMA SaidTyped ==
  ASSUME NEW life \in Lives, NEW unit \in 0 .. Closing, NEW ref \in Refs \cup {NoRef},
         NEW kind \in {"artifact", "report", "boundary", "finished"},
         NEW outcome \in {"none", "succeeded", "failed", "stopped", "limit", "rejected"}
  PROVE  Said(life, kind, unit, ref, outcome) \in Event
BY DEF Said, Event

LEMMA ReachShape ==
  ASSUME Formed, NEW i \in Ids, Working(assignment[i]), NEW unit \in 1 .. Closing, NEW end \in Ends,
         unit <= Len(assignment[i].made) + 1, Reach(i, unit, end)
  PROVE  /\ assignment' = [assignment EXCEPT ![i] = assignment'[i]]
         /\ assignment'[i] \in Assignment
         /\ Reached(assignment[i], assignment'[i], Life(i), unit, end)
         /\ <<assignment[i].lineage, unit>> \in Refs
         /\ disk' = [disk EXCEPT ![<<assignment[i].lineage, unit>>] = assignment'[i].made]
<1> DEFINE a == assignment[i]
           ref == <<a.lineage, unit>>
           made == IF unit <= Len(a.made) THEN a.made ELSE Append(a.made, Life(i))
           A == IF unit <= Len(a.made) THEN <<>> ELSE <<Said(Life(i), "artifact", unit, NoRef, "none")>>
           B == <<Said(Life(i), "report", unit, NoRef, "none"), Said(Life(i), "boundary", unit, ref, "none")>>
           F == Said(Life(i), "finished", 0, EndAt(end, ref), end)
           C == IF end = "none" THEN <<>> ELSE <<F>>
           ev == ((a.events \o A) \o B) \o C
           b == [a EXCEPT !.made = made, !.last = ref,
                          !.status = IF end = "none" THEN @ ELSE "finished", !.events = ev]
<1>1. /\ a \in Assignment /\ Life(i) \in Lives /\ a.lineage \in Ids /\ a.made \in Seq(Lives)
      /\ a.events \in Seq(Event)
  <2>1. Holding(assignment[i]) BY DEF Working, Holding
  <2>2. a.lineage \in Ids BY DEF Formed, Orderly
  <2> QED BY <2>1, <2>2, LifeTyped DEF Assignment
<1>2. disk' = [disk EXCEPT ![ref] = made] /\ assignment' = [assignment EXCEPT ![i] = b]
  BY DEF Reach, Emit, Finished, Said, EndAt
<1>3. ref \in Refs BY <1>1 DEF Refs
<1>4. A \in Seq(Event) /\ B \in Seq(Event) /\ C \in Seq(Event) /\ F \in Event
  <2> HIDE DEF ref
  <2>0. unit \in 0 .. Closing BY Numbers
  <2>1. Said(Life(i), "artifact", unit, NoRef, "none") \in Event BY <1>1, <2>0, SaidTyped
  <2>2. Said(Life(i), "report", unit, NoRef, "none") \in Event BY <1>1, <2>0, SaidTyped
  <2>3. Said(Life(i), "boundary", unit, ref, "none") \in Event BY <1>1, <1>3, <2>0, SaidTyped
  <2>4. F \in Event
    <3>1. 0 \in 0 .. Closing BY Numbers
    <3> QED BY <1>1, <1>3, <3>1, SaidTyped DEF EndAt, Ends
  <2> QED BY <2>1, <2>2, <2>3, <2>4
<1>5. Len(A) = Adds(unit, a) /\ Len(B) = 2 /\ Len(C) = IF end = "none" THEN 0 ELSE 1
  BY DEF Adds
<1>6. /\ Adds(unit, a) = 1 => A[1] = Said(Life(i), "artifact", unit, NoRef, "none")
      /\ B[1] = Said(Life(i), "report", unit, NoRef, "none") /\ B[2] = Said(Life(i), "boundary", unit, ref, "none")
      /\ end # "none" => C[1] = F
  BY DEF Adds
<1>7. Adds(unit, a) \in {0, 1} BY DEF Adds
<1>8. /\ ev \in Seq(Event)
      /\ Len(ev) = Len(a.events) + Adds(unit, a) + (IF end = "none" THEN 2 ELSE 3)
      /\ \A m \in 1 .. Len(a.events) : ev[m] = a.events[m]
      /\ Adds(unit, a) = 1 => ev[Len(a.events) + 1] = A[1]
      /\ ev[Len(a.events) + Adds(unit, a) + 1] = B[1]
      /\ ev[Len(a.events) + Adds(unit, a) + 2] = B[2]
      /\ end # "none" => ev[Len(a.events) + Adds(unit, a) + 3] = C[1]
  <2> HIDE DEF a, A, B, C
  <2> DEFINE s == a.events
             t == s \o A
             u == t \o B
  <2>1. Len(s) \in Nat /\ s \in Seq(Event) BY <1>1
  <2>2. /\ t \in Seq(Event) /\ Len(t) = Len(s) + Len(A) /\ \A m \in 1 .. Len(s) : t[m] = s[m]
        /\ \A m \in 1 .. Len(A) : t[Len(s) + m] = A[m]
    BY <2>1, <1>4, Joined
  <2>3. /\ u \in Seq(Event) /\ Len(u) = Len(t) + Len(B) /\ \A m \in 1 .. Len(t) : u[m] = t[m]
        /\ \A m \in 1 .. Len(B) : u[Len(t) + m] = B[m]
    BY <2>2, <1>4, Joined
  <2>4. /\ ev \in Seq(Event) /\ Len(ev) = Len(u) + Len(C) /\ \A m \in 1 .. Len(u) : ev[m] = u[m]
        /\ \A m \in 1 .. Len(C) : ev[Len(u) + m] = C[m]
    BY <2>3, <1>4, Joined
  <2> HIDE DEF s, t, u, ev
  <2>5. Len(ev) = Len(s) + Adds(unit, a) + (IF end = "none" THEN 2 ELSE 3)
    BY <2>1, <2>2, <2>3, <2>4, <1>5, <1>7
  <2>6. \A m \in 1 .. Len(s) : ev[m] = s[m]
    BY <2>1, <2>2, <2>3, <2>4, <1>5, <1>7
  <2>7. Adds(unit, a) = 1 => ev[Len(s) + 1] = A[1]
    BY <2>1, <2>2, <2>3, <2>4, <1>5, <1>7
  <2>8. ev[Len(s) + Adds(unit, a) + 1] = B[1] /\ ev[Len(s) + Adds(unit, a) + 2] = B[2]
    BY <2>1, <2>2, <2>3, <2>4, <1>5, <1>7
  <2>9. end # "none" => ev[Len(s) + Adds(unit, a) + 3] = C[1]
    BY <2>1, <2>2, <2>3, <2>4, <1>5, <1>7
  <2> QED BY <2>4, <2>5, <2>6, <2>7, <2>8, <2>9 DEF s
<1>9. made \in Seq(Lives) BY <1>1
<1>10. /\ b \in Assignment /\ b.life = a.life /\ b.lineage = a.lineage /\ b.made = made /\ b.last = ref
       /\ b.events = ev /\ b.status = IF end = "none" THEN a.status ELSE "finished"
  <2> HIDE DEF ev, made, ref, a
  <2> QED BY <1>1, <1>3, <1>8, <1>9 DEF Assignment
<1>11. assignment' = [assignment EXCEPT ![i] = assignment'[i]] /\ assignment'[i] = b
  <2>1. assignment \in [Ids -> Assignment] BY DEF Formed, TypeOK
  <2> HIDE DEF b
  <2> QED BY <1>2, <2>1
<1>12. Reached(a, b, Life(i), unit, end)
  <2> HIDE DEF ev, b, A, B, C
  <2> QED BY <1>8, <1>6, <1>10, <1>7, <1>1 DEF Reached
<1> QED BY <1>2, <1>3, <1>10, <1>11, <1>12


\* The events after a boundary, one by one.
LEMMA Extended ==
  ASSUME NEW s \in Seq(Event), NEW t \in Seq(Event), NEW k \in {0, 1}, NEW e \in {2, 3},
         NEW x, NEW y, NEW z, NEW f,
         Len(t) = Len(s) + k + e,
         \A m \in 1 .. Len(s) : t[m] = s[m],
         k = 1 => t[Len(s) + 1] = x,
         t[Len(s) + k + 1] = y, t[Len(s) + k + 2] = z,
         e = 3 => t[Len(s) + k + 3] = f
  PROVE  \A m \in 1 .. Len(t) :
           \/ m <= Len(s) /\ t[m] = s[m]
           \/ m > Len(s) /\ k = 1 /\ m = Len(s) + 1 /\ t[m] = x
           \/ m > Len(s) /\ m = Len(s) + k + 1 /\ t[m] = y
           \/ m > Len(s) /\ m = Len(s) + k + 2 /\ t[m] = z
           \/ m > Len(s) /\ m = Len(s) + k + 3 /\ e = 3 /\ m = Len(t) /\ t[m] = f
<1> SUFFICES ASSUME NEW m \in 1 .. Len(t), m > Len(s)
             PROVE  \/ k = 1 /\ m = Len(s) + 1
                    \/ m = Len(s) + k + 1
                    \/ m = Len(s) + k + 2
                    \/ m = Len(s) + k + 3 /\ e = 3 /\ m = Len(t)
  OBVIOUS
<1> QED OBVIOUS

Added(a, b, life, unit, end) ==
  LET n == Len(a.events) + Adds(unit, a)
  IN  \A m \in 1 .. Len(b.events) :
        \/ m \in 1 .. Len(a.events) /\ b.events[m] = a.events[m]
        \/ m > Len(a.events) /\ m = n /\ Adds(unit, a) = 1
             /\ b.events[m] = Said(life, "artifact", unit, NoRef, "none")
        \/ m > Len(a.events) /\ m = n + 1
             /\ b.events[m] = Said(life, "report", unit, NoRef, "none")
        \/ m > Len(a.events) /\ m = n + 2
             /\ b.events[m] = Said(life, "boundary", unit, <<a.lineage, unit>>, "none")
        \/ m > Len(a.events) /\ m = n + 3 /\ end # "none" /\ m = Len(b.events)
             /\ b.events[m] = Said(life, "finished", 0, EndAt(end, <<a.lineage, unit>>), end)

LEMMA ReachedEvents ==
  ASSUME NEW a \in Assignment, NEW b \in Assignment, NEW life, NEW unit \in Nat, unit > 0, NEW end \in Ends,
         Reached(a, b, life, unit, end)
  PROVE  Added(a, b, life, unit, end) /\ Adds(unit, a) \in {0, 1}
<1> DEFINE s == a.events
           t == b.events
           k == Adds(unit, a)
           e == IF end = "none" THEN 2 ELSE 3
<1>1. s \in Seq(Event) /\ t \in Seq(Event) BY DEF Assignment
<1>2. k \in {0, 1} /\ e \in {2, 3} BY DEF Adds
<1>3. /\ Len(t) = Len(s) + k + e
      /\ \A m \in 1 .. Len(s) : t[m] = s[m]
      /\ k = 1 => t[Len(s) + 1] = Said(life, "artifact", unit, NoRef, "none")
      /\ t[Len(s) + k + 1] = Said(life, "report", unit, NoRef, "none")
      /\ t[Len(s) + k + 2] = Said(life, "boundary", unit, <<a.lineage, unit>>, "none")
      /\ e = 3 => t[Len(s) + k + 3] = Said(life, "finished", 0, EndAt(end, <<a.lineage, unit>>), end)
  BY DEF Reached
<1> HIDE DEF s, t, k, e
<1>4. \A m \in 1 .. Len(t) :
           \/ m <= Len(s) /\ t[m] = s[m]
           \/ m > Len(s) /\ k = 1 /\ m = Len(s) + 1 /\ t[m] = Said(life, "artifact", unit, NoRef, "none")
           \/ m > Len(s) /\ m = Len(s) + k + 1 /\ t[m] = Said(life, "report", unit, NoRef, "none")
           \/ m > Len(s) /\ m = Len(s) + k + 2
                /\ t[m] = Said(life, "boundary", unit, <<a.lineage, unit>>, "none")
           \/ m > Len(s) /\ m = Len(s) + k + 3 /\ e = 3 /\ m = Len(t)
                /\ t[m] = Said(life, "finished", 0, EndAt(end, <<a.lineage, unit>>), end)
  BY <1>1, <1>2, <1>3, Extended
<1>5. e = 3 => end # "none" BY DEF e
<1>6. Len(s) \in Nat BY <1>1
<1>7. Len(t) \in Nat BY <1>1
<1> QED BY <1>2, <1>4, <1>5, <1>6, <1>7 DEF s, t, k, Added

\* A boundary leaves an assignment's events in order.
LEMMA ReachedOrderly ==
  ASSUME NEW a \in Assignment, NEW b \in Assignment, NEW i \in Ids, NEW n \in Nat, a.life > 0,
         Orderly(a, i, n), Working(a),
         NEW unit \in Nat, unit > 0, NEW end \in Ends, Reached(a, b, <<i, a.life>>, unit, end),
         \/ unit = Len(a.made) + 1 /\ unit <= Units
         \/ unit = Closing /\ Len(a.made) >= Units /\ end \in {"succeeded", "failed"}
  PROVE  Orderly(b, i, n) /\ Len(b.made) = unit
<1> DEFINE k == Len(a.events) + Adds(unit, a)
<1>1. /\ Len(a.made) \in Nat /\ Len(a.events) \in Nat /\ a.life \in Nat /\ a.made \in Seq(Lives)
      /\ Len(b.made) \in Nat /\ Len(b.events) \in Nat /\ Len(a.made) <= Closing
      /\ Units \in Nat /\ Closing = Units + 1
  BY Numbers DEF Assignment, Orderly
<1>2. /\ b.life = a.life /\ b.lineage = a.lineage
      /\ b.status = IF end = "none" THEN a.status ELSE "finished"
      /\ Len(b.events) > Len(a.events)
      /\ b.made = IF unit <= Len(a.made) THEN a.made ELSE Append(a.made, <<i, a.life>>)
  <2>1. Adds(unit, a) \in {0, 1} BY DEF Adds
  <2>2. Len(b.events) = Len(a.events) + Adds(unit, a) + (IF end = "none" THEN 2 ELSE 3) BY DEF Reached
  <2>3. Len(b.events) > Len(a.events) BY <1>1, <2>1, <2>2
  <2> QED BY <2>3 DEF Reached
<1>3. /\ k \in Nat /\ k >= Len(a.events)
      /\ \A m \in 1 .. Len(b.events) :
           \/ m \in 1 .. Len(a.events) /\ b.events[m] = a.events[m]
           \/ /\ m > Len(a.events) /\ b.events[m].by = <<i, a.life>>
              /\ b.events[m].kind = "report" => m = k + 1 /\ b.events[m].unit = unit
              /\ b.events[m].kind = "finished" => end # "none" /\ m = Len(b.events)
              /\ b.events[m].outcome # "rejected"
  <2>1. Adds(unit, a) \in {0, 1} /\ Added(a, b, <<i, a.life>>, unit, end)
    BY ReachedEvents
  <2>2. k \in Nat /\ k >= Len(a.events) BY <1>1, <2>1
  <2>3. ASSUME NEW m \in 1 .. Len(b.events), ~(m \in 1 .. Len(a.events) /\ b.events[m] = a.events[m])
        PROVE  /\ m > Len(a.events)
               /\ b.events[m].by = <<i, a.life>>
               /\ b.events[m].kind = "report" => m = k + 1 /\ b.events[m].unit = unit
               /\ b.events[m].kind = "finished" => end # "none" /\ m = Len(b.events)
               /\ b.events[m].outcome # "rejected"
    BY <2>1, <2>3 DEF Said, Ends, Added
  <2> QED BY <2>2, <2>3
<1> HIDE DEF k
<1>4. Len(b.made) = unit
  BY <1>1, <1>2
<1>5. \A m \in Reported(b) : \/ m \in Reported(a) /\ b.events[m] = a.events[m]
                             \/ m = k + 1 /\ m > Len(a.events) /\ b.events[m].unit = unit
  BY <1>1, <1>3 DEF Reported
<1>6. \A m \in Reported(a) : /\ a.events[m].unit \in 1 .. Len(a.made) /\ a.events[m].unit <= Units
                             /\ a.events[m].unit # unit
  BY <1>1 DEF Orderly
<1>7. Holding(a) /\ Holding(b) /\ (Working(b) => end = "none")
  BY <1>2 DEF Holding, Working
<1>8. /\ i > n => b.life = 0
      /\ b.life = 0 => ~Holding(b)
      /\ Working(b) => b.lineage \in Ids
  BY <1>2, <1>7 DEF Orderly
<1>9. \A m \in 1 .. Len(b.events) : b.events[m].by = <<i, b.life>>
  <2>1. \A m \in 1 .. Len(a.events) : a.events[m].by = <<i, a.life>> BY DEF Orderly
  <2> QED BY <2>1, <1>2, <1>3
<1>10. \A m \in Reported(b) : /\ b.events[m].unit \in 1 .. Len(b.made)
                              /\ Working(b) => b.events[m].unit <= Units
  <2>1. Working(b) => unit <= Units BY <1>7
  <2>2. Len(a.made) <= Len(b.made) /\ unit \in 1 .. Len(b.made) BY <1>1, <1>4
  <2>3. \A m \in Reported(a) : a.events[m].unit \in 1 .. Len(b.made) BY <1>1, <1>6, <2>2
  <2> QED BY <1>5, <1>6, <2>1, <2>2, <2>3
<1>11. \A l, m \in Reported(b) : b.events[l].unit = b.events[m].unit => l = m
  BY <1>5, <1>6 DEF Orderly
<1>12. \A m \in 1 .. Len(b.events) :
          b.events[m].kind = "finished" => m = Len(b.events) /\ b.status = "finished"
  <2>1. \A m \in 1 .. Len(a.events) : a.events[m].kind # "finished" BY DEF Orderly, Working
  <2> QED BY <2>1, <1>2, <1>3
<1>13. \A m \in 1 .. Len(b.events) :
          b.events[m].outcome = "rejected" => m = 1 /\ b.events[m].kind = "finished"
  <2>1. \A m \in 1 .. Len(a.events) :
           a.events[m].outcome = "rejected" => m = 1 /\ a.events[m].kind = "finished"
    BY DEF Orderly
  <2> QED BY <2>1, <1>2, <1>3
<1>14. Len(b.made) <= Closing /\ Len(b.events) > 0 BY <1>1, <1>2, <1>4
<1> QED BY <1>4, <1>7, <1>8, <1>9, <1>10, <1>11, <1>12, <1>13, <1>14 DEF Orderly

\* A step of the worker at work on an assignment: no other changes, no life begins, and what
\* was said stays said.
GoesOn(a, b) ==
  /\ b.life = a.life
  /\ Holding(b) <=> Holding(a)
  /\ Working(b) => Working(a)
  /\ Len(b.events) >= Len(a.events)
  /\ \A m \in 1 .. Len(a.events) : b.events[m] = a.events[m]
  /\ ~Working(a) => b.status = a.status /\ Len(b.events) = Len(a.events)
Continued(A, B) == \A j \in Ids : GoesOn(A[j], B[j])

LEMMA GoesOnSelf == \A a \in Assignment : GoesOn(a, a)
<1> TAKE a \in Assignment
<1>1. Len(a.events) \in Nat BY DEF Assignment
<1> QED BY <1>1 DEF GoesOn

LEMMA ContinuedAt ==
  ASSUME NEW A \in [Ids -> Assignment], NEW i \in Ids, NEW b \in Assignment, GoesOn(A[i], b),
         NEW n, Orderly(b, i, n), \A j \in Ids : Orderly(A[j], j, n),
         NEW B, B = [A EXCEPT ![i] = b]
  PROVE  B \in [Ids -> Assignment] /\ Continued(A, B) /\ \A j \in Ids : Orderly(B[j], j, n)
<1>1. \A j \in Ids : B[j] = IF j = i THEN b ELSE A[j] OBVIOUS
<1>2. \A j \in Ids : GoesOn(A[j], A[j]) BY GoesOnSelf
<1> QED BY <1>1, <1>2 DEF Continued

LEMMA ReachContinues ==
  ASSUME Formed, NEW i \in Ids, Working(assignment[i]), NEW unit \in Nat, unit > 0, NEW end \in Ends,
         \/ unit = Len(assignment[i].made) + 1 /\ unit <= Units
         \/ unit = Closing /\ Len(assignment[i].made) >= Units /\ end \in {"succeeded", "failed"},
         Reach(i, unit, end)
  PROVE  /\ assignment' \in [Ids -> Assignment] /\ disk' \in [Refs -> Seq(Lives)] /\ Stored'
         /\ \A j \in Ids : Orderly(assignment'[j], j, ids)
         /\ Continued(assignment, assignment')
<1> DEFINE a == assignment[i]
           b == assignment'[i]
           ref == <<a.lineage, unit>>
<1>1. /\ assignment \in [Ids -> Assignment] /\ a \in Assignment /\ \A j \in Ids : Orderly(assignment[j], j, ids)
      /\ a.life > 0 /\ disk \in [Refs -> Seq(Lives)] /\ Stored /\ ids \in Nat
      /\ Life(i) = <<i, a.life>>
  <2>1. assignment \in [Ids -> Assignment] /\ disk \in [Refs -> Seq(Lives)] /\ ids \in Nat
    BY Numbers DEF Formed, TypeOK
  <2>2. a.life > 0 BY LifeTyped DEF Working, Holding
  <2> QED BY <2>1, <2>2 DEF Formed, Life
<1>2. Len(a.made) \in Nat /\ Len(a.events) \in Nat /\ Len(a.made) <= Closing
  BY <1>1 DEF Assignment, Orderly
<1>3. unit \in 1 .. Closing /\ unit <= Len(a.made) + 1 BY <1>2, Numbers
<1>4. /\ assignment' = [assignment EXCEPT ![i] = b] /\ b \in Assignment
      /\ Reached(a, b, Life(i), unit, end) /\ ref \in Refs /\ disk' = [disk EXCEPT ![ref] = b.made]
  BY <1>3, ReachShape
<1>5. Orderly(b, i, ids) /\ Len(b.made) = unit
  BY <1>1, <1>4, ReachedOrderly
<1>6. GoesOn(a, b)
  <2>1. Adds(unit, a) \in {0, 1} BY DEF Adds
  <2>2. Len(b.events) = Len(a.events) + Adds(unit, a) + (IF end = "none" THEN 2 ELSE 3)
    BY <1>4 DEF Reached
  <2>3. Len(b.events) >= Len(a.events) BY <2>1, <2>2, <1>2
  <2> HIDE DEF b
  <2>4. b.life = a.life /\ b.status = (IF end = "none" THEN a.status ELSE "finished")
        /\ \A m \in 1 .. Len(a.events) : b.events[m] = a.events[m]
    BY <1>4 DEF Reached
  <2> QED BY <2>3, <2>4 DEF GoesOn, Holding, Working
<1>7. disk' \in [Refs -> Seq(Lives)] /\ Stored'
  <2>1. ref[2] = unit /\ b.made \in Seq(Lives) BY <1>4 DEF Assignment
  <2> HIDE DEF a, b, ref
  <2>2. \A r \in Refs : disk'[r] = IF r = ref THEN b.made ELSE disk[r] BY <1>4, <1>1
  <2> QED BY <2>1, <2>2, <1>1, <1>4, <1>5 DEF Stored
<1> HIDE DEF b
<1> QED BY <1>1, <1>4, <1>5, <1>6, <1>7, ContinuedAt

\* The agent ends without a result.
LEMMA FailContinues ==
  ASSUME Formed, NEW i \in Ids, AgentFails(i)
  PROVE  /\ assignment' \in [Ids -> Assignment] /\ UNCHANGED disk
         /\ \A j \in Ids : Orderly(assignment'[j], j, ids)
         /\ Continued(assignment, assignment')
<1> DEFINE a == assignment[i]
           e == Said(Life(i), "finished", 0, NoRef, "failed")
           b == [a EXCEPT !.status = "finished", !.events = Append(@, e)]
<1>1. Working(a) /\ Holding(a) BY DEF AgentFails, AtWork, Working, Holding
<1>2. /\ assignment \in [Ids -> Assignment] /\ a \in Assignment /\ \A j \in Ids : Orderly(assignment[j], j, ids)
      /\ Life(i) \in Lives /\ Life(i) = <<i, a.life>>
  BY <1>1, LifeTyped DEF Formed, TypeOK, Life
<1>3. e \in Event BY <1>2, SaidTyped, Numbers
<1>4. assignment' = [assignment EXCEPT ![i] = b] /\ UNCHANGED disk
  BY DEF AgentFails, Finished, Emit, Said
<1>5. /\ b \in Assignment /\ b.status = "finished" /\ b.life = a.life /\ b.made = a.made
      /\ b.events = Append(a.events, e) /\ a.events \in Seq(Event)
  <2> HIDE DEF a, e
  <2>1. a.events \in Seq(Event) BY <1>2 DEF Assignment
  <2>2. Append(a.events, e) \in Seq(Event) BY <2>1, <1>3
  <2> QED BY <1>2, <2>1, <2>2 DEF Assignment
<1> HIDE DEF a, b
<1>6. /\ Len(b.events) = Len(a.events) + 1 /\ Len(a.events) \in Nat
      /\ \A m \in 1 .. Len(b.events) : \/ m \in 1 .. Len(a.events) /\ b.events[m] = a.events[m]
                                       \/ m = Len(b.events) /\ b.events[m] = e
      /\ \A m \in 1 .. Len(a.events) : b.events[m] = a.events[m]
  <2> HIDE DEF e
  <2> QED BY <1>5, <1>3
<1>7. e.kind = "finished" /\ e.by = <<i, a.life>> /\ e.outcome = "failed"
  BY <1>2 DEF Said
<1> HIDE DEF e
<1>8. GoesOn(a, b) BY <1>1, <1>5, <1>6 DEF GoesOn, Holding, Working
<1>9. Orderly(b, i, ids)
  <2>1. Orderly(a, i, ids) BY <1>2 DEF a
  <2>2. Reported(b) = Reported(a) /\ \A m \in Reported(a) : b.events[m] = a.events[m]
    BY <1>6, <1>7 DEF Reported
  <2>3. /\ \A m \in 1 .. Len(b.events) : b.events[m].by = <<i, b.life>>
        /\ \A m \in 1 .. Len(b.events) :
             b.events[m].kind = "finished" => m = Len(b.events) /\ b.status = "finished"
        /\ \A m \in 1 .. Len(b.events) :
             b.events[m].outcome = "rejected" => m = 1 /\ b.events[m].kind = "finished"
    BY <2>1, <1>1, <1>5, <1>6, <1>7 DEF Orderly, Working
  <2>4. ~Working(b) /\ Holding(b) /\ Len(b.events) > 0
    BY <1>5, <1>6 DEF Working, Holding
  <2> QED BY <2>1, <2>2, <2>3, <2>4, <1>1, <1>5 DEF Orderly
<1>10. assignment \in [Ids -> Assignment] /\ assignment[i] = a BY <1>2 DEF a
<1> QED BY <1>2, <1>4, <1>5, <1>8, <1>9, <1>10, ContinuedAt

-----------------------------------------------------------------------------
(* The invariant Formed, action by action.                                 *)

Stands == {"off", "begin", "loop", "admit", "assign", "post", "accepted", "rejected", "exists",
           "full", "broken", "follow", "after", "ended"}

LEMMA Facts ==
  ASSUME Formed, NEW c \in Claims
  PROVE  /\ exec[c] \in Exec /\ exec[c].doc \in Doc /\ exec[c].from \in Refs \cup {NoRef}
         /\ Placed(c, exec[c], job.claim, ids) /\ Named(exec[c].doc, ids)
         /\ doc \in Doc /\ Named(doc, ids) /\ ids \in Nat /\ job.claim \in Nat
         /\ exec \in [Claims -> Exec] /\ assignment \in [Ids -> Assignment] /\ job \in Job
<1>1. exec \in [Claims -> Exec] /\ doc \in Doc /\ job \in Job /\ assignment \in [Ids -> Assignment]
  BY DEF Formed, TypeOK
<1>2. ids \in Nat BY Numbers DEF Formed, TypeOK
<1>3. job.claim \in Nat BY <1>1, Numbers DEF Job
<1>4. Placed(c, exec[c], job.claim, ids) /\ Named(doc, ids) BY DEF Formed
<1>5. exec[c] \in Exec BY <1>1
<1>6. exec[c].doc \in Doc /\ exec[c].from \in Refs \cup {NoRef} BY <1>5 DEF Exec
<1> QED BY <1>1, <1>2, <1>3, <1>4, <1>5, <1>6 DEF Placed

LEMMA GoesPlaced ==
  ASSUME Formed, NEW c \in Claims, ~At(c, "off"), NEW d \in Doc, Named(d, ids), NEW s \in Stands,
         s \in Handing \cup {"follow"} => d.open, s = "after" => d.step \in EndedSteps
  PROVE  /\ Goes(c, d, s) \in Exec /\ Placed(c, Goes(c, d, s), job.claim, ids)
         /\ Goes(c, d, s).doc = d /\ Goes(c, d, s).at = s
<1>1. Placed(c, exec[c], job.claim, ids) /\ exec[c].at # "off" BY Facts DEF At
<1>2. TypeOK BY DEF Formed
<1>3. /\ Goes(c, d, s) \in Exec /\ Goes(c, d, s).doc = d /\ Goes(c, d, s).at = s
      /\ Goes(c, d, s).by = exec[c].by
  BY <1>2, ExecTyped DEF Stands
<1> QED BY <1>1, <1>3 DEF Placed

\* What an execution notes besides its document and where it stands.
LEMMA NotesPlaced ==
  ASSUME NEW c, NEW x \in Exec, NEW k, NEW n, Placed(c, x, k, n),
         NEW w \in {"none", "capacity", "limit"}, NEW b \in BOOLEAN, NEW f \in Refs \cup {NoRef}
  PROVE  /\ [x EXCEPT !.why = w] \in Exec /\ Placed(c, [x EXCEPT !.why = w], k, n)
         /\ [x EXCEPT !.adopted = b] \in Exec /\ Placed(c, [x EXCEPT !.adopted = b], k, n)
         /\ [x EXCEPT !.from = f] \in Exec /\ Placed(c, [x EXCEPT !.from = f], k, n)
         /\ [x EXCEPT !.why = w].doc = x.doc /\ [x EXCEPT !.adopted = b].doc = x.doc
         /\ [x EXCEPT !.from = f].doc = x.doc
<1>1. /\ [x EXCEPT !.why = w] \in Exec /\ [x EXCEPT !.adopted = b] \in Exec /\ [x EXCEPT !.from = f] \in Exec
      /\ [x EXCEPT !.why = w].doc = x.doc /\ [x EXCEPT !.adopted = b].doc = x.doc
      /\ [x EXCEPT !.from = f].doc = x.doc
      /\ [x EXCEPT !.why = w].at = x.at /\ [x EXCEPT !.adopted = b].at = x.at
      /\ [x EXCEPT !.from = f].at = x.at
      /\ [x EXCEPT !.why = w].by = x.by /\ [x EXCEPT !.adopted = b].by = x.by
      /\ [x EXCEPT !.from = f].by = x.by
  BY DEF Exec
<1> QED BY <1>1 DEF Placed

LEMMA BeginFormed ==
  ASSUME Formed, NEW c \in Claims, TakeoverLapsed(c) \/ Begin(c)
  PROVE  Formed'
<1>1. doc \in Doc /\ Named(doc, ids) /\ ~At(c, "off") BY Facts DEF TakeoverLapsed, Begin, At
<1>2. /\ UNCHANGED <<assignment, disk, job, notes, asks, ids, late>> /\ UNCHANGED troubles
  BY DEF TakeoverLapsed, Begin, workerVars, counters
<1>3. troubles' \in 0 .. MaxTroubles BY <1>2, TroubleTyped
<1>4. CASE TakeoverLapsed(c)
  <2> DEFINE d == [doc EXCEPT !.step = "stopped", !.held = NoHold]
  <2>1. d \in Doc /\ Named(d, ids) BY <1>1 DEF Doc, StepStates, Named
  <2>2. Commit(c, Goes(c, d, "begin")) BY <1>4 DEF TakeoverLapsed
  <2> HIDE DEF d
  <2>3. Goes(c, d, "begin") \in Exec /\ Placed(c, Goes(c, d, "begin"), job.claim, ids)
        /\ Goes(c, d, "begin").doc = d
    BY <1>1, <2>1, GoesPlaced DEF Stands, Handing
  <2> QED BY <1>2, <1>3, <2>1, <2>2, <2>3, CommitStepFormed
<1>5. CASE Begin(c) /\ EndedForClaim(doc)
  <2>1. exec' = [exec EXCEPT ![c] = Goes(c, doc, "ended")] /\ UNCHANGED doc BY <1>5 DEF Begin
  <2>2. Goes(c, doc, "ended") \in Exec /\ Placed(c, Goes(c, doc, "ended"), job.claim, ids)
    BY <1>1, GoesPlaced DEF Stands, Handing
  <2>3. /\ doc' \in Doc /\ exec' \in [Claims -> Exec] /\ Named(doc', ids)
        /\ \A k \in Claims : Placed(k, exec'[k], job.claim, ids)
    BY <2>1, <2>2, MoveFormed
  <2>4. late' \subseteq Lives /\ assignment' \in [Ids -> Assignment]
        /\ \A j \in Ids : Orderly(assignment'[j], j, ids)
    BY <1>2 DEF Formed, TypeOK
  <2> QED BY <1>2, <1>3, <2>3, <2>4, StepFormed
<1>6. CASE Begin(c) /\ ~EndedForClaim(doc)
  <2> DEFINE d == Recovered(doc)
  <2>1. d \in Doc /\ Named(d, ids)
    <3> DEFINE s == IF InFlight(doc) THEN "stopped" ELSE doc.step
    <3>1. s \in StepStates BY <1>1 DEF Doc, StepStates
    <3>2. d = [doc EXCEPT !.run = "running", !.step = s] BY DEF Recovered
    <3> HIDE DEF d, s
    <3> QED BY <1>1, <3>1, <3>2 DEF Doc, RunStates, Named
  <2>2. Commit(c, Goes(c, d, "loop")) BY <1>6 DEF Begin
  <2> HIDE DEF d
  <2>3. Goes(c, d, "loop") \in Exec /\ Placed(c, Goes(c, d, "loop"), job.claim, ids)
        /\ Goes(c, d, "loop").doc = d
    BY <1>1, <2>1, GoesPlaced DEF Stands, Handing
  <2> QED BY <1>2, <1>3, <2>1, <2>2, <2>3, CommitStepFormed
<1> QED BY <1>4, <1>5, <1>6

LEMMA FailedFormed ==
  ASSUME Formed, NEW c \in Claims, ~At(c, "off")
  PROVE  /\ Failed(c) \in Exec /\ Placed(c, Failed(c), job.claim, ids) /\ Named(Failed(c).doc, ids)
         /\ Failed(c).doc = [exec[c].doc EXCEPT !.step = "failed"]
<1> DEFINE d == [exec[c].doc EXCEPT !.step = "failed"]
<1>1. d \in Doc /\ Named(d, ids) /\ d.step = "failed"
  <2> DEFINE x == exec[c].doc
  <2>1. x \in Doc /\ Named(x, ids) BY Facts
  <2> HIDE DEF x
  <2>2. [x EXCEPT !.step = "failed"] \in Doc /\ Named([x EXCEPT !.step = "failed"], ids)
        /\ [x EXCEPT !.step = "failed"].step = "failed"
    BY <2>1 DEF Doc, StepStates, Named
  <2> QED BY <2>2 DEF x
<1> HIDE DEF d
<1>2. Goes(c, d, "after") \in Exec /\ Placed(c, Goes(c, d, "after"), job.claim, ids)
      /\ Goes(c, d, "after").doc = d
  BY <1>1, GoesPlaced DEF Stands, Handing, EndedSteps
<1> QED BY <1>1, <1>2 DEF Failed, d

\* A document whose step changes, and what it was gone on with.
LEMMA StepTyped ==
  ASSUME NEW d \in Doc, NEW s \in StepStates, NEW n, Named(d, n)
  PROVE  LET begun == [d EXCEPT !.again = @ \cup ({d.step} \cap {"failed", "rejected"})]
         IN  /\ [begun EXCEPT !.step = s] \in Doc /\ Named([begun EXCEPT !.step = s], n)
             /\ [begun EXCEPT !.step = s].open = d.open /\ [begun EXCEPT !.step = s].step = s
             /\ [d EXCEPT !.step = s, !.open = FALSE] \in Doc
             /\ Named([d EXCEPT !.step = s, !.open = FALSE], n)
             /\ [d EXCEPT !.step = s, !.open = FALSE].step = s
<1> DEFINE g == d.again \cup ({d.step} \cap {"failed", "rejected"})
           begun == [d EXCEPT !.again = @ \cup ({d.step} \cap {"failed", "rejected"})]
<1>1. g \in SUBSET {"failed", "rejected"} BY DEF Doc
<1>2. begun = [d EXCEPT !.again = g] OBVIOUS
<1> HIDE DEF g, begun
<1>3. begun \in Doc /\ begun.open = d.open /\ begun.id = d.id BY <1>1, <1>2 DEF Doc
<1>4. [begun EXCEPT !.step = s] \in Doc /\ [begun EXCEPT !.step = s].open = begun.open
      /\ [begun EXCEPT !.step = s].id = begun.id /\ [begun EXCEPT !.step = s].step = s
  BY <1>3 DEF Doc
<1>5. [d EXCEPT !.step = s, !.open = FALSE] \in Doc /\ [d EXCEPT !.step = s, !.open = FALSE].open = FALSE
      /\ [d EXCEPT !.step = s, !.open = FALSE].step = s
  BY DEF Doc
<1> QED BY <1>3, <1>4, <1>5 DEF Named, begun

LEMMA HandedOverFormed ==
  ASSUME Formed, NEW c \in Claims, ~At(c, "off"), exec[c].doc.open, NEW b \in BOOLEAN, HandedOver(c, b),
         UNCHANGED <<disk, job, notes, asks, ids, late>>, troubles' \in 0 .. MaxTroubles
  PROVE  Formed'
<1> DEFINE x == exec[c].doc
           begun == [x EXCEPT !.again = @ \cup ({x.step} \cap {"failed", "rejected"})]
           d == [begun EXCEPT !.step = "running"]
           y == Goes(c, d, "follow")
           next == [y EXCEPT !.adopted = b]
<1>1. x \in Doc /\ Named(x, ids) /\ x.open BY Facts
<1>2. d \in Doc /\ Named(d, ids) /\ d.open
  <2> HIDE DEF x
  <2>a. "running" \in StepStates BY DEF StepStates
  <2>1. d \in Doc /\ Named(d, ids) /\ d.open = x.open BY <1>1, <2>a, StepTyped
  <2> HIDE DEF d
  <2> QED BY <2>1, <1>1
<1>3. Commit(c, next) /\ (assignment' = assignment \/ assignment' = Stopped(x.id))
  BY DEF HandedOver
<1> HIDE DEF d
<1>4. y \in Exec /\ Placed(c, y, job.claim, ids) /\ y.doc = d
  BY <1>2, GoesPlaced DEF Stands
<1> HIDE DEF y
<1>5. next \in Exec /\ Placed(c, next, job.claim, ids) /\ next.doc = d
  <2>1. "none" \in {"none", "capacity", "limit"} /\ NoRef \in Refs \cup {NoRef} OBVIOUS
  <2> QED BY <1>4, <2>1, NotesPlaced
<1> HIDE DEF next, x
<1> QED BY <1>2, <1>3, <1>5, CommitStepFormed

LEMMA RejectedByWorkerFormed ==
  ASSUME Formed, NEW c \in Claims, ~At(c, "off"), RejectedByWorker(c),
         UNCHANGED <<disk, job, notes, asks, ids, late>>, troubles' \in 0 .. MaxTroubles
  PROVE  Formed'
<1> DEFINE x == exec[c].doc
           d == [x EXCEPT !.step = "rejected", !.open = FALSE]
<1>1. x \in Doc /\ Named(x, ids) BY Facts
<1>2. d \in Doc /\ Named(d, ids) /\ d.step = "rejected"
  <2> HIDE DEF x
  <2> QED BY <1>1, StepTyped DEF StepStates
<1>3. Commit(c, Goes(c, d, "after")) /\ assignment' = assignment
  BY DEF RejectedByWorker
<1> HIDE DEF d
<1>4. Goes(c, d, "after") \in Exec /\ Placed(c, Goes(c, d, "after"), job.claim, ids)
      /\ Goes(c, d, "after").doc = d
  BY <1>2, GoesPlaced DEF Stands, Handing, EndedSteps
<1> QED BY <1>2, <1>3, <1>4, CommitStepFormed

LEMMA AdoptedFormed ==
  ASSUME Formed, NEW c \in Claims, ~At(c, "off"), exec[c].doc.open, Adopted(c),
         UNCHANGED <<disk, job, notes, asks, ids, late>>, troubles' \in 0 .. MaxTroubles
  PROVE  Formed'
BY HandedOverFormed, RejectedByWorkerFormed DEF Adopted

LEMMA FailsFormed ==
  ASSUME Formed, NEW c \in Claims, ~At(c, "off"), Commit(c, Failed(c)),
         NEW i, assignment' = assignment \/ assignment' = Stopped(i),
         UNCHANGED <<disk, job, notes, asks, ids, late>>, troubles' \in 0 .. MaxTroubles
  PROVE  Formed'
BY FailedFormed, CommitStepFormed

\* An execution that stands elsewhere with nothing else changed but perhaps the worker.
LEMMA StandFormed ==
  ASSUME Formed, NEW c \in Claims, ~At(c, "off"), NEW s \in Stands,
         s \in Handing \cup {"follow"} => exec[c].doc.open, s # "after",
         exec' = [exec EXCEPT ![c].at = s], UNCHANGED <<disk, doc, job, notes, asks, ids>>,
         assignment' \in [Ids -> Assignment], \A j \in Ids : Orderly(assignment'[j], j, ids),
         late' \subseteq Lives, troubles' \in 0 .. MaxTroubles
  PROVE  Formed'
<1> DEFINE y == [exec[c] EXCEPT !.at = s]
<1>1. exec[c] \in Exec /\ exec \in [Claims -> Exec] /\ Placed(c, exec[c], job.claim, ids) /\ exec[c].at # "off"
  BY Facts DEF At
<1>2. exec' = [exec EXCEPT ![c] = y] BY <1>1
<1>3. y \in Exec /\ y.doc = exec[c].doc /\ y.by = exec[c].by /\ y.at = s BY <1>1 DEF Exec, Stands
<1> HIDE DEF y
<1>4. Placed(c, y, job.claim, ids) BY <1>1, <1>3 DEF Placed
<1> QED BY <1>2, <1>3, <1>4, MoveFormed, StepFormed

LEMMA BeginStepFormed ==
  ASSUME Formed, NEW c \in Claims, BeginStep(c)
  PROVE  Formed'
<1>1. ~At(c, "off") BY DEF BeginStep, At
<1>2. UNCHANGED <<disk, job, notes, asks, ids, late>> BY DEF BeginStep
<1>3. troubles' \in 0 .. MaxTroubles BY TroubleTyped DEF BeginStep, Reclaim
<1>4. CASE exec' = [exec EXCEPT ![c].at = "admit"] /\ UNCHANGED <<doc, assignment, troubles>>
  <2>1. /\ assignment' \in [Ids -> Assignment] /\ late' \subseteq Lives
        /\ \A j \in Ids : Orderly(assignment'[j], j, ids)
    BY <1>2, <1>4 DEF Formed, TypeOK
  <2> QED BY <1>1, <1>2, <1>3, <1>4, <2>1, StandFormed DEF Stands, Handing
<1>5. CASE exec[c].doc.open /\ Adopted(c)
  BY <1>1, <1>2, <1>3, <1>5, AdoptedFormed
<1>6. CASE Commit(c, Failed(c)) /\ UNCHANGED assignment
  BY <1>1, <1>2, <1>3, <1>6, FailsFormed
<1> QED BY <1>4, <1>5, <1>6 DEF BeginStep, Reclaim

LEMMA AdmitFormed ==
  ASSUME Formed, NEW c \in Claims, Admit(c)
  PROVE  Formed'
<1> DEFINE x == exec[c].doc
           begun == [x EXCEPT !.again = @ \cup ({x.step} \cap {"failed", "rejected"})]
           d == [begun EXCEPT !.step = "admitted"]
           e == [begun EXCEPT !.step = "rejected"]
           f == ContinuesFrom(x)
           y == Goes(c, d, "assign")
           next == [y EXCEPT !.from = f]
<1>1. ~At(c, "off") /\ x \in Doc /\ Named(x, ids) BY Facts DEF Admit, At
<1>2. UNCHANGED <<assignment, disk, job, notes, asks, ids, late>> BY DEF Admit, workerVars
<1>3. troubles' \in 0 .. MaxTroubles BY TroubleTyped DEF Admit
<1>4. d \in Doc /\ Named(d, ids) /\ e \in Doc /\ Named(e, ids) /\ e.step = "rejected"
  <2> HIDE DEF x
  <2> QED BY <1>1, StepTyped DEF StepStates
<1>5. f \in Refs \cup {NoRef} BY <1>1 DEF ContinuesFrom, Doc
<1>6. \/ Commit(c, next)
      \/ Commit(c, Goes(c, e, "after"))
  BY DEF Admit
<1> HIDE DEF d, e, f, x
<1>7. y \in Exec /\ Placed(c, y, job.claim, ids) /\ y.doc = d
  BY <1>1, <1>4, GoesPlaced DEF Stands, Handing
<1>8. Goes(c, e, "after") \in Exec /\ Placed(c, Goes(c, e, "after"), job.claim, ids)
      /\ Goes(c, e, "after").doc = e
  BY <1>1, <1>4, GoesPlaced DEF Stands, Handing, EndedSteps
<1> HIDE DEF y
<1>9. next \in Exec /\ Placed(c, next, job.claim, ids) /\ next.doc = d
  <2>1. "none" \in {"none", "capacity", "limit"} /\ TRUE \in BOOLEAN OBVIOUS
  <2> HIDE DEF next
  <2>2. /\ [y EXCEPT !.from = f] \in Exec /\ Placed(c, [y EXCEPT !.from = f], job.claim, ids)
        /\ [y EXCEPT !.from = f].doc = y.doc
    BY <1>5, <1>7, <2>1, NotesPlaced, ZenonT(30)
  <2> QED BY <1>7, <2>2 DEF next
<1> HIDE DEF next
<1> QED BY <1>2, <1>3, <1>4, <1>6, <1>8, <1>9, CommitStepFormed

LEMMA AssignFormed ==
  ASSUME Formed, NEW c \in Claims, Assign(c)
  PROVE  Formed'
<1> DEFINE x == exec[c].doc
           i == AssignedId(x)
           d == [x EXCEPT !.id = i, !.open = TRUE, !.seq = 0]
           y == Goes(c, d, "post")
<1>1. x \in Doc /\ Named(x, ids) /\ exec[c] \in Exec /\ Placed(c, exec[c], job.claim, ids)
      /\ ids \in Nat /\ exec[c].at # "off" /\ i \in Ids /\ i \in Nat
  BY Facts, Numbers DEF Assign, At
<1>2. UNCHANGED <<assignment, disk, job, taking, told, asks, troubles, late>>
  BY DEF Assign, workerVars, notes
<1>3. /\ Commit(c, y)
      /\ ids' = IF Passes(c) /\ i > ids THEN i ELSE ids
  BY DEF Assign
<1>4. i <= ids + 1 BY <1>1 DEF AssignedId, Named
<1>5. /\ ids' \in Ids \cup {0} /\ ids <= ids' /\ ids' \in Nat
      /\ Passes(c) => i <= ids'
  BY <1>1, <1>3 DEF Formed, TypeOK
<1>6. d \in Doc /\ d.id = i /\ d.open
  <2> HIDE DEF x, i
  <2> QED BY <1>1 DEF Doc
<1> HIDE DEF i, d
<1>7. y \in Exec /\ y.doc = d /\ y.at = "post" /\ y.by = exec[c].by
  <2>1. TypeOK BY DEF Formed
  <2> QED BY <2>1, <1>6, ExecTyped
<1> HIDE DEF y
<1>a. \A e \in Doc : Named(e, ids) => Named(e, ids')
  <2>1. \A j \in Ids : j <= ids => j <= ids' BY <1>1, <1>5, Numbers
  <2> QED BY <2>1 DEF Named
<1>8. \A k \in Claims : Placed(k, exec[k], job.claim, ids')
  <2>1. \A k \in Claims : exec[k].doc \in Doc /\ Placed(k, exec[k], job.claim, ids) BY Facts
  <2> QED BY <2>1, <1>a DEF Placed
<1>9. Named(doc, ids')
  <2>1. doc \in Doc /\ Named(doc, ids) BY Facts
  <2> QED BY <1>a, <2>1
<1>10. /\ doc' \in Doc /\ exec' \in [Claims -> Exec] /\ Named(doc', ids')
       /\ \A k \in Claims : Placed(k, exec'[k], job.claim, ids')
  <2>1. CASE Passes(c)
    <3>1. Named(d, ids') BY <1>1, <1>5, <1>6, <2>1 DEF Named
    <3>2. Placed(c, y, job.claim, ids') BY <1>1, <1>6, <1>7, <3>1 DEF Placed
    <3>3. doc' = d /\ exec' = [exec EXCEPT ![c] = y] BY <1>3, <1>7, <2>1 DEF Commit
    <3> QED BY <1>6, <1>7, <1>8, <3>1, <3>2, <3>3, Facts
  <2>2. CASE ~Passes(c)
    <3>1. doc' = doc /\ exec' = [exec EXCEPT ![c] = NoExec] BY <1>3, <2>2 DEF Commit
    <3>2. Placed(c, NoExec, job.claim, ids') BY <1>5, Facts, NoExecPlaced
    <3> QED BY <1>8, <1>9, <3>1, <3>2, Facts, NoExecTyped
  <2> QED BY <2>1, <2>2
<1>11. \A j \in Ids : Orderly(assignment[j], j, ids')
  <2>1. \A j \in Ids : Orderly(assignment[j], j, ids) /\ (j > ids' => j > ids)
    BY <1>1, <1>5, Numbers DEF Formed
  <2> QED BY <2>1 DEF Orderly
<1>12. TypeOK' BY <1>2, <1>5, <1>10 DEF Formed, TypeOK
<1>13. ClaimKept' /\ Stored' BY <1>2 DEF Formed, ClaimKept, Stored
<1> QED BY <1>2, <1>10, <1>11, <1>12, <1>13 DEF Formed

\* What the worker takes is an assignment of a life of its own, with nothing said yet.
Taken(a, i, f, b) ==
  /\ a \in Assignment /\ Orderly(a, i, ids) /\ <<i, a.life>> \in Lives
  /\ a.life = assignment[i].life + 1 /\ Reported(a) = {}
  /\ a.status = IF b THEN "finished" ELSE "running"
  /\ a.made = (IF f = NoRef THEN <<>> ELSE disk[f]) /\ a.last = f
  /\ Len(a.events) = IF b THEN 1 ELSE 0
  /\ b => a.events[1] = [kind |-> "finished", by |-> <<i, a.life>>, unit |-> 0,
                         ref |-> NoRef, outcome |-> "rejected"]

LEMMA AcceptedOrderly ==
  ASSUME Formed, NEW i \in Ids, i <= ids, ~Known(i), assignment[i].life < MaxLives,
         NEW f \in Refs \cup {NoRef}, NEW b \in BOOLEAN
  PROVE  Taken(Accepted(i, f, b), i, f, b)
<1> DEFINE life == assignment[i].life + 1
           lineage == IF f = NoRef THEN i ELSE f[1]
           made == IF f = NoRef THEN <<>> ELSE disk[f]
           e == [kind |-> "finished", by |-> <<i, life>>, unit |-> 0, ref |-> NoRef, outcome |-> "rejected"]
           a == Accepted(i, f, b)
<1>1. life \in 1 .. MaxLives
  <2>1. assignment[i] \in Assignment BY DEF Formed, TypeOK
  <2> QED BY <2>1, Numbers DEF Assignment
<1>2. lineage \in Ids BY DEF Refs
<1>3. made \in Seq(Lives) /\ Len(made) <= Closing /\ Len(made) \in Nat
  <2>1. CASE f = NoRef BY <2>1, Numbers
  <2>2. CASE f # NoRef
    <3>1. disk[f] \in Seq(Lives) /\ f \in Refs BY <2>2 DEF Formed, TypeOK
    <3>2. f[2] <= Closing BY <3>1, Numbers DEF Refs
    <3>3. disk[f] # <<>> => Len(disk[f]) = f[2] BY <3>1 DEF Formed, Stored
    <3>4. disk[f] = <<>> => Len(disk[f]) = 0 OBVIOUS
    <3> QED BY <2>2, <3>1, <3>2, <3>3, <3>4, Numbers
  <2> QED BY <2>1, <2>2
<1>4. <<i, life>> \in Lives BY <1>1 DEF Lives
<1>5. e \in Event /\ <<e>> \in Seq(Event) /\ e.by = <<i, life>> /\ e.kind = "finished"
  <2>1. e \in Event BY <1>4, Numbers DEF Event
  <2> HIDE DEF e
  <2>2. <<e>> \in Seq(Event) BY <2>1
  <2> QED BY <2>2, <2>1 DEF e
<1>6. /\ a.life = life /\ a.lineage = lineage /\ a.made = made /\ a.last = f
      /\ a.status = (IF b THEN "finished" ELSE "running")
      /\ a.events = IF b THEN <<e>> ELSE <<>>
      /\ a = [status |-> a.status, life |-> life, lineage |-> lineage, made |-> made, last |-> f,
              events |-> a.events]
  BY DEF Accepted, Unknown
<1> HIDE DEF life, lineage, made, e, a
<1>7. a.events \in Seq(Event) /\ Len(a.events) = (IF b THEN 1 ELSE 0) /\ (b => a.events[1] = e)
  BY <1>5, <1>6
<1>8. a \in Assignment
  <2>1. life \in 0 .. MaxLives BY <1>1, Numbers
  <2>2. a.status \in {"unknown", "running", "stopping", "finished"} BY <1>6
  <2> QED BY <1>2, <1>3, <1>6, <1>7, <2>1, <2>2 DEF Assignment
<1>9. \A m \in 1 .. Len(a.events) : m = 1 /\ b /\ a.events[m] = e BY <1>7
<1>10. Reported(a) = {} BY <1>9, <1>5 DEF Reported
<1>11. life > 0 /\ ~(i > ids)
  <2>1. i \in Nat /\ ids \in Nat BY Numbers DEF Formed, TypeOK
  <2> QED BY <2>1, <1>1, Numbers
<1>12. Orderly(a, i, ids)
  BY <1>2, <1>3, <1>5, <1>6, <1>7, <1>9, <1>10, <1>11 DEF Orderly, Holding, Working
<1> QED BY <1>4, <1>6, <1>7, <1>8, <1>10, <1>12 DEF a, life, made, e, Taken

LEMMA TakesFormed ==
  ASSUME Formed, NEW c \in Claims, At(c, "post"), NEW b \in BOOLEAN, Takes(c, b)
  PROVE  /\ assignment' \in [Ids -> Assignment] /\ late' \subseteq Lives
         /\ \A j \in Ids : Orderly(assignment'[j], j, ids)
<1> DEFINE i == exec[c].doc.id
           a == Accepted(i, exec[c].from, b)
<1>1. Placed(c, exec[c], job.claim, ids) /\ exec[c].at \in Handing
      /\ exec[c].from \in Refs \cup {NoRef} /\ assignment \in [Ids -> Assignment]
  BY Facts DEF At, Handing
<1>2. i \in Ids /\ i <= ids BY <1>1 DEF Placed, Named
<1>3. ~Known(i) /\ assignment[i].life < MaxLives BY DEF Takes, Answer
<1>4. /\ a \in Assignment /\ Orderly(a, i, ids) /\ <<i, a.life>> \in Lives
      /\ a.life = assignment[i].life + 1
  <2>1. Taken(a, i, exec[c].from, b) BY <1>1, <1>2, <1>3, AcceptedOrderly
  <2> QED BY <2>1 DEF Taken
<1>5. /\ assignment' = [assignment EXCEPT ![i] = a]
      /\ late' = IF Passes(c) THEN late ELSE late \cup {<<i, assignment[i].life + 1>>}
  BY DEF Takes
<1> HIDE DEF i, a
<1>6. late \subseteq Lives /\ \A j \in Ids : Orderly(assignment[j], j, ids) BY DEF Formed, TypeOK
<1>7. \A j \in Ids : assignment'[j] = IF j = i THEN a ELSE assignment[j] BY <1>1, <1>2, <1>5
<1> QED BY <1>1, <1>2, <1>4, <1>5, <1>6, <1>7

LEMMA PostFormed ==
  ASSUME Formed, NEW c \in Claims, Post(c)
  PROVE  Formed'
<1>1. At(c, "post") /\ ~At(c, "off") /\ exec[c].at \in Handing BY DEF Post, At, Handing
<1>2. exec[c].doc.open BY <1>1, Facts DEF Placed
<1>3. UNCHANGED <<disk, doc, job, notes, asks, ids>> BY DEF Post
<1>4. troubles' \in 0 .. MaxTroubles BY TroubleTyped DEF Post
<1>5. /\ assignment' \in [Ids -> Assignment] /\ late' \subseteq Lives
      /\ \A j \in Ids : Orderly(assignment'[j], j, ids)
  <2>1. CASE UNCHANGED <<assignment, late>> BY <2>1 DEF Formed, TypeOK
  <2>2. CASE Takes(c, TRUE) \/ Takes(c, FALSE) BY <1>1, <2>2, TakesFormed
  <2> QED BY <2>1, <2>2 DEF Post
<1>6. PICK s \in {"accepted", "rejected", "broken", "exists", "full"} : exec' = [exec EXCEPT ![c].at = s]
  BY DEF Post
<1> QED BY <1>1, <1>2, <1>3, <1>4, <1>5, <1>6, StandFormed DEF Stands

LEMMA FullFormed ==
  ASSUME Formed, NEW c \in Claims, ~At(c, "off"), Full(c),
         UNCHANGED <<disk, job, notes, asks, ids, late>>, troubles' \in 0 .. MaxTroubles
  PROVE  Formed'
<1> DEFINE x == exec[c].doc
           closed == [x EXCEPT !.open = FALSE]
           d == [closed EXCEPT !.step = "stopped", !.ckpt = exec[c].from]
           e == [closed EXCEPT !.step = "failed"]
<1>1. x \in Doc /\ Named(x, ids) /\ exec[c].from \in Refs \cup {NoRef} BY Facts
<1>2. /\ d \in Doc /\ Named(d, ids) /\ d.step = "stopped"
      /\ e \in Doc /\ Named(e, ids) /\ e.step = "failed"
  <2> HIDE DEF x
  <2>1. closed \in Doc /\ closed.open = FALSE BY <1>1 DEF Doc
  <2> HIDE DEF closed
  <2>2. "stopped" \in StepStates /\ "failed" \in StepStates BY DEF StepStates
  <2>3. d \in Doc /\ d.step = "stopped" /\ d.open = FALSE BY <1>1, <2>1, <2>2 DEF Doc
  <2>4. e \in Doc /\ e.step = "failed" /\ e.open = FALSE BY <2>1, <2>2 DEF Doc
  <2> QED BY <2>3, <2>4 DEF Named
<1>3. \E f \in {d, e} : Commit(c, [Goes(c, f, "after") EXCEPT !.why = "capacity"])
  BY DEF Full
<1>4. UNCHANGED assignment BY DEF Full
<1> HIDE DEF x, closed, d, e
<1>5. PICK f \in {d, e} : Commit(c, [Goes(c, f, "after") EXCEPT !.why = "capacity"]) BY <1>3
<1> DEFINE y == Goes(c, f, "after")
           next == [y EXCEPT !.why = "capacity"]
<1>6. y \in Exec /\ Placed(c, y, job.claim, ids) /\ y.doc = f /\ Named(f, ids)
  BY <1>2, GoesPlaced DEF Stands, Handing, EndedSteps
<1>7. Commit(c, next) BY <1>5
<1> HIDE DEF y
<1>8. next \in Exec /\ Placed(c, next, job.claim, ids) /\ next.doc = f
  <2>1. "capacity" \in {"none", "capacity", "limit"} /\ TRUE \in BOOLEAN /\ NoRef \in Refs \cup {NoRef}
    OBVIOUS
  <2> QED BY <1>6, <2>1, NotesPlaced
<1> HIDE DEF next
<1> QED BY <1>4, <1>6, <1>7, <1>8, CommitStepFormed

LEMMA AnsweredFormed ==
  ASSUME Formed, NEW c \in Claims, Answered(c)
  PROVE  Formed'
<1>1. ~At(c, "off") /\ exec[c].at \in Handing BY DEF Answered, At, Handing
<1>2. exec[c].doc.open BY <1>1, Facts DEF Placed
<1>3. UNCHANGED <<disk, job, notes, asks, ids, late>> /\ UNCHANGED troubles BY DEF Answered, counters
<1>4. troubles' \in 0 .. MaxTroubles BY <1>3, TroubleTyped
<1>5. CASE HandedOver(c, FALSE) BY <1>1, <1>2, <1>3, <1>4, <1>5, HandedOverFormed
<1>6. CASE RejectedByWorker(c) BY <1>1, <1>3, <1>4, <1>6, RejectedByWorkerFormed
<1>7. CASE Adopted(c) BY <1>1, <1>2, <1>3, <1>4, <1>7, AdoptedFormed
<1>8. CASE Commit(c, Failed(c)) /\ UNCHANGED assignment BY <1>1, <1>3, <1>4, <1>8, FailsFormed
<1>9. CASE Full(c) BY <1>1, <1>3, <1>4, <1>9, FullFormed
<1> QED BY <1>5, <1>6, <1>7, <1>8, <1>9 DEF Answered

LEMMA WithTyped ==
  ASSUME NEW d \in Doc, NEW e \in Event, e.kind = "report" => e.unit \in 1 .. Closing
  PROVE  /\ With(d, e) \in Doc /\ With(d, e).open = d.open /\ With(d, e).id = d.id
         /\ With(d, e).step = d.step /\ With(d, e).seq = d.seq + 1
         /\ With(d, e).held = d.held /\ With(d, e).handed = d.handed /\ With(d, e).run = d.run
         /\ With(d, e).again = d.again
         /\ With(d, e).used = IF e.kind = "report" THEN Append(d.used, <<e.by, e.unit>>) ELSE d.used
         /\ With(d, e).ckpt = IF e.kind = "boundary" THEN e.ref ELSE d.ckpt
         /\ With(d, e).kept = IF e.kind = "artifact" /\ ~Holds(d, e.unit)
                              THEN [d.kept EXCEPT ![e.unit] = e.by] ELSE d.kept
<1>1. d.seq + 1 \in Nat /\ e.by \in Lives /\ e.ref \in Refs \cup {NoRef} BY DEF Doc, Event
<1>2. CASE e.kind = "artifact" /\ ~Holds(d, e.unit)
  <2>1. With(d, e) = [d EXCEPT !.kept[e.unit] = e.by, !.seq = @ + 1] BY <1>2 DEF With
  <2>2. d.kept \in [1 .. Closing -> Lives \cup {NoLife}] BY DEF Doc
  <2>3. [d.kept EXCEPT ![e.unit] = e.by] \in [1 .. Closing -> Lives \cup {NoLife}] BY <1>1, <2>2
  <2> QED BY <1>1, <1>2, <2>1, <2>3 DEF Doc
<1>3. CASE e.kind = "report"
  <2>1. With(d, e) = [d EXCEPT !.used = Append(@, <<e.by, e.unit>>), !.seq = @ + 1] BY <1>3 DEF With
  <2>2. d.used \in Seq(Lives \X (1 .. Closing)) BY DEF Doc
  <2>3. <<e.by, e.unit>> \in Lives \X (1 .. Closing) BY <1>1, <1>3
  <2>4. Append(d.used, <<e.by, e.unit>>) \in Seq(Lives \X (1 .. Closing)) BY <2>2, <2>3
  <2> QED BY <1>1, <1>3, <2>1, <2>4 DEF Doc
<1>4. CASE e.kind = "boundary"
  <2>1. With(d, e) = [d EXCEPT !.ckpt = e.ref, !.seq = @ + 1] BY <1>4 DEF With
  <2> QED BY <1>1, <1>4, <2>1 DEF Doc
<1>5. CASE ~(e.kind = "artifact" /\ ~Holds(d, e.unit)) /\ e.kind \notin {"report", "boundary"}
  <2>1. With(d, e) = [d EXCEPT !.seq = @ + 1] BY <1>5 DEF With
  <2> QED BY <1>1, <1>5, <2>1 DEF Doc
<1> QED BY <1>2, <1>3, <1>4, <1>5

LEMMA ClosedTyped ==
  ASSUME NEW d \in Doc, NEW e \in Event
  PROVE  /\ Closed(d, e) \in Doc /\ Closed(d, e).open = FALSE
         /\ Closed(d, e).step = (CASE e.outcome = "succeeded" -> "succeeded"
                                   [] e.outcome \in {"stopped", "limit"} -> "stopped"
                                   [] OTHER -> "failed")
         /\ Closed(d, e).used = d.used /\ Closed(d, e).kept = d.kept /\ Closed(d, e).id = d.id
         /\ Closed(d, e).held = d.held /\ Closed(d, e).handed = d.handed
         /\ Closed(d, e).seq = d.seq /\ Closed(d, e).again = d.again /\ Closed(d, e).run = d.run
         /\ Closed(d, e).ckpt = IF e.outcome \in {"stopped", "limit"} /\ e.ref # NoRef THEN e.ref ELSE d.ckpt
<1>1. CASE e.outcome = "succeeded"
  <2>1. Closed(d, e) = [d EXCEPT !.open = FALSE, !.step = "succeeded"] BY <1>1 DEF Closed
  <2> QED BY <1>1, <2>1 DEF Doc, StepStates
<1>2. CASE e.outcome \in {"stopped", "limit"}
  <2> DEFINE k == IF e.ref # NoRef THEN e.ref ELSE d.ckpt
  <2>1. Closed(d, e) = [d EXCEPT !.open = FALSE, !.step = "stopped", !.ckpt = k] BY <1>2 DEF Closed
  <2>2. k \in Refs \cup {NoRef} BY DEF Doc, Event
  <2> HIDE DEF k
  <2>a. "stopped" \in StepStates BY DEF StepStates
  <2>3. /\ Closed(d, e) \in Doc /\ Closed(d, e).open = FALSE /\ Closed(d, e).step = "stopped"
        /\ Closed(d, e).ckpt = k
        /\ Closed(d, e).used = d.used /\ Closed(d, e).kept = d.kept /\ Closed(d, e).id = d.id
        /\ Closed(d, e).held = d.held /\ Closed(d, e).handed = d.handed
        /\ Closed(d, e).seq = d.seq /\ Closed(d, e).again = d.again /\ Closed(d, e).run = d.run
    BY <2>1, <2>2, <2>a DEF Doc
  <2> QED BY <1>2, <2>3 DEF k
<1>3. CASE e.outcome \notin {"succeeded", "stopped", "limit"}
  <2>1. Closed(d, e) = [d EXCEPT !.open = FALSE, !.step = "failed"] BY <1>3 DEF Closed
  <2> QED BY <1>3, <2>1 DEF Doc, StepStates
<1> QED BY <1>1, <1>2, <1>3

\* The event an execution reads next.
LEMMA NextEvent ==
  ASSUME Formed, NEW c \in Claims, At(c, "follow"),
         exec[c].doc.seq < Len(assignment[exec[c].doc.id].events)
  PROVE  LET d == exec[c].doc
             a == assignment[d.id]
             e == a.events[d.seq + 1]
         IN  /\ d.open /\ d.id \in Ids /\ d.id <= ids /\ a \in Assignment /\ Orderly(a, d.id, ids)
             /\ d \in Doc /\ d.seq \in Nat /\ e \in Event
             /\ d.seq + 1 \in 1 .. Len(a.events)
             /\ e.kind = "report" => e.unit \in 1 .. Closing
             /\ e.by = Life(d.id)
<1> DEFINE d == exec[c].doc
           a == assignment[d.id]
           n == d.seq + 1
           e == a.events[n]
<1>1. Placed(c, exec[c], job.claim, ids) /\ d \in Doc /\ exec[c].at = "follow"
  BY Facts DEF At
<1>2. d.open /\ d.id \in Ids /\ d.id <= ids BY <1>1 DEF Placed, Named
<1>3. a \in Assignment /\ Orderly(a, d.id, ids) BY <1>2 DEF Formed, TypeOK
<1>4. d.seq \in Nat BY <1>1 DEF Doc
<1>a. a.events \in Seq(Event) /\ a.made \in Seq(Lives) BY <1>3 DEF Assignment
<1> HIDE DEF a
<1>5. a.events \in Seq(Event) /\ Len(a.events) \in Nat /\ Len(a.made) \in Nat BY <1>a
<1> USE DEF a
<1>6. n \in 1 .. Len(a.events) BY <1>4, <1>5
<1>7. Life(d.id) = <<d.id, a.life>> BY DEF Life
<1> HIDE DEF a, n
<1>8. e \in Event BY <1>5, <1>6
<1>9. e.by = <<d.id, a.life>> BY <1>3, <1>6 DEF Orderly
<1>10. e.kind = "report" => e.unit \in 1 .. Closing
  <2>1. ASSUME e.kind = "report" PROVE e.unit \in 1 .. Len(a.made) /\ Len(a.made) <= Closing
    BY <1>3, <1>6, <2>1 DEF Orderly, Reported
  <2> QED BY <2>1, <1>5, Numbers
<1> QED BY <1>1, <1>2, <1>3, <1>4, <1>6, <1>7, <1>8, <1>9, <1>10 DEF a, n

LEMMA ReadEventFormed ==
  ASSUME Formed, NEW c \in Claims, ReadEvent(c)
  PROVE  Formed'
<1> DEFINE d == exec[c].doc
           e == assignment[d.id].events[d.seq + 1]
           w == With(d, e)
           f == Closed(w, e)
           s == AfterEnd(c, e)
           y == Goes(c, f, s)
           why == IF e.outcome = "limit" THEN "limit" ELSE y.why
           next == [y EXCEPT !.why = why]
<1>1. ~At(c, "off") /\ At(c, "follow") BY DEF ReadEvent, At
<1>2. UNCHANGED <<assignment, disk, job, notes, asks, ids, late>> /\ UNCHANGED troubles
  BY DEF ReadEvent, workerVars, counters
<1>3. troubles' \in 0 .. MaxTroubles BY <1>2, TroubleTyped
<1>4. d.open /\ d.id \in Ids /\ d.id <= ids /\ d \in Doc /\ e \in Event
      /\ (e.kind = "report" => e.unit \in 1 .. Closing)
  BY <1>1, NextEvent DEF ReadEvent
<1>5. CASE e.kind \in {"artifact", "report"} /\ exec' = [exec EXCEPT ![c] = Goes(c, w, "follow")]
           /\ UNCHANGED doc
  <2>0. w \in Doc /\ w.open = d.open /\ w.id = d.id
    <3> HIDE DEF d, e
    <3> QED BY <1>4, WithTyped
  <2> HIDE DEF w, d
  <2>1. Named(w, ids) /\ w.open BY <2>0, <1>4 DEF Named
  <2>2. Goes(c, w, "follow") \in Exec /\ Placed(c, Goes(c, w, "follow"), job.claim, ids)
    BY <1>1, <2>0, <2>1, GoesPlaced DEF Stands
  <2>3. /\ doc' \in Doc /\ exec' \in [Claims -> Exec] /\ Named(doc', ids)
        /\ \A k \in Claims : Placed(k, exec'[k], job.claim, ids)
    BY <1>5, <2>2, MoveFormed
  <2>4. late' \subseteq Lives /\ assignment' \in [Ids -> Assignment]
        /\ \A j \in Ids : Orderly(assignment'[j], j, ids)
    BY <1>2 DEF Formed, TypeOK
  <2> QED BY <1>2, <1>3, <2>3, <2>4, StepFormed
<1>6. CASE e.kind = "boundary" /\ Commit(c, Goes(c, w, "follow"))
  <2>0. w \in Doc /\ w.open = d.open /\ w.id = d.id
    <3> HIDE DEF d, e
    <3> QED BY <1>4, WithTyped
  <2> HIDE DEF w, d
  <2>1. Named(w, ids) /\ w.open BY <2>0, <1>4 DEF Named
  <2>2. Goes(c, w, "follow") \in Exec /\ Placed(c, Goes(c, w, "follow"), job.claim, ids)
        /\ Goes(c, w, "follow").doc = w
    BY <1>1, <2>0, <2>1, GoesPlaced DEF Stands
  <2> QED BY <1>2, <1>3, <1>6, <2>1, <2>2, CommitStepFormed
<1>7. CASE e.kind = "finished" /\ Commit(c, next)
  <2>0. w \in Doc
    <3> HIDE DEF d, e
    <3> QED BY <1>4, WithTyped
  <2> HIDE DEF w, d
  <2>1. f \in Doc /\ f.open = FALSE /\ f.step \in EndedSteps
    <3> HIDE DEF e
    <3> QED BY <1>4, <2>0, ClosedTyped DEF EndedSteps
  <2> HIDE DEF f
  <2>2. Named(f, ids) BY <2>1 DEF Named
  <2>3. s \in {"loop", "after"} BY DEF AfterEnd
  <2> HIDE DEF s
  <2>4. y \in Exec /\ Placed(c, y, job.claim, ids) /\ y.doc = f
    BY <1>1, <2>1, <2>2, <2>3, GoesPlaced DEF Stands, Handing
  <2> HIDE DEF y
  <2>5. why \in {"none", "capacity", "limit"} BY <2>4 DEF Exec
  <2> HIDE DEF why
  <2>6. next \in Exec /\ Placed(c, next, job.claim, ids) /\ next.doc = f
    <3>1. TRUE \in BOOLEAN /\ NoRef \in Refs \cup {NoRef} OBVIOUS
    <3> QED BY <2>4, <2>5, <3>1, NotesPlaced
  <2> HIDE DEF next
  <2> QED BY <1>2, <1>3, <1>7, <2>2, <2>6, CommitStepFormed
<1>8. e.kind \in {"artifact", "report", "boundary", "finished"} BY <1>4 DEF Event
<1>9. \/ e.kind \in {"artifact", "report"} /\ exec' = [exec EXCEPT ![c] = Goes(c, w, "follow")] /\ UNCHANGED doc
      \/ e.kind = "boundary" /\ Commit(c, Goes(c, w, "follow"))
      \/ e.kind = "finished" /\ Commit(c, next)
  BY <1>8 DEF ReadEvent
<1> QED BY <1>5, <1>6, <1>7, <1>9

LEMMA StreamEndsFormed ==
  ASSUME Formed, NEW c \in Claims, StreamEnds(c)
  PROVE  Formed'
<1>1. ~At(c, "off") BY DEF StreamEnds, At
<1>2. UNCHANGED <<disk, job, notes, asks, ids, late>> /\ Commit(c, Failed(c))
      /\ assignment' = Stopped(exec[c].doc.id)
  BY DEF StreamEnds
<1>3. troubles' \in 0 .. MaxTroubles BY TroubleTyped DEF StreamEnds
<1> QED BY <1>1, <1>2, <1>3, FailsFormed

LEMMA EndFormed ==
  ASSUME Formed, NEW c \in Claims, End(c)
  PROVE  Formed'
<1> DEFINE x == exec[c].doc
           run == RunAfter(c)
           d == [x EXCEPT !.run = run]
<1>1. ~At(c, "off") /\ Placed(c, exec[c], job.claim, ids) /\ x \in Doc /\ Named(x, ids)
  BY Facts DEF End, EndsStep, At
<1>2. UNCHANGED <<assignment, disk, job, notes, asks, ids, late>> /\ UNCHANGED troubles
  BY DEF End, workerVars, counters
<1>3. troubles' \in 0 .. MaxTroubles BY <1>2, TroubleTyped
<1>4. x.step \in EndedSteps BY <1>1 DEF End, EndsStep, At, Placed, EndedSteps
<1>5. run \in RunStates BY <1>4 DEF RunAfter, EndedSteps, RunStates
<1>6. Commit(c, Goes(c, d, "ended")) BY DEF End
<1> HIDE DEF x, run
<1>7. d \in Doc /\ d.open = x.open /\ d.id = x.id BY <1>1, <1>5 DEF Doc
<1> HIDE DEF d
<1>8. Named(d, ids) BY <1>1, <1>7 DEF Named
<1>9. Goes(c, d, "ended") \in Exec /\ Placed(c, Goes(c, d, "ended"), job.claim, ids)
      /\ Goes(c, d, "ended").doc = d
  BY <1>1, <1>7, <1>8, GoesPlaced DEF Stands, Handing
<1> QED BY <1>2, <1>3, <1>6, <1>8, <1>9, CommitStepFormed

\* A step that changes the row, what is executed, what was noted and what is asked.
LEMMA RowFormed ==
  ASSUME Formed, UNCHANGED <<assignment, disk, ids, late>>,
         doc' \in Doc, Named(doc', ids), exec' \in [Claims -> Exec], job' \in Job,
         \A k \in Claims : Placed(k, exec'[k], job'.claim, ids),
         taking' \in [Runners -> {NoAsk} \cup Asks], told' \in [Runners -> SUBSET Asks],
         asks' \in 0 .. MaxAsks, troubles' \in 0 .. MaxTroubles, ClaimKept'
  PROVE  Formed'
<1>1. TypeOK' BY DEF Formed, TypeOK
<1>2. Stored' BY DEF Formed, Stored
<1> QED BY <1>1, <1>2 DEF Formed

LEMMA ExecutedStays ==
  ASSUME Formed, NEW c \in Claims, NEW k \in Nat, job.claim <= k,
         exec' = exec \/ exec' = [exec EXCEPT ![c] = NoExec]
  PROVE  exec' \in [Claims -> Exec] /\ \A j \in Claims : Placed(j, exec'[j], k, ids)
<1>1. exec \in [Claims -> Exec] /\ ids \in Nat /\ job.claim \in Nat BY Facts
<1>2. \A j \in Claims : Placed(j, NoExec, k, ids) /\ j \in Nat BY <1>1, NoExecPlaced, Numbers
<1>3. \A j \in Claims : Placed(j, exec[j], k, ids)
  BY <1>1, <1>2 DEF Formed, Placed
<1> QED BY <1>1, <1>2, <1>3, NoExecTyped

LEMMA RowFacts ==
  ASSUME Formed
  PROVE  /\ job \in Job /\ job.claim \in Nat /\ asks \in Nat /\ asks <= MaxAsks
         /\ job.ask \in Nat /\ job.ask <= asks /\ NoAsk = 0
         /\ taking \in [Runners -> {NoAsk} \cup Asks] /\ told \in [Runners -> SUBSET Asks]
         /\ asks \in 0 .. MaxAsks /\ troubles \in 0 .. MaxTroubles /\ doc \in Doc /\ Named(doc, ids)
         /\ job.claim <= MaxClaims + 2 * asks
         /\ job.ask # NoAsk => job.claim + 1 <= MaxClaims + 2 * asks
<1>1. job \in Job /\ taking \in [Runners -> {NoAsk} \cup Asks] /\ told \in [Runners -> SUBSET Asks]
      /\ asks \in 0 .. MaxAsks /\ troubles \in 0 .. MaxTroubles /\ doc \in Doc /\ Named(doc, ids)
  BY DEF Formed, TypeOK
<1>2. job.claim \in Nat BY <1>1, Numbers DEF Job
<1>3. job.ask \in 0 .. asks BY DEF Formed, ClaimKept
<1>4. job.claim + (IF job.ask = NoAsk THEN 0 ELSE 1) <= MaxClaims + 2 * asks BY DEF Formed, ClaimKept
<1> QED BY <1>1, <1>2, <1>3, <1>4, Numbers DEF NoAsk

LEMMA DisposeFormed ==
  ASSUME Formed, NEW c \in Claims, Dispose(c)
  PROVE  Formed'
<1>1. /\ UNCHANGED <<assignment, disk, ids, late, doc, taking, told, asks, troubles>>
      /\ exec' = [exec EXCEPT ![c] = NoExec]
      /\ \/ job' = job
         \/ job' = [job EXCEPT !.by = NoOne, !.lapsed = FALSE]
         \/ job' = [job EXCEPT !.queued = FALSE, !.by = NoOne, !.ask = NoAsk]
  BY DEF Dispose, workerVars, notes, counters
<1>2. job' \in Job /\ job'.claim = job.claim /\ job'.ask \in {job.ask, NoAsk}
  <2>1. job \in Job BY RowFacts
  <2>2. /\ [job EXCEPT !.by = NoOne, !.lapsed = FALSE] \in Job
        /\ [job EXCEPT !.queued = FALSE, !.by = NoOne, !.ask = NoAsk] \in Job
    BY <2>1 DEF Job
  <2>3. /\ [job EXCEPT !.by = NoOne, !.lapsed = FALSE].claim = job.claim
        /\ [job EXCEPT !.queued = FALSE, !.by = NoOne, !.ask = NoAsk].claim = job.claim
        /\ [job EXCEPT !.by = NoOne, !.lapsed = FALSE].ask = job.ask
        /\ [job EXCEPT !.queued = FALSE, !.by = NoOne, !.ask = NoAsk].ask = NoAsk
    BY <2>1 DEF Job
  <2> QED BY <1>1, <2>1, <2>2, <2>3
<1>3. ClaimKept'
  <2>1. /\ job.claim + (IF job.ask = NoAsk THEN 0 ELSE 1) <= MaxClaims + 2 * asks
        /\ job.ask \in 0 .. asks
    BY DEF Formed, ClaimKept
  <2> QED BY <1>1, <1>2, <2>1, RowFacts, Numbers DEF ClaimKept
<1>4. exec' \in [Claims -> Exec] /\ \A j \in Claims : Placed(j, exec'[j], job'.claim, ids)
  <2>1. job.claim \in Nat /\ job.claim <= job'.claim BY <1>2, RowFacts
  <2> QED BY <1>1, <1>2, <2>1, ExecutedStays
<1> QED BY <1>1, <1>2, <1>3, <1>4, RowFacts, RowFormed

LEMMA TakenOverFormed ==
  ASSUME Formed, NEW c \in Claims, TakenOver(c)
  PROVE  Formed'
<1> DEFINE r == exec[c].by
           held == job.claim + 1
           x == exec[c].doc
           d == [x EXCEPT !.step = "waiting human", !.run = "waiting human", !.held = held]
<1>1. Placed(c, exec[c], job.claim, ids) /\ x \in Doc /\ Named(x, ids) /\ exec[c].at # "off"
  BY Facts DEF TakenOver, At
<1>2. r \in Runners BY <1>1 DEF Placed
<1>3. taking[r] \in Asks BY <1>2, RowFacts DEF TakenOver, Noted
<1>4. /\ UNCHANGED <<assignment, disk, ids, late, asks, troubles>>
      /\ exec' = [exec EXCEPT ![c] = NoExec]
      /\ \/ UNCHANGED <<doc, job, taking, told>>
         \/ /\ job.ask = taking[r] /\ doc' = d
            /\ job' = [job EXCEPT !.claim = held, !.by = Person, !.lapsed = FALSE, !.held = TRUE,
                                  !.ask = NoAsk]
            /\ taking' = [taking EXCEPT ![r] = NoAsk]
            /\ told' = [told EXCEPT ![r] = @ \cup {taking[r]}]
  BY DEF TakenOver, workerVars, counters
<1>5. CASE UNCHANGED <<doc, job, taking, told>>
  <2>1. exec' \in [Claims -> Exec] /\ \A j \in Claims : Placed(j, exec'[j], job'.claim, ids)
    <3>1. job.claim \in Nat /\ job.claim <= job'.claim /\ job'.claim = job.claim BY <1>5, RowFacts
    <3> QED BY <1>4, <3>1, ExecutedStays
  <2>2. ClaimKept' BY <1>4, <1>5 DEF Formed, ClaimKept
  <2> QED BY <1>4, <1>5, <2>1, <2>2, RowFacts, RowFormed
<1>6. CASE /\ job.ask = taking[r] /\ doc' = d
           /\ job' = [job EXCEPT !.claim = held, !.by = Person, !.lapsed = FALSE, !.held = TRUE,
                                 !.ask = NoAsk]
           /\ taking' = [taking EXCEPT ![r] = NoAsk]
           /\ told' = [told EXCEPT ![r] = @ \cup {taking[r]}]
  <2>1. job.ask # NoAsk BY <1>3, <1>6 DEF Asks, NoAsk
  <2>2. held \in Nat /\ held \in Claims /\ held <= MaxClaims + 2 * asks /\ job.claim <= held
    BY <2>1, RowFacts, Numbers DEF Claims
  <2> HIDE DEF held, x
  <2>3. d \in Doc /\ d.open = x.open /\ d.id = x.id BY <1>1, <2>2 DEF Doc, StepStates, RunStates
  <2> HIDE DEF d
  <2>4. doc' \in Doc /\ Named(doc', ids) BY <1>1, <1>6, <2>3 DEF Named
  <2>5. job' \in Job /\ job'.claim = held /\ job'.ask = NoAsk
    <3>1. job \in Job /\ Person \in Runners \cup {NoOne, Person} BY RowFacts
    <3> QED BY <1>6, <2>2, <3>1 DEF Job
  <2>6. ClaimKept' BY <1>4, <2>2, <2>5, RowFacts, Numbers DEF ClaimKept
  <2>7. exec' \in [Claims -> Exec] /\ \A j \in Claims : Placed(j, exec'[j], job'.claim, ids)
    BY <1>4, <2>2, <2>5, ExecutedStays
  <2> HIDE DEF r
  <2>8. taking' \in [Runners -> {NoAsk} \cup Asks] /\ told' \in [Runners -> SUBSET Asks]
    BY <1>2, <1>3, <1>6, RowFacts
  <2> QED BY <1>4, <2>4, <2>5, <2>6, <2>7, <2>8, RowFacts, RowFormed
<1> QED BY <1>4, <1>5, <1>6

LEMMA RefuseTakeoverFormed ==
  ASSUME Formed, NEW c \in Claims, RefuseTakeover(c)
  PROVE  Formed'
<1> DEFINE r == exec[c].by
<1>1. Placed(c, exec[c], job.claim, ids) /\ exec[c].at # "off" BY Facts DEF RefuseTakeover, At
<1>2. r \in Runners BY <1>1 DEF Placed
<1>3. taking[r] \in Asks BY <1>2, RowFacts DEF RefuseTakeover, Noted
<1>4. /\ UNCHANGED <<assignment, disk, ids, late, asks, troubles, doc>>
      /\ exec' = exec \/ exec' = [exec EXCEPT ![c] = NoExec]
      /\ job' = job \/ job' = [job EXCEPT !.ask = IF @ = taking[r] THEN NoAsk ELSE @]
      /\ taking' = [taking EXCEPT ![r] = NoAsk]
      /\ told' = [told EXCEPT ![r] = @ \cup {taking[r]}]
  BY DEF RefuseTakeover, workerVars, counters
<1> HIDE DEF r
<1>5. job' \in Job /\ job'.claim = job.claim /\ job'.ask \in {job.ask, NoAsk}
  <2>1. job \in Job BY RowFacts
  <2> DEFINE q == IF job.ask = taking[r] THEN NoAsk ELSE job.ask
  <2>2. q \in {NoAsk} \cup Asks BY <2>1 DEF Job
  <2>3. job' = job \/ job' = [job EXCEPT !.ask = q] BY <1>4
  <2>4. q \in {job.ask, NoAsk} OBVIOUS
  <2> HIDE DEF q
  <2> QED BY <2>1, <2>2, <2>3, <2>4 DEF Job
<1>6. ClaimKept'
  <2>1. /\ job.claim + (IF job.ask = NoAsk THEN 0 ELSE 1) <= MaxClaims + 2 * asks
        /\ job.ask \in 0 .. asks
    BY DEF Formed, ClaimKept
  <2> QED BY <1>4, <1>5, <2>1, RowFacts, Numbers DEF ClaimKept
<1>7. exec' \in [Claims -> Exec] /\ \A j \in Claims : Placed(j, exec'[j], job'.claim, ids)
  <2>1. job.claim \in Nat /\ job.claim <= job'.claim BY <1>5, RowFacts
  <2> QED BY <1>4, <1>5, <2>1, ExecutedStays
<1>8. taking' \in [Runners -> {NoAsk} \cup Asks] /\ told' \in [Runners -> SUBSET Asks]
  BY <1>2, <1>3, <1>4, RowFacts
<1> QED BY <1>4, <1>5, <1>6, <1>7, <1>8, RowFacts, RowFormed

LEMMA ClaimFormed ==
  ASSUME Formed, NEW r \in Runners, Claim(r)
  PROVE  Formed'
<1> DEFINE c == job.claim + 1
           x == [NoExec EXCEPT !.by = r, !.at = "begin"]
<1>1. /\ UNCHANGED <<assignment, disk, ids, late, asks, troubles, doc, told>>
      /\ job' = [job EXCEPT !.claim = c, !.by = r, !.lapsed = FALSE, !.held = FALSE]
      /\ exec' = [exec EXCEPT ![c] = x]
      /\ taking' = [taking EXCEPT ![r] = NoAsk]
      /\ job.claim + (IF job.ask = NoAsk THEN 0 ELSE 1) < MaxClaims + 2 * asks
  BY DEF Claim, workerVars, counters, NotedOnClaim
<1>2. c \in Claims /\ c \in Nat /\ job.claim <= c BY <1>1, RowFacts, Numbers DEF Claims
<1>3. x \in Exec /\ x.at = "begin" /\ x.by = r /\ x.doc = NewDoc
  BY NoExecTyped DEF Exec, NoExec
<1>4. \A n \in Nat : Placed(c, x, c, n)
  BY <1>2, <1>3, NoExecTyped DEF Placed, Named, Handing
<1> HIDE DEF x, c
<1>5. job' \in Job /\ job'.claim = c /\ job'.ask = job.ask
  <2>1. job \in Job BY RowFacts
  <2> QED BY <1>1, <1>2, <2>1 DEF Job
<1>6. ClaimKept'
  <2>1. job.ask \in 0 .. asks BY DEF Formed, ClaimKept
  <2>2. c = job.claim + 1 BY DEF c
  <2> QED BY <1>1, <1>5, <2>1, <2>2, RowFacts, Numbers DEF ClaimKept
<1>7. exec' \in [Claims -> Exec] /\ \A j \in Claims : Placed(j, exec'[j], job'.claim, ids)
  <2>1. exec \in [Claims -> Exec] /\ ids \in Nat BY <1>2, Facts
  <2>2. \A j \in Claims : Placed(j, exec[j], c, ids)
    BY <1>2, RowFacts, Numbers DEF Formed, Placed
  <2> QED BY <1>1, <1>2, <1>3, <1>4, <1>5, <2>1, <2>2
<1>8. taking' \in [Runners -> {NoAsk} \cup Asks] BY <1>1, RowFacts
<1> QED BY <1>1, <1>5, <1>6, <1>7, <1>8, RowFacts, RowFormed

LEMMA CrashFormed ==
  ASSUME Formed, NEW r \in Runners, Crash(r)
  PROVE  Formed'
<1>1. /\ UNCHANGED <<assignment, disk, ids, late, asks, doc>>
      /\ exec' = [c \in Claims |-> IF exec[c].by = r THEN NoExec ELSE exec[c]]
      /\ job' = job \/ job' = [job EXCEPT !.lapsed = TRUE]
      /\ taking' = [taking EXCEPT ![r] = NoAsk]
      /\ told' = [told EXCEPT ![r] = {}]
  BY DEF Crash, workerVars
<1>2. troubles' \in 0 .. MaxTroubles BY TroubleTyped DEF Crash
<1>3. job' \in Job /\ job'.claim = job.claim /\ job'.ask = job.ask
  <2>1. job \in Job BY RowFacts
  <2> QED BY <1>1, <2>1 DEF Job
<1>4. ClaimKept' BY <1>1, <1>3 DEF Formed, ClaimKept
<1>5. exec' \in [Claims -> Exec] /\ \A j \in Claims : Placed(j, exec'[j], job'.claim, ids)
  <2>1. /\ exec \in [Claims -> Exec] /\ \A c \in Claims : Placed(c, exec[c], job.claim, ids)
    BY DEF Formed, TypeOK
  <2>2. \A c \in Claims : Placed(c, NoExec, job.claim, ids)
    <3>1. ids \in Nat /\ job.claim \in Nat BY RowFacts, Numbers DEF Formed, TypeOK
    <3> QED BY <3>1, NoExecPlaced
  <2> QED BY <1>1, <1>3, <2>1, <2>2, NoExecTyped
<1>6. taking' \in [Runners -> {NoAsk} \cup Asks] /\ told' \in [Runners -> SUBSET Asks]
  BY <1>1, RowFacts
<1> QED BY <1>1, <1>2, <1>3, <1>4, <1>5, <1>6, RowFacts, RowFormed

LEMMA HearFormed ==
  ASSUME Formed, NEW c \in Claims, Hear(c)
  PROVE  Formed'
<1> DEFINE r == exec[c].by
<1>1. Placed(c, exec[c], job.claim, ids) /\ exec[c].at # "off" BY Facts DEF Hear, Names, At
<1>2. r \in Runners BY <1>1 DEF Placed
<1>3. /\ UNCHANGED <<disk, doc, job, exec, told, asks, ids, troubles, late>>
      /\ taking' = [taking EXCEPT ![r] = job.ask]
      /\ \E i : assignment' = assignment \/ assignment' = Stopped(i)
  BY DEF Hear, counters
<1>4. PICK i : assignment' = assignment \/ assignment' = Stopped(i) BY <1>3
<1>5. /\ assignment' \in [Ids -> Assignment] /\ \A j \in Ids : Orderly(assignment'[j], j, ids)
  BY <1>4, StopFormed
<1>6. taking' \in [Runners -> {NoAsk} \cup Asks]
  <2>1. job.ask \in {NoAsk} \cup Asks BY RowFacts DEF Job
  <2> HIDE DEF r
  <2> QED BY <1>2, <1>3, <2>1, RowFacts
<1>7. TypeOK' BY <1>3, <1>5, <1>6 DEF Formed, TypeOK
<1>8. ClaimKept' /\ Stored' BY <1>3 DEF Formed, ClaimKept, Stored
<1> QED BY <1>3, <1>5, <1>7, <1>8 DEF Formed

LEMMA RowChangesFormed ==
  ASSUME Formed, AskTakeover \/ HoldEnds \/ LeaseLapses \/ HandBack
  PROVE  Formed'
<1>1. UNCHANGED <<assignment, disk, ids, late, exec, taking, told>>
  BY DEF AskTakeover, HoldEnds, LeaseLapses, HandBack, workerVars, notes, counters
<1>2. troubles' \in 0 .. MaxTroubles
  BY TroubleTyped DEF AskTakeover, HoldEnds, LeaseLapses, HandBack, counters
<1>3. job \in Job /\ asks \in 0 .. MaxAsks BY RowFacts
<1>4. /\ job' \in Job /\ job'.claim = job.claim /\ asks' \in 0 .. MaxAsks
      /\ \/ asks' = asks /\ job'.ask = job.ask
         \/ asks' = asks + 1 /\ job'.ask = asks + 1
  <2>1. CASE AskTakeover
    <3>1. asks' = asks + 1 /\ job' = [job EXCEPT !.ask = asks + 1] /\ asks < MaxAsks
      BY <2>1 DEF AskTakeover
    <3>2. asks + 1 \in Asks /\ asks + 1 \in 0 .. MaxAsks BY <1>3, <3>1, Numbers DEF Asks
    <3> QED BY <1>3, <3>1, <3>2 DEF Job
  <2>2. CASE HoldEnds \/ LeaseLapses
    <3>1. job' = [job EXCEPT !.lapsed = TRUE] /\ UNCHANGED asks
      BY <2>2 DEF HoldEnds, LeaseLapses, counters
    <3> QED BY <1>3, <3>1 DEF Job
  <2>3. CASE HandBack
    <3>1. job' = [job EXCEPT !.by = NoOne, !.lapsed = FALSE, !.held = FALSE] /\ UNCHANGED asks
      BY <2>3 DEF HandBack, counters
    <3> QED BY <1>3, <3>1 DEF Job
  <2> QED BY <2>1, <2>2, <2>3
<1>5. ClaimKept' BY <1>4, RowFacts, Numbers DEF ClaimKept, NoAsk
<1>6. exec' \in [Claims -> Exec] /\ \A j \in Claims : Placed(j, exec'[j], job'.claim, ids)
  BY <1>1, <1>4 DEF Formed, TypeOK
<1>7. doc' \in Doc /\ Named(doc', ids)
  <2>1. CASE AskTakeover \/ HoldEnds \/ LeaseLapses
    BY <2>1, RowFacts DEF AskTakeover, HoldEnds, LeaseLapses
  <2>2. CASE HandBack
    <3> DEFINE d == [doc EXCEPT !.step = "succeeded", !.held = NoHold, !.handed = doc.held]
    <3>1. doc' = d BY <2>2 DEF HandBack
    <3>2. doc \in Doc /\ doc.held \in Claims \cup {NoHold} /\ Named(doc, ids)
      BY RowFacts DEF Doc
    <3>3. d \in Doc /\ Named(d, ids)
      BY <3>2 DEF Doc, StepStates, Named
    <3> QED BY <3>1, <3>3
  <2> QED BY <2>1, <2>2
<1> QED BY <1>1, <1>2, <1>4, <1>5, <1>6, <1>7, RowFacts, RowFormed

\* What a restart leaves of an assignment.
LEMMA ForgottenOrderly ==
  ASSUME Formed
  PROVE  \A i \in Ids : /\ Unknown(assignment[i].life) \in Assignment
                        /\ Orderly(Unknown(assignment[i].life), i, ids)
<1> TAKE i \in Ids
<1> DEFINE a == assignment[i]
           b == Unknown(a.life)
<1>1. a \in Assignment /\ Orderly(a, i, ids) BY DEF Formed, TypeOK
<1>2. a.life \in 0 .. MaxLives BY <1>1 DEF Assignment
<1> HIDE DEF a
<1>3. b \in Assignment BY <1>2 DEF Unknown, Assignment
<1>4. /\ b.status = "unknown" /\ b.life = a.life /\ Len(b.events) = 0 /\ Len(b.made) = 0
  BY DEF Unknown
<1> HIDE DEF b
<1>5. 1 .. Len(b.events) = {} BY <1>4
<1>6. Orderly(b, i, ids)
  BY <1>1, <1>4, <1>5, Numbers DEF Orderly, Holding, Working, Reported
<1> QED BY <1>3, <1>6 DEF a, b

LEMMA AgentContinues ==
  ASSUME Formed, NEW i \in Ids, Worker(i)
  PROVE  /\ assignment' \in [Ids -> Assignment] /\ disk' \in [Refs -> Seq(Lives)] /\ Stored'
         /\ \A j \in Ids : Orderly(assignment'[j], j, ids)
         /\ Continued(assignment, assignment')
<1>1. CASE AgentFails(i)
  <2>1. UNCHANGED disk BY <1>1, FailContinues
  <2>2. disk' \in [Refs -> Seq(Lives)] /\ Stored' BY <2>1 DEF Formed, TypeOK, Stored
  <2> QED BY <1>1, <2>2, FailContinues
<1>2. ASSUME NEW wall \in {"none", "limit", "stopped"}, AgentUnit(i, wall)
      PROVE  /\ assignment' \in [Ids -> Assignment] /\ disk' \in [Refs -> Seq(Lives)] /\ Stored'
             /\ \A j \in Ids : Orderly(assignment'[j], j, ids)
             /\ Continued(assignment, assignment')
  <2> DEFINE unit == Len(assignment[i].made) + 1
             end == IF assignment[i].status = "stopping" THEN "stopped" ELSE wall
  <2>1. unit <= Units /\ Working(assignment[i]) /\ Reach(i, unit, end)
    BY <1>2 DEF AgentUnit, AtWork, Working
  <2>2. unit \in Nat /\ unit > 0
    <3>1. Len(assignment[i].made) \in Nat BY DEF Formed, TypeOK, Assignment
    <3> QED BY <3>1
  <2>3. end \in Ends BY DEF Ends
  <2> QED BY <2>1, <2>2, <2>3, ReachContinues
<1>3. ASSUME NEW outcome \in {"succeeded", "failed"}, AgentCloses(i, outcome)
      PROVE  /\ assignment' \in [Ids -> Assignment] /\ disk' \in [Refs -> Seq(Lives)] /\ Stored'
             /\ \A j \in Ids : Orderly(assignment'[j], j, ids)
             /\ Continued(assignment, assignment')
  <2>1. Len(assignment[i].made) >= Units /\ Working(assignment[i]) /\ Reach(i, Closing, outcome)
    BY <1>3 DEF AgentCloses, AtWork, Working
  <2> QED BY <2>1, Numbers, ReachContinues DEF Ends
<1> QED BY <1>1, <1>2, <1>3 DEF Worker, AgentWorks

LEMMA WorkerFormed ==
  ASSUME Formed, WorkerTrouble \/ \E i \in Ids : Worker(i)
  PROVE  Formed'
<1>1. UNCHANGED <<doc, job, exec, taking, told, asks, ids, late>>
  BY DEF WorkerTrouble, Worker, notes, counters
<1>2. troubles' \in 0 .. MaxTroubles BY TroubleTyped DEF WorkerTrouble, Worker, counters
<1>3. /\ assignment' \in [Ids -> Assignment] /\ disk' \in [Refs -> Seq(Lives)] /\ Stored'
      /\ \A j \in Ids : Orderly(assignment'[j], j, ids)
  <2>1. CASE WorkerTrouble
    <3>1. assignment' = [i \in Ids |-> Unknown(assignment[i].life)] /\ UNCHANGED disk
      BY <2>1 DEF WorkerTrouble, WorkerRestarts
    <3> QED BY <3>1, ForgottenOrderly DEF Formed, TypeOK, Stored
  <2>2. CASE \E i \in Ids : Worker(i) BY <2>2, AgentContinues
  <2> QED BY <2>1, <2>2
<1>4. TypeOK' BY <1>1, <1>2, <1>3 DEF Formed, TypeOK
<1>5. ClaimKept' BY <1>1 DEF Formed, ClaimKept
<1> QED BY <1>1, <1>3, <1>4, <1>5 DEF Formed

LEMMA InitFormed == Init => Formed
<1> SUFFICES ASSUME Init PROVE Formed
  OBVIOUS
<1>1. /\ assignment = [i \in Ids |-> Unknown(0)] /\ disk = [r \in Refs |-> <<>>] /\ doc = NewDoc
      /\ job = [queued |-> TRUE, claim |-> 0, by |-> NoOne, lapsed |-> FALSE, held |-> FALSE, ask |-> NoAsk]
      /\ exec = [c \in Claims |-> NoExec] /\ taking = [r \in Runners |-> NoAsk]
      /\ told = [r \in Runners |-> {}] /\ asks = 0 /\ ids = 0 /\ troubles = 0 /\ late = {}
  BY DEF Init, WorkerInit
<1>2. /\ Unknown(0) \in Assignment /\ Unknown(0).life = 0 /\ Unknown(0).status = "unknown"
      /\ Len(Unknown(0).events) = 0 /\ Len(Unknown(0).made) = 0
  BY Numbers DEF Unknown, Assignment
<1>3. \A i \in Ids : Orderly(Unknown(0), i, 0)
  <2> DEFINE b == Unknown(0)
  <2> HIDE DEF b
  <2>1. 1 .. Len(b.events) = {} BY <1>2 DEF b
  <2> QED BY <1>2, <2>1, Numbers DEF Orderly, Holding, Working, Reported, b
<1>4. \A c \in Claims : Placed(c, NoExec, 0, 0) BY NoExecPlaced
<1>5. ClaimKept BY <1>1, Numbers DEF ClaimKept, NoAsk
<1>6. TypeOK
  <2>1. job \in Job BY <1>1 DEF Job
  <2> QED BY <1>1, <1>2, <2>1, NoExecTyped, Numbers DEF TypeOK
<1>7. Named(doc, ids) /\ Stored BY <1>1, NoExecTyped DEF Named, Stored
<1> QED BY <1>1, <1>3, <1>4, <1>5, <1>6, <1>7 DEF Formed

LEMMA StepKeepsFormed == Formed /\ [Next]_vars => Formed'
<1> SUFFICES ASSUME Formed, [Next]_vars PROVE Formed'
  OBVIOUS
<1>1. CASE UNCHANGED vars
  BY <1>1 DEF vars, workerVars, Formed, TypeOK, ClaimKept, Stored
<1>2. ASSUME NEW r \in Runners, Claim(r) \/ Crash(r) PROVE Formed'
  BY <1>2, ClaimFormed, CrashFormed
<1>3. ASSUME NEW c \in Claims, Executes(c) PROVE Formed'
  BY <1>3, BeginFormed, BeginStepFormed, AdmitFormed, AssignFormed, PostFormed, AnsweredFormed,
     ReadEventFormed, StreamEndsFormed, EndFormed, DisposeFormed, TakenOverFormed,
     RefuseTakeoverFormed DEF Executes
<1>4. ASSUME NEW c \in Claims, Hear(c) PROVE Formed'
  BY <1>4, HearFormed
<1>5. CASE AskTakeover \/ HoldEnds \/ HandBack \/ LeaseLapses
  BY <1>5, RowChangesFormed
<1>6. CASE WorkerTrouble \/ \E i \in Ids : Worker(i)
  BY <1>6, WorkerFormed
<1> QED BY <1>1, <1>2, <1>3, <1>4, <1>5, <1>6 DEF Next

\* Every variable keeps its type: the worker's assignments and checkpoints, the document, the
\* row, what every claim executes, and what the processes note (StepRun, Assignment, Claim).
THEOREM TypeCorrect == Spec => []TypeOK
<1>1. Init => Formed BY InitFormed
<1>2. Formed /\ [Next]_vars => Formed' BY StepKeepsFormed
<1>3. Formed => TypeOK BY DEF Formed
<1> QED BY <1>1, <1>2, <1>3, PTL DEF Spec

-----------------------------------------------------------------------------
(* What a record has counted of the worker's events.                       *)

Opens(d, i) == d.open /\ d.id = i
LifeIn(A, i) == <<i, A[i].life>>
Quiet(A, L, i) == ~Holding(A[i]) \/ LifeIn(A, i) \in L
Once(used) == \A m, n \in 1 .. Len(used) : used[m] = used[n] => m = n

\* Nothing is counted twice; of the open assignment what is counted was read; of every other
\* that was not begun late all is counted; none but the open one and late ones are at work; and
\* the record has read no further than the open one's events go.
Accounted(d, A, L) ==
  /\ Once(d.used)
  /\ \A x \in Counted(d) : x[1][2] <= A[x[1][1]].life
  /\ \A x \in Counted(d), i \in Ids :
       Opens(d, i) /\ Holding(A[i]) /\ x[1] = LifeIn(A, i) =>
         \E m \in Reported(A[i]) : m <= d.seq /\ A[i].events[m].unit = x[2]
  /\ \A i \in Ids : LifeIn(A, i) \notin L =>
       \A m \in Reported(A[i]) : (Opens(d, i) => m <= d.seq) =>
         <<LifeIn(A, i), A[i].events[m].unit>> \in Counted(d)
  /\ \A i \in Ids : Working(A[i]) => LifeIn(A, i) \in L \/ Opens(d, i)
  /\ \A i \in Ids : Opens(d, i) /\ ~Quiet(A, L, i) => d.seq <= Len(A[i].events)

\* A step a person holds, or the worker's assignment ended well, has none open.
Settled(d) ==
  /\ d.held # NoHold => ~d.open
  /\ d.step = "succeeded" /\ d.handed = NoHold => ~d.open

LEMMA AccountedSame ==
  ASSUME NEW d, NEW e, NEW A, NEW L, Accounted(d, A, L),
         e.used = d.used, e.seq = d.seq, \A i \in Ids : Opens(e, i) <=> Opens(d, i)
  PROVE  Accounted(e, A, L)
<1>1. Counted(e) = Counted(d) BY DEF Counted
<1> QED BY <1>1 DEF Accounted

LEMMA CountedTyped ==
  ASSUME NEW d \in Doc, NEW x \in Counted(d)
  PROVE  /\ x[1] \in Lives /\ x[1][1] \in Ids /\ x[1] = <<x[1][1], x[1][2]>> /\ x[1][2] \in Nat
         /\ x = <<x[1], x[2]>> /\ x[2] \in 1 .. Closing
<1>1. d.used \in Seq(Lives \X (1 .. Closing)) BY DEF Doc
<1>2. x \in Lives \X (1 .. Closing) BY <1>1 DEF Counted
<1> QED BY <1>2, Numbers DEF Lives

\* Events that follow are not read yet.
LEMMA AccountedContinued ==
  ASSUME NEW d \in Doc, NEW A \in [Ids -> Assignment], NEW B \in [Ids -> Assignment], NEW L,
         Accounted(d, A, L), Continued(A, B)
  PROVE  Accounted(d, B, L)
<1>1. \A i \in Ids : /\ LifeIn(B, i) = LifeIn(A, i) /\ B[i].life = A[i].life
                     /\ Holding(B[i]) <=> Holding(A[i])
                     /\ Working(B[i]) => Working(A[i])
                     /\ Quiet(B, L, i) <=> Quiet(A, L, i)
  BY DEF Continued, GoesOn, LifeIn, Quiet
<1>2. \A i \in Ids : Len(A[i].events) \in Nat /\ Len(B[i].events) \in Nat BY DEF Assignment
<1>3. \A i \in Ids : Len(B[i].events) >= Len(A[i].events) BY DEF Continued, GoesOn
<1>4. \A i \in Ids : \A m \in Reported(A[i]) :
         m \in Reported(B[i]) /\ B[i].events[m].unit = A[i].events[m].unit
  BY <1>2, <1>3 DEF Continued, GoesOn, Reported
<1>5. \A i \in Ids : \A m \in Reported(B[i]) :
         \/ m \in Reported(A[i])
         \/ Working(A[i]) /\ m > Len(A[i].events)
  BY <1>2, <1>3 DEF Continued, GoesOn, Reported
<1>6. \A x \in Counted(d) : x[1][2] <= B[x[1][1]].life
  BY <1>1, CountedTyped DEF Accounted
<1>7. \A x \in Counted(d), i \in Ids :
        Opens(d, i) /\ Holding(B[i]) /\ x[1] = LifeIn(B, i) =>
          \E m \in Reported(B[i]) : m <= d.seq /\ B[i].events[m].unit = x[2]
  <2> SUFFICES ASSUME NEW x \in Counted(d), NEW i \in Ids, Opens(d, i), Holding(B[i]), x[1] = LifeIn(B, i)
               PROVE  \E m \in Reported(B[i]) : m <= d.seq /\ B[i].events[m].unit = x[2]
    OBVIOUS
  <2>1. PICK m \in Reported(A[i]) : m <= d.seq /\ A[i].events[m].unit = x[2]
    BY <1>1 DEF Accounted
  <2> QED BY <2>1, <1>4
<1>8. ASSUME NEW i \in Ids, LifeIn(B, i) \notin L, NEW m \in Reported(B[i]), Opens(d, i) => m <= d.seq
      PROVE  <<LifeIn(B, i), B[i].events[m].unit>> \in Counted(d)
  <2>1. CASE m \in Reported(A[i])
    <3>1. LifeIn(A, i) \notin L BY <1>1, <1>8
    <3>2. <<LifeIn(A, i), A[i].events[m].unit>> \in Counted(d) BY <2>1, <3>1, <1>8 DEF Accounted
    <3> QED BY <3>2, <2>1, <1>1, <1>4
  <2>2. CASE Working(A[i]) /\ m > Len(A[i].events)
    <3>1. LifeIn(A, i) \notin L BY <1>1, <1>8
    <3>2. Opens(d, i) BY <2>2, <3>1 DEF Accounted
    <3>3. ~Quiet(A, L, i) BY <2>2, <3>1 DEF Quiet, Working, Holding
    <3>4. d.seq <= Len(A[i].events) BY <3>2, <3>3 DEF Accounted
    <3>5. m <= d.seq /\ d.seq \in Nat /\ m \in Nat BY <3>2, <1>8, <1>2 DEF Doc, Reported
    <3> QED BY <2>2, <3>4, <3>5, <1>2
  <2> QED BY <2>1, <2>2, <1>5
<1>9. \A i \in Ids : Working(B[i]) => LifeIn(B, i) \in L \/ Opens(d, i)
  BY <1>1 DEF Accounted
<1>10. ASSUME NEW i \in Ids, Opens(d, i), ~Quiet(B, L, i) PROVE d.seq <= Len(B[i].events)
  <2>1. d.seq <= Len(A[i].events) BY <1>1, <1>10 DEF Accounted
  <2>2. d.seq \in Nat BY DEF Doc
  <2> QED BY <2>1, <2>2, <1>2, <1>3
<1> QED BY <1>6, <1>7, <1>8, <1>9, <1>10 DEF Accounted

LEMMA ForgottenSays ==
  ASSUME NEW n
  PROVE  LET b == Unknown(n) IN b.life = n /\ ~Holding(b) /\ ~Working(b) /\ Reported(b) = {}
<1> DEFINE b == Unknown(n)
<1>1. b.life = n /\ b.status = "unknown" /\ b.events = <<>> BY DEF Unknown
<1> HIDE DEF b
<1>2. 1 .. Len(b.events) = {} BY <1>1
<1> QED BY <1>1, <1>2 DEF Holding, Working, Reported, b

LEMMA AccountedForgotten ==
  ASSUME NEW d \in Doc, NEW A, NEW B, NEW L, Accounted(d, A, L),
         \A i \in Ids : B[i] = Unknown(A[i].life)
  PROVE  Accounted(d, B, L)
<1>1. \A i \in Ids : /\ B[i].life = A[i].life /\ ~Holding(B[i]) /\ ~Working(B[i]) /\ Reported(B[i]) = {}
  BY ForgottenSays
<1>2. \A x \in Counted(d) : x[1][2] <= B[x[1][1]].life
  BY <1>1, CountedTyped DEF Accounted
<1> QED BY <1>1, <1>2 DEF Accounted, Quiet

\* A life begins: under the identifier the record names, or for a runner that lost the run.
LEMMA AccountedTaken ==
  ASSUME NEW d \in Doc, NEW A \in [Ids -> Assignment], NEW L, Accounted(d, A, L),
         NEW i \in Ids, NEW a \in Assignment, a.life = A[i].life + 1, Reported(a) = {},
         NEW B, B = [A EXCEPT ![i] = a], NEW M, M = L \cup {<<i, a.life>>} \/ (M = L /\ Opens(d, i) /\ d.seq = 0)
  PROVE  Accounted(d, B, M)
<1>1. \A j \in Ids : B[j] = IF j = i THEN a ELSE A[j] OBVIOUS
<1>2. a.life \in Nat /\ A[i].life \in Nat /\ A[i].life < a.life /\ Len(a.events) \in Nat
  BY Numbers DEF Assignment
<1>3. \A j \in Ids : j # i => LifeIn(B, j) = LifeIn(A, j) /\ (LifeIn(B, j) \in M <=> LifeIn(A, j) \in L)
  BY <1>1 DEF LifeIn
<1>4. LifeIn(B, i) = <<i, a.life>> BY <1>1 DEF LifeIn
<1>5. \A x \in Counted(d) : x[1][2] <= B[x[1][1]].life /\ x[1] # LifeIn(B, i)
  <2> TAKE x \in Counted(d)
  <2>1. x[1][2] <= A[x[1][1]].life /\ x[1] = <<x[1][1], x[1][2]>> /\ x[1][2] \in Nat /\ x[1][1] \in Ids
    BY CountedTyped DEF Accounted
  <2> QED BY <2>1, <1>1, <1>2, <1>4
<1>6. \A x \in Counted(d), j \in Ids :
        Opens(d, j) /\ Holding(B[j]) /\ x[1] = LifeIn(B, j) =>
          \E m \in Reported(B[j]) : m <= d.seq /\ B[j].events[m].unit = x[2]
  BY <1>1, <1>3, <1>5 DEF Accounted
<1>7. \A j \in Ids : LifeIn(B, j) \notin M =>
        \A m \in Reported(B[j]) : (Opens(d, j) => m <= d.seq) =>
          <<LifeIn(B, j), B[j].events[m].unit>> \in Counted(d)
  BY <1>1, <1>3 DEF Accounted
<1>8. \A j \in Ids : Working(B[j]) => LifeIn(B, j) \in M \/ Opens(d, j)
  BY <1>1, <1>3, <1>4 DEF Accounted
<1>9. \A j \in Ids : Opens(d, j) /\ ~Quiet(B, M, j) => d.seq <= Len(B[j].events)
  BY <1>1, <1>2, <1>3, <1>4 DEF Accounted, Quiet
<1> QED BY <1>5, <1>6, <1>7, <1>8, <1>9 DEF Accounted

\* The record names an assignment as open: the one it had open, or a new one.
LEMMA AccountedAssign ==
  ASSUME NEW d \in Doc, NEW A \in [Ids -> Assignment], NEW L, Accounted(d, A, L),
         NEW i \in Ids, \A j \in Ids : Opens(d, j) => j = i,
         \A x \in Counted(d) : Holding(A[i]) => x[1] # LifeIn(A, i),
         NEW e, e.used = d.used, e.seq = 0, \A j \in Ids : Opens(e, j) <=> j = i
  PROVE  Accounted(e, A, L)
<1>1. Counted(e) = Counted(d) BY DEF Counted
<1>2. \A j \in Ids : Len(A[j].events) \in Nat BY DEF Assignment
<1>3. \A x \in Counted(e), j \in Ids :
        Opens(e, j) /\ Holding(A[j]) /\ x[1] = LifeIn(A, j) =>
          \E m \in Reported(A[j]) : m <= e.seq /\ A[j].events[m].unit = x[2]
  BY <1>1
<1>4. \A j \in Ids : LifeIn(A, j) \notin L =>
        \A m \in Reported(A[j]) : (Opens(e, j) => m <= e.seq) =>
          <<LifeIn(A, j), A[j].events[m].unit>> \in Counted(e)
  <2> SUFFICES ASSUME NEW j \in Ids, LifeIn(A, j) \notin L, NEW m \in Reported(A[j]), Opens(e, j) => m <= e.seq
               PROVE  <<LifeIn(A, j), A[j].events[m].unit>> \in Counted(e)
    OBVIOUS
  <2>1. ~(m <= e.seq) BY <1>2 DEF Reported
  <2>2. ~Opens(d, j) BY <2>1
  <2> QED BY <1>1, <2>2 DEF Accounted
<1>5. \A j \in Ids : Working(A[j]) => LifeIn(A, j) \in L \/ Opens(e, j)
  BY DEF Accounted
<1>6. \A j \in Ids : e.seq <= Len(A[j].events) BY <1>2
<1> QED BY <1>1, <1>3, <1>4, <1>5, <1>6 DEF Accounted

\* The record closes its assignment once that is at rest and read to its end.
LEMMA AccountedClosed ==
  ASSUME NEW d \in Doc, NEW A \in [Ids -> Assignment], NEW L, NEW n, \A j \in Ids : Orderly(A[j], j, n),
         Accounted(d, A, L),
         \A i \in Ids : Opens(d, i) => \/ Quiet(A, L, i)
                                       \/ A[i].status = "finished" /\ \A m \in Reported(A[i]) : m <= d.seq,
         NEW e, e.used = d.used, e.open = FALSE
  PROVE  Accounted(e, A, L)
<1>1. Counted(e) = Counted(d) BY DEF Counted
<1>2. \A j \in Ids : ~Opens(e, j) BY DEF Opens
<1>3. \A j \in Ids : LifeIn(A, j) \notin L =>
        \A m \in Reported(A[j]) : <<LifeIn(A, j), A[j].events[m].unit>> \in Counted(e)
  <2> SUFFICES ASSUME NEW j \in Ids, LifeIn(A, j) \notin L, NEW m \in Reported(A[j])
               PROVE  <<LifeIn(A, j), A[j].events[m].unit>> \in Counted(d)
    BY <1>1
  <2>1. Holding(A[j])
    <3>1. m \in 1 .. Len(A[j].events) BY DEF Reported
    <3>2. Len(A[j].events) # 0 BY <3>1
    <3> QED BY <3>2 DEF Orderly
  <2>2. Opens(d, j) => m <= d.seq BY <2>1 DEF Quiet
  <2> QED BY <2>2 DEF Accounted
<1>4. \A j \in Ids : Working(A[j]) => LifeIn(A, j) \in L
  <2> SUFFICES ASSUME NEW j \in Ids, Working(A[j]), LifeIn(A, j) \notin L PROVE FALSE
    OBVIOUS
  <2>1. Opens(d, j) BY DEF Accounted
  <2> QED BY <2>1 DEF Quiet, Working, Holding
<1> QED BY <1>1, <1>2, <1>3, <1>4 DEF Accounted

LEMMA Appended ==
  ASSUME NEW S, NEW s \in Seq(S), NEW e
  PROVE  /\ Len(Append(s, e)) = Len(s) + 1 /\ Append(s, e)[Len(s) + 1] = e
         /\ \A m \in 1 .. Len(s) : Append(s, e)[m] = s[m]
<1>1. s \in [1 .. Len(s) -> S] /\ Len(s) \in Nat OBVIOUS
<1>2. s \in [1 .. Len(s) -> S \cup {e}] BY <1>1
<1>3. s \in Seq(S \cup {e}) BY <1>1, <1>2
<1> QED BY <1>3

\* The record counts what the next event reports.
LEMMA AccountedRead ==
  ASSUME NEW d \in Doc, NEW A \in [Ids -> Assignment], NEW L, NEW n, \A j \in Ids : Orderly(A[j], j, n),
         Accounted(d, A, L), NEW i \in Ids, Opens(d, i), d.seq < Len(A[i].events),
         NEW e, e = A[i].events[d.seq + 1],
         NEW f, f.seq = d.seq + 1, \A j \in Ids : Opens(f, j) <=> Opens(d, j),
         f.used = IF e.kind = "report" THEN Append(d.used, <<e.by, e.unit>>) ELSE d.used
  PROVE  Accounted(f, A, L)
<1> DEFINE q == d.seq + 1
           a == A[i]
<1>1. /\ d.seq \in Nat /\ \A j \in Ids : Len(A[j].events) \in Nat
      /\ q \in 1 .. Len(a.events) /\ d.used \in Seq(Lives \X (1 .. Closing)) /\ Len(d.used) \in Nat
  BY DEF Assignment, Doc
<1>2. e.by = LifeIn(A, i) /\ Orderly(a, i, n) BY <1>1 DEF Orderly, LifeIn
<1>3. Holding(a)
  <2>1. Len(a.events) # 0 BY <1>1
  <2> QED BY <1>2, <2>1 DEF Orderly
<1>4. \A j \in Ids : Opens(d, j) => j = i BY DEF Opens
<1> DEFINE new == <<LifeIn(A, i), e.unit>>
<1> HIDE DEF q, a
<1>5. e.kind = "report" => q \in Reported(a) /\ a.events[q].unit = e.unit
  BY <1>1 DEF Reported, q, a
<1>6. ASSUME e.kind = "report" PROVE new \notin Counted(d)
  <2> SUFFICES ASSUME new \in Counted(d) PROVE FALSE
    OBVIOUS
  <2>1. PICK m \in Reported(a) : m <= d.seq /\ a.events[m].unit = new[2]
    BY <1>3 DEF Accounted, a
  <2>2. m = q BY <1>2, <1>5, <1>6, <2>1 DEF Orderly
  <2> QED BY <2>1, <2>2, <1>1 DEF q
<1>7. /\ Once(f.used)
      /\ Counted(f) = IF e.kind = "report" THEN Counted(d) \cup {new} ELSE Counted(d)
  <2>1. Once(d.used) BY DEF Accounted
  <2>2. CASE e.kind # "report" BY <2>1, <2>2 DEF Counted
  <2>3. CASE e.kind = "report"
    <3>1. f.used = Append(d.used, new) BY <2>3, <1>2
    <3>2. new \notin Counted(d) BY <2>3, <1>6
    <3> HIDE DEF new
    <3>3. /\ Len(f.used) = Len(d.used) + 1 /\ f.used[Len(d.used) + 1] = new
          /\ \A m \in 1 .. Len(d.used) : f.used[m] = d.used[m]
      <4> DEFINE s == d.used
                 S == Lives \X (1 .. Closing)
      <4>1. s \in Seq(S) BY <1>1
      <4> HIDE DEF s, S
      <4>2. /\ Len(Append(s, new)) = Len(s) + 1 /\ Append(s, new)[Len(s) + 1] = new
            /\ \A m \in 1 .. Len(s) : Append(s, new)[m] = s[m]
        BY <4>1, Appended
      <4> QED BY <3>1, <4>2 DEF s
    <3>4. \A m \in 1 .. Len(d.used) : d.used[m] # new BY <3>2 DEF Counted
    <3>5. \A m \in 1 .. Len(f.used) : m \in 1 .. Len(d.used) \/ m = Len(d.used) + 1
      BY <3>3, <1>1
    <3>6. Once(f.used) BY <3>3, <3>4, <3>5, <2>1 DEF Once
    <3>7. Len(d.used) + 1 \in 1 .. Len(f.used) /\ \A m \in 1 .. Len(d.used) : m \in 1 .. Len(f.used)
      BY <3>3, <1>1
    <3>8. Counted(f) = Counted(d) \cup {new}
      <4>1. \A y \in Counted(f) : y \in Counted(d) \cup {new} BY <3>3, <3>5 DEF Counted
      <4>2. \A y \in Counted(d) : y \in Counted(f) BY <3>3, <3>7 DEF Counted
      <4>3. new \in Counted(f) BY <3>3, <3>7 DEF Counted
      <4> QED BY <4>1, <4>2, <4>3
    <3> QED BY <2>3, <3>6, <3>8
  <2> QED BY <2>2, <2>3
<1>8. \A x \in Counted(f) : x \in Counted(d) \/ (e.kind = "report" /\ x = new) BY <1>7
<1>9. Counted(d) \subseteq Counted(f) /\ (e.kind = "report" => new \in Counted(f)) BY <1>7
<1>10. \A x \in Counted(f) : x[1][2] <= A[x[1][1]].life
  <2>1. A[i].life \in Nat BY Numbers DEF Assignment
  <2>2. new[1][2] <= A[new[1][1]].life BY <2>1 DEF LifeIn
  <2> QED BY <1>8, <2>2 DEF Accounted
<1>11. \A x \in Counted(f), j \in Ids :
         Opens(f, j) /\ Holding(A[j]) /\ x[1] = LifeIn(A, j) =>
           \E m \in Reported(A[j]) : m <= f.seq /\ A[j].events[m].unit = x[2]
  <2> SUFFICES ASSUME NEW x \in Counted(f), NEW j \in Ids, Opens(f, j), Holding(A[j]), x[1] = LifeIn(A, j)
               PROVE  \E m \in Reported(A[j]) : m <= f.seq /\ A[j].events[m].unit = x[2]
    OBVIOUS
  <2>0. j = i /\ f.seq = q BY <1>4 DEF q
  <2>1. CASE x \in Counted(d)
    <3>1. PICK m \in Reported(A[j]) : m <= d.seq /\ A[j].events[m].unit = x[2] BY <2>1 DEF Accounted
    <3>2. m \in Nat BY <1>1 DEF Reported
    <3>3. m <= f.seq BY <3>1, <3>2, <1>1
    <3> QED BY <3>1, <3>3
  <2>2. CASE e.kind = "report" /\ x = new
    <3>1. q \in Reported(A[j]) /\ A[j].events[q].unit = x[2] BY <1>5, <2>0, <2>2 DEF a
    <3>2. q <= f.seq BY <1>1, <2>0 DEF q
    <3> QED BY <3>1, <3>2
  <2> QED BY <1>8, <2>1, <2>2
<1>12. \A j \in Ids : LifeIn(A, j) \notin L =>
         \A m \in Reported(A[j]) : (Opens(f, j) => m <= f.seq) =>
           <<LifeIn(A, j), A[j].events[m].unit>> \in Counted(f)
  <2> SUFFICES ASSUME NEW j \in Ids, LifeIn(A, j) \notin L, NEW m \in Reported(A[j]), Opens(f, j) => m <= f.seq
               PROVE  <<LifeIn(A, j), A[j].events[m].unit>> \in Counted(f)
    OBVIOUS
  <2>1. CASE Opens(d, j) => m <= d.seq
    <3>1. <<LifeIn(A, j), A[j].events[m].unit>> \in Counted(d) BY <2>1 DEF Accounted
    <3> QED BY <3>1, <1>9
  <2>2. CASE Opens(d, j) /\ ~(m <= d.seq)
    <3>1. j = i /\ m <= f.seq BY <1>4, <2>2
    <3>2. m \in Nat BY <1>1 DEF Reported
    <3>3. m = q BY <2>2, <3>1, <3>2, <1>1 DEF q
    <3>4. A[j].events[m] = e /\ e.kind = "report" BY <3>1, <3>3 DEF q, Reported
    <3> QED BY <3>1, <3>4, <1>9
  <2> QED BY <2>1, <2>2
<1>13. \A j \in Ids : Working(A[j]) => LifeIn(A, j) \in L \/ Opens(f, j) BY DEF Accounted
<1>14. \A j \in Ids : Opens(f, j) /\ ~Quiet(A, L, j) => f.seq <= Len(A[j].events)
  BY <1>1, <1>4 DEF q, a
<1> QED BY <1>7, <1>10, <1>11, <1>12, <1>13, <1>14 DEF Accounted

-----------------------------------------------------------------------------
(* Where the execution that holds the run stands.                          *)

\* What an execution that follows has of the stored document.
Agrees(x, d) ==
  /\ x.held = d.held /\ x.handed = d.handed /\ x.again = d.again /\ x.ckpt = d.ckpt /\ x.run = d.run
  /\ x.open = d.open /\ x.id = d.id /\ x.step = d.step

\* The open assignment, if any, may be posted: it is at rest, and nothing of it is counted.
Fresh(d, A, L) ==
  \A i \in Ids : Opens(d, i) =>
    Quiet(A, L, i) /\ \A y \in Counted(d) : Holding(A[i]) => y[1] # LifeIn(A, i)

\* The worker did not take the open assignment.
Refused(d, A, L) ==
  \A i \in Ids : Opens(d, i) => Quiet(A, L, i) \/ (A[i].status = "finished" /\ Reported(A[i]) = {})
NotTaken(d, A, L) == \A i \in Ids : Opens(d, i) => Quiet(A, L, i)

\* What holds of an execution that passes the fence and has read the run: it has the stored
\* document, but for what it has read and not committed yet.
Standing(x, d, A, L) ==
  /\ d.held = NoHold
  /\ x.at # "follow" => x.doc = d
  /\ x.at = "follow" => Agrees(x.doc, d) /\ x.doc.step = "running" /\ Accounted(x.doc, A, L)
  /\ x.at \in {"admit", "assign"} => Fresh(x.doc, A, L)
  /\ x.at \in Handing => x.doc.seq = 0
  /\ x.at \in {"assign"} \cup Handing => x.doc.step = "admitted"
  /\ x.at = "rejected" => Refused(x.doc, A, L)
  /\ x.at = "full" => NotTaken(x.doc, A, L)
  /\ x.at = "after" /\ x.doc.step = "stopped" => ~x.doc.open

Standings == \A c \in Claims : Passes(c) /\ ~At(c, "begin") => Standing(exec[c], doc, assignment, late)

HandInv == Formed /\ Accounted(doc, assignment, late) /\ Settled(doc) /\ Standings

\* What others do meanwhile: the worker goes on, forgets, or takes an assignment for a runner
\* that lost the run.
Begun(A, L, B, M) ==
  \E i \in Ids : \E a \in Assignment :
    /\ a.life = A[i].life + 1 /\ Reported(a) = {}
    /\ B = [A EXCEPT ![i] = a] /\ M = L \cup {<<i, a.life>>} /\ ~Holding(A[i])
Meanwhile(A, L, B, M) ==
  \/ Continued(A, B) /\ M = L
  \/ (\A i \in Ids : B[i] = Unknown(A[i].life)) /\ M = L
  \/ Begun(A, L, B, M)

LEMMA AccountedMeanwhile ==
  ASSUME NEW d \in Doc, NEW A \in [Ids -> Assignment], NEW B \in [Ids -> Assignment], NEW L, NEW M,
         Meanwhile(A, L, B, M), Accounted(d, A, L)
  PROVE  Accounted(d, B, M)
<1>1. CASE Continued(A, B) /\ M = L BY <1>1, AccountedContinued
<1>2. CASE (\A i \in Ids : B[i] = Unknown(A[i].life)) /\ M = L BY <1>2, AccountedForgotten
<1>3. CASE Begun(A, L, B, M)
  <2>1. PICK i \in Ids, a \in Assignment :
          /\ a.life = A[i].life + 1 /\ Reported(a) = {}
          /\ B = [A EXCEPT ![i] = a] /\ M = L \cup {<<i, a.life>>}
    BY <1>3 DEF Begun
  <2>2. M = L \cup {<<i, a.life>>} \/ (M = L /\ Opens(d, i) /\ d.seq = 0) BY <2>1
  <2>3. B = [A EXCEPT ![i] = a] /\ a.life = A[i].life + 1 /\ Reported(a) = {} BY <2>1
  <2> QED BY <2>2, <2>3, AccountedTaken
<1> QED BY <1>1, <1>2, <1>3 DEF Meanwhile

LEMMA FreshMeanwhile ==
  ASSUME NEW d \in Doc, NEW A \in [Ids -> Assignment], NEW B \in [Ids -> Assignment], NEW L, NEW M,
         Meanwhile(A, L, B, M), Accounted(d, A, L), Fresh(d, A, L)
  PROVE  Fresh(d, B, M)
<1>1. CASE Continued(A, B) /\ M = L
  BY <1>1 DEF Fresh, Continued, GoesOn, LifeIn, Quiet
<1>2. CASE (\A i \in Ids : B[i] = Unknown(A[i].life)) /\ M = L
  BY <1>2, ForgottenSays DEF Fresh, Quiet
<1>3. CASE Begun(A, L, B, M)
  <2>1. PICK i \in Ids, a \in Assignment :
          /\ a.life = A[i].life + 1
          /\ B = [A EXCEPT ![i] = a] /\ M = L \cup {<<i, a.life>>}
    BY <1>3 DEF Begun
  <2>2. \A j \in Ids : B[j] = IF j = i THEN a ELSE A[j] BY <2>1
  <2>3. a.life \in Nat /\ A[i].life \in Nat /\ A[i].life < a.life BY <2>1, Numbers DEF Assignment
  <2>4. \A y \in Counted(d) : y[1] # LifeIn(B, i)
    <3> TAKE y \in Counted(d)
    <3>1. y[1][2] <= A[y[1][1]].life /\ y[1][2] \in Nat BY CountedTyped DEF Accounted
    <3>2. LifeIn(B, i)[1] = i /\ LifeIn(B, i)[2] = a.life BY <2>2 DEF LifeIn
    <3> QED BY <3>1, <3>2, <2>3
  <2>5. Quiet(B, M, i) BY <2>1, <2>2 DEF Quiet, LifeIn
  <2>6. \A j \in Ids : j # i => /\ Quiet(B, M, j) <=> Quiet(A, L, j)
                                /\ Holding(B[j]) <=> Holding(A[j]) 
                                /\ LifeIn(B, j) = LifeIn(A, j)
    BY <2>1, <2>2 DEF Quiet, LifeIn
  <2> QED BY <2>4, <2>5, <2>6 DEF Fresh
<1> QED BY <1>1, <1>2, <1>3 DEF Meanwhile

LEMMA RefusedMeanwhile ==
  ASSUME NEW d, NEW A \in [Ids -> Assignment], NEW B \in [Ids -> Assignment], NEW L, NEW M,
         Meanwhile(A, L, B, M)
  PROVE  /\ Refused(d, A, L) => Refused(d, B, M)
         /\ NotTaken(d, A, L) => NotTaken(d, B, M)
<1>1. \A i \in Ids : Quiet(A, L, i) => Quiet(B, M, i)
  <2>1. CASE Continued(A, B) /\ M = L
    BY <2>1 DEF Continued, GoesOn, LifeIn, Quiet
  <2>2. CASE (\A i \in Ids : B[i] = Unknown(A[i].life)) /\ M = L
    BY <2>2, ForgottenSays DEF Quiet
  <2>3. CASE Begun(A, L, B, M)
    BY <2>3 DEF Begun, Quiet, LifeIn
  <2> QED BY <2>1, <2>2, <2>3 DEF Meanwhile
<1>2. \A i \in Ids : A[i].status = "finished" /\ Reported(A[i]) = {} =>
                       Quiet(B, M, i) \/ (B[i].status = "finished" /\ Reported(B[i]) = {})
  <2>1. CASE Continued(A, B) /\ M = L
    BY <2>1 DEF Continued, GoesOn, Working, Reported
  <2>2. CASE (\A i \in Ids : B[i] = Unknown(A[i].life)) /\ M = L
    BY <2>2, ForgottenSays DEF Quiet
  <2>3. CASE Begun(A, L, B, M)
    BY <2>3 DEF Begun, Holding
  <2> QED BY <2>1, <2>2, <2>3 DEF Meanwhile
<1> QED BY <1>1, <1>2 DEF Refused, NotTaken

LEMMA StandingMeanwhile ==
  ASSUME NEW x \in Exec, NEW d \in Doc, NEW A \in [Ids -> Assignment], NEW B \in [Ids -> Assignment],
         NEW L, NEW M, Meanwhile(A, L, B, M), Accounted(d, A, L), Standing(x, d, A, L)
  PROVE  Standing(x, d, B, M)
<1>1. x.doc \in Doc BY DEF Exec
<1>2. x.at = "follow" => Accounted(x.doc, B, M) BY <1>1, AccountedMeanwhile DEF Standing
<1>3. x.at \in {"admit", "assign"} => Fresh(x.doc, B, M)
  <2>1. x.at \in {"admit", "assign"} => Fresh(x.doc, A, L) /\ x.doc = d BY DEF Standing
  <2> QED BY <2>1, FreshMeanwhile
<1>4. /\ x.at = "rejected" => Refused(x.doc, B, M)
      /\ x.at = "full" => NotTaken(x.doc, B, M)
  BY RefusedMeanwhile DEF Standing
<1> QED BY <1>2, <1>3, <1>4 DEF Standing

-----------------------------------------------------------------------------
(* What a step must show.                                                  *)

Kept == Accounted(doc, assignment, late) /\ Settled(doc) /\ Standings

LEMMA StopContinues ==
  ASSUME Formed, NEW i, assignment' = assignment \/ assignment' = Stopped(i)
  PROVE  assignment' \in [Ids -> Assignment] /\ Continued(assignment, assignment')
<1>1. assignment \in [Ids -> Assignment] /\ assignment' \in [Ids -> Assignment]
  BY StopFormed DEF Formed, TypeOK
<1>2. \A j \in Ids : GoesOn(assignment[j], assignment[j]) BY <1>1, GoesOnSelf
<1>3. CASE assignment' = assignment BY <1>1, <1>2, <1>3 DEF Continued
<1>4. CASE assignment' # assignment
  <2>1. i \in Ids /\ Working(assignment[i]) /\ assignment' = [assignment EXCEPT ![i].status = "stopping"]
    BY <1>4 DEF Stopped, AtWork, Working
  <2> DEFINE a == assignment[i]
             b == assignment'[i]
  <2>2. a \in Assignment /\ Len(a.events) \in Nat BY <1>1, <2>1 DEF Assignment
  <2>3. b.status = "stopping" /\ b.life = a.life /\ b.events = a.events
    BY <1>1, <2>1, <2>2 DEF Assignment
  <2>4. GoesOn(a, b) BY <2>1, <2>2, <2>3 DEF GoesOn, Holding, Working
  <2>5. \A j \in Ids : j # i => assignment'[j] = assignment[j] BY <1>1, <2>1
  <2> QED BY <1>1, <1>2, <2>4, <2>5 DEF Continued
<1> QED BY <1>3, <1>4

\* An execution of the one claim that passes; the others know nothing of it.
LEMMA StandingsStep ==
  ASSUME HandInv, assignment' \in [Ids -> Assignment], NEW c \in Claims, ~At(c, "off"), NEW x \in Exec,
         UNCHANGED job, exec' = [exec EXCEPT ![c] = x], x.at = "off" \/ x.by = exec[c].by,
         Passes(c) /\ x.at \notin {"off", "begin"} => Standing(x, doc', assignment', late'),
         ~Passes(c) => doc' = doc /\ Meanwhile(assignment, late, assignment', late')
  PROVE  Standings'
<1> SUFFICES ASSUME NEW k \in Claims, Passes(k)', ~At(k, "begin")'
             PROVE  Standing(exec'[k], doc', assignment', late')
  BY DEF Standings
<1>1. /\ exec \in [Claims -> Exec] /\ assignment \in [Ids -> Assignment] /\ doc \in Doc
      /\ Accounted(doc, assignment, late) /\ Standings
  BY DEF HandInv, Formed, TypeOK
<1>2. job.claim = k /\ job.queued /\ job.by = exec'[k].by /\ exec'[k].at \notin {"off", "begin"}
  BY DEF Passes, Names, At
<1>3. CASE k = c
  <2>1. exec'[k] = x BY <1>1, <1>3
  <2>2. Passes(c) BY <1>2, <1>3, <2>1 DEF Passes, Names
  <2> QED BY <1>2, <2>1, <2>2
<1>4. CASE k # c
  <2>1. exec'[k] = exec[k] BY <1>1, <1>4
  <2>2. Passes(k) /\ ~At(k, "begin") /\ ~Passes(c) BY <1>2, <1>4, <2>1 DEF Passes, Names, At
  <2>3. Standing(exec[k], doc, assignment, late) /\ exec[k] \in Exec BY <1>1, <2>2 DEF Standings
  <2> QED BY <1>1, <2>1, <2>2, <2>3, StandingMeanwhile
<1> QED BY <1>3, <1>4

LEMMA CommitKeeps ==
  ASSUME HandInv, NEW c \in Claims, ~At(c, "off"), NEW next \in Exec, Commit(c, next),
         next.by = exec[c].by, next.at # "off", UNCHANGED <<job, late>>,
         NEW i, assignment' = assignment \/ assignment' = Stopped(i),
         Passes(c) => /\ Accounted(next.doc, assignment, late) /\ Settled(next.doc)
                      /\ next.at # "begin" => Standing(next, next.doc, assignment, late)
  PROVE  Kept'
<1>1. /\ Formed /\ assignment \in [Ids -> Assignment] /\ doc \in Doc /\ next.doc \in Doc
      /\ Accounted(doc, assignment, late) /\ Settled(doc)
  BY DEF HandInv, Formed, TypeOK, Exec
<1>2. assignment' \in [Ids -> Assignment] /\ Continued(assignment, assignment') BY <1>1, StopContinues
<1>3. Meanwhile(assignment, late, assignment', late') BY <1>2 DEF Meanwhile
<1>4. CASE Passes(c)
  <2>1. doc' = next.doc /\ exec' = [exec EXCEPT ![c] = next] BY <1>4 DEF Commit
  <2>2. Accounted(doc', assignment', late') BY <1>1, <1>2, <1>3, <1>4, <2>1, AccountedMeanwhile
  <2>3. next.at # "begin" => Standing(next, doc', assignment', late')
    BY <1>1, <1>2, <1>3, <1>4, <2>1, StandingMeanwhile
  <2>4. Standings' BY <1>2, <1>4, <2>1, <2>3, StandingsStep
  <2> QED BY <1>4, <2>1, <2>2, <2>4 DEF Kept
<1>5. CASE ~Passes(c)
  <2>1. doc' = doc /\ exec' = [exec EXCEPT ![c] = NoExec] BY <1>5 DEF Commit
  <2>2. Accounted(doc', assignment', late') BY <1>1, <1>2, <1>3, <2>1, AccountedMeanwhile
  <2>3. Standings' BY <1>2, <1>3, <1>5, <2>1, NoExecTyped, StandingsStep
  <2> QED BY <1>1, <2>1, <2>2, <2>3 DEF Kept
<1> QED BY <1>4, <1>5

LEMMA Written ==
  ASSUME NEW d, NEW e, NEW A, NEW L, Accounted(d, A, L),
         e.used = d.used, e.seq = d.seq, e.open = d.open, e.id = d.id
  PROVE  Accounted(e, A, L)
<1>1. \A i \in Ids : Opens(e, i) <=> Opens(d, i) BY DEF Opens
<1> QED BY <1>1, AccountedSame

LEMMA PlainStanding ==
  ASSUME NEW y, NEW A, NEW L, y.at \in {"loop", "after", "ended"}, y.doc.held = NoHold,
         y.at = "after" /\ y.doc.step = "stopped" => ~y.doc.open
  PROVE  Standing(y, y.doc, A, L)
BY DEF Standing, Handing

\* What is known of an execution that passes the fence.
LEMMA Own ==
  ASSUME HandInv, NEW c \in Claims, Passes(c), ~At(c, "begin")
  PROVE  /\ Standing(exec[c], doc, assignment, late)
         /\ ~At(c, "follow") => exec[c].doc = doc
         /\ Accounted(exec[c].doc, assignment, late) /\ Settled(exec[c].doc)
         /\ exec[c].doc.held = NoHold
<1>1. Standing(exec[c], doc, assignment, late) /\ Accounted(doc, assignment, late) /\ Settled(doc)
  BY DEF HandInv, Standings
<1>2. CASE At(c, "follow") BY <1>1, <1>2 DEF Standing, At, Agrees, Settled
<1>3. CASE ~At(c, "follow") BY <1>1, <1>3 DEF Standing, At
<1> QED BY <1>1, <1>2, <1>3

LEMMA GoesFields ==
  ASSUME Formed, NEW c \in Claims, NEW d \in Doc, NEW s \in Stands
  PROVE  /\ Goes(c, d, s) \in Exec /\ Goes(c, d, s).doc = d /\ Goes(c, d, s).at = s
         /\ Goes(c, d, s).by = exec[c].by
BY ExecTyped DEF Formed, Stands

LEMMA NotesKeep ==
  ASSUME NEW x \in Exec, NEW w \in {"none", "capacity", "limit"}, NEW b \in BOOLEAN, NEW f \in Refs \cup {NoRef}
  PROVE  /\ [x EXCEPT !.why = w] \in Exec /\ [x EXCEPT !.adopted = b] \in Exec /\ [x EXCEPT !.from = f] \in Exec
         /\ [x EXCEPT !.why = w].doc = x.doc /\ [x EXCEPT !.adopted = b].doc = x.doc
         /\ [x EXCEPT !.from = f].doc = x.doc
         /\ [x EXCEPT !.why = w].at = x.at /\ [x EXCEPT !.adopted = b].at = x.at
         /\ [x EXCEPT !.from = f].at = x.at
         /\ [x EXCEPT !.why = w].by = x.by /\ [x EXCEPT !.adopted = b].by = x.by
         /\ [x EXCEPT !.from = f].by = x.by
BY DEF Exec

-----------------------------------------------------------------------------
(* The invariant, action by action.                                        *)

LEMMA FailsKeeps ==
  ASSUME HandInv, NEW c \in Claims, ~At(c, "off"), ~At(c, "begin"), Commit(c, Failed(c)),
         UNCHANGED <<job, late>>, NEW i, assignment' = assignment \/ assignment' = Stopped(i)
  PROVE  Kept'
<1> DEFINE x == exec[c].doc
           d == [x EXCEPT !.step = "failed"]
           y == Goes(c, d, "after")
<1>1. Formed /\ x \in Doc BY Facts DEF HandInv
<1> HIDE DEF x
<1>2. d \in Doc /\ d.step = "failed" /\ d.used = x.used /\ d.seq = x.seq /\ d.open = x.open /\ d.id = x.id
      /\ d.held = x.held
  BY <1>1 DEF Doc, StepStates
<1> HIDE DEF d
<1>3. y \in Exec /\ y.doc = d /\ y.at = "after" /\ y.by = exec[c].by BY <1>1, <1>2, GoesFields DEF Stands
<1>4. Commit(c, y) BY DEF Failed, y, d, x
<1> HIDE DEF y
<1>5. ASSUME Passes(c)
      PROVE  /\ Accounted(y.doc, assignment, late) /\ Settled(y.doc)
             /\ Standing(y, y.doc, assignment, late)
  <2>1. Accounted(x, assignment, late) /\ x.held = NoHold BY <1>5, Own DEF x
  <2>2. Accounted(d, assignment, late) BY <1>2, <2>1, Written
  <2>3. Settled(d) BY <1>2, <2>1 DEF Settled
  <2>4. Standing(y, y.doc, assignment, late) BY <1>2, <1>3, <2>1, PlainStanding
  <2> QED BY <1>3, <2>2, <2>3, <2>4
<1> QED BY <1>3, <1>4, <1>5, CommitKeeps

LEMMA BeginKeeps ==
  ASSUME HandInv, NEW c \in Claims, TakeoverLapsed(c) \/ Begin(c)
  PROVE  Kept'
<1>1. /\ Formed /\ doc \in Doc /\ ~At(c, "off") /\ Accounted(doc, assignment, late) /\ Settled(doc)
      /\ exec[c].at = "begin"
  BY Facts DEF TakeoverLapsed, Begin, At, HandInv
<1>2. UNCHANGED <<job, late>> /\ UNCHANGED assignment
  BY DEF TakeoverLapsed, Begin, workerVars, counters
<1>3. CASE TakeoverLapsed(c)
  <2> DEFINE d == [doc EXCEPT !.step = "stopped", !.held = NoHold]
             y == Goes(c, d, "begin")
  <2>1. d \in Doc /\ d.step = "stopped" /\ d.used = doc.used /\ d.seq = doc.seq /\ d.open = doc.open
        /\ d.id = doc.id /\ d.held = NoHold
    BY <1>1 DEF Doc, StepStates
  <2>2. Commit(c, y) BY <1>3 DEF TakeoverLapsed
  <2> HIDE DEF d
  <2>3. y \in Exec /\ y.doc = d /\ y.at = "begin" /\ y.by = exec[c].by BY <1>1, <2>1, GoesFields DEF Stands
  <2> HIDE DEF y
  <2>4. Accounted(d, assignment, late) /\ Settled(d) BY <1>1, <2>1, Written DEF Settled
  <2> QED BY <1>1, <1>2, <2>2, <2>3, <2>4, CommitKeeps
<1>4. CASE Begin(c) /\ EndedForClaim(doc)
  <2> DEFINE y == Goes(c, doc, "ended")
  <2>1. exec' = [exec EXCEPT ![c] = y] /\ UNCHANGED doc /\ doc.held = NoHold BY <1>4 DEF Begin
  <2>2. y \in Exec /\ y.doc = doc /\ y.at = "ended" /\ y.by = exec[c].by BY <1>1, GoesFields DEF Stands
  <2> HIDE DEF y
  <2>3. assignment' \in [Ids -> Assignment] /\ Continued(assignment, assignment')
    BY <1>1, <1>2, StopContinues
  <2>4. Meanwhile(assignment, late, assignment', late') BY <1>2, <2>3 DEF Meanwhile
  <2>5. Standing(y, doc', assignment', late') BY <2>1, <2>2, PlainStanding
  <2>6. Standings' BY <1>1, <1>2, <2>1, <2>2, <2>3, <2>4, <2>5, StandingsStep
  <2> QED BY <1>1, <1>2, <2>1, <2>6 DEF Kept
<1>5. CASE Begin(c) /\ ~EndedForClaim(doc)
  <2> DEFINE d == Recovered(doc)
             y == Goes(c, d, "loop")
  <2>1. d \in Doc /\ d.used = doc.used /\ d.seq = doc.seq /\ d.open = doc.open /\ d.id = doc.id
        /\ d.held = doc.held /\ d.handed = doc.handed /\ d.step \in {"stopped", doc.step}
    <3> DEFINE s == IF InFlight(doc) THEN "stopped" ELSE doc.step
    <3>1. s \in StepStates /\ s \in {"stopped", doc.step} BY <1>1 DEF Doc, StepStates
    <3>2. d = [doc EXCEPT !.run = "running", !.step = s] BY DEF Recovered
    <3> HIDE DEF d, s
    <3> QED BY <1>1, <3>1, <3>2 DEF Doc, RunStates
  <2>2. Commit(c, y) /\ doc.held = NoHold BY <1>5 DEF Begin
  <2> HIDE DEF d
  <2>3. y \in Exec /\ y.doc = d /\ y.at = "loop" /\ y.by = exec[c].by BY <1>1, <2>1, GoesFields DEF Stands
  <2> HIDE DEF y
  <2>4. Accounted(d, assignment, late) BY <1>1, <2>1, Written
  <2>5. Settled(d) BY <1>1, <2>1, <2>2 DEF Settled
  <2>6. Standing(y, y.doc, assignment, late) BY <2>1, <2>2, <2>3, PlainStanding
  <2> QED BY <1>1, <1>2, <2>2, <2>3, <2>4, <2>5, <2>6, CommitKeeps
<1> QED BY <1>3, <1>4, <1>5

LEMMA BegunFields ==
  ASSUME NEW d \in Doc, NEW s \in StepStates
  PROVE  LET begun == [d EXCEPT !.again = @ \cup ({d.step} \cap {"failed", "rejected"})]
             e == [begun EXCEPT !.step = s]
             f == [d EXCEPT !.step = s, !.open = FALSE]
         IN  /\ e \in Doc /\ e.step = s /\ e.used = d.used /\ e.seq = d.seq /\ e.open = d.open
             /\ e.id = d.id /\ e.held = d.held /\ e.handed = d.handed /\ e.kept = d.kept
             /\ e.ckpt = d.ckpt /\ e.again = d.again \cup ({d.step} \cap {"failed", "rejected"})
             /\ f \in Doc /\ f.step = s /\ f.used = d.used /\ f.open = FALSE /\ f.held = d.held
             /\ f.handed = d.handed /\ f.kept = d.kept /\ f.ckpt = d.ckpt /\ f.again = d.again
<1> DEFINE g == d.again \cup ({d.step} \cap {"failed", "rejected"})
           begun == [d EXCEPT !.again = @ \cup ({d.step} \cap {"failed", "rejected"})]
           e == [begun EXCEPT !.step = s]
           f == [d EXCEPT !.step = s, !.open = FALSE]
<1>1. g \in SUBSET {"failed", "rejected"} BY DEF Doc
<1>2. begun = [d EXCEPT !.again = g] OBVIOUS
<1> HIDE DEF g, begun
<1>3. /\ begun \in Doc /\ begun.used = d.used /\ begun.seq = d.seq /\ begun.open = d.open
      /\ begun.id = d.id /\ begun.held = d.held /\ begun.handed = d.handed /\ begun.kept = d.kept
      /\ begun.ckpt = d.ckpt /\ begun.again = g
  BY <1>1, <1>2 DEF Doc
<1>4. /\ e \in Doc /\ e.step = s /\ e.used = begun.used /\ e.seq = begun.seq /\ e.open = begun.open
      /\ e.id = begun.id /\ e.held = begun.held /\ e.handed = begun.handed /\ e.kept = begun.kept
      /\ e.ckpt = begun.ckpt /\ e.again = begun.again
  BY <1>3 DEF Doc
<1>5. /\ f \in Doc /\ f.step = s /\ f.used = d.used /\ f.open = FALSE /\ f.held = d.held
      /\ f.handed = d.handed /\ f.kept = d.kept /\ f.ckpt = d.ckpt /\ f.again = d.again
  BY DEF Doc
<1> HIDE DEF e, f
<1>6. /\ e \in Doc /\ e.step = s /\ e.used = d.used /\ e.seq = d.seq /\ e.open = d.open
      /\ e.id = d.id /\ e.held = d.held /\ e.handed = d.handed /\ e.kept = d.kept
      /\ e.ckpt = d.ckpt /\ e.again = g
  BY <1>3, <1>4
<1> QED BY <1>5, <1>6 DEF e, f, begun, g

LEMMA FollowStanding ==
  ASSUME NEW y, NEW A, NEW L, y.at = "follow", y.doc.held = NoHold, y.doc.step = "running",
         Accounted(y.doc, A, L)
  PROVE  Standing(y, y.doc, A, L) /\ Settled(y.doc)
BY DEF Standing, Handing, Agrees, Settled

LEMMA HandedOverKeeps ==
  ASSUME HandInv, NEW c \in Claims, ~At(c, "off"), ~At(c, "begin"), NEW b \in BOOLEAN,
         HandedOver(c, b), UNCHANGED <<job, late>>
  PROVE  Kept'
<1> DEFINE x == exec[c].doc
           begun == [x EXCEPT !.again = @ \cup ({x.step} \cap {"failed", "rejected"})]
           d == [begun EXCEPT !.step = "running"]
           y == Goes(c, d, "follow")
           next == [y EXCEPT !.adopted = b]
<1>1. Formed /\ x \in Doc BY Facts DEF HandInv
<1>2. d \in Doc /\ d.step = "running" /\ d.used = x.used /\ d.seq = x.seq /\ d.open = x.open /\ d.id = x.id
      /\ d.held = x.held
  <2> HIDE DEF x
  <2>1. "running" \in StepStates BY DEF StepStates
  <2> QED BY <1>1, <2>1, BegunFields
<1>3. Commit(c, next) /\ (assignment' = assignment \/ assignment' = Stopped(x.id))
  BY DEF HandedOver
<1> HIDE DEF d
<1>4. y \in Exec /\ y.doc = d /\ y.at = "follow" /\ y.by = exec[c].by BY <1>1, <1>2, GoesFields DEF Stands
<1> HIDE DEF y
<1>5. next \in Exec /\ next.doc = d /\ next.at = "follow" /\ next.by = exec[c].by
  <2>1. "none" \in {"none", "capacity", "limit"} /\ NoRef \in Refs \cup {NoRef} OBVIOUS
  <2> QED BY <1>4, <2>1, NotesKeep
<1> HIDE DEF next
<1>6. ASSUME Passes(c)
      PROVE  /\ Accounted(next.doc, assignment, late) /\ Settled(next.doc)
             /\ Standing(next, next.doc, assignment, late)
  <2>1. Accounted(x, assignment, late) /\ x.held = NoHold BY <1>6, Own DEF x
  <2> HIDE DEF x
  <2>2. Accounted(d, assignment, late) BY <1>2, <2>1, Written
  <2> QED BY <1>2, <1>5, <2>1, <2>2, FollowStanding
<1> HIDE DEF x
<1> QED BY <1>3, <1>5, <1>6, CommitKeeps

LEMMA RejectedByWorkerKeeps ==
  ASSUME HandInv, NEW c \in Claims, ~At(c, "off"), ~At(c, "begin"), RejectedByWorker(c),
         UNCHANGED <<job, late>>, Passes(c) => Refused(exec[c].doc, assignment, late)
  PROVE  Kept'
<1> DEFINE x == exec[c].doc
           d == [x EXCEPT !.step = "rejected", !.open = FALSE]
           y == Goes(c, d, "after")
<1>1. Formed /\ x \in Doc BY Facts DEF HandInv
<1>2. d \in Doc /\ d.step = "rejected" /\ d.used = x.used /\ d.open = FALSE /\ d.held = x.held
  <2> HIDE DEF x
  <2>1. "rejected" \in StepStates BY DEF StepStates
  <2> QED BY <1>1, <2>1, BegunFields
<1>3. Commit(c, y) /\ assignment' = assignment BY DEF RejectedByWorker
<1> HIDE DEF d
<1>4. y \in Exec /\ y.doc = d /\ y.at = "after" /\ y.by = exec[c].by BY <1>1, <1>2, GoesFields DEF Stands
<1> HIDE DEF y
<1>5. ASSUME Passes(c)
      PROVE  /\ Accounted(y.doc, assignment, late) /\ Settled(y.doc)
             /\ Standing(y, y.doc, assignment, late)
  <2>1. Accounted(x, assignment, late) /\ x.held = NoHold BY <1>5, Own DEF x
  <2>2. Refused(x, assignment, late) BY <1>5
  <2>3. assignment \in [Ids -> Assignment] /\ \A j \in Ids : Orderly(assignment[j], j, ids)
    BY <1>1 DEF Formed, TypeOK
  <2> HIDE DEF x
  <2>4. \A i \in Ids : Opens(x, i) =>
          \/ Quiet(assignment, late, i)
          \/ assignment[i].status = "finished" /\ \A m \in Reported(assignment[i]) : m <= x.seq
    BY <2>2 DEF Refused
  <2>5. Accounted(d, assignment, late) BY <1>1, <1>2, <2>1, <2>3, <2>4, AccountedClosed
  <2>6. Settled(d) BY <1>2 DEF Settled
  <2>7. Standing(y, y.doc, assignment, late) BY <1>2, <1>4, <2>1, PlainStanding
  <2> QED BY <1>4, <2>5, <2>6, <2>7
<1> HIDE DEF x
<1> QED BY <1>3, <1>4, <1>5, CommitKeeps

LEMMA AdoptedKeeps ==
  ASSUME HandInv, NEW c \in Claims, ~At(c, "off"), ~At(c, "begin"), exec[c].doc.open, Adopted(c),
         UNCHANGED <<job, late>>
  PROVE  Kept'
<1> DEFINE x == exec[c].doc
<1>1. CASE HandedOver(c, TRUE) BY <1>1, HandedOverKeeps
<1>2. CASE assignment[x.id].status = "finished" /\ Outcome(x.id) = "rejected" /\ RejectedByWorker(c)
  <2>1. Formed /\ Named(x, ids) BY Facts DEF HandInv
  <2>2. x.id \in Ids BY <2>1 DEF Named
  <2> DEFINE a == assignment[x.id]
  <2>3. Orderly(a, x.id, ids) /\ a.events \in Seq(Event) /\ Len(a.events) \in Nat
    BY <2>1, <2>2 DEF Formed, TypeOK, Assignment
  <2>4. Len(a.events) > 0 /\ a.events[Len(a.events)].outcome = "rejected"
    BY <1>2, <2>3 DEF Orderly, Outcome
  <2> HIDE DEF a
  <2>5. Len(a.events) \in 1 .. Len(a.events) BY <2>3, <2>4
  <2>6. Len(a.events) = 1 /\ a.events[1].kind = "finished"
    BY <2>3, <2>4, <2>5 DEF Orderly
  <2>7. \A m \in 1 .. Len(a.events) : m = 1 BY <2>6
  <2>8. Reported(a) = {} BY <2>6, <2>7 DEF Reported
  <2>9. Refused(x, assignment, late) BY <1>2, <2>8 DEF Refused, Opens, a
  <2> QED BY <1>2, <2>9, RejectedByWorkerKeeps
<1> QED BY <1>1, <1>2 DEF Adopted

\* An execution that stands elsewhere with the document it has.
LEMMA MovedTo ==
  ASSUME Formed, NEW c \in Claims, NEW s \in Stands, exec' = [exec EXCEPT ![c].at = s]
  PROVE  \E y \in Exec : /\ exec' = [exec EXCEPT ![c] = y] /\ y.doc = exec[c].doc
                         /\ y.at = s /\ y.by = exec[c].by
<1> DEFINE y == [exec[c] EXCEPT !.at = s]
<1>1. exec[c] \in Exec /\ exec \in [Claims -> Exec] BY Facts
<1>2. exec' = [exec EXCEPT ![c] = y] BY <1>1
<1>3. y \in Exec /\ y.doc = exec[c].doc /\ y.by = exec[c].by /\ y.at = s BY <1>1 DEF Exec, Stands
<1> QED BY <1>2, <1>3

LEMMA BeginStepKeeps ==
  ASSUME HandInv, NEW c \in Claims, BeginStep(c)
  PROVE  Kept'
<1>1. ~At(c, "off") /\ ~At(c, "begin") /\ ~At(c, "follow") /\ Formed BY DEF BeginStep, At, HandInv
<1>2. UNCHANGED <<job, late>> BY DEF BeginStep
<1>3. CASE /\ exec' = [exec EXCEPT ![c].at = "admit"] /\ UNCHANGED <<doc, assignment>>
           /\ exec[c].doc.open => ~Known(exec[c].doc.id)
  <2>1. PICK y \in Exec : /\ exec' = [exec EXCEPT ![c] = y] /\ y.doc = exec[c].doc
                          /\ y.at = "admit" /\ y.by = exec[c].by
    BY <1>1, <1>3, MovedTo DEF Stands
  <2>2. assignment' \in [Ids -> Assignment] /\ Continued(assignment, assignment')
    BY <1>1, <1>3, StopContinues
  <2>3. Meanwhile(assignment, late, assignment', late') BY <1>2, <2>2 DEF Meanwhile
  <2>4. Fresh(y.doc, assignment, late)
    <3>1. \A i \in Ids : Opens(y.doc, i) => ~Holding(assignment[i])
      BY <1>3, <2>1 DEF Opens, Known, Holding
    <3> QED BY <3>1 DEF Fresh, Quiet
  <2>5. Passes(c) => Standing(y, doc', assignment', late')
    <3> SUFFICES ASSUME Passes(c) PROVE Standing(y, doc', assignment', late')
      OBVIOUS
    <3>1. exec[c].doc = doc /\ doc.held = NoHold BY <1>1, Own
    <3> QED BY <1>2, <1>3, <2>1, <2>4, <3>1 DEF Standing, Handing
  <2>6. Standings' BY <1>1, <1>2, <1>3, <2>1, <2>2, <2>3, <2>5, StandingsStep
  <2> QED BY <1>2, <1>3, <2>6 DEF Kept, HandInv
<1>4. CASE exec[c].doc.open /\ Adopted(c) BY <1>1, <1>2, <1>4, AdoptedKeeps
<1>5. CASE Commit(c, Failed(c)) /\ UNCHANGED assignment BY <1>1, <1>2, <1>5, FailsKeeps
<1> QED BY <1>3, <1>4, <1>5 DEF BeginStep, Reclaim

LEMMA FreshSame ==
  ASSUME NEW d, NEW e, NEW A, NEW L, Fresh(d, A, L), e.used = d.used, e.open = d.open, e.id = d.id
  PROVE  Fresh(e, A, L)
<1>1. Counted(e) = Counted(d) BY DEF Counted
<1>2. \A i \in Ids : Opens(e, i) <=> Opens(d, i) BY DEF Opens
<1> QED BY <1>1, <1>2 DEF Fresh

LEMMA AdmitKeeps ==
  ASSUME HandInv, NEW c \in Claims, Admit(c)
  PROVE  Kept'
<1> DEFINE x == exec[c].doc
           begun == [x EXCEPT !.again = @ \cup ({x.step} \cap {"failed", "rejected"})]
           d == [begun EXCEPT !.step = "admitted"]
           e == [begun EXCEPT !.step = "rejected"]
           f == ContinuesFrom(x)
           y == Goes(c, d, "assign")
           z == Goes(c, e, "after")
           next == [y EXCEPT !.from = f]
<1>1. Formed /\ x \in Doc /\ ~At(c, "off") /\ ~At(c, "begin") /\ At(c, "admit")
  BY Facts DEF Admit, At, HandInv
<1>2. UNCHANGED <<assignment, job, late>> BY DEF Admit, workerVars
<1>3. /\ d \in Doc /\ d.step = "admitted" /\ d.used = x.used /\ d.seq = x.seq /\ d.open = x.open
      /\ d.id = x.id /\ d.held = x.held
  <2> HIDE DEF x
  <2>1. "admitted" \in StepStates BY DEF StepStates
  <2> QED BY <1>1, <2>1, BegunFields
<1>4. /\ e \in Doc /\ e.step = "rejected" /\ e.used = x.used /\ e.seq = x.seq /\ e.open = x.open
      /\ e.id = x.id /\ e.held = x.held
  <2> HIDE DEF x
  <2>1. "rejected" \in StepStates BY DEF StepStates
  <2> QED BY <1>1, <2>1, BegunFields
<1>5. f \in Refs \cup {NoRef} BY <1>1 DEF ContinuesFrom, Doc
<1>6. Commit(c, next) \/ Commit(c, z) BY DEF Admit
<1>7. Passes(c) => /\ Accounted(x, assignment, late) /\ x.held = NoHold /\ Fresh(x, assignment, late)
  BY <1>1, Own DEF Standing, At
<1> HIDE DEF d, e, f, x
<1>8. y \in Exec /\ y.doc = d /\ y.at = "assign" /\ y.by = exec[c].by BY <1>1, <1>3, GoesFields DEF Stands
<1>9. z \in Exec /\ z.doc = e /\ z.at = "after" /\ z.by = exec[c].by BY <1>1, <1>4, GoesFields DEF Stands
<1> HIDE DEF y, z
<1>10. next \in Exec /\ next.doc = d /\ next.at = "assign" /\ next.by = exec[c].by
  <2>1. "none" \in {"none", "capacity", "limit"} /\ TRUE \in BOOLEAN OBVIOUS
  <2> QED BY <1>5, <1>8, <2>1, NotesKeep
<1> HIDE DEF next
<1>11. CASE Commit(c, next)
  <2>1. ASSUME Passes(c)
        PROVE  /\ Accounted(next.doc, assignment, late) /\ Settled(next.doc)
               /\ Standing(next, next.doc, assignment, late)
    <3>1. Accounted(d, assignment, late) BY <1>3, <1>7, <2>1, Written
    <3>2. Fresh(d, assignment, late) BY <1>3, <1>7, <2>1, FreshSame
    <3>3. Settled(d) BY <1>3, <1>7, <2>1 DEF Settled
    <3>4. Standing(next, d, assignment, late)
      BY <1>3, <1>7, <1>10, <2>1, <3>2 DEF Standing, Handing
    <3> QED BY <1>10, <3>1, <3>3, <3>4
  <2> QED BY <1>1, <1>2, <1>10, <1>11, <2>1, CommitKeeps
<1>12. CASE Commit(c, z)
  <2>1. ASSUME Passes(c)
        PROVE  /\ Accounted(z.doc, assignment, late) /\ Settled(z.doc)
               /\ Standing(z, z.doc, assignment, late)
    <3>1. Accounted(e, assignment, late) BY <1>4, <1>7, <2>1, Written
    <3>2. Settled(e) BY <1>4, <1>7, <2>1 DEF Settled
    <3>3. Standing(z, z.doc, assignment, late) BY <1>4, <1>7, <1>9, <2>1, PlainStanding
    <3> QED BY <1>9, <3>1, <3>2, <3>3
  <2> QED BY <1>1, <1>2, <1>9, <1>12, <2>1, CommitKeeps
<1> QED BY <1>6, <1>11, <1>12

LEMMA AssignKeeps ==
  ASSUME HandInv, NEW c \in Claims, Assign(c)
  PROVE  Kept'
<1> DEFINE x == exec[c].doc
           i == AssignedId(x)
           d == [x EXCEPT !.id = i, !.open = TRUE, !.seq = 0]
           y == Goes(c, d, "post")
<1>1. Formed /\ x \in Doc /\ ~At(c, "off") /\ ~At(c, "begin") /\ At(c, "assign") /\ i \in Ids
  BY Facts DEF Assign, At, HandInv
<1>2. UNCHANGED <<assignment, job, late>> BY DEF Assign, workerVars
<1>3. Commit(c, y) BY DEF Assign
<1>4. Passes(c) => /\ Accounted(x, assignment, late) /\ x.held = NoHold /\ Fresh(x, assignment, late)
                   /\ x.step = "admitted"
  BY <1>1, Own DEF Standing, At
<1>5. \A j \in Ids : Opens(x, j) => j = i BY DEF Opens, AssignedId
<1>6. Fresh(x, assignment, late) =>
        \A u \in Counted(x) : Holding(assignment[i]) => u[1] # LifeIn(assignment, i)
  <2>1. CASE x.open
    <3>1. Opens(x, i) BY <2>1 DEF Opens, AssignedId
    <3> QED BY <1>1, <3>1 DEF Fresh
  <2>2. CASE ~x.open
    <3>1. ids \in Nat /\ Orderly(assignment[i], i, ids) BY <1>1, Facts DEF Formed
    <3>2. i = ids + 1 BY <2>2 DEF AssignedId
    <3>3. i > ids BY <3>1, <3>2
    <3>4. ~Holding(assignment[i]) BY <3>1, <3>3 DEF Orderly
    <3> QED BY <3>4
  <2> QED BY <2>1, <2>2
<1>7. /\ d \in Doc /\ d.id = i /\ d.open = TRUE /\ d.seq = 0 /\ d.used = x.used /\ d.held = x.held
      /\ d.step = x.step
  <2> HIDE DEF x, i
  <2> QED BY <1>1 DEF Doc
<1> HIDE DEF x, i, d
<1>8. y \in Exec /\ y.doc = d /\ y.at = "post" /\ y.by = exec[c].by BY <1>1, <1>7, GoesFields DEF Stands
<1> HIDE DEF y
<1>9. ASSUME Passes(c)
      PROVE  /\ Accounted(y.doc, assignment, late) /\ Settled(y.doc)
             /\ Standing(y, y.doc, assignment, late)
  <2>1. assignment \in [Ids -> Assignment] BY <1>1 DEF Formed, TypeOK
  <2>2. \A j \in Ids : Opens(d, j) <=> j = i BY <1>7 DEF Opens
  <2>3. Accounted(d, assignment, late) BY <1>1, <1>4, <1>5, <1>6, <1>7, <1>9, <2>1, <2>2, AccountedAssign
  <2>4. Settled(d) BY <1>4, <1>7, <1>9 DEF Settled
  <2>5. Standing(y, d, assignment, late) BY <1>4, <1>7, <1>8, <1>9 DEF Standing, Handing
  <2> QED BY <1>8, <2>3, <2>4, <2>5
<1> QED BY <1>1, <1>2, <1>3, <1>8, <1>9, CommitKeeps

LEMMA PostKeeps ==
  ASSUME HandInv, NEW c \in Claims, Post(c)
  PROVE  Kept'
<1> DEFINE x == exec[c].doc
           i == x.id
           A == assignment
           B == assignment'
<1>1. /\ Formed /\ ~At(c, "off") /\ ~At(c, "begin") /\ ~At(c, "follow") /\ At(c, "post")
      /\ exec[c].at \in Handing /\ x \in Doc /\ A \in [Ids -> Assignment]
      /\ exec[c].from \in Refs \cup {NoRef} /\ doc \in Doc
  BY Facts DEF Post, At, Handing, HandInv
<1>2. x.open /\ i \in Ids /\ i <= ids BY <1>1, Facts DEF Placed, Named
<1>3. UNCHANGED <<doc, job>> BY DEF Post
<1>4. PICK s \in {"accepted", "rejected", "broken", "exists", "full"}, b \in BOOLEAN :
        /\ exec' = [exec EXCEPT ![c].at = s]
        /\ \/ Takes(c, b) /\ (s = "rejected" => b) /\ s \in {"accepted", "rejected", "broken"}
           \/ UNCHANGED <<assignment, late>> /\ (s = "full" => ~Known(i)) /\ s \in {"exists", "full", "broken"}
  <2>1. Answer(i) = "full" => ~Known(i) BY DEF Answer
  <2> QED BY <2>1 DEF Post
<1>5. PICK y \in Exec : exec' = [exec EXCEPT ![c] = y] /\ y.doc = x /\ y.at = s /\ y.by = exec[c].by
  <2>1. s \in Stands BY DEF Stands
  <2>2. exec' = [exec EXCEPT ![c].at = s] BY <1>4
  <2>3. \E y \in Exec : /\ exec' = [exec EXCEPT ![c] = y] /\ y.doc = exec[c].doc
                        /\ y.at = s /\ y.by = exec[c].by
    BY <1>1, <2>1, <2>2, MovedTo
  <2> QED BY <2>3
<1>6. Passes(c) => /\ x = doc /\ Accounted(doc, A, late) /\ doc.held = NoHold /\ doc.seq = 0
                   /\ doc.step = "admitted"
  BY <1>1, Own DEF Standing
<1>7. Opens(x, i) /\ \A j \in Ids : Opens(x, j) => j = i BY <1>2 DEF Opens
<1>8. CASE Takes(c, b) /\ (s = "rejected" => b) /\ s \in {"accepted", "rejected", "broken"}
  <2> DEFINE a == Accepted(i, exec[c].from, b)
  <2>1. ~Known(i) /\ A[i].life < MaxLives BY <1>8 DEF Takes, Answer
  <2>2. Taken(a, i, exec[c].from, b) BY <1>1, <1>2, <2>1, AcceptedOrderly
  <2>3. a \in Assignment /\ a.life = A[i].life + 1 /\ Reported(a) = {} /\ (b => a.status = "finished")
    BY <2>2 DEF Taken
  <2>4. B = [A EXCEPT ![i] = a] /\ late' = IF Passes(c) THEN late ELSE late \cup {<<i, a.life>>}
    BY <1>8, <2>3 DEF Takes
  <2>5. ~Holding(A[i]) BY <2>1 DEF Known, Holding
  <2> HIDE DEF a, x, i
  <2>6. B \in [Ids -> Assignment] /\ B[i] = a BY <1>1, <1>2, <2>3, <2>4
  <2>7. CASE Passes(c)
    <3>1. late' = late BY <2>4, <2>7
    <3>2. Opens(doc, i) /\ doc.seq = 0 /\ Accounted(doc, A, late) BY <1>6, <1>7, <2>7
    <3>3. late' = late \cup {<<i, a.life>>} \/ (late' = late /\ Opens(doc, i) /\ doc.seq = 0) BY <3>1, <3>2
    <3>4. Accounted(doc, B, late') BY <1>1, <1>2, <2>3, <2>4, <3>2, <3>3, AccountedTaken
    <3>5. s = "rejected" => Refused(x, B, late') BY <1>7, <1>8, <2>3, <2>6 DEF Refused
    <3>6. Standing(y, doc, B, late')
      BY <1>5, <1>6, <1>8, <2>7, <3>5 DEF Standing, Handing
    <3>7. Standings' BY <1>1, <1>3, <1>5, <2>6, <2>7, <3>6, StandingsStep
    <3> QED BY <1>3, <3>4, <3>7 DEF Kept, HandInv
  <2>8. CASE ~Passes(c)
    <3>1. Begun(A, late, B, late') BY <1>2, <2>3, <2>4, <2>5, <2>8 DEF Begun
    <3>2. Meanwhile(A, late, B, late') BY <3>1 DEF Meanwhile
    <3>3. Accounted(doc, B, late') BY <1>1, <2>6, <3>2, AccountedMeanwhile DEF HandInv
    <3>4. Standings' BY <1>1, <1>3, <1>5, <2>6, <2>8, <3>2, StandingsStep
    <3> QED BY <1>3, <3>3, <3>4 DEF Kept, HandInv
  <2> QED BY <2>7, <2>8
<1>9. CASE UNCHANGED <<assignment, late>> /\ (s = "full" => ~Known(i)) /\ s \in {"exists", "full", "broken"}
  <2>1. B \in [Ids -> Assignment] /\ Continued(A, B) BY <1>1, <1>9, StopContinues
  <2>2. Meanwhile(A, late, B, late') BY <1>9, <2>1 DEF Meanwhile
  <2>3. s = "full" => NotTaken(x, B, late')
    BY <1>7, <1>9 DEF NotTaken, Quiet, Known, Holding
  <2> HIDE DEF x, i
  <2>4. Passes(c) => Standing(y, doc, B, late')
    BY <1>5, <1>6, <1>9, <2>3 DEF Standing, Handing
  <2>5. Standings' BY <1>1, <1>3, <1>5, <2>1, <2>2, <2>4, StandingsStep
  <2> QED BY <1>3, <1>9, <2>5 DEF Kept, HandInv
<1> QED BY <1>4, <1>8, <1>9

LEMMA FullKeeps ==
  ASSUME HandInv, NEW c \in Claims, At(c, "full"), Full(c), UNCHANGED <<job, late>>
  PROVE  Kept'
<1> DEFINE x == exec[c].doc
           closed == [x EXCEPT !.open = FALSE]
           d == [closed EXCEPT !.step = "stopped", !.ckpt = exec[c].from]
           e == [closed EXCEPT !.step = "failed"]
<1>1. Formed /\ x \in Doc /\ exec[c].from \in Refs \cup {NoRef} /\ ~At(c, "off") /\ ~At(c, "begin")
  BY Facts DEF HandInv, At
<1>2. \A f \in {d, e} : f \in Doc /\ f.open = FALSE /\ f.used = x.used /\ f.held = x.held
                        /\ f.step \in {"stopped", "failed"}
  <2> HIDE DEF x
  <2>1. closed \in Doc /\ closed.open = FALSE /\ closed.used = x.used /\ closed.held = x.held
    BY <1>1 DEF Doc
  <2> HIDE DEF closed
  <2>2. d \in Doc /\ d.open = closed.open /\ d.used = closed.used /\ d.held = closed.held /\ d.step = "stopped"
    BY <1>1, <2>1 DEF Doc, StepStates
  <2>3. e \in Doc /\ e.open = closed.open /\ e.used = closed.used /\ e.held = closed.held /\ e.step = "failed"
    BY <1>1, <2>1 DEF Doc, StepStates
  <2> HIDE DEF d, e
  <2> QED BY <2>1, <2>2, <2>3
<1>3. PICK f \in {d, e} : Commit(c, [Goes(c, f, "after") EXCEPT !.why = "capacity"])
  BY DEF Full
<1>4. UNCHANGED assignment BY DEF Full
<1>5. Passes(c) => Accounted(x, assignment, late) /\ x.held = NoHold /\ NotTaken(x, assignment, late)
  BY <1>1, Own DEF Standing, At
<1> DEFINE y == Goes(c, f, "after")
           next == [y EXCEPT !.why = "capacity"]
<1>6. f \in Doc /\ f.open = FALSE /\ f.used = x.used /\ f.held = x.held /\ f.step \in {"stopped", "failed"}
  BY <1>2
<1> HIDE DEF x, d, e
<1>7. y \in Exec /\ y.doc = f /\ y.at = "after" /\ y.by = exec[c].by BY <1>1, <1>6, GoesFields DEF Stands
<1>8. Commit(c, next) BY <1>3
<1> HIDE DEF y
<1>9. next \in Exec /\ next.doc = f /\ next.at = "after" /\ next.by = exec[c].by
  <2>1. "capacity" \in {"none", "capacity", "limit"} /\ TRUE \in BOOLEAN /\ NoRef \in Refs \cup {NoRef}
    OBVIOUS
  <2> QED BY <1>7, <2>1, NotesKeep
<1> HIDE DEF next
<1>10. ASSUME Passes(c)
       PROVE  /\ Accounted(next.doc, assignment, late) /\ Settled(next.doc)
              /\ Standing(next, next.doc, assignment, late)
  <2>1. assignment \in [Ids -> Assignment] /\ \A j \in Ids : Orderly(assignment[j], j, ids)
    BY <1>1 DEF Formed, TypeOK
  <2>2. \A i \in Ids : Opens(x, i) =>
          \/ Quiet(assignment, late, i)
          \/ assignment[i].status = "finished" /\ \A m \in Reported(assignment[i]) : m <= x.seq
    BY <1>5, <1>10 DEF NotTaken
  <2>3. Accounted(f, assignment, late) BY <1>1, <1>5, <1>6, <1>10, <2>1, <2>2, AccountedClosed
  <2>4. Settled(f) BY <1>6 DEF Settled
  <2>5. Standing(next, next.doc, assignment, late) BY <1>5, <1>6, <1>9, <1>10, PlainStanding
  <2> QED BY <1>9, <2>3, <2>4, <2>5
<1> QED BY <1>1, <1>4, <1>8, <1>9, <1>10, CommitKeeps

LEMMA AnsweredKeeps ==
  ASSUME HandInv, NEW c \in Claims, Answered(c)
  PROVE  Kept'
<1>1. ~At(c, "off") /\ ~At(c, "begin") /\ exec[c].at \in Handing BY DEF Answered, At, Handing
<1>2. exec[c].doc.open BY <1>1, Facts DEF Placed, HandInv
<1>3. UNCHANGED <<job, late>> BY DEF Answered, counters
<1>4. CASE At(c, "accepted") /\ HandedOver(c, FALSE) BY <1>1, <1>3, <1>4, HandedOverKeeps
<1>5. CASE At(c, "rejected") /\ RejectedByWorker(c)
  <2>1. Passes(c) => Refused(exec[c].doc, assignment, late) BY <1>1, <1>5, Own DEF Standing, At
  <2> QED BY <1>1, <1>3, <1>5, <2>1, RejectedByWorkerKeeps
<1>6. CASE Adopted(c) BY <1>1, <1>2, <1>3, <1>6, AdoptedKeeps
<1>7. CASE Commit(c, Failed(c)) /\ UNCHANGED assignment BY <1>1, <1>3, <1>7, FailsKeeps
<1>8. CASE At(c, "full") /\ Full(c) BY <1>3, <1>8, FullKeeps
<1> QED BY <1>4, <1>5, <1>6, <1>7, <1>8 DEF Answered

LEMMA ReadEventKeeps ==
  ASSUME HandInv, NEW c \in Claims, ReadEvent(c)
  PROVE  Kept'
<1> DEFINE d == exec[c].doc
           e == assignment[d.id].events[d.seq + 1]
           w == With(d, e)
           f == Closed(w, e)
           s == AfterEnd(c, e)
           z == Goes(c, w, "follow")
           y == Goes(c, f, s)
           why == IF e.outcome = "limit" THEN "limit" ELSE y.why
           next == [y EXCEPT !.why = why]
<1>1. /\ Formed /\ ~At(c, "off") /\ ~At(c, "begin") /\ At(c, "follow")
      /\ d.seq < Len(assignment[d.id].events)
      /\ assignment \in [Ids -> Assignment] /\ \A j \in Ids : Orderly(assignment[j], j, ids)
  BY DEF ReadEvent, At, HandInv, Formed, TypeOK
<1>2. UNCHANGED <<assignment, job, late>> BY DEF ReadEvent, workerVars, counters
<1>3. /\ d.open /\ d.id \in Ids /\ d \in Doc /\ e \in Event /\ (e.kind = "report" => e.unit \in 1 .. Closing)
      /\ d.seq \in Nat /\ d.seq + 1 \in 1 .. Len(assignment[d.id].events)
  BY <1>1, NextEvent
<1>4. /\ w \in Doc /\ w.open = d.open /\ w.id = d.id /\ w.step = d.step /\ w.seq = d.seq + 1
      /\ w.held = d.held /\ w.handed = d.handed /\ w.run = d.run /\ w.again = d.again
      /\ w.used = IF e.kind = "report" THEN Append(d.used, <<e.by, e.unit>>) ELSE d.used
      /\ w.ckpt = IF e.kind = "boundary" THEN e.ref ELSE d.ckpt
  <2> HIDE DEF d, e
  <2> QED BY <1>3, WithTyped
<1>5. Passes(c) => /\ Accounted(d, assignment, late) /\ d.held = NoHold /\ d.step = "running" /\ Agrees(d, doc)
  BY <1>1, Own DEF Standing, At
<1> DEFINE i == d.id
<1>6. Opens(d, i) /\ Opens(w, i) /\ (\A j \in Ids : Opens(w, j) <=> Opens(d, j)) /\ i \in Ids
      /\ (\A j \in Ids : Opens(w, j) => j = i)
  BY <1>3, <1>4 DEF Opens
<1>7. e = assignment[i].events[d.seq + 1] /\ d.seq < Len(assignment[i].events) BY <1>1
<1>8. e.kind = "finished" => d.seq + 1 = Len(assignment[i].events) /\ assignment[i].status = "finished"
  BY <1>1, <1>3, <1>7 DEF Orderly
<1>9. \/ e.kind \in {"artifact", "report"} /\ exec' = [exec EXCEPT ![c] = z] /\ UNCHANGED doc
      \/ e.kind = "boundary" /\ Commit(c, z)
      \/ e.kind = "finished" /\ Commit(c, next)
  <2>1. e.kind \in {"artifact", "report", "boundary", "finished"} BY <1>3 DEF Event
  <2> QED BY <2>1 DEF ReadEvent
<1> HIDE DEF w, e, i, d
<1>10. Passes(c) => Accounted(w, assignment, late)
  BY <1>1, <1>3, <1>4, <1>5, <1>6, <1>7, AccountedRead
<1>11. z \in Exec /\ z.doc = w /\ z.at = "follow" /\ z.by = exec[c].by BY <1>1, <1>4, GoesFields DEF Stands
<1> HIDE DEF z
<1>12. CASE e.kind \in {"artifact", "report"} /\ exec' = [exec EXCEPT ![c] = z] /\ UNCHANGED doc
  <2>1. assignment' \in [Ids -> Assignment] /\ Continued(assignment, assignment')
    BY <1>1, <1>2, StopContinues
  <2>2. Meanwhile(assignment, late, assignment', late') BY <1>2, <2>1 DEF Meanwhile
  <2>3. ASSUME Passes(c) PROVE Standing(z, doc', assignment', late')
    <3>1. Agrees(w, doc) BY <1>4, <1>5, <1>12, <2>3 DEF Agrees
    <3>2. doc.held = NoHold BY <1>5, <2>3 DEF Agrees
    <3>3. w.step = "running" /\ Accounted(w, assignment, late) BY <1>4, <1>5, <1>10, <2>3
    <3> QED BY <1>2, <1>11, <1>12, <3>1, <3>2, <3>3 DEF Standing, Handing
  <2>4. Standings' BY <1>1, <1>2, <1>11, <1>12, <2>1, <2>2, <2>3, StandingsStep
  <2> QED BY <1>2, <1>12, <2>4 DEF Kept, HandInv
<1>13. CASE e.kind = "boundary" /\ Commit(c, z)
  <2>1. ASSUME Passes(c)
        PROVE  /\ Accounted(z.doc, assignment, late) /\ Settled(z.doc)
               /\ Standing(z, z.doc, assignment, late)
    BY <1>4, <1>5, <1>10, <1>11, <2>1, FollowStanding
  <2> QED BY <1>1, <1>2, <1>11, <1>13, <2>1, CommitKeeps
<1>14. CASE e.kind = "finished" /\ Commit(c, next)
  <2>1. f \in Doc /\ f.open = FALSE /\ f.used = w.used /\ f.held = w.held BY <1>3, <1>4, ClosedTyped
  <2> HIDE DEF f
  <2>2. s \in {"loop", "after"} BY DEF AfterEnd
  <2> HIDE DEF s
  <2>3. y \in Exec /\ y.doc = f /\ y.at = s /\ y.by = exec[c].by BY <1>1, <2>1, <2>2, GoesFields DEF Stands
  <2> HIDE DEF y
  <2>4. why \in {"none", "capacity", "limit"} BY <2>3 DEF Exec
  <2> HIDE DEF why
  <2>5. next \in Exec /\ next.doc = f /\ next.at = s /\ next.by = exec[c].by
    <3>1. TRUE \in BOOLEAN /\ NoRef \in Refs \cup {NoRef} OBVIOUS
    <3> QED BY <2>3, <2>4, <3>1, NotesKeep
  <2> HIDE DEF next
  <2>6. ASSUME Passes(c)
        PROVE  /\ Accounted(next.doc, assignment, late) /\ Settled(next.doc)
               /\ Standing(next, next.doc, assignment, late)
    <3>1. \A m \in Reported(assignment[i]) : m <= w.seq
      <4>1. Len(assignment[i].events) \in Nat BY <1>1, <1>6 DEF Assignment
      <4> QED BY <1>4, <1>8, <1>14, <4>1 DEF Reported
    <3>2. \A j \in Ids : Opens(w, j) =>
            \/ Quiet(assignment, late, j)
            \/ assignment[j].status = "finished" /\ \A m \in Reported(assignment[j]) : m <= w.seq
      BY <1>6, <1>8, <1>14, <3>1
    <3>3. Accounted(f, assignment, late) BY <1>1, <1>4, <1>10, <2>1, <2>6, <3>2, AccountedClosed
    <3>4. Settled(f) BY <2>1 DEF Settled
    <3>5. Standing(next, next.doc, assignment, late)
      BY <1>4, <1>5, <2>1, <2>2, <2>5, <2>6, PlainStanding
    <3> QED BY <2>5, <3>3, <3>4, <3>5
  <2>7. next.at # "off" /\ next.by = exec[c].by BY <2>2, <2>5
  <2> QED BY <1>1, <1>2, <1>14, <2>5, <2>6, <2>7, CommitKeeps
<1> QED BY <1>9, <1>12, <1>13, <1>14

LEMMA StreamEndsKeeps ==
  ASSUME HandInv, NEW c \in Claims, StreamEnds(c)
  PROVE  Kept'
<1>1. ~At(c, "off") /\ ~At(c, "begin") BY DEF StreamEnds, At
<1>2. UNCHANGED <<job, late>> /\ Commit(c, Failed(c)) /\ assignment' = Stopped(exec[c].doc.id)
  BY DEF StreamEnds
<1> QED BY <1>1, <1>2, FailsKeeps

LEMMA EndKeeps ==
  ASSUME HandInv, NEW c \in Claims, End(c)
  PROVE  Kept'
<1> DEFINE x == exec[c].doc
           run == RunAfter(c)
           d == [x EXCEPT !.run = run]
           y == Goes(c, d, "ended")
<1>1. /\ Formed /\ ~At(c, "off") /\ ~At(c, "begin") /\ ~At(c, "follow")
      /\ Placed(c, exec[c], job.claim, ids) /\ x \in Doc
  BY Facts DEF End, EndsStep, At, HandInv
<1>2. UNCHANGED <<assignment, job, late>> BY DEF End, workerVars, counters
<1>3. x.step \in EndedSteps BY <1>1 DEF End, EndsStep, At, Placed, EndedSteps
<1>4. run \in RunStates BY <1>3 DEF RunAfter, EndedSteps, RunStates
<1>5. Commit(c, y) BY DEF End
<1>6. Passes(c) => Accounted(x, assignment, late) /\ Settled(x) /\ x.held = NoHold BY <1>1, Own
<1> HIDE DEF x, run
<1>7. /\ d \in Doc /\ d.open = x.open /\ d.id = x.id /\ d.used = x.used /\ d.seq = x.seq /\ d.held = x.held
      /\ d.step = x.step /\ d.handed = x.handed
  BY <1>1, <1>4 DEF Doc
<1> HIDE DEF d
<1>8. y \in Exec /\ y.doc = d /\ y.at = "ended" /\ y.by = exec[c].by BY <1>1, <1>7, GoesFields DEF Stands
<1> HIDE DEF y
<1>9. ASSUME Passes(c)
      PROVE  /\ Accounted(y.doc, assignment, late) /\ Settled(y.doc)
             /\ Standing(y, y.doc, assignment, late)
  <2>1. Accounted(d, assignment, late) BY <1>6, <1>7, <1>9, Written
  <2>2. Settled(d) BY <1>6, <1>7, <1>9 DEF Settled
  <2>3. Standing(y, y.doc, assignment, late) BY <1>6, <1>7, <1>8, <1>9, PlainStanding
  <2> QED BY <1>8, <2>1, <2>2, <2>3
<1> QED BY <1>1, <1>2, <1>5, <1>8, <1>9, CommitKeeps

\* The row names no runner: no execution passes the fence.
LEMMA NobodyPasses ==
  ASSUME Formed', job'.by \notin Runners
  PROVE  Standings'
<1> SUFFICES ASSUME NEW k \in Claims, Passes(k)' PROVE FALSE
  BY DEF Standings
<1>1. exec'[k].at # "off" /\ job'.by = exec'[k].by BY DEF Passes, Names, At
<1>2. exec'[k].by \in Runners BY <1>1 DEF Formed, Placed
<1> QED BY <1>1, <1>2

\* Whoever holds the run holds it still, and stands where it stood.
LEMMA SameStandings ==
  ASSUME HandInv, assignment' \in [Ids -> Assignment], UNCHANGED doc,
         job'.queued = job.queued, job'.claim = job.claim, job'.by = job.by,
         \A k \in Claims : exec'[k] = exec[k] \/ exec'[k].at = "off",
         Meanwhile(assignment, late, assignment', late')
  PROVE  Kept'
<1>1. /\ exec \in [Claims -> Exec] /\ assignment \in [Ids -> Assignment] /\ doc \in Doc
      /\ Accounted(doc, assignment, late) /\ Settled(doc) /\ Standings
  BY DEF HandInv, Formed, TypeOK
<1>2. Accounted(doc', assignment', late') BY <1>1, AccountedMeanwhile
<1>3. ASSUME NEW k \in Claims, Passes(k)', ~At(k, "begin")'
      PROVE  Standing(exec'[k], doc', assignment', late')
  <2>1. exec'[k].at # "off" BY <1>3 DEF Passes, Names, At
  <2>2. exec'[k] = exec[k] BY <2>1
  <2>3. Passes(k) /\ ~At(k, "begin") BY <1>3, <2>2 DEF Passes, Names, At
  <2>4. Standing(exec[k], doc, assignment, late) /\ exec[k] \in Exec BY <1>1, <2>3 DEF Standings
  <2> QED BY <1>1, <2>2, <2>4, StandingMeanwhile
<1>4. Standings' BY <1>3 DEF Standings
<1> QED BY <1>1, <1>2, <1>4 DEF Kept, Settled

LEMMA SameWorker ==
  ASSUME Formed, UNCHANGED <<assignment, late>>
  PROVE  assignment' \in [Ids -> Assignment] /\ Meanwhile(assignment, late, assignment', late')
<1>1. assignment' \in [Ids -> Assignment] /\ Continued(assignment, assignment') BY StopContinues
<1> QED BY <1>1 DEF Meanwhile

LEMMA DisposeKeeps ==
  ASSUME HandInv, NEW c \in Claims, Dispose(c)
  PROVE  Kept'
<1>1. /\ UNCHANGED <<assignment, late, doc>>
      /\ exec' = [exec EXCEPT ![c] = NoExec] /\ exec \in [Claims -> Exec]
      /\ \/ job' = job
         \/ job' = [job EXCEPT !.by = NoOne, !.lapsed = FALSE]
         \/ job' = [job EXCEPT !.queued = FALSE, !.by = NoOne, !.ask = NoAsk]
  BY Facts DEF Dispose, workerVars, counters, HandInv
<1>2. CASE job' = job
  <2>1. \A k \in Claims : exec'[k] = exec[k] \/ exec'[k].at = "off" BY <1>1, NoExecTyped
  <2>2. assignment' \in [Ids -> Assignment] /\ Meanwhile(assignment, late, assignment', late')
    BY <1>1, SameWorker DEF HandInv
  <2> QED BY <1>1, <1>2, <2>1, <2>2, SameStandings
<1>3. CASE job' # job
  <2>1. job'.by = NoOne
    <3>1. job \in Job BY RowFacts DEF HandInv
    <3> QED BY <1>1, <1>3, <3>1 DEF Job
  <2>2. Formed' BY DisposeFormed DEF HandInv
  <2>3. Standings' BY <2>1, <2>2, NullsApart, NobodyPasses
  <2> QED BY <1>1, <2>3 DEF Kept, HandInv, Settled
<1> QED BY <1>2, <1>3

LEMMA TakenOverKeeps ==
  ASSUME HandInv, NEW c \in Claims, TakenOver(c)
  PROVE  Kept'
<1> DEFINE held == job.claim + 1
           x == exec[c].doc
           d == [x EXCEPT !.step = "waiting human", !.run = "waiting human", !.held = held]
<1>1. Formed /\ x \in Doc /\ ~At(c, "begin") /\ ~At(c, "follow") /\ At(c, "after") /\ x.step = "stopped"
      /\ exec \in [Claims -> Exec]
  BY Facts DEF TakenOver, At, HandInv, Servable
<1>2. /\ UNCHANGED <<assignment, late>> /\ exec' = [exec EXCEPT ![c] = NoExec]
      /\ \/ UNCHANGED <<doc, job>>
         \/ /\ Passes(c) /\ doc' = d
            /\ job' = [job EXCEPT !.claim = held, !.by = Person, !.lapsed = FALSE, !.held = TRUE,
                                  !.ask = NoAsk]
  BY DEF TakenOver, workerVars, counters
<1>3. CASE UNCHANGED <<doc, job>>
  <2>1. \A k \in Claims : exec'[k] = exec[k] \/ exec'[k].at = "off" BY <1>1, <1>2, NoExecTyped
  <2>2. assignment' \in [Ids -> Assignment] /\ Meanwhile(assignment, late, assignment', late')
    BY <1>1, <1>2, SameWorker
  <2> QED BY <1>3, <2>1, <2>2, SameStandings
<1>4. CASE /\ Passes(c) /\ doc' = d
           /\ job' = [job EXCEPT !.claim = held, !.by = Person, !.lapsed = FALSE, !.held = TRUE,
                                 !.ask = NoAsk]
  <2>1. Accounted(x, assignment, late) /\ ~x.open BY <1>1, <1>4, Own DEF Standing, At
  <2>2. job'.by = Person
    <3>1. job \in Job BY <1>1, RowFacts
    <3> QED BY <1>4, <3>1 DEF Job
  <2>3. Formed' BY <1>1, TakenOverFormed
  <2>4. Standings' BY <2>2, <2>3, NullsApart, NobodyPasses
  <2> HIDE DEF x, held
  <2>5. d.open = x.open /\ d.id = x.id /\ d.used = x.used /\ d.seq = x.seq /\ d.step = "waiting human"
    BY <1>1 DEF Doc
  <2> HIDE DEF d
  <2>6. Accounted(d, assignment, late) BY <2>1, <2>5, Written
  <2>7. Settled(d) BY <2>1, <2>5 DEF Settled
  <2> QED BY <1>2, <1>4, <2>4, <2>6, <2>7 DEF Kept
<1> QED BY <1>2, <1>3, <1>4

LEMMA RefuseTakeoverKeeps ==
  ASSUME HandInv, NEW c \in Claims, RefuseTakeover(c)
  PROVE  Kept'
<1>1. /\ UNCHANGED <<assignment, late, doc>>
      /\ exec' = exec \/ exec' = [exec EXCEPT ![c] = NoExec]
      /\ \E q : job' = job \/ job' = [job EXCEPT !.ask = q]
  BY DEF RefuseTakeover, workerVars, counters
<1>2. job'.queued = job.queued /\ job'.claim = job.claim /\ job'.by = job.by
  <2>1. job \in Job BY RowFacts DEF HandInv
  <2> QED BY <1>1, <2>1 DEF Job
<1>3. \A k \in Claims : exec'[k] = exec[k] \/ exec'[k].at = "off"
  <2>1. exec \in [Claims -> Exec] BY DEF HandInv, Formed, TypeOK
  <2> QED BY <1>1, <2>1, NoExecTyped
<1>4. assignment' \in [Ids -> Assignment] /\ Meanwhile(assignment, late, assignment', late')
  BY <1>1, SameWorker DEF HandInv
<1> QED BY <1>1, <1>2, <1>3, <1>4, SameStandings

LEMMA ClaimKeeps ==
  ASSUME HandInv, NEW r \in Runners, Claim(r)
  PROVE  Kept'
<1> DEFINE c == job.claim + 1
           x == [NoExec EXCEPT !.by = r, !.at = "begin"]
<1>1. /\ UNCHANGED <<assignment, late, doc>>
      /\ job' = [job EXCEPT !.claim = c, !.by = r, !.lapsed = FALSE, !.held = FALSE]
      /\ exec' = [exec EXCEPT ![c] = x]
  BY DEF Claim, workerVars, counters
<1>2. job'.claim = c
  <2>1. job \in Job BY RowFacts DEF HandInv
  <2> QED BY <1>1, <2>1 DEF Job
<1>3. x.at = "begin" BY DEF NoExec
<1> HIDE DEF x
<1>4. exec \in [Claims -> Exec] BY DEF HandInv, Formed, TypeOK
<1>5. ASSUME NEW k \in Claims, Passes(k)' PROVE At(k, "begin")'
  <2>1. k = c BY <1>2, <1>5 DEF Passes
  <2>2. exec'[k] = x BY <1>1, <1>4, <2>1
  <2> QED BY <1>3, <2>2 DEF At
<1>6. Standings' BY <1>5 DEF Standings
<1> QED BY <1>1, <1>6 DEF Kept, HandInv, Settled

LEMMA CrashKeeps ==
  ASSUME HandInv, NEW r \in Runners, Crash(r)
  PROVE  Kept'
<1>1. /\ UNCHANGED <<assignment, late, doc>>
      /\ exec' = [c \in Claims |-> IF exec[c].by = r THEN NoExec ELSE exec[c]]
      /\ job' = job \/ job' = [job EXCEPT !.lapsed = TRUE]
  BY DEF Crash, workerVars
<1>2. job'.queued = job.queued /\ job'.claim = job.claim /\ job'.by = job.by
  <2>1. job \in Job BY RowFacts DEF HandInv
  <2> QED BY <1>1, <2>1 DEF Job
<1>3. \A k \in Claims : exec'[k] = exec[k] \/ exec'[k].at = "off" BY <1>1, NoExecTyped
<1>4. assignment' \in [Ids -> Assignment] /\ Meanwhile(assignment, late, assignment', late')
  BY <1>1, SameWorker DEF HandInv
<1> QED BY <1>1, <1>2, <1>3, <1>4, SameStandings

LEMMA HearKeeps ==
  ASSUME HandInv, NEW c \in Claims, Hear(c)
  PROVE  Kept'
<1>1. /\ UNCHANGED <<doc, job, exec, late>>
      /\ \E i : assignment' = assignment \/ assignment' = Stopped(i)
  BY DEF Hear, counters
<1>2. PICK i : assignment' = assignment \/ assignment' = Stopped(i) BY <1>1
<1>3. assignment' \in [Ids -> Assignment] /\ Continued(assignment, assignment')
  BY <1>2, StopContinues DEF HandInv
<1>4. Meanwhile(assignment, late, assignment', late') BY <1>1, <1>3 DEF Meanwhile
<1> QED BY <1>1, <1>3, <1>4, SameStandings

LEMMA RowChangesKeep ==
  ASSUME HandInv, AskTakeover \/ HoldEnds \/ LeaseLapses \/ HandBack
  PROVE  Kept'
<1>1. UNCHANGED <<assignment, late, exec>>
  BY DEF AskTakeover, HoldEnds, LeaseLapses, HandBack, workerVars, counters
<1>2. job \in Job BY RowFacts DEF HandInv
<1>3. CASE AskTakeover \/ HoldEnds \/ LeaseLapses
  <2>1. UNCHANGED doc /\ \E q, b : job' = [job EXCEPT !.ask = q] \/ job' = [job EXCEPT !.lapsed = b]
    BY <1>3 DEF AskTakeover, HoldEnds, LeaseLapses
  <2>2. job'.queued = job.queued /\ job'.claim = job.claim /\ job'.by = job.by
    BY <1>2, <2>1 DEF Job
  <2>3. assignment' \in [Ids -> Assignment] /\ Meanwhile(assignment, late, assignment', late')
    BY <1>1, SameWorker DEF HandInv
  <2> QED BY <1>1, <2>1, <2>2, <2>3, SameStandings
<1>4. CASE HandBack
  <2> DEFINE d == [doc EXCEPT !.step = "succeeded", !.held = NoHold, !.handed = doc.held]
  <2>1. doc' = d /\ job'.by = NoOne /\ doc.held # NoHold
    BY <1>2, <1>4 DEF HandBack, Job
  <2>2. Formed' BY <1>4, RowChangesFormed DEF HandInv
  <2>3. Standings' BY <2>1, <2>2, NullsApart, NobodyPasses
  <2>4. doc \in Doc /\ Accounted(doc, assignment, late) /\ Settled(doc)
    BY DEF HandInv, Formed, TypeOK
  <2>5. d.open = doc.open /\ d.id = doc.id /\ d.used = doc.used /\ d.seq = doc.seq /\ d.held = NoHold
        /\ d.handed = doc.held
    BY <2>4 DEF Doc
  <2> HIDE DEF d
  <2>6. Accounted(d, assignment, late) BY <2>4, <2>5, Written
  <2>7. Settled(d) BY <2>1, <2>4, <2>5 DEF Settled
  <2> QED BY <1>1, <2>1, <2>3, <2>6, <2>7 DEF Kept
<1> QED BY <1>3, <1>4

LEMMA WorkerKeeps ==
  ASSUME HandInv, WorkerTrouble \/ \E i \in Ids : Worker(i)
  PROVE  Kept'
<1>1. UNCHANGED <<doc, job, exec, late>> BY DEF WorkerTrouble, Worker, counters
<1>2. Formed' BY WorkerFormed DEF HandInv
<1>3. assignment' \in [Ids -> Assignment] BY <1>2 DEF Formed, TypeOK
<1>4. Meanwhile(assignment, late, assignment', late')
  <2>1. CASE WorkerTrouble
    <3>1. assignment' = [i \in Ids |-> Unknown(assignment[i].life)]
      BY <2>1 DEF WorkerTrouble, WorkerRestarts
    <3> QED BY <1>1, <3>1 DEF Meanwhile
  <2>2. CASE \E i \in Ids : Worker(i)
    <3>1. Continued(assignment, assignment') BY <2>2, AgentContinues DEF HandInv
    <3> QED BY <1>1, <3>1 DEF Meanwhile
  <2> QED BY <2>1, <2>2
<1> QED BY <1>1, <1>3, <1>4, SameStandings

-----------------------------------------------------------------------------
(* The theorems on the counts and on what works.                           *)

LEMMA InitHandInv == Init => HandInv
<1> SUFFICES ASSUME Init PROVE HandInv
  OBVIOUS
<1>1. Formed BY InitFormed
<1>2. /\ assignment = [i \in Ids |-> Unknown(0)] /\ doc = NewDoc /\ late = {}
      /\ exec = [c \in Claims |-> NoExec]
  BY DEF Init, WorkerInit
<1>3. doc.used = <<>> /\ doc.open = FALSE /\ doc.held = NoHold /\ doc.step = "planned" BY <1>2 DEF NewDoc
<1>4. \A i \in Ids : ~Working(assignment[i]) /\ Reported(assignment[i]) = {}
  BY <1>2, ForgottenSays
<1>5. Counted(doc) = {} /\ Once(doc.used) /\ \A i \in Ids : ~Opens(doc, i)
  <2>1. 1 .. Len(doc.used) = {} BY <1>3
  <2> QED BY <1>3, <2>1 DEF Counted, Once, Opens
<1>6. Accounted(doc, assignment, late) BY <1>4, <1>5 DEF Accounted
<1>7. Settled(doc) BY <1>3 DEF Settled
<1>8. Standings BY <1>2, NoExecTyped DEF Standings, Passes, Names, At
<1> QED BY <1>1, <1>6, <1>7, <1>8 DEF HandInv

LEMMA StepKeepsHandInv == HandInv /\ [Next]_vars => HandInv'
<1> SUFFICES ASSUME HandInv, [Next]_vars PROVE HandInv'
  OBVIOUS
<1>1. Formed' BY StepKeepsFormed DEF HandInv
<1>2. CASE UNCHANGED vars
  <2>1. UNCHANGED <<assignment, late, doc, exec, job>> BY <1>2 DEF vars, workerVars
  <2>2. assignment' \in [Ids -> Assignment] /\ Meanwhile(assignment, late, assignment', late')
    BY <2>1, SameWorker DEF HandInv
  <2>3. Kept' BY <2>1, <2>2, SameStandings
  <2> QED BY <1>1, <2>3 DEF Kept, HandInv
<1>3. ASSUME NEW r \in Runners, Claim(r) \/ Crash(r) PROVE Kept'
  BY <1>3, ClaimKeeps, CrashKeeps
<1>4. ASSUME NEW c \in Claims, Executes(c) PROVE Kept'
  BY <1>4, BeginKeeps, BeginStepKeeps, AdmitKeeps, AssignKeeps, PostKeeps, AnsweredKeeps,
     ReadEventKeeps, StreamEndsKeeps, EndKeeps, DisposeKeeps, TakenOverKeeps,
     RefuseTakeoverKeeps DEF Executes
<1>5. ASSUME NEW c \in Claims, Hear(c) PROVE Kept'
  BY <1>5, HearKeeps
<1>6. ASSUME AskTakeover \/ HoldEnds \/ HandBack \/ LeaseLapses PROVE Kept'
  BY <1>6, RowChangesKeep
<1>7. ASSUME WorkerTrouble \/ \E i \in Ids : Worker(i) PROVE Kept'
  BY <1>7, WorkerKeeps
<1>8. CASE Next
  <2>1. Kept' BY <1>3, <1>4, <1>5, <1>6, <1>7, <1>8 DEF Next
  <2> QED BY <1>1, <2>1 DEF Kept, HandInv
<1> QED BY <1>2, <1>8

LEMMA HandInvHolds == Spec => []HandInv
<1> QED BY InitHandInv, StepKeepsHandInv, PTL DEF Spec

\* A record whose entries all differ has as many as they are.
LEMMA OnceCounted ==
  ASSUME NEW S, NEW s \in Seq(S), Once(s)
  PROVE  Len(s) = Cardinality({s[n] : n \in 1 .. Len(s)})
<1> DEFINE T == {s[n] : n \in 1 .. Len(s)}
           f == [n \in 1 .. Len(s) |-> s[n]]
<1>1. Len(s) \in Nat OBVIOUS
<1>2. f \in [1 .. Len(s) -> T] OBVIOUS
<1>3. \A m, n \in 1 .. Len(s) : f[m] = f[n] => m = n BY DEF Once
<1>4. \A t \in T : \E n \in 1 .. Len(s) : f[n] = t OBVIOUS
<1>5. f \in Bijection(1 .. Len(s), T)
  BY <1>2, <1>3, <1>4 DEF Bijection, Injection, Surjection, IsInjective
<1>6. ExistsBijection(1 .. Len(s), T) BY <1>5 DEF ExistsBijection
<1> HIDE DEF T
<1>7. Cardinality(T) = Len(s) BY <1>1, <1>6, FS_CountingElements
<1> QED BY <1>7 DEF T

\* Nothing an assignment reports is counted twice, however often it is adopted, read from an
\* earlier event or posted again (StepRun.seq, ADR-0038).
THEOREM CountsOnce == Spec => []CountedOnce
<1>1. HandInv => CountedOnce
  <2> SUFFICES ASSUME HandInv PROVE CountedOnce
    OBVIOUS
  <2>1. doc.used \in Seq(Lives \X (1 .. Closing)) /\ Once(doc.used)
    BY DEF HandInv, Formed, TypeOK, Doc, Accounted
  <2> QED BY <2>1, OnceCounted DEF CountedOnce, Counted
<1> QED BY <1>1, HandInvHolds, PTL

\* When the worker's step has succeeded, what every assignment the worker knows has reported is
\* counted, but for those a runner that had lost the run set to work.
THEOREM CountsAll == Spec => []NothingUncounted
<1>1. HandInv => NothingUncounted
  <2> SUFFICES ASSUME HandInv, doc.step = "succeeded", doc.handed = NoHold, NEW i \in Ids, ~IsLate(i)
               PROVE  Reports(i) \subseteq Counted(doc)
    BY DEF NothingUncounted
  <2>1. Accounted(doc, assignment, late) /\ Settled(doc) /\ Orderly(assignment[i], i, ids)
    BY DEF HandInv, Formed
  <2>2. ~Opens(doc, i) BY <2>1 DEF Settled, Opens
  <2>3. LifeIn(assignment, i) \notin late BY DEF IsLate, Life, LifeIn
  <2>4. \A m \in Reported(assignment[i]) :
          <<LifeIn(assignment, i), assignment[i].events[m].unit>> \in Counted(doc)
    BY <2>1, <2>2, <2>3 DEF Accounted
  <2>5. \A m \in Reported(assignment[i]) : assignment[i].events[m].by = LifeIn(assignment, i)
    BY <2>1 DEF Orderly, Reported, LifeIn
  <2> QED BY <2>4, <2>5 DEF Reports, Reported
<1> QED BY <1>1, HandInvHolds, PTL

\* What is at work for the step is the assignment its record names as open: none is forgotten
\* while it works, and no runner that holds the run sets a second to work (ADR-0038).
THEOREM NamesWork == Spec => []WorkIsNamed
<1>1. HandInv => WorkIsNamed
  BY DEF HandInv, Accounted, WorkIsNamed, AtWork, Working, IsLate, Life, LifeIn, Opens
<1> QED BY <1>1, HandInvHolds, PTL

\* While a person holds the step, no agent works on it, but one a runner that had lost the run
\* set to work (ADR-0128).
THEOREM WorksAlone == Spec => []PersonWorksAlone
<1>1. HandInv => PersonWorksAlone
  BY DEF HandInv, Accounted, Settled, PersonWorksAlone, AtWork, Working, IsLate, Life, LifeIn, Opens
<1> QED BY <1>1, HandInvHolds, PTL

-----------------------------------------------------------------------------
(* What an assignment leaves behind.                                       *)

Artifacts(a) == {m \in 1 .. Len(a.events) : a.events[m].kind = "artifact"}
Boundaries(a) == {m \in 1 .. Len(a.events) : a.events[m].kind = "boundary"}
Unit(a, m) == a.events[m].unit
Upto(a, m) == a.events[m].ref[2]

\* The artifacts an assignment of the life reports and its boundaries, in order: an artifact for
\* every unit that its checkpoint did not bring along, before the first boundary at or past it.
Traced(a, life, D) ==
  /\ \A m \in 1 .. Len(a.events) : a.events[m].ref # NoRef =>
       a.events[m].ref \in Refs /\ Upto(a, m) <= Len(a.made) /\ D[a.events[m].ref] # <<>>
  /\ \A m \in Boundaries(a) : a.events[m].ref # NoRef /\ (Working(a) => Upto(a, m) <= Units)
  /\ \A l, m \in Boundaries(a) : l < m => Upto(a, l) < Upto(a, m)
  /\ \A m \in Artifacts(a) : Unit(a, m) \in 1 .. Len(a.made) /\ a.made[Unit(a, m)] = life
  /\ \A l, m \in Artifacts(a) : Unit(a, l) = Unit(a, m) => l = m
  /\ \A m \in Boundaries(a), l \in Artifacts(a) : Unit(a, l) <= Upto(a, m) <=> l < m
  /\ \A u \in 1 .. Len(a.made) : \/ \E m \in Artifacts(a) : Unit(a, m) = u
                                 \/ \A m \in Boundaries(a) : u <= Upto(a, m)
  /\ \A m \in 1 .. Len(a.events) : a.events[m].outcome = "succeeded" => Len(a.made) = Closing
  /\ \A m \in 1 .. Len(a.events) : a.events[m].outcome \in {"stopped", "limit"} =>
       m - 1 \in Boundaries(a) /\ a.events[m].ref = a.events[m - 1].ref

\* The record of a step, which has read the assignment a up to its event d.seq.
Follows(d, a, D) ==
  /\ d.ckpt[2] <= Len(a.made)
  /\ \A u \in 1 .. d.ckpt[2] : a.made[u] = D[d.ckpt][u]
  /\ \A m \in Boundaries(a) : /\ m > d.seq => d.ckpt[2] <= Upto(a, m)
                              /\ m = d.seq => d.ckpt = a.events[m].ref
  /\ \A m \in Boundaries(a) : \A u \in 1 .. Upto(a, m) : D[a.events[m].ref][u] = a.made[u]
  /\ \A u \in 1 .. Closing : d.kept[u] # NoLife => u <= Len(a.made) /\ d.kept[u] = a.made[u]
  /\ \A m \in Artifacts(a) : m > d.seq => d.kept[Unit(a, m)] = NoLife
  /\ \A u \in 1 .. Len(a.made) : d.kept[u] = NoLife =>
       \E m \in Artifacts(a) : m > d.seq /\ Unit(a, m) = u

\* A record whose step was never begun again holds the artifacts its checkpoint brings along,
\* those it has read of its open assignment, and in the end all of them.
Keeps(d, A, D) ==
  /\ d.ckpt # NoRef => D[d.ckpt] # <<>> /\ \A u \in 1 .. d.ckpt[2] : d.kept[u] = D[d.ckpt][u]
  /\ \A i \in Ids : Opens(d, i) /\ Holding(A[i]) => Follows(d, A[i], D)
  /\ d.step = "planned" => d.ckpt = NoRef
  /\ d.step = "succeeded" /\ d.handed = NoHold =>
       d.id \in Ids /\ (Holding(A[d.id]) => \A u \in 1 .. Closing : d.kept[u] = A[d.id].made[u])

\* What is stored holds nothing past its checkpoint.
Blank(d) == d.step # "succeeded" => \A u \in 1 .. Closing : u > d.ckpt[2] => d.kept[u] = NoLife

Clean(d) == d.again = {} /\ d.step \notin {"failed", "rejected"}

\* What an execution that passes the fence knows of the artifacts.
Carrying(x, A, D) ==
  /\ x.at \in {"loop", "admit"} =>
       x.doc.step \in {"planned", "rejected", "failed", "stopped", "succeeded"}
  /\ x.at = "admit" => x.doc.step # "succeeded"
  /\ x.at \in {"assign"} \cup Handing => (Clean(x.doc) => x.from = x.doc.ckpt)
  /\ x.at = "follow" => (Clean(x.doc) => Keeps(x.doc, A, D))

Traces(A, D) == \A i \in Ids : Traced(A[i], LifeIn(A, i), D)
Sealed(d, A, D) ==
  /\ d.step = "waiting human" <=> d.held # NoHold
  /\ Clean(d) => Keeps(d, A, D) /\ Blank(d)
Carryings == \A c \in Claims : Passes(c) /\ ~At(c, "begin") => Carrying(exec[c], assignment, disk)

KeptInv == /\ Traces(assignment, disk)
           /\ late = {} => Sealed(doc, assignment, disk) /\ Carryings

\* What a step must show.
CarriedOn == KeptInv' /\ (doc'.again = {} /\ late' = {} => GoesOnFromBoundary)

-----------------------------------------------------------------------------

LEMMA Fields ==
  ASSUME NEW a \in Assignment
  PROVE  /\ a.events \in Seq(Event) /\ Len(a.events) \in Nat /\ a.made \in Seq(Lives) /\ Len(a.made) \in Nat
         /\ \A m \in 1 .. Len(a.events) : m \in Nat /\ a.events[m] \in Event /\ a.events[m].unit \in Nat
                                          /\ a.events[m].ref \in Refs \cup {NoRef} /\ Upto(a, m) \in Nat
<1>1. a.events \in Seq(Event) /\ a.made \in Seq(Lives) BY DEF Assignment
<1>2. \A e \in Event : e.unit \in Nat /\ e.ref \in Refs \cup {NoRef} /\ e.ref[2] \in Nat
  BY Numbers DEF Event, Refs, NoRef
<1>3. \A m \in 1 .. Len(a.events) : a.events[m] \in Event /\ m \in Nat BY <1>1
<1> QED BY <1>1, <1>2, <1>3 DEF Upto

\* What is read from a record alone.
LEMMA KeepsFields ==
  ASSUME NEW d, NEW e, NEW A, NEW D, Keeps(d, A, D), e.ckpt = d.ckpt, e.kept = d.kept,
         \A i \in Ids : Opens(e, i) /\ Holding(A[i]) => Opens(d, i) /\ e.seq = d.seq,
         e.step = "planned" => d.step = "planned",
         e.step = "succeeded" /\ e.handed = NoHold => d.step = "succeeded" /\ d.handed = NoHold /\ e.id = d.id
  PROVE  Keeps(e, A, D)
<1>1. \A i \in Ids : Opens(e, i) /\ Holding(A[i]) => Follows(e, A[i], D)
  BY DEF Keeps, Follows
<1> QED BY <1>1 DEF Keeps

\* What changes of the assignments is only how they stand.
SameRecord(A, B) ==
  \A i \in Ids : /\ B[i].made = A[i].made /\ B[i].events = A[i].events /\ B[i].life = A[i].life
                 /\ Holding(B[i]) <=> Holding(A[i])
                 /\ Working(B[i]) => Working(A[i])
AllForgotten(A, B) == \A i \in Ids : B[i] = Unknown(A[i].life)

LEMMA RecordOnly ==
  ASSUME NEW a, NEW b, b.made = a.made, b.events = a.events
  PROVE  /\ Artifacts(b) = Artifacts(a) /\ Boundaries(b) = Boundaries(a)
         /\ \A m : Unit(b, m) = Unit(a, m) /\ Upto(b, m) = Upto(a, m)
         /\ \A d, D : Follows(d, a, D) => Follows(d, b, D)
         /\ \A life, D : Traced(a, life, D) /\ (Working(b) => Working(a)) => Traced(b, life, D)
<1>1. /\ Artifacts(b) = Artifacts(a) /\ Boundaries(b) = Boundaries(a)
      /\ \A m : Unit(b, m) = Unit(a, m) /\ Upto(b, m) = Upto(a, m)
  BY DEF Artifacts, Boundaries, Unit, Upto
<1>2. \A d, D : Follows(d, a, D) => Follows(d, b, D) BY <1>1 DEF Follows
<1>3. \A life, D : Traced(a, life, D) /\ (Working(b) => Working(a)) => Traced(b, life, D)
  BY <1>1 DEF Traced
<1> QED BY <1>1, <1>2, <1>3

LEMMA Nothing ==
  ASSUME NEW a, Len(a.events) = 0, Len(a.made) = 0
  PROVE  \A life, D : Traced(a, life, D)
<1>1. \A m : m \notin 1 .. Len(a.events) /\ m \notin 1 .. Len(a.made) OBVIOUS
<1>2. Artifacts(a) = {} /\ Boundaries(a) = {} BY <1>1 DEF Artifacts, Boundaries
<1> QED BY <1>1, <1>2 DEF Traced

LEMMA KeepsMeanwhile ==
  ASSUME NEW A, NEW B, NEW D, SameRecord(A, B) \/ AllForgotten(A, B)
  PROVE  /\ Traces(A, D) => Traces(B, D)
         /\ \A d : Keeps(d, A, D) => Keeps(d, B, D)
         /\ \A x : Carrying(x, A, D) => Carrying(x, B, D)
<1>1. \A d : Keeps(d, A, D) => Keeps(d, B, D)
  <2> SUFFICES ASSUME NEW d, Keeps(d, A, D) PROVE Keeps(d, B, D) OBVIOUS
  <2>1. CASE SameRecord(A, B)
    <3>1. \A i \in Ids : Follows(d, A[i], D) => Follows(d, B[i], D)
      BY <2>1, RecordOnly DEF SameRecord
    <3> QED BY <2>1, <3>1 DEF Keeps, SameRecord
  <2>2. CASE AllForgotten(A, B)
    <3>1. \A i \in Ids : ~Holding(B[i]) BY <2>2, ForgottenSays DEF AllForgotten
    <3> QED BY <3>1 DEF Keeps
  <2> QED BY <2>1, <2>2
<1>2. Traces(A, D) => Traces(B, D)
  <2> SUFFICES ASSUME Traces(A, D), NEW i \in Ids PROVE Traced(B[i], LifeIn(B, i), D) BY DEF Traces
  <2>0. Traced(A[i], LifeIn(A, i), D) BY DEF Traces
  <2>1. CASE SameRecord(A, B)
    <3>1. /\ B[i].made = A[i].made /\ B[i].events = A[i].events /\ (Working(B[i]) => Working(A[i]))
          /\ LifeIn(B, i) = LifeIn(A, i)
      BY <2>1 DEF SameRecord, LifeIn
    <3> QED BY <2>0, <3>1, RecordOnly
  <2>2. CASE AllForgotten(A, B)
    <3>1. B[i].events = <<>> /\ B[i].made = <<>>
      <4>1. B[i] = Unknown(A[i].life) BY <2>2 DEF AllForgotten
      <4> QED BY <4>1 DEF Unknown
    <3> QED BY <3>1, Nothing
  <2> QED BY <2>1, <2>2
<1> QED BY <1>1, <1>2 DEF Carrying

-----------------------------------------------------------------------------
(* The agent's boundaries.                                                 *)

\* What a boundary adds to an assignment.
Grown(a, b, life, unit) ==
  LET s == Len(a.events)
      k == Adds(unit, a)
  IN  /\ \A m \in 1 .. s : b.events[m] = a.events[m]
      /\ Artifacts(b) = Artifacts(a) \cup (IF k = 1 THEN {s + 1} ELSE {})
      /\ k = 1 => Unit(b, s + 1) = unit
      /\ Boundaries(b) = Boundaries(a) \cup {s + k + 2}
      /\ b.events[s + k + 2].ref = <<a.lineage, unit>>
      /\ Len(a.made) <= unit /\ Len(b.made) = unit
      /\ \A u \in 1 .. Len(a.made) : b.made[u] = a.made[u]
      /\ k = 1 => unit = Len(a.made) + 1 /\ b.made[unit] = life
      /\ k = 0 => b.made = a.made /\ unit = Closing
      /\ \A m \in Boundaries(a) : Upto(a, m) < unit

LEMMA ReachGrows ==
  ASSUME NEW a \in Assignment, NEW b \in Assignment, NEW life, NEW D, NEW unit \in Nat, unit > 0,
         NEW end \in Ends, Reached(a, b, life, unit, end), Traced(a, life, D), Working(a),
         Len(b.made) = unit, Len(a.made) <= Closing,
         \/ unit = Len(a.made) + 1 /\ unit <= Units
         \/ unit = Closing /\ Len(a.made) >= Units /\ end \in {"succeeded", "failed"}
  PROVE  Grown(a, b, life, unit)
<1> DEFINE s == Len(a.events)
           k == Adds(unit, a)
<1>1. Added(a, b, life, unit, end) /\ k \in {0, 1} BY ReachedEvents
<1>2. s \in Nat /\ Len(a.made) \in Nat /\ Len(b.events) \in Nat /\ a.made \in Seq(Lives) BY Fields
<1>3. Len(b.events) = s + k + (IF end = "none" THEN 2 ELSE 3) BY DEF Reached
<1>4. \A m \in 1 .. s : b.events[m] = a.events[m] BY DEF Reached
<1>5. \A m \in 1 .. Len(b.events) :
        \/ m \in 1 .. s /\ b.events[m] = a.events[m]
        \/ m > s /\ m = s + 1 /\ k = 1 /\ b.events[m].kind = "artifact" /\ b.events[m].unit = unit
        \/ m > s /\ m = s + k + 1 /\ b.events[m].kind = "report"
        \/ m > s /\ m = s + k + 2 /\ b.events[m].kind = "boundary" /\ b.events[m].ref = <<a.lineage, unit>>
        \/ m > s /\ m = s + k + 3 /\ b.events[m].kind = "finished"
  BY <1>1, <1>2 DEF Added, Said
<1>6. k = 1 => unit = Len(a.made) + 1 /\ b.made = Append(a.made, life)
  BY <1>2, Numbers DEF Adds, Reached
<1>7. k = 0 => b.made = a.made /\ unit = Closing
  BY <1>2, Numbers DEF Adds, Reached
<1>8. /\ Len(a.made) <= unit
      /\ \A u \in 1 .. Len(a.made) : b.made[u] = a.made[u]
      /\ k = 1 => b.made[unit] = life
  BY <1>1, <1>2, <1>6, <1>7
<1> HIDE DEF k
<1>a. /\ s + k + 2 \in 1 .. Len(b.events) /\ (k = 1 => s + 1 \in 1 .. Len(b.events))
      /\ \A m \in 1 .. s : m \in 1 .. Len(b.events)
  <2>1. k \in Nat /\ k <= 1 BY <1>1
  <2>2. Len(b.events) >= s + k + 2 BY <1>2, <1>3, <2>1
  <2> HIDE DEF s
  <2>3. 1 <= s + k + 2 /\ s + k + 2 \in Nat /\ s + 1 <= s + k + 2 BY <1>2, <2>1
  <2> QED BY <1>2, <2>1, <2>2, <2>3
<1>9. Artifacts(b) = Artifacts(a) \cup (IF k = 1 THEN {s + 1} ELSE {})
  <2>1. \A m \in Artifacts(b) : m \in Artifacts(a) \/ (k = 1 /\ m = s + 1) BY <1>5 DEF Artifacts
  <2>2. \A m \in Artifacts(a) : m \in Artifacts(b) BY <1>4, <1>a DEF Artifacts
  <2>4. k = 1 => s + 1 \in Artifacts(b)
    <3> HIDE DEF s
    <3> SUFFICES ASSUME k = 1 PROVE b.events[s + 1].kind = "artifact" /\ s + 1 \in 1 .. Len(b.events)
      BY DEF Artifacts
    <3>1. s + 1 \in 1 .. Len(b.events) /\ s \in Nat BY <1>a, <1>2 DEF s
    <3>2. ~(s + 1 \in 1 .. s) /\ s + 1 # s + k + 1 /\ s + 1 # s + k + 2 /\ s + 1 # s + k + 3 BY <3>1
    <3> QED BY <1>5, <3>1, <3>2
  <2> QED BY <2>1, <2>2, <2>4
<1>10. k = 1 => Unit(b, s + 1) = unit
  <2>1. ASSUME k = 1 PROVE b.events[s + 1].unit = unit
    <3>1. s + 1 \in 1 .. Len(b.events) BY <1>a, <2>1
    <3>2. ~(s + 1 \in 1 .. s) /\ s + 1 # s + k + 1 /\ s + 1 # s + k + 2 /\ s + 1 # s + k + 3
      BY <1>2, <2>1
    <3> HIDE DEF s
    <3> QED BY <1>5, <3>1, <3>2
  <2> QED BY <2>1 DEF Unit
<1>12. b.events[s + k + 2].kind = "boundary" /\ b.events[s + k + 2].ref = <<a.lineage, unit>>
  <2>1. s + k + 2 \in 1 .. Len(b.events) BY <1>a
  <2>2. /\ ~(s + k + 2 \in 1 .. s) /\ s + k + 2 # s + k + 1 /\ s + k + 2 # s + k + 3
        /\ ~(s + k + 2 = s + 1 /\ k = 1)
    BY <1>1, <1>2
  <2> HIDE DEF s, k
  <2> QED BY <1>5, <2>1, <2>2
<1>13. Boundaries(b) = Boundaries(a) \cup {s + k + 2}
  <2>1. \A m \in Boundaries(b) : m \in Boundaries(a) \/ m = s + k + 2 BY <1>5 DEF Boundaries
  <2>2. \A m \in Boundaries(a) : m \in Boundaries(b) BY <1>4, <1>a DEF Boundaries
  <2> QED BY <1>a, <1>12, <2>1, <2>2 DEF Boundaries
<1>14. \A m \in Boundaries(a) : Upto(a, m) < unit
  <2> TAKE m \in Boundaries(a)
  <2>1. /\ m \in 1 .. Len(a.events) /\ a.events[m].ref # NoRef BY DEF Traced, Boundaries
  <2>2. Upto(a, m) \in Nat BY <2>1, Fields
  <2>3. Upto(a, m) <= Units /\ Upto(a, m) <= Len(a.made) BY <2>1 DEF Traced
  <2> QED BY <1>2, <2>2, <2>3, Numbers
<1> QED BY <1>4, <1>6, <1>7, <1>8, <1>9, <1>10, <1>12, <1>13, <1>14 DEF Grown, k

LEMMA GrownSame ==
  ASSUME NEW a \in Assignment, NEW b, NEW life, NEW D, NEW unit, Grown(a, b, life, unit), Traced(a, life, D)
  PROVE  /\ \A m \in Boundaries(a) :
              /\ m \in 1 .. Len(a.events) /\ Upto(b, m) = Upto(a, m) /\ b.events[m].ref = a.events[m].ref
              /\ a.events[m].ref \in Refs /\ Upto(a, m) \in Nat /\ Upto(a, m) < unit
              /\ Upto(a, m) <= Len(a.made)
         /\ \A m \in Artifacts(a) :
              m \in 1 .. Len(a.events) /\ Unit(b, m) = Unit(a, m) /\ Unit(a, m) \in 1 .. Len(a.made)
<1> DEFINE s == Len(a.events)
<1>1. \A m \in Boundaries(a) : m \in 1 .. s /\ a.events[m].ref # NoRef BY DEF Boundaries, Traced
<1>2. \A m \in Artifacts(a) : m \in 1 .. s /\ Unit(a, m) \in 1 .. Len(a.made) BY DEF Artifacts, Traced
<1>3. \A m \in 1 .. s : Upto(a, m) \in Nat BY Fields
<1>4. \A m \in 1 .. s : Upto(b, m) = Upto(a, m) /\ Unit(b, m) = Unit(a, m)
  BY DEF Grown, Upto, Unit
<1> QED BY <1>1, <1>2, <1>3, <1>4 DEF Grown, Traced

LEMMA TracedGrown ==
  ASSUME NEW a \in Assignment, NEW b \in Assignment, NEW life, NEW D \in [Refs -> Seq(Lives)],
         NEW unit \in Nat, unit > 0, NEW end \in Ends, Reached(a, b, life, unit, end), Traced(a, life, D),
         Working(a), Len(b.made) = unit, Len(a.made) <= Closing,
         \/ unit = Len(a.made) + 1 /\ unit <= Units /\ end \in {"none", "stopped", "limit"}
         \/ unit = Closing /\ Len(a.made) >= Units /\ end \in {"succeeded", "failed"},
         <<a.lineage, unit>> \in Refs, NEW E, E = [D EXCEPT ![<<a.lineage, unit>>] = b.made]
  PROVE  Traced(b, life, E)
<1> DEFINE s == Len(a.events)
           k == Adds(unit, a)
           ref == <<a.lineage, unit>>
<1>1. Grown(a, b, life, unit) BY ReachGrows
<1>2. Added(a, b, life, unit, end) /\ k \in {0, 1} BY ReachedEvents
<1>3. /\ s \in Nat /\ Len(a.made) \in Nat /\ Len(b.events) \in Nat /\ Closing \in Nat
      /\ Closing = Units + 1 /\ Units \in Nat /\ unit <= Closing
  BY Fields, Numbers
<1>4. /\ \A m \in Boundaries(a) : m \in 1 .. s /\ Upto(b, m) = Upto(a, m) /\ b.events[m].ref = a.events[m].ref
                                  /\ a.events[m].ref \in Refs /\ Upto(a, m) \in Nat /\ Upto(a, m) < unit
                                  /\ Upto(a, m) <= Len(a.made)
      /\ \A m \in Artifacts(a) : m \in 1 .. s /\ Unit(b, m) = Unit(a, m) /\ Unit(a, m) \in 1 .. Len(a.made)
  BY <1>1, GrownSame
<1>5. \A m \in 1 .. Len(b.events) :
        \/ m \in 1 .. s /\ b.events[m] = a.events[m]
        \/ b.events[m].outcome = "none" /\ b.events[m].ref \in {NoRef, ref}
        \/ m = s + k + 3 /\ b.events[m].outcome = end /\ b.events[m].ref = EndAt(end, ref)
  <2> TAKE m \in 1 .. Len(b.events)
  <2>1. \/ m \in 1 .. s /\ b.events[m] = a.events[m]
        \/ b.events[m] = Said(life, "artifact", unit, NoRef, "none")
        \/ b.events[m] = Said(life, "report", unit, NoRef, "none")
        \/ b.events[m] = Said(life, "boundary", unit, ref, "none")
        \/ m = s + k + 3 /\ b.events[m] = Said(life, "finished", 0, EndAt(end, ref), end)
    BY <1>2 DEF Added
  <2> HIDE DEF s, k, ref
  <2> QED BY <2>1 DEF Said
<1>6. \A r \in Refs : D[r] # <<>> => E[r] # <<>>
  <2>1. b.made # <<>>
    <3>1. Len(<<>>) = 0 OBVIOUS
    <3> QED BY <3>1
  <2>2. \A r \in Refs : E[r] = IF r = ref THEN b.made ELSE D[r] OBVIOUS
  <2> QED BY <2>1, <2>2
<1>7. E[ref] = b.made /\ b.made # <<>> /\ ref[2] = unit /\ ref \in Refs
  <2>1. Len(<<>>) = 0 OBVIOUS
  <2> QED BY <2>1
<1>8. /\ s + k + 2 \in Boundaries(b) /\ b.events[s + k + 2].ref = ref /\ Upto(b, s + k + 2) = unit
      /\ \A m \in Boundaries(b) : m \in Boundaries(a) \/ m = s + k + 2
      /\ \A m \in Artifacts(b) : m \in Artifacts(a) \/ (k = 1 /\ m = s + 1 /\ Unit(b, m) = unit)
      /\ k = 1 => s + 1 \in Artifacts(b) /\ Unit(b, s + 1) = unit /\ b.made[unit] = life /\ unit = Len(a.made) + 1
      /\ k = 0 => b.made = a.made /\ unit = Closing
      /\ Len(a.made) <= unit
      /\ \A u \in 1 .. Len(a.made) : b.made[u] = a.made[u]
  BY <1>1 DEF Grown, Upto
<1> HIDE DEF s, k, ref
<1>9. \A m \in 1 .. Len(b.events) : b.events[m].ref # NoRef =>
        b.events[m].ref \in Refs /\ Upto(b, m) <= Len(b.made) /\ E[b.events[m].ref] # <<>>
  <2> SUFFICES ASSUME NEW m \in 1 .. Len(b.events), b.events[m].ref # NoRef
               PROVE  b.events[m].ref \in Refs /\ Upto(b, m) <= Len(b.made) /\ E[b.events[m].ref] # <<>>
    OBVIOUS
  <2>1. CASE m \in 1 .. s /\ b.events[m] = a.events[m]
    <3>1. a.events[m].ref \in Refs /\ Upto(a, m) <= Len(a.made) /\ D[a.events[m].ref] # <<>>
      BY <2>1 DEF Traced, s
    <3>2. Upto(b, m) = Upto(a, m) /\ Upto(a, m) \in Nat BY <2>1, Fields DEF Upto, s
    <3> QED BY <1>3, <1>6, <1>8, <2>1, <3>1, <3>2
  <2>2. CASE b.events[m].ref = ref BY <1>3, <1>7, <2>2 DEF Upto
  <2>3. b.events[m].ref = EndAt(end, ref) => b.events[m].ref \in {NoRef, ref} BY DEF EndAt
  <2> QED BY <1>5, <2>1, <2>2, <2>3
<1>10. \A m \in Boundaries(b) : b.events[m].ref # NoRef /\ (Working(b) => Upto(b, m) <= Units)
  <2> TAKE m \in Boundaries(b)
  <2>1. CASE m \in Boundaries(a)
    <3>1. a.events[m].ref # NoRef /\ Upto(a, m) <= Units BY <2>1 DEF Traced
    <3> QED BY <1>4, <2>1, <3>1
  <2>2. CASE m = s + k + 2
    <3>1. Working(b) => end = "none" BY DEF Reached, Working
    <3>2. ref # NoRef BY <1>7, NullsApart
    <3> QED BY <1>8, <2>2, <3>1, <3>2
  <2> QED BY <1>8, <2>1, <2>2
<1>11. \A l, m \in Boundaries(b) : l < m => Upto(b, l) < Upto(b, m)
  <2> TAKE l, m \in Boundaries(b)
  <2>1. l \in Boundaries(a) \/ l = s + k + 2 BY <1>8
  <2>2. m \in Boundaries(a) \/ m = s + k + 2 BY <1>8
  <2>3. CASE l \in Boundaries(a) /\ m \in Boundaries(a) BY <1>4, <2>3 DEF Traced
  <2>4. CASE l \in Boundaries(a) /\ m = s + k + 2 BY <1>4, <1>8, <2>4
  <2>5. CASE l = s + k + 2 /\ m \in Boundaries(a) BY <1>2, <1>3, <1>4, <2>5 DEF k
  <2>6. CASE l = s + k + 2 /\ m = s + k + 2 BY <1>2, <1>3, <2>6 DEF k
  <2> QED BY <2>1, <2>2, <2>3, <2>4, <2>5, <2>6
<1>12. \A m \in Artifacts(b) : Unit(b, m) \in 1 .. Len(b.made) /\ b.made[Unit(b, m)] = life
  <2> TAKE m \in Artifacts(b)
  <2>1. CASE m \in Artifacts(a)
    <3>1. a.made[Unit(a, m)] = life BY <2>1 DEF Traced
    <3> QED BY <1>3, <1>4, <1>8, <2>1, <3>1
  <2>2. CASE k = 1 /\ m = s + 1 /\ Unit(b, m) = unit BY <1>8, <2>2
  <2> QED BY <1>8, <2>1, <2>2
<1>13. \A l, m \in Artifacts(b) : Unit(b, l) = Unit(b, m) => l = m
  <2> TAKE l, m \in Artifacts(b)
  <2>1. \A x \in Artifacts(a) : Unit(b, x) = Unit(a, x) /\ (k = 1 => Unit(b, x) # unit) BY <1>3, <1>4, <1>8
  <2>2. CASE l \in Artifacts(a) /\ m \in Artifacts(a) BY <2>1, <2>2 DEF Traced
  <2> QED BY <1>8, <2>1, <2>2
<1>14. \A m \in Boundaries(b), l \in Artifacts(b) : Unit(b, l) <= Upto(b, m) <=> l < m
  <2> TAKE m \in Boundaries(b), l \in Artifacts(b)
  <2>1. CASE m \in Boundaries(a) /\ l \in Artifacts(a) BY <1>4, <2>1 DEF Traced
  <2>2. CASE m \in Boundaries(a) /\ k = 1 /\ l = s + 1 /\ Unit(b, l) = unit BY <1>3, <1>4, <2>2
  <2>3. CASE m = s + k + 2 /\ l \in Artifacts(a)
    <3>1. Unit(b, l) <= Upto(b, m) BY <1>3, <1>4, <1>8, <2>3
    <3>2. l < m BY <1>2, <1>3, <1>4, <2>3 DEF k
    <3> QED BY <3>1, <3>2
  <2>4. CASE m = s + k + 2 /\ k = 1 /\ l = s + 1 /\ Unit(b, l) = unit BY <1>3, <1>8, <2>4
  <2> QED BY <1>8, <2>1, <2>2, <2>3, <2>4
<1>15. \A u \in 1 .. Len(b.made) : \/ \E m \in Artifacts(b) : Unit(b, m) = u
                                   \/ \A m \in Boundaries(b) : u <= Upto(b, m)
  <2> TAKE u \in 1 .. Len(b.made)
  <2>1. CASE u \in 1 .. Len(a.made)
    <3>1. CASE \E m \in Artifacts(a) : Unit(a, m) = u
      <4>1. PICK m \in Artifacts(a) : Unit(a, m) = u BY <3>1
      <4> QED BY <1>1, <1>4, <4>1 DEF Grown
    <3>2. CASE \A m \in Boundaries(a) : u <= Upto(a, m)
      <4>1. \A m \in Boundaries(a) : u <= Upto(b, m) BY <1>4, <3>2
      <4>2. u <= Upto(b, s + k + 2) BY <1>8
      <4> QED BY <1>8, <4>1, <4>2
    <3> QED BY <2>1, <3>1, <3>2 DEF Traced
  <2>2. CASE u \notin 1 .. Len(a.made)
    <3>1. k = 1 /\ u = unit BY <1>2, <1>3, <1>8, <2>2 DEF k
    <3> QED BY <1>8, <3>1
  <2> QED BY <2>1, <2>2
<1>16. \A m \in 1 .. Len(b.events) : b.events[m].outcome = "succeeded" => Len(b.made) = Closing
  <2> SUFFICES ASSUME NEW m \in 1 .. Len(b.events), b.events[m].outcome = "succeeded"
               PROVE  Len(b.made) = Closing
    OBVIOUS
  <2>1. CASE m \in 1 .. s /\ b.events[m] = a.events[m]
    <3>1. Len(a.made) = Closing BY <2>1 DEF Traced, s
    <3> QED BY <1>3, <1>8, <3>1
  <2>2. CASE b.events[m].outcome = end BY <2>2
  <2> QED BY <1>5, <2>1, <2>2
<1>17. \A m \in 1 .. Len(b.events) : b.events[m].outcome \in {"stopped", "limit"} =>
         m - 1 \in Boundaries(b) /\ b.events[m].ref = b.events[m - 1].ref
  <2> SUFFICES ASSUME NEW m \in 1 .. Len(b.events), b.events[m].outcome \in {"stopped", "limit"}
               PROVE  m - 1 \in Boundaries(b) /\ b.events[m].ref = b.events[m - 1].ref
    OBVIOUS
  <2>1. CASE m \in 1 .. s /\ b.events[m] = a.events[m]
    <3>1. m - 1 \in Boundaries(a) /\ a.events[m].ref = a.events[m - 1].ref BY <2>1 DEF Traced, s
    <3>2. m - 1 \in Boundaries(b) BY <1>1, <3>1 DEF Grown
    <3> QED BY <1>4, <2>1, <3>1, <3>2
  <2>2. CASE m = s + k + 3 /\ b.events[m].outcome = end /\ b.events[m].ref = EndAt(end, ref)
    <3>1. m - 1 = s + k + 2 BY <1>2, <1>3, <2>2 DEF k
    <3>2. b.events[m].ref = ref BY <2>2 DEF EndAt
    <3> QED BY <1>8, <3>1, <3>2
  <2> QED BY <1>5, <2>1, <2>2
<1> QED BY <1>9, <1>10, <1>11, <1>12, <1>13, <1>14, <1>15, <1>16, <1>17 DEF Traced

\* What is on disk up to a record's checkpoint.
Brought(d, D, E) == \A u \in 1 .. d.ckpt[2] : E[d.ckpt][u] = D[d.ckpt][u]

\* The record goes on from an assignment that has reached a boundary.
LEMMA FollowsGrown ==
  ASSUME NEW a \in Assignment, NEW b \in Assignment, NEW life, NEW D \in [Refs -> Seq(Lives)],
         NEW unit \in Nat, Grown(a, b, life, unit), Traced(a, life, D),
         <<a.lineage, unit>> \in Refs, NEW E,
         \A r \in Refs : E[r] = IF r = <<a.lineage, unit>> THEN b.made ELSE D[r]
  PROVE  \A d \in Doc : Follows(d, a, D) /\ d.seq <= Len(a.events) =>
           Follows(d, b, E) /\ Brought(d, D, E)
<1> SUFFICES ASSUME NEW d \in Doc, Follows(d, a, D), d.seq <= Len(a.events)
             PROVE  Follows(d, b, E) /\ Brought(d, D, E)
  OBVIOUS
<1> DEFINE s == Len(a.events)
           k == Adds(unit, a)
           ref == <<a.lineage, unit>>
<1>1. /\ s \in Nat /\ Len(a.made) \in Nat /\ k \in {0, 1} /\ d.seq \in Nat /\ d.seq <= s /\ Closing \in Nat
      /\ d.ckpt[2] \in Nat
  BY Fields, Numbers DEF Adds, Doc, Refs, NoRef
<1>2. /\ \A m \in Boundaries(a) : m \in 1 .. s /\ Upto(b, m) = Upto(a, m) /\ b.events[m].ref = a.events[m].ref
                                  /\ a.events[m].ref \in Refs /\ Upto(a, m) \in Nat /\ Upto(a, m) < unit
                                  /\ Upto(a, m) <= Len(a.made)
      /\ \A m \in Artifacts(a) : m \in 1 .. s /\ Unit(b, m) = Unit(a, m) /\ Unit(a, m) \in 1 .. Len(a.made)
  BY GrownSame
<1>3. \A r \in Refs : E[r] = IF r = ref THEN b.made ELSE D[r] OBVIOUS
<1>4. \A u \in 1 .. d.ckpt[2] : E[d.ckpt][u] = D[d.ckpt][u]
  <2>1. CASE d.ckpt = ref
    <3>1. unit <= Len(a.made) /\ k = 0 BY <1>1, <2>1 DEF Follows, Adds
    <3>2. E[d.ckpt] = a.made BY <1>3, <2>1, <3>1 DEF Grown
    <3> QED BY <3>2 DEF Follows
  <2>2. CASE d.ckpt # ref
    <3>1. d.ckpt \in Refs => E[d.ckpt] = D[d.ckpt] BY <1>3, <2>2
    <3>2. d.ckpt \notin Refs => d.ckpt[2] = 0 BY DEF Doc, NoRef
    <3>3. \A u : u \notin 1 .. 0 OBVIOUS
    <3> QED BY <3>1, <3>2, <3>3
  <2> QED BY <2>1, <2>2
<1>5. /\ d.ckpt[2] <= Len(b.made)
      /\ \A u \in 1 .. d.ckpt[2] : b.made[u] = E[d.ckpt][u]
  <2>1. d.ckpt[2] <= Len(a.made) /\ Len(a.made) <= unit /\ Len(b.made) = unit BY DEF Follows, Grown
  <2>2. \A u \in 1 .. d.ckpt[2] : u \in 1 .. Len(a.made) BY <1>1, <2>1
  <2>3. \A u \in 1 .. d.ckpt[2] : b.made[u] = a.made[u] BY <2>2 DEF Grown
  <2>4. \A u \in 1 .. d.ckpt[2] : a.made[u] = D[d.ckpt][u] BY DEF Follows
  <2>5. d.ckpt[2] <= Len(b.made) BY <1>1, <2>1
  <2> QED BY <1>4, <2>3, <2>4, <2>5
<1>6. \A m \in Boundaries(b) : /\ m > d.seq => d.ckpt[2] <= Upto(b, m)
                               /\ m = d.seq => d.ckpt = b.events[m].ref
  <2> TAKE m \in Boundaries(b)
  <2>1. CASE m \in Boundaries(a) BY <1>2, <2>1 DEF Follows
  <2>2. CASE m = s + k + 2
    <3>1. m # d.seq BY <1>1, <2>2
    <3>2. Upto(b, m) = unit BY <2>2 DEF Upto, Grown
    <3> QED BY <1>1, <3>1, <3>2 DEF Follows, Grown
  <2> QED BY <2>1, <2>2 DEF Grown
<1>7. \A m \in Boundaries(b) : \A u \in 1 .. Upto(b, m) : E[b.events[m].ref][u] = b.made[u]
  <2> TAKE m \in Boundaries(b)
  <2>1. CASE m \in Boundaries(a)
    <3>1. b.events[m].ref # ref BY <1>2, <2>1 DEF Upto
    <3>2. E[b.events[m].ref] = D[a.events[m].ref] BY <1>2, <1>3, <2>1, <3>1
    <3>3. \A u \in 1 .. Upto(b, m) : u \in 1 .. Upto(a, m) /\ u \in 1 .. Len(a.made)
      BY <1>1, <1>2, <2>1
    <3> QED BY <2>1, <3>2, <3>3 DEF Follows, Grown
  <2>2. CASE m = s + k + 2
    <3>1. E[b.events[m].ref] = b.made BY <1>3, <2>2 DEF Grown
    <3> QED BY <3>1
  <2> QED BY <2>1, <2>2 DEF Grown
<1>8. \A u \in 1 .. Closing : d.kept[u] # NoLife => u <= Len(b.made) /\ d.kept[u] = b.made[u]
  <2> SUFFICES ASSUME NEW u \in 1 .. Closing, d.kept[u] # NoLife
               PROVE  u <= Len(b.made) /\ d.kept[u] = b.made[u]
    OBVIOUS
  <2>1. u <= Len(a.made) /\ d.kept[u] = a.made[u] BY DEF Follows
  <2>2. u \in 1 .. Len(a.made) BY <1>1, <2>1
  <2> QED BY <1>1, <2>1, <2>2 DEF Grown
<1>9. \A m \in Artifacts(b) : m > d.seq => d.kept[Unit(b, m)] = NoLife
  <2> TAKE m \in Artifacts(b)
  <2>1. CASE m \in Artifacts(a) BY <1>2, <2>1 DEF Follows
  <2>2. CASE k = 1 /\ m = s + 1
    <3>1. Unit(b, m) = unit /\ unit = Len(a.made) + 1 BY <2>2 DEF Grown
    <3>2. unit \in 1 .. Closing BY <1>1, Numbers DEF Refs
    <3>3. d.kept[unit] # NoLife => unit <= Len(a.made) BY <3>2 DEF Follows
    <3> QED BY <1>1, <3>1, <3>3
  <2> QED BY <2>1, <2>2 DEF Grown
<1>10. \A u \in 1 .. Len(b.made) : d.kept[u] = NoLife => \E m \in Artifacts(b) : m > d.seq /\ Unit(b, m) = u
  <2> SUFFICES ASSUME NEW u \in 1 .. Len(b.made), d.kept[u] = NoLife
               PROVE  \E m \in Artifacts(b) : m > d.seq /\ Unit(b, m) = u
    OBVIOUS
  <2>1. CASE u \in 1 .. Len(a.made)
    <3>1. PICK m \in Artifacts(a) : m > d.seq /\ Unit(a, m) = u BY <2>1 DEF Follows
    <3> QED BY <1>2, <3>1 DEF Grown
  <2>2. CASE u \notin 1 .. Len(a.made)
    <3>1. k = 1 /\ u = unit
      <4>1. Len(b.made) = unit /\ (k = 1 => unit = Len(a.made) + 1) /\ (k = 0 => b.made = a.made) BY DEF Grown
      <4> QED BY <1>1, <2>2, <4>1
    <3>2. s + 1 \in Artifacts(b) /\ Unit(b, s + 1) = unit BY <3>1 DEF Grown
    <3> QED BY <1>1, <3>1, <3>2
  <2> QED BY <2>1, <2>2
<1> QED BY <1>4, <1>5, <1>6, <1>7, <1>8, <1>9, <1>10 DEF Follows, Brought

\* The agent ends without a result: nothing is added but the end.
LEMMA FailGrown ==
  ASSUME NEW a \in Assignment, NEW b \in Assignment, NEW life, NEW D, NEW e \in Event, b.made = a.made,
         b.events = Append(a.events, e), b.status = "finished",
         e.kind = "finished", e.ref = NoRef, e.outcome = "failed"
  PROVE  /\ Traced(a, life, D) /\ Working(a) => Traced(b, life, D)
         /\ \A d : Follows(d, a, D) => Follows(d, b, D)
<1>1. /\ Len(a.events) \in Nat /\ Len(b.events) = Len(a.events) + 1
      /\ \A m \in 1 .. Len(a.events) : b.events[m] = a.events[m]
      /\ \A m \in 1 .. Len(b.events) : m \in 1 .. Len(a.events) \/ b.events[m] = e
  BY Fields
<1>2. /\ Artifacts(b) = Artifacts(a) /\ Boundaries(b) = Boundaries(a)
      /\ \A m \in Artifacts(a) \cup Boundaries(a) : m \in 1 .. Len(a.events)
  BY <1>1 DEF Artifacts, Boundaries
<1>3. \A m \in 1 .. Len(a.events) : Unit(b, m) = Unit(a, m) /\ Upto(b, m) = Upto(a, m)
  BY <1>1 DEF Unit, Upto
<1>4. \A d : Follows(d, a, D) => Follows(d, b, D)
  BY <1>1, <1>2, <1>3 DEF Follows
<1>5. ASSUME Traced(a, life, D), Working(a) PROVE Traced(b, life, D)
  <2>1. /\ \A m \in 1 .. Len(b.events) : b.events[m].ref # NoRef =>
             b.events[m].ref \in Refs /\ Upto(b, m) <= Len(b.made) /\ D[b.events[m].ref] # <<>>
        /\ \A m \in 1 .. Len(b.events) : b.events[m].outcome = "succeeded" => Len(b.made) = Closing
    BY <1>1, <1>3, <1>5 DEF Traced
  <2>2. \A m \in 1 .. Len(b.events) : b.events[m].outcome \in {"stopped", "limit"} =>
          m - 1 \in Boundaries(b) /\ b.events[m].ref = b.events[m - 1].ref
    BY <1>1, <1>2, <1>5 DEF Traced
  <2>3. /\ \A m \in Boundaries(b) : b.events[m].ref # NoRef /\ (Working(b) => Upto(b, m) <= Units)
        /\ \A l, m \in Boundaries(b) : l < m => Upto(b, l) < Upto(b, m)
    BY <1>1, <1>2, <1>3, <1>5 DEF Traced, Working
  <2>4. /\ \A m \in Artifacts(b) : Unit(b, m) \in 1 .. Len(b.made) /\ b.made[Unit(b, m)] = life
        /\ \A l, m \in Artifacts(b) : Unit(b, l) = Unit(b, m) => l = m
        /\ \A m \in Boundaries(b), l \in Artifacts(b) : Unit(b, l) <= Upto(b, m) <=> l < m
        /\ \A u \in 1 .. Len(b.made) : \/ \E m \in Artifacts(b) : Unit(b, m) = u
                                       \/ \A m \in Boundaries(b) : u <= Upto(b, m)
    BY <1>1, <1>2, <1>3, <1>5 DEF Traced
  <2> QED BY <2>1, <2>2, <2>3, <2>4 DEF Traced
<1> QED BY <1>4, <1>5

\* What is on disk with a checkpoint stays, if not unchanged.
LEMMA TracedStill ==
  ASSUME NEW a, NEW life, NEW D, NEW E, \A r \in Refs : D[r] # <<>> => E[r] # <<>>, Traced(a, life, D)
  PROVE  Traced(a, life, E)
BY DEF Traced

\* What a step of the agent does for the assignment it works on.
Further(i) ==
  /\ \A j \in Ids : j # i => assignment'[j] = assignment[j]
  /\ \A r \in Refs : disk[r] # <<>> => disk'[r] # <<>>
  /\ Traces(assignment', disk')
  /\ \A d \in Doc : Follows(d, assignment[i], disk) /\ d.seq <= Len(assignment[i].events) =>
       Follows(d, assignment'[i], disk') /\ Brought(d, disk, disk')

LEMMA ReachFurther ==
  ASSUME Formed, Traces(assignment, disk), NEW i \in Ids, Working(assignment[i]), NEW unit \in Nat, unit > 0,
         NEW end \in Ends,
         \/ unit = Len(assignment[i].made) + 1 /\ unit <= Units /\ end \in {"none", "stopped", "limit"}
         \/ unit = Closing /\ Len(assignment[i].made) >= Units /\ end \in {"succeeded", "failed"},
         Reach(i, unit, end)
  PROVE  Further(i)
<1> DEFINE a == assignment[i]
           b == assignment'[i]
           ref == <<a.lineage, unit>>
           life == LifeIn(assignment, i)
<1>1. /\ assignment \in [Ids -> Assignment] /\ a \in Assignment /\ Orderly(a, i, ids) /\ a.life > 0
      /\ disk \in [Refs -> Seq(Lives)] /\ Life(i) = life
  BY LifeTyped DEF Working, Holding, Formed, TypeOK, Life, LifeIn
<1>2. Len(a.made) \in Nat /\ Len(a.made) <= Closing BY <1>1, Fields DEF Orderly
<1>3. unit \in 1 .. Closing /\ unit <= Len(a.made) + 1 BY <1>2, Numbers
<1>4. /\ assignment' = [assignment EXCEPT ![i] = b] /\ b \in Assignment
      /\ Reached(a, b, life, unit, end) /\ ref \in Refs /\ disk' = [disk EXCEPT ![ref] = b.made]
  BY <1>1, <1>3, ReachShape
<1>5. Len(b.made) = unit
  <2>1. life = <<i, a.life>> /\ ids \in Nat BY Numbers DEF LifeIn, Formed, TypeOK
  <2>2. Reached(a, b, <<i, a.life>>, unit, end) BY <1>4, <2>1
  <2> QED BY <1>1, <1>4, <2>1, <2>2, ReachedOrderly
<1>6. Traced(a, life, disk) BY DEF Traces
<1>7. Grown(a, b, life, unit) /\ Traced(b, life, disk')
  <2> HIDE DEF a, b, life
  <2> QED BY <1>1, <1>2, <1>4, <1>5, <1>6, ReachGrows, TracedGrown DEF a
<1>8. \A r \in Refs : disk[r] # <<>> => disk'[r] # <<>>
  <2>1. b.made # <<>>
    <3>1. Len(<<>>) = 0 OBVIOUS
    <3> HIDE DEF b
    <3> QED BY <3>1, <1>5
  <2> HIDE DEF b, ref
  <2>2. \A r \in Refs : disk'[r] = IF r = ref THEN b.made ELSE disk[r] BY <1>1, <1>4
  <2> QED BY <2>1, <2>2
<1>9. \A j \in Ids : j # i => assignment'[j] = assignment[j] BY <1>1, <1>4
<1>10. Traces(assignment', disk')
  <2> SUFFICES ASSUME NEW j \in Ids PROVE Traced(assignment'[j], LifeIn(assignment', j), disk')
    BY DEF Traces
  <2>1. CASE j = i
    <3>1. b.life = a.life BY <1>4 DEF Reached
    <3> QED BY <1>7, <2>1, <3>1 DEF LifeIn
  <2>2. CASE j # i
    <3>1. Traced(assignment[j], LifeIn(assignment, j), disk) BY DEF Traces
    <3>2. assignment'[j] = assignment[j] /\ LifeIn(assignment', j) = LifeIn(assignment, j)
      BY <1>9, <2>2 DEF LifeIn
    <3> QED BY <1>8, <3>1, <3>2, TracedStill
  <2> QED BY <2>1, <2>2
<1>11. \A d \in Doc : Follows(d, a, disk) /\ d.seq <= Len(a.events) =>
          Follows(d, b, disk') /\ Brought(d, disk, disk')
  <2> HIDE DEF a, b, life
  <2>1. \A r \in Refs : disk'[r] = IF r = <<a.lineage, unit>> THEN b.made ELSE disk[r] BY <1>1, <1>4
  <2>2. /\ a \in Assignment /\ b \in Assignment /\ disk \in [Refs -> Seq(Lives)]
        /\ <<a.lineage, unit>> \in Refs /\ Grown(a, b, life, unit) /\ Traced(a, life, disk)
    BY <1>1, <1>4, <1>6, <1>7
  <2> QED BY <2>1, <2>2, FollowsGrown
<1> QED BY <1>8, <1>9, <1>10, <1>11 DEF Further

LEMMA AgentFurther ==
  ASSUME Formed, Traces(assignment, disk), NEW i \in Ids, Worker(i)
  PROVE  Further(i) /\ Working(assignment[i])
<1>1. CASE AgentFails(i)
  <2> DEFINE a == assignment[i]
             e == Said(Life(i), "finished", 0, NoRef, "failed")
             b == [a EXCEPT !.status = "finished", !.events = Append(@, e)]
  <2>1. Working(a) /\ Holding(a) BY <1>1 DEF AgentFails, AtWork, Working, Holding
  <2>2. /\ assignment \in [Ids -> Assignment] /\ a \in Assignment /\ Life(i) \in Lives
    BY <2>1, LifeTyped DEF Formed, TypeOK
  <2>3. e \in Event /\ e.kind = "finished" /\ e.ref = NoRef /\ e.outcome = "failed"
    <3>1. e \in Event BY <2>2, SaidTyped, Numbers
    <3> QED BY <3>1 DEF Said
  <2>4. assignment' = [assignment EXCEPT ![i] = b] /\ UNCHANGED disk
    BY <1>1 DEF AgentFails, Finished, Emit, Said
  <2>5. /\ b.status = "finished" /\ b.life = a.life /\ b.made = a.made
        /\ b.events = Append(a.events, e) /\ b \in Assignment
    <3> HIDE DEF a, e
    <3>1. a.events \in Seq(Event) BY <2>2, Fields
    <3>2. Append(a.events, e) \in Seq(Event) BY <3>1, <2>3
    <3> QED BY <2>2, <3>1, <3>2 DEF Assignment
  <2>6. \A j \in Ids : assignment'[j] = IF j = i THEN b ELSE assignment[j] BY <2>2, <2>4
  <2> HIDE DEF b, e
  <2>7. /\ \A life, D : Traced(a, life, D) /\ Working(a) => Traced(b, life, D)
        /\ \A d, D : Follows(d, a, D) => Follows(d, b, D)
    <3> HIDE DEF a
    <3> QED BY <2>2, <2>3, <2>5, FailGrown
  <2>8. Traces(assignment', disk')
    <3> SUFFICES ASSUME NEW j \in Ids PROVE Traced(assignment'[j], LifeIn(assignment', j), disk')
      BY DEF Traces
    <3>1. Traced(assignment[j], LifeIn(assignment, j), disk) BY DEF Traces
    <3>2. LifeIn(assignment', j) = LifeIn(assignment, j) BY <2>5, <2>6 DEF LifeIn
    <3> QED BY <2>1, <2>4, <2>6, <2>7, <3>1, <3>2
  <2>9. assignment'[i] = b BY <2>6
  <2> QED BY <2>1, <2>4, <2>6, <2>7, <2>8, <2>9 DEF Further, Brought
<1>2. ASSUME NEW wall \in {"none", "limit", "stopped"}, AgentUnit(i, wall)
      PROVE  Further(i) /\ Working(assignment[i])
  <2> DEFINE unit == Len(assignment[i].made) + 1
             end == IF assignment[i].status = "stopping" THEN "stopped" ELSE wall
  <2>1. unit <= Units /\ Working(assignment[i]) /\ Reach(i, unit, end)
    BY <1>2 DEF AgentUnit, AtWork, Working
  <2>2. unit \in Nat /\ unit > 0
    <3>1. Len(assignment[i].made) \in Nat BY DEF Formed, TypeOK, Assignment
    <3> QED BY <3>1
  <2>3. end \in Ends /\ end \in {"none", "stopped", "limit"} BY DEF Ends
  <2> HIDE DEF end
  <2>4. unit = Len(assignment[i].made) + 1 OBVIOUS
  <2> HIDE DEF unit
  <2> QED BY <2>1, <2>2, <2>3, <2>4, ReachFurther
<1>3. ASSUME NEW outcome \in {"succeeded", "failed"}, AgentCloses(i, outcome)
      PROVE  Further(i) /\ Working(assignment[i])
  <2>1. Len(assignment[i].made) >= Units /\ Working(assignment[i]) /\ Reach(i, Closing, outcome)
    BY <1>3 DEF AgentCloses, AtWork, Working
  <2>2. Closing \in Nat /\ Closing > 0 /\ outcome \in Ends BY Numbers DEF Ends
  <2> HIDE DEF Closing
  <2> QED BY <2>1, <2>2, ReachFurther
<1> QED BY <1>1, <1>2, <1>3 DEF Worker, AgentWorks

-----------------------------------------------------------------------------
(* What a step must show of the artifacts and the checkpoint.              *)

LEMMA SealedMeanwhile ==
  ASSUME NEW A, NEW B, NEW D, SameRecord(A, B) \/ AllForgotten(A, B), NEW d, Sealed(d, A, D)
  PROVE  Sealed(d, B, D)
<1>1. Keeps(d, A, D) => Keeps(d, B, D) BY KeepsMeanwhile
<1> QED BY <1>1 DEF Sealed

LEMMA StopSame ==
  ASSUME Formed, NEW i, assignment' = assignment \/ assignment' = Stopped(i)
  PROVE  SameRecord(assignment, assignment')
<1>1. assignment \in [Ids -> Assignment] BY DEF Formed, TypeOK
<1>2. CASE assignment' = assignment BY <1>2 DEF SameRecord
<1>3. CASE assignment' # assignment
  <2>1. i \in Ids /\ Working(assignment[i]) /\ assignment' = [assignment EXCEPT ![i].status = "stopping"]
    BY <1>3 DEF Stopped, AtWork, Working
  <2>2. \A j \in Ids : j # i => assignment'[j] = assignment[j] BY <1>1, <2>1
  <2>3. /\ assignment'[i].status = "stopping" /\ assignment'[i].life = assignment[i].life
        /\ assignment'[i].made = assignment[i].made /\ assignment'[i].events = assignment[i].events
    <3>1. assignment[i] \in Assignment BY <1>1, <2>1
    <3>2. assignment'[i] = [assignment[i] EXCEPT !.status = "stopping"] BY <1>1, <2>1
    <3> QED BY <3>1, <3>2 DEF Assignment
  <2> QED BY <2>1, <2>2, <2>3 DEF SameRecord, Holding, Working
<1> QED BY <1>2, <1>3

LEMMA Ckpts ==
  ASSUME NEW d \in Doc
  PROVE  d.ckpt \in Refs \cup {NoRef} /\ d.ckpt[2] \in Nat /\ d.ckpt[2] <= Closing
         /\ (d.ckpt = NoRef <=> d.ckpt[2] = 0)
<1>1. d.ckpt \in Refs \cup {NoRef} BY DEF Doc
<1>2. \A q \in Refs : q[2] \in 1 .. Closing BY DEF Refs
<1>3. NoRef[2] = 0 BY DEF NoRef
<1> QED BY <1>1, <1>2, <1>3, Numbers

\* A step that takes no assignment and leaves the checkpoint where it was, or further.
LEMMA OnFromBoundary ==
  ASSUME Formed, SameRecord(assignment, assignment') \/ AllForgotten(assignment, assignment'),
         doc' = doc \/ doc'.ckpt[2] >= doc.ckpt[2]
  PROVE  GoesOnFromBoundary
<1>1. doc.ckpt[2] \in Nat BY Ckpts DEF Formed, TypeOK
<1>2. doc'.ckpt[2] >= doc.ckpt[2] BY <1>1
<1>3. \A i \in Ids : Holding(assignment'[i]) => Holding(assignment[i])
  BY ForgottenSays DEF SameRecord, AllForgotten
<1>4. \A i \in Ids : Known(i)' => Known(i) BY <1>3 DEF Known, Holding
<1> QED BY <1>2, <1>4 DEF GoesOnFromBoundary

LEMMA CarryingsStep ==
  ASSUME HandInv, Carryings, NEW c \in Claims, ~At(c, "off"), NEW x \in Exec,
         UNCHANGED job, exec' = [exec EXCEPT ![c] = x], x.at = "off" \/ x.by = exec[c].by,
         Passes(c) /\ x.at \notin {"off", "begin"} => Carrying(x, assignment', disk'),
         ~Passes(c) => SameRecord(assignment, assignment') /\ disk' = disk
  PROVE  Carryings'
<1> SUFFICES ASSUME NEW k \in Claims, Passes(k)', ~At(k, "begin")'
             PROVE  Carrying(exec'[k], assignment', disk')
  BY DEF Carryings
<1>1. exec \in [Claims -> Exec] BY DEF HandInv, Formed, TypeOK
<1>2. job.claim = k /\ job.queued /\ job.by = exec'[k].by /\ exec'[k].at \notin {"off", "begin"}
  BY DEF Passes, Names, At
<1>3. CASE k = c
  <2>1. exec'[k] = x BY <1>1, <1>3
  <2>2. Passes(c) BY <1>2, <1>3, <2>1 DEF Passes, Names
  <2> QED BY <1>2, <2>1, <2>2
<1>4. CASE k # c
  <2>1. exec'[k] = exec[k] BY <1>1, <1>4
  <2>2. Passes(k) /\ ~At(k, "begin") /\ ~Passes(c) BY <1>2, <1>4, <2>1 DEF Passes, Names, At
  <2>3. Carrying(exec[k], assignment, disk) BY <2>2 DEF Carryings
  <2> QED BY <2>1, <2>2, <2>3, KeepsMeanwhile
<1> QED BY <1>3, <1>4

LEMMA CommitCarries ==
  ASSUME HandInv, KeptInv, NEW c \in Claims, ~At(c, "off"), NEW next \in Exec, Commit(c, next),
         next.by = exec[c].by, next.at # "off", UNCHANGED <<disk, job, late>>,
         NEW i, assignment' = assignment \/ assignment' = Stopped(i),
         late = {} /\ Passes(c) => /\ Sealed(next.doc, assignment, disk)
                                   /\ next.at # "begin" => Carrying(next, assignment, disk)
                                   /\ next.doc.again = {} => next.doc.ckpt[2] >= doc.ckpt[2]
  PROVE  CarriedOn
<1>1. Formed BY DEF HandInv
<1>2. SameRecord(assignment, assignment') BY <1>1, StopSame
<1>3. Traces(assignment', disk') BY <1>2, KeepsMeanwhile DEF KeptInv
<1>4. CASE late # {} BY <1>3, <1>4 DEF CarriedOn, KeptInv
<1>5. CASE late = {} /\ Passes(c)
  <2>1. doc' = next.doc /\ exec' = [exec EXCEPT ![c] = next] BY <1>5 DEF Commit
  <2>2. Sealed(doc', assignment', disk') BY <1>2, <1>5, <2>1, SealedMeanwhile
  <2>3. next.at # "begin" => Carrying(next, assignment', disk') BY <1>2, <1>5, KeepsMeanwhile
  <2>4. Carryings' BY <1>5, <2>1, <2>3, CarryingsStep DEF KeptInv
  <2>5. doc'.again = {} => GoesOnFromBoundary BY <1>1, <1>2, <1>5, <2>1, OnFromBoundary
  <2> QED BY <1>3, <2>2, <2>4, <2>5 DEF CarriedOn, KeptInv
<1>6. CASE late = {} /\ ~Passes(c)
  <2>1. doc' = doc /\ exec' = [exec EXCEPT ![c] = NoExec] BY <1>6 DEF Commit
  <2>2. Sealed(doc', assignment', disk') BY <1>2, <1>6, <2>1, SealedMeanwhile DEF KeptInv
  <2>3. Carryings' BY <1>2, <1>6, <2>1, NoExecTyped, CarryingsStep DEF KeptInv
  <2>4. GoesOnFromBoundary BY <1>1, <1>2, <2>1, OnFromBoundary
  <2> QED BY <1>3, <2>2, <2>3, <2>4 DEF CarriedOn, KeptInv
<1> QED BY <1>4, <1>5, <1>6

\* An execution goes on without a commit.
LEMMA MoveCarries ==
  ASSUME HandInv, KeptInv, NEW c \in Claims, ~At(c, "off"), NEW next \in Exec,
         exec' = [exec EXCEPT ![c] = next], next.by = exec[c].by, next.at # "off",
         UNCHANGED <<assignment, disk, doc, job, late>>,
         late = {} /\ Passes(c) => Carrying(next, assignment, disk)
  PROVE  CarriedOn
<1>1. Formed /\ SameRecord(assignment, assignment') BY DEF HandInv, SameRecord
<1>2. late = {} => Carryings' BY <1>1, CarryingsStep DEF KeptInv
<1>3. GoesOnFromBoundary BY <1>1, OnFromBoundary
<1> QED BY <1>2, <1>3 DEF CarriedOn, KeptInv

LEMMA NobodyCarries ==
  ASSUME Formed', job'.by \notin Runners
  PROVE  Carryings'
<1> SUFFICES ASSUME NEW k \in Claims, Passes(k)' PROVE FALSE
  BY DEF Carryings
<1>1. exec'[k].at # "off" /\ job'.by = exec'[k].by BY DEF Passes, Names, At
<1>2. exec'[k].by \in Runners BY <1>1 DEF Formed, Placed
<1> QED BY <1>1, <1>2

\* Whoever holds the run holds it still, and stands where it stood.
LEMMA SameCarryings ==
  ASSUME HandInv, KeptInv, UNCHANGED <<disk, doc, late>>,
         job'.queued = job.queued, job'.claim = job.claim, job'.by = job.by,
         \A k \in Claims : exec'[k] = exec[k] \/ exec'[k].at = "off",
         SameRecord(assignment, assignment') \/ AllForgotten(assignment, assignment')
  PROVE  CarriedOn
<1>1. Formed BY DEF HandInv
<1>2. Traces(assignment', disk') BY KeepsMeanwhile DEF KeptInv
<1>3. late = {} => Sealed(doc', assignment', disk') BY SealedMeanwhile DEF KeptInv
<1>4. ASSUME late = {}, NEW k \in Claims, Passes(k)', ~At(k, "begin")'
      PROVE  Carrying(exec'[k], assignment', disk')
  <2>1. exec'[k].at # "off" BY <1>4 DEF Passes, Names, At
  <2>2. exec'[k] = exec[k] BY <2>1
  <2>3. Passes(k) /\ ~At(k, "begin") BY <1>4, <2>2 DEF Passes, Names, At
  <2>4. Carrying(exec[k], assignment, disk) BY <1>4, <2>3 DEF KeptInv, Carryings
  <2> QED BY <2>2, <2>4, KeepsMeanwhile
<1>5. late = {} => Carryings' BY <1>4 DEF Carryings
<1>6. GoesOnFromBoundary BY <1>1, OnFromBoundary
<1> QED BY <1>2, <1>3, <1>5, <1>6 DEF CarriedOn, KeptInv

\* What is known of an execution that passes the fence.
LEMMA OwnKept ==
  ASSUME HandInv, KeptInv, NEW c \in Claims, Passes(c), ~At(c, "begin"), late = {}
  PROVE  /\ Carrying(exec[c], assignment, disk) /\ Sealed(doc, assignment, disk)
         /\ ~At(c, "follow") => exec[c].doc = doc
         /\ exec[c].doc.held = NoHold /\ exec[c].doc.ckpt = doc.ckpt /\ exec[c].doc.ckpt[2] \in Nat
<1>1. Standing(exec[c], doc, assignment, late) /\ Carrying(exec[c], assignment, disk)
  BY DEF HandInv, Standings, KeptInv, Carryings
<1>2. doc \in Doc /\ doc.ckpt[2] \in Nat BY Ckpts DEF HandInv, Formed, TypeOK
<1>3. exec[c].doc.ckpt = doc.ckpt BY <1>1 DEF Standing, Agrees
<1> QED BY <1>1, <1>2, <1>3, Own DEF KeptInv, At, Standing

\* A step that failed or was rejected says nothing of its artifacts any more.
LEMMA Lost ==
  ASSUME NEW d, NEW A, NEW D, d.step \in {"failed", "rejected"}, d.held = NoHold
  PROVE  Sealed(d, A, D)
BY DEF Sealed, Clean

LEMMA Over ==
  ASSUME NEW y, NEW A, NEW D, y.at \in {"after", "ended"}
  PROVE  Carrying(y, A, D)
BY DEF Carrying, Handing

LEMMA Rewritten ==
  ASSUME NEW d, NEW e, NEW A, NEW D, Sealed(d, A, D), e.ckpt = d.ckpt, e.kept = d.kept,
         \A i \in Ids : Opens(e, i) /\ Holding(A[i]) => Opens(d, i) /\ e.seq = d.seq,
         Clean(e) => Clean(d) /\ (d.step = "succeeded" => e.step = "succeeded"),
         e.step = "waiting human" <=> e.held # NoHold,
         e.step = "planned" => d.step = "planned",
         e.step = "succeeded" /\ e.handed = NoHold => d.step = "succeeded" /\ d.handed = NoHold /\ e.id = d.id
  PROVE  Sealed(e, A, D)
<1> SUFFICES ASSUME Clean(e) PROVE Keeps(e, A, D) /\ Blank(e)
  BY DEF Sealed
<1>1. Keeps(d, A, D) /\ Blank(d) BY DEF Sealed
<1>2. Keeps(e, A, D) BY <1>1, KeepsFields
<1> QED BY <1>1, <1>2 DEF Blank

-----------------------------------------------------------------------------
(* What is kept, action by action.                                         *)

LEMMA FailsCarries ==
  ASSUME HandInv, KeptInv, NEW c \in Claims, ~At(c, "off"), ~At(c, "begin"), Commit(c, Failed(c)),
         UNCHANGED <<disk, job, late>>, NEW i, assignment' = assignment \/ assignment' = Stopped(i)
  PROVE  CarriedOn
<1> DEFINE x == exec[c].doc
           d == [x EXCEPT !.step = "failed"]
           y == Goes(c, d, "after")
<1>1. Formed /\ x \in Doc BY Facts DEF HandInv
<1> HIDE DEF x
<1>2. d \in Doc /\ d.step = "failed" /\ d.held = x.held /\ d.ckpt = x.ckpt
  BY <1>1 DEF Doc, StepStates
<1> HIDE DEF d
<1>3. y \in Exec /\ y.doc = d /\ y.at = "after" /\ y.by = exec[c].by BY <1>1, <1>2, GoesFields DEF Stands
<1>4. Commit(c, y) BY DEF Failed, y, d, x
<1> HIDE DEF y
<1>5. ASSUME late = {}, Passes(c)
      PROVE  /\ Sealed(y.doc, assignment, disk) /\ Carrying(y, assignment, disk)
             /\ y.doc.ckpt[2] >= doc.ckpt[2]
  <2>1. x.held = NoHold /\ x.ckpt = doc.ckpt /\ x.ckpt[2] \in Nat BY <1>5, OwnKept DEF x
  <2>2. Sealed(d, assignment, disk) BY <1>2, <2>1, Lost
  <2> QED BY <1>2, <1>3, <2>1, <2>2, Over
<1> QED BY <1>3, <1>4, <1>5, CommitCarries

LEMMA BeginCarries ==
  ASSUME HandInv, KeptInv, NEW c \in Claims, TakeoverLapsed(c) \/ Begin(c)
  PROVE  CarriedOn
<1>1. /\ Formed /\ doc \in Doc /\ ~At(c, "off") /\ exec[c].at = "begin" /\ doc.ckpt[2] \in Nat
      /\ late = {} => Sealed(doc, assignment, disk)
  <2>1. Formed /\ doc \in Doc BY Facts DEF HandInv
  <2> QED BY <2>1, Ckpts DEF TakeoverLapsed, Begin, At, KeptInv
<1>2. UNCHANGED <<disk, job, late>> /\ UNCHANGED assignment
  BY DEF TakeoverLapsed, Begin, workerVars, counters
<1>3. CASE TakeoverLapsed(c)
  <2> DEFINE d == [doc EXCEPT !.step = "stopped", !.held = NoHold]
             y == Goes(c, d, "begin")
  <2>1. d \in Doc /\ d.step = "stopped" /\ d.seq = doc.seq /\ d.open = doc.open /\ d.kept = doc.kept
        /\ d.id = doc.id /\ d.held = NoHold /\ d.ckpt = doc.ckpt /\ d.again = doc.again
    BY <1>1 DEF Doc, StepStates
  <2>2. Commit(c, y) /\ doc.held # NoHold BY <1>3 DEF TakeoverLapsed
  <2> HIDE DEF d
  <2>3. y \in Exec /\ y.doc = d /\ y.at = "begin" /\ y.by = exec[c].by BY <1>1, <2>1, GoesFields DEF Stands
  <2> HIDE DEF y
  <2>4. late = {} => Sealed(d, assignment, disk)
    <3> SUFFICES ASSUME late = {} PROVE Sealed(d, assignment, disk)
      OBVIOUS
    <3>1. doc.step = "waiting human" BY <1>1, <2>2 DEF Sealed
    <3>2. \A i \in Ids : Opens(d, i) => Opens(doc, i) BY <2>1 DEF Opens
    <3>3. Clean(d) => Clean(doc) /\ doc.step # "succeeded" BY <2>1, <3>1 DEF Clean
    <3> QED BY <1>1, <2>1, <3>2, <3>3, Rewritten
  <2> QED BY <1>1, <1>2, <2>1, <2>2, <2>3, <2>4, CommitCarries
<1>4. CASE Begin(c) /\ EndedForClaim(doc)
  <2> DEFINE y == Goes(c, doc, "ended")
  <2>1. exec' = [exec EXCEPT ![c] = y] /\ UNCHANGED doc BY <1>4 DEF Begin
  <2>2. y \in Exec /\ y.doc = doc /\ y.at = "ended" /\ y.by = exec[c].by BY <1>1, GoesFields DEF Stands
  <2> HIDE DEF y
  <2>3. Carrying(y, assignment, disk) BY <2>2, Over
  <2> QED BY <1>1, <1>2, <2>1, <2>2, <2>3, MoveCarries
<1>5. CASE Begin(c) /\ ~EndedForClaim(doc)
  <2> DEFINE d == Recovered(doc)
             y == Goes(c, d, "loop")
  <2>1. /\ d \in Doc /\ d.seq = doc.seq /\ d.open = doc.open /\ d.id = doc.id /\ d.kept = doc.kept
        /\ d.ckpt = doc.ckpt /\ d.again = doc.again
        /\ d.held = doc.held /\ d.handed = doc.handed
        /\ d.step = IF InFlight(doc) THEN "stopped" ELSE doc.step
    <3> DEFINE s == IF InFlight(doc) THEN "stopped" ELSE doc.step
    <3>1. s \in StepStates BY <1>1 DEF Doc, StepStates
    <3>2. d = [doc EXCEPT !.run = "running", !.step = s] BY DEF Recovered
    <3> HIDE DEF d, s
    <3>3. /\ d \in Doc /\ d.seq = doc.seq /\ d.open = doc.open /\ d.id = doc.id /\ d.kept = doc.kept
          /\ d.ckpt = doc.ckpt /\ d.again = doc.again
          /\ d.held = doc.held /\ d.handed = doc.handed /\ d.step = s
      BY <1>1, <3>1, <3>2 DEF Doc, RunStates
    <3> QED BY <3>3 DEF s
  <2>2. Commit(c, y) /\ doc.held = NoHold BY <1>5 DEF Begin
  <2> HIDE DEF d
  <2>3. y \in Exec /\ y.doc = d /\ y.at = "loop" /\ y.by = exec[c].by BY <1>1, <2>1, GoesFields DEF Stands
  <2> HIDE DEF y
  <2>4. ASSUME late = {} PROVE Sealed(d, assignment, disk) /\ Carrying(y, assignment, disk)
    <3>1. doc.step # "waiting human" /\ doc.step \in StepStates BY <1>1, <2>2, <2>4 DEF Sealed, Doc
    <3>2. \A i \in Ids : Opens(d, i) => Opens(doc, i) BY <2>1 DEF Opens
    <3>3. Clean(d) => Clean(doc) BY <2>1 DEF Clean, InFlight
    <3>4. Sealed(d, assignment, disk) BY <1>1, <2>1, <2>2, <2>4, <3>1, <3>2, <3>3, Rewritten DEF InFlight
    <3>5. d.step \in {"planned", "rejected", "failed", "stopped", "succeeded"}
      BY <2>1, <3>1 DEF InFlight, StepStates
    <3>6. Carrying(y, assignment, disk) BY <2>3, <3>5 DEF Carrying, Handing
    <3> QED BY <3>4, <3>6
  <2> QED BY <1>1, <1>2, <2>1, <2>2, <2>3, <2>4, CommitCarries
<1> QED BY <1>3, <1>4, <1>5

LEMMA HandedOverCarries ==
  ASSUME HandInv, KeptInv, NEW c \in Claims, ~At(c, "off"), ~At(c, "begin"), ~At(c, "follow"),
         Passes(c) => exec[c].doc.step # "succeeded", NEW b \in BOOLEAN,
         HandedOver(c, b), UNCHANGED <<disk, job, late>>
  PROVE  CarriedOn
<1> DEFINE x == exec[c].doc
           begun == [x EXCEPT !.again = @ \cup ({x.step} \cap {"failed", "rejected"})]
           d == [begun EXCEPT !.step = "running"]
           y == Goes(c, d, "follow")
           next == [y EXCEPT !.adopted = b]
<1>1. Formed /\ x \in Doc BY Facts DEF HandInv
<1>2. d \in Doc /\ d.step = "running" /\ d.seq = x.seq /\ d.open = x.open /\ d.id = x.id
      /\ d.held = x.held /\ d.kept = x.kept /\ d.ckpt = x.ckpt
      /\ d.again = x.again \cup ({x.step} \cap {"failed", "rejected"})
  <2> HIDE DEF x
  <2>1. "running" \in StepStates BY DEF StepStates
  <2>2. x \in Doc BY <1>1
  <2> DEFINE g == x.again \cup ({x.step} \cap {"failed", "rejected"})
  <2>3. g \in SUBSET {"failed", "rejected"} BY <2>2 DEF Doc
  <2>4. begun = [x EXCEPT !.again = g] OBVIOUS
  <2>5. d = [begun EXCEPT !.step = "running"] OBVIOUS
  <2> HIDE DEF g, begun, d
  <2>6. /\ begun \in Doc /\ begun.seq = x.seq /\ begun.open = x.open /\ begun.id = x.id
        /\ begun.held = x.held /\ begun.kept = x.kept /\ begun.ckpt = x.ckpt /\ begun.again = g
    BY <2>2, <2>3, <2>4 DEF Doc
  <2>7. /\ d \in Doc /\ d.step = "running" /\ d.seq = begun.seq /\ d.open = begun.open
        /\ d.id = begun.id /\ d.held = begun.held /\ d.kept = begun.kept
        /\ d.ckpt = begun.ckpt /\ d.again = begun.again
    BY <2>1, <2>5, <2>6 DEF Doc
  <2> QED BY <2>6, <2>7 DEF g
<1>3. Commit(c, next) /\ (assignment' = assignment \/ assignment' = Stopped(x.id))
  BY DEF HandedOver
<1> HIDE DEF d
<1>4. y \in Exec /\ y.doc = d /\ y.at = "follow" /\ y.by = exec[c].by BY <1>1, <1>2, GoesFields DEF Stands
<1> HIDE DEF y
<1>5. next \in Exec /\ next.doc = d /\ next.at = "follow" /\ next.by = exec[c].by
  <2>1. "none" \in {"none", "capacity", "limit"} /\ NoRef \in Refs \cup {NoRef} OBVIOUS
  <2> QED BY <1>4, <2>1, NotesKeep
<1> HIDE DEF next
<1>6. ASSUME late = {}, Passes(c)
      PROVE  /\ Sealed(next.doc, assignment, disk) /\ Carrying(next, assignment, disk)
             /\ next.doc.ckpt[2] >= doc.ckpt[2]
  <2>1. x = doc /\ Sealed(x, assignment, disk) /\ x.held = NoHold /\ x.ckpt[2] \in Nat BY <1>6, OwnKept DEF x
  <2>2. x.step # "succeeded" BY <1>6
  <2> HIDE DEF x
  <2>3. \A i \in Ids : Opens(d, i) => Opens(x, i) BY <1>2 DEF Opens
  <2>4. Clean(d) => Clean(x) BY <1>2 DEF Clean
  <2>5. Sealed(d, assignment, disk) BY <1>2, <2>1, <2>2, <2>3, <2>4, Rewritten
  <2>6. Carrying(next, assignment, disk) BY <1>5, <2>5 DEF Carrying, Handing, Sealed
  <2> QED BY <1>2, <1>5, <2>1, <2>5, <2>6
<1> HIDE DEF x
<1> QED BY <1>3, <1>5, <1>6, CommitCarries

LEMMA RejectedByWorkerCarries ==
  ASSUME HandInv, KeptInv, NEW c \in Claims, ~At(c, "off"), ~At(c, "begin"), RejectedByWorker(c),
         UNCHANGED <<disk, job, late>>
  PROVE  CarriedOn
<1> DEFINE x == exec[c].doc
           d == [x EXCEPT !.step = "rejected", !.open = FALSE]
           y == Goes(c, d, "after")
<1>1. Formed /\ x \in Doc BY Facts DEF HandInv
<1>2. d \in Doc /\ d.step = "rejected" /\ d.ckpt = x.ckpt /\ d.held = x.held
  <2> HIDE DEF x
  <2>1. "rejected" \in StepStates BY DEF StepStates
  <2> QED BY <1>1, <2>1, BegunFields
<1>3. Commit(c, y) /\ assignment' = assignment BY DEF RejectedByWorker
<1> HIDE DEF d
<1>4. y \in Exec /\ y.doc = d /\ y.at = "after" /\ y.by = exec[c].by BY <1>1, <1>2, GoesFields DEF Stands
<1> HIDE DEF y
<1>5. ASSUME late = {}, Passes(c)
      PROVE  /\ Sealed(y.doc, assignment, disk) /\ Carrying(y, assignment, disk)
             /\ y.doc.ckpt[2] >= doc.ckpt[2]
  <2>1. x.held = NoHold /\ x.ckpt = doc.ckpt /\ x.ckpt[2] \in Nat BY <1>5, OwnKept DEF x
  <2>2. Sealed(d, assignment, disk) BY <1>2, <2>1, Lost
  <2> HIDE DEF x
  <2> QED BY <1>2, <1>4, <2>1, <2>2, Over
<1> HIDE DEF x
<1> QED BY <1>3, <1>4, <1>5, CommitCarries

LEMMA AdoptedCarries ==
  ASSUME HandInv, KeptInv, NEW c \in Claims, ~At(c, "off"), ~At(c, "begin"), ~At(c, "follow"),
         Passes(c) => exec[c].doc.step # "succeeded", Adopted(c), UNCHANGED <<disk, job, late>>
  PROVE  CarriedOn
BY HandedOverCarries, RejectedByWorkerCarries DEF Adopted

LEMMA BeginStepCarries ==
  ASSUME HandInv, KeptInv, NEW c \in Claims, BeginStep(c)
  PROVE  CarriedOn
<1>1. /\ ~At(c, "off") /\ ~At(c, "begin") /\ ~At(c, "follow") /\ At(c, "loop") /\ Formed
      /\ exec[c].doc.step # "succeeded"
  BY DEF BeginStep, At, HandInv
<1>2. UNCHANGED <<disk, job, late>> BY DEF BeginStep
<1>3. CASE exec' = [exec EXCEPT ![c].at = "admit"] /\ UNCHANGED <<doc, assignment>>
  <2>1. PICK y \in Exec : /\ exec' = [exec EXCEPT ![c] = y] /\ y.doc = exec[c].doc
                          /\ y.at = "admit" /\ y.by = exec[c].by
    BY <1>1, <1>3, MovedTo DEF Stands
  <2>2. ASSUME late = {}, Passes(c) PROVE Carrying(y, assignment, disk)
    <3>1. Carrying(exec[c], assignment, disk) /\ exec[c].at = "loop" BY <1>1, <2>2, OwnKept DEF At
    <3> QED BY <1>1, <2>1, <3>1 DEF Carrying, Handing
  <2>3. y.at # "off" BY <2>1
  <2> QED BY <1>1, <1>2, <1>3, <2>1, <2>2, <2>3, MoveCarries
<1>4. CASE Adopted(c) BY <1>1, <1>2, <1>4, AdoptedCarries
<1>5. CASE Commit(c, Failed(c)) /\ UNCHANGED assignment BY <1>1, <1>2, <1>5, FailsCarries
<1> QED BY <1>3, <1>4, <1>5 DEF BeginStep, Reclaim

LEMMA AdmitCarries ==
  ASSUME HandInv, KeptInv, NEW c \in Claims, Admit(c)
  PROVE  CarriedOn
<1> DEFINE x == exec[c].doc
           begun == [x EXCEPT !.again = @ \cup ({x.step} \cap {"failed", "rejected"})]
           d == [begun EXCEPT !.step = "admitted"]
           e == [begun EXCEPT !.step = "rejected"]
           f == ContinuesFrom(x)
           y == Goes(c, d, "assign")
           z == Goes(c, e, "after")
           next == [y EXCEPT !.from = f]
<1>1. Formed /\ x \in Doc /\ ~At(c, "off") /\ ~At(c, "begin") /\ ~At(c, "follow") /\ At(c, "admit")
  BY Facts DEF Admit, At, HandInv
<1>2. UNCHANGED <<assignment, disk, job, late>> BY DEF Admit, workerVars
<1>3. /\ d \in Doc /\ d.step = "admitted" /\ d.seq = x.seq /\ d.open = x.open /\ d.kept = x.kept
      /\ d.id = x.id /\ d.held = x.held /\ d.ckpt = x.ckpt
      /\ d.again = x.again \cup ({x.step} \cap {"failed", "rejected"})
  <2> HIDE DEF x
  <2>1. "admitted" \in StepStates BY DEF StepStates
  <2>2. x \in Doc BY <1>1
  <2> DEFINE g == x.again \cup ({x.step} \cap {"failed", "rejected"})
  <2>3. g \in SUBSET {"failed", "rejected"} BY <2>2 DEF Doc
  <2>4. begun = [x EXCEPT !.again = g] OBVIOUS
  <2>5. d = [begun EXCEPT !.step = "admitted"] OBVIOUS
  <2> HIDE DEF g, begun, d
  <2>6. /\ begun \in Doc /\ begun.seq = x.seq /\ begun.open = x.open /\ begun.id = x.id
        /\ begun.held = x.held /\ begun.kept = x.kept /\ begun.ckpt = x.ckpt /\ begun.again = g
    BY <2>2, <2>3, <2>4 DEF Doc
  <2>7. /\ d \in Doc /\ d.step = "admitted" /\ d.seq = begun.seq /\ d.open = begun.open
        /\ d.id = begun.id /\ d.held = begun.held /\ d.kept = begun.kept
        /\ d.ckpt = begun.ckpt /\ d.again = begun.again
    BY <2>1, <2>5, <2>6 DEF Doc
  <2> QED BY <2>6, <2>7 DEF g
<1>4. e \in Doc /\ e.step = "rejected" /\ e.held = x.held /\ e.ckpt = x.ckpt
  <2> HIDE DEF x
  <2>1. "rejected" \in StepStates BY DEF StepStates
  <2> QED BY <1>1, <2>1, BegunFields
<1>5. f \in Refs \cup {NoRef} /\ f = (IF x.step = "stopped" THEN x.ckpt ELSE NoRef)
  BY <1>1 DEF ContinuesFrom, Doc
<1>6. Commit(c, next) \/ Commit(c, z) BY DEF Admit
<1>7. late = {} /\ Passes(c) =>
        /\ x = doc /\ Sealed(x, assignment, disk) /\ x.held = NoHold /\ x.ckpt[2] \in Nat
        /\ x.step \in {"planned", "rejected", "failed", "stopped"}
  <2> SUFFICES ASSUME late = {}, Passes(c)
               PROVE  /\ x = doc /\ Sealed(x, assignment, disk) /\ x.held = NoHold /\ x.ckpt[2] \in Nat
                      /\ x.step \in {"planned", "rejected", "failed", "stopped"}
    OBVIOUS
  <2>1. x = doc /\ Sealed(x, assignment, disk) /\ x.held = NoHold /\ x.ckpt[2] \in Nat
    BY <1>1, OwnKept
  <2>2. Carrying(exec[c], assignment, disk) /\ exec[c].at = "admit" BY <1>1, OwnKept DEF At
  <2>3. x.step \in {"planned", "rejected", "failed", "stopped", "succeeded"} /\ x.step # "succeeded"
    BY <2>2 DEF Carrying
  <2> QED BY <2>1, <2>3
<1> HIDE DEF d, e, f, x
<1>8. y \in Exec /\ y.doc = d /\ y.at = "assign" /\ y.by = exec[c].by BY <1>1, <1>3, GoesFields DEF Stands
<1>9. z \in Exec /\ z.doc = e /\ z.at = "after" /\ z.by = exec[c].by BY <1>1, <1>4, GoesFields DEF Stands
<1> HIDE DEF y, z
<1>10. next \in Exec /\ next.doc = d /\ next.at = "assign" /\ next.by = exec[c].by
  <2>1. "none" \in {"none", "capacity", "limit"} /\ TRUE \in BOOLEAN OBVIOUS
  <2>2. y \in Exec /\ f \in Refs \cup {NoRef} BY <1>5, <1>8
  <2>3. next \in Exec /\ next.doc = y.doc /\ next.at = y.at /\ next.by = y.by BY <2>1, <2>2, NotesKeep
  <2> HIDE DEF next
  <2> QED BY <1>8, <2>3
<1>11. next.from = f BY <1>5, <1>8 DEF Exec
<1> HIDE DEF next
<1>12. CASE Commit(c, next)
  <2>1. ASSUME late = {}, Passes(c)
        PROVE  /\ Sealed(next.doc, assignment, disk) /\ Carrying(next, assignment, disk)
               /\ next.doc.ckpt[2] >= doc.ckpt[2]
    <3>1. \A i \in Ids : Opens(d, i) => Opens(x, i) BY <1>3 DEF Opens
    <3>2. Clean(d) => Clean(x) BY <1>3 DEF Clean
    <3>3. Sealed(d, assignment, disk) BY <1>3, <1>7, <2>1, <3>1, <3>2, Rewritten
    <3>4. Clean(d) => f = x.ckpt
      <4> SUFFICES ASSUME Clean(d) PROVE f = x.ckpt
        OBVIOUS
      <4>1. Keeps(x, assignment, disk) /\ Clean(x) BY <1>7, <2>1, <3>2 DEF Sealed
      <4>2. x.step \in {"planned", "stopped"} BY <1>7, <2>1, <4>1 DEF Clean
      <4> QED BY <1>5, <4>1, <4>2 DEF Keeps
    <3>5. Carrying(next, assignment, disk) BY <1>3, <1>10, <1>11, <3>4 DEF Carrying, Handing
    <3> QED BY <1>3, <1>7, <1>10, <2>1, <3>3, <3>5
  <2>2. next.at # "off" BY <1>10
  <2> QED BY <1>1, <1>2, <1>10, <1>12, <2>1, <2>2, CommitCarries
<1>13. CASE Commit(c, z)
  <2>1. ASSUME late = {}, Passes(c)
        PROVE  /\ Sealed(z.doc, assignment, disk) /\ Carrying(z, assignment, disk)
               /\ z.doc.ckpt[2] >= doc.ckpt[2]
    <3>1. Sealed(e, assignment, disk) BY <1>4, <1>7, <2>1, Lost
    <3> QED BY <1>4, <1>7, <1>9, <2>1, <3>1, Over
  <2>2. z.at # "off" BY <1>9
  <2> QED BY <1>1, <1>2, <1>9, <1>13, <2>1, <2>2, CommitCarries
<1> QED BY <1>6, <1>12, <1>13

LEMMA AssignCarries ==
  ASSUME HandInv, KeptInv, NEW c \in Claims, Assign(c)
  PROVE  CarriedOn
<1> DEFINE x == exec[c].doc
           i == AssignedId(x)
           d == [x EXCEPT !.id = i, !.open = TRUE, !.seq = 0]
           y == Goes(c, d, "post")
<1>1. /\ Formed /\ x \in Doc /\ ~At(c, "off") /\ ~At(c, "begin") /\ ~At(c, "follow") /\ At(c, "assign")
      /\ i \in Ids
  BY Facts DEF Assign, At, HandInv
<1>2. UNCHANGED <<assignment, disk, job, late>> BY DEF Assign, workerVars
<1>3. Commit(c, y) BY DEF Assign
<1>4. Passes(c) => Fresh(x, assignment, late) /\ x.step = "admitted"
  BY <1>1, Own DEF Standing, At
<1>5. late = {} /\ Fresh(x, assignment, late) => ~Holding(assignment[i])
  <2>1. CASE x.open
    <3>1. Opens(x, i) BY <2>1 DEF Opens, AssignedId
    <3> QED BY <1>1, <3>1 DEF Fresh, Quiet
  <2>2. CASE ~x.open
    <3>1. ids \in Nat /\ Orderly(assignment[i], i, ids) BY <1>1, Facts DEF Formed
    <3>2. i = ids + 1 BY <2>2 DEF AssignedId
    <3>3. i > ids BY <3>1, <3>2
    <3>4. ~Holding(assignment[i]) BY <3>1, <3>3 DEF Orderly
    <3> QED BY <3>4
  <2> QED BY <2>1, <2>2
<1>6. late = {} /\ Passes(c) =>
        /\ x = doc /\ Sealed(x, assignment, disk) /\ x.held = NoHold /\ x.ckpt[2] \in Nat
        /\ (Clean(x) => exec[c].from = x.ckpt)
  <2> SUFFICES ASSUME late = {}, Passes(c)
               PROVE  /\ x = doc /\ Sealed(x, assignment, disk) /\ x.held = NoHold /\ x.ckpt[2] \in Nat
                      /\ (Clean(x) => exec[c].from = x.ckpt)
    OBVIOUS
  <2>1. x = doc /\ Sealed(x, assignment, disk) /\ x.held = NoHold /\ x.ckpt[2] \in Nat BY <1>1, OwnKept
  <2>2. Carrying(exec[c], assignment, disk) /\ exec[c].at = "assign" BY <1>1, OwnKept DEF At
  <2>3. Clean(x) => exec[c].from = x.ckpt BY <2>2 DEF Carrying
  <2> QED BY <2>1, <2>3
<1>7. /\ d \in Doc /\ d.id = i /\ d.open = TRUE /\ d.seq = 0 /\ d.held = x.held /\ d.kept = x.kept
      /\ d.step = x.step /\ d.ckpt = x.ckpt /\ d.again = x.again
  <2> HIDE DEF x, i
  <2> QED BY <1>1 DEF Doc
<1>8. y.from = exec[c].from
  <2>1. exec[c] \in Exec BY <1>1, Facts
  <2> HIDE DEF d
  <2> QED BY <2>1 DEF Goes, Exec
<1> HIDE DEF x, i, d
<1>9. y \in Exec /\ y.doc = d /\ y.at = "post" /\ y.by = exec[c].by BY <1>1, <1>7, GoesFields DEF Stands
<1> HIDE DEF y
<1>10. ASSUME late = {}, Passes(c)
       PROVE  /\ Sealed(y.doc, assignment, disk) /\ Carrying(y, assignment, disk)
              /\ y.doc.ckpt[2] >= doc.ckpt[2]
  <2>1. \A j \in Ids : Opens(d, j) => ~Holding(assignment[j]) BY <1>4, <1>5, <1>7, <1>10 DEF Opens
  <2>2. Clean(d) <=> Clean(x) BY <1>7 DEF Clean
  <2>3. Sealed(d, assignment, disk) BY <1>4, <1>6, <1>7, <1>10, <2>1, <2>2, Rewritten
  <2>4. Carrying(y, assignment, disk) BY <1>6, <1>7, <1>8, <1>9, <1>10, <2>2 DEF Carrying, Handing
  <2> QED BY <1>6, <1>7, <1>9, <1>10, <2>3, <2>4
<1> QED BY <1>1, <1>2, <1>3, <1>9, <1>10, CommitCarries

LEMMA FullCarries ==
  ASSUME HandInv, KeptInv, NEW c \in Claims, At(c, "full"), Full(c), UNCHANGED <<disk, job, late>>
  PROVE  CarriedOn
<1> DEFINE x == exec[c].doc
           closed == [x EXCEPT !.open = FALSE]
           d == [closed EXCEPT !.step = "stopped", !.ckpt = exec[c].from]
           e == [closed EXCEPT !.step = "failed"]
<1>1. /\ Formed /\ x \in Doc /\ exec[c].from \in Refs \cup {NoRef} /\ ~At(c, "off") /\ ~At(c, "begin")
      /\ ~At(c, "follow") /\ exec[c].at = "full"
  BY Facts DEF HandInv, At
<1>2. /\ d \in Doc /\ d.open = FALSE /\ d.held = x.held /\ d.kept = x.kept /\ d.seq = x.seq
      /\ d.again = x.again /\ d.step = "stopped" /\ d.ckpt = exec[c].from
      /\ e \in Doc /\ e.held = x.held /\ e.step = "failed" /\ e.ckpt = x.ckpt
  <2> HIDE DEF x
  <2>1. closed \in Doc /\ closed.open = FALSE /\ closed.held = x.held /\ closed.kept = x.kept
        /\ closed.seq = x.seq /\ closed.again = x.again /\ closed.ckpt = x.ckpt
    BY <1>1 DEF Doc
  <2> HIDE DEF closed
  <2>2. d \in Doc /\ d.open = closed.open /\ d.held = closed.held /\ d.step = "stopped"
        /\ d.kept = closed.kept /\ d.seq = closed.seq /\ d.again = closed.again /\ d.ckpt = exec[c].from
    BY <1>1, <2>1 DEF Doc, StepStates
  <2>3. e \in Doc /\ e.held = closed.held /\ e.step = "failed" /\ e.ckpt = closed.ckpt
    BY <1>1, <2>1 DEF Doc, StepStates
  <2> HIDE DEF d, e
  <2> QED BY <2>1, <2>2, <2>3
<1>3. PICK f \in {d, e} : Commit(c, [Goes(c, f, "after") EXCEPT !.why = "capacity"])
  BY DEF Full
<1>4. UNCHANGED assignment BY DEF Full
<1>5. late = {} /\ Passes(c) =>
        /\ x = doc /\ Sealed(x, assignment, disk) /\ x.held = NoHold /\ x.ckpt[2] \in Nat
        /\ (Clean(x) => exec[c].from = x.ckpt) /\ x.step = "admitted"
  <2> SUFFICES ASSUME late = {}, Passes(c)
               PROVE  /\ x = doc /\ Sealed(x, assignment, disk) /\ x.held = NoHold /\ x.ckpt[2] \in Nat
                      /\ (Clean(x) => exec[c].from = x.ckpt) /\ x.step = "admitted"
    OBVIOUS
  <2>1. x = doc /\ Sealed(x, assignment, disk) /\ x.held = NoHold /\ x.ckpt[2] \in Nat BY <1>1, OwnKept
  <2>2. Carrying(exec[c], assignment, disk) /\ Standing(exec[c], doc, assignment, late) BY <1>1, OwnKept, Own
  <2>3. (Clean(x) => exec[c].from = x.ckpt) /\ x.step = "admitted"
    BY <1>1, <2>2 DEF Carrying, Standing, Handing
  <2> QED BY <2>1, <2>3
<1> DEFINE y == Goes(c, f, "after")
           next == [y EXCEPT !.why = "capacity"]
<1>6. f \in Doc BY <1>2
<1> HIDE DEF x, d, e
<1>7. y \in Exec /\ y.doc = f /\ y.at = "after" /\ y.by = exec[c].by BY <1>1, <1>6, GoesFields DEF Stands
<1>8. Commit(c, next) BY <1>3
<1> HIDE DEF y
<1>9. next \in Exec /\ next.doc = f /\ next.at = "after" /\ next.by = exec[c].by
  <2>1. "capacity" \in {"none", "capacity", "limit"} /\ TRUE \in BOOLEAN /\ NoRef \in Refs \cup {NoRef}
    OBVIOUS
  <2> QED BY <1>7, <2>1, NotesKeep
<1> HIDE DEF next
<1>10. ASSUME late = {}, Passes(c)
       PROVE  /\ Sealed(next.doc, assignment, disk) /\ Carrying(next, assignment, disk)
              /\ next.doc.again = {} => next.doc.ckpt[2] >= doc.ckpt[2]
  <2>1. CASE f = d
    <3>1. Clean(d) => Clean(x) /\ d.ckpt = x.ckpt BY <1>2, <1>5, <1>10 DEF Clean
    <3>2. d.again = {} => d.ckpt = x.ckpt BY <1>2, <1>5, <1>10 DEF Clean
    <3>3. Sealed(d, assignment, disk)
      <4>1. CASE Clean(d)
        <5>1. \A i \in Ids : ~Opens(d, i) BY <1>2 DEF Opens
        <5> QED BY <1>2, <1>5, <1>10, <3>1, <4>1, <5>1, Rewritten
      <4>2. CASE ~Clean(d) BY <1>2, <1>5, <1>10, <4>2 DEF Sealed
      <4> QED BY <4>1, <4>2
    <3> QED BY <1>5, <1>9, <1>10, <2>1, <3>2, <3>3, Over
  <2>2. CASE f = e
    <3>1. Sealed(e, assignment, disk) BY <1>2, <1>5, <1>10, Lost
    <3> QED BY <1>2, <1>5, <1>9, <1>10, <2>2, <3>1, Over
  <2> QED BY <2>1, <2>2
<1>11. next.at # "off" BY <1>9
<1> QED BY <1>1, <1>4, <1>8, <1>9, <1>10, <1>11, CommitCarries

LEMMA AnsweredCarries ==
  ASSUME HandInv, KeptInv, NEW c \in Claims, Answered(c)
  PROVE  CarriedOn
<1>1. ~At(c, "off") /\ ~At(c, "begin") /\ ~At(c, "follow") /\ exec[c].at \in Handing
  BY DEF Answered, At, Handing
<1>2. Passes(c) => exec[c].doc.step # "succeeded" BY <1>1, Own DEF Standing
<1>3. UNCHANGED <<disk, job, late>> BY DEF Answered, counters
<1>4. CASE HandedOver(c, FALSE) BY <1>1, <1>2, <1>3, <1>4, HandedOverCarries
<1>5. CASE RejectedByWorker(c) BY <1>1, <1>3, <1>5, RejectedByWorkerCarries
<1>6. CASE Adopted(c) BY <1>1, <1>2, <1>3, <1>6, AdoptedCarries
<1>7. CASE Commit(c, Failed(c)) /\ UNCHANGED assignment BY <1>1, <1>3, <1>7, FailsCarries
<1>8. CASE At(c, "full") /\ Full(c) BY <1>3, <1>8, FullCarries
<1> QED BY <1>4, <1>5, <1>6, <1>7, <1>8 DEF Answered

LEMMA StreamEndsCarries ==
  ASSUME HandInv, KeptInv, NEW c \in Claims, StreamEnds(c)
  PROVE  CarriedOn
<1>1. ~At(c, "off") /\ ~At(c, "begin") BY DEF StreamEnds, At
<1>2. UNCHANGED <<disk, job, late>> /\ Commit(c, Failed(c)) /\ assignment' = Stopped(exec[c].doc.id)
  BY DEF StreamEnds
<1> QED BY <1>1, <1>2, FailsCarries

LEMMA EndCarries ==
  ASSUME HandInv, KeptInv, NEW c \in Claims, End(c)
  PROVE  CarriedOn
<1> DEFINE x == exec[c].doc
           run == RunAfter(c)
           d == [x EXCEPT !.run = run]
           y == Goes(c, d, "ended")
<1>1. /\ Formed /\ ~At(c, "off") /\ ~At(c, "begin") /\ ~At(c, "follow")
      /\ Placed(c, exec[c], job.claim, ids) /\ x \in Doc
  BY Facts DEF End, EndsStep, At, HandInv
<1>2. UNCHANGED <<assignment, disk, job, late>> BY DEF End, workerVars, counters
<1>3. x.step \in EndedSteps BY <1>1 DEF End, EndsStep, At, Placed, EndedSteps
<1>4. run \in RunStates BY <1>3 DEF RunAfter, EndedSteps, RunStates
<1>5. Commit(c, y) BY DEF End
<1>6. late = {} /\ Passes(c) => x = doc /\ Sealed(x, assignment, disk) /\ x.held = NoHold /\ x.ckpt[2] \in Nat
  BY <1>1, OwnKept
<1> HIDE DEF x, run
<1>7. /\ d \in Doc /\ d.open = x.open /\ d.id = x.id /\ d.kept = x.kept /\ d.seq = x.seq /\ d.held = x.held
      /\ d.step = x.step /\ d.handed = x.handed /\ d.ckpt = x.ckpt /\ d.again = x.again
  BY <1>1, <1>4 DEF Doc
<1> HIDE DEF d
<1>8. y \in Exec /\ y.doc = d /\ y.at = "ended" /\ y.by = exec[c].by BY <1>1, <1>7, GoesFields DEF Stands
<1> HIDE DEF y
<1>9. ASSUME late = {}, Passes(c)
      PROVE  /\ Sealed(y.doc, assignment, disk) /\ Carrying(y, assignment, disk)
             /\ y.doc.ckpt[2] >= doc.ckpt[2]
  <2>1. \A i \in Ids : Opens(d, i) => Opens(x, i) BY <1>7 DEF Opens
  <2>2. Clean(d) => Clean(x) BY <1>7 DEF Clean
  <2>3. x.step = "waiting human" <=> x.held # NoHold BY <1>6, <1>9 DEF Sealed
  <2>4. Sealed(d, assignment, disk) BY <1>6, <1>7, <1>9, <2>1, <2>2, <2>3, Rewritten
  <2> QED BY <1>6, <1>7, <1>8, <1>9, <2>4, Over
<1> QED BY <1>1, <1>2, <1>5, <1>8, <1>9, CommitCarries

\* No execution passes the fence any more, and the document is the one before.
LEMMA GivenBackCarries ==
  ASSUME HandInv, KeptInv, Formed', job'.by \notin Runners, UNCHANGED <<assignment, disk, doc, late>>
  PROVE  CarriedOn
<1>1. SameRecord(assignment, assignment') /\ Formed BY DEF SameRecord, HandInv
<1>2. Carryings' BY NobodyCarries
<1>3. GoesOnFromBoundary BY <1>1, OnFromBoundary
<1> QED BY <1>2, <1>3 DEF CarriedOn, KeptInv

LEMMA DisposeCarries ==
  ASSUME HandInv, KeptInv, NEW c \in Claims, Dispose(c)
  PROVE  CarriedOn
<1>1. /\ UNCHANGED <<assignment, disk, late, doc>>
      /\ exec' = [exec EXCEPT ![c] = NoExec] /\ exec \in [Claims -> Exec]
      /\ \/ job' = job
         \/ job' = [job EXCEPT !.by = NoOne, !.lapsed = FALSE]
         \/ job' = [job EXCEPT !.queued = FALSE, !.by = NoOne, !.ask = NoAsk]
  BY Facts DEF Dispose, workerVars, counters, HandInv
<1>2. CASE job' = job
  <2>1. \A k \in Claims : exec'[k] = exec[k] \/ exec'[k].at = "off" BY <1>1, NoExecTyped
  <2> QED BY <1>1, <1>2, <2>1, SameCarryings DEF SameRecord
<1>3. CASE job' # job
  <2>1. job'.by = NoOne
    <3>1. job \in Job BY RowFacts DEF HandInv
    <3> QED BY <1>1, <1>3, <3>1 DEF Job
  <2>2. Formed' BY DisposeFormed DEF HandInv
  <2> QED BY <1>1, <2>1, <2>2, NullsApart, GivenBackCarries
<1> QED BY <1>2, <1>3

LEMMA TakenOverCarries ==
  ASSUME HandInv, KeptInv, NEW c \in Claims, TakenOver(c)
  PROVE  CarriedOn
<1> DEFINE held == job.claim + 1
           x == exec[c].doc
           d == [x EXCEPT !.step = "waiting human", !.run = "waiting human", !.held = held]
<1>1. Formed /\ x \in Doc /\ ~At(c, "begin") /\ ~At(c, "follow") /\ At(c, "after") /\ x.step = "stopped"
      /\ exec \in [Claims -> Exec]
  BY Facts DEF TakenOver, At, HandInv, Servable
<1>2. /\ UNCHANGED <<assignment, disk, late>> /\ exec' = [exec EXCEPT ![c] = NoExec]
      /\ \/ UNCHANGED <<doc, job>>
         \/ /\ Passes(c) /\ doc' = d
            /\ job' = [job EXCEPT !.claim = held, !.by = Person, !.lapsed = FALSE, !.held = TRUE,
                                  !.ask = NoAsk]
  BY DEF TakenOver, workerVars, counters
<1>3. CASE UNCHANGED <<doc, job>>
  <2>1. \A k \in Claims : exec'[k] = exec[k] \/ exec'[k].at = "off" BY <1>1, <1>2, NoExecTyped
  <2> QED BY <1>2, <1>3, <2>1, SameCarryings DEF SameRecord
<1>4. CASE /\ Passes(c) /\ doc' = d
           /\ job' = [job EXCEPT !.claim = held, !.by = Person, !.lapsed = FALSE, !.held = TRUE,
                                 !.ask = NoAsk]
  <2>1. job'.by = Person /\ held # NoHold
    <3>1. job \in Job /\ job.claim \in Nat BY <1>1, RowFacts
    <3> QED BY <1>4, <3>1 DEF Job, NoHold
  <2>2. Formed' BY <1>1, TakenOverFormed
  <2>3. Carryings' BY <2>1, <2>2, NullsApart, NobodyCarries
  <2>4. late = {} => x = doc /\ Sealed(x, assignment, disk) /\ x.ckpt[2] \in Nat
    BY <1>1, <1>4, OwnKept
  <2> HIDE DEF x, held
  <2>5. /\ d.open = x.open /\ d.id = x.id /\ d.kept = x.kept /\ d.seq = x.seq /\ d.step = "waiting human"
        /\ d.held = held /\ d.ckpt = x.ckpt /\ d.again = x.again
    BY <1>1 DEF Doc
  <2> HIDE DEF d
  <2>6. late = {} => Sealed(d, assignment, disk)
    <3>1. \A i \in Ids : Opens(d, i) => Opens(x, i) BY <2>5 DEF Opens
    <3>2. Clean(d) => Clean(x) BY <1>1, <2>5 DEF Clean
    <3> QED BY <1>1, <2>1, <2>4, <2>5, <3>1, <3>2, Rewritten
  <2>7. SameRecord(assignment, assignment') BY <1>2 DEF SameRecord
  <2>8. late = {} => GoesOnFromBoundary
    <3>a. doc' = d BY <1>4
    <3>b. ASSUME late = {} PROVE d.ckpt[2] >= doc.ckpt[2]
      <4>1. x = doc /\ x.ckpt[2] \in Nat BY <2>4, <3>b
      <4>2. d.ckpt = doc.ckpt /\ doc.ckpt[2] \in Nat BY <2>5, <4>1
      <4> QED BY <4>2
    <3>1. late = {} => doc'.ckpt[2] >= doc.ckpt[2] BY <3>a, <3>b
    <3> QED BY <1>1, <2>7, <3>1, OnFromBoundary
  <2> QED BY <1>2, <1>4, <2>3, <2>6, <2>8 DEF CarriedOn, KeptInv
<1> QED BY <1>2, <1>3, <1>4

LEMMA RefuseTakeoverCarries ==
  ASSUME HandInv, KeptInv, NEW c \in Claims, RefuseTakeover(c)
  PROVE  CarriedOn
<1>1. /\ UNCHANGED <<assignment, disk, late, doc>>
      /\ exec' = exec \/ exec' = [exec EXCEPT ![c] = NoExec]
      /\ \E q : job' = job \/ job' = [job EXCEPT !.ask = q]
  BY DEF RefuseTakeover, workerVars, counters
<1>2. job'.queued = job.queued /\ job'.claim = job.claim /\ job'.by = job.by
  <2>1. job \in Job BY RowFacts DEF HandInv
  <2> QED BY <1>1, <2>1 DEF Job
<1>3. \A k \in Claims : exec'[k] = exec[k] \/ exec'[k].at = "off"
  <2>1. exec \in [Claims -> Exec] BY DEF HandInv, Formed, TypeOK
  <2> QED BY <1>1, <2>1, NoExecTyped
<1> QED BY <1>1, <1>2, <1>3, SameCarryings DEF SameRecord

LEMMA ClaimCarries ==
  ASSUME HandInv, KeptInv, NEW r \in Runners, Claim(r)
  PROVE  CarriedOn
<1> DEFINE c == job.claim + 1
           x == [NoExec EXCEPT !.by = r, !.at = "begin"]
<1>1. /\ UNCHANGED <<assignment, disk, late, doc>>
      /\ job' = [job EXCEPT !.claim = c, !.by = r, !.lapsed = FALSE, !.held = FALSE]
      /\ exec' = [exec EXCEPT ![c] = x]
  BY DEF Claim, workerVars, counters
<1>2. job'.claim = c
  <2>1. job \in Job BY RowFacts DEF HandInv
  <2> QED BY <1>1, <2>1 DEF Job
<1>3. x.at = "begin" BY DEF NoExec
<1> HIDE DEF x
<1>4. exec \in [Claims -> Exec] BY DEF HandInv, Formed, TypeOK
<1>5. ASSUME NEW k \in Claims, Passes(k)' PROVE At(k, "begin")'
  <2>1. k = c BY <1>2, <1>5 DEF Passes
  <2>2. exec'[k] = x BY <1>1, <1>4, <2>1
  <2> QED BY <1>3, <2>2 DEF At
<1>6. Carryings' BY <1>5 DEF Carryings
<1>7. SameRecord(assignment, assignment') /\ Formed BY <1>1 DEF SameRecord, HandInv
<1>8. GoesOnFromBoundary BY <1>1, <1>7, OnFromBoundary
<1> QED BY <1>1, <1>6, <1>8 DEF CarriedOn, KeptInv

LEMMA CrashCarries ==
  ASSUME HandInv, KeptInv, NEW r \in Runners, Crash(r)
  PROVE  CarriedOn
<1>1. /\ UNCHANGED <<assignment, disk, late, doc>>
      /\ exec' = [c \in Claims |-> IF exec[c].by = r THEN NoExec ELSE exec[c]]
      /\ job' = job \/ job' = [job EXCEPT !.lapsed = TRUE]
  BY DEF Crash, workerVars
<1>2. job'.queued = job.queued /\ job'.claim = job.claim /\ job'.by = job.by
  <2>1. job \in Job BY RowFacts DEF HandInv
  <2> QED BY <1>1, <2>1 DEF Job
<1>3. \A k \in Claims : exec'[k] = exec[k] \/ exec'[k].at = "off" BY <1>1, NoExecTyped
<1> QED BY <1>1, <1>2, <1>3, SameCarryings DEF SameRecord

LEMMA HearCarries ==
  ASSUME HandInv, KeptInv, NEW c \in Claims, Hear(c)
  PROVE  CarriedOn
<1>1. /\ UNCHANGED <<disk, doc, job, exec, late>>
      /\ \E i : assignment' = assignment \/ assignment' = Stopped(i)
  BY DEF Hear, counters
<1>2. PICK i : assignment' = assignment \/ assignment' = Stopped(i) BY <1>1
<1>3. SameRecord(assignment, assignment') BY <1>2, StopSame DEF HandInv
<1> QED BY <1>1, <1>3, SameCarryings

LEMMA RowChangesCarry ==
  ASSUME HandInv, KeptInv, AskTakeover \/ HoldEnds \/ LeaseLapses \/ HandBack
  PROVE  CarriedOn
<1>1. UNCHANGED <<assignment, disk, late, exec>>
  BY DEF AskTakeover, HoldEnds, LeaseLapses, HandBack, workerVars, counters
<1>2. job \in Job BY RowFacts DEF HandInv
<1>3. CASE AskTakeover \/ HoldEnds \/ LeaseLapses
  <2>1. UNCHANGED doc /\ \E q, b : job' = [job EXCEPT !.ask = q] \/ job' = [job EXCEPT !.lapsed = b]
    BY <1>3 DEF AskTakeover, HoldEnds, LeaseLapses
  <2>2. job'.queued = job.queued /\ job'.claim = job.claim /\ job'.by = job.by
    BY <1>2, <2>1 DEF Job
  <2> QED BY <1>1, <2>1, <2>2, SameCarryings DEF SameRecord
<1>4. CASE HandBack
  <2> DEFINE d == [doc EXCEPT !.step = "succeeded", !.held = NoHold, !.handed = doc.held]
  <2>1. doc' = d /\ job'.by = NoOne /\ doc.held # NoHold
    BY <1>2, <1>4 DEF HandBack, Job
  <2>2. Formed' BY <1>4, RowChangesFormed DEF HandInv
  <2>3. Carryings' BY <2>1, <2>2, NullsApart, NobodyCarries
  <2>4. Formed /\ doc \in Doc /\ Settled(doc) /\ doc.ckpt[2] \in Nat BY Ckpts DEF HandInv, Formed, TypeOK
  <2>5. /\ d.open = doc.open /\ d.id = doc.id /\ d.kept = doc.kept /\ d.seq = doc.seq /\ d.held = NoHold
        /\ d.handed = doc.held /\ d.step = "succeeded" /\ d.ckpt = doc.ckpt /\ d.again = doc.again
    BY <2>4 DEF Doc, StepStates
  <2> HIDE DEF d
  <2>6. ASSUME late = {} PROVE Sealed(d, assignment, disk)
    <3>1. doc.step = "waiting human" /\ Sealed(doc, assignment, disk) BY <2>1, <2>6 DEF KeptInv, Sealed
    <3>2. \A i \in Ids : Opens(d, i) => Opens(doc, i) BY <2>5 DEF Opens
    <3>3. Clean(d) => Clean(doc) BY <2>5, <3>1 DEF Clean
    <3> QED BY <2>1, <2>5, <3>1, <3>2, <3>3, Rewritten
  <2>7. SameRecord(assignment, assignment') BY <1>1 DEF SameRecord
  <2>8. GoesOnFromBoundary BY <2>1, <2>4, <2>5, <2>7, OnFromBoundary
  <2> QED BY <1>1, <2>1, <2>3, <2>6, <2>8 DEF CarriedOn, KeptInv
<1> QED BY <1>3, <1>4

LEMMA WorkerTroubleCarries ==
  ASSUME HandInv, KeptInv, WorkerTrouble
  PROVE  CarriedOn
<1>1. /\ UNCHANGED <<disk, doc, job, exec, late>>
      /\ assignment' = [i \in Ids |-> Unknown(assignment[i].life)]
  BY DEF WorkerTrouble, WorkerRestarts
<1>2. AllForgotten(assignment, assignment') BY <1>1 DEF AllForgotten
<1> QED BY <1>1, <1>2, SameCarryings

\* What is known of a record's artifacts stays known while the agent goes on with its assignment.
LEMMA KeepsFurther ==
  ASSUME HandInv, NEW i \in Ids, Working(assignment[i]), Further(i), late = {}, NEW d \in Doc,
         Accounted(d, assignment, late), Settled(d), Keeps(d, assignment, disk)
  PROVE  Keeps(d, assignment', disk')
<1>1. Opens(d, i) /\ Holding(assignment[i]) /\ ~Quiet(assignment, late, i)
  BY DEF Accounted, Working, Holding, Quiet
<1>2. d.seq <= Len(assignment[i].events) BY <1>1 DEF Accounted
<1>3. Follows(d, assignment[i], disk) BY <1>1 DEF Keeps
<1>4. Follows(d, assignment'[i], disk') /\ Brought(d, disk, disk') BY <1>2, <1>3 DEF Further
<1>5. \A j \in Ids : Opens(d, j) => j = i BY <1>1 DEF Opens
<1>6. ~(d.step = "succeeded" /\ d.handed = NoHold) BY <1>1 DEF Settled, Opens
<1>7. d.ckpt \in Refs \cup {NoRef} BY Ckpts
<1>8. \A r \in Refs : disk[r] # <<>> => disk'[r] # <<>> BY DEF Further
<1> QED BY <1>4, <1>5, <1>6, <1>7, <1>8 DEF Keeps, Brought

LEMMA WorkerCarries ==
  ASSUME HandInv, KeptInv, NEW i \in Ids, Worker(i)
  PROVE  CarriedOn
<1>1. UNCHANGED <<doc, job, exec, late>> BY DEF Worker, counters
<1>2. Further(i) /\ Working(assignment[i]) BY AgentFurther DEF HandInv, KeptInv
<1>3. Formed /\ doc \in Doc /\ doc.ckpt[2] \in Nat /\ exec \in [Claims -> Exec]
  BY Ckpts DEF HandInv, Formed, TypeOK
<1>4. Traces(assignment', disk') BY <1>2 DEF Further
<1>5. late = {} => Sealed(doc', assignment', disk')
  BY <1>1, <1>2, <1>3, KeepsFurther DEF HandInv, KeptInv, Sealed
<1>6. ASSUME late = {}, NEW k \in Claims, Passes(k)', ~At(k, "begin")'
      PROVE  Carrying(exec'[k], assignment', disk')
  <2>1. Passes(k) /\ ~At(k, "begin") /\ exec'[k] = exec[k] BY <1>1, <1>6 DEF Passes, Names, At
  <2>2. Carrying(exec[k], assignment, disk) BY <1>6, <2>1 DEF KeptInv, Carryings
  <2>3. exec[k].doc \in Doc BY <1>3 DEF Exec
  <2>4. Accounted(exec[k].doc, assignment, late) /\ Settled(exec[k].doc) BY <2>1, Own
  <2>5. Keeps(exec[k].doc, assignment, disk) => Keeps(exec[k].doc, assignment', disk')
    BY <1>2, <1>6, <2>3, <2>4, KeepsFurther
  <2> QED BY <2>1, <2>2, <2>5 DEF Carrying
<1>7. late = {} => Carryings' BY <1>6 DEF Carryings
<1>8. GoesOnFromBoundary
  <2>1. Continued(assignment, assignment') BY AgentContinues DEF HandInv
  <2>2. \A j \in Ids : Holding(assignment'[j]) <=> Holding(assignment[j]) BY <2>1 DEF Continued, GoesOn
  <2>3. \A j \in Ids : Known(j)' <=> Known(j) BY <2>2 DEF Known, Holding
  <2> QED BY <1>1, <1>3, <2>3 DEF GoesOnFromBoundary
<1> QED BY <1>1, <1>4, <1>5, <1>7, <1>8 DEF CarriedOn, KeptInv

\* What the worker has just taken has left nothing behind.
LEMMA TracedTaken ==
  ASSUME NEW a, NEW i, NEW f, NEW b, Taken(a, i, f, b)
  PROVE  /\ Artifacts(a) = {} /\ Boundaries(a) = {}
         /\ \A life, D : Traced(a, life, D)
<1>1. \A m \in 1 .. Len(a.events) : /\ a.events[m].kind = "finished" /\ a.events[m].ref = NoRef
                                    /\ a.events[m].outcome = "rejected"
  <2> SUFFICES ASSUME NEW m \in 1 .. Len(a.events)
               PROVE  /\ a.events[m].kind = "finished" /\ a.events[m].ref = NoRef
                      /\ a.events[m].outcome = "rejected"
    OBVIOUS
  <2>1. m = 1 /\ b BY DEF Taken
  <2> QED BY <2>1 DEF Taken
<1>2. Artifacts(a) = {} /\ Boundaries(a) = {} BY <1>1 DEF Artifacts, Boundaries
<1> QED BY <1>1, <1>2 DEF Traced

\* An assignment that continues from the record's checkpoint begins with what the record holds.
LEMMA FollowsTaken ==
  ASSUME Formed, NEW d \in Doc, d.step # "succeeded", Keeps(d, assignment, disk), Blank(d),
         NEW a, NEW i, NEW b, Taken(a, i, d.ckpt, b)
  PROVE  Follows(d, a, disk) /\ Len(a.made) = d.ckpt[2]
<1> DEFINE k == d.ckpt
<1>1. k \in Refs \cup {NoRef} /\ k[2] \in Nat /\ (k = NoRef <=> k[2] = 0) BY Ckpts
<1>2. a.made = (IF k = NoRef THEN <<>> ELSE disk[k]) BY DEF Taken
<1>3. Len(a.made) = k[2]
  <2>1. CASE k = NoRef BY <1>1, <1>2, <2>1
  <2>2. CASE k # NoRef
    <3>1. disk[k] # <<>> /\ k \in Refs BY <1>1, <2>2 DEF Keeps
    <3>2. Len(disk[k]) = k[2] BY <3>1 DEF Formed, Stored
    <3> QED BY <1>2, <2>2, <3>2
  <2> QED BY <2>1, <2>2
<1>4. \A u \in 1 .. k[2] : /\ a.made[u] = disk[k][u] /\ d.kept[u] = disk[k][u] /\ d.kept[u] \in Lives
  <2> SUFFICES ASSUME NEW u \in 1 .. k[2]
               PROVE  a.made[u] = disk[k][u] /\ d.kept[u] = disk[k][u] /\ d.kept[u] \in Lives
    OBVIOUS
  <2>1. k # NoRef BY <1>1
  <2>2. k \in Refs /\ disk[k] \in Seq(Lives) BY <1>1, <2>1 DEF Formed, TypeOK
  <2>3. d.kept[u] = disk[k][u] BY <2>1 DEF Keeps
  <2>4. a.made = disk[k] BY <1>2, <2>1
  <2>5. disk[k][u] \in Lives
    <3> DEFINE q == disk[k]
    <3>1. q \in Seq(Lives) /\ Len(q) = k[2] BY <1>3, <2>2, <2>4
    <3> HIDE DEF q
    <3>2. q[u] \in Lives BY <3>1
    <3> QED BY <3>2 DEF q
  <2> QED BY <2>3, <2>4, <2>5
<1>5. \A u \in 1 .. k[2] : d.kept[u] # NoLife BY <1>4, NullsApart DEF Lives, NoLife
<1>6. \A u \in 1 .. Closing : d.kept[u] # NoLife => u <= k[2]
  BY <1>1, Numbers DEF Blank
<1>7. \A u \in 1 .. Closing : d.kept[u] # NoLife => u <= Len(a.made) /\ d.kept[u] = a.made[u]
  BY <1>1, <1>3, <1>4, <1>6, Numbers
<1>8. Artifacts(a) = {} /\ Boundaries(a) = {} BY TracedTaken
<1>9. k[2] <= Len(a.made) BY <1>1, <1>3
<1> QED BY <1>3, <1>4, <1>5, <1>7, <1>8, <1>9 DEF Follows

\* An execution that stands elsewhere has the checkpoint it continues from.
LEMMA MovedFrom ==
  ASSUME Formed, NEW c \in Claims, NEW s \in Stands, exec' = [exec EXCEPT ![c].at = s]
  PROVE  \E y \in Exec : /\ exec' = [exec EXCEPT ![c] = y] /\ y.doc = exec[c].doc
                         /\ y.at = s /\ y.by = exec[c].by /\ y.from = exec[c].from
<1> DEFINE y == [exec[c] EXCEPT !.at = s]
<1>1. exec[c] \in Exec /\ exec \in [Claims -> Exec] BY Facts
<1>2. exec' = [exec EXCEPT ![c] = y] BY <1>1
<1>3. y \in Exec /\ y.doc = exec[c].doc /\ y.by = exec[c].by /\ y.at = s /\ y.from = exec[c].from
  BY <1>1 DEF Exec, Stands
<1> QED BY <1>2, <1>3

LEMMA PostCarries ==
  ASSUME HandInv, KeptInv, NEW c \in Claims, Post(c)
  PROVE  CarriedOn
<1> DEFINE x == exec[c].doc
           i == x.id
           f == exec[c].from
           A == assignment
           B == assignment'
<1>1. /\ Formed /\ ~At(c, "off") /\ ~At(c, "begin") /\ ~At(c, "follow") /\ At(c, "post")
      /\ exec[c].at \in Handing /\ x \in Doc /\ A \in [Ids -> Assignment]
      /\ f \in Refs \cup {NoRef} /\ doc \in Doc
  BY Facts DEF Post, At, Handing, HandInv
<1>2. x.open /\ i \in Ids /\ i <= ids BY <1>1, Facts DEF Placed, Named
<1>3. UNCHANGED <<disk, doc, job>> BY DEF Post
<1>4. PICK s \in {"accepted", "rejected", "broken", "exists", "full"}, b \in BOOLEAN :
        /\ exec' = [exec EXCEPT ![c].at = s]
        /\ Takes(c, b) \/ UNCHANGED <<assignment, late>>
  BY DEF Post
<1>5. PICK y \in Exec : /\ exec' = [exec EXCEPT ![c] = y] /\ y.doc = x /\ y.at = s /\ y.by = exec[c].by
                        /\ y.from = f
  <2>1. s \in Stands BY DEF Stands
  <2>2. exec' = [exec EXCEPT ![c].at = s] BY <1>4
  <2>3. \E y \in Exec : /\ exec' = [exec EXCEPT ![c] = y] /\ y.doc = exec[c].doc
                        /\ y.at = s /\ y.by = exec[c].by /\ y.from = exec[c].from
    BY <1>1, <2>1, <2>2, MovedFrom
  <2> QED BY <2>3
<1>6. late = {} /\ Passes(c) =>
        /\ x = doc /\ Sealed(doc, A, disk) /\ doc.step = "admitted" /\ (Clean(doc) => f = doc.ckpt)
  <2> SUFFICES ASSUME late = {}, Passes(c)
               PROVE  x = doc /\ Sealed(doc, A, disk) /\ doc.step = "admitted" /\ (Clean(doc) => f = doc.ckpt)
    OBVIOUS
  <2>1. Carrying(exec[c], A, disk) /\ Sealed(doc, A, disk) /\ x = doc BY <1>1, OwnKept
  <2>2. doc.step = "admitted" BY <1>1, <2>1, Own DEF Standing
  <2>3. Clean(x) => f = x.ckpt BY <1>1, <2>1 DEF Carrying
  <2> QED BY <2>1, <2>2, <2>3
<1>7. late = {} /\ Passes(c) => \A E, D : Carrying(y, E, D)
  BY <1>5, <1>6 DEF Carrying
<1>8. s # "off" BY <1>4
<1>9. CASE UNCHANGED <<assignment, late>>
  <2>1. y.at # "off" /\ y.by = exec[c].by /\ exec' = [exec EXCEPT ![c] = y] BY <1>5, <1>8
  <2> QED BY <1>1, <1>3, <1>7, <1>9, <2>1, MoveCarries
<1>10. CASE Takes(c, b)
  <2> DEFINE a == Accepted(i, f, b)
  <2>1. ~Known(i) /\ A[i].life < MaxLives BY <1>10 DEF Takes, Answer
  <2>2. Taken(a, i, f, b) BY <1>1, <1>2, <2>1, AcceptedOrderly
  <2>3. B = [A EXCEPT ![i] = a] /\ late' = IF Passes(c) THEN late ELSE late \cup {<<i, A[i].life + 1>>}
    BY <1>10 DEF Takes
  <2>4. Opens(x, i) /\ \A j \in Ids : Opens(x, j) => j = i BY <1>2 DEF Opens
  <2> HIDE DEF a, x, i, f
  <2>5. \A j \in Ids : B[j] = IF j = i THEN a ELSE A[j] BY <1>1, <1>2, <2>3
  <2>6. Traces(B, disk')
    <3> SUFFICES ASSUME NEW j \in Ids PROVE Traced(B[j], LifeIn(B, j), disk')
      BY DEF Traces
    <3>1. CASE j = i BY <2>2, <2>5, <3>1, TracedTaken
    <3>2. CASE j # i
      <4>1. B[j] = A[j] /\ LifeIn(B, j) = LifeIn(A, j) BY <2>5, <3>2 DEF LifeIn
      <4> QED BY <1>3, <4>1 DEF KeptInv, Traces
    <3> QED BY <3>1, <3>2
  <2>7. CASE late' # {} BY <2>6, <2>7 DEF CarriedOn, KeptInv
  <2>8. CASE late' = {}
    <3>1. Passes(c) /\ late = {} BY <2>3, <2>8
    <3>2. /\ x = doc /\ Sealed(doc, A, disk) /\ doc.step = "admitted" /\ (Clean(doc) => f = doc.ckpt)
      BY <1>6, <3>1
    <3>3. ASSUME Clean(doc)
          PROVE  Keeps(doc, A, disk) /\ Blank(doc) /\ Follows(doc, a, disk) /\ Len(a.made) = doc.ckpt[2]
      <4>1. Keeps(doc, A, disk) /\ Blank(doc) /\ doc.step # "succeeded" BY <3>2, <3>3 DEF Sealed
      <4>2. Taken(a, i, doc.ckpt, b) BY <2>2, <3>2, <3>3
      <4> QED BY <1>1, <4>1, <4>2, FollowsTaken
    <3>4. Clean(doc) => Keeps(doc, B, disk)
      <4>1. \A j \in Ids : Opens(doc, j) => j = i BY <2>4, <3>2
      <4>2. B[i] = a BY <1>2, <2>5
      <4> QED BY <3>2, <3>3, <4>1, <4>2 DEF Keeps
    <3>5. Sealed(doc, B, disk) BY <3>2, <3>3, <3>4 DEF Sealed
    <3>6. Carryings'
      <4>1. Carrying(y, assignment', disk') BY <1>7, <3>1
      <4>2. exec' = [exec EXCEPT ![c] = y] /\ y.by = exec[c].by BY <1>5
      <4>3. Carryings BY <3>1 DEF KeptInv
      <4> QED BY <1>1, <1>3, <3>1, <4>1, <4>2, <4>3, CarryingsStep
    <3>7. ASSUME doc.again = {} PROVE GoesOnFromBoundary
      <4>1. Clean(doc) /\ doc.ckpt[2] \in Nat BY <1>1, <3>2, <3>7, Ckpts DEF Clean
      <4>2. Len(a.made) = doc.ckpt[2] BY <3>3, <4>1
      <4>3. \A j \in Ids : ~Known(j) /\ Known(j)' => B[j] = a BY <2>5 DEF Known
      <4>4. \A j \in Ids : ~Known(j) /\ Known(j)' => Len(B[j].made) >= doc.ckpt[2]
        BY <4>1, <4>2, <4>3
      <4>5. doc'.ckpt[2] >= doc.ckpt[2] BY <1>3, <4>1
      <4> QED BY <4>4, <4>5 DEF GoesOnFromBoundary
    <3> QED BY <1>3, <2>6, <3>5, <3>6, <3>7 DEF CarriedOn, KeptInv
  <2> QED BY <2>7, <2>8
<1> QED BY <1>4, <1>9, <1>10

-----------------------------------------------------------------------------
(* What reading an event does for the record.                             *)

\* An artifact's event is read once, and its unit is nobody's before.
LEMMA ReadsArtifact ==
  ASSUME NEW a \in Assignment, NEW life \in Lives, NEW D, Traced(a, life, D), Len(a.made) <= Closing,
         NEW d \in Doc, NEW n \in Nat, n = d.seq + 1, n \in Artifacts(a), Follows(d, a, D),
         NEW w \in Doc, w.seq = n, w.ckpt = d.ckpt,
         \A u \in 1 .. Closing :
           w.kept[u] = IF u = Unit(a, n) /\ ~Holds(d, u) THEN life ELSE d.kept[u]
  PROVE  Follows(w, a, D)
<1> DEFINE U == Unit(a, n)
<1>1. /\ U \in 1 .. Len(a.made) /\ a.made[U] = life /\ d.kept[U] = NoLife /\ Len(a.made) \in Nat
      /\ \A m \in Artifacts(a) : Unit(a, m) = U => m = n
  <2>1. n > d.seq /\ Len(a.made) \in Nat BY Fields DEF Doc
  <2> QED BY <2>1 DEF Traced, Follows
<1>2. U \in 1 .. Closing /\ \A u \in 1 .. Len(a.made) : u \in 1 .. Closing BY <1>1, Numbers
<1>3. \A u \in 1 .. Closing : w.kept[u] = IF u = U THEN life ELSE d.kept[u]
  BY <1>1 DEF Holds
<1> HIDE DEF U
<1>4. \A m \in Artifacts(a) : m \in Nat /\ (m > n => m > d.seq /\ m # n) /\ (m > d.seq => m >= n)
  BY DEF Artifacts, Doc
<1>5. \A m \in Boundaries(a) : m # n /\ (m > n => m > d.seq)
  <2>1. n \notin Boundaries(a) BY DEF Artifacts, Boundaries
  <2> QED BY <2>1 DEF Boundaries, Doc
<1>6. \A u \in 1 .. Closing : w.kept[u] # NoLife => u <= Len(a.made) /\ w.kept[u] = a.made[u]
  BY <1>1, <1>3 DEF Follows
<1>7. \A m \in Artifacts(a) : m > n => w.kept[Unit(a, m)] = NoLife
  <2> SUFFICES ASSUME NEW m \in Artifacts(a), m > n PROVE w.kept[Unit(a, m)] = NoLife
    OBVIOUS
  <2>1. Unit(a, m) \in 1 .. Closing BY <1>2 DEF Traced
  <2>2. d.kept[Unit(a, m)] = NoLife /\ Unit(a, m) # U BY <1>1, <1>4 DEF Follows, U
  <2> QED BY <1>3, <2>1, <2>2
<1>8. \A u \in 1 .. Len(a.made) : w.kept[u] = NoLife => \E m \in Artifacts(a) : m > n /\ Unit(a, m) = u
  <2> SUFFICES ASSUME NEW u \in 1 .. Len(a.made), w.kept[u] = NoLife
               PROVE  \E m \in Artifacts(a) : m > n /\ Unit(a, m) = u
    OBVIOUS
  <2>1. life # NoLife BY NullsApart DEF Lives, NoLife
  <2>2. u # U /\ d.kept[u] = NoLife BY <1>2, <1>3, <2>1
  <2>3. PICK m \in Artifacts(a) : m > d.seq /\ Unit(a, m) = u BY <2>2 DEF Follows
  <2>4. m # n BY <2>2, <2>3 DEF U
  <2>5. m > n BY <1>4, <2>3, <2>4
  <2> QED BY <2>3, <2>5
<1> QED BY <1>5, <1>6, <1>7, <1>8 DEF Follows

\* A boundary's event is read: what its checkpoint brings along is kept.
LEMMA ReadsBoundary ==
  ASSUME NEW a \in Assignment, NEW life, NEW D, Traced(a, life, D),
         NEW d \in Doc, NEW n \in Nat, n = d.seq + 1, n \in Boundaries(a), Follows(d, a, D),
         NEW w \in Doc, w.seq = n, w.ckpt = a.events[n].ref, w.kept = d.kept
  PROVE  Follows(w, a, D) /\ w.ckpt[2] >= d.ckpt[2]
<1>1. /\ a.events[n].ref \in Refs /\ Upto(a, n) <= Len(a.made) /\ Upto(a, n) \in Nat /\ n > d.seq
      /\ w.ckpt[2] = Upto(a, n) /\ d.ckpt[2] \in Nat
  <2>1. n \in 1 .. Len(a.events) BY DEF Boundaries
  <2>2. a.events[n].ref # NoRef /\ n > d.seq BY DEF Traced, Doc
  <2>3. Upto(a, n) \in Nat BY <2>1, Fields
  <2> QED BY <2>1, <2>2, <2>3, Ckpts DEF Traced, Upto
<1>2. w.ckpt[2] >= d.ckpt[2] BY <1>1 DEF Follows
<1>3. \A m \in Artifacts(a) : m \in Nat /\ m # n /\ (m > n <=> m > d.seq)
  <2>1. n \notin Artifacts(a) BY DEF Artifacts, Boundaries
  <2> QED BY <2>1 DEF Artifacts, Doc
<1>4. \A m \in Boundaries(a) : m > n => Upto(a, n) <= Upto(a, m)
  <2> SUFFICES ASSUME NEW m \in Boundaries(a), m > n PROVE Upto(a, n) <= Upto(a, m)
    OBVIOUS
  <2>1. m \in Nat /\ m \in 1 .. Len(a.events) BY DEF Boundaries
  <2>2. Upto(a, n) < Upto(a, m) /\ Upto(a, m) \in Nat BY <2>1, Fields DEF Traced
  <2> QED BY <1>1, <2>2
<1>5. \A u \in 1 .. Upto(a, n) : a.made[u] = D[w.ckpt][u] BY DEF Follows
<1> QED BY <1>1, <1>2, <1>3, <1>4, <1>5 DEF Follows

\* Another event is read.
LEMMA ReadsOther ==
  ASSUME NEW a \in Assignment, NEW D,
         NEW d \in Doc, NEW n \in Nat, n = d.seq + 1, n \notin Boundaries(a), n \notin Artifacts(a),
         Follows(d, a, D), NEW w \in Doc, w.seq = n, w.ckpt = d.ckpt, w.kept = d.kept
  PROVE  Follows(w, a, D)
<1>1. \A m \in Artifacts(a) \cup Boundaries(a) : m # n /\ (m > n <=> m > d.seq)
  <2>1. \A m \in Artifacts(a) \cup Boundaries(a) : m \in Nat BY DEF Artifacts, Boundaries
  <2> QED BY <2>1 DEF Doc
<1> QED BY <1>1 DEF Follows

\* Of what the assignment produced past a boundary, a record that has not read past it holds nothing.
LEMMA NothingPast ==
  ASSUME NEW a \in Assignment, NEW life, NEW D, Traced(a, life, D), NEW d \in Doc, Follows(d, a, D),
         NEW m \in Boundaries(a), m >= d.seq
  PROVE  \A u \in 1 .. Closing : u > Upto(a, m) => d.kept[u] = NoLife
<1> SUFFICES ASSUME NEW u \in 1 .. Closing, u > Upto(a, m), d.kept[u] # NoLife PROVE FALSE
  OBVIOUS
<1>1. m \in 1 .. Len(a.events) /\ Upto(a, m) \in Nat /\ m \in Nat /\ d.seq \in Nat /\ u \in Nat
  <2>1. m \in 1 .. Len(a.events) BY DEF Boundaries
  <2> QED BY <2>1, Fields, Numbers DEF Doc
<1>2. u \in 1 .. Len(a.made)
  <2>1. u <= Len(a.made) /\ Len(a.made) \in Nat BY Fields DEF Follows
  <2> QED BY <2>1
<1>3. PICK l \in Artifacts(a) : Unit(a, l) = u BY <1>1, <1>2 DEF Traced
<1>4. ~(Unit(a, l) <= Upto(a, m)) BY <1>1, <1>3
<1>5. ~(l < m) /\ l # m /\ l \in Nat BY <1>4 DEF Traced, Artifacts, Boundaries
<1>6. l > d.seq BY <1>1, <1>5
<1> QED BY <1>3, <1>6 DEF Follows

\* All that its checkpoint brings along a record holds once it has read the checkpoint's boundary.
LEMMA HeldUpto ==
  ASSUME NEW a \in Assignment, NEW life, NEW D, Traced(a, life, D), Len(a.made) <= Closing,
         NEW w \in Doc, Follows(w, a, D), w.seq \in Boundaries(a)
  PROVE  \A u \in 1 .. w.ckpt[2] : w.kept[u] = D[w.ckpt][u]
<1> DEFINE n == w.seq
<1>1. /\ w.ckpt = a.events[n].ref /\ w.ckpt[2] = Upto(a, n) /\ Upto(a, n) <= Len(a.made)
      /\ Len(a.made) \in Nat /\ Upto(a, n) \in Nat /\ n \in Nat
  <2>1. n \in 1 .. Len(a.events) BY DEF Boundaries
  <2>2. a.events[n].ref # NoRef /\ w.ckpt = a.events[n].ref BY DEF Traced, Follows
  <2>3. Upto(a, n) \in Nat /\ Len(a.made) \in Nat BY <2>1, Fields
  <2> QED BY <2>1, <2>2, <2>3 DEF Traced, Upto
<1> SUFFICES ASSUME NEW u \in 1 .. w.ckpt[2] PROVE w.kept[u] = D[w.ckpt][u]
  OBVIOUS
<1>2. u \in 1 .. Len(a.made) /\ u \in 1 .. Closing /\ u <= Upto(a, n) BY <1>1, Numbers
<1>3. w.kept[u] # NoLife
  <2> SUFFICES ASSUME w.kept[u] = NoLife PROVE FALSE
    OBVIOUS
  <2>1. PICK m \in Artifacts(a) : m > n /\ Unit(a, m) = u BY <1>2 DEF Follows
  <2>2. Unit(a, m) <= Upto(a, n) BY <1>2, <2>1
  <2>3. m < n BY <2>2 DEF Traced
  <2>4. m \in Nat BY DEF Artifacts
  <2> QED BY <1>1, <2>1, <2>3, <2>4
<1>4. w.kept[u] = a.made[u] BY <1>2, <1>3 DEF Follows
<1> QED BY <1>4 DEF Follows

\* What the record holds once the next event is read, its end not yet regarded.
LEMMA ReadsOn ==
  ASSUME NEW a \in Assignment, NEW life \in Lives, NEW D, Traced(a, life, D), Len(a.made) <= Closing,
         NEW d \in Doc, NEW n \in Nat, n = d.seq + 1, n \in 1 .. Len(a.events), Follows(d, a, D),
         NEW e, e = a.events[n], e.by = life, NEW w \in Doc, w.seq = n,
         w.ckpt = IF e.kind = "boundary" THEN e.ref ELSE d.ckpt,
         e.kind # "artifact" => w.kept = d.kept,
         e.kind = "artifact" => \A u \in 1 .. Closing :
           w.kept[u] = IF u = e.unit /\ ~Holds(d, u) THEN life ELSE d.kept[u]
  PROVE  Follows(w, a, D) /\ w.ckpt[2] >= d.ckpt[2]
<1>1. d.ckpt[2] \in Nat BY Ckpts
<1>2. CASE e.kind = "artifact"
  <2>1. n \in Artifacts(a) /\ Unit(a, n) = e.unit BY <1>2 DEF Artifacts, Unit
  <2>2. \A u \in 1 .. Closing : w.kept[u] = IF u = Unit(a, n) /\ ~Holds(d, u) THEN life ELSE d.kept[u]
    BY <1>2, <2>1
  <2>3. w.ckpt = d.ckpt BY <1>2
  <2>4. Follows(w, a, D) BY <2>1, <2>2, <2>3, ReadsArtifact
  <2> QED BY <1>1, <2>3, <2>4
<1>3. CASE e.kind = "boundary"
  <2>1. n \in Boundaries(a) BY <1>3 DEF Boundaries
  <2>2. w.ckpt = a.events[n].ref /\ w.kept = d.kept BY <1>3
  <2> QED BY <2>1, <2>2, ReadsBoundary
<1>4. CASE e.kind \notin {"artifact", "boundary"}
  <2>1. n \notin Boundaries(a) /\ n \notin Artifacts(a) BY <1>4 DEF Artifacts, Boundaries
  <2>2. w.ckpt = d.ckpt /\ w.kept = d.kept BY <1>4
  <2>3. Follows(w, a, D) BY <2>1, <2>2, ReadsOther
  <2> QED BY <1>1, <2>2, <2>3
<1> QED BY <1>2, <1>3, <1>4

LEMMA ReadEventCarries ==
  ASSUME HandInv, KeptInv, NEW c \in Claims, ReadEvent(c)
  PROVE  CarriedOn
<1> DEFINE d == exec[c].doc
           e == assignment[d.id].events[d.seq + 1]
           w == With(d, e)
           f == Closed(w, e)
           s == AfterEnd(c, e)
           z == Goes(c, w, "follow")
           y == Goes(c, f, s)
           why == IF e.outcome = "limit" THEN "limit" ELSE y.why
           next == [y EXCEPT !.why = why]
           i == d.id
           a == assignment[i]
           n == d.seq + 1
           life == LifeIn(assignment, i)
<1>1. /\ Formed /\ ~At(c, "off") /\ ~At(c, "begin") /\ At(c, "follow")
      /\ d.seq < Len(assignment[d.id].events)
  BY DEF ReadEvent, At, HandInv
<1>2. UNCHANGED <<assignment, disk, job, late>> BY DEF ReadEvent, workerVars, counters
<1>3. /\ d.open /\ i \in Ids /\ d \in Doc /\ e \in Event /\ (e.kind = "report" => e.unit \in 1 .. Closing)
      /\ d.seq \in Nat /\ n \in 1 .. Len(a.events) /\ a \in Assignment /\ Orderly(a, i, ids)
      /\ e.by = Life(i) /\ n \in Nat
  <2>1. /\ d.open /\ i \in Ids /\ d \in Doc /\ e \in Event /\ (e.kind = "report" => e.unit \in 1 .. Closing)
        /\ d.seq \in Nat /\ n \in 1 .. Len(a.events) /\ a \in Assignment /\ Orderly(a, i, ids)
        /\ e.by = Life(i)
    BY <1>1, NextEvent
  <2>2. n \in Nat
    <3>1. d.seq \in Nat BY <2>1
    <3> HIDE DEF d
    <3> QED BY <3>1
  <2> QED BY <2>1, <2>2
<1>4. Holding(a) /\ life \in Lives /\ e.by = life /\ Len(a.made) <= Closing /\ Opens(d, i) /\ e = a.events[n]
  <2>1. Holding(a)
    <3>1. Orderly(a, i, ids) /\ n \in 1 .. Len(a.events) BY <1>3
    <3> HIDE DEF a, n
    <3>2. Len(a.events) # 0 BY <3>1
    <3> QED BY <3>1, <3>2 DEF Orderly
  <2>2. Life(i) \in Lives /\ Life(i) = life BY <1>1, <1>3, <2>1, LifeTyped DEF Life, LifeIn
  <2> QED BY <1>3, <2>1, <2>2 DEF Orderly, Opens
<1>5. /\ w \in Doc /\ w.open = d.open /\ w.id = i /\ w.step = d.step /\ w.seq = n
      /\ w.held = d.held /\ w.handed = d.handed /\ w.again = d.again
      /\ w.ckpt = IF e.kind = "boundary" THEN e.ref ELSE d.ckpt
      /\ e.kind # "artifact" => w.kept = d.kept
      /\ e.kind = "artifact" => \A u \in 1 .. Closing :
           w.kept[u] = IF u = e.unit /\ ~Holds(d, u) THEN life ELSE d.kept[u]
  <2> HIDE DEF d, e, life
  <2>1. /\ w \in Doc /\ w.open = d.open /\ w.id = i /\ w.step = d.step /\ w.seq = n
        /\ w.held = d.held /\ w.handed = d.handed /\ w.again = d.again
        /\ w.ckpt = IF e.kind = "boundary" THEN e.ref ELSE d.ckpt
        /\ w.kept = IF e.kind = "artifact" /\ ~Holds(d, e.unit) THEN [d.kept EXCEPT ![e.unit] = e.by] ELSE d.kept
    BY <1>3, WithTyped DEF i, n
  <2>2. d.kept \in [1 .. Closing -> Lives \cup {NoLife}] BY <1>3 DEF Doc
  <2> HIDE DEF w
  <2>3. ASSUME e.kind = "artifact"
        PROVE  \A u \in 1 .. Closing : w.kept[u] = IF u = e.unit /\ ~Holds(d, u) THEN life ELSE d.kept[u]
    <3>1. CASE Holds(d, e.unit) BY <2>1, <2>3, <3>1
    <3>2. CASE ~Holds(d, e.unit)
      <4>1. w.kept = [d.kept EXCEPT ![e.unit] = life] BY <1>4, <2>1, <2>3, <3>2
      <4>2. \A u \in 1 .. Closing : w.kept[u] = IF u = e.unit THEN life ELSE d.kept[u] BY <2>2, <4>1
      <4> QED BY <3>2, <4>2
    <3> QED BY <3>1, <3>2
  <2> QED BY <2>1, <2>3
<1>6. Traced(a, life, disk) BY <1>3 DEF KeptInv, Traces
<1>7. late = {} /\ Passes(c) =>
        /\ (Clean(d) => Keeps(d, assignment, disk)) /\ d.step = "running"
        /\ d.held = NoHold /\ d.ckpt = doc.ckpt /\ d.again = doc.again
  <2> SUFFICES ASSUME late = {}, Passes(c)
               PROVE  /\ (Clean(d) => Keeps(d, assignment, disk)) /\ d.step = "running"
                      /\ d.held = NoHold /\ d.ckpt = doc.ckpt /\ d.again = doc.again
    OBVIOUS
  <2>1. Carrying(exec[c], assignment, disk) /\ d.held = NoHold /\ d.ckpt = doc.ckpt BY <1>1, OwnKept
  <2>2. Standing(exec[c], doc, assignment, late) /\ exec[c].at = "follow" BY <1>1, Own DEF At
  <2> QED BY <2>1, <2>2 DEF Carrying, Standing, Agrees
<1>8. \/ e.kind \in {"artifact", "report"} /\ exec' = [exec EXCEPT ![c] = z] /\ UNCHANGED doc
      \/ e.kind = "boundary" /\ Commit(c, z)
      \/ e.kind = "finished" /\ Commit(c, next)
  <2>1. e.kind \in {"artifact", "report", "boundary", "finished"} BY <1>3 DEF Event
  <2> QED BY <2>1 DEF ReadEvent
<1>9. /\ n = d.seq + 1 /\ a = assignment[i]
      /\ e.kind = "finished" => n = Len(a.events)
  BY <1>3, <1>4 DEF Orderly
<1> HIDE DEF w, e, n, a, i, life, d
<1>10. ASSUME late = {}, Passes(c), Clean(d)
       PROVE  /\ Keeps(d, assignment, disk) /\ Follows(d, a, disk) /\ Follows(w, a, disk)
              /\ w.ckpt[2] >= d.ckpt[2]
  <2>1. Keeps(d, assignment, disk) BY <1>7, <1>10
  <2>2. Follows(d, a, disk) BY <1>3, <1>4, <1>9, <2>1 DEF Keeps
  <2>3. /\ a \in Assignment /\ life \in Lives /\ Len(a.made) <= Closing /\ d \in Doc /\ n \in Nat
        /\ n = d.seq + 1 /\ n \in 1 .. Len(a.events) /\ e = a.events[n] /\ e.by = life
        /\ w \in Doc /\ w.seq = n
    BY <1>3, <1>4, <1>5, <1>9
  <2>4. /\ w.ckpt = IF e.kind = "boundary" THEN e.ref ELSE d.ckpt
        /\ e.kind # "artifact" => w.kept = d.kept
        /\ e.kind = "artifact" => \A u \in 1 .. Closing :
             w.kept[u] = IF u = e.unit /\ ~Holds(d, u) THEN life ELSE d.kept[u]
    BY <1>5
  <2>5. Follows(w, a, disk) /\ w.ckpt[2] >= d.ckpt[2] BY <1>6, <2>2, <2>3, <2>4, ReadsOn
  <2> QED BY <2>1, <2>2, <2>5
<1>11. z \in Exec /\ z.doc = w /\ z.at = "follow" /\ z.by = exec[c].by BY <1>1, <1>5, GoesFields DEF Stands
<1>12. (Clean(w) => Clean(d)) /\ \A j \in Ids : Opens(w, j) => j = i BY <1>5 DEF Clean, Opens
<1> HIDE DEF z
<1>13. CASE e.kind \in {"artifact", "report"} /\ exec' = [exec EXCEPT ![c] = z] /\ UNCHANGED doc
  <2>1. ASSUME late = {}, Passes(c), Clean(w) PROVE Keeps(w, assignment, disk)
    <3>1. /\ Keeps(d, assignment, disk) /\ Follows(d, a, disk) /\ Follows(w, a, disk) /\ w.step = "running"
          /\ w.ckpt = d.ckpt
      BY <1>5, <1>7, <1>10, <1>12, <1>13, <2>1
    <3>2. \A u \in 1 .. d.ckpt[2] : w.kept[u] = disk[d.ckpt][u]
      <4> SUFFICES ASSUME NEW u \in 1 .. d.ckpt[2] PROVE w.kept[u] = disk[d.ckpt][u]
        OBVIOUS
      <4>1. /\ d.ckpt[2] \in Nat /\ d.ckpt[2] <= Len(a.made) /\ Len(a.made) \in Nat
            /\ Len(a.made) <= Closing
        BY <1>3, <1>4, <3>1, Ckpts, Fields DEF Follows
      <4>2. u \in 1 .. Closing /\ u \in 1 .. Len(a.made) BY <4>1, Numbers
      <4>a. d.ckpt # NoRef BY <1>3, Ckpts
      <4>3. a.made[u] = disk[d.ckpt][u] /\ d.kept[u] = disk[d.ckpt][u] BY <3>1, <4>a DEF Follows, Keeps
      <4>4. w.kept[u] = d.kept[u] \/ w.kept[u] # NoLife
        <5>1. d.kept \in [1 .. Closing -> Lives \cup {NoLife}] BY <1>3 DEF Doc
        <5>2. life # NoLife BY <1>4, NullsApart DEF Lives, NoLife
        <5> QED BY <1>4, <1>5, <4>2, <5>1, <5>2
      <4>5. w.kept[u] # NoLife => w.kept[u] = a.made[u] BY <3>1, <4>2 DEF Follows
      <4> QED BY <4>3, <4>4, <4>5
    <3> QED BY <1>9, <1>12, <3>1, <3>2 DEF Keeps
  <2>2. late = {} /\ Passes(c) => Carrying(z, assignment, disk) BY <1>11, <2>1 DEF Carrying, Handing
  <2>3. z.at # "off" /\ z.by = exec[c].by /\ exec' = [exec EXCEPT ![c] = z] /\ UNCHANGED doc BY <1>11, <1>13
  <2> QED BY <1>1, <1>2, <1>11, <2>2, <2>3, MoveCarries
<1>14. CASE e.kind = "boundary" /\ Commit(c, z)
  <2>1. ASSUME late = {}, Passes(c), Clean(w)
        PROVE  Keeps(w, assignment, disk) /\ Blank(w) /\ w.ckpt[2] >= d.ckpt[2]
    <3>1. /\ Keeps(d, assignment, disk) /\ Follows(d, a, disk) /\ Follows(w, a, disk) /\ w.step = "running"
          /\ w.ckpt[2] >= d.ckpt[2]
      BY <1>5, <1>7, <1>10, <1>12, <2>1
    <3>2. n \in Boundaries(a) /\ w.ckpt = a.events[n].ref /\ w.seq = n
      BY <1>3, <1>4, <1>5, <1>14 DEF Boundaries
    <3>3. \A u \in 1 .. w.ckpt[2] : w.kept[u] = disk[w.ckpt][u]
      <4>1. w.seq \in Boundaries(a) BY <3>2
      <4>2. a \in Assignment /\ Len(a.made) <= Closing /\ w \in Doc BY <1>3, <1>4, <1>5
      <4> QED BY <1>6, <3>1, <4>1, <4>2, HeldUpto
    <3>4. disk[w.ckpt] # <<>> BY <1>3, <1>6, <3>2 DEF Traced
    <3>5. \A u \in 1 .. Closing : u > Upto(a, n) => w.kept[u] = NoLife
      <4>1. n >= w.seq BY <1>3, <3>2
      <4> QED BY <1>3, <1>5, <1>6, <3>1, <3>2, <4>1, NothingPast
    <3>6. Upto(a, n) = w.ckpt[2] BY <3>2 DEF Upto
    <3>7. Blank(w) BY <3>5, <3>6 DEF Blank
    <3>8. Keeps(w, assignment, disk) BY <1>9, <1>12, <3>1, <3>3, <3>4 DEF Keeps
    <3> QED BY <3>1, <3>7, <3>8
  <2>2. ASSUME late = {}, Passes(c)
        PROVE  /\ Sealed(z.doc, assignment, disk) /\ Carrying(z, assignment, disk)
               /\ z.doc.again = {} => z.doc.ckpt[2] >= doc.ckpt[2]
    <3>1. w.step = "running" /\ w.held = NoHold /\ d.ckpt = doc.ckpt BY <1>5, <1>7, <2>2
    <3>2. Sealed(w, assignment, disk) BY <2>1, <2>2, <3>1 DEF Sealed
    <3>3. w.again = {} => w.ckpt[2] >= doc.ckpt[2] BY <2>1, <2>2, <3>1 DEF Clean
    <3>4. Carrying(z, assignment, disk) BY <1>11, <3>2 DEF Carrying, Handing, Sealed
    <3> QED BY <1>11, <3>2, <3>3, <3>4
  <2>3. z.at # "off" /\ Commit(c, z) BY <1>11, <1>14
  <2> QED BY <1>1, <1>2, <1>11, <2>2, <2>3, CommitCarries
<1>15. CASE e.kind = "finished" /\ Commit(c, next)
  <2>1. /\ f \in Doc /\ f.open = FALSE /\ f.kept = w.kept /\ f.id = w.id /\ f.held = w.held
        /\ f.handed = w.handed /\ f.again = w.again
        /\ f.step = (CASE e.outcome = "succeeded" -> "succeeded"
                       [] e.outcome \in {"stopped", "limit"} -> "stopped"
                       [] OTHER -> "failed")
        /\ f.ckpt = IF e.outcome \in {"stopped", "limit"} /\ e.ref # NoRef THEN e.ref ELSE w.ckpt
    BY <1>3, <1>5, ClosedTyped
  <2> HIDE DEF f
  <2>2. s \in {"loop", "after"} BY DEF AfterEnd
  <2> HIDE DEF s
  <2>3. y \in Exec /\ y.doc = f /\ y.at = s /\ y.by = exec[c].by BY <1>1, <2>1, <2>2, GoesFields DEF Stands
  <2> HIDE DEF y
  <2>4. why \in {"none", "capacity", "limit"} BY <2>3 DEF Exec
  <2> HIDE DEF why
  <2>5. next \in Exec /\ next.doc = f /\ next.at = s /\ next.by = exec[c].by
    <3>1. TRUE \in BOOLEAN /\ NoRef \in Refs \cup {NoRef} OBVIOUS
    <3> QED BY <2>3, <2>4, <3>1, NotesKeep
  <2> HIDE DEF next
  <2>6. w.kept = d.kept /\ w.ckpt = d.ckpt BY <1>5, <1>15
  <2>7. ASSUME late = {}, Passes(c)
        PROVE  Sealed(f, assignment, disk) /\ (f.again = {} => f.ckpt[2] >= doc.ckpt[2])
    <3>1. f.held = NoHold /\ f.step # "waiting human" /\ d.ckpt[2] \in Nat /\ d.ckpt = doc.ckpt
      BY <1>3, <1>5, <1>7, <2>1, <2>7, Ckpts
    <3>2. f.again = {} => Clean(d) BY <1>5, <1>7, <2>1, <2>7 DEF Clean
    <3>3. CASE f.again # {} BY <3>1, <3>3 DEF Sealed, Clean
    <3>4. CASE f.again = {} /\ e.outcome = "succeeded"
      <4>1. Keeps(d, assignment, disk) /\ Follows(d, a, disk) BY <1>10, <2>7, <3>2, <3>4
      <4>2. Len(a.made) = Closing BY <1>3, <1>4, <1>6, <3>4 DEF Traced
      <4>3. \A u \in 1 .. Closing : d.kept[u] = a.made[u]
        <5> SUFFICES ASSUME NEW u \in 1 .. Closing, d.kept[u] = NoLife PROVE FALSE
          BY <4>1 DEF Follows
        <5>1. PICK m \in Artifacts(a) : m > d.seq /\ Unit(a, m) = u BY <4>1, <4>2 DEF Follows
        <5>2. m \in 1 .. Len(a.events) /\ m \in Nat /\ Len(a.events) \in Nat BY <1>3, Fields DEF Artifacts
        <5>3. m = n BY <1>3, <1>9, <1>15, <5>1, <5>2
        <5> QED BY <1>4, <1>15, <5>1, <5>3 DEF Artifacts
      <4>4. f.step = "succeeded" /\ f.ckpt = d.ckpt /\ f.kept = d.kept /\ f.id = i
        BY <1>5, <2>1, <2>6, <3>4
      <4>5. \A j \in Ids : ~Opens(f, j) BY <2>1 DEF Opens
      <4>6. f.id \in Ids /\ assignment[f.id] = a BY <1>3, <1>9, <4>4
      <4>7. Keeps(f, assignment, disk) BY <4>1, <4>3, <4>4, <4>5, <4>6 DEF Keeps
      <4> QED BY <3>1, <4>4, <4>7 DEF Sealed, Blank
    <3>5. CASE f.again = {} /\ e.outcome \in {"stopped", "limit"}
      <4>1. Keeps(d, assignment, disk) /\ Follows(d, a, disk) BY <1>10, <2>7, <3>2, <3>5
      <4>2. n - 1 \in Boundaries(a) /\ e.ref = a.events[n - 1].ref BY <1>3, <1>4, <1>6, <3>5 DEF Traced
      <4>3. n - 1 = d.seq BY <1>3, <1>9
      <4>4. d.ckpt = e.ref /\ d.seq \in Boundaries(a) BY <4>1, <4>2, <4>3 DEF Follows
      <4>5. f.step = "stopped" /\ f.ckpt = d.ckpt /\ f.kept = d.kept BY <2>1, <2>6, <3>5, <4>4
      <4>6. \A u \in 1 .. Closing : u > Upto(a, d.seq) => d.kept[u] = NoLife
        <5>1. d.seq >= d.seq BY <1>3
        <5> QED BY <1>3, <1>6, <4>1, <4>4, <5>1, NothingPast
      <4>7. Upto(a, d.seq) = d.ckpt[2] BY <4>2, <4>3, <4>4 DEF Upto
      <4>8. Blank(f) BY <4>5, <4>6, <4>7 DEF Blank
      <4>9. \A j \in Ids : ~Opens(f, j) BY <2>1 DEF Opens
      <4>10. Keeps(f, assignment, disk) BY <4>1, <4>5, <4>9 DEF Keeps
      <4> QED BY <3>1, <4>5, <4>8, <4>10 DEF Sealed
    <3>6. CASE e.outcome \notin {"succeeded", "stopped", "limit"}
      <4>1. f.step = "failed" /\ f.ckpt = d.ckpt BY <2>1, <2>6, <3>6
      <4>2. Sealed(f, assignment, disk) BY <3>1, <4>1, Lost
      <4> QED BY <3>1, <4>1, <4>2
    <3> QED BY <3>1, <3>3, <3>4, <3>5, <3>6
  <2>8. Carrying(next, assignment, disk)
    <3>1. f.step \in {"succeeded", "stopped", "failed"} BY <2>1
    <3> QED BY <2>2, <2>5, <3>1 DEF Carrying, Handing
  <2>9. next.at # "off" /\ Commit(c, next) BY <1>15, <2>2, <2>5
  <2> QED BY <1>1, <1>2, <2>5, <2>7, <2>8, <2>9, CommitCarries
<1> QED BY <1>8, <1>13, <1>14, <1>15

-----------------------------------------------------------------------------
(* The theorems on the artifacts and the checkpoint.                       *)

LEMMA InitKeptInv == Init => KeptInv
<1> SUFFICES ASSUME Init PROVE KeptInv
  OBVIOUS
<1>1. /\ assignment = [i \in Ids |-> Unknown(0)] /\ doc = NewDoc /\ exec = [c \in Claims |-> NoExec]
  BY DEF Init, WorkerInit
<1>2. Traces(assignment, disk)
  <2>1. \A i \in Ids : Len(assignment[i].events) = 0 /\ Len(assignment[i].made) = 0
    BY <1>1 DEF Unknown
  <2> QED BY <2>1, Nothing DEF Traces
<1>3. /\ doc.step = "planned" /\ doc.held = NoHold /\ doc.open = FALSE /\ doc.ckpt = NoRef
      /\ doc.kept = [u \in 1 .. Closing |-> NoLife]
  BY <1>1 DEF NewDoc
<1>4. Sealed(doc, assignment, disk)
  <2>1. \A i \in Ids : ~Opens(doc, i) BY <1>3 DEF Opens
  <2>2. Keeps(doc, assignment, disk) BY <1>3, <2>1 DEF Keeps
  <2>3. Blank(doc) BY <1>3 DEF Blank
  <2> QED BY <1>3, <2>2, <2>3 DEF Sealed
<1>5. Carryings BY <1>1, NoExecTyped DEF Carryings, Passes, Names, At
<1> QED BY <1>2, <1>4, <1>5 DEF KeptInv

LEMMA StepCarries == HandInv /\ KeptInv /\ [Next]_vars => CarriedOn
<1> SUFFICES ASSUME HandInv, KeptInv, [Next]_vars PROVE CarriedOn
  OBVIOUS
<1>1. CASE UNCHANGED vars
  <2>1. UNCHANGED <<assignment, disk, late, doc, exec, job>> BY <1>1 DEF vars, workerVars, counters
  <2> QED BY <2>1, SameCarryings DEF SameRecord
<1>2. ASSUME NEW r \in Runners, Claim(r) \/ Crash(r) PROVE CarriedOn
  BY <1>2, ClaimCarries, CrashCarries
<1>3. ASSUME NEW c \in Claims, Executes(c) PROVE CarriedOn
  BY <1>3, BeginCarries, BeginStepCarries, AdmitCarries, AssignCarries, PostCarries, AnsweredCarries,
     ReadEventCarries, StreamEndsCarries, EndCarries, DisposeCarries, TakenOverCarries,
     RefuseTakeoverCarries DEF Executes
<1>4. ASSUME NEW c \in Claims, Hear(c) PROVE CarriedOn
  BY <1>4, HearCarries
<1>5. ASSUME AskTakeover \/ HoldEnds \/ HandBack \/ LeaseLapses PROVE CarriedOn
  BY <1>5, RowChangesCarry
<1>6. ASSUME WorkerTrouble \/ \E i \in Ids : Worker(i) PROVE CarriedOn
  BY <1>6, WorkerTroubleCarries, WorkerCarries
<1>7. CASE Next BY <1>2, <1>3, <1>4, <1>5, <1>6, <1>7 DEF Next
<1> QED BY <1>1, <1>7

LEMMA KeptInvHolds == Spec => [](HandInv /\ KeptInv)
<1>1. HandInv /\ KeptInv /\ [Next]_vars => (HandInv /\ KeptInv)'
  BY StepKeepsHandInv, StepCarries DEF CarriedOn
<1> QED BY <1>1, InitHandInv, InitKeptInv, PTL DEF Spec

\* The artifacts of a step that succeeded are those its last assignment produced or brought along
\* from its checkpoint, unless it was gone on with after it failed or was rejected, or a runner
\* that had lost the run set the worker to work (execute_run.py:6480).
THEOREM KeepsProduced == Spec => []KeptUnlessBegunAgain
<1>1. KeptInv => KeptUnlessBegunAgain
  <2> SUFFICES ASSUME KeptInv, doc.again = {}, late = {}, doc.step = "succeeded", doc.handed = NoHold,
                      Known(doc.id), NEW u \in 1 .. Closing
               PROVE  doc.kept[u] = assignment[doc.id].made[u]
    BY DEF KeptUnlessBegunAgain, KeptIsProduced
  <2>1. Keeps(doc, assignment, disk) BY DEF KeptInv, Sealed, Clean
  <2>2. Holding(assignment[doc.id]) BY DEF Known, Holding
  <2> QED BY <2>1, <2>2 DEF Keeps
<1> QED BY <1>1, KeptInvHolds, PTL

\* A step never begun again goes on from its last boundary, through crashes, cut-off runners whose
\* requests come to nothing, refusals and take-overs (ADR-0005).
THEOREM LosesAtMostOne == Spec => AtMostOneUnitLost
<1>1. HandInv /\ KeptInv /\ [Next]_vars => [doc'.again = {} /\ late' = {} => GoesOnFromBoundary]_vars
  BY StepCarries DEF CarriedOn
<1> QED BY <1>1, KeptInvHolds, PTL DEF Spec, AtMostOneUnitLost
=============================================================================
