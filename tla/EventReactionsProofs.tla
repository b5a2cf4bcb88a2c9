------------------------ MODULE EventReactionsProofs ------------------------
(* Theorems of the reactions to events and their proofs.                   *)
EXTENDS EventReactions, SequenceTheorems, TLAPS

\* A process the event starts has its run, or the start was refused.
Covered(e, p) == p \in Entitled(e) => Exists(<<e, p>>) \/ <<e, p>> \in refused

\* What is kept came with a delivery of it and has an entry; an entry is of something kept.
Kept ==
  /\ \A e \in Events : IsKept(e) =>
       /\ event[e].by \in Deliveries /\ EventOf[event[e].by] = e
       /\ \E n \in DOMAIN entries : entries[n] = e
  /\ \A n \in DOMAIN entries : IsKept(entries[n])

\* A delivery has been received for good.
BeforeKept == \A p \in Processes : before[p] \subseteq Received

\* A run has its first job until it is executed, and a job its run.
RunsKept == /\ \A s \in jobs : Exists(s)
            /\ \A s \in Starts : run[s] = "planned" => s \in jobs

\* Where a round stands with the entry at its head, every process is still to be looked at or
\* started, holds the entry back, or needs nothing any more.
Fit(r) ==
  LET e == entries[Head(r.batch)]
      Settled(open) == \A p \in Processes : p \in open \/ r.waiting \/ Covered(e, p)
  IN  /\ r.at # "idle" => r.batch \in Seq(DOMAIN entries) /\ r.batch # <<>>
      /\ r.at = "complete" => r.by \in Deliveries /\ EventOf[r.by] = e
      /\ r.at = "check" => Settled(r.found \cup r.ready)
      /\ r.at \in {"event", "complete", "start"} => Settled(r.ready)
      /\ r.at = "publish" => e \in unplaced \/ \A p \in Processes : Covered(e, p)

PublishedFit ==
  \A n \in published : entries[n] \in unplaced \/ \A p \in Processes : Covered(entries[n], p)

ReactInv ==
  /\ TypeOK /\ Kept /\ BeforeKept /\ RunsKept /\ PublishedFit
  /\ \A i \in Instances : Fit(round[i])

-----------------------------------------------------------------------------
(* What only grows, and what stands because of it.                         *)

Grows ==
  /\ \A s \in Starts : Exists(s) => run'[s] # "none"
  /\ refused \subseteq refused' /\ unplaced \subseteq unplaced'
  /\ \A n \in DOMAIN entries : n \in DOMAIN entries' /\ entries'[n] = entries[n]
  /\ \A p \in Processes : before[p] \subseteq before'[p]

LEMMA CoveredStays ==
  ASSUME Grows, NEW e \in Events, NEW p \in Processes, Covered(e, p)
  PROVE  Covered(e, p)'
<1>1. <<e, p>> \in Starts
  BY ReactionsAssumption
<1>2. p \in Entitled(e)' => p \in Entitled(e)
  BY DEF Grows, Entitled
<1>3. QED
  BY <1>1, <1>2 DEF Grows, Covered, Exists

\* The entry at the head of a round.
LEMMA HeadEntry ==
  ASSUME TypeOK, NEW r, r.batch \in Seq(DOMAIN entries), r.batch # <<>>
  PROVE  Head(r.batch) \in DOMAIN entries /\ entries[Head(r.batch)] \in Events
<1>1. Head(r.batch) \in DOMAIN entries
  BY HeadTailProperties
<1>2. entries \in Seq(Events)
  BY DEF TypeOK, IntakeTypeOK
<1>3. QED
  BY <1>1, <1>2

LEMMA FitStays ==
  ASSUME TypeOK, Grows, NEW r \in Round, Fit(r)
  PROVE  Fit(r)'
<1>1. CASE r.at = "idle"
  BY <1>1 DEF Fit
<1>2. CASE r.at # "idle"
  <2>1. r.batch \in Seq(DOMAIN entries) /\ r.batch # <<>>
    BY <1>2 DEF Fit
  <2>2. PICK e \in Events : e = entries[Head(r.batch)] /\ e = entries'[Head(r.batch)]
    BY <2>1, HeadEntry DEF Grows
  <2>3. r.batch \in Seq(DOMAIN entries')
    BY <2>1, DOMAIN entries \subseteq DOMAIN entries', SeqMonotonic DEF Grows
  <2>4. \A p \in Processes : Covered(e, p) => Covered(e, p)'
    BY CoveredStays
  <2>5. e \in unplaced => e \in unplaced'
    BY DEF Grows
  <2>6. QED
    BY <1>2, <2>1, <2>2, <2>3, <2>4, <2>5 DEF Fit
<1>3. QED
  BY <1>1, <1>2

LEMMA PublishedStays ==
  ASSUME TypeOK, Grows, PublishedFit, published' = published
  PROVE  PublishedFit'
<1> SUFFICES ASSUME NEW n \in published'
             PROVE  (entries[n] \in unplaced \/ \A p \in Processes : Covered(entries[n], p))'
  BY DEF PublishedFit
<1>1. PICK e \in Events : e = entries[n] /\ e = entries'[n]
  BY DEF TypeOK, IntakeTypeOK, Grows
<1>2. \A p \in Processes : Covered(e, p) => Covered(e, p)'
  BY CoveredStays
<1>3. e \in unplaced \/ \A p \in Processes : Covered(e, p)
  BY <1>1 DEF PublishedFit
<1>4. e \in unplaced' \/ \A p \in Processes : Covered(e, p)'
  BY <1>2, <1>3 DEF Grows
<1>5. QED
  BY <1>1, <1>4 DEF Covered, Entitled, Exists

\* The round of one instance changes.
LEMMA RoundBecomes ==
  ASSUME TypeOK, Grows, \A k \in Instances : Fit(round[k]),
         NEW i \in Instances, NEW x \in Round, Fit(x)', Becomes(i, x),
         x.at = "idle" => x = NoRound
  PROVE  /\ round' \in [Instances -> Round]
         /\ \A k \in Instances : round'[k] = IF k = i THEN x ELSE round[k]
         /\ \A k \in Instances : round'[k].at = "idle" => round'[k] = NoRound
         /\ \A k \in Instances : Fit(round[k])'
<1>1. round \in [Instances -> Round]
  BY DEF TypeOK
<1>2. round' = [round EXCEPT ![i] = x]
  BY DEF Becomes
<1>3. \A k \in Instances : round'[k] = IF k = i THEN x ELSE round[k]
  BY <1>1, <1>2
<1>4. round' \in [Instances -> Round]
  BY <1>1, <1>2
<1>5. \A k \in Instances : round'[k].at = "idle" => round'[k] = NoRound
  BY <1>3 DEF TypeOK, At
<1>6. ASSUME NEW k \in Instances
      PROVE  Fit(round[k])'
  <2>1. PICK r \in Round : r = round'[k]
    BY <1>4
  <2>2. Fit(r)'
    <3>1. CASE k = i
      BY <1>3, <2>1, <3>1
    <3>2. CASE k # i
      BY <1>3, <2>1, <3>2, FitStays
    <3>3. QED
      BY <3>1, <3>2
  <2>3. QED
    BY <2>1, <2>2 DEF Fit
<1>7. QED
  BY <1>3, <1>4, <1>5, <1>6

LEMMA NextFits ==
  ASSUME NEW r \in Round, r.at # "idle", Fit(r)
  PROVE  /\ Next_(r) \in Round /\ Fit(Next_(r))
         /\ Next_(r).at \in {"idle", "find"}
         /\ Next_(r).at = "idle" => Next_(r) = NoRound
<1>1. r.batch \in Seq(DOMAIN entries) /\ r.batch # <<>> /\ r.batch \in Seq(Nat)
  BY DEF Fit, Round
<1>2. Tail(r.batch) \in Seq(DOMAIN entries) /\ Tail(r.batch) \in Seq(Nat)
  BY <1>1, HeadTailProperties
<1>3. CASE Tail(r.batch) = <<>>
  <2>1. NoRound \in Round /\ NoRound.at = "idle"
    BY DEF NoRound, Round
  <2>2. QED
    BY <1>3, <2>1 DEF Next_, Fit
<1>4. CASE Tail(r.batch) # <<>>
  <2> DEFINE x == [NoRound EXCEPT !.at = "find", !.batch = Tail(r.batch), !.placed = r.placed]
  <2>1. Next_(r) = x
    BY <1>4 DEF Next_
  <2>2. x \in Round /\ x.at = "find" /\ x.batch = Tail(r.batch)
    BY <1>2 DEF Round, NoRound
  <2> HIDE DEF x
  <2>3. Fit(x)
    BY <1>2, <1>4, <2>2 DEF Fit
  <2>4. QED
    BY <2>1, <2>2, <2>3
<1>5. QED
  BY <1>3, <1>4

\* A round goes on with nothing else changed.
LEMMA RoundOnly ==
  ASSUME ReactInv, NEW i \in Instances, NEW x \in Round, Fit(x), Becomes(i, x),
         x.at = "idle" => x = NoRound, creating[i] = NoStart \/ x.at = "start",
         UNCHANGED <<leadVars, intakeVars, runVars, before, noted>>
  PROVE  ReactInv'
<1>1. UNCHANGED <<leadVars, delivery, event, entries, published, run, jobs, creating, created,
                  before, refused, unplaced>>
  BY DEF intakeVars, runVars, noted
<1>2. Grows /\ TypeOK /\ \A k \in Instances : Fit(round[k])
  BY <1>1 DEF Grows, ReactInv, Exists
<1>3. Fit(x)'
  BY <1>2, FitStays
<1>4. /\ round' \in [Instances -> Round]
      /\ \A k \in Instances : round'[k] = IF k = i THEN x ELSE round[k]
      /\ \A k \in Instances : round'[k].at = "idle" => round'[k] = NoRound
      /\ \A k \in Instances : Fit(round[k])'
  BY <1>2, <1>3, RoundBecomes
<1>5. \A k \in Instances : creating'[k] # NoStart => round'[k].at = "start"
  BY <1>1, <1>2, <1>4 DEF TypeOK, At
<1>6. LeadTypeOK' /\ IntakeTypeOK' /\ RunsTypeOK'
  BY <1>1, <1>2 DEF TypeOK, LeadTypeOK, leadVars, IntakeTypeOK, RunsTypeOK
<1>7. TypeOK'
  BY <1>1, <1>2, <1>4, <1>5, <1>6 DEF TypeOK, At
<1>8. PublishedFit'
  BY <1>1, <1>2, PublishedStays DEF ReactInv
<1>9. Kept' /\ BeforeKept' /\ RunsKept'
  BY <1>1 DEF ReactInv, Kept, IsKept, BeforeKept, Received, RunsKept, Exists
<1>10. QED
  BY <1>4, <1>7, <1>8, <1>9 DEF ReactInv

-----------------------------------------------------------------------------
(* The steps of a round.                                                   *)

\* What is known of a round that is not idle.
LEMMA InRound ==
  ASSUME ReactInv, NEW i \in Instances, ~At(i, "idle")
  PROVE  /\ round[i] \in Round /\ Fit(round[i]) /\ round[i].at # "idle"
         /\ Entry(i) \in DOMAIN entries /\ Event(i) \in Events
         /\ Event(i) = entries[Head(round[i].batch)]
         /\ ~At(i, "start") => creating[i] = NoStart
<1>1. round[i] \in Round /\ Fit(round[i]) /\ round[i].at # "idle"
  BY DEF ReactInv, TypeOK, At
<1>2. round[i].batch \in Seq(DOMAIN entries) /\ round[i].batch # <<>>
  BY <1>1 DEF Fit
<1>3. QED
  BY <1>1, <1>2, HeadEntry DEF ReactInv, TypeOK, Entry, Event

LEMMA BeginInv ==
  ASSUME ReactInv, NEW i \in Instances, Begin(i)
  PROVE  ReactInv'
<1>1. PICK b \in NextBatches : Becomes(i, [NoRound EXCEPT !.at = "find", !.batch = b])
  BY DEF Begin
<1>2. PICK size \in 1 .. Batch : b \in [1 .. size -> Waiting]
  BY <1>1 DEF NextBatches
<1>3. Batch \in Nat /\ size \in Nat \ {0}
  BY <1>2, IntakeAssumption
<1>4. DOMAIN entries \subseteq Nat /\ Waiting \subseteq DOMAIN entries
  <2>1. entries \in Seq(Events)
    BY DEF ReactInv, TypeOK, IntakeTypeOK
  <2>2. DOMAIN entries = 1 .. Len(entries) /\ Len(entries) \in Nat
    BY <2>1, LenProperties
  <2>3. QED
    BY <2>2 DEF Waiting
<1>5. b \in Seq(DOMAIN entries) /\ b \in Seq(Nat)
  BY <1>2, <1>3, <1>4
<1>6. b # <<>>
  BY <1>2, <1>3
<1> DEFINE x == [NoRound EXCEPT !.at = "find", !.batch = b]
<1>7. x \in Round /\ x.at = "find" /\ x.batch = b
  BY <1>5 DEF Round, NoRound
<1>8. Becomes(i, x)
  BY <1>1
<1> HIDE DEF x
<1>9. Fit(x)
  BY <1>5, <1>6, <1>7 DEF Fit
<1>10. creating[i] = NoStart
  BY DEF Begin, At, ReactInv, TypeOK
<1>11. QED
  BY <1>7, <1>8, <1>9, <1>10, RoundOnly DEF Begin

\* What an event's trigger finds holds every process that was registered before it.
LEMMA FindInv ==
  ASSUME ReactInv, NEW i \in Instances, Find(i)
  PROVE  ReactInv'
<1>1. PICK r \in Round : r = round[i] /\ Fit(r) /\ r.at = "find"
  BY InRound DEF Find, At
<1>2. PICK e \in Events : e = Event(i) /\ e = entries[Head(r.batch)] /\ IsKept(e)
  BY <1>1, InRound DEF Find, At, ReactInv, Kept, Entry, Event
<1> DEFINE found == Matching(e)
           at == IF found = {} THEN "publish" ELSE "check"
           x == [r EXCEPT !.at = at, !.found = found]
<1>3. found \subseteq Processes /\ Entitled(e) \subseteq found
  <2>1. event[e].by \in Deliveries /\ EventOf[event[e].by] = e
    BY <1>2 DEF ReactInv, Kept
  <2>2. ASSUME NEW p \in Entitled(e) PROVE event[e].by \notin before[p]
    BY <2>1 DEF Entitled
  <2>3. QED
    BY <2>2 DEF Matching, Entitled
<1>4. Becomes(i, x)
  BY <1>1, <1>2 DEF Find
<1>5. at \in {"publish", "check"} /\ (at = "publish" => found = {})
  OBVIOUS
<1> HIDE DEF found, at
<1>6. /\ x \in Round /\ x.at = at /\ x.found = found /\ x.batch = r.batch
      /\ x.ready = r.ready /\ x.waiting = r.waiting
  BY <1>3, <1>5 DEF Round
<1> HIDE DEF x
<1>7. Fit(x)
  <2>1. \A p \in Processes : p \in found \/ Covered(e, p)
    BY <1>3 DEF Covered
  <2>2. r.batch \in Seq(DOMAIN entries) /\ r.batch # <<>>
    BY <1>1 DEF Fit
  <2>3. QED
    BY <1>2, <1>5, <1>6, <2>1, <2>2 DEF Fit
<1>8. creating[i] = NoStart
  BY DEF Find, At, ReactInv, TypeOK
<1>9. QED
  BY <1>4, <1>5, <1>6, <1>7, <1>8, RoundOnly DEF Find

LEMMA CheckInv ==
  ASSUME ReactInv, NEW i \in Instances, NEW p \in Processes, NEW room \in BOOLEAN,
         Check(i, p, room)
  PROVE  ReactInv'
<1>1. PICK r \in Round : r = round[i] /\ Fit(r) /\ r.at = "check"
  BY InRound DEF Check, At
<1>2. PICK e \in Events : e = entries[Head(r.batch)]
  BY <1>1, InRound DEF Check, At
<1> DEFINE s == <<e, p>>
           waits == p \in Conditional /\ (r.placed \/ ~room)
           ready == IF ~Exists(s) /\ ~waits THEN r.ready \cup {p} ELSE r.ready
           waiting == r.waiting \/ (~Exists(s) /\ waits)
           y == [r EXCEPT !.found = @ \ {p}, !.ready = ready, !.waiting = waiting]
<1>3. Looked(r, p, room) = y
  BY <1>2 DEF Looked
<1>4. /\ ready \subseteq Processes /\ r.ready \subseteq ready /\ waiting \in BOOLEAN
      /\ r.waiting => waiting
      /\ p \in ready \/ waiting \/ Exists(s)
  BY DEF Round
<1> HIDE DEF ready, waiting, waits
<1>5. /\ y \in Round /\ y.at = "check" /\ y.found = r.found \ {p} /\ y.batch = r.batch
      /\ y.ready = ready /\ y.waiting = waiting
  BY <1>1, <1>4 DEF Round
<1> HIDE DEF y
<1>6. \A q \in Processes : q \in y.found \cup y.ready \/ y.waiting \/ Covered(e, q)
  <2>1. SUFFICES ASSUME NEW q \in Processes
                 PROVE  q \in y.found \cup y.ready \/ y.waiting \/ Covered(e, q)
    OBVIOUS
  <2>2. CASE q = p
    BY <1>4, <1>5, <2>2 DEF Covered
  <2>3. CASE q # p
    <3>1. q \in r.found \cup r.ready \/ r.waiting \/ Covered(e, q)
      BY <1>1, <1>2 DEF Fit
    <3>2. QED
      BY <1>4, <1>5, <2>3, <3>1
  <2>4. QED
    BY <2>2, <2>3
<1>7. y.batch \in Seq(DOMAIN entries) /\ y.batch # <<>>
  BY <1>1, <1>5 DEF Fit
<1>8. Fit(y)
  BY <1>2, <1>5, <1>6, <1>7 DEF Fit
<1> DEFINE x == IF y.found = {} THEN Decided(y) ELSE y
<1>9. Becomes(i, x) /\ creating[i] = NoStart
  BY <1>1, <1>3, InRound DEF Check, At
<1>10. x \in Round /\ Fit(x) /\ (x.at = "idle" => x = NoRound)
  <2>1. CASE y.found # {}
    BY <1>5, <1>8, <2>1
  <2>2. CASE y.found = {} /\ y.ready # {}
    <3> DEFINE z == [y EXCEPT !.at = "event"]
    <3>1. x = z
      BY <2>2 DEF Decided
    <3>2. /\ z \in Round /\ z.at = "event" /\ z.batch = y.batch /\ z.ready = y.ready
          /\ z.waiting = y.waiting
      BY <1>5 DEF Round
    <3> HIDE DEF z
    <3>3. Fit(z)
      BY <1>2, <1>5, <1>6, <1>7, <2>2, <3>2 DEF Fit
    <3>4. QED
      BY <3>1, <3>2, <3>3
  <2>3. CASE y.found = {} /\ y.ready = {} /\ y.waiting
    BY <1>5, <1>8, <2>3, NextFits DEF Decided
  <2>4. CASE y.found = {} /\ y.ready = {} /\ ~y.waiting
    <3> DEFINE z == [y EXCEPT !.at = "publish"]
    <3>1. x = z
      BY <2>4 DEF Decided
    <3>2. z \in Round /\ z.at = "publish" /\ z.batch = y.batch
      BY <1>5 DEF Round
    <3> HIDE DEF z
    <3>3. Fit(z)
      BY <1>2, <1>5, <1>6, <1>7, <2>4, <3>2 DEF Fit
    <3>4. QED
      BY <3>1, <3>2, <3>3
  <2>5. QED
    BY <2>1, <2>2, <2>3, <2>4
<1> HIDE DEF x
<1>11. QED
  BY <1>9, <1>10, RoundOnly DEF Check

LEMMA ReadEventInv ==
  ASSUME ReactInv, NEW i \in Instances, ReadEvent(i)
  PROVE  ReactInv'
<1>1. PICK r \in Round : r = round[i] /\ Fit(r) /\ r.at = "event"
  BY InRound DEF ReadEvent, At
<1>2. PICK e \in Events : e = Event(i) /\ e = entries[Head(r.batch)] /\ IsKept(e)
  BY <1>1, InRound DEF ReadEvent, At, ReactInv, Kept, Entry, Event
<1>3. event[e].by \in Deliveries /\ EventOf[event[e].by] = e
  BY <1>2 DEF ReactInv, Kept
<1>4. creating[i] = NoStart
  BY InRound DEF ReadEvent, At
<1>5. r.batch \in Seq(DOMAIN entries) /\ r.batch # <<>>
  BY <1>1 DEF Fit
<1>6. \A p \in Processes : p \in r.ready \/ r.waiting \/ Covered(e, p)
  BY <1>1, <1>2 DEF Fit
<1>7. CASE event[e].completed
  <2> DEFINE x == [r EXCEPT !.at = "start"]
  <2>1. x \in Round /\ x.at = "start" /\ x.batch = r.batch /\ x.ready = r.ready /\ x.waiting = r.waiting
    BY DEF Round
  <2>2. Becomes(i, x)
    BY <1>1, <1>2, <1>7 DEF ReadEvent
  <2> HIDE DEF x
  <2>3. Fit(x)
    BY <1>2, <1>5, <1>6, <2>1 DEF Fit
  <2>4. QED
    BY <1>4, <2>1, <2>2, <2>3, RoundOnly DEF ReadEvent
<1>8. CASE ~event[e].completed
  <2> DEFINE x == [r EXCEPT !.at = "complete", !.by = event[e].by]
  <2>1. /\ x \in Round /\ x.at = "complete" /\ x.batch = r.batch /\ x.ready = r.ready
        /\ x.waiting = r.waiting /\ x.by = event[e].by
    BY <1>3 DEF Round
  <2>2. Becomes(i, x)
    BY <1>1, <1>2, <1>8 DEF ReadEvent
  <2> HIDE DEF x
  <2>3. Fit(x)
    BY <1>2, <1>3, <1>5, <1>6, <2>1 DEF Fit
  <2>4. QED
    BY <1>4, <2>1, <2>2, <2>3, RoundOnly DEF ReadEvent
<1>9. QED
  BY <1>7, <1>8

\* A round goes on with something else changed.
LEMMA RoundStep ==
  ASSUME ReactInv, Grows, NEW i \in Instances, NEW x \in Round, Fit(x)', Becomes(i, x),
         x.at = "idle" => x = NoRound,
         \A k \in Instances \ {i} : creating'[k] = creating[k],
         creating'[i] = NoStart \/ x.at = "start",
         LeadTypeOK', IntakeTypeOK', RunsTypeOK', before' = before,
         refused' \subseteq Starts, unplaced' \subseteq Events,
         PublishedFit', Kept', BeforeKept', RunsKept'
  PROVE  ReactInv'
<1>1. /\ round' \in [Instances -> Round]
      /\ \A k \in Instances : round'[k] = IF k = i THEN x ELSE round[k]
      /\ \A k \in Instances : round'[k].at = "idle" => round'[k] = NoRound
      /\ \A k \in Instances : Fit(round[k])'
  BY RoundBecomes DEF ReactInv
<1>2. \A k \in Instances : creating'[k] # NoStart => round'[k].at = "start"
  BY <1>1 DEF ReactInv, TypeOK, At
<1>3. TypeOK'
  BY <1>1, <1>2 DEF ReactInv, TypeOK, At
<1>4. QED
  BY <1>1, <1>3 DEF ReactInv

\* An event whose sender the tenant knows no more starts nothing.
LEMMA FindUnplacedInv ==
  ASSUME ReactInv, NEW i \in Instances, FindUnplaced(i)
  PROVE  ReactInv'
<1>1. PICK r \in Round : r = round[i] /\ Fit(r) /\ r.at = "event"
  BY InRound DEF FindUnplaced, At
<1>2. PICK e \in Events : e = Event(i) /\ e = entries[Head(r.batch)]
  BY <1>1, InRound DEF FindUnplaced, At
<1>3. /\ UNCHANGED <<holder, leading, troubles, delivery, event, entries, published, run, jobs,
                     creating, created, before, refused>>
      /\ unplaced' = unplaced \cup {e}
  BY <1>2 DEF FindUnplaced, leadVars, intakeVars, runVars
<1>4. Grows
  BY <1>3 DEF Grows, Exists
<1> DEFINE x == [r EXCEPT !.at = "publish"]
<1>5. x \in Round /\ x.at = "publish" /\ x.batch = r.batch /\ Becomes(i, x)
  BY <1>1 DEF Round, FindUnplaced
<1> HIDE DEF x
<1>6. r.batch \in Seq(DOMAIN entries) /\ r.batch # <<>>
  BY <1>1 DEF Fit
<1>7. Fit(x)'
  BY <1>2, <1>3, <1>5, <1>6 DEF Fit
<1>8. LeadTypeOK' /\ IntakeTypeOK' /\ RunsTypeOK'
  BY <1>3 DEF ReactInv, TypeOK, LeadTypeOK, IntakeTypeOK, RunsTypeOK
<1>9. refused' \subseteq Starts /\ unplaced' \subseteq Events
  BY <1>2, <1>3 DEF ReactInv, TypeOK
<1>10. PublishedFit'
  BY <1>3, <1>4, PublishedStays DEF ReactInv
<1>11. Kept' /\ BeforeKept' /\ RunsKept'
  BY <1>3 DEF ReactInv, Kept, IsKept, BeforeKept, Received, RunsKept, Exists
<1>12. creating'[i] = NoStart
  BY <1>3, InRound DEF FindUnplaced, At
<1>13. QED
  BY <1>3, <1>4, <1>5, <1>7, <1>8, <1>9, <1>10, <1>11, <1>12, RoundStep

LEMMA MakeCommandInv ==
  ASSUME ReactInv, NEW i \in Instances, MakeCommand(i)
  PROVE  ReactInv'
<1>1. PICK r \in Round : r = round[i] /\ Fit(r) /\ r.at = "complete"
  BY InRound DEF MakeCommand, At
<1>2. PICK e \in Events : e = Event(i) /\ e = entries[Head(r.batch)]
  BY <1>1, InRound DEF MakeCommand, At
<1>3. /\ UNCHANGED <<holder, leading, troubles, delivery, entries, published, run, jobs,
                     creating, created, before, refused, unplaced>>
      /\ event' = [event EXCEPT ![e] = [by |-> r.by, completed |-> TRUE]]
  BY <1>1, <1>2 DEF MakeCommand, Complete, leadVars, intakeVars, runVars, noted
<1>4. Grows
  BY <1>3 DEF Grows, Exists
<1>5. r.by \in Deliveries /\ EventOf[r.by] = e
  BY <1>1, <1>2 DEF Fit
<1>6. event \in [Events -> [by : Deliveries \cup {"none"}, completed : BOOLEAN]]
  BY DEF ReactInv, TypeOK, IntakeTypeOK
<1>7. /\ event' \in [Events -> [by : Deliveries \cup {"none"}, completed : BOOLEAN]]
      /\ \A f \in Events \ {e} : event'[f] = event[f]
      /\ event'[e].by = r.by /\ event'[e].by # "none"
  BY <1>3, <1>5, <1>6, IntakeAssumption
<1>8. IsKept(e) /\ \E n \in DOMAIN entries : entries[n] = e
  BY <1>1, <1>2, InRound DEF MakeCommand, At, ReactInv, Kept, Entry, Event
<1>9. \A f \in Events : IsKept(f)' <=> IsKept(f)
  <2>1. NoEvent.by = "none"
    BY DEF NoEvent
  <2>2. event'[e] # NoEvent
    BY <1>7, <2>1
  <2>3. NoEvent' = NoEvent
    BY DEF NoEvent
  <2>4. QED
    BY <1>7, <1>8, <2>2, <2>3 DEF IsKept
<1>10. Kept'
  <2>1. ASSUME NEW f \in Events, IsKept(f)'
        PROVE  /\ event'[f].by \in Deliveries /\ EventOf[event'[f].by] = f
               /\ \E n \in DOMAIN entries' : entries'[n] = f
    <3>1. CASE f = e
      BY <1>3, <1>5, <1>7, <1>8, <3>1
    <3>2. CASE f # e
      BY <1>3, <1>7, <1>9, <2>1, <3>2 DEF ReactInv, Kept
    <3>3. QED
      BY <3>1, <3>2
  <2>2. ASSUME NEW n \in DOMAIN entries'
        PROVE  IsKept(entries[n])'
    <3>1. PICK f \in Events : f = entries[n] /\ f = entries'[n] /\ IsKept(f)
      BY <1>3 DEF ReactInv, Kept, TypeOK, IntakeTypeOK
    <3>2. IsKept(f)'
      BY <1>9, <3>1
    <3>3. QED
      BY <3>1, <3>2 DEF IsKept
  <2>3. QED
    BY <2>1, <2>2 DEF Kept
<1> DEFINE x == [r EXCEPT !.at = "start", !.by = "none"]
<1>11. /\ x \in Round /\ x.at = "start" /\ x.batch = r.batch /\ x.ready = r.ready
       /\ x.waiting = r.waiting /\ Becomes(i, x)
  BY <1>1 DEF Round, MakeCommand
<1> HIDE DEF x
<1>12. Fit(x)'
  <2>1. r.batch \in Seq(DOMAIN entries) /\ r.batch # <<>>
    BY <1>1 DEF Fit
  <2>2. \A p \in Processes : p \in r.ready \/ r.waiting \/ Covered(e, p)
    BY <1>1, <1>2 DEF Fit
  <2>3. \A p \in Processes : Covered(e, p) => Covered(e, p)'
    BY <1>4, CoveredStays
  <2>4. QED
    BY <1>2, <1>3, <1>11, <2>1, <2>2, <2>3 DEF Fit
<1>13. LeadTypeOK' /\ IntakeTypeOK' /\ RunsTypeOK'
  BY <1>3, <1>7 DEF ReactInv, TypeOK, LeadTypeOK, IntakeTypeOK, RunsTypeOK
<1>14. refused' \subseteq Starts /\ unplaced' \subseteq Events
  BY <1>3 DEF ReactInv, TypeOK
<1>15. PublishedFit'
  BY <1>3, <1>4, PublishedStays DEF ReactInv
<1>16. BeforeKept' /\ RunsKept'
  BY <1>3 DEF ReactInv, BeforeKept, Received, RunsKept, Exists
<1>17. QED
  BY <1>3, <1>4, <1>10, <1>11, <1>12, <1>13, <1>14, <1>15, <1>16, RoundStep

LEMMA PublishEntryInv ==
  ASSUME ReactInv, NEW i \in Instances, PublishEntry(i)
  PROVE  ReactInv'
<1>1. PICK r \in Round : r = round[i] /\ Fit(r) /\ r.at = "publish"
  BY InRound DEF PublishEntry, At
<1>2. PICK e \in Events, n \in DOMAIN entries : /\ e = entries[Head(r.batch)] /\ n = Entry(i)
                                                /\ e = entries[n]
  BY <1>1, InRound DEF PublishEntry, At, Entry, Event
<1>3. /\ UNCHANGED <<holder, leading, troubles, delivery, event, entries, run, jobs,
                     creating, created, before, refused, unplaced>>
      /\ published' = published \cup {n}
  BY <1>2 DEF PublishEntry, Publish, leadVars, runVars, noted
<1>4. Grows
  BY <1>3 DEF Grows, Exists
<1>5. /\ Next_(r) \in Round /\ Fit(Next_(r)) /\ (Next_(r).at = "idle" => Next_(r) = NoRound)
      /\ Becomes(i, Next_(r))
  BY <1>1, NextFits DEF PublishEntry
<1>6. PICK x \in Round : x = Next_(r)
  BY <1>5
<1>7. Fit(x)'
  BY <1>4, <1>5, <1>6, FitStays DEF ReactInv
<1>8. LeadTypeOK' /\ IntakeTypeOK' /\ RunsTypeOK'
  BY <1>3 DEF ReactInv, TypeOK, LeadTypeOK, IntakeTypeOK, RunsTypeOK
<1>9. refused' \subseteq Starts /\ unplaced' \subseteq Events
  BY <1>3 DEF ReactInv, TypeOK
<1>10. PublishedFit'
  <2>1. e \in unplaced \/ \A p \in Processes : Covered(e, p)
    BY <1>1, <1>2 DEF Fit
  <2>2. ASSUME NEW m \in published'
        PROVE  (entries[m] \in unplaced \/ \A p \in Processes : Covered(entries[m], p))'
    <3>1. entries[m] \in unplaced \/ \A p \in Processes : Covered(entries[m], p)
      BY <1>2, <1>3, <2>1, <2>2 DEF ReactInv, PublishedFit
    <3>2. QED
      BY <1>3, <3>1 DEF Covered, Entitled, Exists
  <2>3. QED
    BY <2>2 DEF PublishedFit
<1>11. Kept' /\ BeforeKept' /\ RunsKept'
  BY <1>3 DEF ReactInv, Kept, IsKept, BeforeKept, Received, RunsKept, Exists
<1>12. creating'[i] = NoStart
  BY <1>3, InRound DEF PublishEntry, At
<1>13. QED
  BY <1>3, <1>4, <1>5, <1>6, <1>7, <1>8, <1>9, <1>10, <1>11, <1>12, RoundStep

\* After a start or a refusal the round goes on with what is left, or holds its entry back.
DonesFit ==
  \A r \in Round, p \in Processes, started \in BOOLEAN :
    Fit(r) /\ r.at = "start" /\ Covered(entries[Head(r.batch)], p) =>
      /\ After(Done(r, p, started)) \in Round /\ Fit(After(Done(r, p, started)))
      /\ After(Done(r, p, started)).at = "idle" => After(Done(r, p, started)) = NoRound

LEMMA DoneFits == DonesFit
<1> SUFFICES ASSUME NEW r \in Round, NEW p \in Processes, NEW started \in BOOLEAN,
                    Fit(r), r.at = "start", Covered(entries[Head(r.batch)], p)
             PROVE  /\ After(Done(r, p, started)) \in Round /\ Fit(After(Done(r, p, started)))
                    /\ After(Done(r, p, started)).at = "idle" => After(Done(r, p, started)) = NoRound
  BY DEF DonesFit
<1> DEFINE left == r.ready \ {p}
           placed == r.placed \/ (started /\ p \in Conditional)
           at == IF left # {} THEN "start" ELSE "publish"
           y == [r EXCEPT !.ready = left, !.placed = placed, !.at = at]
<1>1. Done(r, p, started) = y
  BY DEF Done
<1>2. left \subseteq Processes /\ placed \in BOOLEAN /\ at \in {"start", "publish"}
      /\ (at = "publish" => left = {})
  BY DEF Round
<1>3. \A q \in Processes : q \in left \/ r.waiting \/ Covered(entries[Head(r.batch)], q)
  BY DEF Fit
<1> HIDE DEF left, placed, at
<1>4. y \in Round /\ y.at = at /\ y.ready = left /\ y.batch = r.batch /\ y.waiting = r.waiting
  BY <1>2 DEF Round
<1> HIDE DEF y
<1>5. r.batch \in Seq(DOMAIN entries) /\ r.batch # <<>>
  BY DEF Fit
<1>6. CASE at = "publish" /\ r.waiting
  <2> DEFINE x == [y EXCEPT !.at = "find"]
  <2>1. x \in Round /\ x.at = "find" /\ x.batch = r.batch
    BY <1>4 DEF Round
  <2>2. Next_(x) = Next_(y)
    BY <1>4 DEF Next_, Round
  <2> HIDE DEF x
  <2>3. Fit(x)
    BY <1>5, <2>1 DEF Fit
  <2>4. After(y) = Next_(x)
    BY <1>4, <1>6, <2>2 DEF After
  <2>5. QED
    BY <1>1, <2>1, <2>3, <2>4, NextFits
<1>7. CASE ~(at = "publish" /\ r.waiting)
  <2>1. After(y) = y
    BY <1>4, <1>7 DEF After
  <2>2. Fit(y)
    BY <1>2, <1>3, <1>4, <1>5, <1>7 DEF Fit
  <2>3. QED
    BY <1>1, <1>2, <1>4, <2>1, <2>2
<1>8. QED
  BY <1>6, <1>7

LEMMA RefuseInv ==
  ASSUME ReactInv, NEW i \in Instances, NEW p \in Processes, Refuse(i, p)
  PROVE  ReactInv'
<1>1. PICK r \in Round : r = round[i] /\ Fit(r) /\ r.at = "start"
  BY InRound DEF Refuse, At
<1>2. PICK e \in Events : e = Event(i) /\ e = entries[Head(r.batch)]
  BY <1>1, InRound DEF Refuse, At
<1>3. /\ UNCHANGED <<holder, leading, troubles, delivery, event, entries, published, run, jobs,
                     creating, created, before, unplaced>>
      /\ refused' = refused \cup {<<e, p>>} /\ creating[i] = NoStart
      /\ Becomes(i, After(Done(r, p, FALSE)))
  BY <1>1, <1>2 DEF Refuse, leadVars, intakeVars, runVars
<1>4. Grows
  BY <1>3 DEF Grows, Exists
<1>5. TypeOK /\ entries' = entries
  BY <1>3 DEF ReactInv
<1>6. Covered(e, p)'
  BY <1>3 DEF Covered
<1>7. Fit(r)'
  BY <1>1, <1>4, FitStays DEF ReactInv
<1>8. LeadTypeOK' /\ IntakeTypeOK' /\ RunsTypeOK'
  BY <1>3 DEF ReactInv, TypeOK, LeadTypeOK, IntakeTypeOK, RunsTypeOK
<1>9. refused' \subseteq Starts /\ unplaced' \subseteq Events
  BY <1>3, ReactionsAssumption DEF ReactInv, TypeOK
<1>10. PICK x \in Round : /\ x = After(Done(r, p, FALSE)) /\ Fit(x)'
                          /\ x.at = "idle" => x = NoRound
  <2>1. DonesFit'
    BY DoneFits, PTL
  <2>2. Covered(entries[Head(r.batch)], p)'
    BY <1>2, <1>3, <1>6 DEF Covered, Entitled, Exists
  <2>3. QED
    BY <1>1, <1>7, <2>1, <2>2 DEF DonesFit
<1>11. PublishedFit'
  BY <1>3, <1>4, PublishedStays DEF ReactInv
<1>12. Kept' /\ BeforeKept' /\ RunsKept'
  BY <1>3 DEF ReactInv, Kept, IsKept, BeforeKept, Received, RunsKept, Exists
<1>13. QED
  BY <1>3, <1>4, <1>8, <1>9, <1>10, <1>11, <1>12, RoundStep

LEMMA LookForRunInv ==
  ASSUME ReactInv, NEW i \in Instances, NEW p \in Processes, LookForRun(i, p)
  PROVE  ReactInv'
<1>1. PICK r \in Round : r = round[i] /\ Fit(r) /\ r.at = "start"
  BY InRound DEF LookForRun, At
<1>2. PICK e \in Events : e = Event(i) /\ e = entries[Head(r.batch)]
  BY <1>1, InRound DEF LookForRun, At
<1>3. UNCHANGED <<holder, leading, troubles, delivery, event, entries, published, run, jobs,
                  created, before, refused, unplaced>>
  BY DEF LookForRun, leadVars, intakeVars, noted, FindsNone, FindsRun, runVars
<1>4. Grows
  BY <1>3 DEF Grows, Exists
<1>5. creating \in [Instances -> Starts \cup {NoStart}] /\ <<e, p>> \in Starts
  BY ReactionsAssumption DEF ReactInv, TypeOK, RunsTypeOK
<1>6. PICK x \in Round : /\ Becomes(i, x) /\ Fit(x)' /\ (x.at = "idle" => x = NoRound)
                         /\ creating' \in [Instances -> Starts \cup {NoStart}]
                         /\ \A k \in Instances \ {i} : creating'[k] = creating[k]
                         /\ creating'[i] = NoStart \/ x.at = "start"
  <2>1. CASE FindsNone(i, <<e, p>>) /\ UNCHANGED round
    <3>1. creating' = [creating EXCEPT ![i] = <<e, p>>]
      BY <2>1 DEF FindsNone
    <3>2. Becomes(i, r)
      BY <1>1, <2>1 DEF Becomes, ReactInv, TypeOK
    <3>3. Fit(r)'
      BY <1>1, <1>4, FitStays DEF ReactInv
    <3>4. QED
      BY <1>1, <1>5, <3>1, <3>2, <3>3
  <2>2. CASE FindsRun(i, <<e, p>>) /\ Becomes(i, After(Done(r, p, FALSE)))
    <3>1. creating' = creating /\ creating[i] = NoStart /\ Covered(e, p)
      BY <2>2 DEF FindsRun, runVars, Covered
    <3>2. PICK x \in Round : x = After(Done(r, p, FALSE)) /\ Fit(x) /\ (x.at = "idle" => x = NoRound)
      BY <1>1, <1>2, <3>1, DoneFits DEF DonesFit
    <3>3. Fit(x)'
      BY <1>4, <3>2, FitStays DEF ReactInv
    <3>4. QED
      BY <1>5, <2>2, <3>1, <3>2, <3>3
  <2>3. QED
    BY <1>1, <1>2, <2>1, <2>2 DEF LookForRun
<1>7. LeadTypeOK' /\ IntakeTypeOK' /\ RunsTypeOK'
  BY <1>3, <1>6, ReactionsAssumption DEF ReactInv, TypeOK, LeadTypeOK, IntakeTypeOK, RunsTypeOK
<1>8. refused' \subseteq Starts /\ unplaced' \subseteq Events
  BY <1>3 DEF ReactInv, TypeOK
<1>9. PublishedFit'
  BY <1>3, <1>4, PublishedStays DEF ReactInv
<1>10. Kept' /\ BeforeKept' /\ RunsKept'
  BY <1>3 DEF ReactInv, Kept, IsKept, BeforeKept, Received, RunsKept, Exists
<1>11. QED
  BY <1>3, <1>4, <1>6, <1>7, <1>8, <1>9, <1>10, RoundStep

\* The transaction that creates a run leaves its run there, and every run its job.
LEMMA CreatesRun ==
  ASSUME RunsTypeOK, RunsKept, NEW c \in Creators, Creates(c)
  PROVE  /\ RunsTypeOK' /\ RunsKept'
         /\ creating[c] \in Starts /\ run'[creating[c]] # "none"
         /\ \A s \in Starts : Exists(s) => run'[s] # "none"
         /\ creating' = [creating EXCEPT ![c] = NoStart]
<1>1. PICK s : s = creating[c] /\ s \in Starts /\ creating' = [creating EXCEPT ![c] = NoStart]
  BY DEF Creates, RunsTypeOK
<1>2. CASE s \in jobs
  <2>1. run' = run /\ jobs' = jobs /\ created' = created
    BY <1>1, <1>2 DEF Creates, Collides
  <2>2. QED
    BY <1>1, <1>2, <2>1 DEF RunsTypeOK, RunsKept, Exists
<1>3. CASE s \notin jobs
  <2>1. /\ run' = [run EXCEPT ![s] = "planned"] /\ jobs' = jobs \cup {s}
        /\ created' = [created EXCEPT ![s] = created[s] + 1] /\ created[s] < MaxCreated
    BY <1>1, <1>3 DEF Creates, Collides
  <2>2. created[s] + 1 \in 0 .. MaxCreated
    BY <1>1, <2>1, RunsAssumption DEF RunsTypeOK
  <2>3. RunsTypeOK'
    BY <1>1, <2>1, <2>2 DEF RunsTypeOK
  <2>4. \A t \in Starts : run'[t] = IF t = s THEN "planned" ELSE run[t]
    BY <1>1, <2>1 DEF RunsTypeOK
  <2>5. QED
    BY <1>1, <2>1, <2>3, <2>4 DEF RunsTypeOK, RunsKept, Exists
<1>4. QED
  BY <1>2, <1>3

LEMMA StartInv ==
  ASSUME ReactInv, NEW i \in Instances, NEW p \in Processes, Start(i, p)
  PROVE  ReactInv'
<1>1. PICK r \in Round : r = round[i] /\ Fit(r) /\ r.at = "start"
  BY InRound DEF Start, At
<1>2. PICK e \in Events : e = Event(i) /\ e = entries[Head(r.batch)]
  BY <1>1, InRound DEF Start, At
<1>3. /\ UNCHANGED <<holder, leading, troubles, delivery, event, entries, published, before,
                     refused, unplaced>>
      /\ creating[i] = <<e, p>> /\ Creates(i)
      /\ Becomes(i, After(Done(r, p, created' # created)))
  BY <1>1, <1>2 DEF Start, leadVars, intakeVars, noted
<1>4. /\ RunsTypeOK' /\ RunsKept' /\ run'[<<e, p>>] # "none"
      /\ \A s \in Starts : Exists(s) => run'[s] # "none"
      /\ creating' = [creating EXCEPT ![i] = NoStart]
  BY <1>3, CreatesRun, ReactionsAssumption DEF ReactInv, TypeOK
<1>5. Grows
  BY <1>3, <1>4 DEF Grows
<1>6. PICK started \in BOOLEAN : started = (created' # created)
  OBVIOUS
<1>7. PICK x \in Round : /\ x = After(Done(r, p, started)) /\ Fit(x)'
                         /\ x.at = "idle" => x = NoRound
  <2>1. DonesFit'
    BY DoneFits, PTL
  <2>2. Covered(entries[Head(r.batch)], p)'
    BY <1>2, <1>3, <1>4 DEF Covered, Exists
  <2>3. Fit(r)'
    BY <1>1, <1>5, FitStays DEF ReactInv
  <2>4. QED
    BY <1>1, <2>1, <2>2, <2>3 DEF DonesFit
<1>8. LeadTypeOK' /\ IntakeTypeOK'
  BY <1>3 DEF ReactInv, TypeOK, LeadTypeOK, IntakeTypeOK
<1>9. refused' \subseteq Starts /\ unplaced' \subseteq Events
  BY <1>3 DEF ReactInv, TypeOK
<1>10. PublishedFit'
  BY <1>3, <1>5, PublishedStays DEF ReactInv
<1>11. Kept' /\ BeforeKept'
  BY <1>3 DEF ReactInv, Kept, IsKept, BeforeKept, Received
<1>12. \A k \in Instances : creating'[k] = IF k = i THEN NoStart ELSE creating[k]
  BY <1>4, ReactionsAssumption DEF ReactInv, TypeOK, RunsTypeOK
<1>13. Becomes(i, x)
  BY <1>3, <1>6, <1>7
<1>14. QED
  BY <1>3, <1>4, <1>5, <1>7, <1>8, <1>9, <1>10, <1>11, <1>12, <1>13, RoundStep

LEMMA FailInv ==
  ASSUME ReactInv, NEW i \in Instances, Fail(i)
  PROVE  ReactInv'
<1>1. PICK r \in Round : r = round[i] /\ Fit(r) /\ r.at # "idle"
  BY InRound DEF Fail, At
<1>2. /\ UNCHANGED <<holder, leading, delivery, event, entries, published, run, jobs, created,
                     before, refused, unplaced>>
      /\ creating' = [creating EXCEPT ![i] = NoStart]
      /\ troubles < MaxTroubles /\ troubles' = troubles + 1
      /\ Becomes(i, Next_(r))
  BY <1>1 DEF Fail, Trouble, GivesUp, intakeVars, noted
<1>3. Grows
  BY <1>2 DEF Grows, Exists
<1>4. PICK x \in Round : x = Next_(r) /\ Fit(x) /\ (x.at = "idle" => x = NoRound)
  BY <1>1, NextFits
<1>5. Fit(x)'
  BY <1>3, <1>4, FitStays DEF ReactInv
<1>6. LeadTypeOK' /\ IntakeTypeOK'
  BY <1>2, LeadershipAssumption DEF ReactInv, TypeOK, LeadTypeOK, IntakeTypeOK
<1>7. RunsTypeOK' /\ \A k \in Instances : creating'[k] = IF k = i THEN NoStart ELSE creating[k]
  BY <1>2, ReactionsAssumption DEF ReactInv, TypeOK, RunsTypeOK
<1>8. refused' \subseteq Starts /\ unplaced' \subseteq Events
  BY <1>2 DEF ReactInv, TypeOK
<1>9. PublishedFit'
  BY <1>2, <1>3, PublishedStays DEF ReactInv
<1>10. Kept' /\ BeforeKept' /\ RunsKept'
  BY <1>2 DEF ReactInv, Kept, IsKept, BeforeKept, Received, RunsKept, Exists
<1>11. QED
  BY <1>2, <1>3, <1>4, <1>5, <1>6, <1>7, <1>8, <1>9, <1>10, RoundStep

-----------------------------------------------------------------------------
(* The steps around the rounds.                                            *)

LEMMA RoundsStay ==
  ASSUME ReactInv, Grows, round' = round
  PROVE  \A k \in Instances : Fit(round[k])'
<1> SUFFICES ASSUME NEW k \in Instances PROVE Fit(round[k])'
  OBVIOUS
<1>1. PICK r \in Round : r = round[k] /\ r = round'[k] /\ Fit(r)
  BY DEF ReactInv, TypeOK
<1>2. Fit(r)'
  BY <1>1, FitStays DEF ReactInv
<1>3. QED
  BY <1>1, <1>2 DEF Fit

LEMMA ElectInv ==
  ASSUME ReactInv, NEW i \in Instances, Elect(i)
  PROVE  ReactInv'
<1>1. UNCHANGED <<delivery, event, entries, published, run, jobs, creating, created, before,
                  round, refused, unplaced>>
  BY DEF Elect, intakeVars, runVars, noted
<1>2. LeadTypeOK'
  BY DEF Elect, TryLead, SessionOver, StepDown, ReactInv, TypeOK, LeadTypeOK
<1>3. Grows
  BY <1>1 DEF Grows, Exists
<1>4. TypeOK'
  BY <1>1, <1>2 DEF ReactInv, TypeOK, At, IntakeTypeOK, RunsTypeOK
<1>5. PublishedFit' /\ \A k \in Instances : Fit(round[k])'
  BY <1>1, <1>3, PublishedStays, RoundsStay DEF ReactInv
<1>6. Kept' /\ BeforeKept' /\ RunsKept'
  BY <1>1 DEF ReactInv, Kept, IsKept, BeforeKept, Received, RunsKept, Exists
<1>7. QED
  BY <1>4, <1>5, <1>6 DEF ReactInv

LEMMA LoseInv ==
  ASSUME ReactInv, NEW i \in Instances, Lose(i)
  PROVE  ReactInv'
<1>1. UNCHANGED <<delivery, event, entries, published, run, jobs, created, before, refused,
                  unplaced>>
  BY DEF Lose, intakeVars, runVars, noted, GivesUp
<1>2. LeadTypeOK'
  BY LeadershipAssumption
     DEF Lose, SessionLost, Ends, Trouble, IsHeld, ReactInv, TypeOK, LeadTypeOK
<1>3. Grows
  BY <1>1 DEF Grows, Exists
<1>4. Kept' /\ BeforeKept' /\ RunsKept' /\ PublishedFit'
  BY <1>1, <1>3, PublishedStays
     DEF ReactInv, Kept, IsKept, BeforeKept, Received, RunsKept, Exists
<1>5. CASE UNCHANGED <<runVars, round>>
  <2>1. TypeOK'
    BY <1>1, <1>2, <1>5 DEF ReactInv, TypeOK, At, IntakeTypeOK, RunsTypeOK, runVars
  <2>2. QED
    BY <1>3, <1>4, <1>5, <2>1, RoundsStay DEF ReactInv
<1>6. CASE GivesUp(i) /\ Becomes(i, NoRound)
  <2>0. NoRound \in Round /\ NoRound.at = "idle"
    BY DEF NoRound, Round
  <2>1. PICK x \in Round : x = NoRound /\ x.at = "idle"
    BY <2>0
  <2>2. Fit(x)'
    BY <2>1 DEF Fit
  <2>3. /\ creating' \in [Instances -> Starts \cup {NoStart}] /\ creating'[i] = NoStart
        /\ \A k \in Instances \ {i} : creating'[k] = creating[k]
    BY <1>6, ReactionsAssumption DEF GivesUp, ReactInv, TypeOK, RunsTypeOK
  <2>4. IntakeTypeOK' /\ RunsTypeOK' /\ refused' \subseteq Starts /\ unplaced' \subseteq Events
    BY <1>1, <2>3, ReactionsAssumption DEF ReactInv, TypeOK, IntakeTypeOK, RunsTypeOK
  <2>5. QED
    BY <1>1, <1>2, <1>3, <1>4, <1>6, <2>1, <2>2, <2>3, <2>4, RoundStep
<1>7. QED
  BY <1>5, <1>6 DEF Lose

\* A version registered later is older than nothing that was received before.
LEMMA ActivateInv ==
  ASSUME ReactInv, NEW p \in Processes, Activate(p)
  PROVE  ReactInv'
<1>1. /\ UNCHANGED <<holder, leading, delivery, event, entries, published, run, jobs, creating,
                     created, round, refused, unplaced>>
      /\ troubles < MaxTroubles /\ troubles' = troubles + 1
      /\ before' = [before EXCEPT ![p] = Received]
  BY DEF Activate, Trouble, intakeVars, runVars, noted
<1>2. Received \subseteq Deliveries /\ Received' = Received
  BY <1>1 DEF Received
<1>3. /\ before' \in [Processes -> SUBSET Deliveries]
      /\ \A q \in Processes : before'[q] = IF q = p THEN Received ELSE before[q]
  BY <1>1, <1>2 DEF ReactInv, TypeOK
<1>4. Grows
  BY <1>1, <1>3 DEF Grows, Exists, ReactInv, BeforeKept
<1>5. LeadTypeOK'
  BY <1>1, LeadershipAssumption DEF ReactInv, TypeOK, LeadTypeOK
<1>6. TypeOK'
  BY <1>1, <1>3, <1>5 DEF ReactInv, TypeOK, At, IntakeTypeOK, RunsTypeOK
<1>7. PublishedFit' /\ \A k \in Instances : Fit(round[k])'
  BY <1>1, <1>4, PublishedStays, RoundsStay DEF ReactInv
<1>8. Kept' /\ BeforeKept' /\ RunsKept'
  BY <1>1, <1>2, <1>3 DEF ReactInv, Kept, IsKept, BeforeKept, RunsKept, Exists
<1>9. QED
  BY <1>6, <1>7, <1>8 DEF ReactInv

LEMMA ArriveInv ==
  ASSUME ReactInv, Arrive
  PROVE  ReactInv'
<1>1. UNCHANGED <<holder, leading, troubles, published, run, jobs, creating, created, before,
                  round, refused, unplaced>>
  BY DEF Arrive, Intakes, Receive, LookForEvent, Keep, leadVars, runVars, noted
<1>2. PICK d \in Deliveries : Receive(d) \/ LookForEvent(d) \/ Keep(d)
  BY DEF Arrive, Intakes
<1>3. /\ delivery' \in [Deliveries -> {"away", "received", "absent", "over"}]
      /\ \A c \in Deliveries : delivery[c] # "away" => delivery'[c] # "away"
  <2>1. PICK stand \in {"received", "absent", "over"} : delivery' = [delivery EXCEPT ![d] = stand]
    BY <1>2 DEF Receive, LookForEvent, Keep, Stands
  <2>2. QED
    BY <2>1 DEF ReactInv, TypeOK, IntakeTypeOK
<1>4. BeforeKept'
  BY <1>1, <1>3 DEF ReactInv, BeforeKept, Received, TypeOK
<1>5. RunsKept'
  BY <1>1 DEF ReactInv, RunsKept, Exists
<1>6. /\ IntakeTypeOK' /\ Kept'
      /\ \A n \in DOMAIN entries : n \in DOMAIN entries' /\ entries'[n] = entries[n]
  <2>1. CASE Receive(d) \/ LookForEvent(d)
    <3>1. UNCHANGED <<event, entries>>
      BY <2>1 DEF Receive, LookForEvent
    <3>2. QED
      BY <1>1, <1>3, <3>1 DEF ReactInv, TypeOK, IntakeTypeOK, Kept, IsKept
  <2>2. CASE Keep(d)
    <3>1. PICK e \in Events : e = EventOf[d] /\ d # "none"
      BY IntakeAssumption
    <3>2. PICK rec : rec = [by |-> d, completed |-> FALSE]
      OBVIOUS
    <3>3. /\ event' = [event EXCEPT ![e] = rec] /\ entries' = Append(entries, e)
          /\ rec.by = d /\ rec # NoEvent /\ rec \in [by : Deliveries \cup {"none"}, completed : BOOLEAN]
      BY <2>2, <3>1, <3>2 DEF Keep, NoEvent
    <3>4. entries \in Seq(Events) /\ event \in [Events -> [by : Deliveries \cup {"none"}, completed : BOOLEAN]]
      BY DEF ReactInv, TypeOK, IntakeTypeOK
    <3>5. /\ entries' \in Seq(Events) /\ Len(entries') = Len(entries) + 1 /\ Len(entries) \in Nat
          /\ \A n \in 1 .. Len(entries) : entries'[n] = entries[n]
          /\ entries'[Len(entries) + 1] = e
          /\ DOMAIN entries = 1 .. Len(entries) /\ DOMAIN entries' = 1 .. Len(entries')
      BY <3>3, <3>4, AppendProperties, LenProperties
    <3>6. /\ event' \in [Events -> [by : Deliveries \cup {"none"}, completed : BOOLEAN]]
          /\ \A f \in Events : event'[f] = IF f = e THEN rec ELSE event[f]
      BY <3>3, <3>4
    <3>7. /\ \A n \in DOMAIN entries : n \in DOMAIN entries' /\ entries'[n] = entries[n]
          /\ published' \subseteq DOMAIN entries'
      BY <1>1, <3>5 DEF ReactInv, TypeOK, IntakeTypeOK
    <3>8. IntakeTypeOK'
      BY <1>3, <3>5, <3>6, <3>7 DEF IntakeTypeOK
    <3>9. ASSUME NEW f \in Events, IsKept(f)'
          PROVE  /\ event'[f].by \in Deliveries /\ EventOf[event'[f].by] = f
                 /\ \E n \in DOMAIN entries' : entries'[n] = f
      <4>1. CASE f = e
        <5>1. Len(entries) + 1 \in DOMAIN entries'
          BY <3>5
        <5>2. QED
          BY <3>1, <3>3, <3>5, <3>6, <4>1, <5>1
      <4>2. CASE f # e
        <5>1. event'[f] = event[f] /\ IsKept(f)
          BY <3>6, <3>9, <4>2 DEF IsKept, NoEvent
        <5>2. PICK n \in DOMAIN entries : entries[n] = f
          BY <5>1 DEF ReactInv, Kept
        <5>3. QED
          BY <3>7, <5>1, <5>2 DEF ReactInv, Kept
      <4>3. QED
        BY <4>1, <4>2
    <3>10. ASSUME NEW n \in DOMAIN entries'
           PROVE  IsKept(entries[n])'
      <4>1. PICK f \in Events : f = entries'[n]
        BY <3>5
      <4>2. event'[f] # NoEvent
        <5>1. CASE f = e
          BY <3>3, <3>6, <5>1
        <5>2. CASE f # e
          <6>1. n \in DOMAIN entries /\ entries[n] = f
            BY <3>5, <4>1, <5>2
          <6>2. QED
            BY <3>6, <5>2, <6>1 DEF ReactInv, Kept, IsKept
        <5>3. QED
          BY <5>1, <5>2
      <4>3. QED
        BY <4>1, <4>2 DEF IsKept, NoEvent
    <3>11. Kept'
      BY <3>9, <3>10 DEF Kept
    <3>12. QED
      BY <3>7, <3>8, <3>11
  <2>3. QED
    BY <1>2, <2>1, <2>2
<1>7. Grows
  BY <1>1, <1>6 DEF Grows, Exists
<1>8. TypeOK'
  BY <1>1, <1>6 DEF ReactInv, TypeOK, At, LeadTypeOK, RunsTypeOK
<1>9. PublishedFit' /\ \A k \in Instances : Fit(round[k])'
  BY <1>1, <1>7, PublishedStays, RoundsStay DEF ReactInv
<1>10. QED
  BY <1>4, <1>5, <1>6, <1>8, <1>9 DEF ReactInv

\* A runner's part, and a person's: the run stays, and its first job with it until it is executed.
LEMMA RunsGoOn ==
  ASSUME RunsTypeOK, RunsKept, Runs \/ \E s \in Starts : Continues(s)
  PROVE  /\ RunsTypeOK' /\ RunsKept' /\ UNCHANGED <<creating, created>>
         /\ \A s \in Starts : Exists(s) => run'[s] # "none"
<1>1. PICK s \in Starts : Executes(s) \/ CompletesJob(s) \/ ExecutesAgain(s) \/ Continues(s)
  BY DEF Runs
<1>2. CASE Executes(s) \/ ExecutesAgain(s) \/ Continues(s)
  <2>1. PICK to \in {"waits", "again", "over"} :
          run' = [run EXCEPT ![s] = to] /\ jobs' = jobs /\ UNCHANGED <<creating, created>>
    BY <1>2 DEF Executes, ExecutesAgain, Continues, Outcomes
  <2>2. \A t \in Starts : run'[t] = IF t = s THEN to ELSE run[t]
    BY <2>1 DEF RunsTypeOK
  <2>3. run[s] # "none"
    BY <1>2 DEF Executes, ExecutesAgain, Continues
  <2>4. RunsTypeOK'
    BY <2>1 DEF RunsTypeOK
  <2>5. QED
    BY <2>1, <2>2, <2>3, <2>4 DEF RunsTypeOK, RunsKept, Exists
<1>3. CASE CompletesJob(s)
  <2>1. run' = run /\ jobs' = jobs \ {s} /\ run[s] # "planned" /\ UNCHANGED <<creating, created>>
    BY <1>3 DEF CompletesJob
  <2>2. QED
    BY <2>1 DEF RunsTypeOK, RunsKept, Exists
<1>4. QED
  BY <1>1, <1>2, <1>3

LEMMA RunInv ==
  ASSUME ReactInv, Run \/ Answer
  PROVE  ReactInv'
<1>1. UNCHANGED <<holder, leading, troubles, delivery, event, entries, published, before,
                  round, refused, unplaced>>
  BY DEF Run, Answer, leadVars, intakeVars, noted
<1>2. /\ RunsTypeOK' /\ RunsKept' /\ UNCHANGED <<creating, created>>
      /\ \A s \in Starts : Exists(s) => run'[s] # "none"
  BY RunsGoOn DEF Run, Answer, ReactInv, TypeOK
<1>3. Grows
  BY <1>1, <1>2 DEF Grows
<1>4. TypeOK'
  BY <1>1, <1>2 DEF ReactInv, TypeOK, At, LeadTypeOK, IntakeTypeOK
<1>5. PublishedFit' /\ \A k \in Instances : Fit(round[k])'
  BY <1>1, <1>3, PublishedStays, RoundsStay DEF ReactInv
<1>6. Kept' /\ BeforeKept'
  BY <1>1 DEF ReactInv, Kept, IsKept, BeforeKept, Received
<1>7. QED
  BY <1>2, <1>4, <1>5, <1>6 DEF ReactInv

-----------------------------------------------------------------------------
(* What follows.                                                           *)

LEMMA InitReact == Init => ReactInv
<1> SUFFICES ASSUME Init PROVE ReactInv
  OBVIOUS
<1>1. LeadTypeOK /\ RunsTypeOK
  BY LeadershipAssumption, RunsAssumption
     DEF Init, LeadInit, LeadTypeOK, RunsInit, RunsTypeOK
<1>2. IntakeTypeOK /\ entries = <<>> /\ published = {}
  <2>1. entries = <<>> /\ published = {} /\ entries \in Seq(Events)
    BY EmptySeq DEF Init, IntakeInit
  <2>2. QED
    BY <2>1 DEF Init, IntakeInit, IntakeTypeOK, NoEvent
<1>3. NoRound \in Round /\ NoRound.at = "idle"
  BY DEF NoRound, Round
<1>4. TypeOK
  BY <1>1, <1>2, <1>3, ReactionsAssumption DEF Init, TypeOK, At, RunsInit
<1>5. \A i \in Instances : Fit(round[i])
  BY <1>3 DEF Init, Fit
<1>6. \A e \in Events : ~IsKept(e)
  BY DEF Init, IntakeInit, IsKept
<1>7. DOMAIN entries = {}
  BY <1>2
<1>8. Kept /\ PublishedFit
  BY <1>2, <1>6, <1>7 DEF Kept, PublishedFit
<1>9. BeforeKept /\ RunsKept
  BY DEF Init, RunsInit, BeforeKept, RunsKept
<1>10. QED
  BY <1>4, <1>5, <1>8, <1>9 DEF ReactInv

LEMMA NextReact == ReactInv /\ [Next]_vars => ReactInv'
<1> SUFFICES ASSUME ReactInv, [Next]_vars PROVE ReactInv'
  OBVIOUS
<1>1. ASSUME NEW i \in Instances, React(i) PROVE ReactInv'
  BY <1>1, BeginInv, FindInv, CheckInv, ReadEventInv, FindUnplacedInv, MakeCommandInv, RefuseInv,
     LookForRunInv, StartInv, PublishEntryInv DEF React
<1>2. ASSUME NEW i \in Instances, Fail(i) \/ Elect(i) \/ Lose(i) PROVE ReactInv'
  BY <1>2, FailInv, ElectInv, LoseInv
<1>3. CASE Arrive \/ Run \/ Answer
  BY <1>3, ArriveInv, RunInv
<1>4. CASE \E p \in Processes : Activate(p)
  BY <1>4, ActivateInv
<1>5. CASE UNCHANGED vars
  <2>1. UNCHANGED <<holder, leading, troubles, delivery, event, entries, published, run, jobs,
                    creating, created, before, round, refused, unplaced>>
    BY <1>5 DEF vars, leadVars, intakeVars, runVars
  <2>2. Grows
    BY <2>1 DEF Grows, Exists
  <2>3. TypeOK'
    BY <2>1 DEF ReactInv, TypeOK, At, LeadTypeOK, IntakeTypeOK, RunsTypeOK
  <2>4. PublishedFit' /\ \A k \in Instances : Fit(round[k])'
    BY <2>1, <2>2, PublishedStays, RoundsStay DEF ReactInv
  <2>5. Kept' /\ BeforeKept' /\ RunsKept'
    BY <2>1 DEF ReactInv, Kept, IsKept, BeforeKept, Received, RunsKept, Exists
  <2>6. QED
    BY <2>3, <2>4, <2>5 DEF ReactInv
<1>6. QED
  BY <1>1, <1>2, <1>3, <1>4, <1>5 DEF Next

THEOREM ReactInvHolds == Spec => []ReactInv
  BY InitReact, NextReact, PTL DEF Spec

\* Every variable keeps its type, for any events, processes and instances.
THEOREM ReactionsTypeCorrect == Spec => []TypeOK
<1>1. ReactInv => TypeOK
  BY DEF ReactInv
<1>2. QED
  BY <1>1, ReactInvHolds, PTL

\* Nothing kept at the intake is lost, whoever died, lost the lead or reacted beside another:
\* once nothing of an event waits, every process it starts has its run or its refusal
\* (Reactions.tick, ADR-0048 4, 6).
THEOREM NothingKeptIsLost == Spec => []NothingLost
<1>1. ReactInv => NothingLost
  <2> SUFFICES ASSUME ReactInv, NEW e \in Events \ unplaced, IsKept(e),
                      \A n \in Waiting : entries[n] # e, NEW p \in Entitled(e)
               PROVE  Exists(<<e, p>>) \/ <<e, p>> \in refused
    BY DEF NothingLost
  <2>1. PICK n \in DOMAIN entries : entries[n] = e
    BY DEF ReactInv, Kept
  <2>2. n \in published
    BY <2>1 DEF Waiting
  <2>3. p \in Processes /\ Covered(e, p)
    BY <2>1, <2>2 DEF ReactInv, PublishedFit, Entitled
  <2>4. QED
    BY <2>3 DEF Covered
<1>2. QED
  BY <1>1, ReactInvHolds, PTL

\* No creation replaces a run that is executed under its first job: it lands once that execution
\* ended and the job is gone, or not at all (PostgresRuns.put, the job's derived identifier;
\* ADR-0035 4).  Of a run that is executed again it says nothing.
THEOREM CreatedBesideNoRunner == Spec => NeverUnderItsRunner
<1>1. ASSUME ReactInv, [Next]_vars
      PROVE  [\A s \in Starts : created'[s] # created[s] => run[s] # "planned"]_runVars
  <2>1. CASE created' = created
    BY <2>1
  <2>2. CASE \E c \in Creators : Creates(c)
    <3>1. PICK c \in Creators : Creates(c)
      BY <2>2
    <3>2. PICK s \in Starts : s = creating[c]
      BY <1>1, <3>1 DEF Creates, ReactInv, TypeOK, RunsTypeOK
    <3>3. CASE s \in jobs
      <4>1. created' = created
        BY <3>1, <3>2, <3>3 DEF Creates, Collides
      <4>2. QED
        BY <4>1
    <3>4. CASE s \notin jobs
      <4>1. created' = [created EXCEPT ![s] = created[s] + 1]
        BY <3>1, <3>2, <3>4 DEF Creates, Collides
      <4>2. \A t \in Starts \ {s} : created'[t] = created[t]
        BY <1>1, <4>1 DEF ReactInv, TypeOK, RunsTypeOK
      <4>3. run[s] # "planned"
        BY <1>1, <3>2, <3>4 DEF ReactInv, RunsKept
      <4>4. QED
        BY <4>2, <4>3
    <3>5. QED
      BY <3>3, <3>4
  <2>3. created' = created \/ \E c \in Creators : Creates(c)
    <3>1. ASSUME NEW i \in Instances, React(i)
          PROVE  created' = created \/ \E c \in Creators : Creates(c)
      BY <3>1, ReactionsAssumption
         DEF React, Begin, Find, Check, ReadEvent, FindUnplaced, MakeCommand, Refuse, LookForRun,
             FindsRun, FindsNone, Start, PublishEntry, runVars
    <3>2. ASSUME NEW i \in Instances, Fail(i) \/ Elect(i) \/ Lose(i)
          PROVE  created' = created
      BY <3>2 DEF Fail, Elect, Lose, GivesUp, runVars
    <3>3. CASE Arrive \/ Run \/ Answer \/ \E p \in Processes : Activate(p)
      BY <3>3 DEF Arrive, Run, Answer, Runs, Executes, CompletesJob, ExecutesAgain, Continues, Activate,
             runVars
    <3>4. CASE UNCHANGED vars
      BY <3>4 DEF vars, runVars
    <3>5. QED
      BY <1>1, <3>1, <3>2, <3>3, <3>4 DEF Next
  <2>4. QED
    BY <2>1, <2>2, <2>3
<1>2. QED
  BY <1>1, InitReact, NextReact, PTL DEF Spec, NeverUnderItsRunner

=============================================================================
