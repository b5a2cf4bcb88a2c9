----------------------- MODULE DeadlineKeepingProofs ------------------------
(* Theorems of the keeping of deadlines and their proofs.                  *)
EXTENDS DeadlineKeeping, SequenceTheorems, FiniteSetTheorems, TLAPS

KindsOf(b) == {b[n].kind : n \in DOMAIN b}

\* The entries of one deadline are one story.
Told(b) ==
  /\ \A n, k \in DOMAIN b : n # k => b[n].kind # b[k].kind
  /\ \A n \in DOMAIN b :
       /\ n = 1 <=> b[n].kind = "started"
       /\ b[n].kind = "met" => n = Len(b)
       /\ b[n].kind = "lead" => \A k \in DOMAIN b : k < n => b[k].kind # "limit"

\* A record says what the entries say.
Says(r, b) ==
  /\ r.taken = KindsOf(b) \cap Moments
  /\ r.state = IF "met" \in KindsOf(b) THEN "met" ELSE IF "started" \in KindsOf(b) THEN "open" ELSE "none"

Story ==
  /\ record \in [Deadlines -> Deadline] /\ book \in [Deadlines -> Seq(Entry)]
  /\ \A d \in Deadlines : Told(book[d]) /\ Says(record[d], book[d])

\* Where a tick stands with the action at its head: the claim on the chain is its own while the
\* record it read is still the record, and a run it records as started is there.
Standing(i, r) ==
  /\ r.at # "idle" => r.due # <<>>
  /\ r.at \in {"read", "write"} => chain = i
  /\ r.at = "write" => /\ record[Head(r.due)[1]] = r.seen /\ r.seen.state = "open"
                       /\ Head(r.due)[2] \notin r.seen.taken /\ "limit" \notin r.seen.taken
  /\ r.at \in {"enter", "read", "write"} /\ r.outcome = "start" => Exists(Head(r.due))

\* A run is created for the action at the head.
Making == \A i \in Instances : creating[i] # NoStart => At(i, "start") /\ creating[i] = Head_(i)

\* A run has its first job until it is executed, and a job its run.
RunsKept == /\ \A s \in jobs : Exists(s)
            /\ \A s \in Starts : run[s] = "planned" => s \in jobs

\* The engine records an entry only while the case is not over.
CaseFit ==
  /\ stage \in 0 .. LastStage /\ active \in BOOLEAN
  /\ chain \in Instances \cup {Engine, NoOne}
  /\ come \in [Deadlines -> SUBSET Moments]
  /\ chain = Engine => stage < LastStage

KeepInv ==
  /\ TypeOK /\ CaseFit /\ RunsKept /\ Story /\ StartedRunExists /\ Making
  /\ \A i \in Instances : Standing(i, round[i])

-----------------------------------------------------------------------------
(* The entries of a deadline.                                              *)

LEMMA Tells ==
  ASSUME NEW b \in Seq(Entry), Told(b), NEW x \in Entry,
         x.kind \notin KindsOf(b), "met" \notin KindsOf(b),
         b = <<>> <=> x.kind = "started",
         x.kind = "lead" => "limit" \notin KindsOf(b)
  PROVE  /\ Append(b, x) \in Seq(Entry) /\ Told(Append(b, x))
         /\ KindsOf(Append(b, x)) = KindsOf(b) \cup {x.kind}
         /\ \A n \in DOMAIN Append(b, x) : Append(b, x)[n] = x \/ (n \in DOMAIN b /\ Append(b, x)[n] = b[n])
<1>1. PICK len \in Nat : len = Len(b) /\ DOMAIN b = 1 .. len
  BY LenProperties
<1>2. PICK c \in Seq(Entry) :
        /\ c = Append(b, x) /\ Len(c) = len + 1 /\ DOMAIN c = 1 .. len + 1
        /\ \A n \in 1 .. len : c[n] = b[n]
        /\ c[len + 1] = x
  <2>1. PICK c \in Seq(Entry) : c = Append(b, x)
    BY AppendProperties
  <2>2. Len(c) = len + 1 /\ c[len + 1] = x /\ \A n \in 1 .. len : c[n] = b[n]
    BY <1>1, <2>1, AppendProperties
  <2>3. DOMAIN c = 1 .. len + 1
    BY <2>2, LenProperties
  <2>4. QED
    BY <2>1, <2>2, <2>3
<1>3. b = <<>> <=> len = 0
  BY <1>1, EmptySeq
<1>4. \A n \in 1 .. len : b[n].kind \in KindsOf(b)
  BY <1>1 DEF KindsOf
<1>5. \A n \in DOMAIN c : (n = len + 1 /\ c[n] = x) \/ (n \in 1 .. len /\ c[n] = b[n])
  BY <1>2
<1>6. KindsOf(c) = KindsOf(b) \cup {x.kind}
  BY <1>1, <1>2, <1>5 DEF KindsOf
<1>7. \A n, k \in DOMAIN c : n # k => c[n].kind # c[k].kind
  BY <1>1, <1>4, <1>5 DEF Told
<1>8. ASSUME NEW n \in DOMAIN c
      PROVE  /\ n = 1 <=> c[n].kind = "started"
             /\ c[n].kind = "met" => n = Len(c)
             /\ c[n].kind = "lead" => \A k \in DOMAIN c : k < n => c[k].kind # "limit"
  <2>1. CASE n = len + 1 /\ c[n] = x
    <3>1. n = 1 <=> c[n].kind = "started"
      BY <1>3, <2>1
    <3>2. \A k \in DOMAIN c : k < n => k \in 1 .. len /\ c[k] = b[k]
      BY <1>2, <2>1
    <3>3. QED
      BY <1>2, <1>4, <2>1, <3>1, <3>2
  <2>2. CASE n \in 1 .. len /\ c[n] = b[n]
    <3>1. \A k \in DOMAIN c : k < n => k \in 1 .. len /\ c[k] = b[k]
      BY <1>2, <2>2
    <3>2. c[n].kind # "met"
      BY <1>4, <2>2
    <3>3. QED
      BY <1>1, <2>2, <3>1, <3>2 DEF Told
  <2>3. QED
    BY <1>5, <2>1, <2>2
<1>9. Told(c)
  BY <1>7, <1>8 DEF Told
<1>10. QED
  BY <1>1, <1>2, <1>5, <1>6, <1>9

LEMMA HeadStarts ==
  ASSUME NEW r \in Round, r.due # <<>>
  PROVE  /\ Head(r.due) \in Starts /\ Head(r.due)[1] \in Deadlines /\ Head(r.due)[2] \in Moments
         /\ Head(r.due) = <<Head(r.due)[1], Head(r.due)[2]>>
<1>1. Head(r.due) \in Deadlines \X Moments
  BY HeadTailProperties DEF Round
<1>2. QED
  BY <1>1, DeadlinesAssumption

\* A run that was started stays.
RunsStay == \A s \in Starts : Exists(s) => run'[s] # "none"

LEMMA StandingStays ==
  ASSUME RunsStay, NEW i \in Instances, NEW r \in Round, Standing(i, r),
         chain = i => chain' = i, r.at = "write" => record' = record
  PROVE  Standing(i, r)'
<1>1. CASE r.at = "idle"
  BY <1>1 DEF Standing
<1>2. CASE r.at # "idle"
  <2>1. r.due # <<>>
    BY <1>2 DEF Standing
  <2>2. PICK s \in Starts : s = Head(r.due)
    BY <2>1, HeadStarts
  <2>3. Exists(s) => Exists(s)'
    BY DEF RunsStay, Exists
  <2>4. QED
    BY <1>2, <2>1, <2>2, <2>3 DEF Standing
<1>3. QED
  BY <1>1, <1>2

LEMMA StartedStay ==
  ASSUME RunsStay, StartedRunExists, book' = book
  PROVE  StartedRunExists'
  BY DEF RunsStay, StartedRunExists, Exists

LEMMA NoRoundIdle == NoRound \in Round /\ NoRound.at = "idle"
<1>1. <<>> \in Seq(Deadlines \X Moments)
  BY EmptySeq
<1>2. QED
  BY <1>1 DEF NoRound, Round, Unstarted, Deadline

\* No round changes.
LEMMA RoundsStay ==
  ASSUME KeepInv, RunsStay, UNCHANGED <<round, creating>>,
         \A i \in Instances : chain = i => chain' = i,
         record' = record \/ chain \notin Instances,
         LeadTypeOK', RunsTypeOK', CaseFit', RunsKept', Story', StartedRunExists'
  PROVE  KeepInv'
<1>1. Making' /\ round' \in [Instances -> Round]
  BY DEF KeepInv, Making, At, Head_, TypeOK
<1>2. TypeOK'
  BY <1>1 DEF KeepInv, TypeOK, CaseFit, Story, At
<1>3. ASSUME NEW i \in Instances
      PROVE  Standing(i, round[i])'
  <2>1. PICK r \in Round : r = round[i] /\ Standing(i, r)
    BY DEF KeepInv, TypeOK
  <2>2. r.at = "write" => chain = i
    BY <2>1 DEF Standing
  <2>3. Standing(i, r)'
    BY <2>1, <2>2, StandingStays
  <2>4. QED
    BY <2>1, <2>3 DEF Standing
<1>4. QED
  BY <1>1, <1>2, <1>3 DEF KeepInv

\* The round of one instance changes.
LEMMA RoundStep ==
  ASSUME KeepInv, RunsStay, NEW i \in Instances, NEW x \in Round, Becomes(i, x),
         x.at = "idle" => x = NoRound, Standing(i, x)',
         \A k \in Instances \ {i} : chain = k => chain' = k,
         record' = record \/ chain = i,
         \A k \in Instances \ {i} : creating'[k] = creating[k],
         creating'[i] = NoStart \/ (x.at = "start" /\ creating'[i] = Head(x.due)),
         LeadTypeOK', RunsTypeOK', CaseFit', RunsKept', Story', StartedRunExists'
  PROVE  KeepInv'
<1>1. /\ round' \in [Instances -> Round]
      /\ \A k \in Instances : round'[k] = IF k = i THEN x ELSE round[k]
  BY DEF KeepInv, TypeOK, Becomes
<1>2. Making'
  BY <1>1 DEF KeepInv, Making, At, Head_
<1>3. \A k \in Instances : round'[k].at = "idle" => round'[k] = NoRound
  BY <1>1 DEF KeepInv, TypeOK, At
<1>4. TypeOK'
  BY <1>1, <1>2, <1>3 DEF TypeOK, CaseFit, Story, At, Making
<1>5. ASSUME NEW k \in Instances
      PROVE  Standing(k, round[k])'
  <2>1. CASE k = i
    BY <1>1, <2>1 DEF Standing
  <2>2. CASE k # i
    <3>1. PICK r \in Round : r = round[k] /\ r = round'[k] /\ Standing(k, r)
      BY <1>1, <2>2 DEF KeepInv, TypeOK
    <3>2. r.at = "write" => chain = k
      BY <3>1 DEF Standing
    <3>3. Standing(k, r)'
      BY <2>2, <3>1, <3>2, StandingStays
    <3>4. QED
      BY <3>1, <3>3 DEF Standing
  <2>3. QED
    BY <2>1, <2>2
<1>6. QED
  BY <1>2, <1>4, <1>5 DEF KeepInv

\* A round goes on, and nothing changes but it and the claim on the chain.
LEMMA RoundOnly ==
  ASSUME KeepInv, NEW i \in Instances, NEW x \in Round, Becomes(i, x),
         x.at = "idle" => x = NoRound, Standing(i, x)',
         chain' \in Instances \cup {chain, NoOne},
         \A k \in Instances \ {i} : chain = k => chain' = k,
         creating[i] = NoStart,
         UNCHANGED <<leadVars, runVars, caseVars, record, book>>
  PROVE  KeepInv'
<1>1. UNCHANGED <<holder, leading, troubles, run, jobs, creating, created, stage, come, active>>
  BY DEF leadVars, runVars, caseVars
<1>2. RunsStay
  BY <1>1 DEF RunsStay, Exists
<1>3. LeadTypeOK' /\ RunsTypeOK' /\ RunsKept'
  BY <1>1 DEF KeepInv, TypeOK, LeadTypeOK, RunsTypeOK, RunsKept, Exists
<1>4. CaseFit'
  BY <1>1, LeadershipAssumption, DeadlinesAssumption DEF KeepInv, TypeOK, CaseFit
<1>5. Story'
  BY DEF KeepInv, Story, Told, Says, KindsOf
<1>6. StartedRunExists'
  BY <1>2, StartedStay DEF KeepInv
<1>7. QED
  BY <1>1, <1>2, <1>3, <1>4, <1>5, <1>6, RoundStep

\* What is known of a round that is not idle.
LEMMA InRound ==
  ASSUME KeepInv, NEW i \in Instances, ~At(i, "idle")
  PROVE  /\ round[i] \in Round /\ Standing(i, round[i]) /\ round[i].at # "idle"
         /\ round[i].due # <<>> /\ Head_(i) = Head(round[i].due)
         /\ ~At(i, "start") => creating[i] = NoStart
  BY DEF KeepInv, TypeOK, At, Standing, Head_

LEMMA NextStands ==
  ASSUME NEW i \in Instances, NEW r \in Round, r.due # <<>>
  PROVE  /\ NextDue(r) \in Round /\ NextDue(r).at \in {"idle", "take"}
         /\ NextDue(r).at = "idle" => NextDue(r) = NoRound
         /\ NextDue(r).at = "take" => NextDue(r).due # <<>>
<1>1. CASE Tail(r.due) = <<>>
  BY <1>1, NoRoundIdle DEF NextDue
<1>2. CASE Tail(r.due) # <<>>
  <2>1. Tail(r.due) \in Seq(Deadlines \X Moments)
    BY HeadTailProperties DEF Round
  <2>2. NextDue(r) = [NoRound EXCEPT !.at = "take", !.due = Tail(r.due)]
    BY <1>2 DEF NextDue
  <2>3. QED
    BY <1>2, <2>1, <2>2, NoRoundIdle DEF Round, NoRound
<1>3. QED
  BY <1>1, <1>2

-----------------------------------------------------------------------------
(* The steps of a tick.                                                    *)

LEMMA DueFinite == AllDue \subseteq Starts /\ IsFiniteSet(AllDue)
<1>1. AllDue \subseteq Starts
  BY DEF AllDue
<1>2. IsFiniteSet(Moments)
  <2>1. IsFiniteSet({"lead"}) /\ IsFiniteSet({"limit"})
    BY FS_Singleton
  <2>2. Moments = {"lead"} \cup {"limit"}
    BY DEF Moments
  <2>3. QED
    BY <2>1, <2>2, FS_Union
<1>3. IsFiniteSet(Starts)
  BY <1>2, FS_Product, DeadlinesAssumption
<1>4. QED
  BY <1>1, <1>3, FS_Subset

LEMMA BeginInv ==
  ASSUME KeepInv, NEW i \in Instances, Begin(i)
  PROVE  KeepInv'
<1>1. PICK due \in [1 .. Cardinality(AllDue) -> AllDue] :
        Becomes(i, [NoRound EXCEPT !.at = "take", !.due = due])
  BY DEF Begin
<1>2. PICK n \in Nat \ {0} : due \in [1 .. n -> AllDue]
  <2>1. Cardinality(AllDue) \in Nat /\ Cardinality(AllDue) # 0
    BY DueFinite, FS_CardinalityType, FS_EmptySet DEF Begin
  <2>2. QED
    BY <2>1
<1>3. due \in Seq(Deadlines \X Moments) /\ due # <<>>
  <2>1. due \in [1 .. n -> Deadlines \X Moments]
    BY <1>2, DueFinite, DeadlinesAssumption
  <2>2. due \in Seq(Deadlines \X Moments)
    BY <1>2, <2>1
  <2>3. DOMAIN due = 1 .. n /\ 1 \in 1 .. n
    BY <1>2
  <2>4. QED
    BY <2>2, <2>3
<1> DEFINE x == [NoRound EXCEPT !.at = "take", !.due = due]
<1>4. x \in Round /\ x.at = "take" /\ x.due = due /\ Becomes(i, x)
  BY <1>1, <1>3, NoRoundIdle DEF Round, NoRound
<1> HIDE DEF x
<1>5. Standing(i, x)'
  BY <1>3, <1>4 DEF Standing
<1>6. chain' = chain /\ creating[i] = NoStart
  BY DEF Begin, At, KeepInv, TypeOK
<1>7. QED
  BY <1>4, <1>5, <1>6, RoundOnly DEF Begin

\* A round whose outcome and stand alone change.
LEMMA GoesInv ==
  ASSUME KeepInv, NEW i \in Instances, At(i, "take"),
         NEW stand \in {"start", "enter"}, NEW outcome \in {"none", "remind", "refused"},
         Goes(i, stand, outcome), UNCHANGED <<leadVars, runVars, caseVars, chain, record, book>>
  PROVE  KeepInv'
<1>1. PICK r \in Round : r = round[i] /\ r.due # <<>> /\ creating[i] = NoStart
  BY InRound DEF At
<1> DEFINE x == [r EXCEPT !.at = stand, !.outcome = outcome]
<1>2. x \in Round /\ x.at = stand /\ x.outcome = outcome /\ x.due = r.due /\ Becomes(i, x)
  BY <1>1 DEF Round, Goes
<1> HIDE DEF x
<1>3. Standing(i, x)'
  BY <1>1, <1>2 DEF Standing
<1>4. QED
  BY <1>1, <1>2, <1>3, RoundOnly

LEMMA TakesInv ==
  ASSUME KeepInv, NEW i \in Instances, Remind(i) \/ LookForProcess(i)
  PROVE  KeepInv'
<1>1. PICK stand \in {"start", "enter"}, outcome \in {"none", "remind", "refused"} :
        Goes(i, stand, outcome)
  BY DEF Remind, LookForProcess
<1>2. QED
  BY <1>1, GoesInv DEF Remind, LookForProcess

LEMMA LookForRunInv ==
  ASSUME KeepInv, NEW i \in Instances, LookForRun(i)
  PROVE  KeepInv'
<1>1. PICK r \in Round : r = round[i] /\ r.due # <<>> /\ r.at = "start" /\ Standing(i, r)
  BY InRound DEF LookForRun, At
<1>2. PICK s \in Starts : s = Head(r.due) /\ s = Head_(i)
  BY <1>1, InRound, HeadStarts DEF LookForRun, At
<1>3. UNCHANGED <<holder, leading, troubles, stage, come, active, chain, record, book>>
  BY DEF LookForRun, leadVars, caseVars
<1>4. CASE FindsNone(i, s) /\ UNCHANGED round
  <2>1. /\ UNCHANGED <<run, jobs, created>> /\ creating' = [creating EXCEPT ![i] = s]
        /\ creating[i] = NoStart
    BY <1>4 DEF FindsNone
  <2>2. /\ creating' \in [Creators -> Starts \cup {NoStart}] /\ creating'[i] = s
        /\ \A k \in Instances \ {i} : creating'[k] = creating[k]
    BY <2>1, DeadlinesAssumption DEF KeepInv, TypeOK, RunsTypeOK
  <2>3. Becomes(i, r)
    BY <1>1, <1>4 DEF Becomes, KeepInv, TypeOK
  <2>4. RunsStay
    BY <2>1 DEF RunsStay, Exists
  <2>5. LeadTypeOK' /\ RunsTypeOK' /\ RunsKept'
    BY <1>3, <2>1, <2>2 DEF KeepInv, TypeOK, LeadTypeOK, RunsTypeOK, RunsKept, Exists
  <2>6. CaseFit' /\ Story'
    BY <1>3 DEF KeepInv, TypeOK, CaseFit, Story, Told, Says, KindsOf
  <2>7. StartedRunExists' /\ Standing(i, r)'
    BY <1>1, <1>3, <2>4, StartedStay, StandingStays DEF KeepInv
  <2>8. QED
    BY <1>1, <1>2, <1>3, <2>2, <2>3, <2>4, <2>5, <2>6, <2>7, RoundStep
<1>5. CASE FindsRun(i, s) /\ Goes(i, "enter", "start")
  <2> DEFINE x == [r EXCEPT !.at = "enter", !.outcome = "start"]
  <2>1. x \in Round /\ x.at = "enter" /\ x.due = r.due /\ Becomes(i, x)
    BY <1>1, <1>5 DEF Round, Goes
  <2> HIDE DEF x
  <2>2. UNCHANGED runVars /\ creating[i] = NoStart /\ Exists(s)
    BY <1>5 DEF FindsRun
  <2>3. Exists(s)'
    BY <2>2 DEF Exists, runVars
  <2>4. Standing(i, x)'
    BY <1>1, <1>2, <2>1, <2>3 DEF Standing
  <2>5. QED
    BY <1>3, <2>1, <2>2, <2>4, RoundOnly DEF leadVars, caseVars
<1>6. QED
  BY <1>2, <1>4, <1>5 DEF LookForRun

\* The transaction that creates a run leaves its run there, and every run its job.
LEMMA CreatesRun ==
  ASSUME RunsTypeOK, RunsKept, NEW c \in Creators, Creates(c)
  PROVE  /\ RunsTypeOK' /\ RunsKept' /\ RunsStay
         /\ creating[c] \in Starts /\ run'[creating[c]] # "none"
         /\ creating' = [creating EXCEPT ![c] = NoStart]
<1>1. PICK s : s = creating[c] /\ s \in Starts /\ creating' = [creating EXCEPT ![c] = NoStart]
  BY DEF Creates, RunsTypeOK
<1>2. CASE s \in jobs
  <2>1. run' = run /\ jobs' = jobs /\ created' = created
    BY <1>1, <1>2 DEF Creates, Collides
  <2>2. QED
    BY <1>1, <1>2, <2>1 DEF RunsTypeOK, RunsKept, RunsStay, Exists
<1>3. CASE s \notin jobs
  <2>1. /\ run' = [run EXCEPT ![s] = "planned"] /\ jobs' = jobs \cup {s}
        /\ created' = [created EXCEPT ![s] = created[s] + 1] /\ created[s] < MaxCreated
    BY <1>1, <1>3 DEF Creates, Collides
  <2>2. created[s] + 1 \in 0 .. MaxCreated
    BY <1>1, <2>1, RunsAssumption DEF RunsTypeOK
  <2>3. RunsTypeOK'
    BY <1>1, <2>1, <2>2 DEF RunsTypeOK
  <2>4. \A t \in Starts : run'[t] = IF t = s THEN "planned" ELSE run[t]
    BY <1>1, <2>1 DEF RunsTypeOK
  <2>5. QED
    BY <1>1, <2>1, <2>3, <2>4 DEF RunsTypeOK, RunsKept, RunsStay, Exists
<1>4. QED
  BY <1>2, <1>3

LEMMA StartInv ==
  ASSUME KeepInv, NEW i \in Instances, Start(i)
  PROVE  KeepInv'
<1>1. PICK r \in Round : r = round[i] /\ r.due # <<>> /\ r.at = "start"
  BY InRound DEF Start, At
<1>2. PICK s \in Starts : s = Head(r.due) /\ s = creating[i]
  BY <1>1, InRound, HeadStarts DEF Start, At, KeepInv, Making
<1>3. UNCHANGED <<holder, leading, troubles, stage, come, active, chain, record, book>>
  BY DEF Start, leadVars, caseVars
<1>4. /\ RunsTypeOK' /\ RunsKept' /\ RunsStay /\ run'[s] # "none"
      /\ creating' = [creating EXCEPT ![i] = NoStart]
  BY <1>2, CreatesRun, DeadlinesAssumption DEF Start, KeepInv, TypeOK
<1>5. creating'[i] = NoStart /\ \A k \in Instances \ {i} : creating'[k] = creating[k]
  BY <1>4, DeadlinesAssumption DEF KeepInv, TypeOK, RunsTypeOK
<1> DEFINE x == [r EXCEPT !.at = "enter", !.outcome = "start"]
<1>6. x \in Round /\ x.at = "enter" /\ x.due = r.due /\ Becomes(i, x)
  BY <1>1 DEF Round, Goes, Start
<1> HIDE DEF x
<1>7. Standing(i, x)'
  BY <1>1, <1>2, <1>4, <1>6 DEF Standing, Exists
<1>8. LeadTypeOK' /\ CaseFit' /\ Story'
  BY <1>3 DEF KeepInv, TypeOK, LeadTypeOK, CaseFit, Story, Told, Says, KindsOf
<1>9. StartedRunExists'
  BY <1>3, <1>4, StartedStay DEF KeepInv
<1>10. QED
  BY <1>3, <1>4, <1>5, <1>6, <1>7, <1>8, <1>9, RoundStep

LEMMA EnterInv ==
  ASSUME KeepInv, NEW i \in Instances, Enter(i)
  PROVE  KeepInv'
<1>1. PICK r \in Round : /\ r = round[i] /\ r.due # <<>> /\ r.at = "enter" /\ Standing(i, r)
                         /\ creating[i] = NoStart
  BY InRound DEF Enter, At
<1>2. PICK s \in Starts : s = Head(r.due)
  BY <1>1, HeadStarts
<1>3. chain = NoOne /\ chain' = i /\ UNCHANGED runVars
  BY DEF Enter, Claims
<1> DEFINE x == [r EXCEPT !.at = "read"]
<1>4. x \in Round /\ x.at = "read" /\ x.due = r.due /\ x.outcome = r.outcome /\ Becomes(i, x)
  BY <1>1 DEF Round, Enter
<1> HIDE DEF x
<1>5. r.outcome = "start" => Exists(s)'
  BY <1>1, <1>2, <1>3 DEF Standing, Exists, runVars
<1>6. Standing(i, x)'
  BY <1>1, <1>2, <1>3, <1>4, <1>5 DEF Standing
<1>7. \A k \in Instances \ {i} : chain = k => chain' = k
  BY <1>3, LeadershipAssumption
<1>8. QED
  BY <1>1, <1>3, <1>4, <1>6, <1>7, RoundOnly DEF Enter

\* What is due on what is read is due under the claim that is kept until it is written.
LEMMA ReadRecordInv ==
  ASSUME KeepInv, NEW i \in Instances, ReadRecord(i)
  PROVE  KeepInv'
<1>1. PICK r \in Round : /\ r = round[i] /\ r.due # <<>> /\ r.at = "read" /\ Standing(i, r)
                         /\ creating[i] = NoStart
  BY InRound DEF ReadRecord, At
<1>2. PICK s \in Starts : s = Head(r.due) /\ s = Head_(i) /\ s[1] \in Deadlines
  BY <1>1, InRound, HeadStarts DEF ReadRecord, At
<1>3. UNCHANGED <<leadVars, runVars, caseVars, record, book>> /\ chain = i
  BY <1>1 DEF ReadRecord, Standing
<1>4. CASE s[2] \in Due(s[1], record[s[1]])
  <2>1. PICK rec \in Deadline : rec = record[s[1]]
    BY <1>2 DEF KeepInv, TypeOK
  <2>2. rec.state = "open" /\ s[2] \notin rec.taken /\ "limit" \notin rec.taken
    BY <1>4, <2>1 DEF Due
  <2> DEFINE x == [r EXCEPT !.at = "write", !.seen = rec]
  <2>3. /\ x \in Round /\ x.at = "write" /\ x.due = r.due /\ x.seen = rec /\ x.outcome = r.outcome
    BY DEF Round
  <2>4. Becomes(i, x) /\ chain' = chain
    BY <1>1, <1>2, <1>4, <2>1 DEF ReadRecord
  <2> HIDE DEF x
  <2>5. r.outcome = "start" => Exists(s)'
    BY <1>1, <1>2, <1>3 DEF Standing, Exists, runVars
  <2>6. Standing(i, x)'
    BY <1>1, <1>2, <1>3, <2>1, <2>2, <2>3, <2>4, <2>5 DEF Standing
  <2>7. QED
    BY <1>1, <1>3, <2>3, <2>4, <2>6, RoundOnly
<1>5. CASE s[2] \notin Due(s[1], record[s[1]])
  <2>1. PICK x \in Round : x = NextDue(r) /\ x.at \in {"idle", "take"} /\ (x.at = "idle" => x = NoRound)
                          /\ (x.at = "take" => x.due # <<>>)
    BY <1>1, NextStands
  <2>2. Becomes(i, x) /\ chain' = NoOne
    BY <1>1, <1>2, <1>3, <1>5, <2>1 DEF ReadRecord, Frees
  <2>3. Standing(i, x)'
    BY <2>1 DEF Standing
  <2>4. \A k \in Instances \ {i} : chain = k => chain' = k
    BY <1>3
  <2>5. QED
    BY <1>1, <1>3, <2>1, <2>2, <2>3, <2>4, RoundOnly
<1>6. QED
  BY <1>4, <1>5

\* The record and the entry that says so are one transaction's, of a deadline that is open still.
LEMMA TakeInv ==
  ASSUME KeepInv, NEW i \in Instances, Take(i)
  PROVE  KeepInv'
<1>1. PICK r \in Round : /\ r = round[i] /\ r.due # <<>> /\ r.at = "write" /\ Standing(i, r)
                         /\ creating[i] = NoStart
  BY InRound DEF Take, At
<1>2. PICK d \in Deadlines, m \in Moments :
        /\ Head(r.due)[1] = d /\ Head(r.due)[2] = m /\ Head_(i)[1] = d /\ Head_(i)[2] = m
        /\ Head(r.due) = <<d, m>>
  BY <1>1, InRound, HeadStarts DEF Take, At
<1>3. PICK rec \in Deadline : rec = record[d]
  BY DEF KeepInv, TypeOK
<1>4. /\ r.seen = rec /\ rec.state = "open" /\ m \notin rec.taken /\ "limit" \notin rec.taken
      /\ chain = i /\ chain' = NoOne
      /\ r.outcome = "start" => Exists(<<d, m>>)
  BY <1>1, <1>2, <1>3 DEF Standing, Take, Frees
<1>5. PICK e \in Entry : e = [kind |-> m, outcome |-> r.outcome]
  BY DEF Entry, Round
<1>6. PICK b \in Seq(Entry) : b = book[d] /\ Told(b) /\ Says(rec, b)
  BY <1>3 DEF KeepInv, Story
<1>7. PICK new \in Deadline : new = [rec EXCEPT !.taken = rec.taken \cup {m}]
  BY DEF Deadline
<1>8. record' = [record EXCEPT ![d] = new] /\ book' = [book EXCEPT ![d] = Append(b, e)]
  BY <1>1, <1>2, <1>4, <1>5, <1>6, <1>7 DEF Take, Noted
<1>9. /\ "started" \in KindsOf(b) /\ "met" \notin KindsOf(b) /\ m \notin KindsOf(b)
      /\ "limit" \notin KindsOf(b)
  BY <1>4, <1>6 DEF Says, Moments
<1>10. b # <<>>
  BY <1>9 DEF KindsOf
<1>11. e.kind = m /\ e.kind # "started" /\ e.kind # "met" /\ e.outcome = r.outcome
  BY <1>5 DEF Moments
<1>12. /\ Append(b, e) \in Seq(Entry) /\ Told(Append(b, e))
       /\ KindsOf(Append(b, e)) = KindsOf(b) \cup {m}
       /\ \A n \in DOMAIN Append(b, e) :
            Append(b, e)[n] = e \/ (n \in DOMAIN b /\ Append(b, e)[n] = b[n])
  BY <1>6, <1>9, <1>10, <1>11, Tells
<1>13. Says(new, Append(b, e))
  BY <1>6, <1>7, <1>9, <1>12 DEF Says, Moments, Deadline
<1>14. UNCHANGED <<holder, leading, troubles, run, jobs, creating, created, stage, come, active>>
  BY DEF Take, leadVars, runVars, caseVars
<1>15. Story'
  <2>1. record' \in [Deadlines -> Deadline] /\ book' \in [Deadlines -> Seq(Entry)]
    BY <1>8, <1>12 DEF KeepInv, Story
  <2>2. \A c \in Deadlines : Told(book'[c]) /\ Says(record'[c], book'[c])
    BY <1>8, <1>12, <1>13 DEF KeepInv, Story
  <2>3. QED
    BY <2>1, <2>2 DEF Story, Told, Says, KindsOf
<1>16. StartedRunExists'
  <2>1. SUFFICES ASSUME NEW s \in Starts, NEW n \in DOMAIN book'[s[1]],
                        book'[s[1]][n] = [kind |-> s[2], outcome |-> "start"]
                 PROVE  Exists(s)
    BY <1>14 DEF StartedRunExists, Exists
  <2>2. s[1] \in Deadlines /\ s = <<s[1], s[2]>>
    BY DeadlinesAssumption
  <2>3. CASE s[1] = d /\ book'[s[1]][n] = e
    BY <1>4, <1>5, <2>1, <2>2, <2>3
  <2>4. CASE n \in DOMAIN book[s[1]] /\ book'[s[1]][n] = book[s[1]][n]
    BY <2>1, <2>4 DEF KeepInv, StartedRunExists
  <2>5. QED
    BY <1>6, <1>8, <1>12, <2>2, <2>3, <2>4 DEF KeepInv, Story
<1>17. PICK x \in Round : /\ x = NextDue(r) /\ x.at \in {"idle", "take"} /\ (x.at = "idle" => x = NoRound)
                          /\ x.at = "take" => x.due # <<>>
  BY <1>1, NextStands
<1>18. Becomes(i, x) /\ Standing(i, x)'
  BY <1>1, <1>17 DEF Take, Standing
<1>19. LeadTypeOK' /\ RunsTypeOK' /\ RunsKept' /\ CaseFit' /\ RunsStay
  BY <1>4, <1>14, LeadershipAssumption, DeadlinesAssumption
     DEF KeepInv, TypeOK, LeadTypeOK, RunsTypeOK, RunsKept, RunsStay, CaseFit, Exists
<1>20. QED
  BY <1>1, <1>4, <1>14, <1>15, <1>16, <1>17, <1>18, <1>19, RoundStep

-----------------------------------------------------------------------------
(* The steps around a tick.                                                *)

LEMMA EndsTick ==
  ASSUME KeepInv, NEW i \in Instances, GivesUp(i), Frees(i), Becomes(i, NoRound),
         UNCHANGED <<stage, come, active, record, book>>, LeadTypeOK'
  PROVE  KeepInv'
<1>1. PICK x \in Round : x = NoRound /\ x.at = "idle"
  BY NoRoundIdle
<1>2. Standing(i, x)'
  BY <1>1 DEF Standing
<1>3. /\ creating' \in [Creators -> Starts \cup {NoStart}] /\ creating'[i] = NoStart
      /\ \A k \in Instances \ {i} : creating'[k] = creating[k]
      /\ UNCHANGED <<run, jobs, created>>
  BY DeadlinesAssumption DEF GivesUp, KeepInv, TypeOK, RunsTypeOK
<1>4. RunsTypeOK' /\ RunsKept' /\ RunsStay
  BY <1>3 DEF KeepInv, TypeOK, RunsTypeOK, RunsKept, RunsStay, Exists
<1>5. CaseFit' /\ Story'
  BY LeadershipAssumption, DeadlinesAssumption
     DEF KeepInv, TypeOK, CaseFit, Story, Told, Says, KindsOf, Frees
<1>6. StartedRunExists'
  BY <1>4, StartedStay DEF KeepInv
<1>7. \A k \in Instances \ {i} : chain = k => chain' = k
  BY DEF Frees
<1>8. QED
  BY <1>1, <1>2, <1>3, <1>4, <1>5, <1>6, <1>7, RoundStep

\* Nothing changes but who leads, how far the case is and who writes of it.
LEMMA RestStays ==
  ASSUME KeepInv, UNCHANGED <<runVars, record, book, round>>, LeadTypeOK', CaseFit',
         \A i \in Instances : chain = i => chain' = i
  PROVE  KeepInv'
<1>1. UNCHANGED <<run, jobs, creating, created, round, record, book>>
  BY DEF runVars
<1>2. RunsTypeOK' /\ RunsKept' /\ RunsStay
  BY <1>1 DEF KeepInv, TypeOK, RunsTypeOK, RunsKept, RunsStay, Exists
<1>3. Story'
  BY <1>1 DEF KeepInv, Story, Told, Says, KindsOf
<1>4. StartedRunExists'
  BY <1>1, <1>2, StartedStay DEF KeepInv
<1>5. QED
  BY <1>1, <1>2, <1>3, <1>4, RoundsStay

LEMMA FailInv ==
  ASSUME KeepInv, NEW i \in Instances, Fail(i)
  PROVE  KeepInv'
<1>1. LeadTypeOK'
  BY LeadershipAssumption DEF Fail, Trouble, KeepInv, TypeOK, LeadTypeOK
<1>2. QED
  BY <1>1, EndsTick DEF Fail, caseVars

LEMMA ElectInv ==
  ASSUME KeepInv, NEW i \in Instances, Elect(i)
  PROVE  KeepInv'
<1>1. LeadTypeOK'
  BY DEF Elect, TryLead, SessionOver, StepDown, KeepInv, TypeOK, LeadTypeOK
<1>2. CaseFit' /\ chain' = chain
  BY DEF Elect, caseVars, KeepInv, TypeOK, CaseFit
<1>3. QED
  BY <1>1, <1>2, RestStays DEF Elect

LEMMA LoseInv ==
  ASSUME KeepInv, NEW i \in Instances, Lose(i)
  PROVE  KeepInv'
<1>1. LeadTypeOK'
  BY LeadershipAssumption
     DEF Lose, SessionLost, Ends, Trouble, IsHeld, KeepInv, TypeOK, LeadTypeOK
<1>2. CASE UNCHANGED <<runVars, chain, round>>
  <2>1. CaseFit'
    BY <1>2 DEF Lose, caseVars, KeepInv, TypeOK, CaseFit
  <2>2. QED
    BY <1>1, <1>2, <2>1, RestStays DEF Lose
<1>3. CASE GivesUp(i) /\ Frees(i) /\ Becomes(i, NoRound)
  BY <1>1, <1>3, EndsTick DEF Lose, caseVars
<1>4. QED
  BY <1>2, <1>3 DEF Lose

LEMMA AroundInv ==
  ASSUME KeepInv,
         RecordEntry \/ RollBack \/ Activate \/ \E d \in Deadlines, m \in Moments : Comes(d, m)
  PROVE  KeepInv'
<1>1. CASE RecordEntry \/ RollBack
  <2>1. LeadTypeOK' /\ CaseFit' /\ UNCHANGED <<runVars, record, book, round>>
    BY <1>1, LeadershipAssumption
       DEF RecordEntry, RollBack, Claims, Frees, Trouble, leadVars, caseVars, KeepInv, TypeOK,
           LeadTypeOK, CaseFit
  <2>2. \A i \in Instances : chain # i
    BY <1>1, LeadershipAssumption, DeadlinesAssumption DEF RecordEntry, RollBack, Claims
  <2>3. QED
    BY <2>1, <2>2, RestStays
<1>2. CASE Activate
  <2>1. /\ LeadTypeOK' /\ CaseFit' /\ UNCHANGED <<runVars, record, book, round>>
        /\ chain' = chain
    BY <1>2, LeadershipAssumption DEF Activate, Trouble, KeepInv, TypeOK, LeadTypeOK, CaseFit
  <2>2. QED
    BY <2>1, RestStays
<1>3. ASSUME NEW d \in Deadlines, NEW m \in Moments, Comes(d, m) PROVE KeepInv'
  <2>1. come' = [come EXCEPT ![d] = come[d] \cup {m}]
    BY <1>3 DEF Comes
  <2>2. come' \in [Deadlines -> SUBSET Moments]
    BY <2>1 DEF KeepInv, TypeOK
  <2>3. /\ LeadTypeOK' /\ CaseFit' /\ UNCHANGED <<runVars, record, book, round>>
        /\ chain' = chain
    BY <1>3, <2>2 DEF Comes, leadVars, KeepInv, TypeOK, LeadTypeOK, CaseFit
  <2>4. QED
    BY <2>3, RestStays
<1>4. QED
  BY <1>1, <1>2, <1>3

\* A runner's part, and a person's: the run stays, and its first job with it until it is executed.
LEMMA RunsGoOn ==
  ASSUME RunsTypeOK, RunsKept, Runs \/ \E s \in Starts : Continues(s)
  PROVE  RunsTypeOK' /\ RunsKept' /\ RunsStay /\ UNCHANGED <<creating, created>>
<1>1. PICK s \in Starts : Executes(s) \/ CompletesJob(s) \/ ExecutesAgain(s) \/ Continues(s)
  BY DEF Runs
<1>2. CASE Executes(s) \/ ExecutesAgain(s) \/ Continues(s)
  <2>1. PICK to \in {"waits", "again", "over"} :
          run' = [run EXCEPT ![s] = to] /\ jobs' = jobs /\ UNCHANGED <<creating, created>>
    BY <1>2 DEF Executes, ExecutesAgain, Continues, Outcomes
  <2>2. \A t \in Starts : run'[t] = IF t = s THEN to ELSE run[t]
    BY <2>1 DEF RunsTypeOK
  <2>3. run[s] # "none"
    BY <1>2 DEF Executes, ExecutesAgain, Continues
  <2>4. RunsTypeOK'
    BY <2>1 DEF RunsTypeOK
  <2>5. QED
    BY <2>1, <2>2, <2>3, <2>4 DEF RunsTypeOK, RunsKept, RunsStay, Exists
<1>3. CASE CompletesJob(s)
  <2>1. run' = run /\ jobs' = jobs \ {s} /\ run[s] # "planned" /\ UNCHANGED <<creating, created>>
    BY <1>3 DEF CompletesJob
  <2>2. QED
    BY <2>1 DEF RunsTypeOK, RunsKept, RunsStay, Exists
<1>4. QED
  BY <1>1, <1>2, <1>3

LEMMA RunInv ==
  ASSUME KeepInv, Run \/ Answer
  PROVE  KeepInv'
<1>1. UNCHANGED <<holder, leading, troubles, stage, come, active, chain, record, book, round>>
  BY DEF Run, Answer, leadVars, caseVars
<1>2. RunsTypeOK' /\ RunsKept' /\ RunsStay /\ UNCHANGED <<creating, created>>
  BY RunsGoOn DEF Run, Answer, KeepInv, TypeOK
<1>3. LeadTypeOK' /\ CaseFit' /\ Story'
  BY <1>1 DEF KeepInv, TypeOK, LeadTypeOK, CaseFit, Story, Told, Says, KindsOf
<1>4. StartedRunExists'
  BY <1>1, <1>2, StartedStay DEF KeepInv
<1>5. QED
  BY <1>1, <1>2, <1>3, <1>4, RoundsStay

-----------------------------------------------------------------------------
(* The engine's entry.                                                     *)

\* What an entry of a stage makes of one deadline: nothing, its start, its end, or both.
Begun(d, s, answers) == IF Starting(d, s, answers) THEN Noted(book[d], "started", "none") ELSE book[d]
Observed(d, s, answers) ==
  IF Meeting(d, s, answers) THEN [record[d] EXCEPT !.state = "met"]
  ELSE IF Starting(d, s, answers) THEN [Unstarted EXCEPT !.state = "open"]
  ELSE record[d]
Written(d, s, answers) ==
  IF Meeting(d, s, answers) THEN Noted(Begun(d, s, answers), "met", "none") ELSE Begun(d, s, answers)

LEMMA BegunTells ==
  ASSUME Story, NEW d \in Deadlines, NEW s, NEW answers
  PROVE  /\ Begun(d, s, answers) \in Seq(Entry) /\ Told(Begun(d, s, answers))
         /\ \A n \in DOMAIN Begun(d, s, answers) :
              \/ Begun(d, s, answers)[n].kind \in {"started", "met"}
              \/ n \in DOMAIN book[d] /\ Begun(d, s, answers)[n] = book[d][n]
         /\ ~Starting(d, s, answers) => Begun(d, s, answers) = book[d]
         /\ Starting(d, s, answers) => /\ KindsOf(Begun(d, s, answers)) = {"started"}
                                       /\ record[d].taken = {}
<1>1. PICK b \in Seq(Entry) : b = book[d] /\ Told(b) /\ Says(record[d], b)
  BY DEF Story
<1>2. CASE ~Starting(d, s, answers)
  BY <1>1, <1>2 DEF Begun
<1>3. CASE Starting(d, s, answers)
  <2>1. "started" \notin KindsOf(b) /\ "met" \notin KindsOf(b)
    BY <1>1, <1>3 DEF Starting, Says
  <2>2. b = <<>>
    <3>1. SUFFICES ASSUME b # <<>> PROVE FALSE
      OBVIOUS
    <3>2. 1 \in DOMAIN b
      BY <3>1, EmptySeq, LenProperties
    <3>3. QED
      BY <1>1, <2>1, <3>2 DEF Told, KindsOf
  <2>3. KindsOf(b) = {}
    BY <2>2 DEF KindsOf
  <2>4. PICK e \in Entry : e = [kind |-> "started", outcome |-> "none"]
    BY DEF Entry
  <2>5. Begun(d, s, answers) = Append(b, e)
    BY <1>1, <1>3, <2>4 DEF Begun, Noted
  <2>6. record[d].taken = {}
    BY <1>1, <2>3 DEF Says
  <2>7. QED
    <3>1. e.kind = "started"
      BY <2>4
    <3>2. /\ Append(b, e) \in Seq(Entry) /\ Told(Append(b, e)) /\ KindsOf(Append(b, e)) = {"started"}
          /\ \A n \in DOMAIN Append(b, e) :
               Append(b, e)[n] = e \/ (n \in DOMAIN b /\ Append(b, e)[n] = b[n])
      BY <1>1, <2>1, <2>2, <2>3, <3>1, Tells
    <3>3. QED
      BY <1>1, <1>3, <2>5, <2>6, <3>1, <3>2
<1>4. QED
  BY <1>2, <1>3

LEMMA ObservedTells ==
  ASSUME Story, NEW d \in Deadlines, NEW s, NEW answers
  PROVE  /\ Written(d, s, answers) \in Seq(Entry) /\ Told(Written(d, s, answers))
         /\ Observed(d, s, answers) \in Deadline
         /\ Says(Observed(d, s, answers), Written(d, s, answers))
         /\ \A n \in DOMAIN Written(d, s, answers) :
              \/ Written(d, s, answers)[n].kind \in {"started", "met"}
              \/ n \in DOMAIN book[d] /\ Written(d, s, answers)[n] = book[d][n]
<1>1. PICK b \in Seq(Entry) : /\ b = Begun(d, s, answers) /\ Told(b)
                              /\ \A n \in DOMAIN b : \/ b[n].kind \in {"started", "met"}
                                                     \/ n \in DOMAIN book[d] /\ b[n] = book[d][n]
                              /\ ~Starting(d, s, answers) => b = book[d]
                              /\ Starting(d, s, answers) => KindsOf(b) = {"started"} /\ record[d].taken = {}
  BY BegunTells
<1>2. PICK rec \in Deadline : rec = record[d] /\ Says(rec, book[d])
  BY DEF Story
<1>3. CASE Meeting(d, s, answers)
  <2>1. PICK e \in Entry : e = [kind |-> "met", outcome |-> "none"]
    BY DEF Entry
  <2>2. Written(d, s, answers) = Append(b, e) /\ e.kind = "met"
    BY <1>1, <1>3, <2>1 DEF Written, Noted
  <2>3. "started" \in KindsOf(b) /\ "met" \notin KindsOf(b)
    BY <1>1, <1>2, <1>3 DEF Meeting, Says
  <2>4. b # <<>>
    BY <2>3 DEF KindsOf
  <2>5. /\ Append(b, e) \in Seq(Entry) /\ Told(Append(b, e))
        /\ KindsOf(Append(b, e)) = KindsOf(b) \cup {"met"}
        /\ \A n \in DOMAIN Append(b, e) :
             Append(b, e)[n] = e \/ (n \in DOMAIN b /\ Append(b, e)[n] = b[n])
    BY <1>1, <2>2, <2>3, <2>4, Tells
  <2>6. Observed(d, s, answers) = [rec EXCEPT !.state = "met"]
    BY <1>2, <1>3 DEF Observed
  <2>7. KindsOf(b) \cap Moments = rec.taken
    BY <1>1, <1>2 DEF Says, Moments
  <2>8. Says([rec EXCEPT !.state = "met"], Append(b, e)) /\ [rec EXCEPT !.state = "met"] \in Deadline
    BY <2>5, <2>7 DEF Says, Moments, Deadline
  <2>9. \A n \in DOMAIN Append(b, e) : \/ Append(b, e)[n].kind \in {"started", "met"}
                                       \/ n \in DOMAIN book[d] /\ Append(b, e)[n] = book[d][n]
    BY <1>1, <2>2, <2>5
  <2>10. QED
    BY <2>2, <2>5, <2>6, <2>8, <2>9
<1>4. CASE ~Meeting(d, s, answers)
  <2>1. Written(d, s, answers) = b
    BY <1>1, <1>4 DEF Written
  <2>2. Observed(d, s, answers) \in Deadline /\ Says(Observed(d, s, answers), b)
    <3>1. CASE Starting(d, s, answers)
      <4>1. Observed(d, s, answers) = [state |-> "open", taken |-> {}]
        BY <1>4, <3>1 DEF Observed, Unstarted
      <4>2. QED
        BY <1>1, <3>1, <4>1 DEF Deadline, Says, Moments
    <3>2. CASE ~Starting(d, s, answers)
      BY <1>1, <1>2, <1>4, <3>2 DEF Observed
    <3>3. QED
      BY <3>1, <3>2
  <2>3. QED
    BY <1>1, <2>1, <2>2
<1>5. QED
  BY <1>3, <1>4

LEMMA ObserveInv ==
  ASSUME KeepInv, ObserveEntry
  PROVE  KeepInv'
<1>1. PICK s \in Stages, answers \in BOOLEAN : Observe(s, answers)
  BY DEF ObserveEntry
<1>2. /\ UNCHANGED <<holder, leading, troubles, run, jobs, creating, created, come, active, round>>
      /\ chain = Engine /\ chain' = NoOne /\ stage' = s
      /\ record' = [d \in Deadlines |-> Observed(d, s, answers)]
      /\ book' = [d \in Deadlines |-> Written(d, s, answers)]
  BY <1>1 DEF Observe, Frees, Observed, Written, Begun, leadVars, runVars
<1>3. Story'
  <2>1. record' \in [Deadlines -> Deadline] /\ book' \in [Deadlines -> Seq(Entry)]
    BY <1>2, ObservedTells DEF KeepInv
  <2>2. \A d \in Deadlines : Told(book'[d]) /\ Says(record'[d], book'[d])
    BY <1>2, ObservedTells DEF KeepInv
  <2>3. QED
    BY <2>1, <2>2 DEF Story, Told, Says, KindsOf
<1>4. StartedRunExists'
  <2>1. SUFFICES ASSUME NEW t \in Starts, NEW n \in DOMAIN book'[t[1]],
                        book'[t[1]][n] = [kind |-> t[2], outcome |-> "start"]
                 PROVE  Exists(t)
    BY <1>2 DEF StartedRunExists, Exists
  <2>2. t[1] \in Deadlines /\ t[2] \in Moments
    BY DeadlinesAssumption
  <2>3. book'[t[1]][n].kind \notin {"started", "met"}
    BY <2>1, <2>2 DEF Moments
  <2>4. n \in DOMAIN book[t[1]] /\ book'[t[1]][n] = book[t[1]][n]
    BY <1>2, <2>2, <2>3, ObservedTells DEF KeepInv
  <2>5. QED
    BY <2>1, <2>4 DEF KeepInv, StartedRunExists
<1>5. stage' \in 0 .. LastStage
  BY <1>1, <1>2, DeadlinesAssumption DEF Stages, KeepInv, CaseFit
<1>6. LeadTypeOK' /\ RunsTypeOK' /\ RunsKept' /\ RunsStay
  BY <1>2 DEF KeepInv, TypeOK, LeadTypeOK, RunsTypeOK, RunsKept, RunsStay, Exists
<1>7. CaseFit'
  BY <1>2, <1>5, DeadlinesAssumption DEF KeepInv, TypeOK, CaseFit
<1>8. chain \notin Instances
  BY <1>2, DeadlinesAssumption
<1>9. QED
  BY <1>2, <1>3, <1>4, <1>6, <1>7, <1>8, RoundsStay

-----------------------------------------------------------------------------
(* What follows.                                                           *)

LEMMA InitKeep == Init => KeepInv
<1> SUFFICES ASSUME Init PROVE KeepInv
  OBVIOUS
<1>1. LeadTypeOK /\ RunsTypeOK
  BY LeadershipAssumption, RunsAssumption DEF Init, LeadInit, LeadTypeOK, RunsInit, RunsTypeOK
<1>2. <<>> \in Seq(Entry) /\ Unstarted \in Deadline
  BY EmptySeq DEF Unstarted, Deadline
<1>3. CaseFit
  BY DeadlinesAssumption DEF Init, CaseFit
<1>4. Story
  <2>1. KindsOf(<<>>) = {} /\ Told(<<>>)
    BY DEF KindsOf, Told
  <2>2. Says(Unstarted, <<>>)
    BY <2>1 DEF Says, Unstarted
  <2>3. QED
    BY <1>2, <2>1, <2>2 DEF Init, Story
<1>5. round \in [Instances -> Round] /\ \A i \in Instances : round[i] = NoRound /\ At(i, "idle")
  BY NoRoundIdle DEF Init, At
<1>6. TypeOK
  BY <1>1, <1>3, <1>4, <1>5, DeadlinesAssumption DEF Init, TypeOK, CaseFit, Story, RunsInit
<1>7. Making /\ RunsKept
  BY DeadlinesAssumption DEF Init, RunsInit, Making, RunsKept
<1>8. StartedRunExists
  BY DeadlinesAssumption DEF Init, StartedRunExists
<1>9. \A i \in Instances : Standing(i, round[i])
  BY <1>5, NoRoundIdle DEF Standing
<1>10. QED
  BY <1>3, <1>4, <1>6, <1>7, <1>8, <1>9 DEF KeepInv

LEMMA NextKeep == KeepInv /\ [Next]_vars => KeepInv'
<1> SUFFICES ASSUME KeepInv, [Next]_vars PROVE KeepInv'
  OBVIOUS
<1>1. ASSUME NEW i \in Instances, Tick(i) PROVE KeepInv'
  BY <1>1, BeginInv, TakesInv, LookForRunInv, StartInv, EnterInv, ReadRecordInv, TakeInv DEF Tick
<1>2. ASSUME NEW i \in Instances, Fail(i) \/ Elect(i) \/ Lose(i) PROVE KeepInv'
  BY <1>2, FailInv, ElectInv, LoseInv
<1>3. CASE ObserveEntry \/ Run \/ Answer
  BY <1>3, ObserveInv, RunInv
<1>4. CASE RecordEntry \/ RollBack \/ Activate \/ \E d \in Deadlines, m \in Moments : Comes(d, m)
  BY <1>4, AroundInv
<1>5. CASE UNCHANGED vars
  <2>1. /\ UNCHANGED <<runVars, record, book, round>> /\ chain' = chain
        /\ UNCHANGED <<holder, leading, troubles, stage, come, active>>
    BY <1>5 DEF vars, leadVars
  <2>2. LeadTypeOK' /\ CaseFit'
    BY <2>1 DEF KeepInv, TypeOK, LeadTypeOK, CaseFit
  <2>3. QED
    BY <2>1, <2>2, RestStays
<1>6. QED
  BY <1>1, <1>2, <1>3, <1>4, <1>5 DEF Next

THEOREM KeepInvHolds == Spec => []KeepInv
  BY InitKeep, NextKeep, PTL DEF Spec

\* Every variable keeps its type, for any deadlines, stages and instances.
THEOREM DeadlinesTypeCorrect == Spec => []TypeOK
<1>1. KeepInv => TypeOK
  BY DEF KeepInv
<1>2. QED
  BY <1>1, KeepInvHolds, PTL

\* The ledger and the record of a deadline tell one story, however many instances tick, fail
\* or die beside the engine: what is read and written of it is so under the claim on the
\* case's chain (Deadlines.take, DeadlineKeeper.observe; ADR-0133 2, 3).
THEOREM LedgerTellsTheRecord == Spec => []RecordIsBook
<1>1. KeepInv => RecordIsBook
  BY DEF KeepInv, Story, Told, Says, KindsOf, Kinds, RecordIsBook
<1>2. QED
  BY <1>1, KeepInvHolds, PTL

\* An entry that says a run was started names a run there is, whoever started it (the derived
\* identifier, composition/deadlines.py; ADR-0133 3).
THEOREM StartRecordedExists == Spec => []StartedRunExists
<1>1. KeepInv => StartedRunExists
  BY DEF KeepInv
<1>2. QED
  BY <1>1, KeepInvHolds, PTL

=============================================================================
