-------------------------- MODULE DecisionRequests --------------------------
(***************************************************************************)
(* Decision requests and the rules from precedent.                         *)
(*                                                                         *)
(* A request is answered by a person, the reading of the answer is sent    *)
(* back, and the same person confirms it: then it takes effect and leaves  *)
(* an entry in the register.  Each command reads a document in one         *)
(* transaction or at its start and writes it whole later, without looking  *)
(* again.  The command that let a decision take effect goes on to look at  *)
(* the decisions of its kind, which may settle or propose a rule that      *)
(* answers later requests of the kind as they are raised.                  *)
(***************************************************************************)
EXTENDS Integers, FiniteSets

CONSTANTS
  Anchors,       \* the anchors of the act that is asked about; one kind of request each
  Strategic,     \* those whose requests a rule may ever answer
  NoRequest,     \* no request
  Deciders,      \* the persons who decide, one command at a time each
  Holders,       \* those holding the role each anchor names
  Readings,      \* what answers are read as
  Precedents,    \* how many decisions in a row make a pattern
  MaxRounds,     \* bound on how often the act is asked about
  MaxAnswers,    \* bound on the answers given
  MaxCrashes     \* bound on commands and executions that die

Nobody == "nobody"
ARule == "a rule"

Options == {"A", "B"}
Reading == [option : Options, modified : BOOLEAN]
Unread == [option |-> "none", modified |-> FALSE]

ASSUME DecisionAssumption ==
  /\ Strategic \subseteq Anchors
  /\ {Nobody, ARule} \cap Deciders = {}
  /\ Holders \in [Anchors -> SUBSET Deciders]
  /\ Readings \subseteq Reading \cup {Unread}
  /\ {Precedents, MaxRounds} \subseteq Nat \ {0}
  /\ {MaxAnswers, MaxCrashes} \subseteq Nat

VARIABLES
  request,    \* the requests raised
  register,   \* what took effect, by request
  rule,       \* the rules proposed, by the proposal that puts each to a person
  command,    \* what each decider's command is about to do
  moment,     \* the latest moment anything was decided at
  shown,      \* every reading sent back: of which request, to whom
  effects,    \* every decision that ever took effect
  answers,    \* answers given so far
  crashes     \* deaths so far

decisionVars == <<request, register, rule, command, moment, shown, effects, answers, crashes>>
history == <<shown, effects>>

\* A request about the act in one round, and the proposal of a rule for the kind since a moment.
About(a, round) == [of |-> "act", anchor |-> a, no |-> round]
Proposal(a, since) == [of |-> "rule", anchor |-> a, no |-> since]
Ids == [of : {"act", "rule"}, anchor : Anchors, no : Nat]

Request == [status : {"open", "answered", "interpreted", "applied"},
            reading : Reading \cup {Unread}, by : Deciders \cup {Nobody, ARule}]
Opened == [status |-> "open", reading |-> Unread, by |-> Nobody]

Entry == [reading : Reading, by : Deciders \cup {ARule}, at : Nat]

Rule == [status : {"proposed", "adopted", "declined", "retired"}, option : Options, at : Nat]

\* A command: where it stands, the request it is about, the reading it confirms, the moment it
\* goes by - of its own decision, or of the last rule of the kind - and the option of a rule.
Command == [at : {"idle", "answering", "confirming", "looking", "settling", "proposing",
                  "raising", "storing", "handing"},
            on : Ids \cup {NoRequest}, reading : Reading \cup {Unread}, since : Nat,
            option : Options \cup {"none"}]
Idle == [at |-> "idle", on |-> NoRequest, reading |-> Unread, since |-> 0, option |-> "none"]

Empty == [q \in {} |-> {}]
With(f, x, v) == [y \in DOMAIN f \cup {x} |-> IF y = x THEN v ELSE f[y]]

DecisionInit ==
  /\ request = Empty /\ register = Empty /\ rule = Empty
  /\ command = [p \in Deciders |-> Idle]
  /\ moment = 0 /\ shown = {} /\ effects = {}
  /\ answers = 0 /\ crashes = 0

Applied(q) == q \in DOMAIN request /\ request[q].status = "applied"

Effect(q, reading, by, through) ==
  [on |-> q, reading |-> reading, by |-> by, through |-> through]

-----------------------------------------------------------------------------
(* Raising, by the run that reaches the act.                               *)

InForce(a) == {n \in DOMAIN rule : n.anchor = a /\ rule[n].status = "adopted"}

\* A request raised before is met as it is; a rule in force answers a new one at once.
Raise(q) ==
  IF q \in DOMAIN request THEN UNCHANGED decisionVars
  ELSE IF q.of = "act" /\ InForce(q.anchor) # {}
  THEN \E n \in InForce(q.anchor) :
         LET reading == [option |-> rule[n].option, modified |-> FALSE]
         IN /\ request' = With(request, q, [status |-> "applied", reading |-> reading, by |-> ARule])
            /\ moment' = moment + 1
            /\ register' = With(register, q, [reading |-> reading, by |-> ARule, at |-> moment'])
            /\ effects' = effects \cup {Effect(q, reading, ARule, n)}
            /\ UNCHANGED <<rule, command, shown, answers, crashes>>
  ELSE /\ request' = With(request, q, Opened)
       /\ UNCHANGED <<register, rule, command, moment, shown, effects, answers, crashes>>

-----------------------------------------------------------------------------
(* A person's commands.                                                    *)

At(p, stand) == command[p].at = stand
On(p) == command[p].on

Becomes(p, c) == command' = [command EXCEPT ![p] = c]
OnlyOn(p, stand) == [Idle EXCEPT !.at = stand, !.on = On(p)]

\* The request is read, found answerable and addressed to a role the person holds.
Answers(p, q) ==
  /\ At(p, "idle") /\ answers < MaxAnswers
  /\ p \in Holders[q.anchor]
  /\ q \in DOMAIN request /\ ~Applied(q)
  /\ Becomes(p, [Idle EXCEPT !.at = "answering", !.on = q])
  /\ answers' = answers + 1
  /\ UNCHANGED <<request, register, rule, moment, history, crashes>>

\* The answer is written over whatever became of the request since, and its reading sent back.
Answered(p, reading) ==
  /\ At(p, "answering")
  /\ request' = [request EXCEPT ![On(p)] =
       [status |-> IF reading = Unread THEN "answered" ELSE "interpreted",
        reading |-> reading, by |-> p]]
  /\ shown' = shown \cup {[on |-> On(p), reading |-> reading, to |-> p]}
  /\ Becomes(p, Idle)
  /\ UNCHANGED <<register, rule, moment, effects, answers, crashes>>

Confirms_OfAnyone(p, q) ==
  /\ At(p, "idle")
  /\ q \in DOMAIN request /\ request[q].status = "interpreted"
  /\ Becomes(p, [Idle EXCEPT !.at = "confirming", !.on = q, !.reading = request[q].reading])
  /\ UNCHANGED <<request, register, rule, moment, history, answers, crashes>>

\* The confirmation finds a reading, and that it is of the person's own answer.
Confirms(p, q) ==
  /\ At(p, "idle")
  /\ q \in DOMAIN request /\ request[q].status = "interpreted" /\ request[q].by = p
  /\ Becomes(p, [Idle EXCEPT !.at = "confirming", !.on = q, !.reading = request[q].reading])
  /\ UNCHANGED <<request, register, rule, moment, history, answers, crashes>>

\* The reading takes effect as it was read, with its entry in the register.
TakesEffect(p) ==
  /\ At(p, "confirming")
  /\ LET reading == command[p].reading
     IN /\ request' = [request EXCEPT ![On(p)] =
              [status |-> "applied", reading |-> reading, by |-> p]]
        /\ register' = With(register, On(p), [reading |-> reading, by |-> p, at |-> moment + 1])
        /\ effects' = effects \cup {Effect(On(p), reading, p, On(p))}
  /\ moment' = moment + 1
  /\ Becomes(p, [command[p] EXCEPT !.at = "looking", !.since = moment + 1])
  /\ UNCHANGED <<rule, shown, answers, crashes>>

\* A reading rejected opens the request again.
Rejects(p) ==
  /\ At(p, "confirming")
  /\ request' = [request EXCEPT ![On(p)] = Opened]
  /\ Becomes(p, Idle)
  /\ UNCHANGED <<register, rule, moment, history, answers, crashes>>

-----------------------------------------------------------------------------
(* Rules from precedent, by the command whose decision took effect.        *)

OfKind(a) == {n \in DOMAIN rule : n.anchor = a}

\* The moment the last rule of the kind was decided at; 0 if none was.
LastDecided(a) ==
  LET moments == {0} \cup {rule[n].at : n \in {m \in OfKind(a) : rule[m].status # "proposed"}}
  IN {t \in moments : \A u \in moments : u <= t}

AnswersProposal(q) == q \in DOMAIN rule /\ rule[q].status = "proposed"

\* One proposal of a kind at a time, and none beside a rule in force.
MayPropose(q) ==
  /\ q.of = "act" /\ q.anchor \in Strategic
  /\ \A n \in OfKind(q.anchor) : rule[n].status \notin {"proposed", "adopted"}

\* The rules are read: the decision settles the rule it was asked about, or may complete a
\* pattern of its kind.
Looks(p) ==
  /\ At(p, "looking")
  /\ \/ /\ AnswersProposal(On(p))
        /\ Becomes(p, [command[p] EXCEPT !.at = "settling", !.option = rule[On(p)].option])
     \/ /\ ~AnswersProposal(On(p)) /\ MayPropose(On(p))
        /\ \E since \in LastDecided(On(p).anchor) :
             Becomes(p, [OnlyOn(p, "proposing") EXCEPT !.since = since])
     \/ /\ ~AnswersProposal(On(p)) /\ ~MayPropose(On(p))
        /\ Becomes(p, OnlyOn(p, "handing"))
  /\ UNCHANGED <<request, register, rule, moment, history, answers, crashes>>

\* A, unmodified, adopts the rule; any other decision declines it.
Settles(p) ==
  /\ At(p, "settling")
  /\ rule' = With(rule, On(p),
       [status |-> IF command[p].reading = [option |-> "A", modified |-> FALSE]
                   THEN "adopted" ELSE "declined",
        option |-> command[p].option, at |-> command[p].since])
  /\ Becomes(p, OnlyOn(p, "handing"))
  /\ UNCHANGED <<request, register, moment, history, answers, crashes>>

\* The most recent decisions of the kind since the moment.
Recent(a, since) ==
  LET decided == {q \in DOMAIN register : /\ q.of = "act" /\ q.anchor = a
                                          /\ register[q].at > since}
  IN {q \in decided :
        Cardinality({r \in decided : register[r].at > register[q].at}) < Precedents}

\* They make a pattern when they are enough, of persons, and all alike without modifications.
Pattern(a, since, option) ==
  LET recent == Recent(a, since)
  IN /\ Cardinality(recent) = Precedents
     /\ \A q \in recent : /\ register[q].reading = [option |-> option, modified |-> FALSE]
                          /\ register[q].by # ARule

\* The register is read.
Proposes(p) ==
  /\ At(p, "proposing")
  /\ \/ \E option \in Options :
          /\ Pattern(On(p).anchor, command[p].since, option)
          /\ Becomes(p, [command[p] EXCEPT !.at = "raising", !.option = option])
     \/ /\ \A option \in Options : ~Pattern(On(p).anchor, command[p].since, option)
        /\ Becomes(p, OnlyOn(p, "handing"))
  /\ UNCHANGED <<request, register, rule, moment, history, answers, crashes>>

Proposed(p) == Proposal(On(p).anchor, command[p].since)

\* The proposal is raised as any request is, and its rule stored in another transaction.
RaisesProposal(p) ==
  /\ At(p, "raising")
  /\ request' = IF Proposed(p) \in DOMAIN request THEN request
                ELSE With(request, Proposed(p), Opened)
  /\ Becomes(p, [command[p] EXCEPT !.at = "storing"])
  /\ UNCHANGED <<register, rule, moment, history, answers, crashes>>

StoresRule(p) ==
  /\ At(p, "storing")
  /\ rule' = With(rule, Proposed(p),
                  [status |-> "proposed", option |-> command[p].option, at |-> 0])
  /\ Becomes(p, OnlyOn(p, "handing"))
  /\ UNCHANGED <<request, register, moment, history, answers, crashes>>

Retires(n) ==
  /\ n \in DOMAIN rule /\ rule[n].status = "adopted"
  /\ rule' = [rule EXCEPT ![n].status = "retired", ![n].at = moment + 1]
  /\ moment' = moment + 1
  /\ UNCHANGED <<request, register, command, history, answers, crashes>>

-----------------------------------------------------------------------------

\* The decision was handed to the run, or the command dies.
Ends(p) ==
  /\ At(p, "handing") /\ Becomes(p, Idle)
  /\ UNCHANGED <<request, register, rule, moment, history, answers, crashes>>

Dies(p) ==
  /\ ~At(p, "idle") /\ crashes < MaxCrashes /\ crashes' = crashes + 1
  /\ Becomes(p, Idle)
  /\ UNCHANGED <<request, register, rule, moment, history, answers>>

\* What a command does after its decision took effect and before the run hears of it.
LooksAtPrecedents(p) ==
  Looks(p) \/ Settles(p) \/ Proposes(p) \/ RaisesProposal(p) \/ StoresRule(p)

Decides(p) ==
  \/ \E q \in DOMAIN request : Answers(p, q) \/ Confirms(p, q)
  \/ \E reading \in Readings : Answered(p, reading)
  \/ TakesEffect(p) \/ Rejects(p) \/ LooksAtPrecedents(p)

DecisionNext ==
  \/ \E a \in Anchors, k \in 1 .. MaxRounds : Raise(About(a, k))
  \/ \E p \in Deciders : Decides(p) \/ Ends(p) \/ Dies(p)
  \/ \E n \in DOMAIN rule : Retires(n)

DecisionTypeOK ==
  /\ DOMAIN request \subseteq Ids /\ request \in [DOMAIN request -> Request]
  /\ DOMAIN register \subseteq DOMAIN request /\ register \in [DOMAIN register -> Entry]
  /\ DOMAIN rule \subseteq DOMAIN request /\ rule \in [DOMAIN rule -> Rule]
  /\ command \in [Deciders -> Command]
  /\ {moment, answers, crashes} \subseteq Nat
  /\ \A e \in effects : e.on \in Ids /\ e.reading \in Reading

-----------------------------------------------------------------------------

\* What takes effect was confirmed: a person's decision is a reading that was sent back to that
\* person, whoever answered meanwhile, and a rule decides only after a person accepted the
\* proposal that put it, unmodified (ADR-0042, ADR-0161).
EffectIsConfirmed ==
  \A e \in effects :
    IF e.by = ARule
    THEN \E f \in effects : /\ f.on = e.through /\ f.by # ARule
                            /\ f.reading = [option |-> "A", modified |-> FALSE]
    ELSE [on |-> e.on, reading |-> e.reading, to |-> e.by] \in shown

=============================================================================
