------------------------- MODULE AnchoredRunProofs -------------------------
(***************************************************************************)
(* What holds of decisions and of the run they decide for any anchors,     *)
(* persons, readings, length of a pattern and number of rounds.            *)
(*                                                                         *)
(* The requests and the rules keep an invariant of their own, DecisionInv, *)
(* under every step of theirs; the run adds what its document, stored or   *)
(* held by an actor, says of the decisions (DocumentsFit).  Both rest on   *)
(* nothing that was shown or took effect being forgotten.                  *)
(***************************************************************************)
EXTENDS AnchoredRun, TLAPS

Agreed == [option |-> "A", modified |-> FALSE]

TookEffect(q, reading) == \E e \in effects : e.on = q /\ e.reading = reading
ByPerson(q, reading) ==
  \E e \in effects : e.on = q /\ e.by # ARule /\ e.reading = reading

\* What a command carries fits where it stands.
CommandFits(p) ==
  /\ ~At(p, "idle") => On(p) \in DOMAIN request
  /\ command[p].at \in {"confirming", "looking", "settling"} => command[p].reading \in Reading
  /\ command[p].at \in {"settling", "raising", "storing"} => command[p].option \in Options
  /\ At(p, "storing") => Proposed(p) \in DOMAIN request
  /\ At(p, "confirming") => [on |-> On(p), reading |-> command[p].reading, to |-> p] \in shown
  /\ command[p].at \in {"looking", "settling"} => ByPerson(On(p), command[p].reading)

\* A reading stands with the person it was sent to, and what is applied took effect.
RequestFits(q) ==
  /\ request[q].status \in {"interpreted", "applied"} => request[q].reading \in Reading
  /\ request[q].status = "interpreted" =>
       [on |-> q, reading |-> request[q].reading, to |-> request[q].by] \in shown
  /\ request[q].status = "applied" => TookEffect(q, request[q].reading)

\* A rule in force was accepted by a person.
RuleFits(n) == rule[n].status = "adopted" => ByPerson(n, Agreed)

DecisionInv ==
  /\ DecisionTypeOK
  /\ \A p \in Deciders : CommandFits(p)
  /\ \A q \in DOMAIN request : RequestFits(q)
  /\ \A n \in DOMAIN rule : RuleFits(n)
  /\ EffectIsConfirmed

\* What the decisions of a round said.
SaidPerform(round) ==
  \A a \in Anchors : \E e \in effects : e.on = About(a, round) /\ e.reading.option = "A"
SaidNo(round) ==
  /\ \A a \in Anchors : \E e \in effects : e.on = About(a, round)
  /\ \E e \in effects : e.on.of = "act" /\ e.on.no = round /\ e.reading.option # "A"

\* A document goes on, or is declined, only as the decisions of its round said.
DocumentFits(doc) ==
  /\ doc.proceeds => SaidPerform(doc.round)
  /\ doc.step = "rejected" => SaidNo(doc.round)
  /\ doc.step = "planned" /\ ~doc.proceeds => doc.round = 0
  /\ doc.step = "waiting_human" => ~doc.proceeds

EngineFits(e) ==
  DocumentFits(e.run) /\ (e.at \in {"asked", "apply"} => e.run.step = "waiting_human")

DocumentsFit == DocumentFits(run) /\ \A x \in Actors : EngineFits(engine[x])

RunInv == TypeOK /\ DecisionInv /\ DocumentsFit /\ PerformedAsDecided /\ AskedAgainWhenDeclined

-----------------------------------------------------------------------------
(* What never goes away.                                                   *)

Grows ==
  /\ DOMAIN request \subseteq DOMAIN request'
  /\ shown \subseteq shown' /\ effects \subseteq effects'

LEMMA CommandStays ==
  ASSUME Grows, NEW p \in Deciders, command'[p] = command[p], CommandFits(p)
  PROVE  CommandFits(p)'
  BY DEF Grows, CommandFits, At, On, Proposed, Proposal, ByPerson

LEMMA RequestStays ==
  ASSUME Grows, NEW q, request'[q] = request[q], RequestFits(q)
  PROVE  RequestFits(q)'
  BY DEF Grows, RequestFits, TookEffect

LEMMA RuleStays ==
  ASSUME Grows, NEW n, rule'[n] = rule[n], RuleFits(n)
  PROVE  RuleFits(n)'
  BY DEF Grows, RuleFits, ByPerson

LEMMA CommandsStay ==
  ASSUME DecisionInv, Grows, command' = command
  PROVE  \A p \in Deciders : CommandFits(p)'
<1>1. ASSUME NEW p \in Deciders PROVE CommandFits(p)'
  BY CommandStays DEF DecisionInv
<1>2. QED
  BY <1>1

LEMMA RequestsStay ==
  ASSUME DecisionInv, Grows, request' = request
  PROVE  \A q \in DOMAIN request' : RequestFits(q)'
<1>1. ASSUME NEW q \in DOMAIN request' PROVE RequestFits(q)'
  BY RequestStays DEF DecisionInv
<1>2. QED
  BY <1>1

LEMMA RulesStay ==
  ASSUME DecisionInv, Grows, rule' = rule
  PROVE  \A n \in DOMAIN rule' : RuleFits(n)'
<1>1. ASSUME NEW n \in DOMAIN rule' PROVE RuleFits(n)'
  BY RuleStays DEF DecisionInv
<1>2. QED
  BY <1>1

LEMMA ConfirmedStays ==
  ASSUME DecisionInv, Grows, effects' = effects
  PROVE  EffectIsConfirmed'
  BY DEF DecisionInv, Grows, EffectIsConfirmed

\* One command goes on to what fits it.
LEMMA OneCommand ==
  ASSUME DecisionInv, Grows, NEW p \in Deciders, NEW c \in Command, Becomes(p, c),
         CommandFits(p)'
  PROVE  /\ command' \in [Deciders -> Command]
         /\ \A r \in Deciders : CommandFits(r)'
<1>1. command \in [Deciders -> Command] /\ \A r \in Deciders : CommandFits(r)
  BY DEF DecisionInv, DecisionTypeOK
<1>2. \A r \in Deciders : r # p => command'[r] = command[r]
  BY <1>1 DEF Becomes
<1>3. ASSUME NEW r \in Deciders PROVE CommandFits(r)'
  BY <1>1, <1>2, <1>3, CommandStays
<1>4. QED
  BY <1>1, <1>3 DEF Becomes

\* A step of one command that leaves the requests, the rules and the register alone.
LEMMA OnlyTheCommand ==
  ASSUME DecisionInv, NEW p \in Deciders, NEW c \in Command, Becomes(p, c),
         UNCHANGED <<request, register, rule, moment, shown, effects>>,
         answers' \in Nat, crashes' \in Nat, CommandFits(p)'
  PROVE  DecisionInv'
<1>1. Grows
  BY DEF Grows
<1>2. /\ command' \in [Deciders -> Command]
      /\ \A r \in Deciders : CommandFits(r)'
  BY <1>1, OneCommand
<1>3. DecisionTypeOK'
  BY <1>2 DEF DecisionInv, DecisionTypeOK
<1>4. \A q \in DOMAIN request' : RequestFits(q)'
  BY <1>1, RequestsStay
<1>5. \A n \in DOMAIN rule' : RuleFits(n)'
  BY <1>1, RulesStay
<1>6. EffectIsConfirmed'
  BY <1>1, ConfirmedStays
<1>7. QED
  BY <1>2, <1>3, <1>4, <1>5, <1>6 DEF DecisionInv

LEMMA DecisionStart == DecisionInit => DecisionInv
<1> SUFFICES ASSUME DecisionInit PROVE DecisionInv
  OBVIOUS
<1>1. DOMAIN Empty = {}
  BY DEF Empty
<1>2. Idle \in Command
  BY DEF Idle, Command
<1>3. DecisionTypeOK
  BY <1>1, <1>2 DEF DecisionInit, DecisionTypeOK
<1>4. \A p \in Deciders : CommandFits(p)
  BY DEF DecisionInit, CommandFits, At, Idle
<1>5. EffectIsConfirmed
  BY DEF DecisionInit, EffectIsConfirmed
<1>6. QED
  BY <1>1, <1>3, <1>4, <1>5 DEF DecisionInv, DecisionInit

-----------------------------------------------------------------------------
(* The steps of requests and rules.                                        *)

\* One request is raised, or written by a command.
LEMMA OneRequest ==
  ASSUME DecisionInv, Grows, NEW q \in Ids, NEW r \in Request,
         request' = With(request, q, r), RequestFits(q)'
  PROVE  /\ DOMAIN request' = DOMAIN request \cup {q}
         /\ DOMAIN request' \subseteq Ids
         /\ request' \in [DOMAIN request' -> Request]
         /\ \A s \in DOMAIN request' : RequestFits(s)'
<1>1. request \in [DOMAIN request -> Request] /\ DOMAIN request \subseteq Ids
  BY DEF DecisionInv, DecisionTypeOK
<1>2. /\ request' \in [DOMAIN request' -> Request]
      /\ DOMAIN request' = DOMAIN request \cup {q}
      /\ \A s \in DOMAIN request : s # q => request'[s] = request[s]
  BY <1>1 DEF With
<1>3. ASSUME NEW s \in DOMAIN request' PROVE RequestFits(s)'
  <2>1. CASE s = q
    BY <2>1
  <2>2. CASE s # q
    BY <1>2, <2>2, RequestStays DEF DecisionInv
  <2>3. QED
    BY <2>1, <2>2
<1>4. QED
  BY <1>1, <1>2, <1>3

LEMMA OpenedType == Opened \in Request
  BY DEF Opened, Request

LEMMA RaiseKeeps ==
  ASSUME DecisionInv, NEW q \in Ids, Raise(q)
  PROVE  DecisionInv' /\ Grows
<1> USE DEF DecisionTypeOK
<1>0. DecisionTypeOK
  BY DEF DecisionInv
<1>1. CASE q \in DOMAIN request
  <2>1. UNCHANGED decisionVars
    BY <1>1 DEF Raise
  <2>2. Grows
    BY <2>1 DEF Grows, decisionVars
  <2>3. QED
    BY <1>0, <2>1, <2>2, CommandsStay, RequestsStay, RulesStay, ConfirmedStays DEF decisionVars, DecisionInv
<1>2. CASE /\ q \notin DOMAIN request
           /\ UNCHANGED <<register, rule, command, moment, shown, effects, answers, crashes>>
           /\ request' = With(request, q, Opened)
  <2>1. Grows
    BY <1>0, <1>2, OpenedType DEF Grows, With
  <2>2. RequestFits(q)'
    BY <1>0, <1>2, OpenedType DEF RequestFits, Opened, With
  <2>3. /\ DOMAIN request' = DOMAIN request \cup {q}
        /\ DOMAIN request' \subseteq Ids
        /\ request' \in [DOMAIN request' -> Request]
        /\ \A s \in DOMAIN request' : RequestFits(s)'
    BY <1>2, <2>1, <2>2, OneRequest, OpenedType
  <2>4. \A p \in Deciders : CommandFits(p)'
    BY <1>2, <2>1, CommandsStay
  <2>5. \A n \in DOMAIN rule' : RuleFits(n)'
    BY <1>2, <2>1, RulesStay
  <2>6. EffectIsConfirmed'
    BY <1>2, <2>1, ConfirmedStays
  <2>7. DecisionTypeOK'
    BY <1>0, <1>2, <2>3
  <2>8. QED
    BY <2>1, <2>3, <2>4, <2>5, <2>6, <2>7 DEF DecisionInv
<1>3. CASE q \notin DOMAIN request /\ q.of = "act" /\ InForce(q.anchor) # {}
  <2> DEFINE reading(n) == [option |-> rule[n].option, modified |-> FALSE]
             applied(n) == [status |-> "applied", reading |-> reading(n), by |-> ARule]
             entry(n) == [reading |-> reading(n), by |-> ARule, at |-> moment']
  <2>1. PICK n \in InForce(q.anchor) :
          /\ request' = With(request, q, applied(n))
          /\ moment' = moment + 1
          /\ register' = With(register, q, entry(n))
          /\ effects' = effects \cup {Effect(q, reading(n), ARule, n)}
          /\ UNCHANGED <<rule, command, shown, answers, crashes>>
    BY <1>3 DEF Raise
  <2>2. n \in DOMAIN rule /\ rule[n].status = "adopted" /\ rule[n] \in Rule
    BY <1>0, <2>1 DEF InForce
  <2>3. reading(n) \in Reading
    BY <2>2 DEF Rule, Reading
  <2> HIDE DEF reading
  <2>4. applied(n) \in Request /\ entry(n) \in Entry
    <3>1. moment' \in Nat
      BY <1>0, <2>1
    <3>2. QED
      BY <2>3, <3>1 DEF Request, Entry
  <2>5. Grows
    BY <1>0, <2>1, <2>4 DEF Grows, With
  <2>6. /\ request'[q] = applied(n)
        /\ Effect(q, reading(n), ARule, n) \in effects'
    BY <1>0, <2>1, <2>4 DEF With
  <2>7. RequestFits(q)'
    BY <2>3, <2>6 DEF RequestFits, TookEffect, Effect
  <2>8. /\ DOMAIN request' = DOMAIN request \cup {q}
        /\ DOMAIN request' \subseteq Ids
        /\ request' \in [DOMAIN request' -> Request]
        /\ \A s \in DOMAIN request' : RequestFits(s)'
    BY <2>1, <2>4, <2>5, <2>7, OneRequest
  <2>9. register' \in [DOMAIN register' -> Entry] /\ DOMAIN register' = DOMAIN register \cup {q}
    BY <1>0, <2>1, <2>4 DEF With
  <2>10. \A e \in effects' : e.on \in Ids /\ e.reading \in Reading
    BY <1>0, <2>1, <2>3 DEF Effect
  <2>11. DecisionTypeOK'
    BY <1>0, <2>1, <2>8, <2>9, <2>10
  <2>12. \A p \in Deciders : CommandFits(p)'
    BY <2>1, <2>5, CommandsStay
  <2>13. \A m \in DOMAIN rule' : RuleFits(m)'
    BY <2>1, <2>5, RulesStay
  <2>14. EffectIsConfirmed'
    <3>1. ByPerson(n, Agreed)
      BY <2>2 DEF RuleFits, DecisionInv
    <3>2. PICK f \in effects : f.on = n /\ f.by # ARule /\ f.reading = Agreed
      BY <3>1 DEF ByPerson
    <3>3. Effect(q, reading(n), ARule, n).through = n /\ Effect(q, reading(n), ARule, n).by = ARule
      BY DEF Effect
    <3>4. QED
      BY <2>1, <3>2, <3>3 DEF DecisionInv, EffectIsConfirmed, Agreed
  <2>15. QED
    BY <2>5, <2>8, <2>11, <2>12, <2>13, <2>14 DEF DecisionInv
<1>4. QED
  BY <1>1, <1>2, <1>3 DEF Raise

LEMMA CommandTypes ==
  ASSUME DecisionInv, NEW p \in Deciders
  PROVE  /\ command[p] \in Command
         /\ command[p].on \in Ids \cup {NoRequest} /\ command[p].since \in Nat
         /\ command[p].reading \in Reading \cup {Unread}
         /\ command[p].option \in Options \cup {"none"}
         /\ CommandFits(p)
         /\ ~At(p, "idle") => On(p) \in Ids /\ On(p) \in DOMAIN request
         /\ command' = [command EXCEPT ![p] = Idle] => command'[p] = Idle
  BY DEF DecisionInv, DecisionTypeOK, Command, CommandFits, At, On

LEMMA IdleType == Idle \in Command
  BY DEF Idle, Command

\* A command that is only at its next stand, about the same request.
LEMMA OnlyOnType ==
  ASSUME DecisionInv, NEW p \in Deciders,
         NEW stand \in {"proposing", "handing"}, ~At(p, "idle")
  PROVE  /\ OnlyOn(p, stand) \in Command
         /\ OnlyOn(p, stand).at = stand /\ OnlyOn(p, stand).on = On(p)
         /\ On(p) \in DOMAIN request
<1>1. On(p) \in Ids /\ On(p) \in DOMAIN request
  BY CommandTypes
<1>2. QED
  BY <1>1 DEF OnlyOn, Idle, Command

LEMMA Become ==
  ASSUME DecisionInv, NEW p \in Deciders, NEW c, Becomes(p, c)
  PROVE  command'[p] = c
  BY DEF Becomes, DecisionInv, DecisionTypeOK

\* A command that stands where nothing is asked of what it carries.
LEMMA FitsWhenAbout ==
  ASSUME NEW p \in Deciders, command'[p].on \in DOMAIN request',
         command'[p].at \in {"answering", "proposing", "handing"}
  PROVE  CommandFits(p)'
  BY DEF CommandFits, At, On

LEMMA FitsWhenIdle ==
  ASSUME NEW p \in Deciders, command'[p] = Idle
  PROVE  CommandFits(p)'
  BY DEF CommandFits, At, On, Idle

\* A command is over, and nothing else changes.
LEMMA CommandEnds ==
  ASSUME DecisionInv, NEW p \in Deciders, Becomes(p, Idle),
         UNCHANGED <<request, register, rule, moment, shown, effects>>,
         answers' \in Nat, crashes' \in Nat
  PROVE  DecisionInv'
<1>1. CommandFits(p)'
  BY Become, FitsWhenIdle
<1>2. QED
  BY <1>1, IdleType, OnlyTheCommand

LEMMA CountsType ==
  ASSUME DecisionInv
  PROVE  moment \in Nat /\ answers \in Nat /\ crashes \in Nat
  BY DEF DecisionInv, DecisionTypeOK

LEMMA AnswersKeeps ==
  ASSUME DecisionInv, NEW p \in Deciders, NEW q \in DOMAIN request, Answers(p, q)
  PROVE  DecisionInv'
<1> DEFINE c == [Idle EXCEPT !.at = "answering", !.on = q]
<1>1. q \in Ids
  BY DEF DecisionInv, DecisionTypeOK
<1>2. c \in Command /\ c.on = q /\ c.at = "answering"
  BY <1>1 DEF Idle, Command
<1>3. Becomes(p, c) /\ UNCHANGED <<request, register, rule, moment, shown, effects, crashes>>
  BY DEF Answers, history
<1>4. answers' \in Nat /\ crashes' \in Nat
  BY CountsType, <1>3 DEF Answers
<1> HIDE DEF c
<1>5. command'[p] = c
  BY <1>3, Become
<1>6. CommandFits(p)'
  BY <1>2, <1>3, <1>5, FitsWhenAbout
<1>7. QED
  BY <1>2, <1>3, <1>4, <1>6, OnlyTheCommand

LEMMA ConfirmsKeeps ==
  ASSUME DecisionInv, NEW p \in Deciders, NEW q \in DOMAIN request, Confirms(p, q)
  PROVE  DecisionInv'
<1> DEFINE c == [Idle EXCEPT !.at = "confirming", !.on = q, !.reading = request[q].reading]
<1>1. /\ q \in Ids /\ RequestFits(q)
      /\ request[q].status = "interpreted" /\ request[q].by = p
  BY DEF DecisionInv, DecisionTypeOK, Confirms
<1>2. /\ request[q].reading \in Reading
      /\ [on |-> q, reading |-> request[q].reading, to |-> p] \in shown
  BY <1>1 DEF RequestFits
<1>3. /\ c \in Command /\ c.on = q /\ c.at = "confirming"
      /\ c.reading = request[q].reading
  BY <1>1, <1>2 DEF Idle, Command
<1>4. Becomes(p, c) /\ UNCHANGED <<request, register, rule, moment, shown, effects, crashes, answers>>
  BY DEF Confirms, history
<1>5. answers' \in Nat /\ crashes' \in Nat
  BY CountsType, <1>4
<1> HIDE DEF c
<1>6. command'[p] = c
  BY <1>4, Become
<1>7. CommandFits(p)'
  BY <1>2, <1>3, <1>4, <1>6 DEF CommandFits, At, On
<1>8. QED
  BY <1>3, <1>4, <1>5, <1>7, OnlyTheCommand

\* Where a command goes on to its next stand.
LEMMA GoesOnKeeps ==
  ASSUME DecisionInv, NEW p \in Deciders, ~At(p, "idle"), NEW c \in Command, Becomes(p, c),
         c.on = On(p), c.at \in {"proposing", "handing"},
         UNCHANGED <<request, register, rule, moment, shown, effects, answers, crashes>>
  PROVE  DecisionInv'
<1>1. On(p) \in DOMAIN request /\ command'[p] = c
  BY CommandTypes, Become
<1>2. CommandFits(p)'
  BY <1>1, FitsWhenAbout
<1>3. QED
  BY <1>2, CountsType, OnlyTheCommand

LEMMA LastDecidedType ==
  ASSUME DecisionInv, NEW a
  PROVE  LastDecided(a) \subseteq Nat
<1>1. \A n \in OfKind(a) : rule[n].at \in Nat
  BY DEF DecisionInv, DecisionTypeOK, OfKind, Rule
<1>2. QED
  BY <1>1 DEF LastDecided

LEMMA LooksKeeps ==
  ASSUME DecisionInv, NEW p \in Deciders, Looks(p)
  PROVE  DecisionInv'
<1>1. /\ At(p, "looking") /\ ~At(p, "idle")
      /\ UNCHANGED <<request, register, rule, moment, shown, effects, answers, crashes>>
  BY DEF Looks, At, history
<1>2. CASE /\ AnswersProposal(On(p))
           /\ Becomes(p, [command[p] EXCEPT !.at = "settling", !.option = rule[On(p)].option])
  <2> DEFINE c == [command[p] EXCEPT !.at = "settling", !.option = rule[On(p)].option]
  <2>1. rule[On(p)].option \in Options
    BY <1>2 DEF AnswersProposal, DecisionInv, DecisionTypeOK, Rule
  <2>2. /\ c \in Command /\ c.on = On(p) /\ c.at = "settling"
        /\ c.reading = command[p].reading /\ c.option \in Options
    BY <2>1, CommandTypes DEF Command, On
  <2> HIDE DEF c
  <2>3. command'[p] = c
    BY <1>2, Become DEF c
  <2>4. On(p) \in DOMAIN request /\ command[p].reading \in Reading
        /\ ByPerson(On(p), command[p].reading)
    BY <1>1, CommandTypes DEF CommandFits, At
  <2>5. ByPerson(On(p), command[p].reading)' = ByPerson(c.on, c.reading)
    BY <1>1, <2>3 DEF ByPerson, On
  <2>6. CommandFits(p)'
    BY <1>1, <2>2, <2>3, <2>4, <2>5 DEF CommandFits, At, On
  <2>7. QED
    BY <1>1, <1>2, <2>2, <2>6, CountsType, OnlyTheCommand DEF c
<1>3. CASE \E since \in LastDecided(On(p).anchor) :
             Becomes(p, [OnlyOn(p, "proposing") EXCEPT !.since = since])
  <2>1. PICK since \in LastDecided(On(p).anchor) :
          Becomes(p, [OnlyOn(p, "proposing") EXCEPT !.since = since])
    BY <1>3
  <2> DEFINE c == [OnlyOn(p, "proposing") EXCEPT !.since = since]
  <2>2. since \in Nat
    BY LastDecidedType
  <2>3. c \in Command /\ c.on = On(p) /\ c.at = "proposing"
    BY <1>1, <2>2, OnlyOnType DEF Command
  <2> HIDE DEF c
  <2>4. QED
    BY <1>1, <2>1, <2>3, GoesOnKeeps DEF c
<1>4. CASE Becomes(p, OnlyOn(p, "handing"))
  BY <1>1, <1>4, OnlyOnType, GoesOnKeeps
<1>5. QED
  BY <1>2, <1>3, <1>4 DEF Looks

LEMMA ProposesKeeps ==
  ASSUME DecisionInv, NEW p \in Deciders, Proposes(p)
  PROVE  DecisionInv'
<1>1. /\ At(p, "proposing") /\ ~At(p, "idle")
      /\ UNCHANGED <<request, register, rule, moment, shown, effects, answers, crashes>>
  BY DEF Proposes, At, history
<1>2. ASSUME NEW option \in Options,
             Becomes(p, [command[p] EXCEPT !.at = "raising", !.option = option])
      PROVE  DecisionInv'
  <2> DEFINE c == [command[p] EXCEPT !.at = "raising", !.option = option]
  <2>1. c \in Command /\ c.on = On(p) /\ c.at = "raising" /\ c.option = option
    BY CommandTypes DEF Command, On
  <2> HIDE DEF c
  <2>2. command'[p] = c
    BY <1>2, Become DEF c
  <2>3. CommandFits(p)'
    BY <1>1, <2>1, <2>2, CommandTypes DEF CommandFits, At, On
  <2>4. QED
    BY <1>1, <1>2, <2>1, <2>3, CountsType, OnlyTheCommand DEF c
<1>3. CASE Becomes(p, OnlyOn(p, "handing"))
  BY <1>1, <1>3, OnlyOnType, GoesOnKeeps
<1>4. QED
  BY <1>2, <1>3 DEF Proposes

LEMMA EndsKeeps ==
  ASSUME DecisionInv, NEW p \in Deciders, Ends(p)
  PROVE  DecisionInv'
  BY CountsType, CommandEnds DEF Ends, history

LEMMA DiesKeeps ==
  ASSUME DecisionInv, NEW p \in Deciders, Dies(p)
  PROVE  DecisionInv'
<1>1. answers' \in Nat /\ crashes' \in Nat
  BY CountsType DEF Dies
<1>2. QED
  BY <1>1, CommandEnds DEF Dies, history

\* A command writes its request, and perhaps what was shown and took effect.
LEMMA OneRequestWritten ==
  ASSUME DecisionInv, NEW p \in Deciders, ~At(p, "idle"), NEW q, q = On(p), NEW r \in Request,
         request' = [request EXCEPT ![q] = r]
  PROVE  /\ DOMAIN request' = DOMAIN request
         /\ request' \in [DOMAIN request' -> Request]
         /\ request'[q] = r
         /\ Grows /\ RequestFits(q)' => \A s \in DOMAIN request' : RequestFits(s)'
<1>1. request \in [DOMAIN request -> Request] /\ q \in DOMAIN request
  BY CommandTypes DEF DecisionInv, DecisionTypeOK
<1>2. /\ DOMAIN request' = DOMAIN request
      /\ request' \in [DOMAIN request' -> Request]
      /\ request'[q] = r
      /\ \A s \in DOMAIN request : s # q => request'[s] = request[s]
  BY <1>1
<1>3. ASSUME Grows, RequestFits(q)', NEW s \in DOMAIN request' PROVE RequestFits(s)'
  <2>1. CASE s = q
    BY <1>3, <2>1
  <2>2. CASE s # q
    BY <1>2, <1>3, <2>2, RequestStays DEF DecisionInv
  <2>3. QED
    BY <2>1, <2>2
<1>4. QED
  BY <1>2, <1>3

LEMMA AnsweredKeeps ==
  ASSUME DecisionInv, NEW p \in Deciders, NEW reading \in Readings, Answered(p, reading)
  PROVE  DecisionInv'
<1> DEFINE r == [status |-> IF reading = Unread THEN "answered" ELSE "interpreted",
                 reading |-> reading, by |-> p]
<1>1. PICK q : q = On(p)
  OBVIOUS
<1>2. /\ ~At(p, "idle") /\ request' = [request EXCEPT ![q] = r]
      /\ shown' = shown \cup {[on |-> q, reading |-> reading, to |-> p]}
      /\ Becomes(p, Idle)
      /\ UNCHANGED <<register, rule, moment, effects, answers, crashes>>
  BY <1>1 DEF Answered, At
<1>3. reading \in Reading \cup {Unread}
  BY DecisionAssumption
<1>4. r \in Request /\ r.reading = reading /\ r.by = p /\ r.status # "applied"
      /\ (r.status = "interpreted" => reading \in Reading)
  BY <1>3 DEF Request
<1> HIDE DEF r
<1>5. /\ DOMAIN request' = DOMAIN request
      /\ request' \in [DOMAIN request' -> Request]
      /\ request'[q] = r
      /\ Grows /\ RequestFits(q)' => \A s \in DOMAIN request' : RequestFits(s)'
  BY <1>1, <1>2, <1>4, OneRequestWritten
<1>6. Grows
  BY <1>2, <1>5 DEF Grows
<1>7. RequestFits(q)'
  BY <1>2, <1>4, <1>5 DEF RequestFits
<1>8. /\ command' \in [Deciders -> Command]
      /\ \A s \in Deciders : CommandFits(s)'
  BY <1>2, <1>6, Become, FitsWhenIdle, IdleType, OneCommand
<1>9. DecisionTypeOK'
  BY <1>2, <1>5, <1>8 DEF DecisionInv, DecisionTypeOK
<1>10. QED
  BY <1>2, <1>5, <1>6, <1>7, <1>8, <1>9, RulesStay, ConfirmedStays DEF DecisionInv

LEMMA RejectsKeeps ==
  ASSUME DecisionInv, NEW p \in Deciders, Rejects(p)
  PROVE  DecisionInv'
<1>1. PICK q : q = On(p)
  OBVIOUS
<1>2. /\ ~At(p, "idle") /\ request' = [request EXCEPT ![q] = Opened] /\ Becomes(p, Idle)
      /\ UNCHANGED <<register, rule, moment, shown, effects, answers, crashes>>
  BY <1>1 DEF Rejects, At, history
<1>3. /\ DOMAIN request' = DOMAIN request
      /\ request' \in [DOMAIN request' -> Request]
      /\ request'[q] = Opened
      /\ Grows /\ RequestFits(q)' => \A s \in DOMAIN request' : RequestFits(s)'
  BY <1>1, <1>2, OpenedType, OneRequestWritten
<1>4. Grows
  BY <1>2, <1>3 DEF Grows
<1>5. RequestFits(q)'
  BY <1>3 DEF RequestFits, Opened
<1>6. /\ command' \in [Deciders -> Command]
      /\ \A s \in Deciders : CommandFits(s)'
  BY <1>2, <1>4, Become, FitsWhenIdle, IdleType, OneCommand
<1>7. DecisionTypeOK'
  BY <1>2, <1>3, <1>6 DEF DecisionInv, DecisionTypeOK
<1>8. QED
  BY <1>2, <1>3, <1>4, <1>5, <1>6, <1>7, RulesStay, ConfirmedStays DEF DecisionInv

\* The reading confirmed is one that was sent back to the person who confirms it.
LEMMA TakesEffectKeeps ==
  ASSUME DecisionInv, NEW p \in Deciders, TakesEffect(p)
  PROVE  DecisionInv'
<1>1. PICK q : q = On(p)
  OBVIOUS
<1>2. PICK reading : reading = command[p].reading
  OBVIOUS
<1> DEFINE r == [status |-> "applied", reading |-> reading, by |-> p]
           entry == [reading |-> reading, by |-> p, at |-> moment + 1]
           effect == Effect(q, reading, p, q)
           c == [command[p] EXCEPT !.at = "looking", !.since = moment + 1]
<1>3. /\ At(p, "confirming") /\ ~At(p, "idle")
      /\ request' = [request EXCEPT ![q] = r]
      /\ register' = With(register, q, entry)
      /\ effects' = effects \cup {effect}
      /\ moment' = moment + 1 /\ Becomes(p, c)
      /\ UNCHANGED <<rule, shown, answers, crashes>>
  BY <1>1, <1>2 DEF TakesEffect, At
<1>4. /\ q \in Ids /\ q \in DOMAIN request /\ reading \in Reading
      /\ [on |-> q, reading |-> reading, to |-> p] \in shown
  BY <1>1, <1>2, <1>3, CommandTypes DEF CommandFits, At
<1>5. r \in Request /\ entry \in Entry
  BY <1>4, CountsType DEF Request, Entry
<1>6. /\ c \in Command /\ c.at = "looking" /\ c.on = q /\ c.reading = reading
  <2>1. command[p] \in Command /\ moment + 1 \in Nat
    BY CommandTypes, CountsType
  <2>2. QED
    BY <1>1, <1>2, <2>1 DEF Command, On
<1>7. /\ effect.on = q /\ effect.reading = reading /\ effect.by = p
      /\ p # ARule
  BY DecisionAssumption DEF Effect
<1>8. r.status = "applied" /\ r.reading = reading
  OBVIOUS
<1> HIDE DEF r, c, entry, effect
<1>9. /\ DOMAIN request' = DOMAIN request
      /\ request' \in [DOMAIN request' -> Request]
      /\ request'[q] = r
      /\ Grows /\ RequestFits(q)' => \A s \in DOMAIN request' : RequestFits(s)'
  BY <1>1, <1>3, <1>5, OneRequestWritten
<1>10. Grows
  BY <1>3, <1>9 DEF Grows
<1>11. RequestFits(q)'
  BY <1>3, <1>4, <1>7, <1>8, <1>9 DEF RequestFits, TookEffect
<1>12. command'[p] = c
  BY <1>3, Become
<1>13. CommandFits(p)'
  BY <1>3, <1>4, <1>6, <1>7, <1>9, <1>12 DEF CommandFits, ByPerson, At, On
<1>14. /\ command' \in [Deciders -> Command]
       /\ \A s \in Deciders : CommandFits(s)'
  BY <1>3, <1>6, <1>10, <1>13, OneCommand
<1>15. register' \in [DOMAIN register' -> Entry] /\ DOMAIN register' = DOMAIN register \cup {q}
  BY <1>3, <1>5 DEF With, DecisionInv, DecisionTypeOK
<1>16. \A e \in effects' : e.on \in Ids /\ e.reading \in Reading
  BY <1>3, <1>4, <1>7 DEF DecisionInv, DecisionTypeOK
<1>17. DecisionTypeOK'
  <2>1. moment' \in Nat
    BY <1>3, CountsType
  <2>2. QED
    BY <1>3, <1>4, <1>9, <1>14, <1>15, <1>16, <2>1 DEF DecisionInv, DecisionTypeOK
<1>18. EffectIsConfirmed'
  BY <1>3, <1>4, <1>7 DEF DecisionInv, EffectIsConfirmed
<1>19. QED
  BY <1>3, <1>9, <1>10, <1>11, <1>14, <1>17, <1>18, RulesStay DEF DecisionInv

LEMMA RaisesProposalKeeps ==
  ASSUME DecisionInv, NEW p \in Deciders, RaisesProposal(p)
  PROVE  DecisionInv'
<1> DEFINE c == [command[p] EXCEPT !.at = "storing"]
<1>1. PICK n : n = Proposed(p)
  OBVIOUS
<1>2. /\ At(p, "raising") /\ ~At(p, "idle") /\ Becomes(p, c)
      /\ request' = IF n \in DOMAIN request THEN request ELSE With(request, n, Opened)
      /\ UNCHANGED <<register, rule, moment, shown, effects, answers, crashes>>
  BY <1>1 DEF RaisesProposal, At, history
<1>3. /\ On(p) \in Ids /\ On(p) \in DOMAIN request /\ command[p].option \in Options
      /\ command[p].since \in Nat
  BY <1>2, CommandTypes DEF CommandFits, At
<1>4. n \in Ids
  BY <1>1, <1>3 DEF Proposed, Proposal, Ids
<1>5. /\ c \in Command /\ c.at = "storing" /\ c.on = command[p].on
      /\ c.option = command[p].option /\ c.since = command[p].since
  BY CommandTypes DEF Command
<1> HIDE DEF c
<1>6. command'[p] = c
  BY <1>2, Become
<1>7. /\ DOMAIN request \cup {n} = DOMAIN request' /\ DOMAIN request' \subseteq Ids
      /\ request' \in [DOMAIN request' -> Request]
      /\ Grows /\ \A s \in DOMAIN request' : RequestFits(s)'
  <2>1. CASE n \in DOMAIN request
    <3>1. request' = request /\ Grows
      BY <1>2, <2>1 DEF Grows
    <3>2. QED
      BY <2>1, <3>1, RequestsStay DEF DecisionInv, DecisionTypeOK
  <2>2. CASE n \notin DOMAIN request
    <3>1. Grows
      BY <1>2, <2>2 DEF Grows, With
    <3>2. RequestFits(n)'
      BY <1>2, <2>2 DEF RequestFits, Opened, With
    <3>3. QED
      BY <1>2, <1>4, <2>2, <3>1, <3>2, OpenedType, OneRequest
  <2>3. QED
    BY <2>1, <2>2
<1>8. Proposed(p)' = n
  BY <1>1, <1>5, <1>6 DEF Proposed, On
<1>9. CommandFits(p)'
  BY <1>3, <1>5, <1>6, <1>7, <1>8 DEF CommandFits, At, On
<1>10. /\ command' \in [Deciders -> Command]
       /\ \A s \in Deciders : CommandFits(s)'
  BY <1>2, <1>5, <1>7, <1>9, OneCommand
<1>11. DecisionTypeOK'
  BY <1>2, <1>7, <1>10 DEF DecisionInv, DecisionTypeOK
<1>12. QED
  BY <1>2, <1>7, <1>10, <1>11, RulesStay, ConfirmedStays DEF DecisionInv

\* One rule is written, and commands and requests stay as they fit.
LEMMA OneRule ==
  ASSUME DecisionInv, NEW n \in DOMAIN request, NEW r \in Rule, rule' = With(rule, n, r),
         r.status = "adopted" => ByPerson(n, Agreed),
         UNCHANGED <<request, register, shown, effects, answers, crashes>>, moment' \in Nat,
         command' \in [Deciders -> Command], \A p \in Deciders : CommandFits(p)'
  PROVE  DecisionInv'
<1>1. Grows
  BY DEF Grows
<1>2. /\ rule' \in [DOMAIN rule' -> Rule] /\ DOMAIN rule' = DOMAIN rule \cup {n}
      /\ rule'[n] = r /\ \A m \in DOMAIN rule : m # n => rule'[m] = rule[m]
  BY DEF With, DecisionInv, DecisionTypeOK
<1>3. DecisionTypeOK'
  BY <1>2 DEF DecisionInv, DecisionTypeOK
<1>4. ASSUME NEW m \in DOMAIN rule' PROVE RuleFits(m)'
  <2>1. CASE m = n
    BY <1>2, <2>1 DEF RuleFits, ByPerson
  <2>2. CASE m # n
    BY <1>1, <1>2, <2>2, RuleStays DEF DecisionInv
  <2>3. QED
    BY <2>1, <2>2
<1>5. QED
  BY <1>1, <1>3, <1>4, RequestsStay, ConfirmedStays DEF DecisionInv

\* A command that wrote a rule hands its decision over.
LEMMA HandingFits ==
  ASSUME DecisionInv, NEW p \in Deciders, ~At(p, "idle"), Becomes(p, OnlyOn(p, "handing")),
         UNCHANGED <<request, shown, effects>>
  PROVE  /\ command' \in [Deciders -> Command]
         /\ \A r \in Deciders : CommandFits(r)'
<1>1. PICK c \in Command : c = OnlyOn(p, "handing")
  BY OnlyOnType
<1>2. c.at = "handing" /\ c.on \in DOMAIN request
  BY <1>1, OnlyOnType
<1>3. command'[p] = c /\ Becomes(p, c)
  BY <1>1, Become
<1>4. CommandFits(p)'
  BY <1>2, <1>3, FitsWhenAbout
<1>5. Grows
  BY DEF Grows
<1>6. QED
  BY <1>3, <1>4, <1>5, OneCommand

LEMMA SettlesKeeps ==
  ASSUME DecisionInv, NEW p \in Deciders, Settles(p)
  PROVE  DecisionInv'
<1> DEFINE r == [status |-> IF command[p].reading = [option |-> "A", modified |-> FALSE]
                            THEN "adopted" ELSE "declined",
                 option |-> command[p].option, at |-> command[p].since]
<1>1. PICK n : n = On(p)
  OBVIOUS
<1>2. /\ At(p, "settling") /\ ~At(p, "idle") /\ rule' = With(rule, n, r)
      /\ Becomes(p, OnlyOn(p, "handing"))
      /\ UNCHANGED <<request, register, moment, shown, effects, answers, crashes>>
  BY <1>1 DEF Settles, At, history
<1>3. /\ n \in DOMAIN request /\ command[p].option \in Options /\ command[p].since \in Nat
      /\ ByPerson(n, command[p].reading)
  BY <1>1, <1>2, CommandTypes DEF CommandFits, At
<1>4. r \in Rule /\ (r.status = "adopted" => ByPerson(n, Agreed))
  BY <1>3 DEF Rule, Agreed
<1> HIDE DEF r
<1>5. /\ command' \in [Deciders -> Command]
      /\ \A s \in Deciders : CommandFits(s)'
  BY <1>2, HandingFits
<1>6. QED
  BY <1>2, <1>3, <1>4, <1>5, CountsType, OneRule

LEMMA StoresRuleKeeps ==
  ASSUME DecisionInv, NEW p \in Deciders, StoresRule(p)
  PROVE  DecisionInv'
<1> DEFINE r == [status |-> "proposed", option |-> command[p].option, at |-> 0]
<1>1. PICK n : n = Proposed(p)
  OBVIOUS
<1>2. /\ At(p, "storing") /\ ~At(p, "idle") /\ rule' = With(rule, n, r)
      /\ Becomes(p, OnlyOn(p, "handing"))
      /\ UNCHANGED <<request, register, moment, shown, effects, answers, crashes>>
  BY <1>1 DEF StoresRule, At, history
<1>3. n \in DOMAIN request /\ command[p].option \in Options
  BY <1>1, <1>2, CommandTypes DEF CommandFits, At
<1>4. r \in Rule /\ r.status # "adopted"
  BY <1>3 DEF Rule
<1> HIDE DEF r
<1>5. /\ command' \in [Deciders -> Command]
      /\ \A s \in Deciders : CommandFits(s)'
  BY <1>2, HandingFits
<1>6. QED
  BY <1>2, <1>3, <1>4, <1>5, CountsType, OneRule

LEMMA RetiresKeeps ==
  ASSUME DecisionInv, NEW n \in DOMAIN rule, Retires(n)
  PROVE  DecisionInv'
<1>1. /\ rule' = [rule EXCEPT ![n].status = "retired", ![n].at = moment + 1]
      /\ moment' = moment + 1
      /\ UNCHANGED <<request, register, command, shown, effects, answers, crashes>>
  BY DEF Retires, history
<1>2. Grows /\ moment' \in Nat /\ moment + 1 \in Nat
  BY <1>1, CountsType DEF Grows
<1>3. rule[n] \in Rule /\ rule \in [DOMAIN rule -> Rule]
  BY DEF DecisionInv, DecisionTypeOK
<1>4. [rule[n] EXCEPT !.status = "retired", !.at = moment + 1] \in Rule
  BY <1>2, <1>3 DEF Rule
<1>5. /\ DOMAIN rule' = DOMAIN rule /\ rule' \in [DOMAIN rule' -> Rule]
      /\ rule'[n].status = "retired" /\ \A m \in DOMAIN rule : m # n => rule'[m] = rule[m]
  BY <1>1, <1>3, <1>4 DEF Rule
<1>6. DecisionTypeOK'
  BY <1>1, <1>2, <1>5 DEF DecisionInv, DecisionTypeOK
<1>7. ASSUME NEW m \in DOMAIN rule' PROVE RuleFits(m)'
  <2>1. CASE m = n
    BY <1>5, <2>1 DEF RuleFits
  <2>2. CASE m # n
    BY <1>2, <1>5, <2>2, RuleStays DEF DecisionInv
  <2>3. QED
    BY <2>1, <2>2
<1>8. QED
  BY <1>1, <1>2, <1>6, <1>7, CommandsStay, RequestsStay, ConfirmedStays DEF DecisionInv

\* Persons decide: every step of their commands keeps the invariant, and forgets nothing.
LEMMA DecidesKeeps ==
  ASSUME DecisionInv, NEW p \in Deciders, Decides(p)
  PROVE  DecisionInv'
  BY AnswersKeeps, ConfirmsKeeps, AnsweredKeeps, TakesEffectKeeps, RejectsKeeps, LooksKeeps,
     SettlesKeeps, ProposesKeeps, RaisesProposalKeeps, StoresRuleKeeps
  DEF Decides, LooksAtPrecedents

-----------------------------------------------------------------------------
(* The run.                                                                *)

\* Persons who decide ask about no act.
AsksOnlyRules == \A q \in DOMAIN request' : q \in DOMAIN request \/ q.of = "rule"

LEMMA DecidesForgetsNothing ==
  ASSUME DecisionInv, NEW p \in Deciders, Decides(p)
  PROVE  Grows /\ AsksOnlyRules
<1>1. ASSUME NEW q, Answers(p, q) \/ Confirms(p, q) PROVE Grows /\ AsksOnlyRules
  BY <1>1 DEF Answers, Confirms, history, Grows, AsksOnlyRules
<1>2. ASSUME NEW reading, Answered(p, reading) PROVE Grows /\ AsksOnlyRules
  BY <1>2 DEF Answered, Grows, AsksOnlyRules
<1>3. ASSUME TakesEffect(p) \/ Rejects(p) PROVE Grows /\ AsksOnlyRules
  BY <1>3 DEF TakesEffect, Rejects, history, Grows, AsksOnlyRules
<1>4. ASSUME Looks(p) \/ Settles(p) \/ Proposes(p) \/ StoresRule(p) PROVE Grows /\ AsksOnlyRules
  BY <1>4 DEF Looks, Settles, Proposes, StoresRule, history, Grows, AsksOnlyRules
<1>5. ASSUME RaisesProposal(p) PROVE Grows /\ AsksOnlyRules
  <2>0. PICK n : n = Proposed(p)
    OBVIOUS
  <2>1. n = Proposed(p) /\ n.of = "rule"
    BY <2>0 DEF Proposed, Proposal
  <2>2. /\ request' = IF n \in DOMAIN request THEN request ELSE With(request, n, Opened)
        /\ UNCHANGED <<shown, effects>>
    BY <1>5, <2>1 DEF RaisesProposal, history
  <2>3. DOMAIN request' \in {DOMAIN request, DOMAIN request \cup {n}}
    BY <2>2 DEF With
  <2>4. QED
    BY <2>1, <2>2, <2>3 DEF Grows, AsksOnlyRules
<1>6. QED
  BY <1>1, <1>2, <1>3, <1>4, <1>5 DEF Decides, LooksAtPrecedents

LEMMA DocumentStays ==
  ASSUME effects \subseteq effects', NEW doc, DocumentFits(doc)
  PROVE  DocumentFits(doc)'
  BY DEF DocumentFits, SaidPerform, SaidNo

LEMMA AskedStays ==
  ASSUME effects \subseteq effects', AsksOnlyRules, AskedAgainWhenDeclined
  PROVE  AskedAgainWhenDeclined'
  BY DEF AskedAgainWhenDeclined, AsksOnlyRules

LEMMA PerformedStays ==
  ASSUME effects \subseteq effects', PerformedAsDecided,
         \A k \in performed' : k \in performed \/ SaidPerform(k)
  PROVE  PerformedAsDecided'
  BY DEF PerformedAsDecided, SaidPerform

\* The run and all who hold it stay as they are.
LEMMA RunStays ==
  ASSUME RunInv, DecisionInv', Grows, AsksOnlyRules, UNCHANGED <<run, job, engine, performed, missed>>
  PROVE  RunInv'
<1>1. effects \subseteq effects'
  BY DEF Grows
<1>2. DocumentFits(run)'
  BY <1>1, DocumentStays DEF RunInv, DocumentsFit
<1>3. ASSUME NEW x \in Actors PROVE EngineFits(engine[x])'
  <2>1. PICK e : e = engine[x] /\ e = engine'[x] /\ EngineFits(e)
    BY DEF RunInv, DocumentsFit
  <2>2. DocumentFits(e.run)'
    BY <1>1, <2>1, DocumentStays DEF EngineFits
  <2>3. QED
    BY <2>1, <2>2 DEF EngineFits
<1>4. DocumentsFit'
  BY <1>2, <1>3 DEF DocumentsFit
<1>5. TypeOK'
  BY DEF RunInv, TypeOK, DecisionInv
<1>6. QED
  BY <1>1, <1>4, <1>5, AskedStays, PerformedStays DEF RunInv

JobRows == [Jobs -> {"new", "queued", "claimed", "gone"}]

\* One actor goes on, and the document it commits fits.
LEMMA OneActor ==
  ASSUME RunInv, DecisionInv', effects' = effects, AsksOnlyRules,
         NEW x \in Actors, NEW e \in Engine, EngineFits(e), engine' = [engine EXCEPT ![x] = e],
         NEW doc \in Run, DocumentFits(doc), run' = doc,
         job' \in JobRows, missed' \subseteq 1 .. MaxRounds, performed' \subseteq Nat,
         \A k \in performed' : k \in performed \/ SaidPerform(k)
  PROVE  RunInv'
<1>1. effects \subseteq effects'
  OBVIOUS
<1>2. DocumentFits(run)'
  BY DocumentStays
<1>3. /\ engine' \in [Actors -> Engine] /\ engine'[x] = e
      /\ \A y \in Actors : y # x => engine'[y] = engine[y]
  BY DEF RunInv, TypeOK
<1>4. ASSUME NEW y \in Actors PROVE EngineFits(engine[y])'
  <2>1. PICK f : f = engine'[y] /\ EngineFits(f)
    BY <1>3 DEF RunInv, DocumentsFit
  <2>2. DocumentFits(f.run)'
    BY <1>1, <2>1, DocumentStays DEF EngineFits
  <2>3. QED
    BY <2>1, <2>2 DEF EngineFits
<1>5. DocumentsFit'
  BY <1>2, <1>4 DEF DocumentsFit
<1>6. TypeOK'
  BY <1>3 DEF RunInv, TypeOK, DecisionInv, JobRows
<1>7. QED
  BY <1>1, <1>5, <1>6, AskedStays, PerformedStays DEF RunInv

\* What an actor holds, and where it may go with it.
LEMMA ActorTypes ==
  ASSUME RunInv, NEW x \in Actors
  PROVE  /\ engine[x] \in Engine /\ Doc(x) \in Run /\ run \in Run
         /\ DocumentFits(run) /\ DocumentFits(Doc(x)) /\ EngineFits(engine[x])
         /\ job \in JobRows /\ missed \subseteq 1 .. MaxRounds /\ performed \subseteq Nat
         /\ DecisionInv
  BY DEF RunInv, TypeOK, DocumentsFit, EngineFits, Engine, Doc, JobRows

LEMMA SubmittedFits == Submitted \in Run /\ DocumentFits(Submitted)
  BY DEF Submitted, Run, DocumentFits

LEMMA OffFits == Off \in Engine /\ EngineFits(Off)
  BY SubmittedFits DEF Off, Engine, EngineFits

LEMMA GoesFits ==
  ASSUME NEW x \in Actors, NEW stand \in {"claimed", "enter", "loop", "asked", "apply", "declined", "enqueue"},
         NEW doc \in Run, DocumentFits(doc), Goes(x, stand, doc),
         stand \in {"asked", "apply"} => doc.step = "waiting_human"
  PROVE  \E e \in Engine : EngineFits(e) /\ engine' = [engine EXCEPT ![x] = e]
<1>1. [at |-> stand, run |-> doc, raised |-> {}] \in Engine
  BY DEF Engine
<1>2. EngineFits([at |-> stand, run |-> doc, raised |-> {}])
  BY DEF EngineFits
<1>3. QED
  BY <1>1, <1>2 DEF Goes

LEMMA LeavesFits ==
  ASSUME NEW x \in Actors, Leaves(x)
  PROVE  \E e \in Engine : EngineFits(e) /\ engine' = [engine EXCEPT ![x] = e]
  BY OffFits DEF Leaves

Moves(x) == \E e \in Engine : EngineFits(e) /\ engine' = [engine EXCEPT ![x] = e]

\* A step of an actor, once what it commits is known to fit.
LEMMA ActorSteps ==
  ASSUME RunInv, DecisionInv', UNCHANGED <<request, effects>>, NEW x \in Actors, Moves(x),
         \E doc \in Run : DocumentFits(doc) /\ run' = doc,
         job' \in JobRows, missed' \subseteq 1 .. MaxRounds, performed' = performed
  PROVE  RunInv'
<1>1. AsksOnlyRules
  BY DEF AsksOnlyRules
<1>2. performed' \subseteq Nat
  BY DEF RunInv, TypeOK
<1>3. PICK e \in Engine : EngineFits(e) /\ engine' = [engine EXCEPT ![x] = e]
  BY DEF Moves
<1>4. PICK doc \in Run : DocumentFits(doc) /\ run' = doc
  OBVIOUS
<1>5. QED
  BY <1>1, <1>2, <1>3, <1>4, OneActor

\* Nothing of the decisions changes.
LEMMA DecisionsStay ==
  ASSUME DecisionInv, UNCHANGED decisionVars
  PROVE  DecisionInv' /\ UNCHANGED <<request, effects>>
<1>1. Grows /\ UNCHANGED <<request, register, rule, command, moment, shown, effects, answers, crashes>>
  BY DEF Grows, decisionVars
<1>2. DecisionTypeOK'
  BY <1>1 DEF DecisionInv, DecisionTypeOK
<1>3. QED
  BY <1>1, <1>2, CommandsStay, RequestsStay, RulesStay, ConfirmedStays DEF DecisionInv

LEMMA DoneType ==
  ASSUME job \in JobRows, NEW x, Done(x) \/ UNCHANGED job
  PROVE  job' \in JobRows
  BY DEF JobRows, Done

\* The decisions of a round leave the step as they said.
LEMMA DecidedFits ==
  ASSUME DecisionInv, NEW doc \in Run, DocumentFits(doc), doc.step = "waiting_human",
         AllApplied(doc.round)
  PROVE  Decided(doc) \in Run /\ DocumentFits(Decided(doc))
<1>1. ASSUME NEW a \in Anchors
      PROVE  \E e \in effects : /\ e.on = About(a, doc.round)
                                /\ e.reading = request[About(a, doc.round)].reading
  BY DEF AllApplied, Applied, DecisionInv, RequestFits, TookEffect
<1>2. CASE SaysPerform(doc.round)
  <2>1. SaidPerform(doc.round)
    BY <1>1, <1>2 DEF SaysPerform, SaidPerform
  <2>2. Decided(doc) = [doc EXCEPT !.step = "planned", !.proceeds = TRUE]
    BY <1>2 DEF Decided
  <2>3. QED
    BY <2>1, <2>2 DEF Run, DocumentFits
<1>3. CASE ~SaysPerform(doc.round)
  <2>1. PICK a \in Anchors : request[About(a, doc.round)].reading.option # "A"
    BY <1>3 DEF SaysPerform
  <2>2. About(a, doc.round).of = "act" /\ About(a, doc.round).no = doc.round
    BY DEF About
  <2>3. SaidNo(doc.round)
    BY <1>1, <2>1, <2>2 DEF SaidNo
  <2>4. Decided(doc) = [doc EXCEPT !.step = "rejected"]
    BY <1>3 DEF Decided
  <2>5. QED
    BY <2>3, <2>4 DEF Run, DocumentFits
<1>4. QED
  BY <1>2, <1>3

\* The stored document stays as it is, and fits.
LEMMA RunUnchanged ==
  ASSUME RunInv, run' = run
  PROVE  \E doc \in Run : DocumentFits(doc) /\ run' = doc
  BY DEF RunInv, TypeOK, DocumentsFit

LEMMA ClaimsKeeps ==
  ASSUME RunInv, NEW j \in Jobs, Claims(j)
  PROVE  RunInv'
<1>1. j \in Actors
  BY DEF Actors
<1>2. Moves(j)
  BY <1>1, SubmittedFits, GoesFits DEF Claims, Moves
<1>3. job' \in JobRows
  BY <1>1, ActorTypes DEF Claims, JobRows
<1>4. DecisionInv' /\ UNCHANGED <<request, effects, run, missed, performed>>
  BY <1>1, ActorTypes, DecisionsStay DEF Claims
<1>5. QED
  BY <1>1, <1>2, <1>3, <1>4, ActorTypes, RunUnchanged, ActorSteps

LEMMA ReadsKeeps ==
  ASSUME RunInv, NEW j \in Jobs, Reads(j)
  PROVE  RunInv'
<1>1. j \in Actors
  BY DEF Actors
<1>2. Moves(j)
  BY <1>1, ActorTypes, GoesFits, LeavesFits DEF Reads, Moves
<1>3. job' \in JobRows
  BY <1>1, ActorTypes, DoneType DEF Reads
<1>4. DecisionInv' /\ UNCHANGED <<request, effects, run, missed, performed>>
  BY <1>1, ActorTypes, DecisionsStay DEF Reads
<1>5. QED
  BY <1>1, <1>2, <1>3, <1>4, ActorTypes, RunUnchanged, ActorSteps

LEMMA ResumesKeeps ==
  ASSUME RunInv, Resumes
  PROVE  RunInv'
<1>1. Resumer \in Actors
  BY DEF Actors
<1>2. LeftWaiting => run.step = "waiting_human"
  BY DEF LeftWaiting, WaitsUndecided
<1>3. Moves(Resumer)
  BY <1>1, <1>2, ActorTypes, GoesFits DEF Resumes, Moves
<1>4. DecisionInv' /\ UNCHANGED <<request, effects, run, job, missed, performed>>
  BY <1>1, ActorTypes, DecisionsStay DEF Resumes
<1>5. QED
  BY <1>1, <1>3, <1>4, ActorTypes, RunUnchanged, ActorSteps

\* A document is committed, and its actor goes on with it.
LEMMA CommitsKeeps ==
  ASSUME RunInv, NEW x \in Actors,
         NEW stand \in {"enter", "loop", "asked", "declined", "enqueue"},
         NEW doc \in Run, DocumentFits(doc), Commits(x, stand, doc),
         stand = "asked" => doc.step = "waiting_human",
         UNCHANGED <<decisionVars, job, performed, missed>>
  PROVE  RunInv'
<1>1. Moves(x)
  BY GoesFits DEF Commits, Moves
<1>2. DecisionInv' /\ UNCHANGED <<request, effects>>
  BY ActorTypes, DecisionsStay
<1>3. \E d \in Run : DocumentFits(d) /\ run' = d
  BY DEF Commits
<1>4. job' \in JobRows /\ missed' \subseteq 1 .. MaxRounds
  BY ActorTypes
<1>5. QED
  BY <1>1, <1>2, <1>3, <1>4, ActorSteps

LEMMA EntersKeeps ==
  ASSUME RunInv, NEW x \in Actors, Enters(x)
  PROVE  RunInv'
<1>1. PICK doc : doc = [Doc(x) EXCEPT !.state = "running"]
  OBVIOUS
<1>2. doc \in Run /\ DocumentFits(doc)
  BY <1>1, ActorTypes DEF Run, DocumentFits
<1>3. Commits(x, "loop", doc) /\ UNCHANGED <<decisionVars, job, performed, missed>>
  BY <1>1 DEF Enters
<1>4. QED
  BY <1>2, <1>3, CommitsKeeps

LEMMA AnchoredKeeps ==
  ASSUME RunInv, NEW x \in Actors, Anchored(x)
  PROVE  RunInv'
<1>1. PICK doc : doc = [Doc(x) EXCEPT !.step = "waiting_human", !.round = Doc(x).round + 1]
  OBVIOUS
<1>2. Doc(x) \in Run /\ ~Doc(x).proceeds /\ Doc(x).round + 1 \in Nat
  BY ActorTypes DEF Anchored, Asks, Run
<1>3. doc \in Run /\ DocumentFits(doc) /\ doc.step = "waiting_human"
  BY <1>1, <1>2 DEF Run, DocumentFits
<1>4. Commits(x, "asked", doc) /\ UNCHANGED <<decisionVars, job, performed, missed>>
  BY <1>1 DEF Anchored
<1>5. QED
  BY <1>3, <1>4, CommitsKeeps

\* A step that waits, its round decided, goes on or is declined as the decisions said.
LEMMA AnsweredAtOnceKeeps ==
  ASSUME RunInv, NEW x \in Actors, AnsweredAtOnce(x)
  PROVE  RunInv'
<1>1. Doc(x) \in Run /\ DocumentFits(Doc(x)) /\ Doc(x).step = "waiting_human" /\ DecisionInv
  BY ActorTypes DEF AnsweredAtOnce, EngineFits, Stands, Doc
<1>2. CASE AllApplied(Doc(x).round)
  <2>1. PICK doc : doc = Decided(Doc(x))
    OBVIOUS
  <2>2. doc \in Run /\ DocumentFits(doc)
    BY <1>1, <1>2, <2>1, DecidedFits
  <2>3. PICK stand \in {"loop", "declined"} : Commits(x, stand, doc)
    BY <1>2, <2>1 DEF AnsweredAtOnce
  <2>4. UNCHANGED <<decisionVars, job, performed, missed>>
    BY DEF AnsweredAtOnce
  <2>5. QED
    BY <2>2, <2>3, <2>4, CommitsKeeps
<1>3. CASE ~AllApplied(Doc(x).round)
  <2>1. Goes(x, "loop", Doc(x)) /\ UNCHANGED <<run, decisionVars, job, performed, missed>>
    BY <1>3 DEF AnsweredAtOnce
  <2>2. Moves(x)
    BY <1>1, <2>1, GoesFits DEF Moves
  <2>3. DecisionInv' /\ UNCHANGED <<request, effects>>
    BY <1>1, <2>1, DecisionsStay
  <2>4. QED
    BY <2>1, <2>2, <2>3, ActorTypes, RunUnchanged, ActorSteps
<1>4. QED
  BY <1>2, <1>3

LEMMA PerformsKeeps ==
  ASSUME RunInv, NEW x \in Actors, Performs(x)
  PROVE  RunInv'
<1>1. PICK doc : doc = [Doc(x) EXCEPT !.step = "succeeded"]
  OBVIOUS
<1>2. Doc(x) \in Run /\ Doc(x).round \in Nat /\ SaidPerform(Doc(x).round)
  BY ActorTypes DEF Performs, DocumentFits, Run
<1>3. doc \in Run /\ DocumentFits(doc)
  BY <1>1, <1>2, ActorTypes DEF Run, DocumentFits
<1>4. /\ run' = doc /\ Goes(x, "loop", doc)
      /\ performed' = performed \cup {Doc(x).round}
      /\ UNCHANGED <<decisionVars, job, missed>>
  BY <1>1 DEF Performs, Commits
<1>5. PICK e \in Engine : EngineFits(e) /\ engine' = [engine EXCEPT ![x] = e]
  BY <1>3, <1>4, GoesFits
<1>6. DecisionInv' /\ UNCHANGED <<request, effects>>
  BY <1>4, ActorTypes, DecisionsStay
<1>7. AsksOnlyRules
  BY <1>6 DEF AsksOnlyRules
<1>8. /\ performed' \subseteq Nat /\ \A k \in performed' : k \in performed \/ SaidPerform(k)
      /\ job' \in JobRows /\ missed' \subseteq 1 .. MaxRounds
  BY <1>2, <1>4, ActorTypes
<1>9. QED
  BY <1>3, <1>4, <1>5, <1>6, <1>7, <1>8, OneActor

LEMMA EndsRunKeeps ==
  ASSUME RunInv, NEW x \in Actors, NEW state \in {"waiting_human", "finished"}, EndsRun(x, state)
  PROVE  RunInv'
<1>1. PICK doc : doc = [Doc(x) EXCEPT !.state = state]
  OBVIOUS
<1>2. doc \in Run /\ DocumentFits(doc)
  BY <1>1, ActorTypes DEF Run, DocumentFits
<1>3. run' = doc /\ Moves(x)
  BY <1>1, LeavesFits DEF EndsRun, Moves
<1>4. job' \in JobRows
  BY ActorTypes, DoneType DEF EndsRun
<1>5. DecisionInv' /\ UNCHANGED <<request, effects, performed, missed>>
  BY ActorTypes, DecisionsStay DEF EndsRun
<1>6. QED
  BY <1>2, <1>3, <1>4, <1>5, ActorTypes, ActorSteps

LEMMA EndsDecisions ==
  ASSUME RunInv, NEW p \in Deciders, Ends(p)
  PROVE  DecisionInv' /\ UNCHANGED <<request, effects>>
  BY EndsKeeps DEF RunInv, Ends, history

LEMMA HandsOverKeeps ==
  ASSUME RunInv, NEW p \in Deciders, HandsOver(p)
  PROVE  RunInv'
<1>1. p \in Actors
  BY DEF Actors
<1>2. CASE WaitsUndecided(run)
  <2>1. Goes(p, "apply", run) /\ UNCHANGED <<decisionVars, run, job, performed, missed>>
    BY <1>2 DEF HandsOver
  <2>2. Moves(p)
    BY <1>1, <1>2, <2>1, ActorTypes, GoesFits DEF WaitsUndecided, Moves
  <2>3. DecisionInv' /\ UNCHANGED <<request, effects>>
    BY <1>1, <2>1, ActorTypes, DecisionsStay
  <2>4. QED
    BY <1>1, <2>1, <2>2, <2>3, ActorTypes, RunUnchanged, ActorSteps
<1>3. CASE ~WaitsUndecided(run)
  <2>1. /\ Ends(p) /\ UNCHANGED <<engine, run, job, performed>>
        /\ missed' = IF run.state = "waiting_human" THEN missed ELSE missed \cup HandedOver(p)
    BY <1>3 DEF HandsOver
  <2>2. DecisionInv' /\ UNCHANGED <<request, effects>>
    BY <2>1, EndsDecisions
  <2>3. missed' \subseteq 1 .. MaxRounds
    BY <1>1, <2>1, ActorTypes DEF HandedOver
  <2>4. PICK e : e = engine[p]
    OBVIOUS
  <2>5. e \in Engine /\ EngineFits(e) /\ engine' = [engine EXCEPT ![p] = e]
    BY <1>1, <2>1, <2>4, ActorTypes DEF RunInv, TypeOK
  <2>6. Moves(p)
    BY <2>5 DEF Moves
  <2>7. QED
    BY <1>1, <2>1, <2>2, <2>3, <2>6, ActorTypes, RunUnchanged, ActorSteps
<1>4. QED
  BY <1>2, <1>3

LEMMA AppliesKeeps ==
  ASSUME RunInv, NEW x \in Actors, Applies(x)
  PROVE  RunInv'
<1>1. PICK doc : doc = Decided(Doc(x))
  OBVIOUS
<1>2. Doc(x) \in Run /\ DocumentFits(Doc(x)) /\ Doc(x).step = "waiting_human" /\ DecisionInv
  BY ActorTypes DEF Applies, EngineFits, Stands, Doc
<1>3. doc \in Run /\ DocumentFits(doc)
  BY <1>1, <1>2, DecidedFits DEF Applies
<1>4. PICK stand \in {"declined", "enqueue", "enter"} : Commits(x, stand, doc)
  BY <1>1 DEF Applies
<1>5. UNCHANGED <<decisionVars, job, performed, missed>>
  BY DEF Applies
<1>6. QED
  BY <1>3, <1>4, <1>5, CommitsKeeps

LEMMA AppliesNothingKeeps ==
  ASSUME RunInv, NEW x \in Actors, AppliesNothing(x)
  PROVE  RunInv'
<1>1. UNCHANGED <<run, job, performed, missed>>
  BY DEF AppliesNothing
<1>2. Moves(x)
  BY ActorTypes, GoesFits, LeavesFits DEF AppliesNothing, Moves
<1>3. DecisionInv' /\ UNCHANGED <<request, effects>>
  BY ActorTypes, EndsDecisions, DecisionsStay DEF AppliesNothing
<1>4. QED
  BY <1>1, <1>2, <1>3, ActorTypes, RunUnchanged, ActorSteps

LEMMA EnqueuesKeeps ==
  ASSUME RunInv, NEW p \in Deciders, Enqueues(p)
  PROVE  RunInv'
<1>1. p \in Actors
  BY DEF Actors
<1>2. run' = Doc(p) /\ UNCHANGED <<performed, missed>>
  BY DEF Enqueues
<1>3. Moves(p)
  BY <1>1, LeavesFits DEF Enqueues, Moves
<1>4. DecisionInv' /\ UNCHANGED <<request, effects>>
  BY EndsDecisions DEF Enqueues
<1>5. job' \in JobRows
  BY <1>1, ActorTypes DEF Enqueues, JobRows
<1>6. QED
  BY <1>1, <1>2, <1>3, <1>4, <1>5, ActorTypes, ActorSteps

LEMMA HaltsKeeps ==
  ASSUME RunInv, NEW x \in Actors, Halts(x)
  PROVE  RunInv'
<1>1. PICK doc : doc = [Doc(x) EXCEPT !.state = "halted"]
  OBVIOUS
<1>2. doc \in Run /\ DocumentFits(doc)
  BY <1>1, ActorTypes DEF Run, DocumentFits
<1>3. run' = doc /\ Moves(x) /\ UNCHANGED <<performed, missed>>
  BY <1>1, LeavesFits DEF Halts, Moves
<1>4. job' \in JobRows
  BY ActorTypes, DoneType DEF Halts
<1>5. DecisionInv' /\ UNCHANGED <<request, effects>>
  BY ActorTypes, EndsDecisions, DecisionsStay DEF Halts
<1>6. QED
  BY <1>2, <1>3, <1>4, <1>5, ActorTypes, ActorSteps

LEMMA CommandDiesKeeps ==
  ASSUME RunInv, NEW p \in Deciders, CommandDies(p)
  PROVE  RunInv'
<1>1. p \in Actors
  BY DEF Actors
<1>2. Moves(p)
  BY <1>1, LeavesFits DEF CommandDies, Moves
<1>3. DecisionInv' /\ UNCHANGED <<request, effects, run, job, performed>>
  BY DiesKeeps DEF RunInv, CommandDies, Dies, history
<1>4. missed' \subseteq 1 .. MaxRounds
  BY <1>1, ActorTypes DEF CommandDies, HandedOver
<1>5. QED
  BY <1>1, <1>2, <1>3, <1>4, ActorTypes, RunUnchanged, ActorSteps

LEMMA RunnerDiesKeeps ==
  ASSUME RunInv, NEW j \in Jobs, RunnerDies(j)
  PROVE  RunInv'
<1>1. j \in Actors
  BY DEF Actors
<1>2. Moves(j)
  BY <1>1, LeavesFits DEF RunnerDies, Moves
<1>3. job' \in JobRows
  BY <1>1, ActorTypes DEF RunnerDies, JobRows
<1>4. /\ UNCHANGED <<request, register, rule, command, moment, shown, effects, answers>>
      /\ UNCHANGED <<run, performed, missed>> /\ crashes' \in Nat
  BY <1>1, ActorTypes, CountsType DEF RunnerDies, history
<1>5. DecisionInv'
  <2>1. Grows /\ DecisionInv
    BY <1>1, <1>4, ActorTypes DEF Grows
  <2>2. DecisionTypeOK'
    BY <1>4, <2>1 DEF DecisionInv, DecisionTypeOK
  <2>3. QED
    BY <1>4, <2>1, <2>2, CommandsStay, RequestsStay, RulesStay, ConfirmedStays DEF DecisionInv
<1>6. QED
  BY <1>1, <1>2, <1>3, <1>4, <1>5, ActorTypes, RunUnchanged, ActorSteps

\* A new round is asked only after the one before was declined.
LEMMA RaisesKeeps ==
  ASSUME RunInv, NEW x \in Actors, NEW a \in Anchors, Raises(x, a)
  PROVE  RunInv'
<1>1. PICK doc : doc = Doc(x)
  OBVIOUS
<1>2. PICK q : q = About(a, doc.round + 1)
  OBVIOUS
<1>3. /\ doc \in Run /\ doc.round \in Nat /\ DocumentFits(doc)
      /\ Asks(doc) /\ engine[x].run = doc /\ ~Stands(x, "asked") /\ ~Stands(x, "apply")
      /\ Raise(q) /\ UNCHANGED <<run, job, performed, missed>>
  BY <1>1, <1>2, ActorTypes DEF Raises, Run, Stands, Doc
<1>4. q \in Ids /\ q.of = "act" /\ q.no = doc.round + 1
  BY <1>2, <1>3 DEF About, Ids
<1>5. DecisionInv' /\ Grows
  BY <1>3, <1>4, RaiseKeeps DEF RunInv
<1>6. effects \subseteq effects' /\ DOMAIN request' \subseteq DOMAIN request \cup {q}
  <2>1. DOMAIN request' \in {DOMAIN request, DOMAIN request \cup {q}}
    BY <1>3 DEF Raise, With, decisionVars
  <2>2. QED
    BY <1>5, <2>1 DEF Grows
<1>7. q.no > 1 => SaidNo(q.no - 1)
  BY <1>3, <1>4 DEF Asks, DocumentFits
<1>8. AskedAgainWhenDeclined'
  <2>1. ASSUME NEW r \in DOMAIN request', r.of = "act", r.no > 1
        PROVE  SaidNo(r.no - 1)
    BY <1>6, <1>7, <2>1 DEF RunInv, AskedAgainWhenDeclined, SaidNo
  <2>2. QED
    BY <1>6, <2>1 DEF AskedAgainWhenDeclined, SaidNo
<1>9. PICK e : e = [engine[x] EXCEPT !.raised = @ \cup {a}]
  OBVIOUS
<1>10. e \in Engine /\ e.run = doc /\ e.at = engine[x].at
  BY <1>3, <1>9, ActorTypes DEF Engine
<1>11. /\ engine' \in [Actors -> Engine] /\ engine'[x] = e
       /\ \A y \in Actors : y # x => engine'[y] = engine[y]
  BY <1>9, <1>10 DEF Raises, RunInv, TypeOK
<1>12. DocumentFits(run)'
  BY <1>3, <1>6, DocumentStays DEF RunInv, DocumentsFit
<1>13. ASSUME NEW y \in Actors PROVE EngineFits(engine[y])'
  <2>1. PICK f : f = engine'[y] /\ EngineFits(f)
    BY <1>3, <1>10, <1>11 DEF RunInv, DocumentsFit, EngineFits, Stands
  <2>2. DocumentFits(f.run)'
    BY <1>6, <2>1, DocumentStays DEF EngineFits
  <2>3. QED
    BY <2>1, <2>2 DEF EngineFits
<1>14. DocumentsFit'
  BY <1>12, <1>13 DEF DocumentsFit
<1>15. TypeOK'
  BY <1>3, <1>5, <1>11 DEF RunInv, TypeOK, DecisionInv
<1>16. QED
  BY <1>3, <1>5, <1>6, <1>8, <1>14, <1>15, PerformedStays DEF RunInv

-----------------------------------------------------------------------------

LEMMA RunStart == Init => RunInv
<1> SUFFICES ASSUME Init PROVE RunInv
  OBVIOUS
<1>1. DecisionInv
  BY DecisionStart DEF Init
<1>2. Submitted \in Run /\ DocumentFits(Submitted) /\ Off \in Engine /\ EngineFits(Off)
  BY SubmittedFits, OffFits
<1>3. DocumentsFit
  BY <1>2 DEF Init, DocumentsFit
<1>4. TypeOK
  BY <1>1, <1>2 DEF Init, TypeOK, DecisionInv
<1>5. PerformedAsDecided /\ AskedAgainWhenDeclined
  BY DEF Init, DecisionInit, Empty, PerformedAsDecided, AskedAgainWhenDeclined
<1>6. QED
  BY <1>1, <1>3, <1>4, <1>5 DEF RunInv

LEMMA RunSteps == RunInv /\ [Next]_vars => RunInv'
<1> SUFFICES ASSUME RunInv, [Next]_vars PROVE RunInv'
  OBVIOUS
<1>1. CASE UNCHANGED vars
  <2>1. DecisionInv' /\ UNCHANGED decisionVars
    BY <1>1, DecisionsStay DEF vars, RunInv
  <2>2. Grows /\ AsksOnlyRules
    BY <2>1 DEF decisionVars, Grows, AsksOnlyRules
  <2>3. QED
    BY <1>1, <2>1, <2>2, RunStays DEF vars
<1>2. CASE Persons
  BY <1>2, DecidesKeeps, DecidesForgetsNothing, RunStays DEF Persons, RunInv
<1>3. CASE Retirement
  <2>1. DecisionInv'
    BY <1>3, RetiresKeeps DEF Retirement, RunInv
  <2>2. Grows /\ AsksOnlyRules
    BY <1>3 DEF Retirement, Retires, history, Grows, AsksOnlyRules
  <2>3. QED
    BY <1>3, <2>1, <2>2, RunStays DEF Retirement
<1>4. CASE Resumes
  BY <1>4, ResumesKeeps
<1>5. ASSUME NEW x \in Actors, Executes(x) PROVE RunInv'
  <2>1. CASE Waits(x) \/ Finishes(x)
    BY <2>1, EndsRunKeeps DEF Waits, Finishes
  <2>2. CASE ~(Waits(x) \/ Finishes(x))
    BY <1>5, <2>2, EntersKeeps, AnchoredKeeps, AnsweredAtOnceKeeps, PerformsKeeps, AppliesKeeps,
       AppliesNothingKeeps, HaltsKeeps, RaisesKeeps DEF Executes
  <2>3. QED
    BY <2>1, <2>2
<1>6. ASSUME NEW p \in Deciders, HandsOver(p) \/ Enqueues(p) \/ CommandDies(p) PROVE RunInv'
  BY <1>6, HandsOverKeeps, EnqueuesKeeps, CommandDiesKeeps
<1>7. ASSUME NEW j \in Jobs, Claims(j) \/ Reads(j) \/ RunnerDies(j) PROVE RunInv'
  BY <1>7, ClaimsKeeps, ReadsKeeps, RunnerDiesKeeps
<1>8. QED
  BY <1>1, <1>2, <1>3, <1>4, <1>5, <1>6, <1>7 DEF Next

\* The strengthened invariant holds of every state the decisions and the run reach.
THEOREM RunInvHolds == Spec => []RunInv
<1>1. Spec => Init /\ [][Next]_vars
  BY DEF Spec
<1>2. QED
  BY <1>1, RunStart, RunSteps, PTL

\* The documents of requests, register and rules, of commands, the run, its jobs and those who
\* hold it are always of their types.
THEOREM AnchoredRunTypeCorrect == Spec => []TypeOK
<1>1. RunInv => TypeOK
  BY DEF RunInv
<1>2. QED
  BY <1>1, RunInvHolds, PTL

\* What takes effect was confirmed as it was read back, by the person it was sent to; a rule
\* decides only after a person accepted it (answer_request.py, confirm_request.py, rules.py).
THEOREM EffectsAreConfirmed == Spec => []EffectIsConfirmed
<1>1. RunInv => EffectIsConfirmed
  BY DEF RunInv, DecisionInv
<1>2. QED
  BY <1>1, RunInvHolds, PTL

\* However many anchors, persons and rounds, the act is performed only on decisions that took
\* effect and said to perform it (execute_run.py, _anchor and _apply_decisions).
THEOREM PerformedOnlyAsDecided == Spec => []PerformedAsDecided
<1>1. RunInv => PerformedAsDecided
  BY DEF RunInv
<1>2. QED
  BY <1>1, RunInvHolds, PTL

\* An answered question is not put again: a new round follows only a round declined
\* (execute_run.py, _anchor).
THEOREM AskedAgainOnlyWhenDeclined == Spec => []AskedAgainWhenDeclined
<1>1. RunInv => AskedAgainWhenDeclined
  BY DEF RunInv
<1>2. QED
  BY <1>1, RunInvHolds, PTL

=============================================================================
