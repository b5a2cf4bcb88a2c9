---------------------------- MODULE LedgerChains ----------------------------
(***************************************************************************)
(* The chains of one tenant's ledger: an entry goes on its run's chain or  *)
(* on the tenant's, carries the hash of the entry before it there, and     *)
(* the heads of the run chains are anchored in the tenant's chain.  A      *)
(* verification walks every chain at once and compares every anchor with   *)
(* the heads it covers.                                                    *)
(*                                                                         *)
(* A hash is the content it is taken over, and the root of an anchor's     *)
(* tree is the set of its heads: two of them agree only when what they     *)
(* stand for does.  The stable head is any entry below everything that is  *)
(* still to commit, which is what LedgerPositions shows of                 *)
(* LedgerStore.head.                                                       *)
(***************************************************************************)
EXTENDS Integers, FiniteSets

CONSTANTS
  Recorders,     \* the connections of every instance
  Runs,          \* the runs, each with a chain of its name
  TenantChain,   \* the name of the tenant's own chain
  Facts,         \* what an entry that is no anchor records
  Anchored,      \* the kind of an anchor
  MaxSeq         \* bound on the positions handed out

ASSUME ChainsAssumption ==
  /\ TenantChain \notin Runs
  /\ Anchored \notin Facts
  /\ MaxSeq \in Nat

VARIABLES
  lastSeq,  \* the sequence's last value
  ledger,   \* the committed entries
  draft     \* the transaction of each session, with what it has yet to commit

chainVars == <<lastSeq, ledger, draft>>

Chains == Runs \cup {TenantChain}
Seqs == 1 .. MaxSeq
NoHash == <<>>
NoHeads == {}

NoDraft == [at |-> "idle", own |-> {}, claims |-> {}, chain |-> TenantChain, through |-> 0]

ChainsInit ==
  /\ lastSeq = 0
  /\ ledger = {}
  /\ draft = [s \in Recorders |-> NoDraft]

-----------------------------------------------------------------------------
(* Entries.                                                                *)

\* The hash covers everything but itself: the place and the hash before it among it.
HashOf(e) == <<e.seq, e.chain, e.place, e.prev, e.kind, e.through, e.root>>

Hashed(e) == [e EXCEPT !.hash = HashOf(e)]

OnChain(store, chain) == {e \in store : e.chain = chain}

\* The newest of the entries, as a set that is empty when there is none.
Newest(entries) == {e \in entries : \A f \in entries : f.seq <= e.seq}

\* The next entry of a chain after previous, a set that is empty for the first.
Link(previous, chain, seq, kind, through, root) ==
  Hashed([seq     |-> seq,
          chain   |-> chain,
          place   |-> IF previous = {} THEN 1 ELSE 1 + (CHOOSE e \in previous : TRUE).place,
          prev    |-> IF previous = {} THEN NoHash ELSE (CHOOSE e \in previous : TRUE).hash,
          kind    |-> kind,
          through |-> through,
          root    |-> root,
          hash    |-> NoHash])

\* The newest entry of each run chain above after and at or below through: what an anchor's
\* tree is built over.
Heads(store, after, through) ==
  UNION {Newest({e \in OnChain(store, r) : after < e.seq /\ e.seq <= through}) : r \in Runs}

Root(heads) == {[chain |-> e.chain, place |-> e.place, digest |-> e.hash] : e \in heads}

IsAnchor(e) == e.kind = Anchored /\ e.chain = TenantChain

\* The bound of the newest anchor among the entries, 0 when there is none.
Bound(entries) ==
  LET anchors == Newest({e \in entries : IsAnchor(e)})
  IN IF anchors = {} THEN 0 ELSE (CHOOSE e \in anchors : TRUE).through

-----------------------------------------------------------------------------
(* Transactions.                                                           *)

Stands(s, place) == draft[s].at = place

Readable(s) == ledger \cup draft[s].own

\* The heads a reader may be answered: nothing still to commit lies at or below them.
FinalHeads ==
  {0} \cup {h \in {e.seq : e \in ledger} :
              \A t \in Recorders : \A e \in draft[t].own : h < e.seq}

BeginDraft(s) ==
  /\ Stands(s, "idle")
  /\ draft' = [draft EXCEPT ![s].at = "open"]
  /\ UNCHANGED <<lastSeq, ledger>>

\* last: the chain's claim, waited for and held to the end of the transaction.
Claim(s) ==
  /\ Stands(s, "open")
  /\ \E c \in Chains :
       /\ \A t \in Recorders \ {s} : c \notin draft[t].claims
       /\ draft' = [draft EXCEPT ![s].at = "claimed", ![s].chain = c, ![s].claims = @ \cup {c}]
  /\ UNCHANGED <<lastSeq, ledger>>

\* The rest of record: the position is allocated, the entry linked and appended.
Append_ClaimDropped(s) ==
  /\ Stands(s, "claimed")
  /\ lastSeq < MaxSeq
  /\ \E fact \in Facts :
       draft' = [draft EXCEPT ![s].at = "open",
                      ![s].claims = @ \ {draft[s].chain},
                      ![s].own = @ \cup {Link(Newest(OnChain(Readable(s), draft[s].chain)),
                                              draft[s].chain, lastSeq + 1, fact, 0, NoHeads)}]
  /\ lastSeq' = lastSeq + 1
  /\ UNCHANGED ledger
Append(s) ==
  /\ Stands(s, "claimed")
  /\ lastSeq < MaxSeq
  /\ \E fact \in Facts :
       draft' = [draft EXCEPT ![s].at = "open",
                      ![s].own = @ \cup {Link(Newest(OnChain(Readable(s), draft[s].chain)),
                                              draft[s].chain, lastSeq + 1, fact, 0, NoHeads)}]
  /\ lastSeq' = lastSeq + 1
  /\ UNCHANGED ledger

\* anchor: the head is read before any claim is taken ...
AnchorHead(s) ==
  /\ Stands(s, "open") /\ draft[s].own = {} /\ draft[s].claims = {}
  /\ \E h \in FinalHeads : draft' = [draft EXCEPT ![s].at = "anchoring", ![s].through = h]
  /\ UNCHANGED <<lastSeq, ledger>>

AnchorClaim(s) ==
  /\ Stands(s, "anchoring")
  /\ \A t \in Recorders \ {s} : TenantChain \notin draft[t].claims
  /\ draft' = [draft EXCEPT ![s].at = "anchor", ![s].claims = {TenantChain}]
  /\ UNCHANGED <<lastSeq, ledger>>

\* ... and under the claim the entry is written, when a run chain moved since the last anchor.
WriteAnchor(s) ==
  LET after == Bound(Readable(s))
      heads == Heads(Readable(s), after, draft[s].through)
  IN
  /\ Stands(s, "anchor")
  /\ IF draft[s].through <= after \/ heads = {}
     THEN /\ draft' = [draft EXCEPT ![s].at = "open"]
          /\ UNCHANGED lastSeq
     ELSE /\ lastSeq < MaxSeq
          /\ lastSeq' = lastSeq + 1
          /\ draft' = [draft EXCEPT ![s].at = "open",
                  ![s].own = @ \cup {Link(Newest(OnChain(Readable(s), TenantChain)), TenantChain,
                                          lastSeq + 1, Anchored, draft[s].through, Root(heads))}]
  /\ UNCHANGED ledger

CommitDraft(s) ==
  /\ Stands(s, "open")
  /\ ledger' = ledger \cup draft[s].own
  /\ draft' = [draft EXCEPT ![s] = NoDraft]
  /\ UNCHANGED lastSeq

\* A failure, or a wait for a claim that takes too long.
DropDraft(s) ==
  /\ ~Stands(s, "idle")
  /\ draft' = [draft EXCEPT ![s] = NoDraft]
  /\ UNCHANGED <<lastSeq, ledger>>

ChainsNext ==
  \E s \in Recorders :
    \/ BeginDraft(s) \/ Claim(s) \/ Append(s)
    \/ AnchorHead(s) \/ AnchorClaim(s) \/ WriteAnchor(s)
    \/ CommitDraft(s) \/ DropDraft(s)

ChainsSpec == ChainsInit /\ [][ChainsNext]_chainVars

-----------------------------------------------------------------------------
(* Verification: a walk of the entries above start, up to head.            *)

\* The entry a walked entry must follow: the newest of its chain walked before it, or where
\* the walk meets the chain in its middle the entry one place before it.
Before(store, start, e) ==
  LET walked == Newest({f \in OnChain(store, e.chain) : start < f.seq /\ f.seq < e.seq})
  IN IF walked # {} THEN walked
     ELSE {f \in OnChain(store, e.chain) : f.place = e.place - 1}

FollowsIts(e, before) ==
  IF before = {}
  THEN e.place = 1 /\ e.prev = NoHash
  ELSE \A f \in before : e.place = f.place + 1 /\ e.prev = f.hash

\* The anchor's bound lies between the one before it and itself, and its root is that of the
\* heads it covers, read again.
AnchorHolds(store, e) ==
  LET after == Bound({f \in store : f.seq < e.seq})
  IN /\ after <= e.through
     /\ e.through < e.seq
     /\ e.root = Root(Heads(store, after, e.through))

\* The walk reads in the order of the positions: one does not rise where two entries share it.
Rises(store, e) == \A f \in store \ {e} : f.seq # e.seq

\* The entries the walk finds at fault.
Findings_NoAnchors(store, start, head) ==
  {e \in store : /\ start < e.seq /\ e.seq <= head
                 /\ \/ ~Rises(store, e)
                    \/ ~FollowsIts(e, Before(store, start, e))
                    \/ e.hash # HashOf(e)}
Findings(store, start, head) ==
  {e \in store : /\ start < e.seq /\ e.seq <= head
                 /\ \/ ~Rises(store, e)
                    \/ ~FollowsIts(e, Before(store, start, e))
                    \/ e.hash # HashOf(e)
                    \/ IsAnchor(e) /\ ~AnchorHolds(store, e)}

\* A checkpoint beyond the head is answered before anything is walked: the chain ends there.
EndsBefore(start, head) == head < start
Intact(store, start, head) == ~EndsBefore(start, head) /\ Findings(store, start, head) = {}

-----------------------------------------------------------------------------

ChainsTypeOK ==
  /\ lastSeq \in 0 .. MaxSeq
  /\ \A e \in ledger \cup UNION {draft[s].own : s \in Recorders} :
       /\ e.seq \in 1 .. lastSeq
       /\ e.chain \in Chains
       /\ e.place \in Seqs
       /\ e.kind \in Facts \cup {Anchored}
  /\ \A s \in Recorders : /\ draft[s].at \in {"idle", "open", "claimed", "anchoring", "anchor"}
                          /\ draft[s].claims \subseteq Chains
                          /\ draft[s].through \in 0 .. MaxSeq

\* Whatever order the transactions record, anchor and commit in, a verification of a ledger
\* nobody altered answers that it is intact where the head it reads is at or above its
\* checkpoint: the places of every chain are gapless, every link matches, and every anchor's
\* root is that of the heads read again later (record, anchor and Walk).  And only there: a
\* head that fell back below the checkpoint is answered as a ledger that was cut off, though
\* nobody altered it.  A checkpoint is a head of an earlier verification, and what was final
\* stays final.
IntactVerifies ==
  \A start, head \in FinalHeads : Intact(ledger, start, head) <=> start <= head

After(store, e) == {f \in OnChain(store, e.chain) : f.seq > e.seq}

\* An entry written again: with another fact, after another hash.
Restated(e, fact) == Hashed([e EXCEPT !.kind = fact])
Relinked(e, hash) == Hashed([e EXCEPT !.prev = hash])

\* What is written at each place of the chain when the entry's fact is replaced and every hash
\* from it on is made to match.
Rewriting(store, e, fact) ==
  LET again[p \in 0 .. MaxSeq] ==
        IF p <= e.place THEN Restated(e, fact)
        ELSE Relinked(CHOOSE g \in After(store, e) : g.place = p, again[p - 1].hash)
  IN again
Rewritten(store, e, fact) ==
  LET again == Rewriting(store, e, fact)
      changed == After(store, e) \cup {e}
  IN (store \ changed) \cup {again[f.place] : f \in changed}

\* The entry is of a run's chain and an anchor covers it.
Covered(store, e) ==
  /\ e.chain \in Runs
  /\ \E a \in store : IsAnchor(a) /\ e.seq <= a.through

Followed(store, e) == After(store, e) # {}

\* A full verification finds that an entry was taken out, if an entry follows it in its chain
\* or an anchor covers it.
RemovalFound ==
  \A e \in ledger :
    Followed(ledger, e) \/ Covered(ledger, e) => Findings(ledger \ {e}, 0, MaxSeq) # {}

\* A full verification finds a run's chain rewritten from an entry on, every hash made to
\* match, if an anchor covers the entry.
RewriteFound ==
  \A e \in ledger : \A fact \in Facts \ {e.kind} :
    Covered(ledger, e) => Findings(Rewritten(ledger, e, fact), 0, MaxSeq) # {}

=============================================================================
