---------------------------- MODULE LedgerReaders ----------------------------
(***************************************************************************)
(* The readers that keep a place in a tenant's ledger: the stream of       *)
(* changes of a replica, and the values kept with the position they read   *)
(* to -- a projection, and the checkpoint of the verification.             *)
(*                                                                         *)
(* A value stands for the set of entries folded into it.  The kept value   *)
(* named Checkpoint is the verification's: its entries are counted and     *)
(* walked, and its walk begins after its place.  Nothing is altered here,  *)
(* so a walk finds nothing but a ledger that ends before its checkpoint.   *)
(***************************************************************************)
EXTENDS LedgerPositions

CONSTANTS
  Writers,       \* sessions that record entries
  Keepers,       \* sessions that bring a kept value up to date
  Streams,       \* sessions that read for the streams of a replica
  Names,         \* the kept values
  Checkpoint,    \* the name of the verification's checkpoint
  Page,          \* how many entries one read for a stream takes at most
  NoSession

ASSUME ReadersAssumption ==
  /\ Writers \cup Keepers \cup Streams \subseteq Sessions
  /\ Keepers \cap Streams = {}
  /\ NoSession \notin Sessions
  /\ Page \in Nat \ {0}

VARIABLES
  kept,     \* the table ledger_projection: a row of each name
  claim,    \* who holds the claim on each name
  work,     \* what each session is doing
  stream    \* where each stream stands, and the entries it was sent

readerVars == <<kept, claim, work, stream>>
allVars == <<vars, readerVars>>

NoRow == [seq |-> -1, folded |-> {}]
Row == [seq : Bounds \cup {-1}, folded : SUBSET Positions]

Nothing == [at |-> "nothing", name |-> NoSession, full |-> FALSE, start |-> NoRow,
            through |-> 0, value |-> {}, wrote |-> NoRow]

Work ==
  [at      : {"nothing", "head", "headed", "store", "beyond", "done"},
   name    : Names \cup {"page", "opening", NoSession},
   full    : BOOLEAN,             \* whether what is kept is not trusted
   start   : Row,                 \* the kept value it begins from
   through : Bounds,              \* the stable head it was given
   value   : SUBSET Positions,    \* the value computed, or the page read
   wrote   : Row]                 \* the row it wrote, not yet committed

ReadersInit ==
  /\ Init
  /\ kept = [n \in Names |-> NoRow]
  /\ claim = [n \in Names |-> NoSession]
  /\ work = [s \in Sessions |-> Nothing]
  /\ stream = [s \in Streams |-> [place |-> 0, sent |-> {}]]

-----------------------------------------------------------------------------

Doing(s, place) == work[s].at = place

\* The row of the name as the session's statements see it.
RowSeen(s, n) == IF work[s].name = n /\ work[s].wrote # NoRow THEN work[s].wrote ELSE kept[n]

EntriesBetween(s, after, through) == {p \in Visible(s) : after < p /\ p <= through}

\* The first of the entries, as many as a page takes.
FirstPage(entries) ==
  {p \in entries : Cardinality({q \in entries : q < p}) < Page}

Start(s, name, full, start) ==
  /\ At(s, "open") /\ Doing(s, "nothing")
  /\ work' = [work EXCEPT ![s] = [Nothing EXCEPT !.at = "head", !.name = name,
                                                 !.full = full, !.start = start]]
  /\ UNCHANGED <<vars, kept, claim, stream>>

\* The statements of LedgerStore.head; the last of them answers.
AskHead(s) ==
  /\ Doing(s, "head")
  /\ ReadsHead(s)
  /\ work' = IF tx'[s].at = "open"
             THEN [work EXCEPT ![s].at = "headed", ![s].through = tx'[s].head]
             ELSE work
  /\ UNCHANGED <<kept, claim, stream>>

-----------------------------------------------------------------------------
(* ChainedLedger.project, rebuilt and verify.                              *)

BringUpToDate(s) ==
  \E n \in Names, full \in BOOLEAN :
    Start(s, n, full, IF full THEN NoRow ELSE RowSeen(s, n))

\* A kept value that reached further than the head is taken for one of another ledger.
BeyondHead(s) == work[s].start.seq > work[s].through

\* verify on a ledger that ends before its checkpoint: it says so and walks nothing.
Alarm(s) ==
  /\ At(s, "open") /\ Doing(s, "headed")
  /\ work[s].name = Checkpoint
  /\ BeyondHead(s)
  /\ work' = [work EXCEPT ![s].at = "done"]
  /\ UNCHANGED <<vars, kept, claim, stream>>

\* Whether the value is stored: verify stores a checkpoint that moved, project a value that
\* reached further or was folded from the first entry.
MustStore(s) ==
  IF work[s].name = Checkpoint
  THEN work[s].through > 0 /\ (work[s].full \/ work[s].through > work[s].start.seq)
  ELSE work[s].through # work[s].start.seq

Folded_Newest(s) ==
  /\ At(s, "open") /\ Doing(s, "headed") /\ work[s].name \in Names
  /\ ~(work[s].name = Checkpoint /\ BeyondHead(s))
  /\ LET from == IF BeyondHead(s) THEN NoRow ELSE work[s].start
         to   == tx[s].newest
     IN work' = [work EXCEPT
          ![s].value = from.folded \cup EntriesBetween(s, from.seq, to),
          ![s].through = to,
          ![s].at = IF MustStore(s) THEN "store"
                    ELSE IF work[s].name = Checkpoint THEN "done" ELSE "beyond"]
  /\ UNCHANGED <<vars, kept, claim, stream>>
Folded(s) ==
  /\ At(s, "open") /\ Doing(s, "headed") /\ work[s].name \in Names
  /\ ~(work[s].name = Checkpoint /\ BeyondHead(s))
  /\ LET from == IF BeyondHead(s) THEN NoRow ELSE work[s].start
     IN work' = [work EXCEPT
          ![s].value = from.folded \cup EntriesBetween(s, from.seq, work[s].through),
          ![s].at = IF MustStore(s) THEN "store"
                    ELSE IF work[s].name = Checkpoint THEN "done" ELSE "beyond"]
  /\ UNCHANGED <<vars, kept, claim, stream>>

\* A rebuild replaces what is kept, and so does a full verification.
Replaces(s) ==
  work[s].full \/ (work[s].name # Checkpoint /\ BeyondHead(s))

\* ProjectionStore.write: without replace it never waits for the claim.
Store(s) ==
  LET n   == work[s].name
      row == [seq |-> work[s].through, folded |-> work[s].value]
  IN
  /\ At(s, "open") /\ Doing(s, "store")
  /\ Replaces(s) => claim[n] \in {s, NoSession}
  /\ IF claim[n] \in {s, NoSession}
     THEN /\ claim' = [claim EXCEPT ![n] = s]
          /\ work' = [work EXCEPT
               ![s].at = IF n = Checkpoint THEN "done" ELSE "beyond",
               ![s].wrote = IF Replaces(s) \/ RowSeen(s, n).seq < row.seq THEN row ELSE @]
     ELSE /\ work' = [work EXCEPT ![s].at = IF n = Checkpoint THEN "done" ELSE "beyond"]
          /\ UNCHANGED claim
  /\ UNCHANGED <<vars, kept, stream>>

\* What the caller receives also has every entry committed beyond the head.
Beyond_None(s) ==
  /\ At(s, "open") /\ Doing(s, "beyond")
  /\ work' = [work EXCEPT ![s].at = "done"]
  /\ UNCHANGED <<vars, kept, claim, stream>>
Beyond(s) ==
  /\ At(s, "open") /\ Doing(s, "beyond")
  /\ work' = [work EXCEPT ![s].at = "done",
                          ![s].value = @ \cup EntriesBetween(s, work[s].through, MaxPosition)]
  /\ UNCHANGED <<vars, kept, claim, stream>>

-----------------------------------------------------------------------------
(* Records.after and Records.state for the streams of a replica.           *)

Poll(s) == Start(s, "page", FALSE, NoRow)

Open(s) == Start(s, "opening", FALSE, NoRow)

ReadPage_Unbounded(s) ==
  /\ At(s, "open") /\ Doing(s, "headed") /\ work[s].name = "page"
  /\ work' = [work EXCEPT ![s].at = "done",
       ![s].value = FirstPage(EntriesBetween(s, stream[s].place, MaxPosition))]
  /\ UNCHANGED <<vars, kept, claim, stream>>
ReadPage(s) ==
  /\ At(s, "open") /\ Doing(s, "headed") /\ work[s].name = "page"
  /\ work' = [work EXCEPT ![s].at = "done",
       ![s].value = FirstPage(EntriesBetween(s, stream[s].place, work[s].through))]
  /\ UNCHANGED <<vars, kept, claim, stream>>

\* The page reached the replica: it is handed to the streams and their place moves.
HandOver_ToHead(s) ==
  /\ At(s, "idle") /\ Doing(s, "done") /\ work[s].name = "page"
  /\ stream' = [stream EXCEPT ![s] =
       [place |-> work[s].through, sent |-> @.sent \cup work[s].value]]
  /\ work' = [work EXCEPT ![s] = Nothing]
  /\ UNCHANGED <<vars, kept, claim>>
HandOver(s) ==
  /\ At(s, "idle") /\ Doing(s, "done") /\ work[s].name = "page"
  /\ stream' = [stream EXCEPT ![s] =
       [place |-> CHOOSE p \in work[s].value \cup {@.place} :
                    \A q \in work[s].value \cup {@.place} : q <= p,
        sent  |-> @.sent \cup work[s].value]]
  /\ work' = [work EXCEPT ![s] = Nothing]
  /\ UNCHANGED <<vars, kept, claim>>

HeadRead(s) ==
  /\ At(s, "open") /\ Doing(s, "headed") /\ work[s].name = "opening"
  /\ work' = [work EXCEPT ![s].at = "done"]
  /\ UNCHANGED <<vars, kept, claim, stream>>

\* A stream opens with the state of a snapshot taken after the head was read, in a
\* transaction of its own, and stands at that head.
ShowState(s) ==
  /\ At(s, "idle") /\ Doing(s, "done") /\ work[s].name = "opening"
  /\ stream' = [stream EXCEPT ![s] = [place |-> work[s].through, sent |-> log]]
  /\ work' = [work EXCEPT ![s] = Nothing]
  /\ UNCHANGED <<vars, kept, claim>>

-----------------------------------------------------------------------------
(* The transactions.                                                       *)

Record(s) ==
  /\ Doing(s, "nothing") \/ Doing(s, "done")
  /\ Writes(s)
  /\ UNCHANGED readerVars

Enter(s) ==
  /\ Doing(s, "nothing")
  /\ Begin(s)
  /\ UNCHANGED readerVars

Commit(s) ==
  /\ Doing(s, "nothing") \/ Doing(s, "done")
  /\ Publish(s)
  /\ kept' = IF work[s].wrote = NoRow THEN kept
             ELSE [kept EXCEPT ![work[s].name] = work[s].wrote]
  /\ UNCHANGED <<claim, work, stream>>

Freed(s) == [n \in Names |-> IF claim[n] = s THEN NoSession ELSE claim[n]]

\* The replica goes on with what it read for a stream; everything else is over.
Unlock(s) ==
  /\ Release(s)
  /\ claim' = Freed(s)
  /\ work' = IF s \in Streams THEN work ELSE [work EXCEPT ![s] = Nothing]
  /\ UNCHANGED <<kept, stream>>

Abort(s) ==
  /\ Rollback(s)
  /\ claim' = Freed(s)
  /\ work' = [work EXCEPT ![s] = Nothing]
  /\ UNCHANGED <<kept, stream>>

Keep(s) ==
  BringUpToDate(s) \/ Alarm(s) \/ Folded(s) \/ Store(s) \/ Beyond(s)

Serve(s) == Poll(s) \/ Open(s) \/ ReadPage(s) \/ HandOver(s) \/ HeadRead(s) \/ ShowState(s)

ReadersNext ==
  \/ TakeElsewhere /\ UNCHANGED readerVars
  \/ \E s \in Sessions : Enter(s) \/ AskHead(s) \/ Commit(s) \/ Unlock(s) \/ Abort(s)
  \/ \E s \in Writers : Record(s)
  \/ \E s \in Keepers : Keep(s)
  \/ \E s \in Streams : Serve(s)

ReadersSpec == ReadersInit /\ [][ReadersNext]_allVars

\* An open transaction ends: it commits, or the server ends it for having been idle.  A
\* replica reads for its streams as long as it has any, and its reads do not fail for ever.
Fairness ==
  /\ \A s \in Sessions : /\ WF_allVars(Commit(s) \/ Abort(s))
                         /\ WF_allVars(Unlock(s))
  /\ \A s \in Streams : /\ WF_allVars(Enter(s))
                        /\ SF_allVars(Poll(s))
                        /\ WF_allVars(AskHead(s))
                        /\ WF_allVars(ReadPage(s) \/ HeadRead(s))
                        /\ WF_allVars(HandOver(s) \/ ShowState(s))
                        /\ <>[][~Abort(s)]_allVars

FairReadersSpec == ReadersSpec /\ Fairness

-----------------------------------------------------------------------------

ReadersTypeOK ==
  /\ TypeOK
  /\ kept \in [Names -> Row]
  /\ claim \in [Names -> Sessions \cup {NoSession}]
  /\ work \in [Sessions -> Work]
  /\ stream \in [Streams -> [place : Bounds, sent : SUBSET Positions]]

UpTo(place) == {p \in log : p <= place}

\* What is kept of a ledger is always the fold of exactly the committed entries up to the
\* position it is kept with: no later commit, no concurrent store and no rollback makes a
\* projection or the checkpoint's count wrong (ChainedLedger, ProjectionStore.write).
StoredIsFold ==
  \A n \in Names : kept[n] # NoRow => kept[n].folded = UpTo(kept[n].seq)

\* A stream was sent every committed entry up to the place it stands at, however late an
\* entry committed (Records.after, LiveHub._read).
NothingMissed ==
  \A s \in Streams : UpTo(stream[s].place) \subseteq stream[s].sent

\* A caller of project or rebuilt receives the fold of everything its last statement could see.
Complete(s) ==
  Doing(s, "beyond") /\ Doing(s, "done")' => work'[s].value = Visible(s)
ReturnedIsComplete == [][\A s \in Keepers : Complete(s)]_allVars

\* Every committed entry reaches every stream.
EventuallySent ==
  \A p \in Positions, s \in Streams : p \in log ~> p \in stream[s].sent

=============================================================================
