---------------------------- MODULE HeaderStream ----------------------------
(***************************************************************************)
(* packages/web + packages/server: the account's header stream.  Every     *)
(* structural change (session, machine, workspace row) takes the account's *)
(* next headerSeq in its own transaction and is announced when its         *)
(* response has finished; GET /v1/sync returns the counter and the rows;   *)
(* the tab's sync engines (sync/engine.ts, one per mounted                 *)
(* useSyncSnapshotQuery) patch contiguous announcements into the cached    *)
(* snapshot and invalidate it otherwise.                                   *)
(*                                                                         *)
(* A row is, per field, the headerSeq of the last change it shows: some    *)
(* announcements carry the whole row, a `session-update` only the fields   *)
(* it changes.  React Query is external: an invalidation of an observed    *)
(* query marks it stale and refetches it, cancelling the fetch in flight   *)
(* only if there is data; a fetch whose last retry failed keeps the data   *)
(* and marks it stale.                                                     *)
(***************************************************************************)
EXTENDS Naturals, Sequences, SequencesExt

CONSTANTS
    Rows,           \* entities, each in a table of its own
    Patchable,      \* the sessions: rows that are patched field by field
    Fields,         \* the fields of a row
    NEngines,       \* bound: sync engines mounted at once
    MaxSeq,         \* bound: structural changes of the account
    MaxDrops,       \* bound: losses of the socket
    Absent          \* not read, not cached, no baseline

ASSUME HeaderAssumption ==
    /\ NEngines \in Nat \ {0} /\ MaxSeq \in Nat /\ MaxDrops \in Nat
    /\ Fields # {} /\ Fields \cap {"row", "gone"} = {}
    /\ Absent \notin Nat /\ Absent \notin [Fields -> Nat]
    /\ Absent \notin [seq : Nat \cup {Absent}, rows : [Rows -> [Fields -> Nat] \cup {Absent}]]

VARIABLES
    log,            \* server: log[k] is the row, and what of it, that change k wrote
    unsent,         \* server: committed changes not announced yet
    connected,      \* the tab's socket is up
    chan,           \* `update` events on their way to the tab
    cache,          \* the ['sync'] snapshot: seq and rows, or Absent
    stale,          \* the query is invalidated
    fetch,          \* the GET in flight: what it has read so far, or Absent
    mounted,        \* sync engines mounted: the first so many
    last,           \* lastHeaderSeq of each engine
    owed,           \* history: the newest change when a refetch was started
    failed,         \* history: the fetch started for what is owed failed
    drops           \* the bound's counter

query == <<cache, stale, fetch, owed, failed>>
tab == <<query, last>>
headerVars == <<log, unsent, connected, chan, tab, mounted, drops>>

Engines == 1..NEngines
headerSeq == Len(log)
NotRead == [seq |-> Absent, rows |-> [r \in Rows |-> Absent]]

\* What a change may write: the whole row, one field, or its deletion.
Changes == [row : Rows, part : Fields \cup {"row", "gone"}]
Writes(c, f) == c.part \in {f, "row", "gone"}

\* The row r after the first n changes.
RowAt(r, n) == [f \in Fields |->
    LET ks == {k \in 1..n : log[k].row = r /\ Writes(log[k], f)}
    IN  IF ks = {} THEN 0 ELSE Max(ks)]

\* The row is there: it was written, and not deleted last.
Has(table, r) == \E f \in Fields : table[r][f] # 0 /\ log[table[r][f]].part # "gone"

\* The snapshot shows what change k wrote, or something newer.
Shows(snapshot, k) ==
    \A f \in Fields : Writes(log[k], f) => snapshot.rows[log[k].row][f] >= k

HeaderTypeOK ==
    LET Seqs == 0..headerSeq
        Row == [Fields -> Seqs]
    IN  /\ log \in Seq(Changes) /\ headerSeq <= MaxSeq
        /\ unsent \subseteq 1..headerSeq
        /\ connected \in BOOLEAN /\ stale \in BOOLEAN /\ failed \in BOOLEAN
        /\ chan \in Seq(1..headerSeq)
        /\ cache \in [seq : Seqs, rows : [Rows -> Row]] \cup {Absent}
        /\ fetch \in [seq : Seqs \cup {Absent}, rows : [Rows -> Row \cup {Absent}]] \cup {Absent}
        /\ mounted \in 1..NEngines /\ last \in [Engines -> Seqs \cup {Absent}]
        /\ owed \in Seqs /\ drops \in 0..MaxDrops

\* A signed-in tab has just mounted: its first GET is on its way.
HeaderInit ==
    /\ log = <<>> /\ unsent = {}
    /\ connected = TRUE /\ chan = <<>> /\ drops = 0
    /\ cache = Absent /\ stale = FALSE /\ fetch = NotRead
    /\ mounted = 1 /\ last = [e \in Engines |-> Absent]
    /\ owed = 0 /\ failed = FALSE
-----------------------------------------------------------------------------
(* The server *)

\* What the next change of a row may be: it is created first, and deleted last.
Parts(r) ==
    LET past == {log[k].part : k \in {j \in 1..headerSeq : log[j].row = r}}
    IN  IF past = {} THEN {"row"}
        ELSE IF "gone" \in past THEN {}
        ELSE IF r \in Patchable THEN Fields \cup {"gone"} ELSE {"row"}

\* A structural change: the row and allocHeaderSeq in one transaction, ordered
\* by the lock on the account row.
Change(r) ==
    /\ headerSeq < MaxSeq
    /\ \E part \in Parts(r) : log' = Append(log, [row |-> r, part |-> part])
    /\ unsent' = unsent \cup {headerSeq + 1}
    /\ UNCHANGED <<connected, chan, tab, mounted, drops>>

\* The announcements of concurrent requests come in any order.
Announce(k) ==
    /\ k \in unsent
    /\ unsent' = unsent \ {k}
    /\ chan' = IF connected THEN Append(chan, k) ELSE chan
    /\ UNCHANGED <<log, connected, tab, mounted, drops>>

\* GET /v1/sync reads the account row and each table in statements of their
\* own, concurrently, outside a transaction.
ReadAccount ==
    /\ fetch # Absent /\ fetch.seq = Absent
    /\ fetch' = [fetch EXCEPT !.seq = headerSeq]
    /\ UNCHANGED <<log, unsent, connected, chan, mounted, drops, cache, stale, last, owed, failed>>

ReadRows(r) ==
    /\ fetch # Absent /\ fetch.rows[r] = Absent
    /\ fetch' = [fetch EXCEPT !.rows[r] = RowAt(r, headerSeq)]
    /\ UNCHANGED <<log, unsent, connected, chan, mounted, drops, cache, stale, last, owed, failed>>
-----------------------------------------------------------------------------
(* The tab: one record t of the query and the engines' state, so that the    *)
(* engines can handle an event one after the other within one step.          *)

Tab == [cache |-> cache, stale |-> stale, fetch |-> fetch, last |-> last,
        owed |-> owed, failed |-> failed]

Becomes(t) ==
    /\ cache' = t.cache /\ stale' = t.stale /\ fetch' = t.fetch /\ last' = t.last
    /\ owed' = t.owed /\ failed' = t.failed

\* Every engine's cache subscription adopts the snapshot's counter.
cacheSub(t) == [t EXCEPT !.last = [e \in Engines |-> t.cache.seq]]

\* Faulty: an invalidation that leaves a fetch in flight alone, or starts none.
Invalidate_NoCancel(t) ==
    [t EXCEPT !.stale = TRUE, !.failed = FALSE,
              !.fetch = IF t.fetch = Absent THEN NotRead ELSE t.fetch,
              !.owed = IF t.cache # Absent THEN headerSeq ELSE t.owed]

Invalidate_MarkOnly(t) ==
    [t EXCEPT !.stale = TRUE,
              !.owed = IF t.cache # Absent THEN headerSeq ELSE t.owed]

\* A fetch is started for what the server holds now.
Refetch(t) == [t EXCEPT !.fetch = NotRead, !.owed = headerSeq, !.failed = FALSE]

\* invalidateQueries(['sync']): without data a fetch in flight is kept.
Invalidate(t) ==
    IF t.cache = Absent /\ t.fetch # Absent
    THEN [t EXCEPT !.stale = TRUE]
    ELSE Refetch([t EXCEPT !.stale = TRUE])

\* The body of the update against the rows: a whole row is put in, a deletion
\* takes it out, and the fields of a `session-update` are merged into the
\* session, if the snapshot has it.
patched(table, k) ==
    LET c == log[k]
    IN  IF c.part \in Fields /\ ~Has(table, c.row) THEN table
        ELSE [table EXCEPT ![c.row] = [f \in Fields |-> IF Writes(c, f) THEN k ELSE @[f]]]

\* setQueryData: patch the rows, move the counter, clear the stale mark.
applyStructural(t, k) ==
    IF t.cache = Absent THEN t
    ELSE cacheSub([t EXCEPT !.cache = [seq |-> k, rows |-> patched(@.rows, k)], !.stale = FALSE])

\* Faulty: an announcement at or below the tracker is taken for a duplicate.
handleUpdate_SkipOld(t, e, k) ==
    IF t.last[e] # Absent /\ k = t.last[e] + 1
    THEN [applyStructural(t, k) EXCEPT !.last[e] = k]
    ELSE IF t.last[e] # Absent /\ k <= t.last[e] THEN t
    ELSE Invalidate(t)

\* handleUpdate of engine e.
handleUpdate(t, e, k) ==
    IF t.last[e] # Absent /\ k = t.last[e] + 1
    THEN [applyStructural(t, k) EXCEPT !.last[e] = k]
    ELSE Invalidate(t)

\* The socket hands an event to every mounted engine, in the order they
\* subscribed: the tab after the first n of them.
handledBy[n \in 0..NEngines] ==
    IF n = 0 THEN Tab ELSE handleUpdate(handledBy[n - 1], n, Head(chan))

Update ==
    /\ connected /\ chan # <<>>
    /\ chan' = Tail(chan)
    /\ Becomes(handledBy[mounted])
    /\ UNCHANGED <<log, unsent, connected, mounted, drops>>

\* The complete answer becomes the cached snapshot.
Respond ==
    /\ fetch # Absent /\ fetch.seq # Absent
    /\ \A r \in Rows : fetch.rows[r] # Absent
    /\ Becomes(cacheSub([Tab EXCEPT !.cache = fetch, !.stale = FALSE, !.fetch = Absent]))
    /\ UNCHANGED <<log, unsent, connected, chan, mounted, drops>>

\* The GET fails, whatever it has read.  What is cached stays, and is stale.
RespondFails ==
    /\ fetch # Absent
    /\ Becomes([Tab EXCEPT !.fetch = Absent, !.stale = TRUE, !.failed = TRUE])
    /\ UNCHANGED <<log, unsent, connected, chan, mounted, drops>>

\* Another component uses the snapshot: its engine takes its baseline from the
\* cache, and its observer refetches what is missing or stale.
Mount ==
    /\ mounted < NEngines
    /\ mounted' = mounted + 1
    /\ LET seeded == [Tab EXCEPT !.last[mounted + 1] = IF cache = Absent THEN Absent ELSE cache.seq]
       IN  Becomes(IF fetch = Absent /\ (cache = Absent \/ stale) THEN Refetch(seeded) ELSE seeded)
    /\ UNCHANGED <<log, unsent, connected, chan, drops>>

\* One of several is left.
Unmount ==
    /\ mounted > 1
    /\ mounted' = mounted - 1
    /\ UNCHANGED <<log, unsent, connected, chan, tab, drops>>

\* The socket drops; what was on it is lost.
Disconnect ==
    /\ connected /\ drops < MaxDrops
    /\ connected' = FALSE /\ chan' = <<>> /\ drops' = drops + 1
    /\ UNCHANGED <<log, unsent, tab, mounted>>

\* handleReconnect of every engine: invalidate everything.
Reconnect ==
    /\ ~connected
    /\ connected' = TRUE
    /\ Becomes(Invalidate(Tab))
    /\ UNCHANGED <<log, unsent, chan, mounted, drops>>
-----------------------------------------------------------------------------
HeaderNext ==
    \/ \E r \in Rows : Change(r) \/ ReadRows(r)
    \/ \E k \in unsent : Announce(k)
    \/ ReadAccount \/ Respond \/ RespondFails \/ Mount \/ Unmount \/ Update \/ Disconnect \/ Reconnect

HeaderSpec == HeaderInit /\ [][HeaderNext]_headerVars

\* The server answers and announces, the tab handles what arrives and its
\* socket is reconnected; nobody has to change anything or look elsewhere, and a
\* fetch may fail as often as it likes.
HeaderFairness ==
    /\ WF_headerVars(ReadAccount) /\ \A r \in Rows : WF_headerVars(ReadRows(r))
    /\ WF_headerVars(Respond) /\ WF_headerVars(Update) /\ WF_headerVars(Reconnect)
    /\ \A k \in 1..MaxSeq : WF_headerVars(Announce(k))

HeaderFairSpec == HeaderSpec /\ HeaderFairness
-----------------------------------------------------------------------------
(* Properties *)

Settled == cache # Absent /\ fetch = Absent /\ ~stale

\* A refetch delivers what it was started for: however the statements of the GET
\* interleave with commits and later announcements, once the query has settled it
\* shows every change committed when the gap or the reconnect was noticed, unless
\* the fetch failed (a patch may then make the snapshot look current).  With a
\* second engine that includes what was patched in meanwhile: the first one's
\* patch has moved the other's tracker, which therefore refetches.
RefetchDelivers ==
    Settled /\ ~failed => \A k \in 1..owed : Shows(cache, k)

\* An announced change that the snapshot lacks is not dropped: it is on screen
\* after the event, or the snapshot is marked for a refetch.  The snapshot may
\* lack a change at or below its own counter, so "old" is no reason to skip it.
\* One case is left, and the code leaves it: a lone engine moves its counter past
\* the update of a session that a torn snapshot lacks.
NoSilentDrop ==
    [][chan # <<>> /\ connected' /\ chan' = Tail(chan) =>
         LET k == Head(chan) IN
           \/ stale'
           \/ cache' # Absent /\ Shows(cache', k)
           \/ mounted = 1 /\ cache # Absent /\ log[k].part \in Fields /\ ~Has(cache.rows, log[k].row)
      ]_headerVars

\* After a gap or a reconnect the tab catches up with everything committed then,
\* without another change to wake it, unless its fetch fails.
ResyncSettles == \A n \in 1..MaxSeq :
    owed = n ~>
      failed \/ (cache # Absent /\ headerSeq >= n /\ \A k \in 1..n : Shows(cache, k))
=============================================================================
