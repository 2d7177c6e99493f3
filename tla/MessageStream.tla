--------------------------- MODULE MessageStream ---------------------------
(***************************************************************************)
(* packages/web: how one browser tab keeps the cached message pages of one *)
(* session current (sync/engine.ts, message stream; use-live-render-items, *)
(* session-list/live-source), against the server's GET and `message-new`.  *)
(*                                                                         *)
(* A message is its msgSeq.  React Query is external and modelled by the   *)
(* contract the code relies on: an invalidation refetches a query that has *)
(* observers, cancelling the fetch in flight if the query has data; a      *)
(* fetch for an older page starts from the pages cached when it starts and *)
(* also cancels the one in flight; a response replaces the cached data and *)
(* every change of the data is reported to the engine's cache listener; a  *)
(* fetch whose last retry failed keeps the data and marks it stale.        *)
(***************************************************************************)
EXTENDS Naturals, Sequences, FiniteSetsExt

CONSTANTS
    Limit,          \* messages per page
    MaxMsgs,        \* bound: messages of the session
    MaxDrops,       \* bound: losses of the socket
    MaxOlder,       \* bound: loads of an older page
    None            \* nothing cached, nothing known, nothing read yet

ASSUME BoundsAssumption ==
    /\ Limit \in Nat \ {0} /\ MaxMsgs \in Nat /\ Limit < MaxMsgs
    /\ MaxDrops \in Nat /\ MaxOlder \in Nat

ASSUME NoneAssumption == None \notin Nat /\ \A S \in SUBSET (1..MaxMsgs) : None # S

VARIABLES
    committed,      \* server: messages 1..committed are stored
    unsent,         \* server: committed messages not announced yet
    connected,      \* the tab's socket is up
    chan,           \* `update` events on their way to the tab
    mounted,        \* an observer of the query is mounted
    cache,          \* msgSeqs in the cached pages, None if there is no data
    pages,          \* pages in the cache
    stale,          \* the query is invalidated
    fetch,          \* the fetch in flight: kind, base, pages it brings, response
    known,          \* the engine's lastMsgSeq for the session
    owed,           \* the newest message a refetch was started for
    failed,         \* history: the fetch started for what is owed failed
    drops, olders   \* the bounds' counters

server == <<committed, unsent>>
socket == <<connected, chan, drops>>
query == <<cache, pages, stale, fetch>>
vars == <<server, socket, mounted, query, known, owed, failed, olders>>

Msgs == 1..MaxMsgs
NoFetch == [kind |-> "none", base |-> {}, pages |-> 0, rows |-> None]
Refetch(n) == [kind |-> "page", base |-> {}, pages |-> n, rows |-> None]

\* The timeline's query reads every cached page again, a row of the session
\* list the newest one only; React Query keeps one of the two functions.
Depths == {1, IF pages = 0 THEN 1 ELSE pages}

\* msgSeqBaseline: the newest cached message, 0 for an empty page.
Newest(rows) == IF rows = {} THEN 0 ELSE Max(rows)

TypeOK ==
    /\ committed \in 0..MaxMsgs
    /\ unsent \subseteq 1..committed
    /\ connected \in BOOLEAN /\ mounted \in BOOLEAN /\ stale \in BOOLEAN
    /\ chan \in Seq(1..committed)
    /\ cache \in (SUBSET (1..committed)) \cup {None}
    /\ pages \in Nat
    /\ failed \in BOOLEAN
    /\ fetch \in [kind : {"none", "page", "older"}, base : SUBSET (1..committed),
                  pages : Nat, rows : (SUBSET (1..committed)) \cup {None}]
    /\ known \in 0..committed \cup {None}
    /\ owed \in 0..committed
    /\ drops \in 0..MaxDrops /\ olders \in 0..MaxOlder

\* The tab starts with nothing cached on a session with any history.
Init ==
    /\ committed \in 0..(Limit + 1) /\ unsent = {}
    /\ connected = TRUE /\ chan = <<>>
    /\ mounted = FALSE
    /\ cache = None /\ pages = 0 /\ stale = FALSE /\ fetch = NoFetch
    /\ known = None
    /\ owed = 0 /\ failed = FALSE
    /\ drops = 0 /\ olders = 0
-----------------------------------------------------------------------------
(* The server *)

Commit ==
    /\ committed < MaxMsgs
    /\ committed' = committed + 1
    /\ unsent' = unsent \cup {committed + 1}
    /\ UNCHANGED <<socket, mounted, query, known, owed, failed, olders>>

\* Each handler announces its message when its own response has finished, so
\* the announcements of concurrent requests come in any order.
Announce(m) ==
    /\ m \in unsent
    /\ unsent' = unsent \ {m}
    /\ chan' = IF connected THEN Append(chan, m) ELSE chan
    /\ UNCHANGED <<committed, connected, drops, mounted, query, known, owed, failed, olders>>

\* The GET reads the table: the newest pages, or the page before the oldest.
Read ==
    /\ fetch.kind # "none" /\ fetch.rows = None
    /\ LET oldest == IF fetch.base = {} THEN 0 ELSE Min(fetch.base)
           rows == IF fetch.kind = "page"
                   THEN {m \in 1..committed : m + fetch.pages * Limit > committed}
                   ELSE fetch.base \cup {m \in 1..oldest : m < oldest /\ m + Limit >= oldest}
       IN  fetch' = [fetch EXCEPT !.rows = rows]
    /\ UNCHANGED <<server, socket, mounted, cache, pages, stale, known, owed, failed, olders>>
-----------------------------------------------------------------------------
(* React Query *)

\* Faulty: the tracker never goes back.
cacheSub_Monotone(data) ==
    known' = IF data = None THEN known
             ELSE IF known = None THEN Newest(data) ELSE Max({known, Newest(data)})

\* The cache subscription follows whatever the cache holds.
cacheSub(data) == known' = IF data = None THEN known ELSE Newest(data)

\* A fetch is started for what the server holds now.
StartRefetch ==
    /\ \E n \in Depths : fetch' = Refetch(n)
    /\ owed' = committed /\ failed' = FALSE

\* Faulty: invalidations that keep the fetch in flight, or start none.
Invalidate_NoCancel ==
    /\ stale' = TRUE
    /\ IF mounted /\ (fetch = NoFetch \/ cache # None)
       THEN fetch' = (IF fetch = NoFetch THEN Refetch(1) ELSE fetch)
            /\ owed' = committed /\ failed' = FALSE
       ELSE UNCHANGED <<fetch, owed, failed>>

Invalidate_MarkOnly ==
    /\ stale' = TRUE
    /\ owed' = IF mounted /\ (fetch = NoFetch \/ cache # None) THEN committed ELSE owed
    /\ UNCHANGED <<fetch, failed>>

\* invalidateQueries on the session's key.
Invalidate ==
    /\ stale' = TRUE
    /\ IF mounted /\ (fetch = NoFetch \/ cache # None)
       THEN StartRefetch
       ELSE UNCHANGED <<fetch, owed, failed>>

\* A response (not cancelled) becomes the cached data.
Respond ==
    /\ fetch.rows # None
    /\ cache' = fetch.rows
    /\ pages' = fetch.pages
    /\ stale' = FALSE
    /\ fetch' = NoFetch
    /\ cacheSub(fetch.rows)
    /\ UNCHANGED <<server, socket, mounted, owed, failed, olders>>

\* The GET fails, before or after the server read the table: signed out, the
\* network, an error status.  What is cached stays, and is stale.
RespondFails ==
    /\ fetch.kind # "none"
    /\ fetch' = NoFetch
    /\ stale' = TRUE /\ failed' = TRUE
    /\ UNCHANGED <<server, socket, mounted, cache, pages, known, owed, olders>>

\* A screen that shows the session is opened: the timeline always refetches
\* cached data, a row of the session list only if it is missing or stale.
Mount ==
    /\ ~mounted
    /\ mounted' = TRUE
    /\ \/ fetch = NoFetch /\ StartRefetch
       \/ (fetch # NoFetch \/ (cache # None /\ ~stale)) /\ UNCHANGED <<fetch, owed, failed>>
    /\ UNCHANGED <<server, socket, cache, pages, stale, known, olders>>

Unmount ==
    /\ mounted
    /\ mounted' = FALSE
    /\ UNCHANGED <<server, socket, query, known, owed, failed, olders>>

\* Unobserved data is dropped after a while; the engine is not told.
GarbageCollect ==
    /\ ~mounted /\ cache # None /\ fetch = NoFetch
    /\ cache' = None /\ pages' = 0 /\ stale' = FALSE /\ owed' = 0
    /\ UNCHANGED <<server, socket, mounted, fetch, known, failed, olders>>

\* loadEarlier(): fetchNextPage() from the pages cached now.
LoadEarlier ==
    /\ mounted /\ olders < MaxOlder
    /\ cache # None /\ cache # {} /\ Min(cache) > 1
    /\ fetch' = [kind |-> "older", base |-> cache, pages |-> pages + 1, rows |-> None]
    /\ olders' = olders + 1
    /\ UNCHANGED <<server, socket, mounted, cache, pages, stale, known, owed, failed>>
-----------------------------------------------------------------------------
(* The sync engine *)

\* Faulty: any newer message is patched in, or a gap goes unnoticed.
HandleUpdate_NoGapCheck ==
    /\ connected /\ chan # <<>>
    /\ chan' = Tail(chan)
    /\ LET m == Head(chan) IN
         IF cache # None /\ known # None /\ m > known
         THEN cache' = cache \cup {m} /\ known' = m
         ELSE UNCHANGED <<cache, known>>
    /\ UNCHANGED <<server, connected, drops, mounted, olders, stale, pages, fetch,
                   owed, failed>>

HandleUpdate_GapIgnored ==
    /\ connected /\ chan # <<>>
    /\ chan' = Tail(chan)
    /\ LET m == Head(chan) IN
         IF cache # None /\ known # None /\ m = known + 1
         THEN cache' = cache \cup {m} /\ known' = m
         ELSE UNCHANGED <<cache, known>>
    /\ UNCHANGED <<server, connected, drops, mounted, olders, stale, pages, fetch,
                   owed, failed>>

\* applyMessageFastPath for the next event of the socket.
HandleUpdate ==
    /\ connected /\ chan # <<>>
    /\ chan' = Tail(chan)
    /\ LET m == Head(chan) IN
         \/ /\ known = None
            /\ UNCHANGED <<query, known, owed, failed>>
         \/ /\ known # None /\ m <= known
            /\ UNCHANGED <<query, known, owed, failed>>
         \/ /\ known # None /\ m > known + 1
            /\ Invalidate
            /\ UNCHANGED <<cache, pages, known>>
         \/ /\ known # None /\ m = known + 1
            /\ cache' = IF cache = None THEN None ELSE cache \cup {m}
            /\ stale' = IF cache = None THEN stale ELSE FALSE
            /\ known' = m
            /\ UNCHANGED <<pages, fetch, owed, failed>>
    /\ UNCHANGED <<server, connected, drops, mounted, olders>>

\* The socket drops; what was on it is lost.
Disconnect ==
    /\ connected /\ drops < MaxDrops
    /\ connected' = FALSE
    /\ chan' = <<>>
    /\ drops' = drops + 1
    /\ UNCHANGED <<server, mounted, query, known, owed, failed, olders>>

\* handleReconnect: invalidate everything.
Reconnect ==
    /\ ~connected
    /\ connected' = TRUE
    /\ Invalidate
    /\ UNCHANGED <<server, chan, drops, mounted, cache, pages, known, olders>>
-----------------------------------------------------------------------------
Next ==
    \/ Commit \/ Read \/ (\E m \in unsent : Announce(m))
    \/ Respond \/ RespondFails \/ Mount \/ Unmount \/ GarbageCollect \/ LoadEarlier
    \/ HandleUpdate \/ Disconnect \/ Reconnect

Spec == Init /\ [][Next]_vars

\* The server answers and announces, the tab handles what arrives and its
\* socket is reconnected.  Nobody has to write, scroll or leave the screen, and
\* a fetch may fail as often as it likes.
Fairness ==
    /\ WF_vars(Read) /\ WF_vars(Respond) /\ WF_vars(HandleUpdate) /\ WF_vars(Reconnect)
    /\ \A m \in Msgs : WF_vars(Announce(m))

FairSpec == Spec /\ Fairness
-----------------------------------------------------------------------------
(* Properties *)

\* The transcript on screen has no hole: the cached messages are consecutive,
\* whatever order announcements, responses, older pages and reconnects come in.
NoHole ==
    cache # None => \A m \in Msgs :
        (\E a, b \in cache : a < m /\ m < b) => m \in cache

\* The engine's tracker is the newest message of the cached pages, also after a
\* response older than the tracker replaced them; it would otherwise take the
\* next message for a duplicate, or patch it onto pages that lack its elders.
KnownIsNewest == cache # None => known = Newest(cache)

\* A refetch delivers what it was started for: once it has settled, every
\* message stored when the gap or the reconnect was noticed is on screen,
\* unless it failed (the code leaves it at that) or an older page was loaded
\* meanwhile.
RefetchDelivers ==
    olders = 0 /\ ~failed /\ cache # None /\ fetch = NoFetch => Newest(cache) >= owed

\* An announcement of a message the pages lack is never dropped: the message is
\* in the pages afterwards, or they are invalidated for a refetch.
NoSilentDrop ==
    [][chan # <<>> /\ chan' = Tail(chan) /\ connected' /\ cache # None =>
         Newest(cache') >= Head(chan) \/ stale']_vars

\* After a gap or a reconnect the open session catches up with everything that
\* was stored then, without another message to wake it, unless its fetch
\* fails (older pages aside).
ResyncSettles ==
    \A n \in Msgs : (mounted /\ owed = n) ~>
        (cache # None /\ Newest(cache) >= n) \/ ~mounted \/ failed \/ olders > 0
=============================================================================
