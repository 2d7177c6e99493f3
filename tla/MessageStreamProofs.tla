------------------------- MODULE MessageStreamProofs -------------------------
(***************************************************************************)
(* Proofs about the cached message pages of one session, for any page      *)
(* size, any number of messages, losses and loads of older pages.          *)
(***************************************************************************)
EXTENDS MessageStream, FiniteSetTheorems, TLAPS

\* No number is missing between two members.
Solid(S) == \A a, b \in S : a .. b \subseteq S

\* Whatever may become the cached pages has no hole: the pages themselves, the
\* ones an older page will be joined to, and a response.
SolidInv ==
    /\ cache # None => Solid(cache)
    /\ Solid(fetch.base)
    /\ fetch.rows # None => Solid(fetch.rows)

\* As long as no older page was asked for, a response holds what its refetch was
\* started for.
FetchInv ==
    /\ fetch.kind = "none" => fetch = NoFetch
    /\ fetch.kind # "none" => fetch.pages # 0
    /\ olders = 0 => fetch.kind # "older" /\ (fetch.rows # None => Newest(fetch.rows) >= owed)

IInv == TypeOK /\ SolidInv /\ KnownIsNewest /\ FetchInv /\ RefetchDelivers
-----------------------------------------------------------------------------
(* The newest and the oldest of a set of messages *)

\* A nonempty set of natural numbers has a least element: the intervals below
\* its elements are well ordered by inclusion.
LEMMA LeastExists ==
  ASSUME NEW S \in SUBSET Nat, S # {}
  PROVE  \E m \in S : \A n \in S : m <= n
<1>1. PICK k \in S : TRUE
  OBVIOUS
<1> DEFINE Below == {n \in S : n <= k}
           T == {0 .. n : n \in Below}
           U == 0 .. k
<1>2. IsFiniteSet(U)
  BY FS_Interval
<1>3. IsWellFoundedOn(StrictSubsetOrdering(U), FiniteSubsetsOf(U))
  BY FS_StrictSubsetOrderingWellFounded
<1>4. T \subseteq SUBSET U /\ T # {}
  OBVIOUS
<1>5. T \subseteq FiniteSubsetsOf(U)
  BY <1>2, <1>4, FS_Subset DEF FiniteSubsetsOf
<1>6. PICK x \in T : \A y \in T : <<y, x>> \notin StrictSubsetOrdering(U)
  BY <1>3, <1>4, <1>5, WFMin
<1>7. PICK m \in Below : x = 0 .. m
  OBVIOUS
<1>8. ASSUME NEW n \in S, n < m PROVE FALSE
  <2>1. n \in Below /\ 0 .. n \in T
    BY <1>7, <1>8
  <2>2. 0 .. n \subseteq 0 .. m /\ 0 .. n # 0 .. m
    BY <1>8
  <2> QED
    BY <1>4, <1>6, <1>7, <2>1, <2>2 DEF StrictSubsetOrdering
<1> QED
  BY <1>7, <1>8

LEMMA MinOf ==
  ASSUME NEW S \in SUBSET Nat, S # {}
  PROVE  Min(S) \in S /\ \A n \in S : Min(S) <= n
BY LeastExists DEF Min

\* So has a bounded one a greatest element: its least upper bound.
LEMMA MaxOf ==
  ASSUME NEW n \in Nat, NEW S \in SUBSET (0 .. n), S # {}
  PROVE  Max(S) \in S /\ \A m \in S : m <= Max(S)
<1> DEFINE B == {m \in Nat : \A k \in S : k <= m}
<1>1. n \in B
  OBVIOUS
<1>2. PICK b \in B : \A m \in B : b <= m
  BY <1>1, LeastExists
<1>3. b \in S
  <2>1. ASSUME b \notin S PROVE FALSE
    <3>1. \A k \in S : k < b
      BY <2>1
    <3>2. PICK k \in S : TRUE
      OBVIOUS
    <3>3. b - 1 \in Nat /\ \A j \in S : j <= b - 1
      BY <3>1, <3>2
    <3> QED
      BY <1>2, <3>3
  <2> QED
    BY <2>1
<1> QED
  BY <1>3 DEF Max

LEMMA NewestOf ==
  ASSUME NEW n \in Nat, NEW S \in SUBSET (1 .. n)
  PROVE  /\ Newest(S) \in 0 .. n
         /\ \A m \in S : m <= Newest(S)
         /\ S # {} => Newest(S) \in S
         /\ S = {} => Newest(S) = 0
<1>1. CASE S = {}
  BY <1>1 DEF Newest
<1>2. CASE S # {}
  <2>1. S \in SUBSET (0 .. n)
    OBVIOUS
  <2>2. Max(S) \in S /\ \A m \in S : m <= Max(S)
    BY <1>2, <2>1, MaxOf
  <2>3. Newest(S) = Max(S)
    BY <1>2 DEF Newest
  <2>4. Newest(S) \in S
    BY <2>2, <2>3
  <2>5. \A m \in S : m <= Newest(S)
    BY <2>2, <2>3
  <2>6. Newest(S) \in 0 .. n
    <3>1. S \subseteq 0 .. n
      OBVIOUS
    <3> QED
      BY <2>4, <3>1, Zenon
  <2> QED
    BY <1>2, <2>4, <2>5, <2>6
<1> QED
  BY <1>1, <1>2

LEMMA NewestIs ==
  ASSUME NEW n \in Nat, NEW S \in SUBSET (1 .. n), NEW m \in S, \A k \in S : k <= m
  PROVE  Newest(S) = m
BY NewestOf

\* The first event of a socket and the ones behind it.
LEMMA HeadTail ==
  ASSUME NEW S, NEW q \in Seq(S), q # <<>>
  PROVE  Head(q) \in S /\ Tail(q) \in Seq(S) /\ Len(Tail(q)) = Len(q) - 1
OBVIOUS
-----------------------------------------------------------------------------
(* The responses of the server *)

NewestPages == {m \in 1 .. committed : m + fetch.pages * Limit > committed}
Oldest == IF fetch.base = {} THEN 0 ELSE Min(fetch.base)
WithOlder == fetch.base \cup {m \in 1 .. Oldest : m < Oldest /\ m + Limit >= Oldest}

\* A refetch reads pages without a hole that end with the newest message.
LEMMA NewestPagesSolid ==
  ASSUME TypeOK, fetch.pages # 0
  PROVE  /\ NewestPages \subseteq 1 .. committed /\ Solid(NewestPages)
         /\ Newest(NewestPages) = committed
<1>1. committed \in Nat /\ fetch.pages \in Nat \ {0} /\ Limit \in Nat \ {0}
  BY BoundsAssumption DEF TypeOK
<1>2. fetch.pages * Limit \in Nat \ {0}
  BY <1>1
<1>3. NewestPages \in SUBSET (1 .. committed)
  BY DEF NewestPages
<1>6. Solid(NewestPages)
  BY <1>1, <1>2 DEF Solid, NewestPages
<1>4. CASE committed = 0
  <2>1. NewestPages = {}
    BY <1>4, <1>3
  <2> QED
    BY <1>4, <1>6, <2>1, <1>3 DEF Newest
<1>5. CASE committed # 0
  <2>1. committed \in NewestPages
    BY <1>1, <1>2, <1>5 DEF NewestPages
  <2>2. \A k \in NewestPages : k <= committed
    BY <1>1, <1>3
  <2>3. Newest(NewestPages) = committed
    BY <1>1, <1>3, <2>1, <2>2, NewestIs
  <2> QED
    BY <1>3, <1>6, <2>3
<1> QED
  BY <1>4, <1>5

\* The page before the oldest of pages without a hole leaves no hole either.
LEMMA WithOlderSolid ==
  ASSUME TypeOK, Solid(fetch.base)
  PROVE  WithOlder \subseteq 1 .. committed /\ Solid(WithOlder)
<1>1. committed \in Nat /\ Limit \in Nat \ {0} /\ fetch.base \subseteq 1 .. committed
  BY BoundsAssumption DEF TypeOK
<1>2. CASE fetch.base = {}
  BY <1>2 DEF WithOlder, Oldest, Solid
<1>3. CASE fetch.base # {}
  <2>1. Oldest \in fetch.base /\ \A m \in fetch.base : Oldest <= m
    BY <1>1, <1>3, MinOf DEF Oldest
  <2>2. WithOlder \subseteq 1 .. committed
    BY <1>1, <2>1 DEF WithOlder
  <2>3. ASSUME NEW a \in WithOlder, NEW b \in WithOlder, NEW m \in a .. b PROVE m \in WithOlder
    <3>1. CASE m < Oldest
      BY <1>1, <2>1, <2>3, <3>1 DEF WithOlder
    <3>2. CASE Oldest <= m
      BY <1>1, <2>1, <2>3, <3>2 DEF WithOlder, Solid
    <3> QED
      BY <1>1, <2>1, <2>2, <2>3, <3>1, <3>2
  <2> QED
    BY <2>2, <2>3 DEF Solid
<1> QED
  BY <1>2, <1>3
-----------------------------------------------------------------------------
(* The invariant *)

LEMMA InitIInv == Init => IInv
<1> SUFFICES ASSUME Init PROVE IInv
  OBVIOUS
<1>1. TypeOK
  <2>1. committed \in 0 .. MaxMsgs /\ drops \in 0 .. MaxDrops /\ olders \in 0 .. MaxOlder
    BY BoundsAssumption DEF Init
  <2>2. fetch \in [kind : {"none", "page", "older"}, base : SUBSET (1 .. committed),
                  pages : Nat, rows : (SUBSET (1..committed)) \cup {None}]
    BY DEF Init, NoFetch
  <2>3. unsent \subseteq 1 .. committed /\ chan \in Seq(1 .. committed)
    BY DEF Init
  <2>4. connected \in BOOLEAN /\ mounted \in BOOLEAN /\ stale \in BOOLEAN
        /\ failed \in BOOLEAN
    BY DEF Init
  <2>5. /\ cache \in (SUBSET (1 .. committed)) \cup {None} /\ pages \in Nat
        /\ known \in 0 .. committed \cup {None} /\ owed \in 0 .. committed
    BY <2>1 DEF Init
  <2> QED
    BY <2>1, <2>2, <2>3, <2>4, <2>5 DEF TypeOK
<1>2. SolidInv /\ KnownIsNewest /\ FetchInv /\ RefetchDelivers
  BY NoneAssumption DEF Init, SolidInv, Solid, KnownIsNewest, FetchInv, RefetchDelivers, NoFetch
<1> QED
  BY <1>1, <1>2 DEF IInv

\* Messages stay stored: what is typed by them stays so when one is added.
LEMMA CommitIInv == ASSUME IInv, Commit PROVE IInv'
<1>1. committed \in Nat /\ committed' = committed + 1 /\ committed' \in 0 .. MaxMsgs
  BY BoundsAssumption DEF IInv, TypeOK, Commit
<1>2. 1 .. committed \subseteq 1 .. committed' /\ 0 .. committed \subseteq 0 .. committed'
  BY <1>1
<1>3. chan' \in Seq(1 .. committed')
  BY <1>2 DEF IInv, TypeOK, Commit, socket
<1>4. TypeOK'
  BY <1>1, <1>2, <1>3 DEF IInv, TypeOK, Commit, socket, query
<1>5. SolidInv' /\ KnownIsNewest' /\ FetchInv' /\ RefetchDelivers'
  BY DEF Commit, socket, query, IInv, SolidInv, KnownIsNewest, FetchInv, RefetchDelivers
<1> QED
  BY <1>4, <1>5 DEF IInv

\* The pages and the engine's tracker stay as they are.
LEMMA Others ==
  ASSUME IInv, TypeOK', UNCHANGED <<cache, known>>,
         UNCHANGED <<fetch, owed, failed, olders>>
  PROVE  IInv'
BY DEF IInv, SolidInv, KnownIsNewest, FetchInv, RefetchDelivers

LEMMA ReadIInv == ASSUME IInv, Read PROVE IInv'
<1> DEFINE rows == IF fetch.kind = "page" THEN NewestPages ELSE WithOlder
<1>0. TypeOK /\ Solid(fetch.base)
  BY DEF IInv, SolidInv
<1>1. fetch' = [fetch EXCEPT !.rows = rows]
  BY DEF Read, NewestPages, Oldest, WithOlder
<1>2. rows \in SUBSET (1 .. committed) /\ Solid(rows)
  BY <1>0, NewestPagesSolid, WithOlderSolid DEF Read, IInv, FetchInv
<1>3. /\ fetch'.kind = fetch.kind /\ fetch'.kind # "none"
      /\ fetch'.base = fetch.base /\ fetch'.rows = rows
      /\ fetch'.pages = fetch.pages
  BY <1>0, <1>1 DEF TypeOK, Read
<1>4. TypeOK'
  BY <1>0, <1>1, <1>2 DEF TypeOK, Read, server, socket
<1>5. SolidInv' /\ KnownIsNewest'
  BY <1>2, <1>3 DEF IInv, SolidInv, KnownIsNewest, Read
<1>6. FetchInv'
  BY <1>0, <1>3, NewestPagesSolid DEF IInv, FetchInv, TypeOK, Read
<1>7. RefetchDelivers'
  BY <1>3 DEF RefetchDelivers, NoFetch
<1> QED
  BY <1>4, <1>5, <1>6, <1>7 DEF IInv

LEMMA RespondIInv == ASSUME IInv, Respond PROVE IInv'
<1> DEFINE rows == fetch.rows
<1>1. rows \in SUBSET (1 .. committed) /\ committed \in Nat /\ fetch.kind # "none"
  BY DEF IInv, TypeOK, Respond, FetchInv, NoFetch
<1>2. cache' = rows /\ known' = Newest(rows) /\ fetch' = NoFetch /\ cache' # None
  BY <1>1 DEF Respond, cacheSub
<1>3. Newest(rows) \in 0 .. committed
  BY <1>1, NewestOf
<1>4. pages' \in Nat
  BY DEF IInv, TypeOK, Respond
<1>5. TypeOK'
  <2>1. fetch' \in [kind : {"none", "page", "older"}, base : SUBSET (1 .. committed),
                   pages : Nat, rows : (SUBSET (1 .. committed)) \cup {None}]
    BY <1>2 DEF NoFetch
  <2>2. UNCHANGED <<committed, unsent, connected, chan, drops, mounted, owed, failed, olders>>
    BY DEF Respond, server, socket
  <2>3. stale' \in BOOLEAN
    BY DEF Respond
  <2>4. cache' \in (SUBSET (1 .. committed)) \cup {None} /\ known' \in 0 .. committed \cup {None}
    BY <1>1, <1>2, <1>3
  <2> QED
    BY <1>4, <2>1, <2>2, <2>3, <2>4 DEF IInv, TypeOK
<1>6. SolidInv' /\ KnownIsNewest' /\ FetchInv'
  BY <1>2 DEF IInv, SolidInv, Solid, KnownIsNewest, FetchInv, Respond, NoFetch
<1>7. RefetchDelivers'
  BY <1>2 DEF IInv, FetchInv, RefetchDelivers, Respond
<1> QED
  BY <1>5, <1>6, <1>7 DEF IInv

\* A refetch starts, or none: nothing is cached that was not.
LEMMA RefetchIInv ==
  ASSUME IInv, StartRefetch \/ UNCHANGED <<fetch, owed, failed>>, UNCHANGED <<cache, pages, known, olders>>,
         UNCHANGED server, chan' \in Seq(1 .. committed), drops' \in 0 .. MaxDrops,
         connected' \in BOOLEAN, mounted' \in BOOLEAN, stale' \in BOOLEAN
  PROVE  IInv'
<1>1. CASE UNCHANGED <<fetch, owed, failed>>
  BY <1>1, Others DEF IInv, TypeOK, server
<1>2. CASE StartRefetch
  <2>0. PICK n \in Depths : fetch' = Refetch(n)
    BY <1>2 DEF StartRefetch
  <2>1. /\ fetch' = [kind |-> "page", base |-> {}, pages |-> n, rows |-> None]
        /\ owed' = committed /\ failed' = FALSE
    BY <1>2, <2>0 DEF StartRefetch, Refetch
  <2>3. n \in Nat \ {0}
    BY DEF Depths, IInv, TypeOK
  <2>2. TypeOK'
    <3>1. fetch' \in [kind : {"none", "page", "older"}, base : SUBSET (1 .. committed),
                     pages : Nat, rows : (SUBSET (1 .. committed)) \cup {None}]
      BY <2>1, <2>3
    <3>2. failed' \in BOOLEAN
      BY <2>1, Zenon
    <3>3. owed' \in 0 .. committed
      BY <2>1 DEF IInv, TypeOK
    <3> QED
      BY <3>1, <3>2, <3>3 DEF IInv, TypeOK, server
  <2>4. SolidInv' /\ KnownIsNewest' /\ FetchInv' /\ RefetchDelivers'
    BY <2>1, <2>3 DEF IInv, SolidInv, Solid, KnownIsNewest, FetchInv, RefetchDelivers, NoFetch
  <2> QED
    BY <2>2, <2>4 DEF IInv
<1> QED
  BY <1>1, <1>2

\* A fetch that fails settles without data.
LEMMA RespondFailsIInv == ASSUME IInv, RespondFails PROVE IInv'
<1>1. fetch' = NoFetch /\ stale' \in BOOLEAN /\ failed'
  BY DEF RespondFails
<1>2. failed' \in BOOLEAN
  BY DEF RespondFails
<1>3. fetch' \in [kind : {"none", "page", "older"}, base : SUBSET (1 .. committed),
                  pages : Nat, rows : (SUBSET (1 .. committed)) \cup {None}]
  BY <1>1 DEF NoFetch
<1>4. UNCHANGED <<server, socket, mounted, cache, pages, known, owed, olders>>
  BY DEF RespondFails
<1>5. TypeOK'
  BY <1>1, <1>2, <1>3, <1>4 DEF IInv, TypeOK, server, socket
<1>6. SolidInv' /\ KnownIsNewest' /\ FetchInv' /\ RefetchDelivers'
  BY <1>1, <1>4 DEF IInv, SolidInv, Solid, KnownIsNewest, FetchInv, RefetchDelivers, NoFetch
<1> QED
  BY <1>5, <1>6 DEF IInv

LEMMA GarbageCollectIInv == ASSUME IInv, GarbageCollect PROVE IInv'
<1>1. TypeOK'
  <2>1. UNCHANGED <<committed, unsent, connected, chan, drops, mounted, fetch, known, failed, olders>>
    BY DEF GarbageCollect, server, socket
  <2>2. stale' \in BOOLEAN
    BY DEF GarbageCollect
  <2>3. cache' = None /\ pages' \in Nat /\ owed' = 0 /\ committed \in Nat
    BY DEF GarbageCollect, IInv, TypeOK
  <2> QED
    BY <2>1, <2>2, <2>3 DEF IInv, TypeOK
<1>2. SolidInv' /\ KnownIsNewest' /\ FetchInv' /\ RefetchDelivers'
  BY DEF IInv, SolidInv, KnownIsNewest, FetchInv, RefetchDelivers, GarbageCollect, NoFetch
<1> QED
  BY <1>1, <1>2 DEF IInv

LEMMA LoadEarlierIInv == ASSUME IInv, LoadEarlier PROVE IInv'
<1>1. /\ fetch' = [kind |-> "older", base |-> cache, pages |-> pages + 1, rows |-> None]
      /\ cache \in SUBSET (1 .. committed) /\ pages \in Nat
  BY DEF LoadEarlier, IInv, TypeOK
<1>2. olders \in Nat /\ olders' = olders + 1 /\ olders' \in 0 .. MaxOlder
  BY BoundsAssumption DEF LoadEarlier, IInv, TypeOK
<1>3. TypeOK'
  BY <1>1, <1>2 DEF LoadEarlier, IInv, TypeOK, server, socket
<1>4. SolidInv' /\ KnownIsNewest' /\ FetchInv' /\ RefetchDelivers'
  BY <1>1, <1>2 DEF LoadEarlier, IInv, SolidInv, KnownIsNewest, FetchInv, RefetchDelivers, NoFetch
<1> QED
  BY <1>3, <1>4 DEF IInv

\* The next message of the session joins pages that end with its predecessor.
LEMMA PatchedPages ==
  ASSUME IInv, cache # None, known + 1 \in 1 .. committed
  PROVE  LET rows == cache \cup {known + 1}
         IN  rows \in SUBSET (1 .. committed) /\ Solid(rows) /\ Newest(rows) = known + 1
<1> DEFINE rows == cache \cup {known + 1}
<1>1. committed \in Nat /\ cache \in SUBSET (1 .. committed) /\ known = Newest(cache) /\ Solid(cache)
  BY DEF IInv, TypeOK, KnownIsNewest, SolidInv
<1>2. /\ known \in 0 .. committed /\ \A m \in cache : m <= known
      /\ cache # {} => known \in cache
  BY <1>1, NewestOf
<1>3. rows \in SUBSET (1 .. committed) /\ \A m \in rows : m <= known + 1
  <2>1. rows \in SUBSET (1 .. committed)
    BY <1>1
  <2>2. known \in Nat
    BY <1>1, <1>2
  <2>3. ASSUME NEW m \in rows PROVE m <= known + 1
    <3>1. m = known + 1 \/ m \in cache
      OBVIOUS
    <3>2. m \in Nat
      BY <1>1, <2>1
    <3> QED
      BY <1>2, <2>2, <3>1, <3>2
  <2> QED
    BY <2>1, <2>3
<1>4. Newest(rows) = known + 1
  BY <1>1, <1>3, NewestIs
<1>5. ASSUME NEW a \in rows, NEW b \in rows, NEW m \in a .. b PROVE m \in rows
  <2>1. CASE cache = {}
    BY <1>2, <1>5, <2>1
  <2>2. CASE cache # {} /\ m <= known
    <3>1. known \in cache /\ a \in cache
      BY <1>1, <1>2, <1>5, <2>2
    <3>2. m \in a .. known
      BY <1>1, <1>2, <1>3, <1>5, <2>2
    <3> QED
      BY <1>1, <3>1, <3>2 DEF Solid
  <2>3. CASE known < m
    BY <1>2, <1>3, <1>5, <2>3
  <2> QED
    BY <1>2, <1>3, <1>5, <2>1, <2>2, <2>3
<1> QED
  BY <1>3, <1>4, <1>5 DEF Solid

LEMMA HandleUpdateIInv == ASSUME IInv, HandleUpdate PROVE IInv'
<1> DEFINE m == Head(chan)
<1>1. /\ chan # <<>> /\ chan \in Seq(1 .. committed) /\ chan' = Tail(chan)
      /\ UNCHANGED <<server, connected, drops, mounted, olders>>
  BY DEF HandleUpdate, IInv, TypeOK
<1>2. m \in 1 .. committed /\ chan' \in Seq(1 .. committed)
  BY <1>1, HeadTail
<1>3. CASE UNCHANGED <<query, known, owed, failed>>
  BY <1>1, <1>2, <1>3, RefetchIInv DEF IInv, TypeOK, query
<1>4. CASE Invalidate /\ UNCHANGED <<cache, pages, known>>
  <2>1. stale' \in BOOLEAN /\ (StartRefetch \/ UNCHANGED <<fetch, owed, failed>>)
    BY <1>4 DEF Invalidate
  <2>2. connected' \in BOOLEAN /\ mounted' \in BOOLEAN /\ drops' \in 0 .. MaxDrops
    BY <1>1 DEF IInv, TypeOK
  <2> QED
    BY <1>1, <1>2, <1>4, <2>1, <2>2, RefetchIInv
<1>5. CASE /\ known # None /\ m = known + 1
           /\ cache' = IF cache = None THEN None ELSE cache \cup {m}
           /\ stale' = IF cache = None THEN stale ELSE FALSE
           /\ known' = m
           /\ UNCHANGED <<pages, fetch, owed, failed>>
  <2>1. /\ cache' # None => cache # None /\ cache' \in SUBSET (1 .. committed)
                             /\ Solid(cache') /\ Newest(cache') = known' /\ known' > known
        /\ cache' \in (SUBSET (1 .. committed)) \cup {None}
    <3>1. CASE cache = None
      BY <1>5, <3>1
    <3>2. CASE cache # None
      <4>1. cache' = cache \cup {known + 1} /\ known + 1 \in 1 .. committed /\ known' = known + 1
        BY <1>2, <1>5, <3>2
      <4>2. known \in Nat
        BY <1>5 DEF IInv, TypeOK
      <4> QED
        BY <3>2, <4>1, <4>2, PatchedPages
    <3> QED
      BY <3>1, <3>2
  <2>2. stale' \in BOOLEAN
    BY <1>5 DEF IInv, TypeOK
  <2>3. known' \in 0 .. committed
    BY <1>2, <1>5
  <2>4. TypeOK'
    BY <1>1, <1>2, <1>5, <2>1, <2>2, <2>3 DEF IInv, TypeOK, server
  <2>5. SolidInv' /\ KnownIsNewest' /\ FetchInv'
    BY <1>1, <1>5, <2>1 DEF IInv, SolidInv, KnownIsNewest, FetchInv
  <2>6. RefetchDelivers'
    <3>1. ASSUME cache' # None PROVE Newest(cache') > Newest(cache) /\ Newest(cache) \in Nat
      BY <1>2, <1>5, <2>1, <3>1 DEF IInv, TypeOK, KnownIsNewest
    <3> QED
      BY <1>1, <1>5, <2>1, <2>3, <3>1 DEF IInv, TypeOK, RefetchDelivers
  <2> QED
    BY <2>4, <2>5, <2>6 DEF IInv
<1> QED
  BY <1>3, <1>4, <1>5 DEF HandleUpdate

LEMMA InvStep == IInv /\ [Next]_vars => IInv'
<1> SUFFICES ASSUME IInv, [Next]_vars PROVE IInv'
  OBVIOUS
<1>0. TypeOK /\ committed \in Nat
  BY DEF IInv, TypeOK
<1>1. ASSUME NEW m \in unsent, Announce(m) PROVE IInv'
  <2>1. m \in 1 .. committed
    BY <1>0 DEF TypeOK
  <2>2. chan' \in Seq(1 .. committed)
    <3>1. chan \in Seq(1 .. committed) /\ Append(chan, m) \in Seq(1 .. committed)
      BY <1>0, <2>1 DEF TypeOK
    <3>2. chan' = Append(chan, m) \/ chan' = chan
      BY <1>1 DEF Announce
    <3> QED
      BY <3>1, <3>2
  <2>3. TypeOK'
    BY <1>0, <1>1, <2>2 DEF TypeOK, Announce, query
  <2> QED
    BY <1>1, <2>3, Others DEF Announce, query
<1>2. CASE Mount
  <2>1. chan' \in Seq(1 .. committed) /\ drops' \in 0 .. MaxDrops
    BY <1>0, <1>2 DEF TypeOK, Mount, socket
  <2>2. connected' \in BOOLEAN /\ mounted' \in BOOLEAN /\ stale' \in BOOLEAN
    BY <1>0, <1>2 DEF TypeOK, Mount, socket
  <2> QED
    BY <1>2, <2>1, <2>2, RefetchIInv DEF Mount
<1>3. CASE Unmount \/ Disconnect
  <2>1. chan' \in Seq(1 .. committed) /\ drops' \in 0 .. MaxDrops
    <3>1. CASE Unmount
      BY <1>0, <3>1 DEF TypeOK, Unmount, socket
    <3>2. CASE Disconnect
      <4>1. <<>> \in Seq(1 .. committed)
        OBVIOUS
      <4>2. drops + 1 \in 0 .. MaxDrops
        BY <1>0, <3>2, BoundsAssumption DEF TypeOK, Disconnect
      <4> QED
        BY <3>2, <4>1, <4>2 DEF Disconnect
    <3> QED
      BY <1>3, <3>1, <3>2
  <2>2. connected' \in BOOLEAN /\ mounted' \in BOOLEAN
    BY <1>0, <1>3 DEF TypeOK, Unmount, Disconnect, socket
  <2>3. UNCHANGED <<query, known, owed, failed, olders, server>>
    BY <1>3 DEF Unmount, Disconnect
  <2> QED
    BY <1>0, <2>1, <2>2, <2>3, RefetchIInv DEF query, TypeOK
<1>4. CASE Reconnect
  <2>1. chan' \in Seq(1 .. committed) /\ drops' \in 0 .. MaxDrops
    BY <1>0, <1>4 DEF TypeOK, Reconnect
  <2>2. connected' \in BOOLEAN /\ mounted' \in BOOLEAN /\ stale' \in BOOLEAN
    BY <1>0, <1>4 DEF TypeOK, Reconnect, Invalidate
  <2>3. StartRefetch \/ UNCHANGED <<fetch, owed, failed>>
    BY <1>4 DEF Reconnect, Invalidate
  <2> QED
    BY <1>4, <2>1, <2>2, <2>3, RefetchIInv DEF Reconnect
<1>5. CASE UNCHANGED vars
  BY <1>0, <1>5, RefetchIInv DEF vars, server, socket, query, TypeOK
<1> QED
  BY <1>1, <1>2, <1>3, <1>4, <1>5, CommitIInv, ReadIInv, RespondIInv, RespondFailsIInv,
     GarbageCollectIInv, LoadEarlierIInv, HandleUpdateIInv DEF Next

\* The invariant holds in every state of the specification.
LEMMA Invariance == Spec => []IInv
BY InitIInv, InvStep, PTL DEF Spec

\* The state is well typed: nothing is cached, on its way or owed to the tab that
\* the server has not stored.
THEOREM TypeCorrect == Spec => []TypeOK
<1>1. IInv => TypeOK
  BY DEF IInv
<1> QED
  BY Invariance, <1>1, PTL

\* The transcript on screen has no hole, for any page size and history (the
\* fast path's gap check and fetchNextPage's base, sync/engine.ts).
THEOREM TranscriptHasNoHole == Spec => []NoHole
<1>1. IInv => NoHole
  <2> SUFFICES ASSUME IInv, cache # None, NEW m \in Msgs, NEW a \in cache, NEW b \in cache,
                      a < m, m < b
               PROVE  m \in cache
    BY DEF NoHole
  <2>1. cache \subseteq Nat /\ m \in Nat
    BY DEF IInv, TypeOK, Msgs
  <2> QED
    BY <2>1 DEF IInv, SolidInv, Solid
<1> QED
  BY Invariance, <1>1, PTL

\* The engine's tracker agrees with the pages (the cache subscription of
\* sync/engine.ts).
THEOREM TrackerIsNewest == Spec => []KnownIsNewest
<1>1. IInv => KnownIsNewest
  BY DEF IInv
<1> QED
  BY Invariance, <1>1, PTL

\* What was stored when a gap or a reconnect was noticed is on screen once the
\* refetch has settled, whichever of the two queryFns it ran, unless it failed.
THEOREM SettledRefetch == Spec => []RefetchDelivers
<1>1. IInv => RefetchDelivers
  BY DEF IInv
<1> QED
  BY Invariance, <1>1, PTL

\* An announcement the pages lack is patched in or answered by a refetch (the
\* three branches of applyMessageFastPath, sync/engine.ts).
LEMMA UpdateNotDropped ==
  ASSUME IInv, [Next]_vars, chan # <<>>, chan' = Tail(chan), connected', cache # None
  PROVE  Newest(cache') >= Head(chan) \/ stale'
<1>1. committed \in Nat /\ chan \in Seq(1 .. committed) /\ Head(chan) \in 1 .. committed
  BY HeadTail DEF IInv, TypeOK
<1>2. Len(chan') = Len(chan) - 1 /\ Len(chan) \in Nat
  BY <1>1, HeadTail
<1>3. known = Newest(cache) /\ known \in 0 .. committed /\ known # None
  <2>1. known = Newest(cache) /\ cache \in SUBSET (1 .. committed)
    BY DEF IInv, KnownIsNewest, TypeOK
  <2> QED
    BY <1>1, <2>1, NewestOf, NoneAssumption
<1>4. HandleUpdate
  <2>1. ASSUME chan' = chan PROVE FALSE
    <3>1. Len(chan) = Len(chan) - 1
      BY <1>2, <2>1
    <3> QED
      BY <1>2, <3>1
  <2>2. ~ \E m \in unsent : Announce(m)
    <3>1. ASSUME NEW m \in unsent, chan' = Append(chan, m) PROVE FALSE
      <4>1. Len(chan') = Len(chan) + 1
        BY <1>1, <3>1
      <4> QED
        BY <1>2, <4>1
    <3> QED
      BY <2>1, <3>1 DEF Announce
  <2> QED
    BY <2>1, <2>2 DEF Next, Commit, Read, Respond, RespondFails, Mount, Unmount, GarbageCollect,
       LoadEarlier, Disconnect, Reconnect, vars, socket
<1>5. CASE Head(chan) <= known /\ UNCHANGED query
  BY <1>1, <1>3, <1>5 DEF query
<1>6. CASE Invalidate
  BY <1>6 DEF Invalidate
<1>7. CASE cache' = cache \cup {Head(chan)} /\ Head(chan) = known + 1
  <2>1. cache' = cache \cup {known + 1} /\ known + 1 \in 1 .. committed
    BY <1>1, <1>7
  <2>2. Newest(cache') = known + 1
    BY <2>1, PatchedPages
  <2> QED
    BY <1>1, <1>7, <2>2
<1> QED
  BY <1>3, <1>4, <1>5, <1>6, <1>7 DEF HandleUpdate

\* No announcement is dropped while the pages lack its message.
THEOREM AnnouncementsCount == Spec => NoSilentDrop
<1>1. IInv /\ [Next]_vars =>
        [chan # <<>> /\ chan' = Tail(chan) /\ connected' /\ cache # None =>
           Newest(cache') >= Head(chan) \/ stale']_vars
  BY UpdateNotDropped
<1> QED
  BY Invariance, <1>1, PTL DEF Spec, NoSilentDrop
=============================================================================
