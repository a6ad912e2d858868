---------------------------- MODULE BackendEvents ----------------------------
(***************************************************************************)
(* The backend: build (or run) events stored by several replicas in one    *)
(* database, the answers a replica caches, and a session that pages through*)
(* the stored events.                                                      *)
(*                                                                         *)
(* The events are of one student and one assignment, so every query selects*)
(* them all.  Requests are transactions in PostgreSQL: an insert that meets*)
(* the event id of an uncommitted row waits for that transaction.  Replicas*)
(* share nothing but the database.  The cache is the one of the Observed   *)
(* replica; at the other ones requests only write.                         *)
(***************************************************************************)
EXTENDS Integers, Sequences, FiniteSets, SequencesExt

CONSTANTS
    Events,         \* event ids, numbered in the order of the spool
    OccurredAt,     \* when each one occurred
    Writers,        \* threads that serve POSTs
    Readers,        \* threads of the observed replica that serve GETs
    Replicas, Observed,
    Queries,        \* keys a client may ask for
    OwnNames,       \* those with the class and homework the events carry
    TTL,            \* of a cache entry
    MaxEntries,     \* CACHE_MAX_ENTRIES
    PageLimit,      \* limit of the paging session and of every query
    MaxTime,        \* bound on the clock
    MaxRead,        \* bound on the ticks a query takes
    MaxRequests,    \* bound on POSTs
    MaxFailures     \* bound on failed requests and crashes

ASSUME BackendEventsAssumption ==
    /\ Events \subseteq Nat /\ IsFiniteSet(Events)
    /\ OccurredAt \in [Events -> Nat]
    /\ Observed \in Replicas /\ OwnNames \subseteq Queries
    /\ "committed" \notin Writers
    /\ {TTL, MaxEntries, PageLimit} \subseteq Nat \ {0}
    /\ {MaxTime, MaxRead, MaxRequests, MaxFailures} \subseteq Nat

VARIABLES
    now,        \* time.monotonic()
    rows,       \* the table: committed and uncommitted rows
    tx,         \* tx[w]: the request thread w serves
    requests,   \* POSTs so far
    cache,      \* BoundedTTLCache: entries, least recently used first
    reads,      \* reads[r]: the query reader r is busy with
    page,       \* the paging session
    failures,
    client,     \* "pages" or "asks": what the client of this behaviour does
    \* history
    acked       \* events a batch request at the observed replica acknowledged

vars == <<now, rows, tx, requests, cache, reads, page, failures, client, acked>>

Committed == {row \in rows : row.by = "committed"}
Of(e) == {row \in rows : row.event = e}

\* Rows have ids in the order of their insertion, which is not that of commits.
NextId == 1 + Max({0} \cup {row.id : row \in rows})

Idle == [state |-> "idle", kind |-> "batch", batch |-> <<>>, i |-> 1,
         replica |-> Observed, inserted |-> FALSE]
NoRead == [query |-> "none", value |-> {}, asof |-> 0]
NoPage == [state |-> "none", got |-> <<>>, present |-> {}]

Init ==
    /\ now = 0
    /\ rows = {}
    /\ tx = [w \in Writers |-> Idle]
    /\ requests = 0
    /\ cache = <<>>
    /\ reads = [r \in Readers |-> NoRead]
    /\ page = NoPage
    /\ failures = 0
    /\ client \in {"pages", "asks"}
    /\ acked = {}

Fail == failures < MaxFailures /\ failures' = failures + 1

\* A behaviour shows the paging session or the cached queries: neither changes
\* what the other one reads.
Pages == client = "pages" /\ UNCHANGED client
Asks == client = "asks" /\ UNCHANGED client
-----------------------------------------------------------------------------
(***************************************************************************)
(* POST /events/batch, /events/build and /events/run.                      *)
(***************************************************************************)

\* Faulty variant: the collector sends its events in any order.
BatchesInAnyOrder ==
    {s \in SeqOf(Events, Cardinality(Events)) : s # <<>> /\ IsInjective(s)}

\* The collector takes due events ORDER BY created_at, event_id.
Batches ==
    {s \in SeqOf(Events, Cardinality(Events)) :
        s # <<>> /\ \A i, j \in DOMAIN s : i < j => s[i] < s[j]}

Receive(w) ==
    /\ tx[w].state = "idle"
    /\ requests < MaxRequests
    /\ requests' = requests + 1
    /\ \E kind \in {"batch", "single"}, batch \in Batches, replica \in Replicas :
        /\ kind = "single" => Len(batch) = 1
        /\ tx' = [tx EXCEPT ![w] = [Idle EXCEPT !.state = "insert", !.kind = kind,
                                    !.batch = batch, !.replica = replica]]
    /\ UNCHANGED <<now, rows, cache, reads, page, failures, client, acked>>

Event(w) == tx[w].batch[tx[w].i]

\* w waits for v: they insert the same event id.
WaitsFor(w, v) ==
    /\ tx[w].state = "insert" /\ tx[w].i <= Len(tx[w].batch)
    /\ \E row \in Of(Event(w)) : row.by = v
    /\ v \in Writers \ {w}

\* INSERT .. ON CONFLICT (event_id) DO NOTHING.
Insert(w) ==
    /\ tx[w].state = "insert" /\ tx[w].i <= Len(tx[w].batch)
    /\ \A v \in Writers : ~WaitsFor(w, v)
    /\ LET new == Of(Event(w)) = {}
       IN  /\ rows' = IF new
                      THEN rows \cup {[event |-> Event(w), id |-> NextId, by |-> w,
                                       since |-> 0]}
                      ELSE rows
           /\ tx' = [tx EXCEPT ![w].i = @ + 1, ![w].inserted = @ \/ new]
    /\ UNCHANGED <<now, requests, cache, reads, page, failures, client, acked>>

Mine(w) == {row \in rows : row.by = w}

Commit(w) ==
    /\ tx[w].state = "insert" /\ tx[w].i > Len(tx[w].batch)
    /\ rows' = (rows \ Mine(w))
                  \cup {[row EXCEPT !.by = "committed", !.since = now] : row \in Mine(w)}
    /\ tx' = [tx EXCEPT ![w].state = "committed"]
    /\ UNCHANGED <<now, requests, cache, reads, page, failures, client, acked>>

\* The entries of s that are in S, in their order.
Keep(s, S) ==
    LET kept[i \in 0..Len(s)] ==
            IF i = 0 THEN <<>>
            ELSE IF s[i] \in S THEN Append(kept[i - 1], s[i]) ELSE kept[i - 1]
    IN  kept[Len(s)]

DropNames(entries) == Keep(entries, {e \in Range(entries) : e.query \notin OwnNames})

\* Faulty variant: a batch, too, invalidates only what it has inserted.
InvalidateInserted(w) ==
    /\ tx[w].state = "committed"
    /\ cache' = IF tx[w].replica = Observed /\ tx[w].inserted
                THEN DropNames(cache) ELSE cache
    /\ acked' = IF tx[w].replica = Observed /\ tx[w].kind = "batch"
                THEN acked \cup Range(tx[w].batch) ELSE acked
    /\ tx' = [tx EXCEPT ![w] = Idle]
    /\ UNCHANGED <<now, rows, requests, reads, page, failures, client>>

\* invalidate_log_cache and the answer: a batch always invalidates, a single
\* event when it was inserted.
Invalidate(w) ==
    /\ tx[w].state = "committed"
    /\ cache' = IF tx[w].replica = Observed /\ (tx[w].kind = "batch" \/ tx[w].inserted)
                THEN DropNames(cache) ELSE cache
    /\ acked' = IF tx[w].replica = Observed /\ tx[w].kind = "batch"
                THEN acked \cup Range(tx[w].batch) ELSE acked
    /\ tx' = [tx EXCEPT ![w] = Idle]
    /\ UNCHANGED <<now, rows, requests, reads, page, failures, client>>

\* Faulty variant: the error is logged, and the request goes on.
RequestFailsQuietly(w) ==
    /\ tx[w].state # "idle"
    /\ Fail
    /\ rows' = rows \ Mine(w)
    /\ tx' = [tx EXCEPT ![w].state = "committed"]
    /\ UNCHANGED <<now, requests, cache, reads, page, client, acked>>

\* An exception: rollback, and no acknowledgement.  After the commit, it is the
\* connection that broke before its answer came.
RequestFails(w) ==
    /\ tx[w].state # "idle"
    /\ Fail
    /\ rows' = rows \ Mine(w)
    /\ tx' = [tx EXCEPT ![w] = Idle]
    /\ UNCHANGED <<now, requests, cache, reads, page, client, acked>>

\* The observed replica dies with its cache; PostgreSQL rolls back.
Crash ==
    /\ Fail
    /\ LET there == {w \in Writers : tx[w].replica = Observed}
       IN  /\ rows' = {row \in rows : row.by \notin there}
           /\ tx' = [w \in Writers |-> IF w \in there THEN Idle ELSE tx[w]]
    /\ cache' = <<>>
    /\ reads' = [r \in Readers |-> NoRead]
    /\ acked' = {}
    /\ UNCHANGED <<now, requests, page, client>>
-----------------------------------------------------------------------------
(***************************************************************************)
(* The queries.                                                            *)
(***************************************************************************)

\* ORDER BY occurred_at DESC, id DESC.
Before(r, s) ==
    \/ OccurredAt[r.event] > OccurredAt[s.event]
    \/ OccurredAt[r.event] = OccurredAt[s.event] /\ r.id > s.id

\* Faulty variant: rows of the cursor's time are taken for seen.
AfterTime(c) ==
    {row \in Committed : OccurredAt[row.event] < OccurredAt[c.event]}

\* event_cursor_predicate.
AfterCursor(c) ==
    {row \in Committed :
        \/ OccurredAt[row.event] < OccurredAt[c.event]
        \/ OccurredAt[row.event] = OccurredAt[c.event] /\ row.id < c.id}

\* The first PageLimit rows.  Each query asks for one row more, to see whether
\* there are more.
PageOf(S) == {row \in S : Cardinality({s \in S : Before(s, row)}) < PageLimit}
HasMore(S) == Cardinality(S) > PageLimit

FirstPage == PageOf(Committed)

\* The last row of a page.
Cursor(rs) == CHOOSE c \in rs : \A s \in rs : s = c \/ Before(s, c)

\* The paging session of a client, over the queries that are not cached.
OpenPages ==
    /\ Pages
    /\ page.state = "none"
    /\ page' = [NoPage EXCEPT !.state = "open", !.present = Committed]
    /\ UNCHANGED <<now, rows, tx, requests, cache, reads, failures, acked>>

NextPage ==
    /\ Pages
    /\ page.state = "open"
    /\ LET S == IF page.got = <<>> THEN Committed ELSE AfterCursor(Cursor(Last(page.got)))
       IN  page' = [page EXCEPT !.got = Append(@, PageOf(S)),
                                !.state = IF HasMore(S) THEN "open" ELSE "done"]
    /\ UNCHANGED <<now, rows, tx, requests, cache, reads, failures, acked>>
-----------------------------------------------------------------------------
(***************************************************************************)
(* The cached queries, of the observed replica.                            *)
(***************************************************************************)

Live(e) == e.expires > now
Without(q) == Keep(cache, {e \in Range(cache) : e.query # q})
Purged(entries) == Keep(entries, {e \in Range(entries) : Live(e)})

\* Faulty variant: an entry that is asked for is good for another TTL.
HitAndRenew(q) ==
    /\ Asks
    /\ \E e \in Range(cache) :
        /\ e.query = q
        /\ cache' = Append(Without(q), [e EXCEPT !.expires = now + TTL])
    /\ UNCHANGED <<now, rows, tx, requests, reads, page, failures, acked>>

\* get: the entry becomes the most recently used one.
Hit(q) ==
    /\ Asks
    /\ \E e \in Range(cache) :
        /\ e.query = q /\ Live(e)
        /\ cache' = Append(Without(q), e)
    /\ UNCHANGED <<now, rows, tx, requests, reads, page, failures, acked>>

\* get finds nothing, or an entry that has expired and is removed; the rows are
\* read from the database.
Read(r, q) ==
    /\ Asks
    /\ reads[r] = NoRead
    /\ \A e \in Range(cache) : e.query = q => ~Live(e)
    /\ cache' = Without(q)
    /\ reads' = [reads EXCEPT ![r] = [query |-> q, asof |-> now,
                                      value |-> {row.event : row \in FirstPage}]]
    /\ UNCHANGED <<now, rows, tx, requests, page, failures, acked>>

\* set: expired entries go, the new one is the last, and the first one goes when
\* the cache is beyond its bound.
Store(r) ==
    /\ Asks
    /\ reads[r] # NoRead
    /\ LET e == [query |-> reads[r].query, value |-> reads[r].value,
                 expires |-> now + TTL, acked |-> acked]
           full == Append(Purged(Without(reads[r].query)), e)
       IN  cache' = IF Len(full) > MaxEntries THEN Tail(full) ELSE full
    /\ reads' = [reads EXCEPT ![r] = NoRead]
    /\ UNCHANGED <<now, rows, tx, requests, page, failures, acked>>

Tick ==
    /\ Asks
    /\ now < MaxTime
    /\ \A r \in Readers : reads[r] # NoRead => now - reads[r].asof < MaxRead
    /\ now' = now + 1
    /\ UNCHANGED <<rows, tx, requests, cache, reads, page, failures, acked>>

Next ==
    \/ \E w \in Writers : Receive(w) \/ Insert(w) \/ Commit(w) \/ Invalidate(w)
                          \/ RequestFails(w)
    \/ Crash
    \/ \E q \in Queries : Hit(q)
    \/ \E r \in Readers : Store(r) \/ \E q \in Queries : Read(r, q)
    \/ OpenPages \/ NextPage
    \/ Tick

Spec == Init /\ [][Next]_vars
-----------------------------------------------------------------------------
Times == 0..MaxTime

Row == [event : Events, id : Nat \ {0}, by : Writers \cup {"committed"}, since : Times]
Request == [state : {"idle", "insert", "committed"}, kind : {"batch", "single"},
            batch : {<<>>} \cup Batches, i : 1..(Cardinality(Events) + 1),
            replica : Replicas, inserted : BOOLEAN]
Entry == [query : Queries, value : SUBSET Events, expires : Nat, acked : SUBSET Events]
Query == [query : Queries \cup {"none"}, value : SUBSET Events, asof : Times]

\* The values each variable ranges over; an event has one row at most, and a key
\* one entry.
TypeOK ==
    /\ now \in Times
    /\ rows \subseteq Row
    /\ \A r, s \in rows : r.event = s.event \/ r.id = s.id => r = s
    /\ tx \in [Writers -> Request]
    /\ requests \in 0..MaxRequests
    /\ cache \in Seq(Entry)
    /\ Len(cache) <= MaxEntries
    /\ \A i, j \in 1..Len(cache) : cache[i].query = cache[j].query => i = j
    /\ reads \in [Readers -> Query]
    /\ page \in [state : {"none", "open", "done"}, got : Seq(SUBSET Committed),
                 present : SUBSET Committed]
    /\ failures \in 0..MaxFailures /\ client \in {"pages", "asks"}
    /\ acked \subseteq Events

\* An acknowledged event is stored for good: the collector has deleted it.
AckedIsStored == acked \subseteq {row.event : row \in Committed}

\* A row that is not committed is its request's own, inserted for the part of the
\* batch that is done; that part is in the table, the request's or committed.
RequestOK(w) ==
    LET t == tx[w]
    IN  t.state # "idle" =>
            /\ t.batch \in Batches /\ t.i <= Len(t.batch) + 1
            /\ \A k \in 1..(t.i - 1) : \E row \in Of(t.batch[k]) : row.by \in {w, "committed"}
            /\ t.state = "committed" => t.i = Len(t.batch) + 1
OpenRowOK(row) ==
    row.by # "committed" =>
        LET t == tx[row.by]
        IN  t.state = "insert" /\ \E k \in 1..(t.i - 1) : t.batch[k] = row.event
RequestsInv ==
    /\ \A w \in Writers : RequestOK(w)
    /\ \A row \in rows : OpenRowOK(row)

\* What an answer of age `asof` misses was committed later.
Misses(value, asof) == \A row \in FirstPage : row.event \in value \/ row.since >= asof
EntryOK(e) == e.expires <= now + TTL /\ Misses(e.value, e.expires - TTL - MaxRead)
ReadOK(r) ==
    reads[r] # NoRead =>
        /\ reads[r].query \in Queries
        /\ reads[r].asof <= now /\ now - reads[r].asof <= MaxRead
        /\ Misses(reads[r].value, reads[r].asof)
AnswersInv ==
    /\ \A e \in Range(cache) : EntryOK(e)
    /\ \A r \in Readers : ReadOK(r)

\* The rows that were there when the client began and that it has not met lie
\* beyond its cursor.
SessionInv ==
    page.state = "open" /\ page.got # <<>> =>
        /\ Last(page.got) # {}
        /\ \A row \in page.present :
              row \in UNION Range(page.got) \/ Before(Cursor(Last(page.got)), row)

\* Together: the table, the open requests, the cache and the session fit.
BackendInv ==
    /\ TypeOK /\ AckedIsStored
    /\ RequestsInv /\ AnswersInv /\ SessionInv

\* No ring of requests that wait for one another: also a retry that overtakes
\* the request it repeats takes the locks in the same order.
NoWaitCycle ==
    ~\E S \in (SUBSET Writers) \ {{}} : \A w \in S : \E v \in S : WaitsFor(w, v)

\* An answer from the cache misses no event that was stored longer ago than the
\* entry may live and a query may take: whoever stored it, at whichever replica,
\* and under whatever name it was asked for.
StaleForTTL ==
    \A e \in Range(cache) : Live(e) =>
        \A row \in FirstPage : row.event \in e.value \/ now - row.since < TTL + MaxRead

\* An answer under the events' own names misses no event that this replica has
\* acknowledged since the answer was cached.
InvalidatedByAck ==
    \A e \in Range(cache) : Live(e) /\ e.query \in OwnNames =>
        \A row \in FirstPage : row.event \in acked => row.event \in e.value \cup e.acked

\* A client that follows the cursors meets its rows newest first and each once,
\* and all that were there when it began, whatever is stored meanwhile.
PagingIsExact ==
    /\ \A i, j \in 1..Len(page.got) :
          i < j => \A r \in page.got[i], s \in page.got[j] : Before(r, s)
    /\ page.state = "done" => page.present \subseteq UNION Range(page.got)
===============================================================================
