------------------------------ MODULE Realtime ------------------------------
(***************************************************************************)
(* Realtime: a row (a product, an auction) that transactions change, the   *)
(* workers that tell sockets about it (RealtimeProcessor), and a page that *)
(* shows it (useProductRealtime, useAuctionRealtime, RealtimeProvider).    *)
(*                                                                         *)
(* An event is a signal: the worker reads the row again and emits what it  *)
(* reads, to the sockets that are in the row's room by then. The page      *)
(* merges it by updatedAt, which is the time at which the transaction      *)
(* began. What the page fetches it takes as it is.                         *)
(***************************************************************************)
EXTENDS Naturals, FiniteSets

CONSTANTS
    RowWriters,     \* transactions that may be open on the row
    RtWorkers,      \* workers of the realtime queue
    MaxChanges,     \* transactions (a bound)
    MaxDrops,       \* connections lost (a bound)
    None            \* nothing

VARIABLES
    polled,         \* the page has a refetchInterval: that of an auction, not of a product
    row,            \* the row: which change it is of, and its updatedAt
    begun,          \* the transactions that have begun, and when
    clock,          \* transactions begun so far
    updates,        \* the events that are not processed
    rtWorker,       \* the event and the row that a worker has read
    socket,         \* the connection: "down", "up", or "refused"
    expired,        \* whether the access token that the socket connects with is
    joining,        \* a subscribe message is on its way
    joined,         \* the socket is in the room
    wire,           \* what was emitted to the socket and has not arrived
    drops,          \* connections lost so far
    copy,           \* the row as the page has it
    pageFetch,      \* the request that the page waits for
    cached,         \* the row as CatalogCache has it
    connectedOnce,  \* hasConnected of RealtimeProvider
    gap             \* the page may have missed a change (see QuietPageIsCurrent)

realtimeVars ==
    <<polled, row, begun, clock, updates, rtWorker, socket, expired, joining, joined, wire,
      drops, copy, pageFetch, cached, connectedOnce, gap>>
server == <<polled, row, begun, clock, updates, rtWorker>>
connection == <<socket, expired, joining, joined, drops, connectedOnce>>
page == <<copy, pageFetch, cached>>

Snapshots == [change : 0..MaxChanges, updatedAt : 0..MaxChanges]
NoWork == [event |-> None, read |-> None]
Asked == [asked |-> TRUE]

ASSUME RealtimeShape ==
    /\ MaxChanges \in Nat /\ MaxDrops \in Nat
    /\ None \notin Nat \cup [change : Nat, updatedAt : Nat] \cup {Asked}

RealtimeTypeOK ==
    /\ polled \in BOOLEAN
    /\ row \in Snapshots
    /\ \A w \in RowWriters : begun[w] \in 1..MaxChanges \cup {None}
    /\ clock \in 0..MaxChanges
    /\ updates \subseteq 1..MaxChanges
    /\ \A w \in RtWorkers : rtWorker[w].read \in Snapshots \cup {None}
    /\ socket \in {"down", "up", "refused"}
    /\ {expired, joining, joined, connectedOnce, gap} \subseteq BOOLEAN
    /\ wire \subseteq Snapshots
    /\ copy \in Snapshots \cup {None}
    /\ pageFetch \in Snapshots \cup {None, Asked}
    /\ cached \in Snapshots \cup {None}

\* The page is opened: it fetches the row, and the socket is connecting.
RealtimeInit ==
    /\ polled \in BOOLEAN
    /\ row = [change |-> 0, updatedAt |-> 0]
    /\ begun = [w \in RowWriters |-> None]
    /\ clock = 0
    /\ updates = {}
    /\ rtWorker = [w \in RtWorkers |-> NoWork]
    /\ socket = "down"
    /\ expired = FALSE
    /\ joining = FALSE
    /\ joined = FALSE
    /\ wire = {}
    /\ drops = 0
    /\ copy = None
    /\ pageFetch = Asked
    /\ cached \in IF polled THEN {None} ELSE {None, row}
    /\ connectedOnce = FALSE
    /\ gap = TRUE

---------------------------------------------------------------------------
(* The row.                                                                *)

BeginChange(w) ==
    /\ begun[w] = None
    /\ clock < MaxChanges
    /\ clock' = clock + 1
    /\ begun' = [begun EXCEPT ![w] = clock + 1]
    /\ UNCHANGED <<polled, row, updates, rtWorker, connection, wire, page, gap>>

\* The row's lock orders the commits, and updatedAt is CURRENT_TIMESTAMP, when
\* the transaction began: a commit may be older than the one before it. The
\* event is committed with the row, and is enqueued after. Those of an auction
\* that its seller edits or cancels are not among AUCTION_EVENT_NAMES: their job
\* ends without reading or emitting anything.
CommitChange(w) ==
    \E announced \in IF polled THEN BOOLEAN ELSE {TRUE} :
        /\ begun[w] # None
        /\ row' = [change |-> row.change + 1, updatedAt |-> begun[w]]
        /\ begun' = [begun EXCEPT ![w] = None]
        /\ updates' = IF announced THEN updates \cup {row.change + 1} ELSE updates
        /\ gap' = (gap \/ ~announced \/ begun[w] < row.updatedAt)
        /\ UNCHANGED <<polled, clock, rtWorker, connection, wire, page>>

---------------------------------------------------------------------------
(* RealtimeProcessor.                                                      *)

\* dispatch: the row is read, whatever the event was of those that it knows.
ReadRow(w, event) ==
    /\ rtWorker[w] = NoWork
    /\ event \in updates
    /\ rtWorker' = [rtWorker EXCEPT ![w] = [event |-> event, read |-> row]]
    /\ UNCHANGED <<polled, row, begun, clock, updates, connection, wire, page, gap>>

\* emitToRooms, and markProcessed unless the process dies before it. A socket
\* that is not in the room by now gets nothing.
EmitRow(w) ==
    /\ rtWorker[w] # NoWork
    /\ wire' = IF joined THEN wire \cup {rtWorker[w].read} ELSE wire
    /\ gap' = (gap \/ ~joined)
    /\ rtWorker' = [rtWorker EXCEPT ![w] = NoWork]
    /\ updates' \in {updates, updates \ {rtWorker[w].event}}
    /\ UNCHANGED <<polled, row, begun, clock, connection, page>>

\* The emission throws or the process dies: the job is retried.
FailUpdate(w) ==
    /\ rtWorker[w] # NoWork
    /\ rtWorker' = [rtWorker EXCEPT ![w] = NoWork]
    /\ UNCHANGED <<polled, row, begun, clock, updates, connection, wire, page, gap>>

---------------------------------------------------------------------------
(* The socket.                                                             *)

\* resyncAuthoritativeState, on every connection after the first: an active
\* query is fetched again. A request that is under way is abandoned, unless it
\* is the first one: that is joined.
Resync ==
    pageFetch' = IF connectedOnce /\ (copy # None \/ pageFetch = None) THEN Asked ELSE pageFetch

\* The hooks subscribe whenever the socket connects.
Subscribe == joining' = TRUE

\* authenticate refuses an expired token, and the client does not try again by
\* itself; a missing one is let in as the public.
Connect ==
    /\ socket = "down"
    /\ IF expired
       THEN /\ socket' = "refused"
            /\ UNCHANGED <<joining, pageFetch, connectedOnce>>
       ELSE /\ socket' = "up"
            /\ connectedOnce' = TRUE
            /\ Subscribe
            /\ Resync
    /\ UNCHANGED <<server, expired, joined, wire, drops, copy, cached, gap>>

\* subscribeProduct, subscribeAuction
Join ==
    /\ joining
    /\ joined' = TRUE
    /\ joining' = FALSE
    /\ UNCHANGED <<server, socket, expired, wire, drops, connectedOnce, page, gap>>

\* The connection is closed: what was on its way, and the room, are lost.
Disconnected ==
    /\ socket' = "down"
    /\ joining' = FALSE
    /\ joined' = FALSE
    /\ wire' = {}
    /\ gap' = (gap \/ wire # {})

Drop ==
    /\ socket = "up"
    /\ drops < MaxDrops
    /\ drops' = drops + 1
    /\ Disconnected
    /\ UNCHANGED <<server, expired, connectedOnce, page>>

ExpireSocketToken ==
    /\ ~expired
    /\ expired' = TRUE
    /\ UNCHANGED <<server, socket, joining, joined, drops, connectedOnce, wire, page, gap>>

\* subscribeAccessToken: a new token connects the socket again.
ReconnectRealtimeSocket ==
    /\ expired
    /\ expired' = FALSE
    /\ Disconnected
    /\ UNCHANGED <<server, drops, connectedOnce, page>>

---------------------------------------------------------------------------
(* The page.                                                               *)

\* Mutant: what is emitted is taken as it is.
Merge_Any(current, event) == IF current = None THEN None ELSE event

\* onStock, onAuctionUpdate: a copy that is newer by updatedAt is kept.
Merge(current, event) ==
    IF current = None \/ current.updatedAt > event.updatedAt THEN current ELSE event

Receive(event) ==
    /\ event \in wire
    /\ wire' = wire \ {event}
    /\ copy' = Merge(copy, event)
    /\ gap' = (gap \/ pageFetch # None)     \* the answer will replace it
    /\ UNCHANGED <<server, connection, pageFetch, cached>>

\* Mutant: the page has no refetchInterval.
Poll_Never == FALSE /\ UNCHANGED realtimeVars

\* refetchInterval
Poll ==
    /\ polled
    /\ pageFetch = None
    /\ pageFetch' = Asked
    /\ UNCHANGED <<server, connection, wire, copy, cached, gap>>

\* Nothing is left of a change that the page was not told of: a snapshot that is
\* read now is followed by every later one.
Covered == joined /\ wire = {} /\ \A w \in RtWorkers : rtWorker[w] = NoWork

\* The answer is the row, or, for a product, what the cache has of it.
GetRow ==
    /\ pageFetch = Asked
    /\ \/ /\ pageFetch' = row
          /\ gap' = ~Covered
          /\ cached' \in IF polled THEN {None} ELSE {None, row}
       \/ /\ ~polled /\ cached # None
          /\ pageFetch' = cached
          /\ gap' = (gap \/ cached # row)
          /\ UNCHANGED cached
    /\ UNCHANGED <<server, connection, wire, copy>>

ReceiveRow ==
    /\ pageFetch \notin {None, Asked}
    /\ copy' = pageFetch
    /\ pageFetch' = None
    /\ UNCHANGED <<server, connection, wire, cached, gap>>

\* The request fails. The page keeps what it had.
FailPageFetch ==
    /\ pageFetch # None
    /\ pageFetch' = None
    /\ gap' = TRUE
    /\ UNCHANGED <<server, connection, wire, copy, cached>>

\* The entry of the cache expires or is deleted.
EvictCached ==
    /\ cached # None
    /\ cached' = None
    /\ UNCHANGED <<server, connection, wire, copy, pageFetch, gap>>

RealtimeNext ==
    \/ \E w \in RowWriters : BeginChange(w) \/ CommitChange(w)
    \/ \E w \in RtWorkers :
        EmitRow(w) \/ FailUpdate(w) \/ \E event \in updates : ReadRow(w, event)
    \/ Connect \/ Join \/ Drop \/ ExpireSocketToken \/ ReconnectRealtimeSocket
    \/ \E event \in wire : Receive(event)
    \/ Poll \/ GetRow \/ ReceiveRow \/ FailPageFetch \/ EvictCached

\* What has been emitted arrives, a worker is served, an open transaction ends,
\* and the interval of the page goes on: a request that is repeated without end
\* is answered at some time. Nothing is assumed of the socket.
RealtimeFairness ==
    /\ \A w \in RowWriters : WF_realtimeVars(CommitChange(w))
    /\ \A w \in RtWorkers : WF_realtimeVars(EmitRow(w))
    /\ WF_realtimeVars(\E event \in wire : Receive(event))
    /\ WF_realtimeVars(Poll)
    /\ SF_realtimeVars(GetRow)
    /\ SF_realtimeVars(ReceiveRow)

RealtimeSpec == RealtimeInit /\ [][RealtimeNext]_realtimeVars /\ RealtimeFairness

---------------------------------------------------------------------------
(* Properties.                                                             *)

Quiet ==
    /\ pageFetch = None /\ wire = {} /\ updates = {}
    /\ \A w \in RtWorkers : rtWorker[w] = NoWork

\* A page that nothing is on its way to shows the last change, also when events
\* were emitted twice or out of order, and after the connection was lost and
\* came back. What may go wrong is what sets gap: an event was emitted while
\* the socket was not in the room, or lost with the connection, and nothing
\* was fetched since; it arrived before the answer of an older fetch; the
\* answer came from the cache; the change was committed by a transaction
\* that began before the one that it follows; or nobody announces it: the
\* seller edited the auction, or it was cancelled.
QuietPageIsCurrent == Quiet /\ copy # None /\ ~gap => copy = row

\* The page of an auction comes to show the auction as it is and stays so,
\* whatever its socket misses, refuses or delivers late.
AuctionPanelCatchesUp == polled => <>[](copy = row)
=============================================================================
