-------------------------------- MODULE Feed --------------------------------
(***************************************************************************)
(* The market-data feed: PolymarketWS keeps one connection per chunk of    *)
(* the tracked assets (pm/ingestion/ws_polymarket.py), applies what it     *)
(* receives to the in-memory books (pm/core/books.py), and a               *)
(* reconciliation pass (pm/ingestion/rest_recon.py) compares the books     *)
(* with what the exchange answers over REST.                               *)
(*                                                                         *)
(* The exchange is external: it answers a subscription with a snapshot of  *)
(* every asset and sends each later change of these assets once, in order, *)
(* as a change of one level or as a new snapshot.  A connection may close  *)
(* or break at any time, and what was under way on it is lost.             *)
(*                                                                         *)
(* Abstractions.  A book is one side: levels with a size, the highest      *)
(* level that has one is the best.  Two best prices that differ differ by  *)
(* more than the drift threshold.  An asset is a number, so that chunks    *)
(* of the sorted assets are intervals of ranks.                            *)
(***************************************************************************)
EXTENDS Integers, Sequences, FiniteSets, SequencesExt

CONSTANTS
    Asset,       \* CLOB tokens: a set of integers
    Level,       \* prices: a set of naturals above 0
    Universes,   \* the sets of assets metadata_sync may ask to track
    PerConn,     \* assets_per_conn
    SampleSize,  \* SAMPLE_SIZE
    MaxChanges,  \* bound of the model: changes on the exchange
    MaxDrops,    \* bound of the model: connections that close or break
    MaxRaises,   \* bound of the model: ws_disconnected events that meet a full queue
    MaxSyncs     \* bound of the model: calls of set_assets()

Book == [Level -> {0, 1}]
Empty == [l \in Level |-> 0]
NoBook == [l \in {} |-> 0]

ASSUME FeedAssumption ==
    /\ Asset \subseteq Int /\ IsFiniteSet(Asset)
    /\ Level \subseteq Nat \ {0} /\ Level # {}
    /\ Universes \subseteq SUBSET Asset
    /\ PerConn \in Nat \ {0}
    /\ SampleSize \in Nat \ {0}
    /\ {MaxChanges, MaxDrops, MaxRaises, MaxSyncs} \subseteq Nat

VARIABLES
    server,     \* the books of the exchange
    books,      \* the BookStore
    assets,     \* _assets
    conn,       \* per chunk: where its task is, and the messages under way to it
    connected,  \* connected_chunks
    rpc,        \* where the reconciliation pass is
    sample,     \* the assets it compares
    payload,    \* the REST answers it has
    drifted,    \* history: assets the last pass reported a drift for
    changes, drops, raises, syncs

feed == <<books, assets, conn, connected>>
recon == <<rpc, sample, payload, drifted>>
budget == <<changes, drops, raises, syncs>>
vars == <<server, books, assets, conn, connected, rpc, sample, payload, drifted,
          changes, drops, raises, syncs>>

Rank(set, a) == Cardinality({b \in set : b < a})

\* The chunk, from 0, an asset of a universe falls into, and the assets of a chunk.
ChunkOf(set, a) == Rank(set, a) \div PerConn
Chunk(k) == {a \in assets : ChunkOf(assets, a) = k}

Chunks == 0 .. Cardinality(Asset) - 1

Down == [state |-> "none", wire |-> <<>>]
Starting == [state |-> "connecting", wire |-> <<>>]

Message == [type : {"book", "price_change"}, asset : Asset,
            levels : UNION {[L -> {0, 1}] : L \in SUBSET Level}]

Snapshot(a, book) == [type |-> "book", asset |-> a, levels |-> book]
Change(a, l, size) == [type |-> "price_change", asset |-> a, levels |-> [x \in {l} |-> size]]

\* A bug for BookCurrent to find: a snapshot only adds levels to the book.
ApplyMerging(book, msg) ==
    [l \in Level |-> IF l \in DOMAIN msg.levels /\ (msg.type = "book" => msg.levels[l] > 0)
                     THEN msg.levels[l]
                     ELSE IF l \in DOMAIN book THEN book[l] ELSE 0]

\* handle_ws_message(): a snapshot replaces the book, a change sets the size of one level.
\* The first message of an asset creates its book.
Apply(book, msg) ==
    [l \in Level |-> IF l \in DOMAIN msg.levels THEN msg.levels[l]
                     ELSE IF l \in DOMAIN book THEN book[l] ELSE 0]

\* best_bid(): 0 is None.
Best(book) == Max({l \in DOMAIN book : book[l] > 0} \cup {0})

----------------------------------------------------------------------------

Init ==
    /\ \E book \in Book : server = [a \in Asset |-> book]
    /\ books = [a \in Asset |-> NoBook]
    /\ assets = {}
    /\ conn = [k \in Chunks |-> Down]
    /\ connected = {}
    /\ rpc = "idle"
    /\ sample = {}
    /\ payload = [a \in Asset |-> NoBook]
    /\ drifted = {}
    /\ changes = 0
    /\ drops = 0
    /\ raises = 0
    /\ syncs = 0

(***************************************************************************)
(* The exchange.                                                           *)
(***************************************************************************)

\* A level changes; whoever has subscribed to the asset is told, by a change or, after a
\* trade, by a snapshot.
ExchangeMoves(a, l, size, traded) ==
    /\ changes < MaxChanges
    /\ changes' = changes + 1
    /\ server[a][l] # size
    /\ server' = [server EXCEPT ![a][l] = size]
    /\ LET msg == IF traded THEN Snapshot(a, server'[a]) ELSE Change(a, l, size)
       IN  conn' = [k \in Chunks |->
                       IF conn[k].state = "up" /\ a \in Chunk(k)
                       THEN [conn[k] EXCEPT !.wire = Append(@, msg)] ELSE conn[k]]
    /\ UNCHANGED <<books, assets, connected, recon, drops, raises, syncs>>

\* The subscription reaches the exchange, which answers with snapshots.
Subscribed(k) ==
    /\ conn[k].state = "subscribing"
    /\ LET answer == [i \in 1 .. Cardinality(Chunk(k)) |->
                         LET a == SetToSeq(Chunk(k))[i] IN Snapshot(a, server[a])]
       IN  conn' = [conn EXCEPT ![k] = [state |-> "up", wire |-> answer]]
    /\ UNCHANGED <<server, books, assets, connected, recon, budget>>

(***************************************************************************)
(* The connections.                                                        *)
(***************************************************************************)

\* A bug for ChunksReconnect to find: the restart forgets the last, incomplete chunk.
SetAssetsFullChunks(new) ==
    /\ syncs < MaxSyncs
    /\ syncs' = syncs + 1
    /\ new # assets
    /\ assets' = new
    /\ conn' = [k \in Chunks |-> IF (k + 1) * PerConn <= Cardinality(new) THEN Starting ELSE Down]
    /\ connected' = {}
    /\ UNCHANGED <<server, books, recon, changes, drops, raises>>

\* A bug for TypeOK to find: the old connections are not cancelled.
SetAssetsKeepingConnections(new) ==
    /\ syncs < MaxSyncs
    /\ syncs' = syncs + 1
    /\ new # assets
    /\ assets' = new
    /\ conn' = [k \in Chunks |-> IF conn[k] # Down THEN conn[k]
                                 ELSE IF \E a \in new : ChunkOf(new, a) = k THEN Starting ELSE Down]
    /\ connected' = {}
    /\ UNCHANGED <<server, books, recon, changes, drops, raises>>

\* metadata_sync tracks another universe: every connection is cancelled and the chunks of
\* the new universe are connected.  (The same universe again changes nothing.)
SetAssets(new) ==
    /\ syncs < MaxSyncs
    /\ syncs' = syncs + 1
    /\ new # assets
    /\ assets' = new
    /\ conn' = [k \in Chunks |-> IF \E a \in new : ChunkOf(new, a) = k THEN Starting ELSE Down]
    /\ connected' = {}
    /\ UNCHANGED <<server, books, recon, changes, drops, raises>>

\* The socket opens and the subscription of the chunk is sent.
Connect(k) ==
    /\ conn[k].state = "connecting"
    /\ conn' = [conn EXCEPT ![k].state = "subscribing"]
    /\ connected' = connected \cup {k}
    /\ UNCHANGED <<server, books, assets, recon, budget>>

\* The next message is applied to the book and published.
Receive(k) ==
    /\ conn[k].wire # <<>>
    /\ LET msg == conn[k].wire[1]
       IN  books' = [books EXCEPT ![msg.asset] = Apply(@, msg)]
    /\ conn' = [conn EXCEPT ![k].wire = Tail(@)]
    /\ UNCHANGED <<server, assets, connected, recon, budget>>

\* The server closes the connection: the loop ends without an exception and connects again
\* at once; the chunk stays in connected_chunks.
Close(k) ==
    /\ conn[k].state \in {"subscribing", "up"}
    /\ drops < MaxDrops
    /\ drops' = drops + 1
    /\ conn' = [conn EXCEPT ![k] = Starting]
    /\ UNCHANGED <<server, books, assets, connected, recon, changes, raises, syncs>>

Broken(k, state) ==
    /\ conn[k].state \in {"connecting", "subscribing", "up"}
    /\ drops < MaxDrops
    /\ drops' = drops + 1
    /\ conn' = [conn EXCEPT ![k] = [state |-> state, wire |-> <<>>]]
    /\ connected' = connected \ {k}
    /\ UNCHANGED <<server, books, assets, recon, changes, syncs>>

\* The connection breaks, or cannot be opened; ws_disconnected is published, back off.
Break(k) ==
    /\ Broken(k, "backoff")
    /\ UNCHANGED raises

\* The same, but a queue of the bus is full: publish() raises out of the handler, and the
\* task of the connection ends.
BreakUnheard(k) ==
    /\ Broken(k, "dead")
    /\ raises < MaxRaises
    /\ raises' = raises + 1

\* The delay is over: connect again.
Retry(k) ==
    /\ conn[k].state = "backoff"
    /\ conn' = [conn EXCEPT ![k].state = "connecting"]
    /\ UNCHANGED <<server, books, assets, connected, recon, budget>>

(***************************************************************************)
(* Reconciliation.                                                         *)
(***************************************************************************)

\* A sample of the listed assets that have a book, tracked or not, is requested.
StartRecon(set) ==
    /\ rpc = "idle"
    /\ \A a \in set : books[a] # NoBook
    /\ Cardinality(set) \in 1 .. SampleSize
    /\ rpc' = "fetch"
    /\ sample' = set
    /\ drifted' = {}
    /\ UNCHANGED <<server, feed, payload, budget>>

\* One of the answers: the book of the exchange at that moment.
RestAnswers(a) ==
    /\ rpc = "fetch"
    /\ a \in sample
    /\ payload[a] = NoBook
    /\ payload' = [payload EXCEPT ![a] = server[a]]
    /\ UNCHANGED <<server, feed, rpc, sample, drifted, budget>>

\* A drift is reported when both best prices are known and differ.
Drift(a) ==
    /\ payload[a] \notin {NoBook, Empty}
    /\ Best(books[a]) # 0
    /\ Best(payload[a]) # Best(books[a])

\* All requests of the pass are over, some of them perhaps without an answer: the answers
\* are compared with the books as they are now.
Compare ==
    /\ rpc = "fetch"
    /\ drifted' = {a \in sample : Drift(a)}
    /\ rpc' = "idle"
    /\ sample' = {}
    /\ payload' = [a \in Asset |-> NoBook]
    /\ UNCHANGED <<server, feed, budget>>

Task(k) == Connect(k) \/ Receive(k) \/ Retry(k)

Next ==
    \/ \E a \in Asset, l \in Level, size \in {0, 1}, traded \in BOOLEAN :
          ExchangeMoves(a, l, size, traded)
    \/ \E new \in Universes : SetAssets(new)
    \/ \E k \in Chunks : Task(k) \/ Subscribed(k) \/ Close(k) \/ Break(k) \/ BreakUnheard(k)
    \/ \E set \in SUBSET Asset : StartRecon(set)
    \/ \E a \in Asset : RestAnswers(a)
    \/ Compare

Spec == Init /\ [][Next]_vars

\* A connection task that is alive goes on, and the exchange answers subscriptions.
FairSpec == Spec /\ \A k \in Chunks : WF_vars(Task(k)) /\ WF_vars(Subscribed(k))

----------------------------------------------------------------------------

\* The shape of the books, of the connections and of the reconciliation pass.
TypeOK ==
    /\ server \in [Asset -> Book]
    /\ {books, payload} \subseteq [Asset -> Book \cup {NoBook}]
    /\ assets \subseteq Asset
    /\ conn \in [Chunks -> [state : {"none", "connecting", "subscribing", "up", "backoff", "dead"},
                           wire : Seq(Message)]]
    /\ \A k \in Chunks :
          /\ conn[k].wire # <<>> => conn[k].state = "up"
          /\ \A i \in DOMAIN conn[k].wire : conn[k].wire[i].asset \in Chunk(k)
    /\ connected \subseteq Chunks
    /\ rpc \in {"idle", "fetch"}
    /\ sample \cup drifted \subseteq Asset
    /\ {changes, drops, raises, syncs} \subseteq Nat

Live(a) ==
    /\ a \in assets
    /\ LET c == conn[ChunkOf(assets, a)]
       IN  c.state = "up" /\ \A i \in DOMAIN c.wire : c.wire[i].asset # a

\* ws_polymarket.py:13-15, "book state self-heals": whatever was lost when connections broke
\* or were restarted for another universe, a book whose connection is up and has nothing
\* under way is the book of the exchange.
BookCurrent == \A a \in Asset : Live(a) => books[a] = server[a]

\* A drift of a book that is live is never the fault of the feed: the exchange has moved
\* since it answered over REST.
DriftsExplained == \A a \in drifted' \ drifted : Live(a) => payload[a] # server[a]

\* A live book is right, and a drift reported of one is not its fault
\* (ws_polymarket.py, rest_recon.py).
BooksAgree == [][BookCurrent' /\ DriftsExplained]_vars

\* Every asset tracked is received again, eventually, unless a disconnection met a full
\* queue: none of their connections stays down for ever.
Waiting(a) ==
    /\ a \in assets
    /\ conn[ChunkOf(assets, a)].state \notin {"up", "dead"}

ChunksReconnect == \A a \in Asset : ~<>[]Waiting(a)

\* ws_polymarket.py:13-15: "Exponential backoff reconnect", whatever happens.
AlwaysReconnects ==
    \A a \in Asset : ~<>[](a \in assets /\ conn[ChunkOf(assets, a)].state # "up")
=============================================================================
