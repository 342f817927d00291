--------------------------- MODULE FeedSyncProofs ---------------------------
(***************************************************************************)
(* Theorems about what is read from the exchange: the books of the feed,   *)
(* and the markets and groups of the metadata sync.                        *)
(*                                                                         *)
(* The feed: its books are those of the exchange (BooksAgree).  What makes *)
(* it so is a fact about the messages under way: on a connection that is   *)
(* up, the last message that sets a level of an asset has the size this    *)
(* level now has on the exchange, and a level no message sets has it in    *)
(* the book already.                                                       *)
(*                                                                         *)
(* The sync: its groups hold different stored markets (GroupsSound).  What *)
(* makes it so is that a pass puts a market among the legs of its event    *)
(* when it writes the row, and that no row is ever lost (Grows).           *)
(***************************************************************************)
EXTENDS Feed, MarketSync, SumProofs, FunctionTheorems, SequenceTheorems

\* A message sets the size of level l of asset a.
SetsLevel(msg, a, l) == msg.asset = a /\ l \in DOMAIN msg.levels

\* Once the messages w are applied to it, this book of asset a has that size at level l.
EndsWith(w, book, a, l, size) ==
    \/ \E i \in DOMAIN w : /\ SetsLevel(w[i], a, l)
                           /\ w[i].levels[l] = size
                           /\ \A j \in DOMAIN w : SetsLevel(w[j], a, l) => j <= i
    \/ /\ \A j \in DOMAIN w : ~SetsLevel(w[j], a, l)
       /\ book # NoBook
       /\ book[l] = size

\* A connection that is up has under way whatever its books lack.
WiresCurrent ==
    \A k \in Chunks : conn[k].state = "up" =>
        \A a \in Chunk(k), l \in Level :
            EndsWith(conn[k].wire, books[a], a, l, server[a][l])

IInv == TypeOK /\ WiresCurrent

----------------------------------------------------------------------------
(***************************************************************************)
(* Messages and books.                                                     *)
(***************************************************************************)

\* An asset that has no book is told apart from one whose book is empty.
LEMMA NoBookIsNone == NoBook \notin Book
BY FeedAssumption DEF NoBook, Book

\* A message applied to a book, or to none, gives a book that has what the message sets.
LEMMA AppliedBook ==
    ASSUME NEW msg \in Message, NEW book \in Book \cup {NoBook}
    PROVE  /\ Apply(book, msg) \in Book
           /\ Apply(book, msg) # NoBook
           /\ \A l \in Level : l \in DOMAIN msg.levels => Apply(book, msg)[l] = msg.levels[l]
           /\ \A l \in Level : l \notin DOMAIN msg.levels /\ book # NoBook
                                  => Apply(book, msg)[l] = book[l]
<1>1. PICK L \in SUBSET Level : msg.levels \in [L -> {0, 1}]
    BY DEF Message
<1>2. book # NoBook => DOMAIN book = Level /\ \A l \in Level : book[l] \in {0, 1}
    BY DEF Book
<1>3. book = NoBook => DOMAIN book = {}
    BY DEF NoBook
<1>4. ASSUME NEW l \in Level
      PROVE  (IF l \in DOMAIN msg.levels THEN msg.levels[l]
              ELSE IF l \in DOMAIN book THEN book[l] ELSE 0) \in {0, 1}
    BY <1>1, <1>2, <1>3
<1>5. Apply(book, msg) \in Book
    BY <1>4 DEF Apply, Book
<1>6. QED BY <1>2, <1>5, NoBookIsNone DEF Apply

\* The first message of a connection is applied.
LEMMA EndsWhenApplied ==
    ASSUME NEW w \in Seq(Message), w # <<>>, NEW book \in Book \cup {NoBook},
           NEW a, NEW l \in Level, NEW size, EndsWith(w, book, a, l, size)
    PROVE  EndsWith(Tail(w), IF w[1].asset = a THEN Apply(book, w[1]) ELSE book, a, l, size)
<1> DEFINE t == Tail(w)
           next == IF w[1].asset = a THEN Apply(book, w[1]) ELSE book
<1>1. /\ Len(w) \in Nat \ {0} /\ DOMAIN w = 1 .. Len(w) /\ DOMAIN t = 1 .. Len(w) - 1
      /\ \A i \in DOMAIN t : i + 1 \in DOMAIN w /\ t[i] = w[i + 1]
      /\ w[1] \in Message
    OBVIOUS
<1>2. \A j \in DOMAIN w : j = 1 \/ (j - 1 \in DOMAIN t /\ t[j - 1] = w[j] /\ j = j - 1 + 1)
    BY <1>1
<1> HIDE DEF t
<1>3. CASE \E i \in DOMAIN w : /\ SetsLevel(w[i], a, l)
                               /\ w[i].levels[l] = size
                               /\ \A j \in DOMAIN w : SetsLevel(w[j], a, l) => j <= i
    <2>1. PICK i \in DOMAIN w : /\ SetsLevel(w[i], a, l)
                                /\ w[i].levels[l] = size
                                /\ \A j \in DOMAIN w : SetsLevel(w[j], a, l) => j <= i
        BY <1>3
    <2>2. CASE i = 1
        <3>1. \A j \in DOMAIN t : ~SetsLevel(t[j], a, l)
            BY <1>1, <2>1, <2>2
        <3>2. next # NoBook /\ next[l] = size
            BY <1>1, <2>1, <2>2, AppliedBook DEF SetsLevel
        <3>3. QED BY <3>1, <3>2 DEF EndsWith, t
    <2>3. CASE i # 1
        <3>1. i - 1 \in DOMAIN t /\ SetsLevel(t[i - 1], a, l) /\ t[i - 1].levels[l] = size
            BY <1>2, <2>1, <2>3
        <3>2. \A j \in DOMAIN t : SetsLevel(t[j], a, l) => j <= i - 1
            BY <1>1, <2>1
        <3>3. QED BY <3>1, <3>2 DEF EndsWith, t
    <2>4. QED BY <2>2, <2>3
<1>4. CASE /\ \A j \in DOMAIN w : ~SetsLevel(w[j], a, l)
           /\ book # NoBook
           /\ book[l] = size
    <2>1. \A j \in DOMAIN t : ~SetsLevel(t[j], a, l)
        BY <1>1, <1>4
    <2>2. next # NoBook /\ next[l] = size
        BY <1>1, <1>4, AppliedBook DEF SetsLevel
    <2>3. QED BY <2>1, <2>2 DEF EndsWith, t
<1>5. QED BY <1>3, <1>4 DEF EndsWith

\* A message that sets the level is sent.
LEMMA EndsWhenSet ==
    ASSUME NEW w \in Seq(Message), NEW msg \in Message, NEW book,
           NEW a, NEW l, SetsLevel(msg, a, l)
    PROVE  EndsWith(Append(w, msg), book, a, l, msg.levels[l])
<1>1. /\ Len(w) \in Nat /\ DOMAIN Append(w, msg) = 1 .. Len(w) + 1
      /\ Append(w, msg)[Len(w) + 1] = msg
    OBVIOUS
<1>2. Len(w) + 1 \in DOMAIN Append(w, msg) /\ \A j \in DOMAIN Append(w, msg) : j <= Len(w) + 1
    BY <1>1
<1>3. QED BY <1>1, <1>2 DEF EndsWith

\* A message that leaves the level alone is sent.
LEMMA EndsAllTheSame ==
    ASSUME NEW w \in Seq(Message), NEW msg \in Message, NEW book,
           NEW a, NEW l, NEW size, ~SetsLevel(msg, a, l), EndsWith(w, book, a, l, size)
    PROVE  EndsWith(Append(w, msg), book, a, l, size)
<1> DEFINE v == Append(w, msg)
<1>1. /\ Len(w) \in Nat /\ DOMAIN w = 1 .. Len(w) /\ DOMAIN v = 1 .. Len(w) + 1
      /\ v[Len(w) + 1] = msg
      /\ \A j \in DOMAIN w : v[j] = w[j]
    OBVIOUS
<1> HIDE DEF v
<1>2. \A j \in DOMAIN v : SetsLevel(v[j], a, l) => j \in DOMAIN w /\ SetsLevel(w[j], a, l)
    BY <1>1
<1>3. CASE \E i \in DOMAIN w : /\ SetsLevel(w[i], a, l)
                               /\ w[i].levels[l] = size
                               /\ \A j \in DOMAIN w : SetsLevel(w[j], a, l) => j <= i
    <2>1. PICK i \in DOMAIN w : /\ SetsLevel(w[i], a, l)
                                /\ w[i].levels[l] = size
                                /\ \A j \in DOMAIN w : SetsLevel(w[j], a, l) => j <= i
        BY <1>3
    <2>2. i \in DOMAIN v /\ SetsLevel(v[i], a, l) /\ v[i].levels[l] = size
        BY <1>1, <2>1
    <2>3. \A j \in DOMAIN v : SetsLevel(v[j], a, l) => j <= i
        BY <1>2, <2>1
    <2>4. QED BY <2>2, <2>3 DEF EndsWith, v
<1>4. CASE /\ \A j \in DOMAIN w : ~SetsLevel(w[j], a, l)
           /\ book # NoBook
           /\ book[l] = size
    BY <1>2, <1>4 DEF EndsWith, v
<1>5. QED BY <1>3, <1>4 DEF EndsWith

\* Nothing is under way: the book has all levels.
LEMMA EndsWithNothing ==
    ASSUME NEW w, NEW book, NEW a, NEW l, NEW size, EndsWith(w, book, a, l, size),
           \A i \in DOMAIN w : w[i].asset # a
    PROVE  book # NoBook /\ book[l] = size
BY DEF EndsWith, SetsLevel

\* The snapshots that answer a subscription set all levels of the assets of the chunk.
LEMMA EndsWithSnapshots ==
    ASSUME NEW S \in SUBSET Asset, NEW now \in [Asset -> Book]
    PROVE  LET w == [i \in 1 .. Cardinality(S) |-> Snapshot(SetToSeq(S)[i], now[SetToSeq(S)[i]])]
           IN  /\ w \in Seq(Message)
               /\ \A i \in DOMAIN w : w[i].asset \in S
               /\ \A book, a : \A l \in Level : a \in S => EndsWith(w, book, a, l, now[a][l])
<1> DEFINE n == Cardinality(S)
           q == SetToSeq(S)
           w == [i \in 1 .. n |-> Snapshot(q[i], now[q[i]])]
<1>1. n \in Nat /\ ExistsBijection(1 .. n, S)
    <2>1. IsFiniteSet(S)
        BY FeedAssumption, FS_Subset
    <2>2. QED BY <2>1, FS_CardinalityType
<1>2. q \in [1 .. n -> S] /\ IsInjective(q)
    <2>1. \E f \in [1 .. n -> S] : IsInjective(f)
        BY <1>1 DEF ExistsBijection, Bijection, Injection, IsInjective
    <2>2. QED BY <2>1 DEF SetToSeq
<1>3. \A a \in S : \E i \in 1 .. n : q[i] = a
    <2>1. q \in Injection(1 .. n, S)
        BY <1>2 DEF Injection, IsInjective
    <2>2. q \in Surjection(1 .. n, S)
        <3>1. IsFiniteSet(S) /\ IsFiniteSet(1 .. n) /\ Cardinality(1 .. n) = n
            <4>1. IsFiniteSet(S)
                BY FeedAssumption, FS_Subset
            <4>2. QED BY <1>1, <4>1, FS_Interval
        <3>2. QED BY <2>1, <3>1, FS_Injection
    <2>3. QED BY <2>2 DEF Surjection
<1> HIDE DEF q, n
<1>4. \A i \in 1 .. n : w[i].asset = q[i] /\ w[i].levels = now[q[i]] /\ w[i] \in Message
    <2>1. ASSUME NEW b \in Asset PROVE now[b] \in [Level -> {0, 1}]
        BY DEF Book
    <2>2. ASSUME NEW b \in Asset
          PROVE  /\ Snapshot(b, now[b]).asset = b /\ Snapshot(b, now[b]).levels = now[b]
                 /\ Snapshot(b, now[b]) \in Message
        <3>1. now[b] \in UNION {[L -> {0, 1}] : L \in SUBSET Level}
            BY <2>1
        <3>2. QED BY <3>1 DEF Snapshot, Message
    <2>3. QED BY <1>2, <2>2
<1>5. w \in Seq(Message) /\ DOMAIN w = 1 .. n
    BY <1>1, <1>4
<1> HIDE DEF w
<1>6. \A b \in Asset : DOMAIN now[b] = Level
    BY DEF Book
<1>7. \A i \in DOMAIN w : w[i].asset \in S
    BY <1>2, <1>4, <1>5
<1>8. ASSUME NEW book, NEW a \in S, NEW l \in Level
      PROVE  EndsWith(w, book, a, l, now[a][l])
    <2>1. PICK i \in 1 .. n : q[i] = a
        BY <1>3
    <2>2. SetsLevel(w[i], a, l) /\ w[i].levels[l] = now[a][l]
        BY <1>4, <1>6, <2>1 DEF SetsLevel
    <2>3. \A j \in DOMAIN w : SetsLevel(w[j], a, l) => j <= i
        <3>1. ASSUME NEW j \in DOMAIN w, SetsLevel(w[j], a, l) PROVE j = i
            BY <1>2, <1>4, <1>5, <2>1, <3>1 DEF SetsLevel, IsInjective
        <3>2. QED BY <1>1, <1>5, <3>1
    <2>4. QED BY <1>5, <2>2, <2>3 DEF EndsWith
<1>9. QED BY <1>5, <1>7, <1>8 DEF w, q, n

----------------------------------------------------------------------------
(***************************************************************************)
(* The chunks.                                                             *)
(***************************************************************************)

\* A quotient is no more than what is divided.
LEMMA QuotientBound ==
    ASSUME NEW r \in Nat, NEW d \in Nat \ {0}
    PROVE  r \div d \in 0 .. r
<1>1. r \div d \in Int
    OBVIOUS
<1>2. r \div d >= 0
    OBVIOUS
<1>3. r \div d <= r
    OBVIOUS
<1>4. QED BY <1>1, <1>2, <1>3

\* Every asset of a universe falls into a chunk that has a connection.
LEMMA ChunkExists ==
    ASSUME NEW set \in SUBSET Asset, NEW a \in set
    PROVE  ChunkOf(set, a) \in Chunks
<1> DEFINE below == {b \in set : b < a}
           r == Cardinality(below)
           n == Cardinality(Asset)
<1>1. IsFiniteSet(Asset) /\ n \in Nat /\ a \in Asset
    BY FeedAssumption, FS_CardinalityType
<1>2. r \in Nat /\ r <= n - 1
    <2>1. below \subseteq Asset \ {a}
        <3>1. a \in Int /\ ~(a < a)
            BY <1>1, FeedAssumption
        <3>2. QED BY <3>1
    <2>2. IsFiniteSet(Asset \ {a}) /\ Cardinality(Asset \ {a}) = n - 1
        BY <1>1, FS_RemoveElement
    <2> HIDE DEF below, n
    <2>3. IsFiniteSet(below) /\ Cardinality(below) <= Cardinality(Asset \ {a})
        BY <2>1, <2>2, FS_Subset
    <2>4. QED BY <2>2, <2>3, FS_CardinalityType
<1>3. PerConn \in Nat \ {0}
    BY FeedAssumption
<1> HIDE DEF r, n
<1>4. r \div PerConn \in 0 .. r
    BY <1>2, <1>3, QuotientBound
<1>5. r \div PerConn \in 0 .. n - 1
    BY <1>1, <1>2, <1>4
<1>6. QED BY <1>5 DEF ChunkOf, Rank, Chunks, r, n

\* A connection: its state and the messages under way.
Connection == [state : {"none", "connecting", "subscribing", "up", "backoff", "dead"},
               wire : Seq(Message)]

\* The part of TypeOK about the connections, and the rest of it.
ConnOK ==
    /\ conn \in [Chunks -> Connection]
    /\ \A k \in Chunks :
          /\ conn[k].wire # <<>> => conn[k].state = "up"
          /\ \A i \in DOMAIN conn[k].wire : conn[k].wire[i].asset \in Chunk(k)

DataOK ==
    /\ server \in [Asset -> Book]
    /\ books \in [Asset -> Book \cup {NoBook}]
    /\ payload \in [Asset -> Book \cup {NoBook}]
    /\ assets \subseteq Asset
    /\ connected \subseteq Chunks
    /\ rpc \in {"idle", "fetch"}
    /\ sample \subseteq Asset
    /\ drifted \subseteq Asset
    /\ changes \in Nat /\ drops \in Nat /\ raises \in Nat /\ syncs \in Nat

\* The type invariant, in its two parts.
LEMMA TypeParts == (TypeOK <=> ConnOK /\ DataOK) /\ (TypeOK' <=> ConnOK' /\ DataOK')
BY DEF TypeOK, ConnOK, DataOK, Connection, Chunk

\* A message is sent on a connection.
LEMMA MessageSent ==
    ASSUME NEW c \in Connection, NEW msg \in Message
    PROVE  /\ [c EXCEPT !.wire = Append(@, msg)] \in Connection
           /\ [c EXCEPT !.wire = Append(@, msg)].state = c.state
           /\ [c EXCEPT !.wire = Append(@, msg)].wire = Append(c.wire, msg)
<1>1. c.wire \in Seq(Message) /\ Append(c.wire, msg) \in Seq(Message)
    BY DEF Connection
<1>2. QED BY <1>1 DEF Connection

\* The invariant in its parts.
Invariant == ConnOK /\ DataOK /\ WiresCurrent

\* The invariant, with the type invariant in its parts.
LEMMA InvariantParts == (IInv <=> Invariant) /\ (IInv' <=> Invariant')
BY TypeParts DEF IInv, Invariant

----------------------------------------------------------------------------
(***************************************************************************)
(* The invariant.                                                          *)
(***************************************************************************)

\* It holds at the start.
LEMMA InitHolds == Init => Invariant
<1> SUFFICES ASSUME Init PROVE Invariant
    OBVIOUS
<1>1. \A k \in Chunks : conn[k] = Down /\ conn[k].wire = <<>> /\ conn[k].state = "none"
    BY DEF Init, Down
<1>2. Down \in Connection
    BY DEF Down, Connection
<1>3. ConnOK
    BY <1>1, <1>2 DEF Init, ConnOK
<1>4. DataOK
    BY DEF Init, DataOK
<1>5. WiresCurrent
    BY <1>1 DEF WiresCurrent
<1>6. QED BY <1>3, <1>4, <1>5 DEF Invariant

\* A step that leaves books, exchange, universe and connections alone.
LEMMA NothingUnderWay ==
    ASSUME Invariant, UNCHANGED <<server, books, assets, conn>>
    PROVE  ConnOK' /\ WiresCurrent'
<1>1. \A k : Chunk(k)' = Chunk(k)
    BY DEF Chunk
<1>2. ConnOK'
    BY <1>1 DEF Invariant, ConnOK
<1>3. WiresCurrent'
    BY <1>1 DEF Invariant, WiresCurrent
<1>4. QED BY <1>2, <1>3

\* The exchange sends a message about an asset to the connection that subscribes to it.
LEMMA ExchangeMovesHolds ==
    ASSUME Invariant, NEW a \in Asset, NEW l \in Level, NEW size \in {0, 1},
           NEW traded \in BOOLEAN, ExchangeMoves(a, l, size, traded)
    PROVE  Invariant'
<1> DEFINE msg == IF traded THEN Snapshot(a, server'[a]) ELSE Change(a, l, size)
<1>1. ConnOK /\ DataOK /\ WiresCurrent
    BY DEF Invariant
<1>2. /\ server' = [server EXCEPT ![a][l] = size]
      /\ conn' = [k \in Chunks |-> IF conn[k].state = "up" /\ a \in Chunk(k)
                                   THEN [conn[k] EXCEPT !.wire = Append(@, msg)] ELSE conn[k]]
      /\ changes' = changes + 1
      /\ UNCHANGED <<books, assets, connected, recon, drops, raises, syncs>>
    BY DEF ExchangeMoves
<1>3. /\ server' \in [Asset -> Book]
      /\ server'[a][l] = size
      /\ \A b \in Asset : \A x \in Level : b # a \/ x # l => server'[b][x] = server[b][x]
    BY <1>1, <1>2 DEF DataOK, Book
<1>4. /\ msg \in Message /\ msg.asset = a
      /\ l \in DOMAIN msg.levels
      /\ \A x \in DOMAIN msg.levels : msg.levels[x] = server'[a][x]
    <2>1. CASE traded
        <3>1. msg = Snapshot(a, server'[a]) /\ server'[a] \in [Level -> {0, 1}]
            BY <1>3, <2>1 DEF Book
        <3>2. server'[a] \in UNION {[L -> {0, 1}] : L \in SUBSET Level}
            BY <3>1
        <3>3. QED BY <3>1, <3>2 DEF Snapshot, Message
    <2>2. CASE ~traded
        <3>1. msg = Change(a, l, size) /\ [x \in {l} |-> size] \in [{l} -> {0, 1}]
            BY <2>2
        <3>2. [x \in {l} |-> size] \in UNION {[L -> {0, 1}] : L \in SUBSET Level}
            BY <3>1
        <3>3. /\ msg.type = "price_change" /\ msg.asset = a /\ msg.levels = [x \in {l} |-> size]
              /\ msg \in Message
            BY <3>1, <3>2 DEF Change, Message
        <3>4. QED BY <1>3, <3>3
    <2>3. QED BY <2>1, <2>2
<1> HIDE DEF msg
<1>5. \A k : Chunk(k)' = Chunk(k)
    BY <1>2 DEF Chunk
<1>6. ASSUME NEW k \in Chunks
      PROVE  /\ conn'[k] \in Connection
             /\ conn[k].wire \in Seq(Message)
             /\ conn'[k].state = conn[k].state
             /\ conn'[k].wire = IF conn[k].state = "up" /\ a \in Chunk(k)
                                THEN Append(conn[k].wire, msg) ELSE conn[k].wire
    <2>1. conn[k] \in Connection
        BY <1>1 DEF ConnOK
    <2>2. conn'[k] = IF conn[k].state = "up" /\ a \in Chunk(k)
                     THEN [conn[k] EXCEPT !.wire = Append(@, msg)] ELSE conn[k]
        BY <1>2
    <2>3. conn[k].wire \in Seq(Message)
        BY <2>1 DEF Connection
    <2>4. QED BY <1>4, <2>1, <2>2, <2>3, MessageSent
<1>7. ASSUME NEW k \in Chunks
      PROVE  /\ conn'[k].wire # <<>> => conn'[k].state = "up"
             /\ \A i \in DOMAIN conn'[k].wire : conn'[k].wire[i].asset \in Chunk(k)
    <2>1. conn[k].wire \in Seq(Message)
        BY <1>6
    <2>2. \A i \in DOMAIN Append(conn[k].wire, msg) :
             \/ /\ i \in DOMAIN conn[k].wire
                /\ Append(conn[k].wire, msg)[i] = conn[k].wire[i]
             \/ Append(conn[k].wire, msg)[i] = msg
        BY <1>4, <2>1
    <2>3. QED BY <1>1, <1>4, <1>6, <2>2 DEF ConnOK
<1>8. ConnOK'
    <2>1. conn' \in [Chunks -> Connection]
        BY <1>2, <1>6
    <2>2. QED BY <1>5, <1>7, <2>1 DEF ConnOK
<1>9. DataOK'
    BY <1>1, <1>2, <1>3 DEF DataOK, recon
<1>10. ASSUME NEW k \in Chunks, conn'[k].state = "up", NEW b \in Chunk(k), NEW x \in Level
       PROVE  EndsWith(conn'[k].wire, books[b], b, x, server'[b][x])
    <2>1. b \in Asset /\ conn[k].state = "up" /\ conn[k].wire \in Seq(Message)
        BY <1>1, <1>6, <1>10 DEF Chunk, DataOK
    <2>2. EndsWith(conn[k].wire, books[b], b, x, server[b][x])
        BY <1>1, <2>1 DEF WiresCurrent
    <2>3. CASE a \in Chunk(k) /\ SetsLevel(msg, b, x)
        <3>1. b = a /\ msg.levels[x] = server'[b][x]
            BY <1>4, <2>3 DEF SetsLevel
        <3>2. EndsWith(Append(conn[k].wire, msg), books[b], b, x, msg.levels[x])
            BY <1>4, <2>1, <2>3, EndsWhenSet
        <3>3. QED BY <1>6, <2>1, <2>3, <3>1, <3>2
    <2>4. CASE a \in Chunk(k) /\ ~SetsLevel(msg, b, x)
        <3>1. server'[b][x] = server[b][x]
            BY <1>3, <1>4, <2>1, <2>4 DEF SetsLevel
        <3>2. QED BY <1>4, <1>6, <2>1, <2>2, <2>4, <3>1, EndsAllTheSame
    <2>5. CASE a \notin Chunk(k)
        <3>1. b # a /\ server'[b][x] = server[b][x] /\ conn'[k].wire = conn[k].wire
            BY <1>3, <1>6, <2>1, <2>5
        <3>2. QED BY <2>2, <3>1
    <2>6. QED BY <2>3, <2>4, <2>5
<1>11. WiresCurrent'
    BY <1>2, <1>5, <1>10 DEF WiresCurrent
<1>12. QED BY <1>8, <1>9, <1>11 DEF Invariant

\* The answer to a subscription brings all assets of the chunk.
LEMMA SubscribedHolds ==
    ASSUME Invariant, NEW k \in Chunks, Subscribed(k)
    PROVE  Invariant'
<1> DEFINE S == Chunk(k)
           w == [i \in 1 .. Cardinality(S) |-> Snapshot(SetToSeq(S)[i], server[SetToSeq(S)[i]])]
<1>1. ConnOK /\ DataOK /\ WiresCurrent
    BY DEF Invariant
<1>2. /\ conn' = [conn EXCEPT ![k] = [state |-> "up", wire |-> w]]
      /\ UNCHANGED <<server, books, assets, connected, recon, budget>>
    BY DEF Subscribed
<1>3. S \in SUBSET Asset /\ server \in [Asset -> Book]
    BY <1>1 DEF DataOK, Chunk
<1>4. \A b : Chunk(b)' = Chunk(b)
    BY <1>2 DEF Chunk
<1> HIDE DEF S
<1>5. \A a \in S, l \in Level : EndsWith(w, books[a], a, l, server[a][l])
    BY <1>3, EndsWithSnapshots
<1>6. w \in Seq(Message) /\ \A i \in DOMAIN w : w[i].asset \in S
    BY <1>3, EndsWithSnapshots
<1> HIDE DEF w
<1>7. [state |-> "up", wire |-> w] \in Connection
    BY <1>6 DEF Connection
<1>8. /\ conn' \in [Chunks -> Connection]
      /\ conn'[k].state = "up" /\ conn'[k].wire = w
      /\ \A j \in Chunks : j # k => conn'[j] = conn[j]
    BY <1>1, <1>2, <1>7 DEF ConnOK
<1>9. ConnOK'
    BY <1>1, <1>4, <1>6, <1>8 DEF ConnOK, S
<1>10. DataOK'
    BY <1>1, <1>2 DEF DataOK, recon, budget
<1>11. WiresCurrent'
    BY <1>1, <1>2, <1>4, <1>5, <1>8 DEF WiresCurrent, S
<1>12. QED BY <1>9, <1>10, <1>11 DEF Invariant

\* A universe is replaced: no connection is up.
LEMMA SetAssetsHolds ==
    ASSUME Invariant, NEW new \in Universes, SetAssets(new)
    PROVE  Invariant'
<1>1. ConnOK /\ DataOK
    BY DEF Invariant
<1>2. /\ assets' = new /\ connected' = {} /\ syncs' = syncs + 1
      /\ conn' = [k \in Chunks |-> IF \E a \in new : ChunkOf(new, a) = k THEN Starting ELSE Down]
      /\ UNCHANGED <<server, books, recon, changes, drops, raises>>
    BY DEF SetAssets
<1>3. /\ Starting \in Connection /\ Starting.wire = <<>> /\ Starting.state # "up"
      /\ Down \in Connection /\ Down.wire = <<>> /\ Down.state # "up"
    BY DEF Starting, Down, Connection
<1>4. \A k \in Chunks : conn'[k] \in {Starting, Down}
    BY <1>2
<1>5. ConnOK'
    BY <1>2, <1>3, <1>4 DEF ConnOK
<1>6. DataOK'
    BY <1>1, <1>2, FeedAssumption DEF DataOK, recon
<1>7. WiresCurrent'
    BY <1>3, <1>4 DEF WiresCurrent
<1>8. QED BY <1>5, <1>6, <1>7 DEF Invariant

\* A connection that is not up, and has nothing under way, takes the place of another.
LEMMA ConnectionReset ==
    ASSUME Invariant, NEW k \in Chunks, NEW c \in Connection, c.state # "up", c.wire = <<>>,
           conn' = [conn EXCEPT ![k] = c], UNCHANGED <<server, books, assets>>
    PROVE  ConnOK' /\ WiresCurrent'
<1>1. ConnOK /\ WiresCurrent
    BY DEF Invariant
<1>2. /\ conn' \in [Chunks -> Connection] /\ conn'[k] = c
      /\ \A j \in Chunks : j # k => conn'[j] = conn[j]
    BY <1>1 DEF ConnOK
<1>3. \A b : Chunk(b)' = Chunk(b)
    BY DEF Chunk
<1>4. ConnOK'
    BY <1>1, <1>2, <1>3 DEF ConnOK
<1>5. WiresCurrent'
    BY <1>1, <1>2, <1>3 DEF WiresCurrent
<1>6. QED BY <1>4, <1>5

\* A socket opens, or a delay is over.
LEMMA StateMoves ==
    ASSUME Invariant, NEW k \in Chunks, NEW to \in {"connecting", "subscribing"},
           conn[k].state # "up", conn' = [conn EXCEPT ![k].state = to],
           UNCHANGED <<server, books, assets>>
    PROVE  ConnOK' /\ WiresCurrent'
<1> DEFINE c == [conn[k] EXCEPT !.state = to]
<1>1. conn[k] \in Connection /\ conn[k].wire = <<>>
    BY DEF Invariant, ConnOK
<1>2. c \in Connection /\ c.state # "up" /\ c.wire = <<>>
    BY <1>1 DEF Connection
<1>3. conn' = [conn EXCEPT ![k] = c]
    OBVIOUS
<1> HIDE DEF c
<1>4. QED BY <1>2, <1>3, ConnectionReset

\* A connection opens, with nothing under way on it.
LEMMA ConnectHolds ==
    ASSUME Invariant, NEW k \in Chunks, Connect(k)
    PROVE  Invariant'
<1>1. ConnOK' /\ WiresCurrent'
    BY StateMoves DEF Connect
<1>2. DataOK'
    BY DEF Invariant, DataOK, Connect, recon, budget
<1>3. QED BY <1>1, <1>2 DEF Invariant

\* A connection is tried again.
LEMMA RetryHolds ==
    ASSUME Invariant, NEW k \in Chunks, Retry(k)
    PROVE  Invariant'
<1>1. ConnOK' /\ WiresCurrent'
    BY StateMoves DEF Retry
<1>2. DataOK'
    BY DEF Invariant, DataOK, Retry, recon, budget
<1>3. QED BY <1>1, <1>2 DEF Invariant

\* A connection is closed.
LEMMA CloseHolds ==
    ASSUME Invariant, NEW k \in Chunks, Close(k)
    PROVE  Invariant'
<1>1. Starting \in Connection /\ Starting.wire = <<>> /\ Starting.state # "up"
    BY DEF Starting, Connection
<1>2. ConnOK' /\ WiresCurrent'
    BY <1>1, ConnectionReset DEF Close
<1>3. DataOK'
    BY DEF Invariant, DataOK, Close, recon
<1>4. QED BY <1>2, <1>3 DEF Invariant

\* A connection breaks.
LEMMA BreakHolds ==
    ASSUME Invariant, NEW k \in Chunks, Break(k) \/ BreakUnheard(k)
    PROVE  Invariant'
<1>1. PICK to \in {"backoff", "dead"} : Broken(k, to) /\ (raises' = raises \/ raises' = raises + 1)
    BY DEF Break, BreakUnheard
<1> DEFINE c == [state |-> to, wire |-> <<>>]
<1>2. c \in Connection /\ c.wire = <<>> /\ c.state # "up"
    BY <1>1 DEF Connection
<1>3. conn' = [conn EXCEPT ![k] = c] /\ UNCHANGED <<server, books, assets>>
    BY <1>1 DEF Broken
<1> HIDE DEF c
<1>4. ConnOK' /\ WiresCurrent'
    BY <1>2, <1>3, ConnectionReset
<1>5. DataOK'
    BY <1>1 DEF Invariant, DataOK, Broken, recon
<1>6. QED BY <1>4, <1>5 DEF Invariant

\* The next message of a connection moves from the wire to the book.
LEMMA ReceiveHolds ==
    ASSUME Invariant, NEW k \in Chunks, Receive(k)
    PROVE  Invariant'
<1> DEFINE w == conn[k].wire
           msg == w[1]
           a == msg.asset
<1>1. ConnOK /\ DataOK /\ WiresCurrent
    BY DEF Invariant
<1>2. /\ w # <<>>
      /\ books' = [books EXCEPT ![a] = Apply(books[a], msg)]
      /\ conn' = [conn EXCEPT ![k].wire = Tail(w)]
      /\ UNCHANGED <<server, assets, connected, recon, budget>>
    BY DEF Receive
<1>3. conn[k] \in Connection /\ w \in Seq(Message) /\ conn[k].state = "up"
    BY <1>1, <1>2 DEF ConnOK, Connection
<1>4. /\ msg \in Message /\ a \in Chunk(k) /\ a \in Asset
      /\ Tail(w) \in Seq(Message)
      /\ \A i \in DOMAIN Tail(w) : i + 1 \in DOMAIN w /\ Tail(w)[i] = w[i + 1]
    <2>1. Len(w) \in Nat /\ Len(w) > 0 /\ DOMAIN w = 1 .. Len(w)
        BY <1>2, <1>3
    <2>2. 1 \in DOMAIN w /\ msg \in Message
        BY <1>3, <2>1
    <2>3. a \in Chunk(k) /\ a \in Asset
        BY <1>1, <2>2 DEF ConnOK, Chunk, DataOK
    <2>4. /\ Tail(w) \in Seq(Message)
          /\ \A i \in DOMAIN Tail(w) : i + 1 \in DOMAIN w /\ Tail(w)[i] = w[i + 1]
        BY <1>2, <1>3, <2>1
    <2>5. QED BY <2>2, <2>3, <2>4
<1>5. \A b : Chunk(b)' = Chunk(b)
    BY <1>2 DEF Chunk
<1>6. /\ conn' \in [Chunks -> Connection]
      /\ conn'[k].state = conn[k].state /\ conn'[k].wire = Tail(w)
      /\ \A j \in Chunks : j # k => conn'[j] = conn[j]
    <2>1. /\ [conn[k] EXCEPT !.wire = Tail(w)] \in Connection
          /\ [conn[k] EXCEPT !.wire = Tail(w)].state = conn[k].state
          /\ [conn[k] EXCEPT !.wire = Tail(w)].wire = Tail(w)
        BY <1>3, <1>4 DEF Connection
    <2>2. conn' = [conn EXCEPT ![k] = [conn[k] EXCEPT !.wire = Tail(w)]]
        BY <1>2
    <2> HIDE DEF w
    <2>3. QED BY <1>1, <2>1, <2>2 DEF ConnOK
<1> HIDE DEF w
<1>7. ConnOK'
    <2>1. \A i \in DOMAIN Tail(w) : Tail(w)[i].asset \in Chunk(k)
        BY <1>1, <1>4 DEF ConnOK, w
    <2>2. QED BY <1>1, <1>3, <1>5, <1>6, <2>1 DEF ConnOK
<1> HIDE DEF msg, a
<1>8. books[a] \in Book \cup {NoBook} /\ Apply(books[a], msg) \in Book
    BY <1>1, <1>4, AppliedBook DEF DataOK
<1>9. DataOK'
    BY <1>1, <1>2, <1>4, <1>8 DEF DataOK, recon, budget
<1>10. ASSUME NEW j \in Chunks, conn'[j].state = "up", NEW b \in Chunk(j), NEW l \in Level
       PROVE  EndsWith(conn'[j].wire, books'[b], b, l, server[b][l])
    <2>1. b \in Asset /\ books[b] \in Book \cup {NoBook}
        BY <1>1 DEF Chunk, DataOK
    <2>2. EndsWith(conn[j].wire, books[b], b, l, server[b][l])
        BY <1>1, <1>3, <1>6, <1>10 DEF WiresCurrent
    <2>3. CASE j = k
        <3>1. EndsWith(Tail(w), IF w[1].asset = b THEN Apply(books[b], w[1]) ELSE books[b],
                       b, l, server[b][l])
            BY <1>2, <1>3, <2>1, <2>2, <2>3, EndsWhenApplied DEF w
        <3>2. books'[b] = IF w[1].asset = b THEN Apply(books[b], w[1]) ELSE books[b]
            BY <1>1, <1>2, <1>4, <2>1 DEF DataOK, a, msg
        <3>3. QED BY <1>6, <2>3, <3>1, <3>2
    <2>4. CASE j # k
        <3>1. b # a
            BY <1>4, <2>4 DEF Chunk
        <3>2. books'[b] = books[b] /\ conn'[j] = conn[j]
            BY <1>1, <1>2, <1>6, <2>1, <2>4, <3>1 DEF DataOK
        <3>3. QED BY <2>2, <3>2
    <2>5. QED BY <2>3, <2>4
<1>11. WiresCurrent'
    BY <1>2, <1>5, <1>10 DEF WiresCurrent
<1>12. QED BY <1>7, <1>9, <1>11 DEF Invariant

\* Reconciliation only reads.
LEMMA ReconHolds ==
    ASSUME Invariant,
           Compare \/ (\E set \in SUBSET Asset : StartRecon(set)) \/ (\E a \in Asset : RestAnswers(a))
    PROVE  Invariant'
<1>1. UNCHANGED <<server, feed, budget>>
    BY DEF Compare, StartRecon, RestAnswers
<1>2. ConnOK' /\ WiresCurrent'
    BY <1>1, NothingUnderWay DEF feed
<1>3. /\ rpc' \in {"idle", "fetch"} /\ sample' \subseteq Asset /\ drifted' \subseteq Asset
      /\ payload' \in [Asset -> Book \cup {NoBook}]
    BY DEF Compare, StartRecon, RestAnswers, Invariant, DataOK
<1>4. DataOK'
    BY <1>1, <1>3 DEF Invariant, DataOK, feed, budget
<1>5. QED BY <1>2, <1>4 DEF Invariant

\* Every step keeps the invariant.
LEMMA NextHolds == Invariant /\ [Next]_vars => Invariant'
<1> SUFFICES ASSUME Invariant, [Next]_vars PROVE Invariant'
    OBVIOUS
<1>1. CASE \E a \in Asset, l \in Level, size \in {0, 1}, traded \in BOOLEAN :
              ExchangeMoves(a, l, size, traded)
    BY <1>1, ExchangeMovesHolds
<1>2. CASE \E new \in Universes : SetAssets(new)
    BY <1>2, SetAssetsHolds
<1>3. ASSUME NEW k \in Chunks,
             Task(k) \/ Subscribed(k) \/ Close(k) \/ Break(k) \/ BreakUnheard(k)
      PROVE  Invariant'
    BY <1>3, ConnectHolds, ReceiveHolds, RetryHolds, SubscribedHolds, CloseHolds, BreakHolds
       DEF Task
<1>4. CASE Compare \/ (\E set \in SUBSET Asset : StartRecon(set)) \/ (\E a \in Asset : RestAnswers(a))
    BY <1>4, ReconHolds
<1>5. CASE UNCHANGED vars
    <2>1. UNCHANGED <<server, books, assets, conn>> /\ UNCHANGED <<connected, recon, budget>>
        BY <1>5 DEF vars, recon, budget
    <2>2. ConnOK' /\ WiresCurrent'
        BY <2>1, NothingUnderWay
    <2>3. DataOK'
        BY <2>1 DEF Invariant, DataOK, recon, budget
    <2>4. QED BY <2>2, <2>3 DEF Invariant
<1>6. QED BY <1>1, <1>2, <1>3, <1>4, <1>5 DEF Next

\* Whatever the exchange, the connections and the reconciliation do, the invariant holds.
THEOREM Inductive == Spec => []IInv
<1>1. Init => Invariant
    BY InitHolds
<1>2. Invariant /\ [Next]_vars => Invariant'
    BY NextHolds
<1>3. Invariant => IInv
    BY InvariantParts
<1>4. QED BY <1>1, <1>2, <1>3, PTL DEF Spec

\* The books, the connections and the messages under way keep their shape, and no message
\* is under way on a connection that is not up, nor one of another chunk's asset
\* (ws_polymarket.py, set_assets()).
THEOREM TypeCorrect == Spec => []TypeOK
<1>1. IInv => TypeOK
    BY DEF IInv
<1>2. QED BY <1>1, Inductive, PTL

\* A live book has everything the exchange has sent.
LEMMA LiveBooks == IInv => BookCurrent
<1> SUFFICES ASSUME IInv, NEW a \in Asset, Live(a) PROVE books[a] = server[a]
    BY DEF BookCurrent
<1>1. DataOK /\ WiresCurrent
    BY InvariantParts DEF Invariant
<1> DEFINE k == ChunkOf(assets, a)
<1>2. /\ a \in assets /\ conn[k].state = "up"
      /\ \A i \in DOMAIN conn[k].wire : conn[k].wire[i].asset # a
    BY DEF Live
<1>3. k \in Chunks /\ a \in Chunk(k)
    BY <1>1, <1>2, ChunkExists DEF DataOK, Chunk
<1> HIDE DEF k
<1>4. \A l \in Level : books[a] # NoBook /\ books[a][l] = server[a][l]
    BY <1>1, <1>2, <1>3, EndsWithNothing DEF WiresCurrent
<1>5. books[a] \in Book /\ server[a] \in Book
    BY <1>1, <1>4, FeedAssumption DEF DataOK
<1>6. QED BY <1>4, <1>5 DEF Book

\* A drift found of a live book is one the exchange made after it answered.
LEMMA DriftsAreExplained == IInv /\ [Next]_vars => DriftsExplained
<1> SUFFICES ASSUME IInv, [Next]_vars, NEW a \in drifted' \ drifted, Live(a)
             PROVE  payload[a] # server[a]
    BY DEF DriftsExplained
<1>1. Compare
    BY DEF Next, vars, recon, feed, budget, ExchangeMoves, SetAssets, Task, Connect, Receive,
           Retry, Subscribed, Close, Break, BreakUnheard, Broken, StartRecon, RestAnswers
<1>2. a \in sample /\ Drift(a)
    BY <1>1 DEF Compare
<1>3. Best(payload[a]) # Best(books[a])
    BY <1>2 DEF Drift
<1>4. a \in Asset
    BY DEF Live, IInv, TypeOK
<1>5. QED BY <1>3, <1>4, LiveBooks DEF BookCurrent

\* After every step of the feed, of the exchange and of the reconciliation, and however often
\* connections break, close or are restarted for another universe, each book whose connection
\* is up and has nothing under way is the book of the exchange; a drift reported of such a
\* book is never its fault (ws_polymarket.py, books.py, rest_recon.py).
THEOREM BooksAlwaysAgree == Spec => BooksAgree
<1>1. IInv => BookCurrent
    BY LiveBooks
<1>2. IInv /\ BookCurrent' /\ [Next]_vars => [BookCurrent' /\ DriftsExplained]_vars
    BY DriftsAreExplained
<1>3. QED BY <1>1, <1>2, Inductive, PTL DEF Spec, BooksAgree

----------------------------------------------------------------------------
(***************************************************************************)
(* The metadata sync: its invariant, in four parts.                        *)
(***************************************************************************)

\* What the catalogue said of a market.
Said == {x \in [market : Market, closed : BOOLEAN, rules : {NoText, 1, 2}] :
            x.rules \in RulesOf(x.market)}

CatalogueInv ==
    /\ gamma \in [Market -> [closed : BOOLEAN, rules : {NoText, 1, 2}]]
    /\ \A m \in Market : gamma[m].rules \in RulesOf(m)
    /\ ranking \in SetToSeqs(Event)
    /\ ended \subseteq Market
    /\ moves \in Nat /\ faults \in Nat

\* The rules of a market are on file, unless it may be listed without.
HasRules(m) == m \in Silent \/ rules[m] # {}

\* A row has its group, and rules on file.
TablesInv ==
    /\ rows \in [Market -> Row \cup {NoRow}]
    /\ rules \in [Market -> SUBSET {1, 2}]
    /\ \A m \in Market : rows[m] # NoRow => rows[m].group = GroupOf(m) /\ HasRules(m)

Stored == {m \in Market : rows[m] # NoRow}

\* Different stored markets of one event.
Distinct(e, ms) == IsInjective(ms) /\ \A i \in DOMAIN ms : ms[i] \in Stored /\ EventOf[ms[i]] = e

\* What a pass has read and written.
PassInv ==
    /\ pc \in {"idle", "pages", "select", "refresh", "write"}
    /\ offset \in Nat
    /\ fetched \in Seq(Seq(Said) \ {<<>>})
    /\ asked \subseteq Stored
    /\ seen \subseteq Stored /\ IsFiniteSet(seen)
    /\ legs \in [NegRisk -> Seq(seen)]
    /\ \A e \in NegRisk : Distinct(e, legs[e])

\* What others see of it.
SharedInv ==
    /\ DOMAIN groups \subseteq NegRisk
    /\ \A e \in DOMAIN groups : Len(groups[e]) >= 2 /\ Distinct(e, groups[e])
    /\ Cardinality(tracked) <= TopN /\ tracked \subseteq Stored

SyncInv == CatalogueInv /\ TablesInv /\ PassInv /\ SharedInv

\* The invariant says of each variable what SyncTypeOK says.
LEMMA SyncInvTypes == SyncInv => SyncTypeOK
BY DEF SyncInv, CatalogueInv, TablesInv, PassInv, SharedInv, SyncTypeOK, Row, Stored

\* The legs of a group are different markets with rows and rules.
LEMMA SyncInvGroups == SyncInv => GroupsSound
<1> SUFFICES ASSUME SyncInv, NEW e \in DOMAIN groups
             PROVE  /\ Len(groups[e]) >= 2
                    /\ IsInjective(groups[e])
                    /\ \A m \in Range(groups[e]) :
                           rows[m] # NoRow /\ rows[m].group = e /\ HasRules(m)
    BY DEF GroupsSound, HasRules
<1>1. e \in NegRisk /\ Len(groups[e]) >= 2 /\ Distinct(e, groups[e])
    BY DEF SyncInv, SharedInv
<1>2. ASSUME NEW m \in Range(groups[e]) PROVE rows[m] # NoRow /\ rows[m].group = e /\ HasRules(m)
    <2>1. m \in Stored /\ EventOf[m] = e
        BY <1>1 DEF Range, Distinct
    <2>2. QED BY <1>1, <2>1 DEF SyncInv, TablesInv, Stored, GroupOf
<1>3. QED BY <1>1, <1>2 DEF Distinct

----------------------------------------------------------------------------

\* The most liquid n of some markets are no more than n.
LEMMA TopOfSize ==
    ASSUME NEW S \in SUBSET Market, IsFiniteSet(S), NEW n \in Nat
    PROVE  TopOf(n, S) \subseteq S /\ Cardinality(TopOf(n, S)) <= n
<1> DEFINE T == TopOf(n, S)
<1>1. T \subseteq S
    BY DEF TopOf
<1>2. IsFiniteSet(T) /\ Cardinality(T) \in Nat
    BY <1>1, FS_Subset, FS_CardinalityType
<1>3. CASE T = {}
    BY <1>1, <1>3, FS_EmptySet
<1>4. CASE T # {}
    <2> DEFINE L == {Liquidity[k] : k \in T}
    <2>1. L \in SUBSET Nat /\ L # {}
        BY <1>1, <1>4, SyncAssumption
    <2>2. PICK l \in L : \A x \in L : l <= x
        BY <2>1, LeastNatural
    <2>3. PICK m \in T : \A k \in T : Liquidity[m] <= Liquidity[k]
        BY <2>2
    <2> DEFINE H == {k \in S : Liquidity[k] > Liquidity[m]}
    <2>4. Cardinality(H) < n
        BY <2>3 DEF TopOf
    <2>5. IsFiniteSet(H) /\ Cardinality(H) \in Nat
        BY FS_Subset, FS_CardinalityType
    <2>6. T \ {m} \subseteq H
        <3>1. ASSUME NEW k \in T, k # m PROVE Liquidity[k] > Liquidity[m]
            <4>1. Liquidity[k] # Liquidity[m]
                BY <1>1, <3>1, SyncAssumption
            <4>2. Liquidity[k] \in Nat /\ Liquidity[m] \in Nat /\ Liquidity[m] <= Liquidity[k]
                BY <1>1, <2>3, SyncAssumption
            <4>3. QED BY <4>1, <4>2
        <3>2. QED BY <1>1, <3>1
    <2> HIDE DEF T, H
    <2>7. Cardinality(T \ {m}) <= Cardinality(H)
        BY <2>5, <2>6, FS_Subset
    <2>8. Cardinality(T \ {m}) = Cardinality(T) - 1
        BY <1>2, <2>3, FS_RemoveElement
    <2>9. Cardinality(T) <= n
        BY <1>2, <2>4, <2>5, <2>7, <2>8
    <2>10. QED BY <1>1, <2>9 DEF T
<1>5. QED BY <1>3, <1>4

\* An open event has markets, and the catalogue says something of each.
LEMMA NestedSays == ASSUME CatalogueInv, NEW e \in Open PROVE Nested(e) \in Seq(Said) \ {<<>>}
<1>1. PICK m \in Market : EventOf[m] = e
    BY DEF Open
<1>2. e \in Event /\ MarketsOf[e] \in Seq(Market) /\ m \in ToSet(MarketsOf[e])
    BY <1>1, SyncAssumption
<1>3. Len(MarketsOf[e]) \in Nat /\ Len(MarketsOf[e]) # 0
    BY <1>2 DEF ToSet
<1>4. \A i \in 1 .. Len(MarketsOf[e]) : MarketsOf[e][i] \in Market
    BY <1>2, ElementOfSeq
<1>5. \A i \in 1 .. Len(MarketsOf[e]) : Nested(e)[i] \in Said
    BY <1>4 DEF Nested, CatalogueInv, Said
<1>6. Nested(e) = [i \in 1 .. Len(MarketsOf[e]) |-> Nested(e)[i]]
    BY DEF Nested
<1>7. Nested(e) \in Seq(Said) /\ Len(Nested(e)) = Len(MarketsOf[e])
    BY <1>3, <1>5, <1>6
<1>8. QED BY <1>3, <1>7

\* A page brings what the catalogue says of open events.
LEMMA PageSays ==
    ASSUME CatalogueInv, NEW from, NEW to, NEW batch \in InOrder(Listed(from, to))
    PROVE  /\ [i \in 1 .. Len(batch) |-> Nested(batch[i])] \in Seq(Seq(Said) \ {<<>>})
           /\ Len(batch) \in Nat
<1> DEFINE S == Listed(from, to)
<1>1. S \subseteq Open /\ Open \subseteq Event
    BY SyncAssumption DEF Listed, Open
<1>2. Cardinality(S) \in Nat
    BY <1>1, SyncAssumption, FS_Subset, FS_CardinalityType
<1>3. batch \in [1 .. Cardinality(S) -> S]
    BY DEF InOrder, SetToSeqs
<1>4. batch \in Seq(S) /\ Len(batch) \in Nat
    BY <1>2, <1>3
<1>5. \A i \in 1 .. Len(batch) : Nested(batch[i]) \in Seq(Said) \ {<<>>}
    BY <1>1, <1>4, ElementOfSeq, NestedSays
<1> HIDE DEF S
<1>6. QED BY <1>4, <1>5

\* The first market of the first event is taken.
LEMMA RestSays ==
    ASSUME NEW events \in Seq(Seq(Said) \ {<<>>}), events # <<>>
    PROVE  events[1][1] \in Said /\ Rest(events) \in Seq(Seq(Said) \ {<<>>})
<1> DEFINE S == Seq(Said) \ {<<>>}
<1>1. events[1] \in S /\ Tail(events) \in Seq(S)
    BY HeadTailProperties, ElementOfSeq
<1>2. events[1][1] \in Said /\ Len(events[1]) \in Nat
    BY <1>1
<1>3. CASE Len(events[1]) > 1
    <2>1. Tail(events[1]) \in Seq(Said) /\ Len(Tail(events[1])) = Len(events[1]) - 1
        BY <1>1, <1>2, <1>3, HeadTailProperties
    <2>2. Tail(events[1]) \in S
        <3>1. Len(Tail(events[1])) > 0
            BY <1>2, <1>3, <2>1
        <3>2. Tail(events[1]) # <<>>
            <4>1. \A t \in Seq(Said) : Len(t) > 0 => t # <<>>
                OBVIOUS
            <4>2. QED BY <2>1, <3>1, <4>1, Zenon
        <3>3. QED BY <2>1, <3>2
    <2>3. <<Tail(events[1])>> \o Tail(events) \in Seq(S)
        BY <1>1, <2>2, ConcatProperties
    <2>4. QED BY <1>2, <1>3, <2>3 DEF Rest
<1>4. CASE ~(Len(events[1]) > 1)
    BY <1>1, <1>2, <1>4 DEF Rest
<1>5. QED BY <1>3, <1>4

\* A market that is not among some is another leg.
LEMMA LegJoins ==
    ASSUME NEW S, NEW ms \in Seq(S), NEW m, m \notin S, IsInjective(ms),
           NEW more, more = Append(ms, m)
    PROVE  /\ more \in Seq(S \cup {m})
           /\ \A i, j \in DOMAIN more : more[i] = more[j] => i = j
           /\ \A i \in DOMAIN more : more[i] = m \/ (i \in DOMAIN ms /\ more[i] = ms[i])
<1>1. Len(ms) \in Nat /\ DOMAIN ms = 1 .. Len(ms) /\ \A i \in 1 .. Len(ms) : ms[i] \in S
    BY ElementOfSeq
<1>2. /\ DOMAIN more = 1 .. Len(ms) + 1
      /\ \A i \in 1 .. Len(ms) : more[i] = ms[i]
      /\ more[Len(ms) + 1] = m
    BY <1>1
<1>3. more \in Seq(S \cup {m})
    BY <1>1
<1>4. ASSUME NEW i \in DOMAIN more, NEW j \in DOMAIN more, more[i] = more[j] PROVE i = j
    <2>1. CASE i \in 1 .. Len(ms) /\ j \in 1 .. Len(ms)
        BY <1>1, <1>2, <1>4, <2>1 DEF IsInjective
    <2>2. CASE i = Len(ms) + 1 \/ j = Len(ms) + 1
        BY <1>1, <1>2, <1>4, <2>2
    <2>3. QED BY <1>1, <1>2, <2>1, <2>2
<1>5. \A i \in DOMAIN more : more[i] = m \/ (i \in DOMAIN ms /\ more[i] = ms[i])
    BY <1>1, <1>2
<1>6. QED BY <1>3, <1>4, <1>5

----------------------------------------------------------------------------

\* Every step keeps the shape of the catalogue.
LEMMA CatalogueHolds == CatalogueInv /\ [SyncNext]_syncVars => CatalogueInv'
<1> SUFFICES ASSUME CatalogueInv, [SyncNext]_syncVars PROVE CatalogueInv'
    OBVIOUS
<1>1. ASSUME UNCHANGED catalogue, moves' = moves, faults' \in {faults, faults + 1} PROVE CatalogueInv'
    BY <1>1 DEF catalogue, CatalogueInv
<1>2. ASSUME NEW m \in Market, MarketCloses(m) PROVE CatalogueInv'
    <2>1. gamma' = [gamma EXCEPT ![m] = [gamma[m] EXCEPT !.closed = TRUE]]
        BY <1>2 DEF MarketCloses
    <2>2. /\ [gamma[m] EXCEPT !.closed = TRUE] \in [closed : BOOLEAN, rules : {NoText, 1, 2}]
          /\ [gamma[m] EXCEPT !.closed = TRUE].rules = gamma[m].rules
        BY DEF CatalogueInv
    <2>3. QED BY <1>2, <2>1, <2>2 DEF MarketCloses, CatalogueMoves, CatalogueInv
<1>3. ASSUME NEW m \in Market, RulesChange(m) PROVE CatalogueInv'
    <2>1. PICK v \in RulesOf(m) : gamma' = [gamma EXCEPT ![m] = [gamma[m] EXCEPT !.rules = v]]
        BY <1>3 DEF RulesChange
    <2>2. /\ [gamma[m] EXCEPT !.rules = v] \in [closed : BOOLEAN, rules : {NoText, 1, 2}]
          /\ [gamma[m] EXCEPT !.rules = v].rules = v
        BY DEF CatalogueInv, RulesOf
    <2>3. QED BY <1>3, <2>1, <2>2 DEF RulesChange, CatalogueMoves, CatalogueInv
<1>4. ASSUME NEW m \in Market, EndDatePasses(m) PROVE CatalogueInv'
    BY <1>4 DEF EndDatePasses, CatalogueInv
<1>5. ASSUME NEW order \in SetToSeqs(Event), RankingChanges(order) PROVE CatalogueInv'
    BY <1>5 DEF RankingChanges, CatalogueMoves, CatalogueInv
<1>6. ASSUME NEW m, Refresh(m) \/ RefreshFails(m) PROVE CatalogueInv'
    BY <1>1, <1>6 DEF Refresh, RefreshFails
<1>7. CASE StartPass \/ FetchPage \/ SelectPastEnd \/ StartWriting \/ WriteMarket \/ Publish
    BY <1>1, <1>7 DEF StartPass, FetchPage, SelectPastEnd, StartWriting, WriteMarket, Publish
<1>8. CASE Abort \/ Restart \/ UNCHANGED syncVars
    BY <1>1, <1>8 DEF Abort, Restart, syncVars, catalogue
<1>9. QED BY <1>2, <1>3, <1>4, <1>5, <1>6, <1>7, <1>8 DEF SyncNext, Pass

\* No row is ever lost.
Grows == Stored \subseteq Stored'

\* Every step keeps the rows: a refresh is of a market that has one, and a market is
\* written with its group and its rules.
LEMMA TablesHold ==
    CatalogueInv /\ TablesInv /\ PassInv /\ [SyncNext]_syncVars => TablesInv' /\ Grows
<1> SUFFICES ASSUME CatalogueInv, TablesInv, PassInv, [SyncNext]_syncVars PROVE TablesInv' /\ Grows
    OBVIOUS
<1>1. ASSUME UNCHANGED tables PROVE TablesInv' /\ Grows
    BY <1>1 DEF tables, TablesInv, Stored, Grows, GroupOf, HasRules
<1>2. ASSUME NEW m \in asked, Refresh(m) PROVE TablesInv' /\ Grows
    <2>1. m \in Market /\ rows[m] \in Row /\ rows[m].group = GroupOf(m) /\ gamma[m].closed \in BOOLEAN
        BY DEF PassInv, Stored, TablesInv, CatalogueInv
    <2>2. rows' = [rows EXCEPT ![m] = [rows[m] EXCEPT !.closed = gamma[m].closed]] /\ rules' = rules
        BY <1>2 DEF Refresh
    <2>3. [rows[m] EXCEPT !.closed = gamma[m].closed] \in Row
        BY <2>1 DEF Row
    <2>4. rows'[m] \in Row /\ rows'[m].group = GroupOf(m) /\ \A k \in Market \ {m} : rows'[k] = rows[k]
        BY <2>1, <2>2, <2>3 DEF TablesInv, Row
    <2>5. rows' \in [Market -> Row \cup {NoRow}]
        BY <2>2, <2>3 DEF TablesInv
    <2>6. rows[m] # NoRow /\ rows'[m] # NoRow
        BY <2>1, <2>4, SyncAssumption
    <2>7. QED BY <2>1, <2>2, <2>4, <2>5, <2>6 DEF TablesInv, Stored, Grows, GroupOf, HasRules
<1>3. CASE WriteMarket
    <2> DEFINE x == fetched[1][1]
               m == x.market
               row == [closed |-> x.closed, group |-> GroupOf(m)]
    <2>1. x \in Said
        BY <1>3, RestSays DEF WriteMarket, PassInv
    <2>2. CASE Usable(x)
        <3>1. m \in Market /\ row \in Row /\ row.group = GroupOf(m) /\ x.rules \in RulesOf(m)
            BY <2>1 DEF Said, Row, GroupOf
        <3>2. /\ rows' = [rows EXCEPT ![m] = row]
              /\ rules' = [rules EXCEPT ![m] = @ \cup ({x.rules} \ {NoText})]
            BY <1>3, <2>2 DEF WriteMarket
        <3> HIDE DEF x, m, row
        <3>3. row # NoRow
            BY <3>1, SyncAssumption
        <3>4. rows' \in [Market -> Row \cup {NoRow}] /\ rules' \in [Market -> SUBSET {1, 2}]
            BY <3>1, <3>2 DEF TablesInv, RulesOf
        <3>5. ASSUME NEW k \in Market
              PROVE  /\ rows'[k] # NoRow => rows'[k].group = GroupOf(k) /\ HasRules(k)'
                     /\ rows[k] # NoRow => rows'[k] # NoRow
            <4>1. CASE k = m
                <5>1. x.rules = NoText => m \in Silent
                    BY <3>1 DEF RulesOf, NoText
                <5>2. x.rules # NoText => rules'[m] # {}
                    BY <3>1, <3>2 DEF TablesInv
                <5>3. QED BY <3>1, <3>2, <3>3, <4>1, <5>1, <5>2 DEF TablesInv, HasRules
            <4>2. CASE k # m
                BY <3>1, <3>2, <4>2 DEF TablesInv, HasRules
            <4>3. QED BY <4>1, <4>2
        <3>6. QED BY <3>4, <3>5 DEF TablesInv, Stored, Grows, GroupOf, HasRules
    <2>3. CASE ~Usable(x)
        BY <1>1, <1>3, <2>3 DEF WriteMarket
    <2>4. QED BY <2>2, <2>3
<1>4. CASE \E m \in Market : MarketCloses(m) \/ RulesChange(m) \/ EndDatePasses(m)
    BY <1>1, <1>4 DEF MarketCloses, RulesChange, EndDatePasses, CatalogueMoves
<1>5. CASE \E order \in SetToSeqs(Event) : RankingChanges(order)
    BY <1>1, <1>5 DEF RankingChanges, CatalogueMoves
<1>6. CASE StartPass \/ FetchPage \/ SelectPastEnd \/ StartWriting \/ Publish
    BY <1>1, <1>6 DEF StartPass, FetchPage, SelectPastEnd, StartWriting, Publish
<1>7. CASE (\E m \in asked : RefreshFails(m)) \/ Abort \/ Restart \/ UNCHANGED syncVars
    BY <1>1, <1>7 DEF RefreshFails, Abort, Restart, syncVars, tables
<1>8. QED BY <1>2, <1>3, <1>4, <1>5, <1>6, <1>7 DEF SyncNext, Pass

\* A pass that is over has read and written nothing.
LEMMA PassOverHolds == PassOver => PassInv'
<1> SUFFICES ASSUME PassOver PROVE PassInv'
    OBVIOUS
<1>1. legs' = [e \in NegRisk |-> <<>>] /\ seen' = {} /\ IsFiniteSet({})
    BY FS_EmptySet DEF PassOver
<1>2. \A e \in NegRisk : Distinct(e, legs[e])'
    BY <1>1 DEF Distinct, IsInjective
<1>3. legs' \in [NegRisk -> Seq(seen')]
    BY <1>1
<1>4. QED BY <1>1, <1>2, <1>3 DEF PassOver, PassInv

\* Every step keeps what is said of the pass.
LEMMA PassHolds ==
    CatalogueInv /\ TablesInv /\ PassInv /\ Grows /\ [SyncNext]_syncVars => PassInv'
<1> SUFFICES ASSUME CatalogueInv, TablesInv, PassInv, Grows, [SyncNext]_syncVars PROVE PassInv'
    OBVIOUS
<1>1. ASSUME UNCHANGED <<seen, legs>>
      PROVE  /\ seen' \subseteq Stored' /\ IsFiniteSet(seen')
             /\ legs' \in [NegRisk -> Seq(seen')]
             /\ \A e \in NegRisk : Distinct(e, legs[e])'
    <2>1. ASSUME NEW e \in NegRisk PROVE Distinct(e, legs[e])'
        <3>1. Distinct(e, legs[e])
            BY DEF PassInv
        <3>2. QED BY <1>1, <3>1 DEF Distinct, Grows
    <2>2. QED BY <1>1, <2>1 DEF PassInv, Grows
<1>2. ASSUME UNCHANGED pass PROVE PassInv'
    BY <1>1, <1>2 DEF pass, PassInv, Grows
<1>3. CASE StartPass
    BY <1>1, <1>3 DEF StartPass, PassInv, Grows
<1>4. CASE FetchPage
    <2>1. PICK batch \in InOrder(Listed(offset, offset + Page)) :
              /\ fetched' = fetched \o [i \in 1 .. Len(batch) |-> Nested(batch[i])]
              /\ offset' = offset + Len(batch)
              /\ pc' = IF batch = <<>> \/ offset' >= MaxEvents THEN "select" ELSE "pages"
        BY <1>4 DEF FetchPage
    <2> DEFINE page == [i \in 1 .. Len(batch) |-> Nested(batch[i])]
    <2>2. page \in Seq(Seq(Said) \ {<<>>}) /\ Len(batch) \in Nat
        BY PageSays
    <2> HIDE DEF page
    <2>3. fetched' \in Seq(Seq(Said) \ {<<>>})
        BY <2>1, <2>2, ConcatProperties DEF page, PassInv
    <2>4. offset' \in Nat /\ UNCHANGED <<asked, seen, legs>>
        BY <1>4, <2>1, <2>2 DEF FetchPage, PassInv
    <2>5. QED BY <1>1, <2>1, <2>3, <2>4 DEF PassInv, Grows
<1>5. CASE SelectPastEnd
    <2>1. PastEnd \subseteq Stored
        BY DEF PastEnd, TopOf, Overdue, Stored, CatalogueInv
    <2>2. QED BY <1>1, <1>5, <2>1 DEF SelectPastEnd, PassInv, Grows
<1>6. ASSUME NEW m \in asked, Refresh(m) \/ RefreshFails(m) PROVE PassInv'
    BY <1>1, <1>6 DEF Refresh, RefreshFails, PassInv, Grows
<1>7. CASE StartWriting
    BY <1>1, <1>7 DEF StartWriting, PassInv, Grows
<1>8. CASE WriteMarket
    <2> DEFINE x == fetched[1][1]
               m == x.market
    <2>1. x \in Said /\ Rest(fetched) \in Seq(Seq(Said) \ {<<>>})
        BY <1>8, RestSays DEF WriteMarket, PassInv
    <2>2. /\ fetched' = Rest(fetched) /\ asked' = asked /\ offset' = offset /\ pc' = pc
        BY <1>8 DEF WriteMarket
    <2>3. CASE Usable(x)
        <3>1. m \in Market /\ m \notin seen
            BY <2>1, <2>3 DEF Said, Usable
        <3>2. /\ rows' = [rows EXCEPT ![m] = [closed |-> x.closed, group |-> GroupOf(m)]]
              /\ seen' = seen \cup {m}
              /\ legs' = IF GroupOf(m) = NoGroup THEN legs
                         ELSE [legs EXCEPT ![GroupOf(m)] = Append(@, m)]
            BY <1>8, <2>3 DEF WriteMarket
        <3>3. [closed |-> x.closed, group |-> GroupOf(m)] \in Row
            BY <2>1 DEF Said, Row, GroupOf
        <3> HIDE DEF m, x
        <3>4. m \in Stored'
            <4>1. rows'[m] \in Row
                BY <3>1, <3>2, <3>3 DEF TablesInv
            <4>2. QED BY <3>1, <4>1, SyncAssumption DEF Stored
        <3>5. seen' \subseteq Stored' /\ IsFiniteSet(seen')
            BY <3>2, <3>4, FS_AddElement DEF PassInv, Grows
        <3>6. ASSUME NEW e \in NegRisk PROVE legs'[e] \in Seq(seen') /\ Distinct(e, legs[e])'
            <4>1. legs[e] \in Seq(seen) /\ Distinct(e, legs[e])
                BY DEF PassInv
            <4>2. CASE e = GroupOf(m)
                <5>1. GroupOf(m) # NoGroup /\ EventOf[m] = e
                    BY <4>2, SyncAssumption DEF GroupOf
                <5>2. legs'[e] = Append(legs[e], m)
                    BY <3>2, <4>2, <5>1 DEF PassInv
                <5>3. /\ legs'[e] \in Seq(seen \cup {m})
                      /\ IsInjective(legs'[e])
                      /\ \A i \in DOMAIN legs'[e] :
                             legs'[e][i] = m \/ (i \in DOMAIN legs[e] /\ legs'[e][i] = legs[e][i])
                    <6>1. IsInjective(legs[e])
                        BY <4>1 DEF Distinct
                    <6>2. QED BY <3>1, <4>1, <5>2, <6>1, LegJoins DEF IsInjective
                <5>4. QED BY <3>2, <3>4, <4>1, <5>1, <5>3 DEF Distinct, Grows
            <4>3. CASE e # GroupOf(m)
                <5>1. legs'[e] = legs[e]
                    BY <3>2, <4>3 DEF PassInv
                <5>2. QED BY <3>2, <4>1, <5>1, SeqMonotonic DEF Distinct, Grows
            <4>4. QED BY <4>2, <4>3
        <3>7. legs' = [e \in NegRisk |-> legs'[e]]
            BY <3>2 DEF PassInv
        <3>8. legs' \in [NegRisk -> Seq(seen')]
            BY <3>6, <3>7
        <3>9. QED BY <2>1, <2>2, <3>5, <3>6, <3>8 DEF PassInv, Grows, x
    <2>4. CASE ~Usable(x)
        <3>1. UNCHANGED <<seen, legs>>
            BY <1>8, <2>4 DEF WriteMarket
        <3>2. QED BY <1>1, <2>1, <2>2, <3>1 DEF PassInv, Grows
    <2>5. QED BY <2>3, <2>4
<1>9. CASE Publish \/ Abort \/ Restart
    BY <1>9, PassOverHolds DEF Publish, Abort, Restart
<1>10. CASE \E m \in Market : MarketCloses(m) \/ RulesChange(m) \/ EndDatePasses(m)
    BY <1>2, <1>10 DEF MarketCloses, RulesChange, EndDatePasses, CatalogueMoves
<1>11. CASE (\E order \in SetToSeqs(Event) : RankingChanges(order)) \/ UNCHANGED syncVars
    BY <1>2, <1>11 DEF RankingChanges, CatalogueMoves, syncVars, pass
<1>12. QED BY <1>3, <1>4, <1>5, <1>6, <1>7, <1>8, <1>9, <1>10, <1>11 DEF SyncNext, Pass

\* Every step keeps what others see: groups and tracked markets have rows.
LEMMA SharedHolds == PassInv /\ SharedInv /\ Grows /\ [SyncNext]_syncVars => SharedInv'
<1> SUFFICES ASSUME PassInv, SharedInv, Grows, [SyncNext]_syncVars PROVE SharedInv'
    OBVIOUS
<1>1. ASSUME UNCHANGED shared PROVE SharedInv'
    <2>1. ASSUME NEW e \in DOMAIN groups PROVE Len(groups[e]) >= 2 /\ Distinct(e, groups[e])'
        <3>1. Len(groups[e]) >= 2 /\ Distinct(e, groups[e])
            BY DEF SharedInv
        <3>2. QED BY <1>1, <3>1 DEF Distinct, Grows, shared
    <2>2. QED BY <1>1, <2>1 DEF shared, SharedInv, Grows
<1>2. CASE Publish
    <2>1. tracked' = Trackable /\ groups' = [e \in {e \in NegRisk : Len(legs[e]) >= 2} |-> legs[e]]
        BY <1>2 DEF Publish
    <2>2. Trackable \subseteq seen /\ Cardinality(Trackable) <= TopN
        <3> DEFINE S == {m \in seen : Liquidity[m] >= Floor}
        <3>1. S \in SUBSET Market /\ IsFiniteSet(S) /\ TopN \in Nat
            BY FS_Subset, SyncAssumption DEF PassInv, Stored
        <3>2. QED BY <3>1, TopOfSize DEF Trackable
    <2>3. ASSUME NEW e \in DOMAIN groups'
          PROVE  e \in NegRisk /\ Len(groups'[e]) >= 2 /\ Distinct(e, groups[e])'
        <3>1. e \in NegRisk /\ groups'[e] = legs[e] /\ Len(legs[e]) >= 2 /\ Distinct(e, legs[e])
            BY <2>1, <2>3 DEF PassInv
        <3>2. QED BY <3>1 DEF Distinct, Grows
    <2>4. QED BY <2>1, <2>2, <2>3 DEF SharedInv, PassInv, Grows
<1>3. CASE Restart
    <2>1. tracked' = {} /\ groups' = [e \in {} |-> <<>>] /\ TopN \in Nat /\ Cardinality({}) = 0
        BY <1>3, SyncAssumption, FS_EmptySet DEF Restart
    <2>2. QED BY <2>1 DEF SharedInv
<1>4. CASE StartPass \/ FetchPage \/ SelectPastEnd \/ StartWriting \/ WriteMarket \/ Abort
    BY <1>1, <1>4 DEF StartPass, FetchPage, SelectPastEnd, StartWriting, WriteMarket, Abort
<1>5. CASE \E m \in asked : Refresh(m) \/ RefreshFails(m)
    BY <1>1, <1>5 DEF Refresh, RefreshFails
<1>6. CASE \E m \in Market : MarketCloses(m) \/ RulesChange(m) \/ EndDatePasses(m)
    BY <1>1, <1>6 DEF MarketCloses, RulesChange, EndDatePasses, CatalogueMoves
<1>7. CASE (\E order \in SetToSeqs(Event) : RankingChanges(order)) \/ UNCHANGED syncVars
    BY <1>1, <1>7 DEF RankingChanges, CatalogueMoves, syncVars, shared
<1>8. QED BY <1>2, <1>3, <1>4, <1>5, <1>6, <1>7 DEF SyncNext, Pass

\* At the start there are no rows, no groups and nothing tracked.
LEMMA SyncStart == SyncInit => SyncInv
<1> SUFFICES ASSUME SyncInit PROVE SyncInv
    OBVIOUS
<1>1. CatalogueInv /\ TablesInv
    BY DEF SyncInit, CatalogueInv, TablesInv, RulesOf
<1>2. legs = [e \in NegRisk |-> <<>>] /\ seen = {} /\ IsFiniteSet({}) /\ Cardinality({}) = 0
    BY FS_EmptySet DEF SyncInit
<1>3. \A e \in NegRisk : Distinct(e, legs[e])
    BY <1>2 DEF Distinct, IsInjective
<1>4. legs \in [NegRisk -> Seq(seen)]
    BY <1>2
<1>5. PassInv
    BY <1>2, <1>3, <1>4 DEF SyncInit, PassInv
<1>6. SharedInv
    BY <1>2, SyncAssumption DEF SyncInit, SharedInv
<1>7. QED BY <1>1, <1>5, <1>6 DEF SyncInv

\* Whatever the catalogue does between the pages and wherever a pass is cut short
\* (sync_markets), the invariant of the sync holds.
THEOREM SyncInductive == SyncSpec => []SyncInv
<1>1. SyncInit => SyncInv
    BY SyncStart
<1>2. SyncInv /\ [SyncNext]_syncVars => SyncInv'
    BY CatalogueHolds, TablesHold, PassHolds, SharedHolds DEF SyncInv
<1>3. QED BY <1>1, <1>2, PTL DEF SyncSpec

\* No more markets are tracked than track_top_n, and each has a row.
THEOREM SyncTypeCorrect == SyncSpec => []SyncTypeOK
<1>1. QED BY SyncInvTypes, SyncInductive, PTL

\* The legs of a group the scanner adds up are different markets, and each has its row and,
\* unless the catalogue may list it without a text, its rules (neg_risk_groups).
THEOREM GroupsAreSound == SyncSpec => []GroupsSound
<1>1. QED BY SyncInvGroups, SyncInductive, PTL
============================================================================
