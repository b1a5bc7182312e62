---------------------------- MODULE DatasetPaging ----------------------------
(***************************************************************************)
(* The data routes of a dataset: events, hourly flows and top depositors,  *)
(* read page by page with keyset cursors while the PostgreSQL sink appends *)
(* blocks, or takes the last one back when the chain reorganises.          *)
(*                                                                         *)
(* A page is one SQL statement, hence one snapshot; a client that follows  *)
(* nextCursor sees as many snapshots as pages.  Every request first checks *)
(* that the pipeline is LIVE and the sink has a cursor; the page is read   *)
(* later, after the payment.                                               *)
(***************************************************************************)
EXTENDS Integers, Sequences, SequencesExt, FiniteSetsExt

CONSTANTS Readers,    \* clients
          MaxBlock,   \* bound: blocks the sink writes
          Forks,      \* alternatives for a block
          LogsOf,     \* LogsOf[b][f]: filtered logs in alternative f of block b
          HourOf,     \* HourOf[b]: the hour of block b
          Queries,    \* filters and limits the clients use
          MaxUndos,   \* bound: blocks taken back
          None

Blocks == 1..MaxBlock
Resources == {"events", "hourlyFlows", "topDepositors"}
EventTypes == {"DEPOSIT", "WITHDRAW"}
Log == [tx : Nat, index : Nat, topic : {"Deposit", "Withdraw", "other"}, vault : Nat,
        owner : Nat, assets : Nat]
\* The sort key of a row; the cursor after that row is its key.
Key == (Nat \X Nat) \cup (Nat \X Nat \X Nat)
Query == [vault : Nat \cup {None}, type : EventTypes \cup {None}, owner : Nat \cup {None},
          from : Nat \cup {None}, to : Nat \cup {None}, limit : Nat \ {0}]

ASSUME PagingAssumption ==
  /\ MaxBlock \in Nat \ {0}
  /\ MaxUndos \in Nat
  /\ None \notin Nat \cup EventTypes \cup Key \cup Queries
  /\ \A b \in Blocks, f \in Forks : LogsOf[b][f] \in SUBSET Log /\ IsFiniteSet(LogsOf[b][f])
  /\ HourOf \in [Blocks -> Nat]
  /\ \A q \in Queries : q \in Query

VARIABLES
  rows,     \* vault_events
  height,   \* the block of the sink's cursor, 0: no cursor yet
  live,     \* the pipeline is LIVE
  reader,   \* the walk of each client
  stable,   \* history: keys the walk could have returned ever since its first page
  undos

vars == <<rows, height, live, reader, stable, undos>>

Idle == [pc |-> "idle", resource |-> "events", query |-> None, cursor |-> None,
         returned |-> <<>>]

Init ==
  /\ rows = {}
  /\ height = 0
  /\ live = TRUE
  /\ reader = [c \in Readers |-> Idle]
  /\ stable = [c \in Readers |-> {}]
  /\ undos = 0
-----------------------------------------------------------------------------
(* The table and its views.                                                *)

\* map_vault_events: logs of other topics are skipped.
Decoded(logs) == {l \in logs : l.topic # "other"}

\* db_out: one row per event.  Its event_id is made of transaction and log index.
DbOut(logs, b) ==
  {[tx |-> l.tx, log |-> l.index, type |-> IF l.topic = "Deposit" THEN "DEPOSIT" ELSE "WITHDRAW",
    vault |-> l.vault, owner |-> l.owner, assets |-> l.assets, block |-> b, hour |-> HourOf[b]] :
     l \in Decoded(logs)}

\* Mutant: all assets flow in.
Unsigned(r) == r.assets
\* Deposits flow in, withdrawals out.
Signed(r) == IF r.type = "DEPOSIT" THEN r.assets ELSE 0 - r.assets

\* hourly_vault_flows: one row per vault and hour.
FlowsIn(table) ==
  {[vault |-> r.vault, hour |-> r.hour,
    net |-> MapThenSumSet(Signed, {s \in table : s.vault = r.vault /\ s.hour = r.hour})] :
     r \in table}

\* Mutant: withdrawals count as well.
AllOf(table) == table
DepositsOf(table) == {r \in table : r.type = "DEPOSIT"}

\* The aggregate of topDepositors: one row per owner.
DepositorsIn(table) ==
  {[owner |-> r.owner,
    sum |-> MapThenSumSet(LAMBDA s : s.assets, {s \in DepositsOf(table) : s.owner = r.owner})] :
     r \in DepositsOf(table)}

Among(value, filter) == filter = None \/ value = filter
Within(time, q) == (q.from = None \/ time >= q.from) /\ (q.to = None \/ time < q.to)

\* What the three methods select, each row as its sort key, which is also its cursor.
\* Times are hours here, the same for a block and for its flow row.
EventKeys(table, q) ==
  {<<r.block, r.log, r.tx>> :
     r \in {s \in table : Among(s.vault, q.vault) /\ Among(s.type, q.type)
                            /\ Among(s.owner, q.owner) /\ Within(s.hour, q)}}

FlowKeys(table, q) ==
  {<<f.hour, f.vault>> :
     f \in {g \in FlowsIn(table) : Among(g.vault, q.vault) /\ Within(g.hour, q)}}

DepositorKeys(table, q) ==
  {<<d.sum, d.owner>> :
     d \in DepositorsIn({r \in table : Among(r.vault, q.vault) /\ Within(r.hour, q)})}

Keys(table, resource, q) ==
  CASE resource = "events"        -> EventKeys(table, q)
    [] resource = "hourlyFlows"   -> FlowKeys(table, q)
    [] resource = "topDepositors" -> DepositorKeys(table, q)
-----------------------------------------------------------------------------
(* One page.                                                               *)

\* The order of SQL row values.
Less(k, m) ==
  \E i \in DOMAIN k : k[i] < m[i] /\ \A j \in 1..(i - 1) : k[j] = m[j]

\* Mutant: the row at the cursor comes again.
FromCursor(k, cursor) == k = cursor \/ Less(k, cursor)
\* (block_number, log_index, event_id) < cursor, and its like.
AfterCursor(k, cursor) == Less(k, cursor)

Take(s, n) == SubSeq(s, 1, IF Len(s) < n THEN Len(s) ELSE n)

\* The keys that come before k.
Above(k, keys) == {m \in keys : Less(k, m)}
\* ORDER BY ... DESC: the i-th of the keys is the one with i - 1 before it.
Descending(keys) ==
  [i \in 1..Cardinality(keys) |-> CHOOSE k \in keys : Cardinality(Above(k, keys)) = i - 1]

\* LIMIT limit + 1, which tells whether there is a next page.
Select(keys, cursor, limit) ==
  LET after == {k \in keys : cursor = None \/ AfterCursor(k, cursor)}
  IN Take(Descending(after), limit + 1)

Items(selected, limit) == Take(selected, limit)

\* Mutant: the cursor is taken from the row that only shows that there are more.
LastSelected(selected, limit) ==
  IF Len(selected) > limit THEN Last(selected) ELSE None
NextCursor(selected, limit) ==
  IF Len(selected) > limit THEN selected[limit] ELSE None
-----------------------------------------------------------------------------
(* A client follows the cursors of one query.                              *)

Start(c, resource, q) ==
  /\ reader[c].pc = "idle"
  /\ reader' = [reader EXCEPT ![c] =
       [Idle EXCEPT !.pc = "check", !.resource = resource, !.query = q]]
  /\ UNCHANGED <<rows, height, live, stable, undos>>

\* Mutant: a dataset that is not live is waited for.
AwaitLive(c) ==
  /\ reader[c].pc = "check"
  /\ live /\ height > 0
  /\ reader' = [reader EXCEPT ![c].pc = "page"]
  /\ UNCHANGED <<rows, height, live, stable, undos>>
\* requireLiveDataset; what it found is not looked at again.
CheckLive(c) ==
  /\ reader[c].pc = "check"
  /\ reader' = [reader EXCEPT ![c].pc = IF live /\ height > 0 THEN "page" ELSE "failed"]
  /\ UNCHANGED <<rows, height, live, stable, undos>>

\* DatasetService.events, hourlyFlows and topDepositors.
ReadPage(c) ==
  LET w == reader[c]
      keys == Keys(rows, w.resource, w.query)
      selected == Select(keys, w.cursor, w.query.limit)
      next == NextCursor(selected, w.query.limit)
  IN
  /\ w.pc = "page"
  /\ reader' = [reader EXCEPT ![c] =
       [w EXCEPT !.pc = IF next = None THEN "done" ELSE "check",
                 !.cursor = next,
                 !.returned = @ \o Items(selected, w.query.limit)]]
  /\ stable' = [stable EXCEPT ![c] = IF w.cursor = None THEN keys ELSE @]
  /\ UNCHANGED <<rows, height, live, undos>>

\* Keys that go, or change, are not expected of the walk any more.
StillStable(table) ==
  stable' = [c \in Readers |->
    IF reader[c].pc = "idle" THEN {}
    ELSE stable[c] \cap Keys(table, reader[c].resource, reader[c].query)]
-----------------------------------------------------------------------------
(* The sink and the operator.                                              *)

\* The next block: its rows and the cursor in one transaction.
SinkWrites(f) ==
  LET b == height + 1 IN
  /\ b \in Blocks
  /\ rows' = rows \cup DbOut(LogsOf[b][f], b)
  /\ height' = b
  /\ StillStable(rows')
  /\ UNCHANGED <<live, reader, undos>>

\* The chain gives the last block up: the sink takes its rows back.
SinkUndoes ==
  /\ undos < MaxUndos
  /\ height > 1
  /\ rows' = {r \in rows : r.block < height}
  /\ height' = height - 1
  /\ undos' = undos + 1
  /\ StillStable(rows')
  /\ UNCHANGED <<live, reader>>

\* The pipeline leaves LIVE: a cancel, a rebuild or the end of its sink.
Retire ==
  /\ live
  /\ live' = FALSE
  /\ UNCHANGED <<rows, height, reader, stable, undos>>

Next ==
  \/ \E c \in Readers, resource \in Resources, q \in Queries : Start(c, resource, q)
  \/ \E c \in Readers : CheckLive(c) \/ ReadPage(c)
  \/ \E f \in Forks : SinkWrites(f)
  \/ SinkUndoes \/ Retire

Spec == Init /\ [][Next]_vars

\* A client goes on as long as there is a next page; requests are answered.
FairSpec == Spec /\ \A c \in Readers : WF_vars(CheckLive(c) \/ ReadPage(c))
-----------------------------------------------------------------------------
(* Properties.                                                             *)

Row == [tx : Nat, log : Nat, type : EventTypes, vault : Nat, owner : Nat, assets : Nat,
        block : Blocks, hour : Nat]
Walk == [pc : {"idle", "check", "page", "done", "failed"}, resource : Resources,
         query : Queries \cup {None}, cursor : Key \cup {None}, returned : Seq(Key)]

\* The sink's table is finite and holds rows of the blocks up to its cursor, and a client
\* that has started holds the query it began with.
TypeOK ==
  /\ rows \subseteq Row /\ IsFiniteSet(rows)
  /\ \A r \in rows : r.block <= height
  /\ height \in 0..MaxBlock
  /\ live \in BOOLEAN
  /\ reader \in [Readers -> Walk]
  /\ \A c \in Readers : reader[c].pc # "idle" => reader[c].query \in Queries
  /\ stable \in [Readers -> SUBSET Key]
  /\ undos \in 0..MaxUndos

\* No position comes twice in a walk, and pages join in descending order, however many
\* blocks are written or taken back between two of them.
WalkDescends ==
  \A c \in Readers : LET s == reader[c].returned IN
    \A i, j \in DOMAIN s : i < j => Less(s[j], s[i])

\* A walk that came to its end has returned every row that was there, at the same position,
\* from its first page to its last.  Top depositors whose sum changes have no position to
\* keep, so nothing is promised for them.
NothingStableIsSkipped ==
  \A c \in Readers : reader[c].pc = "done" => stable[c] \subseteq ToSet(reader[c].returned)

KeysOf(resource) == IF resource = "events" THEN Nat \X Nat \X Nat ELSE Nat \X Nat

\* What is returned are keys of the resource, the last of them the cursor.
CursorIsLast ==
  \A c \in Readers : LET w == reader[c] IN
    /\ \A i \in DOMAIN w.returned : w.returned[i] \in KeysOf(w.resource)
    /\ w.cursor # None => w.returned # <<>> /\ w.cursor = Last(w.returned)

\* Before its first page a walk has nothing.
NothingBeforeFirstPage ==
  \A c \in Readers : LET w == reader[c] IN
    w.pc = "idle" \/ (w.pc \in {"check", "page"} /\ w.cursor = None) =>
      w.returned = <<>> /\ stable[c] = {}

\* What could always have been returned is in the table still.
StableIsThere ==
  \A c \in Readers : LET w == reader[c] IN
    w.pc # "idle" => stable[c] \subseteq Keys(rows, w.resource, w.query)

\* What could always have been returned is returned, or follows the cursor.
StableIsAhead ==
  \A c \in Readers : LET w == reader[c] IN
    w.pc \in {"check", "page"} /\ w.cursor # None =>
      \A k \in stable[c] : k \in ToSet(w.returned) \/ Less(k, w.cursor)

\* Why walks descend and skip nothing: an inductive invariant.
PagingInv ==
  /\ TypeOK /\ CursorIsLast /\ NothingBeforeFirstPage /\ StableIsThere /\ StableIsAhead
  /\ WalkDescends /\ NothingStableIsSkipped

\* A walk does come to its end, although the sink goes on writing.
WalkEnds ==
  \A c \in Readers : (reader[c].pc = "check") ~> (reader[c].pc \in {"done", "failed"})

\* The three resources tell the same story: net flows add up to the signed events of their
\* vault, and the sums of the depositors to the deposits.
AggregatesAgree ==
  /\ \A v \in {r.vault : r \in rows} :
       MapThenSumSet(LAMBDA f : f.net, {f \in FlowsIn(rows) : f.vault = v})
         = MapThenSumSet(LAMBDA r : r.assets,
                         {r \in rows : r.vault = v /\ r.type = "DEPOSIT"})
           - MapThenSumSet(LAMBDA r : r.assets,
                           {r \in rows : r.vault = v /\ r.type = "WITHDRAW"})
  /\ MapThenSumSet(LAMBDA d : d.sum, DepositorsIn(rows))
       = MapThenSumSet(LAMBDA r : r.assets, {r \in rows : r.type = "DEPOSIT"})

=============================================================================
