------------------------------ MODULE Database ------------------------------
(***************************************************************************)
(* A session over the catalog (catalog/catalog.cpp): statements are bound  *)
(* (binder/binder.cpp), planned (optimizer/optimizer.cpp) and executed     *)
(* (execution/executors/), one row of a write statement per step, because  *)
(* a write executor changes the table its child is still reading.          *)
(*                                                                         *)
(* Tables exist from the start with some rows, put there through the       *)
(* storage interface (the binder refuses INSERT ... VALUES). A table heap  *)
(* is the sequence of its slots: rows have one size, a deleted slot stays, *)
(* a new row gets a new slot and an update stays in place. The catalog has *)
(* the server's view: the shell plans without a catalog, so without        *)
(* indexes.                                                                *)
(***************************************************************************)
EXTENDS QueryOperators

CONSTANTS Tables,          \* names of tables
          TableSchema,     \* types of the columns, the same for every table
          Seeds,           \* possible contents of the tables at the start
          IndexNames,      \* names of indexes
          KeyAttrs,        \* column lists of CREATE INDEX
          DropLists,       \* name lists of DROP INDEX
          WriteStatements, \* the bound INSERT, DELETE and UPDATE statements
          Selects,         \* queries of one table: [table, pred, order, limit, exprs]
          JoinPredicates,  \* predicates of queries that join two tables
          GroupLists,      \* GROUP BY expressions
          Aggregates,      \* the aggregates of a query
          MaxSlots,        \* slots after which the heap of a table has no room
          MaxStatements,   \* bound on the statements of the session
          MaxIndexes       \* bound on the indexes created

Rows == {Deleted} \union [DOMAIN TableSchema -> Int]

\* What the binder makes of an expression of a statement about one table.
BoundLeaf(e) ==
  \/ e.kind = "constant" /\ e.val.n \in Int /\ e.val.type \in {"INTEGER", "FLOAT"}
  \/ e.kind = "column" /\ e.col \in DOMAIN TableSchema

LeafType(e) == IF e.kind = "constant" THEN e.val.type ELSE TableSchema[e.col]

\* Arithmetic of other types than INTEGER is not used by the models.
Bound(e) ==
  \/ BoundLeaf(e)
  \/ /\ e.kind = "arithmetic" /\ e.op \in {"+", "-", "*", "/", "%"}
     /\ BoundLeaf(e.left) /\ LeafType(e.left) = "INTEGER"
     /\ BoundLeaf(e.right) /\ LeafType(e.right) = "INTEGER"

BoundType(e) == IF e.kind = "arithmetic" THEN "INTEGER" ELSE LeafType(e)

\* A comparison that cannot throw: no division, and operands of one type, as
\* ONEBASE_ASSERT demands (value.cpp:105).
SafeComparison(p) ==
  /\ p.op \in {"=", "<>", "<", "<=", ">", ">="}
  /\ \A e \in {p.left, p.right} : Bound(e) /\ (e.kind = "arithmetic" => e.op \in {"+", "-", "*"})
  /\ BoundType(p.left) = BoundType(p.right)

SafePredicate(p) ==
  \/ p.kind = "none"
  \/ p.kind = "comparison" /\ SafeComparison(p)
  \/ p.kind = "logic" /\ p.op \in {"and", "or"} /\ SafeComparison(p.left) /\ SafeComparison(p.right)

\* column = constant, or the other way round.
IsLookup(p) ==
  /\ p.kind = "comparison" /\ p.op = "="
  /\ {p.left.kind, p.right.kind} = {"column", "constant"}

LookupColumn(p) == IF p.left.kind = "column" THEN p.left.col ELSE p.right.col

LookupKey(p) == IF p.left.kind = "constant" THEN p.left.val ELSE p.right.val

\* A DELETE or UPDATE reads the table it writes. Statements whose WHERE clause
\* may throw, or whose SET changes the type of a column, are not modelled; the
\* expressions of SET may divide by zero.
BoundWrite(w) ==
  /\ w.kind \in {"insert", "delete", "update"} /\ w.table \in Tables /\ w.source \in Tables
  /\ w.kind # "insert" => w.source = w.table
  /\ \A c \in DOMAIN w.set : Bound(w.set[c]) /\ BoundType(w.set[c]) = TableSchema[c]
  /\ SafePredicate(w.pred)

ASSUME DatabaseAssumption ==
  /\ \A c \in DOMAIN TableSchema : TableSchema[c] \in {"INTEGER", "FLOAT"}
  /\ MaxSlots \in Nat /\ MaxStatements \in Nat /\ MaxIndexes \in Nat
  /\ \A s \in Seeds : s \in [Tables -> Seq(Rows)] /\ \A t \in Tables : Len(s[t]) <= MaxSlots
  /\ \A w \in WriteStatements : BoundWrite(w)
  /\ \A names \in DropLists : Len(names) \in Nat

VARIABLES heap,            \* heap[t]: the slots of table t
          indexes_,        \* oid to IndexInfo
          index_names_,    \* table to (name to oid), without empty entries
          next_index_oid_,
          stmt,            \* the write statement being executed
          statements,      \* statements so far
          fresh            \* oids of the indexes whose table was not written since their creation

catalogVars == <<indexes_, index_names_, next_index_oid_>>
dbVars == <<heap, indexes_, index_names_, next_index_oid_, stmt, statements, fresh>>

Idle == [phase |-> "idle"]

DbInit ==
  /\ heap \in Seeds
  /\ indexes_ = <<>> /\ index_names_ = <<>> /\ next_index_oid_ = 1
  /\ stmt = Idle
  /\ statements = 0
  /\ fresh = {}

Without(f, x) == [y \in DOMAIN f \ {x} |-> f[y]]

With(f, x, v) == [y \in DOMAIN f \union {x} |-> IF y = x THEN v ELSE f[y]]

-----------------------------------------------------------------------------
(* The heap as the executors see it. *)

Live(h) == {i \in DOMAIN h : h[i] # Deleted}

End == 0

\* Where an iterator goes from slot i: the next slot with a tuple, or End.
NextLive(h, i) == LET later == {j \in Live(h) : j > i} IN IF later = {} THEN End ELSE Min(later)

TupleAt(h, i) == Values(TableSchema, h[i])

-----------------------------------------------------------------------------
(* The catalog. *)

\* GetIndex by name: its oid, or 0.
GetIndex(t, name) ==
  IF t \in DOMAIN index_names_ /\ name \in DOMAIN index_names_[t] THEN index_names_[t][name] ELSE 0

GetTableIndexes(t) == IF t \in DOMAIN index_names_ THEN Range(index_names_[t]) ELSE {}

\* Only an index on a single INTEGER column can be looked up.
SupportsPointLookup(attrs) == Len(attrs) = 1 /\ TableSchema[attrs[1]] = "INTEGER"

\* The numbers of S up to n, one after the other.
InOrder(S, n) ==
  LET upTo[k \in 0 .. n] ==
        IF k = 0 THEN <<>> ELSE IF k \in S THEN Append(upTo[k - 1], k) ELSE upTo[k - 1]
  IN  upTo[n]

\* int_rid_map_ of a new index: the slots of every key in the order of a scan.
BuildMap(h, col) ==
  [k \in {h[i][col] : i \in Live(h)} |-> InOrder({i \in Live(h) : h[i][col] = k}, Len(h))]

\* CREATE INDEX: refused when the table has an index of that name.
CreateIndex(t, name, attrs) ==
  /\ GetIndex(t, name) = 0
  /\ next_index_oid_ <= MaxIndexes
  /\ indexes_' = With(indexes_, next_index_oid_,
       [name |-> name, table |-> t, attrs |-> attrs,
        map |-> IF SupportsPointLookup(attrs) THEN BuildMap(heap[t], attrs[1]) ELSE <<>>])
  /\ index_names_' = With(index_names_, t,
       With(IF t \in DOMAIN index_names_ THEN index_names_[t] ELSE <<>>, name, next_index_oid_))
  /\ next_index_oid_' = next_index_oid_ + 1
  /\ fresh' = fresh \union {next_index_oid_}

\* Mistake: an index stays in the map by oid.
DropIndexNameOnly(cat, t, name) ==
  LET left == Without(cat.names[t], name)
  IN  [cat EXCEPT !.names = IF DOMAIN left = {} THEN Without(cat.names, t) ELSE With(cat.names, t, left)]

\* DropIndex of the catalog, on its two maps.
DropIndex(cat, t, name) ==
  LET left == Without(cat.names[t], name)
  IN  [oids  |-> Without(cat.oids, cat.names[t][name]),
       names |-> IF DOMAIN left = {} THEN Without(cat.names, t) ELSE With(cat.names, t, left)]

\* One name of DROP INDEX. A name that two tables use, or that no table uses
\* (unless IF EXISTS), throws: later names are not looked at.
DropName(acc, name, missingOk) ==
  LET owners == {t \in DOMAIN acc.cat.names : name \in DOMAIN acc.cat.names[t]}
  IN  IF acc.thrown THEN acc
      ELSE IF owners = {} THEN [acc EXCEPT !.thrown = ~missingOk]
      ELSE IF Cardinality(owners) > 1 THEN [acc EXCEPT !.thrown = TRUE]
      ELSE [acc EXCEPT !.cat = DropIndex(@, CHOOSE t \in owners : TRUE, name)]

\* DROP INDEX takes its names one by one.
DropNames(names, missingOk) ==
  LET after[n \in 0 .. Len(names)] ==
        IF n = 0 THEN [cat |-> [oids |-> indexes_, names |-> index_names_], thrown |-> FALSE]
        ELSE DropName(after[n - 1], names[n], missingOk)
  IN  after[Len(names)]

-----------------------------------------------------------------------------
(* Planning of a scan. *)

\* OptimizeSeqScanToIndexScan takes the first fitting index of an unordered map.
ScanPlans(t, p) ==
  LET fits == {o \in GetTableIndexes(t) :
                 /\ SupportsPointLookup(indexes_[o].attrs)
                 /\ IsLookup(p) /\ indexes_[o].attrs[1] = LookupColumn(p)}
  IN  IF fits = {} THEN {[type |-> "seq"]} ELSE {[type |-> "index", oid |-> o] : o \in fits}

FreshPlan(plan) == plan.type = "index" => plan.oid \in fresh

-----------------------------------------------------------------------------
(* Scans. A scan is [type, table, pred, at]: a sequential one is at the    *)
(* slot its iterator points to, an index scan at a position of the RIDs    *)
(* that Init copied.                                                       *)

InitScan(t, p, plan) ==
  IF plan.type = "seq"
  THEN [type |-> "seq", table |-> t, pred |-> p, at |-> NextLive(heap[t], 0), rids |-> <<>>]
  ELSE LET map == indexes_[plan.oid].map
           key == LookupKey(p)
       IN  [type |-> "index", table |-> t, pred |-> p, at |-> 1,
            rids |-> IF key.type = "INTEGER" /\ key.n \in DOMAIN map THEN map[key.n] ELSE <<>>]

\* Slots from the iterator on that pass the filter.
SeqHits(h, scan) ==
  IF scan.at = End THEN {}
  ELSE {i \in Live(h) : i >= scan.at /\ Holds(scan.pred, TupleAt(h, i))}

\* Mistake: the rows an index names are not filtered again.
IndexHitsUnfiltered(h, scan) == {j \in DOMAIN scan.rids : j >= scan.at}

\* Positions whose row passes the filter, and those of a deleted row: its tuple
\* is empty and the filter reads through a null pointer.
IndexHits(h, scan) ==
  {j \in DOMAIN scan.rids :
     /\ j >= scan.at
     /\ h[scan.rids[j]] = Deleted \/ Holds(scan.pred, TupleAt(h, scan.rids[j]))}

Hits(h, scan) == IF scan.type = "seq" THEN SeqHits(h, scan) ELSE IndexHits(h, scan)

SlotOf(scan, hit) == IF scan.type = "seq" THEN hit ELSE scan.rids[hit]

\* Next returned the row of a hit: its slot, whether the process died, the scan after it.
RowOf(h, scan, hit) ==
  [slot |-> SlotOf(scan, hit),
   died |-> h[SlotOf(scan, hit)] = Deleted,
   scan |-> [scan EXCEPT !.at = IF scan.type = "seq" THEN NextLive(h, hit) ELSE hit + 1]]

\* Next: the first hit, or End.
NextRow(h, scan) ==
  IF Hits(h, scan) = {} THEN [slot |-> End, died |-> FALSE, scan |-> scan]
  ELSE RowOf(h, scan, Min(Hits(h, scan)))

\* Next until End on a table that nobody changes: the slots in order. The
\* process dies if one of them has lost its row.
Drain(h, scan) ==
  LET hits == SetToSortSeq(Hits(h, scan), LAMBDA i, j : i < j)
  IN  [k \in DOMAIN hits |-> SlotOf(scan, hits[k])]

DrainDies(h, scan) == \E hit \in Hits(h, scan) : h[SlotOf(scan, hit)] = Deleted

-----------------------------------------------------------------------------
(* Statements. A write statement is [kind, table, source, pred, set]: set  *)
(* gives the expressions of the columns an UPDATE names. The source of an  *)
(* INSERT is a table, of which whole rows are taken.                       *)

\* Update expressions: the SET expression of a column, or its old value.
UpdateExpressions(set) ==
  [c \in DOMAIN TableSchema |-> IF c \in DOMAIN set THEN set[c] ELSE ColumnValue(0, c)]

UpdatedValues(set, tuple) ==
  LET exprs == UpdateExpressions(set) IN [c \in DOMAIN exprs |-> Evaluate(exprs[c], tuple)]

Begin(w) ==
  /\ \E plan \in ScanPlans(w.source, w.pred) :
       stmt' = [phase |-> "run", write |-> w, plan |-> plan,
                scan |-> InitScan(w.source, w.pred, plan),
                count |-> 0, before |-> heap, exact |-> FreshPlan(plan)]
  /\ UNCHANGED <<heap, fresh>>

\* A row of the child changes the table: h is its heap afterwards.
Written(h, scan, count) ==
  LET t == stmt.write.table
  IN  /\ heap' = [heap EXCEPT ![t] = h]
      /\ stmt' = [stmt EXCEPT !.scan = scan, !.count = count]
      /\ fresh' = {o \in fresh : indexes_[o].table # t}
      /\ UNCHANGED catalogVars

DeleteRow(next) ==
  /\ stmt.write.kind = "delete"
  /\ Written([heap[stmt.write.table] EXCEPT ![next.slot] = Deleted], next.scan, stmt.count + 1)

\* Mistake: an updated row moves to a new slot.
UpdateMovesRow(h, slot, row) == Append([h EXCEPT ![slot] = Deleted], row)

\* On pages with room for the new row and a buffer pool with a frame for the
\* page. Otherwise UpdateTuple overruns the slots of the page or returns FALSE,
\* which the executor ignores: TableHeap models both.
UpdateTuple(h, slot, row) == [h EXCEPT ![slot] = row]

UpdateRow(next) ==
  LET h      == heap[stmt.write.table]
      values == UpdatedValues(stmt.write.set, TupleAt(h, next.slot))
  IN  /\ stmt.write.kind = "update"
      /\ IF Thrown \in Range(values)
         THEN /\ stmt' = [stmt EXCEPT !.phase = "failed"]
              /\ UNCHANGED <<heap, fresh, catalogVars>>
         ELSE Written(UpdateTuple(h, next.slot, Serialize(values)), next.scan, stmt.count + 1)

\* A row that finds no room is skipped and not counted.
InsertRow(next) ==
  LET h == heap[stmt.write.table]
  IN  /\ stmt.write.kind = "insert"
      /\ IF Len(h) < MaxSlots
         THEN Written(Append(h, heap[stmt.write.source][next.slot]), next.scan, stmt.count + 1)
         ELSE /\ stmt' = [stmt EXCEPT !.scan = next.scan]
              /\ UNCHANGED <<heap, fresh, catalogVars>>

\* One turn of the loop of a write executor.
Step ==
  /\ stmt.phase = "run"
  /\ LET next == NextRow(heap[stmt.write.source], stmt.scan)
     IN  \/ /\ next.slot = End \/ next.died
            /\ stmt' = [stmt EXCEPT !.phase = IF next.died THEN "died" ELSE "done"]
            /\ UNCHANGED <<heap, fresh, catalogVars>>
         \/ /\ next.slot # End /\ ~next.died
            /\ DeleteRow(next) \/ UpdateRow(next) \/ InsertRow(next)
  /\ UNCHANGED statements

\* The answer of a write statement is sent; the process goes on.
Reply ==
  /\ stmt.phase \in {"done", "failed"}
  /\ stmt' = Idle
  /\ UNCHANGED <<heap, catalogVars, statements, fresh>>

\* A new statement of the session. SELECT and SHOW change nothing.
NewStatement ==
  /\ stmt.phase = "idle" /\ statements < MaxStatements
  /\ statements' = statements + 1
  /\ \/ /\ \E w \in WriteStatements : Begin(w)
        /\ UNCHANGED catalogVars
     \/ /\ \E t \in Tables, name \in IndexNames, attrs \in KeyAttrs : CreateIndex(t, name, attrs)
        /\ UNCHANGED <<heap, stmt>>
     \/ \E names \in DropLists, missingOk \in BOOLEAN :
          LET result == DropNames(names, missingOk)
          IN  /\ indexes_' = result.cat.oids /\ index_names_' = result.cat.names
              /\ fresh' = fresh \intersect DOMAIN result.cat.oids
              /\ UNCHANGED <<heap, stmt, next_index_oid_>>

DbNext == NewStatement \/ Step \/ Reply

DbSpec == DbInit /\ [][DbNext]_dbVars

-----------------------------------------------------------------------------
(* Properties. *)

Phases == {"idle", "run", "done", "failed", "died"}

\* Type invariant. Slots hold whole rows, and every RID that an index or a
\* scan keeps is the one of a slot (catalog.cpp:62-67, index_scan_executor.cpp:31).
DbTypeOK ==
  /\ \A t \in Tables : /\ Len(heap[t]) <= MaxSlots
                       /\ \A i \in DOMAIN heap[t] : heap[t][i] \in Rows
  /\ DOMAIN indexes_ \subseteq 1 .. next_index_oid_ - 1 /\ fresh \subseteq DOMAIN indexes_
  /\ \A o \in DOMAIN indexes_ : \A k \in DOMAIN indexes_[o].map :
       Range(indexes_[o].map[k]) \subseteq DOMAIN heap[indexes_[o].table]
  /\ stmt.phase \in Phases /\ statements \in 0 .. MaxStatements
  /\ stmt.phase # "idle" => Range(stmt.scan.rids) \subseteq DOMAIN heap[stmt.write.source]

\* The map of indexes by name and the one by oid describe the same indexes,
\* whatever CREATE INDEX and DROP INDEX did, failed lists included: GetIndex and
\* GetTableIndexes call at() on one map with what they found in the other
\* (catalog.cpp:94 and :110), which would throw.
CatalogConsistent ==
  /\ DbTypeOK
  /\ \A t \in DOMAIN index_names_ :
       /\ DOMAIN index_names_[t] # {}
       /\ \A name \in DOMAIN index_names_[t] :
            /\ index_names_[t][name] \in DOMAIN indexes_
            /\ LET info == indexes_[index_names_[t][name]]
               IN  info.table = t /\ info.name = name
  /\ \A o \in DOMAIN indexes_ : GetIndex(indexes_[o].table, indexes_[o].name) = o

\* Slots of the table's old content that a statement is about.
Matching(w, before) == {i \in Live(before[w.source]) : Holds(w.pred, TupleAt(before[w.source], i))}

UpdatedRow(w, row) == UpdatedValues(w.set, Values(TableSchema, row))

\* The heap of w.table when exactly the rows of the slots in done were changed.
HeapAfter(w, before, done) ==
  LET old == before[w.table]
  IN  CASE w.kind = "delete" -> [i \in DOMAIN old |-> IF i \in done THEN Deleted ELSE old[i]]
        [] w.kind = "update" -> [i \in DOMAIN old |->
                                   IF i \in done THEN Serialize(UpdatedRow(w, old[i])) ELSE old[i]]
        [] w.kind = "insert" ->
             LET rows == InOrder(done, Len(before[w.source]))
                 copies == [k \in DOMAIN rows |-> before[w.source][rows[k]]]
             IN  SubSeq(old \o copies, 1, Max({Len(old), Min({MaxSlots, Len(old \o copies)})}))

\* An INSERT that reads the table it writes meets its own rows once the table
\* has a second row: the iterator then stands on a row while the first is copied.
ReadsOwnRows(w, before) ==
  w.kind = "insert" /\ w.source = w.table /\ Cardinality(Live(before[w.source])) > 1

\* A write statement does to the table as it was at its start what its SQL
\* says, although its scan reads the table while it changes: every matching row
\* once, no other row, no other table, and the count is the number of rows
\* changed. An UPDATE that throws leaves exactly the rows before the failing one
\* changed. Stated for sequential scans and for indexes that are not stale, and
\* not for an INSERT that reads its own rows; only a stale index kills the process.
\* (WHERE clauses that cannot throw and pages that are not overrun: see BoundWrite
\* and UpdateTuple.)
WritesExact ==
  LET w == stmt.write
      matches == Matching(w, stmt.before)
      failing == {i \in matches : Thrown \in Range(UpdatedRow(w, stmt.before[w.table][i]))}
  IN  /\ stmt.phase = "died" => ~stmt.exact
      /\ (stmt.phase = "done" /\ stmt.exact /\ ~ReadsOwnRows(w, stmt.before)) =>
           /\ heap = [stmt.before EXCEPT ![w.table] = HeapAfter(w, stmt.before, matches)]
           /\ stmt.count = IF w.kind = "insert" THEN Len(heap[w.table]) - Len(stmt.before[w.table])
                           ELSE Cardinality(matches)
      /\ (stmt.phase = "failed" /\ stmt.exact) =>
           /\ failing # {}
           /\ heap = [stmt.before EXCEPT ![w.table] =
                        HeapAfter(w, stmt.before, {i \in matches : i < Min(failing)})]

\* A DELETE or UPDATE through a stale index, finished or not, has changed only
\* rows that its predicate selected, and each at most once: the index scan
\* evaluates the predicate again on the row it finds (index_scan_executor.cpp:39-44).
StaleIndexSound ==
  (stmt.phase # "idle" /\ stmt.write.kind # "insert") =>
    LET w == stmt.write
        touched == {i \in DOMAIN heap[w.table] : heap[w.table][i] # stmt.before[w.table][i]}
    IN  /\ touched \subseteq Matching(w, stmt.before)
        /\ heap[w.table] = HeapAfter(w, stmt.before, touched)
        /\ Cardinality(touched) <= stmt.count

\* The rows of a table in the order of a scan.
TableTuples(t) ==
  LET slots == Drain(heap[t], InitScan(t, NoPredicate, [type |-> "seq"]))
  IN  [i \in DOMAIN slots |-> TupleAt(heap[t], slots[i])]

\* Every result a query of one table may have with a plan.
SelectResults(q, plan) ==
  LET slots  == Drain(heap[q.table], InitScan(q.table, q.pred, plan))
      tuples == [i \in DOMAIN slots |-> TupleAt(heap[q.table], slots[i])]
  IN  {Projection(Limit(s, q.limit), q.exprs) : s \in Sorted(tuples, q.order)}

\* Sorting keys as numbers that grow in the order asked for.
SortKeys(order, tuple) ==
  [i \in DOMAIN order |-> LET n == Evaluate(order[i].expr, tuple).n IN IF order[i].asc THEN n ELSE -n]

Below(k, l) == \E i \in DOMAIN k : k[i] < l[i] /\ \A j \in 1 .. i - 1 : k[j] = l[j]

\* What a query asks for: a choice of matching rows, none of the others below
\* one that is shown, in order.
SelectByDefinition(q) ==
  LET h == heap[q.table]
      matches == {i \in Live(h) : Holds(q.pred, TupleAt(h, i))}
      keys(i) == IF q.order = <<>> THEN <<i>> ELSE SortKeys(q.order, TupleAt(h, i))
      n == Min({q.limit, Cardinality(matches)})
      choices == {s \in [1 .. n -> matches] :
                    /\ \A k, l \in 1 .. n : k < l => s[k] # s[l] /\ ~Below(keys(s[l]), keys(s[k]))
                    /\ \A i \in matches \ Range(s) : \A k \in 1 .. n : ~Below(keys(i), keys(s[k]))}
  IN  {[k \in 1 .. n |-> [c \in DOMAIN q.exprs |-> Evaluate(q.exprs[c], TupleAt(h, s[k]))]] : s \in choices}

\* A query of one table returns what its SQL asks for, through a sequential
\* scan and through any index that is not stale; std::sort is given a comparator
\* that leaves it some arrangement, and a right one.
SelectExact ==
  stmt = Idle =>
    \A q \in Selects : \A plan \in ScanPlans(q.table, q.pred) :
      FreshPlan(plan) =>
        /\ ~DrainDies(heap[q.table], InitScan(q.table, q.pred, plan))
        /\ SelectResults(q, plan) # {}
        /\ SelectResults(q, plan) \subseteq SelectByDefinition(q)

\* Rewriting a nested loop join to a hash join keeps the result, up to order,
\* for keys that print differently when they differ: INTEGER columns, and FLOAT
\* columns without values that share their first two decimals
\* (hash_join_executor.cpp:35 keys the hash table with ToString).
OptimizedJoinSame ==
  stmt = Idle =>
    \A t, u \in Tables : \A p \in JoinPredicates :
      LET lefts  == TableTuples(t)
          rights == TableTuples(u)
          keys   == {Evaluate(JoinKeys(p)[1], l) : l \in Range(lefts)}
                      \union {Evaluate(JoinKeys(p)[2], r) : r \in Range(rights)}
      IN  (IsEquiJoin(p) => PrintsApart(keys)) =>
            SameTuples(OptimizedJoin(lefts, rights, p), NestedLoopJoin(lefts, rights, p))

\* Aggregation yields one row for every group of equal values with its
\* aggregates, and one row for an empty table without GROUP BY, for group values
\* that print differently when they differ (aggregation_executor.cpp:64).
GroupsExact ==
  stmt = Idle =>
    \A t \in Tables : \A g \in GroupLists :
      LET tuples == TableTuples(t)
          result == Aggregation(tuples, g, Aggregates)
      IN  (\A k \in DOMAIN g : PrintsApart({Evaluate(g[k], x) : x \in Range(tuples)})) =>
            IF tuples = <<>> /\ g = <<>>
            THEN /\ Cardinality(result) = 1
                 /\ \A row \in result : \A k \in DOMAIN Aggregates :
                      row[k].null <=> Aggregates[k].agg \notin {"CountStar", "Count"}
            ELSE result = AggregationByDefinition(tuples, g, Aggregates)

\* The lab text: "Insert and Delete operations must update both the table and
\* all related indexes." Between statements an index that can be looked up maps
\* every key to the rows that have it. The write executors leave indexes alone
\* (insert_executor.cpp:38-41).
IndexExact ==
  stmt = Idle =>
    \A o \in DOMAIN indexes_ :
      SupportsPointLookup(indexes_[o].attrs) =>
        LET h == heap[indexes_[o].table]
            col == indexes_[o].attrs[1]
            entries == {x \in (DOMAIN indexes_[o].map) \X (DOMAIN h) : x[2] \in Range(indexes_[o].map[x[1]])}
        IN  entries = {<<h[i][col], i>> : i \in Live(h)}
=============================================================================
