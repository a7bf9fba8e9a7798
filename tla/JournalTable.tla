---------------------------- MODULE JournalTable ----------------------------
(***************************************************************************)
(* The journal table and the statements run against it: a table is a       *)
(* function from row ids to rows, a statement a function from tables to    *)
(* tables, and a transaction the sequence of its statements.               *)
(***************************************************************************)
EXTENDS Naturals, Sequences, SequencesExt, FiniteSetsExt

CONSTANTS
  Proc,         \* processes that have the database open
  Agent,        \* agent ids, the mailboxes a message may go to
  None          \* NULL

\* A row: who wrote it, its to_id, and whether processed_at is set.
Row == [by : Proc, to : Agent \cup {None}, processed : BOOLEAN]

\* The records of the ring.  One operator per jw_kind.
Insert(i, row) == [kind |-> "insert", id |-> i, row |-> row]
Stamp(i)       == [kind |-> "processed", id |-> i]
Flush          == [kind |-> "flush"]
Stop           == [kind |-> "stop"]

\* INSERT OR REPLACE writes the row whatever was there; UPDATE ... WHERE id=?
\* changes nothing when no row has the id.
Replace(table, i, row) == [j \in DOMAIN table \cup {i} |-> IF j = i THEN row ELSE table[j]]

Run(table, r) ==
  CASE r.kind = "insert" -> Replace(table, r.id, r.row)
    [] r.kind = "processed" /\ r.id \in DOMAIN table -> [table EXCEPT ![r.id].processed = TRUE]
    [] OTHER -> table

RunAll(table, stmts) ==
  LET after[k \in 0..Len(stmts)] == IF k = 0 THEN table ELSE Run(after[k - 1], stmts[k])
  IN  after[Len(stmts)]

MaxId(table) == Max(DOMAIN table \cup {0})

\* The rows of a recipient whose processed_at is NULL.
Waiting(table, a) == {i \in DOMAIN table : table[i].to = a /\ ~table[i].processed}

\* The elements of a set of ids in increasing order.
Orders(s, S) == ToSet(s) = S /\ \A j, k \in DOMAIN s : j < k => s[j] < s[k]
Ordered(S) == CHOOSE s \in [1..Cardinality(S) -> S] : Orders(s, S)

\* Bugs: no ORDER BY; no processed_at IS NULL; an if where the loop was meant.
UnprocessedUnordered(table, a) == Reverse(Ordered(Waiting(table, a)))
UnprocessedAll(table, a) == Ordered({i \in DOMAIN table : table[i].to = a})
UnprocessedOne(table, a) ==
  IF Waiting(table, a) = {} THEN <<>> ELSE <<Min(Waiting(table, a))>>

\* SELECT id ... WHERE processed_at IS NULL AND to_id = a ORDER BY id
Unprocessed(table, a) == Ordered(Waiting(table, a))

=============================================================================
