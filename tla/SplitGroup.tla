----------------------------- MODULE SplitGroup -----------------------------
(***************************************************************************)
(* The SPLIT mode of intercept_statement (inception.cc).  Each statement  *)
(* of the batch is folded into ctx->split_nodes: USE changes the current  *)
(* database, SET is dropped, and any other statement is appended to the   *)
(* last group when that group has the same (db, table) and the same      *)
(* DDL/DML class, or starts a new group.  A group's ddlflag is 1 once it  *)
(* holds an ALTER TABLE or a DROP TABLE.  Statement text is abstracted to *)
(* the statement's position in the batch.                                 *)
(***************************************************************************)
EXTENDS Naturals, Sequences

CONSTANTS
  Dbs,        \* database names
  Tbls,       \* table names
  NoName,     \* an empty std::string (no db, no table)
  MaxStmts    \* statements per batch (a bound of the model)

ASSUME SplitAssumption ==
  /\ NoName \notin Dbs \cup Tbls
  /\ MaxStmts \in Nat

(***************************************************************************)
(* Statements by the parts of the LEX the grouper reads: the command, the *)
(* database named by USE / CREATE DATABASE or qualifying the first table *)
(* (NoName when unqualified), and the first table.                       *)
(***************************************************************************)
TableCmds == {"create", "alter", "drop", "insert", "update"}

Stmts ==
  [cmd : TableCmds, db : Dbs \cup {NoName}, tbl : Tbls] \cup
  [cmd : {"use", "createdb"}, db : Dbs, tbl : {NoName}] \cup
  [cmd : {"set", "select"}, db : {NoName}, tbl : {NoName}]

Keys == [db : Dbs \cup {NoName}, tbl : Tbls \cup {NoName}, ddl : BOOLEAN]

Groups == [key : Keys, flag : {0, 1}, use : Dbs \cup {NoName},
           stmts : Seq(1..MaxStmts)]

VARIABLES
  usedb,      \* ctx->current_usedb
  thddb,      \* thd->db(), the connection's current database
  nodes,      \* ctx->split_nodes
  fed,        \* statements intercepted so far in this batch
  placed      \* history: each grouped statement's position, key, command,
              \* group and place in the group

vars == <<usedb, thddb, nodes, fed, placed>>

(* The batch starts from a reset context on a connection that may have a *)
(* database selected.                                                    *)
Init ==
  /\ usedb = NoName
  /\ thddb \in Dbs \cup {NoName}
  /\ nodes = << >>
  /\ fed = 0
  /\ placed = << >>

(***************************************************************************)
(* (db, table) of a statement: the first table and its database, which   *)
(* the parser copies from thd->db() when unqualified; for database-level *)
(* DDL, lex->name and an empty table; otherwise both empty.              *)
(***************************************************************************)
StmtDb(s) ==
  IF s.cmd \in TableCmds /\ s.db = NoName THEN thddb ELSE s.db

(* DDL vs DML, by sql_command. *)
IsDdl(s) == s.cmd \in {"create", "alter", "drop", "createdb"}

(* ddlflag: 1 only for ALTER TABLE and DROP TABLE. *)
DdlFlag(s) == IF s.cmd \in {"alter", "drop"} THEN 1 ELSE 0

KeyOf(s) == [db |-> StmtDb(s), tbl |-> s.tbl, ddl |-> IsDdl(s)]

(* An unqualified table with no database selected fails to parse, so it *)
(* never reaches intercept_statement.                                   *)
Parses(s) == ~(s.cmd \in TableCmds /\ s.db = NoName /\ thddb = NoName)

(* USE db: update current_usedb and thd->db, no group. *)
SplitUse(s) ==
  /\ s.cmd = "use"
  /\ usedb' = s.db
  /\ thddb' = s.db
  /\ UNCHANGED <<nodes, placed>>

(* SET: acknowledged, no group. *)
SplitSet(s) ==
  /\ s.cmd = "set"
  /\ UNCHANGED <<usedb, thddb, nodes, placed>>

(* Mutant: a group is merged into when only the table name matches. *)
SameGroupTableOnly(last, k) == last.key.tbl = k.tbl /\ last.key.ddl = k.ddl

(* The merge test against the last group. *)
SameGroup(last, k) == last.key = k

(* Mutant: merging adds the statement's ddlflag instead of escalating. *)
SplitAppendSumFlag(s) ==
  /\ s.cmd \notin {"use", "set"}
  /\ LET k == KeyOf(s)
         pos == fed + 1
         merge == nodes # << >> /\ SameGroup(nodes[Len(nodes)], k)
     IN  /\ nodes' =
              IF merge
              THEN [nodes EXCEPT
                      ![Len(nodes)].flag = @ + DdlFlag(s),
                      ![Len(nodes)].stmts = Append(@, pos)]
              ELSE Append(nodes,
                      [key |-> k, flag |-> DdlFlag(s),
                       use |-> IF usedb # NoName THEN usedb ELSE k.db,
                       stmts |-> << pos >>])
         /\ placed' = Append(placed, [pos |-> pos, key |-> k, cmd |-> s.cmd,
                                      g |-> Len(nodes'),
                                      idx |-> Len(nodes'[Len(nodes')].stmts)])
  /\ UNCHANGED <<usedb, thddb>>

(***************************************************************************)
(* Any other statement: appended to the last group, escalating ddlflag,  *)
(* or a new group that records the USE prefix it is given (the current   *)
(* database, else the statement's).                                      *)
(***************************************************************************)
SplitAppend(s) ==
  /\ s.cmd \notin {"use", "set"}
  /\ LET k == KeyOf(s)
         pos == fed + 1
         merge == nodes # << >> /\ SameGroup(nodes[Len(nodes)], k)
     IN  /\ nodes' =
              IF merge
              THEN [nodes EXCEPT
                      ![Len(nodes)].flag = IF DdlFlag(s) = 1 THEN 1 ELSE @,
                      ![Len(nodes)].stmts = Append(@, pos)]
              ELSE Append(nodes,
                      [key |-> k, flag |-> DdlFlag(s),
                       use |-> IF usedb # NoName THEN usedb ELSE k.db,
                       stmts |-> << pos >>])
         /\ placed' = Append(placed, [pos |-> pos, key |-> k, cmd |-> s.cmd,
                                      g |-> Len(nodes'),
                                      idx |-> Len(nodes'[Len(nodes')].stmts)])
  /\ UNCHANGED <<usedb, thddb>>

(* One statement of the batch reaches the SPLIT branch. *)
Intercept ==
  /\ fed < MaxStmts
  /\ \E s \in Stmts :
       /\ Parses(s)
       /\ SplitUse(s) \/ SplitSet(s) \/ SplitAppend(s)
  /\ fed' = fed + 1

(* magic_commit sends the groups and InceptionContext::reset clears them; *)
(* the connection keeps its database.                                    *)
Commit ==
  /\ fed > 0
  /\ usedb' = NoName
  /\ nodes' = << >>
  /\ fed' = 0
  /\ placed' = << >>
  /\ UNCHANGED thddb

Next == Intercept \/ Commit

Spec == Init /\ [][Next]_vars

-----------------------------------------------------------------------------
(* Every variable stays in its domain. *)
TypeOK ==
  /\ usedb \in Dbs \cup {NoName}
  /\ thddb \in Dbs \cup {NoName}
  /\ nodes \in Seq(Groups)
  /\ fed \in 0..MaxStmts
  /\ placed \in Seq([pos : 1..MaxStmts, key : Keys,
                     cmd : TableCmds \cup {"createdb", "select"},
                     g : Nat, idx : Nat])

(***************************************************************************)
(* spec.md 4.8: the groups are exactly the maximal runs of consecutive    *)
(* grouped statements with one (db, table, class), in batch order.  Each  *)
(* grouped statement sits at its place in its run's group, which has its  *)
(* key; a run continues the previous one's group or starts the next       *)
(* group; neighbouring groups have different keys; a group's ddlflag is 1 *)
(* iff it holds an ALTER or DROP TABLE.  USE and SET never break a run.   *)
(***************************************************************************)
SplitIsMaximalRuns ==
  /\ \A i \in 1..Len(placed) :
       LET p == placed[i] IN
       /\ p.g \in 1..Len(nodes)
       /\ p.idx \in 1..Len(nodes[p.g].stmts)
       /\ nodes[p.g].stmts[p.idx] = p.pos
       /\ nodes[p.g].key = p.key
       /\ (i = Len(placed) \/ placed[i+1].g # p.g)
            => p.idx = Len(nodes[p.g].stmts)
  /\ Len(placed) > 0 => placed[1].g = 1 /\ placed[1].idx = 1
  /\ \A i \in 2..Len(placed) :
       LET p == placed[i]
           q == placed[i-1]
       IN  /\ q.pos < p.pos
           /\ \/ p.g = q.g /\ p.idx = q.idx + 1
              \/ p.g = q.g + 1 /\ p.idx = 1
  /\ Len(nodes) = IF placed = << >> THEN 0 ELSE placed[Len(placed)].g
  /\ \A g \in 1..Len(nodes) :
       nodes[g].flag = 1 <=>
         \E i \in 1..Len(placed) :
           placed[i].g = g /\ placed[i].cmd \in {"alter", "drop"}
  /\ \A g \in 1..Len(nodes) - 1 : nodes[g].key # nodes[g+1].key
=============================================================================
