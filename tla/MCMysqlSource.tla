--------------------------- MODULE MCMysqlSource ---------------------------
(* Transactions and binlogs for MysqlSource.                               *)
EXTENDS MysqlSource

E(kind, n, match) == [kind |-> kind, n |-> n, match |-> match]

\* One row of a table that is filtered out, then two captured rows.
Mixed == <<E("rows", 1, FALSE), E("rows", 2, TRUE), E("xid", 0, FALSE)>>
\* Two captured statements in one transaction.
TwoRows == <<E("begin", 0, FALSE), E("rows", 1, TRUE), E("rows", 1, TRUE),
             E("xid", 0, FALSE)>>
\* A non-transactional table: the transaction ends with a COMMIT query.
NonTxn == <<E("rows", 1, TRUE), E("query", 0, FALSE)>>
Alter == <<E("ddl", 0, FALSE)>>
\* A savepoint between two captured statements.
WithSavepoint == <<E("rows", 1, TRUE), E("query", 0, FALSE), E("rows", 1, TRUE),
                   E("xid", 0, FALSE)>>

AllBodies == {Mixed, TwoRows, NonTxn, Alter}
SavepointBodies == {WithSavepoint}

\* By GTID set, by file on a server with GTIDs, by file on one without.
AllModes == {<<TRUE, TRUE>>, <<FALSE, TRUE>>, <<FALSE, FALSE>>}
GTIDMode == {<<TRUE, TRUE>>}
=============================================================================
