------------------------------- MODULE Config -------------------------------
(***************************************************************************)
(* From a configuration file to the parts of a hyperloop                   *)
(* (src/pkg/config/config.go), with the defaults each part fills in:       *)
(* hyperloop.Config, kafka.Config, the MySQL source and dispatch.New.      *)
(*                                                                         *)
(* A file is a record: env (every ${VAR} it names is defined), id, source  *)
(* and sink (the sections are there), port, compression (known), inflight, *)
(* store, addr (state.addr is given), db (state.database is given), open   *)
(* (the store can be opened), queues, capacity, batch, overrides, and the  *)
(* patterns include and exclude.  An absent number is 0.  A pattern is a   *)
(* record [db, table] of names or "*", or has a malformed db "[".          *)
(***************************************************************************)
EXTENDS Integers, FiniteSets

Refused == [ok |-> FALSE]

\* A bug: only an absent number is.
Absent(n, default) == IF n = 0 THEN default ELSE n

\* A number that is not positive is replaced by its default.
Positive(n, default) == IF n <= 0 THEN default ELSE n

Load(file) == file.env

\* mysqlsource.New, on a copy of the file's section.
sourceWithDefaults(port) == IF port = 0 THEN 3306 ELSE port

kafkaWithDefaults(inflight) == Positive(inflight, 32)

\* path.Match on "db.table"; the error of a malformed pattern is ignored.
Match(p, name) == p.db \in {"*", name.db} /\ p.table \in {"*", name.table}

\* mysqlsource.New: what is never captured, whatever the file says.
AlwaysExcluded == {[db |-> d, table |-> "*"] :
                        d \in {"mysql", "sys", "performance_schema",
                               "information_schema"}}
                  \cup {[db |-> "*", table |-> "nomios_state"]}

\* A bug: a table that is asked for by name is not excluded.
matchIncludeFirst(filter, name) ==
    \/ \E p \in filter.include : Match(p, name)
    \/ filter.include = {} /\ ~\E p \in filter.exclude : Match(p, name)

match(filter, name) ==
    /\ ~\E p \in filter.exclude : Match(p, name)
    /\ filter.include = {} \/ \E p \in filter.include : Match(p, name)

\* The server the mysql store dials: its own, or a port of the source's host.
stateCredentials(file) ==
    IF file.addr THEN <<"addr">>
    ELSE <<"host", IF file.port = 0 THEN 3306 ELSE file.port>>

\* kafka.New and the stores, in the order in which Build opens them.
Accepted(file) ==
    /\ file.id /\ file.source /\ file.sink
    /\ file.compression
    /\ \/ file.store = "file"
       \/ file.store \in {"mysql", ""} /\ file.db
    /\ file.open

flushSize(batch) == IF batch > 256 THEN 256 ELSE batch

\* Micro-batches a channel holds: of the source's output in run, and of each
\* queue in dispatch.New.
batches(capacity, flush) ==
    IF capacity \div flush < 2 THEN 2 ELSE capacity \div flush

Build(file) ==
    IF ~Accepted(file) THEN Refused
    ELSE [ok |-> TRUE,
          dials |-> <<"host", sourceWithDefaults(file.port)>>,
          stateAt |-> IF file.store = "file" THEN <<"dir">>
                      ELSE stateCredentials(file),
          inflight |-> kafkaWithDefaults(file.inflight),
          queues |-> Positive(file.queues, 4),
          capacity |-> Positive(file.capacity, 4096),
          batch |-> Positive(file.batch, 500),
          overrides |-> file.overrides,
          filter |-> [include |-> file.include,
                      exclude |-> file.exclude \cup AlwaysExcluded]]
=============================================================================
