------------------------------ MODULE Records -------------------------------
(***************************************************************************)
(* What becomes of the data: a configuration file is loaded and built, and *)
(* row changes travel from the binlog to Kafka records one after the       *)
(* other: the source maps and keys them, the dispatcher routes them, the   *)
(* sink serializes them.  A change may be delivered again, after a restart *)
(* with another version of go-mysql, and every map is iterated in an order *)
(* of its own.  How the steps interleave is the subject of Hyperloop.      *)
(***************************************************************************)
EXTENDS Serializer, Config, JsonReader

CONSTANTS
    Files,      \* configuration files
    Changes,    \* row changes: [id, schema, op, before, after, gtid, pos]
    MaxRecords  \* bound: changes followed

ASSUME RecordsAssumption == MaxRecords \in Nat

(* What yaml decodes: numbers, and lists of column names. *)
ASSUME FilesAssumption ==
    \A f \in Files :
        /\ {f.port, f.inflight, f.queues, f.capacity, f.batch} \subseteq Int
        /\ \A t \in DOMAIN f.overrides : f.overrides[t] \in Seq(STRING)

\* A value in the database: NULL, a number, or characters of any column type.
IsValue(v) ==
    \/ v = Nil
    \/ v.t = "int" /\ v \in [t : {"int"}, s : [1..1 -> Int]]
    \/ v.t = "chars" /\ v \in [t : {"chars"}, s : Seq(STRING)]

IsImage(vals) ==
    /\ Len(vals) \in Nat /\ vals = [i \in 1..Len(vals) |-> vals[i]]
    /\ \A i \in 1..Len(vals) : IsValue(vals[i])

\* The row a change leaves behind, or removes.
Image(c) == IF c.op = "d" THEN c.before ELSE c.after

(* The changes of a period without DDL: a table has one schema, and the    *)
(* values of a column one type.                                            *)
ASSUME ChangesAssumption ==
    \A c \in Changes :
        /\ c.schema.columns \in Seq(Range(Letters))
        /\ IsInjective(c.schema.columns)
        /\ c.schema.pk \in Seq(STRING)
        /\ IsImage(c.before) /\ IsImage(c.after)
        /\ \A d \in Changes : c.schema.fqtn = d.schema.fqtn =>
              /\ c.schema = d.schema
              /\ \A i \in DOMAIN Image(c) \cap DOMAIN Image(d) :
                    {Image(c)[i].t, Image(d)[i].t} # {"int", "chars"}

VARIABLES
    stage,      \* "load", "build", "built", "running", "mapped", "routed", "dead"
    file,       \* the file, until the hyperloop is built
    built,      \* what Build returned, until the hyperloop runs
    overrides,  \* Config.KeyOverrides of the running hyperloop
    filter,     \* the source's table filter
    change,     \* the change under way
    event,      \* its NomiosEvent
    records     \* history: what was published, [change, key, value]

vars == <<stage, file, built, overrides, filter, change, event, records>>

None == <<>>

Init ==
    /\ file \in Files
    /\ stage = "load" /\ built = None /\ overrides = None
    /\ filter = None /\ change = None /\ event = None /\ records = <<>>

----------------------------------------------------------------------------
(* main: Load, then Build; either may end the process. *)
LoadFile ==
    /\ stage = "load"
    /\ stage' = IF Load(file) THEN "build" ELSE "dead"
    /\ UNCHANGED <<file, built, overrides, filter, change, event, records>>

BuildHyperloop ==
    /\ stage = "build"
    /\ built' = Build(file)
    /\ stage' = IF built'.ok THEN "built" ELSE "dead"
    /\ file' = None
    /\ UNCHANGED <<overrides, filter, change, event, records>>

(* run: the sizes are those of the channels now; key function and filter   *)
(* stay.                                                                   *)
Run ==
    /\ stage = "built"
    /\ overrides' = built.overrides /\ filter' = built.filter
    /\ stage' = "running" /\ built' = None
    /\ UNCHANGED <<file, change, event, records>>

(* The values of a row as this version of go-mysql delivers them. *)
Delivered(vals, rep) ==
    [i \in DOMAIN vals |->
        IF vals[i].t = "chars" THEN [vals[i] EXCEPT !.t = rep] ELSE vals[i]]

EventOf(c, rep) ==
    LET image(vals) == IF vals = None THEN NoRow
                       ELSE mapRow(c.schema, Delivered(vals, rep))
        e == [id |-> c.id, op |-> c.op, fqtn |-> c.schema.fqtn, key |-> <<>>,
              before |-> image(c.before), after |-> image(c.after),
              source |-> [table |-> c.schema.fqtn, gtid |-> c.gtid, pos |-> c.pos]]
    IN  [e EXCEPT !.key = KeyFromColumns(e.fqtn, Row(e), c.schema.pk)]

(* emitRows for one row of a rows event; those of other tables are skipped. *)
EmitRow ==
    /\ stage = "running" /\ Len(records) < MaxRecords
    /\ \E c \in Changes, rep \in {"string", "bytes"} :
        /\ match(filter, c.schema.name)
        /\ change' = c /\ event' = EventOf(c, rep)
    /\ stage' = "mapped"
    /\ UNCHANGED <<file, built, overrides, filter, records>>

(* Dispatcher.Pick: the routed key becomes the record's key. *)
PickKey ==
    /\ stage = "mapped"
    /\ event' = [event EXCEPT !.key = DefaultKey(overrides, event)]
    /\ stage' = "routed"
    /\ UNCHANGED <<file, built, overrides, filter, change, records>>

(* PublishBatch serializes the event; each map is iterated in some order. *)
Publish ==
    /\ stage = "routed"
    /\ \E b \in SetToSeqs(DOMAIN event.before), a \in SetToSeqs(DOMAIN event.after) :
        LET r == Serialize(event, b, a)
        IN  records' = Append(records,
                        [change |-> change, key |-> r.key, value |-> r.value])
    /\ stage' = "running" /\ change' = None /\ event' = None
    /\ UNCHANGED <<file, built, overrides, filter>>

Next == LoadFile \/ BuildHyperloop \/ Run \/ EmitRow \/ PickKey \/ Publish

Spec == Init /\ [][Next]_vars

----------------------------------------------------------------------------
(* The entity a change belongs to, by the database's own values: those of  *)
(* the columns the configuration names, or of the primary key, or of all,  *)
(* in the row the change leaves behind or removes.  A column the row does  *)
(* not have is NULL, and so is an empty JSON value.                        *)
Entity(c) ==
    LET vals == Image(c)
        width == Min({Len(vals), Len(c.schema.columns)})
        present == {c.schema.columns[i] : i \in 1..width}
        named == IF c.schema.fqtn \in DOMAIN overrides
                 THEN overrides[c.schema.fqtn] ELSE c.schema.pk
        at(n) == CHOOSE i \in 1..width : c.schema.columns[i] = n
        null(n) == \/ n \notin present
                   \/ c.schema.kinds[at(n)] = "json" /\ vals[at(n)].s = <<>>
    IN  [n \in IF named = <<>> THEN present ELSE Range(named) |->
            IF null(n) THEN Nil ELSE vals[at(n)]]

(* Two records of a table carry the same key exactly when their changes    *)
(* belong to the same entity, whatever the operation was and whatever the  *)
(* values contain: KeyFromColumns neither conflates two entities ('|', '\' *)
(* and NULL in the values) nor splits one.                                 *)
KeysAreExact ==
    \A i, j \in DOMAIN records :
        LET c == records[i].change
            d == records[j].change
        IN  c.schema.fqtn = d.schema.fqtn
            => (records[i].key = records[j].key <=> Entity(c) = Entity(d))

\* What a consumer should find for a column, a row and a change.
Expected(kind, v) ==
    CASE v.t = "nil" -> Lit(<<"null">>)
      [] v.t = "int" -> Num(AppendInt(v.s[1]))
      [] OTHER -> CASE kind = "json" -> IF v.s = <<>> THEN Lit(<<"null">>)
                                        ELSE ReadJSON(v.s)
                    [] kind = "binary" -> Str(Base64(v.s))
                    [] OTHER -> Str(v.s)

ExpectedRow(schema, vals) ==
    LET width == Min({Len(vals), Len(schema.columns)})
        sorted == SetToSortSeq(1..width, LAMBDA i, j :
                    Before(schema.columns[i], schema.columns[j]))
    IN  IF vals = None THEN Lit(<<"null">>)
        ELSE Obj([n \in DOMAIN sorted |->
                    <<<<schema.columns[sorted[n]]>>,
                      Expected(schema.kinds[sorted[n]], vals[sorted[n]])>>])

(* Every payload is a JSON document, and reading it gives back the change: *)
(* its operation, both images with each column by its kind, and where it   *)
(* came from.                                                              *)
PayloadReadsBack ==
    \A i \in DOMAIN records :
        LET c == records[i].change
            gtid == IF c.gtid = "" THEN <<>> ELSE <<<<<<"gtid">>, Str(<<c.gtid>>)>>>>
            pos == IF c.pos = 0 THEN <<>> ELSE <<<<<<"pos">>, Num(AppendInt(c.pos))>>>>
        IN  ReadJSON(records[i].value) =
            Obj(<<<<<<"id">>, Str(<<c.id>>)>>,
                  <<<<"op">>, Str(<<c.op>>)>>,
                  <<<<"before">>, ExpectedRow(c.schema, c.before)>>,
                  <<<<"after">>, ExpectedRow(c.schema, c.after)>>,
                  <<<<"source">>, Obj(<<<<<<"table">>, Str(<<c.schema.fqtn>>)>>>>
                                      \o gtid \o pos)>>>>)

(* A change that is published twice gives the same key and the same bytes  *)
(* both times, in whatever order the maps were iterated and whether        *)
(* go-mysql delivered strings or byte slices: consumers may compare        *)
(* payloads, and a replay stays in its partition.                          *)
ReplayIsIdentical ==
    \A i, j \in DOMAIN records :
        records[i].change = records[j].change => records[i] = records[j]

\* The schemas of the server itself.
SystemSchemas == {"mysql", "sys", "performance_schema", "information_schema"}

(* Nomios never captures the table in which it keeps its own state, nor    *)
(* the system schemas, whatever the file includes: each saved position     *)
(* would come back as an event, and move the position again.               *)
OwnStateIsNotCaptured ==
    \A i \in DOMAIN records :
        LET name == records[i].change.schema.name
        IN  name.table # "nomios_state" /\ name.db \notin SystemSchemas

(* Whatever the file holds, a hyperloop that is built has what the rest of *)
(* the code takes for granted: make(chan) with a negative size panics, a   *)
(* batch of no events stops the publisher, a queue batch is no larger than *)
(* a publish batch; and without state.addr the mysql store dials the very  *)
(* server the source reads, default port included.                         *)
BuiltIsRunnable ==
    stage = "built" =>
        LET flush == flushSize(built.batch)
        IN  /\ built.queues >= 1 /\ built.inflight >= 1
            /\ flush \in 1..built.batch
            /\ batches(built.capacity, flush) >= 2
            /\ built.stateAt \in {<<"dir">>, <<"addr">>, built.dials}
=============================================================================
