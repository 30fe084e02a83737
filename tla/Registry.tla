------------------------------ MODULE Registry ------------------------------
(***************************************************************************)
(* The write side of the catalogue: CreateArtifact, CreateVersion and      *)
(* ReplaceDependencies of internal/service/service.go, served to several   *)
(* clients at once over one database.                                      *)
(*                                                                         *)
(* Each statement is one step.  It needs the only database connection      *)
(* (SetMaxOpenConns(1)) and commits on its own, and other requests run     *)
(* between two calls of a handler.  store.ReplaceDependencies is a         *)
(* transaction: it keeps the connection from Begin to Commit or Rollback,  *)
(* and its DELETE and INSERTs change the table in place.  Any statement    *)
(* may fail, and the process may crash between any two of them.            *)
(***************************************************************************)
EXTENDS Naturals, Sequences, FiniteSets

CONSTANTS Client,        \* connections that each carry one request at a time
          Requests,      \* the requests clients may send
          Seeds,         \* what the database holds at the start
          MaxRequests,   \* bound on the requests of a behaviour
          MaxFaults,     \* bound on the store calls that fail
          MaxCrashes     \* bound on the crashes of the process

ASSUME RegistryAssumption ==
    /\ MaxFaults \in Nat
    /\ \A seed \in Seeds :
          /\ seed.deps = [v \in seed.versions |-> seed.deps[v]]
          /\ \A v \in seed.versions :
                /\ v[1] \in seed.artifacts
                /\ \A x, y \in seed.deps[v] : x[1] \in seed.artifacts /\ (x[1] = y[1] => x = y)
    /\ \A r \in Requests : /\ r.op \in {"artifact", "version", "dependencies"}
                          /\ r.op = "dependencies" => Len(r.inputs) \in Nat

VARIABLES artifacts,     \* table artifacts: names
          versions,      \* table artifact_versions: <<name, version>>
          deps,          \* table dependencies: version -> set of <<target, constraint>>
          undo,          \* {}, or in a transaction {deps as it was at its Begin}
          changes,       \* table change_records, in id order
          job,           \* the request each client is served, and how far
          answers,       \* history: the request and the status of every answer
          wrote,         \* history: the requests that changed a business table
          asked,         \* history: version -> the rows its last committed PUT asked for
          issued, faults, crashes

tables == <<artifacts, versions, deps, undo>>
history == <<answers, wrote, asked>>
vars == <<tables, changes, job, history, issued, faults, crashes>>

Idle == [pc |-> "idle"]

\* f with x mapped to y.
With(f, x, y) == [z \in DOMAIN f \cup {x} |-> IF z = x THEN y ELSE f[z]]

Entity(r) == IF r.op = "artifact" THEN <<r.name>> ELSE <<r.name, r.version>>

\* The rows a PUT asks for; its inputs are <<target, constraint>> in body order.
Declared(r) == {r.inputs[i] : i \in 1 .. Len(r.inputs)}

Init ==
    /\ \E seed \in Seeds :
          /\ artifacts = seed.artifacts
          /\ versions = seed.versions
          /\ deps = seed.deps
          /\ asked = seed.deps
    /\ undo = {}
    /\ changes = <<>>
    /\ job = [c \in Client |-> Idle]
    /\ answers = <<>>
    /\ wrote = {}
    /\ issued = 0 /\ faults = 0 /\ crashes = 0

-----------------------------------------------------------------------------
(* Steps that all handlers share. *)

At(c, op, pc) == job[c].pc = pc /\ job[c].req.op = op

Goto(c, pc) == job' = [job EXCEPT ![c].pc = pc] /\ UNCHANGED history

Answer(c, status) ==
    /\ job' = [job EXCEPT ![c] = Idle]
    /\ answers' = With(answers, job[c].id, [req |-> job[c].req, status |-> status])
    /\ UNCHANGED <<wrote, asked>>

\* No transaction holds the connection.
Free == undo = {}

Fault == faults < MaxFaults /\ faults' = faults + 1

\* A store call gets the connection and succeeds, or fails while the bound on faults
\* allows it.
Works == Free /\ UNCHANGED faults
Fails == Free /\ Fault

\* A store call whose error the handler cannot tell from a fault: sql.ErrNoRows of
\* a read that finds nothing, a violated key of an INSERT.
ErrorIf(condition) == \/ condition /\ Works
                      \/ Fails

Written(c) == wrote' = wrote \cup {job[c].id}

Start(c) ==
    /\ job[c] = Idle
    /\ issued < MaxRequests
    /\ issued' = issued + 1
    /\ \E r \in Requests :
          job' = [job EXCEPT ![c] = [pc |-> "lookup", id |-> issued + 1, req |-> r, next |-> 1,
                                     before |-> {}, after |-> {}]]
    /\ UNCHANGED <<tables, changes, history, faults, crashes>>

-----------------------------------------------------------------------------
(* CreateArtifact. *)

\* The name is free if the read finds nothing, or fails.
CheckName(c) ==
    /\ At(c, "artifact", "lookup")
    /\ \/ ~job[c].req.wellFormed /\ Answer(c, 400) /\ UNCHANGED faults
       \/ /\ job[c].req.wellFormed
          /\ \/ job[c].req.name \in artifacts /\ Works /\ Answer(c, 409)
             \/ ErrorIf(job[c].req.name \notin artifacts) /\ Goto(c, "insert")
    /\ UNCHANGED <<tables, changes, issued, crashes>>

\* INSERT under the UNIQUE key; a duplicate is an error like any other.
InsertArtifact(c) ==
    /\ At(c, "artifact", "insert")
    /\ \/ /\ job[c].req.name \notin artifacts /\ Works
          /\ artifacts' = artifacts \cup {job[c].req.name}
          /\ Written(c)
          /\ job' = [job EXCEPT ![c].pc = "readback"]
          /\ UNCHANGED <<answers, asked>>
       \/ /\ ErrorIf(job[c].req.name \in artifacts)
          /\ Answer(c, 500) /\ UNCHANGED artifacts
    /\ UNCHANGED <<versions, deps, undo, changes, issued, crashes>>

-----------------------------------------------------------------------------
(* CreateVersion. *)

FindArtifactOfVersion(c) ==
    /\ At(c, "version", "lookup")
    /\ \/ ErrorIf(job[c].req.name \notin artifacts) /\ Answer(c, 404)
       \/ /\ job[c].req.name \in artifacts /\ Works
          /\ IF job[c].req.wellFormed THEN Goto(c, "check") ELSE Answer(c, 400)
    /\ UNCHANGED <<tables, changes, issued, crashes>>

CheckVersion(c) ==
    /\ At(c, "version", "check")
    /\ \/ Entity(job[c].req) \in versions /\ Works /\ Answer(c, 409)
       \/ ErrorIf(Entity(job[c].req) \notin versions) /\ Goto(c, "insert")
    /\ UNCHANGED <<tables, changes, issued, crashes>>

\* Mutant: the table has no UNIQUE key.
InsertVersionAgain(c) ==
    /\ At(c, "version", "insert")
    /\ \/ /\ job[c].req.name \in artifacts /\ Works
          /\ versions' = versions \cup {Entity(job[c].req)}
          /\ deps' = With(deps, Entity(job[c].req), {})
          /\ asked' = With(asked, Entity(job[c].req), {})
          /\ Written(c)
          /\ job' = [job EXCEPT ![c].pc = "readback"]
          /\ UNCHANGED answers
       \/ /\ ErrorIf(job[c].req.name \notin artifacts)
          /\ Answer(c, 500) /\ UNCHANGED <<versions, deps>>
    /\ UNCHANGED <<artifacts, undo, changes, issued, crashes>>

\* INSERT under the UNIQUE key and the foreign key to artifacts.
InsertVersion(c) ==
    /\ At(c, "version", "insert")
    /\ \/ /\ Entity(job[c].req) \notin versions /\ job[c].req.name \in artifacts /\ Works
          /\ versions' = versions \cup {Entity(job[c].req)}
          /\ deps' = With(deps, Entity(job[c].req), {})
          /\ asked' = With(asked, Entity(job[c].req), {})
          /\ Written(c)
          /\ job' = [job EXCEPT ![c].pc = "readback"]
          /\ UNCHANGED answers
       \/ /\ ErrorIf(Entity(job[c].req) \in versions \/ job[c].req.name \notin artifacts)
          /\ Answer(c, 500) /\ UNCHANGED <<versions, deps>>
    /\ UNCHANGED <<artifacts, undo, changes, issued, crashes>>

-----------------------------------------------------------------------------
(* ReplaceDependencies. *)

FindArtifactOfPut(c) ==
    /\ At(c, "dependencies", "lookup")
    /\ \/ ErrorIf(job[c].req.name \notin artifacts) /\ Answer(c, 404)
       \/ job[c].req.name \in artifacts /\ Works /\ Goto(c, "version")
    /\ UNCHANGED <<tables, changes, issued, crashes>>

FindVersionOfPut(c) ==
    /\ At(c, "dependencies", "version")
    /\ \/ ErrorIf(Entity(job[c].req) \notin versions) /\ Answer(c, 404)
       \/ Entity(job[c].req) \in versions /\ Works /\ Goto(c, "before")
    /\ UNCHANGED <<tables, changes, issued, crashes>>

Keep(c, field, pc, rows) == job' = [job EXCEPT ![c][field] = rows, ![c].pc = pc]

\* Mutant: the old rows are deleted before the inputs are checked.
ReadBeforeDeletes(c) ==
    /\ At(c, "dependencies", "before")
    /\ Works
    /\ job' = [job EXCEPT ![c].before = deps[Entity(job[c].req)], ![c].pc = "inputs"]
    /\ deps' = [deps EXCEPT ![Entity(job[c].req)] = {}]
    /\ Written(c)
    /\ UNCHANGED <<artifacts, versions, undo, changes, answers, asked, issued, crashes>>

\* The error of this read is discarded: a failed read counts as "no dependencies".
ReadBefore(c) ==
    /\ At(c, "dependencies", "before")
    /\ \/ Works /\ Keep(c, "before", "inputs", deps[Entity(job[c].req)])
       \/ Fails /\ Keep(c, "before", "inputs", {})
    /\ UNCHANGED <<tables, changes, history, issued, crashes>>

\* Mutant: a target may be named twice.
CheckInputAllowsRepeats(c) ==
    /\ At(c, "dependencies", "inputs")
    /\ job[c].next <= Len(job[c].req.inputs)
    /\ LET input == job[c].req.inputs[job[c].next]
       IN  \/ input[2] = "malformed" /\ Answer(c, 400) /\ UNCHANGED faults
           \/ /\ input[2] # "malformed"
              /\ ErrorIf(input[1] \notin artifacts)
              /\ Answer(c, 422)
           \/ /\ input[2] # "malformed" /\ input[1] \in artifacts /\ Works
              /\ job' = [job EXCEPT ![c].next = @ + 1] /\ UNCHANGED history
    /\ UNCHANGED <<tables, changes, issued, crashes>>

\* One turn of the loop over the inputs: syntax, target, repeated target.
CheckInput(c) ==
    /\ At(c, "dependencies", "inputs")
    /\ job[c].next <= Len(job[c].req.inputs)
    /\ LET input == job[c].req.inputs[job[c].next]
           seen == {job[c].req.inputs[i][1] : i \in 1 .. job[c].next - 1}
       IN  \/ input[2] = "malformed" /\ Answer(c, 400) /\ UNCHANGED faults
           \/ /\ input[2] # "malformed"
              /\ ErrorIf(input[1] \notin artifacts)
              /\ Answer(c, 422)
           \/ /\ input[2] # "malformed" /\ input[1] \in artifacts /\ Works
              /\ IF input[1] \in seen THEN Answer(c, 400)
                 ELSE job' = [job EXCEPT ![c].next = @ + 1] /\ UNCHANGED history
    /\ UNCHANGED <<tables, changes, issued, crashes>>

AllChecked(c) ==
    At(c, "dependencies", "inputs") /\ job[c].next = Len(job[c].req.inputs) + 1

\* Mutant: the statements run on the database and not in a transaction.
BeginNothing(c) ==
    /\ AllChecked(c)
    /\ \/ Works /\ job' = [job EXCEPT ![c].next = 1, ![c].pc = "delete"] /\ UNCHANGED history
       \/ Fails /\ Answer(c, 500)
    /\ UNCHANGED <<tables, changes, issued, crashes>>

\* store.ReplaceDependencies: the transaction takes the connection.
Begin(c) ==
    /\ AllChecked(c)
    /\ \/ /\ Works
          /\ undo' = {deps}
          /\ job' = [job EXCEPT ![c].next = 1, ![c].pc = "delete"] /\ UNCHANGED history
       \/ Fails /\ Answer(c, 500) /\ UNCHANGED undo
    /\ UNCHANGED <<artifacts, versions, deps, changes, issued, crashes>>

\* The table of dependencies without what a transaction in progress has done to it.
Committed == IF Free THEN deps ELSE CHOOSE before \in undo : TRUE

\* A statement of the transaction fails: it returns, and the deferred Rollback takes
\* back what the earlier ones did and gives the connection back.
Rollback(c) ==
    /\ deps' = Committed
    /\ undo' = {}
    /\ Answer(c, 500)

DeleteRows(c) ==
    /\ At(c, "dependencies", "delete")
    /\ \/ /\ deps' = [deps EXCEPT ![Entity(job[c].req)] = {}]
          /\ Goto(c, "rows") /\ UNCHANGED <<undo, faults>>
       \/ Fault /\ Rollback(c)
    /\ UNCHANGED <<artifacts, versions, changes, issued, crashes>>

\* One INSERT, under the foreign key to artifacts and the UNIQUE key of the table.
InsertRow(c) ==
    /\ At(c, "dependencies", "rows")
    /\ job[c].next <= Len(job[c].req.inputs)
    /\ LET version == Entity(job[c].req)
           row == job[c].req.inputs[job[c].next]
           fits == row[1] \in artifacts /\ \A x \in deps[version] : x[1] # row[1]
       IN  \/ /\ fits
              /\ deps' = [deps EXCEPT ![version] = @ \cup {row}]
              /\ job' = [job EXCEPT ![c].next = @ + 1]
              /\ UNCHANGED <<undo, faults, history>>
           \/ ~fits /\ Rollback(c) /\ UNCHANGED faults
           \/ Fault /\ Rollback(c)
    /\ UNCHANGED <<artifacts, versions, changes, issued, crashes>>

\* A COMMIT that fails leaves nothing of the transaction.
Commit(c) ==
    /\ At(c, "dependencies", "rows")
    /\ job[c].next = Len(job[c].req.inputs) + 1
    /\ \/ /\ undo' = {}
          /\ Written(c)
          /\ asked' = [asked EXCEPT ![Entity(job[c].req)] = Declared(job[c].req)]
          /\ job' = [job EXCEPT ![c].pc = "after"]
          /\ UNCHANGED <<deps, answers, faults>>
       \/ Fault /\ Rollback(c)
    /\ UNCHANGED <<artifacts, versions, changes, issued, crashes>>

ReadAfter(c) ==
    /\ At(c, "dependencies", "after")
    /\ \/ Works /\ Keep(c, "after", "record", deps[Entity(job[c].req)])
       \/ Fails /\ Keep(c, "after", "record", {})
    /\ UNCHANGED <<tables, changes, history, issued, crashes>>

-----------------------------------------------------------------------------
(* The end of all three. *)

\* store.CreateArtifact and CreateVersion read the inserted row back.
ReadBack(c) ==
    /\ job[c].pc = "readback"
    /\ \/ Works /\ Goto(c, "record")
       \/ Fails /\ Answer(c, 500)
    /\ UNCHANGED <<tables, changes, issued, crashes>>

Success(r) == IF r.op = "dependencies" THEN 200 ELSE 201

\* Mutant: the error of recordChange is discarded.
RecordIgnoresError(c) ==
    /\ job[c].pc = "record"
    /\ \/ /\ Works
          /\ changes' = Append(changes, [entity |-> Entity(job[c].req), by |-> job[c].id,
                                         before |-> job[c].before, after |-> job[c].after])
       \/ Fails /\ UNCHANGED changes
    /\ Answer(c, Success(job[c].req))
    /\ UNCHANGED <<tables, issued, crashes>>

\* recordChange, in a transaction of its own, then the answer.
Record(c) ==
    /\ job[c].pc = "record"
    /\ \/ /\ Works
          /\ changes' = Append(changes, [entity |-> Entity(job[c].req), by |-> job[c].id,
                                         before |-> job[c].before, after |-> job[c].after])
          /\ Answer(c, Success(job[c].req))
       \/ Fails /\ Answer(c, 500) /\ UNCHANGED changes
    /\ UNCHANGED <<tables, issued, crashes>>

\* The process dies and is started again: every request is lost, and so is a
\* transaction that has not committed; the tables stay.
Crash ==
    /\ crashes < MaxCrashes
    /\ \E c \in Client : job[c] # Idle
    /\ crashes' = crashes + 1
    /\ job' = [c \in Client |-> Idle]
    /\ deps' = Committed /\ undo' = {}
    /\ UNCHANGED <<artifacts, versions, changes, history, issued, faults>>

-----------------------------------------------------------------------------
Serve(c) ==
    \/ CheckName(c) \/ InsertArtifact(c)
    \/ FindArtifactOfVersion(c) \/ CheckVersion(c) \/ InsertVersion(c)
    \/ FindArtifactOfPut(c) \/ FindVersionOfPut(c) \/ ReadBefore(c) \/ CheckInput(c)
    \/ Begin(c) \/ DeleteRows(c) \/ InsertRow(c) \/ Commit(c) \/ ReadAfter(c)
    \/ ReadBack(c) \/ Record(c)

AllServed == issued = MaxRequests /\ \A c \in Client : job[c] = Idle

Next ==
    \/ \E c \in Client : Start(c) \/ Serve(c)
    \/ Crash
    \/ AllServed /\ UNCHANGED vars

\* net/http gives every request a goroutine of its own, which the Go scheduler runs;
\* a handler goes on when its step is enabled and stays so.
Spec == Init /\ [][Next]_vars /\ \A c \in Client : WF_vars(Serve(c))

-----------------------------------------------------------------------------
(* What the service must get right. *)

\* The rows fit the schema: every target exists (foreign key), each once (UNIQUE).
RowsFit(rows) ==
    \A x, y \in rows : x[1] \in artifacts /\ (x[1] = y[1] => x = y)

\* Versions have their artifact, and the dependencies fit the keys of their table.
Schema == \A v \in versions : v[1] \in artifacts /\ RowsFit(deps[v])

TypeOK ==
    /\ DOMAIN deps = versions /\ Schema
    /\ undo \subseteq {asked}
    /\ DOMAIN answers \cup wrote \subseteq 1 .. issued
    /\ \A i \in DOMAIN answers : answers[i].req \in Requests
    /\ \A c \in Client : job[c] # Idle => job[c].id \in 1 .. issued /\ job[c].req \in Requests

Recorded == {changes[i].by : i \in 1 .. Len(changes)}

\* A client is told of success exactly when the change record is in the table,
\* whatever call failed on the way.
SuccessMeansRecorded ==
    \A i \in DOMAIN answers : answers[i].status \in {200, 201} <=> i \in Recorded

\* A request refused as the client's fault has changed nothing.
RefusalChangesNothing ==
    \A i \in DOMAIN answers : answers[i].status \in {400, 404, 409, 422} => i \notin wrote

\* Of all clients that create the same artifact or version, in any interleaving
\* of their checks and inserts, at most one is told that it did.
OneCreator ==
    \A i, j \in DOMAIN answers :
        answers[i].status = 201 /\ answers[j].status = 201
        /\ Entity(answers[i].req) = Entity(answers[j].req) => i = j

\* What a version depends on is the whole of what the last PUT committed for it asked
\* for: the DELETE and the INSERTs of two PUTs never mix, and one that fails at any of
\* its statements, or dies among them, leaves nothing behind.
LastPutStands == Committed = asked

\* What the handler of a PUT has checked stays true until its transaction: unless a
\* store call fails, no PUT is answered with an internal error.
PutChecksHold ==
    \A i \in DOMAIN answers :
        answers[i].req.op = "dependencies" /\ answers[i].status = 500 => faults > 0

-----------------------------------------------------------------------------
(* What the documents say of the program, checked in a run of its own. *)

\* PROJECT_SPEC.md:50: a business write and its change record commit together.  So
\* when no request is in progress, every write has its record.
WritesAreRecorded == (\A c \in Client : job[c] = Idle) => wrote \subseteq Recorded
=============================================================================
