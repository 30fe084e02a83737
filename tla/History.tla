------------------------------ MODULE History ------------------------------
(***************************************************************************)
(* The history of resolutions: Resolve, RerunResolution, Rollback,         *)
(* CreateLockfile and ResolveWithLockfile of internal/service, served to   *)
(* several clients at once over the tables resolutions, resolution_items,  *)
(* lockfiles and lockfile_entries.                                         *)
(*                                                                         *)
(* What the resolver answers depends on the catalogue at that moment; here *)
(* the catalogue is a number, the versions of it that registrations have   *)
(* gone through, and Answers tells what the resolver says of each input.   *)
(* Each store call is one step, as in Registry.                            *)
(***************************************************************************)
EXTENDS Naturals, Sequences, FiniteSets, Functions

CONSTANTS Client,
          Inputs,        \* the (artifact, version) bodies of resolve requests
          Answers,       \* Answers[w][i]: what the resolver says of input i in catalogue w
          Seeds,         \* what the tables hold at the start; older change records are left out
          LockNames,     \* lockfile names clients choose, none like a default one
          MaxRequests,   \* bound on the requests of a behaviour
          MaxFaults,     \* bound on the store calls that fail
          MaxCrashes     \* bound on the crashes of the process

\* An answer: an unknown root, a failure, or a selection (a function to versions).  An
\* artifact that is registered stays so.
ASSUME AnswersAssumption ==
    /\ Len(Answers) \in Nat
    /\ \A w \in 1 .. Len(Answers), i \in Inputs :
          /\ Answers[w][i].status \in {"no root", "failed", "succeeded"}
          /\ Answers[w][i].status = "failed" => DOMAIN Answers[w][i].items = {}
          /\ Answers[w][i].status = "no root" =>
                \A u \in 1 .. w : Answers[u][i].status = "no root"

-----------------------------------------------------------------------------
(* The tables. *)

NoSource == 0

\* The request_ref strings "direct-7" and "rerun-7", each with any number of "rollback-"
\* before it, and lockfile names: those clients choose, and "lock-" before a request_ref.
RefOf(source, n) == [source |-> source, seq |-> n, rollbacks |-> 0]
RollbackRef(ref) == [ref EXCEPT !.rollbacks = @ + 1]
Chosen(name) == <<name>>
DefaultName(ref) == <<"lock", ref>>

Ref == [source : {"direct", "rerun"}, seq : Nat, rollbacks : Nat]

\* A stored resolution; a copy names an earlier one.
IsRow(rows, i) ==
    LET row == rows[i]
    IN  /\ row.ref \in Ref
        /\ row.input \in Inputs
        /\ row.status \in {"succeeded", "failed"}
        /\ row.status = "failed" => DOMAIN row.items = {}
        /\ row.source \in {"direct", "rerun", "rollback"}
        /\ row.from \in 0 .. i - 1
        /\ row.from = NoSource <=> row.source = "direct"

\* A rerun asks what its source asked, and a rollback is its source again.
IsFaithful(rows, i) ==
    LET row == rows[i]
        source == rows[row.from]
    IN  row.from # NoSource =>
           /\ row.input = source.input
           /\ row.source = "rollback" =>
                 source.status = "succeeded" /\ row.status = "succeeded"
                 /\ row.items = source.items

\* The reference tells the source; the number in it was MAX(id) + 1 or less.
OwnRef(rows, i) ==
    LET row == rows[i]
    IN  IF row.source = "rollback" THEN row.ref = RollbackRef(rows[row.from].ref)
        ELSE \E n \in 0 .. i : row.ref = RefOf(row.source, n)

IsLock(rows, lock) ==
    /\ lock.from \in 1 .. Len(rows)
    /\ rows[lock.from].status = "succeeded"
    /\ lock.entries = rows[lock.from].items

\* What earlier requests, those by 0, have left.
ASSUME SeedsAssumption ==
    \A seed \in Seeds :
        LET rows == seed.resolutions
            locks == seed.lockfiles
        IN  /\ seed.catalogue \in 1 .. Len(Answers)
            /\ Len(rows) \in Nat /\ rows = [i \in 1 .. Len(rows) |-> rows[i]]
            /\ Len(locks) \in Nat /\ locks = [i \in 1 .. Len(locks) |-> locks[i]]
            /\ \A i \in 1 .. Len(rows) :
                  IsRow(rows, i) /\ IsFaithful(rows, i) /\ OwnRef(rows, i) /\ rows[i].by = 0
            /\ \A i, j \in 1 .. Len(rows) : rows[i].ref = rows[j].ref => i = j
            /\ \A i \in 1 .. Len(locks) : IsLock(rows, locks[i]) /\ locks[i].by = 0
            /\ \A i, j \in 1 .. Len(locks) : locks[i].name = locks[j].name => i = j

VARIABLES catalogue,     \* which catalogue is in force
          resolutions,   \* tables resolutions and resolution_items; the id is the place
          lockfiles,     \* tables lockfiles and lockfile_entries; the id is the place
          changes,       \* table change_records for these entities
          job, answers,  \* as in Registry; rows also keep the request they are by
          issued, faults, crashes

tables == <<resolutions, lockfiles>>
vars == <<catalogue, tables, changes, job, answers, issued, faults, crashes>>

Idle == [pc |-> "idle"]

Init ==
    /\ \E seed \in Seeds :
          /\ catalogue = seed.catalogue
          /\ resolutions = seed.resolutions
          /\ lockfiles = seed.lockfiles
    /\ changes = <<>>
    /\ job = [c \in Client |-> Idle]
    /\ answers = <<>>
    /\ issued = 0 /\ faults = 0 /\ crashes = 0

-----------------------------------------------------------------------------
(* Requests and the steps all handlers share. *)

\* Ids a client may name: those in the table, and one that is not.
Ids(table) == 1 .. Len(table) + 1

Requests ==
    [op : {"resolve"}, input : Inputs]
    \cup [op : {"rerun", "rollback"}, id : Ids(resolutions)]
    \cup [op : {"lock"}, id : Ids(resolutions), name : LockNames \cup {""}]
    \cup [op : {"verify"}, name : LockNames, input : Inputs]

FirstCall(r) == CASE r.op = "resolve" -> "root"
                  [] r.op = "verify"  -> "pins"
                  [] OTHER            -> "load"

Start(c) ==
    /\ job[c] = Idle
    /\ issued < MaxRequests
    /\ issued' = issued + 1
    /\ \E r \in Requests :
          job' = [job EXCEPT ![c] =
                    [pc |-> FirstCall(r), id |-> issued + 1, req |-> r,
                     input |-> IF r.op \in {"resolve", "verify"} THEN r.input ELSE <<>>,
                     source |-> "direct", from |-> NoSource,
                     answer |-> <<>>, seq |-> 0, pins |-> <<>>, saved |-> 0]]
    /\ UNCHANGED <<catalogue, tables, changes, answers, faults, crashes>>

At(c, pc) == job[c].pc = pc
Doing(c, op) == job[c].req.op = op

With(f, x, y) == [z \in DOMAIN f \cup {x} |-> IF z = x THEN y ELSE f[z]]

Goto(c, pc) == job' = [job EXCEPT ![c].pc = pc] /\ UNCHANGED answers

Answer(c, status, report) ==
    /\ job' = [job EXCEPT ![c] = Idle]
    /\ answers' = With(answers, job[c].id, [req |-> job[c].req, status |-> status,
                                            report |-> report])

Works == UNCHANGED faults
Fails == faults < MaxFaults /\ faults' = faults + 1

ErrorIf(condition) == \/ condition /\ Works
                      \/ Fails

-----------------------------------------------------------------------------
(* resolveForSource: the resolution shared by Resolve, rerun and verify. *)

\* GetArtifactByName of the root.
FindRoot(c) ==
    /\ At(c, "root")
    /\ \/ /\ ErrorIf(Answers[catalogue][job[c].input].status = "no root")
          /\ Answer(c, 404, <<>>)
       \/ /\ Answers[catalogue][job[c].input].status # "no root"
          /\ Works
          /\ Goto(c, "compute")
    /\ UNCHANGED <<catalogue, tables, changes, issued, crashes>>

\* LoadGraph and resolver.Resolve.
Compute(c) ==
    /\ At(c, "compute")
    /\ \/ /\ Works
          /\ job' = [job EXCEPT ![c].answer = Answers[catalogue][job[c].input], ![c].pc = "next"]
          /\ UNCHANGED answers
       \/ Fails /\ Answer(c, 500, <<>>)
    /\ UNCHANGED <<catalogue, tables, changes, issued, crashes>>

\* Mutant: the greatest id itself.
NextSeqLast(c) ==
    /\ At(c, "next")
    /\ \/ Works /\ job' = [job EXCEPT ![c].seq = Len(resolutions), ![c].pc = "save"]
       \/ Fails /\ job' = [job EXCEPT ![c].seq = 0, ![c].pc = "save"]
    /\ UNCHANGED <<catalogue, tables, changes, answers, issued, crashes>>

\* nextRefSeq: MAX(id) + 1, or 0 when the query fails, whose error is discarded.
NextSeq(c) ==
    /\ At(c, "next")
    /\ \/ Works /\ job' = [job EXCEPT ![c].seq = Len(resolutions) + 1, ![c].pc = "save"]
       \/ Fails /\ job' = [job EXCEPT ![c].seq = 0, ![c].pc = "save"]
    /\ UNCHANGED <<catalogue, tables, changes, answers, issued, crashes>>

Taken(ref) == \E i \in 1 .. Len(resolutions) : resolutions[i].ref = ref

\* SaveResolution: one transaction under UNIQUE(request_ref).
SaveAs(c, ref, row) ==
    /\ \/ /\ ~Taken(ref) /\ Works
          /\ resolutions' = Append(resolutions, row)
          /\ job' = [job EXCEPT ![c].saved = Len(resolutions) + 1, ![c].pc = "record"]
          /\ UNCHANGED answers
       \/ ErrorIf(Taken(ref)) /\ Answer(c, 500, <<>>) /\ UNCHANGED resolutions
    /\ UNCHANGED <<catalogue, lockfiles, changes, issued, crashes>>

Save(c) ==
    /\ At(c, "save")
    /\ SaveAs(c, RefOf(job[c].source, job[c].seq),
              [ref |-> RefOf(job[c].source, job[c].seq), by |-> job[c].id, input |-> job[c].input,
               status |-> job[c].answer.status, items |-> job[c].answer.items,
               source |-> job[c].source, from |-> job[c].from])

-----------------------------------------------------------------------------
(* RerunResolution, Rollback and CreateLockfile read a resolution first. *)

Source(c) == resolutions[job[c].req.id]
NotThere(c) == job[c].req.id > Len(resolutions)

\* A rerun reuses the stored input, whatever the status of the resolution was.
LoadForRerun(c) ==
    /\ At(c, "load") /\ Doing(c, "rerun")
    /\ \/ ErrorIf(NotThere(c)) /\ Answer(c, 404, <<>>)
       \/ /\ ~NotThere(c) /\ Works
          /\ job' = [job EXCEPT ![c].input = Source(c).input, ![c].source = "rerun",
                                ![c].from = job[c].req.id, ![c].pc = "root"]
          /\ UNCHANGED answers
    /\ UNCHANGED <<catalogue, tables, changes, issued, crashes>>

\* Mutant: the status is not looked at.
LoadWhatever(c) ==
    /\ At(c, "load") /\ (Doing(c, "rollback") \/ Doing(c, "lock"))
    /\ \/ ErrorIf(NotThere(c)) /\ Answer(c, 404, <<>>)
       \/ ~NotThere(c) /\ Works /\ Goto(c, IF Doing(c, "lock") THEN "name" ELSE "items")
    /\ UNCHANGED <<catalogue, tables, changes, issued, crashes>>

\* Only a resolution that succeeded can be rolled back to, or locked.
LoadSucceeded(c) ==
    /\ At(c, "load") /\ (Doing(c, "rollback") \/ Doing(c, "lock"))
    /\ \/ ErrorIf(NotThere(c)) /\ Answer(c, 404, <<>>)
       \/ /\ ~NotThere(c) /\ Works
          /\ IF Source(c).status # "succeeded" THEN Answer(c, 422, <<>>)
             ELSE Goto(c, IF Doing(c, "lock") THEN "name" ELSE "items")
    /\ UNCHANGED <<catalogue, tables, changes, issued, crashes>>

LoadItems(c) ==
    /\ At(c, "items")
    /\ \/ Fails /\ Answer(c, 500, <<>>)
       \/ /\ Works
          /\ job' = [job EXCEPT ![c].answer = [status |-> "succeeded", items |-> Source(c).items],
                                ![c].pc = IF Doing(c, "lock") THEN "lock" ELSE "rollback"]
          /\ UNCHANGED answers
    /\ UNCHANGED <<catalogue, tables, changes, issued, crashes>>

\* Mutant: the snapshot does not name its source.
SaveRollbackOrphan(c) ==
    /\ At(c, "rollback")
    /\ SaveAs(c, RollbackRef(Source(c).ref),
              [ref |-> RollbackRef(Source(c).ref), by |-> job[c].id, input |-> Source(c).input,
               status |-> "succeeded", items |-> job[c].answer.items,
               source |-> "rollback", from |-> NoSource])

SaveRollback(c) ==
    /\ At(c, "rollback")
    /\ SaveAs(c, RollbackRef(Source(c).ref),
              [ref |-> RollbackRef(Source(c).ref), by |-> job[c].id, input |-> Source(c).input,
               status |-> "succeeded", items |-> job[c].answer.items,
               source |-> "rollback", from |-> job[c].req.id])

NameFor(req) ==
    IF req.name = "" THEN DefaultName(resolutions[req.id].ref) ELSE Chosen(req.name)

LockName(c) == NameFor(job[c].req)

NameTaken(name) == \E i \in 1 .. Len(lockfiles) : lockfiles[i].name = name

\* Mutant: a client that finds the name taken looks again.
CheckLockNameAgain(c) ==
    /\ At(c, "name")
    /\ \/ NameTaken(LockName(c)) /\ Works /\ Goto(c, "name")
       \/ ErrorIf(~NameTaken(LockName(c))) /\ Goto(c, "items")
    /\ UNCHANGED <<catalogue, tables, changes, issued, crashes>>

CheckLockName(c) ==
    /\ At(c, "name")
    /\ \/ NameTaken(LockName(c)) /\ Works /\ Answer(c, 409, <<>>)
       \/ ErrorIf(~NameTaken(LockName(c))) /\ Goto(c, "items")
    /\ UNCHANGED <<catalogue, tables, changes, issued, crashes>>

\* Mutant: the table has no UNIQUE key.
SaveLockfileAgain(c) ==
    /\ At(c, "lock")
    /\ \/ /\ Works
          /\ lockfiles' = Append(lockfiles, [name |-> LockName(c), by |-> job[c].id,
                                             from |-> job[c].req.id, entries |-> job[c].answer.items])
          /\ job' = [job EXCEPT ![c].saved = Len(lockfiles) + 1, ![c].pc = "record"]
          /\ UNCHANGED answers
       \/ Fails /\ Answer(c, 500, <<>>) /\ UNCHANGED lockfiles
    /\ UNCHANGED <<catalogue, resolutions, changes, issued, crashes>>

\* SaveLockfile: the lockfile and its entries in one transaction, under UNIQUE(name).
SaveLockfile(c) ==
    /\ At(c, "lock")
    /\ \/ /\ ~NameTaken(LockName(c)) /\ Works
          /\ lockfiles' = Append(lockfiles, [name |-> LockName(c), by |-> job[c].id,
                                             from |-> job[c].req.id, entries |-> job[c].answer.items])
          /\ job' = [job EXCEPT ![c].saved = Len(lockfiles) + 1, ![c].pc = "record"]
          /\ UNCHANGED answers
       \/ ErrorIf(NameTaken(LockName(c))) /\ Answer(c, 500, <<>>) /\ UNCHANGED lockfiles
    /\ UNCHANGED <<catalogue, resolutions, changes, issued, crashes>>

-----------------------------------------------------------------------------
(* ResolveWithLockfile. *)

\* The names of locked artifacts are read one by one; a pin whose read fails is left out.
UsePins(c, pins) ==
    /\ job' = [job EXCEPT ![c].pins = pins, ![c].pc = "root"]
    /\ UNCHANGED answers

\* GetLockfileByName and ListLockfileEntries; then the resolution runs without them.
LoadPins(c) ==
    /\ At(c, "pins")
    /\ \/ ErrorIf(~NameTaken(Chosen(job[c].req.name))) /\ Answer(c, 404, <<>>)
       \/ \E i \in 1 .. Len(lockfiles) :
             LET entries == lockfiles[i].entries
             IN  /\ lockfiles[i].name = Chosen(job[c].req.name)
                 /\ \/ Works /\ UsePins(c, entries)
                    \/ Fails /\ Answer(c, 500, <<>>)
                    \/ /\ Fails
                       /\ \E a \in DOMAIN entries : UsePins(c, Restrict(entries, DOMAIN entries \ {a}))
    /\ UNCHANGED <<catalogue, tables, changes, issued, crashes>>

\* Mutant: only downgrades count.
DriftedDown(pins, resolved) ==
    {a \in DOMAIN pins \cap DOMAIN resolved : pins[a] > resolved[a]}

\* The artifacts that are both locked and resolved, to different versions.
Drifted(pins, resolved) ==
    {a \in DOMAIN pins \cap DOMAIN resolved : pins[a] # resolved[a]}

Report(c) ==
    IF Doing(c, "verify")
    THEN LET drift == Drifted(job[c].pins, job[c].answer.items)
         IN  [status |-> IF drift = {} THEN "in_sync" ELSE "drifted", drift |-> drift,
              saved |-> job[c].saved]
    ELSE <<>>

-----------------------------------------------------------------------------
(* recordChange and the answer. *)

Success(c) == IF Doing(c, "lock") THEN 201 ELSE 200

Entry(c, action) ==
    [entity |-> IF Doing(c, "lock") THEN "lockfile" ELSE "resolution",
     id |-> job[c].saved, action |-> action, by |-> job[c].id]

Action(c) == CASE Doing(c, "lock")     -> "create"
               [] Doing(c, "rollback") -> "rollback"
               [] OTHER                -> "resolve"

\* A rerun writes a second record, for the rerun, after that of its resolution.
Record(c) ==
    /\ At(c, "record")
    /\ \/ /\ Works
          /\ changes' = Append(changes, Entry(c, Action(c)))
          /\ IF Doing(c, "rerun") THEN Goto(c, "record rerun")
             ELSE Answer(c, Success(c), Report(c))
       \/ Fails /\ Answer(c, 500, <<>>) /\ UNCHANGED changes
    /\ UNCHANGED <<catalogue, tables, issued, crashes>>

\* Mutant: the error of the second record is discarded.
RecordRerunIgnoresError(c) ==
    /\ At(c, "record rerun")
    /\ \/ Works /\ changes' = Append(changes, Entry(c, "rerun"))
       \/ Fails /\ UNCHANGED changes
    /\ Answer(c, 200, <<>>)
    /\ UNCHANGED <<catalogue, tables, issued, crashes>>

RecordRerun(c) ==
    /\ At(c, "record rerun")
    /\ \/ /\ Works
          /\ changes' = Append(changes, Entry(c, "rerun"))
          /\ Answer(c, 200, <<>>)
       \/ Fails /\ Answer(c, 500, <<>>) /\ UNCHANGED changes
    /\ UNCHANGED <<catalogue, tables, issued, crashes>>

-----------------------------------------------------------------------------
\* Registrations and dependency changes of other clients change what resolving answers.
Register ==
    /\ catalogue < Len(Answers)
    /\ catalogue' = catalogue + 1
    /\ UNCHANGED <<tables, changes, job, answers, issued, faults, crashes>>

Crash ==
    /\ crashes < MaxCrashes
    /\ \E c \in Client : job[c] # Idle
    /\ crashes' = crashes + 1
    /\ job' = [c \in Client |-> Idle]
    /\ UNCHANGED <<catalogue, tables, changes, answers, issued, faults>>

Serve(c) ==
    \/ FindRoot(c) \/ Compute(c) \/ NextSeq(c) \/ Save(c)
    \/ LoadForRerun(c) \/ LoadSucceeded(c) \/ LoadItems(c) \/ SaveRollback(c)
    \/ CheckLockName(c) \/ SaveLockfile(c) \/ LoadPins(c)
    \/ Record(c) \/ RecordRerun(c)

AllServed == issued = MaxRequests /\ \A c \in Client : job[c] = Idle

Next ==
    \/ \E c \in Client : Start(c) \/ Serve(c)
    \/ Register
    \/ Crash
    \/ AllServed /\ UNCHANGED vars

\* As in Registry: a handler that has begun goes on, and no store call waits for ever.
Spec == Init /\ [][Next]_vars /\ \A c \in Client : WF_vars(Serve(c))

-----------------------------------------------------------------------------
(* What the history must get right. *)

Statuses == {200, 201, 404, 409, 422, 500}

TypeOK ==
    /\ catalogue \in 1 .. Len(Answers)
    /\ \A i \in 1 .. Len(resolutions) : IsRow(resolutions, i)
    /\ \A i \in 1 .. Len(lockfiles) : lockfiles[i].from \in 1 .. Len(resolutions)
    /\ \A i \in 1 .. Len(changes) :
          changes[i].id \in 1 .. Len(IF changes[i].entity = "lockfile" THEN lockfiles ELSE resolutions)
    /\ DOMAIN answers \subseteq 1 .. issued
    /\ \A i \in DOMAIN answers : answers[i].status \in Statuses

\* A rerun asks what its source asked, and a rollback is its source again: both name an
\* earlier resolution, and a rollback (or a lockfile) one that succeeded, with its very
\* items, whatever was registered and whatever other requests did since.
CopiesAreFaithful ==
    /\ \A i \in 1 .. Len(resolutions) : IsFaithful(resolutions, i)
    /\ \A i \in 1 .. Len(lockfiles) : IsLock(resolutions, lockfiles[i])

\* Of two clients that lock under one name, in any interleaving of their checks and
\* inserts, one is told 201 and the other that it failed.
OneLockfilePerName ==
    \A i, j \in DOMAIN answers :
        /\ answers[i].status = 201 /\ answers[j].status = 201
        /\ answers[i].req.name = answers[j].req.name
        /\ answers[i].req.name # "" \/ answers[i].req.id = answers[j].req.id
        => i = j

\* A row of the kind that request i would have stored, by another.
Twin(i, req, row) ==
    /\ row.by # i
    /\ \/ req.op \in {"resolve", "verify"} /\ row.source = "direct" /\ row.by # 0
       \/ req.op = "rerun" /\ row.source = "rerun" /\ row.by # 0
       \/ req.op = "rollback" /\ row.source = "rollback" /\ row.from = req.id

\* Unless a store call fails, a request that gets an internal error lost its reference
\* (or name) to another request, which has stored a resolution of the same kind, the
\* lockfile, or, maybe long ago, a rollback of the same resolution.
RefusalHasATwin ==
    \A i \in DOMAIN answers :
        LET req == answers[i].req
        IN  answers[i].status = 500 /\ faults = 0 =>
               \/ \E k \in 1 .. Len(resolutions) : Twin(i, req, resolutions[k])
               \/ req.op = "lock" /\ \E k \in 1 .. Len(lockfiles) :
                     lockfiles[k].by \notin {0, i} /\ lockfiles[k].name = NameFor(req)

Records(i, action) == \E k \in 1 .. Len(changes) : changes[k].by = i /\ changes[k].action = action

\* A client is told of success only when every record of its request is written: two of
\* them for a rerun, whose second record may fail after the first.
SuccessMeansRecorded ==
    \A i \in DOMAIN answers :
        answers[i].status \in {200, 201} <=>
            CASE answers[i].req.op = "lock"     -> Records(i, "create")
              [] answers[i].req.op = "rollback" -> Records(i, "rollback")
              [] answers[i].req.op = "rerun"    -> Records(i, "resolve") /\ Records(i, "rerun")
              [] OTHER                          -> Records(i, "resolve")

Verified(i) == answers[i].req.op = "verify" /\ answers[i].status = 200

Lockfile(name) == CHOOSE l \in {lockfiles[k] : k \in 1 .. Len(lockfiles)} : l.name = Chosen(name)

Pins(name) == Lockfile(name).entries

\* A verification speaks of the resolution it stored: as long as no store call fails,
\* its drift is the artifacts that the lockfile and that resolution give two versions.
VerifyReportsDrift ==
    \A i \in DOMAIN answers :
        Verified(i) /\ faults = 0 =>
            answers[i].report.drift =
                LET pins == Pins(answers[i].req.name)
                    resolved == resolutions[answers[i].report.saved].items
                IN  {a \in DOMAIN pins : a \in DOMAIN resolved /\ resolved[a] # pins[a]}

\* Every request is answered, or lost in a crash.
Answered == \A c \in Client : job[c] # Idle ~> job[c] = Idle

-----------------------------------------------------------------------------
(* What the documents say of the program, each checked in a run of its own. *)

\* PROJECT_SPEC.md:45: rolling back to a resolution answers 200 or 404, so an internal
\* error takes a store call that fails.
RollbackIsServed ==
    \A i \in DOMAIN answers :
        answers[i].req.op = "rollback" /\ answers[i].status = 500 => faults > 0

\* internal/service/lockfile.go:100-102: a result that differs from the locked versions
\* is reported as drifted.  So when the request that was locked is verified and is in
\* sync, it has reproduced every pin.
InSyncReproduces ==
    \A i \in DOMAIN answers :
        LET req == answers[i].req
        IN  Verified(i) /\ faults = 0 /\ answers[i].report.status = "in_sync"
            /\ req.input = resolutions[Lockfile(req.name).from].input =>
               resolutions[answers[i].report.saved].items = Pins(req.name)
=============================================================================
