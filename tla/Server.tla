------------------------------ MODULE Server ------------------------------
(***************************************************************************)
(* cmd/server and the opening of the store: pragmas and migration of the   *)
(* database file, requests that share the one connection of the pool, and  *)
(* the shutdown that waits for them for five seconds.                      *)
(*                                                                         *)
(* A process may be killed at any moment and started again, also while an  *)
(* earlier one still drains; the file outlives them.  Every statement of   *)
(* the migration commits on its own, and each can fail, which is fatal.    *)
(***************************************************************************)
EXTENDS Naturals, FiniteSets

CONSTANTS Process,     \* processes over the same file and the same address
          Request,     \* requests of a behaviour
          Statements,  \* length of schemaStatements
          Calls,       \* bound on the store calls of a handler
          MaxStarts,   \* bound on the starts of processes
          MaxFaults    \* bound on the statements of the migration that fail

ASSUME ServerAssumption == Statements \in Nat /\ Calls \in Nat /\ MaxStarts \in Nat

VARIABLES
    created,    \* file: the statements of schemaStatements whose table or index exists
    stamps,     \* file: the values in schema_version
    phase,      \* where main is in each process
    next,       \* the statement that migrate executes next
    holder,     \* who has the connection of the pool, a set of at most one request
    late,       \* the five seconds of Shutdown have passed
    job,        \* where each request is, in which process, and the store calls it still makes
    starts, faults

file == <<created, stamps>>
vars == <<file, phase, next, holder, late, job, starts, faults>>

Unsent == [at |-> "unsent"]

Init ==
    /\ created = {} /\ stamps = {}
    /\ phase = [p \in Process |-> "down"]
    /\ next = [p \in Process |-> 1]
    /\ holder = [p \in Process |-> {}]
    /\ late = [p \in Process |-> FALSE]
    /\ job = [r \in Request |-> Unsent]
    /\ starts = 0 /\ faults = 0

Enter(p, ph) == phase' = [phase EXCEPT ![p] = ph]

\* The requests that process p serves.
Served(p) == {r \in Request : job[r].at \in {"waiting", "holding", "replying"} /\ job[r].on = p}

\* The process is gone, and with it the requests it serves.
Gone(p, end) ==
    /\ Enter(p, "down")
    /\ holder' = [holder EXCEPT ![p] = {}]
    /\ job' = [r \in Request |-> IF r \in Served(p) THEN [at |-> end] ELSE job[r]]

-----------------------------------------------------------------------------
(* Open: pragmas and migrate. *)

Start(p) ==
    /\ phase[p] = "down" /\ starts < MaxStarts
    /\ starts' = starts + 1
    /\ Enter(p, "pragmas")
    /\ late' = [late EXCEPT ![p] = FALSE]
    /\ UNCHANGED <<file, next, holder, job, faults>>

Migrating == UNCHANGED <<holder, late, job, starts, faults>>

Pragmas(p) ==
    /\ phase[p] = "pragmas"
    /\ Enter(p, "version")
    /\ UNCHANGED <<file, next>> /\ Migrating

\* CREATE TABLE IF NOT EXISTS schema_version changes nothing that the SELECT tells apart.
\* LIMIT 1 names no order, so any row may be read.
SelectVersion(p) ==
    /\ phase[p] = "version"
    /\ next' = [next EXCEPT ![p] = 1]
    /\ IF stamps = {} THEN Enter(p, "insert")
       ELSE \E v \in stamps : Enter(p, IF v >= 1 THEN "opened" ELSE "tables")
    /\ UNCHANGED file /\ Migrating

\* Mutant: the version is inserted as the one the migration leads to.
InsertCurrent(p) ==
    /\ phase[p] = "insert"
    /\ stamps' = stamps \cup {1}
    /\ Enter(p, "tables")
    /\ UNCHANGED <<created, next>> /\ Migrating

InsertZero(p) ==
    /\ phase[p] = "insert"
    /\ stamps' = stamps \cup {0}
    /\ Enter(p, "tables")
    /\ UNCHANGED <<created, next>> /\ Migrating

\* IF NOT EXISTS: what an interrupted migration left is kept.
CreateNext(p) ==
    /\ phase[p] = "tables" /\ next[p] <= Statements
    /\ created' = created \cup {next[p]}
    /\ next' = [next EXCEPT ![p] = @ + 1]
    /\ UNCHANGED <<stamps, phase>> /\ Migrating

\* UPDATE without WHERE: every row.
Stamp(p) ==
    /\ phase[p] = "tables" /\ next[p] > Statements
    /\ stamps' = {1 : v \in stamps}
    /\ Enter(p, "opened")
    /\ UNCHANGED <<created, next>> /\ Migrating

\* log.Fatal: a statement fails, a lock of the other process that outlasts busy_timeout too.
Fatal(p) ==
    /\ phase[p] \in {"pragmas", "version", "insert", "tables"} /\ faults < MaxFaults
    /\ faults' = faults + 1
    /\ Gone(p, "killed")
    /\ UNCHANGED <<file, next, late, starts>>

-----------------------------------------------------------------------------
(* Requests. *)

\* ListenAndServe in its goroutine; an address in use is fatal.
Listen(p) ==
    /\ phase[p] = "opened"
    /\ IF \E q \in Process : phase[q] = "serving" THEN Gone(p, "killed")
       ELSE Enter(p, "serving") /\ UNCHANGED <<holder, job>>
    /\ UNCHANGED <<file, next, late, starts, faults>>

Accept(r) ==
    /\ job[r] = Unsent
    /\ \E p \in Process, n \in 0 .. Calls :
          /\ phase[p] = "serving"
          /\ job' = [job EXCEPT ![r] =
                       [at |-> IF n = 0 THEN "replying" ELSE "waiting", on |-> p, calls |-> n]]
    /\ UNCHANGED <<file, phase, next, holder, late, starts, faults>>

\* A store call gets the connection; SetMaxOpenConns(1) makes the others wait.
Acquire(r) ==
    /\ job[r].at = "waiting" /\ phase[job[r].on] # "closed"
    /\ holder[job[r].on] = {}
    /\ holder' = [holder EXCEPT ![job[r].on] = {r}]
    /\ job' = [job EXCEPT ![r].at = "holding"]
    /\ UNCHANGED <<file, phase, next, late, starts, faults>>

\* Mutant: the next call is made before the rows of this one are closed.
ReleaseLate(r) ==
    /\ job[r].at = "holding"
    /\ holder' = [holder EXCEPT ![job[r].on] = IF job[r].calls = 1 THEN {} ELSE @]
    /\ job' = [job EXCEPT ![r].at = IF job[r].calls = 1 THEN "replying" ELSE "waiting",
                          ![r].calls = @ - 1]
    /\ UNCHANGED <<file, phase, next, late, starts, faults>>

\* The call ends: rows are closed, a transaction is committed or rolled back.
Release(r) ==
    /\ job[r].at = "holding"
    /\ holder' = [holder EXCEPT ![job[r].on] = {}]
    /\ job' = [job EXCEPT ![r].at = IF job[r].calls = 1 THEN "replying" ELSE "waiting",
                          ![r].calls = @ - 1]
    /\ UNCHANGED <<file, phase, next, late, starts, faults>>

\* A call on the closed store is an error, which the handler answers.
CallFails(r) ==
    /\ job[r].at = "waiting" /\ phase[job[r].on] = "closed"
    /\ job' = [job EXCEPT ![r] = [at |-> IF late[job[r].on] THEN "late" ELSE "refused"]]
    /\ UNCHANGED <<file, phase, next, holder, late, starts, faults>>

Reply(r) ==
    /\ job[r].at = "replying"
    /\ job' = [job EXCEPT ![r] = [at |-> "answered"]]
    /\ UNCHANGED <<file, phase, next, holder, late, starts, faults>>

-----------------------------------------------------------------------------
(* Shutdown. *)

\* SIGINT or SIGTERM after signal.Notify, perhaps before the goroutine listens.
Signal(p) ==
    /\ phase[p] \in {"opened", "serving"}
    /\ Enter(p, "draining")
    /\ UNCHANGED <<file, next, holder, late, job, starts, faults>>

Timeout(p) ==
    /\ phase[p] = "draining" /\ ~late[p]
    /\ late' = [late EXCEPT ![p] = TRUE]
    /\ UNCHANGED <<file, phase, next, holder, job, starts, faults>>

\* Mutant: the listener is closed and main goes on, as with Server.Close.
CloseAtOnce(p) ==
    /\ phase[p] = "draining"
    /\ Enter(p, "closed")
    /\ UNCHANGED <<file, next, holder, late, job, starts, faults>>

\* Shutdown returns when no request is left or the time is out; the deferred st.Close runs.
Close(p) ==
    /\ phase[p] = "draining" /\ (Served(p) = {} \/ late[p])
    /\ Enter(p, "closed")
    /\ UNCHANGED <<file, next, holder, late, job, starts, faults>>

\* main returns, whatever the handlers do.
Exit(p) ==
    /\ phase[p] = "closed"
    /\ Gone(p, IF late[p] THEN "late" ELSE "cut")
    /\ UNCHANGED <<file, next, late, starts, faults>>

\* SIGKILL, or a signal before Notify; statements that were executed stay in the file.
Kill(p) ==
    /\ phase[p] # "down"
    /\ Gone(p, "killed")
    /\ UNCHANGED <<file, next, late, starts, faults>>

-----------------------------------------------------------------------------

Open(p) == Pragmas(p) \/ SelectVersion(p) \/ InsertZero(p) \/ CreateNext(p) \/ Stamp(p)
Handle(r) == Acquire(r) \/ Release(r) \/ CallFails(r) \/ Reply(r)
Stop(p) == Timeout(p) \/ Close(p) \/ Exit(p)

Ended == starts = MaxStarts /\ (\A p \in Process : phase[p] = "down") /\ UNCHANGED vars

Next ==
    \/ \E p \in Process : \/ Start(p) \/ Open(p) \/ Fatal(p) \/ Listen(p) \/ Signal(p)
                          \/ Stop(p) \/ Kill(p)
    \/ \E r \in Request : Accept(r) \/ Handle(r)
    \/ Ended

\* A statement and a handler that can go on do, a waiting call gets the free connection some
\* time, and the timer of Shutdown fires.  Nobody has to send a signal or a request.
Spec == /\ Init /\ [][Next]_vars
        /\ \A p \in Process : WF_vars(Open(p)) /\ WF_vars(Stop(p))
        /\ \A r \in Request : WF_vars(Handle(r))

-----------------------------------------------------------------------------

\* No process serves over a file that lacks a table, whatever was killed, failed or ran
\* beside it during the migration.
ServesOnlyMigrated ==
    \A p \in Process :
        phase[p] \in {"opened", "serving", "draining"} => created = 1 .. Statements

\* A request that was accepted before the signal is answered by an open store, unless the
\* process was killed or the handler took longer than the five seconds.
NothingIsCutShort == \A r \in Request : job[r].at \notin {"cut", "refused"}

\* A request that was accepted comes to an end: the calls of several handlers, and of one
\* handler after the other, never wait for a connection that nobody will give back.
EveryRequestEnds ==
    \A r \in Request : job[r].at = "waiting" ~> job[r].at \notin {"waiting", "holding", "replying"}
=============================================================================
