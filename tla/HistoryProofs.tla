--------------------------- MODULE HistoryProofs ---------------------------
(***************************************************************************)
(* What the history keeps, for any number of clients, requests, changes of *)
(* the catalogue, failing store calls and crashes, in any interleaving.    *)
(***************************************************************************)
EXTENDS History, TLAPS

Busy(c) == job[c] # Idle

-----------------------------------------------------------------------------
(* A request in progress: what its handler has done is known from where it is. *)

\* The fields of a request that its operation reads.
IsRequest(r) ==
    /\ r.op \in {"resolve", "rerun", "verify", "rollback", "lock"}
    /\ r.op \in {"resolve", "verify"} => r.input \in Inputs
    /\ r.op \in {"rerun", "rollback", "lock"} => r.id \in Nat \ {0}

IsJob(j) ==
    /\ j.pc # "idle"
    /\ j = [pc |-> j.pc, id |-> j.id, req |-> j.req, input |-> j.input, source |-> j.source,
            from |-> j.from, answer |-> j.answer, seq |-> j.seq, pins |-> j.pins,
            saved |-> j.saved]
    /\ IsRequest(j.req)

\* It resolves an input of its own or that of an earlier resolution.
Asking(j) ==
    j.pc \in {"pins", "root", "compute", "next", "save"} =>
        /\ j.req.op \in {"resolve", "rerun", "verify"}
        /\ j.input \in Inputs
        /\ j.req.op # "rerun" => j.source = "direct" /\ j.from = NoSource
        /\ j.req.op = "rerun" =>
              /\ j.source = "rerun" /\ j.from = j.req.id
              /\ j.from \in 1 .. Len(resolutions) /\ j.input = resolutions[j.from].input

\* The root that was found stays registered; a resolution succeeds or fails.
Solving(j) ==
    /\ j.pc = "compute" => Answers[catalogue][j.input].status # "no root"
    /\ j.pc \in {"next", "save"} =>
          /\ j.answer.status \in {"succeeded", "failed"}
          /\ j.answer.status = "failed" => DOMAIN j.answer.items = {}

Numbered(j) == j.pc = "save" => j.seq \in 0 .. Len(resolutions) + 1

\* The number of its reference is above the rows that were there at the start.
NumberIsNew(j) ==
    j.pc = "save" /\ faults = 0 =>
        \A k \in 1 .. Len(resolutions) : resolutions[k].by = 0 => k < j.seq

\* It copies, or locks, a resolution that succeeded, or reads the pins of a lockfile.
Copying(j) ==
    /\ j.pc = "pins" => j.req.op = "verify"
    /\ j.pc = "load" => j.req.op \in {"rerun", "rollback", "lock"}
    /\ j.pc \in {"name", "items", "rollback", "lock"} =>
          /\ j.req.op \in {"rollback", "lock"}
          /\ j.req.id \in 1 .. Len(resolutions)
          /\ resolutions[j.req.id].status = "succeeded"
    /\ j.pc \in {"name", "lock"} => j.req.op = "lock"
    /\ j.pc = "rollback" => j.req.op = "rollback"
    /\ j.pc \in {"rollback", "lock"} => j.answer.items = resolutions[j.req.id].items

\* Its lockfile name was free: only a later request can have taken it since.
NameWasFree(j) ==
    j.pc \in {"items", "lock"} /\ j.req.op = "lock" /\ faults = 0 =>
        \A k \in 1 .. Len(lockfiles) : lockfiles[k].name = NameFor(j.req) => lockfiles[k].by # 0

\* A verification has read the pins of its lockfile.
Pinned(j) ==
    j.req.op = "verify" /\ j.pc # "pins" /\ faults = 0 =>
        \E k \in 1 .. Len(lockfiles) :
            lockfiles[k].name = Chosen(j.req.name) /\ lockfiles[k].entries = j.pins

\* What it has stored so far.
Storing(j) ==
    /\ j.pc \notin {"record", "record rerun"} =>
          /\ \A k \in 1 .. Len(resolutions) : resolutions[k].by # j.id
          /\ \A k \in 1 .. Len(lockfiles) : lockfiles[k].by # j.id
    /\ j.pc \in {"record", "record rerun"} /\ j.req.op = "lock" =>
          /\ j.req.id \in 1 .. Len(resolutions)
          /\ j.saved \in 1 .. Len(lockfiles)
          /\ lockfiles[j.saved].by = j.id /\ lockfiles[j.saved].name = NameFor(j.req)
    /\ j.pc \in {"record", "record rerun"} /\ j.req.op # "lock" =>
          /\ j.saved \in 1 .. Len(resolutions)
          /\ j.req.op = "verify" => resolutions[j.saved].items = j.answer.items

\* What it has recorded so far: the first of the two records of a rerun.
Recording(j) ==
    /\ \A k \in 1 .. Len(changes) :
          changes[k].by = j.id => j.pc = "record rerun" /\ changes[k].action = "resolve"
    /\ j.pc = "record rerun" =>
          j.req.op = "rerun" /\ \E k \in 1 .. Len(changes) : changes[k].by = j.id

Progress(j) ==
    /\ Asking(j) /\ Solving(j) /\ Numbered(j) /\ Copying(j) /\ Storing(j) /\ Recording(j)
    /\ NumberIsNew(j) /\ NameWasFree(j) /\ Pinned(j)

\* Every client has a request of its own, unanswered so far.
Jobs ==
    /\ DOMAIN job = Client
    /\ \A c \in Client : Busy(c) => /\ IsJob(job[c])
                                    /\ job[c].id \in (1 .. issued) \ DOMAIN answers
    /\ \A c, d \in Client : Busy(c) /\ Busy(d) /\ job[c].id = job[d].id => c = d

-----------------------------------------------------------------------------
(* The tables, and what the clients were told. *)

IsTable(t) == Len(t) \in Nat /\ \E S : t \in Seq(S)

Rows ==
    /\ IsTable(resolutions)
    /\ \A i \in 1 .. Len(resolutions) :
          /\ IsRow(resolutions, i) /\ IsFaithful(resolutions, i) /\ OwnRef(resolutions, i)
          /\ resolutions[i].by \in 0 .. issued
    /\ \A i, j \in 1 .. Len(resolutions) : resolutions[i].ref = resolutions[j].ref => i = j

Locks ==
    /\ IsTable(lockfiles)
    /\ \A i \in 1 .. Len(lockfiles) :
          IsLock(resolutions, lockfiles[i]) /\ lockfiles[i].by \in 0 .. issued
    /\ \A i, j \in 1 .. Len(lockfiles) : lockfiles[i].name = lockfiles[j].name => i = j

Books ==
    /\ issued \in Nat /\ faults \in Nat /\ catalogue \in 1 .. Len(Answers)
    /\ DOMAIN answers \subseteq 1 .. issued

Log ==
    /\ IsTable(changes)
    /\ \A i \in 1 .. Len(changes) :
          /\ changes[i].id \in
                1 .. Len(IF changes[i].entity = "lockfile" THEN lockfiles ELSE resolutions)
          /\ changes[i].by \in 1 .. issued

\* The records that the operation of r writes.
AllRecorded(i, r) ==
    CASE r.op = "lock"     -> Records(i, "create")
      [] r.op = "rollback" -> Records(i, "rollback")
      [] r.op = "rerun"    -> Records(i, "resolve") /\ Records(i, "rerun")
      [] OTHER             -> Records(i, "resolve")

ToldOfSuccess(i, a) ==
    /\ a.status \in Statuses
    /\ a.status \in {200, 201} <=> AllRecorded(i, a.req)

\* A client that was told 201 has its lockfile.
ToldOfLock(i, a) ==
    a.status = 201 =>
        /\ a.req.op = "lock" /\ a.req.id \in 1 .. Len(resolutions)
        /\ \E k \in 1 .. Len(lockfiles) :
              lockfiles[k].by = i /\ lockfiles[k].name = NameFor(a.req)

\* What the twin of a refused request has stored stays.
ToldOfFailure(i, a) ==
    a.status = 500 /\ faults = 0 =>
        \/ \E k \in 1 .. Len(resolutions) : Twin(i, a.req, resolutions[k])
        \/ /\ a.req.op = "lock" /\ a.req.id \in 1 .. Len(resolutions)
           /\ \E k \in 1 .. Len(lockfiles) :
                 lockfiles[k].by \notin {0, i} /\ lockfiles[k].name = NameFor(a.req)

DriftOf(pins, resolved) == {a \in DOMAIN pins : a \in DOMAIN resolved /\ resolved[a] # pins[a]}

\* The lockfile that was verified stays, and so does what the verification stored.
ToldOfDrift(a) ==
    a.req.op = "verify" /\ a.status = 200 /\ faults = 0 =>
        /\ a.report.saved \in 1 .. Len(resolutions)
        /\ \E k \in 1 .. Len(lockfiles) :
              /\ lockfiles[k].name = Chosen(a.req.name)
              /\ a.report.drift = DriftOf(lockfiles[k].entries, resolutions[a.report.saved].items)

Told(i, a) == ToldOfSuccess(i, a) /\ ToldOfLock(i, a) /\ ToldOfFailure(i, a) /\ ToldOfDrift(a)

IInv ==
    /\ Jobs /\ Rows /\ Locks /\ Log /\ Books
    /\ \A c \in Client : Busy(c) => \A j \in {job[c]} : Progress(j)
    /\ \A i \in DOMAIN answers : \A a \in {answers[i]} : Told(i, a)

-----------------------------------------------------------------------------
(* The tables grow: a step of request n adds rows of its own. *)

Grows(t, u, n) ==
    /\ Len(u) \in Nat /\ Len(t) <= Len(u)
    /\ \A k \in 1 .. Len(t) : u[k] = t[k]
    /\ \A k \in 1 .. Len(u) : k \notin 1 .. Len(t) => u[k].by = n

Grown(n) ==
    /\ Grows(resolutions, resolutions', n)
    /\ Grows(lockfiles, lockfiles', n)
    /\ Grows(changes, changes', n)
    /\ faults' \in Nat /\ faults <= faults'
    /\ n \in 1 .. issued /\ issued' = issued /\ catalogue' = catalogue

LEMMA Appended ==
    ASSUME NEW t, IsTable(t), NEW e
    PROVE  /\ Len(t) \in Nat /\ IsTable(Append(t, e))
           /\ Len(Append(t, e)) = Len(t) + 1 /\ Append(t, e)[Len(t) + 1] = e
           /\ \A k \in 1 .. Len(t) : Append(t, e)[k] = t[k]
           /\ Grows(t, Append(t, e), e.by)
  <1>1. PICK S : t \in Seq(S)
    BY DEF IsTable
  <1>2. Append(t, e) \in Seq(S \cup {e})
    BY <1>1
  <1>3. /\ Len(t) \in Nat /\ Len(Append(t, e)) = Len(t) + 1 /\ Append(t, e)[Len(t) + 1] = e
        /\ \A k \in 1 .. Len(t) : Append(t, e)[k] = t[k]
    BY <1>1
  <1>4. Grows(t, Append(t, e), e.by)
    BY <1>3 DEF Grows
  <1> QED
    BY <1>2, <1>3, <1>4 DEF IsTable

LEMMA Unchanged == ASSUME NEW t, IsTable(t), NEW n PROVE Grows(t, t, n)
  BY DEF IsTable, Grows

\* The name of a lockfile stays, for the resolution it may be named after does.
LEMMA NameStays ==
    ASSUME NEW n, Grown(n), NEW r, r.id \in 1 .. Len(resolutions)
    PROVE  NameFor(r)' = NameFor(r)
  BY DEF Grown, Grows, NameFor

\* What Grown says of each table.
LEMMA TablesStay ==
    ASSUME Rows, Locks, Log, NEW n, Grown(n)
    PROVE  /\ Len(resolutions) \in Nat /\ Len(resolutions') \in Nat
           /\ Len(resolutions) <= Len(resolutions')
           /\ \A k \in 1 .. Len(resolutions) :
                 k \in 1 .. Len(resolutions') /\ resolutions'[k] = resolutions[k]
           /\ \A k \in 1 .. Len(lockfiles) :
                 k \in 1 .. Len(lockfiles') /\ lockfiles'[k] = lockfiles[k]
           /\ \A k \in 1 .. Len(changes) :
                 k \in 1 .. Len(changes') /\ changes'[k] = changes[k]
           /\ \A k \in 1 .. Len(resolutions') :
                 k \in 1 .. Len(resolutions) \/ resolutions'[k].by = n
           /\ \A k \in 1 .. Len(lockfiles') : k \in 1 .. Len(lockfiles) \/ lockfiles'[k].by = n
           /\ \A k \in 1 .. Len(changes') : k \in 1 .. Len(changes) \/ changes'[k].by = n
  <1>1. Grows(resolutions, resolutions', n) /\ Len(resolutions) \in Nat
    BY DEF Grown, Rows, IsTable
  <1>2. Grows(lockfiles, lockfiles', n) /\ Len(lockfiles) \in Nat
    BY DEF Grown, Locks, IsTable
  <1>3. Grows(changes, changes', n) /\ Len(changes) \in Nat
    BY DEF Grown, Log, IsTable
  <1>4. ASSUME NEW t, NEW u, Grows(t, u, n), Len(t) \in Nat
        PROVE  /\ Len(u) \in Nat /\ Len(t) <= Len(u)
               /\ \A k \in 1 .. Len(t) : k \in 1 .. Len(u) /\ u[k] = t[k]
               /\ \A k \in 1 .. Len(u) : k \in 1 .. Len(t) \/ u[k].by = n
    BY <1>4 DEF Grows
  <1> QED
    BY <1>1, <1>2, <1>3, <1>4

\* What a handler has done so far is not undone by the step of another.
LEMMA OthersProgress ==
    ASSUME Rows, Locks, Log, Books, NEW n, Grown(n), NEW j, IsJob(j), j.id # n, j.id \in 1 .. issued,
           Progress(j)
    PROVE  Progress(j)'
  <1> USE DEF Progress
  <1>1. Asking(j)'
    BY TablesStay DEF Asking
  <1>2. Solving(j)'
    BY DEF Solving, Grown
  <1>3. faults' = 0 => faults = 0
    BY DEF Books, Grown
  <1>4. n # 0
    BY DEF Grown
  <1>5. Numbered(j)' /\ NumberIsNew(j)'
    BY <1>3, <1>4, TablesStay DEF Numbered, NumberIsNew
  <1>6. Copying(j)'
    BY TablesStay DEF Copying
  <1>7. NameWasFree(j)'
    <2>1. ASSUME j.pc \in {"items", "lock"}, j.req.op = "lock", faults' = 0,
                 NEW k \in 1 .. Len(lockfiles'), lockfiles'[k].name = NameFor(j.req)'
          PROVE  lockfiles'[k].by # 0
      <3>1. NameFor(j.req)' = NameFor(j.req)
        BY <2>1, NameStays DEF Copying
      <3>2. CASE k \in 1 .. Len(lockfiles)
        BY <1>3, <2>1, <3>1, <3>2, TablesStay DEF NameWasFree
      <3>3. CASE k \notin 1 .. Len(lockfiles)
        BY <1>4, <3>3, TablesStay
      <3> QED
        BY <3>2, <3>3
    <2> QED
      BY <2>1 DEF NameWasFree
  <1>8. Pinned(j)'
    <2>1. ASSUME j.req.op = "verify", j.pc # "pins", faults' = 0
          PROVE  \E k \in 1 .. Len(lockfiles') :
                    lockfiles'[k].name = Chosen(j.req.name) /\ lockfiles'[k].entries = j.pins
      <3>1. PICK k \in 1 .. Len(lockfiles) :
                    lockfiles[k].name = Chosen(j.req.name) /\ lockfiles[k].entries = j.pins
        BY <1>3, <2>1 DEF Pinned
      <3>2. k \in 1 .. Len(lockfiles') /\ lockfiles'[k] = lockfiles[k]
        BY TablesStay
      <3> QED
        BY <3>1, <3>2
    <2> QED
      BY <2>1 DEF Pinned
  <1>9. Storing(j)'
    <2>1. j.pc \notin {"record", "record rerun"} =>
             /\ \A k \in 1 .. Len(resolutions') : resolutions'[k].by # j.id
             /\ \A k \in 1 .. Len(lockfiles') : lockfiles'[k].by # j.id
      <3>1. ASSUME j.pc \notin {"record", "record rerun"}, NEW k \in 1 .. Len(resolutions')
            PROVE  resolutions'[k].by # j.id
        <4>1. k \in 1 .. Len(resolutions) => resolutions'[k] = resolutions[k]
          BY TablesStay
        <4>2. k \notin 1 .. Len(resolutions) => resolutions'[k].by = n
          BY TablesStay
        <4> QED
          BY <3>1, <4>1, <4>2 DEF Storing
      <3>2. ASSUME j.pc \notin {"record", "record rerun"}, NEW k \in 1 .. Len(lockfiles')
            PROVE  lockfiles'[k].by # j.id
        <4>1. k \in 1 .. Len(lockfiles) => lockfiles'[k] = lockfiles[k]
          BY TablesStay
        <4>2. k \notin 1 .. Len(lockfiles) => lockfiles'[k].by = n
          BY TablesStay
        <4> QED
          BY <3>2, <4>1, <4>2 DEF Storing
      <3> QED
        BY <3>1, <3>2
    <2>2. ASSUME j.pc \in {"record", "record rerun"}, j.req.op = "lock"
          PROVE  /\ j.req.id \in 1 .. Len(resolutions')
                 /\ j.saved \in 1 .. Len(lockfiles')
                 /\ lockfiles'[j.saved].by = j.id /\ lockfiles'[j.saved].name = NameFor(j.req)'
      <3>1. NameFor(j.req)' = NameFor(j.req)
        BY <2>2, NameStays DEF Storing
      <3> QED
        BY <2>2, <3>1, TablesStay DEF Storing
    <2>3. ASSUME j.pc \in {"record", "record rerun"}, j.req.op # "lock"
          PROVE  /\ j.saved \in 1 .. Len(resolutions')
                 /\ j.req.op = "verify" => resolutions'[j.saved].items = j.answer.items
      BY <2>3, TablesStay DEF Storing
    <2> QED
      BY <2>1, <2>2, <2>3 DEF Storing
  <1>10. Recording(j)'
    <2>1. ASSUME NEW k \in 1 .. Len(changes'), changes'[k].by = j.id
          PROVE  j.pc = "record rerun" /\ changes'[k].action = "resolve"
      <3>1. k \in 1 .. Len(changes) => changes'[k] = changes[k]
        BY TablesStay
      <3>2. k \notin 1 .. Len(changes) => changes'[k].by = n
        BY TablesStay
      <3> QED
        BY <2>1, <3>1, <3>2 DEF Recording
    <2>2. ASSUME j.pc = "record rerun"
          PROVE  j.req.op = "rerun" /\ \E k \in 1 .. Len(changes') : changes'[k].by = j.id
      <3>1. PICK k \in 1 .. Len(changes) : changes[k].by = j.id
        BY <2>2 DEF Recording
      <3>2. k \in 1 .. Len(changes') /\ changes'[k] = changes[k]
        BY TablesStay
      <3> QED
        BY <2>2, <3>1, <3>2 DEF Recording
    <2> QED
      BY <2>1, <2>2 DEF Recording
  <1> QED
    BY <1>1, <1>2, <1>5, <1>6, <1>7, <1>8, <1>9, <1>10

LEMMA RecordsStay ==
    ASSUME Rows, Locks, Log, NEW n, Grown(n), NEW i, i # n, NEW action
    PROVE  Records(i, action)' <=> Records(i, action)
  <1>1. ASSUME NEW k \in 1 .. Len(changes) PROVE k \in 1 .. Len(changes') /\ changes'[k] = changes[k]
    BY TablesStay
  <1>2. ASSUME NEW k \in 1 .. Len(changes'), changes'[k].by = i
        PROVE  k \in 1 .. Len(changes) /\ changes'[k] = changes[k]
    BY <1>2, TablesStay
  <1> QED
    BY <1>1, <1>2 DEF Records

\* What was told to a client stays true.
LEMMA ToldStays ==
    ASSUME Rows, Locks, Log, Books, NEW n, Grown(n), NEW i, i # n, NEW a, Told(i, a)
    PROVE  Told(i, a)'
  <1> USE DEF Told
  <1>1. faults' = 0 => faults = 0
    BY DEF Books, Grown
  <1>2. ToldOfSuccess(i, a)'
    BY RecordsStay DEF ToldOfSuccess, AllRecorded
  <1>3. a.req.id \in 1 .. Len(resolutions) =>
           a.req.id \in 1 .. Len(resolutions') /\ NameFor(a.req)' = NameFor(a.req)
    BY NameStays, TablesStay
  <1>4. ToldOfLock(i, a)'
    <2>1. ASSUME a.status = 201
          PROVE  \E k \in 1 .. Len(lockfiles') :
                    lockfiles'[k].by = i /\ lockfiles'[k].name = NameFor(a.req)'
      <3>1. PICK k \in 1 .. Len(lockfiles) :
                    lockfiles[k].by = i /\ lockfiles[k].name = NameFor(a.req)
        BY <2>1 DEF ToldOfLock
      <3>2. k \in 1 .. Len(lockfiles') /\ lockfiles'[k] = lockfiles[k]
        BY TablesStay
      <3> QED
        BY <1>3, <2>1, <3>1, <3>2 DEF ToldOfLock
    <2> QED
      BY <1>3, <2>1 DEF ToldOfLock
  <1>5. ToldOfFailure(i, a)'
    <2>1. ASSUME NEW k \in 1 .. Len(resolutions), Twin(i, a.req, resolutions[k])
          PROVE  ToldOfFailure(i, a)'
      <3>1. k \in 1 .. Len(resolutions') /\ resolutions'[k] = resolutions[k]
        BY TablesStay
      <3> QED
        BY <2>1, <3>1 DEF ToldOfFailure, Twin
    <2>2. ASSUME a.req.op = "lock", a.req.id \in 1 .. Len(resolutions), NEW k \in 1 .. Len(lockfiles),
                 lockfiles[k].by \notin {0, i}, lockfiles[k].name = NameFor(a.req)
          PROVE  ToldOfFailure(i, a)'
      <3>1. k \in 1 .. Len(lockfiles') /\ lockfiles'[k] = lockfiles[k]
        BY TablesStay
      <3> QED
        BY <1>3, <2>2, <3>1 DEF ToldOfFailure
    <2>3. CASE ~(a.status = 500 /\ faults = 0)
      BY <1>1, <2>3 DEF ToldOfFailure
    <2> QED
      BY <2>1, <2>2, <2>3 DEF ToldOfFailure
  <1>6. ToldOfDrift(a)'
    <2>1. ASSUME a.req.op = "verify", a.status = 200, faults' = 0
          PROVE  /\ a.report.saved \in 1 .. Len(resolutions')
                 /\ \E k \in 1 .. Len(lockfiles') :
                       /\ lockfiles'[k].name = Chosen(a.req.name)
                       /\ a.report.drift =
                            DriftOf(lockfiles'[k].entries, resolutions'[a.report.saved].items)
      <3>1. a.report.saved \in 1 .. Len(resolutions)
        BY <1>1, <2>1 DEF ToldOfDrift
      <3>2. PICK k \in 1 .. Len(lockfiles) :
                    /\ lockfiles[k].name = Chosen(a.req.name)
                    /\ a.report.drift =
                         DriftOf(lockfiles[k].entries, resolutions[a.report.saved].items)
        BY <1>1, <2>1 DEF ToldOfDrift
      <3>3. k \in 1 .. Len(lockfiles') /\ lockfiles'[k] = lockfiles[k]
        BY TablesStay
      <3>4. a.report.saved \in 1 .. Len(resolutions')
            /\ resolutions'[a.report.saved] = resolutions[a.report.saved]
        BY <3>1, TablesStay
      <3> QED
        BY <3>2, <3>3, <3>4
    <2> QED
      BY <2>1 DEF ToldOfDrift, DriftOf
  <1> QED
    BY <1>2, <1>4, <1>5, <1>6

-----------------------------------------------------------------------------
(* The two ways a step of a handler ends: it goes on, or it answers. *)

GoesOn(c, j) ==
    DOMAIN job' = Client /\ job'[c] = j /\ \A d \in Client \ {c} : job'[d] = job[d]

Tables == Rows /\ Locks /\ Log

\* A job of another client is as it was.
LEMMA OthersJob ==
    ASSUME IInv, NEW c \in Client, Busy(c), Grown(job[c].id),
           NEW d \in Client, d # c, Busy(d), NEW j, j = job[d]
    PROVE  IsJob(j) /\ Progress(j)'
  <1>1. Rows /\ Locks /\ Log /\ Books /\ Progress(j) /\ IsJob(j)
        /\ j.id \in 1 .. issued /\ j.id # job[c].id
    BY DEF IInv, Jobs
  <1>2. PICK n : n = job[c].id
    OBVIOUS
  <1>3. Progress(j)'
    BY <1>1, <1>2, OthersProgress
  <1> QED
    BY <1>1, <1>3

LEMMA OldAnswers ==
    ASSUME IInv, NEW n, Grown(n), n \notin DOMAIN answers,
           NEW i \in DOMAIN answers, NEW a, a = answers[i]
    PROVE  Told(i, a)'
  <1>1. Told(i, a)
    BY DEF IInv
  <1> QED
    BY <1>1, ToldStays DEF IInv

LEMMA Continue ==
    ASSUME IInv, NEW c \in Client, Busy(c), Grown(job[c].id), Tables', answers' = answers,
           NEW j, IsJob(j), j.id = job[c].id, GoesOn(c, j), Progress(j)'
    PROVE  IInv'
  <1>1. Jobs /\ Books /\ job[c].id \in (1 .. issued) \ DOMAIN answers
    BY DEF IInv, Jobs
  <1>2. issued' = issued /\ Books'
    BY <1>1 DEF Books, Grown
  <1>3. ASSUME NEW d \in Client, d # c PROVE job'[d] = job[d] /\ (Busy(d)' <=> Busy(d))
    BY <1>3 DEF GoesOn, Busy
  <1>4. ASSUME NEW d \in Client, Busy(d)', NEW k \in {job'[d]} PROVE IsJob(k) /\ Progress(k)'
    <2>1. CASE d = c
      BY <2>1 DEF GoesOn
    <2>2. CASE d # c
      BY <1>3, <1>4, <2>2, OthersJob
    <2> QED
      BY <2>1, <2>2
  <1>5. Jobs'
    <2>1. ASSUME NEW d \in Client, Busy(d)'
          PROVE  Busy(d) /\ job'[d].id = job[d].id
      BY <1>3, <2>1 DEF GoesOn
    <2>2. \A d \in Client : Busy(d)' => job'[d].id \in (1 .. issued') \ DOMAIN answers'
      BY <1>1, <1>2, <2>1 DEF Jobs
    <2>3. \A d, e \in Client : Busy(d)' /\ Busy(e)' /\ job'[d].id = job'[e].id => d = e
      BY <1>1, <2>1 DEF Jobs
    <2> QED
      BY <1>4, <2>2, <2>3 DEF Jobs, GoesOn
  <1>6. ASSUME NEW i \in DOMAIN answers', NEW a \in {answers'[i]} PROVE Told(i, a)'
    <2>1. PICK n : n = job[c].id
      OBVIOUS
    <2>2. i \in DOMAIN answers /\ a = answers[i] /\ n \notin DOMAIN answers
      BY <1>1, <2>1
    <2> QED
      BY <2>1, <2>2, OldAnswers
  <1> QED
    BY <1>2, <1>4, <1>5, <1>6 DEF IInv, Tables

LEMMA End ==
    ASSUME IInv, NEW c \in Client, Busy(c), Grown(job[c].id), Tables',
           NEW status, NEW report, Answer(c, status, report),
           NEW n, n = job[c].id,
           NEW a, a = [req |-> job[c].req, status |-> status, report |-> report], Told(n, a)'
    PROVE  IInv'
  <1>1. Jobs /\ Books /\ n \in (1 .. issued) \ DOMAIN answers
    BY DEF IInv, Jobs
  <1>2. DOMAIN job' = Client /\ job'[c] = Idle /\ \A d \in Client \ {c} : job'[d] = job[d]
    BY <1>1 DEF Answer, Jobs
  <1>3. answers' = With(answers, n, a)
    BY DEF Answer
  <1>4. /\ DOMAIN answers' = DOMAIN answers \cup {n}
        /\ answers'[n] = a
        /\ \A i \in DOMAIN answers : answers'[i] = answers[i]
    BY <1>1, <1>3 DEF With
  <1>5. issued' = issued /\ Books'
    BY <1>1, <1>4 DEF Books, Grown
  <1>6. ASSUME NEW d \in Client, Busy(d)'
        PROVE  d # c /\ Busy(d) /\ job'[d] = job[d]
    BY <1>2, <1>6 DEF Busy
  <1>7. ASSUME NEW d \in Client, Busy(d)', NEW k \in {job'[d]} PROVE IsJob(k) /\ Progress(k)'
    BY <1>6, <1>7, OthersJob
  <1>8. Jobs'
    <2>1. \A d \in Client : Busy(d)' => job'[d].id \in (1 .. issued') \ DOMAIN answers'
      BY <1>1, <1>4, <1>5, <1>6 DEF Jobs
    <2>2. \A d, e \in Client : Busy(d)' /\ Busy(e)' /\ job'[d].id = job'[e].id => d = e
      BY <1>1, <1>6 DEF Jobs
    <2> QED
      BY <1>2, <1>7, <2>1, <2>2 DEF Jobs
  <1>9. ASSUME NEW i \in DOMAIN answers', NEW b \in {answers'[i]} PROVE Told(i, b)'
    <2>1. CASE i = n
      BY <1>4, <2>1
    <2>2. CASE i # n
      <3>1. i \in DOMAIN answers /\ b = answers[i] /\ n \notin DOMAIN answers
        BY <1>1, <1>4, <2>2
      <3> QED
        BY <3>1, OldAnswers
    <2> QED
      BY <2>1, <2>2
  <1> QED
    BY <1>5, <1>7, <1>8, <1>9 DEF IInv, Tables

\* A step that writes to no table.
LEMMA Quiet ==
    ASSUME IInv, NEW c \in Client, Busy(c), UNCHANGED <<catalogue, tables, changes, issued>>,
           faults' \in Nat, faults <= faults'
    PROVE  Grown(job[c].id) /\ Tables'
  <1>1. Rows /\ Locks /\ Log /\ job[c].id \in 1 .. issued
    BY DEF IInv, Jobs
  <1>2. Grown(job[c].id)
    BY <1>1, Unchanged DEF tables, Rows, Locks, Log, Grown
  <1> QED
    BY <1>1, <1>2 DEF tables, Tables, Rows, Locks, Log

\* A request in progress has not written all its records.
LEMMA NotAllRecorded ==
    ASSUME NEW j, IsJob(j), Recording(j)
    PROVE  ~AllRecorded(j.id, j.req)
  <1>1. j.req.op \in {"resolve", "rerun", "verify", "rollback", "lock"}
    BY DEF IsJob, IsRequest
  <1>2. CASE j.pc = "record rerun"
    BY <1>2 DEF Recording, AllRecorded, Records
  <1>3. CASE j.pc # "record rerun"
    BY <1>1, <1>3 DEF Recording, AllRecorded, Records
  <1> QED
    BY <1>2, <1>3

\* It is refused, without a trace.
LEMMA Refuse ==
    ASSUME IInv, NEW c \in Client, Busy(c), UNCHANGED <<catalogue, tables, changes, issued>>,
           faults' \in Nat, faults <= faults',
           NEW status \in {404, 409, 422, 500}, NEW report, Answer(c, status, report),
           \/ status # 500 \/ faults' # 0
           \/ ToldOfFailure(job[c].id, [req |-> job[c].req, status |-> status, report |-> report])
    PROVE  IInv'
  <1>1. PICK j : j = job[c]
    OBVIOUS
  <1>2. PICK n : n = job[c].id
    OBVIOUS
  <1>3. PICK a : a = [req |-> job[c].req, status |-> status, report |-> report]
    OBVIOUS
  <1>4. IsJob(j) /\ Recording(j) /\ j.id = n /\ j.req = a.req
    BY <1>1, <1>2, <1>3 DEF IInv, Jobs, Progress
  <1>5. ~AllRecorded(n, a.req)
    BY <1>4, NotAllRecorded
  <1>6. ~AllRecorded(n, a.req)'
    BY <1>5 DEF AllRecorded, Records
  <1>7. ToldOfSuccess(n, a)' /\ ToldOfLock(n, a)' /\ ToldOfDrift(a)'
    BY <1>3, <1>6 DEF ToldOfSuccess, ToldOfLock, ToldOfDrift, Statuses
  <1>8. ToldOfFailure(n, a)'
    <2>1. CASE status = 500 /\ faults' = 0
      <3>1. ToldOfFailure(n, a) /\ faults = 0
        BY <1>2, <1>3, <2>1 DEF IInv, Books
      <3>2. CASE \E k \in 1 .. Len(resolutions) : Twin(n, a.req, resolutions[k])
        BY <3>2 DEF ToldOfFailure, Twin, tables
      <3>3. CASE /\ a.req.op = "lock" /\ a.req.id \in 1 .. Len(resolutions)
                 /\ \E k \in 1 .. Len(lockfiles) :
                       lockfiles[k].by \notin {0, n} /\ lockfiles[k].name = NameFor(a.req)
        <4>1. NameFor(a.req)' = NameFor(a.req)
          BY DEF NameFor, tables
        <4> QED
          BY <3>3, <4>1 DEF ToldOfFailure, tables
      <3> QED
        BY <1>3, <2>1, <3>1, <3>2, <3>3 DEF ToldOfFailure
    <2>2. CASE ~(status = 500 /\ faults' = 0)
      BY <1>3, <2>2 DEF ToldOfFailure
    <2> QED
      BY <2>1, <2>2
  <1>9. Told(n, a)'
    BY <1>7, <1>8 DEF Told
  <1> QED
    BY <1>2, <1>3, <1>9, Quiet, End

-----------------------------------------------------------------------------
(* The steps of a handler that write to no table. *)

\* What is known of the job of a client.
LEMMA JobOf ==
    ASSUME IInv, NEW c \in Client, Busy(c), NEW k, k = job[c]
    PROVE  /\ DOMAIN job = Client
           /\ IsJob(k) /\ Progress(k) /\ k.id \in 1 .. issued /\ k.id \notin DOMAIN answers
           /\ faults \in Nat /\ (Works => faults' \in Nat /\ faults <= faults')
           /\ (Fails => faults' \in Nat /\ faults <= faults' /\ faults' # 0)
  BY DEF IInv, Jobs, Books, Works, Fails

LEMMA QuietGoes ==
    ASSUME IInv, NEW c \in Client, Busy(c),
           UNCHANGED <<catalogue, tables, changes, issued, answers>>,
           faults' \in Nat, faults <= faults',
           NEW j, IsJob(j), j.id = job[c].id, GoesOn(c, j),
           Asking(j), Solving(j), Numbered(j), Copying(j), Storing(j), Recording(j),
           faults' = 0 => NumberIsNew(j) /\ NameWasFree(j) /\ Pinned(j)
    PROVE  IInv'
  <1> USE DEF tables
  <1>1. faults' = 0 => faults = 0
    BY DEF IInv, Books
  <1>2. Asking(j)' /\ Solving(j)' /\ Numbered(j)' /\ Copying(j)' /\ Recording(j)'
    BY DEF Asking, Solving, Numbered, Copying, Recording
  <1>3. Storing(j)'
    BY DEF Storing, NameFor
  <1>4. NumberIsNew(j)'
    BY <1>1 DEF NumberIsNew
  <1>5. NameWasFree(j)'
    <2>1. NameFor(j.req)' = NameFor(j.req)
      BY DEF NameFor
    <2> QED
      BY <1>1, <2>1 DEF NameWasFree
  <1>6. Pinned(j)'
    BY <1>1 DEF Pinned
  <1> QED
    BY <1>2, <1>3, <1>4, <1>5, <1>6, Quiet, Continue DEF Progress

\* A store call fails, or the request is refused for what the tables hold.
LEMMA Break ==
    ASSUME IInv, NEW c \in Client, Busy(c), UNCHANGED <<catalogue, tables, changes, issued>>,
           Fails, Answer(c, 500, <<>>)
    PROVE  IInv'
  <1>1. faults' \in Nat /\ faults <= faults' /\ faults' # 0
    BY JobOf
  <1>2. 500 \in {404, 409, 422, 500}
    OBVIOUS
  <1>3. \/ 500 # 500 \/ faults' # 0
        \/ ToldOfFailure(job[c].id, [req |-> job[c].req, status |-> 500, report |-> <<>>])
    BY <1>1
  <1> QED
    BY <1>1, <1>2, <1>3, Refuse

LEMMA Deny ==
    ASSUME IInv, NEW c \in Client, Busy(c), UNCHANGED <<catalogue, tables, changes, issued>>,
           Works \/ Fails, NEW status \in {404, 409, 422}, Answer(c, status, <<>>)
    PROVE  IInv'
  <1>1. faults' \in Nat /\ faults <= faults'
    BY JobOf
  <1>2. status \in {404, 409, 422, 500} /\ status # 500
    OBVIOUS
  <1> QED
    BY <1>1, <1>2, Refuse

LEMMA FindRootStep ==
    ASSUME IInv, NEW c \in Client, Busy(c), FindRoot(c)
    PROVE  IInv'
  <1> USE DEF At
  <1>1. PICK k : k = job[c]
    OBVIOUS
  <1>2. IsJob(k) /\ Progress(k) /\ k.pc = "root" /\ DOMAIN job = Client
    BY <1>1, JobOf DEF FindRoot
  <1>3. CASE ErrorIf(Answers[catalogue][k.input].status = "no root") /\ Answer(c, 404, <<>>)
    <2>1. (Works \/ Fails) /\ Answer(c, 404, <<>>)
      BY <1>3 DEF ErrorIf
    <2>2. UNCHANGED <<catalogue, tables, changes, issued>>
      BY DEF FindRoot
    <2>3. 404 \in {404, 409, 422}
      OBVIOUS
    <2> QED
      BY <2>1, <2>2, <2>3, Deny
  <1>4. CASE Answers[catalogue][k.input].status # "no root" /\ Works /\ Goto(c, "compute")
    <2>1. faults' \in Nat /\ faults <= faults'
      BY <1>1, <1>4, JobOf
    <2>2. PICK j : j = [k EXCEPT !.pc = "compute"]
      OBVIOUS
    <2>3. /\ IsJob(j) /\ j.pc = "compute" /\ j.id = k.id /\ j.req = k.req
          /\ j.input = k.input /\ j.source = k.source /\ j.from = k.from /\ j.pins = k.pins
      BY <1>2, <2>2 DEF IsJob
    <2>6. GoesOn(c, j)
      BY <1>1, <1>2, <1>4, <2>2 DEF Goto, GoesOn
    <2>4. Asking(j) /\ Solving(j) /\ Numbered(j) /\ Copying(j) /\ Storing(j) /\ Recording(j)
      BY <1>2, <1>4, <2>3 DEF Progress, Asking, Solving, Numbered, Copying, Storing, Recording
    <2>5. NumberIsNew(j) /\ NameWasFree(j) /\ Pinned(j)
      BY <1>2, <2>3 DEF Progress, NumberIsNew, NameWasFree, Pinned
    <2> QED
      BY <1>1, <1>4, <2>1, <2>3, <2>4, <2>5, <2>6, QuietGoes DEF FindRoot, Goto
  <1> QED
    BY <1>1, <1>3, <1>4 DEF FindRoot

LEMMA ComputeStep ==
    ASSUME IInv, NEW c \in Client, Busy(c), Compute(c)
    PROVE  IInv'
  <1> USE DEF At
  <1>1. PICK k : k = job[c]
    OBVIOUS
  <1>2. IsJob(k) /\ Progress(k) /\ k.pc = "compute" /\ DOMAIN job = Client
    BY <1>1, JobOf DEF Compute
  <1>3. CASE /\ Works /\ UNCHANGED answers
             /\ job' = [job EXCEPT ![c].answer = Answers[catalogue][job[c].input], ![c].pc = "next"]
    <2>1. faults' \in Nat /\ faults <= faults'
      BY <1>1, <1>3, JobOf
    <2>2. PICK a : a = Answers[catalogue][k.input]
      OBVIOUS
    <2>3. PICK j : j = [k EXCEPT !.answer = a, !.pc = "next"]
      OBVIOUS
    <2>4. /\ IsJob(j) /\ j.pc = "next" /\ j.id = k.id /\ j.req = k.req /\ j.answer = a
          /\ j.input = k.input /\ j.source = k.source /\ j.from = k.from /\ j.pins = k.pins
      BY <1>2, <2>3 DEF IsJob
    <2>5. GoesOn(c, j)
      BY <1>1, <1>2, <1>3, <2>2, <2>3 DEF GoesOn
    <2>6. a.status \in {"succeeded", "failed"} /\ (a.status = "failed" => DOMAIN a.items = {})
      <3>1. k.input \in Inputs /\ a.status # "no root"
        BY <1>2, <2>2 DEF Progress, Asking, Solving
      <3>2. catalogue \in 1 .. Len(Answers)
        BY DEF IInv, Books
      <3> QED
        BY <2>2, <3>1, <3>2, AnswersAssumption
    <2>7. Asking(j) /\ Solving(j) /\ Numbered(j) /\ Copying(j) /\ Storing(j) /\ Recording(j)
      BY <1>2, <2>4, <2>6 DEF Progress, Asking, Solving, Numbered, Copying, Storing, Recording
    <2>8. NumberIsNew(j) /\ NameWasFree(j) /\ Pinned(j)
      BY <1>2, <2>4 DEF Progress, NumberIsNew, NameWasFree, Pinned
    <2> QED
      BY <1>1, <1>3, <2>1, <2>4, <2>5, <2>7, <2>8, QuietGoes DEF Compute
  <1>4. CASE Fails /\ Answer(c, 500, <<>>)
    <2>1. UNCHANGED <<catalogue, tables, changes, issued>>
      BY DEF Compute
    <2> QED
      BY <1>4, <2>1, Break
  <1> QED
    BY <1>1, <1>3, <1>4 DEF Compute

LEMMA NextSeqStep ==
    ASSUME IInv, NEW c \in Client, Busy(c), NextSeq(c)
    PROVE  IInv'
  <1> USE DEF At
  <1>1. PICK k : k = job[c]
    OBVIOUS
  <1>2. IsJob(k) /\ Progress(k) /\ k.pc = "next" /\ DOMAIN job = Client
    BY <1>1, JobOf DEF NextSeq
  <1>3. PICK seq : /\ job' = [job EXCEPT ![c].seq = seq, ![c].pc = "save"]
                   /\ (Works /\ seq = Len(resolutions) + 1) \/ (Fails /\ seq = 0)
    BY DEF NextSeq
  <1>4. faults' \in Nat /\ faults <= faults' /\ (faults' = 0 => seq = Len(resolutions) + 1)
    BY <1>1, <1>3, JobOf
  <1>5. PICK j : j = [k EXCEPT !.seq = seq, !.pc = "save"]
    OBVIOUS
  <1>6. /\ IsJob(j) /\ j.pc = "save" /\ j.id = k.id /\ j.req = k.req /\ j.answer = k.answer
        /\ j.input = k.input /\ j.source = k.source /\ j.from = k.from /\ j.pins = k.pins
        /\ j.seq = seq
    BY <1>2, <1>5 DEF IsJob
  <1>7. GoesOn(c, j)
    BY <1>1, <1>2, <1>3, <1>5 DEF GoesOn
  <1>8. Len(resolutions) \in Nat
    BY DEF IInv, Rows, IsTable
  <1>9. Asking(j) /\ Solving(j) /\ Copying(j) /\ Storing(j) /\ Recording(j)
    BY <1>2, <1>6 DEF Progress, Asking, Solving, Copying, Storing, Recording
  <1>10. Numbered(j) /\ (faults' = 0 => NumberIsNew(j))
    BY <1>3, <1>4, <1>6, <1>8 DEF Numbered, NumberIsNew
  <1>11. NameWasFree(j) /\ Pinned(j)
    BY <1>2, <1>6 DEF Progress, NameWasFree, Pinned
  <1> QED
    BY <1>1, <1>4, <1>6, <1>7, <1>9, <1>10, <1>11, QuietGoes DEF NextSeq

LEMMA LoadForRerunStep ==
    ASSUME IInv, NEW c \in Client, Busy(c), LoadForRerun(c)
    PROVE  IInv'
  <1> USE DEF At, Doing
  <1>1. PICK k : k = job[c]
    OBVIOUS
  <1>2. /\ IsJob(k) /\ Progress(k) /\ k.pc = "load" /\ k.req.op = "rerun" /\ DOMAIN job = Client
        /\ UNCHANGED <<catalogue, tables, changes, issued>>
    BY <1>1, JobOf DEF LoadForRerun
  <1>3. CASE ErrorIf(NotThere(c)) /\ Answer(c, 404, <<>>)
    <2>1. (Works \/ Fails) /\ Answer(c, 404, <<>>)
      BY <1>3 DEF ErrorIf
    <2>2. 404 \in {404, 409, 422}
      OBVIOUS
    <2> QED
      BY <1>2, <2>1, <2>2, Deny
  <1>4. CASE /\ ~NotThere(c) /\ Works /\ UNCHANGED answers
             /\ job' = [job EXCEPT ![c].input = Source(c).input, ![c].source = "rerun",
                                   ![c].from = job[c].req.id, ![c].pc = "root"]
    <2>1. faults' \in Nat /\ faults <= faults'
      BY <1>1, <1>4, JobOf
    <2>2. k.req.id \in 1 .. Len(resolutions)
      <3>1. k.req.id \in Nat \ {0} /\ Len(resolutions) \in Nat
        BY <1>2 DEF IsJob, IsRequest, IInv, Rows, IsTable
      <3> QED
        BY <1>1, <1>4, <3>1 DEF NotThere
    <2>3. PICK input : input = resolutions[k.req.id].input
      OBVIOUS
    <2>4. input \in Inputs
      BY <2>2, <2>3 DEF IInv, Rows, IsRow
    <2>5. PICK j : j = [k EXCEPT !.input = input, !.source = "rerun", !.from = k.req.id, !.pc = "root"]
      OBVIOUS
    <2>6. /\ IsJob(j) /\ j.pc = "root" /\ j.id = k.id /\ j.req = k.req /\ j.pins = k.pins
          /\ j.input = input /\ j.source = "rerun" /\ j.from = k.req.id
      BY <1>2, <2>5 DEF IsJob
    <2>7. GoesOn(c, j)
      BY <1>1, <1>2, <1>4, <2>3, <2>5 DEF GoesOn, Source
    <2>8. Asking(j) /\ Solving(j) /\ Numbered(j) /\ Copying(j) /\ Storing(j) /\ Recording(j)
      BY <1>2, <2>2, <2>3, <2>4, <2>6
         DEF Progress, Asking, Solving, Numbered, Copying, Storing, Recording
    <2>9. NumberIsNew(j) /\ NameWasFree(j) /\ Pinned(j)
      BY <1>2, <2>6 DEF Progress, NumberIsNew, NameWasFree, Pinned
    <2> QED
      BY <1>1, <1>2, <1>4, <2>1, <2>6, <2>7, <2>8, <2>9, QuietGoes
  <1> QED
    BY <1>1, <1>3, <1>4 DEF LoadForRerun

LEMMA LoadSucceededStep ==
    ASSUME IInv, NEW c \in Client, Busy(c), LoadSucceeded(c)
    PROVE  IInv'
  <1> USE DEF At, Doing
  <1>1. PICK k : k = job[c]
    OBVIOUS
  <1>2. /\ IsJob(k) /\ Progress(k) /\ k.pc = "load" /\ k.req.op \in {"rollback", "lock"}
        /\ DOMAIN job = Client /\ UNCHANGED <<catalogue, tables, changes, issued>>
    BY <1>1, JobOf DEF LoadSucceeded
  <1>3. CASE ErrorIf(NotThere(c)) /\ Answer(c, 404, <<>>)
    <2>1. (Works \/ Fails) /\ Answer(c, 404, <<>>)
      BY <1>3 DEF ErrorIf
    <2>2. 404 \in {404, 409, 422}
      OBVIOUS
    <2> QED
      BY <1>2, <2>1, <2>2, Deny
  <1>4. CASE Works /\ Source(c).status # "succeeded" /\ Answer(c, 422, <<>>)
    <2>1. 422 \in {404, 409, 422}
      OBVIOUS
    <2> QED
      BY <1>2, <1>4, <2>1, Deny
  <1>5. CASE /\ ~NotThere(c) /\ Works /\ Source(c).status = "succeeded"
             /\ Goto(c, IF Doing(c, "lock") THEN "name" ELSE "items")
    <2>1. faults' \in Nat /\ faults <= faults'
      BY <1>1, <1>5, JobOf
    <2>2. k.req.id \in 1 .. Len(resolutions)
      <3>1. k.req.id \in Nat \ {0} /\ Len(resolutions) \in Nat
        BY <1>2 DEF IsJob, IsRequest, IInv, Rows, IsTable
      <3> QED
        BY <1>1, <1>5, <3>1 DEF NotThere
    <2>3. resolutions[k.req.id].status = "succeeded"
      BY <1>1, <1>5 DEF Source
    <2>4. PICK pc : pc = IF k.req.op = "lock" THEN "name" ELSE "items"
      OBVIOUS
    <2>5. PICK j : j = [k EXCEPT !.pc = pc]
      OBVIOUS
    <2>6. /\ IsJob(j) /\ j.pc = pc /\ j.id = k.id /\ j.req = k.req /\ j.pins = k.pins
          /\ pc \in {"name", "items"} /\ (pc = "name" <=> k.req.op = "lock")
      BY <1>2, <2>4, <2>5 DEF IsJob
    <2>7. GoesOn(c, j) /\ UNCHANGED answers
      BY <1>1, <1>2, <1>5, <2>4, <2>5 DEF GoesOn, Goto
    <2>8. Asking(j) /\ Solving(j) /\ Numbered(j) /\ Copying(j) /\ Storing(j) /\ Recording(j)
      BY <1>2, <2>2, <2>3, <2>6
         DEF Progress, Asking, Solving, Numbered, Copying, Storing, Recording
    <2>9. NumberIsNew(j) /\ NameWasFree(j) /\ Pinned(j)
      BY <1>2, <2>6 DEF Progress, NumberIsNew, NameWasFree, Pinned
    <2> QED
      BY <1>1, <1>2, <2>1, <2>6, <2>7, <2>8, <2>9, QuietGoes
  <1> QED
    BY <1>3, <1>4, <1>5 DEF LoadSucceeded

LEMMA LoadItemsStep ==
    ASSUME IInv, NEW c \in Client, Busy(c), LoadItems(c)
    PROVE  IInv'
  <1> USE DEF At, Doing
  <1>1. PICK k : k = job[c]
    OBVIOUS
  <1>2. /\ IsJob(k) /\ Progress(k) /\ k.pc = "items"
        /\ DOMAIN job = Client /\ UNCHANGED <<catalogue, tables, changes, issued>>
    BY <1>1, JobOf DEF LoadItems
  <1>3. CASE Fails /\ Answer(c, 500, <<>>)
    BY <1>2, <1>3, Break
  <1>4. CASE /\ Works /\ UNCHANGED answers
             /\ job' = [job EXCEPT ![c].answer = [status |-> "succeeded", items |-> Source(c).items],
                                   ![c].pc = IF Doing(c, "lock") THEN "lock" ELSE "rollback"]
    <2>1. faults' \in Nat /\ faults <= faults'
      BY <1>1, <1>4, JobOf
    <2>2. PICK pc : pc = IF k.req.op = "lock" THEN "lock" ELSE "rollback"
      OBVIOUS
    <2>3. PICK a : a = [status |-> "succeeded", items |-> resolutions[k.req.id].items]
      OBVIOUS
    <2>4. PICK j : j = [k EXCEPT !.answer = a, !.pc = pc]
      OBVIOUS
    <2>5. /\ IsJob(j) /\ j.pc = pc /\ j.id = k.id /\ j.req = k.req /\ j.pins = k.pins
          /\ pc \in {"rollback", "lock"} /\ (pc = "lock" <=> k.req.op = "lock")
          /\ j.answer = a /\ a.items = resolutions[k.req.id].items
      BY <1>2, <2>2, <2>3, <2>4 DEF IsJob
    <2>6. GoesOn(c, j)
      BY <1>1, <1>2, <1>4, <2>2, <2>3, <2>4 DEF GoesOn, Source
    <2>7. Asking(j) /\ Solving(j) /\ Numbered(j) /\ Copying(j) /\ Storing(j) /\ Recording(j)
      BY <1>2, <2>5 DEF Progress, Asking, Solving, Numbered, Copying, Storing, Recording
    <2>8. NumberIsNew(j) /\ NameWasFree(j) /\ Pinned(j)
      BY <1>2, <2>5 DEF Progress, NumberIsNew, NameWasFree, Pinned
    <2> QED
      BY <1>1, <1>2, <1>4, <2>1, <2>5, <2>6, <2>7, <2>8, QuietGoes
  <1> QED
    BY <1>3, <1>4 DEF LoadItems

LEMMA CheckLockNameStep ==
    ASSUME IInv, NEW c \in Client, Busy(c), CheckLockName(c)
    PROVE  IInv'
  <1> USE DEF At
  <1>1. PICK k : k = job[c]
    OBVIOUS
  <1>2. /\ IsJob(k) /\ Progress(k) /\ k.pc = "name"
        /\ DOMAIN job = Client /\ UNCHANGED <<catalogue, tables, changes, issued>>
    BY <1>1, JobOf DEF CheckLockName
  <1>3. CASE Works /\ Answer(c, 409, <<>>)
    <2>1. 409 \in {404, 409, 422}
      OBVIOUS
    <2> QED
      BY <1>2, <1>3, <2>1, Deny
  <1>4. CASE ErrorIf(~NameTaken(LockName(c))) /\ Goto(c, "items")
    <2>1. /\ faults' \in Nat /\ faults <= faults'
          /\ faults' = 0 => ~NameTaken(LockName(c))
      BY <1>1, <1>4, JobOf DEF ErrorIf
    <2>2. PICK j : j = [k EXCEPT !.pc = "items"]
      OBVIOUS
    <2>3. IsJob(j) /\ j.pc = "items" /\ j.id = k.id /\ j.req = k.req /\ j.pins = k.pins
      BY <1>2, <2>2 DEF IsJob
    <2>4. GoesOn(c, j) /\ UNCHANGED answers
      BY <1>1, <1>2, <1>4, <2>2 DEF GoesOn, Goto
    <2>5. Asking(j) /\ Solving(j) /\ Numbered(j) /\ Copying(j) /\ Storing(j) /\ Recording(j)
      BY <1>2, <2>3 DEF Progress, Asking, Solving, Numbered, Copying, Storing, Recording
    <2>6. NumberIsNew(j) /\ Pinned(j)
      BY <1>2, <2>3 DEF Progress, NumberIsNew, Pinned
    <2>7. faults' = 0 => NameWasFree(j)
      BY <1>1, <2>1, <2>3 DEF NameWasFree, NameTaken, LockName
    <2> QED
      BY <1>1, <1>2, <2>1, <2>3, <2>4, <2>5, <2>6, <2>7, QuietGoes
  <1> QED
    BY <1>3, <1>4 DEF CheckLockName

LEMMA LoadPinsStep ==
    ASSUME IInv, NEW c \in Client, Busy(c), LoadPins(c)
    PROVE  IInv'
  <1> USE DEF At
  <1>1. PICK k : k = job[c]
    OBVIOUS
  <1>2. /\ IsJob(k) /\ Progress(k) /\ k.pc = "pins" /\ k.req.op = "verify"
        /\ DOMAIN job = Client /\ UNCHANGED <<catalogue, tables, changes, issued>>
    BY <1>1, JobOf DEF LoadPins, Progress, Copying
  <1>3. CASE (Works \/ Fails) /\ Answer(c, 404, <<>>)
    <2>1. 404 \in {404, 409, 422}
      OBVIOUS
    <2> QED
      BY <1>2, <1>3, <2>1, Deny
  <1>4. CASE Fails /\ Answer(c, 500, <<>>)
    BY <1>2, <1>4, Break
  <1>5. ASSUME NEW pins, UsePins(c, pins),
               \/ Works /\ \E i \in 1 .. Len(lockfiles) :
                              /\ lockfiles[i].name = Chosen(k.req.name)
                              /\ lockfiles[i].entries = pins
               \/ Fails
        PROVE  IInv'
    <2>1. faults' \in Nat /\ faults <= faults'
      BY <1>1, <1>5, JobOf
    <2>2. PICK j : j = [k EXCEPT !.pins = pins, !.pc = "root"]
      OBVIOUS
    <2>3. /\ IsJob(j) /\ j.pc = "root" /\ j.id = k.id /\ j.req = k.req /\ j.pins = pins
          /\ j.input = k.input /\ j.source = k.source /\ j.from = k.from
      BY <1>2, <2>2 DEF IsJob
    <2>4. GoesOn(c, j) /\ UNCHANGED answers
      BY <1>1, <1>2, <1>5, <2>2 DEF GoesOn, UsePins
    <2>5. Asking(j) /\ Solving(j) /\ Numbered(j) /\ Copying(j) /\ Storing(j) /\ Recording(j)
      BY <1>2, <2>3 DEF Progress, Asking, Solving, Numbered, Copying, Storing, Recording
    <2>6. NumberIsNew(j) /\ NameWasFree(j)
      BY <1>2, <2>3 DEF Progress, NumberIsNew, NameWasFree
    <2>7. faults' = 0 => Pinned(j)
      BY <1>1, <1>5, <2>3, JobOf DEF Pinned
    <2> QED
      BY <1>1, <1>2, <2>1, <2>3, <2>4, <2>5, <2>6, <2>7, QuietGoes
  <1> QED
    BY <1>1, <1>3, <1>4, <1>5 DEF LoadPins, ErrorIf

-----------------------------------------------------------------------------
(* The steps that write. *)

\* The rows of a table are what they were when rows are added to it.
LEMMA RowsGrow ==
    ASSUME NEW t, NEW u, Len(t) \in Nat, Len(u) \in Nat, Len(t) <= Len(u),
           \A k \in 1 .. Len(t) : u[k] = t[k], NEW i \in 1 .. Len(t),
           IsRow(t, i), IsFaithful(t, i), OwnRef(t, i)
    PROVE  IsRow(u, i) /\ IsFaithful(u, i) /\ OwnRef(u, i)
  <1>1. u[i] = t[i] /\ t[i].from \in 0 .. i - 1 /\ (t[i].from = 0 <=> t[i].source = "direct")
    BY DEF IsRow, NoSource
  <1>2. t[i].from # 0 => u[t[i].from] = t[t[i].from]
    BY <1>1
  <1>3. IsRow(u, i)
    BY <1>1 DEF IsRow
  <1>4. IsFaithful(u, i)
    BY <1>1, <1>2 DEF IsFaithful, NoSource
  <1>5. OwnRef(u, i)
    BY <1>1, <1>2 DEF OwnRef
  <1> QED
    BY <1>3, <1>4, <1>5

\* A resolution is stored under a reference that was free.
LEMMA RowStored ==
    ASSUME IInv, NEW c \in Client, Busy(c), NEW rows, NEW row,
           rows = Append(resolutions, row), ~Taken(row.ref), row.by = job[c].id,
           IsRow(rows, Len(rows)), IsFaithful(rows, Len(rows)), OwnRef(rows, Len(rows)),
           resolutions' = rows, faults' = faults,
           UNCHANGED <<catalogue, lockfiles, changes, issued>>
    PROVE  Grown(job[c].id) /\ Tables' /\ Len(rows) = Len(resolutions) + 1
           /\ Len(resolutions) \in Nat /\ rows[Len(rows)] = row
  <1> DEFINE n == Len(resolutions)
  <1>1. Rows /\ Locks /\ Log /\ Books /\ job[c].id \in 1 .. issued /\ IsTable(resolutions)
    BY DEF IInv, Jobs, Rows
  <1>2. /\ n \in Nat /\ Len(rows) = n + 1 /\ rows[n + 1] = row /\ IsTable(rows)
        /\ \A k \in 1 .. n : rows[k] = resolutions[k]
        /\ Grows(resolutions, rows, row.by)
    BY <1>1, Appended
  <1>3. Grown(job[c].id)
    <2>1. Grows(lockfiles, lockfiles, job[c].id) /\ Grows(changes, changes, job[c].id)
      BY <1>1, Unchanged DEF Locks, Log
    <2> QED
      BY <1>1, <1>2, <2>1 DEF Grown, Books
  <1>4. Rows'
    <2>1. ASSUME NEW i \in 1 .. n + 1
          PROVE  /\ IsRow(rows, i) /\ IsFaithful(rows, i) /\ OwnRef(rows, i)
                 /\ rows[i].by \in 0 .. issued
      <3>1. CASE i \in 1 .. n
        <4>1. /\ IsRow(resolutions, i) /\ IsFaithful(resolutions, i) /\ OwnRef(resolutions, i)
              /\ resolutions[i].by \in 0 .. issued
          BY <1>1, <3>1 DEF Rows
        <4>2. n <= Len(rows) /\ Len(rows) \in Nat
          BY <1>2
        <4>3. IsRow(rows, i) /\ IsFaithful(rows, i) /\ OwnRef(rows, i)
          BY <1>2, <3>1, <4>1, <4>2, RowsGrow
        <4> QED
          BY <1>2, <3>1, <4>1, <4>3
      <3>2. CASE i = n + 1
        BY <1>1, <1>2, <3>2 DEF Books
      <3> QED
        BY <1>2, <3>1, <3>2
    <2>2. ASSUME NEW i \in 1 .. n + 1, NEW j \in 1 .. n + 1, rows[i].ref = rows[j].ref
          PROVE  i = j
      <3>1. \A k \in 1 .. n : rows[k].ref # row.ref
        BY <1>2 DEF Taken
      <3>2. CASE i \in 1 .. n /\ j \in 1 .. n
        BY <1>1, <1>2, <2>2, <3>2 DEF Rows
      <3>3. CASE i = n + 1 \/ j = n + 1
        BY <1>2, <2>2, <3>1, <3>3
      <3> QED
        BY <1>2, <3>2, <3>3
    <2> QED
      BY <1>2, <2>1, <2>2 DEF Rows
  <1>5. Locks'
    <2>1. ASSUME NEW l, IsLock(resolutions, l) PROVE IsLock(rows, l)
      BY <1>2, <2>1 DEF IsLock
    <2> QED
      BY <1>1, <2>1 DEF Locks
  <1>6. Log'
    <2>1. ASSUME NEW i \in 1 .. Len(changes)
          PROVE  changes[i].id \in
                    1 .. Len(IF changes[i].entity = "lockfile" THEN lockfiles ELSE rows)
      BY <1>1, <1>2 DEF Log
    <2> QED
      BY <1>1, <2>1 DEF Log
  <1> QED
    BY <1>2, <1>3, <1>4, <1>5, <1>6 DEF Tables

\* The handler goes on to record what it has stored.
LEMMA SaveGoes ==
    ASSUME IInv, NEW c \in Client, Busy(c), NEW rows, NEW row,
           rows = Append(resolutions, row), ~Taken(row.ref), row.by = job[c].id,
           IsRow(rows, Len(rows)), IsFaithful(rows, Len(rows)), OwnRef(rows, Len(rows)),
           resolutions' = rows, faults' = faults,
           UNCHANGED <<catalogue, lockfiles, changes, issued, answers>>,
           job' = [job EXCEPT ![c].saved = Len(resolutions) + 1, ![c].pc = "record"],
           job[c].pc \in {"save", "rollback"}, job[c].req.op # "lock",
           job[c].req.op = "verify" => row.items = job[c].answer.items
    PROVE  IInv'
  <1>1. PICK k : k = job[c]
    OBVIOUS
  <1>2. IsJob(k) /\ Progress(k) /\ DOMAIN job = Client /\ k.pc \in {"save", "rollback"}
    BY <1>1, JobOf
  <1>3. /\ Grown(job[c].id) /\ Tables' /\ Len(rows) = Len(resolutions) + 1
        /\ Len(resolutions) \in Nat /\ rows[Len(rows)] = row
    BY RowStored
  <1>4. PICK j : j = [k EXCEPT !.saved = Len(rows), !.pc = "record"]
    OBVIOUS
  <1>5. IsJob(j) /\ j.pc = "record" /\ j.id = k.id /\ j.req = k.req /\ j.pins = k.pins
        /\ j.answer = k.answer /\ j.saved = Len(rows)
    BY <1>2, <1>4 DEF IsJob
  <1>6. GoesOn(c, j)
    BY <1>1, <1>2, <1>3, <1>4 DEF GoesOn
  <1>7. Asking(j)' /\ Solving(j)' /\ Numbered(j)' /\ NumberIsNew(j)' /\ NameWasFree(j)' /\ Copying(j)'
    BY <1>5 DEF Asking, Solving, Numbered, NumberIsNew, NameWasFree, Copying
  <1>8. Storing(j)'
    <2>1. j.saved \in 1 .. Len(rows)
      BY <1>3, <1>5
    <2>2. j.req.op = "verify" => rows[j.saved].items = j.answer.items
      BY <1>1, <1>3, <1>5
    <2> QED
      BY <1>1, <1>5, <2>1, <2>2 DEF Storing
  <1>9. Recording(j)'
    BY <1>2, <1>5 DEF Recording, Progress
  <1>10. Pinned(j)'
    BY <1>2, <1>5 DEF Pinned, Progress
  <1>11. Progress(j)'
    BY <1>7, <1>8, <1>9, <1>10 DEF Progress
  <1> QED
    BY <1>1, <1>3, <1>5, <1>6, <1>11, Continue

\* The reference is another's: it has stored a resolution of the same kind.
LEMMA SaveRefused ==
    ASSUME IInv, NEW c \in Client, Busy(c), UNCHANGED <<catalogue, tables, changes, issued>>,
           Answer(c, 500, <<>>),
           \/ Fails
           \/ /\ Works
              /\ \E i \in 1 .. Len(resolutions) : Twin(job[c].id, job[c].req, resolutions[i])
           \/ Works /\ faults # 0
    PROVE  IInv'
  <1>1. CASE Fails
    BY <1>1, Break
  <1>2. CASE Works
    <2>1. faults' = faults /\ faults \in Nat
      BY <1>2, JobOf DEF Works
    <2>2. PICK a : a = [req |-> job[c].req, status |-> 500, report |-> <<>>]
      OBVIOUS
    <2>3. CASE faults = 0
      <3>1. PICK i \in 1 .. Len(resolutions) : Twin(job[c].id, job[c].req, resolutions[i])
        BY <1>2, <2>1, <2>3 DEF Fails
      <3>2. ToldOfFailure(job[c].id, a)
        BY <2>2, <3>1 DEF ToldOfFailure
      <3>3. 500 \in {404, 409, 422, 500}
        OBVIOUS
      <3>4. \/ 500 # 500 \/ faults' # 0
            \/ ToldOfFailure(job[c].id, [req |-> job[c].req, status |-> 500, report |-> <<>>])
        BY <2>2, <3>2
      <3>5. faults' \in Nat /\ faults <= faults'
        BY <2>1
      <3> QED
        BY <3>3, <3>4, <3>5, Refuse
    <2>4. CASE faults # 0
      <3>1. 500 \in {404, 409, 422, 500}
        OBVIOUS
      <3>2. \/ 500 # 500 \/ faults' # 0
            \/ ToldOfFailure(job[c].id, [req |-> job[c].req, status |-> 500, report |-> <<>>])
        BY <2>1, <2>4
      <3>3. faults' \in Nat /\ faults <= faults'
        BY <2>1
      <3> QED
        BY <3>1, <3>2, <3>3, Refuse
    <2> QED
      BY <2>3, <2>4
  <1> QED
    BY <1>1, <1>2

\* A reference tells what was stored under it.
LEMMA RefTells ==
    ASSUME Rows, NEW i \in 1 .. Len(resolutions), NEW source, NEW n,
           resolutions[i].ref = RefOf(source, n)
    PROVE  resolutions[i].source = source /\ n <= i
  <1>1. IsRow(resolutions, i) /\ OwnRef(resolutions, i) /\ Len(resolutions) \in Nat
    BY DEF Rows, IsTable
  <1>2. resolutions[i].source # "rollback"
    <2>1. SUFFICES ASSUME resolutions[i].source = "rollback" PROVE FALSE
      OBVIOUS
    <2>2. resolutions[i].from \in 1 .. Len(resolutions)
      BY <1>1, <2>1 DEF IsRow, NoSource
    <2>3. resolutions[resolutions[i].from].ref \in Ref
      BY <2>2 DEF Rows, IsRow
    <2>4. PICK r \in Ref : r = resolutions[resolutions[i].from].ref
      BY <2>3
    <2>5. RefOf(source, n) = RollbackRef(r)
      BY <1>1, <2>1, <2>4 DEF OwnRef
    <2>6. RefOf(source, n).rollbacks = 0 /\ RollbackRef(r).rollbacks = r.rollbacks + 1
      BY DEF RefOf, RollbackRef, Ref
    <2>7. r.rollbacks \in Nat
      BY DEF Ref
    <2> QED
      BY <2>5, <2>6, <2>7
  <1>3. PICK m \in 0 .. i : resolutions[i].ref = RefOf(resolutions[i].source, m)
    BY <1>1, <1>2 DEF OwnRef
  <1>4. resolutions[i].source = source /\ m = n
    BY <1>3 DEF RefOf
  <1> QED
    BY <1>4

LEMMA SaveStep ==
    ASSUME IInv, NEW c \in Client, Busy(c), Save(c)
    PROVE  IInv'
  <1> USE DEF At
  <1>1. PICK k : k = job[c]
    OBVIOUS
  <1>2. IsJob(k) /\ Progress(k) /\ k.pc = "save" /\ DOMAIN job = Client /\ k.id \in 1 .. issued
    BY <1>1, JobOf DEF Save
  <1>3. PICK row : row = [ref |-> RefOf(k.source, k.seq), by |-> k.id, input |-> k.input,
                          status |-> k.answer.status, items |-> k.answer.items,
                          source |-> k.source, from |-> k.from]
    OBVIOUS
  <1>4. SaveAs(c, row.ref, row) /\ row.ref = RefOf(k.source, k.seq)
    BY <1>1, <1>3 DEF Save
  <1>5. Rows /\ Len(resolutions) \in Nat /\ IsTable(resolutions)
    BY DEF IInv, Rows, IsTable
  <1>6. CASE /\ ~Taken(row.ref) /\ Works /\ resolutions' = Append(resolutions, row)
             /\ job' = [job EXCEPT ![c].saved = Len(resolutions) + 1, ![c].pc = "record"]
             /\ UNCHANGED answers
    <2>1. PICK rows : rows = Append(resolutions, row)
      OBVIOUS
    <2>2. /\ Len(rows) = Len(resolutions) + 1 /\ rows[Len(resolutions) + 1] = row
          /\ \A i \in 1 .. Len(resolutions) : rows[i] = resolutions[i]
      BY <1>5, <2>1, Appended
    <2>3. /\ row.ref \in Ref /\ row.input \in Inputs
          /\ row.status \in {"succeeded", "failed"} /\ (row.status = "failed" => DOMAIN row.items = {})
          /\ row.source \in {"direct", "rerun"} /\ row.from \in 0 .. Len(resolutions)
          /\ (row.from = 0 <=> row.source = "direct")
          /\ row.by = k.id
      <3>1. k.source \in {"direct", "rerun"} /\ k.seq \in Nat /\ k.input \in Inputs
        BY <1>2, <1>5 DEF Progress, Asking, Numbered
      <3>2. row.ref \in Ref
        BY <1>4, <3>1 DEF RefOf, Ref
      <3>3. k.from \in 0 .. Len(resolutions) /\ (k.from = 0 <=> k.source = "direct")
        BY <1>2, <1>5 DEF Progress, Asking, NoSource
      <3>4. /\ k.answer.status \in {"succeeded", "failed"}
            /\ k.answer.status = "failed" => DOMAIN k.answer.items = {}
        BY <1>2 DEF Progress, Solving
      <3> QED
        BY <1>3, <3>1, <3>2, <3>3, <3>4
    <2>4. IsRow(rows, Len(rows))
      BY <1>5, <2>2, <2>3 DEF IsRow, NoSource
    <2>5. IsFaithful(rows, Len(rows))
      <3>1. row.from # 0 => row.from \in 1 .. Len(resolutions) /\ row.input = resolutions[row.from].input
        BY <1>2, <1>3 DEF Progress, Asking, NoSource
      <3>2. row.from # 0 => rows[row.from] = resolutions[row.from]
        BY <2>2, <3>1
      <3> QED
        BY <2>2, <2>3, <3>1, <3>2 DEF IsFaithful, NoSource
    <2>6. OwnRef(rows, Len(rows))
      <3>1. k.seq \in 0 .. Len(rows) /\ row.source = k.source
        BY <1>2, <1>3, <2>2 DEF Progress, Numbered
      <3> QED
        BY <1>4, <2>2, <2>3, <3>1 DEF OwnRef
    <2>7. faults' = faults /\ UNCHANGED <<catalogue, lockfiles, changes, issued>>
      BY <1>4, <1>6 DEF Works, SaveAs
    <2>8. k.req.op # "lock" /\ row.items = k.answer.items
      BY <1>2, <1>3 DEF Progress, Asking
    <2> QED
      BY <1>1, <1>2, <1>6, <2>1, <2>3, <2>4, <2>5, <2>6, <2>7, <2>8, SaveGoes
  <1>7. CASE ErrorIf(Taken(row.ref)) /\ Answer(c, 500, <<>>) /\ UNCHANGED resolutions
    <2>1. UNCHANGED <<catalogue, tables, changes, issued>>
      BY <1>4, <1>7 DEF SaveAs, tables
    <2>2. CASE Fails
      BY <1>7, <2>1, <2>2, SaveRefused
    <2>3. CASE Taken(row.ref) /\ Works
      <3>1. ASSUME faults = 0
            PROVE  \E i \in 1 .. Len(resolutions) : Twin(job[c].id, job[c].req, resolutions[i])
        <4>1. PICK i \in 1 .. Len(resolutions) : resolutions[i].ref = RefOf(k.source, k.seq)
          BY <1>4, <2>3 DEF Taken
        <4>2. resolutions[i].source = k.source /\ k.seq <= i
          BY <1>5, <4>1, RefTells
        <4>3. resolutions[i].by # k.id
          BY <1>2, <4>1 DEF Progress, Storing
        <4>4. resolutions[i].by # 0
          BY <1>2, <1>5, <3>1, <4>2 DEF Progress, NumberIsNew, Numbered
        <4>5. Twin(k.id, k.req, resolutions[i])
          BY <1>2, <4>2, <4>3, <4>4 DEF Progress, Asking, Twin
        <4> QED
          BY <1>1, <4>5
      <3>2. Answer(c, 500, <<>>)
        BY <1>7
      <3> QED
        BY <2>1, <2>3, <3>1, <3>2, SaveRefused
    <2> QED
      BY <1>7, <2>2, <2>3 DEF ErrorIf
  <1> QED
    BY <1>4, <1>6, <1>7 DEF SaveAs

LEMMA SaveRollbackStep ==
    ASSUME IInv, NEW c \in Client, Busy(c), SaveRollback(c)
    PROVE  IInv'
  <1> USE DEF At
  <1>1. PICK k : k = job[c]
    OBVIOUS
  <1>2. /\ IsJob(k) /\ Progress(k) /\ k.pc = "rollback" /\ k.req.op = "rollback"
        /\ DOMAIN job = Client /\ k.id \in 1 .. issued
    BY <1>1, JobOf DEF SaveRollback, Progress, Copying
  <1>3. PICK source : source = resolutions[k.req.id]
    OBVIOUS
  <1>4. PICK row : row = [ref |-> RollbackRef(source.ref), by |-> k.id, input |-> source.input,
                          status |-> "succeeded", items |-> k.answer.items,
                          source |-> "rollback", from |-> k.req.id]
    OBVIOUS
  <1>5. SaveAs(c, row.ref, row) /\ row.ref = RollbackRef(source.ref)
    BY <1>1, <1>3, <1>4 DEF SaveRollback, Source
  <1>6. Rows /\ Len(resolutions) \in Nat /\ IsTable(resolutions)
    BY DEF IInv, Rows, IsTable
  <1>7. /\ k.req.id \in 1 .. Len(resolutions) /\ source.status = "succeeded"
        /\ k.answer.items = source.items
    BY <1>2, <1>3 DEF Progress, Copying
  <1>8. source.ref \in Ref /\ source.input \in Inputs
    BY <1>3, <1>6, <1>7 DEF Rows, IsRow
  <1>9. CASE /\ ~Taken(row.ref) /\ Works /\ resolutions' = Append(resolutions, row)
             /\ job' = [job EXCEPT ![c].saved = Len(resolutions) + 1, ![c].pc = "record"]
             /\ UNCHANGED answers
    <2>1. PICK rows : rows = Append(resolutions, row)
      OBVIOUS
    <2>2. /\ Len(rows) = Len(resolutions) + 1 /\ rows[Len(resolutions) + 1] = row
          /\ rows[k.req.id] = source
      BY <1>3, <1>6, <1>7, <2>1, Appended
    <2>3. row.ref \in Ref
      BY <1>5, <1>8 DEF RollbackRef, Ref
    <2>4. IsRow(rows, Len(rows))
      BY <1>4, <1>6, <1>7, <1>8, <2>2, <2>3 DEF IsRow, NoSource
    <2>5. IsFaithful(rows, Len(rows))
      BY <1>4, <1>7, <2>2 DEF IsFaithful
    <2>6. OwnRef(rows, Len(rows))
      BY <1>4, <2>2 DEF OwnRef
    <2>7. faults' = faults /\ UNCHANGED <<catalogue, lockfiles, changes, issued>>
      BY <1>5, <1>9 DEF Works, SaveAs
    <2>8. k.req.op # "lock" /\ k.req.op # "verify" /\ row.by = k.id
      BY <1>2, <1>4
    <2> QED
      BY <1>1, <1>2, <1>9, <2>1, <2>4, <2>5, <2>6, <2>7, <2>8, SaveGoes
  <1>10. CASE ErrorIf(Taken(row.ref)) /\ Answer(c, 500, <<>>) /\ UNCHANGED resolutions
    <2>1. UNCHANGED <<catalogue, tables, changes, issued>>
      BY <1>5, <1>10 DEF SaveAs, tables
    <2>2. CASE Fails
      BY <1>10, <2>1, <2>2, SaveRefused
    <2>3. CASE Taken(row.ref) /\ Works
      <3>1. PICK i \in 1 .. Len(resolutions) : resolutions[i].ref = RollbackRef(source.ref)
        BY <1>5, <2>3 DEF Taken
      <3>2. IsRow(resolutions, i) /\ OwnRef(resolutions, i)
        BY <1>6 DEF Rows
      <3>3. resolutions[i].source = "rollback"
        <4>1. SUFFICES ASSUME resolutions[i].source # "rollback" PROVE FALSE
          OBVIOUS
        <4>2. PICK m \in 0 .. i : resolutions[i].ref = RefOf(resolutions[i].source, m)
          BY <3>2, <4>1 DEF OwnRef
        <4>3. RefOf(resolutions[i].source, m).rollbacks = 0
          BY DEF RefOf
        <4>4. source.ref.rollbacks \in Nat /\ RollbackRef(source.ref).rollbacks = source.ref.rollbacks + 1
          BY <1>8 DEF RollbackRef, Ref
        <4> QED
          BY <3>1, <4>2, <4>3, <4>4
      <3>4. resolutions[i].from \in 1 .. Len(resolutions)
        BY <1>6, <3>2, <3>3 DEF IsRow, NoSource
      <3>5. PICK s : s = resolutions[resolutions[i].from].ref
        OBVIOUS
      <3>6. s \in Ref /\ RollbackRef(s) = RollbackRef(source.ref)
        BY <1>6, <3>1, <3>2, <3>3, <3>4, <3>5 DEF Rows, IsRow, OwnRef
      <3>7. s = source.ref
        <4>1. ASSUME NEW q \in Ref, NEW r \in Ref, RollbackRef(q) = RollbackRef(r) PROVE q = r
          <5>1. /\ RollbackRef(q).source = q.source /\ RollbackRef(q).seq = q.seq
                /\ RollbackRef(q).rollbacks = q.rollbacks + 1 /\ q.rollbacks \in Nat
                /\ q = [source |-> q.source, seq |-> q.seq, rollbacks |-> q.rollbacks]
            BY DEF RollbackRef, Ref
          <5>2. /\ RollbackRef(r).source = r.source /\ RollbackRef(r).seq = r.seq
                /\ RollbackRef(r).rollbacks = r.rollbacks + 1 /\ r.rollbacks \in Nat
                /\ r = [source |-> r.source, seq |-> r.seq, rollbacks |-> r.rollbacks]
            BY DEF RollbackRef, Ref
          <5> QED
            BY <4>1, <5>1, <5>2
        <4> QED
          BY <1>8, <3>6, <4>1
      <3>8. resolutions[i].from = k.req.id
        BY <1>3, <1>6, <1>7, <3>4, <3>5, <3>7 DEF Rows
      <3>9. resolutions[i].by # k.id
        BY <1>2, <3>1 DEF Progress, Storing
      <3>10. Twin(k.id, k.req, resolutions[i])
        BY <1>2, <3>3, <3>8, <3>9 DEF Twin
      <3>11. Answer(c, 500, <<>>)
        BY <1>10
      <3> QED
        BY <1>1, <2>1, <2>3, <3>10, <3>11, SaveRefused
    <2> QED
      BY <1>10, <2>2, <2>3 DEF ErrorIf
  <1> QED
    BY <1>5, <1>9, <1>10 DEF SaveAs

LEMMA SaveLockfileStep ==
    ASSUME IInv, NEW c \in Client, Busy(c), SaveLockfile(c)
    PROVE  IInv'
  <1> USE DEF At
  <1>1. PICK k : k = job[c]
    OBVIOUS
  <1>2. /\ IsJob(k) /\ Progress(k) /\ k.pc = "lock" /\ k.req.op = "lock"
        /\ DOMAIN job = Client /\ k.id \in 1 .. issued /\ faults \in Nat
        /\ UNCHANGED <<catalogue, resolutions, changes, issued>>
    BY <1>1, JobOf DEF SaveLockfile, Progress, Copying
  <1>3. PICK name : name = NameFor(k.req)
    OBVIOUS
  <1>4. PICK lock : lock = [name |-> name, by |-> k.id, from |-> k.req.id,
                            entries |-> k.answer.items]
    OBVIOUS
  <1>5. Rows /\ Locks /\ Log /\ Books /\ IsTable(lockfiles) /\ Len(resolutions) \in Nat
    BY DEF IInv, Rows, Locks, IsTable
  <1>6. /\ k.req.id \in 1 .. Len(resolutions) /\ resolutions[k.req.id].status = "succeeded"
        /\ k.answer.items = resolutions[k.req.id].items
    BY <1>2 DEF Progress, Copying
  <1>7. CASE /\ ~NameTaken(LockName(c)) /\ Works
             /\ lockfiles' = Append(lockfiles, [name |-> LockName(c), by |-> job[c].id,
                                                from |-> job[c].req.id, entries |-> job[c].answer.items])
             /\ job' = [job EXCEPT ![c].saved = Len(lockfiles) + 1, ![c].pc = "record"]
             /\ UNCHANGED answers
    <2>1. lockfiles' = Append(lockfiles, lock) /\ ~NameTaken(name) /\ faults' = faults
      BY <1>1, <1>3, <1>4, <1>7 DEF LockName, Works
    <2>2. /\ Len(lockfiles) \in Nat /\ Len(lockfiles') = Len(lockfiles) + 1
          /\ lockfiles'[Len(lockfiles) + 1] = lock /\ IsTable(lockfiles')
          /\ \A i \in 1 .. Len(lockfiles) : lockfiles'[i] = lockfiles[i]
          /\ Grows(lockfiles, lockfiles', k.id)
      <3>1. PICK locks : locks = Append(lockfiles, lock)
        OBVIOUS
      <3>2. /\ Len(lockfiles) \in Nat /\ Len(locks) = Len(lockfiles) + 1
            /\ locks[Len(lockfiles) + 1] = lock /\ IsTable(locks)
            /\ \A i \in 1 .. Len(lockfiles) : locks[i] = lockfiles[i]
            /\ Grows(lockfiles, locks, lock.by)
        BY <1>5, <3>1, Appended
      <3>3. lock.by = k.id /\ lockfiles' = locks
        BY <1>4, <2>1, <3>1
      <3> QED
        BY <3>2, <3>3
    <2>3. Grown(job[c].id)
      <3>1. Grows(resolutions, resolutions, k.id) /\ Grows(changes, changes, k.id)
        BY <1>5, Unchanged DEF Rows, Log
      <3> QED
        BY <1>1, <1>2, <2>1, <2>2, <3>1 DEF Grown
    <2>4. Rows'
      BY <1>2, <1>5 DEF Rows
    <2>5. Locks'
      <3>1. IsLock(resolutions, lock) /\ lock.by \in 0 .. issued
        BY <1>2, <1>4, <1>5, <1>6 DEF IsLock, Books
      <3>2. ASSUME NEW i \in 1 .. Len(lockfiles')
            PROVE  IsLock(resolutions', lockfiles'[i]) /\ lockfiles'[i].by \in 0 .. issued'
        <4>1. CASE i \in 1 .. Len(lockfiles)
          BY <1>2, <1>5, <2>2, <4>1 DEF Locks, IsLock
        <4>2. CASE i = Len(lockfiles) + 1
          BY <1>2, <2>2, <3>1, <4>2 DEF IsLock
        <4> QED
          BY <2>2, <4>1, <4>2
      <3>3. ASSUME NEW i \in 1 .. Len(lockfiles'), NEW j \in 1 .. Len(lockfiles'),
                   lockfiles'[i].name = lockfiles'[j].name
            PROVE  i = j
        <4>1. \A h \in 1 .. Len(lockfiles) : lockfiles[h].name # name
          BY <2>1 DEF NameTaken
        <4>2. lock.name = name
          BY <1>4
        <4>3. CASE i \in 1 .. Len(lockfiles) /\ j \in 1 .. Len(lockfiles)
          BY <1>5, <2>2, <3>3, <4>3 DEF Locks
        <4>4. CASE i = Len(lockfiles) + 1 \/ j = Len(lockfiles) + 1
          BY <2>2, <3>3, <4>1, <4>2, <4>4
        <4> QED
          BY <2>2, <4>3, <4>4
      <3> QED
        BY <2>2, <3>2, <3>3 DEF Locks
    <2>6. Log'
      <3>1. changes' = changes /\ resolutions' = resolutions /\ issued' = issued
        BY <1>2
      <3>2. ASSUME NEW i \in 1 .. Len(changes)
            PROVE  /\ changes[i].id \in
                        1 .. Len(IF changes[i].entity = "lockfile" THEN lockfiles' ELSE resolutions')
                   /\ changes[i].by \in 1 .. issued
        BY <1>5, <2>2, <3>1 DEF Log
      <3> QED
        BY <1>5, <3>1, <3>2 DEF Log
    <2>7. PICK m : m = Len(lockfiles) + 1
      OBVIOUS
    <2>8. PICK j : j = [k EXCEPT !.saved = m, !.pc = "record"]
      OBVIOUS
    <2>9. IsJob(j) /\ j.pc = "record" /\ j.id = k.id /\ j.req = k.req /\ j.pins = k.pins /\ j.saved = m
      BY <1>2, <2>8 DEF IsJob
    <2>10. GoesOn(c, j)
      BY <1>1, <1>2, <1>7, <2>7, <2>8 DEF GoesOn
    <2>11. /\ Asking(j)' /\ Solving(j)' /\ Numbered(j)' /\ NumberIsNew(j)' /\ NameWasFree(j)'
           /\ Copying(j)'
      BY <2>9 DEF Asking, Solving, Numbered, NumberIsNew, NameWasFree, Copying
    <2>12. Storing(j)'
      <3>1. NameFor(j.req)' = name
        BY <1>2, <1>3, <2>9 DEF NameFor
      <3>2. j.saved \in 1 .. Len(lockfiles') /\ lockfiles'[j.saved] = lock
        BY <2>2, <2>7, <2>9
      <3>3. lock.by = j.id /\ lock.name = name
        BY <1>4, <2>9
      <3>4. j.req.id \in 1 .. Len(resolutions')
        BY <1>2, <1>6, <2>9
      <3> QED
        BY <1>2, <2>9, <3>1, <3>2, <3>3, <3>4 DEF Storing
    <2>13. Recording(j)'
      BY <1>2, <2>9 DEF Recording, Progress
    <2>14. Pinned(j)'
      BY <1>2, <2>9 DEF Pinned
    <2>15. Progress(j)'
      BY <2>11, <2>12, <2>13, <2>14 DEF Progress
    <2> QED
      BY <1>1, <1>7, <2>3, <2>4, <2>5, <2>6, <2>9, <2>10, <2>15, Continue DEF Tables
  <1>8. CASE ErrorIf(NameTaken(LockName(c))) /\ Answer(c, 500, <<>>) /\ UNCHANGED lockfiles
    <2>1. UNCHANGED <<catalogue, tables, changes, issued>>
      BY <1>2, <1>8 DEF tables
    <2>2. CASE Fails
      BY <1>8, <2>1, <2>2, Break
    <2>3. CASE NameTaken(LockName(c)) /\ Works
      <3>1. PICK i \in 1 .. Len(lockfiles) : lockfiles[i].name = name
        BY <1>1, <1>3, <2>3 DEF NameTaken, LockName
      <3>2. lockfiles[i].by # k.id
        BY <1>2, <3>1 DEF Progress, Storing
      <3>3. faults = 0 => lockfiles[i].by # 0
        BY <1>2, <1>3, <3>1 DEF Progress, NameWasFree
      <3>4. PICK a : a = [req |-> job[c].req, status |-> 500, report |-> <<>>]
        OBVIOUS
      <3>5. ToldOfFailure(k.id, a)
        BY <1>1, <1>2, <1>3, <1>6, <3>1, <3>2, <3>3, <3>4 DEF ToldOfFailure
      <3>6. \/ 500 # 500 \/ faults' # 0
            \/ ToldOfFailure(job[c].id, [req |-> job[c].req, status |-> 500, report |-> <<>>])
        BY <1>1, <3>4, <3>5
      <3>7. 500 \in {404, 409, 422, 500}
        OBVIOUS
      <3>8. faults' \in Nat /\ faults <= faults'
        BY <1>2, <2>3 DEF Works
      <3>9. Answer(c, 500, <<>>)
        BY <1>8
      <3> QED
        BY <2>1, <3>6, <3>7, <3>8, <3>9, Refuse
    <2> QED
      BY <1>8, <2>2, <2>3 DEF ErrorIf
  <1> QED
    BY <1>7, <1>8 DEF SaveLockfile

\* A change record of the request is written.
LEMMA Logged ==
    ASSUME IInv, NEW c \in Client, Busy(c), NEW e, changes' = Append(changes, e), e.by = job[c].id,
           e.id \in 1 .. Len(IF e.entity = "lockfile" THEN lockfiles ELSE resolutions),
           faults' = faults, UNCHANGED <<catalogue, tables, issued>>
    PROVE  /\ Grown(job[c].id) /\ Tables'
           /\ Len(changes) \in Nat /\ Len(changes') = Len(changes) + 1
           /\ changes'[Len(changes) + 1] = e
           /\ \A i \in 1 .. Len(changes) : changes'[i] = changes[i]
  <1> USE DEF tables
  <1>1. Rows /\ Locks /\ Log /\ Books /\ job[c].id \in 1 .. issued /\ IsTable(changes)
    BY DEF IInv, Jobs, Log
  <1>2. /\ Len(changes) \in Nat /\ Len(changes') = Len(changes) + 1 /\ IsTable(changes')
        /\ changes'[Len(changes) + 1] = e
        /\ \A i \in 1 .. Len(changes) : changes'[i] = changes[i]
        /\ Grows(changes, changes', job[c].id)
    BY <1>1, Appended
  <1>3. Grown(job[c].id)
    <2>1. Grows(resolutions, resolutions, job[c].id) /\ Grows(lockfiles, lockfiles, job[c].id)
      BY <1>1, Unchanged DEF Rows, Locks
    <2> QED
      BY <1>1, <1>2, <2>1 DEF Grown, Books
  <1>4. Rows' /\ Locks'
    BY <1>1 DEF Rows, Locks
  <1>5. Log'
    <2>1. ASSUME NEW i \in 1 .. Len(changes')
          PROVE  /\ changes'[i].by \in 1 .. issued
                 /\ changes'[i].id \in
                      1 .. Len(IF changes'[i].entity = "lockfile" THEN lockfiles ELSE resolutions)
      <3>1. CASE i \in 1 .. Len(changes)
        BY <1>1, <1>2, <3>1 DEF Log
      <3>2. CASE i = Len(changes) + 1
        BY <1>1, <1>2, <3>2
      <3> QED
        BY <1>2, <3>1, <3>2
    <2> QED
      BY <1>2, <2>1 DEF Log
  <1> QED
    BY <1>2, <1>3, <1>4, <1>5 DEF Tables

\* A record by the request itself, and what it says.
LEMMA RecordStep ==
    ASSUME IInv, NEW c \in Client, Busy(c), Record(c)
    PROVE  IInv'
  <1> USE DEF At, Doing
  <1>1. PICK k : k = job[c]
    OBVIOUS
  <1>2. /\ IsJob(k) /\ Progress(k) /\ k.pc = "record" /\ DOMAIN job = Client
        /\ k.id \in 1 .. issued /\ faults \in Nat /\ UNCHANGED <<catalogue, tables, issued>>
        /\ k.req.op \in {"resolve", "rerun", "verify", "rollback", "lock"}
    BY <1>1, JobOf DEF Record, IsJob, IsRequest
  <1>3. CASE Fails /\ Answer(c, 500, <<>>) /\ UNCHANGED changes
    <2>1. UNCHANGED <<catalogue, tables, changes, issued>>
      BY <1>2, <1>3
    <2> QED
      BY <1>3, <2>1, Break
  <1>4. CASE /\ Works /\ changes' = Append(changes, Entry(c, Action(c)))
             /\ IF Doing(c, "rerun") THEN Goto(c, "record rerun")
                ELSE Answer(c, Success(c), Report(c))
    <2>1. PICK e : e = Entry(c, Action(c))
      OBVIOUS
    <2>2. /\ e.by = k.id /\ e.id = k.saved
          /\ k.req.op = "lock" => e.entity = "lockfile" /\ e.action = "create"
          /\ k.req.op # "lock" => e.entity = "resolution"
          /\ k.req.op = "rollback" => e.action = "rollback"
          /\ k.req.op \notin {"lock", "rollback"} => e.action = "resolve"
      BY <1>1, <2>1 DEF Entry, Action
    <2>3. e.id \in 1 .. Len(IF e.entity = "lockfile" THEN lockfiles ELSE resolutions)
      BY <1>2, <2>2 DEF Progress, Storing
    <2>4. changes' = Append(changes, e) /\ faults' = faults
      BY <1>4, <2>1 DEF Works
    <2>5. /\ Grown(job[c].id) /\ Tables'
          /\ Len(changes) \in Nat /\ Len(changes') = Len(changes) + 1
          /\ changes'[Len(changes) + 1] = e
          /\ \A i \in 1 .. Len(changes) : changes'[i] = changes[i]
      BY <1>1, <1>2, <2>2, <2>3, <2>4, Logged
    <2>6. CASE k.req.op = "rerun"
      <3>1. PICK j : j = [k EXCEPT !.pc = "record rerun"]
        OBVIOUS
      <3>2. /\ IsJob(j) /\ j.pc = "record rerun" /\ j.id = k.id /\ j.req = k.req
            /\ j.saved = k.saved /\ j.answer = k.answer
        BY <1>2, <3>1 DEF IsJob
      <3>3. GoesOn(c, j) /\ UNCHANGED answers
        BY <1>1, <1>2, <1>4, <2>6, <3>1 DEF Goto, GoesOn
      <3>4. /\ Asking(j)' /\ Solving(j)' /\ Numbered(j)' /\ NumberIsNew(j)' /\ NameWasFree(j)'
            /\ Copying(j)'
        BY <3>2 DEF Asking, Solving, Numbered, NumberIsNew, NameWasFree, Copying
      <3>5. Storing(j)'
        BY <1>2, <2>6, <3>2 DEF Progress, Storing, tables
      <3>6. Recording(j)'
        <4>1. \A i \in 1 .. Len(changes) : changes[i].by # k.id
          BY <1>2 DEF Progress, Recording
        <4>2. \A i \in 1 .. Len(changes') : changes'[i].by = j.id => changes'[i].action = "resolve"
          <5>1. ASSUME NEW i \in 1 .. Len(changes'), changes'[i].by = j.id
                PROVE  changes'[i].action = "resolve"
            <6>1. i \in 1 .. Len(changes) \/ i = Len(changes) + 1
              BY <2>5
            <6>2. i \notin 1 .. Len(changes)
              BY <2>5, <3>2, <4>1, <5>1
            <6> QED
              BY <2>2, <2>5, <2>6, <6>1, <6>2
          <5> QED
            BY <5>1
        <4>3. \E i \in 1 .. Len(changes') : changes'[i].by = j.id
          <5>1. PICK i : i = Len(changes) + 1
            OBVIOUS
          <5>2. i \in 1 .. Len(changes')
            BY <2>5, <5>1
          <5>3. changes'[i] = e
            BY <2>5, <5>1
          <5> QED
            BY <2>2, <3>2, <5>2, <5>3
        <4> QED
          BY <2>6, <3>2, <4>2, <4>3 DEF Recording
      <3>7. Pinned(j)'
        BY <2>6, <3>2 DEF Pinned
      <3>8. Progress(j)'
        BY <3>4, <3>5, <3>6, <3>7 DEF Progress
      <3> QED
        BY <1>1, <2>5, <3>2, <3>3, <3>8, Continue
    <2>7. CASE k.req.op # "rerun"
      <3>1. PICK status : status = Success(c)
        OBVIOUS
      <3>2. PICK report : report = Report(c)
        OBVIOUS
      <3>3. PICK a : a = [req |-> job[c].req, status |-> status, report |-> report]
        OBVIOUS
      <3>4. Answer(c, status, report)
        BY <1>1, <1>4, <2>7, <3>1, <3>2
      <3>5. /\ status = IF k.req.op = "lock" THEN 201 ELSE 200
            /\ a.req = k.req /\ a.status = status /\ a.report = report
        BY <1>1, <3>1, <3>3 DEF Success
      <3>6. ToldOfSuccess(k.id, a)'
        <4>1. Records(k.id, e.action)'
          BY <2>2, <2>5 DEF Records
        <4>2. AllRecorded(k.id, a.req)'
          BY <1>2, <2>2, <2>7, <3>5, <4>1 DEF AllRecorded
        <4> QED
          BY <3>5, <4>2 DEF ToldOfSuccess, Statuses
      <3>7. ToldOfLock(k.id, a)'
        <4>1. ASSUME k.req.op = "lock"
              PROVE  /\ k.req.id \in 1 .. Len(resolutions)
                     /\ \E l \in 1 .. Len(lockfiles) :
                           lockfiles[l].by = k.id /\ lockfiles[l].name = NameFor(k.req)
          BY <1>2, <4>1 DEF Progress, Storing
        <4>2. NameFor(k.req)' = NameFor(k.req)
          BY <1>2 DEF NameFor, tables
        <4> QED
          BY <1>2, <3>5, <4>1, <4>2 DEF ToldOfLock, tables
      <3>8. ToldOfFailure(k.id, a)'
        BY <3>5 DEF ToldOfFailure
      <3>9. ToldOfDrift(a)'
        <4>1. SUFFICES ASSUME k.req.op = "verify", faults = 0
                       PROVE  /\ report.saved \in 1 .. Len(resolutions)
                              /\ \E l \in 1 .. Len(lockfiles) :
                                    /\ lockfiles[l].name = Chosen(k.req.name)
                                    /\ report.drift = DriftOf(lockfiles[l].entries,
                                                              resolutions[report.saved].items)
          BY <1>2, <2>4, <3>5 DEF ToldOfDrift, DriftOf, tables
        <4>2. k.saved \in 1 .. Len(resolutions) /\ resolutions[k.saved].items = k.answer.items
          BY <1>2, <4>1 DEF Progress, Storing
        <4>3. PICK l \in 1 .. Len(lockfiles) :
                      lockfiles[l].name = Chosen(k.req.name) /\ lockfiles[l].entries = k.pins
          BY <1>2, <4>1 DEF Progress, Pinned
        <4>4. report.saved = k.saved /\ report.drift = Drifted(k.pins, k.answer.items)
          BY <1>1, <3>2, <4>1 DEF Report
        <4>5. Drifted(k.pins, k.answer.items) = DriftOf(k.pins, k.answer.items)
          BY DEF Drifted, DriftOf
        <4> QED
          BY <4>2, <4>3, <4>4, <4>5
      <3>10. Told(k.id, a)'
        BY <3>6, <3>7, <3>8, <3>9 DEF Told
      <3> QED
        BY <1>1, <2>5, <3>3, <3>4, <3>10, End
    <2> QED
      BY <2>6, <2>7
  <1> QED
    BY <1>3, <1>4 DEF Record

LEMMA RecordRerunStep ==
    ASSUME IInv, NEW c \in Client, Busy(c), RecordRerun(c)
    PROVE  IInv'
  <1> USE DEF At, Doing
  <1>1. PICK k : k = job[c]
    OBVIOUS
  <1>2. /\ IsJob(k) /\ Progress(k) /\ k.pc = "record rerun" /\ k.req.op = "rerun"
        /\ DOMAIN job = Client /\ k.id \in 1 .. issued
        /\ UNCHANGED <<catalogue, tables, issued>>
    BY <1>1, JobOf DEF RecordRerun, Progress, Recording
  <1>3. CASE Fails /\ Answer(c, 500, <<>>) /\ UNCHANGED changes
    <2>1. UNCHANGED <<catalogue, tables, changes, issued>>
      BY <1>2, <1>3
    <2> QED
      BY <1>3, <2>1, Break
  <1>4. CASE Works /\ changes' = Append(changes, Entry(c, "rerun")) /\ Answer(c, 200, <<>>)
    <2>1. PICK e : e = Entry(c, "rerun")
      OBVIOUS
    <2>2. e.by = k.id /\ e.id = k.saved /\ e.entity = "resolution" /\ e.action = "rerun"
      BY <1>1, <1>2, <2>1 DEF Entry
    <2>3. e.id \in 1 .. Len(IF e.entity = "lockfile" THEN lockfiles ELSE resolutions)
      BY <1>2, <2>2 DEF Progress, Storing
    <2>4. changes' = Append(changes, e) /\ faults' = faults
      BY <1>4, <2>1 DEF Works
    <2>5. /\ Grown(job[c].id) /\ Tables'
          /\ Len(changes) \in Nat /\ Len(changes') = Len(changes) + 1
          /\ changes'[Len(changes) + 1] = e
          /\ \A i \in 1 .. Len(changes) : changes'[i] = changes[i]
      BY <1>1, <1>2, <2>2, <2>3, <2>4, Logged
    <2>6. PICK a : a = [req |-> job[c].req, status |-> 200, report |-> <<>>]
      OBVIOUS
    <2>7. a.req = k.req /\ a.status = 200
      BY <1>1, <2>6
    <2>8. ToldOfSuccess(k.id, a)'
      <3>1. Records(k.id, "rerun")'
        BY <2>2, <2>5 DEF Records
      <3>2. Records(k.id, "resolve")'
        <4>1. PICK i \in 1 .. Len(changes) : changes[i].by = k.id /\ changes[i].action = "resolve"
          BY <1>2 DEF Progress, Recording
        <4>2. i \in 1 .. Len(changes') /\ changes'[i] = changes[i]
          BY <2>5
        <4> QED
          BY <4>1, <4>2 DEF Records
      <3>3. AllRecorded(k.id, a.req)'
        BY <1>2, <2>7, <3>1, <3>2 DEF AllRecorded
      <3> QED
        BY <2>7, <3>3 DEF ToldOfSuccess, Statuses
    <2>9. ToldOfLock(k.id, a)' /\ ToldOfFailure(k.id, a)' /\ ToldOfDrift(a)'
      <3>5. k.req.op = "rerun"
        BY <1>2
      <3>1. a.status # 201 /\ a.status # 500 /\ a.req.op # "verify"
        BY <2>7, <3>5
      <3>2. ToldOfLock(k.id, a)'
        BY <3>1 DEF ToldOfLock
      <3>3. ToldOfFailure(k.id, a)'
        BY <3>1 DEF ToldOfFailure
      <3>4. ToldOfDrift(a)'
        BY <3>1 DEF ToldOfDrift
      <3> QED
        BY <3>2, <3>3, <3>4
    <2>10. Told(k.id, a)'
      BY <2>8, <2>9 DEF Told
    <2> QED
      BY <1>1, <1>4, <2>5, <2>6, <2>10, End
  <1> QED
    BY <1>3, <1>4 DEF RecordRerun

-----------------------------------------------------------------------------
(* The other steps. *)

LEMMA SameProgress ==
    ASSUME UNCHANGED <<tables, changes, faults>>, NEW j, Progress(j), Solving(j)'
    PROVE  Progress(j)'
  <1> USE DEF tables, Progress
  <1>1. NameFor(j.req)' = NameFor(j.req)
    BY DEF NameFor
  <1>2. Asking(j)'
    BY DEF Asking
  <1>3. Numbered(j)' /\ NumberIsNew(j)'
    BY DEF Numbered, NumberIsNew
  <1>4. Copying(j)'
    BY DEF Copying
  <1>5. NameWasFree(j)'
    BY <1>1 DEF NameWasFree
  <1>6. Pinned(j)'
    BY DEF Pinned
  <1>7. Storing(j)'
    BY <1>1 DEF Storing
  <1>8. Recording(j)'
    BY DEF Recording
  <1> QED
    BY <1>2, <1>3, <1>4, <1>5, <1>6, <1>7, <1>8

LEMMA SameTold ==
    ASSUME UNCHANGED <<tables, changes, faults>>, NEW i, NEW a, Told(i, a)
    PROVE  Told(i, a)'
  <1> USE DEF tables, Told
  <1>1. NameFor(a.req)' = NameFor(a.req)
    BY DEF NameFor
  <1>2. \A action : Records(i, action)' <=> Records(i, action)
    BY DEF Records
  <1>3. ToldOfSuccess(i, a)'
    BY <1>2 DEF ToldOfSuccess, AllRecorded
  <1>4. ToldOfLock(i, a)'
    BY <1>1 DEF ToldOfLock
  <1>5. ToldOfFailure(i, a)'
    BY <1>1 DEF ToldOfFailure, Twin
  <1>6. ToldOfDrift(a)'
    BY DEF ToldOfDrift, DriftOf
  <1> QED
    BY <1>3, <1>4, <1>5, <1>6

LEMMA StartStep ==
    ASSUME IInv, NEW c \in Client, Start(c)
    PROVE  IInv'
  <1> USE DEF tables
  <1>1. /\ ~Busy(c) /\ issued' = issued + 1 /\ issued \in Nat /\ DOMAIN job = Client
        /\ UNCHANGED <<catalogue, tables, changes, answers, faults>>
    BY DEF Start, Busy, IInv, Books, Jobs
  <1>2. PICK r \in Requests :
           job' = [job EXCEPT ![c] =
                    [pc |-> FirstCall(r), id |-> issued + 1, req |-> r,
                     input |-> IF r.op \in {"resolve", "verify"} THEN r.input ELSE <<>>,
                     source |-> "direct", from |-> NoSource,
                     answer |-> <<>>, seq |-> 0, pins |-> <<>>, saved |-> 0]]
    BY DEF Start
  <1>3. IsRequest(r)
    <2>1. Len(resolutions) \in Nat
      BY DEF IInv, Rows, IsTable
    <2>2. CASE r \in [op : {"resolve"}, input : Inputs]
      BY <2>2 DEF IsRequest
    <2>3. CASE r \in [op : {"rerun", "rollback"}, id : Ids(resolutions)]
      <3>1. r.op \in {"rerun", "rollback"} /\ r.id \in 1 .. Len(resolutions) + 1
        BY <2>3 DEF Ids
      <3>2. r.id \in Nat \ {0}
        BY <2>1, <3>1
      <3> QED
        BY <3>1, <3>2 DEF IsRequest
    <2>4. CASE r \in [op : {"lock"}, id : Ids(resolutions), name : LockNames \cup {""}]
      <3>1. r.op = "lock" /\ r.id \in 1 .. Len(resolutions) + 1
        BY <2>4 DEF Ids
      <3>2. r.id \in Nat \ {0}
        BY <2>1, <3>1
      <3> QED
        BY <3>1, <3>2 DEF IsRequest
    <2>5. CASE r \in [op : {"verify"}, name : LockNames, input : Inputs]
      BY <2>5 DEF IsRequest
    <2> QED
      BY <2>2, <2>3, <2>4, <2>5 DEF Requests
  <1>4. PICK j : j = [pc |-> FirstCall(r), id |-> issued + 1, req |-> r,
                      input |-> IF r.op \in {"resolve", "verify"} THEN r.input ELSE <<>>,
                      source |-> "direct", from |-> NoSource,
                      answer |-> <<>>, seq |-> 0, pins |-> <<>>, saved |-> 0]
    OBVIOUS
  <1>5. /\ j.pc = FirstCall(r) /\ j.id = issued + 1 /\ j.req = r
        /\ r.op \in {"resolve", "verify"} => j.input = r.input
        /\ j.source = "direct" /\ j.from = NoSource
    BY <1>4
  <1>6. /\ j.pc \in {"root", "pins", "load"}
        /\ j.pc = "root" <=> r.op = "resolve"
        /\ j.pc = "pins" <=> r.op = "verify"
        /\ j.pc = "load" <=> r.op \in {"rerun", "rollback", "lock"}
    BY <1>3, <1>5 DEF FirstCall, IsRequest
  <1>7. IsJob(j)
    BY <1>3, <1>4, <1>6 DEF IsJob
  <1>8. GoesOn(c, j)
    BY <1>1, <1>2, <1>4 DEF GoesOn
  <1>9. Jobs'
    <2>1. \A d \in Client, k \in Client : d # c => job'[d] = job[d]
      BY <1>8 DEF GoesOn
    <2>2. ASSUME NEW d \in Client, Busy(d)'
          PROVE  IsJob(job'[d]) /\ job'[d].id \in (1 .. issued') \ DOMAIN answers'
                 /\ (d # c => Busy(d) /\ job'[d] = job[d] /\ job[d].id # issued + 1)
      <3>1. CASE d = c
        <4>1. issued + 1 \in (1 .. issued') \ DOMAIN answers'
          BY <1>1 DEF IInv, Books
        <4> QED
          BY <1>5, <1>7, <1>8, <3>1, <4>1 DEF GoesOn
      <3>2. CASE d # c
        <4>1. job'[d] = job[d] /\ Busy(d)
          BY <1>8, <2>2, <3>2 DEF GoesOn, Busy
        <4>2. IsJob(job[d]) /\ job[d].id \in (1 .. issued) \ DOMAIN answers
          BY <4>1 DEF IInv, Jobs
        <4> QED
          BY <1>1, <3>2, <4>1, <4>2
      <3> QED
        BY <3>1, <3>2
    <2>3. ASSUME NEW d \in Client, NEW e \in Client, Busy(d)', Busy(e)', job'[d].id = job'[e].id
          PROVE  d = e
      <3>1. job'[c].id = issued + 1
        BY <1>5, <1>8 DEF GoesOn
      <3>2. CASE d # c /\ e # c
        BY <2>2, <2>3, <3>2 DEF IInv, Jobs
      <3>3. CASE d = c \/ e = c
        BY <2>2, <2>3, <3>1, <3>3
      <3> QED
        BY <3>2, <3>3
    <2> QED
      BY <1>8, <2>2, <2>3 DEF Jobs, GoesOn
  <1>10. Rows' /\ Locks' /\ Log' /\ Books'
    <2>1. Rows' /\ Locks'
      BY <1>1 DEF IInv, Rows, Locks
    <2>2. Log'
      BY <1>1 DEF IInv, Log
    <2> QED
      BY <1>1, <2>1, <2>2 DEF IInv, Books
  <1>11. Progress(j)'
    <2>1. /\ \A k \in 1 .. Len(resolutions) : resolutions[k].by # j.id
          /\ \A k \in 1 .. Len(lockfiles) : lockfiles[k].by # j.id
          /\ \A k \in 1 .. Len(changes) : changes[k].by # j.id
      BY <1>1, <1>5 DEF IInv, Rows, Locks, Log
    <2>2. Asking(j)'
      BY <1>3, <1>5, <1>6 DEF Asking, IsRequest
    <2>3. Solving(j)' /\ Numbered(j)' /\ NumberIsNew(j)' /\ NameWasFree(j)' /\ Pinned(j)'
      BY <1>5, <1>6 DEF Solving, Numbered, NumberIsNew, NameWasFree, Pinned
    <2>4. Copying(j)'
      BY <1>5, <1>6 DEF Copying
    <2>5. Storing(j)'
      BY <1>1, <1>6, <2>1 DEF Storing
    <2>6. Recording(j)'
      BY <1>1, <1>6, <2>1 DEF Recording
    <2> QED
      BY <2>2, <2>3, <2>4, <2>5, <2>6 DEF Progress
  <1>12. ASSUME NEW d \in Client, Busy(d)', NEW k \in {job'[d]} PROVE Progress(k)'
    <2>1. CASE d = c
      BY <1>8, <1>11, <2>1 DEF GoesOn
    <2>2. CASE d # c
      <3>1. k = job[d] /\ Busy(d)
        BY <1>8, <1>12, <2>2 DEF GoesOn, Busy
      <3>2. Progress(k) /\ Solving(k)'
        BY <1>1, <3>1 DEF IInv, Progress, Solving
      <3> QED
        BY <1>1, <3>2, SameProgress
    <2> QED
      BY <2>1, <2>2
  <1>13. ASSUME NEW i \in DOMAIN answers', NEW a \in {answers'[i]} PROVE Told(i, a)'
    <2>1. Told(i, a)
      BY <1>1, <1>13 DEF IInv
    <2> QED
      BY <1>1, <2>1, SameTold
  <1> QED
    BY <1>9, <1>10, <1>12, <1>13 DEF IInv

LEMMA RegisterStep ==
    ASSUME IInv, Register
    PROVE  IInv'
  <1>1. /\ catalogue \in Nat /\ catalogue' = catalogue + 1 /\ catalogue' \in 1 .. Len(Answers)
        /\ catalogue \in 1 .. catalogue'
        /\ UNCHANGED <<tables, changes, job, answers, issued, faults>>
    <2>1. catalogue \in 1 .. Len(Answers) /\ Len(Answers) \in Nat
      BY AnswersAssumption DEF IInv, Books
    <2>2. catalogue < Len(Answers) /\ catalogue' = catalogue + 1
      BY DEF Register
    <2>3. UNCHANGED <<tables, changes, job, answers, issued, faults>>
      BY DEF Register
    <2> QED
      BY <2>1, <2>2, <2>3
  <1>2. Jobs' /\ Books'
    BY <1>1 DEF IInv, Jobs, Books, Busy
  <1>3. Rows' /\ Locks' /\ Log'
    <2>1. Rows' /\ Locks'
      BY <1>1 DEF IInv, Rows, Locks, tables
    <2>2. Log'
      BY <1>1 DEF IInv, Log, tables
    <2> QED
      BY <2>1, <2>2
  <1>4. ASSUME NEW c \in Client, Busy(c)', NEW k \in {job'[c]} PROVE Progress(k)'
    <2>1. Progress(k)
      BY <1>1, <1>4 DEF IInv, Busy
    <2>2. Solving(k)'
      <3>1. ASSUME k.pc = "compute" PROVE Answers[catalogue'][k.input].status # "no root"
        <4>1. Answers[catalogue][k.input].status # "no root" /\ k.input \in Inputs
          BY <2>1, <3>1 DEF Progress, Solving, Asking
        <4> QED
          BY <1>1, <4>1, AnswersAssumption
      <3> QED
        BY <2>1, <3>1 DEF Progress, Solving
    <2> QED
      BY <1>1, <2>1, <2>2, SameProgress
  <1>5. ASSUME NEW i \in DOMAIN answers', NEW a \in {answers'[i]} PROVE Told(i, a)'
    <2>1. Told(i, a)
      BY <1>1, <1>5 DEF IInv
    <2> QED
      BY <1>1, <2>1, SameTold
  <1> QED
    BY <1>2, <1>3, <1>4, <1>5 DEF IInv

LEMMA CrashStep ==
    ASSUME IInv, Crash
    PROVE  IInv'
  <1>1. /\ job' = [c \in Client |-> Idle]
        /\ UNCHANGED <<catalogue, tables, changes, answers, issued, faults>>
    BY DEF Crash
  <1>2. \A c \in Client : ~Busy(c)'
    BY <1>1 DEF Busy
  <1>3. Jobs' /\ Books'
    BY <1>1, <1>2 DEF IInv, Jobs, Books
  <1>4. Rows' /\ Locks' /\ Log'
    <2>1. Rows' /\ Locks'
      BY <1>1 DEF IInv, Rows, Locks, tables
    <2>2. Log'
      BY <1>1 DEF IInv, Log, tables
    <2> QED
      BY <2>1, <2>2
  <1>5. ASSUME NEW i \in DOMAIN answers', NEW a \in {answers'[i]} PROVE Told(i, a)'
    <2>1. Told(i, a)
      BY <1>1, <1>5 DEF IInv
    <2> QED
      BY <1>1, <2>1, SameTold
  <1> QED
    BY <1>2, <1>3, <1>4, <1>5 DEF IInv

LEMMA StutterStep ==
    ASSUME IInv, UNCHANGED vars
    PROVE  IInv'
  <1>1. UNCHANGED <<catalogue, tables, changes, job, answers, issued, faults>>
    BY DEF vars
  <1>2. Jobs' /\ Books'
    BY <1>1 DEF IInv, Jobs, Books, Busy
  <1>3. Rows' /\ Locks' /\ Log'
    <2>1. Rows' /\ Locks'
      BY <1>1 DEF IInv, Rows, Locks, tables
    <2>2. Log'
      BY <1>1 DEF IInv, Log, tables
    <2> QED
      BY <2>1, <2>2
  <1>4. ASSUME NEW c \in Client, Busy(c)', NEW k \in {job'[c]} PROVE Progress(k)'
    <2>1. Progress(k) /\ Solving(k)'
      BY <1>1, <1>4 DEF IInv, Busy, Progress, Solving
    <2> QED
      BY <1>1, <2>1, SameProgress
  <1>5. ASSUME NEW i \in DOMAIN answers', NEW a \in {answers'[i]} PROVE Told(i, a)'
    <2>1. Told(i, a)
      BY <1>1, <1>5 DEF IInv
    <2> QED
      BY <1>1, <2>1, SameTold
  <1> QED
    BY <1>2, <1>3, <1>4, <1>5 DEF IInv

LEMMA InitIsIInv == Init => IInv
  <1> SUFFICES ASSUME Init PROVE IInv
    OBVIOUS
  <1>1. PICK seed \in Seeds : /\ catalogue = seed.catalogue
                              /\ resolutions = seed.resolutions
                              /\ lockfiles = seed.lockfiles
    BY DEF Init
  <1>2. /\ changes = <<>> /\ job = [c \in Client |-> Idle] /\ answers = <<>>
        /\ issued = 0 /\ faults = 0
    BY DEF Init
  <1>3. /\ catalogue \in 1 .. Len(Answers)
        /\ Len(resolutions) \in Nat /\ resolutions = [i \in 1 .. Len(resolutions) |-> resolutions[i]]
        /\ Len(lockfiles) \in Nat /\ lockfiles = [i \in 1 .. Len(lockfiles) |-> lockfiles[i]]
        /\ \A i \in 1 .. Len(resolutions) :
              /\ IsRow(resolutions, i) /\ IsFaithful(resolutions, i) /\ OwnRef(resolutions, i)
              /\ resolutions[i].by = 0
        /\ \A i, j \in 1 .. Len(resolutions) : resolutions[i].ref = resolutions[j].ref => i = j
        /\ \A i \in 1 .. Len(lockfiles) : IsLock(resolutions, lockfiles[i]) /\ lockfiles[i].by = 0
        /\ \A i, j \in 1 .. Len(lockfiles) : lockfiles[i].name = lockfiles[j].name => i = j
    BY <1>1, SeedsAssumption
  <1>4. ASSUME NEW t, Len(t) \in Nat, t = [i \in 1 .. Len(t) |-> t[i]] PROVE IsTable(t)
    <2>1. t \in [1 .. Len(t) -> {t[i] : i \in 1 .. Len(t)}]
      BY <1>4
    <2>2. t \in Seq({t[i] : i \in 1 .. Len(t)})
      BY <1>4, <2>1
    <2> QED
      BY <1>4, <2>2 DEF IsTable
  <1>5. Rows
    BY <1>2, <1>3, <1>4 DEF Rows
  <1>6. Locks
    BY <1>2, <1>3, <1>4 DEF Locks
  <1>7. Log /\ Books
    <2>1. <<>> \in Seq({}) /\ Len(<<>>) = 0 /\ DOMAIN <<>> = {}
      OBVIOUS
    <2> QED
      BY <1>2, <1>3, <2>1 DEF Log, Books, IsTable
  <1>8. \A c \in Client : ~Busy(c)
    BY <1>2 DEF Busy
  <1>9. Jobs
    BY <1>2, <1>8 DEF Jobs
  <1>10. \A i \in DOMAIN answers : \A a \in {answers[i]} : Told(i, a)
    BY <1>2
  <1> QED
    BY <1>5, <1>6, <1>7, <1>8, <1>9, <1>10 DEF IInv

THEOREM Inductive == Spec => []IInv
  <1>1. Init => IInv
    BY InitIsIInv
  <1>2. IInv /\ [Next]_vars => IInv'
    <2>1. ASSUME IInv, NEW c \in Client, Serve(c) PROVE IInv'
      <3>1. Busy(c)
        <4>1. Idle.pc \notin {"root", "compute", "next", "save", "load", "items", "rollback", "name",
                              "lock", "pins", "record", "record rerun"}
          BY DEF Idle
        <4> QED
          BY <2>1, <4>1
             DEF Serve, Busy, At, FindRoot, Compute, NextSeq, Save, LoadForRerun, LoadSucceeded,
                 LoadItems, SaveRollback, CheckLockName, SaveLockfile, LoadPins, Record, RecordRerun
      <3> QED
        BY <2>1, <3>1, FindRootStep, ComputeStep, NextSeqStep, SaveStep, LoadForRerunStep,
           LoadSucceededStep, LoadItemsStep, SaveRollbackStep, CheckLockNameStep, SaveLockfileStep,
           LoadPinsStep, RecordStep, RecordRerunStep DEF Serve
    <2> QED
      BY <2>1, StartStep, RegisterStep, CrashStep, StutterStep DEF Next
  <1> QED
    BY <1>1, <1>2, PTL DEF Spec

-----------------------------------------------------------------------------
(* The theorems. *)

\* Every stored resolution is a row of its kind that names an earlier one, and lockfiles,
\* change records and answers name what there is.
THEOREM TypeCorrect == Spec => []TypeOK
  <1>1. IInv => TypeOK
    <2> SUFFICES ASSUME IInv PROVE TypeOK
      OBVIOUS
    <2>1. \A i \in 1 .. Len(resolutions) : IsRow(resolutions, i)
      BY DEF IInv, Rows
    <2>2. \A i \in 1 .. Len(lockfiles) : lockfiles[i].from \in 1 .. Len(resolutions)
      BY DEF IInv, Locks, IsLock
    <2>3. \A i \in 1 .. Len(changes) :
             changes[i].id \in
                1 .. Len(IF changes[i].entity = "lockfile" THEN lockfiles ELSE resolutions)
      BY DEF IInv, Log
    <2>4. catalogue \in 1 .. Len(Answers) /\ DOMAIN answers \subseteq 1 .. issued
      BY DEF IInv, Books
    <2>5. \A i \in DOMAIN answers : answers[i].status \in Statuses
      BY DEF IInv, Told, ToldOfSuccess
    <2> QED
      BY <2>1, <2>2, <2>3, <2>4, <2>5 DEF TypeOK
  <1> QED
    BY <1>1, Inductive, PTL

\* A rerun has the input of its source, a rollback and a lockfile are a copy of a
\* resolution that succeeded: Rollback, RerunResolution and CreateLockfile read a row once
\* and write later, and no other request changes or removes a row in between.
THEOREM FaithfulCopies == Spec => []CopiesAreFaithful
  <1>1. IInv => CopiesAreFaithful
    BY DEF IInv, Rows, Locks, CopiesAreFaithful
  <1> QED
    BY <1>1, Inductive, PTL

\* The check of the name in CreateLockfile and the insert are two steps; of the clients
\* that are told 201, no two have locked under one name.
THEOREM OneLockfile == Spec => []OneLockfilePerName
  <1>1. IInv => OneLockfilePerName
    <2> SUFFICES ASSUME IInv, NEW i \in DOMAIN answers, NEW j \in DOMAIN answers,
                        answers[i].status = 201, answers[j].status = 201,
                        answers[i].req.name = answers[j].req.name,
                        answers[i].req.name # "" \/ answers[i].req.id = answers[j].req.id
                 PROVE  i = j
      BY DEF OneLockfilePerName
    <2>1. ToldOfLock(i, answers[i]) /\ ToldOfLock(j, answers[j])
      BY DEF IInv, Told
    <2>2. PICK k \in 1 .. Len(lockfiles) :
                  lockfiles[k].by = i /\ lockfiles[k].name = NameFor(answers[i].req)
      BY <2>1 DEF ToldOfLock
    <2>3. PICK l \in 1 .. Len(lockfiles) :
                  lockfiles[l].by = j /\ lockfiles[l].name = NameFor(answers[j].req)
      BY <2>1 DEF ToldOfLock
    <2>4. NameFor(answers[i].req) = NameFor(answers[j].req)
      BY DEF NameFor
    <2>5. lockfiles[k].name = lockfiles[l].name
      BY <2>2, <2>3, <2>4
    <2>6. k = l
      BY <2>5 DEF IInv, Locks
    <2> QED
      BY <2>2, <2>3, <2>6
  <1> QED
    BY <1>1, Inductive, PTL

\* While the store works, an internal error is the loss of a race for a request_ref or a
\* lockfile name (or a rollback that was done before), never a request that had no rival.
THEOREM RefusedForATwin == Spec => []RefusalHasATwin
  <1>1. IInv => RefusalHasATwin
    <2>1. ASSUME IInv, NEW i \in DOMAIN answers PROVE ToldOfFailure(i, answers[i])
      BY <2>1 DEF IInv, Told
    <2> QED
      BY <2>1 DEF ToldOfFailure, RefusalHasATwin
  <1> QED
    BY <1>1, Inductive, PTL

\* 200 and 201 are answered exactly when every change record of the request is written.
THEOREM SuccessIsRecorded == Spec => []SuccessMeansRecorded
  <1>1. IInv => SuccessMeansRecorded
    BY DEF IInv, Told, ToldOfSuccess, AllRecorded, SuccessMeansRecorded
  <1> QED
    BY <1>1, Inductive, PTL

\* Names are unique: a name has the pins of the lockfile that has it.
LEMMA PinsOf ==
    ASSUME Locks, NEW k \in 1 .. Len(lockfiles), NEW name, lockfiles[k].name = Chosen(name)
    PROVE  Pins(name) = lockfiles[k].entries
  <1> DEFINE S == {lockfiles[i] : i \in 1 .. Len(lockfiles)}
  <1>1. lockfiles[k] \in S /\ lockfiles[k].name = Chosen(name)
    OBVIOUS
  <1>2. Lockfile(name) \in S /\ Lockfile(name).name = Chosen(name)
    BY <1>1 DEF Lockfile
  <1>3. PICK i \in 1 .. Len(lockfiles) : Lockfile(name) = lockfiles[i]
    BY <1>2
  <1>4. i = k
    BY <1>2, <1>3 DEF Locks
  <1> QED
    BY <1>3, <1>4 DEF Pins

\* What ResolveWithLockfile reports is the drift between the lockfile of that name and the
\* resolution it stored, though the pins were read before the resolution was computed.
THEOREM DriftIsReported == Spec => []VerifyReportsDrift
  <1>1. IInv => VerifyReportsDrift
    <2> SUFFICES ASSUME IInv, NEW i \in DOMAIN answers, Verified(i), faults = 0
                 PROVE  answers[i].report.drift =
                           LET pins == Pins(answers[i].req.name)
                               resolved == resolutions[answers[i].report.saved].items
                           IN  {a \in DOMAIN pins : a \in DOMAIN resolved /\ resolved[a] # pins[a]}
      BY DEF VerifyReportsDrift
    <2>1. PICK a : a = answers[i]
      OBVIOUS
    <2>2. ToldOfDrift(a) /\ a.req.op = "verify" /\ a.status = 200
      BY <2>1 DEF IInv, Told, Verified
    <2>3. PICK k \in 1 .. Len(lockfiles) :
                  /\ lockfiles[k].name = Chosen(a.req.name)
                  /\ a.report.drift =
                        DriftOf(lockfiles[k].entries, resolutions[a.report.saved].items)
      BY <2>2 DEF ToldOfDrift
    <2>4. Pins(a.req.name) = lockfiles[k].entries
      BY <2>3, PinsOf DEF IInv
    <2> QED
      BY <2>1, <2>3, <2>4 DEF DriftOf
  <1> QED
    BY <1>1, Inductive, PTL

=============================================================================
