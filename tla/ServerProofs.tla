---------------------------- MODULE ServerProofs ----------------------------
(***************************************************************************)
(* No process serves over an incomplete schema: for any number of          *)
(* processes and statements, whatever is killed, fails or runs beside it.  *)
(***************************************************************************)
EXTENDS Server, TLAPS

TypeOK ==
    /\ created \subseteq 1 .. Statements
    /\ phase \in [Process -> {"down", "pragmas", "version", "insert", "tables", "opened",
                              "serving", "draining", "closed"}]
    /\ next \in [Process -> Nat \ {0}]

\* The version 1 is in the file only when all statements have been executed.
StampMeansComplete == 1 \in stamps => created = 1 .. Statements

\* A migration has executed the statements before the one it is at.
Executed(p) == \A i \in 1 .. Statements : i < next[p] => i \in created
Prefix == \A p \in Process : phase[p] \in {"insert", "tables"} => Executed(p)

IInv == TypeOK /\ stamps \subseteq {0, 1} /\ StampMeansComplete /\ Prefix /\ ServesOnlyMigrated

LEMMA InitInv == Init => IInv
  BY DEF Init, IInv, TypeOK, StampMeansComplete, Prefix, Executed, ServesOnlyMigrated

\* A step that leaves the file alone, and no process further than it was.
LEMMA Aside ==
    ASSUME IInv, UNCHANGED <<created, stamps, next>>,
           \E p \in Process :
              \E ph \in {"down", "pragmas", "version", "serving", "draining", "closed"} :
                 /\ phase' = [phase EXCEPT ![p] = ph]
                 /\ ph \in {"serving", "draining"} => phase[p] \in {"opened", "serving", "draining"}
    PROVE  IInv'
  BY DEF IInv, TypeOK, StampMeansComplete, Prefix, Executed, ServesOnlyMigrated

LEMMA StepInv == IInv /\ [Next]_vars => IInv'
  <1> SUFFICES ASSUME IInv, [Next]_vars PROVE IInv'
    OBVIOUS
  <1> USE ServerAssumption DEF ServerAssumption
  <1>1. CASE UNCHANGED vars
    BY <1>1 DEF vars, file, IInv, TypeOK, StampMeansComplete, Prefix, Executed, ServesOnlyMigrated
  <1>2. ASSUME NEW p \in Process, Start(p) PROVE IInv'
    BY <1>2, Aside DEF Start, Enter, file
  <1>3. ASSUME NEW p \in Process, Open(p) PROVE IInv'
    <2>1. CASE Pragmas(p)
      BY <2>1, Aside DEF Pragmas, Enter, file
    <2>2. CASE SelectVersion(p)
      <3>1. next' = [next EXCEPT ![p] = 1] /\ UNCHANGED <<created, stamps>>
        BY <2>2 DEF SelectVersion, file
      <3>2. PICK ph \in {"insert", "opened", "tables"} :
              phase' = [phase EXCEPT ![p] = ph] /\ (ph = "opened" => 1 \in stamps)
        BY <2>2 DEF SelectVersion, Enter, IInv
      <3> QED
        BY <3>1, <3>2 DEF IInv, TypeOK, StampMeansComplete, Prefix, Executed, ServesOnlyMigrated
    <2>3. CASE InsertZero(p)
      <3>1. stamps' = stamps \cup {0} /\ created' = created /\ next' = next
        BY <2>3 DEF InsertZero
      <3>2. phase' = [phase EXCEPT ![p] = "tables"]
        BY <2>3 DEF InsertZero, Enter
      <3>3. phase[p] = "insert" /\ Executed(p)
        BY <2>3 DEF InsertZero, IInv, Prefix
      <3>4. TypeOK' /\ StampMeansComplete' /\ ServesOnlyMigrated' /\ stamps' \subseteq {0, 1}
        BY <3>1, <3>2 DEF IInv, TypeOK, StampMeansComplete, ServesOnlyMigrated
      <3>5. \A q \in Process : phase'[q] \in {"insert", "tables"} => phase[q] \in {"insert", "tables"}
        BY <3>2, <3>3 DEF IInv, TypeOK
      <3>6. Prefix'
        BY <3>1, <3>5 DEF IInv, Prefix, Executed
      <3> QED
        BY <3>4, <3>6 DEF IInv
    <2>4. CASE CreateNext(p)
      <3>1. /\ next[p] <= Statements /\ created' = created \cup {next[p]}
            /\ next' = [next EXCEPT ![p] = next[p] + 1] /\ stamps' = stamps /\ phase' = phase
        BY <2>4 DEF CreateNext
      <3>2. TypeOK' /\ created \subseteq created'
        <4>1. next[p] \in Nat \ {0} /\ next[p] + 1 \in Nat \ {0} /\ next[p] \in 1 .. Statements
          BY <3>1 DEF IInv, TypeOK
        <4>2. next' \in [Process -> Nat \ {0}]
          BY <3>1, <4>1 DEF IInv, TypeOK
        <4> QED
          BY <3>1, <4>1, <4>2 DEF IInv, TypeOK
      <3>3. created = 1 .. Statements => created' = 1 .. Statements
        BY <3>2 DEF TypeOK
      <3>4. StampMeansComplete' /\ ServesOnlyMigrated'
        BY <3>1, <3>3 DEF IInv, StampMeansComplete, ServesOnlyMigrated
      <3>5. ASSUME NEW q \in Process, phase'[q] \in {"insert", "tables"} PROVE Executed(q)'
        <4>1. Executed(q) /\ next[q] \in Nat /\ next'[q] \in {next[q], next[q] + 1}
          BY <3>1, <3>5 DEF IInv, TypeOK, Prefix
        <4>2. CASE q = p
          <5>1. next'[q] = next[q] + 1
            BY <3>1, <4>2 DEF IInv, TypeOK
          <5> QED
            BY <3>1, <4>1, <4>2, <5>1 DEF Executed
        <4>3. CASE q # p
          <5>1. next'[q] = next[q]
            BY <3>1, <4>3 DEF IInv, TypeOK
          <5> QED
            BY <3>2, <4>1, <5>1 DEF Executed
        <4> QED
          BY <4>2, <4>3
      <3>6. Prefix'
        BY <3>5 DEF Prefix
      <3> QED
        BY <3>1, <3>2, <3>4, <3>6 DEF IInv
    <2>5. CASE Stamp(p)
      <3>1. /\ phase[p] = "tables" /\ next[p] > Statements /\ stamps' \subseteq {1}
            /\ created' = created /\ next' = next /\ phase' = [phase EXCEPT ![p] = "opened"]
        BY <2>5 DEF Stamp, Enter
      <3>2. Executed(p) /\ next[p] \in Nat /\ created \subseteq 1 .. Statements
        BY <3>1 DEF IInv, TypeOK, Prefix
      <3>3. \A i \in 1 .. Statements : i \in created
        BY <3>1, <3>2 DEF Executed
      <3>4. created = 1 .. Statements
        BY <3>2, <3>3
      <3> QED
        BY <3>1, <3>4 DEF IInv, TypeOK, StampMeansComplete, Prefix, Executed, ServesOnlyMigrated
    <2> QED
      BY <1>3, <2>1, <2>2, <2>3, <2>4, <2>5 DEF Open
  <1>4. ASSUME NEW p \in Process, Fatal(p) PROVE IInv'
    BY <1>4, Aside DEF Fatal, Gone, Enter, file
  <1>5. ASSUME NEW p \in Process, Listen(p) PROVE IInv'
    BY <1>5, Aside DEF Listen, Gone, Enter, file
  <1>6. ASSUME NEW p \in Process, Signal(p) PROVE IInv'
    BY <1>6, Aside DEF Signal, Enter, file
  <1>7. ASSUME NEW p \in Process, Stop(p) PROVE IInv'
    <2>1. CASE Timeout(p)
      BY <2>1 DEF Timeout, file, IInv, TypeOK, StampMeansComplete, Prefix, Executed, ServesOnlyMigrated
    <2>2. CASE Close(p)
      BY <2>2, Aside DEF Close, Enter, file
    <2>3. CASE Exit(p)
      BY <2>3, Aside DEF Exit, Gone, Enter, file
    <2> QED
      BY <1>7, <2>1, <2>2, <2>3 DEF Stop
  <1>8. ASSUME NEW p \in Process, Kill(p) PROVE IInv'
    BY <1>8, Aside DEF Kill, Gone, Enter, file
  <1>9. ASSUME NEW r \in Request, Accept(r) \/ Handle(r) PROVE IInv'
    <2>1. UNCHANGED <<created, stamps, phase, next>>
      BY <1>9 DEF Accept, Handle, Acquire, Release, CallFails, Reply, file
    <2> QED
      BY <2>1 DEF IInv, TypeOK, StampMeansComplete, Prefix, Executed, ServesOnlyMigrated
  <1> QED
    BY <1>1, <1>2, <1>3, <1>4, <1>5, <1>6, <1>7, <1>8, <1>9 DEF Next, Ended

\* However a migration is interrupted, repeated or run twice at once, a process that serves
\* has all tables under it.
THEOREM Migrated == Spec => []ServesOnlyMigrated
  <1>1. IInv => ServesOnlyMigrated
    BY DEF IInv
  <1> QED
    BY <1>1, InitInv, StepInv, PTL DEF Spec

\* The file says version 1 only when the schema is complete.
THEOREM Stamped == Spec => []StampMeansComplete
  <1>1. IInv => StampMeansComplete
    BY DEF IInv
  <1> QED
    BY <1>1, InitInv, StepInv, PTL DEF Spec

-----------------------------------------------------------------------------
(* Requests. *)

\* A request that has not been cut off is unsent, at its end, or with a process.
Job == [at : {"unsent", "answered", "killed", "late"}]
          \cup [at : {"waiting", "holding", "replying"}, on : Process, calls : Nat]

JobTypes ==
    /\ phase \in [Process -> {"down", "pragmas", "version", "insert", "tables", "opened",
                              "serving", "draining", "closed"}]
    /\ late \in [Process -> BOOLEAN]
    /\ holder \in [Process -> SUBSET Request]
    /\ job \in [Request -> Job]
    /\ \A r \in Request : job[r].at \in {"waiting", "holding"} => job[r].calls # 0

Busy(r) == job[r].at \in {"waiting", "holding", "replying"}

\* A process with requests serves them, and closes the store under them only out of time.
Attended ==
    \A r \in Request : Busy(r) =>
        /\ phase[job[r].on] \in {"serving", "draining", "closed"}
        /\ phase[job[r].on] = "closed" => late[job[r].on]

\* The connection of a process is with the request that holds it, and with no other.
OneConnection ==
    \A p \in Process :
        /\ \A r \in Request : r \in holder[p] <=> job[r].at = "holding" /\ job[r].on = p
        /\ \A r, s \in holder[p] : r = s

JInv == JobTypes /\ Attended /\ OneConnection

LEMMA InitJobs == Init => JInv
  BY DEF Init, JInv, JobTypes, Job, Attended, OneConnection, Busy, Unsent

LEMMA JobCases ==
    ASSUME JobTypes, NEW r \in Request
    PROVE  IF Busy(r) THEN /\ job[r] \in [at : {"waiting", "holding", "replying"},
                                           on : Process, calls : Nat]
                           /\ job[r] = [at |-> job[r].at, on |-> job[r].on, calls |-> job[r].calls]
           ELSE job[r] \in [at : {"unsent", "answered", "killed", "late"}]
  BY DEF JobTypes, Job, Busy

\* A process that ends takes its requests with it, and its connection.
LEMMA GoneKeeps ==
    ASSUME JInv, NEW p \in Process, NEW end \in {"killed", "late"}, Gone(p, end), UNCHANGED late
    PROVE  JInv'
  <1>1. /\ phase' = [phase EXCEPT ![p] = "down"]
        /\ holder' = [holder EXCEPT ![p] = {}]
        /\ \A r \in Request : job'[r] = IF Busy(r) /\ job[r].on = p THEN [at |-> end] ELSE job[r]
    BY DEF Gone, Enter, Served, Busy
  <1>2. ASSUME NEW r \in Request PROVE job'[r] \in Job
    BY <1>1, JobCases DEF JInv, JobTypes, Job
  <1>3. job' \in [Request -> Job]
    BY <1>2 DEF Gone
  <1>4. \A r \in Request : /\ Busy(r)' => Busy(r) /\ job[r].on # p
                           /\ (Busy(r) /\ job[r].on # p => job'[r] = job[r])
                           /\ ~Busy(r) => job'[r] = job[r]
    BY <1>1 DEF Busy
  <1>5. \A r \in Request : Busy(r) => job[r].on \in Process
    BY JobCases DEF JInv
  <1>6. JobTypes'
    BY <1>1, <1>3, <1>4 DEF JInv, JobTypes, Busy
  <1>7. Attended'
    BY <1>1, <1>4, <1>5 DEF JInv, JobTypes, Attended, Busy
  <1>8. OneConnection'
    BY <1>1, <1>4, <1>5 DEF JInv, JobTypes, OneConnection, Busy
  <1> QED
    BY <1>6, <1>7, <1>8 DEF JInv

\* A process that goes on keeps its requests, if it still serves them.
LEMMA EnterKeeps ==
    ASSUME JInv, NEW p \in Process, UNCHANGED <<holder, job>>,
           NEW ph \in {"pragmas", "version", "insert", "tables", "opened", "serving", "draining",
                       "closed"},
           phase' = [phase EXCEPT ![p] = ph],
           late' = late \/ (phase[p] = "down" /\ late' = [late EXCEPT ![p] = FALSE]),
           phase[p] \in {"serving", "draining", "closed"} => ph \in {"draining", "closed"},
           ph = "closed" => Served(p) = {} \/ late[p]
    PROVE  JInv'
  <1>1. \A r \in Request : Busy(r) => job[r].on \in Process
    BY JobCases DEF JInv
  <1>2. JobTypes'
    BY DEF JInv, JobTypes
  <1>3. Attended'
    BY <1>1 DEF JInv, JobTypes, Attended, Busy, Served
  <1>4. OneConnection'
    BY DEF JInv, OneConnection
  <1> QED
    BY <1>2, <1>3, <1>4 DEF JInv

LEMMA ProcessKeepsJobs ==
    ASSUME JInv, NEW p \in Process,
           Start(p) \/ Open(p) \/ Fatal(p) \/ Listen(p) \/ Signal(p) \/ Stop(p) \/ Kill(p)
    PROVE  JInv'
  <1>1. CASE Start(p)
    BY <1>1, EnterKeeps DEF Start, Enter
  <1>2. CASE Open(p)
    <2>1. CASE Pragmas(p)
      BY <2>1, EnterKeeps DEF Pragmas, Enter, Migrating
    <2>2. CASE SelectVersion(p)
      <3>1. PICK ph \in {"insert", "opened", "tables"} : phase' = [phase EXCEPT ![p] = ph]
        BY <2>2 DEF SelectVersion, Enter
      <3> QED
        BY <2>2, <3>1, EnterKeeps DEF SelectVersion, Migrating
    <2>3. CASE InsertZero(p)
      BY <2>3, EnterKeeps DEF InsertZero, Enter, Migrating
    <2>4. CASE CreateNext(p)
      BY <2>4 DEF CreateNext, Migrating, JInv, JobTypes, Attended, OneConnection, Busy
    <2>5. CASE Stamp(p)
      BY <2>5, EnterKeeps DEF Stamp, Enter, Migrating
    <2> QED
      BY <1>2, <2>1, <2>2, <2>3, <2>4, <2>5 DEF Open
  <1>3. CASE Fatal(p)
    BY <1>3, GoneKeeps DEF Fatal
  <1>4. CASE Listen(p)
    <2>1. CASE Gone(p, "killed")
      BY <1>4, <2>1, GoneKeeps DEF Listen
    <2>2. CASE Enter(p, "serving") /\ UNCHANGED <<holder, job>>
      BY <1>4, <2>2, EnterKeeps DEF Listen, Enter
    <2> QED
      BY <1>4, <2>1, <2>2 DEF Listen
  <1>5. CASE Signal(p)
    BY <1>5, EnterKeeps DEF Signal, Enter
  <1>6. CASE Stop(p)
    <2>1. CASE Timeout(p)
      BY <2>1, JobCases DEF Timeout, JInv, JobTypes, Attended, OneConnection, Busy
    <2>2. CASE Close(p)
      BY <2>2, EnterKeeps DEF Close, Enter
    <2>3. CASE Exit(p)
      <3>1. CASE late[p]
        BY <2>3, <3>1, GoneKeeps DEF Exit
      <3>2. CASE ~late[p]
        <4>1. Served(p) = {}
          BY <2>3, <3>2 DEF Exit, JInv, Attended, Busy, Served
        <4>2. Gone(p, "late")
          BY <2>3, <3>2, <4>1 DEF Exit, Gone
        <4> QED
          BY <2>3, <4>2, GoneKeeps DEF Exit
      <3> QED
        BY <3>1, <3>2
    <2> QED
      BY <1>6, <2>1, <2>2, <2>3 DEF Stop
  <1>7. CASE Kill(p)
    BY <1>7, GoneKeeps DEF Kill
  <1> QED
    BY <1>1, <1>2, <1>3, <1>4, <1>5, <1>6, <1>7

\* A step of one request, in the same process.
LEMMA JobStep ==
    ASSUME JInv, UNCHANGED <<phase, late>>, NEW r \in Request, NEW j \in Job,
           job' = [job EXCEPT ![r] = j],
           j.at \in {"waiting", "holding"} => j.calls # 0,
           j.at \in {"waiting", "holding", "replying"} =>
              /\ phase[j.on] \in {"serving", "draining", "closed"}
              /\ phase[j.on] = "closed" => late[j.on],
           OneConnection', holder' \in [Process -> SUBSET Request]
    PROVE  JInv'
  <1>1. JobTypes'
    BY DEF JInv, JobTypes
  <1>2. Attended'
    BY DEF JInv, JobTypes, Attended, Busy
  <1> QED
    BY <1>1, <1>2 DEF JInv

LEMMA RequestKeepsJobs ==
    ASSUME JInv, NEW r \in Request, Accept(r) \/ Handle(r)
    PROVE  JInv'
  <1> USE DEF JInv, JobTypes
  <1>1. CASE Accept(r)
    <2>1. PICK p \in Process, n \in 0 .. Calls :
            /\ phase[p] = "serving"
            /\ job' = [job EXCEPT ![r] =
                         [at |-> IF n = 0 THEN "replying" ELSE "waiting", on |-> p, calls |-> n]]
      BY <1>1 DEF Accept
    <2>2. PICK j : j = [at |-> IF n = 0 THEN "replying" ELSE "waiting", on |-> p, calls |-> n]
      OBVIOUS
    <2>3. n \in Nat
      BY ServerAssumption
    <2>4. /\ j \in Job /\ j.on = p /\ j.calls = n /\ j.at \in {"replying", "waiting"}
          /\ j.at = "waiting" => n # 0
      BY <2>2, <2>3 DEF Job
    <2>5. UNCHANGED <<phase, late, holder>> /\ job[r].at = "unsent"
      BY <1>1 DEF Accept, Unsent
    <2>6. OneConnection'
      BY <2>1, <2>2, <2>4, <2>5 DEF OneConnection
    <2> QED
      BY <2>1, <2>2, <2>4, <2>5, <2>6, JobStep
  <1>2. CASE Acquire(r)
    <2>1. PICK p : p = job[r].on
      OBVIOUS
    <2>2. /\ job[r] = [at |-> "waiting", on |-> p, calls |-> job[r].calls]
          /\ p \in Process /\ job[r].calls \in Nat \ {0}
      BY <1>2, <2>1, JobCases DEF Acquire, Busy
    <2>3. PICK j : j = [at |-> "holding", on |-> p, calls |-> job[r].calls]
      OBVIOUS
    <2>4. job' = [job EXCEPT ![r] = j]
      <3>1. [job[r] EXCEPT !.at = "holding"] = j
        BY <2>2, <2>3
      <3> QED
        BY <1>2, <3>1 DEF Acquire
    <2>5. j \in Job /\ j.on = p /\ j.at = "holding" /\ j.calls # 0
      BY <2>2, <2>3 DEF Job
    <2>6. holder' = [holder EXCEPT ![p] = {r}] /\ holder[p] = {} /\ UNCHANGED <<phase, late>>
      BY <1>2, <2>1 DEF Acquire
    <2>7. OneConnection'
      BY <2>2, <2>4, <2>5, <2>6 DEF OneConnection
    <2>8. /\ phase[p] \in {"serving", "draining", "closed"}
          /\ phase[p] = "closed" => late[p]
      BY <2>1, <2>2 DEF Attended, Busy
    <2> QED
      BY <2>2, <2>4, <2>5, <2>6, <2>7, <2>8, JobStep
  <1>3. CASE Release(r)
    <2>1. PICK p : p = job[r].on
      OBVIOUS
    <2>2. PICK n : n = job[r].calls
      OBVIOUS
    <2>3. /\ job[r] = [at |-> "holding", on |-> p, calls |-> n]
          /\ p \in Process /\ n \in Nat \ {0}
      BY <1>3, <2>1, <2>2, JobCases DEF Release, Busy
    <2>4. PICK j : j = [at |-> IF n = 1 THEN "replying" ELSE "waiting", on |-> p, calls |-> n - 1]
      OBVIOUS
    <2>5. job' = [job EXCEPT ![r] = j]
      BY <1>3, <2>3, <2>4 DEF Release
    <2>6. /\ j \in Job /\ j.on = p /\ j.at \in {"replying", "waiting"}
          /\ j.at = "waiting" => j.calls # 0
      BY <2>3, <2>4 DEF Job
    <2>7. holder' = [holder EXCEPT ![p] = {}] /\ UNCHANGED <<phase, late>>
      BY <1>3, <2>1 DEF Release
    <2>8. r \in holder[p]
      BY <2>3 DEF OneConnection
    <2>9. OneConnection'
      <3>1. holder[p] = {r}
        BY <2>3, <2>8 DEF OneConnection
      <3>2. \A q \in Request : job'[q] = IF q = r THEN j ELSE job[q]
        BY <2>5
      <3>3. \A q \in Process : holder'[q] = IF q = p THEN {} ELSE holder[q]
        BY <2>7
      <3> QED
        BY <2>3, <2>6, <3>1, <3>2, <3>3 DEF OneConnection
    <2>10. /\ phase[p] \in {"serving", "draining", "closed"}
           /\ phase[p] = "closed" => late[p]
      BY <1>3, <2>1 DEF Release, Attended, Busy
    <2> QED
      BY <2>3, <2>5, <2>6, <2>7, <2>9, <2>10, JobStep
  <1>4. CASE CallFails(r)
    <2>1. late[job[r].on] /\ job[r].at = "waiting"
      BY <1>4 DEF CallFails, Attended, Busy
    <2>2. job' = [job EXCEPT ![r] = [at |-> "late"]] /\ UNCHANGED <<phase, late, holder>>
      BY <1>4, <2>1 DEF CallFails
    <2>3. [at |-> "late"] \in Job
      BY DEF Job
    <2>4. OneConnection'
      BY <2>1, <2>2 DEF OneConnection
    <2> QED
      BY <2>2, <2>3, <2>4, JobStep
  <1>5. CASE Reply(r)
    <2>1. /\ job' = [job EXCEPT ![r] = [at |-> "answered"]] /\ UNCHANGED <<phase, late, holder>>
          /\ job[r].at = "replying"
      BY <1>5 DEF Reply
    <2>2. [at |-> "answered"] \in Job
      BY DEF Job
    <2>3. OneConnection'
      BY <2>1 DEF OneConnection
    <2> QED
      BY <2>1, <2>2, <2>3, JobStep
  <1> QED
    BY <1>1, <1>2, <1>3, <1>4, <1>5 DEF Handle

LEMMA StepJobs == JInv /\ [Next]_vars => JInv'
  <1>1. JInv /\ UNCHANGED vars => JInv'
    BY DEF vars, JInv, JobTypes, Attended, OneConnection, Busy
  <1> QED
    BY <1>1, ProcessKeepsJobs, RequestKeepsJobs DEF Next, Ended

\* No request is cut off or refused by a closed store before the five seconds are over, for
\* any number of processes, requests and calls.
THEOREM NotCutShort == Spec => []NothingIsCutShort
  <1>1. JInv => NothingIsCutShort
    BY DEF JInv, JobTypes, Job, NothingIsCutShort
  <1> QED
    BY <1>1, InitJobs, StepJobs, PTL DEF Spec

\* No two requests of a process are in a store call at once.
THEOREM Serialized == Spec => []OneConnection
  <1>1. JInv => OneConnection
    BY DEF JInv
  <1> QED
    BY <1>1, InitJobs, StepJobs, PTL DEF Spec
=============================================================================
