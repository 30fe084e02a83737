--------------------------- MODULE RegistryProofs ---------------------------
(***************************************************************************)
(* What the write side of the catalogue keeps, for any number of clients,  *)
(* requests, failing store calls and crashes, in any interleaving.         *)
(***************************************************************************)
EXTENDS Registry, TLAPS

Creates(r) == r.op # "dependencies"
Busy(c) == job[c] # Idle

\* The handler of c has a transaction open.
InTxn(c) == job[c].pc \in {"delete", "rows"}

\* A request in progress; every client has its own, unanswered so far.
IsJob(j) ==
    /\ j.pc # "idle"
    /\ j = [pc |-> j.pc, id |-> j.id, req |-> j.req, next |-> j.next, before |-> j.before,
            after |-> j.after]
    /\ j.req \in Requests
    /\ j.next \in Nat \ {0}

Jobs ==
    /\ DOMAIN job = Client
    /\ \A c \in Client : Busy(c) => /\ IsJob(job[c])
                                    /\ job[c].id \in (1 .. issued) \ DOMAIN answers
    /\ \A c, d \in Client : Busy(c) /\ Busy(d) /\ job[c].id = job[d].id => c = d

Books ==
    /\ issued \in Nat /\ faults \in Nat
    /\ \E S : changes \in Seq(S)
    /\ Recorded \subseteq DOMAIN answers
    /\ DOMAIN answers \subseteq 1 .. issued
    /\ \A i \in DOMAIN answers : answers[i].req \in Requests
    /\ wrote \subseteq 1 .. issued
    /\ deps = [v \in versions |-> deps[v]] /\ asked = [v \in versions |-> asked[v]]

\* The first n inputs of a PUT are checked: their targets exist and differ.
Checked(r, n) ==
    /\ \A i \in 1 .. n : r.inputs[i][1] \in artifacts
    /\ \A h, i \in 1 .. n : r.inputs[h][1] = r.inputs[i][1] => h = i

\* What a handler has done is known from where it is.
Progress(j) ==
    /\ j.pc \in {"lookup", "version", "before", "delete"} => j.next = 1
    /\ j.pc \in {"before", "inputs", "delete", "rows"} => Entity(j.req) \in versions
    /\ j.pc = "inputs" => Checked(j.req, j.next - 1)
    /\ j.pc \in {"delete", "rows"} => Checked(j.req, Len(j.req.inputs))
    /\ j.pc = "rows" => deps[Entity(j.req)] = {j.req.inputs[i] : i \in 1 .. j.next - 1}
    /\ j.pc = "readback" => Creates(j.req)
    /\ j.pc \notin {"readback", "record", "after"} => j.id \notin wrote

\* One transaction is open at a time.  It has touched the rows of its own version only,
\* and what it would roll back to is what the last PUTs asked for.
Transaction ==
    /\ Free => deps = asked /\ \A c \in Client : ~InTxn(c)
    /\ ~Free => undo = {asked}
    /\ \A c, d \in Client : InTxn(c) /\ InTxn(d) => c = d
    /\ \A c \in Client : InTxn(c) =>
          \A v \in versions : v # Entity(job[c].req) => deps[v] = asked[v]

\* Request i has inserted what r names: it was told so, or is about to be.
Claim(i, r) ==
    \/ i \in DOMAIN answers /\ answers[i].status = 201 /\ r = answers[i].req
    \/ \E c \in Client : /\ job[c].pc \in {"readback", "record"} /\ Creates(r)
                         /\ i = job[c].id /\ r = job[c].req

Inserted(r) == IF r.op = "artifact" THEN r.name \in artifacts ELSE Entity(r) \in versions

Claims ==
    /\ \A i \in 1 .. issued, r \in Requests : Claim(i, r) => Creates(r) /\ Inserted(r)
    /\ \A i, j \in 1 .. issued, r, s \in Requests :
          Claim(i, r) /\ Claim(j, s) /\ Entity(r) = Entity(s) => i = j

IInv ==
    /\ Jobs /\ Books /\ Claims /\ Transaction
    /\ \A c \in Client : Busy(c) => Progress(job[c])
    /\ SuccessMeansRecorded /\ RefusalChangesNothing /\ PutChecksHold

-----------------------------------------------------------------------------
(* Lemmas. *)

\* Requests that create the same entity are of the same kind.
LEMMA EntityKind ==
    ASSUME NEW r \in Requests, NEW s \in Requests, Creates(r), Creates(s), Entity(r) = Entity(s)
    PROVE  Inserted(r) <=> Inserted(s)
  <1>1. CASE r.op = "artifact" /\ s.op = "artifact"
    BY <1>1 DEF Entity, Inserted
  <1>2. CASE r.op # "artifact" /\ s.op # "artifact"
    BY <1>2 DEF Entity, Inserted
  <1>3. ASSUME NEW a, NEW b, NEW c PROVE <<a>> # <<b, c>>
    OBVIOUS
  <1>4. ~(r.op = "artifact" /\ s.op # "artifact") /\ ~(r.op # "artifact" /\ s.op = "artifact")
    BY <1>3 DEF Entity
  <1> QED
    BY <1>1, <1>2, <1>4

\* A change record more.
LEMMA RecordedGrows ==
    ASSUME NEW S, changes \in Seq(S), NEW e, changes' = Append(changes, e)
    PROVE  Recorded' = Recorded \cup {e.by} /\ changes' \in Seq(S \cup {e})
  <1>1. /\ Len(changes') = Len(changes) + 1 /\ Len(changes) \in Nat
        /\ changes'[Len(changes) + 1] = e
        /\ \A i \in 1 .. Len(changes) : changes'[i] = changes[i]
    OBVIOUS
  <1>2. ASSUME NEW i \in 1 .. Len(changes') PROVE changes'[i].by \in Recorded \cup {e.by}
    <2>1. CASE i = Len(changes) + 1
      BY <1>1, <2>1
    <2>2. CASE i \in 1 .. Len(changes)
      BY <1>1, <2>2 DEF Recorded
    <2> QED
      BY <1>1, <2>1, <2>2
  <1>3. ASSUME NEW i \in 1 .. Len(changes) PROVE changes[i].by \in Recorded'
    BY <1>1 DEF Recorded
  <1>4. e.by \in Recorded'
    BY <1>1 DEF Recorded
  <1>5. changes' \in Seq(S \cup {e})
    OBVIOUS
  <1> QED
    BY <1>2, <1>3, <1>4, <1>5 DEF Recorded

\* No new claim: the old ones stay as they were.
LEMMA ClaimsKept ==
    ASSUME Claims, issued \in Nat, artifacts \subseteq artifacts', versions \subseteq versions',
           \A i \in 1 .. issued', r \in Requests : Claim(i, r)' => i \in 1 .. issued /\ Claim(i, r)
    PROVE  Claims'
  <1>1. \A r \in Requests : Inserted(r) => Inserted(r)'
    BY DEF Inserted, Entity
  <1> QED
    BY <1>1 DEF Claims, Creates, Entity

\* One new claim, on what was not there.
LEMMA ClaimAdded ==
    ASSUME Claims, issued \in Nat, issued' = issued,
           artifacts \subseteq artifacts', versions \subseteq versions',
           NEW n \in 1 .. issued, NEW q \in Requests, Creates(q), ~Inserted(q), Inserted(q)',
           \A i \in 1 .. issued, r \in Requests : Claim(i, r)' => Claim(i, r) \/ (i = n /\ r = q)
    PROVE  Claims'
  <1>1. \A r \in Requests : Inserted(r) => Inserted(r)'
    BY DEF Inserted, Entity
  <1>2. ASSUME NEW i \in 1 .. issued, NEW r \in Requests, Claim(i, r) PROVE Entity(r) # Entity(q)
    BY <1>2, EntityKind DEF Claims
  <1>3. \A i \in 1 .. issued', r \in Requests : Claim(i, r)' => Creates(r)' /\ Inserted(r)'
    BY <1>1 DEF Claims, Creates
  <1>4. ASSUME NEW i \in 1 .. issued, NEW j \in 1 .. issued, NEW r \in Requests, NEW s \in Requests,
               Claim(i, r)', Claim(j, s)', Entity(r) = Entity(s)
        PROVE  i = j
    BY <1>2, <1>4 DEF Claims
  <1> QED
    BY <1>3, <1>4 DEF Claims, Entity

\* A rollback, or a crash, restores what the last PUTs asked for.
LEMMA Restored == ASSUME IInv PROVE Committed = asked
  <1>1. CASE Free
    BY <1>1 DEF IInv, Transaction, Committed
  <1>2. CASE ~Free
    <2>1. undo = {asked}
      BY <1>2 DEF IInv, Transaction
    <2> QED
      BY <1>2, <2>1 DEF Committed
  <1> QED
    BY <1>1, <1>2

\* A handler that stays where it is has done what it had done.
LEMMA ProgressKept ==
    ASSUME NEW d \in Client, job'[d] = job[d], Progress(job[d]),
           artifacts \subseteq artifacts', versions \subseteq versions', InTxn(d) => deps' = deps,
           job[d].id \in wrote' => job[d].id \in wrote
    PROVE  Progress(job[d])'
  <1> DEFINE j == job[d]
             e == Entity(j.req)
             n == Len(j.req.inputs)
             done == {j.req.inputs[i] : i \in 1 .. j.next - 1}
  <1>1. /\ j.pc \in {"lookup", "version", "before", "delete"} => j.next = 1
        /\ j.pc \in {"before", "inputs", "delete", "rows"} => e \in versions
        /\ j.pc = "inputs" => Checked(j.req, j.next - 1)
        /\ j.pc \in {"delete", "rows"} => Checked(j.req, n)
        /\ j.pc = "rows" => deps[e] = done
        /\ j.pc = "readback" => Creates(j.req)
        /\ j.pc \notin {"readback", "record", "after"} => j.id \notin wrote
    BY DEF Progress
  <1>2. /\ Entity(job[d].req)' = e
        /\ {job[d].req.inputs[i] : i \in 1 .. job[d].next - 1}' = done
        /\ Creates(job[d].req)' = Creates(j.req)
    BY DEF Entity, Creates
  <1>3. /\ Checked(j.req, j.next - 1) => Checked(job[d].req, job[d].next - 1)'
        /\ Checked(j.req, n) => Checked(job[d].req, Len(job[d].req.inputs))'
    BY DEF Checked
  <1>4. j.pc = "rows" => deps'[e] = deps[e]
    BY DEF InTxn
  <1> HIDE DEF e, n, done
  <1> QED
    BY <1>1, <1>2, <1>3, <1>4 DEF Progress

-----------------------------------------------------------------------------
(* Steps that leave the tables alone. *)

\* The handler of c goes on with its request.
GoesOn(c) ==
    /\ DOMAIN job' = Client
    /\ IsJob(job'[c]) /\ job'[c].id = job[c].id /\ job'[c].req = job[c].req
    /\ \A d \in Client \ {c} : job'[d] = job[d]

LEMMA NotIdle == ASSUME NEW j, IsJob(j) PROVE j # Idle
  BY DEF IsJob, Idle

LEMMA Goes ==
    ASSUME Jobs, NEW c \in Client, Busy(c), NEW pc, pc # "idle",
           \/ job' = [job EXCEPT ![c].pc = pc]
           \/ \E rows : job' = [job EXCEPT ![c]["before"] = rows, ![c].pc = pc]
           \/ \E rows : job' = [job EXCEPT ![c]["after"] = rows, ![c].pc = pc]
    PROVE  GoesOn(c) /\ job'[c].pc = pc /\ job'[c].next = job[c].next
  <1> DEFINE j == job[c]
  <1>1. IsJob(j) /\ DOMAIN job = Client
    BY DEF Jobs
  <1>2. DOMAIN job' = Client /\ \A d \in Client \ {c} : job'[d] = job[d]
    BY <1>1
  <1>3. \E b, a : job'[c] = [pc |-> pc, id |-> j.id, req |-> j.req, next |-> j.next,
                            before |-> b, after |-> a]
    <2>1. CASE job' = [job EXCEPT ![c].pc = pc]
      BY <1>1, <2>1 DEF IsJob
    <2>2. CASE \E rows : job' = [job EXCEPT ![c]["before"] = rows, ![c].pc = pc]
      <3>1. PICK rows : job' = [job EXCEPT ![c]["before"] = rows, ![c].pc = pc]
        BY <2>2
      <3>2. job'[c] = [pc |-> pc, id |-> j.id, req |-> j.req, next |-> j.next,
                       before |-> rows, after |-> j.after]
        BY <1>1, <3>1 DEF IsJob
      <3> QED
        BY <3>2
    <2>3. CASE \E rows : job' = [job EXCEPT ![c]["after"] = rows, ![c].pc = pc]
      <3>1. PICK rows : job' = [job EXCEPT ![c]["after"] = rows, ![c].pc = pc]
        BY <2>3
      <3>2. job'[c] = [pc |-> pc, id |-> j.id, req |-> j.req, next |-> j.next,
                       before |-> j.before, after |-> rows]
        BY <1>1, <3>1 DEF IsJob
      <3> QED
        BY <3>2
    <2> QED
      BY <2>1, <2>2, <2>3
  <1> QED
    BY <1>1, <1>2, <1>3 DEF GoesOn, IsJob

LEMMA Continue ==
    ASSUME IInv, NEW c \in Client, Busy(c), GoesOn(c),
           UNCHANGED <<tables, changes, history, issued>>,
           faults' \in Nat, faults <= faults', Progress(job[c])',
           job'[c].pc \in {"readback", "record"} /\ Creates(job[c].req) => job[c].pc = "readback",
           ~InTxn(c), ~InTxn(c)'
    PROVE  IInv'
  <1> USE DEF tables, history
  <1>1. Books' /\ SuccessMeansRecorded' /\ RefusalChangesNothing'
    BY DEF IInv, Books, SuccessMeansRecorded, RefusalChangesNothing, Recorded
  <1>2. PutChecksHold'
    BY DEF IInv, Books, PutChecksHold
  <1>3. Jobs'
    BY NotIdle DEF IInv, Jobs, GoesOn, Busy
  <1>4. ASSUME NEW d \in Client, Busy(d)' PROVE Progress(job[d])'
    <2>1. CASE d = c
      BY <2>1
    <2>2. CASE d # c
      BY <1>4, <2>2, ProgressKept DEF IInv, GoesOn, Busy
    <2> QED
      BY <2>1, <2>2
  <1>5. \A i \in 1 .. issued', r \in Requests : Claim(i, r)' => i \in 1 .. issued /\ Claim(i, r)
    BY DEF Claim, GoesOn, Creates
  <1>6. Claims'
    BY <1>5, ClaimsKept DEF IInv, Books
  <1>7. Transaction'
    BY DEF IInv, Transaction, Free, InTxn, GoesOn, Entity
  <1> QED
    BY <1>1, <1>2, <1>3, <1>4, <1>6, <1>7 DEF IInv

\* An answer; a transaction still open is rolled back.
LEMMA End ==
    ASSUME IInv, NEW c \in Client, Busy(c), NEW status, Answer(c, status),
           UNCHANGED <<artifacts, versions, issued>>, faults' \in Nat, faults <= faults',
           \/ ~InTxn(c) /\ UNCHANGED <<deps, undo>>
           \/ InTxn(c) /\ deps' = Committed /\ undo' = {},
           \/ changes' = changes /\ status \notin {200, 201}
           \/ /\ \E e : changes' = Append(changes, e) /\ e.by = job[c].id
              /\ status \in {200, 201}
              /\ job[c].pc = "record" /\ (status = 201 => Creates(job[c].req)),
           status \in {400, 404, 409, 422} => job[c].id \notin wrote,
           job[c].req.op = "dependencies" /\ status = 500 => faults' > 0
    PROVE  IInv'
  <1> DEFINE n == job[c].id
             q == job[c].req
  <1>1. /\ n \in (1 .. issued) \ DOMAIN answers /\ q \in Requests /\ IsJob(job[c])
        /\ DOMAIN job = Client
    BY DEF IInv, Jobs, IsJob
  <1>2. /\ DOMAIN answers' = DOMAIN answers \cup {n}
        /\ answers'[n] = [req |-> q, status |-> status]
        /\ \A i \in DOMAIN answers : answers'[i] = answers[i]
    <2>1. answers' = With(answers, n, [req |-> q, status |-> status]) /\ n \notin DOMAIN answers
      BY <1>1 DEF Answer
    <2> HIDE DEF n, q
    <2> QED
      BY <2>1 DEF With
  <1>3. /\ DOMAIN job' = Client /\ job'[c] = Idle /\ \A d \in Client \ {c} : job'[d] = job[d]
        /\ wrote' = wrote /\ asked' = asked
    BY <1>1 DEF Answer
  <1>4. /\ Recorded' = IF status \in {200, 201} THEN Recorded \cup {n} ELSE Recorded
        /\ \E S : changes' \in Seq(S)
    <2>1. PICK S : changes \in Seq(S)
      BY DEF IInv, Books
    <2>2. CASE changes' = changes /\ status \notin {200, 201}
      BY <2>1, <2>2 DEF Recorded
    <2>3. CASE status \in {200, 201}
      <3>1. PICK e : changes' = Append(changes, e) /\ e.by = n
        BY <2>3
      <3>2. Recorded' = Recorded \cup {e.by} /\ changes' \in Seq(S \cup {e})
        BY <2>1, <3>1, RecordedGrows
      <3> QED
        BY <2>3, <3>1, <3>2
    <2> QED
      BY <2>2, <2>3
  <1>5. Jobs'
    <2>1. ASSUME NEW d \in Client, Busy(d)'
          PROVE  d # c /\ Busy(d) /\ job'[d] = job[d]
      BY <1>3, <2>1 DEF Busy
    <2>2. ASSUME NEW d \in Client, Busy(d)' PROVE job'[d].id \in (1 .. issued') \ DOMAIN answers'
      BY <1>1, <1>2, <2>1, <2>2 DEF IInv, Jobs
    <2> QED
      BY <1>3, <2>1, <2>2 DEF IInv, Jobs, IsJob
  <1>6. Books'
    <2>1. Books
      BY DEF IInv
    <2>2. \A i \in DOMAIN answers' : answers'[i].req \in Requests
      BY <1>1, <1>2, <2>1 DEF Books
    <2>3. deps' = [v \in versions' |-> deps'[v]] /\ asked' = [v \in versions' |-> asked'[v]]
      BY <1>3, <2>1, Restored DEF Books
    <2> QED
      BY <1>1, <1>2, <1>3, <1>4, <2>1, <2>2, <2>3 DEF Books
  <1>7. SuccessMeansRecorded'
    BY <1>1, <1>2, <1>4 DEF IInv, Books, SuccessMeansRecorded
  <1>8. RefusalChangesNothing'
    BY <1>2, <1>3 DEF IInv, RefusalChangesNothing
  <1>9. PutChecksHold'
    BY <1>2 DEF IInv, Books, PutChecksHold
  <1>10. Transaction'
    <2>1. \A d \in Client : InTxn(d)' => d # c /\ InTxn(d) /\ job'[d] = job[d]
      BY <1>3 DEF InTxn, Idle
    <2>2. CASE InTxn(c) /\ deps' = Committed /\ undo' = {}
      <3>1. \A d \in Client : ~InTxn(d)'
        BY <2>1, <2>2 DEF IInv, Transaction
      <3> QED
        BY <1>3, <2>2, <3>1, Restored DEF Transaction, Free
    <2>3. CASE ~InTxn(c) /\ UNCHANGED <<deps, undo>>
      BY <1>3, <2>1, <2>3 DEF IInv, Transaction, Free, Entity
    <2> QED
      BY <2>2, <2>3
  <1>11. ASSUME NEW d \in Client, Busy(d)' PROVE Progress(job[d])'
    <2>1. d # c /\ Busy(d) /\ job'[d] = job[d] /\ Progress(job[d])
      BY <1>3, <1>11 DEF IInv, Busy
    <2>2. deps' = deps \/ ~InTxn(d)
      BY <2>1 DEF IInv, Transaction
    <2> QED
      BY <1>3, <2>1, <2>2, ProgressKept
  <1>12. ASSUME NEW i \in 1 .. issued', NEW r \in Requests, Claim(i, r)' PROVE Claim(i, r)
    <2>1. CASE i \in DOMAIN answers' /\ answers'[i].status = 201 /\ r = answers'[i].req
      <3>1. CASE i \in DOMAIN answers
        BY <1>2, <2>1, <3>1 DEF Claim
      <3>2. CASE i = n
        BY <1>2, <2>1, <3>2 DEF Claim
      <3> QED
        BY <1>2, <2>1, <3>1, <3>2
    <2>2. CASE \E d \in Client : /\ job'[d].pc \in {"readback", "record"} /\ Creates(r)
                                 /\ i = job'[d].id /\ r = job'[d].req
      BY <1>3, <2>2 DEF Claim, Idle
    <2> QED
      BY <1>12, <2>1, <2>2 DEF Claim, Creates
  <1>13. Claims'
    BY <1>12, ClaimsKept DEF IInv, Books
  <1> QED
    BY <1>5, <1>6, <1>7, <1>8, <1>9, <1>10, <1>11, <1>13 DEF IInv

-----------------------------------------------------------------------------
(* Steps that write to the tables. *)

\* A request has inserted what it names, which was not there.
LEMMA Insert ==
    ASSUME IInv, NEW c \in Client, Busy(c), Creates(job[c].req),
           job' = [job EXCEPT ![c].pc = "readback"], Written(c),
           UNCHANGED <<changes, answers, issued, faults, undo>>, Free,
           artifacts \subseteq artifacts', versions \subseteq versions',
           deps' = [v \in versions' |-> deps'[v]], asked' = deps',
           ~Inserted(job[c].req), Inserted(job[c].req)'
    PROVE  IInv'
  <1>1. Jobs /\ Books /\ IsJob(job[c]) /\ job[c].req \in Requests
        /\ job[c].id \in (1 .. issued) \ DOMAIN answers
    BY DEF IInv, Jobs, IsJob
  <1>2. GoesOn(c) /\ job'[c].pc = "readback"
    BY <1>1, Goes
  <1>3. wrote' = wrote \cup {job[c].id}
    BY DEF Written
  <1>4. Jobs'
    BY <1>1, <1>2, NotIdle DEF Jobs, GoesOn, Busy
  <1>5. Books' /\ SuccessMeansRecorded' /\ PutChecksHold' /\ Transaction'
    <2>1. Books'
      BY <1>1, <1>3 DEF Books, Recorded
    <2>2. SuccessMeansRecorded' /\ PutChecksHold'
      BY DEF IInv, Recorded, SuccessMeansRecorded, PutChecksHold
    <2>3. Transaction'
      BY <1>2 DEF IInv, Transaction, Free, InTxn, GoesOn
    <2> QED
      BY <2>1, <2>2, <2>3
  <1>6. RefusalChangesNothing'
    BY <1>1, <1>3 DEF IInv, RefusalChangesNothing
  <1>7. ASSUME NEW d \in Client, Busy(d)' PROVE Progress(job[d])'
    <2>1. CASE d = c
      BY <1>2, <2>1 DEF Progress, GoesOn, Creates
    <2>2. CASE d # c
      <3>1. job'[d] = job[d] /\ Busy(d) /\ Progress(job[d])
        BY <1>2, <1>7, <2>2 DEF GoesOn, Busy, IInv
      <3>2. job[d].id # job[c].id
        BY <1>1, <2>2, <3>1 DEF Jobs
      <3>3. ~InTxn(d)
        BY DEF IInv, Transaction
      <3> QED
        BY <1>3, <3>1, <3>2, <3>3, ProgressKept
    <2> QED
      BY <2>1, <2>2
  <1>8. ASSUME NEW i \in 1 .. issued, NEW r \in Requests, Claim(i, r)'
        PROVE  Claim(i, r) \/ (i = job[c].id /\ r = job[c].req)
    BY <1>2, <1>8 DEF Claim, GoesOn, Creates
  <1>9. Claims'
    <2> DEFINE n == job[c].id
               q == job[c].req
    <2>1. /\ Claims /\ issued \in Nat /\ issued' = issued /\ n \in 1 .. issued /\ q \in Requests
          /\ Creates(q) /\ ~Inserted(q) /\ Inserted(q)'
      BY <1>1, <1>2 DEF IInv, Books, GoesOn, Inserted, Entity
    <2>2. \A i \in 1 .. issued, r \in Requests : Claim(i, r)' => Claim(i, r) \/ (i = n /\ r = q)
      BY <1>8
    <2> QED
      BY <2>1, <2>2, ClaimAdded
  <1> QED
    BY <1>4, <1>5, <1>6, <1>7, <1>9 DEF IInv

\* A step of a PUT from Begin to Commit: no other request is in a transaction.
LEMMA Putting ==
    ASSUME IInv, NEW c \in Client, Busy(c), GoesOn(c), job'[c].pc \notin {"readback", "record"},
           wrote' = wrote \/ wrote' = wrote \cup {job[c].id},
           UNCHANGED <<artifacts, versions, changes, answers, issued, faults>>,
           \A d \in Client : InTxn(d) => d = c,
           deps' = [v \in versions |-> deps'[v]], asked' = [v \in versions |-> asked'[v]],
           Progress(job[c])', Transaction'
    PROVE  IInv'
  <1>1. Jobs /\ Books /\ job[c].id \in (1 .. issued) \ DOMAIN answers
    BY DEF IInv, Jobs
  <1>2. Jobs'
    BY <1>1, NotIdle DEF Jobs, GoesOn, Busy
  <1>3. Books' /\ SuccessMeansRecorded' /\ PutChecksHold'
    BY <1>1 DEF IInv, Books, Recorded, SuccessMeansRecorded, PutChecksHold
  <1>4. RefusalChangesNothing'
    BY <1>1 DEF IInv, RefusalChangesNothing
  <1>5. ASSUME NEW d \in Client, Busy(d)' PROVE Progress(job[d])'
    <2>1. CASE d = c
      BY <2>1
    <2>2. CASE d # c
      <3>1. job'[d] = job[d] /\ Busy(d) /\ Progress(job[d]) /\ ~InTxn(d)
        BY <1>5, <2>2 DEF GoesOn, Busy, IInv
      <3>2. job[d].id # job[c].id
        BY <1>1, <2>2, <3>1 DEF Jobs
      <3> QED
        BY <3>1, <3>2, ProgressKept
    <2> QED
      BY <2>1, <2>2
  <1>6. \A i \in 1 .. issued', r \in Requests : Claim(i, r)' => i \in 1 .. issued /\ Claim(i, r)
    BY DEF Claim, GoesOn, Creates
  <1>7. Claims'
    BY <1>1, <1>6, ClaimsKept DEF IInv, Books
  <1> QED
    BY <1>2, <1>3, <1>4, <1>5, <1>7 DEF IInv

LEMMA Starting == ASSUME IInv, NEW c \in Client, Start(c) PROVE IInv'
  <1> USE DEF tables, history
  <1>1. PICK r \in Requests :
          job' = [job EXCEPT ![c] = [pc |-> "lookup", id |-> issued + 1, req |-> r, next |-> 1,
                                     before |-> {}, after |-> {}]]
    BY DEF Start
  <1>2. /\ issued' = issued + 1 /\ Jobs /\ Books /\ DOMAIN job = Client
        /\ UNCHANGED <<tables, changes, history, faults>>
    BY DEF Start, IInv, Jobs
  <1>3. /\ DOMAIN job' = Client /\ \A d \in Client \ {c} : job'[d] = job[d]
        /\ job'[c] = [pc |-> "lookup", id |-> issued + 1, req |-> r, next |-> 1,
                      before |-> {}, after |-> {}]
    BY <1>1, <1>2
  <1>4. IsJob(job'[c]) /\ job'[c].id = issued + 1 /\ job'[c].pc = "lookup" /\ job'[c].next = 1
    BY <1>3 DEF IsJob
  <1>5. \A d \in Client : Busy(d) => job[d].id \in (1 .. issued) \ DOMAIN answers /\ IsJob(job[d])
    BY <1>2 DEF Jobs
  <1>6. Jobs'
    <2>1. ASSUME NEW d \in Client, Busy(d)'
          PROVE  IsJob(job[d])' /\ job'[d].id \in (1 .. issued') \ DOMAIN answers'
      <3>1. CASE d = c
        BY <1>2, <1>4, <3>1 DEF Books, IsJob
      <3>2. CASE d # c
        BY <1>2, <1>3, <1>5, <2>1, <3>2 DEF Books, IsJob, Busy
      <3> QED
        BY <3>1, <3>2
    <2>2. ASSUME NEW d \in Client, NEW e \in Client, Busy(d)', Busy(e)', job'[d].id = job'[e].id
          PROVE  d = e
      <3>1. issued \in Nat
        BY <1>2 DEF Books
      <3>2. ASSUME NEW f \in Client, f # c, Busy(f)' PROVE job'[f].id # job'[c].id
        BY <1>3, <1>4, <1>5, <3>1, <3>2 DEF Busy
      <3>3. CASE d # c /\ e # c
        BY <1>2, <1>3, <2>2, <3>3 DEF Jobs, Busy
      <3> QED
        BY <2>2, <3>2, <3>3
    <2> QED
      BY <1>3, <2>1, <2>2 DEF Jobs
  <1>7. Books'
    BY <1>2 DEF Books, Recorded
  <1>8. SuccessMeansRecorded' /\ RefusalChangesNothing' /\ PutChecksHold' /\ Transaction'
    <2>1. SuccessMeansRecorded' /\ RefusalChangesNothing' /\ PutChecksHold'
      BY <1>2 DEF IInv, SuccessMeansRecorded, RefusalChangesNothing, PutChecksHold, Recorded
    <2>2. \A d \in Client : InTxn(d)' => InTxn(d) /\ job'[d] = job[d]
      BY <1>3, <1>4 DEF InTxn
    <2>3. Transaction'
      BY <1>2, <2>2 DEF IInv, Transaction, Free, Entity
    <2> QED
      BY <2>1, <2>3
  <1>9. ASSUME NEW d \in Client, Busy(d)' PROVE Progress(job[d])'
    <2>1. CASE d = c
      BY <1>2, <1>4, <2>1 DEF Progress, Books
    <2>2. CASE d # c
      BY <1>2, <1>3, <1>9, <2>2, ProgressKept DEF IInv, Busy
    <2> QED
      BY <2>1, <2>2
  <1>10. ASSUME NEW i \in 1 .. issued', NEW q \in Requests, Claim(i, q)'
         PROVE  i \in 1 .. issued /\ Claim(i, q)
    <2>1. CASE i \in DOMAIN answers /\ answers[i].status = 201 /\ q = answers[i].req
      BY <1>2, <2>1 DEF Books, Claim
    <2>2. ASSUME NEW d \in Client, job'[d].pc \in {"readback", "record"}, Creates(q),
                 i = job'[d].id, q = job'[d].req
          PROVE  i \in 1 .. issued /\ Claim(i, q)
      <3>1. d # c
        BY <1>4, <2>2
      <3>2. job'[d] = job[d] /\ Busy(d)
        BY <1>3, <2>2, <3>1 DEF Busy, Idle
      <3> QED
        BY <1>5, <2>2, <3>2 DEF Claim
    <2> QED
      BY <1>2, <1>10, <2>1, <2>2 DEF Claim, Creates
  <1>11. Claims'
    BY <1>2, <1>10, ClaimsKept DEF IInv, Books
  <1> QED
    BY <1>6, <1>7, <1>8, <1>9, <1>11 DEF IInv

LEMMA Crashing == ASSUME IInv, Crash PROVE IInv'
  <1>1. /\ job' = [c \in Client |-> Idle] /\ deps' = asked /\ undo' = {}
        /\ UNCHANGED <<artifacts, versions, changes, answers, wrote, asked, issued, faults>>
    BY Restored DEF Crash, history
  <1>2. \A c \in Client : job'[c] = Idle
    BY <1>1
  <1>3. Jobs' /\ \A c \in Client : Busy(c)' => Progress(job[c])'
    BY <1>1, <1>2 DEF Jobs, Busy
  <1>4. Books' /\ SuccessMeansRecorded' /\ RefusalChangesNothing' /\ PutChecksHold'
    BY <1>1 DEF IInv, Books, SuccessMeansRecorded, RefusalChangesNothing, PutChecksHold, Recorded
  <1>5. Transaction'
    BY <1>1, <1>2 DEF Transaction, Free, InTxn, Idle
  <1>6. \A i \in 1 .. issued', r \in Requests : Claim(i, r)' => i \in 1 .. issued /\ Claim(i, r)
    BY <1>1, <1>2 DEF Claim, Idle, Creates
  <1>7. Claims'
    BY <1>1, <1>6, ClaimsKept DEF IInv, Books
  <1> QED
    BY <1>3, <1>4, <1>5, <1>7 DEF IInv

LEMMA InitInv == Init => IInv
  <1> SUFFICES ASSUME Init PROVE IInv
    OBVIOUS
  <1>1. PICK seed \in Seeds : /\ artifacts = seed.artifacts /\ versions = seed.versions
                             /\ deps = seed.deps /\ asked = seed.deps
    BY DEF Init
  <1>2. /\ undo = {} /\ changes = <<>> /\ answers = <<>> /\ wrote = {} /\ issued = 0 /\ faults = 0
        /\ job = [c \in Client |-> Idle] /\ DOMAIN answers = {}
    BY DEF Init
  <1>3. \A c \in Client : job[c] = Idle
    BY <1>2
  <1>4. changes \in Seq({}) /\ Recorded = {}
    BY <1>2 DEF Recorded
  <1>5. Jobs /\ \A c \in Client : Busy(c) => Progress(job[c])
    BY <1>2, <1>3 DEF Jobs, Busy
  <1>6. Books
    BY <1>1, <1>2, <1>4, RegistryAssumption DEF Books
  <1>7. SuccessMeansRecorded /\ RefusalChangesNothing /\ PutChecksHold
    BY <1>2 DEF SuccessMeansRecorded, RefusalChangesNothing, PutChecksHold
  <1>8. Transaction
    BY <1>1, <1>2, <1>3 DEF Transaction, Free, InTxn, Idle
  <1>9. Claims
    BY <1>2, <1>3 DEF Claims, Claim, Idle
  <1> QED
    BY <1>5, <1>6, <1>7, <1>8, <1>9 DEF IInv

-----------------------------------------------------------------------------
(* The actions. *)

LEMMA Working == ASSUME NEW c, NEW pc, pc # "idle", job[c].pc = pc PROVE Busy(c)
  BY DEF Busy, Idle

\* A step fails at most one call.
Counted == UNCHANGED faults \/ Fault

LEMMA Counting ==
    ASSUME faults \in Nat, Counted
    PROVE  faults' \in Nat /\ faults <= faults' /\ (Fault => faults' > 0)
  BY DEF Counted, Fault

LEMMA Move ==
    ASSUME IInv, NEW c \in Client, Busy(c), NEW pc, Goto(c, pc), Counted,
           UNCHANGED <<tables, changes, issued>>,
           \/ pc = "record" /\ job[c].pc = "readback"
           \/ pc = "version" /\ job[c].pc = "lookup"
           \/ pc = "before" /\ job[c].pc = "version" /\ Entity(job[c].req) \in versions
           \/ pc \in {"check", "insert"} /\ job[c].pc \in {"lookup", "check"}
    PROVE  IInv'
  <1>1. faults' \in Nat /\ faults <= faults'
    BY Counting DEF IInv, Books
  <1>2. GoesOn(c) /\ job'[c].pc = pc /\ job'[c].next = job[c].next
    <2>1. Jobs /\ pc # "idle" /\ job' = [job EXCEPT ![c].pc = pc]
      BY DEF IInv, Goto
    <2> QED
      BY <2>1, Goes
  <1>3. Progress(job[c])'
    BY <1>2 DEF IInv, Goto, Progress, GoesOn, history, tables, Entity
  <1>4. ~InTxn(c) /\ ~InTxn(c)'
    BY <1>2 DEF InTxn
  <1> QED
    BY <1>1, <1>2, <1>3, <1>4, Continue DEF Goto

LEMMA Refuse ==
    ASSUME IInv, NEW c \in Client, Busy(c), NEW status \in {400, 404, 409, 422}, Answer(c, status),
           Counted, UNCHANGED <<tables, changes, issued>>,
           job[c].pc \notin {"readback", "record", "after", "delete", "rows"}
    PROVE  IInv'
  <1>1. faults' \in Nat /\ faults <= faults'
    BY Counting DEF IInv, Books
  <1>2. job[c].id \notin wrote
    BY DEF IInv, Progress
  <1> QED
    BY <1>1, <1>2, End DEF InTxn, tables

LEMMA Break ==
    ASSUME IInv, NEW c \in Client, Busy(c), Answer(c, 500), Counted,
           UNCHANGED <<artifacts, versions, changes, issued>>, ~Creates(job[c].req) => Fault,
           \/ ~InTxn(c) /\ UNCHANGED <<deps, undo>>
           \/ InTxn(c) /\ deps' = Committed /\ undo' = {}
    PROVE  IInv'
  <1>1. faults' \in Nat /\ faults <= faults' /\ (~Creates(job[c].req) => faults' > 0)
    BY Counting DEF IInv, Books
  <1> QED
    BY <1>1, End DEF Creates

\* One more input has been checked.
LEMMA CheckedGrows ==
    ASSUME NEW r, NEW n \in Nat \ {0}, Checked(r, n - 1), r.inputs[n][1] \in artifacts,
           r.inputs[n][1] \notin {r.inputs[i][1] : i \in 1 .. n - 1}
    PROVE  Checked(r, n)
  <1> DEFINE target(i) == r.inputs[i][1]
  <1>1. \A i \in 1 .. n : i = n \/ i \in 1 .. n - 1
    OBVIOUS
  <1>2. /\ target(n) \in artifacts
        /\ \A i \in 1 .. n - 1 : target(i) \in artifacts /\ target(i) # target(n)
        /\ \A h, i \in 1 .. n - 1 : target(h) = target(i) => h = i
    BY DEF Checked
  <1>3. /\ \A i \in 1 .. n : target(i) \in artifacts
        /\ \A h, i \in 1 .. n : target(h) = target(i) => h = i
    <2> HIDE DEF target
    <2> QED
      BY <1>1, <1>2
  <1> QED
    BY <1>3 DEF Checked

\* The next row of a checked PUT fits beside those it has inserted.
LEMMA RowFits ==
    ASSUME NEW r, NEW n \in Nat \ {0}, NEW l \in Nat, n <= l, Checked(r, l)
    PROVE  /\ r.inputs[n][1] \in artifacts
           /\ \A x \in {r.inputs[i] : i \in 1 .. n - 1} : x[1] # r.inputs[n][1]
  <1>1. n \in 1 .. l /\ \A i \in 1 .. n - 1 : i \in 1 .. l /\ i # n
    OBVIOUS
  <1> QED
    BY <1>1 DEF Checked

LEMMA ArtifactStep == ASSUME IInv, NEW c \in Client, CheckName(c) \/ InsertArtifact(c) PROVE IInv'
  <1>1. CASE CheckName(c)
    <2>1. /\ job[c].pc = "lookup" /\ Busy(c) /\ Counted /\ UNCHANGED <<tables, changes, issued>>
          /\ Answer(c, 400) \/ Answer(c, 409) \/ Goto(c, "insert")
      BY <1>1, Working DEF CheckName, At, ErrorIf, Works, Fails, Counted
    <2> QED
      BY <2>1, Refuse, Move
  <1>2. CASE InsertArtifact(c)
    <2>1. /\ job[c].req.op = "artifact" /\ job[c].pc = "insert" /\ Busy(c)
          /\ UNCHANGED <<versions, deps, undo, changes, issued>>
      BY <1>2, Working DEF InsertArtifact, At
    <2>2. CASE /\ job[c].req.name \notin artifacts /\ Works
               /\ artifacts' = artifacts \cup {job[c].req.name}
               /\ Written(c) /\ job' = [job EXCEPT ![c].pc = "readback"]
               /\ UNCHANGED <<answers, asked>>
      <3>1. GoesOn(c)
        BY <2>1, <2>2, Goes DEF IInv
      <3>2. Creates(job[c].req) /\ ~Inserted(job[c].req) /\ Inserted(job[c].req)'
        BY <2>1, <2>2, <3>1 DEF Creates, Inserted, GoesOn
      <3>3. deps' = [v \in versions' |-> deps'[v]] /\ asked' = deps' /\ Free
        BY <2>1, <2>2 DEF IInv, Books, Transaction, Works
      <3> QED
        BY <2>1, <2>2, <3>2, <3>3, Insert DEF Works
    <2>3. CASE Answer(c, 500) /\ UNCHANGED artifacts /\ Counted
      BY <2>1, <2>3, Break DEF Creates, InTxn
    <2> QED
      BY <1>2, <2>2, <2>3 DEF InsertArtifact, ErrorIf, Works, Fails, Counted
  <1> QED
    BY <1>1, <1>2

LEMMA VersionStep ==
    ASSUME IInv, NEW c \in Client, FindArtifactOfVersion(c) \/ CheckVersion(c) \/ InsertVersion(c)
    PROVE  IInv'
  <1>1. CASE FindArtifactOfVersion(c)
    <2>1. /\ job[c].pc = "lookup" /\ Busy(c) /\ Counted /\ UNCHANGED <<tables, changes, issued>>
          /\ Answer(c, 400) \/ Answer(c, 404) \/ Goto(c, "check")
      BY <1>1, Working DEF FindArtifactOfVersion, At, ErrorIf, Works, Fails, Counted
    <2> QED
      BY <2>1, Refuse, Move
  <1>2. CASE CheckVersion(c)
    <2>1. /\ job[c].pc = "check" /\ Busy(c) /\ Counted /\ UNCHANGED <<tables, changes, issued>>
          /\ Answer(c, 409) \/ Goto(c, "insert")
      BY <1>2, Working DEF CheckVersion, At, ErrorIf, Works, Fails, Counted
    <2> QED
      BY <2>1, Refuse, Move
  <1>3. CASE InsertVersion(c)
    <2>1. /\ job[c].req.op = "version" /\ job[c].pc = "insert" /\ Busy(c)
          /\ UNCHANGED <<artifacts, undo, changes, issued>>
      BY <1>3, Working DEF InsertVersion, At
    <2>2. CASE /\ Entity(job[c].req) \notin versions /\ Works
               /\ versions' = versions \cup {Entity(job[c].req)}
               /\ deps' = With(deps, Entity(job[c].req), {})
               /\ asked' = With(asked, Entity(job[c].req), {})
               /\ Written(c) /\ job' = [job EXCEPT ![c].pc = "readback"] /\ UNCHANGED answers
      <3>1. GoesOn(c)
        BY <2>1, <2>2, Goes DEF IInv
      <3>2. Creates(job[c].req) /\ ~Inserted(job[c].req) /\ Inserted(job[c].req)'
        BY <2>1, <2>2, <3>1 DEF Creates, Inserted, Entity, GoesOn
      <3>3. Free /\ deps = asked /\ DOMAIN deps = versions
        BY <2>2 DEF IInv, Books, Transaction, Works
      <3>4. asked' = deps' /\ deps' = [v \in versions' |-> deps'[v]]
        BY <2>2, <3>3 DEF With
      <3> QED
        BY <2>1, <2>2, <3>2, <3>3, <3>4, Insert DEF Works
    <2>3. CASE Answer(c, 500) /\ UNCHANGED <<versions, deps>> /\ Counted
      BY <2>1, <2>3, Break DEF Creates, InTxn
    <2> QED
      BY <1>3, <2>2, <2>3 DEF InsertVersion, ErrorIf, Works, Fails, Counted
  <1> QED
    BY <1>1, <1>2, <1>3

\* The transaction of a PUT, from Begin to Commit.
LEMMA TransactionStep ==
    ASSUME IInv, NEW c \in Client, Begin(c) \/ DeleteRows(c) \/ InsertRow(c) \/ Commit(c)
    PROVE  IInv'
  <1> DEFINE j == job[c]
             e == Entity(job[c].req)
  <1>1. /\ Busy(c) /\ j.req.op = "dependencies" /\ ~Creates(j.req)
        /\ UNCHANGED <<artifacts, versions, changes, issued>>
    BY Working DEF Begin, AllChecked, DeleteRows, InsertRow, Commit, At, Creates
  <1>2. /\ Jobs /\ IsJob(j) /\ Progress(j) /\ Transaction /\ j.req \in Requests
        /\ j.next \in Nat \ {0} /\ Len(j.req.inputs) \in Nat
    BY <1>1, RegistryAssumption DEF IInv, Jobs, IsJob
  <1>3. /\ deps = [v \in versions |-> deps[v]] /\ asked = [v \in versions |-> asked[v]]
        /\ faults \in Nat
    BY DEF IInv, Books
  <1>4. ASSUME InTxn(c)
        PROVE  ~Free /\ undo = {asked} /\ \A d \in Client : InTxn(d) => d = c
    BY <1>2, <1>4 DEF Transaction
  <1>5. CASE InTxn(c) /\ Fault /\ Rollback(c)
    BY <1>1, <1>5, Break DEF Rollback, Counted
  <1>6. CASE /\ j.pc = "inputs" /\ j.next = Len(j.req.inputs) + 1 /\ Works /\ undo' = {deps}
             /\ job' = [job EXCEPT ![c].next = 1, ![c].pc = "delete"]
             /\ UNCHANGED <<deps, history>>
    <2>1. /\ job'[c] = [pc |-> "delete", id |-> j.id, req |-> j.req, next |-> 1,
                        before |-> j.before, after |-> j.after]
          /\ DOMAIN job' = Client /\ \A d \in Client \ {c} : job'[d] = job[d]
      BY <1>2, <1>6 DEF Jobs, IsJob
    <2>2. GoesOn(c)
      BY <1>2, <2>1 DEF GoesOn, IsJob
    <2>3. Free /\ deps = asked /\ \A d \in Client : ~InTxn(d)
      BY <1>2, <1>6 DEF Works, Transaction
    <2>4. Transaction'
      <3>1. \A d \in Client : InTxn(d)' => d = c
        BY <2>1, <2>3 DEF InTxn
      <3> QED
        BY <1>6, <2>3, <3>1 DEF Transaction, Free, history
    <2>5. Progress(job[c])'
      BY <1>1, <1>2, <1>6, <2>1 DEF Progress, Checked, Entity, history
    <2> QED
      BY <1>1, <1>3, <1>6, <2>1, <2>2, <2>3, <2>4, <2>5, Putting DEF Works, history
  <1>7. CASE /\ j.pc = "delete" /\ deps' = [deps EXCEPT ![e] = {}] /\ Goto(c, "rows")
             /\ UNCHANGED <<undo, faults>>
    <2>1. GoesOn(c) /\ job'[c].pc = "rows" /\ job'[c].next = j.next
      BY <1>1, <1>2, <1>7, Goes DEF Goto
    <2>2. InTxn(c) /\ UNCHANGED <<answers, wrote, asked>>
      BY <1>7 DEF InTxn, Goto, history
    <2>3. e \in versions /\ Checked(j.req, Len(j.req.inputs)) /\ j.next = 1 /\ j.id \notin wrote
      BY <1>2, <1>7 DEF Progress
    <2>4. deps'[e] = {} /\ \A v \in versions : v # e => deps'[v] = deps[v]
      BY <1>3, <1>7, <2>3
    <2>5. Transaction'
      <3>1. \A d \in Client : InTxn(d)' => d = c
        BY <1>4, <2>1, <2>2 DEF InTxn, GoesOn
      <3>2. ~Free' /\ undo' = {asked'}
        BY <1>4, <1>7, <2>2 DEF Free
      <3>3. \A v \in versions' : v # Entity(job'[c].req) => deps'[v] = asked'[v]
        BY <1>1, <1>2, <2>1, <2>2, <2>4 DEF Transaction, GoesOn
      <3> QED
        BY <3>1, <3>2, <3>3 DEF Transaction, Entity
    <2>6. Progress(job[c])'
      <3>1. {job'[c].req.inputs[i] : i \in 1 .. job'[c].next - 1} = {}
        BY <2>1, <2>3
      <3> QED
        BY <1>1, <2>1, <2>2, <2>3, <2>4, <3>1 DEF Progress, Checked, Entity, GoesOn
    <2>7. deps' = [v \in versions |-> deps'[v]]
      BY <1>3, <1>7
    <2> QED
      BY <1>1, <1>3, <1>4, <1>7, <2>1, <2>2, <2>5, <2>6, <2>7, Putting
  <1> DEFINE row == j.req.inputs[j.next]
             fits == row[1] \in artifacts /\ \A x \in deps[e] : x[1] # row[1]
  <1>8. CASE /\ j.pc = "rows" /\ j.next <= Len(j.req.inputs)
             /\ deps' = [deps EXCEPT ![e] = @ \cup {row}]
             /\ job' = [job EXCEPT ![c].next = @ + 1]
             /\ UNCHANGED <<undo, faults, history>>
    <2>1. /\ job'[c] = [pc |-> "rows", id |-> j.id, req |-> j.req, next |-> j.next + 1,
                        before |-> j.before, after |-> j.after]
          /\ DOMAIN job' = Client /\ \A d \in Client \ {c} : job'[d] = job[d]
      BY <1>2, <1>8 DEF Jobs, IsJob
    <2>2. GoesOn(c)
      BY <1>2, <2>1 DEF GoesOn, IsJob
    <2>3. InTxn(c) /\ UNCHANGED <<answers, wrote, asked>>
      BY <1>8 DEF InTxn, history
    <2>4. /\ e \in versions /\ Checked(j.req, Len(j.req.inputs)) /\ j.id \notin wrote
          /\ deps[e] = {j.req.inputs[i] : i \in 1 .. j.next - 1}
      BY <1>2, <1>8 DEF Progress
    <2>5. deps'[e] = deps[e] \cup {row} /\ \A v \in versions : v # e => deps'[v] = deps[v]
      BY <1>3, <1>8, <2>4
    <2>6. Transaction'
      <3>1. \A d \in Client : InTxn(d)' => d = c
        BY <1>4, <2>1, <2>3 DEF InTxn
      <3>2. ~Free' /\ undo' = {asked'}
        BY <1>4, <1>8, <2>3 DEF Free
      <3>3. \A v \in versions' : v # Entity(job'[c].req) => deps'[v] = asked'[v]
        BY <1>1, <1>2, <2>1, <2>3, <2>5 DEF Transaction
      <3> QED
        BY <3>1, <3>2, <3>3 DEF Transaction, Entity
    <2>7. Progress(job[c])'
      <3>1. deps'[e] = {j.req.inputs[i] : i \in 1 .. j.next}
        <4>1. 1 .. j.next = (1 .. j.next - 1) \cup {j.next}
          BY <1>2
        <4> QED
          BY <2>4, <2>5, <4>1
      <3>2. 1 .. job'[c].next - 1 = 1 .. j.next
        BY <1>2, <2>1
      <3>3. /\ job'[c].pc = "rows" /\ job'[c].req = j.req /\ job'[c].id = j.id
            /\ Entity(job[c].req)' = e
        BY <2>1 DEF Entity
      <3>4. Checked(job[c].req, Len(job[c].req.inputs))'
        BY <1>1, <2>4, <3>3 DEF Checked
      <3>5. {job[c].req.inputs[i] : i \in 1 .. job[c].next - 1}'
               = {j.req.inputs[i] : i \in 1 .. j.next}
        BY <3>2, <3>3
      <3>6. e \in versions' /\ j.id \notin wrote'
        BY <1>1, <2>3, <2>4
      <3> HIDE DEF j, e
      <3> QED
        BY <3>1, <3>3, <3>4, <3>5, <3>6 DEF Progress
    <2>8. deps' = [v \in versions |-> deps'[v]]
      BY <1>3, <1>8
    <2> QED
      BY <1>1, <1>3, <1>4, <1>8, <2>1, <2>2, <2>3, <2>6, <2>7, <2>8, Putting
  <1>9. ASSUME j.pc = "rows", j.next <= Len(j.req.inputs) PROVE fits
    <2>1. /\ Checked(j.req, Len(j.req.inputs))
          /\ deps[e] = {j.req.inputs[i] : i \in 1 .. j.next - 1}
      BY <1>2, <1>9 DEF Progress
    <2> HIDE DEF j, e
    <2> QED
      BY <1>2, <1>9, <2>1, RowFits
  <1>10. CASE /\ j.pc = "rows" /\ j.next = Len(j.req.inputs) + 1 /\ undo' = {} /\ Written(c)
              /\ asked' = [asked EXCEPT ![e] = Declared(j.req)]
              /\ job' = [job EXCEPT ![c].pc = "after"]
              /\ UNCHANGED <<deps, answers, faults>>
    <2>1. GoesOn(c) /\ job'[c].pc = "after"
      BY <1>1, <1>2, <1>10, Goes
    <2>2. InTxn(c) /\ wrote' = wrote \cup {j.id}
      BY <1>10 DEF InTxn, Written
    <2>3. \A d \in Client : ~InTxn(d)'
      BY <1>4, <2>1, <2>2 DEF InTxn, GoesOn
    <2>4. deps' = asked'
      <3>1. e \in versions /\ deps[e] = Declared(j.req)
        <4>1. e \in versions /\ deps[e] = {j.req.inputs[i] : i \in 1 .. j.next - 1}
          BY <1>2, <1>10 DEF Progress
        <4>2. j.next - 1 = Len(j.req.inputs)
          BY <1>2, <1>10
        <4> QED
          BY <4>1, <4>2 DEF Declared
      <3>2. \A v \in versions : v # e => deps[v] = asked[v]
        BY <1>2, <2>2 DEF Transaction
      <3>3. asked' = [v \in versions |-> IF v = e THEN Declared(j.req) ELSE asked[v]]
        BY <1>3, <1>10, <3>1
      <3>4. \A v \in versions : deps[v] = IF v = e THEN Declared(j.req) ELSE asked[v]
        BY <3>1, <3>2
      <3> HIDE DEF e
      <3> QED
        BY <1>3, <1>10, <3>3, <3>4
    <2>5. Transaction'
      BY <1>10, <2>3, <2>4 DEF Transaction, Free
    <2>6. Progress(job[c])'
      BY <2>1 DEF Progress
    <2> QED
      BY <1>1, <1>3, <1>4, <1>10, <2>1, <2>2, <2>4, <2>5, <2>6, Putting
  <1>11. CASE Begin(c)
    <2>1. CASE Fails /\ Answer(c, 500) /\ UNCHANGED <<deps, undo>>
      BY <1>1, <1>11, <2>1, Break DEF Begin, AllChecked, At, InTxn, Fails, Counted
    <2> QED
      BY <1>6, <1>11, <2>1 DEF Begin, AllChecked, At
  <1>12. CASE DeleteRows(c)
    BY <1>5, <1>7, <1>12 DEF DeleteRows, At, InTxn
  <1>13. CASE InsertRow(c)
    BY <1>5, <1>8, <1>9, <1>13 DEF InsertRow, At, InTxn
  <1>14. CASE Commit(c)
    BY <1>5, <1>10, <1>14 DEF Commit, At, InTxn
  <1> QED
    BY <1>11, <1>12, <1>13, <1>14

LEMMA PutStep ==
    ASSUME IInv, NEW c \in Client,
           \/ FindArtifactOfPut(c) \/ FindVersionOfPut(c) \/ ReadBefore(c) \/ CheckInput(c)
           \/ ReadAfter(c)
    PROVE  IInv'
  <1>1. CASE FindArtifactOfPut(c)
    <2>1. /\ job[c].pc = "lookup" /\ Busy(c) /\ Counted /\ UNCHANGED <<tables, changes, issued>>
          /\ Answer(c, 404) \/ Goto(c, "version")
      BY <1>1, Working DEF FindArtifactOfPut, At, ErrorIf, Works, Fails, Counted
    <2> QED
      BY <2>1, Refuse, Move
  <1>2. CASE FindVersionOfPut(c)
    <2>1. /\ job[c].pc = "version" /\ Busy(c) /\ Counted /\ UNCHANGED <<tables, changes, issued>>
          /\ Answer(c, 404) \/ (Goto(c, "before") /\ Entity(job[c].req) \in versions)
      BY <1>2, Working DEF FindVersionOfPut, At, ErrorIf, Works, Fails, Counted
    <2> QED
      BY <2>1, Refuse, Move
  <1>3. CASE ReadBefore(c)
    <2>1. /\ job[c].pc = "before" /\ job[c].req.op = "dependencies" /\ Busy(c) /\ Counted
          /\ UNCHANGED <<tables, changes, history, issued>>
          /\ \E rows : job' = [job EXCEPT ![c]["before"] = rows, ![c].pc = "inputs"]
      BY <1>3, Working DEF ReadBefore, Keep, At, Works, Fails, Counted
    <2>2. GoesOn(c) /\ job'[c].pc = "inputs" /\ job'[c].next = job[c].next
      BY <2>1, Goes DEF IInv
    <2>3. faults' \in Nat /\ faults <= faults'
      BY <2>1, Counting DEF IInv, Books
    <2>4. job[c].next = 1 /\ job[c].id \notin wrote /\ Entity(job[c].req) \in versions
      BY <2>1 DEF IInv, Progress
    <2>5. Progress(job[c])'
      <3>1. job'[c].next = 1 /\ 1 .. 1 - 1 = {}
        BY <2>2, <2>4
      <3>2. Checked(job[c].req, job[c].next - 1)'
        BY <3>1 DEF Checked
      <3> QED
        BY <2>1, <2>2, <2>4, <3>2 DEF Progress, GoesOn, history, tables, Entity
    <2>6. ~InTxn(c) /\ ~InTxn(c)'
      BY <2>1, <2>2 DEF InTxn
    <2> QED
      BY <2>1, <2>2, <2>3, <2>5, <2>6, Continue DEF history
  <1>4. CASE CheckInput(c)
    <2> DEFINE input == job[c].req.inputs[job[c].next]
               seen == {job[c].req.inputs[i][1] : i \in 1 .. job[c].next - 1}
    <2>1. /\ job[c].pc = "inputs" /\ job[c].req.op = "dependencies" /\ Busy(c) /\ Counted
          /\ UNCHANGED <<tables, changes, issued>>
          /\ \/ Answer(c, 400) \/ Answer(c, 422)
             \/ /\ input[1] \in artifacts /\ input[1] \notin seen
                /\ job' = [job EXCEPT ![c].next = @ + 1] /\ UNCHANGED history
      BY <1>4, Working DEF CheckInput, At, ErrorIf, Works, Fails, Counted
    <2>2. CASE Answer(c, 400) \/ Answer(c, 422)
      <3>1. /\ UNCHANGED <<tables, changes, issued>> /\ Busy(c) /\ Counted
            /\ job[c].pc \notin {"readback", "record", "after", "delete", "rows"}
        BY <2>1
      <3> HIDE DEF input, seen
      <3>2. CASE Answer(c, 400)
        BY <3>1, <3>2, Refuse
      <3>3. CASE Answer(c, 422)
        BY <3>1, <3>3, Refuse
      <3> QED
        BY <2>2, <3>2, <3>3
    <2>3. CASE /\ input[1] \in artifacts /\ input[1] \notin seen
               /\ job' = [job EXCEPT ![c].next = @ + 1] /\ UNCHANGED history
      <3>1. Jobs /\ IsJob(job[c]) /\ Progress(job[c]) /\ job[c].next \in Nat \ {0}
        BY <2>1 DEF IInv, Jobs, IsJob
      <3>2. /\ job'[c] = [pc |-> "inputs", id |-> job[c].id, req |-> job[c].req,
                          next |-> job[c].next + 1, before |-> job[c].before, after |-> job[c].after]
            /\ DOMAIN job' = Client /\ \A d \in Client \ {c} : job'[d] = job[d]
        BY <2>1, <2>3, <3>1 DEF Jobs, IsJob
      <3>3. GoesOn(c)
        BY <3>1, <3>2 DEF GoesOn, IsJob
      <3>4. /\ Checked(job[c].req, job[c].next - 1) /\ job[c].id \notin wrote
            /\ Entity(job[c].req) \in versions
        BY <2>1, <3>1 DEF Progress
      <3>5. Checked(job[c].req, job[c].next)
        <4> DEFINE q == job[c].req
                   n == job[c].next
        <4>1. /\ n \in Nat \ {0} /\ Checked(q, n - 1) /\ q.inputs[n][1] \in artifacts
              /\ q.inputs[n][1] \notin {q.inputs[i][1] : i \in 1 .. n - 1}
          BY <2>3, <3>1, <3>4
        <4> HIDE DEF q, n
        <4>2. Checked(q, n)
          BY <4>1, CheckedGrows
        <4> QED
          BY <4>2 DEF q, n
      <3>6. Progress(job[c])'
        <4>1. job'[c].next - 1 = job[c].next /\ job'[c].req = job[c].req
          BY <3>1, <3>2
        <4>2. Checked(job[c].req, job[c].next - 1)'
          BY <2>1, <3>5, <4>1 DEF Checked, tables
        <4>3. job'[c].pc = "inputs" /\ job'[c].id = job[c].id
          BY <3>2
        <4>4. Entity(job[c].req)' \in versions'
          BY <2>1, <3>4, <4>1 DEF Entity, tables
        <4>5. job'[c].id \notin wrote'
          BY <2>3, <3>4, <4>3 DEF history
        <4> QED
          BY <4>2, <4>3, <4>4, <4>5 DEF Progress
      <3>7. faults' \in Nat /\ faults <= faults'
        BY <2>1, Counting DEF IInv, Books
      <3>8. ~InTxn(c) /\ ~InTxn(c)'
        <4>1. job[c].pc = "inputs"
          BY <2>1
        <4>2. job'[c].pc = "inputs"
          BY <3>2
        <4> QED
          BY <4>1, <4>2 DEF InTxn
      <3> QED
        BY <2>1, <2>3, <3>2, <3>3, <3>6, <3>7, <3>8, Continue DEF history
    <2> QED
      BY <2>1, <2>2, <2>3
  <1>5. CASE ReadAfter(c)
    <2>1. /\ job[c].pc = "after" /\ job[c].req.op = "dependencies" /\ Busy(c) /\ Counted
          /\ UNCHANGED <<tables, changes, history, issued>>
          /\ \E rows : job' = [job EXCEPT ![c]["after"] = rows, ![c].pc = "record"]
      BY <1>5, Working DEF ReadAfter, Keep, At, Works, Fails, Counted
    <2>2. GoesOn(c) /\ job'[c].pc = "record"
      BY <2>1, Goes DEF IInv
    <2>3. faults' \in Nat /\ faults <= faults'
      BY <2>1, Counting DEF IInv, Books
    <2>4. Progress(job[c])' /\ ~Creates(job[c].req) /\ ~InTxn(c) /\ ~InTxn(c)'
      BY <2>1, <2>2 DEF Progress, Creates, InTxn
    <2> QED
      BY <2>1, <2>2, <2>3, <2>4, Continue
  <1> QED
    BY <1>1, <1>2, <1>3, <1>4, <1>5

LEMMA LastStep == ASSUME IInv, NEW c \in Client, ReadBack(c) \/ Record(c) PROVE IInv'
  <1>1. CASE ReadBack(c)
    <2>1. job[c].pc = "readback" /\ Busy(c) /\ UNCHANGED <<tables, changes, issued>>
      BY <1>1, Working DEF ReadBack
    <2>2. CASE Works /\ Goto(c, "record")
      BY <2>1, <2>2, Move DEF Works, Counted
    <2>3. CASE Fails /\ Answer(c, 500)
      BY <2>1, <2>3, Break DEF Fails, Counted, InTxn, tables
    <2> QED
      BY <1>1, <2>2, <2>3 DEF ReadBack
  <1>2. CASE Record(c)
    <2>1. job[c].pc = "record" /\ Busy(c) /\ UNCHANGED <<tables, issued>>
      BY <1>2, Working DEF Record
    <2>2. CASE Fails /\ Answer(c, 500) /\ UNCHANGED changes
      BY <2>1, <2>2, Break DEF Fails, Counted, InTxn, tables
    <2>3. CASE /\ Works /\ Answer(c, Success(job[c].req))
               /\ \E e : changes' = Append(changes, e) /\ e.by = job[c].id
      <3>1. faults' \in Nat /\ faults <= faults'
        BY <2>3, Counting DEF IInv, Books, Works, Counted
      <3>2. Success(job[c].req) \in {200, 201} /\ (Success(job[c].req) = 201 => Creates(job[c].req))
        BY DEF Success, Creates
      <3> QED
        BY <2>1, <2>3, <3>1, <3>2, End DEF InTxn, tables
    <2> QED
      BY <1>2, <2>2, <2>3 DEF Record
  <1> QED
    BY <1>1, <1>2

LEMMA StepInv == IInv /\ [Next]_vars => IInv'
  <1> SUFFICES ASSUME IInv, [Next]_vars PROVE IInv'
    OBVIOUS
  <1>1. CASE UNCHANGED vars
    <2> USE <1>1 DEF vars, tables, history
    <2>1. Jobs' /\ Books'
      BY DEF IInv, Jobs, IsJob, Busy, Books, Recorded
    <2>2. Claims'
      <3>1. \A i \in 1 .. issued', r \in Requests : Claim(i, r)' => i \in 1 .. issued /\ Claim(i, r)
        BY DEF Claim, Creates
      <3> QED
        BY <3>1, ClaimsKept DEF IInv, Books
    <2>3. \A c \in Client : Busy(c)' => Progress(job[c])'
      BY ProgressKept DEF IInv, Busy
    <2>4. SuccessMeansRecorded' /\ RefusalChangesNothing' /\ PutChecksHold'
      BY DEF IInv, Recorded, SuccessMeansRecorded, RefusalChangesNothing, PutChecksHold
    <2>5. Transaction'
      BY DEF IInv, Transaction, Free, InTxn, Entity
    <2> QED
      BY <2>1, <2>2, <2>3, <2>4, <2>5 DEF IInv
  <1>2. ASSUME NEW c \in Client, Start(c) PROVE IInv'
    BY <1>2, Starting
  <1>3. ASSUME NEW c \in Client, Serve(c) PROVE IInv'
    BY <1>3, ArtifactStep, VersionStep, PutStep, TransactionStep, LastStep DEF Serve
  <1>4. CASE Crash
    BY <1>4, Crashing
  <1> QED
    BY <1>1, <1>2, <1>3, <1>4 DEF Next

LEMMA Invariance == Spec => []IInv
  BY InitInv, StepInv, PTL DEF Spec

\* The rows in the table fit its keys, and so do those a rollback restores.
Keys == Schema /\ \A v \in versions : RowsFit(asked[v])

\* The steps that write to the tables respect the keys.
LEMMA KeysStep == IInv /\ Keys /\ [Next]_vars => Keys'
  <1> SUFFICES ASSUME IInv, Keys, [Next]_vars PROVE Keys'
    OBVIOUS
  <1>1. IInv'
    BY StepInv
  <1>2. /\ deps = [v \in versions |-> deps[v]] /\ asked = [v \in versions |-> asked[v]]
        /\ DOMAIN deps = versions /\ DOMAIN asked = versions
    BY DEF IInv, Books
  <1>3. CASE UNCHANGED <<tables, asked>>
    BY <1>3 DEF Keys, Schema, RowsFit, tables
  <1>4. CASE UNCHANGED <<artifacts, versions, asked>> /\ deps' = Committed
    BY <1>4, Restored DEF Keys, Schema, RowsFit
  <1>5. ASSUME NEW c \in Client, InsertArtifact(c) PROVE Keys'
    <2>1. UNCHANGED <<versions, deps, asked>> /\ artifacts \subseteq artifacts'
      BY <1>5 DEF InsertArtifact, Answer
    <2> QED
      BY <2>1 DEF Keys, Schema, RowsFit
  <1>6. ASSUME NEW c \in Client, InsertVersion(c) PROVE Keys'
    <2> DEFINE e == Entity(job[c].req)
    <2>1. /\ artifacts' = artifacts /\ e[1] = job[c].req.name
          /\ \/ UNCHANGED <<versions, deps, asked>>
             \/ /\ e \notin versions /\ e[1] \in artifacts /\ versions' = versions \cup {e}
                /\ deps' = With(deps, e, {}) /\ asked' = With(asked, e, {})
      BY <1>6 DEF InsertVersion, Answer, Entity, At
    <2> HIDE DEF e
    <2> QED
      BY <1>2, <2>1 DEF Keys, Schema, RowsFit, With
  <1>7. ASSUME NEW c \in Client, Begin(c) PROVE Keys'
    <2>1. UNCHANGED <<artifacts, versions, deps, asked>>
      BY <1>7 DEF Begin, Answer, history
    <2> QED
      BY <2>1 DEF Keys, Schema, RowsFit
  <1>8. ASSUME NEW c \in Client, DeleteRows(c) PROVE Keys'
    <2>1. CASE Rollback(c)
      BY <1>4, <1>8, <2>1 DEF Rollback, Answer, DeleteRows
    <2>2. CASE deps' = [deps EXCEPT ![Entity(job[c].req)] = {}] /\ Goto(c, "rows")
      <3>1. UNCHANGED <<artifacts, versions, asked>>
        BY <1>8, <2>2 DEF DeleteRows, Goto, history
      <3> QED
        BY <1>2, <2>2, <3>1 DEF Keys, Schema, RowsFit
    <2> QED
      BY <1>8, <2>1, <2>2 DEF DeleteRows
  <1>9. ASSUME NEW c \in Client, InsertRow(c) PROVE Keys'
    <2> DEFINE e == Entity(job[c].req)
               row == job[c].req.inputs[job[c].next]
    <2>1. CASE Rollback(c)
      BY <1>4, <1>9, <2>1 DEF Rollback, Answer, InsertRow
    <2>2. CASE /\ row[1] \in artifacts /\ \A x \in deps[e] : x[1] # row[1]
               /\ deps' = [deps EXCEPT ![e] = @ \cup {row}] /\ UNCHANGED history
      <3>1. UNCHANGED <<artifacts, versions, asked>>
        BY <1>9, <2>2 DEF InsertRow, history
      <3> HIDE DEF e, row
      <3>2. ASSUME NEW v \in versions PROVE RowsFit(deps'[v])
        <4>1. RowsFit(deps[v])
          BY DEF Keys, Schema
        <4>2. deps'[v] = deps[v] \/ (v = e /\ deps'[v] = deps[v] \cup {row})
          BY <1>2, <2>2
        <4> QED
          BY <2>2, <4>1, <4>2 DEF RowsFit
      <3> QED
        BY <3>1, <3>2 DEF Keys, Schema, RowsFit
    <2> QED
      BY <1>9, <2>1, <2>2 DEF InsertRow
  <1>10. ASSUME NEW c \in Client, Commit(c) PROVE Keys'
    <2>1. CASE Rollback(c)
      BY <1>4, <1>10, <2>1 DEF Rollback, Answer, Commit
    <2>2. CASE undo' = {} /\ UNCHANGED deps
      <3>1. UNCHANGED <<artifacts, versions>>
        BY <1>10 DEF Commit
      <3>2. asked' = deps'
        BY <1>1, <2>2 DEF IInv, Transaction, Free
      <3> QED
        BY <2>2, <3>1, <3>2 DEF Keys, Schema, RowsFit
    <2> QED
      BY <1>10, <2>1, <2>2 DEF Commit
  <1>11. ASSUME NEW c \in Client,
                \/ Start(c) \/ CheckName(c) \/ FindArtifactOfVersion(c) \/ CheckVersion(c)
                \/ FindArtifactOfPut(c) \/ FindVersionOfPut(c) \/ ReadBefore(c) \/ CheckInput(c)
                \/ ReadAfter(c) \/ ReadBack(c) \/ Record(c)
         PROVE  UNCHANGED <<tables, asked>>
    BY <1>11 DEF Start, CheckName, FindArtifactOfVersion, CheckVersion, FindArtifactOfPut,
                 FindVersionOfPut, ReadBefore, CheckInput, ReadAfter, ReadBack, Record,
                 Answer, Goto, history
  <1>12. CASE Crash
    BY <1>4, <1>12 DEF Crash, history
  <1>13. CASE UNCHANGED vars
    BY <1>3, <1>13 DEF vars, history
  <1> QED
    BY <1>3, <1>5, <1>6, <1>7, <1>8, <1>9, <1>10, <1>11, <1>12, <1>13 DEF Next, Serve

-----------------------------------------------------------------------------
(* The theorems. *)

\* The rows keep the keys of the schema, answers and jobs are those of requests.
THEOREM TypeCorrect == Spec => []TypeOK
  <1>1. ASSUME Init PROVE Keys
    <2>1. PICK seed \in Seeds : /\ artifacts = seed.artifacts /\ versions = seed.versions
                               /\ deps = seed.deps /\ asked = seed.deps
      BY <1>1 DEF Init
    <2>2. /\ \A v \in seed.versions : v[1] \in seed.artifacts
          /\ \A v \in seed.versions : \A x, y \in seed.deps[v] :
                x[1] \in seed.artifacts /\ (x[1] = y[1] => x = y)
      BY RegistryAssumption
    <2> QED
      BY <2>1, <2>2 DEF Keys, Schema, RowsFit
  <1>2. IInv /\ Keys => TypeOK
    BY DEF IInv, Books, Jobs, IsJob, Busy, Transaction, Free, Keys, TypeOK
  <1> QED
    BY <1>1, <1>2, InitInv, StepInv, KeysStep, PTL DEF Spec

\* A client is told of success exactly when the change record is stored.
THEOREM Recording == Spec => []SuccessMeansRecorded
  <1>1. IInv => SuccessMeansRecorded
    BY DEF IInv
  <1> QED
    BY <1>1, Invariance, PTL

\* A refused request has written nothing.
THEOREM Refusal == Spec => []RefusalChangesNothing
  <1>1. IInv => RefusalChangesNothing
    BY DEF IInv
  <1> QED
    BY <1>1, Invariance, PTL

\* At most one of the clients that create an artifact or version is told that it did.
THEOREM Uniqueness == Spec => []OneCreator
  <1>1. IInv => OneCreator
    <2> SUFFICES ASSUME IInv, NEW i \in DOMAIN answers, NEW j \in DOMAIN answers,
                        answers[i].status = 201, answers[j].status = 201,
                        Entity(answers[i].req) = Entity(answers[j].req)
                 PROVE  i = j
      BY DEF OneCreator
    <2>1. /\ i \in 1 .. issued /\ j \in 1 .. issued
          /\ answers[i].req \in Requests /\ answers[j].req \in Requests
      BY DEF IInv, Books
    <2>2. Claim(i, answers[i].req) /\ Claim(j, answers[j].req)
      BY DEF Claim
    <2> QED
      BY <2>1, <2>2 DEF IInv, Claims
  <1> QED
    BY <1>1, Invariance, PTL

\* The committed dependencies are those of the last PUT that committed, whole.
THEOREM LastPut == Spec => []LastPutStands
  <1>1. IInv => LastPutStands
    BY Restored DEF LastPutStands
  <1> QED
    BY <1>1, Invariance, PTL

\* Without a failing store call no PUT meets an internal error.
THEOREM ChecksHold == Spec => []PutChecksHold
  <1>1. IInv => PutChecksHold
    BY DEF IInv
  <1> QED
    BY <1>1, Invariance, PTL
=============================================================================
