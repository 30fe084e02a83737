----------------------------- MODULE MCHistory -----------------------------
(* Two artifacts; registrations make a root known, then change what it resolves to. *)
EXTENDS History, TLC

App == <<"app">>     \* resolves at once, later to another version of lib, then fails
Late == <<"late">>   \* unknown at first, then without a solution

MCInputs == {App, Late}

NoRoot == [status |-> "no root", items |-> <<>>]
Failed == [status |-> "failed", items |-> <<>>]
Selects(lib) == [status |-> "succeeded", items |-> ("app" :> 1) @@ ("lib" :> lib)]

MCAnswers ==
    <<(App :> Selects(1)) @@ (Late :> NoRoot),
      (App :> Selects(2)) @@ (Late :> Failed),
      (App :> Failed) @@ (Late :> Failed)>>

Row(id, input, answer) ==
    [ref |-> RefOf("direct", id), by |-> 0, input |-> input, status |-> answer.status,
     items |-> answer.items, source |-> "direct", from |-> NoSource]

RolledBack(row, id) ==
    [row EXCEPT !.ref = RollbackRef(@), !.source = "rollback", !.from = id]

\* An empty database, one where app was resolved and locked before lib was registered anew,
\* and late has failed, and one where app was rolled back to before the last registration.
MCSeeds ==
    {[catalogue |-> 1, resolutions |-> <<>>, lockfiles |-> <<>>],
     [catalogue |-> 2,
      resolutions |-> <<Row(1, App, Selects(1)), Row(2, Late, Failed)>>,
      lockfiles |-> <<[name |-> Chosen("mylock"), by |-> 0, from |-> 1,
                       entries |-> Selects(1).items]>>],
     [catalogue |-> 3,
      resolutions |-> <<Row(1, App, Selects(1)), RolledBack(Row(1, App, Selects(1)), 1)>>,
      lockfiles |-> <<>>]}
=============================================================================
