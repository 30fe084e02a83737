----------------------------- MODULE MCRegistry -----------------------------
(* Two clients over an empty and a filled catalogue. *)
EXTENDS Registry, TLC

CreateArtifact(name, ok) == [op |-> "artifact", name |-> name, wellFormed |-> ok]
CreateVersion(name, version, ok) ==
    [op |-> "version", name |-> name, version |-> version, wellFormed |-> ok]
Put(name, version, inputs) ==
    [op |-> "dependencies", name |-> name, version |-> version, inputs |-> inputs]

MCRequests ==
    {CreateArtifact("app", TRUE), CreateArtifact("lib", TRUE), CreateArtifact("-", FALSE),
     CreateVersion("app", "2.0.0", TRUE), CreateVersion("app", "x", FALSE),
     Put("app", "1.0.0", <<<<"lib", "^1.0.0">>>>),
     Put("app", "1.0.0", <<<<"lib", "~1.0.0">>, <<"app", "=1.0.0">>>>),
     Put("app", "1.0.0", <<<<"lib", "^1.0.0">>, <<"lib", "=1.0.0">>>>),
     Put("app", "1.0.0", <<<<"lib", "malformed">>>>)}

MCSeeds ==
    {[artifacts |-> {}, versions |-> {}, deps |-> <<>>],
     [artifacts |-> {"app", "lib"}, versions |-> {<<"app", "1.0.0">>},
      deps |-> <<"app", "1.0.0">> :> {<<"app", "=1.0.0">>}]}
=============================================================================
