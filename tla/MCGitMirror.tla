---------------------------- MODULE MCGitMirror ----------------------------
EXTENDS GitMirror, TLC

F(path, blob) == [path |-> path, blob |-> blob]

\* A private fix (2) under a public change (3), a branch (4) that commits a
\* key, and the merge (5) that takes the key out again.
MCParents == <<(<<>>), <<1>>, <<2>>, <<1>>, <<3, 4>>>>
MCTree ==
    <<{F("app", "v1")},
      {F("app", "v1"), F("fixes", "x")},
      {F("app", "v2"), F("fixes", "x")},
      {F("app", "v1"), F("conf", "key")},
      {F("app", "v2"), F("fixes", "x"), F("conf", "none")}>>

MCDefaultRules == [exclude |-> {"fixes"}, drop |-> TRUE]
MCRuleSets ==
    {MCDefaultRules, [exclude |-> {"fixes", "conf"}, drop |-> TRUE],
     [exclude |-> {}, drop |-> FALSE], Malformed}

\* The agents are alike, and no liveness is checked.
AgentSymmetry == Permutations(Agents)
=============================================================================
