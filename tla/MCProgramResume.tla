--------------------------- MODULE MCProgramResume ---------------------------
EXTENDS ProgramResume, TLC

\* Between them the programs have every kind of node around a checkpoint.
MCPrograms ==
    {<<"call", "checkpoint", "call", "return">>,
     <<"read", "choose", "checkpoint", "repeat", "return">>,
     <<"verify", "checkpoint", "wait", "checkpoint", "call">>,
     <<"checkpoint", "recover">>}

Symmetric == Permutations(Resumers) \cup Permutations(Authorities)
=============================================================================
