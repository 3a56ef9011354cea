----------------------------- MODULE MCPipeline -----------------------------
(* Two keys, files of up to two lines, every kind of request. *)
EXTENDS Pipeline

SomeTexts == {<<>>, <<"a">>, <<"q", "b", "#", "c", "q">>, <<"q", "q">>, <<"#", "d">>}
Lines == {<<>>} \cup ({"DATABASE_URL", "ANTHROPIC_API_KEY"} \X SomeTexts)
AllFiles == {<<>>} \cup {<<l>> : l \in Lines} \cup (Lines \X Lines)
AllEnvironments == [Keys -> {<<>>, <<"platform">>}]
=============================================================================
