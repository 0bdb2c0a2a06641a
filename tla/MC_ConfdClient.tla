--------------------------- MODULE MC_ConfdClient ---------------------------
EXTENDS ConfdClient

MCPaths == {<<"runtime">>, <<"runtime", "cmdline">>, DpiPath, DpiForcePath,
            BacklightPath}
MCParseInt == [v \in {"96", "abc", "2000"} |->
                 CASE v = "96" -> 96 [] v = "2000" -> 2000 [] OTHER -> NULL]

=============================================================================
