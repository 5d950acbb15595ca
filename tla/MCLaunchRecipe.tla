--------------------------- MODULE MCLaunchRecipe ----------------------------
(* Constant values for checking LaunchRecipe: cluster names that the         *)
(* sanitizer takes for one another, or that look like names of nodes.        *)
EXTENDS LaunchRecipe

SomeNames ==
  {<<"a">>, <<"A">>, <<"-">>, <<"a", "-">>, <<"a", "_">>, <<"A", ".">>, <<"a", "a">>,
   <<"a", "-", "a">>, <<"a", ".", "aegis">>, <<"a", "-", "worker", "-", "1">>}
WithAndWithoutDomain == {<<>>, <<"aegis">>}
FirstIndexes == <<<<"1">>, <<"2">>>>
AnyCounts == -1 .. 2
SomeMemories == {-1, 15, 16}
ValidWords == {"a", "-", "1", "2", "aegis", "controlplane", "worker", "var", "system", "state"}
SomeCharacters == ValidWords \cup {"A", "_", "."}
LowerCase == [x \in {"A"} |-> "a"]
TalosOverlays == <<<<"etc", "cni">>, <<"etc", "kubernetes">>, <<"usr", "libexec", "kubernetes">>, <<"opt">>>>
=============================================================================
