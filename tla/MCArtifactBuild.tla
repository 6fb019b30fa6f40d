--------------------------- MODULE MCArtifactBuild ---------------------------
(* Two revisions of each source that differ in their code only, and a third  *)
(* that exports another interface.                                           *)
EXTENDS ArtifactBuild, TLC

MCInterface == 1 :> 1 @@ 2 :> 1 @@ 3 :> 2
=============================================================================
