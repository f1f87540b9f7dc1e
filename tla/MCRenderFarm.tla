---------------------------- MODULE MCRenderFarm ----------------------------
(* Instances of RenderFarm for TLC: scripts of the controllers. *)
EXTENDS RenderFarm, FiniteSets, TLC

CONSTANTS r1, r2, ctrl, ctrl2

JobOf(f, b, e) == [file |-> f, begin |-> b, end |-> e]

\* One job of two frames, then one of one frame with the number of an old frame.
TwoJobs == ctrl :> <<JobOf("a", 0, 2), JobOf("b", 1, 2)>>
\* The same, then one whose startup is broken in the run.
ThreeJobs == ctrl :> <<JobOf("a", 0, 2), JobOf("b", 1, 2), JobOf("c", 0, 1)>>
\* The same jobs from two controllers, in any order, and one without frames, which
\* is ignored.
TwoControllers == (ctrl :> <<JobOf("c", 3, 3), JobOf("a", 0, 2)>>) @@ (ctrl2 :> <<JobOf("b", 1, 2)>>)
SceneFiles == {"a", "b", "c"}
RendererSymmetry == Permutations(Renderers)
=============================================================================
