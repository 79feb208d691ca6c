--------------------------- MODULE MCSceneImages ---------------------------
(* Model values for the run of SceneImages.                               *)
EXTENDS SceneImages, TLC

CONSTANTS batch, auto, dawn, dusk

Asks(P, automatic) == [pictures |-> P, auto |-> automatic]

\* The narration hook, and a batch of two that holds its picture.
MCAsk ==
  auto :> Asks(<<dawn>>, TRUE) @@ batch :> Asks(<<dusk, dawn>>, FALSE)
=============================================================================
