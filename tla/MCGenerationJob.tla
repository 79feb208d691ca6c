-------------------------- MODULE MCGenerationJob --------------------------
(* Model values for the run of GenerationJob.                             *)
EXTENDS GenerationJob, TLC

CONSTANTS r1, r2, quest, inn, lore

Artifact(public, refs) == [public |-> public, refs |-> refs]

\* A quest at an inn; a private inn and the lore of it; public lore of an inn
\* the request must name; lore that rests on nothing.
MCCandidates == {
    quest :> Artifact(TRUE, {inn}) @@ inn :> Artifact(TRUE, {}),
    inn :> Artifact(FALSE, {}) @@ lore :> Artifact(FALSE, {inn}),
    lore :> Artifact(TRUE, {inn}),
    lore :> Artifact(TRUE, {})}
=============================================================================
