---------------------------- MODULE MCGlmAttention ----------------------------
EXTENDS GlmAttention

CONSTANTS A, B, C

MCOrder == <<A, B, C>>
MCMaxLen == (A :> 37) @@ (B :> 10) @@ (C :> 4)
MCPrompt == (A :> 34) @@ (B :> 9) @@ (C :> 3)
MCChunkSizes == {12}
MCStageStarts == {0, 2}
MCModes == {[cache |-> "bf16", lightop |-> TRUE, heads |-> 128, threshold |-> 1],
            [cache |-> "mixed", lightop |-> TRUE, heads |-> 8, threshold |-> 2],
            [cache |-> "mixed", lightop |-> TRUE, heads |-> 8, threshold |-> 1],
            [cache |-> "split", lightop |-> FALSE, heads |-> 8, threshold |-> 1]}

\* The threshold of the comment: a token and its drafts.
MCDraftModes == {[m EXCEPT !.threshold = 1 + Drafts] : m \in MCModes}

\* Layer 0 prefers early positions, but for the very first ones, layer 2 late ones.
MCScore == [l \in Layers |-> [p \in 0 .. 36 |->
              IF l = 0 THEN IF p < 2 THEN p ELSE 40 - p ELSE p]]
================================================================================
