----------------------------- MODULE MCPatchScripts -----------------------------
(***************************************************************************)
(* Small instances of the patch scripts: of each list of files, those two  *)
(* scripts share and one or two of the others.                             *)
(***************************************************************************)
EXTENDS PatchScripts

\* deepseek_v2 is in the lists of glm and dspark; sparse_backend and m3_vl in those
\* of minimax and eagle3.
AllModified ==
    [glm |-> {"deepseek_v2"}, mtp |-> {"slimquant"},
     dspark |-> {"deepseek_v2", "registry"}, evalscope |-> {"humaneval"},
     minimax |-> {"sparse_backend", "m3_vl"}, eagle3 |-> {"sparse_backend", "m3_vl"}]
AllAdded ==
    [glm |-> {"mqa_logits"}, mtp |-> {}, dspark |-> {"qwen3_dspark"},
     evalscope |-> {}, minimax |-> {}, eagle3 |-> {"verify"}]

ModifiedFiles == [s \in Scripts |-> AllModified[s]]
AddedFiles == [s \in Scripts |-> AllAdded[s]]
FilesOf == UNION {ModifiedFiles[s] \cup AddedFiles[s] : s \in Scripts}

\* Both scripts install the same m3_vl.
Installed ==
    [s \in Scripts |-> [f \in FilesOf |->
        IF s = "minimax" /\ f = "m3_vl" THEN "eagle3" ELSE s]]
Local == "local"
AllVersions == Scripts \cup {"eagle3", Local}
Markers == {<<f, "eagle3">> : f \in {"sparse_backend", "m3_vl"} \cap FilesOf}

\* The tree of the wheels.
Wheel == [f \in FilesOf |->
    IF \E s \in Scripts : f \in AddedFiles[s] THEN "absent" ELSE "original"]
Pristine == {Wheel}
\* A package of another version lacks a file; a file was put there by hand.
Foreign == {Wheel, [Wheel EXCEPT !["deepseek_v2"] = "absent"],
            [Wheel EXCEPT !["mqa_logits"] = Local]}

Failing == {"glm", "minimax", "eagle3"}
Apart == {"dspark", "mtp", "eagle3", "evalscope"}
================================================================================
