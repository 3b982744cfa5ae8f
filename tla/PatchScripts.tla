------------------------------ MODULE PatchScripts ------------------------------
(***************************************************************************)
(* The scripts that install the patches into the Python packages of a      *)
(* machine, and take them out again:                                       *)
(*                                                                         *)
(*   glm        glm-5.2-.../apply_patch.sh                                 *)
(*   mtp        glm-5.2-.../mtp/{apply,revert}_patch.sh                    *)
(*   dspark     glm-5.2-.../dspark/{apply,revert}_patch.sh                 *)
(*   evalscope  glm-5.2-.../evalscope/evalscope_patch.sh                   *)
(*   minimax    minimax-m3-.../apply_patch.sh                              *)
(*   eagle3     minimax-m3-.../sglang_patches/eagle3-v2/install.sh         *)
(*                                                                         *)
(* Each goes through its files one by one: compare, back up, overwrite.    *)
(* An operator may stop it between two commands, and with CopiesMayFail a  *)
(* cp may also leave a partial file (a full disk, a killed container);     *)
(* `set -e` then ends the script.  Scripts run one at a time, in any order *)
(* and any number of times.  The order of the files within a list is left  *)
(* open: bash visits an associative array in an order of its own.          *)
(*                                                                         *)
(* A file's content is named by where it comes from.  Outside this model:  *)
(* dry runs, __pycache__ and triton caches, the messages.                  *)
(***************************************************************************)
EXTENDS FiniteSets

CONSTANTS
    Files,          \* files of the patched packages
    NoFile,         \* not a file
    Scripts,        \* the scripts an operator uses on this machine
    Modified,       \* [Scripts -> SUBSET Files], existing files a script overwrites
    Added,          \* [Scripts -> SUBSET Files], files only the patch has
    Versions,       \* contents that are neither the wheel's nor partial
    Patch,          \* [Scripts -> [Files -> Versions]], what a script installs
    Marked,         \* subset of Files \X Versions: contents with install.sh's marker
    InitialTrees,   \* the trees a machine may start with
    CopiesMayFail   \* a failing cp leaves a partial file

Contents == {"absent", "original", "partial"} \cup Versions

\* .bak beside the file, .bak.prepatch beside the file, or install.sh's BACKUP_DIR.
Slots == {"bak", "prepatch", "dir"}

NoScript == "none"

ASSUME ScriptsAssumption ==
    /\ Scripts \subseteq {"glm", "mtp", "dspark", "evalscope", "minimax", "eagle3"}
    /\ Modified \in [Scripts -> SUBSET Files] /\ Added \in [Scripts -> SUBSET Files]
    /\ \A s, t \in Scripts : Modified[s] \cap Added[t] = {}
    /\ NoFile \notin Files

ASSUME ContentsAssumption ==
    /\ Versions \cap {"absent", "original", "partial"} = {}
    /\ Patch \in [Scripts -> [Files -> Versions]]
    /\ Marked \subseteq Files \X Versions
    /\ InitialTrees \subseteq [Files -> {"absent", "original"} \cup Versions]
    /\ CopiesMayFail \in BOOLEAN

VARIABLES
    tree,       \* the packages
    backup,     \* for each slot, the backups
    script,     \* the script that runs
    mode,       \* what it does, "apply" or "revert"
    todo,       \* files it has still to visit
    current,    \* the file it has backed up and will overwrite next
    completed   \* mode and name of the last script, if it ran to its end

vars == <<tree, backup, script, mode, todo, current, completed>>

Nothing == <<"none", NoScript>>

--------------------------------------------------------------------------------
(* What tells the scripts apart *)

\* `diff -q`: a file that is up to date is skipped.  The others copy regardless.
Compares(s) == s \in {"glm", "mtp", "dspark", "evalscope"}

\* Mutant of UpToDate: the files are copied without a comparison.
UpToDateNever(s, f) == FALSE

UpToDate(s, f) == Compares(s) /\ tree[f] = Patch[s][f]

\* evalscope keeps .bak for a file it knows to be the wheel's.
Slot(s, f) ==
    IF s = "eagle3" THEN "dir"
    ELSE IF s = "evalscope" /\ mode = "apply" /\ tree[f] # "original" THEN "prepatch"
    ELSE "bak"

HasBackup(s, f) == backup[Slot(s, f)][f] # "absent"

\* What `grep` for install.sh's marker may answer: a partial file may have it or not.
MarkerFound(f) == IF tree[f] = "partial" THEN BOOLEAN ELSE {(<<f, tree[f]>> \in Marked)}

\* Mutant of BacksUp: any backup in the slot is taken for the file's own.
BacksUpUnlessAny(s, f) ==
    {f \notin Added[s] /\ \A g \in Modified[s] : ~HasBackup(s, g)}

\* Whether s backs f up before it overwrites it.
BacksUp(s, f) ==
    IF f \in Added[s] THEN IF s = "glm" /\ tree[f] # "absent" THEN {TRUE} ELSE {FALSE}
    ELSE IF s = "dspark" THEN {~HasBackup(s, f)}
    ELSE IF s = "eagle3" THEN {~HasBackup(s, f) /\ ~found : found \in MarkerFound(f)}
    ELSE {TRUE}

\* minimax ends its cp to .bak with `|| true`.
IgnoresFailedBackup(s) == s = "minimax"

Revertible == Scripts \cap {"mtp", "dspark", "evalscope", "eagle3"}

\* What a cp of a file with this content leaves at its destination.
Copied(content) == {content} \cup (IF CopiesMayFail THEN {"partial"} ELSE {})

--------------------------------------------------------------------------------
(* The scripts *)

Begin(s, m) ==
    /\ script = NoScript
    /\ m = "revert" => s \in Revertible
    /\ script' = s /\ mode' = m
    /\ todo' = Modified[s] \cup Added[s]
    /\ completed' = Nothing
    /\ UNCHANGED <<tree, backup, current>>

Exit ==
    /\ script' = NoScript /\ todo' = {} /\ current' = NoFile
    /\ UNCHANGED <<mode, completed>>

\* The modified files come before the added ones.
Visits(f) ==
    /\ script # NoScript /\ f \in todo
    /\ f \in Added[script] => todo \cap Modified[script] = {}

Done(f) ==
    /\ todo' = todo \ {f} /\ current' = NoFile
    /\ UNCHANGED <<script, mode, completed>>

Skip(f) ==
    /\ mode = "apply" /\ Visits(f) /\ current = NoFile
    /\ UpToDate(script, f)
    /\ Done(f)
    /\ UNCHANGED <<tree, backup>>

TargetMissing(f) ==
    /\ mode = "apply" /\ Visits(f) /\ current = NoFile
    /\ f \in Modified[script] /\ tree[f] = "absent"
    /\ Exit
    /\ UNCHANGED <<tree, backup>>

\* The script goes on to overwrite f.
Replaces(f) ==
    /\ mode = "apply" /\ Visits(f) /\ current = NoFile
    /\ ~UpToDate(script, f)
    /\ f \in Modified[script] => tree[f] # "absent"

BackUp(f) ==
    /\ Replaces(f) /\ TRUE \in BacksUp(script, f)
    /\ \E content \in Copied(tree[f]) :
         /\ backup' = [backup EXCEPT ![Slot(script, f)][f] = content]
         /\ IF content = tree[f] \/ IgnoresFailedBackup(script)
            THEN current' = f /\ UNCHANGED <<script, mode, todo, completed>>
            ELSE Exit
    /\ UNCHANGED tree

\* Mutant of Write: the script goes on after a cp that failed.
WriteAndGoOn(f, content) ==
    \E written \in Copied(content) : tree' = [tree EXCEPT ![f] = written] /\ Done(f)

Write(f, content) ==
    \E written \in Copied(content) :
        /\ tree' = [tree EXCEPT ![f] = written]
        /\ IF written = content THEN Done(f) ELSE Exit

Overwrite(f) ==
    /\ \/ current = f
       \/ Replaces(f) /\ FALSE \in BacksUp(script, f)
    /\ Write(f, Patch[script][f])
    /\ UNCHANGED backup

\* A modified file without a backup is left as it is.
Restore(f) ==
    /\ mode = "revert" /\ Visits(f) /\ f \in Modified[script]
    /\ IF HasBackup(script, f)
       THEN Write(f, backup[Slot(script, f)][f])
       ELSE Done(f) /\ UNCHANGED tree
    /\ UNCHANGED backup

Delete(f) ==
    /\ mode = "revert" /\ Visits(f) /\ f \in Added[script]
    /\ tree' = [tree EXCEPT ![f] = "absent"]
    /\ Done(f)
    /\ UNCHANGED backup

\* The check of the syntax that ends an apply cannot fail: every file of the
\* script has just been written, or is what would have been.  The one that ends
\* mtp's and evalscope's revert may fail on a partial backup: that is Interrupt.
Finish ==
    /\ script # NoScript /\ todo = {}
    /\ script' = NoScript /\ completed' = <<mode, script>>
    /\ UNCHANGED <<tree, backup, mode, todo, current>>

Interrupt ==
    /\ script # NoScript
    /\ Exit
    /\ UNCHANGED <<tree, backup>>

Init ==
    /\ tree \in InitialTrees
    /\ backup = [slot \in Slots |-> [f \in Files |-> "absent"]]
    /\ script = NoScript /\ mode = "apply" /\ todo = {} /\ current = NoFile
    /\ completed = Nothing

VisitFile(f) ==
    \/ Skip(f) \/ TargetMissing(f) \/ BackUp(f) \/ Overwrite(f)
    \/ Restore(f) \/ Delete(f)

Next ==
    \/ \E s \in Scripts, m \in {"apply", "revert"} : Begin(s, m)
    \/ \E f \in Files : VisitFile(f)
    \/ Finish
    \/ Interrupt

Spec == Init /\ [][Next]_vars

--------------------------------------------------------------------------------
(* Properties *)

\* The type of every variable.
TypeOK ==
    /\ tree \in [Files -> Contents]
    /\ backup \in [Slots -> [Files -> Contents]]
    /\ script \in Scripts \cup {NoScript} /\ mode \in {"apply", "revert"}
    /\ todo \subseteq Files /\ current \in Files \cup {NoFile}
    /\ completed \in {Nothing} \cup ({"apply", "revert"} \X Scripts)

Overwritten == UNION {Modified[s] : s \in Scripts}

\* No two scripts overwrite the same file, every copy is whole, and the machine
\* starts with the wheel's files.  minimax is out: its second run overwrites .bak.
ScriptsApart ==
    /\ "minimax" \notin Scripts /\ ~CopiesMayFail
    /\ \A s, t \in Scripts : s # t => Modified[s] \cap Modified[t] = {}
    /\ \A start \in InitialTrees : \A f \in Overwritten : start[f] = "original"

\* The wheel's version of a file a script overwrites is never lost: it is in place
\* or in a backup, wherever the scripts are stopped and however often they run
\* again ("keeps the first original version", dspark/apply_patch.sh:12).
OriginalRecoverable ==
    \A f \in Overwritten :
        tree[f] = "original" \/ \E slot \in Slots : backup[slot][f] = "original"

\* A revert that runs to its end leaves the wheel's files and none of the added
\* ones, also after an apply that was stopped half way.
RevertRestoresOriginal ==
    \A s \in Scripts : completed = <<"revert", s>> =>
        /\ \A f \in Modified[s] : tree[f] = "original"
        /\ \A f \in Added[s] : tree[f] = "absent"

\* An apply that runs to its end has installed every file of the patch, whatever
\* earlier runs, stopped or failed, or other scripts had left.
ApplyInstallsPatch ==
    \A s \in Scripts : completed = <<"apply", s>> =>
        \A f \in Modified[s] \cup Added[s] : tree[f] = Patch[s][f]
================================================================================
