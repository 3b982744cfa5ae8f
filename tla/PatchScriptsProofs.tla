--------------------------- MODULE PatchScriptsProofs ---------------------------
(***************************************************************************)
(* What the patch scripts promise, for every list of files and every tree: *)
(* an apply that ends has installed its patch, whatever failed before      *)
(* (ApplyInstalls); and when no two scripts share a file and no copy is    *)
(* cut short, the wheel's files are never lost (OriginalStays) and a       *)
(* revert brings them back (RevertRestores).                               *)
(***************************************************************************)
EXTENDS PatchScripts, TLAPS

FilesOfScript(s) == Modified[s] \cup Added[s]

\* Only a running script has work, and the file it has backed up is part of it.
Bookkeeping ==
    /\ script = NoScript => todo = {} /\ current = NoFile
    /\ script # NoScript => todo \subseteq FilesOfScript(script) /\ completed = Nothing
    /\ current # NoFile => current \in todo /\ mode = "apply"

\* An apply leaves behind it what it installs.
AppliedSoFar ==
    script # NoScript /\ mode = "apply" =>
        \A f \in FilesOfScript(script) \ todo : tree[f] = Patch[script][f]

ApplyInv == TypeOK /\ Bookkeeping /\ AppliedSoFar /\ ApplyInstallsPatch

LEMMA NamesDiffer ==
    /\ NoScript \notin Scripts
    /\ \A s \in Scripts : FilesOfScript(s) \subseteq Files
    /\ \A s \in Scripts, f \in Files :
          /\ Patch[s][f] \in Contents
          /\ Patch[s][f] \notin {"absent", "original", "partial"}
    /\ \A m \in {"apply", "revert"}, s \in Scripts : <<m, s>> # Nothing
<1>1. NoScript \notin Scripts
  BY ScriptsAssumption DEF NoScript
<1>2. \A s \in Scripts : FilesOfScript(s) \subseteq Files
  BY ScriptsAssumption DEF FilesOfScript
<1>3. \A s \in Scripts, f \in Files : Patch[s][f] \in Versions
  BY ContentsAssumption
<1>4. \A m \in {"apply", "revert"}, s \in Scripts : <<m, s>> # Nothing
  BY DEF Nothing
<1> QED
  BY <1>1, <1>2, <1>3, <1>4, ContentsAssumption DEF Contents

LEMMA ApplyInvInit == Init => ApplyInv
<1> SUFFICES ASSUME Init PROVE ApplyInv
  OBVIOUS
<1>1. TypeOK
  BY ContentsAssumption DEF Init, TypeOK, Contents
<1>2. Bookkeeping /\ AppliedSoFar
  BY DEF Init, Bookkeeping, AppliedSoFar
<1>3. ApplyInstallsPatch
  BY NamesDiffer DEF Init, ApplyInstallsPatch
<1> QED
  BY <1>1, <1>2, <1>3 DEF ApplyInv

\* What Exit, Done, Write leave behind, whatever the action around them.
LEMMA ExitKeeps ==
    ASSUME ApplyInv, Exit, script # NoScript,
           tree' \in [Files -> Contents], backup' \in [Slots -> [Files -> Contents]]
    PROVE  ApplyInv'
<1>1. TypeOK'
  BY DEF ApplyInv, TypeOK, Exit
<1>2. Bookkeeping' /\ AppliedSoFar'
  BY DEF Bookkeeping, AppliedSoFar, Exit
<1>3. ApplyInstallsPatch'
  BY NamesDiffer DEF ApplyInv, Bookkeeping, ApplyInstallsPatch, Exit
<1> QED
  BY <1>1, <1>2, <1>3 DEF ApplyInv

LEMMA DoneKeeps ==
    ASSUME ApplyInv, NEW f \in todo, script # NoScript, Done(f),
           NEW content \in Contents, tree' = [tree EXCEPT ![f] = content],
           mode = "apply" => content = Patch[script][f],
           backup' \in [Slots -> [Files -> Contents]]
    PROVE  ApplyInv'
<1> USE DEF ApplyInv
<1>0. f \in Files /\ script \in Scripts
  BY DEF TypeOK
<1>1. TypeOK'
  BY <1>0 DEF TypeOK, Done
<1>2. Bookkeeping'
  BY DEF Bookkeeping, Done
<1>3. AppliedSoFar'
  <2> SUFFICES ASSUME mode = "apply", NEW g \in FilesOfScript(script), g \notin todo \ {f}
               PROVE  tree'[g] = Patch[script][g]
    BY DEF AppliedSoFar, Done
  <2>1. g \in Files
    BY <1>0, NamesDiffer
  <2> QED
    BY <1>0, <2>1 DEF TypeOK, AppliedSoFar
<1>4. ApplyInstallsPatch'
  BY NamesDiffer DEF Bookkeeping, ApplyInstallsPatch, Done
<1> QED
  BY <1>1, <1>2, <1>3, <1>4

LEMMA CopiedIsContent ==
    ASSUME NEW content \in Contents
    PROVE  Copied(content) \subseteq Contents
BY DEF Copied, Contents

LEMMA WriteKeeps ==
    ASSUME ApplyInv, NEW f \in todo, script # NoScript, NEW content \in Contents,
           Write(f, content), mode = "apply" => content = Patch[script][f],
           UNCHANGED backup
    PROVE  ApplyInv'
<1>0. PICK written \in Copied(content) :
         /\ tree' = [tree EXCEPT ![f] = written]
         /\ IF written = content THEN Done(f) ELSE Exit
  BY DEF Write
<1>1. /\ written \in Contents
      /\ backup' \in [Slots -> [Files -> Contents]]
      /\ tree' \in [Files -> Contents]
  BY <1>0, CopiedIsContent DEF ApplyInv, TypeOK
<1>2. CASE written = content
  BY <1>0, <1>1, <1>2, DoneKeeps
<1>3. CASE written # content
  BY <1>0, <1>1, <1>3, ExitKeeps
<1> QED
  BY <1>2, <1>3

LEMMA ApplyInvNext == ApplyInv /\ [Next]_vars => ApplyInv'
<1> SUFFICES ASSUME ApplyInv, [Next]_vars PROVE ApplyInv'
  OBVIOUS
<1> USE DEF Visits
<1>0. ASSUME NEW f \in Files, script # NoScript
      PROVE  /\ script \in Scripts /\ tree[f] \in Contents
             /\ tree = [tree EXCEPT ![f] = tree[f]]
             /\ \A slot \in Slots : backup[slot][f] \in Contents
             /\ Patch[script][f] \in Contents
  BY <1>0, NamesDiffer DEF ApplyInv, TypeOK
<1>1. ASSUME NEW s \in Scripts, NEW m \in {"apply", "revert"}, Begin(s, m)
      PROVE  ApplyInv'
  <2>1. TypeOK'
    BY <1>1, NamesDiffer DEF ApplyInv, TypeOK, Begin, FilesOfScript
  <2>2. Bookkeeping' /\ AppliedSoFar'
    BY <1>1, NamesDiffer DEF ApplyInv, Bookkeeping, AppliedSoFar, Begin, FilesOfScript
  <2>3. ApplyInstallsPatch'
    BY <1>1, NamesDiffer DEF Begin, ApplyInstallsPatch
  <2> QED
    BY <2>1, <2>2, <2>3 DEF ApplyInv
<1>2. ASSUME NEW f \in Files, Skip(f) PROVE ApplyInv'
  <2>1. /\ f \in todo /\ script # NoScript /\ Done(f)
        /\ tree[f] = Patch[script][f]
        /\ tree' = [tree EXCEPT ![f] = tree[f]]
        /\ backup' \in [Slots -> [Files -> Contents]]
    BY <1>0, <1>2 DEF Skip, UpToDate, ApplyInv, TypeOK
  <2> QED
    BY <1>0, <2>1, DoneKeeps
<1>3. ASSUME NEW f \in Files, TargetMissing(f) PROVE ApplyInv'
  <2>1. /\ script # NoScript /\ Exit
        /\ tree' \in [Files -> Contents] /\ backup' \in [Slots -> [Files -> Contents]]
    BY <1>3 DEF TargetMissing, ApplyInv, TypeOK
  <2> QED
    BY <2>1, ExitKeeps
<1>4. ASSUME NEW f \in Files, BackUp(f) PROVE ApplyInv'
  <2>0. /\ f \in todo /\ script # NoScript /\ mode = "apply"
        /\ Slot(script, f) \in Slots /\ UNCHANGED tree
    BY <1>4 DEF BackUp, Replaces, Slot, Slots
  <2>1. PICK content \in Copied(tree[f]) :
          /\ backup' = [backup EXCEPT ![Slot(script, f)][f] = content]
          /\ IF content = tree[f] \/ IgnoresFailedBackup(script)
             THEN current' = f /\ UNCHANGED <<script, mode, todo, completed>>
             ELSE Exit
    BY <1>4 DEF BackUp
  <2>2. /\ tree' \in [Files -> Contents]
        /\ backup' \in [Slots -> [Files -> Contents]]
    BY <1>0, <2>0, <2>1, CopiedIsContent DEF ApplyInv, TypeOK
  <2>3. CASE Exit
    BY <2>0, <2>2, <2>3, ExitKeeps
  <2>4. CASE current' = f /\ UNCHANGED <<script, mode, todo, completed>>
    <3>1. TypeOK'
      BY <2>2, <2>4 DEF ApplyInv, TypeOK
    <3>2. Bookkeeping' /\ AppliedSoFar' /\ ApplyInstallsPatch'
      BY <2>0, <2>4 DEF ApplyInv, Bookkeeping, AppliedSoFar, ApplyInstallsPatch
    <3> QED
      BY <3>1, <3>2 DEF ApplyInv
  <2> QED
    BY <2>1, <2>3, <2>4
<1>5. ASSUME NEW f \in Files, Overwrite(f) PROVE ApplyInv'
  <2>1. /\ f \in todo /\ script # NoScript
        /\ Write(f, Patch[script][f]) /\ UNCHANGED backup
    BY <1>5, ScriptsAssumption DEF Overwrite, Replaces, ApplyInv, Bookkeeping
  <2> QED
    BY <1>0, <2>1, WriteKeeps
<1>6. ASSUME NEW f \in Files, Restore(f) PROVE ApplyInv'
  <2>1. /\ f \in todo /\ script # NoScript /\ mode # "apply"
        /\ UNCHANGED backup /\ Slot(script, f) \in Slots
    BY <1>6 DEF Restore, Slot, Slots
  <2>2. CASE Write(f, backup[Slot(script, f)][f])
    BY <1>0, <2>1, <2>2, WriteKeeps
  <2>3. CASE Done(f) /\ UNCHANGED tree
    BY <1>0, <2>1, <2>3, DoneKeeps DEF ApplyInv, TypeOK
  <2> QED
    BY <1>6, <2>2, <2>3 DEF Restore
<1>7. ASSUME NEW f \in Files, Delete(f) PROVE ApplyInv'
  <2>1. /\ f \in todo /\ script # NoScript /\ mode # "apply" /\ Done(f)
        /\ tree' = [tree EXCEPT ![f] = "absent"]
        /\ backup' \in [Slots -> [Files -> Contents]]
        /\ "absent" \in Contents
    BY <1>7 DEF Delete, ApplyInv, TypeOK, Contents
  <2> QED
    BY <2>1, DoneKeeps
<1>8. CASE Finish
  <2>1. TypeOK'
    BY <1>8 DEF Finish, ApplyInv, TypeOK
  <2>2. Bookkeeping' /\ AppliedSoFar'
    BY <1>8 DEF Finish, ApplyInv, Bookkeeping, AppliedSoFar
  <2>3. ApplyInstallsPatch'
    <3> SUFFICES ASSUME NEW s \in Scripts, completed' = <<"apply", s>>,
                        NEW f \in Modified[s] \cup Added[s]
                 PROVE  tree'[f] = Patch[s][f]
      BY DEF ApplyInstallsPatch
    <3>1. mode = "apply" /\ script = s /\ todo = {} /\ UNCHANGED tree
      BY <1>8 DEF Finish
    <3> QED
      BY <1>8, <3>1 DEF Finish, ApplyInv, AppliedSoFar, FilesOfScript
  <2> QED
    BY <2>1, <2>2, <2>3 DEF ApplyInv
<1>9. CASE Interrupt
  <2>1. /\ script # NoScript /\ Exit
        /\ tree' \in [Files -> Contents] /\ backup' \in [Slots -> [Files -> Contents]]
    BY <1>9 DEF Interrupt, ApplyInv, TypeOK
  <2> QED
    BY <2>1, ExitKeeps
<1>10. CASE UNCHANGED vars
  BY <1>10 DEF vars, ApplyInv, TypeOK, Bookkeeping, AppliedSoFar, ApplyInstallsPatch
<1> QED
  BY <1>1, <1>2, <1>3, <1>4, <1>5, <1>6, <1>7, <1>8, <1>9, <1>10 DEF Next, VisitFile

\* The variables of the patch scripts always have their types.
THEOREM PatchTypes == Spec => []TypeOK
<1>1. ApplyInv => TypeOK
  BY DEF ApplyInv
<1> QED
  BY <1>1, ApplyInvInit, ApplyInvNext, PTL DEF Spec

\* However earlier runs were stopped or failed, whatever other scripts and an edit
\* by hand left behind: an apply that ran to its end has installed its patch.
THEOREM ApplyInstalls == Spec => []ApplyInstallsPatch
<1>1. ApplyInv => ApplyInstallsPatch
  BY DEF ApplyInv
<1> QED
  BY <1>1, ApplyInvInit, ApplyInvNext, PTL DEF Spec

--------------------------------------------------------------------------------
(* Scripts that share no file *)

\* Where s looks for the backup of one of its files when it reverts.
Home(s) == IF s = "eagle3" THEN "dir" ELSE "bak"

\* A file is the wheel's or the patch of its one script, which has then, and
\* already when it is about to overwrite it, the wheel's in the backup.
KeptFile(s, f) ==
    /\ tree[f] \in {"original", Patch[s][f]}
    /\ \A slot \in Slots : backup[slot][f] \in {"absent", "original"}
    /\ tree[f] # "original" \/ current = f => backup[Home(s)][f] = "original"

Kept == \A s \in Scripts : \A f \in Modified[s] : KeptFile(s, f)

\* A revert leaves behind it what the wheel had.
RevertedSoFar ==
    script # NoScript /\ mode = "revert" =>
        /\ \A f \in Modified[script] \ todo : tree[f] = "original"
        /\ \A f \in Added[script] \ todo : tree[f] = "absent"

SafeInv == ApplyInv /\ Kept /\ RevertedSoFar /\ RevertRestoresOriginal

LEMMA SafeInvInit == ScriptsApart /\ Init => SafeInv
<1> SUFFICES ASSUME ScriptsApart, Init PROVE SafeInv
  OBVIOUS
<1>1. Kept
  <2> SUFFICES ASSUME NEW s \in Scripts, NEW f \in Modified[s] PROVE KeptFile(s, f)
    BY DEF Kept
  <2>1. f \in Files /\ f \in Overwritten /\ Home(s) \in Slots
    BY ScriptsAssumption DEF Overwritten, Home, Slots
  <2> QED
    BY <2>1, ScriptsAssumption DEF Init, ScriptsApart, KeptFile
<1>2. RevertedSoFar
  BY DEF Init, RevertedSoFar
<1>3. RevertRestoresOriginal
  BY NamesDiffer DEF Init, RevertRestoresOriginal
<1> QED
  BY <1>1, <1>2, <1>3, ApplyInvInit DEF SafeInv

LEMMA WholeCopy ==
    ASSUME ScriptsApart, NEW f, NEW content
    PROVE  /\ Copied(content) = {content}
           /\ Write(f, content) => tree' = [tree EXCEPT ![f] = content] /\ Done(f)
BY DEF ScriptsApart, Copied, Write

\* A file a script visits and overwrites is no other script's.
LEMMA OneOwner ==
    ASSUME ScriptsApart, SafeInv, NEW f \in todo, NEW s \in Scripts, f \in Modified[s]
    PROVE  script = s /\ f \notin Added[s]
<1>1. script \in Scripts /\ f \in FilesOfScript(script)
  BY DEF SafeInv, ApplyInv, TypeOK, Bookkeeping
<1>2. f \notin Added[script] /\ f \notin Added[s]
  BY <1>1, ScriptsAssumption
<1> QED
  BY <1>1, <1>2 DEF ScriptsApart, FilesOfScript

\* A script about to back up one of its files finds the wheel's, and puts it where
\* its revert looks for it.
LEMMA BacksUpOriginal ==
    ASSUME ScriptsApart, SafeInv, NEW s \in Scripts, NEW f \in Modified[s],
           script = s, f \notin Added[s], mode = "apply",
           ~UpToDate(s, f), TRUE \in BacksUp(s, f)
    PROVE  tree[f] = "original" /\ Slot(s, f) = Home(s)
<1>1. KeptFile(s, f)
  BY DEF SafeInv, Kept
<1>2. tree[f] = "original"
  <2>1. CASE Compares(s)
    BY <1>1, <2>1 DEF UpToDate, KeptFile
  <2>2. CASE ~Compares(s)
    <3>1. s = "eagle3"
      BY <2>2, ScriptsAssumption DEF Compares, ScriptsApart
    <3>2. ~HasBackup(s, f)
      BY <3>1 DEF BacksUp
    <3> QED
      BY <1>1, <3>1, <3>2 DEF KeptFile, HasBackup, Slot, Home
  <2> QED
    BY <2>1, <2>2
<1> QED
  BY <1>2 DEF Slot, Home

\* A script that overwrites one of its files without a backup has one already.
LEMMA KeepsBackup ==
    ASSUME ScriptsApart, SafeInv, NEW s \in Scripts, NEW f \in Modified[s],
           script = s, f \notin Added[s], FALSE \in BacksUp(s, f)
    PROVE  backup[Home(s)][f] = "original"
<1>1. KeptFile(s, f) /\ Home(s) \in Slots
  BY DEF SafeInv, Kept, Home, Slots
<1>2. s \in {"dspark", "eagle3"}
  BY DEF BacksUp
<1>3. CASE HasBackup(s, f)
  BY <1>1, <1>2, <1>3 DEF HasBackup, Slot, Home, KeptFile
<1>4. CASE ~HasBackup(s, f)
  <2>1. TRUE \in MarkerFound(f)
    BY <1>2, <1>4 DEF BacksUp
  <2>2. tree[f] # "partial"
    BY <1>1, NamesDiffer, ScriptsAssumption DEF KeptFile
  <2>3. <<f, tree[f]>> \in Marked
    BY <2>1, <2>2 DEF MarkerFound
  <2>4. tree[f] # "original"
    BY <2>3, ContentsAssumption
  <2> QED
    BY <1>1, <2>4 DEF KeptFile
<1> QED
  BY <1>3, <1>4

\* What a revert restores is the wheel's, and what it leaves alone is too.
LEMMA RestoresOriginal ==
    ASSUME ScriptsApart, SafeInv, NEW f \in todo, f \in Modified[script], Restore(f)
    PROVE  tree' = [tree EXCEPT ![f] = "original"] /\ Done(f) /\ UNCHANGED backup
<1>1. script \in Scripts /\ tree = [tree EXCEPT ![f] = tree[f]]
  BY DEF SafeInv, ApplyInv, TypeOK, Restore, Visits
<1>2. KeptFile(script, f) /\ Home(script) \in Slots
  BY <1>1 DEF SafeInv, Kept, Home, Slots
<1>3. Slot(script, f) = Home(script)
  BY DEF Restore, Slot, Home
<1>4. CASE HasBackup(script, f)
  <2>1. backup[Slot(script, f)][f] = "original"
    BY <1>2, <1>3, <1>4 DEF KeptFile, HasBackup
  <2> QED
    BY <1>4, <2>1, WholeCopy DEF Restore
<1>5. CASE ~HasBackup(script, f)
  <2>1. tree[f] = "original"
    BY <1>2, <1>3, <1>5 DEF KeptFile, HasBackup
  <2> QED
    BY <1>1, <1>5, <2>1 DEF Restore
<1> QED
  BY <1>4, <1>5

LEMMA KeptNext == ScriptsApart /\ SafeInv /\ [Next]_vars => Kept'
<1> SUFFICES ASSUME ScriptsApart, SafeInv, [Next]_vars,
                    NEW s \in Scripts, NEW f \in Modified[s]
             PROVE  KeptFile(s, f)'
  BY DEF Kept
<1>0. /\ KeptFile(s, f) /\ f \in Files /\ f # NoFile /\ Home(s) \in Slots
      /\ tree \in [Files -> Contents] /\ backup \in [Slots -> [Files -> Contents]]
  BY ScriptsAssumption DEF SafeInv, Kept, ApplyInv, TypeOK, Home, Slots
<1>1. CASE UNCHANGED <<tree, backup>> /\ current' \in {current, NoFile}
  BY <1>0, <1>1 DEF KeptFile
<1>2. ASSUME NEW g \in Files, BackUp(g) PROVE KeptFile(s, f)'
  <2>1. /\ g \in todo /\ script # NoScript /\ mode = "apply" /\ UNCHANGED tree
        /\ ~UpToDate(script, g) /\ TRUE \in BacksUp(script, g)
    BY <1>2 DEF BackUp, Replaces, Visits
  <2>2. /\ backup' = [backup EXCEPT ![Slot(script, g)][g] = tree[g]]
        /\ current' = g
    BY <1>2, WholeCopy DEF BackUp
  <2>3. CASE g # f
    BY <1>0, <2>1, <2>2, <2>3 DEF KeptFile
  <2>4. CASE g = f
    <3>1. tree[f] = "original" /\ Slot(s, f) = Home(s) /\ script = s
      BY <2>1, <2>4, OneOwner, BacksUpOriginal
    <3> QED
      BY <1>0, <2>1, <2>2, <2>4, <3>1 DEF KeptFile
  <2> QED
    BY <2>3, <2>4
<1>3. ASSUME NEW g \in Files, Overwrite(g) PROVE KeptFile(s, f)'
  <2>1. /\ g \in todo /\ UNCHANGED backup
        /\ tree' = [tree EXCEPT ![g] = Patch[script][g]] /\ Done(g)
    BY <1>3, ScriptsAssumption, WholeCopy
    DEF Overwrite, Replaces, Visits, SafeInv, ApplyInv, Bookkeeping
  <2>2. CASE g # f
    BY <1>0, <2>1, <2>2 DEF KeptFile, Done
  <2>3. CASE g = f
    <3>1. script = s /\ f \notin Added[s]
      BY <2>1, <2>3, OneOwner
    <3>2. backup[Home(s)][f] = "original"
      BY <1>0, <1>3, <2>3, <3>1, KeepsBackup DEF Overwrite, KeptFile
    <3> QED
      BY <1>0, <2>1, <2>3, <3>1, <3>2 DEF KeptFile, Done
  <2> QED
    BY <2>2, <2>3
<1>4. ASSUME NEW g \in Files, Restore(g) PROVE KeptFile(s, f)'
  <2>1. g \in todo /\ g \in Modified[script]
    BY <1>4 DEF Restore, Visits
  <2>2. tree' = [tree EXCEPT ![g] = "original"] /\ Done(g) /\ UNCHANGED backup
    BY <1>4, <2>1, RestoresOriginal
  <2> QED
    BY <1>0, <2>2 DEF KeptFile, Done
<1>5. ASSUME NEW g \in Files, Delete(g) PROVE KeptFile(s, f)'
  <2>1. /\ g \in todo /\ g \in Added[script] /\ UNCHANGED backup
        /\ tree' = [tree EXCEPT ![g] = "absent"] /\ Done(g)
    BY <1>5 DEF Delete, Visits
  <2>2. g # f
    BY <2>1, OneOwner
  <2> QED
    BY <1>0, <2>1, <2>2 DEF KeptFile, Done
<1>6. ASSUME NEW t \in Scripts, NEW m \in {"apply", "revert"}, Begin(t, m)
      PROVE  KeptFile(s, f)'
  BY <1>1, <1>6 DEF Begin
<1>7. ASSUME NEW g \in Files, Skip(g) \/ TargetMissing(g) PROVE KeptFile(s, f)'
  BY <1>1, <1>7 DEF Skip, TargetMissing, Done, Exit
<1>8. CASE Finish \/ Interrupt
  BY <1>1, <1>8 DEF Finish, Interrupt, Exit
<1>9. CASE UNCHANGED vars
  BY <1>1, <1>9 DEF vars
<1> QED
  BY <1>2, <1>3, <1>4, <1>5, <1>6, <1>7, <1>8, <1>9 DEF Next, VisitFile

LEMMA RevertNext ==
    ScriptsApart /\ SafeInv /\ [Next]_vars => RevertedSoFar' /\ RevertRestoresOriginal'
<1> SUFFICES ASSUME ScriptsApart, SafeInv, [Next]_vars
             PROVE  RevertedSoFar' /\ RevertRestoresOriginal'
  OBVIOUS
<1>0. /\ tree \in [Files -> Contents]
      /\ script # NoScript => script \in Scripts /\ completed = Nothing
      /\ \A s \in Scripts : FilesOfScript(s) \subseteq Files
  BY NamesDiffer DEF SafeInv, ApplyInv, TypeOK, Bookkeeping
<1> DEFINE Quiet == completed' = Nothing \/ UNCHANGED <<completed, tree>>
<1>1. Quiet => RevertRestoresOriginal'
  BY NamesDiffer DEF SafeInv, RevertRestoresOriginal
<1>2. CASE Exit /\ script # NoScript
  BY <1>0, <1>1, <1>2 DEF Exit, RevertedSoFar
<1>3. ASSUME NEW g \in Files, BackUp(g) PROVE RevertedSoFar' /\ RevertRestoresOriginal'
  <2>1. mode = "apply" /\ UNCHANGED <<tree, script, mode, todo, completed>>
    <3>1. Copied(tree[g]) = {tree[g]}
      BY WholeCopy
    <3> QED
      BY <1>3, <3>1 DEF BackUp, Replaces
  <2> QED
    BY <1>1, <2>1 DEF RevertedSoFar
<1>4. ASSUME NEW g \in Files, Skip(g) \/ Overwrite(g)
      PROVE  RevertedSoFar' /\ RevertRestoresOriginal'
  <2>1. mode = "apply" /\ Done(g) /\ script # NoScript
    BY <1>4, ScriptsAssumption, WholeCopy
    DEF Skip, Overwrite, Replaces, Visits, SafeInv, ApplyInv, Bookkeeping
  <2> QED
    BY <1>0, <1>1, <2>1 DEF Done, RevertedSoFar
<1>5. ASSUME NEW g \in Files, Restore(g) PROVE RevertedSoFar' /\ RevertRestoresOriginal'
  <2>1. /\ g \in todo /\ g \in Modified[script] /\ mode = "revert" /\ script # NoScript
    BY <1>5 DEF Restore, Visits
  <2>2. tree' = [tree EXCEPT ![g] = "original"] /\ Done(g)
    BY <1>5, <2>1, RestoresOriginal
  <2>3. g \notin Added[script]
    BY <1>0, <2>1, ScriptsAssumption
  <2>4. RevertedSoFar'
    BY <1>0, <2>1, <2>2, <2>3 DEF Done, RevertedSoFar, SafeInv, FilesOfScript
  <2> QED
    BY <1>0, <1>1, <2>1, <2>2, <2>4 DEF Done
<1>6. ASSUME NEW g \in Files, Delete(g) PROVE RevertedSoFar' /\ RevertRestoresOriginal'
  <2>1. /\ g \in todo /\ g \in Added[script] /\ mode = "revert" /\ script # NoScript
        /\ tree' = [tree EXCEPT ![g] = "absent"] /\ Done(g)
    BY <1>6 DEF Delete, Visits
  <2>2. g \notin Modified[script]
    BY <1>0, <2>1, ScriptsAssumption
  <2>3. RevertedSoFar'
    BY <1>0, <2>1, <2>2 DEF Done, RevertedSoFar, SafeInv, FilesOfScript
  <2> QED
    BY <1>0, <1>1, <2>1, <2>3 DEF Done
<1>7. ASSUME NEW s \in Scripts, NEW m \in {"apply", "revert"}, Begin(s, m)
      PROVE  RevertedSoFar' /\ RevertRestoresOriginal'
  BY <1>1, <1>7 DEF Begin, RevertedSoFar
<1>8. CASE Finish
  <2>1. RevertedSoFar'
    BY <1>8 DEF Finish, RevertedSoFar
  <2>2. ASSUME NEW s \in Scripts, completed' = <<"revert", s>>
        PROVE  /\ \A f \in Modified[s] : tree'[f] = "original"
               /\ \A f \in Added[s] : tree'[f] = "absent"
    <3>1. script = s /\ mode = "revert" /\ todo = {} /\ UNCHANGED tree
      BY <1>8, <2>2 DEF Finish
    <3> QED
      BY <1>8, <3>1 DEF Finish, SafeInv, RevertedSoFar
  <2> QED
    BY <2>1, <2>2 DEF RevertRestoresOriginal
<1>9. CASE UNCHANGED vars
  BY <1>1, <1>9 DEF vars, SafeInv, RevertedSoFar
<1> QED
  BY <1>2, <1>3, <1>4, <1>5, <1>6, <1>7, <1>8, <1>9
  DEF Next, VisitFile, TargetMissing, Interrupt, Visits

LEMMA SafeInvNext == ScriptsApart /\ SafeInv /\ [Next]_vars => SafeInv'
BY ApplyInvNext, KeptNext, RevertNext DEF SafeInv

\* While no two scripts overwrite the same file and every copy is whole, the wheel's
\* version of every file can be had back, wherever the scripts were stopped.
THEOREM OriginalStays == ScriptsApart => (Spec => []OriginalRecoverable)
<1> SUFFICES ASSUME ScriptsApart PROVE Spec => []OriginalRecoverable
  OBVIOUS
<1>1. SafeInv => OriginalRecoverable
  <2> SUFFICES ASSUME SafeInv, NEW s \in Scripts, NEW f \in Modified[s]
               PROVE  tree[f] = "original" \/ \E slot \in Slots : backup[slot][f] = "original"
    BY DEF OriginalRecoverable, Overwritten
  <2>1. KeptFile(s, f) /\ Home(s) \in Slots
    BY DEF SafeInv, Kept, Home, Slots
  <2> QED
    BY <2>1 DEF KeptFile
<1>2. Init => SafeInv
  BY SafeInvInit
<1>3. SafeInv /\ [Next]_vars => SafeInv'
  BY SafeInvNext
<1> QED
  BY <1>1, <1>2, <1>3, PTL DEF Spec

\* Under the same conditions a revert that ran to its end has brought the wheel's
\* files back and left none of the added ones.
THEOREM RevertRestores == ScriptsApart => (Spec => []RevertRestoresOriginal)
<1> SUFFICES ASSUME ScriptsApart PROVE Spec => []RevertRestoresOriginal
  OBVIOUS
<1>1. SafeInv => RevertRestoresOriginal
  BY DEF SafeInv
<1>2. Init => SafeInv
  BY SafeInvInit
<1>3. SafeInv /\ [Next]_vars => SafeInv'
  BY SafeInvNext
<1> QED
  BY <1>1, <1>2, <1>3, PTL DEF Spec
================================================================================
