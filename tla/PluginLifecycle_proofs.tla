------------------------ MODULE PluginLifecycle_proofs ------------------------
(***************************************************************************)
(* The safety of the plugin's releases and commands, for any number of      *)
(* processes, commands and releases.                                       *)
(*                                                                         *)
(* Releases first: what is stamped is of one version, a merge leaves the    *)
(* stamped artifacts alone, so every commit that can be installed is of one *)
(* version and the helper's own version is that of its manifest.  Then the  *)
(* commands: what a process has removed, what it owes and what its user     *)
(* said follow from its phase, and no two hold an inode they exclude each   *)
(* other from.                                                             *)
(***************************************************************************)
EXTENDS PluginLifecycle, TLAPS

-----------------------------------------------------------------------------
(* Releases *)

oneVersion(tree, version) ==
    /\ tree.files["helper"].content = version
    /\ tree.files["manifest"].content = version
    /\ tree.receipt.version = version

(* Every tree there is belongs to one release, whose number it bears. *)
TreesAreWhole ==
    /\ oneVersion(master.tree, Len(released))
    /\ \A n \in 1..Len(released) : oneVersion(released[n], n)
    /\ install.kind # "none" =>
          \E n \in 1..Len(released) : oneVersion(install.tree, n)

(* A check knows the version of the plugin it was started from, and what    *)
(* was offered has been released.                                          *)
ChecksAreTrue ==
    /\ check.asking => check.version = check.installed
    /\ answer.phase = "update_available" => answer.target <= Len(released)

UpdatesInv == UpdatesTypeOK /\ TreesAreWhole /\ ChecksAreTrue

LEMMA ReleasedTreeType ==
    ASSUME NEW release \in Versions, NEW minimum \in 0..2
    PROVE  /\ released_tree(release, minimum) \in SomeTree
           /\ oneVersion(released_tree(release, minimum), release)
BY DEF released_tree, SomeTree, Tree, Entry, entry, collect_inventory, Shipped,
       Executable, shippedMode, oneVersion

(* Stamping keeps the type of a tree. *)
LEMMA StampedType ==
    ASSUME NEW tree \in SomeTree, NEW helper \in Versions, NEW preview \in Versions,
           NEW version \in Versions, NEW minimum \in 0..2
    PROVE  stamped(tree, helper, preview, version, minimum) \in SomeTree
<1> DEFINE files == stampedFiles(tree.files, helper, preview)
<1>1. tree.files \in [Shipped -> Entry(Versions)]
  BY DEF SomeTree, Tree
<1>2. \A e \in Entry(Versions), content \in Versions : copied(e, content) \in Entry(Versions)
  BY DEF copied, Entry
<1> DEFINE fresh == [tree.files EXCEPT !["helper"]  = copied(@, helper),
                                       !["preview"] = copied(@, preview)]
<1>3. fresh \in [Shipped -> Entry(Versions)]
  BY <1>1, <1>2 DEF Shipped
<1>4. files \in [Shipped -> Entry(Versions)]
  <2>1. \A f \in Shipped : [fresh[f] EXCEPT
            !.mode = shippedMode(f)] \in Entry(Versions)
    BY <1>3 DEF Entry, shippedMode
  <2>2. files = [f \in Shipped |-> [fresh[f] EXCEPT
            !.mode = shippedMode(f)]]
    BY DEF stampedFiles
  <2>3. QED
    BY <2>1, <2>2
<1>5. collect_inventory(files) \in SUBSET [path : Shipped, content : Versions,
                                           mode : {"0755", "0644"}]
  BY <1>4 DEF collect_inventory, Entry
<1>6. QED
  BY <1>4, <1>5 DEF stamped, SomeTree, Tree

(* What a stamp lets through is of one version: the helper it found printed *)
(* the version that manifest and receipt state.                            *)
LEMMA StampsAreWhole ==
    ASSUME NEW tree \in SomeTree, NEW helper \in Versions, NEW preview \in Versions,
           NEW version \in Versions, NEW minimum \in 0..2,
           stamps(tree, helper, preview, version, minimum)
    PROVE  oneVersion(stamped(tree, helper, preview, version, minimum), version)
<1> DEFINE left == stamped(tree, helper, preview, version, minimum)
<1>1. validate_tree(left)
  BY DEF stamps
<1>2. left.receipt.version = version
  BY DEF stamped, SomeTree, Tree
<1>3. QED
  BY <1>1, <1>2 DEF validate_tree, validate_manifest_matches, oneVersion

(* The release commit keeps both. *)
LEMMA PushedType ==
    ASSUME NEW cut \in SomeTree, NEW tree \in SomeTree
    PROVE  pushed(cut, tree) \in SomeTree
<1> DEFINE files == [f \in Shipped |->
               IF f \in Committed THEN tree.files[f] ELSE cut.files[f]]
<1>1. /\ cut.files \in [Shipped -> Entry(Versions)]
      /\ tree.files \in [Shipped -> Entry(Versions)]
  BY DEF SomeTree, Tree
<1>2. files \in [Shipped -> Entry(Versions)]
  BY <1>1
<1>3. pushed(cut, tree) = [tree EXCEPT !.files = files]
  BY DEF pushed
<1> HIDE DEF files
<1>4. QED
  BY <1>2, <1>3 DEF SomeTree, Tree

LEMMA PushedIsWhole ==
    ASSUME NEW cut \in SomeTree, NEW tree \in SomeTree, NEW version,
           oneVersion(tree, version)
    PROVE  oneVersion(pushed(cut, tree), version)
BY DEF oneVersion, pushed, Committed, Shipped, SomeTree, Tree

LEMMA IdleType == idle \in Asked
BY MaxReleaseAssumption DEF idle, Asked, Versions

LEMMA InitUpdatesInv == UpdatesInit => UpdatesInv
<1> SUFFICES ASSUME UpdatesInit PROVE UpdatesInv
  OBVIOUS
<1> DEFINE first == released_tree(1, 1)
<1>1. first \in SomeTree /\ oneVersion(first, 1)
  BY ReleasedTreeType, MaxReleaseAssumption DEF Versions
<1>2. released = <<first>> /\ Len(released) = 1 /\ released[1] = first
  BY DEF UpdatesInit
<1>3. UpdatesTypeOK
  BY <1>1, <1>2, IdleType, MaxReleaseAssumption
     DEF UpdatesInit, UpdatesTypeOK, Versions, Minimums, Answer
<1>4. TreesAreWhole
  BY <1>1, <1>2 DEF UpdatesInit, TreesAreWhole
<1>5. ChecksAreTrue
  BY DEF UpdatesInit, ChecksAreTrue, idle
<1>6. QED
  BY <1>3, <1>4, <1>5 DEF UpdatesInv

(* A merge leaves helper, manifest and receipt as the last release made them. *)
LEMMA MergeKeepsInv ==
    ASSUME UpdatesInv, NEW b \in Blemishes, NEW minimum \in Minimums, Merge(b, minimum)
    PROVE  UpdatesInv'
<1> DEFINE files == master.tree.files
           mended == [f \in Shipped |-> [files[f] EXCEPT !.kind = "file", !.mode = shippedMode(f)]]
           marred == [mended EXCEPT !["page"].content = next,
                                    ![b.file].kind = b.kind, ![b.file].mode = b.mode]
<1>1. /\ files \in [Shipped -> Entry(Versions)] /\ next \in Versions
      /\ b.file \in {"page", "terminal", "preview"}
      /\ b.kind \in {"file", "missing", "symlink"} /\ b.mode = "0644" /\ b.stray \in {"none", "symlink"}
  <2>1. files \in [Shipped -> Entry(Versions)]
    BY DEF UpdatesInv, UpdatesTypeOK, SomeTree, Tree
  <2>2. next \in Versions
    BY DEF Merge
  <2>3. /\ b.file \in {"page", "terminal", "preview"}
        /\ b.kind \in {"file", "missing", "symlink"} /\ b.mode = "0644" /\ b.stray \in {"none", "symlink"}
    BY DEF Blemishes, blemish
  <2>4. QED
    BY <2>1, <2>2, <2>3
<1>2. mended \in [Shipped -> Entry(Versions)]
  BY <1>1 DEF Entry, shippedMode
<1>3. /\ marred \in [Shipped -> Entry(Versions)]
      /\ marred["helper"].content = files["helper"].content
      /\ marred["manifest"].content = files["manifest"].content
  <2> DEFINE paged == [mended EXCEPT !["page"].content = next]
             kinded == [paged EXCEPT ![b.file].kind = b.kind]
  <2> "page" \in Shipped /\ "helper" \in Shipped /\ "manifest" \in Shipped /\ b.file \in Shipped
    BY <1>1 DEF Shipped
  <2>1. \A f \in {"helper", "manifest"} : mended[f].content = files[f].content
    BY <1>1 DEF Entry
  <2> HIDE DEF mended, files
  <2>2. paged \in [Shipped -> Entry(Versions)]
    BY <1>1, <1>2 DEF Entry
  <2>3. \A f \in {"helper", "manifest"} : paged[f] = mended[f]
    BY <1>2
  <2>4. kinded \in [Shipped -> Entry(Versions)]
    <3> HIDE DEF paged
    <3> QED BY <1>1, <2>2 DEF Entry
  <2>5. \A f \in {"helper", "manifest"} : kinded[f] = paged[f]
    BY <1>1, <2>2
  <2>6. marred = [kinded EXCEPT ![b.file].mode = b.mode]
    OBVIOUS
  <2> HIDE DEF paged, kinded, marred
  <2>7. marred \in [Shipped -> Entry(Versions)]
    BY <1>1, <2>4, <2>6 DEF Entry
  <2>8. \A f \in {"helper", "manifest"} : marred[f] = kinded[f]
    BY <1>1, <2>4, <2>6
  <2>9. QED
    BY <2>1, <2>3, <2>5, <2>7, <2>8
<1>4. /\ master' = [tree |-> [master.tree EXCEPT !.files = marred, !.stray = b.stray],
                    preview |-> next, minimum |-> minimum]
      /\ UNCHANGED <<released, install, check, answer>>
  BY DEF Merge
<1>5. /\ master'.tree \in SomeTree /\ master'.tree.files = marred
      /\ master'.tree.receipt = master.tree.receipt
  BY <1>1, <1>3, <1>4 DEF UpdatesInv, UpdatesTypeOK, SomeTree, Tree
<1>6. UpdatesTypeOK'
  BY <1>1, <1>4, <1>5 DEF UpdatesInv, UpdatesTypeOK
<1>7. TreesAreWhole'
  BY <1>3, <1>4, <1>5 DEF UpdatesInv, TreesAreWhole, oneVersion
<1>8. QED
  BY <1>4, <1>6, <1>7 DEF UpdatesInv, ChecksAreTrue

LEMMA StampKeepsInv ==
    ASSUME UpdatesInv, NEW helper \in Versions, StampAndPush(helper)
    PROVE  UpdatesInv'
<1> DEFINE cut == bumped(master.tree)
           left == stamped(cut, helper, master.preview, next, master.minimum)
           tree == pushed(cut, left)
<1>1. /\ next \in Versions /\ next = Len(released) + 1 /\ Len(released) \in Nat
      /\ master.preview \in Versions /\ master.minimum \in 0..2
  <2>1. master.preview \in Versions /\ master.minimum \in 0..2
    BY DEF UpdatesInv, UpdatesTypeOK, Minimums
  <2>2. next = Len(released) + 1 /\ Len(released) \in Nat
    BY DEF UpdatesInv, UpdatesTypeOK, next
  <2>3. next \in Versions
    BY <2>1 DEF StampAndPush
  <2>4. QED
    BY <2>1, <2>2, <2>3
<1>2. cut \in SomeTree
  <2> DEFINE files == master.tree.files
  <2>1. files \in [Shipped -> Entry(Versions)]
    BY DEF UpdatesInv, UpdatesTypeOK, SomeTree, Tree
  <2>2. [files EXCEPT !["manifest"].content = next] \in [Shipped -> Entry(Versions)]
    <3> HIDE DEF files
    <3> QED BY <1>1, <2>1 DEF Entry
  <2>3. cut = [master.tree EXCEPT !.files = [files EXCEPT !["manifest"].content = next]]
    BY DEF bumped, UpdatesInv, UpdatesTypeOK, SomeTree, Tree
  <2>4. QED
    BY <2>2, <2>3 DEF UpdatesInv, UpdatesTypeOK, SomeTree, Tree
<1>3. left \in SomeTree /\ tree \in SomeTree
  <2>1. left \in SomeTree
    BY <1>1, <1>2, StampedType
  <2>2. QED
    BY <1>2, <2>1, PushedType
<1>4. oneVersion(tree, next)
  <2>1. oneVersion(left, next)
    BY <1>1, <1>2, StampsAreWhole DEF StampAndPush
  <2>2. QED
    BY <1>2, <1>3, <2>1, PushedIsWhole
<1>5. /\ released' = Append(released, tree) /\ master' = [master EXCEPT !.tree = tree]
      /\ UNCHANGED <<install, check, answer>>
  BY DEF StampAndPush
<1>6. /\ released' \in Seq(SomeTree) /\ Len(released') = next /\ released'[next] = tree
      /\ \A n \in 1..Len(released) : released'[n] = released[n]
  BY <1>1, <1>3, <1>5 DEF UpdatesInv, UpdatesTypeOK
<1> HIDE DEF cut, left, tree
<1>7. UpdatesTypeOK'
  <2>1. master' \in [tree : SomeTree, preview : Versions, minimum : Minimums]
    BY <1>3, <1>5 DEF UpdatesInv, UpdatesTypeOK
  <2>2. Len(released') \in 1..MaxRelease
    BY <1>1, <1>6, MaxReleaseAssumption DEF Versions
  <2>3. /\ install' \in [kind : {"git", "tree", "none"}, tree : SomeTree]
        /\ check' \in Asked /\ answer' \in [phase : Answer, target : Versions]
    BY <1>5 DEF UpdatesInv, UpdatesTypeOK
  <2>4. QED
    BY <1>6, <2>1, <2>2, <2>3 DEF UpdatesTypeOK
<1>8. TreesAreWhole'
  <2>1. oneVersion(master'.tree, Len(released'))
    BY <1>4, <1>5, <1>6 DEF UpdatesInv, UpdatesTypeOK
  <2>2. \A n \in 1..Len(released') : oneVersion(released'[n], n)
    <3> SUFFICES ASSUME NEW n \in 1..Len(released') PROVE oneVersion(released'[n], n)
      OBVIOUS
    <3>1. CASE n = next
      BY <3>1, <1>4, <1>6
    <3>2. CASE n # next
      BY <3>2, <1>1, <1>6 DEF UpdatesInv, TreesAreWhole
    <3>3. QED
      BY <3>1, <3>2
  <2>3. install'.kind # "none" => \E n \in 1..Len(released') : oneVersion(install'.tree, n)
    BY <1>1, <1>5, <1>6 DEF UpdatesInv, TreesAreWhole
  <2>4. QED
    BY <2>1, <2>2, <2>3 DEF TreesAreWhole, oneVersion
<1>9. ChecksAreTrue'
  BY <1>1, <1>5, <1>6 DEF UpdatesInv, UpdatesTypeOK, ChecksAreTrue, Versions
<1>10. QED
  BY <1>7, <1>8, <1>9 DEF UpdatesInv

(* A helper starts from a whole tree: its version is that of the manifest.  *)
LEMMA StartKeepsInv ==
    ASSUME UpdatesInv, StartCheck
    PROVE  UpdatesInv'
<1> DEFINE version == install.tree.files["helper"].content
<1>1. PICK n \in 1..Len(released) : oneVersion(install.tree, n)
  BY DEF UpdatesInv, TreesAreWhole, StartCheck
<1>2. /\ version = n /\ install.tree.files["manifest"].content = n /\ n \in Versions
      /\ released[n] \in SomeTree
  BY <1>1, MaxReleaseAssumption DEF oneVersion, UpdatesInv, UpdatesTypeOK, Versions
<1>3. ownMinimum(n) \in 0..2
  BY <1>2 DEF ownMinimum, SomeTree, Tree
<1>4. check' = [asking |-> TRUE, version |-> n, minimum |-> ownMinimum(n),
                reinstall |-> install.kind # "git", installed |-> n]
  BY <1>2 DEF StartCheck
<1>5. UNCHANGED <<master, released, install, answer>>
  BY DEF StartCheck
<1>6. UpdatesTypeOK'
  BY <1>2, <1>3, <1>4, <1>5 DEF UpdatesInv, UpdatesTypeOK, Asked
<1>7. TreesAreWhole' /\ ChecksAreTrue'
  BY <1>4, <1>5 DEF UpdatesInv, TreesAreWhole, ChecksAreTrue, oneVersion
<1>8. QED
  BY <1>6, <1>7 DEF UpdatesInv

(* Nothing is offered but a receipt, and receipts bear their own number. *)
LEMMA AnswerKeepsInv ==
    ASSUME UpdatesInv, NEW release \in 1..Len(released), AnswerCheck(release)
    PROVE  /\ UpdatesInv'
           /\ answer'.phase = "update_available" => answer'.target > check.version
<1>1. released[release].receipt.version = release /\ release \in Versions
  BY MaxReleaseAssumption DEF UpdatesInv, UpdatesTypeOK, TreesAreWhole, oneVersion, Versions
<1>2. /\ answer'.phase \in Answer /\ answer' = [phase |-> answer'.phase, target |-> answer'.target]
      /\ answer'.target \in {answer.target, release, 0}
      /\ answer'.phase = "update_available" =>
            answer'.target = release /\ release > check.version
  BY <1>1 DEF AnswerCheck, Answer, offers
<1>3. check' = idle /\ UNCHANGED <<master, released, install>>
  BY DEF AnswerCheck
<1>4. UpdatesTypeOK'
  BY <1>1, <1>2, <1>3, IdleType, MaxReleaseAssumption DEF UpdatesInv, UpdatesTypeOK, Versions
<1>5. TreesAreWhole' /\ ChecksAreTrue'
  BY <1>2, <1>3 DEF UpdatesInv, TreesAreWhole, ChecksAreTrue, oneVersion, idle
<1>6. QED
  BY <1>2, <1>4, <1>5 DEF UpdatesInv

LEMMA FailKeepsInv ==
    ASSUME UpdatesInv, FailCheck
    PROVE  UpdatesInv' /\ answer'.phase = "error"
<1>1. /\ check' = idle /\ answer' = [answer EXCEPT !.phase = "error"]
      /\ UNCHANGED <<master, released, install>>
  BY DEF FailCheck
<1>2. UpdatesTypeOK' /\ answer'.phase = "error"
  BY <1>1, IdleType DEF UpdatesInv, UpdatesTypeOK, Answer
<1>3. TreesAreWhole' /\ ChecksAreTrue'
  BY <1>1, <1>2 DEF UpdatesInv, TreesAreWhole, ChecksAreTrue, oneVersion, idle
<1>4. QED
  BY <1>2, <1>3 DEF UpdatesInv

(* Only whole trees are installed, and a checkout is never behind an offer. *)
LEMMA InstallsKeepInv ==
    ASSUME UpdatesInv, FastForward \/ RemovePlugin \/ AddPlugin
    PROVE  /\ UpdatesInv' /\ UNCHANGED <<check, answer>>
           /\ install'.kind = "git" /\ install'.tree # install.tree =>
                 install'.tree.receipt.version = Len(released)
<1>1. UNCHANGED <<master, released, check, answer>>
  BY DEF FastForward, RemovePlugin, AddPlugin
<1>2. /\ install' \in [kind : {"git", "tree", "none"}, tree : SomeTree]
      /\ \/ install'.kind = "none"
         \/ install' = install
         \/ install'.kind = "git" /\ install'.tree = master.tree
         \/ install'.kind = "tree" /\ install'.tree = released[Len(released)]
  <2>1. /\ install \in [kind : {"git", "tree", "none"}, tree : SomeTree]
        /\ master.tree \in SomeTree /\ released[Len(released)] \in SomeTree
    BY DEF UpdatesInv, UpdatesTypeOK
  <2>2. noTree \in SomeTree
    BY ReleasedTreeType, MaxReleaseAssumption DEF noTree, Versions
  <2>3. CASE FastForward
    BY <2>1, <2>3 DEF FastForward
  <2>4. CASE RemovePlugin
    BY <2>2, <2>4 DEF RemovePlugin
  <2>5. CASE AddPlugin
    BY <2>1, <2>5 DEF AddPlugin
  <2>6. QED
    BY <2>3, <2>4, <2>5
<1>3. Len(released) \in 1..Len(released)
  BY DEF UpdatesInv, UpdatesTypeOK
<1>4. TreesAreWhole'
  BY <1>1, <1>2, <1>3 DEF UpdatesInv, TreesAreWhole, oneVersion
<1>5. UpdatesTypeOK' /\ ChecksAreTrue'
  BY <1>1, <1>2 DEF UpdatesInv, UpdatesTypeOK, ChecksAreTrue
<1>6. QED
  BY <1>1, <1>2, <1>4, <1>5 DEF UpdatesInv, TreesAreWhole, oneVersion

(* What the steps of the releases do, and so their part of every step. *)
LEMMA UpdatesStep ==
    ASSUME UpdatesInv,
           UNCHANGED updateVars \/ Changes \/ Reactions
              \/ FastForward \/ RemovePlugin \/ AddPlugin
    PROVE  /\ UpdatesInv'
           /\ answer'.phase = "update_available" /\ check.asking /\ ~check'.asking =>
                 answer'.target > check.installed
           /\ install'.kind = "git" /\ install'.tree # install.tree
                 /\ answer.phase = "update_available" =>
                 install'.tree.receipt.version >= answer.target
<1>1. CASE UNCHANGED updateVars
  BY <1>1 DEF updateVars, UpdatesInv, UpdatesTypeOK, TreesAreWhole, ChecksAreTrue, oneVersion
<1>2. ASSUME NEW b \in Blemishes, NEW minimum \in Minimums, Merge(b, minimum)
      PROVE  UpdatesInv' /\ UNCHANGED <<check, install>>
  BY <1>2, MergeKeepsInv DEF Merge
<1>3. ASSUME NEW helper \in Versions, StampAndPush(helper)
      PROVE  UpdatesInv' /\ UNCHANGED <<check, install>>
  BY <1>3, StampKeepsInv DEF StampAndPush
<1>4. CASE StartCheck
  BY <1>4, StartKeepsInv DEF StartCheck
<1>5. ASSUME NEW release \in 1..Len(released), AnswerCheck(release)
      PROVE  /\ UpdatesInv' /\ UNCHANGED install
             /\ answer'.phase = "update_available" => answer'.target > check.installed
  BY <1>5, AnswerKeepsInv DEF AnswerCheck, UpdatesInv, ChecksAreTrue
<1>6. CASE FailCheck
  BY <1>6, FailKeepsInv DEF FailCheck
<1>7. CASE FastForward \/ RemovePlugin \/ AddPlugin
  BY <1>7, InstallsKeepInv DEF UpdatesInv, UpdatesTypeOK, ChecksAreTrue, Versions
<1>8. CASE Changes
  BY <1>8, <1>2, <1>4 DEF Changes
<1>9. CASE Reactions
  BY <1>9, <1>3, <1>5, <1>6 DEF Reactions
<1>10. QED
  BY <1>1, <1>7, <1>8, <1>9

-----------------------------------------------------------------------------
(* Commands *)

(* What a process has removed in each phase of a purge. *)
removedIn(p) ==
    CASE p.phase = "unsettled" -> {"settings"}
      [] p.phase = "uncached" \/ (p.phase = "released" /\ p.purge) -> {"settings", "cache"}
      [] p.phase = "purged" -> Dir
      [] OTHER -> {}

(* What a process is, has done and still owes follows from its phase. *)
Sound(p) ==
    /\ p.phase = "guarded" => p.kind = "status"
    /\ p.phase \in {"agreed", "unsettled", "uncached", "released", "purged"} =>
          p.kind = "uninstall" /\ confirms(p.purge, p.tty, p.answer)
    /\ p.phase \in {"unsettled", "uncached", "purged"} => p.purge
    /\ p.removed = removedIn(p)
    /\ p.phase \in {"unsettled", "uncached", "released", "purged"} =>
          p.owed \cap p.removed = {}

GateIsMissed == ~gatePath.exists => gatePath.inode # 0

(* Between doctor clean's copy and its removal. *)
CopiesAreKept ==
    \A c \in Command : at(c, "copied") /\ legacy = "generated" =>
        "generated" \in copies \/ gatePath.inode # 0

CommandsInv ==
    /\ CommandsTypeOK
    /\ \A c \in Command : Sound(command[c])
    /\ GateExcludes
    /\ GateIsMissed
    /\ CopiesAreKept

(* What p is short of can only have been written by somebody since. *)
lessOwed(p, d) == [p EXCEPT !.owed = @ \ d]

(* One process changes, the others at most owe less. *)
Evolves(c) ==
    /\ command' \in [Command -> Process]
    /\ Sound(command'[c])
    /\ \E d \in SUBSET Dir : \A other \in Command \ {c} :
          command'[other] = lessOwed(command[other], d)

LEMMA NewbornIsSound ==
    /\ newborn \in Process /\ Sound(newborn)
    /\ [newborn EXCEPT !.refused = TRUE] \in Process
    /\ Sound([newborn EXCEPT !.refused = TRUE])
BY DEF newborn, Process, Kind, Maintenance, Phase, Holding, Given, Sound, removedIn

LEMMA LessOwedIsSound ==
    ASSUME NEW p \in Process, NEW d, Sound(p)
    PROVE  /\ lessOwed(p, d) \in Process /\ Sound(lessOwed(p, d))
BY DEF lessOwed, Process, Sound, removedIn
LEMMA NothingPaid == \A p \in Process : lessOwed(p, {}) = p
BY DEF lessOwed, Process

(* The shapes in which an action changes the processes. *)
LEMMA BecomesEvolves ==
    ASSUME CommandsInv, NEW c \in Command, NEW p \in Process, Sound(p),
           command' = [command EXCEPT ![c] = p]
    PROVE  Evolves(c) /\ command'[c] = p
BY NothingPaid DEF CommandsInv, CommandsTypeOK, Evolves

LEMMA PaidEvolves ==
    ASSUME CommandsInv, NEW c \in Command, NEW p \in Process, Sound(p),
           NEW d \in SUBSET Dir,
           command' = paid([command EXCEPT ![c] = p], d)
    PROVE  Evolves(c) /\ command'[c] = lessOwed(p, d)
<1> DEFINE before == [command EXCEPT ![c] = p]
<1>1. before \in [Command -> Process] /\ before[c] = p
      /\ \A other \in Command \ {c} : before[other] = command[other]
  BY DEF CommandsInv, CommandsTypeOK
<1>2. command' = [o \in Command |-> lessOwed(before[o], d)]
  BY DEF paid, lessOwed
<1> HIDE DEF before
<1>3. \A o \in Command : Sound(before[o])
  BY <1>1 DEF CommandsInv
<1>4. command' \in [Command -> Process] /\ Sound(command'[c]) /\ command'[c] = lessOwed(p, d)
  BY <1>1, <1>2, <1>3, LessOwedIsSound
<1>5. \A other \in Command \ {c} : command'[other] = lessOwed(command[other], d)
  BY <1>1, <1>2
<1>6. QED
  BY <1>4, <1>5 DEF Evolves

LEMMA GoesEvolves ==
    ASSUME CommandsInv, NEW c \in Command, NEW phase \in Phase, goes(c, phase),
           Sound([command[c] EXCEPT !.phase = phase])
    PROVE  Evolves(c) /\ command'[c] = [command[c] EXCEPT !.phase = phase]
<1>1. [command[c] EXCEPT !.phase = phase] \in Process
  BY DEF CommandsInv, CommandsTypeOK, Process
<1>2. command' = [command EXCEPT ![c] = [command[c] EXCEPT !.phase = phase]]
  BY DEF goes, CommandsInv, CommandsTypeOK
<1>3. QED
  BY <1>1, <1>2, BecomesEvolves

LEMMA EndsEvolves ==
    ASSUME CommandsInv, NEW c \in Command, ends(c) \/ refuses(c)
    PROVE  /\ Evolves(c) /\ command'[c].phase = "done"
           /\ ends(c) => ~command'[c].refused
<1>1. /\ newborn.phase = "done" /\ ~newborn.refused
      /\ [newborn EXCEPT !.refused = TRUE].phase = "done"
  BY DEF newborn
<1>2. CASE ends(c)
  BY <1>1, <1>2, BecomesEvolves, NewbornIsSound DEF ends
<1>3. CASE refuses(c)
  <2>1. Evolves(c) /\ command'[c] = [newborn EXCEPT !.refused = TRUE]
    BY <1>3, BecomesEvolves, NewbornIsSound DEF refuses
  <2>2. ~ends(c)
    BY <2>1 DEF ends, newborn, CommandsInv, CommandsTypeOK
  <2>3. QED
    BY <1>1, <2>1, <2>2
<1>4. QED
  BY <1>2, <1>3

LEMMA WritesEvolves ==
    ASSUME CommandsInv, NEW c \in Command, NEW d \in SUBSET Dir, writes(c, d)
    PROVE  /\ Evolves(c) /\ command'[c].phase = "done" /\ ~command'[c].refused
           /\ disk' = disk \cup d /\ UNCHANGED <<gatePath, legacy, copies, units, begun>>
<1>1. Evolves(c) /\ command'[c] = lessOwed(newborn, d)
  BY PaidEvolves, NewbornIsSound DEF writes
<1>2. QED
  BY <1>1 DEF writes, lessOwed, newborn

LEMMA RemovesEvolves ==
    ASSUME CommandsInv, NEW c \in Command, NEW d \in Dir, NEW phase \in Phase,
           removes(c, d, phase),
           Sound([[lessOwed(command[c], {d}) EXCEPT !.phase = phase]
                     EXCEPT !.removed = @ \cup {d}])
    PROVE  /\ Evolves(c) /\ command'[c].phase = phase
           /\ command'[c].removed = command[c].removed \cup {d}
           /\ command'[c].kind = command[c].kind /\ command'[c].inode = command[c].inode
<1> DEFINE p == [[lessOwed(command[c], {d}) EXCEPT !.phase = phase]
                     EXCEPT !.removed = @ \cup {d}]
           before == [o \in Command |-> lessOwed(command[o], {d})]
<1>1. command[c] \in Process /\ {d} \in SUBSET Dir
  BY DEF CommandsInv, CommandsTypeOK
<1>2. lessOwed(command[c], {d}) \in Process
  BY <1>1, LessOwedIsSound DEF CommandsInv
<1>3. p \in Process
  BY <1>1, <1>2 DEF Process
<1>4. command' = [before EXCEPT ![c] = p]
  <2>1. paid(command, {d}) = before
    BY DEF paid, lessOwed
  <2>2. command' = [before EXCEPT ![c].phase = phase, ![c].removed = @ \cup {d}]
    BY <2>1 DEF removes
  <2>3. before[c] = lessOwed(command[c], {d})
    OBVIOUS
  <2> HIDE DEF before
  <2>4. QED
    BY <2>2, <2>3
<1>5. before \in [Command -> Process]
  BY LessOwedIsSound DEF CommandsInv, CommandsTypeOK
<1>6. command'[c] = p /\ Evolves(c)
  <2> HIDE DEF p
  <2>1. \A other \in Command \ {c} : command'[other] = lessOwed(command[other], {d})
    BY <1>4
  <2>2. command' \in [Command -> Process] /\ command'[c] = p /\ Sound(p)
    BY <1>3, <1>4, <1>5 DEF p
  <2>3. QED
    BY <1>1, <2>1, <2>2 DEF Evolves
<1>7. QED
  BY <1>1, <1>6 DEF lessOwed, Process

-----------------------------------------------------------------------------
(* What every action of a process c does, part by part. *)

(* c and any other hold what they hold together rightly. *)
LocksRight(c) ==
    \A d \in Command \ {c} :
        /\ exclusive(c)' /\ holds(d) => command'[c].inode \notin locksOf(d)
        /\ exclusive(d) /\ holds(c)' => command[d].inode \notin locksOf(c)'

Typed ==
    /\ gatePath' \in [exists : BOOLEAN, inode : Nat]
    /\ disk' \in SUBSET Dir
    /\ legacy' \in LegacyFile
    /\ copies' \in SUBSET LegacyFile
    /\ units' \in SUBSET {"update", "remove"}
    /\ begun' \in 0..MaxCommands

Copied(c) ==
    /\ legacy' = "generated" => legacy = "generated"
    /\ "generated" \in copies \/ gatePath.inode # 0 =>
          "generated" \in copies' \/ gatePath'.inode # 0
    /\ command'[c].phase = "copied" /\ legacy' = "generated" =>
          "generated" \in copies' \/ gatePath'.inode # 0
    /\ legacy = "generated" /\ legacy' = "missing" => at(c, "copied")

Refused(c) ==
    command'[c].phase = "done" /\ command'[c].refused => command[c].removed = {}

Written(c) ==
    \A d \in {"settings", "cache"} : d \notin disk /\ d \in disk' =>
        holds(c) /\ ~purging(c)

Agreed(c) ==
    /\ ~(disk \subseteq disk') =>
          /\ command[c].answer \in {"phrase", "purge"}
          /\ command'[c].removed # command[c].removed
    /\ "remove" \in units' \ units =>
          /\ command'[c] # command[c]
          /\ IF command[c].removed = {} THEN command[c].answer \in {"phrase", "keep"}
             ELSE command[c].removed = Dir /\ command[c].answer \in {"phrase", "purge"}

Effect(c) == /\ Evolves(c) /\ LocksRight(c) /\ Typed /\ GateIsMissed'
             /\ Copied(c) /\ Refused(c) /\ Written(c) /\ Agreed(c)

LEMMA KeepsLocks ==
    ASSUME CommandsInv, NEW c \in Command,
           holds(c)' => /\ holds(c) /\ command'[c].phase # "guarded"
                        /\ command'[c].kind = command[c].kind
                        /\ command'[c].inode = command[c].inode
    PROVE  LocksRight(c)
<1> SUFFICES ASSUME NEW d \in Command \ {c}
             PROVE  /\ exclusive(c)' /\ holds(d) => command'[c].inode \notin locksOf(d)
                    /\ exclusive(d) /\ holds(c)' => command[d].inode \notin locksOf(c)'
  BY DEF LocksRight
<1>1. exclusive(c)' => exclusive(c)
  BY DEF exclusive
<1>2. holds(c)' => locksOf(c)' \subseteq locksOf(c)
  BY DEF locksOf, at
<1>3. QED
  BY <1>1, <1>2 DEF CommandsInv, GateExcludes, exclusive

LEMMA QuietEffect ==
    ASSUME CommandsInv, NEW c \in Command, Evolves(c), LocksRight(c), Refused(c),
           command'[c].phase # "copied",
           UNCHANGED <<gatePath, disk, legacy, copies, units, begun>>
    PROVE  Effect(c)
<1>1. Typed /\ GateIsMissed'
  BY DEF CommandsInv, CommandsTypeOK, Typed, GateIsMissed
<1>2. Copied(c) /\ Written(c) /\ Agreed(c)
  BY DEF CommandsInv, CommandsTypeOK, Copied, Written, Agreed, LegacyFile
<1>3. QED
  BY <1>1, <1>2 DEF Effect

(* Every process that holds no lock after it ends. *)
LEMMA NotHolding ==
    ASSUME CommandsInv, NEW c \in Command,
           command'[c].phase \notin Holding
    PROVE  LocksRight(c)
BY KeepsLocks DEF holds

LEMMA EndsQuietly ==
    ASSUME CommandsInv, NEW c \in Command,
           \/ ends(c)
           \/ refuses(c) /\ command[c].phase \in {"started", "held", "resolved"},
           UNCHANGED <<gatePath, disk, legacy, copies, units, begun>>
    PROVE  Effect(c)
<1>1. Evolves(c) /\ command'[c].phase = "done" /\ (ends(c) => ~command'[c].refused)
  BY EndsEvolves
<1>2. LocksRight(c)
  BY <1>1, NotHolding DEF Holding
<1>3. Refused(c)
  BY <1>1 DEF Refused, CommandsInv, Sound, removedIn
<1>4. QED
  BY <1>1, <1>2, <1>3, QuietEffect

(* A step from phase to phase that keeps what is held, and nothing else. *)
LEMMA GoesQuietly ==
    ASSUME CommandsInv, NEW c \in Command, NEW phase \in Phase, goes(c, phase),
           Sound([command[c] EXCEPT !.phase = phase]),
           phase \notin {"done", "copied", "guarded"},
           phase \in Holding => holds(c),
           UNCHANGED <<gatePath, disk, legacy, copies, units, begun>>
    PROVE  Effect(c)
<1>1. Evolves(c) /\ command'[c] = [command[c] EXCEPT !.phase = phase]
  BY GoesEvolves
<1>2. /\ command'[c].phase = phase /\ command'[c].kind = command[c].kind
      /\ command'[c].inode = command[c].inode
  BY <1>1 DEF CommandsInv, CommandsTypeOK, Process
<1>3. LocksRight(c)
  BY <1>2, KeepsLocks DEF holds
<1>4. Refused(c)
  BY <1>2 DEF Refused
<1>5. QED
  BY <1>1, <1>2, <1>3, <1>4, QuietEffect

LEMMA StartEffect ==
    ASSUME CommandsInv, NEW c \in Command, NEW kind \in Kind, NEW purge \in BOOLEAN,
           NEW tty \in BOOLEAN, Start(c, kind, purge, tty)
    PROVE  Effect(c)
<1> DEFINE p == [newborn EXCEPT !.kind = kind, !.purge = purge, !.tty = tty,
                                !.phase = "started"]
<1>1. p \in Process /\ Sound(p) /\ p.phase = "started"
  <2>1. p \in Process /\ p.phase = "started" /\ p.removed = {}
    <3>1. newborn \in Process /\ newborn.removed = {} /\ "started" \in Phase
      BY NewbornIsSound DEF newborn, Phase
    <3> QED  BY <3>1 DEF Process
  <2> HIDE DEF p
  <2>2. Sound(p)
    BY <2>1 DEF Sound, removedIn
  <2> QED  BY <2>1, <2>2
<1>2. command' = [command EXCEPT ![c] = p]
  BY DEF Start
<1>3. Evolves(c) /\ command'[c].phase = "started"
  BY <1>1, <1>2, BecomesEvolves
<1>4. LocksRight(c) /\ Refused(c)
  BY <1>3, NotHolding DEF Holding, Refused
<1>5. /\ UNCHANGED <<disk, legacy, copies, units>> /\ begun' = begun + 1
      /\ begun < MaxCommands /\ gatePath'.inode = gatePath.inode
      /\ gatePath' \in {gatePath, [gatePath EXCEPT !.exists = TRUE]}
  BY DEF Start, CommandsInv, CommandsTypeOK
<1>6. /\ gatePath' \in [exists : BOOLEAN, inode : Nat]
      /\ ~gatePath'.exists => ~gatePath.exists
  BY <1>5 DEF CommandsInv, CommandsTypeOK
<1>7. Typed /\ GateIsMissed'
  BY <1>5, <1>6, MaxCommandsAssumption
     DEF Typed, CommandsInv, CommandsTypeOK, GateIsMissed
<1>8. Copied(c) /\ Written(c) /\ Agreed(c)
  BY <1>3, <1>5 DEF CommandsInv, CommandsTypeOK, Copied, Written, Agreed, LegacyFile
<1>9. QED
  BY <1>3, <1>4, <1>7, <1>8 DEF Effect

(* The path of the gate is there again: what holds of its inode stays. *)
LEMMA RemadeEffect ==
    ASSUME CommandsInv, NEW c \in Command, Evolves(c), LocksRight(c), Refused(c),
           command'[c].phase # "copied",
           gatePath' = [gatePath EXCEPT !.exists = TRUE],
           UNCHANGED <<disk, legacy, copies, units, begun>>
    PROVE  Effect(c)
<1>1. /\ gatePath' \in [exists : BOOLEAN, inode : Nat] /\ gatePath'.exists
      /\ gatePath'.inode = gatePath.inode
  BY DEF CommandsInv, CommandsTypeOK
<1>2. Typed /\ GateIsMissed'
  BY <1>1 DEF CommandsInv, CommandsTypeOK, Typed, GateIsMissed
<1>3. Copied(c) /\ Written(c) /\ Agreed(c)
  BY <1>1 DEF CommandsInv, CommandsTypeOK, Copied, Written, Agreed, LegacyFile
<1>4. QED
  BY <1>2, <1>3 DEF Effect

LEMMA ReopenEffect ==
    ASSUME CommandsInv, NEW c \in Command, Reopen(c)
    PROVE  Effect(c)
<1>1. CASE stateDir
  <2> DEFINE p == [command[c] EXCEPT !.phase = "waiting", !.inode = gatePath.inode]
  <2>1. command[c] \in Process /\ Sound(command[c]) /\ gatePath.inode \in Nat
    BY DEF CommandsInv, CommandsTypeOK
  <2>2. p \in Process /\ p.phase = "waiting" /\ Sound(p)
    BY <2>1 DEF Process, Phase, Sound, removedIn, Reopen, at
  <2>3. command' = [command EXCEPT ![c] = p]
    BY <1>1 DEF Reopen, CommandsInv, CommandsTypeOK
  <2>4. Evolves(c) /\ command'[c].phase = "waiting"
    BY <2>2, <2>3, BecomesEvolves
  <2>5. LocksRight(c) /\ Refused(c)
    BY <2>4, NotHolding DEF Holding, Refused
  <2>6. QED
    BY <1>1, <2>4, <2>5, RemadeEffect DEF Reopen
<1>2. CASE ~stateDir
  BY <1>2, EndsQuietly DEF Reopen
<1>3. QED
  BY <1>1, <1>2

LEMMA LockEffect ==
    ASSUME CommandsInv, NEW c \in Command, Lock(c)
    PROVE  Effect(c)
<1>1. command[c] \in Process /\ Sound(command[c]) /\ command[c].phase = "waiting"
  BY DEF CommandsInv, CommandsTypeOK, Lock, at
<1>2. Sound([command[c] EXCEPT !.phase = "held"]) /\ "held" \in Phase
  BY <1>1 DEF Process, Sound, removedIn, Phase, Holding
<1>3. Evolves(c) /\ command'[c] = [command[c] EXCEPT !.phase = "held"]
  BY <1>2, GoesEvolves DEF Lock
<1>4. /\ command'[c].phase = "held" /\ command'[c].kind = command[c].kind
      /\ command'[c].inode = command[c].inode
  BY <1>1, <1>3 DEF Process
<1>5. locksOf(c)' = {command[c].inode}
  BY <1>4 DEF locksOf, holds, Holding, at
<1>6. LocksRight(c)
  <2> SUFFICES ASSUME NEW d \in Command \ {c}
               PROVE  /\ exclusive(c)' /\ holds(d) => command'[c].inode \notin locksOf(d)
                      /\ exclusive(d) /\ holds(c)' => command[d].inode \notin locksOf(c)'
    BY DEF LocksRight
  <2>1. command[c].inode \in locksOf(d) =>
           command[c].kind \notin Maintenance /\ command[d].kind \notin Maintenance
    BY DEF Lock, lockable
  <2>2. holds(d) => command[d].inode \in locksOf(d)
    BY DEF locksOf
  <2>3. QED
    BY <1>4, <1>5, <2>1, <2>2 DEF exclusive
<1>7. Refused(c)
  BY <1>4 DEF Refused
<1>8. QED
  BY <1>3, <1>4, <1>6, <1>7, QuietEffect DEF Lock

(* Every command ends without a trace from where it may be turned down or   *)
(* break down.                                                             *)
LEMMA GateEffect ==
    ASSUME CommandsInv, NEW c \in Command, GateStep(c) \/ Fails(c)
    PROVE  Effect(c)
<1>1. CASE Rejects(c)
  BY <1>1, EndsQuietly DEF Rejects, runs
<1>2. CASE Fails(c)
  BY <1>2, EndsQuietly DEF Fails
<1>3. QED
  BY <1>1, <1>2, ReopenEffect, LockEffect DEF GateStep

LEMMA WritesEffect ==
    ASSUME CommandsInv, NEW c \in Command, NEW d \in SUBSET Dir, writes(c, d), holds(c),
           ~purging(c)
    PROVE  Effect(c)
<1>1. /\ Evolves(c) /\ command'[c].phase = "done" /\ ~command'[c].refused
      /\ disk' = disk \cup d /\ UNCHANGED <<gatePath, legacy, copies, units, begun>>
  BY WritesEvolves
<1>2. LocksRight(c) /\ Refused(c)
  BY <1>1, NotHolding DEF Holding, Refused
<1>3. Typed /\ GateIsMissed'
  BY <1>1 DEF CommandsInv, CommandsTypeOK, Typed, GateIsMissed
<1>4. Copied(c) /\ Written(c) /\ Agreed(c)
  BY <1>1 DEF CommandsInv, CommandsTypeOK, Copied, Written, Agreed, LegacyFile
<1>5. QED
  BY <1>1, <1>2, <1>3, <1>4 DEF Effect

(* The second lock of a status helper is no more at odds with the others    *)
(* than the first.                                                         *)
LEMMA TryGuardEffect ==
    ASSUME CommandsInv, NEW c \in Command, TryGuard(c)
    PROVE  Effect(c)
<1> DEFINE free == stateDir /\ lockable(c, gatePath.inode, "status")
           p == [command[c] EXCEPT !.phase = "guarded", !.guard = gatePath.inode]
<1>1. /\ command[c] \in Process /\ Sound(command[c])
      /\ command[c].phase = "collected" /\ command[c].kind = "status"
      /\ gatePath.inode \in Nat
  BY DEF CommandsInv, CommandsTypeOK, TryGuard, runs
<1>2. CASE free
  <2>1. /\ p \in Process /\ Sound(p) /\ p.phase = "guarded" /\ p.kind = "status"
        /\ p.inode = command[c].inode /\ p.guard = gatePath.inode
    BY <1>1 DEF Process, Phase, Holding, Sound, removedIn
  <2>2. command' = [command EXCEPT ![c] = p]
    BY <1>2 DEF TryGuard, CommandsInv, CommandsTypeOK
  <2>3. Evolves(c) /\ command'[c] = p
    BY <2>1, <2>2, BecomesEvolves
  <2>4. locksOf(c)' = {command[c].inode, gatePath.inode} /\ ~exclusive(c)'
    BY <2>1, <2>3 DEF locksOf, holds, Holding, at, exclusive, Maintenance
  <2>5. \A d \in Command \ {c} : exclusive(d) =>
           command[d].inode # command[c].inode /\ command[d].inode # gatePath.inode
    <3>1. holds(c) /\ command[c].inode \in locksOf(c)
      BY <1>1 DEF holds, Holding, locksOf
    <3>2. \A d \in Command : exclusive(d) => command[d].inode \in locksOf(d)
      BY DEF exclusive, locksOf
    <3>3. \A d \in Command \ {c} : exclusive(d) => command[d].inode \notin locksOf(c)
      BY <3>1 DEF CommandsInv, GateExcludes
    <3>4. \A d \in Command \ {c} : exclusive(d) => gatePath.inode \notin locksOf(d)
      BY <1>2 DEF lockable, exclusive
    <3>5. QED
      BY <3>1, <3>2, <3>3, <3>4
  <2>6. LocksRight(c)
    BY <2>4, <2>5 DEF LocksRight
  <2>7. Refused(c)
    BY <2>1, <2>3 DEF Refused
  <2>8. QED
    BY <1>2, <2>1, <2>3, <2>6, <2>7, RemadeEffect DEF TryGuard
<1>3. CASE ~free
  BY <1>3, EndsQuietly DEF TryGuard
<1>4. QED
  BY <1>2, <1>3

LEMMA WriteEffect ==
    ASSUME CommandsInv, NEW c \in Command, WriteStep(c)
    PROVE  Effect(c)
<1>1. /\ {} \in SUBSET Dir /\ {"backups"} \in SUBSET Dir /\ {"settings"} \in SUBSET Dir
      /\ {"backups", "settings"} \in SUBSET Dir /\ {"cache"} \in SUBSET Dir
  BY DEF Dir
<1>2. CASE Migrate(c) \/ ApplySettings(c) \/ ServeCache(c) \/ WriteCache(c)
  <2>1. holds(c) /\ ~purging(c)
    BY <1>2 DEF Migrate, ApplySettings, ServeCache, WriteCache, runs, holds, Holding, purging
  <2>2. \E d \in SUBSET Dir : writes(c, d)
    BY <1>1, <1>2 DEF Migrate, ApplySettings, ServeCache, WriteCache
  <2>3. QED
    BY <2>1, <2>2, WritesEffect
<1>3. CASE Collect(c)
  <2>1. command[c] \in Process /\ Sound(command[c]) /\ command[c].phase = "held"
    BY <1>3 DEF CommandsInv, CommandsTypeOK, Collect, runs
  <2>2. Sound([command[c] EXCEPT !.phase = "collected"]) /\ "collected" \in Phase
    BY <2>1 DEF Process, Sound, removedIn, Phase, Holding
  <2>3. holds(c)
    BY <2>1 DEF holds, Holding
  <2>4. QED
    BY <1>3, <2>2, <2>3, GoesQuietly DEF Collect
<1>4. QED
  BY <1>2, <1>3, TryGuardEffect DEF WriteStep

-----------------------------------------------------------------------------
LEMMA ResolveToolsEffect ==
    ASSUME CommandsInv, NEW c \in Command, NEW found \in BOOLEAN, ResolveTools(c, found)
    PROVE  Effect(c)
<1>1. command[c] \in Process /\ Sound(command[c]) /\ command[c].phase = "held"
  BY DEF CommandsInv, CommandsTypeOK, ResolveTools, at
<1>2. CASE found
  <2>1. Sound([command[c] EXCEPT !.phase = "resolved"]) /\ "resolved" \in Phase
    BY <1>1 DEF Process, Sound, removedIn, Phase, Holding
  <2>2. holds(c)
    BY <1>1 DEF holds, Holding
  <2>3. QED
    BY <1>2, <2>1, <2>2, GoesQuietly DEF ResolveTools
<1>3. CASE ~found
  BY <1>1, <1>3, EndsQuietly DEF ResolveTools
<1>4. QED
  BY <1>2, <1>3

LEMMA ConfirmEffect ==
    ASSUME CommandsInv, NEW c \in Command, NEW given \in Given, Confirm(c, given)
    PROVE  Effect(c)
<1> DEFINE old == command[c]
           p == [old EXCEPT !.phase = "agreed", !.answer = given,
                            !.owed = IF old.purge THEN disk ELSE {}]
<1>1. /\ old \in Process /\ Sound(old) /\ disk \in SUBSET Dir
      /\ old.phase = "resolved" /\ old.kind = "uninstall"
  BY DEF CommandsInv, CommandsTypeOK, Confirm, runs
<1>2. CASE confirms(old.purge, old.tty, given)
  <2>1. /\ p \in Process /\ p.phase = "agreed"
        /\ p.kind = old.kind /\ p.inode = old.inode
    BY <1>1 DEF Process, Phase, Holding
  <2>2. Sound(p)
    <3>1. old.removed = {}
      BY <1>1 DEF Sound, removedIn
    <3>2. /\ p.purge = old.purge /\ p.tty = old.tty /\ p.answer = given
          /\ p.kind = "uninstall" /\ p.phase = "agreed" /\ p.removed = {}
      BY <1>1, <3>1 DEF Process
    <3> HIDE DEF p
    <3> QED  BY <1>2, <3>2 DEF Sound, removedIn
  <2>3. command' = [command EXCEPT ![c] = p]
    <3>1. command \in [Command -> Process]
      BY DEF CommandsInv, CommandsTypeOK
    <3>2. command' = [command EXCEPT
               ![c].phase = "agreed",
               ![c].owed = IF old.purge THEN disk ELSE {},
               ![c].answer = given]
      BY <1>2 DEF Confirm
    <3> QED  BY <1>1, <3>1, <3>2 DEF Process
  <2>4. Evolves(c) /\ command'[c] = p
    BY <2>1, <2>2, <2>3, BecomesEvolves
  <2>5. LocksRight(c)
    BY <1>1, <2>1, <2>4, KeepsLocks DEF holds, Holding
  <2>6. Refused(c)
    BY <2>1, <2>4 DEF Refused
  <2>7. QED
    BY <2>1, <2>4, <2>5, <2>6, QuietEffect DEF Confirm
<1>3. CASE ~confirms(old.purge, old.tty, given)
  BY <1>1, <1>3, EndsQuietly DEF Confirm
<1>4. QED
  BY <1>2, <1>3

(* A directory goes, at the hands of an uninstall that was agreed to purge.  *)
LEMMA RemovesEffect ==
    ASSUME CommandsInv, NEW c \in Command, NEW d \in Dir, NEW phase \in Phase,
           removes(c, d, phase), d \notin command[c].removed, command[c].purge,
           command[c].phase \in {"agreed", "unsettled", "uncached", "released"},
           phase \in Holding => holds(c),
           phase \notin {"done", "copied", "guarded"},
           Sound([[lessOwed(command[c], {d}) EXCEPT !.phase = phase]
                     EXCEPT !.removed = @ \cup {d}]),
           UNCHANGED <<legacy, units, begun>>,
           \/ UNCHANGED <<gatePath, copies>>
           \/ gatePath' \in [exists : BOOLEAN, inode : Nat \ {0}] /\ copies' = {}
    PROVE  Effect(c)
<1>1. /\ Evolves(c) /\ command'[c].phase = phase
      /\ command'[c].removed = command[c].removed \cup {d}
      /\ command'[c].kind = command[c].kind /\ command'[c].inode = command[c].inode
  BY RemovesEvolves
<1>2. LocksRight(c)
  BY <1>1, KeepsLocks DEF holds
<1>3. disk' = disk \ {d} /\ disk' \in SUBSET Dir
  BY DEF removes, CommandsInv, CommandsTypeOK
<1>4. Typed /\ GateIsMissed'
  BY <1>3 DEF CommandsInv, CommandsTypeOK, Typed, GateIsMissed
<1>5. Copied(c) /\ Refused(c) /\ Written(c)
  BY <1>1, <1>3 DEF CommandsInv, CommandsTypeOK, Copied, Refused, Written, LegacyFile
<1>6. Agreed(c)
  <2>1. command[c].answer \in {"phrase", "purge"}
    BY DEF CommandsInv, Sound, confirms
  <2>2. command'[c].removed # command[c].removed
    BY <1>1
  <2>3. QED
    BY <2>1, <2>2 DEF Agreed
<1>7. QED
  BY <1>1, <1>2, <1>4, <1>5, <1>6 DEF Effect

LEMMA PurgeEffect ==
    ASSUME CommandsInv, NEW c \in Command,
           RemoveSettings(c) \/ RemoveCache(c) \/ RemoveState(c)
    PROVE  Effect(c)
<1> DEFINE old == command[c]
<1>1. old \in Process /\ Sound(old) /\ gatePath \in [exists : BOOLEAN, inode : Nat]
  BY DEF CommandsInv, CommandsTypeOK
<1>2. CASE RemoveSettings(c)
  <2>1. old.phase = "agreed" /\ old.purge /\ old.removed = {}
    BY <1>1, <1>2 DEF RemoveSettings, runs, Sound, removedIn
  <2>2. Sound([[lessOwed(old, {"settings"}) EXCEPT !.phase = "unsettled"]
                  EXCEPT !.removed = @ \cup {"settings"}])
    BY <1>1, <2>1 DEF Process, Sound, removedIn, lessOwed
  <2>3. /\ holds(c) /\ "settings" \in Dir /\ "unsettled" \in Phase
        /\ UNCHANGED <<gatePath, copies>> /\ UNCHANGED <<legacy, units, begun>>
        /\ removes(c, "settings", "unsettled")
    BY <1>2, <2>1 DEF holds, Holding, Dir, Phase, RemoveSettings
  <2>4. QED
    BY <2>1, <2>2, <2>3, RemovesEffect
<1>3. CASE RemoveCache(c)
  <2>1. old.phase = "unsettled" /\ old.purge /\ old.removed = {"settings"}
    BY <1>1, <1>3 DEF RemoveCache, runs, Sound, removedIn
  <2>2. Sound([[lessOwed(old, {"cache"}) EXCEPT !.phase = "uncached"]
                  EXCEPT !.removed = @ \cup {"cache"}])
    BY <1>1, <2>1 DEF Process, Sound, removedIn, lessOwed
  <2>3. /\ holds(c) /\ "cache" \in Dir /\ "uncached" \in Phase
        /\ UNCHANGED <<gatePath, copies>> /\ UNCHANGED <<legacy, units, begun>>
        /\ removes(c, "cache", "uncached")
    BY <1>3, <2>1 DEF holds, Holding, Dir, Phase, RemoveCache
  <2>4. QED
    BY <2>1, <2>2, <2>3, RemovesEffect
<1>4. CASE RemoveState(c)
  <2>1. old.phase = "released" /\ old.purge /\ old.removed = {"settings", "cache"}
    BY <1>1, <1>4 DEF RemoveState, runs, Sound, removedIn
  <2>2. Sound([[lessOwed(old, {"backups"}) EXCEPT !.phase = "purged"]
                  EXCEPT !.removed = @ \cup {"backups"}])
    BY <1>1, <2>1 DEF Process, Sound, removedIn, lessOwed, Dir
  <2>3. gatePath' \in [exists : BOOLEAN, inode : Nat \ {0}] /\ copies' = {}
    BY <1>1, <1>4 DEF RemoveState, CommandsInv, GateIsMissed
  <2>4. /\ "purged" \notin Holding /\ "backups" \in Dir /\ "purged" \in Phase
        /\ UNCHANGED <<legacy, units, begun>>
        /\ removes(c, "backups", "purged")
    BY <1>4 DEF Holding, Dir, Phase, RemoveState
  <2>5. QED
    BY <2>1, <2>2, <2>3, <2>4, RemovesEffect
<1>5. QED
  BY <1>2, <1>3, <1>4

LEMMA ReleaseEffect ==
    ASSUME CommandsInv, NEW c \in Command, Release(c)
    PROVE  Effect(c)
<1>1. /\ command[c] \in Process /\ Sound(command[c])
      /\ command[c].phase = IF command[c].purge THEN "uncached" ELSE "agreed"
  BY DEF CommandsInv, CommandsTypeOK, Release, runs
<1>2. Sound([command[c] EXCEPT !.phase = "released"])
  BY <1>1 DEF Process, Sound, removedIn
<1>3. "released" \in Phase /\ "released" \notin Holding
  BY DEF Phase, Holding
<1>4. QED
  BY <1>2, <1>3, GoesQuietly DEF Release

(* The removal is handed off as it was agreed to. *)
LEMMA HandOffEffect ==
    ASSUME CommandsInv, NEW c \in Command, NEW accepted \in BOOLEAN, HandOff(c, accepted)
    PROVE  Effect(c)
<1> DEFINE old == command[c]
<1>1. ends(c) /\ UNCHANGED <<gatePath, disk, legacy, copies, begun>>
  BY DEF HandOff
<1>2. Evolves(c) /\ command'[c].phase = "done" /\ ~command'[c].refused
  BY <1>1, EndsEvolves
<1>3. LocksRight(c) /\ Refused(c)
  BY <1>2, NotHolding DEF Holding, Refused
<1>4. /\ old \in Process /\ Sound(old)
      /\ \/ old.kind = "update_apply" /\ old.phase = "resolved"
         \/ old.kind = "uninstall" /\ old.purge /\ old.phase = "purged"
         \/ old.kind = "uninstall" /\ ~old.purge /\ old.phase = "released"
  BY DEF CommandsInv, CommandsTypeOK, HandOff, runs
<1>5. Agreed(c)
  <2>1. command'[c] # old
    BY <1>2, <1>4
  <2>2. "remove" \in units' \ units => old.kind = "uninstall"
    BY DEF HandOff
  <2>3. old.kind = "uninstall" =>
           IF old.removed = {} THEN old.answer \in {"phrase", "keep"}
           ELSE old.removed = Dir /\ old.answer \in {"phrase", "purge"}
    BY <1>4 DEF Sound, removedIn, confirms, Dir
  <2>4. QED
    BY <1>1, <2>1, <2>2, <2>3 DEF Agreed
<1>6. Typed /\ GateIsMissed'
  BY <1>1 DEF HandOff, CommandsInv, CommandsTypeOK, Typed, GateIsMissed
<1>7. Copied(c) /\ Written(c)
  BY <1>1, <1>2 DEF CommandsInv, CommandsTypeOK, Copied, Written, LegacyFile
<1>8. QED
  BY <1>2, <1>3, <1>5, <1>6, <1>7 DEF Effect

-----------------------------------------------------------------------------
LEMMA DoctorEffect ==
    ASSUME CommandsInv, NEW c \in Command, DoctorStep(c)
    PROVE  Effect(c)
<1> DEFINE old == command[c]
<1>1. old \in Process /\ Sound(old) /\ {"backups"} \in SUBSET Dir
  BY DEF CommandsInv, CommandsTypeOK, Dir
<1>2. CASE Scan(c)
  <2> DEFINE p == IF removable(legacy) THEN [old EXCEPT !.phase = "listed"] ELSE newborn
  <2>1. old.phase = "started"
    BY <1>2 DEF Scan, runs
  <2>2. p \in Process /\ Sound(p) /\ p.phase \in {"listed", "done"}
        /\ (p.phase = "done" => ~p.refused)
    <3>1. newborn.phase = "done" /\ ~newborn.refused
      BY DEF newborn
    <3>2. /\ [old EXCEPT !.phase = "listed"] \in Process
          /\ Sound([old EXCEPT !.phase = "listed"])
          /\ [old EXCEPT !.phase = "listed"].phase = "listed"
      BY <1>1, <2>1 DEF Process, Phase, Sound, removedIn
    <3>3. QED
      BY <3>1, <3>2, NewbornIsSound
  <2>3. command' = paid([command EXCEPT ![c] = p], {"backups"})
    BY <1>2 DEF Scan, CommandsInv, CommandsTypeOK
  <2> HIDE DEF p
  <2>4. Evolves(c) /\ command'[c] = lessOwed(p, {"backups"})
    BY <1>1, <2>2, <2>3, PaidEvolves
  <2>5. /\ command'[c].phase \in {"listed", "done"}
        /\ command'[c].phase = "done" => ~command'[c].refused
    BY <2>2, <2>4 DEF lessOwed, Process
  <2>6. LocksRight(c) /\ Refused(c)
    BY <2>5, NotHolding DEF Holding, Refused
  <2>7. disk' = disk \cup {"backups"} /\ UNCHANGED <<gatePath, legacy, copies, units, begun>>
    BY <1>2 DEF Scan
  <2>8. Typed /\ GateIsMissed'
    BY <1>1, <2>7 DEF CommandsInv, CommandsTypeOK, Typed, GateIsMissed
  <2>9. Copied(c) /\ Written(c) /\ Agreed(c)
    BY <2>5, <2>7 DEF CommandsInv, CommandsTypeOK, Copied, Written, Agreed, LegacyFile
  <2>10. QED
    BY <2>4, <2>6, <2>8, <2>9 DEF Effect
<1>3. CASE Reclassify(c)
  <2>1. old.phase = "listed"
    BY <1>3 DEF Reclassify, at
  <2>2. Sound([old EXCEPT !.phase = "proved"]) /\ "proved" \in Phase /\ "proved" \notin Holding
    BY <1>1, <2>1 DEF Process, Phase, Holding, Sound, removedIn
  <2>3. QED
    BY <1>3, <2>2, GoesQuietly, EndsQuietly DEF Reclassify
<1>4. CASE BackUp(c) /\ legacy = "missing"
  BY <1>4, EndsQuietly DEF BackUp
<1>5. CASE BackUp(c) /\ legacy # "missing"
  <2> DEFINE p == [old EXCEPT !.phase = "copied"]
  <2>1. old.phase = "proved"
    BY <1>5 DEF BackUp, at
  <2>2. p \in Process /\ Sound(p) /\ p.phase = "copied"
    BY <1>1, <2>1 DEF Process, Phase, Sound, removedIn
  <2>3. command' = paid([command EXCEPT ![c] = p], {"backups"})
    BY <1>5 DEF BackUp, CommandsInv, CommandsTypeOK
  <2> HIDE DEF p
  <2>4. Evolves(c) /\ command'[c] = lessOwed(p, {"backups"})
    BY <1>1, <2>2, <2>3, PaidEvolves
  <2>5. command'[c].phase = "copied"
    BY <2>2, <2>4 DEF lessOwed, Process
  <2>6. LocksRight(c) /\ Refused(c)
    BY <2>5, NotHolding DEF Holding, Refused
  <2>7. /\ disk' = disk \cup {"backups"} /\ copies' = copies \cup {legacy}
        /\ UNCHANGED <<gatePath, legacy, units, begun>>
    BY <1>5 DEF BackUp
  <2>8. Typed /\ GateIsMissed'
    BY <1>1, <2>7 DEF CommandsInv, CommandsTypeOK, Typed, GateIsMissed
  <2>9. Copied(c) /\ Written(c) /\ Agreed(c)
    BY <2>7 DEF CommandsInv, CommandsTypeOK, Copied, Written, Agreed, LegacyFile
  <2>10. QED
    BY <2>4, <2>6, <2>8, <2>9 DEF Effect
<1>6. CASE RemoveLegacy(c)
  <2>1. /\ ends(c) /\ legacy' = "missing" /\ at(c, "copied")
        /\ UNCHANGED <<gatePath, disk, copies, units, begun>>
    BY <1>6 DEF RemoveLegacy
  <2>2. Evolves(c) /\ command'[c].phase = "done" /\ ~command'[c].refused
    BY <2>1, EndsEvolves
  <2>3. LocksRight(c) /\ Refused(c)
    BY <2>2, NotHolding DEF Holding, Refused
  <2>4. Typed /\ GateIsMissed'
    BY <2>1 DEF CommandsInv, CommandsTypeOK, Typed, GateIsMissed, LegacyFile
  <2>5. Copied(c) /\ Written(c) /\ Agreed(c)
    BY <2>1, <2>2 DEF CommandsInv, CommandsTypeOK, Copied, Written, Agreed, LegacyFile
  <2>6. QED
    BY <2>2, <2>3, <2>4, <2>5 DEF Effect
<1>7. QED
  BY <1>2, <1>3, <1>4, <1>5, <1>6 DEF DoctorStep

-----------------------------------------------------------------------------
(* An action of one process keeps the invariant of all. *)
LEMMA EffectKeepsInv ==
    ASSUME CommandsInv, NEW c \in Command, Effect(c)
    PROVE  CommandsInv'
<1>1. PICK d \in SUBSET Dir : \A other \in Command \ {c} :
          command'[other] = lessOwed(command[other], d)
  BY DEF Effect, Evolves
<1>2. \A other \in Command \ {c} :
         /\ command'[other].phase = command[other].phase
         /\ command'[other].kind = command[other].kind
         /\ command'[other].inode = command[other].inode
         /\ command'[other].guard = command[other].guard
  <2> SUFFICES ASSUME NEW other \in Command \ {c}
               PROVE  /\ command'[other].phase = command[other].phase
                      /\ command'[other].kind = command[other].kind
                      /\ command'[other].inode = command[other].inode
                      /\ command'[other].guard = command[other].guard
    OBVIOUS
  <2>1. command[other] \in Process
    BY DEF CommandsInv, CommandsTypeOK
  <2>2. command'[other] = [command[other] EXCEPT !.owed = @ \ d]
    BY <1>1 DEF lessOwed
  <2> QED  BY <2>1, <2>2 DEF Process
<1>3. \A other \in Command \ {c} :
         /\ holds(other)' <=> holds(other)
         /\ exclusive(other)' <=> exclusive(other)
         /\ locksOf(other)' = locksOf(other)
         /\ at(other, "copied")' <=> at(other, "copied")
  BY <1>2 DEF holds, exclusive, locksOf, at
<1>4. CommandsTypeOK'
  BY DEF Effect, Typed, Evolves, CommandsTypeOK
<1>5. (\A o \in Command : Sound(command[o]))'
  <2>1. \A o \in Command \ {c} : Sound(command'[o])
    BY <1>1, LessOwedIsSound DEF CommandsInv, CommandsTypeOK
  <2>2. QED
    BY <2>1 DEF Effect, Evolves
<1>6. GateExcludes'
  <2> SUFFICES ASSUME NEW a \in Command, NEW b \in Command, a # b,
                      exclusive(a)', holds(b)'
               PROVE  command'[a].inode \notin locksOf(b)'
    BY DEF GateExcludes
  <2>1. CASE a = c
    BY <2>1, <1>3 DEF Effect, LocksRight
  <2>2. CASE b = c
    BY <2>2, <1>2, <1>3 DEF Effect, LocksRight
  <2>3. CASE a # c /\ b # c
    BY <2>3, <1>2, <1>3 DEF CommandsInv, GateExcludes
  <2>4. QED
    BY <2>1, <2>2, <2>3
<1>7. CopiesAreKept'
  <2> SUFFICES ASSUME NEW o \in Command, at(o, "copied")', legacy' = "generated"
               PROVE  "generated" \in copies' \/ gatePath'.inode # 0
    BY DEF CopiesAreKept
  <2>1. CASE o = c
    BY <2>1 DEF Effect, Copied, at
  <2>2. CASE o # c
    BY <2>2, <1>3 DEF Effect, Copied, CommandsInv, CopiesAreKept
  <2>3. QED
    BY <2>1, <2>2
<1>8. QED
  BY <1>4, <1>5, <1>6, <1>7 DEF Effect, CommandsInv

LEMMA CommandEffect ==
    ASSUME CommandsInv, NEW c \in Command,
           \/ \E kind \in Kind, purge, tty \in BOOLEAN : Start(c, kind, purge, tty)
           \/ CommandStep(c)
           \/ \E given \in Given : Confirm(c, given)
           \/ Fails(c)
    PROVE  Effect(c)
<1>1. CASE HandOffStep(c)
  BY <1>1, ResolveToolsEffect, PurgeEffect, ReleaseEffect, HandOffEffect DEF HandOffStep
<1>2. QED
  BY <1>1, StartEffect, ConfirmEffect, GateEffect, WriteEffect, DoctorEffect DEF CommandStep

(* Of the steps of the whole, those of a process and those of nobody: the   *)
(* user's edit, a unit of systemd's, a release.                            *)
Elsewhere ==
    /\ UNCHANGED <<gatePath, disk, copies, command, begun>>
    /\ units' \subseteq units
    /\ legacy' \in LegacyFile /\ (legacy' = "generated" => legacy = "generated")

LEMMA ElsewhereKeepsInv == CommandsInv /\ Elsewhere => CommandsInv'
BY DEF CommandsInv, Elsewhere, CommandsTypeOK, GateExcludes, GateIsMissed, CopiesAreKept,
       exclusive, holds, locksOf, at

LEMMA StepIsEffect ==
    ASSUME CommandsInv, [Next]_vars
    PROVE  Elsewhere \/ \E c \in Command : Effect(c)
<1>1. CASE UNCHANGED vars
  BY <1>1 DEF vars, commandVars, Elsewhere, CommandsInv, CommandsTypeOK
<1>2. ASSUME NEW c \in Command, NEW kind \in Kind, NEW purge \in BOOLEAN,
             NEW tty \in BOOLEAN, Begin(c, kind, purge, tty)
      PROVE  Effect(c)
  BY <1>2, StartEffect DEF Begin
<1>3. ASSUME NEW c \in Command, Step(c) \/ Reply(c)
      PROVE  Effect(c)
  BY <1>3, CommandEffect DEF Step, Reply
<1>4. CASE Surprise
  <2>1. CASE \E content \in LegacyFile : UserEdits(content)
    BY <2>1 DEF UserEdits, Elsewhere
  <2>2. CASE \E c \in Command : Fails(c)
    BY <2>2, GateEffect
  <2>3. QED
    BY <1>4, <2>1, <2>2 DEF Surprise
<1>5. CASE Change \/ React
  BY <1>5 DEF Change, React, commandVars, Elsewhere, CommandsInv, CommandsTypeOK
<1>6. CASE \E unit \in {"update", "remove"} : RunUnit(unit)
  BY <1>6 DEF RunUnit, Elsewhere, CommandsInv, CommandsTypeOK
<1>7. QED
  BY <1>1, <1>2, <1>3, <1>4, <1>5, <1>6 DEF Next

-----------------------------------------------------------------------------
(* The theorems *)

IInv == CommandsInv /\ UpdatesInv /\ changes \in 0..MaxEvents

LEMMA InitIInv == Init => IInv
<1> SUFFICES ASSUME Init PROVE IInv
  OBVIOUS
<1>1. CommandsTypeOK
  BY NewbornIsSound, MaxCommandsAssumption DEF Init, CommandsInit, CommandsTypeOK, LegacyFile
<1>2. \A c \in Command : Sound(command[c]) /\ ~holds(c) /\ ~at(c, "copied")
  BY NewbornIsSound DEF Init, CommandsInit, newborn, holds, Holding, at
<1>3. GateExcludes /\ GateIsMissed /\ CopiesAreKept
  BY <1>2 DEF Init, CommandsInit, GateExcludes, GateIsMissed, CopiesAreKept, exclusive
<1>4. UpdatesInv /\ changes \in 0..MaxEvents
  BY InitUpdatesInv, MaxEventsAssumption DEF Init
<1>5. QED
  BY <1>1, <1>2, <1>3, <1>4 DEF IInv, CommandsInv

(* The releases' part of a step. *)
LEMMA NextUpdates ==
    ASSUME [Next]_vars
    PROVE  UNCHANGED updateVars \/ Changes \/ Reactions
              \/ FastForward \/ RemovePlugin \/ AddPlugin
BY DEF Next, vars, Begin, Step, Reply, Surprise, Change, React, RunUnit

LEMMA NextIInv == IInv /\ [Next]_vars => IInv'
<1> SUFFICES ASSUME IInv, [Next]_vars PROVE IInv'
  OBVIOUS
<1>1. CommandsInv'
  BY StepIsEffect, EffectKeepsInv, ElsewhereKeepsInv DEF IInv
<1>2. UpdatesInv'
  BY NextUpdates, UpdatesStep DEF IInv
<1>3. changes' \in 0..MaxEvents
  <2>1. changes' = changes \/ Change
    BY DEF Next, vars, Begin, Step, Reply, Surprise, React, RunUnit
  <2>2. CASE Change
    BY <2>2, MaxEventsAssumption DEF Change, IInv, CommandsInv, CommandsTypeOK
  <2>3. QED
    BY <2>1, <2>2 DEF IInv
<1>4. QED
  BY <1>1, <1>2, <1>3 DEF IInv

LEMMA Invariance == Spec => []IInv
BY InitIInv, NextIInv, PTL DEF Spec

(* Types, and with them the bounds on begun and changes. *)
THEOREM LifecycleTypeCorrect == Spec => []TypeOK
<1>1. IInv => TypeOK
  BY DEF IInv, CommandsInv, UpdatesInv, TypeOK
<1>2. QED
  BY <1>1, Invariance, PTL

(* The gate does what flock promises, across any number of purges that      *)
(* remove its file (ARCH-026).                                             *)
THEOREM GateKeepsOut == Spec => []GateExcludes
<1>1. IInv => GateExcludes
  BY DEF IInv, CommandsInv
<1>2. QED
  BY <1>1, Invariance, PTL

(* Every commit of master installs as one version (BUNDLE-006). *)
THEOREM InstallsAreWhole == Spec => []InstalledIsOneVersion
<1>1. IInv => InstalledIsOneVersion
  BY DEF IInv, UpdatesInv, TreesAreWhole, oneVersion, InstalledIsOneVersion
<1>2. QED
  BY <1>1, Invariance, PTL

(* No check offers what is installed, and what is offered is what an update *)
(* brings, or newer.                                                       *)
THEOREM OffersComeToAnEnd == Spec => OffersEnd
<1>1. ASSUME IInv, [Next]_vars
      PROVE  [/\ answer'.phase = "update_available" /\ check.asking /\ ~check'.asking =>
                    answer'.target > check.installed
              /\ install'.kind = "git" /\ install'.tree # install.tree
                    /\ answer.phase = "update_available" =>
                    install'.tree.receipt.version >= answer.target]_updateVars
  BY <1>1, NextUpdates, UpdatesStep DEF IInv
<1>2. QED
  BY <1>1, Invariance, PTL DEF Spec, OffersEnd

(* While a purge holds the gate, only a holder of another inode writes. *)
THEOREM WritersWait == Spec => WritersAreShutOut
<1>1. ASSUME IInv, [Next]_vars
      PROVE  [\A c \in Command, d \in {"settings", "cache"} :
                purging(c) /\ d \notin disk /\ d \in disk' =>
                   \E w \in Command : holds(w) /\ command[w].inode # command[c].inode]_commandVars
  <2> SUFFICES ASSUME NEW c \in Command, NEW d \in {"settings", "cache"},
                      purging(c), d \notin disk, d \in disk'
               PROVE  \E w \in Command : holds(w) /\ command[w].inode # command[c].inode
    OBVIOUS
  <2>1. PICK w \in Command : Effect(w)
    BY <1>1, StepIsEffect DEF IInv, Elsewhere
  <2>2. holds(w) /\ ~purging(w)
    BY <2>1 DEF Effect, Written
  <2>3. exclusive(c)
    BY <1>1 DEF purging, exclusive, holds, Holding, IInv, CommandsInv, Sound, Maintenance
  <2>4. command[c].inode \notin locksOf(w)
    BY <1>1, <2>2, <2>3 DEF IInv, CommandsInv, GateExcludes
  <2>5. command[w].inode \in locksOf(w)
    BY <2>2 DEF locksOf
  <2>6. QED
    BY <2>2, <2>4, <2>5
<1>2. QED
  BY <1>1, Invariance, PTL DEF Spec, WritersAreShutOut

(* A command that is turned down leaves settings, cache and backups. *)
THEOREM RefusalsRemoveNothing == Spec => FailsClosed
<1>1. ASSUME IInv, [Next]_vars
      PROVE  [\A c \in Command :
                ~at(c, "done") /\ command'[c].phase = "done" /\ command'[c].refused
                   => command[c].removed = {}]_commandVars
  <2> SUFFICES ASSUME NEW c \in Command,
                      ~at(c, "done"), command'[c].phase = "done", command'[c].refused
               PROVE  command[c].removed = {}
    OBVIOUS
  <2>1. PICK w \in Command : Effect(w)
    BY <1>1, StepIsEffect DEF IInv, Elsewhere, at
  <2>2. CASE c = w
    BY <2>1, <2>2 DEF Effect, Refused
  <2>3. CASE c # w
    BY <1>1, <2>1, <2>3
       DEF Effect, Evolves, lessOwed, at, IInv, CommandsInv, CommandsTypeOK, Process
  <2>4. QED
    BY <2>2, <2>3
<1>2. QED
  BY <1>1, Invariance, PTL DEF Spec, FailsClosed

(* Whatever happened before and around a purge, what it owed is gone. *)
THEOREM PurgesAreWhole == Spec => PurgeLeavesNothing
<1>1. ASSUME IInv
      PROVE  \A c \in Command : runs(c, "uninstall", "purged") => command[c].owed = {}
  <2> SUFFICES ASSUME NEW c \in Command, runs(c, "uninstall", "purged")
               PROVE  command[c].owed = {}
    OBVIOUS
  <2>1. command[c].owed \in SUBSET Dir
    BY <1>1 DEF IInv, CommandsInv, CommandsTypeOK, Process
  <2>2. command[c].owed \cap Dir = {}
    BY <1>1 DEF IInv, CommandsInv, Sound, removedIn, runs
  <2>3. QED
    BY <2>1, <2>2
<1>2. ASSUME IInv
      PROVE  [\A c \in Command :
                runs(c, "uninstall", "purged") /\ command'[c].phase = "done"
                   => command[c].owed = {}]_commandVars
  BY <1>1, <1>2
<1>3. QED
  BY <1>2, Invariance, PTL DEF Spec, PurgeLeavesNothing

(* Doctor clean removes no proven file that it has not copied. *)
THEOREM RemovalsAreBackedUp == Spec => ProvenIsBackedUp
<1>1. ASSUME IInv, [Next]_vars
      PROVE  [legacy = "generated" /\ legacy' = "missing" /\ command' # command =>
                "generated" \in copies \/ ~gatePath.exists \/ gatePath.inode # 0]_commandVars
  <2> SUFFICES ASSUME legacy = "generated", legacy' = "missing", command' # command
               PROVE  "generated" \in copies \/ gatePath.inode # 0
    OBVIOUS
  <2>1. PICK w \in Command : Effect(w)
    BY <1>1, StepIsEffect DEF IInv, Elsewhere
  <2>2. QED
    BY <1>1, <2>1 DEF Effect, Copied, IInv, CommandsInv, CopiesAreKept
<1>2. QED
  BY <1>1, Invariance, PTL DEF Spec, ProvenIsBackedUp

(* Nothing goes that the user did not agree to. *)
THEOREM RemovalsAreAgreed == Spec => RemovalIsConsented
<1>1. ASSUME IInv, [Next]_vars
      PROVE  [/\ ~(disk \subseteq disk') =>
                    \E c \in Command : /\ command[c].answer \in {"phrase", "purge"}
                                      /\ command'[c].removed # command[c].removed
              /\ "remove" \in units' \ units =>
                    \E c \in Command :
                       /\ command'[c] # command[c]
                       /\ IF command[c].removed = {}
                          THEN command[c].answer \in {"phrase", "keep"}
                          ELSE command[c].removed = Dir /\ command[c].answer \in {"phrase", "purge"}]_commandVars
  BY <1>1, StepIsEffect DEF IInv, Elsewhere, Effect, Agreed
<1>2. QED
  BY <1>1, Invariance, PTL DEF Spec, RemovalIsConsented
-----------------------------------------------------------------------------
(* Why every command ends: a command is kept at the gate only by one that   *)
(* has it, which is past waiting, and none goes back or round.  (That the   *)
(* steps are taken is for fairness to say.)                                *)

(* How far a command has come. *)
stage ==
    [phase \in Phase |->
        CASE phase = "started" -> 0
          [] phase \in {"waiting", "listed"} -> 1
          [] phase \in {"held", "proved"} -> 2
          [] phase \in {"collected", "resolved", "copied"} -> 3
          [] phase \in {"guarded", "agreed"} -> 4
          [] phase = "unsettled" -> 5
          [] phase = "uncached" -> 6
          [] phase = "released" -> 7
          [] phase = "purged" -> 8
          [] OTHER -> 9]

(* A command's own step takes it on; what another does takes nobody back,   *)
(* and only a new command starts from the beginning.                       *)
CommandsOnlyAdvance ==
    [][\A c \in Command :
         /\ Step(c) \/ Reply(c) => stage[command[c].phase] < stage[command'[c].phase]
         /\ stage[command'[c].phase] < stage[command[c].phase] =>
               at(c, "done") /\ begun' = begun + 1]_vars

(* The stages in order. *)
LEMMA Stages ==
    /\ \A phase \in Phase : stage[phase] \in 0..9
    /\ stage["started"] = 0
    /\ stage["waiting"] = 1 /\ stage["listed"] = 1
    /\ stage["held"] = 2 /\ stage["proved"] = 2
    /\ stage["collected"] = 3 /\ stage["resolved"] = 3 /\ stage["copied"] = 3
    /\ stage["guarded"] = 4 /\ stage["agreed"] = 4
    /\ stage["unsettled"] = 5 /\ stage["uncached"] = 6
    /\ stage["released"] = 7 /\ stage["purged"] = 8 /\ stage["done"] = 9
BY DEF stage, Phase, Holding

(* The phase in which the shapes of an action leave its process. *)
LEMMA PhaseAfter ==
    ASSUME CommandsTypeOK, NEW c \in Command
    PROVE  /\ \A phase : goes(c, phase) => command'[c].phase = phase
           /\ ends(c) \/ refuses(c) => command'[c].phase = "done"
           /\ \A d : writes(c, d) => command'[c].phase = "done"
           /\ \A d, phase : removes(c, d, phase) => command'[c].phase = phase
<1>1. command \in [Command -> Process]
  BY DEF CommandsTypeOK
<1>2. ASSUME NEW phase, goes(c, phase) PROVE command'[c].phase = phase
  BY <1>1, <1>2 DEF goes, Process
<1>3. ASSUME ends(c) \/ refuses(c) PROVE command'[c].phase = "done"
  BY <1>1, <1>3 DEF ends, refuses, newborn
<1>4. ASSUME NEW d, writes(c, d) PROVE command'[c].phase = "done"
  BY <1>1, <1>4 DEF writes, paid, newborn
<1>5. ASSUME NEW d, NEW phase, removes(c, d, phase) PROVE command'[c].phase = phase
  BY <1>1, <1>5 DEF removes, paid, Process
<1> QED  BY <1>2, <1>3, <1>4, <1>5

(* Each of a command's own steps takes it on. *)
LEMMA OwnStepsAdvance ==
    ASSUME CommandsTypeOK, NEW c \in Command,
           CommandStep(c) \/ \E given \in Given : Confirm(c, given)
    PROVE  stage[command[c].phase] < stage[command'[c].phase]
<1>1. command \in [Command -> Process]
  BY DEF CommandsTypeOK
<1>2. CASE GateStep(c)
  <2>1. \/ command[c].phase = "started" /\ command'[c].phase \in {"waiting", "done"}
        \/ command[c].phase = "waiting" /\ command'[c].phase = "held"
    <3>1. CASE Reopen(c)
      <4>1. command'[c].phase \in {"waiting", "done"}
        BY <1>1, <3>1, PhaseAfter DEF Reopen, Process
      <4> QED  BY <3>1, <4>1 DEF Reopen, at
    <3>2. CASE Lock(c)
      BY <3>2, PhaseAfter DEF Lock, at
    <3>3. CASE Rejects(c)
      BY <3>3, PhaseAfter DEF Rejects, runs
    <3> QED  BY <1>2, <3>1, <3>2, <3>3 DEF GateStep
  <2> QED  BY <2>1, Stages
<1>3. CASE WriteStep(c)
  <2>1. \/ command[c].phase = "held" /\ command'[c].phase \in {"collected", "done"}
        \/ command[c].phase = "collected" /\ command'[c].phase \in {"guarded", "done"}
        \/ command[c].phase = "guarded" /\ command'[c].phase = "done"
    <3>1. CASE TryGuard(c)
      <4>1. command'[c].phase \in {"guarded", "done"}
        BY <1>1, <3>1, PhaseAfter DEF TryGuard, Process
      <4> QED  BY <3>1, <4>1 DEF TryGuard, runs
    <3>2. CASE Migrate(c) \/ ApplySettings(c) \/ ServeCache(c)
      BY <3>2, PhaseAfter DEF Migrate, ApplySettings, ServeCache, runs
    <3>3. CASE Collect(c) \/ WriteCache(c)
      BY <3>3, PhaseAfter DEF Collect, WriteCache, runs
    <3> QED  BY <1>3, <3>1, <3>2, <3>3 DEF WriteStep
  <2> QED  BY <2>1, Stages
<1>4. CASE HandOffStep(c)
  <2>1. \/ command[c].phase = "held" /\ command'[c].phase \in {"resolved", "done"}
        \/ command[c].phase = "agreed" /\ command'[c].phase \in {"unsettled", "released"}
        \/ command[c].phase = "unsettled" /\ command'[c].phase = "uncached"
        \/ command[c].phase = "uncached" /\ command'[c].phase = "released"
        \/ command[c].phase = "released" /\ command'[c].phase = "purged"
        \/ command[c].phase \in {"resolved", "purged", "released"}
             /\ command'[c].phase = "done"
    <3>1. CASE \E found \in BOOLEAN : ResolveTools(c, found)
      BY <3>1, PhaseAfter DEF ResolveTools, at
    <3>2. CASE RemoveSettings(c) \/ RemoveCache(c) \/ RemoveState(c)
      BY <3>2, PhaseAfter DEF RemoveSettings, RemoveCache, RemoveState, runs
    <3>3. CASE Release(c)
      BY <3>3, PhaseAfter DEF Release, runs
    <3>4. CASE \E accepted \in BOOLEAN : HandOff(c, accepted)
      BY <3>4, PhaseAfter DEF HandOff, runs
    <3> QED  BY <1>4, <3>1, <3>2, <3>3, <3>4 DEF HandOffStep
  <2> QED  BY <2>1, Stages
<1>5. CASE DoctorStep(c)
  <2>1. \/ command[c].phase = "started" /\ command'[c].phase \in {"listed", "done"}
        \/ command[c].phase = "listed" /\ command'[c].phase \in {"proved", "done"}
        \/ command[c].phase = "proved" /\ command'[c].phase \in {"copied", "done"}
        \/ command[c].phase = "copied" /\ command'[c].phase = "done"
    <3>1. CASE Scan(c)
      <4>1. command'[c].phase \in {"listed", "done"}
        BY <1>1, <3>1 DEF Scan, paid, newborn, Process
      <4> QED  BY <3>1, <4>1 DEF Scan, runs
    <3>2. CASE Reclassify(c)
      BY <3>2, PhaseAfter DEF Reclassify, at
    <3>3. CASE BackUp(c)
      <4>1. command'[c].phase \in {"copied", "done"}
        BY <1>1, <3>3, PhaseAfter DEF BackUp, paid, Process
      <4> QED  BY <3>3, <4>1 DEF BackUp, at
    <3>4. CASE RemoveLegacy(c)
      BY <3>4, PhaseAfter DEF RemoveLegacy, at
    <3> QED  BY <1>5, <3>1, <3>2, <3>3, <3>4 DEF DoctorStep
  <2> QED  BY <2>1, Stages
<1>6. CASE \E given \in Given : Confirm(c, given)
  <2>1. PICK given \in Given : Confirm(c, given)
    BY <1>6
  <2>2. command[c].phase = "resolved" /\ command'[c].phase \in {"agreed", "done"}
    <3>1. command'[c].phase \in {"agreed", "done"}
      BY <1>1, <2>1, PhaseAfter DEF Confirm, Process
    <3> QED  BY <2>1, <3>1 DEF Confirm, runs
  <2> QED  BY <2>2, Stages
<1> QED  BY <1>2, <1>3, <1>4, <1>5, <1>6 DEF CommandStep

(* A command goes from stage to stage until it is done, for any number of   *)
(* them: the gate is taken once and nothing is tried again (cli/mod.rs).    *)
THEOREM CommandsComeCloserToTheirEnd == Spec => CommandsOnlyAdvance
<1> DEFINE Advance == \A c \in Command :
              /\ Step(c) \/ Reply(c) => stage[command[c].phase] < stage[command'[c].phase]
              /\ stage[command'[c].phase] < stage[command[c].phase] =>
                    at(c, "done") /\ begun' = begun + 1
<1>1. ASSUME IInv, [Next]_vars PROVE Advance
  <2>1. CommandsInv /\ CommandsTypeOK
    BY <1>1 DEF IInv, CommandsInv
  <2>2. ASSUME NEW c \in Command, Step(c) \/ Reply(c)
        PROVE  stage[command[c].phase] < stage[command'[c].phase]
    BY <2>1, <2>2, OwnStepsAdvance DEF Step, Reply
  <2>3. ASSUME NEW c \in Command, stage[command'[c].phase] < stage[command[c].phase]
        PROVE  at(c, "done") /\ begun' = begun + 1
    <3>1. /\ command[c] \in Process /\ stage[command[c].phase] \in 0..9
          /\ command'[c].phase # command[c].phase
      BY <2>1, <2>3, Stages DEF CommandsTypeOK, Process
    <3>2. PICK w \in Command :
             \/ \E kind \in Kind, purge, tty \in BOOLEAN : Start(w, kind, purge, tty)
             \/ CommandStep(w)
             \/ \E given \in Given : Confirm(w, given)
             \/ Fails(w)
      BY <1>1, <3>1 DEF Next, vars, commandVars, Begin, Step, Reply, Surprise, UserEdits,
         Change, React, RunUnit
    <3>3. Effect(w)
      BY <2>1, <3>2, CommandEffect
    <3>c. c = w
      BY <2>1, <3>1, <3>3 DEF Effect, Evolves, lessOwed, CommandsTypeOK, Process
    <3>4. CASE \E kind \in Kind, purge, tty \in BOOLEAN : Start(c, kind, purge, tty)
      BY <3>4 DEF Start
    <3>5. CASE CommandStep(c) \/ \E given \in Given : Confirm(c, given)
      <4>1. stage[command[c].phase] < stage[command'[c].phase]
        BY <2>1, <3>5, OwnStepsAdvance
      <4>2. command'[c].phase \in Phase
        BY <3>3, <3>c DEF Effect, Evolves, Process
      <4> QED  BY <2>3, <3>1, <4>1, <4>2, Stages
    <3>6. CASE Fails(c)
      BY <2>1, <2>3, <3>1, <3>6, PhaseAfter, Stages DEF Fails
    <3> QED  BY <3>2, <3>c, <3>4, <3>5, <3>6
  <2> QED  BY <2>2, <2>3
<1>2. IInv /\ [Next]_vars => [Advance]_vars
  BY <1>1
<1> QED  BY Invariance, <1>2, PTL DEF Spec, CommandsOnlyAdvance
=============================================================================
