---------------------------- MODULE PluginUpdates ----------------------------
(***************************************************************************)
(* From a merge to an installed update: the release job that stamps the tip *)
(* of master (bin/agent-bar-bundle.rs on top of Bundle), the update check   *)
(* that reads the published receipt (UpdateCheck::run and, in the panel,    *)
(* maintenanceUiFromCheck) and what omarchy does to the installed tree.     *)
(*                                                                         *)
(* Releases are numbered from 1; the content of a file is the release it    *)
(* was made for.  A helper carries the minimum Quickshell of its sources,   *)
(* which is the minimum in the receipt of its release.                     *)
(***************************************************************************)
EXTENDS Sequences, Bundle

CONSTANT MaxRelease     \* bound: releases

ASSUME MaxReleaseAssumption == MaxRelease \in Nat \ {0}

VARIABLES
    master,     \* the tip of master: tree, preview source, minimum Quickshell
    released,   \* the released trees
    install,    \* the installed plugin: a git checkout, a plain tree or none
    check,      \* the update check under way
    answer      \* what the panel made of the last one

updateVars == <<master, released, install, check, answer>>

-----------------------------------------------------------------------------
Versions == 0..MaxRelease
Minimums == 1..2
SomeTree == Tree(Versions, 0..2)

entry(release, mode) == [kind |-> "file", content |-> release, mode |-> mode]

released_tree(release, minimum) ==
    LET files == [f \in Shipped |-> entry(release, shippedMode(f))]
    IN  [files |-> files, stray |-> "none",
         receipt |-> [version |-> release, minimum |-> minimum,
                      files |-> collect_inventory(files)]]

noTree == released_tree(0, 0)
idle   == [asking |-> FALSE, version |-> 0, minimum |-> 0, reinstall |-> FALSE,
           installed |-> 0]

(* What a check knows: its helper's version and minimum, whether an update   *)
(* can reach its plugin; and, for the properties, the version installed.    *)
Asked == [asking : BOOLEAN, version : Versions, minimum : 0..2,
          reinstall : BOOLEAN, installed : Versions]

(* The phases of the panel that a check leads to. *)
Answer == {"idle", "update_available", "up_to_date", "reinstall_required", "error"}

UpdatesTypeOK ==
    /\ master \in [tree : SomeTree, preview : Versions,
                   minimum : Minimums]
    /\ released \in Seq(SomeTree) /\ Len(released) \in 1..MaxRelease
    /\ install \in [kind : {"git", "tree", "none"}, tree : SomeTree]
    /\ check \in Asked
    /\ answer \in [phase : Answer, target : Versions]

(* One release, installed as a checkout. *)
UpdatesInit ==
    LET first == released_tree(1, 1)
    IN  /\ master = [tree |-> first, preview |-> 1, minimum |-> 1]
        /\ released = <<first>>
        /\ install = [kind |-> "git", tree |-> first]
        /\ check = idle
        /\ answer = [phase |-> "idle", target |-> 0]

-----------------------------------------------------------------------------
(* What a merge may do to one file, or to the root beside the shipped files: *)
(* take a file away, lose its mode, make it a link.                         *)
blemish(file, kind, stray) ==
    [file |-> file, kind |-> kind, mode |-> "0644", stray |-> stray]

Blemishes == {blemish("page", "missing", "none"), blemish("terminal", "file", "none"),
              blemish("preview", "symlink", "none"), blemish("page", "file", "symlink")}

next == Len(released) + 1

(* A pull request changes the sources and mends what the last one broke; it *)
(* leaves the stamped artifacts alone.                                     *)
Merge(b, minimum) ==
    LET mended == [f \in Shipped |-> [master.tree.files[f] EXCEPT
            !.kind = "file", !.mode = shippedMode(f)]]
    IN  /\ next \in Versions /\ minimum >= master.minimum
        /\ master' = [
              tree |-> [master.tree EXCEPT
                  !.files = [mended EXCEPT
                      !["page"].content = next,
                      ![b.file].kind = b.kind,
                      ![b.file].mode = b.mode],
                  !.stray = b.stray],
              preview |-> next, minimum |-> minimum]
        /\ UNCHANGED <<released, install, check, answer>>

(* cut-release: the manifest's version, which must be the last release's.   *)
bumped(tree) == [tree EXCEPT !.files["manifest"].content = next]

(* The release commit adds the stamped artifacts, bundle.json among them,   *)
(* and no other file whose mode the stamp has set.                         *)
Committed == {"helper", "manifest", "preview"}

pushed(cut, tree) ==
    [tree EXCEPT !.files = [f \in Shipped |->
        IF f \in Committed THEN tree.files[f] ELSE cut.files[f]]]

(* The release job that follows a merge: cut, build, stamp, push.  The stamp *)
(* takes the helper it finds under target/, which an earlier build may have *)
(* left there.  A push that master has overtaken is refused and changes     *)
(* nothing.                                                                *)
StampAndPush(helper) ==
    LET cut  == bumped(master.tree)
        tree == pushed(cut, stamped(cut, helper, master.preview, next, master.minimum))
    IN  /\ master.preview = next /\ helper \in {next, next - 1}
        /\ validate_manifest_matches(master.tree.files, next - 1)
        /\ stamps(cut, helper, master.preview, next, master.minimum)
        /\ released' = Append(released, tree)
        /\ master' = [master EXCEPT !.tree = tree]
        /\ UNCHANGED <<install, check, answer>>

-----------------------------------------------------------------------------
ownMinimum(version) == released[version].receipt.minimum

(* The helper asks with its own version and minimum (UpdateCheckProbe), and *)
(* looks whether its plugin is a checkout (reinstall_required).             *)
StartCheck ==
    /\ ~check.asking /\ install.kind # "none"
    /\ LET version == install.tree.files["helper"].content
       IN  check' = [asking |-> TRUE, version |-> version,
                     minimum |-> ownMinimum(version),
                     reinstall |-> install.kind # "git",
                     installed |-> install.tree.files["manifest"].content]
    /\ UNCHANGED <<master, released, install, answer>>

(* A receipt that asks for more Quickshell than the helper knows of is      *)
(* nothing to offer, nor is one that is not newer.                          *)
offers(version, minimum, reinstall, receipt) ==
    ~reinstall /\ minimum >= receipt.minimum /\ receipt.version > version

(* UpdateCheckDocument::validate: a document that describes a receipt has   *)
(* the helper's own minimum in it.                                         *)
valid(minimum, reinstall, receipt) ==
    reinstall \/ minimum <= receipt.minimum

(* A receipt comes back, as old as the network's caches make it. *)
AnswerCheck(release) ==
    LET receipt == released[release].receipt
        offered == offers(check.version, check.minimum, check.reinstall, receipt)
        phase == IF ~valid(check.minimum, check.reinstall, receipt) THEN "error"
                 ELSE IF check.reinstall THEN "reinstall_required"
                 ELSE IF offered THEN "update_available" ELSE "up_to_date"
    IN  /\ check.asking
        /\ check' = idle
        /\ answer' = [phase |-> phase,
                      target |-> IF phase = "error" THEN answer.target
                                 ELSE IF offered THEN receipt.version ELSE 0]
        /\ UNCHANGED <<master, released, install>>

(* No answer, or none that can be used. *)
FailCheck ==
    /\ check.asking
    /\ check' = idle
    /\ answer' = [answer EXCEPT !.phase = "error"]
    /\ UNCHANGED <<master, released, install>>

-----------------------------------------------------------------------------
(* What the shell's plugin manager does (code outside this repository). *)

(* omarchy plugin update: a checkout is fast-forwarded to the tip. *)
FastForward ==
    /\ install' = IF install.kind = "git" THEN [install EXCEPT !.tree = master.tree]
                  ELSE install
    /\ UNCHANGED <<master, released, check, answer>>

(* omarchy plugin remove. *)
RemovePlugin ==
    /\ install' = [kind |-> "none", tree |-> noTree]
    /\ UNCHANGED <<master, released, check, answer>>

(* omarchy plugin add, a clone of the tip; or a release unpacked by hand. *)
AddPlugin ==
    /\ install.kind = "none"
    /\ \/ install' = [kind |-> "git", tree |-> master.tree]
       \/ install' = [kind |-> "tree", tree |-> released[Len(released)]]
    /\ UNCHANGED <<master, released, check, answer>>

-----------------------------------------------------------------------------
Changes ==
    \/ \E b \in Blemishes, minimum \in Minimums : Merge(b, minimum)
    \/ StartCheck

Reactions ==
    \/ \E helper \in Versions : StampAndPush(helper)
    \/ \E release \in 1..Len(released) : AnswerCheck(release)
    \/ FailCheck

-----------------------------------------------------------------------------
(* Helper, manifest and receipt of what is installed are of one version, on *)
(* whatever commit of master it was installed (BUNDLE-006).                 *)
InstalledIsOneVersion ==
    install.kind # "none" =>
        /\ install.tree.files["helper"].content = install.tree.receipt.version
        /\ install.tree.files["manifest"].content = install.tree.receipt.version

(* Offers come to an end: a check never offers what was installed when it   *)
(* began, or older, however stale the receipt; and the update that follows  *)
(* an offer installs what was offered, or newer.                           *)
OffersEnd ==
    [][/\ answer'.phase = "update_available" /\ check.asking /\ ~check'.asking =>
             answer'.target > check.installed
       /\ install'.kind = "git" /\ install'.tree # install.tree
             /\ answer.phase = "update_available" =>
             install'.tree.receipt.version >= answer.target]_updateVars
-----------------------------------------------------------------------------
(* A statement of the repository that the release job does not keep:        *)
(* auto-release.yml, "the repository root is always the complete            *)
(* installable plugin tree": the tree of every release validates.           *)
ReleasesValidate == \A n \in 1..Len(released) : validate_tree(released[n])
=============================================================================
