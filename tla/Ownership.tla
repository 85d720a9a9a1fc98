------------------------------ MODULE Ownership ------------------------------
(***************************************************************************)
(* Whose is this file?  classify_artifact of plugin/ownership.rs, which      *)
(* `doctor` asks before it removes what an older version left behind, and   *)
(* the rules doctor passes to it.  Contents are abstract: equal contents    *)
(* stand for equal hashes.                                                 *)
(***************************************************************************)

(* What classify_artifact finds at a path. *)
FileKind == {"missing", "file", "dir", "symlink", "other"}

OwnershipClass == {"owned_current", "owned_legacy", "modified_legacy",
                   "ambiguous", "unrelated"}

(* rules: current and legacy are sets of <<path, content>>, markers the     *)
(* contents that hold a generated marker, manifest the recorded paths, and  *)
(* named the paths with "agent-bar" in them.                               *)
knownPath(path, rules) ==
    \E pair \in rules.legacy \cup rules.current : pair[1] = path

classify_artifact(path, kind, content, rules) ==
    LET known == kind = "file" /\ knownPath(path, rules)
        marked == kind = "file" /\ content \in rules.markers
    IN  CASE kind = "missing" -> "unrelated"
          [] kind = "symlink" -> "ambiguous"
          [] known -> IF <<path, content>> \in rules.current THEN "owned_current"
                      ELSE IF <<path, content>> \in rules.legacy THEN "owned_legacy"
                      ELSE "modified_legacy"
          [] kind \in {"file", "dir", "other"} /\ ~known ->
                 IF path \in rules.manifest \/ marked THEN "owned_legacy"
                 ELSE IF path \in rules.named THEN "ambiguous"
                 ELSE "unrelated"

(* CLEAN-001: only owned/legacy may be removed without being asked. *)
may_auto_remove(class) == class = "owned_legacy"

(* default_ownership_rules: the only proof `doctor` knows is a marker, and  *)
(* every path it looks at is one of agent-bar's.                           *)
default_ownership_rules(paths, marked) ==
    [current |-> {}, legacy |-> {}, markers |-> marked, manifest |-> {},
     named |-> paths]
=============================================================================
