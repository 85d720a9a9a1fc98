-------------------------------- MODULE Bundle --------------------------------
(***************************************************************************)
(* The shipped tree and its receipt (plugin/bundle.rs): what `stamp` makes  *)
(* of a checkout and what `validate_tree` accepts.                         *)
(*                                                                         *)
(* Five files stand for the inventory: the helper, whose content is the     *)
(* version it prints; the manifest, whose content is the version it states; *)
(* the terminal script; the preview, stamped from docs/media; and "page"    *)
(* for every other shipped file.  A file's content stands for its hash and  *)
(* its size.  Fields that every writer takes from one constant (schema, id, *)
(* target, contract) are left out of manifest and receipt.                 *)
(***************************************************************************)
EXTENDS Naturals

Shipped    == {"helper", "manifest", "terminal", "preview", "page"}
Executable == {"helper", "terminal"}

(* An entry of the tree.  A link is followed by all that reads or writes    *)
(* through it, and refused by all that looks at what it is.                *)
Entry(Content) == [kind : {"missing", "file", "symlink"}, content : Content,
                   mode : {"0755", "0644"}]

(* A receipt: the version, the least Quickshell it asks for, and of each    *)
(* file its content and mode.                                              *)
noReceipt == [version |-> 0, minimum |-> 0, files |-> {}]

(* A tree: the shipped files, whether the root holds a link besides them,   *)
(* and bundle.json.                                                        *)
Tree(Content, Minimum) ==
    [files : [Shipped -> Entry(Content)], stray : {"none", "symlink"},
     receipt : [version : Content, minimum : Minimum,
                files : SUBSET [path : Shipped, content : Content,
                                mode : {"0755", "0644"}]]]

-----------------------------------------------------------------------------
regular(files) == \A f \in Shipped : files[f].kind = "file"

(* collect_inventory, of files that are all regular. *)
collect_inventory(files) ==
    {[path |-> f, content |-> files[f].content, mode |-> files[f].mode] : f \in Shipped}

validate_manifest_matches(files, version) == files["manifest"].content = version

(* validate_semver_strict, of the version a builder stamps. *)
validate_shape(receipt) == receipt.version # 0

(* BUG: the helper is not asked for its version. *)
Mutant_validate_tree(tree) ==
    /\ tree.stray = "none" /\ regular(tree.files)
    /\ tree.receipt # noReceipt /\ validate_shape(tree.receipt)
    /\ collect_inventory(tree.files) = tree.receipt.files
    /\ validate_manifest_matches(tree.files, tree.receipt.version)
    /\ \A f \in Executable : tree.files[f].mode = "0755"

(* validate_tree: no link, the receipt lists the tree as it is, manifest    *)
(* and helper are of the receipt's version.                                *)
validate_tree(tree) ==
    /\ tree.stray = "none" /\ regular(tree.files)
    /\ tree.receipt # noReceipt /\ validate_shape(tree.receipt)
    /\ collect_inventory(tree.files) = tree.receipt.files
    /\ validate_manifest_matches(tree.files, tree.receipt.version)
    /\ \A f \in Executable : tree.files[f].mode = "0755"
    /\ tree.files["helper"].content = tree.receipt.version

-----------------------------------------------------------------------------
(* fs::copy onto an entry: a link stays a link. *)
copied(entry, content) ==
    [entry EXCEPT !.content = content,
                  !.kind = IF @ = "symlink" THEN "symlink" ELSE "file"]

(* The checks before anything is written, of the files that are not copied. *)
stampable(files) == files["terminal"].kind # "missing" /\ files["page"].kind # "missing"

shippedMode(f) == IF f \in Executable THEN "0755" ELSE "0644"

(* The helper and the preview are copied in, then every mode is set. *)
stampedFiles(files, helper, preview) ==
    LET fresh == [files EXCEPT !["helper"]  = copied(@, helper),
                               !["preview"] = copied(@, preview)]
    IN  [f \in Shipped |-> [fresh[f] EXCEPT !.mode = shippedMode(f)]]

(* stamp, where nothing stops it: the tree with its new bundle.json. *)
stamped(tree, helper, preview, version, minimum) ==
    LET files == stampedFiles(tree.files, helper, preview)
    IN  [tree EXCEPT !.files = files,
             !.receipt = [version |-> version, minimum |-> minimum,
                          files |-> collect_inventory(files)]]

(* It succeeds when it got that far and what it left validates. *)
stamps(tree, helper, preview, version, minimum) ==
    LET files == stampedFiles(tree.files, helper, preview)
    IN  /\ stampable(tree.files) /\ regular(files)
        /\ validate_manifest_matches(files, version)
        /\ validate_tree(stamped(tree, helper, preview, version, minimum))
=============================================================================
