----------------------------- MODULE Workspace -----------------------------
(***************************************************************************)
(* The files of a workspace and what the explorer does to them             *)
(* (interactive_api.py, _write_file, _delete_file, _make_dir, _rename_file *)
(* and the harness files).  A path is a sequence of names below the root;  *)
(* a tree maps the paths there are to "dir" or to what the file holds.  An *)
(* operation that the system refuses leaves what it did before that.       *)
(***************************************************************************)
EXTENDS Integers, SequencesExt, Functions

NoFiles == << >>

\* The path itself and what is below it.
Below(tree, p) == {q \in DOMAIN tree : IsPrefix(p, q)}

Parents(p) == {SubSeq(p, 1, i) : i \in 1 .. Len(p) - 1}

IsDir(tree, p) == p = <<>> \/ (p \in DOMAIN tree /\ tree[p] = "dir")

With(tree, paths, content) ==
  [q \in DOMAIN tree \cup paths |-> IF q \in paths THEN content ELSE tree[q]]

Without(tree, paths) == Restrict(tree, DOMAIN tree \ paths)

\* os.makedirs of the directory of p: refused where a parent is a file.
CanHold(tree, p) == \A q \in Parents(p) : q \in DOMAIN tree => tree[q] = "dir"

MakeParents(tree, p) == IF CanHold(tree, p) THEN With(tree, Parents(p), "dir") ELSE tree

\* _safe_join: "" is the root itself; other paths stay below it.
WriteFile(tree, p, content) ==
  IF CanHold(tree, p) /\ ~IsDir(tree, p)
  THEN With(MakeParents(tree, p), {p}, content) ELSE MakeParents(tree, p)

DeleteFile(tree, p) == IF p = <<>> THEN tree ELSE Without(tree, Below(tree, p))

MakeDir(tree, p) ==
  IF p = <<>> \/ p \in DOMAIN tree \/ ~CanHold(tree, p) THEN tree
  ELSE With(tree, Parents(p) \cup {p}, "dir")

\* What os.rename lets src become: a file may replace a file, a directory an
\* empty one, and nothing may move into itself.
CanBecome(tree, src, dst) ==
  /\ ~IsPrefix(src, dst)
  /\ dst # <<>>
  /\ dst \in DOMAIN tree =>
       IF IsDir(tree, src) THEN IsDir(tree, dst) /\ Below(tree, dst) = {dst} ELSE ~IsDir(tree, dst)

\* src and what is below it, seen from dst.
Moved(tree, src, dst) ==
  LET moved == {dst \o SubSeq(q, Len(src) + 1, Len(q)) : q \in Below(tree, src)}
      rest == Without(tree, Below(tree, src)) IN
  [q \in DOMAIN rest \cup moved |->
     IF q \in moved THEN tree[src \o SubSeq(q, Len(dst) + 1, Len(q))] ELSE rest[q]]

\* _rename_file: the directory of the destination is made first, and stays
\* when the rename is refused.
RenameFile(tree, src, dst) ==
  LET made == MakeParents(tree, dst) IN
  IF src # <<>> /\ src \notin DOMAIN tree THEN tree
  ELSE IF ~CanHold(tree, dst) \/ ~CanBecome(made, src, dst) THEN made
  ELSE Moved(made, src, dst)

\* shutil.rmtree that ignores errors: what it cannot remove stays, with the
\* directories above it.
Remains(tree) ==
  {Restrict(tree, left) : left \in {l \in SUBSET DOMAIN tree : \A p \in l : Parents(p) \subseteq l}}
===========================================================================
