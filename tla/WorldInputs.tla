----------------------------- MODULE WorldInputs -----------------------------
(***************************************************************************)
(* What a world gives its database to analyse: the workspaces loaded into  *)
(* it, the overlays of the sessions, and the two put together as source    *)
(* roots, the root of each file, and the crate graph.  Every operation     *)
(* rewrites the list of source roots and tells the database what it takes  *)
(* to be new, by comparing it with the list applied before.                *)
(*                                                                         *)
(* A package has one source root, with one file: the root of its crate.    *)
(* The first package of a workspace depends on the second, when there is   *)
(* one.  Each operation runs with the world locked.                        *)
(***************************************************************************)
EXTENDS Integers, Sequences, SequencesExt, FiniteSets, FiniteSetsExt

CONSTANTS Keys,      \* load keys of workspaces
          Sessions,  \* session ids, in the order they are handed out
          MaxFileId  \* MAX_ANALYZED_FILE_ID

ASSUME IdsAssumption == Sessions \subseteq Nat /\ MaxFileId \in Nat

ASSUME FiniteAssumption == IsFiniteSet(Keys) /\ IsFiniteSet(Sessions)

VARIABLES next,     \* NEXT_FILE_ID
          loaded,   \* loaded_workspaces: the load key, and the file of each package
          view,     \* session_workspaces
          overlay,  \* session_overlays: copies of files, and of the crates attached
          base,     \* base_crates and base_max_source_root
          db,       \* source roots (as in applied_source_roots), root of each file, crates;
                    \* history: the length of the last list of roots, and whether a root
                    \* was ever taken for applied that an earlier, longer list had left
          late      \* history: a workspace has come since the overlays were built

vars == <<next, loaded, view, overlay, base, db, late>>

FileIds == 0..MaxFileId
Sizes   == {1, 2}          \* the packages a workspace may have
Paths   == Keys \X Sizes   \* the file of each
NoRoot  == 0

NoOverlay == [files |-> {}, crates |-> {}]
Files(o) == {x.file : x \in o.files}

Registered == {s \in Sessions : view[s] # {}}

-----------------------------------------------------------------------------
(* Mutants. *)

\* The counter moves on by one, however many ids are handed out.
AdvanceOnce(n) == next' = Min({next + 1, MaxFileId + 1})

\* The root of a file is set once.
IsNewFileOnce(d, i, f) == d.rootOf[f] = NoRoot

\* The copies of a crate are looked up by the crate alone.
CopyInAnyOverlay(ovs, s, c) ==
    UNION {{x[2] : x \in {y \in ovs[q].crates : y[1] = c}} : q \in Sessions}

\* Every crate is in view.
VisibleToAll(s, crates) == crates

-----------------------------------------------------------------------------
(* allocate_shared_file_id, for one file after the other; past the last id *)
(* it fails, and what was handed out before is lost.                       *)
Allocate(n) == [i \in 1..n |-> next + i - 1]
Exhausted(n) == next + n > MaxFileId + 1
Advance(n) == next' = Min({next + n, MaxFileId + 1})

-----------------------------------------------------------------------------
(* The database. *)

IsNewFile(d, i, f) == i > Len(d.roots) \/ f \notin d.roots[i]

(* apply_source_roots: a root that was applied at its index before is      *)
(* passed over, and of another one the files it did not have are given it. *)
ApplyRoots(d, roots) ==
    LET passed(i) == i <= Len(d.roots) /\ d.roots[i] = roots[i]
        left(i) == i > d.length /\ passed(i)
        given(f) == {i \in DOMAIN roots : ~passed(i) /\ f \in roots[i] /\ IsNewFile(d, i, f)}
    IN  [roots |-> roots \o SubSeq(d.roots, Len(roots) + 1, Len(d.roots)),
         length |-> Len(roots),
         stale |-> (d.stale \/ \E i \in DOMAIN roots : left(i)),
         rootOf |-> [f \in FileIds |-> IF given(f) = {} THEN d.rootOf[f] ELSE Max(given(f))],
         graph |-> d.graph]

InItsRoot(d, f) == d.rootOf[f] \in DOMAIN d.roots /\ f \in d.roots[d.rootOf[f]]

(* base_input_change: the roots and crates of the workspaces, and of       *)
(* nothing else.                                                           *)
BaseFiles(ws) == UNION {ToSet(ws[i].files) : i \in DOMAIN ws}

BaseRoots(ws) ==
    FlattenSeq([i \in DOMAIN ws |-> [n \in DOMAIN ws[i].files |-> {ws[i].files[n]}]])

BaseGraph(ws) ==
    [crates |-> BaseFiles(ws),
     deps |-> {<<w.files[1], w.files[2]>> : w \in {v \in ToSet(ws) : Len(v.files) = 2}}]

ApplyBase(d, ws) == [ApplyRoots(d, BaseRoots(ws)) EXCEPT !.graph = BaseGraph(ws)]

(* refresh_base_inputs *)
BaseInputs(d, ws, ovs) ==
    [crates |-> d.graph.crates \ UNION {Files(ovs[s]) : s \in Sessions},
     max |-> Max({d.rootOf[f] : f \in BaseFiles(ws)})]

-----------------------------------------------------------------------------
(* The overlays' part of it. *)

(* base_file_for_vfs_path_in, as a set.                                    *)
BaseFileOf(ws, v, p) ==
    {ws[i].files[p[2]] : i \in {j \in v : ws[j].key = p[1] /\ p[2] \in DOMAIN ws[j].files}}

(* populate_overlay_crates, for every file there is a copy of: its crate,  *)
(* when the path of the crate's root is known.                             *)
Populate(d, ws, v, files) ==
    UNION {{<<c, x.file>> : c \in {b \in BaseFileOf(ws, v, x.path) :
                                      b \in d.graph.crates /\ InItsRoot(d, b)}} : x \in files}

(* The copy a session has of a crate, as a set.                            *)
CopyIn(ovs, s, c) == {x[2] : x \in {y \in ovs[s].crates : y[1] = c}}

(* overlay_crate_graph: a copy depends on the session's own copy of a      *)
(* crate, else on the shared crate.                                        *)
OverlayGraph(d, b, ovs) ==
    LET resolved(s, c) == IF CopyIn(ovs, s, c) # {} THEN CopyIn(ovs, s, c) ELSE {c} \cap b.crates
        depsOf(c) == {e[2] : e \in {f \in d.graph.deps : f[1] = c}}
        copied == UNION {{s} \X ovs[s].crates : s \in Sessions}
    IN  [crates |-> b.crates \cup {x[2][2] : x \in copied},
         deps |-> (d.graph.deps \cap (b.crates \X b.crates))
                    \cup UNION {{x[2][2]} \X UNION {resolved(x[1], c) : c \in depsOf(x[2][1])}
                                : x \in copied}]

(* The order of the maps the code goes through: at i the element that has  *)
(* i elements up to it.                                                    *)
Ascending(S) ==
    [i \in 1..Cardinality(S) |-> CHOOSE x \in S : Cardinality({y \in S : y <= x}) = i]

(* The source roots of an overlay: one for each base root it has copies of. *)
RootsOfCopies(o) ==
    LET roots == Ascending({x.root : x \in o.files})
    IN  [i \in DOMAIN roots |-> {x.file : x \in {y \in o.files : y.root = roots[i]}}]

(* overlay_source_roots: the base roots as the database has them, and the  *)
(* roots of the sessions' overlays.                                        *)
OverlayRoots(d, b, ovs) ==
    LET order == Ascending(Sessions)
    IN  SubSeq(d.roots, 1, b.max)
          \o FlattenSeq([i \in DOMAIN order |-> RootsOfCopies(ovs[order[i]])])

(* rebuild_overlay_inputs *)
Rebuild(d, b, ovs) ==
    [ApplyRoots(d, OverlayRoots(d, b, ovs)) EXCEPT !.graph = OverlayGraph(d, b, ovs)]

(* What an operation that ends with a rebuild leaves.                      *)
Rebuilt(d, b, ovs) ==
    /\ overlay' = ovs
    /\ db' = Rebuild(d, b, ovs)
    /\ late' = FALSE

-----------------------------------------------------------------------------
Init ==
    /\ next = 0
    /\ loaded = <<>>
    /\ view = [s \in Sessions |-> {}]
    /\ overlay = [s \in Sessions |-> NoOverlay]
    /\ base = [crates |-> {}, max |-> NoRoot]
    /\ db = [roots |-> <<>>, length |-> 0, stale |-> FALSE,
             rootOf |-> [f \in FileIds |-> NoRoot],
             graph |-> [crates |-> {}, deps |-> {}]]
    /\ late = FALSE

IndexOf(k) == {i \in DOMAIN loaded : loaded[i].key = k}

(* prepare_loaded_workspace: each file of the load gets a fresh id; one    *)
(* that gets none fails the load, when that is over.                       *)
Prepared(n) == ~Exhausted(n) /\ Advance(n)

LoadFails(n) ==
    /\ next <= MaxFileId
    /\ Exhausted(n)
    /\ Advance(n)
    /\ UNCHANGED <<loaded, view, overlay, base, db, late>>

(* commit_workspace_inner, of a workspace that was not there.  The inputs  *)
(* of the overlays are not built again.                                    *)
Load(k, n) ==
    /\ IndexOf(k) = {}
    /\ Prepared(n)
    /\ loaded' = Append(loaded, [key |-> k, files |-> Allocate(n)])
    /\ db' = ApplyBase(db, loaded')
    /\ base' = BaseInputs(db', loaded', overlay)
    /\ late' = (late \/ \E s \in Sessions : overlay[s].files # {})
    /\ UNCHANGED <<view, overlay>>

(* recone_session_overlays: of a session's copies those stay that have a   *)
(* base file and another text than that, which is up to the disk.          *)
Recone(d, ws, s, same) ==
    LET baseOf(x) == BaseFileOf(ws, view[s], x.path)
        kept == {x \in overlay[s].files : x.file \notin same /\ baseOf(x) # {}}
        files == UNION {{[x EXCEPT !.root = d.rootOf[b]] : b \in baseOf(x)} : x \in kept}
    IN  [files |-> files, crates |-> Populate(d, ws, view[s], files)]

(* The same for a workspace that is there, which is replaced.              *)
Reload(k, n, same) ==
    /\ Prepared(n)
    /\ \E i \in IndexOf(k) : loaded' = [loaded EXCEPT ![i].files = Allocate(n)]
    /\  LET d == ApplyBase(db, loaded')
            b == BaseInputs(d, loaded', overlay)
            ovs == [s \in Sessions |-> Recone(d, loaded', s, same)]
        IN  /\ base' = b
            /\ Rebuilt(d, b, ovs)
    /\ UNCHANGED view

-----------------------------------------------------------------------------
(* register_session and set_session_workspaces.                            *)
Register(s, v) ==
    /\ view[s] = {}
    /\ \A q \in Registered : q < s
    /\ view' = [view EXCEPT ![s] = v]
    /\ UNCHANGED <<next, loaded, overlay, base, db, late>>

Unregister(s) ==
    /\ s \in Registered
    /\ view' = [view EXCEPT ![s] = {}]
    /\  LET ovs == [overlay EXCEPT ![s] = NoOverlay]
        IN  IF overlay[s].files = {}
            THEN UNCHANGED <<overlay, db, late>>
            ELSE Rebuilt(db, base, ovs)
    /\ UNCHANGED <<next, loaded, base>>

ExclusiveTo(s, i) == \A q \in Sessions \ {s} : i \notin view[q]

(* sync_session_overlay, where the files with edits change or a cone is to *)
(* be attached; ps are the paths of the files that have edits and are not  *)
(* edited directly, in a workspace that somebody else has in view.         *)
Editable(s) ==
    {p \in Paths : \E i \in view[s] : /\ ~ExclusiveTo(s, i)
                                      /\ loaded[i].key = p[1] /\ p[2] \in DOMAIN loaded[i].files}

Changes(s, ps, attach) ==
    \/ ps # {x.path : x \in overlay[s].files}
    \/ attach /\ overlay[s].crates = {} /\ ps # {}

Kept(s, ps) == {x \in overlay[s].files : x.path \in ps}
Added(s, ps) == ps \ {x.path : x \in overlay[s].files}

Sync(s, ps, allow) ==
    /\ Changes(s, ps, allow)
    /\  LET added == SetToSeq(Added(s, ps))
            new == Allocate(Len(added))
            baseOf(p) == CHOOSE b \in BaseFileOf(loaded, view[s], p) : TRUE
            rootOf(p) == db.rootOf[baseOf(p)]
            files == {[x EXCEPT !.root = rootOf(x.path)] : x \in Kept(s, ps)}
                       \cup {[path |-> added[i], file |-> new[i], root |-> rootOf(added[i])]
                             : i \in DOMAIN added}
            attach == allow \/ overlay[s].crates # {}
            crates == IF attach THEN Populate(db, loaded, view[s], files) ELSE {}
            ovs == [overlay EXCEPT ![s] = [files |-> files, crates |-> crates]]
        IN  /\ Prepared(Len(added))
            /\ Rebuilt(db, base, ovs)
    /\ UNCHANGED <<loaded, view, base>>

(* No id is left for a copy: the overlay has been taken out of the world   *)
(* and is lost, while its inputs stay.                                     *)
SyncFails(s, ps, allow) ==
    /\ Changes(s, ps, allow)
    /\ Exhausted(Cardinality(Added(s, ps)))
    /\ Advance(Cardinality(Added(s, ps)))
    /\ overlay' = [overlay EXCEPT ![s] = NoOverlay]
    /\ UNCHANGED <<loaded, view, base, db, late>>

-----------------------------------------------------------------------------
Next ==
    \/ \E k \in Keys, n \in Sizes : Load(k, n)
    \/ \E k \in Keys, n \in Sizes : \E same \in SUBSET UNION {Files(overlay[s]) : s \in Sessions} :
          Reload(k, n, same)
    \/ \E n \in Sizes : LoadFails(n)
    \/ \E s \in Sessions :
          \/ \E v \in (SUBSET DOMAIN loaded) \ {{}} : Register(s, v)
          \/ Unregister(s)
          \/ s \in Registered /\ \E ps \in SUBSET Editable(s), allow \in BOOLEAN :
                Sync(s, ps, allow) \/ SyncFails(s, ps, allow)

Spec == Init /\ [][Next]_vars

-----------------------------------------------------------------------------
(* visible_crate_roots_for_session: the crates of the workspaces in view   *)
(* that the session has no copy of, and the copies.                        *)
Visible(s) ==
    LET copied == {x[1] : x \in overlay[s].crates}
        inView == UNION {ToSet(loaded[i].files) : i \in view[s]}
    IN  ((base.crates \cap inView) \ copied) \cup {x[2] : x \in overlay[s].crates}

(* RootDatabase::is_crate_visible and its like, given those crate roots.   *)
VisibleOf(s, crates) == crates \cap Visible(s)

(* SearchScope::reverse_dependencies: the files in the source roots of the *)
(* crates in view that depend on a crate, and of itself.                   *)
SearchScope(s, c) ==
    LET dependents == {c} \cup {e[1] : e \in {f \in db.graph.deps : f[2] = c}}
    IN  UNION {db.roots[db.rootOf[d]] : d \in VisibleOf(s, dependents)}

(* SharedFileMappings: the file a session's path stands for, its copy      *)
(* before the workspace's file; a set of one, or of none.                  *)
FileAt(s, p) ==
    LET copies == {x.file : x \in {y \in overlay[s].files : y.path = p}}
    IN  IF copies # {} THEN copies ELSE BaseFileOf(loaded, view[s], p)

(* source_root_parent_map counts the roots of a workspace from where those *)
(* of the workspaces before it end.                                        *)
Offset(i) == Len(BaseRoots(SubSeq(loaded, 1, i - 1)))

(* source_root_for_path: the root of the path's file, or for a path that   *)
(* is no file, that of the nearest one.                                    *)
SourceRootForPath(s, p) ==
    LET near == {i \in view[s] : loaded[i].key = p[1]}
        file == BaseFileOf(loaded, view[s], p)
    IN  {db.rootOf[f] : f \in IF file # {} THEN file ELSE {Head(loaded[i].files) : i \in near}}

(* ratoml_files: the roots for which the settings in a session's copies    *)
(* are read.                                                               *)
SettingsRoots(s, p) == {x.root : x \in {y \in overlay[s].files : y.path = p}}

(* No two of the files of the workspaces and of the overlays have one id.  *)
IdsDiffer ==
    /\ \A i, j \in DOMAIN loaded :
         \A m \in DOMAIN loaded[i].files, n \in DOMAIN loaded[j].files :
            loaded[i].files[m] = loaded[j].files[n] => i = j /\ m = n
    /\ \A s, q \in Sessions : \A x \in overlay[s].files, y \in overlay[q].files :
         x.file = y.file => s = q /\ x = y
    /\ \A s \in Sessions : Files(overlay[s]) \cap BaseFiles(loaded) = {}

(* The variables have their types; an id is handed out before it is used,  *)
(* and only once (the promise of one id space in allocate_shared_file_id). *)
TypeOK ==
    /\ next \in 0..MaxFileId + 1
    /\ \A i \in DOMAIN loaded :
        loaded[i].key \in Keys /\ Len(loaded[i].files) \in Sizes
    /\ view \in [Sessions -> SUBSET DOMAIN loaded]
    /\ late \in BOOLEAN
    /\ BaseFiles(loaded) \cup UNION {Files(overlay[s]) : s \in Sessions} \subseteq 0..next - 1
    /\ IdsDiffer

(* Every crate a session sees is a crate the database has, and the file a  *)
(* session's path stands for is in the source root the database gives for  *)
(* it, or the file has no path and its crate no modules (path_for_file).   *)
(* Two things break it in the code.  A workspace that comes after the      *)
(* overlays takes the places of their source roots and their crates out of *)
(* the graph, and these are not built again (commit_workspace_inner):      *)
(* until they are, the copies are left out here.  And applied_source_roots *)
(* is never cut: when the list has been shorter for a while, a root may    *)
(* equal the one left at its index from before, and is passed over, though *)
(* its file has moved.  For the settings in a rust-analyzer.toml the code  *)
(* finds the root of a path in three ways, which must give the same.       *)
LinkedApart ==
    ~db.stale => \A s \in Sessions :
        LET built == FileIds \ (IF late THEN Files(overlay[s]) ELSE {})
        IN  /\ Visible(s) \cap built \subseteq db.graph.crates
            /\ \A p \in Paths :
                /\ \A f \in FileAt(s, p) \cap built : InItsRoot(db, f)
                /\ SettingsRoots(s, p) \subseteq SourceRootForPath(s, p)
                /\ SourceRootForPath(s, p) \subseteq
                     UNION {Offset(i) + 1..Offset(i) + Len(loaded[i].files)
                            : i \in {j \in view[s] : loaded[j].key = p[1]}}

(* No crate depends on a copy that another session made, or that session's *)
(* unsaved text would be in its answers; and a session's copy depends on   *)
(* the session's copy of each dependency it has a copy of, or the session  *)
(* would not see its own edit from there (overlay_crate_graph).            *)
CratesResolve ==
    \A s \in Sessions :
        /\ \A e \in db.graph.deps : e[2] \in Files(overlay[s]) => e[1] \in Files(overlay[s])
        /\ ~late => \A x \in overlay[s].crates, y \in overlay[s].crates :
                        <<x[2], y[1]>> \notin db.graph.deps

(* A search from a crate a session sees, through those that depend on it,  *)
(* goes through the session's copies and the files it has in view, and no  *)
(* others (SearchScope::reverse_dependencies).                             *)
SearchInView ==
    ~late /\ ~db.stale => \A s \in Sessions : \A c \in Visible(s) :
        SearchScope(s, c) \subseteq
            Files(overlay[s]) \cup UNION {BaseFileOf(loaded, view[s], p) : p \in Paths}
=============================================================================
