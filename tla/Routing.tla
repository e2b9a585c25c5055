------------------------------ MODULE Routing ------------------------------
(***************************************************************************)
(* Where a file belongs and what the rules say of it: core/pathing.py,     *)
(* core/rules.py, the two listings of core/orchestrator.py and of          *)
(* `filerouter preview`, the duplicate key and the names of exchange_out.  *)
(*                                                                         *)
(* A path is the sequence of its names below the root of the host; the     *)
(* POSIX string of the metadata and the native one of the disk are two     *)
(* writings of it.  Of a name only what the code asks is kept: its lower   *)
(* case, its extension, and its pieces between underscores.                *)
(***************************************************************************)
EXTENDS Naturals, Sequences, SequencesExt

CONSTANTS Name, Extension, Up,
          Fold,     \* lower case of a name
          ExtOf,    \* extension of a name in lower case
          Pieces    \* a name as the sequence of its pieces between underscores

ASSUME RoutingAssumption ==
    /\ Up \notin Name
    /\ Fold \in [Name -> Name] /\ \A n \in Name : Fold[Fold[n]] = Fold[n]
    /\ ExtOf \in [Name -> Extension]
    /\ DOMAIN Pieces = Name

(* The index a loop returns at, zero if it returns nothing.                *)
First(indices) == IF indices = {} THEN 0 ELSE Min(indices)

Path == Seq(Name)
Folder == [alias : Name, path : Path]      \* BaseFolder

-----------------------------------------------------------------------------
(* pathing.py                                                              *)

Owns(base, path) == IsPrefix(base.path, path)

(* identify_base_folder: the longest prefix, the first declared among       *)
(* equals.  Zero stands for ConfigError.                                   *)
Owner(bases, path) ==
    LET owning == {i \in DOMAIN bases : Owns(bases[i], path)}
        Beats(i, j) == \/ Len(bases[i].path) > Len(bases[j].path)
                       \/ Len(bases[i].path) = Len(bases[j].path) /\ i <= j
    IN  IF owning = {} THEN 0 ELSE CHOOSE i \in owning : \A j \in owning : Beats(i, j)

(* relative_path drops the name of the file, _relative_file keeps it.       *)
RelativeFile(base, path) == SubSeq(path, Len(base.path) + 1, Len(path))
RelativeDir(base, path) == Front(RelativeFile(base, path))

(* _validate_relative; an absolute path has no writing here.               *)
SafeRelative(dir) == Up \notin ToSet(dir)

(* business_target                                                         *)
Target(base, dir, name) == base.path \o dir \o <<name>>

(* base_folder_by_alias: the first with the alias, zero for None.          *)
ByAlias(bases, alias) == First({i \in DOMAIN bases : bases[i].alias = alias})

-----------------------------------------------------------------------------
(* rules.py                                                                *)

(* The patterns the documentation uses: ** and **/*, dir/**, *.ext at any   *)
(* depth (fnmatch lets * cross a slash), and **/*.ext, which wants one.    *)
Pattern == [kind : {"everything"}] \cup [kind : {"below"}, dir : Path]
           \cup [kind : {"extension", "deep"}, ext : Extension]

FoldPath(path) == [i \in DOMAIN path |-> Fold[path[i]]]

Match(pattern, path) ==
    \/ pattern.kind = "everything"
    \/ pattern.kind = "below" /\ IsPrefix(FoldPath(pattern.dir), FoldPath(path))
    \/ /\ pattern.kind \in {"extension", "deep"}
       /\ Len(path) > (IF pattern.kind = "deep" THEN 1 ELSE 0)
       /\ ExtOf[Fold[Last(path)]] = pattern.ext

Matching(patterns, path) == {i \in DOMAIN patterns : Match(patterns[i], path)}

(* RuleSet: no pattern of inclusion is that of everything, "**/*".         *)
Included(rules) ==
    IF rules.inclusion = <<>> THEN << [kind |-> "everything"] >> ELSE rules.inclusion

(* is_eligible: exclusion wins.                                            *)
IsEligible(rules, path) ==
    Matching(rules.exclusion, path) = {} /\ Matching(Included(rules), path) # {}

(* eligibility, for `preview`: the verdict, and the pattern it is due to.  *)
Eligibility(rules, path) ==
    LET excluding == First(Matching(rules.exclusion, path))
        including == First(Matching(Included(rules), path))
    IN  [eligible |-> excluding = 0 /\ including # 0,
         excluded |-> excluding # 0,
         pattern  |-> IF excluding # 0 THEN excluding ELSE including]

DirOf(path) == IF path = <<>> THEN <<>> ELSE Front(path)

Applies(rule, alias, path) ==
    /\ rule.alias = alias /\ rule.enabled
    /\ Match(rule.pattern, path) \/ Match(rule.pattern, DirOf(path))

(* encryption_for: the first enabled rule that matches, zero for None.     *)
EncryptionFor(rules, alias, path) ==
    First({i \in DOMAIN rules : Applies(rules[i], alias, path)})

Compresses(rules, alias, path) ==
    \E i \in DOMAIN rules : Applies(rules[i], alias, path)

-----------------------------------------------------------------------------
(* The listings.                                                           *)

Eligible(bases, rules, path) ==
    LET owner == Owner(bases, path)
    IN  owner # 0 /\ IsEligible(rules, RelativeFile(bases[owner], path))

(* collect_outbound walks every base folder in turn: how often it lists a  *)
(* file is the number of base folders above it.                            *)
Walks(bases, path) == {i \in DOMAIN bases : Owns(bases[i], path)}
Collected(bases, rules, path) ==
    IF Eligible(bases, rules, path) THEN Walks(bases, path) ELSE {}

(* cmd_preview walks them too, and takes the one it walks for the owner.   *)
Previewed(bases, rules, path) ==
    {i \in Walks(bases, path) :
        Eligibility(rules, RelativeFile(bases[i], path)).eligible}

Nested(bases) ==
    \E i, j \in DOMAIN bases : i # j /\ IsPrefix(bases[i].path, bases[j].path)

-----------------------------------------------------------------------------
(* DedupIndex._marker: hash, alias and directory in one name, the slashes  *)
(* turned into underscores.  The name of the file is not part of it.       *)

Flat(path) == FlattenSeq([i \in DOMAIN path |-> Pieces[path[i]]])
MarkerKey(content, alias, dir) == <<content>> \o Pieces[alias] \o Flat(dir)

(* The three files of a pair.  collect_inbound and readiness know them by  *)
(* their suffix; backlog_count and preview know the metadata only.         *)
Parts == {"payload", "meta", "sig"}
IsPayload(part) == part \notin {"meta", "sig"}
IsCounted(part) == part # "meta"
=============================================================================
