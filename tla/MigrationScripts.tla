-------------------------- MODULE MigrationScripts --------------------------
(* Which scripts a migration runs, and in which order: the operators of      *)
(* pkg/pgmodel/migrate.go.  A file is a record of a directory listing, and a *)
(* script text the sequence of its schema placeholders.                      *)
EXTENDS Integers, Sequences, FiniteSets

(* Semantic versions: a core number and the identifiers of the pre-release,  *)
(* each a number or a word.  Words are given by their alphabetic rank.       *)
Num(n) == [word |-> FALSE, val |-> n]
Word(n) == [word |-> TRUE, val |-> n]
Dev == Word(2)
Ids == [word : BOOLEAN, val : Nat]
Version(core, pre) == [core |-> core, pre |-> pre]
Versions == [core : Nat, pre : Seq(Ids)]
ZeroVersion == Version(0, <<>>)

IdLess(a, b) ==
    IF a.word = b.word THEN a.val < b.val ELSE b.word

(* Of two pre-releases the first difference decides, then the shorter one is *)
(* older; a version without pre-release is younger than its pre-releases.    *)
PreLess(p, q) ==
    /\ p # <<>>
    /\ \/ q = <<>>
       \/ \E i \in 1..Len(q) :
             /\ i <= Len(p) + 1
             /\ \A j \in 1..(i - 1) : p[j] = q[j]
             /\ i > Len(p) \/ IdLess(p[i], q[i])

Less(v, w) == v.core < w.core \/ (v.core = w.core /\ PreLess(v.pre, w.pre))
LessEq(v, w) == v = w \/ Less(v, w)

IsDevRelease(v) == \E i \in 1..Len(v.pre) : v.pre[i] = Dev
-----------------------------------------------------------------------------
(* A finite set in the order of a relation between its members: the k-th    *)
(* has k - 1 others before it.                                               *)
InOrder(S, before) ==
    [k \in 1..Cardinality(S) |->
        CHOOSE x \in S : Cardinality({y \in S : <<y, x>> \in before}) = k - 1]

(* Files with a number, a dash and a name are ordered by the number; others, *)
(* and directories, are left out.                                            *)
Named(entries) == {i \in DOMAIN entries : ~entries[i].isDir /\ entries[i].wellFormed}
orderFilesNaturally(entries) ==
    LET order == InOrder(Named(entries),
                         {p \in Named(entries) \X Named(entries) : entries[p[1]].prefix < entries[p[2]].prefix})
    IN  [k \in DOMAIN order |-> entries[order[k]]]

(* The scripts of a directory: the table of contents decides when the        *)
(* directory has one.                                                        *)
NotDirs(toc) == {i \in DOMAIN toc : ~toc[i].isDir}
inContentsOrder(toc) ==
    LET order == InOrder(NotDirs(toc), {p \in NotDirs(toc) \X NotDirs(toc) : p[1] < p[2]})
    IN  [k \in DOMAIN order |-> toc[order[k]]]
execMigrationDir(entries, toc) ==
    IF toc # <<>> THEN inContentsOrder(toc) ELSE orderFilesNaturally(entries)

(* <directory>.<file number> *)
getMigrationFileVersion(f) ==
    Version(f.dir.core, Append(f.dir.pre, Num(f.prefix)))

(* A migration file belongs to the version it is marked with. *)
InRangeInclusive(from, v, to) == LessEq(from, v) /\ LessEq(v, to)
InRange(from, v, to) == Less(from, v) /\ LessEq(v, to)

(* What is no directory of a version, or has no number in it, is an error,   *)
(* and so are two files of one version, whatever the range.                  *)
Malformed(files) == \E f \in files : ~f.wellFormed
AmbiguousVersions(files) ==
    \E f, g \in files : f # g /\ getMigrationFileVersion(f) = getMigrationFileVersion(g)

(* The files of all version directories whose version is in range, oldest    *)
(* first.                                                                    *)
upgradeVersion(files, from, to) ==
    LET due == {f \in files : InRange(from, getMigrationFileVersion(f), to)}
    IN  InOrder(due, {p \in due \X due : Less(getMigrationFileVersion(p[1]), getMigrationFileVersion(p[2]))})
-----------------------------------------------------------------------------
(* A placeholder is the sequence of its words.  ReplaceAll replaces the text *)
(* of a placeholder wherever it begins one, and leaves the rest standing.    *)
Begins(old, text) == Len(old) <= Len(text) /\ \A i \in 1..Len(old) : text[i] = old[i]
ReplaceText(text, old, new) ==
    [i \in 1..Len(text) |->
        IF Begins(old, text[i])
        THEN <<new>> \o SubSeq(text[i], Len(old) + 1, Len(text[i]))
        ELSE text[i]]

(* The placeholders and their schemas, in the order of the replacements. *)
Schema(name, schema) == [name |-> name, schema |-> schema]
Catalogs ==
    << Schema(<<"CATALOG">>, "_prom_catalog"), Schema(<<"EXT">>, "_prom_ext"),
       Schema(<<"PROM">>, "prom_api"), Schema(<<"SERIES">>, "prom_series"),
       Schema(<<"METRIC">>, "prom_metric") >>
SeriesOfData == Schema(<<"DATA", "SERIES">>, "prom_data_series")
Data == Schema(<<"DATA">>, "prom_data")
Info == Schema(<<"INFO">>, "prom_info")
DataFirst == Catalogs \o <<Data, SeriesOfData, Info>>
Replacements == Catalogs \o <<SeriesOfData, Data, Info>>

(* The text after the first n replacements. *)
ReplacedUpTo(text) ==
    LET after[n \in 0..Len(Replacements)] ==
            IF n = 0 THEN text
            ELSE ReplaceText(after[n - 1], Replacements[n].name, Replacements[n].schema)
    IN  after

replaceSchemaNames(text) == ReplacedUpTo(text)[Len(Replacements)]

Placeholders == {Replacements[n].name : n \in 1..Len(Replacements)}

(* Every placeholder became the schema it names. *)
Resolved(text) ==
    \A i \in 1..Len(text) : \E r \in 1..Len(Replacements) :
        /\ Replacements[r].name = text[i]
        /\ replaceSchemaNames(text)[i] = <<Replacements[r].schema>>
=============================================================================
