---------------------------- MODULE MCMigration -----------------------------
(* A fresh database, a release with two numbered scripts, and two            *)
(* development versions of the next one.                                     *)
EXTENDS Migration

File(dir, prefix, text) ==
    [dir |-> dir, prefix |-> prefix, isDir |-> FALSE, wellFormed |-> TRUE, text |-> text]

NoDir == ZeroVersion
MCTimescale == File(NoDir, 0, <<>>)

(* Listings are in no order, and hold what does not belong there. *)
MCPreinstall ==
    << File(NoDir, 2, << <<"CATALOG">> >>), File(NoDir, 1, << <<"DATA">> >>),
       [File(NoDir, 3, <<>>) EXCEPT !.isDir = TRUE] >>

BaseSql == File(NoDir, 21, << <<"DATA", "SERIES">>, <<"DATA">> >>)
MatcherSql == File(NoDir, 20, <<>>)
MCIdempotentToc == <<BaseSql, MatcherSql>>

(* versions/dev/2-dev/{10,2}-x.sql and versions/dev/3-dev/1-x.sql *)
MCVersionFiles ==
    {File(Version(2, <<Dev>>), 10, <<>>), File(Version(2, <<Dev>>), 2, <<>>),
     File(Version(3, <<Dev>>), 1, <<>>)}

MCReleases ==
    {Version(1, <<>>), Version(2, <<Dev, Num(2)>>), Version(2, <<>>), Version(3, <<Dev, Num(1)>>)}

(* 001-users.sql can be repeated.  base.sql creates the procedure drop_chunks *)
(* without OR REPLACE, so it may be repeated only once that is mended.  The  *)
(* version scripts of the next release may be such that they can be.         *)
Repeatable == {MCTimescale, MatcherSql, MCPreinstall[2]}
MCRerunnables ==
    {Repeatable, Repeatable \cup {BaseSql},
     Repeatable \cup {BaseSql} \cup {f \in MCVersionFiles : f.dir.core = 2}}
=============================================================================
