------------------------------- MODULE MCCrawl -------------------------------
(***************************************************************************)
(* A small instance of Crawl for TLC: one repository with two plugins.     *)
(***************************************************************************)
EXTENDS Crawl, TLC

CONSTANTS r1, r2, mirror, x, y, repo, c1, c2, c3

\* c2 and c3 are two versions of the second plugin; the first one stays at c1
\* while the repository moves on.
MCManifest == c1 :> <<"x", "1.0.0">> @@ c2 :> <<"y", "1.0.0">>
           @@ c3 :> <<"y", "2.0.0">>
MCList == <<x, y>>
MCRepo == x :> repo @@ y :> repo
MCHistory == repo :> <<x :> c1 @@ y :> c2, x :> c1 @@ y :> c3>>
=============================================================================
