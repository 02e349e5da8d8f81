--------------------------- MODULE MCRankSearcher ---------------------------
EXTENDS RankSearcher, TLC

(* Two layers of three handles; layer 1 has more quota than handles, so  *)
(* it carries 1 over to layer 2, which has more handles than its own    *)
(* quota.  Handle 2 fails the filter and handle 5 has no join-side key.  *)
MCDocs == 1 .. 6
MCLayerDocs == <<<<1, 2, 3>>, <<4, 5, 6>>>>
MCQuota == <<4, 1>>
MCFilterRejects == {2}
MCScore == (1 :> 3 @@ 2 :> 5 @@ 3 :> 1 @@ 4 :> 4 @@ 5 :> 1 @@ 6 :> 6)
MCJoinMissing == {5}
=============================================================================
