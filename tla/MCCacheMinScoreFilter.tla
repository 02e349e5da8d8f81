------------------------ MODULE MCCacheMinScoreFilter ------------------------
(* One descending sort expression over five handles with a tie at the top, *)
(* a zero and a negative score (so floors of 0 and of the smallest         *)
(* positive float both bite), and expectCount up to 3.  With two-bit       *)
(* score_t, 17 and 20 both cast to 16, and 10 to 8.                        *)
EXTENDS CacheMinScoreFilter

MCDocs == 1 .. 5
MCScoreOne == [d \in MCDocs |-> CASE d = 1 -> 20 [] d = 2 -> 0 [] d = 3 -> 20
                                   [] d = 4 -> -10 [] d = 5 -> 17]
MCSortAscOne == [e \in 1 .. 1 |-> FALSE]
MCExprScoreOne == [e \in 1 .. 1 |-> MCScoreOne]
MCHasRefOne == [e \in 1 .. 1 |-> TRUE]

(* Two expressions: the first descending, the second ascending.            *)
MCScoreTwo == [d \in MCDocs |-> CASE d = 1 -> 0 [] d = 2 -> 10 [] d = 3 -> 30
                                   [] d = 4 -> 20 [] d = 5 -> -10]
MCSortAscTwo == [e \in 1 .. 2 |-> e = 2]
MCExprScoreTwo == [e \in 1 .. 2 |-> IF e = 1 THEN MCScoreOne ELSE MCScoreTwo]
MCHasRefTwo == [e \in 1 .. 2 |-> TRUE]
=============================================================================
