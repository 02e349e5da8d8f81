------------------------ MODULE MCNthElementCollector ------------------------
(* Model of the collector with K = 2, a batch width of 2 and six handles:  *)
(* enough for two selections in one session, a batch that straddles the   *)
(* 2*K threshold, rejections against the cut, and score ties broken by id. *)
EXTENDS NthElementCollector

MCDocs == 1 .. 6
MCScore == [d \in MCDocs |-> CASE d = 1 -> 3 [] d = 2 -> 1 [] d = 3 -> 3
                                [] d = 4 -> 2 [] d = 5 -> 4 [] d = 6 -> 2]
MCSize == 2
MCBatchSize == 2

=============================================================================
