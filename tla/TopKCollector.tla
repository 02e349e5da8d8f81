---------------------------- MODULE TopKCollector ----------------------------
(***************************************************************************)
(* What a top-K hit collector promises its caller, whatever its buffering: *)
(* it owns a subset of the handles it was given, drops only handles that   *)
(* are not among the K best seen so far, never takes a dropped handle      *)
(* back, and after a flush owns exactly the K best.  Handing the result    *)
(* out (steal) and destruction empty it.                                   *)
(***************************************************************************)
EXTENDS Naturals, FiniteSets

CONSTANTS
  Docs,         \* handles
  Size,         \* K
  Better(_, _)  \* strict total order: Better(a, b) when a ranks above b

VARIABLES
  seen,   \* every handle given to the collector
  kept,   \* the handles the collector owns
  out,    \* the handles handed out by a steal
  state   \* "open", "flushed", "taken", "closed"

TopK(S) == {d \in S : Cardinality({e \in S : Better(e, d)}) < Size}

Init ==
  /\ seen = {} /\ kept = {} /\ out = {} /\ state = "open"

(* New handles arrive; any handle outside the K best may be dropped.       *)
Admit ==
  /\ state = "open"
  /\ \E new \in SUBSET (Docs \ seen) \ {{}} :
       /\ seen' = seen \cup new
       /\ kept' \in {k \in SUBSET (kept \cup new) : TopK(seen \cup new) \subseteq k}
  /\ UNCHANGED <<out, state>>

Flush ==
  /\ state \in {"open", "flushed"}
  /\ kept' = TopK(seen)
  /\ state' = "flushed"
  /\ UNCHANGED <<seen, out>>

Take ==
  /\ state = "flushed"
  /\ out' = kept
  /\ kept' = {}
  /\ state' = "taken"
  /\ UNCHANGED seen

Close ==
  /\ state # "closed"
  /\ kept' = {}
  /\ state' = "closed"
  /\ UNCHANGED <<seen, out>>

Next == Admit \/ Flush \/ Take \/ Close

Spec == Init /\ [][Next]_<<seen, kept, out, state>>
=============================================================================
