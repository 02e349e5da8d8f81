------------------------- MODULE ClauseParserContext -------------------------
(***************************************************************************)
(* The clause parser context of ha3 (src/aios/ha3/ha3/queryparser/clause/  *)
(* ClauseParserContext.cpp).  The context owns one parsed object per       *)
(* clause kind (_aggDes, _distDes, ..., _syntaxExpr).  A parseXClause call  *)
(* runs the generated bison parser, which may hand a new object to setX    *)
(* (deleting the one held) and sets _status; the call then records an      *)
(* error in _errorResult when the parse failed or left no object, and      *)
(* returns whether _errorResult is clean.  stealX hands the object to the  *)
(* caller; getNormalizedExprStr parses an expression, steals it and        *)
(* deletes it; the destructor deletes whatever is still held.              *)
(*                                                                         *)
(* The parser is generated code: a parse is one of its outcomes -- an      *)
(* object built and status OK, status OK with no object, or an error       *)
(* status with no object.  Objects are numbered in allocation order.       *)
(***************************************************************************)
EXTENDS Integers, FiniteSets, Bags, Functions

CONSTANTS
  Kinds,     \* clause kinds; "syntax" is the one of parseSyntaxExpr
  MaxObjs    \* bound on the objects the parser allocates

NULL == 0
NONE == "NONE"
Outcomes == {"built", "empty", "error"}
NoCall == [call |-> "none", kind |-> NONE, built |-> NULL, ret |-> FALSE]

VARIABLES
  member,     \* [Kinds -> 0..MaxObjs]: the object held per kind, NULL for none
  status,     \* _status: "OK", "INITIAL" or an error status
  errorCode,  \* _errorResult: NONE or the kind whose error code was set last
  allocated,  \* objects allocated so far: 1..allocated
  stolen,     \* objects handed to callers by stealX
  deleted,    \* bag of objects deleted by the context
  alive,      \* FALSE once the destructor ran
  last        \* the last call: [call, kind, built, ret]

vars == <<member, status, errorCode, allocated, stolen, deleted, alive, last>>

(***************************************************************************)
(* Each definition below is preceded by a mutation of it, a plausible slip *)
(* in the code.                                                            *)
(***************************************************************************)
SetMemberNoDelete(m, k, var) ==
  [member |-> [m EXCEPT ![k] = var], freed |-> {}]

(* setX(var): delete the held object, if any, and hold var.                *)
SetMember(m, k, var) ==
  [member |-> [m EXCEPT ![k] = var], freed |-> IF m[k] # NULL THEN {m[k]} ELSE {}]

StealMemberKeep(m, k) ==
  [member |-> m, obj |-> m[k]]

(* stealX(): hand the held object out and hold none.                       *)
StealMember(m, k) ==
  [member |-> [m EXCEPT ![k] = NULL], obj |-> m[k]]

DoParseSkipsId(m, k, outcome) ==
  LET s == SetMember(m, k, allocated + 2) IN
  CASE outcome = "built" -> [member |-> s.member, freed |-> s.freed, status |-> "OK", new |-> allocated + 2]
    [] outcome = "empty" -> [member |-> m, freed |-> {}, status |-> "OK", new |-> NULL]
    [] OTHER             -> [member |-> m, freed |-> {}, status |-> "ERROR", new |-> NULL]

(* doParse: the outcome of the generated parser for a clause of kind k:   *)
(* a built object goes through setX.                                       *)
DoParse(m, k, outcome) ==
  LET s == SetMember(m, k, allocated + 1) IN
  CASE outcome = "built" -> [member |-> s.member, freed |-> s.freed, status |-> "OK", new |-> allocated + 1]
    [] outcome = "empty" -> [member |-> m, freed |-> {}, status |-> "OK", new |-> NULL]
    [] OTHER             -> [member |-> m, freed |-> {}, status |-> "ERROR", new |-> NULL]

(* PARSE_AND_CHECK_RESULT after doParse: reset the error to this kind's     *)
(* code when the parse failed and no error is recorded yet, or when no      *)
(* object is held; succeed when no error is recorded.                       *)
CheckResult(k, st, m, err) ==
  LET err2 == IF (st # "OK" /\ err = NONE) \/ m[k] = NULL THEN k ELSE err
  IN [errorCode |-> err2, ret |-> err2 = NONE]

(* parseAggClause, parseDistClause, ..., parseSyntaxExpr: one call.        *)
ParseClause(k, outcome) ==
  /\ alive
  /\ outcome = "built" => allocated < MaxObjs
  /\ LET p == DoParse(member, k, outcome)
         r == CheckResult(k, p.status, p.member, errorCode)
     IN /\ member' = p.member
        /\ status' = p.status
        /\ deleted' = deleted (+) SetToBag(p.freed)
        /\ allocated' = IF outcome = "built" THEN allocated + 1 ELSE allocated
        /\ errorCode' = r.errorCode
        /\ last' = [call |-> "parse", kind |-> k, built |-> p.new, ret |-> r.ret]
  /\ UNCHANGED <<stolen, alive>>

(* A caller takes the object of kind k.                                    *)
Steal(k) ==
  /\ alive
  /\ LET s == StealMember(member, k) IN
       /\ member' = s.member
       /\ stolen' = IF s.obj # NULL THEN stolen \cup {s.obj} ELSE stolen
  /\ last' = NoCall
  /\ UNCHANGED <<status, errorCode, allocated, deleted, alive>>

(* getNormalizedExprStr: parseSyntaxExpr; on success steal the expression  *)
(* into a unique_ptr, which deletes it when the call returns.              *)
GetNormalizedExprStr(outcome) ==
  /\ alive
  /\ "syntax" \in Kinds
  /\ outcome = "built" => allocated < MaxObjs
  /\ LET p == DoParse(member, "syntax", outcome)
         r == CheckResult("syntax", p.status, p.member, errorCode)
         s == StealMember(p.member, "syntax")
     IN /\ member' = IF r.ret THEN s.member ELSE p.member
        /\ status' = p.status
        /\ deleted' = deleted (+) SetToBag(p.freed) (+)
                      (IF r.ret /\ s.obj # NULL THEN SetToBag({s.obj}) ELSE EmptyBag)
        /\ allocated' = IF outcome = "built" THEN allocated + 1 ELSE allocated
        /\ errorCode' = r.errorCode
        /\ last' = [call |-> "normalize", kind |-> "syntax", built |-> p.new, ret |-> r.ret]
  /\ UNCHANGED <<stolen, alive>>

(* ~ClauseParserContext: delete every object still held.                   *)
Destroy ==
  /\ alive
  /\ alive' = FALSE
  /\ deleted' = deleted (+) SetToBag({member[k] : k \in Kinds} \ {NULL})
  /\ member' = [k \in Kinds |-> NULL]
  /\ last' = NoCall
  /\ UNCHANGED <<status, errorCode, allocated, stolen>>

(* The constructor (in the header): nothing held, the initial status, no   *)
(* error.                                                                  *)
Init ==
  /\ member = [k \in Kinds |-> NULL]
  /\ status = "INITIAL"
  /\ errorCode = NONE
  /\ allocated = 0
  /\ stolen = {}
  /\ deleted = EmptyBag
  /\ alive = TRUE
  /\ last = NoCall

Next ==
  \/ \E k \in Kinds, o \in Outcomes : ParseClause(k, o)
  \/ \E k \in Kinds : Steal(k)
  \/ \E o \in Outcomes : GetNormalizedExprStr(o)
  \/ Destroy

Spec == Init /\ [][Next]_vars

-----------------------------------------------------------------------------
Objs == 1 .. MaxObjs

(* Types; the context only ever holds, hands out or deletes objects the   *)
(* parser allocated.                                                       *)
TypeOK ==
  /\ member \in [Kinds -> {NULL} \cup 1 .. allocated]
  /\ status \in {"INITIAL", "OK", "ERROR"}
  /\ errorCode \in Kinds \cup {NONE}
  /\ allocated \in 0 .. MaxObjs
  /\ stolen \subseteq 1 .. allocated
  /\ IsABag(deleted) /\ BagToSet(deleted) \subseteq 1 .. allocated
  /\ alive \in BOOLEAN
  /\ last \in [call : {"none", "parse", "normalize"}, kind : Kinds \cup {NONE},
               built : {NULL} \cup Objs, ret : BOOLEAN]

(* Every object the parser allocated, across setX replacing a held object, *)
(* stealX, getNormalizedExprStr and the destructor, has exactly one fate:  *)
(* held by one member, handed to a caller, or deleted once -- no leak, no  *)
(* double delete, no object both stolen and still deleted by the context.  *)
OwnershipExact ==
  \A o \in 1 .. allocated :
    Cardinality({k \in Kinds : member[k] = o})
      + (IF o \in stolen THEN 1 ELSE 0) + CopiesIn(o, deleted) = 1

(* PARSE_AND_CHECK_RESULT counts a parse that leaves no object as failed  *)
(* (the "|| !result" of its test), so a parseXClause call that returns    *)
(* true hands the caller the object that call built.  The test reads the   *)
(* member, though: an object of the same kind that an earlier call built   *)
(* and nobody stole stands in for a parse that built nothing, and          *)
(* setOriginalString relabels it with the new clause string.              *)
SuccessHoldsThisParse ==
  last.call = "parse" /\ last.ret =>
    /\ last.built # NULL
    /\ member[last.kind] = last.built
=============================================================================
