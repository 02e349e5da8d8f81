------------------------- MODULE IndexTaskPlanCreator -------------------------
(***************************************************************************)
(* The index task scheduler of indexlib (src/aios/storage/indexlib/table/  *)
(* index_task/ComplexIndexTaskPlanCreator.cpp).  CreateTaskPlan asks       *)
(* ScheduleSimpleTask for an ordered task list -- alter_table while the    *)
(* on-disk schema differs from the read schema, else the designated task,  *)
(* else the triggered configured tasks by descending age (stable), then a  *)
(* default merge when no merge task is configured -- and returns the plan  *)
(* of the first task whose creator builds one, stopping at the first       *)
(* error.                                                                  *)
(*                                                                         *)
(* Each call is one action whose environment (the tablet data, each        *)
(* config's NeedTriggerTask and each creator's CreateTaskPlan) is chosen   *)
(* freely; the scheduled tasks are distinct, so a creator outcome is       *)
(* chosen per position of the task list.  The tablet options are fixed for *)
(* a run and chosen among TabletOptions.  Between calls the framework runs the plan, which records a     *)
(* task log (IndexTaskHistory, not under src/: newest log first, at most   *)
(* MaxLogs per task), and the clock advances.                              *)
(***************************************************************************)
EXTENDS Integers, Sequences, SequencesExt, FiniteSets

CONSTANTS
  TabletOptions, \* possible GetAllIndexTaskConfigs(): Seqs([type, name]) of one length
  Registered,  \* task types of _simpleCreatorFuncMap
  Designates,  \* tasks a user may designate
  MaxTime,     \* bound on currentTimeInSeconds()
  MaxLogs      \* task logs kept per task

AlterTableTask == [type |-> "alter_table", name |-> "alter_table"]
DefaultMergeTask == [type |-> "merge", name |-> ""]
NConfigs == Len(CHOOSE o \in TabletOptions : TRUE)
ASSUME \A o \in TabletOptions : Len(o) = NConfigs
ConfigTasks == UNION {{o[i] : i \in 1 .. NConfigs} : o \in TabletOptions}
Tasks == ConfigTasks \cup Designates \cup {AlterTableTask, DefaultMergeTask}
NoTask == [type |-> "none", name |-> "none"]

VARIABLES
  Configs,    \* GetAllIndexTaskConfigs(), in order; fixed for the run
  now,        \* currentTimeInSeconds()
  history,    \* [Tasks -> Seq(0..MaxTime)]: trigger timestamps, newest first
  altered,    \* on-disk version's schema id # read schema id
  designate,  \* GetDesignateTask(), NoTask for nullopt
  result,     \* [status, plan] of the last CreateTaskPlan, or Idle
  expected    \* RefPlan of the same call: what the documented order gives

vars == <<Configs, now, history, altered, designate, result, expected>>

(* The environment of one call.                                            *)
Calls ==
  [tablet : BOOLEAN,                                        \* GetTabletData() # nullptr
   trig : [1 .. NConfigs -> {"yes", "no", "error"}],       \* NeedTriggerTask
   outcome : [1 .. NConfigs + 1 -> {"plan", "null", "error"}]]  \* CreateTaskPlan of the i-th task

(* GetOldestTaskLogTimestamp: the oldest log of any task (0 with none).    *)
OldestLog ==
  LET ts == UNION {ToSet(history[t]) : t \in Tasks}
  IN IF ts = {} THEN 0 ELSE CHOOSE x \in ts : \A y \in ts : x <= y

(* CalculateTaskPriority: the age of the task's newest log, or of the      *)
(* oldest log of all when it has none; 0 without tablet data.              *)
CalculateTaskPriority(c, t) ==
  IF ~c.tablet THEN 0
  ELSE IF history[t] = <<>> THEN now - OldestLog
  ELSE now - history[t][1]

(* No call since the last change of the inputs.                           *)
Idle == [status |-> "none", plan |-> NoTask]

HasMergeTaskConfig == \E i \in 1 .. Len(Configs) : Configs[i].type = "merge"

(***************************************************************************)
(* Mutations of the definitions below, each a plausible slip in the code. *)
(***************************************************************************)
RECURSIVE InsertByPriorityUnstable(_, _)
InsertByPriorityUnstable(x, s) ==
  IF s = <<>> \/ x.priority >= s[1].priority THEN <<x>> \o s
  ELSE <<s[1]>> \o InsertByPriorityUnstable(x, Tail(s))

(* The insertion step of std::stable_sort with lft.priority > rht.priority: *)
(* x goes before the first item of strictly lower priority.                *)
RECURSIVE InsertByPriority(_, _)
InsertByPriority(x, s) ==
  IF s = <<>> \/ x.priority > s[1].priority THEN <<x>> \o s
  ELSE <<s[1]>> \o InsertByPriority(x, Tail(s))

StableSortByPriority(s) == FoldLeft(LAMBDA acc, x : InsertByPriority(x, acc), <<>>, s)

(***************************************************************************)
(* GetCandidateTasks: each config in order -- an unregistered type is      *)
(* InvalidArgs, a NeedTriggerTask error is returned, an untriggered task   *)
(* is skipped -- then the items are stable-sorted by descending priority.  *)
(***************************************************************************)
GetCandidateTasks(c) ==
  LET Step(acc, i) ==
        CASE acc.status # "OK"                  -> acc
          [] Configs[i].type \notin Registered  -> [acc EXCEPT !.status = "InvalidArgs"]
          [] c.trig[i] = "error"                -> [acc EXCEPT !.status = "Error"]
          [] c.trig[i] = "no"                   -> acc
          [] OTHER -> [acc EXCEPT !.items = Append(@, [id |-> Configs[i],
                                   priority |-> CalculateTaskPriority(c, Configs[i])])]
      acc == FoldLeft(Step, [status |-> "OK", items |-> <<>>], [i \in 1 .. Len(Configs) |-> i])
  IN [status |-> acc.status,
      items |-> IF Len(acc.items) > 1 THEN StableSortByPriority(acc.items) ELSE acc.items]

ScheduleSimpleTaskIgnoreError(c) ==
  IF c.tablet /\ altered THEN [status |-> "OK", tasks |-> <<AlterTableTask>>]
  ELSE IF designate # NoTask THEN [status |-> "OK", tasks |-> <<designate>>]
  ELSE LET cand == GetCandidateTasks(c) IN
       [status |-> "OK",
        tasks |-> [k \in 1 .. Len(cand.items) |-> cand.items[k].id]
                  \o (IF HasMergeTaskConfig THEN <<>> ELSE <<DefaultMergeTask>>)]

(***************************************************************************)
(* ScheduleSimpleTask: alter_table first, then the designated task, then   *)
(* the candidates and, without a merge config, the default merge.          *)
(***************************************************************************)
ScheduleSimpleTask(c) ==
  IF c.tablet /\ altered THEN [status |-> "OK", tasks |-> <<AlterTableTask>>]
  ELSE IF designate # NoTask THEN [status |-> "OK", tasks |-> <<designate>>]
  ELSE LET cand == GetCandidateTasks(c) IN
       IF cand.status # "OK" THEN [status |-> cand.status, tasks |-> <<>>]
       ELSE [status |-> "OK",
             tasks |-> [k \in 1 .. Len(cand.items) |-> cand.items[k].id]
                       \o (IF HasMergeTaskConfig THEN <<>> ELSE <<DefaultMergeTask>>)]

(* The loop of CreateTaskPlan over the scheduled tasks.                    *)
RECURSIVE PlanFirst(_, _, _)
PlanFirst(ts, i, c) ==
  IF i > Len(ts) THEN [status |-> "OK", plan |-> NoTask]
  ELSE CASE ts[i].type \notin Registered  -> [status |-> "Unknown", plan |-> NoTask]
         [] c.outcome[i] = "error"         -> [status |-> "Error", plan |-> NoTask]
         [] c.outcome[i] = "null"          -> PlanFirst(ts, i + 1, c)
         [] OTHER                          -> [status |-> "OK", plan |-> ts[i]]

CreateTaskPlan(c) ==
  LET sched == ScheduleSimpleTask(c) IN
  IF sched.status # "OK" THEN [status |-> sched.status, plan |-> NoTask]
  ELSE PlanFirst(sched.tasks, 1, c)

(***************************************************************************)
(* The reference: what the comments of ScheduleSimpleTask say the plan is, *)
(* stated without the sort and the loops.  The candidates are ranked by    *)
(* age, ties by config position; the first problem in config order wins.   *)
(***************************************************************************)
RefPlan(c) ==
  LET Prio(i) == CalculateTaskPriority(c, Configs[i])
      Bad == {i \in 1 .. Len(Configs) : Configs[i].type \notin Registered \/ c.trig[i] = "error"}
      firstBad == CHOOSE i \in Bad : \A j \in Bad : i <= j
      Ranked == SetToSortSeq({i \in 1 .. Len(Configs) : c.trig[i] = "yes"},
                             LAMBDA i, j : Prio(i) > Prio(j) \/ (Prio(i) = Prio(j) /\ i < j))
      list == IF c.tablet /\ altered THEN <<AlterTableTask>>
              ELSE IF designate # NoTask THEN <<designate>>
              ELSE [k \in 1 .. Len(Ranked) |-> Configs[Ranked[k]]]
                   \o (IF HasMergeTaskConfig THEN <<>> ELSE <<DefaultMergeTask>>)
      Stops == {k \in 1 .. Len(list) : list[k].type \notin Registered \/ c.outcome[k] # "null"}
      first == CHOOSE k \in Stops : \A j \in Stops : k <= j
  IN CASE ~(c.tablet /\ altered) /\ designate = NoTask /\ Bad # {} ->
            [status |-> IF Configs[firstBad].type \notin Registered THEN "InvalidArgs" ELSE "Error",
             plan |-> NoTask]
       [] Stops = {} -> [status |-> "OK", plan |-> NoTask]
       [] list[first].type \notin Registered -> [status |-> "Unknown", plan |-> NoTask]
       [] c.outcome[first] = "error" -> [status |-> "Error", plan |-> NoTask]
       [] OTHER -> [status |-> "OK", plan |-> list[first]]

RunPlanUntrimmed ==
  /\ result.plan # NoTask
  /\ LET t == result.plan IN
       /\ history' = [history EXCEPT ![t] = <<now>> \o @]
       /\ altered' = (altered /\ t # AlterTableTask)
       /\ designate' = IF designate = t THEN NoTask ELSE designate
  /\ result' = Idle /\ expected' = Idle
  /\ UNCHANGED <<Configs, now>>

(* One call of CreateTaskPlan.                                             *)
CreateTaskPlanCall ==
  /\ \E c \in Calls :
       /\ result' = CreateTaskPlan(c)
       /\ expected' = RefPlan(c)
  /\ UNCHANGED <<Configs, now, history, altered, designate>>

(* The framework runs the plan; the task logs its trigger time; alter      *)
(* table aligns the schema ids and a designated task is consumed.          *)
RunPlan ==
  /\ result.plan # NoTask
  /\ LET t == result.plan IN
       /\ history' = [history EXCEPT ![t] = SubSeq(<<now>> \o @, 1, Min({MaxLogs, Len(@) + 1}))]
       /\ altered' = (altered /\ t # AlterTableTask)
       /\ designate' = IF designate = t THEN NoTask ELSE designate
  /\ result' = Idle /\ expected' = Idle
  /\ UNCHANGED <<Configs, now>>

Tick ==
  /\ now < MaxTime
  /\ now' = now + 1
  /\ UNCHANGED <<Configs, history, altered, designate, result, expected>>

(* A schema change leaves the on-disk schema id ahead of the read one.     *)
AlterSchema ==
  /\ ~altered
  /\ altered' = TRUE
  /\ result' = Idle /\ expected' = Idle
  /\ UNCHANGED <<Configs, now, history, designate>>

Designate ==
  /\ designate = NoTask
  /\ designate' \in Designates
  /\ result' = Idle /\ expected' = Idle
  /\ UNCHANGED <<Configs, now, history, altered>>

Init ==
  /\ Configs \in TabletOptions
  /\ now = 0
  /\ history = [t \in Tasks |-> <<>>]
  /\ altered = FALSE
  /\ designate = NoTask
  /\ result = Idle
  /\ expected = Idle

Next == CreateTaskPlanCall \/ RunPlan \/ Tick \/ AlterSchema \/ Designate

Spec == Init /\ [][Next]_vars

-----------------------------------------------------------------------------

TypeOK ==
  /\ Configs \in TabletOptions
  /\ now \in 0 .. MaxTime
  /\ history \in [Tasks -> Seq(0 .. MaxTime)]
  /\ \A t \in Tasks : Len(history[t]) <= MaxLogs
  /\ altered \in BOOLEAN
  /\ designate \in Designates \cup {NoTask}
  /\ result.plan \in Tasks \cup {NoTask}

(* CreateTaskPlan returns the plan of the first task, in the documented    *)
(* priority order (alter table, designated, triggered candidates oldest    *)
(* first with ties in config order, default merge), whose creator builds   *)
(* one, and the first error met on the way.                                *)
PlanMatchesReference ==
  result = expected
=============================================================================
