------------------------- MODULE ScheduledTasksProofs -------------------------
(***************************************************************************)
(* That the loops of the scheduler follow the table of tasks, and that     *)
(* what was deleted stays so, for any number of handlers, rows and starts. *)
(*                                                                         *)
(* LoopsFollow speaks of moments at which all is through; Follows and      *)
(* Apart say what holds on the way.  Whatever upsets the list of tasks,    *)
(* the scheduler has of it what it last stored, or has been asked to       *)
(* reload, or is about to be (Follows).  And while nothing upsets it, one  *)
(* handler at a time is between reading the list and replacing it (Alone), *)
(* so that what it read, or lists, is what the table has (Found, Listed),  *)
(* and so is the list when there is none (Cached).                         *)
(***************************************************************************)
EXTENDS ScheduledTasks, FiniteSetTheorems, SequenceTheorems, WellFoundedInduction, TLAPS

Ids == 1 .. nextId - 1
Tables == UNION {[ids -> Row] : ids \in SUBSET Ids}
TaskSets == UNION {[ids -> [name : AllNames, plan : Plans]] : ids \in SUBSET Ids}

Pcs == {"unused", "find", "write", "list", "store", "reload", "show", "over"}
Kinds == {"none", "save", "delete", "toggle"}
Op == [pc : Pcs,
       kind : Kinds,
       id : 0 .. nextId - 1,
       row : Row,
       list : Tables]

TasksTypeOK ==
  /\ up \in BOOLEAN /\ starts \in Nat
  /\ nextId \in Nat \ {0}
  /\ db \in Tables /\ cache \in Tables
  /\ ui \in Seq(Row)
  /\ form \in [index : Nat, active : BOOLEAN]
  /\ ops \in [Ops -> Op]
  /\ flag \in BOOLEAN
  /\ sched \in [pc : {"load", "monitor", "reload"}, tasks : TaskSets] /\ loops \in TaskSets
  /\ errors \in Nat
  /\ upset \subseteq {"overlap", "database"}
  /\ \A o \in Ops : ops[o].pc = "write" /\ ops[o].kind # "save" => ops[o].id # 0

\* The scheduler has what the list has, or will look at it again.
Follows ==
  up /\ ~flag /\ (\A o \in Ops : ops[o].pc # "reload") =>
    /\ sched.pc = "load" => sched.tasks = Scheduled(cache)
    /\ sched.pc = "monitor" => loops = Scheduled(cache)

\* Handlers end with the program.
NoneDown == ~up => \A o \in Ops : ops[o].pc \in {"unused", "over"}

Alone == \A o, p \in Ops : Busy(o) /\ Busy(p) => o = p

\* What a handler is about to write is in the table.
Found ==
  \A o \in Ops : ops[o].pc = "write" /\ ops[o].kind # "save" => ops[o].id \in DOMAIN db

\* What a handler is about to store is what the table has.
Listed == \A o \in Ops : ops[o].pc = "store" => ops[o].list = db

\* The list is that of the table, when no handler is to replace it.
Cached == up /\ (\A o \in Ops : ops[o].pc \notin {"list", "store"}) => cache = db

Apart == upset = {} => Alone /\ Found /\ Listed /\ Cached

-------------------------------------------------------------------------------
(***************************************************************************)
(* Tables                                                                  *)
(***************************************************************************)

LEMMA TableIs ==
  ASSUME NEW rows
  PROVE  rows \in Tables <=> DOMAIN rows \subseteq Ids /\ rows \in [DOMAIN rows -> Row]
BY DEF Tables

LEMMA TaskSetIs ==
  ASSUME NEW tasks
  PROVE  tasks \in TaskSets <=>
           DOMAIN tasks \subseteq Ids /\ tasks \in [DOMAIN tasks -> [name : AllNames, plan : Plans]]
BY DEF TaskSets

LEMMA EmptyTables == << >> \in Tables /\ << >> \in TaskSets
<1>1. DOMAIN << >> = {}
  OBVIOUS
<1>2. \A S : << >> \in [DOMAIN << >> -> S]
  BY <1>1
<1> QED
  BY <1>1, <1>2, TableIs, TaskSetIs

LEMMA ScheduledIsTaskSet ==
  ASSUME NEW rows \in Tables
  PROVE  Scheduled(rows) \in TaskSets
<1> DEFINE ids == {i \in DOMAIN rows : rows[i].active /\ rows[i].plan # Manual}
           task(id) == [name |-> rows[id].name, plan |-> rows[id].plan]
<1>1. rows \in [DOMAIN rows -> Row] /\ ids \subseteq Ids
  BY TableIs
<1>2. \A id \in ids : task(id) \in [name : AllNames, plan : Plans]
  BY <1>1 DEF Row
<1>3. Scheduled(rows) = [id \in ids |-> task(id)]
  BY DEF Scheduled
<1>4. DOMAIN Scheduled(rows) = ids /\ Scheduled(rows) \in [ids -> [name : AllNames, plan : Plans]]
  BY <1>2, <1>3
<1> QED
  BY <1>1, <1>4, TaskSetIs

LEMMA IntervalGrows ==
  ASSUME NEW a \in Nat, NEW b \in Nat, NEW c \in Nat, b <= c
  PROVE  a .. b - 1 \subseteq a .. c - 1
OBVIOUS

\* A table keeps its ids when another row gets the next.
LEMMA TablesGrow ==
  ASSUME nextId \in Nat \ {0}, nextId' \in {nextId, nextId + 1}
  PROVE  /\ Tables \subseteq Tables' /\ TaskSets \subseteq TaskSets'
         /\ Op \subseteq Op'
<1>0. nextId \in Nat /\ nextId' \in Nat /\ nextId <= nextId'
  OBVIOUS
<1>1. Ids \subseteq Ids'
  BY <1>0, IntervalGrows DEF Ids
<1>2. Tables \subseteq Tables' /\ TaskSets \subseteq TaskSets'
  BY <1>1 DEF Tables, TaskSets
<1>3. 0 .. nextId - 1 \subseteq 0 .. nextId' - 1
  BY <1>0, IntervalGrows
<1> QED
  BY <1>2, <1>3 DEF Op, Pcs

LEMMA LeastNumber ==
  ASSUME NEW S \in SUBSET Nat, S # {}
  PROVE  \E n \in S : \A m \in S : n <= m
<1>1. PICK n \in S : \A m \in S : ~ (<<m, n>> \in OpToRel(<, Nat))
  BY WFMin, NatLessThanWellFounded
<1>2. \A m \in S : ~ (m < n)
  BY <1>1 DEF OpToRel
<1> QED
  BY <1>2

LEMMA FirstNamedIn ==
  ASSUME NEW rows \in Tables, NEW n, nextId \in Nat \ {0}
  PROVE  /\ FirstNamed(rows, n) \in 0 .. nextId - 1
         /\ FirstNamed(rows, n) # 0 => FirstNamed(rows, n) \in DOMAIN rows
<1> DEFINE named == {id \in DOMAIN rows : rows[id].name = n}
<1>1. named \subseteq Ids /\ DOMAIN rows \subseteq Ids
  BY TableIs
<1>0. Ids \subseteq 0 .. nextId - 1 /\ Ids \subseteq Nat
  BY DEF Ids
<1>2. CASE named = {}
  BY <1>2 DEF FirstNamed
<1>3. CASE named # {}
  <2>1. \E id \in named : \A i \in named : id <= i
    BY <1>0, <1>1, <1>3, LeastNumber
  <2> QED
    BY <1>0, <1>1, <1>3, <2>1 DEF FirstNamed
<1> QED
  BY <1>2, <1>3

LEMMA UpToGrows ==
  ASSUME NEW S \in SUBSET Nat, NEW a \in S, NEW b \in S, a < b
  PROVE  /\ {i \in S : i <= a} \subseteq {i \in S : i <= b}
         /\ b \in {i \in S : i <= b} \ {i \in S : i <= a}
<1>1. \A i \in Nat : i <= a => i <= b
  OBVIOUS
<1>2. b <= b /\ ~(b <= a)
  OBVIOUS
<1> QED
  BY <1>1, <1>2

\* Rows in the order of their ids: for each place there is one.
LEMMA InOrder ==
  ASSUME NEW S \in SUBSET Nat, IsFiniteSet(S)
  PROVE  /\ Cardinality(S) \in Nat
         /\ \A k \in 1 .. Cardinality(S) :
              \E id \in S : Cardinality({i \in S : i <= id}) = k
<1> DEFINE upTo(id) == {i \in S : i <= id}
           place == [id \in S |-> Cardinality(upTo(id))]
           n == Cardinality(S)
<1>1. n \in Nat
  BY FS_CardinalityType
<1>2. ASSUME NEW id \in S
      PROVE  IsFiniteSet(upTo(id)) /\ place[id] \in 1 .. n
  <2>1. IsFiniteSet(upTo(id)) /\ Cardinality(upTo(id)) <= n
    BY FS_Subset
  <2>2. id \in upTo(id)
    OBVIOUS
  <2>3. Cardinality(upTo(id)) \in Nat /\ Cardinality(upTo(id)) # 0
    BY <2>1, <2>2, FS_CardinalityType, FS_EmptySet
  <2> QED
    BY <1>1, <2>1, <2>3
<1>3. ASSUME NEW a \in S, NEW b \in S, a < b
      PROVE  place[a] # place[b]
  <2>1. upTo(a) \subseteq upTo(b) /\ b \in upTo(b) /\ b \notin upTo(a)
    BY <1>3, UpToGrows
  <2>2. Cardinality(upTo(a)) # Cardinality(upTo(b))
    BY <1>2, <2>1, FS_Subset
  <2> QED
    BY <2>2
<1>4. place \in Injection(S, 1 .. n)
  <2>1. place \in [S -> 1 .. n]
    BY <1>2
  <2>2. \A a, b \in S : place[a] = place[b] => a = b
    BY <1>3
  <2> QED
    BY <2>1, <2>2 DEF Injection, IsInjective
<1>5. IsFiniteSet(1 .. n) /\ Cardinality(1 .. n) = n
  BY <1>1, FS_Interval
<1>6. place \in Surjection(S, 1 .. n)
  BY <1>4, <1>5, FS_Injection
<1>7. \A k \in 1 .. n : \E id \in S : place[id] = k
  BY <1>6 DEF Surjection
<1> QED
  BY <1>1, <1>7

LEMMA RemovedIsSeq ==
  ASSUME NEW S, NEW s \in Seq(S), NEW i \in DOMAIN s
  PROVE  RemoveAt(s, i) \in Seq(S)
<1>1. i \in 1 .. Len(s) /\ Len(s) \in Nat /\ \A j \in 1 .. Len(s) : s[j] \in S
  BY LenProperties, ElementOfSeq
<1>2. SubSeq(s, 1, i - 1) \in Seq(S) /\ SubSeq(s, i + 1, Len(s)) \in Seq(S)
  BY <1>1, SubSeqProperties
<1> QED
  BY <1>2, ConcatProperties DEF RemoveAt


-------------------------------------------------------------------------------
(***************************************************************************)
(* Types                                                                   *)
(***************************************************************************)

LEMMA BlanksAreOps ==
  ASSUME nextId \in Nat \ {0}
  PROVE  Unused \in Op /\ Over \in Op /\ Unused.pc = "unused" /\ Over.pc = "over"
<1>1. NoRow \in Row
  BY PlansAssumption DEF NoRow, Row, AllNames
<1>2. << >> \in Tables /\ 0 \in 0 .. nextId - 1
  BY EmptyTables
<1> QED
  BY <1>1, <1>2 DEF Unused, Over, Op, Pcs, Kinds

LEMMA DraftsAreOps ==
  ASSUME nextId \in Nat \ {0}, NEW pc \in Pcs, NEW kind \in Kinds, NEW row \in Row
  PROVE  [Unused EXCEPT !.pc = pc, !.kind = kind, !.row = row] \in Op
<1>1. << >> \in Tables /\ 0 \in 0 .. nextId - 1
  BY EmptyTables
<1> QED
  BY <1>1 DEF Unused, Op, Pcs, Kinds

\* A handler is replaced by another, ids being as many as before or one more.
LEMMA OpReplaced ==
  ASSUME TasksTypeOK, nextId' \in {nextId, nextId + 1}, NEW o \in Ops, NEW op,
         op \in Op', op.pc = "write" /\ op.kind # "save" => op.id # 0,
         ops' = [ops EXCEPT ![o] = op]
  PROVE  /\ ops' \in [Ops -> Op']
         /\ \A p \in Ops : ops'[p].pc = "write" /\ ops'[p].kind # "save" => ops'[p].id # 0
         /\ ops'[o] = op /\ \A p \in Ops \ {o} : ops'[p] = ops[p]
<1>1. Op \subseteq Op'
  BY TablesGrow DEF TasksTypeOK
<1>2. ops \in [Ops -> Op]
  BY DEF TasksTypeOK
<1>3. ops'[o] = op /\ \A p \in Ops \ {o} : ops'[p] = ops[p]
  BY <1>2
<1> QED
  BY <1>1, <1>2, <1>3 DEF TasksTypeOK

\* The same when the table is left alone.
LEMMA RestKept ==
  ASSUME TasksTypeOK, UNCHANGED database
  PROVE  /\ nextId' = nextId /\ nextId' \in Nat \ {0}
         /\ db' \in Tables' /\ Tables' = Tables /\ TaskSets' = TaskSets /\ Op' = Op
BY DEF TasksTypeOK, database, Tables, TaskSets, Op, Ids

LEMMA ClickTyped ==
  ASSUME TasksTypeOK,
         \/ Cancel \/ New_task
         \/ \E i \in DOMAIN ui : Select(i) \/ \E o \in Ops : Delete_task(o, i) \/ Toggle_task_active(o, i)
         \/ \E o \in Ops, name \in AllNames, plan \in Plans : Save_task(o, name, plan)
  PROVE  TasksTypeOK'
<1> USE DEF TasksTypeOK
<1>0. UNCHANGED <<process, database, cache, flag, scheduler, errors, upset>>
  BY DEF Cancel, New_task, Select, Delete_task, Toggle_task_active, Save_task
<1>1. /\ up' \in BOOLEAN /\ starts' \in Nat /\ nextId' \in Nat \ {0}
      /\ db' \in Tables' /\ cache' \in Tables' /\ flag' \in BOOLEAN
      /\ sched' \in [pc : {"load", "monitor", "reload"}, tasks : TaskSets'] /\ loops' \in TaskSets'
      /\ errors' \in Nat /\ upset' \subseteq {"overlap", "database"}
      /\ Op' = Op /\ nextId' = nextId
  BY <1>0, RestKept DEF process, scheduler
<1>2. \A i \in DOMAIN ui : ui[i] \in Row /\ i \in Nat
  BY ElementOfSeq, LenProperties
<1>3. NoRow \in Row /\ [NoRow EXCEPT !.active = TRUE] \in Row
  BY PlansAssumption DEF NoRow, Row, AllNames
<1>4. ASSUME UNCHANGED ops, ui' \in Seq(Row), form' \in [index : Nat, active : BOOLEAN]
      PROVE  TasksTypeOK'
  BY <1>1, <1>4
<1>5. CASE Cancel
  <2>1. form' \in [index : Nat, active : BOOLEAN] /\ UNCHANGED <<ops, ui>>
    BY <1>5 DEF Cancel
  <2> QED
    BY <1>4, <2>1
<1>6. CASE New_task
  <2>1. ui' \in Seq(Row) /\ Len(ui) + 1 \in Nat
    BY <1>3, <1>6, AppendProperties, LenProperties DEF New_task
  <2>2. form' \in [index : Nat, active : BOOLEAN] /\ UNCHANGED ops
    BY <1>3, <1>6, <2>1 DEF New_task, Edits, Row
  <2> QED
    BY <1>4, <2>1, <2>2
<1>7. ASSUME NEW i \in DOMAIN ui, Select(i)
      PROVE  TasksTypeOK'
  <2>1. form' \in [index : Nat, active : BOOLEAN] /\ UNCHANGED <<ops, ui>>
    BY <1>2, <1>7 DEF Select, Edits, Row
  <2> QED
    BY <1>4, <2>1
<1>8. ASSUME NEW o \in Ops, NEW pc \in {"find", "write"}, NEW kind \in Kinds, NEW row \in Row,
             pc = "write" => kind = "save",
             ops' = [ops EXCEPT ![o] = [Unused EXCEPT !.pc = pc, !.kind = kind, !.row = row]],
             ui' \in Seq(Row), form' \in [index : Nat, active : BOOLEAN]
      PROVE  TasksTypeOK'
  <2> DEFINE op == [Unused EXCEPT !.pc = pc, !.kind = kind, !.row = row]
  <2>1. op \in Op' /\ op.pc = pc /\ op.kind = kind
    BY <1>1, DraftsAreOps DEF Pcs, Unused
  <2>2. /\ ops' \in [Ops -> Op']
        /\ \A p \in Ops : ops'[p].pc = "write" /\ ops'[p].kind # "save" => ops'[p].id # 0
    BY <1>1, <1>8, <2>1, OpReplaced
  <2> QED
    BY <1>1, <1>8, <2>2
<1>9. ASSUME NEW o \in Ops, NEW name \in AllNames, NEW plan \in Plans, Save_task(o, name, plan)
      PROVE  TasksTypeOK'
  <2>1. [name |-> name, plan |-> plan, active |-> form.active] \in Row /\ UNCHANGED <<ui, form>>
    BY <1>9 DEF Save_task, Row, window
  <2> QED
    BY <1>8, <1>9, <2>1 DEF Save_task, Spawn, Kinds
<1>10. ASSUME NEW o \in Ops, NEW i \in DOMAIN ui, Delete_task(o, i)
       PROVE  TasksTypeOK'
  <2>1. [NoRow EXCEPT !.name = ui[i].name] \in Row
    BY <1>2, <1>3 DEF Row
  <2>2. ui' \in Seq(Row) /\ form' \in [index : Nat, active : BOOLEAN]
    BY <1>10, RemovedIsSeq DEF Delete_task
  <2> QED
    BY <1>8, <1>10, <2>1, <2>2 DEF Delete_task, Spawn, Kinds
<1>11. ASSUME NEW o \in Ops, NEW i \in DOMAIN ui, Toggle_task_active(o, i)
       PROVE  TasksTypeOK'
  <2> DEFINE row == [NoRow EXCEPT !.name = ui[i].name, !.active = ~ui[i].active]
  <2>1. row \in Row
    BY <1>2, <1>3 DEF Row
  <2>2. [ui[i] EXCEPT !.active = ~ui[i].active] \in Row /\ i \in 1 .. Len(ui)
    BY <1>2, LenProperties DEF Row
  <2>3. ui' = [ui EXCEPT ![i] = [ui[i] EXCEPT !.active = ~ui[i].active]] /\ UNCHANGED form
    BY <1>11 DEF Toggle_task_active
  <2>4. ui' \in Seq(Row)
    BY <2>2, <2>3, ExceptSeq
  <2>5. ops' = [ops EXCEPT ![o] = [Unused EXCEPT !.pc = "find", !.kind = "toggle", !.row = row]]
    BY <1>11 DEF Toggle_task_active, Spawn
  <2> HIDE DEF row
  <2> QED
    BY <1>8, <2>1, <2>3, <2>4, <2>5 DEF Kinds, TasksTypeOK
<1> QED
  BY <1>5, <1>6, <1>7, <1>9, <1>10, <1>11

\* What a handler becomes, and the table in its hands.
LEMMA FoundTyped ==
  ASSUME TasksTypeOK, NEW o \in Ops, Find(o)
  PROVE  LET id == FirstNamed(cache, ops[o].row.name)
         IN  id # 0 =>
               /\ id \in 1 .. nextId - 1 /\ id \in DOMAIN cache
               /\ [cache[id] EXCEPT !.active = ops[o].row.active] \in Row
<1> DEFINE id == FirstNamed(cache, ops[o].row.name)
<1>1. SUFFICES ASSUME id # 0
               PROVE  /\ id \in 1 .. nextId - 1 /\ id \in DOMAIN cache
                      /\ [cache[id] EXCEPT !.active = ops[o].row.active] \in Row
  OBVIOUS
<1>2. cache \in Tables /\ nextId \in Nat \ {0} /\ ops[o].row \in Row
  BY DEF TasksTypeOK, Op, Pcs
<1>3. id \in DOMAIN cache /\ cache \in [DOMAIN cache -> Row] /\ DOMAIN cache \subseteq Ids
  BY <1>1, <1>2, FirstNamedIn, TableIs
<1>4. cache[id] \in Row
  BY <1>3
<1> QED
  BY <1>2, <1>3, <1>4 DEF Row, Ids

LEMMA WriteTyped ==
  ASSUME TasksTypeOK, NEW o \in Ops, Write(o)
  PROVE  /\ nextId' \in {nextId, nextId + 1} /\ nextId' \in Nat \ {0}
         /\ db' \in Tables'
         /\ DOMAIN db' \subseteq DOMAIN db \cup {IF ops[o].kind = "save" THEN nextId ELSE ops[o].id}
<1> DEFINE id == IF ops[o].kind = "save" THEN nextId ELSE ops[o].id
<1>1. nextId \in Nat \ {0} /\ ops[o] \in Op
  BY DEF TasksTypeOK
<1>2. nextId' = IF ops[o].kind = "save" THEN nextId + 1 ELSE nextId
  BY DEF Write
<1>3. nextId' \in {nextId, nextId + 1} /\ nextId' \in Nat \ {0}
  BY <1>1, <1>2
<1>4. id \in Ids'
  <2>1. CASE ops[o].kind = "save"
    BY <1>1, <1>2, <2>1 DEF Ids
  <2>2. CASE ops[o].kind # "save"
    <3>1. ops[o].id # 0 /\ ops[o].id \in 0 .. nextId - 1
      BY <1>1, <2>2 DEF Write, TasksTypeOK, Op, Pcs
    <3> QED
      BY <1>1, <1>2, <2>2, <3>1 DEF Ids
  <2> QED
    BY <2>1, <2>2
<1>5. db \in [DOMAIN db -> Row] /\ DOMAIN db \subseteq Ids'
  <2>1. db \in Tables'
    BY <1>1, <1>3, TablesGrow DEF TasksTypeOK
  <2> QED
    BY <2>1 DEF Tables
<1>6. ops[o].row \in Row
  BY <1>1 DEF Op, Pcs
<1>7. CASE ops[o].kind = "delete"
  <2>1. db' = [i \in DOMAIN db \ {id} |-> db[i]]
    BY <1>7 DEF Write
  <2>2. db' \in [DOMAIN db \ {id} -> Row] /\ DOMAIN db' = DOMAIN db \ {id}
    BY <1>5, <2>1
  <2> QED
    BY <1>3, <1>5, <2>2 DEF Tables
<1>8. CASE ops[o].kind # "delete"
  <2>1. db' = [i \in DOMAIN db \cup {id} |-> IF i = id THEN ops[o].row ELSE db[i]]
    BY <1>8 DEF Write
  <2>2. db' \in [DOMAIN db \cup {id} -> Row] /\ DOMAIN db' = DOMAIN db \cup {id}
    BY <1>5, <1>6, <2>1
  <2> QED
    BY <1>3, <1>4, <1>5, <2>2 DEF Tables
<1> QED
  BY <1>7, <1>8

LEMMA HandlerTyped ==
  ASSUME TasksTypeOK, NEW o \in Ops, Database_fails(o) \/ Handler(o)
  PROVE  TasksTypeOK'
<1>1. ops[o] \in Op /\ nextId \in Nat \ {0} /\ cache \in Tables /\ ui \in Seq(Row)
  BY DEF TasksTypeOK
<1>2. UNCHANGED <<process, scheduler>>
  BY DEF Database_fails, Handler, Find, Write, List_tasks, Store, Request_reload, Show
\* Whatever it does to a handler, when the table is left alone.
<1>3. ASSUME UNCHANGED database, NEW op \in Op, op.pc # "write", ops' = [ops EXCEPT ![o] = op],
             cache' \in Tables, ui' \in Seq(Row), form' \in [index : Nat, active : BOOLEAN],
             flag' \in BOOLEAN, errors' \in Nat, upset' \subseteq {"overlap", "database"}
      PROVE  TasksTypeOK'
  <2>1. /\ ops' \in [Ops -> Op']
        /\ \A p \in Ops : ops'[p].pc = "write" /\ ops'[p].kind # "save" => ops'[p].id # 0
    BY <1>3, RestKept, OpReplaced
  <2> QED
    BY <1>2, <1>3, <2>1, RestKept DEF TasksTypeOK, process, scheduler
<1>4. CASE Find(o)
  <2> DEFINE id == FirstNamed(cache, ops[o].row.name)
             op == IF id = 0 THEN Over
                   ELSE [ops[o] EXCEPT !.pc = "write", !.id = id,
                           !.row = [cache[id] EXCEPT !.active = ops[o].row.active]]
  <2>1. op \in Op /\ (op.pc = "write" /\ op.kind # "save" => op.id # 0)
    <3>1. CASE id = 0
      BY <1>1, <3>1, BlanksAreOps
    <3>2. CASE id # 0
      <4>1. id \in 0 .. nextId - 1 /\ [cache[id] EXCEPT !.active = ops[o].row.active] \in Row
        BY <1>1, <1>4, <3>2, FoundTyped
      <4> HIDE DEF id
      <4> QED
        BY <1>1, <3>2, <4>1 DEF Op, Pcs
    <3> QED
      BY <3>1, <3>2
  <2>2. ops' = [ops EXCEPT ![o] = op] /\ UNCHANGED database
    BY <1>4 DEF Find
  <2>3. /\ ops' \in [Ops -> Op']
        /\ \A p \in Ops : ops'[p].pc = "write" /\ ops'[p].kind # "save" => ops'[p].id # 0
    BY <2>1, <2>2, RestKept, OpReplaced
  <2>4. upset' \subseteq {"overlap", "database"} /\ UNCHANGED <<cache, window, flag, errors>>
    BY <1>4 DEF Find, Enters, TasksTypeOK
  <2> QED
    BY <1>2, <2>2, <2>3, <2>4, RestKept DEF TasksTypeOK, process, scheduler, window
<1>5. CASE Write(o)
  <2> DEFINE op == [Unused EXCEPT !.pc = "list", !.kind = ops[o].kind,
                      !.row = IF ops[o].kind = "save" THEN ops[o].row ELSE NoRow]
  <2>1. nextId' \in {nextId, nextId + 1} /\ nextId' \in Nat \ {0} /\ db' \in Tables'
    BY <1>5, WriteTyped
  <2>2. Tables \subseteq Tables' /\ TaskSets \subseteq TaskSets' /\ Op \subseteq Op'
    BY <1>1, <2>1, TablesGrow
  <2>3. op \in Op' /\ op.pc = "list"
    <3>1. ops[o].kind \in Kinds /\ ops[o].row \in Row /\ NoRow \in Row
      BY <1>1, PlansAssumption DEF Op, Kinds, NoRow, Row, AllNames
    <3> QED
      BY <1>1, <2>2, <3>1, DraftsAreOps DEF Pcs, Unused
  <2>4. /\ ops' \in [Ops -> Op']
        /\ \A p \in Ops : ops'[p].pc = "write" /\ ops'[p].kind # "save" => ops'[p].id # 0
    BY <1>5, <2>1, <2>3, OpReplaced DEF Write
  <2>5. upset' \subseteq {"overlap", "database"} /\ UNCHANGED <<cache, window, flag, errors>>
    BY <1>5 DEF Write, Enters, TasksTypeOK
  <2> QED
    BY <1>2, <2>1, <2>2, <2>4, <2>5 DEF TasksTypeOK, process, scheduler, window
<1>6. CASE List_tasks(o)
  <2>1. [ops[o] EXCEPT !.pc = "store", !.list = db] \in Op
    BY <1>1 DEF Op, Pcs, TasksTypeOK
  <2>2. ops' = [ops EXCEPT ![o] = [ops[o] EXCEPT !.pc = "store", !.list = db]]
    BY <1>6 DEF List_tasks, TasksTypeOK
  <2> QED
    BY <1>1, <1>3, <1>6, <2>1, <2>2 DEF List_tasks, TasksTypeOK, window, Op, Pcs
<1>7. CASE Store(o)
  <2>1. [ops[o] EXCEPT !.pc = "reload", !.list = << >>] \in Op /\ ops[o].list \in Tables
    BY <1>1, EmptyTables DEF Op, Pcs
  <2>2. ops' = [ops EXCEPT ![o] = [ops[o] EXCEPT !.pc = "reload", !.list = << >>]]
    BY <1>7 DEF Store, TasksTypeOK
  <2> QED
    BY <1>1, <1>3, <1>7, <2>1, <2>2 DEF Store, TasksTypeOK, window, Op, Pcs
<1>8. CASE Database_fails(o)
  <2> DEFINE op == [Unused EXCEPT !.pc = "reload", !.kind = ops[o].kind,
                      !.row = IF ops[o].kind = "save" THEN ops[o].row ELSE NoRow]
  <2>1. op \in Op /\ op.pc # "write"
    <3>1. ops[o].kind \in Kinds /\ ops[o].row \in Row /\ NoRow \in Row
      BY <1>1, PlansAssumption DEF Op, Kinds, NoRow, Row, AllNames
    <3> QED
      BY <1>1, <3>1, DraftsAreOps DEF Pcs, Unused
  <2> HIDE DEF op
  <2>2. ops' = [ops EXCEPT ![o] = op]
    BY <1>8 DEF Database_fails, op
  <2>3. /\ UNCHANGED database /\ cache' \in Tables /\ ui' \in Seq(Row)
        /\ form' \in [index : Nat, active : BOOLEAN] /\ flag' \in BOOLEAN
        /\ errors' \in Nat /\ upset' \subseteq {"overlap", "database"}
    BY <1>8 DEF Database_fails, TasksTypeOK, window
  <2> QED
    BY <1>3, <2>1, <2>2, <2>3
<1>9. CASE Request_reload(o)
  <2> DEFINE op == IF ops[o].kind = "save" THEN [ops[o] EXCEPT !.pc = "show"] ELSE Over
  <2>1. op \in Op /\ op.pc # "write"
    BY <1>1, BlanksAreOps DEF Op, Pcs
  <2>2. ops' = [ops EXCEPT ![o] = op]
    BY <1>9 DEF Request_reload, TasksTypeOK
  <2> HIDE DEF op
  <2> QED
    BY <1>1, <1>3, <1>9, <2>1, <2>2 DEF Request_reload, TasksTypeOK, window
<1>10. CASE Show(o)
  <2>1. Over \in Op /\ Over.pc # "write"
    BY <1>1, BlanksAreOps
  <2>2. ui' \in Seq(Row)
    <3>1. ops[o].row \in Row /\ DOMAIN ui = 1 .. Len(ui)
      BY <1>1, LenProperties DEF Op, Pcs
    <3> QED
      BY <1>1, <1>10, <3>1, ExceptSeq DEF Show
  <2>3. form' \in [index : Nat, active : BOOLEAN]
    BY <1>10 DEF Show, TasksTypeOK
  <2> QED
    BY <1>1, <1>3, <1>10, <2>1, <2>2, <2>3 DEF Show, TasksTypeOK
<1> QED
  BY <1>4, <1>5, <1>6, <1>7, <1>8, <1>9, <1>10 DEF Handler

LEMMA SchedulerTyped ==
  ASSUME TasksTypeOK, SchedulerStep
  PROVE  TasksTypeOK'
<1>1. UNCHANGED <<process, database, cache, window, ops, errors, upset>>
  BY DEF SchedulerStep, Load, See_flag, Reload
<1>2. Scheduled(cache) \in TaskSets
  BY ScheduledIsTaskSet DEF TasksTypeOK
<1>3. /\ sched' \in [pc : {"load", "monitor", "reload"}, tasks : TaskSets] /\ loops' \in TaskSets
      /\ flag' \in BOOLEAN
  <2>1. CASE Load \/ See_flag
    BY <2>1 DEF Load, See_flag, Goto, TasksTypeOK
  <2>2. CASE Reload
    BY <1>2, <2>2 DEF Reload, TasksTypeOK
  <2> QED
    BY <2>1, <2>2 DEF SchedulerStep
<1> QED
  BY <1>1, <1>3, RestKept DEF TasksTypeOK, process, window

LEMMA LaunchedWindow ==
  ASSUME TasksTypeOK, Launch
  PROVE  ui' \in Seq(Row)
<1> DEFINE n == Cardinality(DOMAIN db)
           nth(k) == CHOOSE id \in DOMAIN db : Cardinality({i \in DOMAIN db : i <= id}) = k
<1>1. db \in [DOMAIN db -> Row] /\ DOMAIN db \subseteq Ids /\ nextId \in Nat
  BY TableIs DEF TasksTypeOK
<1>2. IsFiniteSet(Ids) /\ Ids \subseteq Nat
  <2>1. 1 \in Int /\ nextId - 1 \in Int
    BY <1>1
  <2>2. IsFiniteSet(1 .. nextId - 1)
    BY <2>1, FS_Interval
  <2> QED
    BY <1>1, <2>2 DEF Ids
<1>3. IsFiniteSet(DOMAIN db) /\ DOMAIN db \in SUBSET Nat
  BY <1>1, <1>2, FS_Subset
<1>4. n \in Nat /\ \A k \in 1 .. n : nth(k) \in DOMAIN db
  BY <1>3, InOrder
<1>5. ui' = [k \in 1 .. n |-> db[nth(k)]]
  BY DEF Launch
<1>6. ui' \in [1 .. n -> Row]
  BY <1>1, <1>4, <1>5
<1> QED
  BY <1>4, <1>6

LEMMA ProcessTyped ==
  ASSUME TasksTypeOK, Quit \/ Launch
  PROVE  TasksTypeOK'
<1>0. UNCHANGED database
  BY DEF Quit, Launch
<1>1. << >> \in Tables /\ << >> \in TaskSets /\ << >> \in Seq(Row)
  BY EmptyTables
<1>2. Scheduled(db) \in TaskSets
  BY ScheduledIsTaskSet DEF TasksTypeOK
<1>3. CASE Quit
  <2>1. Unused \in Op /\ Over \in Op /\ Unused.pc = "unused" /\ Over.pc = "over"
    BY BlanksAreOps DEF TasksTypeOK
  <2>2. ops' \in [Ops -> Op] /\ \A o \in Ops : ops'[o].pc # "write"
    BY <1>3, <2>1 DEF Quit
  <2>3. form' \in [index : Nat, active : BOOLEAN]
    BY <1>3 DEF Quit, Closed
  <2>4. sched' \in [pc : {"load", "monitor", "reload"}, tasks : TaskSets]
    BY <1>1, <1>3 DEF Quit, NoScheduler
  <2>5. /\ up' \in BOOLEAN /\ starts' \in Nat /\ cache' \in Tables /\ ui' \in Seq(Row)
        /\ flag' \in BOOLEAN /\ loops' \in TaskSets /\ errors' \in Nat /\ upset' = {}
    BY <1>1, <1>3 DEF Quit, TasksTypeOK
  <2> QED
    BY <1>0, <2>2, <2>3, <2>4, <2>5, RestKept DEF TasksTypeOK
<1>4. CASE Launch
  <2>1. ui' \in Seq(Row)
    BY <1>4, LaunchedWindow
  <2>2. sched' \in [pc : {"load", "monitor", "reload"}, tasks : TaskSets]
    BY <1>2, <1>4 DEF Launch, NoScheduler
  <2>3. /\ up' \in BOOLEAN /\ starts' \in Nat /\ cache' \in Tables
        /\ UNCHANGED <<form, ops, flag, loops, errors, upset>>
    BY <1>4 DEF Launch, TasksTypeOK
  <2> QED
    BY <1>0, <2>1, <2>2, <2>3, RestKept DEF TasksTypeOK
<1> QED
  BY <1>3, <1>4

LEMMA TasksTypeStep ==
  ASSUME TasksTypeOK, [Next]_vars
  PROVE  TasksTypeOK'
<1>1. CASE UNCHANGED vars
  <2>1. UNCHANGED <<database, process, cache, window, ops, flag, scheduler, errors, upset>>
    BY <1>1 DEF vars
  <2> QED
    BY <2>1, RestKept DEF TasksTypeOK, process, window, scheduler
<1> QED
  BY <1>1, ClickTyped, HandlerTyped, SchedulerTyped, ProcessTyped DEF Next

LEMMA TasksTypeInit ==
  ASSUME Init
  PROVE  TasksTypeOK
<1>1. db \in Seq(Row) /\ cache = db
  BY FirstRowsAssumption DEF Init
<1>2. DOMAIN db = 1 .. Len(db) /\ Len(db) \in Nat /\ db \in [1 .. Len(db) -> Row]
  BY <1>1, LenProperties
<1>3. nextId = Len(db) + 1
  <2>1. Cardinality(1 .. Len(db)) = IF 1 > Len(db) THEN 0 ELSE Len(db) - 1 + 1
    BY <1>2, FS_Interval
  <2>2. Cardinality(DOMAIN db) = Len(db)
    BY <1>2, <2>1
  <2> QED
    BY <2>2 DEF Init
<1>4. nextId \in Nat \ {0} /\ Ids = 1 .. Len(db)
  BY <1>2, <1>3 DEF Ids
<1>5. db \in Tables /\ Scheduled(db) \in TaskSets /\ << >> \in TaskSets
  BY <1>2, <1>4, TableIs, ScheduledIsTaskSet, EmptyTables
<1>6. ui \in Seq(Row)
  <2>1. ui = [i \in 1 .. Len(db) |-> db[i]]
    BY <1>2, <1>3 DEF Init
  <2>2. ui = db
    BY <1>2, <2>1
  <2> QED
    BY <1>1, <2>2
<1>7. ops \in [Ops -> Op] /\ \A o \in Ops : ops[o].pc # "write"
  BY <1>4, BlanksAreOps DEF Init
<1>8. sched \in [pc : {"load", "monitor", "reload"}, tasks : TaskSets]
  BY <1>5 DEF Init, NoScheduler
<1>9. form \in [index : Nat, active : BOOLEAN]
  BY DEF Init, Closed
<1>10. /\ up \in BOOLEAN /\ starts \in Nat /\ flag \in BOOLEAN /\ loops \in TaskSets
       /\ errors \in Nat /\ upset = {}
  BY <1>5 DEF Init
<1> QED
  BY <1>1, <1>4, <1>5, <1>6, <1>7, <1>8, <1>9, <1>10 DEF TasksTypeOK

\* Tables, lists and handlers only have ids the table has given out, and a handler
\* that writes to a row it has found knows its id.
THEOREM TasksTypeCorrect == Spec => []TasksTypeOK
<1>1. Init => TasksTypeOK
  BY TasksTypeInit
<1>2. TasksTypeOK /\ [Next]_vars => TasksTypeOK'
  BY TasksTypeStep
<1> QED
  BY <1>1, <1>2, PTL DEF Spec

-------------------------------------------------------------------------------
(***************************************************************************)
(* The scheduler follows the list                                          *)
(***************************************************************************)

LEMMA FollowsStep ==
  ASSUME TasksTypeOK, Follows, [Next]_vars
  PROVE  Follows'
<1> USE DEF Follows
<1>1. CASE \/ Cancel \/ New_task
           \/ \E i \in DOMAIN ui : Select(i) \/ \E o \in Ops : Delete_task(o, i) \/ Toggle_task_active(o, i)
           \/ \E o \in Ops, name \in AllNames, plan \in Plans : Save_task(o, name, plan)
  <2>1. UNCHANGED <<up, flag, sched, loops, cache>>
    BY <1>1 DEF Cancel, New_task, Select, Delete_task, Toggle_task_active, Save_task, process, scheduler
  <2>2. \A o \in Ops : ops[o].pc = "reload" => ops'[o].pc = "reload"
    BY <1>1 DEF Cancel, New_task, Select, Delete_task, Toggle_task_active, Save_task, Spawn, Fresh, TasksTypeOK
  <2> QED
    BY <2>1, <2>2
<1>2. ASSUME NEW o \in Ops, Find(o) \/ Write(o) \/ List_tasks(o) \/ Show(o)
      PROVE  Follows'
  <2>1. UNCHANGED <<up, flag, sched, loops, cache>>
    BY <1>2 DEF Find, Write, List_tasks, Show, process, scheduler
  <2>2. \A p \in Ops : ops[p].pc = "reload" => ops'[p].pc = "reload"
    BY <1>2 DEF Find, Write, List_tasks, Show, TasksTypeOK
  <2> QED
    BY <2>1, <2>2
<1>3. ASSUME NEW o \in Ops, Store(o) \/ Database_fails(o)
      PROVE  Follows'
  <2>1. ops'[o].pc = "reload"
    <3>1. CASE Store(o)
      BY <3>1 DEF Store, TasksTypeOK, Op, Pcs
    <3>2. CASE Database_fails(o)
      BY <3>2 DEF Database_fails, TasksTypeOK, Unused
    <3> QED
      BY <1>3, <3>1, <3>2
  <2> QED
    BY <2>1
<1>4. ASSUME NEW o \in Ops, Request_reload(o)
      PROVE  Follows'
  BY <1>4 DEF Request_reload
<1>5. CASE SchedulerStep
  <2>1. CASE Load
    BY <2>1 DEF Load, Goto, TasksTypeOK, process
  <2>2. CASE See_flag
    BY <2>2 DEF See_flag, Goto, TasksTypeOK
  <2>3. CASE Reload
    BY <2>3 DEF Reload, TasksTypeOK, process
  <2> QED
    BY <1>5, <2>1, <2>2, <2>3 DEF SchedulerStep
<1>6. CASE Quit \/ Launch
  BY <1>6 DEF Quit, Launch, NoScheduler
<1>7. CASE UNCHANGED vars
  BY <1>7 DEF vars, process, scheduler
<1> QED
  BY <1>1, <1>2, <1>3, <1>4, <1>5, <1>6, <1>7 DEF Next, Handler

-------------------------------------------------------------------------------
(***************************************************************************)
(* Handlers that do not overlap                                            *)
(***************************************************************************)

LEMMA NoneDownStep ==
  ASSUME TasksTypeOK, NoneDown, [Next]_vars
  PROVE  NoneDown'
<1>1. CASE up'
  BY <1>1 DEF NoneDown
<1>2. CASE Quit
  BY <1>2 DEF Quit, NoneDown, Unused, Over
<1>3. ASSUME ~up, ~Launch
      PROVE  UNCHANGED ops
  <2>1. \A o \in Ops : ~Handler(o) /\ ~Database_fails(o)
    BY <1>3 DEF NoneDown, Handler, Find, Write, List_tasks, Store, Request_reload, Show, Database_fails
  <2> QED
    BY <1>3, <2>1 DEF Next, Cancel, New_task, Select, Delete_task, Toggle_task_active, Save_task,
                      SchedulerStep, Load, See_flag, Reload, Goto, Quit, vars
<1>4. ASSUME up, ~Quit
      PROVE  up' = up
  BY <1>4 DEF Next, Cancel, New_task, Select, Delete_task, Toggle_task_active, Save_task,
              Handler, Find, Write, List_tasks, Store, Request_reload, Show, Database_fails,
              SchedulerStep, Load, See_flag, Reload, Goto, Launch, vars, process
<1>5. Launch => up'
  BY DEF Launch
<1> QED
  BY <1>1, <1>2, <1>3, <1>4, <1>5 DEF NoneDown, TasksTypeOK

Settled == Alone /\ Found /\ Listed /\ Cached

\* A handler that is not busy, and has not come from storing the list, leaves the
\* others as they were.
LEMMA NotBusySettled ==
  ASSUME Settled, UNCHANGED <<up, db, cache>>, NEW o \in Ops,
         \A p \in Ops \ {o} : ops'[p] = ops[p],
         ops[o].pc \notin {"list", "store"},
         ops'[o].pc \notin {"list", "store"}, ops'[o].pc = "write" => ops'[o].kind = "save"
  PROVE  Settled'
<1>1. \A p \in Ops : Busy(p)' => p # o /\ Busy(p)
  BY DEF Busy
<1>2. Alone'
  BY <1>1 DEF Settled, Alone
<1>3. Found' /\ Listed'
  BY DEF Settled, Found, Listed
<1>4. Cached'
  BY DEF Settled, Cached
<1> QED
  BY <1>2, <1>3, <1>4 DEF Settled

\* The one handler that is busy leaves its row, or its list, to be looked at.
LEMMA OneBusySettled ==
  ASSUME NEW o \in Ops, \A p \in Ops \ {o} : ~Busy(p)', Cached',
         ops'[o].pc = "write" /\ ops'[o].kind # "save" => ops'[o].id \in DOMAIN db',
         ops'[o].pc = "store" => ops'[o].list = db'
  PROVE  Settled'
BY DEF Settled, Alone, Found, Listed, Busy

LEMMA SettledByClick ==
  ASSUME TasksTypeOK, Settled, NEW o \in Ops,
         \/ \E i \in DOMAIN ui : Delete_task(o, i) \/ Toggle_task_active(o, i)
         \/ \E name \in AllNames, plan \in Plans : Save_task(o, name, plan)
  PROVE  Settled'
<1>1. ops[o].pc = "unused" /\ UNCHANGED <<up, db, cache>>
  BY DEF Delete_task, Toggle_task_active, Save_task, Spawn, Fresh, process, database
<1>2. \A p \in Ops \ {o} : ops'[p] = ops[p]
  BY DEF Delete_task, Toggle_task_active, Save_task, Spawn, TasksTypeOK
<1>3. /\ ops'[o].pc \notin {"list", "store"}
      /\ ops'[o].pc = "write" => ops'[o].kind = "save"
  <2>1. ASSUME NEW i \in DOMAIN ui, Delete_task(o, i) \/ Toggle_task_active(o, i)
        PROVE  ops'[o].pc = "find"
    <3>1. CASE Delete_task(o, i)
      BY <3>1 DEF Delete_task, Spawn, TasksTypeOK, Unused
    <3>2. CASE Toggle_task_active(o, i)
      BY <3>2 DEF Toggle_task_active, Spawn, TasksTypeOK, Unused
    <3> QED
      BY <2>1, <3>1, <3>2
  <2>2. ASSUME NEW name \in AllNames, NEW plan \in Plans, Save_task(o, name, plan)
        PROVE  ops'[o].pc = "write" /\ ops'[o].kind = "save"
    BY <2>2 DEF Save_task, Spawn, TasksTypeOK, Unused
  <2> QED
    BY <2>1, <2>2
<1> QED
  BY <1>1, <1>2, <1>3, NotBusySettled

LEMMA SettledByHandler ==
  ASSUME TasksTypeOK, NoneDown, Settled, NEW o \in Ops, Handler(o), upset' = {}
  PROVE  Settled'
<1>0. ops[o] \in Op /\ ops \in [Ops -> Op]
  BY DEF TasksTypeOK
<1>1. \A p \in Ops \ {o} : ops'[p] = ops[p]
  BY DEF Handler, Find, Write, List_tasks, Store, Request_reload, Show, TasksTypeOK
<1>2. ASSUME Find(o) \/ Write(o)
      PROVE  \A p \in Ops \ {o} : ~Busy(p) /\ ~Busy(p)'
  <2>1. \A p \in Ops \ {o} : ~Busy(p)
    BY <1>2 DEF Find, Write, Enters
  <2> QED
    BY <1>1, <2>1 DEF Busy
<1>3. ASSUME List_tasks(o) \/ Store(o)
      PROVE  \A p \in Ops \ {o} : ~Busy(p) /\ ~Busy(p)'
  <2>1. Busy(o)
    BY <1>3 DEF List_tasks, Store, Busy
  <2>2. \A p \in Ops \ {o} : ~Busy(p)
    BY <2>1 DEF Settled, Alone
  <2> QED
    BY <1>1, <2>2 DEF Busy
<1>4. CASE Find(o)
  <2> DEFINE id == FirstNamed(cache, ops[o].row.name)
  <2>1. ops[o].pc = "find" /\ UNCHANGED <<up, db, cache>>
    BY <1>4 DEF Find, process, database
  <2>2. CASE id = 0
    <3>1. ops'[o].pc = "over"
      BY <1>0, <1>4, <2>2 DEF Find, Over
    <3> QED
      BY <1>1, <2>1, <3>1, NotBusySettled
  <2>3. CASE id # 0
    <3>1. id \in DOMAIN cache
      BY <1>4, <2>3, FoundTyped
    <3>2. ops'[o].pc = "write" /\ ops'[o].id = id
      BY <1>0, <1>4, <2>3 DEF Find, Op, Pcs
    <3>3. cache = db
      <4>1. up
        BY <2>1 DEF NoneDown
      <4>2. \A p \in Ops : ops[p].pc \notin {"list", "store"}
        BY <1>2, <1>4, <2>1 DEF Busy
      <4> QED
        BY <4>1, <4>2 DEF Settled, Cached
    <3> QED
      BY <1>2, <1>4, <2>1, <3>1, <3>2, <3>3, OneBusySettled DEF Cached
  <2> QED
    BY <2>2, <2>3
<1>5. CASE Write(o)
  <2>1. ops'[o].pc = "list"
    BY <1>0, <1>5 DEF Write, Unused
  <2>2. Cached'
    BY <2>1 DEF Cached
  <2> QED
    BY <1>2, <1>5, <2>1, <2>2, OneBusySettled
<1>6. CASE List_tasks(o)
  <2>1. ops'[o].pc = "store" /\ ops'[o].list = db /\ db' = db
    BY <1>0, <1>6 DEF List_tasks, database, Op, Pcs
  <2>2. Cached'
    BY <2>1 DEF Cached
  <2> QED
    BY <1>3, <1>6, <2>1, <2>2, OneBusySettled
<1>7. CASE Store(o)
  <2>1. ops'[o].pc = "reload" /\ cache' = ops[o].list /\ db' = db
    BY <1>0, <1>7 DEF Store, database, Op, Pcs
  <2>2. cache' = db'
    BY <1>7, <2>1 DEF Store, Settled, Listed
  <2> QED
    BY <1>3, <1>7, <2>1, <2>2, OneBusySettled DEF Cached
<1>8. CASE Request_reload(o) \/ Show(o)
  <2>1. ops'[o].pc \in {"show", "over"} /\ ops[o].pc \in {"reload", "show"}
    <3>1. CASE Request_reload(o)
      <4>1. ops'[o] = IF ops[o].kind = "save" THEN [ops[o] EXCEPT !.pc = "show"] ELSE Over
        BY <1>0, <3>1 DEF Request_reload
      <4> QED
        BY <1>0, <3>1, <4>1 DEF Request_reload, Over, Op, Pcs, Kinds
    <3>2. CASE Show(o)
      BY <1>0, <3>2 DEF Show, Over, Unused
    <3> QED
      BY <1>8, <3>1, <3>2
  <2>2. UNCHANGED <<up, db, cache>>
    BY <1>8 DEF Request_reload, Show, process, database
  <2> QED
    BY <1>1, <2>1, <2>2, NotBusySettled
<1> QED
  BY <1>4, <1>5, <1>6, <1>7, <1>8 DEF Handler

LEMMA ApartStep ==
  ASSUME TasksTypeOK, NoneDown, Apart, [Next]_vars
  PROVE  Apart'
<1>1. SUFFICES ASSUME upset' = {}
               PROVE  Settled'
  BY DEF Apart, Settled
<1>2. CASE Quit
  <2>1. \A o \in Ops : ops'[o].pc \in {"unused", "over"}
    BY <1>2 DEF Quit, Unused, Over
  <2>2. ~up'
    BY <1>2 DEF Quit
  <2> QED
    BY <2>1, <2>2 DEF Settled, Alone, Found, Listed, Cached, Busy
<1>3. ASSUME ~Quit
      PROVE  upset = {}
  BY <1>1, <1>3 DEF Next, Cancel, New_task, Select, Delete_task, Toggle_task_active, Save_task,
                    Handler, Find, Write, List_tasks, Store, Request_reload, Show, Database_fails,
                    Enters, SchedulerStep, Load, See_flag, Reload, Launch, vars
<1>4. ASSUME upset = {}
      PROVE  Settled
  BY <1>4 DEF Apart, Settled
<1>5. CASE Launch
  <2>1. Settled /\ \A o \in Ops : ~Busy(o)
    BY <1>3, <1>4, <1>5 DEF Launch, Quit, NoneDown, Busy
  <2>2. UNCHANGED <<ops, db>> /\ cache' = db
    BY <1>5 DEF Launch, database
  <2> QED
    BY <2>1, <2>2 DEF Settled, Alone, Found, Listed, Cached, Busy
<1>6. ASSUME ~Quit, UNCHANGED <<up, db, cache, ops>>
      PROVE  Settled'
  BY <1>3, <1>4, <1>6 DEF Settled, Alone, Found, Listed, Cached, Busy
<1>7. CASE \/ Cancel \/ New_task \/ SchedulerStep \/ UNCHANGED vars \/ \E i \in DOMAIN ui : Select(i)
  <2>1. UNCHANGED <<up, db, cache, ops>>
    BY <1>7 DEF Cancel, New_task, SchedulerStep, Load, See_flag, Reload, Select, vars, process, database
  <2> QED
    BY <1>2, <1>6, <2>1
<1>8. ASSUME NEW o \in Ops, Database_fails(o)
      PROVE  FALSE
  BY <1>1, <1>8 DEF Database_fails
<1>9. ASSUME NEW o \in Ops, Handler(o), ~Quit
      PROVE  Settled'
  BY <1>1, <1>3, <1>4, <1>9, SettledByHandler
<1>10. ASSUME NEW o \in Ops, ~Quit,
              \/ \E i \in DOMAIN ui : Delete_task(o, i) \/ Toggle_task_active(o, i)
              \/ \E name \in AllNames, plan \in Plans : Save_task(o, name, plan)
       PROVE  Settled'
  BY <1>3, <1>4, <1>10, SettledByClick
<1> QED
  BY <1>2, <1>5, <1>7, <1>8, <1>9, <1>10 DEF Next

\* Each loop is of a task that the table has, and each task that is active has one,
\* when the handlers are through and the scheduler has reloaded: for any number
\* of handlers, rows and starts.
THEOREM LoopsFollowCorrect == Spec => []LoopsFollow
<1>1. Init => Follows /\ NoneDown /\ Apart
  BY DEF Init, Follows, NoneDown, Apart, Alone, Found, Listed, Cached, Busy, Unused, NoScheduler
<1>2. TasksTypeOK /\ Follows /\ NoneDown /\ Apart => LoopsFollow
  BY DEF Follows, Apart, Cached, LoopsFollow
<1>3. TasksTypeOK /\ Follows /\ NoneDown /\ Apart /\ [Next]_vars => (Follows /\ NoneDown /\ Apart)'
  BY FollowsStep, NoneDownStep, ApartStep
<1> QED
  BY <1>1, <1>2, <1>3, TasksTypeCorrect, PTL DEF Spec

\* What was deleted from the table is not written back by a handler that had found
\* it there, unless it overlapped with the deletion.
THEOREM DeletedStaysCorrect == Spec => DeletedStays
<1>1. Init => NoneDown /\ Apart
  BY DEF Init, NoneDown, Apart, Alone, Found, Listed, Cached, Busy, Unused
<1>2. TasksTypeOK /\ NoneDown /\ Apart /\ [Next]_vars => (NoneDown /\ Apart)'
  BY NoneDownStep, ApartStep
<1>3. ASSUME TasksTypeOK, Apart, [Next]_vars, upset' = {},
             NEW id \in 1 .. nextId - 1, id \notin DOMAIN db
      PROVE  id \notin DOMAIN db'
  <2>1. CASE UNCHANGED db
    BY <1>3, <2>1
  <2>2. ASSUME NEW o \in Ops, Write(o)
        PROVE  id \notin DOMAIN db'
    <3>1. upset = {}
      BY <1>3, <2>2 DEF Write, Enters
    <3>2. ops[o].kind # "save" => ops[o].id \in DOMAIN db
      BY <1>3, <2>2, <3>1 DEF Write, Apart, Found
    <3>3. id # nextId
      BY <1>3 DEF TasksTypeOK
    <3> QED
      BY <1>3, <2>2, <3>2, <3>3, WriteTyped
  <2>3. UNCHANGED db \/ \E o \in Ops : Write(o)
    BY <1>3 DEF Next, Cancel, New_task, Select, Delete_task, Toggle_task_active, Save_task,
                Handler, Find, List_tasks, Store, Request_reload, Show, Database_fails,
                SchedulerStep, Load, See_flag, Reload, Quit, Launch, vars, database
  <2> QED
    BY <2>1, <2>2, <2>3
<1>4. TasksTypeOK /\ Apart /\ [Next]_vars =>
        [upset' = {} => \A id \in 1 .. nextId - 1 : id \notin DOMAIN db => id \notin DOMAIN db']_vars
  BY <1>3
<1> QED
  BY <1>1, <1>2, <1>4, TasksTypeCorrect, PTL DEF Spec, DeletedStays
===============================================================================
