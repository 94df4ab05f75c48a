-------------------------- MODULE SharedGraphProofs --------------------------
(* Theorems about SharedGraph, for every set of workers and graphs and      *)
(* every number of scenarios.                                               *)
EXTENDS SharedGraph, FiniteSetTheorems, TLAPS

USE GraphConstants DEF server, history, Goto, Forget, Row, Rows, Online

-----------------------------------------------------------------------------
(* Types, whatever the workers share. *)

LEMMA InitType == Init => TypeOK
<1> SUFFICES ASSUME Init PROVE TypeOK
  OBVIOUS
<1>1. /\ uses \in Suites
      /\ status \in [Databases -> {"absent", "online", "offline"}]
      /\ data \in [Databases -> SUBSET Rows]
      /\ schema \in [Databases -> SUBSET Objects]
  BY DEF Init
<1>2. /\ pc \in [Workers -> {"idle", "clear", "constraints", "indexes", "tree",
                             "body", "graphs"}]
      /\ scenario \in [Workers -> 0..MaxScenarios]
      /\ database \in [Workers -> Databases]
      /\ todo \in [Workers -> SUBSET (Objects \union Entries)]
      /\ step \in [Workers -> {"none", "graph", "cli", "tree"}]
  BY DEF Init
<1>3. /\ alone \subseteq Workers
      /\ clean \in [Workers -> BOOLEAN]
      /\ wrote \in [Workers -> BOOLEAN]
      /\ kept \in [Workers -> SUBSET Objects]
      /\ made \in [Workers -> SUBSET Objects]
      /\ observed \in [Workers -> SUBSET SUBSET Rows]
  BY DEF Init
<1>. QED
  BY <1>1, <1>2, <1>3 DEF TypeOK

LEMMA RowType ==
  ASSUME TypeOK, NEW w \in Workers, pc[w] # "idle", scenario[w] # 0
  PROVE  Row(w) \in Rows
BY DEF TypeOK

(* The row a worker writes is a row: it writes only within a scenario.  What *)
(* the two DROP loops work on are objects of the schema, never graphs.       *)
Started ==
  \A w \in Workers :
    /\ pc[w] # "idle" => scenario[w] # 0
    /\ pc[w] \in {"constraints", "indexes"} => todo[w] \subseteq Objects

LEMMA NextType == TypeOK /\ Started /\ [Next]_vars => TypeOK' /\ Started'
<1> SUFFICES ASSUME TypeOK, Started, [Next]_vars PROVE TypeOK' /\ Started'
  OBVIOUS
<1>0. CASE UNCHANGED vars
  BY <1>0 DEF vars, TypeOK, Started
<1> SUFFICES ASSUME NEW w \in Workers, Worker(w), UNCHANGED uses PROVE TypeOK' /\ Started'
  BY <1>0 DEF Next
<1>1. CASE StartScenario(w)
  BY <1>1 DEF StartScenario, TypeOK, Started
<1>2. CASE EndScenario(w)
  BY <1>2 DEF EndScenario, TypeOK, Started
<1>3. CASE ShowConstraints(w)
  BY <1>3 DEF ShowConstraints, ShowAll, TypeOK, Started
<1>4. CASE ShowIndexes(w)
  BY <1>4 DEF ShowIndexes, ShowAll, TypeOK, Started
<1>5. CASE DropObject(w)
  <2>1. PICK o \in todo[w] :
          \/ /\ schema' = [schema EXCEPT ![database[w]] = @ \ {o}]
             /\ todo' = [todo EXCEPT ![w] = @ \ {o}]
             /\ UNCHANGED kept
          \/ /\ todo' = [todo EXCEPT ![w] = LeftAfterFailure(w, o)]
             /\ kept' = [kept EXCEPT ![w] = @ \union (todo[w] \ todo'[w])]
             /\ UNCHANGED schema
    BY <1>5 DEF DropObject
  <2>2. todo[w] \subseteq Objects /\ LeftAfterFailure(w, o) \subseteq todo[w]
    BY <1>5 DEF DropObject, Started, LeftAfterFailure
  <2>3. schema' \in [Databases -> SUBSET Objects]
    BY <2>1 DEF TypeOK
  <2>4. todo' \in [Workers -> SUBSET (Objects \union Entries)]
    BY <2>1, <2>2 DEF TypeOK
  <2>5. kept' \in [Workers -> SUBSET Objects]
    BY <1>5, <2>1, <2>2 DEF TypeOK, Started, DropObject
  <2>6. todo'[w] \subseteq Objects /\ \A v \in Workers \ {w} : todo'[v] = todo[v]
    BY <2>1, <2>2 DEF TypeOK
  <2>7. /\ UNCHANGED <<status, data, pc, scenario, database, step, clean, wrote, made, observed>>
        /\ alone' \subseteq Workers
    BY <1>5 DEF DropObject, Touched, TypeOK
  <2>8. Started'
    BY <2>6, <2>7 DEF Started
  <2>. QED
    BY <2>3, <2>4, <2>5, <2>7, <2>8 DEF TypeOK
<1>6. CASE DeleteRows(w)
  <2>1. CASE UNCHANGED data /\ Goto(w, "idle") /\ Forget(w)
    BY <1>6, <2>1 DEF DeleteRows, TypeOK, Started
  <2>2. CASE /\ ClearsRows(w)
             /\ Goto(w, IF step[w] = "tree" THEN "tree" ELSE "body")
             /\ clean' = [clean EXCEPT ![w] = TRUE]
             /\ Touched(w, database[w])
             /\ UNCHANGED <<database, wrote, kept, made, observed>>
    BY <1>6, <2>2 DEF DeleteRows, ClearsRows, Touched, TypeOK, Started
  <2>. QED
    BY <1>6, <2>1, <2>2 DEF DeleteRows
<1>7. CASE CreateTree(w)
  <2>1. CASE UNCHANGED data /\ Goto(w, "idle") /\ Forget(w)
    BY <1>7, <2>1 DEF CreateTree, TypeOK, Started
  <2>2. CASE /\ data' = [data EXCEPT ![database[w]] = @ \union {Row(w)}]
             /\ wrote' = [wrote EXCEPT ![w] = TRUE]
             /\ Touched(w, database[w])
             /\ Goto(w, "body")
             /\ UNCHANGED <<database, clean, kept, made, observed>>
    BY <1>7, <2>2 DEF CreateTree, Touched, TypeOK, Started
  <2>. QED
    BY <1>7, <2>1, <2>2 DEF CreateTree
<1>8. CASE WriteRow(w)
  BY <1>8 DEF WriteRow, Touched, TypeOK, Started
<1>9. CASE ReadRows(w)
  BY <1>9 DEF ReadRows, TypeOK, Started
<1>10. CASE CreateObject(w)
  BY <1>10 DEF CreateObject, Touched, TypeOK, Started
<1>11. CASE UseDatabase(w)
  BY <1>11 DEF UseDatabase, TypeOK, Started
<1>12. CASE CreateGraph(w)
  BY <1>12 DEF CreateGraph, TypeOK, Started
<1>13. CASE SetOffline(w)
  BY <1>13 DEF SetOffline, TypeOK, Started
<1>14. CASE ShowGraphs(w)
  <2>1. {<<d, status[d]>> : d \in UserGraphs} \subseteq Entries
    BY DEF UserGraphs, AllGraphs, Entries, TypeOK
  <2>. QED
    BY <1>14, <2>1 DEF ShowGraphs, TypeOK, Started
<1>15. CASE AlterGraph(w) \/ DropGraph(w)
  <2>1. /\ pc[w] = "graphs"
        /\ UNCHANGED <<pc, scenario, database, step, clean, wrote, kept, made, observed>>
        /\ alone' \subseteq Workers
    BY <1>15 DEF AlterGraph, DropGraph, TypeOK
  <2>2. /\ data' \in [Databases -> SUBSET Rows]
        /\ schema' \in [Databases -> SUBSET Objects]
    BY <1>15 DEF AlterGraph, DropGraph, TypeOK
  <2>3. \E d \in Databases, s \in {"absent", "online"} :
          status' = [status EXCEPT ![d] = s] \/ UNCHANGED status
    BY <1>15 DEF AlterGraph, DropGraph
  <2>4. \E T \in SUBSET (Objects \union Entries) : todo' = [todo EXCEPT ![w] = T]
    <3>1. todo[w] \in SUBSET (Objects \union Entries)
      BY DEF TypeOK
    <3>2. CASE AlterGraph(w)
      <4>1. PICK d \in Databases : todo' =
              [todo EXCEPT ![w] = (@ \ {<<d, "offline">>}) \union {<<d, "altered">>}]
        BY <3>2 DEF AlterGraph
      <4>2. <<d, "altered">> \in Entries
        BY DEF Entries
      <4>. QED
        BY <3>1, <4>1, <4>2
    <3>3. CASE DropGraph(w)
      BY <3>1, <3>3 DEF DropGraph, GraphsLeft
    <3>. QED
      BY <1>15, <3>2, <3>3
  <2>. QED
    <3>1. status' \in [Databases -> {"absent", "online", "offline"}]
      BY <2>3 DEF TypeOK
    <3>2. todo' \in [Workers -> SUBSET (Objects \union Entries)]
      BY <2>4 DEF TypeOK
    <3>3. TypeOK'
      BY <2>1, <2>2, <3>1, <3>2 DEF TypeOK
    <3>4. \A v \in Workers \ {w} : todo'[v] = todo[v]
      BY <2>4 DEF TypeOK
    <3>. QED
      BY <2>1, <3>3, <3>4 DEF Started
<1>16. CASE GraphsDropped(w)
  BY <1>16 DEF GraphsDropped, TypeOK, Started
<1>. QED
  BY <1>1, <1>2, <1>3, <1>4, <1>5, <1>6, <1>7, <1>8, <1>9, <1>10, <1>11, <1>12,
     <1>13, <1>14, <1>15, <1>16
  DEF Worker, Clearing, Querying, Administering

(* The clearing loops keep their snapshots, and the history stays history.  *)
THEOREM GraphTypeCorrect == Spec => []TypeOK
<1>1. Init => TypeOK /\ Started
  BY InitType DEF Init, Started
<1>. QED
  BY <1>1, NextType, PTL DEF Spec

-----------------------------------------------------------------------------
(* What a worker knows of its graph while it is alone on it, at every point *)
(* of its scenario.  It is inductive because each call of another worker    *)
(* that changes that graph ends the knowledge, and no other call can.       *)

(* Where the worker is, and what its scenario can have done by then.        *)
Progress(w) ==
  /\ pc[w] \in {"idle", "clear", "constraints", "indexes"} => ~clean[w]
  /\ w \in alone => clean[w] \/ pc[w] \in {"clear", "constraints", "indexes"}
  /\ pc[w] \notin {"body", "graphs"} => ~wrote[w] /\ observed[w] = {} /\ made[w] = {}

(* From the clearing step on, its graph holds exactly its own rows.         *)
RowsKnown(w) ==
  w \in alone /\ clean[w] => /\ data[database[w]] = Expected(w)
                             /\ \A rows \in observed[w] : rows = Expected(w)

(* The loops and the failures account for every object of the schema.       *)
SchemaKnown(w) ==
  w \in alone =>
    /\ pc[w] = "constraints" =>
         schema[database[w]] \cap Constraints \subseteq todo[w] \union kept[w]
    /\ pc[w] = "indexes" => schema[database[w]] \subseteq todo[w] \union kept[w]
    /\ clean[w] => schema[database[w]] \subseteq made[w] \union kept[w]

Known(w) == Progress(w) /\ RowsKnown(w) /\ SchemaKnown(w)

(* All that Known(v) speaks of stays as it is, or v is not alone any more.  *)
LeftAlone(v) ==
  /\ pc'[v] = pc[v] /\ scenario'[v] = scenario[v] /\ database'[v] = database[v]
  /\ todo'[v] = todo[v] /\ clean'[v] = clean[v] /\ wrote'[v] = wrote[v]
  /\ kept'[v] = kept[v] /\ made'[v] = made[v] /\ observed'[v] = observed[v]
  /\ v \in alone' => v \in alone
  /\ v \in alone' => /\ data'[database[v]] = data[database[v]]
                     /\ schema'[database[v]] = schema[database[v]]

LEMMA LeftAloneKnown ==
  ASSUME NEW v \in Workers, Known(v), LeftAlone(v)
  PROVE  Known(v)'
BY DEF Known, LeftAlone, Progress, RowsKnown, SchemaKnown, Expected

LEMMA OthersLeaveAlone ==
  ASSUME TypeOK, NEW w \in Workers, Worker(w), NEW v \in Workers, v # w
  PROVE  LeftAlone(v)
<1>. USE DEF TypeOK, LeftAlone
<1>1. CASE StartScenario(w) \/ EndScenario(w)
  BY <1>1 DEF StartScenario, EndScenario
<1>2. CASE ShowConstraints(w) \/ ShowIndexes(w)
  BY <1>2 DEF ShowConstraints, ShowIndexes, ShowAll
<1>3. CASE DropObject(w)
  BY <1>3 DEF DropObject, Touched
<1>4. CASE DeleteRows(w)
  BY <1>4 DEF DeleteRows, ClearsRows, Touched
<1>5. CASE CreateTree(w)
  BY <1>5 DEF CreateTree, Touched
<1>6. CASE Querying(w)
  BY <1>6 DEF Querying, WriteRow, ReadRows, CreateObject, Touched
<1>7. CASE UseDatabase(w) \/ CreateGraph(w) \/ SetOffline(w) \/ ShowGraphs(w) \/ GraphsDropped(w)
  BY <1>7 DEF UseDatabase, CreateGraph, SetOffline, ShowGraphs, GraphsDropped
<1>8. CASE AlterGraph(w)
  BY <1>8 DEF AlterGraph
<1>9. CASE DropGraph(w)
  <2>1. PICK d \in Databases :
          \/ /\ data' = [data EXCEPT ![d] = {}]
             /\ schema' = [schema EXCEPT ![d] = {}]
             /\ alone' = {u \in alone : database[u] # d}
          \/ UNCHANGED <<server, alone>>
    BY <1>9 DEF DropGraph
  <2>2. /\ UNCHANGED <<pc, scenario, database, step, clean, wrote, kept, made, observed>>
        /\ todo'[v] = todo[v]
    BY <1>9 DEF DropGraph
  <2>. QED
    BY <2>1, <2>2
<1>. QED
  BY <1>1, <1>2, <1>3, <1>4, <1>5, <1>6, <1>7, <1>8, <1>9 DEF Worker, Clearing, Administering

LEMMA WorkerKnown ==
  ASSUME TypeOK, NEW w \in Workers, Known(w), Worker(w)
  PROVE  Known(w)'
<1>. USE DEF Known, TypeOK
<1>1. CASE StartScenario(w)
  BY <1>1 DEF StartScenario, Progress, RowsKnown, SchemaKnown
<1>2. CASE EndScenario(w)
  BY <1>2 DEF EndScenario, Progress, RowsKnown, SchemaKnown
<1>3. CASE ShowConstraints(w)
  BY <1>3 DEF ShowConstraints, ShowAll, Progress, RowsKnown, SchemaKnown
<1>4. CASE ShowIndexes(w)
  BY <1>4 DEF ShowIndexes, ShowAll, LoopDone, Progress, RowsKnown, SchemaKnown
<1>5. CASE DropObject(w)
  <2>1. PICK o \in todo[w] :
          \/ /\ schema' = [schema EXCEPT ![database[w]] = @ \ {o}]
             /\ todo' = [todo EXCEPT ![w] = @ \ {o}]
             /\ UNCHANGED kept
          \/ /\ todo' = [todo EXCEPT ![w] = LeftAfterFailure(w, o)]
             /\ kept' = [kept EXCEPT ![w] = @ \union (todo[w] \ todo'[w])]
             /\ UNCHANGED schema
    BY <1>5 DEF DropObject
  <2>2. /\ (w \in alone' <=> w \in alone) /\ pc[w] \in {"constraints", "indexes"}
        /\ UNCHANGED <<data, pc, scenario, database, clean, wrote, made, observed>>
    BY <1>5 DEF DropObject, Touched
  <2>3. SchemaKnown(w)'
    <3>1. CASE UNCHANGED kept /\ schema'[database[w]] = schema[database[w]] \ {o}
                              /\ todo'[w] = todo[w] \ {o}
      BY <2>2, <3>1 DEF SchemaKnown, Progress
    <3>2. CASE UNCHANGED schema /\ kept'[w] = kept[w] \union (todo[w] \ todo'[w])
      BY <2>2, <3>2 DEF SchemaKnown, Progress
    <3>. QED
      BY <2>1, <3>1, <3>2
  <2>. QED
    BY <2>2, <2>3 DEF Progress, RowsKnown, Expected
<1>6. CASE DeleteRows(w)
  <2>1. CASE UNCHANGED data /\ Goto(w, "idle") /\ Forget(w)
    BY <1>6, <2>1 DEF DeleteRows, Progress, RowsKnown, SchemaKnown
  <2>2. CASE /\ ClearsRows(w)
             /\ Goto(w, IF step[w] = "tree" THEN "tree" ELSE "body")
             /\ clean' = [clean EXCEPT ![w] = TRUE]
             /\ Touched(w, database[w])
             /\ UNCHANGED <<database, wrote, kept, made, observed>>
    BY <1>6, <2>2 DEF DeleteRows, LoopDone, ClearsRows, Touched, Progress, RowsKnown,
                      SchemaKnown, Expected
  <2>. QED
    BY <1>6, <2>1, <2>2 DEF DeleteRows
<1>7. CASE CreateTree(w)
  <2>1. CASE UNCHANGED data /\ Goto(w, "idle") /\ Forget(w)
    BY <1>7, <2>1 DEF CreateTree, Progress, RowsKnown, SchemaKnown
  <2>2. CASE /\ data' = [data EXCEPT ![database[w]] = @ \union {Row(w)}]
             /\ wrote' = [wrote EXCEPT ![w] = TRUE]
             /\ Touched(w, database[w])
             /\ Goto(w, "body")
             /\ UNCHANGED <<database, clean, kept, made, observed>>
    <3>1. w \in alone /\ clean[w] => data'[database[w]] = {Row(w)} /\ observed[w] = {}
      BY <1>7, <2>2 DEF CreateTree, Progress, RowsKnown, Expected
    <3>2. RowsKnown(w)'
      BY <1>7, <2>2, <3>1 DEF CreateTree, RowsKnown, Expected, Touched
    <3>. QED
      BY <1>7, <2>2, <3>2 DEF CreateTree, Progress, SchemaKnown, Touched
  <2>. QED
    BY <1>7, <2>1, <2>2 DEF CreateTree
<1>8. CASE WriteRow(w)
  BY <1>8 DEF WriteRow, Touched, Progress, RowsKnown, SchemaKnown, Expected
<1>9. CASE ReadRows(w)
  BY <1>9 DEF ReadRows, Progress, RowsKnown, SchemaKnown, Expected
<1>10. CASE CreateObject(w)
  BY <1>10 DEF CreateObject, Touched, Progress, RowsKnown, SchemaKnown, Expected
<1>11. CASE UseDatabase(w) \/ CreateGraph(w) \/ SetOffline(w) \/ ShowGraphs(w) \/ GraphsDropped(w)
  <2>1. /\ pc[w] \in {"body", "graphs"} /\ pc'[w] \in {"body", "graphs"}
        /\ UNCHANGED <<data, schema, scenario, clean, wrote, kept, made, observed>>
        /\ w \in alone' => w \in alone /\ database'[w] = database[w]
    <3>1. CASE UseDatabase(w)
      BY <3>1 DEF UseDatabase
    <3>2. CASE CreateGraph(w) \/ SetOffline(w)
      BY <3>2 DEF CreateGraph, SetOffline
    <3>3. CASE ShowGraphs(w) \/ GraphsDropped(w)
      BY <3>3 DEF ShowGraphs, GraphsDropped
    <3>. QED
      BY <1>11, <3>1, <3>2, <3>3
  <2>. QED
    BY <2>1 DEF Progress, RowsKnown, SchemaKnown, Expected
<1>12. CASE AlterGraph(w) \/ DropGraph(w)
  <2>1. /\ pc[w] = "graphs" /\ pc'[w] = pc[w] /\ UNCHANGED <<scenario, database>>
        /\ UNCHANGED <<clean, wrote, kept, made, observed>>
        /\ \/ UNCHANGED <<data, schema, alone>>
           \/ /\ w \in alone' => w \in alone
              /\ w \in alone' => /\ data'[database[w]] = data[database[w]]
                                 /\ schema'[database[w]] = schema[database[w]]
    BY <1>12 DEF AlterGraph, DropGraph
  <2>. QED
    BY <2>1 DEF Progress, RowsKnown, SchemaKnown, Expected
<1>. QED
  BY <1>1, <1>2, <1>3, <1>4, <1>5, <1>6, <1>7, <1>8, <1>9, <1>10, <1>11, <1>12
  DEF Worker, Clearing, Querying, Administering

GraphInv == TypeOK /\ Started /\ \A w \in Workers : Known(w)

LEMMA InitKnown == Init => GraphInv
<1> SUFFICES ASSUME Init PROVE GraphInv
  OBVIOUS
<1>1. TypeOK /\ Started
  BY InitType DEF Init, Started
<1>2. ASSUME NEW w \in Workers PROVE Known(w)
  BY DEF Init, Known, Progress, RowsKnown, SchemaKnown
<1>. QED
  BY <1>1, <1>2 DEF GraphInv

LEMMA NextKnown == GraphInv /\ [Next]_vars => GraphInv'
<1> SUFFICES ASSUME GraphInv, [Next]_vars PROVE GraphInv'
  OBVIOUS
<1>1. TypeOK' /\ Started'
  BY NextType DEF GraphInv
<1>2. ASSUME NEW v \in Workers PROVE Known(v)'
  <2>1. CASE UNCHANGED vars
    BY <2>1, LeftAloneKnown DEF vars, LeftAlone, GraphInv
  <2>2. ASSUME NEW w \in Workers, Worker(w) PROVE Known(v)'
    <3>1. CASE v = w
      BY <2>2, <3>1, WorkerKnown DEF GraphInv
    <3>2. CASE v # w
      BY <2>2, <3>2, OthersLeaveAlone, LeftAloneKnown DEF GraphInv
    <3>. QED
      BY <3>1, <3>2
  <2>. QED
    BY <2>1, <2>2 DEF Next
<1>. QED
  BY <1>1, <1>2 DEF GraphInv

(* Whatever workers share a graph, and whichever of their calls fail: a     *)
(* scenario that has cleared its graph reads back exactly what it wrote,    *)
(* until a call of another worker has changed that very graph.  Neither a   *)
(* scenario before it nor a change of another graph can reach it.           *)
THEOREM ScenariosAreIsolated == Spec => []ReadsOwnRows
<1>1. GraphInv => ReadsOwnRows
  BY DEF GraphInv, Known, RowsKnown, ReadsOwnRows
<1>. QED
  BY <1>1, InitKnown, NextKnown, PTL DEF Spec

(* Nothing else than a failed SHOW or DROP, or another worker's call on the *)
(* same graph, lets a constraint or an index of another scenario into this  *)
(* one.                                                                     *)
THEOREM SchemaIsAccountedFor == Spec => []SchemaAccountedFor
<1>1. GraphInv => SchemaAccountedFor
  BY DEF GraphInv, Known, SchemaKnown, SchemaAccountedFor
<1>. QED
  BY <1>1, InitKnown, NextKnown, PTL DEF Spec

-----------------------------------------------------------------------------
(* Refinement.  A call of a worker is a step of its private graph or none,   *)
(* and at worst ends the promise to another worker.                          *)

PrivateVars(w) == <<Stage(w), OwnGraph(w), OwnAnswer(w)>>

LEMMA LeftAloneIsPrivate ==
  ASSUME TypeOK, NEW v \in Workers, LeftAlone(v)
  PROVE  [Private(v)!Next]_(Private(v)!vars)
<1>1. CASE v \in alone' <=> v \in alone
  BY <1>1 DEF LeftAlone, Private!vars, Stage, OwnGraph, OwnAnswer, TypeOK
<1>2. CASE v \in alone /\ v \notin alone'
  <2>1. CASE pc[v] = "idle"
    BY <1>2, <2>1 DEF LeftAlone, Private!vars, Stage, OwnGraph, OwnAnswer
  <2>2. CASE pc[v] # "idle"
    BY <1>2, <2>2 DEF LeftAlone, Private!Next, Private!Lose, Stage, OwnGraph, OwnAnswer
  <2>. QED
    BY <2>1, <2>2
<1>. QED
  BY <1>1, <1>2 DEF LeftAlone, TypeOK

(* What each action of PrivateGraph owes, in terms of the worker. *)
PrivateStep(w) ==
  \/ UNCHANGED PrivateVars(w)
  \/ /\ Stage(w) = "between" /\ Stage(w)' \in {"clearing", "any"}
     /\ UNCHANGED <<OwnGraph(w), OwnAnswer(w)>>
  \/ /\ Stage(w) = "clearing" /\ Stage(w)' = "known"
     /\ OwnGraph(w)' = {} /\ OwnAnswer(w)' = OwnAnswer(w)
  \/ /\ Stage(w) = "known" /\ Stage(w)' = "known"
     /\ Row(w) \in {w} \X (1..MaxScenarios)
     /\ OwnGraph(w)' = OwnGraph(w) \union {Row(w)} /\ OwnAnswer(w)' = {}
  \/ /\ Stage(w) = "known" /\ Stage(w)' = "known"
     /\ OwnGraph(w)' = OwnGraph(w) /\ OwnAnswer(w)' = {OwnGraph(w)}
  \/ /\ Stage(w) \in {"clearing", "known"} /\ Stage(w)' = "any"
     /\ OwnGraph(w)' = {} /\ OwnAnswer(w)' = {}
  \/ /\ Stage(w) # "between" /\ Stage(w)' = "between"
     /\ OwnGraph(w)' = {} /\ OwnAnswer(w)' = {}

LEMMA PrivateStepIsStep ==
  ASSUME NEW w \in Workers, PrivateStep(w)
  PROVE  [Private(w)!Next]_(Private(w)!vars)
BY DEF PrivateStep, PrivateVars, Private!vars, Private!Next, Private!Start, Private!Clear,
       Private!Write, Private!Read, Private!Lose, Private!End

LEMMA WorkerStepIsPrivate ==
  ASSUME GraphInv, NEW w \in Workers, Worker(w)
  PROVE  PrivateStep(w)
<1>. USE DEF GraphInv, TypeOK, PrivateStep, PrivateVars, Stage, OwnGraph, OwnAnswer
<1>0. Known(w) /\ Progress(w) /\ RowsKnown(w)
  BY DEF Known
<1>1. CASE StartScenario(w)
  BY <1>0, <1>1 DEF StartScenario, Progress
<1>2. CASE EndScenario(w)
  BY <1>2 DEF EndScenario
<1>3. CASE ShowConstraints(w) \/ ShowIndexes(w)
  BY <1>0, <1>3 DEF ShowConstraints, ShowIndexes, Progress
<1>4. CASE DropObject(w)
  BY <1>4 DEF DropObject, Touched
<1>5. CASE DeleteRows(w)
  BY <1>0, <1>5 DEF DeleteRows, ClearsRows, Touched, Progress
<1>6. CASE CreateTree(w)
  BY <1>0, <1>6 DEF CreateTree, Touched, Progress, Started
<1>7. CASE WriteRow(w)
  BY <1>0, <1>7 DEF WriteRow, Touched, Progress, Started
<1>8. CASE ReadRows(w)
  BY <1>0, <1>8 DEF ReadRows, Progress
<1>9. CASE CreateObject(w)
  BY <1>9 DEF CreateObject, Touched
<1>10. CASE UseDatabase(w) \/ CreateGraph(w) \/ SetOffline(w) \/ ShowGraphs(w) \/ GraphsDropped(w)
  BY <1>0, <1>10 DEF UseDatabase, CreateGraph, SetOffline, ShowGraphs, GraphsDropped
<1>11. CASE AlterGraph(w) \/ DropGraph(w)
  <2>1. /\ pc[w] = "graphs" /\ pc'[w] = pc[w] /\ UNCHANGED <<scenario, database, clean, observed>>
        /\ \/ UNCHANGED <<data, alone>>
           \/ /\ w \in alone' => w \in alone
              /\ w \in alone' => data'[database[w]] = data[database[w]]
    BY <1>11 DEF AlterGraph, DropGraph
  <2>. QED
    BY <2>1
<1>. QED
  BY <1>1, <1>2, <1>3, <1>4, <1>5, <1>6, <1>7, <1>8, <1>9, <1>10, <1>11
  DEF Worker, Clearing, Querying, Administering

LEMMA PrivateInit == Init => \A w \in Workers : Private(w)!Init
BY DEF Init, Private!Init, Stage, OwnGraph, OwnAnswer

LEMMA PrivateNext ==
  GraphInv /\ [Next]_vars => [\A w \in Workers : [Private(w)!Next]_(Private(w)!vars)]_vars
<1> SUFFICES ASSUME GraphInv, Next, NEW v \in Workers PROVE [Private(v)!Next]_(Private(v)!vars)
  OBVIOUS
<1> PICK w \in Workers : Worker(w)
  BY DEF Next
<1>1. CASE v = w
  BY <1>1, WorkerStepIsPrivate, PrivateStepIsStep
<1>2. CASE v # w
  BY <1>2, OthersLeaveAlone, LeftAloneIsPrivate DEF GraphInv
<1>. QED
  BY <1>1, <1>2

(* Whatever workers share its graphs, the server is as good as a private    *)
(* graph for each scenario that has cleared it: one that starts empty, that *)
(* only the scenario writes to, and whose queries return all of it, until   *)
(* another worker changes it.  The clearing step takes effect at its        *)
(* DETACH DELETE.                                                           *)
THEOREM SharedServerIsPrivate == Spec => ImplementsPrivateGraphs
BY PrivateInit, PrivateNext, InitKnown, NextKnown, PTL DEF Spec, ImplementsPrivateGraphs

-----------------------------------------------------------------------------
(* Protected graphs, with the steps that administer graphs and with any     *)
(* number of workers on one database.                                       *)

SnapshotsSpare ==
  \A w \in Workers : pc[w] = "graphs" =>
    \A d \in Protected, s \in {"online", "offline", "altered"} : <<d, s>> \notin todo[w]

ProtectedInv ==
  /\ TypeOK
  /\ Started
  /\ ProtectedStays
  /\ SnapshotsSpare

LEMMA NextProtected == ProtectedInv /\ [Next]_vars => ProtectedInv'
<1> SUFFICES ASSUME ProtectedInv, [Next]_vars PROVE ProtectedInv'
  OBVIOUS
<1>1. TypeOK' /\ Started'
  BY NextType DEF ProtectedInv
<1>2. ProtectedStays' /\ SnapshotsSpare'
  <2>1. CASE UNCHANGED vars
    BY <2>1 DEF vars, ProtectedInv, ProtectedStays, SnapshotsSpare
  <2>2. ASSUME NEW w \in Workers, Worker(w)
        PROVE  ProtectedStays' /\ SnapshotsSpare'
    <3>. USE DEF ProtectedInv, ProtectedStays, SnapshotsSpare, TypeOK
    <3>1. CASE StartScenario(w) \/ EndScenario(w)
      BY <3>1 DEF StartScenario, EndScenario
    <3>2. CASE Clearing(w)
      BY <3>2 DEF Clearing, ShowConstraints, ShowIndexes, ShowAll, DropObject,
                  DeleteRows, CreateTree
    <3>3. CASE Querying(w)
      BY <3>3 DEF Querying, WriteRow, ReadRows, CreateObject
    <3>4. CASE UseDatabase(w)
      BY <3>4 DEF UseDatabase
    <3>5. CASE CreateGraph(w)
      BY <3>5 DEF CreateGraph
    <3>6. CASE SetOffline(w)
      BY <3>6 DEF SetOffline
    <3>7. CASE ShowGraphs(w)
      BY <3>7 DEF ShowGraphs, UserGraphs, AllGraphs
    <3>8. CASE AlterGraph(w)
      BY <3>8 DEF AlterGraph
    <3>9. CASE DropGraph(w)
      <4>1. PICK d \in Databases, s \in {"online", "altered"} :
              /\ <<d, s>> \in todo[w]
              /\ todo' = [todo EXCEPT ![w] = @ \ {<<d, s>>}]
              /\ status' = [status EXCEPT ![d] = "absent"] \/ UNCHANGED status
        BY <3>9 DEF DropGraph, GraphsLeft
      <4>2. pc[w] = "graphs" /\ UNCHANGED pc
        BY <3>9 DEF DropGraph
      <4>3. d \notin Protected
        BY <4>1, <4>2
      <4>4. ProtectedStays'
        BY <4>1, <4>3
      <4>5. SnapshotsSpare'
        BY <4>1, <4>2
      <4>. QED
        BY <4>4, <4>5
    <3>10. CASE GraphsDropped(w)
      BY <3>10 DEF GraphsDropped
    <3>. QED
      BY <2>2, <3>1, <3>2, <3>3, <3>4, <3>5, <3>6, <3>7, <3>8, <3>9, <3>10
      DEF Worker, Administering
  <2>. QED
    BY <2>1, <2>2 DEF Next
<1>. QED
  BY <1>1, <1>2 DEF ProtectedInv

(* No interleaving of workers that create, alter and drop graphs removes    *)
(* default, sys or system: drop all graph filters the snapshot it works on. *)
THEOREM ProtectedGraphsStay == Spec => []ProtectedStays
<1>1. Init => ProtectedInv
  BY InitType DEF Init, Started, ProtectedInv, ProtectedStays, SnapshotsSpare
<1>. QED
  BY <1>1, NextProtected, PTL DEF Spec, ProtectedInv

-----------------------------------------------------------------------------
(* The loops come to an end, on any databases and with any administration.  *)

OfflineIn(snapshot) == {d \in Databases : <<d, "offline">> \in snapshot}

LEMMA CallsCounted ==
  ASSUME IsFiniteSet(Databases), IsFiniteSet(Objects),
         NEW S \in SUBSET (Objects \union Entries)
  PROVE  /\ IsFiniteSet(S) /\ Cardinality(S) \in Nat
         /\ IsFiniteSet(OfflineIn(S)) /\ Cardinality(OfflineIn(S)) \in Nat
         /\ CallsLeft(S) = Cardinality(S) + Cardinality(OfflineIn(S))
<1>1. IsFiniteSet({"online", "offline", "altered"})
  <2>1. IsFiniteSet({} \union {"online"})
    BY FS_EmptySet, FS_AddElement
  <2>2. IsFiniteSet(({} \union {"online"}) \union {"offline"})
    BY <2>1, FS_AddElement
  <2>3. IsFiniteSet((({} \union {"online"}) \union {"offline"}) \union {"altered"})
    BY <2>2, FS_AddElement
  <2>4. {"online", "offline", "altered"} = (({} \union {"online"}) \union {"offline"}) \union {"altered"}
    OBVIOUS
  <2>. QED
    BY <2>3, <2>4
<1>2. IsFiniteSet(Entries)
  BY <1>1, FS_Product DEF Entries
<1>3. IsFiniteSet(S)
  BY <1>2, FS_Union, FS_Subset
<1>4. IsFiniteSet(OfflineIn(S))
  BY FS_Subset DEF OfflineIn
<1>. QED
  BY <1>3, <1>4, FS_CardinalityType DEF CallsLeft, OfflineIn

(* What a snapshot loses, it has not to be called for any more. *)
LEMMA FewerEntriesFewerCalls ==
  ASSUME IsFiniteSet(Databases), IsFiniteSet(Objects),
         NEW S \in SUBSET (Objects \union Entries), NEW T \in SUBSET S, T # S
  PROVE  CallsLeft(T) < CallsLeft(S)
<1>1. Cardinality(T) < Cardinality(S)
  <2>1. /\ IsFiniteSet(S) /\ Cardinality(S) \in Nat /\ Cardinality(T) \in Nat
    BY CallsCounted
  <2>2. Cardinality(T) <= Cardinality(S) /\ Cardinality(T) # Cardinality(S)
    BY <2>1, FS_Subset
  <2>. QED
    BY <2>1, <2>2
<1>2. Cardinality(OfflineIn(T)) <= Cardinality(OfflineIn(S))
  <2>1. OfflineIn(T) \subseteq OfflineIn(S)
    BY DEF OfflineIn
  <2>. QED
    BY <2>1, CallsCounted, FS_Subset
<1>3. T \in SUBSET (Objects \union Entries)
  OBVIOUS
<1>. QED
  BY <1>1, <1>2, <1>3, CallsCounted

(* ALTER turns an entry into one that costs a call less. *)
LEMMA AlteredFewerCalls ==
  ASSUME IsFiniteSet(Databases), IsFiniteSet(Objects),
         NEW S \in SUBSET (Objects \union Entries), NEW d \in Databases, <<d, "offline">> \in S
  PROVE  CallsLeft((S \ {<<d, "offline">>}) \union {<<d, "altered">>}) < CallsLeft(S)
<1> DEFINE R == S \ {<<d, "offline">>}
           T == R \union {<<d, "altered">>}
<1>1. R \in SUBSET (Objects \union Entries) /\ T \in SUBSET (Objects \union Entries)
  BY DEF Entries
<1>2. Cardinality(T) <= Cardinality(R) + 1
  <2>1. IsFiniteSet(R) /\ Cardinality(R) \in Nat
    BY <1>1, CallsCounted
  <2>. HIDE DEF R
  <2>2. Cardinality(R \union {<<d, "altered">>})
        = IF <<d, "altered">> \in R THEN Cardinality(R) ELSE Cardinality(R) + 1
    BY <2>1, FS_AddElement, Zenon
  <2>. QED
    BY <2>1, <2>2
<1>3. Cardinality(R) = Cardinality(S) - 1
  <2>1. IsFiniteSet(S)
    BY CallsCounted
  <2>. QED
    BY <2>1, FS_RemoveElement
<1>4. Cardinality(OfflineIn(T)) = Cardinality(OfflineIn(S)) - 1
  <2>1. OfflineIn(T) = OfflineIn(S) \ {d} /\ d \in OfflineIn(S)
    BY DEF OfflineIn
  <2>2. IsFiniteSet(OfflineIn(S))
    BY CallsCounted
  <2>. HIDE DEF T
  <2>. QED
    BY <2>1, <2>2, FS_RemoveElement
<1>. QED
  <2>. HIDE DEF R
  <2>1. /\ Cardinality(S) \in Nat /\ Cardinality(R) \in Nat /\ Cardinality(T) \in Nat
        /\ Cardinality(OfflineIn(S)) \in Nat /\ Cardinality(OfflineIn(T)) \in Nat
        /\ CallsLeft(S) = Cardinality(S) + Cardinality(OfflineIn(S))
        /\ CallsLeft(T) = Cardinality(T) + Cardinality(OfflineIn(T))
    <3>. HIDE DEF T
    <3>. QED
      BY <1>1, CallsCounted
  <2>2. CallsLeft(T) < CallsLeft(S)
    <3>. HIDE DEF T
    <3>. QED
      BY <1>2, <1>3, <1>4, <2>1
  <2>. QED
    BY <2>2 DEF R

LEMMA LoopStepAdvances ==
  ASSUME IsFiniteSet(Databases), IsFiniteSet(Objects), TypeOK,
         NEW w \in Workers, Worker(w), pc[w] \notin {"idle", "body"}
  PROVE  Advances(w)
<1>0. /\ pc \in [Workers -> {"idle", "clear", "constraints", "indexes", "tree", "body", "graphs"}]
      /\ todo \in [Workers -> SUBSET (Objects \union Entries)]
      /\ todo[w] \in SUBSET (Objects \union Entries)
  BY DEF TypeOK
<1>1. CASE ShowConstraints(w) \/ ShowIndexes(w)
  BY <1>0, <1>1 DEF ShowConstraints, ShowIndexes, Advances, PlacesAhead
<1>2. CASE DropObject(w)
  <2>1. PICK o \in todo[w] : todo'[w] \in {todo[w] \ {o}, {}}
    BY <1>0, <1>2 DEF DropObject, LeftAfterFailure
  <2>2. CallsLeft(todo'[w]) < CallsLeft(todo[w])
    BY <1>0, <2>1, FewerEntriesFewerCalls
  <2>. QED
    BY <1>2, <2>2 DEF DropObject, Advances
<1>3. CASE DeleteRows(w) \/ CreateTree(w) \/ GraphsDropped(w)
  BY <1>0, <1>3 DEF DeleteRows, CreateTree, GraphsDropped, Advances, PlacesAhead
<1>4. CASE AlterGraph(w)
  <2>1. PICK d \in Databases :
          /\ <<d, "offline">> \in todo[w]
          /\ todo'[w] = (todo[w] \ {<<d, "offline">>}) \union {<<d, "altered">>}
    BY <1>0, <1>4 DEF AlterGraph
  <2>2. CallsLeft(todo'[w]) < CallsLeft(todo[w])
    BY <1>0, <2>1, AlteredFewerCalls
  <2>. QED
    BY <1>4, <2>2 DEF AlterGraph, Advances
<1>5. CASE DropGraph(w)
  <2>1. PICK d \in Databases, s \in {"online", "altered"} :
          <<d, s>> \in todo[w] /\ todo'[w] = todo[w] \ {<<d, s>>}
    BY <1>0, <1>5 DEF DropGraph, GraphsLeft
  <2>2. CallsLeft(todo'[w]) < CallsLeft(todo[w])
    BY <1>0, <2>1, FewerEntriesFewerCalls
  <2>. QED
    BY <1>5, <2>2 DEF DropGraph, Advances
<1>6. CASE \/ StartScenario(w) \/ EndScenario(w) \/ Querying(w) \/ UseDatabase(w)
           \/ CreateGraph(w) \/ SetOffline(w) \/ ShowGraphs(w)
  BY <1>6 DEF StartScenario, EndScenario, Querying, WriteRow, ReadRows, CreateObject,
              UseDatabase, CreateGraph, SetOffline, ShowGraphs
<1>. QED
  BY <1>1, <1>2, <1>3, <1>4, <1>5, <1>6 DEF Worker, Clearing, Administering

LEMMA OthersLoopsStay ==
  ASSUME TypeOK, NEW w \in Workers, NEW v \in Workers \ {w}, Worker(v)
  PROVE  UNCHANGED <<pc[w], todo[w]>>
<1>. USE DEF TypeOK
<1>1. CASE StartScenario(v) \/ EndScenario(v)
  BY <1>1 DEF StartScenario, EndScenario
<1>2. CASE Clearing(v)
  BY <1>2 DEF Clearing, ShowConstraints, ShowIndexes, ShowAll, DropObject, DeleteRows, CreateTree
<1>3. CASE WriteRow(v) \/ ReadRows(v)
  BY <1>3 DEF WriteRow, ReadRows
<1>4. CASE CreateObject(v)
  BY <1>4 DEF CreateObject
<1>5. CASE UseDatabase(v) \/ CreateGraph(v) \/ SetOffline(v)
  BY <1>5 DEF UseDatabase, CreateGraph, SetOffline
<1>6. CASE ShowGraphs(v) \/ GraphsDropped(v)
  BY <1>6 DEF ShowGraphs, GraphsDropped
<1>7. CASE AlterGraph(v)
  BY <1>7 DEF AlterGraph
<1>8. CASE DropGraph(v)
  BY <1>8 DEF DropGraph
<1>. QED
  BY <1>1, <1>2, <1>3, <1>4, <1>5, <1>6, <1>7, <1>8 DEF Worker, Querying, Administering

(* On a server with finitely many graphs and names, no loop of a clearing   *)
(* step or of drop all graph is ever longer than the calls it had left,     *)
(* whatever the other workers create, drop or switch off meanwhile.         *)
THEOREM LoopsAlwaysAdvance ==
  ASSUME IsFiniteSet(Databases), IsFiniteSet(Objects)
  PROVE  Spec => LoopsAdvance
<1> DEFINE Step(w) == pc[w] \notin {"idle", "body"} =>
                        IF Worker(w) THEN Advances(w) ELSE UNCHANGED <<pc[w], todo[w]>>
<1>1. TypeOK /\ Next => \A w \in Workers : Step(w)
  BY LoopStepAdvances, OthersLoopsStay DEF Next
<1>2. TypeOK /\ [Next]_vars => [\A w \in Workers : Step(w)]_vars
  BY <1>1
<1>. QED
  BY <1>2, GraphTypeCorrect, PTL DEF Spec, LoopsAdvance


=============================================================================
