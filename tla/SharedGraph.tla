----------------------------- MODULE SharedGraph -----------------------------
(***************************************************************************)
(* pytest-xdist workers that run scenarios against one server.  Each       *)
(* worker is a process of its own, with its own ScenarioContext and its    *)
(* own connection pool, but the graphs, their rows and their schema live   *)
(* in the server they share.  One action is one call to the server, so the *)
(* clearing steps of src/steps/step_graph_init.py and step_cli_exec.py,    *)
(* which send many, interleave with the scenarios of the other workers.    *)
(***************************************************************************)
EXTENDS Integers, FiniteSets

CONSTANTS
  Workers,       (* xdist workers.                                          *)
  Databases,     (* Graphs that may exist on the server.                    *)
  Protected,     (* default, sys and system.                                *)
  DatabaseOf,    (* settings.server.database of each worker.                *)
  Objects,       (* Names of constraints and of plain indexes.              *)
  Constraints,   (* The members of Objects that are constraints.            *)
  Suites,        (* Sets of steps that the features of a session may use.   *)
  MaxScenarios   (* Bound: scenarios one worker runs.                       *)

ASSUME GraphConstants ==
  /\ Protected \subseteq Databases
  /\ DatabaseOf \in [Workers -> Databases]
  /\ Constraints \subseteq Objects
  /\ Suites \subseteq SUBSET {"graph", "cli", "tree", "objects", "admin"}
  /\ MaxScenarios \in Nat

VARIABLES
  uses,          (* The steps that the features of this session use: the    *)
                 (* clearing steps, CREATE of objects, administration.      *)
  status,        (* Status of each graph: SHOW GRAPH.                       *)
  data,          (* Rows of each graph, by the scenario that wrote them.    *)
  schema,        (* Constraints and plain indexes of each graph.            *)
  pc,            (* Where the worker is in its scenario.                    *)
  scenario,      (* Scenarios the worker has started.                       *)
  database,      (* ctx.current_database of the worker.                     *)
  todo,          (* What its drop loop has not reached yet.                 *)
  step,          (* Which clearing step it runs, if any.                    *)
  alone,         (* History: workers whose graph no other worker has changed *)
                 (* since their clearing step began, nor they have left it. *)
  clean,         (* History: a clearing step of this scenario completed.    *)
  wrote,         (* History: this scenario has written its row.             *)
  kept,          (* History: objects its failed calls left behind.          *)
  made,          (* History: objects the scenario created.                  *)
  observed       (* History: what its last read returned, if it has read.   *)

server == <<status, data, schema>>
history == <<alone, clean, wrote, kept, made, observed>>
vars == <<uses, server, pc, scenario, database, todo, step, history>>

Rows == Workers \X (1..MaxScenarios)

(* What drop all graph keeps of a row of SHOW GRAPH: the graph, and the    *)
(* status it had then; "altered" once ALTER GRAPH ... ONLINE was sent.     *)
Entries == Databases \X {"online", "offline", "altered"}

TypeOK ==
  /\ uses \in Suites
  /\ status \in [Databases -> {"absent", "online", "offline"}]
  /\ data \in [Databases -> SUBSET Rows]
  /\ schema \in [Databases -> SUBSET Objects]
  /\ pc \in [Workers -> {"idle", "clear", "constraints", "indexes", "tree",
                         "body", "graphs"}]
  /\ scenario \in [Workers -> 0..MaxScenarios]
  /\ database \in [Workers -> Databases]
  /\ todo \in [Workers -> SUBSET (Objects \union Entries)]
  /\ step \in [Workers -> {"none", "graph", "cli", "tree"}]
  /\ alone \subseteq Workers
  /\ clean \in [Workers -> BOOLEAN]
  /\ wrote \in [Workers -> BOOLEAN]
  /\ kept \in [Workers -> SUBSET Objects]
  /\ made \in [Workers -> SUBSET Objects]
  /\ observed \in [Workers -> SUBSET SUBSET Rows]

(* The row the current scenario of w writes, and what w expects to read.   *)
Row(w) == <<w, scenario[w]>>
Expected(w) == IF wrote[w] THEN {Row(w)} ELSE {}

-----------------------------------------------------------------------------
Init ==
  /\ uses \in Suites
  /\ status \in [Databases -> {"absent", "online"}]
  /\ \A d \in Databases :
       IF d \in Protected \union {DatabaseOf[w] : w \in Workers}
       THEN status[d] = "online"
       ELSE "admin" \notin uses => status[d] = "absent"
  /\ data = [d \in Databases |-> {}]
  /\ schema \in [Databases -> SUBSET IF "objects" \in uses THEN Objects ELSE {}]
  /\ \A d \in Databases : status[d] = "absent" => schema[d] = {}
  /\ pc = [w \in Workers |-> "idle"]
  /\ scenario = [w \in Workers |-> 0]
  /\ database = DatabaseOf
  /\ todo = [w \in Workers |-> {}]
  /\ step = [w \in Workers |-> "none"]
  /\ alone = {}
  /\ clean = [w \in Workers |-> FALSE]
  /\ wrote = [w \in Workers |-> FALSE]
  /\ kept = [w \in Workers |-> {}]
  /\ made = [w \in Workers |-> {}]
  /\ observed = [w \in Workers |-> {}]

Goto(w, label) == pc' = [pc EXCEPT ![w] = label]

(* A call of w has changed the rows or the schema of the graph d.          *)
Touched(w, d) == alone' = alone \ {v \in Workers \ {w} : database[v] = d}

(* The fixture builds a new context; the first Given step is one of the    *)
(* clearing steps, or "any graph", which sends nothing.                    *)
StartScenario(w) ==
  /\ pc[w] = "idle"
  /\ scenario[w] < MaxScenarios
  /\ scenario' = [scenario EXCEPT ![w] = @ + 1]
  /\ \/ /\ Goto(w, "clear")
        /\ \E s \in uses \cap {"graph", "cli", "tree"} : step' = [step EXCEPT ![w] = s]
        /\ alone' = alone \union {w}
     \/ /\ Goto(w, "body")
        /\ UNCHANGED <<step, alone>>
  /\ UNCHANGED <<server, database, todo, clean, wrote, kept, made, observed>>

(* The scenario is over: the context goes, and the server stays as it is.  *)
Forget(w) ==
  /\ database' = [database EXCEPT ![w] = DatabaseOf[w]]
  /\ alone' = alone \ {w}
  /\ clean' = [clean EXCEPT ![w] = FALSE]
  /\ wrote' = [wrote EXCEPT ![w] = FALSE]
  /\ kept' = [kept EXCEPT ![w] = {}]
  /\ made' = [made EXCEPT ![w] = {}]
  /\ observed' = [observed EXCEPT ![w] = {}]

EndScenario(w) ==
  /\ pc[w] = "body"
  /\ Goto(w, "idle")
  /\ Forget(w)
  /\ UNCHANGED <<server, scenario, todo, step>>

-----------------------------------------------------------------------------
(* The clearing steps: an empty graph, an empty graph for CLI test and the *)
(* binary trees.                                                           *)

Online(w) == status[database[w]] = "online"

(* SHOW CONSTRAINTS or SHOW INDEXES: a snapshot for the loop that follows, *)
(* or, when it fails, nothing to drop.  Indexes a constraint owns and      *)
(* LOOKUP indexes are skipped.                                             *)
ShowsNothing(w, objects) ==
  \/ /\ Online(w)
     /\ todo' = [todo EXCEPT ![w] = {}]
     /\ UNCHANGED kept
  \/ /\ todo' = [todo EXCEPT ![w] = {}]
     /\ kept' = [kept EXCEPT ![w] = @ \union (schema[database[w]] \cap objects)]
ShowAll(w, objects) ==
  \/ /\ Online(w)
     /\ todo' = [todo EXCEPT ![w] = schema[database[w]] \cap objects]
     /\ UNCHANGED kept
  \/ /\ todo' = [todo EXCEPT ![w] = {}]
     /\ kept' = [kept EXCEPT ![w] = @ \union (schema[database[w]] \cap objects)]

ShowConstraints(w) ==
  /\ pc[w] = "clear"
  /\ ShowAll(w, Constraints)
  /\ Goto(w, "constraints")
  /\ UNCHANGED <<server, scenario, database, step, alone, clean, wrote, made, observed>>

(* A loop is over once it has tried every object of its snapshot, whatever *)
(* the schema holds by then.                                               *)
NothingLeft(w) == todo[w] = {} /\ (pc[w] = "indexes" => schema[database[w]] = {})
LoopDone(w) == todo[w] = {}

ShowIndexes(w) ==
  /\ pc[w] = "constraints"
  /\ LoopDone(w)
  /\ ShowAll(w, Objects \ Constraints)
  /\ Goto(w, "indexes")
  /\ UNCHANGED <<server, scenario, database, step, alone, clean, wrote, made, observed>>

(* What the loop still has to do after a DROP failed: "an empty graph"     *)
(* catches each failure, the CLI variant has one try around the loop.      *)
LeftAfterFailure(w, o) == IF step[w] = "cli" THEN {} ELSE todo[w] \ {o}

(* DROP CONSTRAINT / INDEX ... IF EXISTS of one object of the snapshot.    *)
DropObject(w) ==
  /\ pc[w] \in {"constraints", "indexes"}
  /\ \E o \in todo[w] :
       \/ /\ Online(w)
          /\ schema' = [schema EXCEPT ![database[w]] = @ \ {o}]
          /\ todo' = [todo EXCEPT ![w] = @ \ {o}]
          /\ Touched(w, database[w])
          /\ UNCHANGED kept
       \/ /\ todo' = [todo EXCEPT ![w] = LeftAfterFailure(w, o)]
          /\ kept' = [kept EXCEPT ![w] = @ \union (todo[w] \ todo'[w])]
          /\ UNCHANGED <<schema, alone>>
  /\ UNCHANGED <<status, data, pc, scenario, database, step, clean, wrote,
                 made, observed>>

(* MATCH (n) DETACH DELETE n: a failure raises and ends the scenario.      *)
ClearsNothing(w) == UNCHANGED data
ClearsGraph(w) == data' = [d \in Databases \ {database[w]} |-> data[d]]
ClearsRows(w) == data' = [data EXCEPT ![database[w]] = {}]

DeleteRows(w) ==
  /\ pc[w] = "indexes"
  /\ LoopDone(w)
  /\ \/ /\ Online(w)
        /\ ClearsRows(w)
        /\ Goto(w, IF step[w] = "tree" THEN "tree" ELSE "body")
        /\ clean' = [clean EXCEPT ![w] = TRUE]
        /\ Touched(w, database[w])
        /\ UNCHANGED <<database, wrote, kept, made, observed>>
     \/ /\ Goto(w, "idle")
        /\ Forget(w)
        /\ UNCHANGED data
  /\ step' = [step EXCEPT ![w] = "none"]
  /\ UNCHANGED <<status, schema, scenario, todo>>

(* The CREATE of the binary tree, in the same step as the clearing.        *)
CreateTree(w) ==
  /\ pc[w] = "tree"
  /\ \/ /\ Online(w)
        /\ data' = [data EXCEPT ![database[w]] = @ \union {Row(w)}]
        /\ wrote' = [wrote EXCEPT ![w] = TRUE]
        /\ Touched(w, database[w])
        /\ Goto(w, "body")
        /\ UNCHANGED <<database, clean, kept, made, observed>>
     \/ /\ Goto(w, "idle")
        /\ Forget(w)
        /\ UNCHANGED data
  /\ UNCHANGED <<status, schema, scenario, todo, step>>

-----------------------------------------------------------------------------
(* Queries of the scenario's own steps.  One that fails changes nothing.   *)

WriteRow(w) ==
  /\ pc[w] = "body"
  /\ Online(w)
  /\ data' = [data EXCEPT ![database[w]] = @ \union {Row(w)}]
  /\ wrote' = [wrote EXCEPT ![w] = TRUE]
  /\ observed' = [observed EXCEPT ![w] = {}]
  /\ Touched(w, database[w])
  /\ UNCHANGED <<status, schema, pc, scenario, database, todo, step, clean,
                 kept, made>>

ReadRows(w) ==
  /\ pc[w] = "body"
  /\ Online(w)
  /\ observed' = [observed EXCEPT ![w] = {data[database[w]]}]
  /\ UNCHANGED <<server, pc, scenario, database, todo, step, alone, clean,
                 wrote, kept, made>>

CreateObject(w) ==
  /\ "objects" \in uses
  /\ pc[w] = "body"
  /\ Online(w)
  /\ \E o \in Objects :
       /\ schema' = [schema EXCEPT ![database[w]] = @ \union {o}]
       /\ made' = [made EXCEPT ![w] = @ \union {o}]
  /\ Touched(w, database[w])
  /\ UNCHANGED <<status, data, pc, scenario, database, todo, step, clean,
                 wrote, kept, observed>>

-----------------------------------------------------------------------------
(* Steps that administer graphs *)

(* login in user and init graph by user switch ctx.current_database: the   *)
(* scenario leaves the graph that its clearing step has cleared.           *)
UseDatabase(w) ==
  /\ "admin" \in uses
  /\ pc[w] = "body"
  /\ \E d \in Databases : database' = [database EXCEPT ![w] = d]
  /\ alone' = alone \ {w}
  /\ UNCHANGED <<server, pc, scenario, todo, step, clean, wrote, kept, made, observed>>

(* CREATE GRAPH and ALTER GRAPH ... OFFLINE, sent as ordinary queries.     *)
CreateGraph(w) ==
  /\ "admin" \in uses
  /\ pc[w] = "body"
  /\ \E d \in Databases :
       /\ status[d] = "absent"
       /\ status' = [status EXCEPT ![d] = "online"]
  /\ UNCHANGED <<data, schema, pc, scenario, database, todo, step, history>>

SetOffline(w) ==
  /\ "admin" \in uses
  /\ pc[w] = "body"
  /\ \E d \in Databases :
       /\ status[d] = "online"
       /\ status' = [status EXCEPT ![d] = "offline"]
  /\ UNCHANGED <<data, schema, pc, scenario, database, todo, step, history>>

(* drop all graph: SHOW GRAPH, without the protected names.                *)
AllGraphs == {d \in Databases : status[d] # "absent"}
UserGraphs == AllGraphs \ Protected

ShowGraphs(w) ==
  /\ "admin" \in uses
  /\ pc[w] = "body"
  /\ \/ /\ Online(w)
        /\ todo' = [todo EXCEPT ![w] = {<<d, status[d]>> : d \in UserGraphs}]
        /\ Goto(w, "graphs")
     \/ UNCHANGED <<todo, pc>>
  /\ UNCHANGED <<server, scenario, database, step, history>>

(* One turn of the loop: ALTER GRAPH ... ONLINE if the snapshot says that  *)
(* the graph was offline, then DROP GRAPH.  Either call may fail, and the  *)
(* loop goes on.                                                           *)
Altered(w) == {d \in Databases : <<d, "altered">> \in todo[w]}

AlterGraph(w) ==
  /\ pc[w] = "graphs"
  /\ Altered(w) = {}
  /\ \E d \in Databases :
       /\ <<d, "offline">> \in todo[w]
       /\ todo' = [todo EXCEPT ![w] = (@ \ {<<d, "offline">>}) \union {<<d, "altered">>}]
       /\ \/ /\ Online(w)
             /\ status[d] = "offline"
             /\ status' = [status EXCEPT ![d] = "online"]
          \/ UNCHANGED status
  /\ UNCHANGED <<data, schema, pc, scenario, database, step, history>>

RetriesGraph(w, e) == todo[w]
GraphsLeft(w, e) == todo[w] \ {e}

DropGraph(w) ==
  /\ pc[w] = "graphs"
  /\ \E d \in Databases, s \in {"online", "altered"} :
       /\ <<d, s>> \in todo[w]
       /\ Altered(w) \subseteq {d}
       /\ todo' = [todo EXCEPT ![w] = GraphsLeft(w, <<d, s>>)]
       /\ \/ /\ Online(w)
             /\ status' = [status EXCEPT ![d] = "absent"]
             /\ data' = [data EXCEPT ![d] = {}]
             /\ schema' = [schema EXCEPT ![d] = {}]
             /\ alone' = {v \in alone : database[v] # d}
          \/ UNCHANGED <<server, alone>>
  /\ UNCHANGED <<pc, scenario, database, step, clean, wrote, kept, made, observed>>

GraphsDropped(w) ==
  /\ pc[w] = "graphs"
  /\ todo[w] = {}
  /\ Goto(w, "body")
  /\ UNCHANGED <<server, scenario, database, todo, step, history>>

-----------------------------------------------------------------------------
Clearing(w) ==
  \/ ShowConstraints(w) \/ ShowIndexes(w) \/ DropObject(w)
  \/ DeleteRows(w) \/ CreateTree(w)

Querying(w) == WriteRow(w) \/ ReadRows(w) \/ CreateObject(w)

Administering(w) ==
  \/ UseDatabase(w) \/ CreateGraph(w) \/ SetOffline(w)
  \/ ShowGraphs(w) \/ AlterGraph(w) \/ DropGraph(w) \/ GraphsDropped(w)

Worker(w) ==
  \/ StartScenario(w) \/ EndScenario(w)
  \/ Clearing(w) \/ Querying(w) \/ Administering(w)

Next == (\E w \in Workers : Worker(w)) /\ UNCHANGED uses

(* A worker keeps going: the server answers every call, and a scenario is  *)
(* a finite list of steps, so that it comes to its end.                    *)
Fairness ==
  \A w \in Workers :
    /\ WF_vars(Clearing(w) /\ UNCHANGED uses)
    /\ WF_vars((AlterGraph(w) \/ DropGraph(w) \/ GraphsDropped(w)) /\ UNCHANGED uses)
    /\ SF_vars(EndScenario(w) /\ UNCHANGED uses)

Spec == Init /\ [][Next]_vars /\ Fairness

-----------------------------------------------------------------------------
(* Properties *)

(* After a clearing step, what a scenario reads is what it wrote itself,   *)
(* as long as no other worker has changed its graph since: the scenarios   *)
(* before it, its own worker's and the others', left nothing.              *)
ReadsOwnRows ==
  \A w \in Workers : w \in alone /\ clean[w] => \A rows \in observed[w] : rows = Expected(w)

(* The guide (USER_GUIDE.md:464): parallel workers do not interfere.       *)
WorkersDoNotInterfere ==
  \A w \in Workers : clean[w] => \A rows \in observed[w] : rows = Expected(w)

(* After a clearing step, the schema holds nothing but what the scenario   *)
(* created and what a failed SHOW or DROP left behind, which the steps     *)
(* only log, as long as no other worker has changed the graph since.       *)
SchemaAccountedFor ==
  \A w \in Workers :
    w \in alone /\ clean[w] => schema[database[w]] \subseteq made[w] \union kept[w]

(* The server implements for each worker what PrivateGraph promises: the   *)
(* graph that the calls of a clearing step, its loops and its failures     *)
(* leave behind is as good as a new one, until another worker changes it.  *)
Stage(w) ==
  IF pc[w] = "idle" THEN "between"
  ELSE IF w \notin alone THEN "any"
  ELSE IF clean[w] THEN "known" ELSE "clearing"

OwnGraph(w) == IF Stage(w) = "known" THEN data[database[w]] ELSE {}
OwnAnswer(w) == IF Stage(w) = "known" THEN observed[w] ELSE {}

Private(w) == INSTANCE PrivateGraph WITH
  Rows <- {w} \X (1..MaxScenarios),
  stage <- Stage(w),
  graph <- OwnGraph(w),
  answer <- OwnAnswer(w)

ImplementsPrivateGraphs ==
  /\ \A w \in Workers : Private(w)!Init
  /\ [][\A w \in Workers : [Private(w)!Next]_(Private(w)!vars)]_vars

(* Whatever the workers drop under each other, a protected graph stays.    *)
ProtectedStays == \A d \in Protected : status[d] # "absent"

(* The drop loops work on a snapshot, once per object: every scenario gets *)
(* past its clearing step and ends, though others keep creating objects.   *)
ScenarioEnds == \A w \in Workers : pc[w] # "idle" ~> pc[w] = "idle"

(* Why they end: each call of a worker in a clearing step or drop loop     *)
(* takes it to a later place or leaves its loop fewer calls to make, also  *)
(* a call that fails, and no call of another worker takes it back.  A      *)
(* graph the snapshot says is offline costs two calls, ALTER and DROP.     *)
PlacesAhead == [clear |-> 4, constraints |-> 3, indexes |-> 2, tree |-> 1, graphs |-> 1,
                body |-> 0, idle |-> 0]
CallsLeft(snapshot) ==
  Cardinality(snapshot) + Cardinality({d \in Databases : <<d, "offline">> \in snapshot})
Advances(w) ==
  \/ PlacesAhead[pc'[w]] < PlacesAhead[pc[w]]
  \/ pc'[w] = pc[w] /\ CallsLeft(todo'[w]) < CallsLeft(todo[w])

LoopsAdvance ==
  [][\A w \in Workers : pc[w] \notin {"idle", "body"} =>
       IF Worker(w) THEN Advances(w) ELSE UNCHANGED <<pc[w], todo[w]>>]_vars

=============================================================================
