--------------------------- MODULE ScenarioContext ---------------------------
(***************************************************************************)
(* The state one BDD scenario carries from step to step: the dataclass     *)
(* ScenarioContext (src/gdm_tck/state.py), the fixture that creates and    *)
(* resets it (tests/conftest.py) and every step of src/steps that reads or *)
(* writes it.                                                              *)
(*                                                                         *)
(* A step handler is one action.  The database is the environment: each    *)
(* query a step sends comes back as an outcome, either rows (a member of   *)
(* Results) or an exception (a member of Errors).  pytest-bdd runs the     *)
(* steps of a scenario in order, stops at the first one that raises, and   *)
(* then tears the fixture down; pytest runs the next scenario after that.  *)
(***************************************************************************)
EXTENDS Integers, Sequences

CONSTANTS
  Results,       (* What a successful query may return.                     *)
  Empty,         (* The member of Results that has no row.                  *)
  Errors,        (* What a failing query may raise, by the type it shows.   *)
  None,          (* Python's None.                                          *)
  Databases,     (* Database names a step may mention.                      *)
  DefaultDb,     (* settings.server.database.                               *)
  Users,         (* User names a step may mention.                          *)
  Clients,       (* User clients, each with its driver, that can be open.   *)
  Params,        (* Parameter names.                                        *)
  ExitCodes,     (* Exit codes of gdm-cli and gdm-admin.                    *)
  MaxBatch,      (* Bound: queries one step may send.                       *)
  MaxSteps       (* Bound: steps of one scenario.                           *)

ASSUME ContextConstants ==
  /\ Empty \in Results
  /\ Results \cap Errors = {}
  /\ None \notin Results \union Errors \union ExitCodes \union Users
  /\ DefaultDb \in Databases
  /\ MaxBatch \in Nat
  /\ MaxSteps \in Nat

VARIABLES
  phase,               (* Where pytest is with the scenario.                *)
  steps,               (* Steps of the scenario run so far.                 *)
  last_result,         (* ctx.last_result                                   *)
  last_error,          (* ctx.last_error                                    *)
  last_command_result, (* ctx.last_command_result, by its exit code.        *)
  parameters,          (* ctx.parameters, by the names that are set.        *)
  current_database,    (* ctx.current_database                              *)
  user_clients,        (* ctx.user_clients: user -> sequence of clients.    *)
  owner,               (* Open drivers: client -> its user, or None.        *)
  lost,                (* History: open drivers whose connect() has failed  *)
                       (* or whose close() has raised.                      *)
  ran,                 (* History: clients the queries of a user ran on.    *)
  outcomes,            (* History: outcomes of the last recording step.     *)
  accepted             (* History: a result assertion has passed on them.   *)

recorded == <<last_result, last_error, outcomes, accepted>>
connections == <<user_clients, owner, lost, ran>>
vars == <<phase, steps, recorded, last_command_result, parameters,
          current_database, connections>>

Outcomes == Results \union Errors

(* What the queries of one step may come back with. *)
Batches == UNION {[1..n -> Outcomes] : n \in 0..MaxBatch}

TypeOK ==
  /\ phase \in {"idle", "running", "failed", "passed"}
  /\ steps \in 0..MaxSteps
  /\ last_result \in Results \union {None}
  /\ last_error \in Errors \union {None}
  /\ last_command_result \in ExitCodes \union {None}
  /\ parameters \in SUBSET Params
  /\ current_database \in Databases
  /\ user_clients \in [Users -> Seq(Clients)]
  /\ owner \in [Clients -> Users \union {None}]
  /\ lost \subseteq Clients
  /\ ran \in [Users -> SUBSET Clients]
  /\ outcomes \in Seq(Outcomes)
  /\ accepted \in BOOLEAN

-----------------------------------------------------------------------------
(* Properties of ctx (state.py) *)

HasError == last_error # None

ResultRecords == IF last_result = None THEN Empty ELSE last_result

(* The clients a walk over ctx.user_clients meets. *)
Reachable == UNION {{user_clients[u][i] : i \in DOMAIN user_clients[u]} : u \in Users}

-----------------------------------------------------------------------------
(* The life of the scenario_ctx fixture *)

Init ==
  /\ phase = "idle"
  /\ steps = 0
  /\ last_result = None
  /\ last_error = None
  /\ last_command_result = None
  /\ parameters = {}
  /\ current_database = DefaultDb
  /\ user_clients = [u \in Users |-> <<>>]
  /\ owner = [c \in Clients |-> None]
  /\ lost = {}
  /\ ran = [u \in Users |-> {}]
  /\ outcomes = <<>>
  /\ accepted = FALSE

(* A new ScenarioContext is built with the database of the settings. *)
StartScenario ==
  /\ phase = "idle"
  /\ phase' = "running"
  /\ steps' = 0
  /\ last_result' = None
  /\ last_error' = None
  /\ last_command_result' = None
  /\ parameters' = {}
  /\ current_database' = DefaultDb
  /\ user_clients' = [u \in Users |-> <<>>]
  /\ ran' = [u \in Users |-> {}]
  /\ outcomes' = <<>>
  /\ accepted' = FALSE
  /\ UNCHANGED <<owner, lost>>

(* Every step has run: pytest counts the scenario as passed. *)
EndScenario ==
  /\ phase = "running"
  /\ phase' = "passed"
  /\ UNCHANGED <<steps, recorded, last_command_result, parameters,
                 current_database, connections>>

(* close() is called on each client of cs, whatever the others raise.  One  *)
(* that raises keeps its driver open, and the client is forgotten with it. *)
Closed(cs) == owner' = [c \in Clients |-> IF c \in cs THEN None ELSE owner[c]]

CloseStopsAtFirstRaise(cs) ==
  \/ Closed(cs) /\ UNCHANGED lost
  \/ \E done \in SUBSET cs : \E c \in cs \ done : Closed(done) /\ lost' = lost \union {c}
CloseClients(cs) ==
  \E raising \in SUBSET cs : Closed(cs \ raising) /\ lost' = lost \union raising

(* ctx.reset(): no step ever fills ctx.sessions and ctx.transactions.       *)
Teardown ==
  /\ phase \in {"passed", "failed"}
  /\ phase' = "idle"
  /\ steps' = 0
  /\ last_result' = None
  /\ last_error' = None
  /\ last_command_result' = None
  /\ parameters' = {}
  /\ CloseClients(Reachable)
  /\ user_clients' = [u \in Users |-> <<>>]
  /\ ran' = [u \in Users |-> {}]
  /\ current_database' = DefaultDb
  /\ outcomes' = <<>>
  /\ accepted' = FALSE

-----------------------------------------------------------------------------
(* Steps that send queries through bolt_pool.primary.execute_no_throw *)

(* One more step of the scenario runs; when it raises, the scenario stops. *)
Step(returns) ==
  /\ phase = "running"
  /\ steps < MaxSteps
  /\ steps' = steps + 1
  /\ phase' = IF returns THEN "running" ELSE "failed"

Failures(b) == {i \in DOMAIN b : b[i] \in Errors}

StopsAtFailure(b) == \A i \in Failures(b) : i = Len(b)

(* execute_no_throw returns (None, error) for a query that failed. *)
RowsOrErrorOfLast(b) == IF b = <<>> THEN None ELSE b[Len(b)]
RowsOfLast(b) ==
  IF b # <<>> /\ b[Len(b)] \in Results THEN b[Len(b)] ELSE None

(* The loop keeps the error of the last query that failed. *)
ErrorOfLast(b) ==
  IF b # <<>> /\ b[Len(b)] \in Errors THEN b[Len(b)] ELSE None
LastFailure(b) ==
  IF Failures(b) = {} THEN None
  ELSE b[CHOOSE i \in Failures(b) : \A j \in Failures(b) : j <= i]

Record(b) ==
  /\ last_result' = RowsOfLast(b)
  /\ last_error' = LastFailure(b)
  /\ outcomes' = b
  /\ accepted' = FALSE

(* executing query, executing control query, verifying via Bolt the query  *)
(* and test data cleared: one query, its error deferred.                   *)
ExecutingQuery ==
  \E o \in Outcomes :
    /\ Step(TRUE)
    /\ Record(<<o>>)
    /\ UNCHANGED <<last_command_result, parameters, current_database, connections>>

(* executing query without error: recorded first, raised after. *)
ExecutingQueryWithoutError ==
  \E o \in Outcomes :
    /\ Step(o \in Results)
    /\ Record(<<o>>)
    /\ UNCHANGED <<last_command_result, parameters, current_database, connections>>

(* executing queries and having executed: every query is sent, whatever    *)
(* the ones before it returned.                                            *)
ExecutingQueries ==
  \E b \in Batches :
    /\ Step(TRUE)
    /\ Record(b)
    /\ UNCHANGED <<last_command_result, parameters, current_database, connections>>

(* executing queries without error: raises at the first failure, and then  *)
(* leaves ctx as the step before left it.                                  *)
ExecutingQueriesWithoutError ==
  \E b \in Batches :
    /\ StopsAtFailure(b)
    /\ Step(Failures(b) = {})
    /\ IF Failures(b) = {} THEN Record(b) ELSE UNCHANGED recorded
    /\ UNCHANGED <<last_command_result, parameters, current_database, connections>>

(* test data exists and repeating query in (n): the same loop, but with no *)
(* query to run the name `result` is unbound and the step raises.          *)
TestDataExists ==
  \E b \in Batches :
    LET returns == b # <<>> /\ Failures(b) = {}
    IN  /\ StopsAtFailure(b)
        /\ Step(returns)
        /\ IF returns THEN Record(b) ELSE UNCHANGED recorded
        /\ UNCHANGED <<last_command_result, parameters, current_database, connections>>

(* The steps that talk to the server and leave ctx alone: an empty graph,  *)
(* the binary trees, having executed (quoted form), drop all graph, drop   *)
(* all graphType, loading test data, the index and the plan assertions,    *)
(* sleep.  Some raise on a failure, some only log it.                      *)
UnrecordedStep ==
  \E returns \in BOOLEAN :
    /\ Step(returns)
    /\ UNCHANGED <<recorded, last_command_result, parameters,
                   current_database, connections>>

ParametersAre ==
  \E names \in SUBSET Params :
    /\ Step(TRUE)
    /\ parameters' = parameters \union names
    /\ UNCHANGED <<recorded, last_command_result, current_database, connections>>

-----------------------------------------------------------------------------
(* User clients *)

(* create_user_client: a BoltClient of its own, with a driver of its own.  *)
Opened(c, u) ==
  /\ owner[c] = None
  /\ owner' = [owner EXCEPT ![c] = u]

(* connect() fails where there is no driver yet, or at verify_connectivity,*)
(* and then the client forgets the open driver.                            *)
ConnectFails(u) ==
  \/ UNCHANGED <<owner, lost>>
  \/ \E c \in Clients : Opened(c, u) /\ lost' = lost \union {c}

AddClient(u, c) == user_clients' = [user_clients EXCEPT ![u] = Append(@, c)]

(* login in user: the database is switched before the connection is tried. *)
LoginInUser ==
  \E u \in Users, db \in Databases :
    /\ current_database' = db
    /\ \/ \E c \in Clients :
            /\ Step(TRUE)
            /\ Opened(c, u)
            /\ AddClient(u, c)
            /\ UNCHANGED lost
       \/ /\ Step(FALSE)
          /\ ConnectFails(u)
          /\ UNCHANGED user_clients
    /\ UNCHANGED <<recorded, last_command_result, parameters, ran>>

(* init GraphRelationship / graphGQL by user *)
InitGraphByUser ==
  \E db \in Databases :
    /\ Step(TRUE)
    /\ current_database' = db
    /\ UNCHANGED <<recorded, last_command_result, parameters, connections>>

(* Which of a user's clients runs its queries. *)
LastClientOf(u) == user_clients[u][Len(user_clients[u])]
ClientOf(u) == user_clients[u][1]

RunsOn(u, c) == ran' = [ran EXCEPT ![u] = @ \union {c}]

(* executing query by USER without error: on a client of the user, or on a *)
(* new one; when that cannot connect the step raises before it records.    *)
ExecutingQueryByUser ==
  \E u \in Users, o \in Outcomes :
    /\ \/ /\ user_clients[u] # <<>>
          /\ Step(o \in Results)
          /\ RunsOn(u, ClientOf(u))
          /\ Record(<<o>>)
          /\ UNCHANGED <<user_clients, owner, lost>>
       \/ \E c \in Clients :
            /\ user_clients[u] = <<>>
            /\ Step(o \in Results)
            /\ Opened(c, u)
            /\ AddClient(u, c)
            /\ RunsOn(u, c)
            /\ Record(<<o>>)
            /\ UNCHANGED lost
       \/ /\ user_clients[u] = <<>>
          /\ Step(FALSE)
          /\ ConnectFails(u)
          /\ UNCHANGED <<recorded, user_clients, ran>>
    /\ UNCHANGED <<last_command_result, parameters, current_database>>

-----------------------------------------------------------------------------
(* Commands and assertions *)

(* executing gdm-cli ..., executing gdm-admin ... *)
ExecutingCommand ==
  \E code \in ExitCodes :
    /\ Step(TRUE)
    /\ last_command_result' = code
    /\ UNCHANGED <<recorded, parameters, current_database, connections>>

(* The assertions on the command's exit code, output and import summary. *)
CommandAssertion ==
  \E expected \in SUBSET ExitCodes :
    /\ Step(last_command_result \in expected)
    /\ UNCHANGED <<recorded, last_command_result, parameters,
                   current_database, connections>>

(* the result should ..., the side effects should be: all refuse an error. *)
RowsMatch(expected) == ResultRecords \in expected
ResultMatches(expected) == ~HasError /\ ResultRecords \in expected

ResultAssertion ==
  \E expected \in SUBSET Results :
    /\ Step(ResultMatches(expected))
    /\ accepted' = (accepted \/ ResultMatches(expected))
    /\ UNCHANGED <<last_result, last_error, outcomes,
                   last_command_result, parameters, current_database, connections>>

(* a ... should be raised, an error should be raised, the error should     *)
(* contain: an error type with no keywords accepts every error.            *)
ErrorAssertion ==
  \E expected \in SUBSET Errors :
    /\ Step(HasError /\ last_error \in expected)
    /\ UNCHANGED <<recorded, last_command_result, parameters,
                   current_database, connections>>

(* no side effects: says nothing of a query that failed. *)
NoSideEffects ==
  \E clean \in BOOLEAN :
    /\ Step(HasError \/ clean)
    /\ UNCHANGED <<recorded, last_command_result, parameters,
                   current_database, connections>>

-----------------------------------------------------------------------------
Next ==
  \/ StartScenario
  \/ EndScenario
  \/ Teardown
  \/ ExecutingQuery
  \/ ExecutingQueryWithoutError
  \/ ExecutingQueries
  \/ ExecutingQueriesWithoutError
  \/ TestDataExists
  \/ UnrecordedStep
  \/ ParametersAre
  \/ LoginInUser
  \/ InitGraphByUser
  \/ ExecutingQueryByUser
  \/ ExecutingCommand
  \/ CommandAssertion
  \/ ResultAssertion
  \/ ErrorAssertion
  \/ NoSideEffects

Spec == Init /\ [][Next]_vars

-----------------------------------------------------------------------------
(* Properties *)

(* What the assertions will judge is what the last recording step saw:     *)
(* ctx holds an error exactly when one of the step's queries failed, even  *)
(* when the queries after it succeeded, and rows exactly when its last     *)
(* query returned them (step_query_exec.py, the loops of the batch steps). *)
RecordedOutcome ==
  /\ HasError <=> Failures(outcomes) # {}
  /\ last_result = RowsOfLast(outcomes)

(* No result assertion passes on a step one of whose queries failed, not   *)
(* even when the rows it left behind are the expected ones.                *)
AcceptedResultIsClean ==
  accepted => Failures(outcomes) = {}

(* reset() closes clients by walking ctx.user_clients: every open driver is *)
(* in it under the user that logged in, unless its own connect() failed or  *)
(* its own close() raised.  So a scenario leaves no connection behind for   *)
(* the next one but those, and a close that raises costs no other client.   *)
LiveClientsReachable ==
  /\ \A c \in Clients : owner[c] # None =>
       \/ c \in lost
       \/ \E i \in DOMAIN user_clients[owner[c]] : user_clients[owner[c]][i] = c
  /\ \A u \in Users : \A i \in DOMAIN user_clients[u] :
       owner[user_clients[u][i]] = u /\ user_clients[u][i] \notin lost
  /\ phase = "idle" => \A c \in Clients : owner[c] # None => c \in lost

(* Within a scenario the queries of a user all run on one connection, that  *)
(* this scenario has opened for the user, however often the user logs in.   *)
UserQueriesShareClient ==
  \A u \in Users : \A c, d \in ran[u] : c = d /\ owner[c] = u /\ c \notin lost

=============================================================================
