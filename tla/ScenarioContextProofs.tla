------------------------ MODULE ScenarioContextProofs ------------------------
(* Theorems about ScenarioContext, for every set of users, clients, results *)
(* and errors and every bound.                                              *)
EXTENDS ScenarioContext, TLAPS, WellFoundedInduction

(* A nonempty set of positions of a sequence has a largest member: the      *)
(* distances to the end of the sequence are well founded.                   *)
LEMMA LargestPosition ==
  ASSUME NEW n \in Nat, NEW S \in SUBSET (1..n), S # {}
  PROVE  \E i \in S : \A j \in S : j <= i
<1> DEFINE T == {n - i : i \in S}
<1>1. T \subseteq Nat /\ T # {}
  <2>1. \A i \in S : n - i \in Nat
    OBVIOUS
  <2>2. PICK i \in S : TRUE
    OBVIOUS
  <2>3. n - i \in T
    BY <2>2
  <2>. QED
    BY <2>1, <2>3
<1>2. \E x \in T : \A y \in T : ~(<<y, x>> \in OpToRel(<, Nat))
  BY <1>1, NatLessThanWellFounded, WFMin, Zenon
<1>3. PICK x \in T : \A y \in T : ~(<<y, x>> \in OpToRel(<, Nat))
  BY <1>2
<1>4. \A y \in T : ~(y < x)
  BY <1>1, <1>3 DEF OpToRel
<1>5. PICK i \in S : x = n - i
  OBVIOUS
<1>6. ASSUME NEW j \in S PROVE j <= i
  <2>1. n - j \in T
    OBVIOUS
  <2>2. ~(n - j < n - i)
    BY <2>1, <1>4, <1>5
  <2>. QED
    BY <2>2
<1>. QED
  BY <1>6

(* What the loop over a batch leaves in last_error: the exception of some   *)
(* query that failed, and None only if none did.                            *)
LEMMA LastFailureFacts ==
  ASSUME NEW b \in Seq(Outcomes)
  PROVE  /\ LastFailure(b) \in Errors \union {None}
         /\ LastFailure(b) # None <=> Failures(b) # {}
<1>1. CASE Failures(b) = {}
  BY <1>1 DEF LastFailure
<1>2. CASE Failures(b) # {}
  <2>1. Failures(b) \in SUBSET (1..Len(b)) /\ Len(b) \in Nat
    BY DEF Failures
  <2>2. \E i \in Failures(b) : \A j \in Failures(b) : j <= i
    BY <1>2, <2>1, LargestPosition
  <2> DEFINE m == CHOOSE i \in Failures(b) : \A j \in Failures(b) : j <= i
  <2>3. m \in Failures(b)
    BY <2>2
  <2>4. b[m] \in Errors
    BY <2>3 DEF Failures
  <2>5. LastFailure(b) = b[m]
    BY <1>2 DEF LastFailure
  <2>. QED
    BY <1>2, <2>4, <2>5, ContextConstants
<1>. QED
  BY <1>1, <1>2

LEMMA RowsOfLastType ==
  ASSUME NEW b PROVE RowsOfLast(b) \in Results \union {None}
BY DEF RowsOfLast

-----------------------------------------------------------------------------
(* The clients of ctx and of the drivers that are open.  A driver that is   *)
(* lost is open, so that a login opens another one; the queries of a user   *)
(* have run on the client that is first in the user's list, and stays it.   *)
ClientsInv ==
  /\ user_clients \in [Users -> Seq(Clients)]
  /\ owner \in [Clients -> Users \union {None}]
  /\ lost \subseteq Clients
  /\ ran \in [Users -> SUBSET Clients]
  /\ LiveClientsReachable
  /\ \A c \in lost : owner[c] # None
  /\ \A u \in Users : \A c \in ran[u] : user_clients[u] # <<>> /\ c = user_clients[u][1]

(* The inductive invariant: the conjuncts are inductive together, because   *)
(* the clients a login adds are told from those of ctx by their owner.      *)
IInv ==
  /\ TypeOK
  /\ RecordedOutcome
  /\ AcceptedResultIsClean
  /\ ClientsInv

(* The part of the invariant about what the assertions judge. *)
RecordedInv ==
  /\ last_result \in Results \union {None}
  /\ last_error \in Errors \union {None}
  /\ outcomes \in Seq(Outcomes)
  /\ accepted \in BOOLEAN
  /\ RecordedOutcome
  /\ AcceptedResultIsClean

USE DEF Step, recorded, connections, HasError

LEMMA InitIInv == Init => IInv
<1> SUFFICES ASSUME Init PROVE IInv
  OBVIOUS
<1>1. TypeOK
  <2>1. <<>> \in Seq(Outcomes) /\ <<>> \in Seq(Clients)
    OBVIOUS
  <2>2. user_clients \in [Users -> Seq(Clients)]
    BY <2>1 DEF Init
  <2>3. outcomes \in Seq(Outcomes)
    BY <2>1 DEF Init
  <2>4. /\ owner \in [Clients -> Users \union {None}]
        /\ lost \subseteq Clients /\ ran \in [Users -> SUBSET Clients]
    BY DEF Init
  <2>5. steps \in 0..MaxSteps /\ current_database \in Databases
    BY ContextConstants DEF Init
  <2>. QED
    BY <2>2, <2>3, <2>4, <2>5, Zenon DEF Init, TypeOK
<1>2. Failures(outcomes) = {} /\ RowsOfLast(outcomes) = None
  BY DEF Init, Failures, RowsOfLast
<1>3. RecordedOutcome /\ AcceptedResultIsClean
  BY <1>2 DEF Init, RecordedOutcome, AcceptedResultIsClean
<1>4. ClientsInv
  BY <1>1 DEF Init, TypeOK, ClientsInv, LiveClientsReachable
<1>. QED
  BY <1>1, <1>3, <1>4 DEF IInv

(* Recording a batch leaves ctx and the history in agreement. *)
LEMMA RecordAgrees ==
  ASSUME NEW b \in Seq(Outcomes), Record(b)
  PROVE  RecordedInv'
BY LastFailureFacts, RowsOfLastType DEF Record, RecordedInv, RecordedOutcome, AcceptedResultIsClean

LEMMA SingleBatch ==
  ASSUME NEW o \in Outcomes PROVE <<o>> \in Seq(Outcomes)
OBVIOUS

(* What recorded' and its history owe the invariant when a step leaves them *)
(* alone.                                                                   *)
LEMMA RecordedKept ==
  ASSUME IInv, UNCHANGED recorded
  PROVE  RecordedInv'
BY DEF IInv, TypeOK, RecordedInv, RecordedOutcome, AcceptedResultIsClean

(* The same for the clients, when the scenario goes on or stops. *)
LEMMA ConnectionsKept ==
  ASSUME IInv, UNCHANGED connections, phase' # "idle"
  PROVE  ClientsInv'
BY DEF IInv, ClientsInv, LiveClientsReachable

(* A login that fails leaves the clients of ctx alone. *)
LEMMA LoginFailed ==
  ASSUME IInv, phase' # "idle", NEW u \in Users, ConnectFails(u),
         UNCHANGED <<user_clients, ran>>
  PROVE  ClientsInv'
<1>. USE DEF IInv, ClientsInv, LiveClientsReachable
<1>1. CASE UNCHANGED <<owner, lost>>
  BY <1>1
<1>2. ASSUME NEW c \in Clients, Opened(c, u), lost' = lost \union {c}
      PROVE  ClientsInv'
  <2>1. \A v \in Users : \A i \in DOMAIN user_clients[v] :
          user_clients[v][i] \in Clients /\ user_clients[v][i] # c
    BY <1>2, ContextConstants DEF Opened
  <2>2. owner' \in [Clients -> Users \union {None}] /\ owner'[c] = u
    BY <1>2 DEF Opened
  <2>3. \A d \in Clients \ {c} : owner'[d] = owner[d]
    BY <1>2 DEF Opened
  <2>4. \A d \in lost' : owner'[d] # None
    BY <1>2, <2>2, <2>3, ContextConstants
  <2>. QED
    BY <1>2, <2>1, <2>2, <2>3, <2>4
<1>. QED
  BY <1>1, <1>2 DEF ConnectFails

(* One that succeeds adds its client, which no query has run on yet but the *)
(* one that made it.                                                        *)
LEMMA ClientAdded ==
  ASSUME IInv, phase' # "idle", NEW u \in Users, NEW c \in Clients,
         Opened(c, u), AddClient(u, c), UNCHANGED lost,
         UNCHANGED ran \/ (user_clients[u] = <<>> /\ RunsOn(u, c))
  PROVE  ClientsInv'
<1> USE DEF Opened, AddClient
<1>1. user_clients' \in [Users -> Seq(Clients)] /\ owner' \in [Clients -> Users \union {None}]
  BY DEF IInv, TypeOK
<1>2. ASSUME NEW v \in Users, v # u PROVE user_clients'[v] = user_clients[v]
  BY <1>2 DEF IInv, TypeOK
<1> DEFINE n == Len(user_clients[u])
<1>3. /\ user_clients[u] \in Seq(Clients)
      /\ n \in Nat
      /\ user_clients'[u] = Append(user_clients[u], c)
      /\ DOMAIN user_clients'[u] = 1..(n + 1)
      /\ user_clients'[u][n + 1] = c
      /\ \A i \in DOMAIN user_clients[u] :
           i \in DOMAIN user_clients'[u] /\ user_clients'[u][i] = user_clients[u][i]
      /\ \A i \in DOMAIN user_clients'[u] : i \in DOMAIN user_clients[u] \/ i = n + 1
  BY DEF IInv, TypeOK
<1>4. ASSUME NEW d \in Clients, owner'[d] # None, d \notin lost
      PROVE  \E i \in DOMAIN user_clients'[owner'[d]] : user_clients'[owner'[d]][i] = d
  <2>1. CASE d = c
    BY <1>3, <2>1 DEF IInv, TypeOK
  <2>2. CASE d # c
    <3>1. owner'[d] = owner[d] /\ owner[d] \in Users
      BY <2>2, <1>4 DEF IInv, TypeOK
    <3>2. PICK i \in DOMAIN user_clients[owner[d]] : user_clients[owner[d]][i] = d
      BY <3>1, <1>4 DEF IInv, ClientsInv, LiveClientsReachable
    <3>. QED
      BY <3>1, <3>2, <1>2, <1>3
  <2>. QED
    BY <2>1, <2>2
<1>5. c \notin lost /\ owner'[c] = u
  BY DEF IInv, ClientsInv
<1>6. ASSUME NEW v \in Users, NEW i \in DOMAIN user_clients'[v]
      PROVE  owner'[user_clients'[v][i]] = v /\ user_clients'[v][i] \notin lost
  <2>1. ASSUME i \in DOMAIN user_clients[v], user_clients'[v][i] = user_clients[v][i]
        PROVE  owner'[user_clients'[v][i]] = v /\ user_clients'[v][i] \notin lost
    <3>1. /\ owner[user_clients[v][i]] = v /\ user_clients[v][i] \in Clients
          /\ user_clients[v][i] \notin lost
      BY <2>1 DEF IInv, ClientsInv, LiveClientsReachable
    <3>2. user_clients[v][i] # c
      BY <3>1, ContextConstants
    <3>. QED
      BY <2>1, <3>1, <3>2 DEF IInv, TypeOK
  <2>2. CASE v = u /\ i = n + 1
    BY <2>2, <1>3, <1>5
  <2>. QED
    BY <2>1, <2>2, <1>2, <1>3
<1>7. \A d \in lost' : owner'[d] # None
  BY <1>5, ContextConstants DEF IInv, ClientsInv
<1>8. /\ ran' \in [Users -> SUBSET Clients]
      /\ \A v \in Users : \A d \in ran'[v] : user_clients'[v] # <<>> /\ d = user_clients'[v][1]
  <2>1. CASE UNCHANGED ran
    <3>1. ASSUME NEW v \in Users, NEW d \in ran[v]
          PROVE  user_clients'[v] # <<>> /\ d = user_clients'[v][1]
      <4>1. user_clients[v] # <<>> /\ d = user_clients[v][1]
        BY DEF IInv, ClientsInv
      <4>2. CASE v = u
        <5>1. 1 \in DOMAIN user_clients[u] /\ n + 1 # 0
          BY <1>3, <4>1, <4>2
        <5>. QED
          BY <1>3, <4>1, <4>2, <5>1
      <4>. QED
        BY <1>2, <4>1, <4>2
    <3>. QED
      BY <2>1, <3>1 DEF IInv, ClientsInv
  <2>2. CASE user_clients[u] = <<>> /\ RunsOn(u, c)
    <3>1. ran[u] = {} /\ user_clients'[u] = <<c>>
      BY <1>3, <2>2 DEF IInv, ClientsInv
    <3>2. ran'[u] = {c} /\ \A v \in Users \ {u} : ran'[v] = ran[v]
      BY <2>2, <3>1 DEF RunsOn, IInv, ClientsInv
    <3>3. ran' \in [Users -> SUBSET Clients]
      BY <2>2 DEF RunsOn, IInv, ClientsInv
    <3>4. user_clients'[u] # <<>> /\ user_clients'[u][1] = c
      BY <3>1
    <3>5. ASSUME NEW v \in Users, v # u, NEW d \in ran'[v]
          PROVE  user_clients'[v] # <<>> /\ d = user_clients'[v][1]
      BY <1>2, <3>2, <3>5 DEF IInv, ClientsInv
    <3>. QED
      BY <3>2, <3>3, <3>4, <3>5
  <2>. QED
    BY <2>1, <2>2
<1>9. LiveClientsReachable'
  <2>1. lost' = lost
    OBVIOUS
  <2>2. \A d \in Clients : owner'[d] # None =>
          \/ d \in lost'
          \/ \E i \in DOMAIN user_clients'[owner'[d]] : user_clients'[owner'[d]][i] = d
    BY <1>4, <2>1
  <2>3. \A v \in Users : \A i \in DOMAIN user_clients'[v] :
          owner'[user_clients'[v][i]] = v /\ user_clients'[v][i] \notin lost'
    BY <1>6, <2>1
  <2>. QED
    BY <2>2, <2>3 DEF LiveClientsReachable
<1>. QED
  BY <1>1, <1>7, <1>8, <1>9 DEF ClientsInv, IInv

(* A query of a user who has clients runs on the first of them. *)
LEMMA QueryRun ==
  ASSUME IInv, phase' # "idle", NEW u \in Users, user_clients[u] # <<>>,
         RunsOn(u, ClientOf(u)), UNCHANGED <<user_clients, owner, lost>>
  PROVE  ClientsInv'
<1>1. user_clients[u][1] \in Clients
  BY DEF IInv, TypeOK
<1>2. ran' \in [Users -> SUBSET Clients]
  BY <1>1 DEF RunsOn, ClientOf, IInv, ClientsInv
<1>3. \A v \in Users : \A d \in ran'[v] : d \in ran[v] \/ (v = u /\ d = user_clients[u][1])
  BY DEF RunsOn, ClientOf, IInv, ClientsInv
<1>4. \A v \in Users : \A d \in ran'[v] : user_clients[v] # <<>> /\ d = user_clients[v][1]
  BY <1>3 DEF IInv, ClientsInv
<1>5. LiveClientsReachable'
  BY DEF IInv, ClientsInv, LiveClientsReachable
<1>. QED
  BY <1>2, <1>4, <1>5 DEF IInv, ClientsInv

(* Every step of a scenario, of its start and of its end. *)
LEMMA NextIInv == IInv /\ [Next]_vars => IInv'
<1> SUFFICES ASSUME IInv, [Next]_vars PROVE IInv'
  OBVIOUS
<1> USE ContextConstants
<1>1. CASE StartScenario
  <2>1. <<>> \in Seq(Outcomes) /\ <<>> \in Seq(Clients)
    OBVIOUS
  <2>2. user_clients' \in [Users -> Seq(Clients)]
    BY <1>1, <2>1 DEF StartScenario
  <2>3. TypeOK'
    <3>1. outcomes' \in Seq(Outcomes)
      BY <1>1, <2>1 DEF StartScenario
    <3>2. steps' \in 0..MaxSteps /\ current_database' \in Databases
      BY <1>1 DEF StartScenario
    <3>3. /\ owner' \in [Clients -> Users \union {None}]
          /\ lost' \subseteq Clients /\ ran' \in [Users -> SUBSET Clients]
      BY <1>1 DEF StartScenario, IInv, TypeOK
    <3>. QED
      BY <1>1, <2>2, <3>1, <3>2, <3>3, Zenon DEF StartScenario, TypeOK
  <2>4. Failures(outcomes') = {} /\ RowsOfLast(outcomes') = None
    BY <1>1 DEF StartScenario, Failures, RowsOfLast
  <2>5. RecordedOutcome' /\ AcceptedResultIsClean'
    BY <1>1, <2>4 DEF StartScenario, RecordedOutcome, AcceptedResultIsClean
  <2>6. ClientsInv'
    BY <1>1, <2>3 DEF StartScenario, IInv, TypeOK, ClientsInv, LiveClientsReachable
  <2>. QED
    BY <2>3, <2>5, <2>6 DEF IInv
<1>2. CASE EndScenario
  BY <1>2, RecordedKept, ConnectionsKept DEF EndScenario, IInv, RecordedInv, TypeOK, ClientsInv
<1>3. CASE Teardown
  <2>1. <<>> \in Seq(Outcomes) /\ <<>> \in Seq(Clients)
    OBVIOUS
  <2>2. user_clients' \in [Users -> Seq(Clients)]
    BY <1>3, <2>1 DEF Teardown
  <2>3. PICK raising \in SUBSET Reachable :
          /\ owner' = [c \in Clients |-> IF c \in Reachable \ raising THEN None ELSE owner[c]]
          /\ lost' = lost \union raising
    BY <1>3 DEF Teardown, CloseClients, Closed
  <2>8. \A c \in Reachable : c \in Clients /\ owner[c] # None /\ c \notin lost
    BY ContextConstants DEF Reachable, IInv, TypeOK, ClientsInv, LiveClientsReachable
  <2>9. \A c \in Clients : owner[c] # None => c \in lost \/ c \in Reachable
    BY DEF Reachable, IInv, TypeOK, ClientsInv, LiveClientsReachable
  <2>4. TypeOK'
    <3>1. outcomes' \in Seq(Outcomes)
      BY <1>3, <2>1 DEF Teardown
    <3>2. steps' \in 0..MaxSteps /\ current_database' \in Databases
      BY <1>3 DEF Teardown
    <3>3. /\ owner' \in [Clients -> Users \union {None}]
          /\ lost' \subseteq Clients /\ ran' \in [Users -> SUBSET Clients]
      BY <1>3, <2>3, <2>8 DEF Teardown, IInv, TypeOK
    <3>. QED
      BY <1>3, <2>2, <3>1, <3>2, <3>3, Zenon DEF Teardown, TypeOK
  <2>5. Failures(outcomes') = {} /\ RowsOfLast(outcomes') = None
    BY <1>3 DEF Teardown, Failures, RowsOfLast
  <2>6. RecordedOutcome' /\ AcceptedResultIsClean'
    BY <1>3, <2>5 DEF Teardown, RecordedOutcome, AcceptedResultIsClean
  <2>7. ClientsInv'
    <3>1. \A c \in Clients : owner'[c] # None => c \in lost'
      BY <2>3, <2>9
    <3>2. \A c \in lost' : owner'[c] # None
      BY <2>3, <2>8 DEF IInv, ClientsInv
    <3>. QED
      BY <1>3, <2>4, <3>1, <3>2 DEF Teardown, TypeOK, ClientsInv, LiveClientsReachable
  <2>. QED
    BY <2>4, <2>6, <2>7 DEF IInv
<1>4. CASE ExecutingQuery
  <2>1. PICK o \in Outcomes : Record(<<o>>) /\ Step(TRUE)
    BY <1>4 DEF ExecutingQuery
  <2>2. RecordedInv'
    BY <2>1, RecordAgrees, SingleBatch
  <2>. QED
    BY <1>4, <2>2, ConnectionsKept DEF ExecutingQuery, IInv, RecordedInv, TypeOK, ClientsInv
<1>5. CASE ExecutingQueryWithoutError
  <2>1. PICK o \in Outcomes : Record(<<o>>) /\ Step(o \in Results)
    BY <1>5 DEF ExecutingQueryWithoutError
  <2>2. RecordedInv'
    BY <2>1, RecordAgrees, SingleBatch
  <2>. QED
    BY <1>5, <2>2, ConnectionsKept DEF ExecutingQueryWithoutError, IInv, RecordedInv, TypeOK, ClientsInv
<1>6. CASE ExecutingQueries
  <2>1. PICK b \in Batches : Record(b) /\ Step(TRUE)
    BY <1>6 DEF ExecutingQueries
  <2>2. b \in Seq(Outcomes)
    BY DEF Batches
  <2>. QED
    BY <1>6, <2>1, <2>2, RecordAgrees, ConnectionsKept DEF ExecutingQueries, IInv, RecordedInv, TypeOK, ClientsInv
<1>7. CASE ExecutingQueriesWithoutError
  <2>1. PICK b \in Batches : /\ Step(Failures(b) = {})
                             /\ Record(b) \/ UNCHANGED recorded
    BY <1>7 DEF ExecutingQueriesWithoutError
  <2>2. b \in Seq(Outcomes)
    BY DEF Batches
  <2>. QED
    BY <1>7, <2>1, <2>2, RecordAgrees, RecordedKept, ConnectionsKept
    DEF ExecutingQueriesWithoutError, IInv, RecordedInv, TypeOK, ClientsInv
<1>8. CASE TestDataExists
  <2>1. PICK b \in Batches : /\ Step(b # <<>> /\ Failures(b) = {})
                             /\ Record(b) \/ UNCHANGED recorded
    BY <1>8 DEF TestDataExists
  <2>2. b \in Seq(Outcomes)
    BY DEF Batches
  <2>. QED
    BY <1>8, <2>1, <2>2, RecordAgrees, RecordedKept, ConnectionsKept
    DEF TestDataExists, IInv, RecordedInv, TypeOK, ClientsInv
<1>9. CASE UnrecordedStep
  BY <1>9, RecordedKept, ConnectionsKept DEF UnrecordedStep, IInv, RecordedInv, TypeOK, ClientsInv
<1>10. CASE ParametersAre
  BY <1>10, RecordedKept, ConnectionsKept DEF ParametersAre, IInv, RecordedInv, TypeOK, ClientsInv
<1>11. CASE LoginInUser
  <2>1. PICK u \in Users, db \in Databases :
          /\ current_database' = db
          /\ \/ \E c \in Clients : /\ Step(TRUE) /\ Opened(c, u) /\ AddClient(u, c)
                                 /\ UNCHANGED lost
             \/ Step(FALSE) /\ ConnectFails(u) /\ UNCHANGED user_clients
          /\ UNCHANGED <<recorded, last_command_result, parameters, ran>>
    BY <1>11 DEF LoginInUser
  <2>2. ClientsInv'
    BY <2>1, ClientAdded, LoginFailed
  <2>. QED
    BY <2>1, <2>2, RecordedKept DEF IInv, RecordedInv, TypeOK, ClientsInv
<1>12. CASE InitGraphByUser
  BY <1>12, RecordedKept, ConnectionsKept DEF InitGraphByUser, IInv, RecordedInv, TypeOK, ClientsInv
<1>13. CASE ExecutingQueryByUser
  <2>1. PICK u \in Users, o \in Outcomes :
          /\ \/ /\ user_clients[u] # <<>> /\ Step(o \in Results) /\ Record(<<o>>)
                /\ RunsOn(u, ClientOf(u)) /\ UNCHANGED <<user_clients, owner, lost>>
             \/ \E c \in Clients :
                  /\ user_clients[u] = <<>> /\ Step(o \in Results) /\ Record(<<o>>)
                  /\ Opened(c, u) /\ AddClient(u, c) /\ RunsOn(u, c) /\ UNCHANGED lost
             \/ /\ Step(FALSE) /\ ConnectFails(u)
                /\ UNCHANGED <<recorded, user_clients, ran>>
          /\ UNCHANGED <<last_command_result, parameters, current_database>>
    BY <1>13 DEF ExecutingQueryByUser
  <2>2. RecordedInv'
    BY <2>1, RecordAgrees, RecordedKept, SingleBatch
  <2>3. ClientsInv'
    BY <2>1, ClientAdded, LoginFailed, QueryRun
  <2>. QED
    BY <2>1, <2>2, <2>3 DEF IInv, RecordedInv, TypeOK, ClientsInv
<1>14. CASE ExecutingCommand
  BY <1>14, RecordedKept, ConnectionsKept DEF ExecutingCommand, IInv, RecordedInv, TypeOK, ClientsInv
<1>15. CASE CommandAssertion
  BY <1>15, RecordedKept, ConnectionsKept DEF CommandAssertion, IInv, RecordedInv, TypeOK, ClientsInv
<1>16. CASE ResultAssertion
  <2>1. RecordedOutcome' /\ AcceptedResultIsClean'
    BY <1>16 DEF ResultAssertion, ResultMatches, IInv, TypeOK,
                 RecordedOutcome, AcceptedResultIsClean
  <2>. QED
    BY <1>16, <2>1, ConnectionsKept DEF ResultAssertion, IInv, TypeOK, ClientsInv
<1>17. CASE ErrorAssertion
  <2>1. RecordedOutcome' /\ AcceptedResultIsClean'
    BY <1>17 DEF ErrorAssertion, IInv, TypeOK, RecordedOutcome, AcceptedResultIsClean
  <2>. QED
    BY <1>17, <2>1, ConnectionsKept DEF ErrorAssertion, IInv, TypeOK, ClientsInv
<1>18. CASE NoSideEffects
  BY <1>18, RecordedKept, ConnectionsKept DEF NoSideEffects, IInv, RecordedInv, TypeOK, ClientsInv
<1>19. CASE UNCHANGED vars
  BY <1>19, RecordedKept DEF vars, IInv, RecordedInv, TypeOK, ClientsInv, LiveClientsReachable
<1>. QED
  BY <1>1, <1>2, <1>3, <1>4, <1>5, <1>6, <1>7, <1>8, <1>9, <1>10, <1>11, <1>12,
     <1>13, <1>14, <1>15, <1>16, <1>17, <1>18, <1>19 DEF Next

LEMMA Invariance == Spec => []IInv
BY InitIInv, NextIInv, PTL DEF Spec

-----------------------------------------------------------------------------
(* The state of a scenario has the shape its dataclass declares.            *)
THEOREM ContextTypeCorrect == Spec => []TypeOK
BY Invariance, PTL DEF IInv

(* However many queries a step sends and however they end, ctx tells        *)
(* whether one of them failed and what the last of them returned.           *)
THEOREM OutcomeIsRecorded == Spec => []RecordedOutcome
BY Invariance, PTL DEF IInv

(* A result assertion never turns a scenario with a failed query green.     *)
THEOREM AcceptedResultsAreClean == Spec => []AcceptedResultIsClean
BY Invariance, PTL DEF IInv

(* reset() finds every client a scenario opened: none outlives it, but a    *)
(* driver whose own connect() failed or whose own close() raised.           *)
THEOREM ClientsAreReachable == Spec => []LiveClientsReachable
BY Invariance, PTL DEF IInv, ClientsInv

(* However often a user logs in, and whatever fails in between: the queries *)
(* of a user in a scenario have all run on one client, which is open and    *)
(* which this scenario has opened for the user.                             *)
THEOREM QueriesShareTheirClient == Spec => []UserQueriesShareClient
<1>1. IInv => UserQueriesShareClient
  <2> SUFFICES ASSUME IInv, NEW u \in Users, NEW c \in ran[u]
               PROVE  c = user_clients[u][1] /\ owner[c] = u /\ c \notin lost
    BY DEF UserQueriesShareClient
  <2>1. user_clients[u] # <<>> /\ c = user_clients[u][1] /\ user_clients[u] \in Seq(Clients)
    BY DEF IInv, ClientsInv
  <2>2. 1 \in DOMAIN user_clients[u]
    BY <2>1
  <2>. QED
    BY <2>1, <2>2 DEF IInv, ClientsInv, LiveClientsReachable
<1>. QED
  BY <1>1, Invariance, PTL
=============================================================================
