------------------------- MODULE ClusterDeployProofs -------------------------
(* Theorems about ClusterDeploy, for every number of nodes, directories and  *)
(* tokens.                                                                   *)
EXTENDS ClusterDeploy, FiniteSetTheorems, TLAPS

USE DEF cluster, script, Goto, Exit, NewTokenFile

-----------------------------------------------------------------------------
(* Nodes and majorities *)

LEMMA FirstNode == 1 \in Nodes /\ \A n \in Nodes : n \in Nat /\ n >= 1
BY ClusterConstants DEF Nodes

LEMMA NodesFinite == IsFiniteSet(Nodes) /\ Cardinality(Nodes) = N
BY ClusterConstants, FS_Interval DEF Nodes

LEMMA MajoritiesMeet ==
  ASSUME NEW P \in SUBSET Nodes, NEW Q \in SUBSET Nodes, IsMajority(P), IsMajority(Q)
  PROVE  P \cap Q # {}
<1>1. Cardinality(P) \in Nat /\ Cardinality(Q) \in Nat
  BY NodesFinite, FS_Subset, FS_CardinalityType
<1>2. Cardinality(P) + Cardinality(Q) > Cardinality(Nodes)
  BY <1>1, NodesFinite, ClusterConstants DEF IsMajority
<1>. QED
  BY <1>2, NodesFinite, FS_MajoritiesIntersect

LEMMA LargerMajority ==
  ASSUME NEW P \in SUBSET Nodes, NEW Q \in SUBSET P, IsMajority(Q)
  PROVE  IsMajority(P)
<1>1. IsFiniteSet(P)
  BY NodesFinite, FS_Subset
<1>2. Cardinality(P) \in Nat /\ Cardinality(Q) \in Nat /\ Cardinality(Q) <= Cardinality(P)
  BY <1>1, FS_Subset, FS_CardinalityType
<1>. QED
  BY <1>2, ClusterConstants DEF IsMajority

LEMMA AllAreMajority == IsMajority(Nodes)
BY NodesFinite, ClusterConstants DEF IsMajority

-----------------------------------------------------------------------------
(* Types.  A script that starts nodes has kept room for the token it makes.  *)

TokenRoom ==
  /\ pc \in {"check", "clean", "token", "launch"} => Starts
  /\ pc \notin {"idle", "launch"} /\ Starts => issued < MaxTokens

LEMMA InitType == Init => TypeOK /\ TokenRoom
BY ClusterConstants DEF Init, TypeOK, TokenRoom, Dirs, Tokens

LEMMA ScriptType == TypeOK /\ TokenRoom /\ Script => TypeOK' /\ TokenRoom'
<1> SUFFICES ASSUME TypeOK, TokenRoom, Script PROVE TypeOK' /\ TokenRoom'
  OBVIOUS
<1>. USE DEF TypeOK, TokenRoom, Starts
<1>1. CASE Manage
  <2>1. PICK verb \in {"start", "stop", "restart", "destroy"}, node \in Nodes \union {0},
             force \in BOOLEAN, d \in 1..deployed :
          Begin(verb, node, force, d,
                IF verb = "start" THEN {} ELSE IF node = 0 THEN Nodes ELSE {node})
    BY <1>1 DEF Manage
  <2>2. d \in Dirs
    BY ClusterConstants DEF Dirs
  <2>. QED
    BY <1>1, <2>1, <2>2 DEF Manage, Begin
<1>2. CASE Deploy
  BY <1>2, ClusterConstants DEF Deploy, DeployDirs, Begin, Dirs
<1>3. CASE StopNode
  BY <1>3 DEF StopNode
<1>4. CASE Stopped
  BY <1>4 DEF Stopped, ToWipe, Targets
<1>5. CASE WipeNode
  BY <1>5 DEF WipeNode, RemovesData
<1>6. CASE Wiped \/ Check \/ Cleaned
  BY <1>6 DEF Wiped, Check, Cleaned, Targets
<1>7. CASE MakeToken
  BY <1>7, ClusterConstants DEF MakeToken, Targets, Tokens
<1>8. CASE Launch
  BY <1>8 DEF Launch, NewSession, StartsNode, TokenFor
<1>9. CASE Launched \/ Fail
  BY <1>9 DEF Launched, Fail
<1>. QED
  BY <1>1, <1>2, <1>3, <1>4, <1>5, <1>6, <1>7, <1>8, <1>9 DEF Script

LEMMA ServerType == TypeOK /\ Server => TypeOK'
<1> SUFFICES ASSUME TypeOK, Server PROVE TypeOK'
  OBVIOUS
<1>. USE DEF TypeOK
<1>1. CASE Bootstrap
  BY <1>1 DEF Bootstrap
<1>2. CASE Join
  BY <1>2 DEF Join
<1>3. CASE Crash
  BY <1>3 DEF Crash
<1>. QED
  BY <1>1, <1>2, <1>3 DEF Server

LEMMA ServerLeavesScript == Server => UNCHANGED <<deployed, script, issued, disturbed>>
BY DEF Server, Bootstrap, Join, Crash

LEMMA NextType == TypeOK /\ TokenRoom /\ [Next]_vars => TypeOK' /\ TokenRoom'
<1> SUFFICES ASSUME TypeOK, TokenRoom, [Next]_vars PROVE TypeOK' /\ TokenRoom'
  OBVIOUS
<1>1. CASE Script
  BY <1>1, ScriptType
<1>2. CASE Server
  BY <1>2, ServerType, ServerLeavesScript DEF TokenRoom, Starts
<1>3. CASE UNCHANGED vars
  BY <1>3 DEF vars, TypeOK, TokenRoom, Starts
<1>. QED
  BY <1>1, <1>2, <1>3 DEF Next

(* Type correctness: identities, sessions and the script's state keep their  *)
(* types.                                                                    *)
THEOREM ClusterTypeCorrect == Spec => []TypeOK
BY InitType, NextType, PTL DEF Spec

-----------------------------------------------------------------------------
(* The inductive invariant.  Of a directory no script has disturbed:         *)
(* - two nodes with an identity have the same;                               *)
(* - once node1 has one a majority has, and no node runs where only a        *)
(*   minority has one.                                                       *)
(* A script that is about to launch, and one that has, finds no identity     *)
(* or a majority with one; one that cleans up began with node1, and nothing  *)
(* runs where it has been.                                                   *)

HasIdentity(d) == {n \in Nodes : identity[d][n] # 0}
Settled(d) == IsMajority(HasIdentity(d))
WentWell == pc = "idle" /\ exit = "ok" /\ Starts

WaitersAreNew ==
  \A n \in Nodes : waits[n] # 0 => running[n] \in Dirs /\ identity[running[n]][n] = 0

FirstIsSettled ==
  \A d \in Dirs \ disturbed : identity[d][1] # 0 => Settled(d)

RunningIsSettled ==
  \A d \in Dirs \ disturbed, m, n \in Nodes :
    running[n] = d /\ identity[d][m] # 0 => Settled(d)

ClusterInv ==
  IdentitiesAgree /\ WaitersAreNew /\ FirstIsSettled /\ RunningIsSettled

LaunchIsSettled ==
  (pc \in {"token", "launch"} \/ WentWell) /\ dir \notin disturbed =>
    \A n \in Nodes : identity[dir][n] # 0 => Settled(dir)

CleanupFromFirst ==
  pc \in {"wipe", "clean"} /\ dir \notin disturbed /\ ~Destroys =>
    \/ todo = Nodes
    \/ pc = "wipe" /\ todo = {}
    \/ /\ 1 \notin todo
       /\ \A n \in Nodes : running[n] # dir
       /\ \A n \in Nodes \ todo : identity[dir][n] = 0

NothingToDo == pc = "idle" => todo = {}

LaunchedFromHere ==
  pc = "launch" \/ WentWell => \A n \in Targets \ todo : running[n] \in {0, dir}

LaunchedWithToken ==
  (pc = "launch" \/ WentWell) /\ job.node = 0 /\ token # 0 =>
    \A n \in Nodes \ todo : running[n] = dir => waits[n] = token \/ identity[dir][n] # 0

ScriptInv == LaunchIsSettled /\ CleanupFromFirst /\ NothingToDo
StartInv == LaunchedFromHere /\ LaunchedWithToken

-----------------------------------------------------------------------------
(* The cluster's part of the invariant *)

(* Nodes that wait have no identity, and a majority that has one meets them: *)
(* where a majority waits, there is nothing left of an older cluster.        *)
LEMMA BootstrapFromNothing ==
  ASSUME TypeOK, ClusterInv, NEW d \in Dirs \ disturbed, NEW t \in Tokens,
         NEW Q \in SUBSET Waiting(d, t), IsMajority(Q)
  PROVE  \A n \in Nodes : identity[d][n] = 0
<1> SUFFICES ASSUME NEW m \in Nodes, identity[d][m] # 0 PROVE FALSE
  OBVIOUS
<1>1. Q \in SUBSET Nodes /\ HasIdentity(d) \in SUBSET Nodes
  BY DEF Waiting, HasIdentity
<1>2. PICK n \in Q : TRUE
  BY <1>1, MajoritiesMeet
<1>3. Settled(d)
  BY <1>1, <1>2 DEF Waiting, ClusterInv, RunningIsSettled
<1>4. PICK k \in Q : k \in HasIdentity(d)
  BY <1>1, <1>3, MajoritiesMeet DEF Settled
<1>5. k \in Nodes /\ running[k] = d /\ waits[k] # 0 /\ identity[d][k] # 0
  BY <1>4 DEF Waiting, HasIdentity, Tokens
<1>. QED
  BY <1>5 DEF ClusterInv, WaitersAreNew

(* Steps that change neither an identity nor what is disturbed, and after    *)
(* which no more nodes run.                                                  *)
LEMMA FewerWaiters ==
  ASSUME TypeOK, ClusterInv, UNCHANGED <<identity, disturbed>>,
         NEW k, running' = [running EXCEPT ![k] = 0], waits' = [waits EXCEPT ![k] = 0]
  PROVE  ClusterInv'
<1>. USE DEF TypeOK
<1>1. \A d : HasIdentity(d)' = HasIdentity(d)
  BY DEF HasIdentity
<1>2. IdentitiesAgree'
  BY DEF ClusterInv, IdentitiesAgree
<1>3. WaitersAreNew'
  BY DEF ClusterInv, WaitersAreNew
<1>4. FirstIsSettled' /\ RunningIsSettled'
  BY <1>1 DEF ClusterInv, FirstIsSettled, RunningIsSettled, Settled, Dirs
<1>. QED
  BY <1>2, <1>3, <1>4 DEF ClusterInv

LEMMA ClusterAlone == ClusterInv /\ UNCHANGED <<cluster, disturbed>> => ClusterInv'
BY DEF ClusterInv, IdentitiesAgree, WaitersAreNew, FirstIsSettled, RunningIsSettled,
       Settled, HasIdentity

(* The first node a cleanup reaches is node1, so that what is left of an     *)
(* interrupted one never looks like a cluster.                               *)
LEMMA WipeKeepsCluster ==
  ASSUME TypeOK, ClusterInv, ScriptInv, WipeNode
  PROVE  ClusterInv'
<1>. USE DEF TypeOK
<1>1. PICK k \in Nodes : IsFirst(k) /\ identity' = RemovesData(k) /\ todo' = todo \ {k}
  BY DEF WipeNode
<1>2. UNCHANGED <<running, waits>> /\ disturbed \subseteq disturbed'
  BY DEF WipeNode
<1>3. \A d \in Dirs, n \in Nodes : identity'[d][n] = IF d = dir /\ n = k THEN 0 ELSE identity[d][n]
  BY <1>1 DEF RemovesData
<1>4. \A d \in Dirs : d # dir => HasIdentity(d)' = HasIdentity(d)
  BY <1>3 DEF HasIdentity
<1>5. CASE dir \in disturbed'
  <2>1. \A d \in Dirs \ disturbed' : d \in Dirs \ disturbed /\ d # dir
    BY <1>2, <1>5
  <2>2. IdentitiesAgree' /\ WaitersAreNew'
    BY <1>2, <1>3, <2>1 DEF ClusterInv, IdentitiesAgree, WaitersAreNew
  <2>3. FirstIsSettled' /\ RunningIsSettled'
    BY <1>2, <1>3, <1>4, <2>1, FirstNode DEF ClusterInv, FirstIsSettled, RunningIsSettled, Settled
  <2>. QED
    BY <2>2, <2>3 DEF ClusterInv
<1>6. CASE dir \notin disturbed'
  <2>1. ~Destroys /\ \A n \in Nodes : running[n] # dir
    BY <1>6 DEF WipeNode
  <2>2. identity'[dir][1] = 0
    BY <1>1, <1>2, <1>3, <1>6, <2>1, FirstNode
    DEF WipeNode, ScriptInv, CleanupFromFirst, IsFirst
  <2>3. FirstIsSettled'
    BY <1>2, <1>3, <1>4, <2>2, FirstNode DEF ClusterInv, FirstIsSettled, Settled
  <2>4. RunningIsSettled'
    BY <1>2, <1>3, <1>4, <2>1 DEF ClusterInv, RunningIsSettled, Settled
  <2>5. IdentitiesAgree' /\ WaitersAreNew'
    BY <1>2, <1>3 DEF ClusterInv, IdentitiesAgree, WaitersAreNew
  <2>. QED
    BY <2>3, <2>4, <2>5 DEF ClusterInv
<1>. QED
  BY <1>5, <1>6

(* A node that is launched waits only if it has no identity, and is launched *)
(* only where no node or a majority has one.                                 *)
LEMMA LaunchKeepsCluster ==
  ASSUME TypeOK, ClusterInv, ScriptInv, Launch
  PROVE  ClusterInv'
<1>. USE DEF TypeOK
<1>1. PICK k \in Nodes : NewSession(k)
  BY DEF Launch
<1>2. UNCHANGED <<identity, disturbed>> /\ dir \in Dirs /\ 0 \notin Dirs /\ 0 \notin Tokens
  BY DEF Launch, Dirs, Tokens
<1>3. /\ running[k] = 0
      /\ running' = [running EXCEPT ![k] = dir]
      /\ waits' = [waits EXCEPT ![k] = IF identity[dir][k] = 0 THEN token ELSE 0]
  BY <1>1 DEF NewSession, StartsNode, TokenFor
<1>4. \A d : HasIdentity(d)' = HasIdentity(d)
  BY <1>2 DEF HasIdentity
<1>5. IdentitiesAgree' /\ FirstIsSettled'
  BY <1>2, <1>4 DEF ClusterInv, IdentitiesAgree, FirstIsSettled, Settled
<1>6. WaitersAreNew'
  BY <1>2, <1>3 DEF ClusterInv, WaitersAreNew
<1>7. RunningIsSettled'
  <2> SUFFICES ASSUME NEW d \in Dirs \ disturbed, NEW m \in Nodes, NEW n \in Nodes,
                      running'[n] = d, identity[d][m] # 0
               PROVE  Settled(d)
    BY <1>2, <1>4 DEF RunningIsSettled, Settled
  <2>1. CASE n = k
    BY <1>3, <2>1 DEF ScriptInv, LaunchIsSettled, Launch
  <2>2. CASE n # k
    BY <1>3, <2>2 DEF ClusterInv, RunningIsSettled
  <2>. QED
    BY <2>1, <2>2
<1>. QED
  BY <1>5, <1>6, <1>7 DEF ClusterInv

(* The majority that bootstraps finds nothing in a directory that is not     *)
(* disturbed, and has then settled it.                                       *)
LEMMA BootstrapKeepsCluster ==
  ASSUME TypeOK, ClusterInv, Bootstrap
  PROVE  ClusterInv'
<1>. USE DEF TypeOK
<1>1. PICK e \in Dirs, u \in Tokens : \E Q \in SUBSET Waiting(e, u) :
        /\ IsMajority(Q)
        /\ identity' = [identity EXCEPT ![e] = [n \in Nodes |-> IF n \in Q THEN u ELSE @[n]]]
        /\ waits' = [n \in Nodes |-> IF n \in Q THEN 0 ELSE waits[n]]
  BY DEF Bootstrap
<1>2. PICK Q \in SUBSET Waiting(e, u) :
        /\ IsMajority(Q)
        /\ identity' = [identity EXCEPT ![e] = [n \in Nodes |-> IF n \in Q THEN u ELSE @[n]]]
        /\ waits' = [n \in Nodes |-> IF n \in Q THEN 0 ELSE waits[n]]
  BY <1>1
<1>3. UNCHANGED <<running, disturbed>> /\ 0 \notin Tokens /\ u # 0
  BY DEF Bootstrap, script, Tokens
<1>4. \A d \in Dirs, n \in Nodes :
        identity'[d][n] = IF d = e /\ n \in Q THEN u ELSE identity[d][n]
  BY <1>2
<1>5. \A n \in Q : n \in Nodes /\ running[n] = e /\ waits[n] = u
  BY DEF Waiting
<1>6. Settled(e)'
  <2>1. HasIdentity(e)' \in SUBSET Nodes /\ Q \in SUBSET HasIdentity(e)'
    BY <1>3, <1>4, <1>5 DEF HasIdentity
  <2>2. IsMajority(HasIdentity(e)')
    BY <1>2, <2>1, LargerMajority
  <2>. QED
    BY <2>2 DEF Settled
<1>7. \A d \in Dirs : d # e => HasIdentity(d)' = HasIdentity(d)
  BY <1>4 DEF HasIdentity
<1>8. WaitersAreNew'
  BY <1>2, <1>3, <1>4, <1>5 DEF ClusterInv, WaitersAreNew
<1>9. e \notin disturbed => \A n \in Nodes : identity'[e][n] \in {0, u}
  BY <1>2, <1>4, BootstrapFromNothing
<1>10. IdentitiesAgree'
  BY <1>3, <1>4, <1>9 DEF ClusterInv, IdentitiesAgree
<1>11. FirstIsSettled' /\ RunningIsSettled'
  BY <1>3, <1>4, <1>6, <1>7, FirstNode
  DEF ClusterInv, FirstIsSettled, RunningIsSettled, Settled
<1>. QED
  BY <1>8, <1>10, <1>11 DEF ClusterInv

LEMMA JoinKeepsCluster ==
  ASSUME TypeOK, ClusterInv, Join
  PROVE  ClusterInv'
<1>. USE DEF TypeOK
<1>1. PICK m \in Nodes, k \in Nodes :
        /\ running[k] # 0 /\ running[m] = running[k]
        /\ waits[k] # 0 /\ identity[running[k]][m] = waits[k]
        /\ identity' = [identity EXCEPT ![running[k]][k] = waits[k]]
        /\ waits' = [waits EXCEPT ![k] = 0]
  BY DEF Join
<1>2. UNCHANGED <<running, disturbed>> /\ running[k] \in Dirs /\ identity[running[k]][k] = 0
  BY <1>1 DEF Join, script, ClusterInv, WaitersAreNew
<1>3. \A d \in Dirs, n \in Nodes :
        identity'[d][n] = IF d = running[k] /\ n = k THEN waits[k] ELSE identity[d][n]
  BY <1>1, <1>2
<1>4. \A d \in Dirs : Settled(d) => Settled(d)'
  <2> SUFFICES ASSUME NEW d \in Dirs, Settled(d) PROVE IsMajority(HasIdentity(d)')
    BY DEF Settled
  <2>1. HasIdentity(d)' \in SUBSET Nodes /\ HasIdentity(d) \in SUBSET HasIdentity(d)'
    BY <1>1, <1>3 DEF HasIdentity
  <2>. QED
    BY <2>1, LargerMajority DEF Settled
<1>5. running[k] \notin disturbed => Settled(running[k])
  BY <1>1, <1>2 DEF ClusterInv, RunningIsSettled
<1>6. WaitersAreNew'
  BY <1>1, <1>2, <1>3 DEF ClusterInv, WaitersAreNew
<1>7. IdentitiesAgree'
  BY <1>1, <1>2, <1>3 DEF ClusterInv, IdentitiesAgree
<1>8. FirstIsSettled' /\ RunningIsSettled'
  BY <1>2, <1>3, <1>4, <1>5, FirstNode DEF ClusterInv, FirstIsSettled, RunningIsSettled
<1>. QED
  BY <1>6, <1>7, <1>8 DEF ClusterInv

LEMMA ClusterStep == TypeOK /\ ClusterInv /\ ScriptInv /\ [Next]_vars => ClusterInv'
<1> SUFFICES ASSUME TypeOK, ClusterInv, ScriptInv, [Next]_vars PROVE ClusterInv'
  OBVIOUS
<1>1. CASE Manage \/ Deploy \/ Stopped \/ Wiped \/ Check \/ Cleaned \/ MakeToken \/ Launched \/ Fail
  BY <1>1, ClusterAlone
  DEF Manage, Deploy, Begin, Stopped, Wiped, Check, Cleaned, MakeToken, Launched, Fail
<1>2. CASE StopNode
  BY <1>2, FewerWaiters DEF StopNode
<1>3. CASE WipeNode
  BY <1>3, WipeKeepsCluster
<1>4. CASE Launch
  BY <1>4, LaunchKeepsCluster
<1>5. CASE Bootstrap
  BY <1>5, BootstrapKeepsCluster
<1>6. CASE Join
  BY <1>6, JoinKeepsCluster
<1>7. CASE Crash
  BY <1>7, FewerWaiters DEF Crash
<1>8. CASE UNCHANGED vars
  BY <1>8, ClusterAlone DEF vars
<1>. QED
  BY <1>1, <1>2, <1>3, <1>4, <1>5, <1>6, <1>7, <1>8 DEF Next, Script, Server

-----------------------------------------------------------------------------
(* The script's part of the invariant *)

(* What the nodes do by themselves to a directory where some identity means  *)
(* that a majority has one, and to one that nothing runs from.               *)
LEMMA ServerSettles ==
  ASSUME TypeOK, ClusterInv, Server, NEW d \in Dirs,
         \A n \in Nodes : identity[d][n] # 0 => Settled(d)
  PROVE  \A n \in Nodes : identity'[d][n] # 0 => Settled(d)'
<1>. USE DEF TypeOK
<1>1. CASE Bootstrap
  <2>1. PICK e \in Dirs, u \in Tokens : \E Q \in SUBSET Waiting(e, u) :
          /\ IsMajority(Q)
          /\ identity' = [identity EXCEPT ![e] = [n \in Nodes |-> IF n \in Q THEN u ELSE @[n]]]
          /\ waits' = [n \in Nodes |-> IF n \in Q THEN 0 ELSE waits[n]]
    BY <1>1 DEF Bootstrap
  <2>2. PICK Q \in SUBSET Waiting(e, u) :
          /\ IsMajority(Q)
          /\ identity' = [identity EXCEPT ![e] = [n \in Nodes |-> IF n \in Q THEN u ELSE @[n]]]
          /\ waits' = [n \in Nodes |-> IF n \in Q THEN 0 ELSE waits[n]]
    BY <2>1
  <2>3. CASE e = d
    <3>1. HasIdentity(d)' \in SUBSET Nodes /\ Q \in SUBSET HasIdentity(d)'
      BY <2>2, <2>3 DEF HasIdentity, Waiting, Tokens
    <3>. QED
      BY <2>2, <3>1, LargerMajority DEF Settled
  <2>4. CASE e # d
    <3>1. identity'[d] = identity[d] /\ HasIdentity(d)' = HasIdentity(d)
      BY <2>2, <2>4 DEF HasIdentity
    <3>. QED
      BY <3>1 DEF Settled
  <2>. QED
    BY <2>3, <2>4
<1>2. CASE Join
  <2>1. PICK m \in Nodes, k \in Nodes :
          /\ running[k] # 0 /\ waits[k] # 0 /\ identity[running[k]][m] = waits[k]
          /\ identity' = [identity EXCEPT ![running[k]][k] = waits[k]]
    BY <1>2 DEF Join
  <2>2. \A n \in Nodes : identity[d][n] # 0 => identity'[d][n] # 0
    BY <2>1
  <2>3. HasIdentity(d)' \in SUBSET Nodes /\ HasIdentity(d) \in SUBSET HasIdentity(d)'
    BY <2>2 DEF HasIdentity
  <2>4. Settled(d) => Settled(d)'
    BY <2>3, LargerMajority DEF Settled
  <2>. QED
    BY <2>1, <2>4
<1>3. CASE Crash
  <2>1. HasIdentity(d)' = HasIdentity(d) /\ UNCHANGED identity
    BY <1>3 DEF Crash, HasIdentity
  <2>. QED
    BY <2>1 DEF Settled
<1>. QED
  BY <1>1, <1>2, <1>3 DEF Server

LEMMA ServerNeedsSessions ==
  ASSUME TypeOK, Server, NEW d \in Dirs, \A n \in Nodes : running[n] # d
  PROVE  identity'[d] = identity[d] /\ \A n \in Nodes : running'[n] # d
<1>. USE DEF TypeOK
<1>1. CASE Bootstrap
  BY <1>1 DEF Bootstrap, Waiting
<1>2. CASE Join
  BY <1>2 DEF Join
<1>3. CASE Crash
  BY <1>3 DEF Crash, Dirs
<1>. QED
  BY <1>1, <1>2, <1>3 DEF Server

LEMMA LaunchSettledStep ==
  ASSUME TypeOK, TokenRoom, ClusterInv, ScriptInv, [Next]_vars
  PROVE  LaunchIsSettled'
<1>. USE DEF TypeOK
<1>1. CASE Manage \/ Deploy
  BY <1>1 DEF Manage, Deploy, Begin, LaunchIsSettled, WentWell
<1>2. CASE StopNode \/ WipeNode
  BY <1>2 DEF StopNode, WipeNode, LaunchIsSettled, WentWell
<1>3. CASE Stopped \/ Wiped \/ Fail
  BY <1>3 DEF Stopped, Wiped, Fail, LaunchIsSettled, WentWell, Starts
<1>4. CASE Check
  <2>1. CASE pc' = "clean"
    BY <1>4, <2>1 DEF Check, LaunchIsSettled, WentWell
  <2>2. CASE identity[dir][1] # 0
    <3>1. UNCHANGED <<identity, dir, disturbed>> /\ HasIdentity(dir)' = HasIdentity(dir)
      BY <1>4 DEF Check, HasIdentity
    <3>2. dir \notin disturbed => Settled(dir)
      BY <2>2 DEF ClusterInv, FirstIsSettled
    <3>. QED
      BY <3>1, <3>2 DEF LaunchIsSettled, Settled
  <2>. QED
    BY <1>4, <2>1, <2>2 DEF Check
<1>5. CASE Cleaned
  BY <1>5, FirstNode
  DEF Cleaned, LaunchIsSettled, WentWell, ScriptInv, CleanupFromFirst, Destroys, TokenRoom, Starts
<1>6. CASE MakeToken \/ Launch \/ Launched
  BY <1>6 DEF MakeToken, Launch, Launched, LaunchIsSettled, WentWell, ScriptInv, Settled, HasIdentity
<1>7. CASE Server
  BY <1>7, ServerSettles, ServerLeavesScript DEF LaunchIsSettled, WentWell, Starts, ScriptInv
<1>8. CASE UNCHANGED vars
  BY <1>8 DEF vars, LaunchIsSettled, WentWell, Starts, ScriptInv, Settled, HasIdentity
<1>. QED
  BY <1>1, <1>2, <1>3, <1>4, <1>5, <1>6, <1>7, <1>8 DEF Next, Script

LEMMA CleanupStep ==
  ASSUME TypeOK, TokenRoom, ScriptInv, [Next]_vars
  PROVE  CleanupFromFirst'
<1>. USE DEF TypeOK
<1>1. CASE Manage \/ Deploy
  BY <1>1 DEF Manage, Deploy, Begin, CleanupFromFirst
<1>2. CASE StopNode \/ Wiped \/ Cleaned \/ MakeToken \/ Launch \/ Launched \/ Fail
  BY <1>2 DEF StopNode, Wiped, Cleaned, MakeToken, Launch, Launched, Fail, CleanupFromFirst
<1>3. CASE Stopped
  BY <1>3 DEF Stopped, ToWipe, Targets, CleanupFromFirst, Destroys
<1>4. CASE Check
  BY <1>4 DEF Check, CleanupFromFirst
<1>5. CASE WipeNode
  <2> SUFFICES ASSUME dir \notin disturbed', ~Destroys
               PROVE  /\ 1 \notin todo'
                      /\ \A n \in Nodes : running'[n] # dir
                      /\ \A n \in Nodes \ todo' : identity'[dir][n] = 0
    BY <1>5 DEF WipeNode, CleanupFromFirst, Destroys
  <2>1. PICK k \in Nodes : IsFirst(k) /\ identity' = RemovesData(k) /\ todo' = todo \ {k}
    BY <1>5 DEF WipeNode
  <2>2. dir \notin disturbed /\ UNCHANGED running /\ \A n \in Nodes : running[n] # dir
    BY <1>5 DEF WipeNode
  <2>3. \A n \in Nodes : identity'[dir][n] = IF n = k THEN 0 ELSE identity[dir][n]
    BY <2>1 DEF RemovesData
  <2>4. CASE todo = Nodes
    <3>1. k = 1
      BY <2>1, <2>4, FirstNode DEF IsFirst
    <3>. QED
      BY <2>1, <2>2, <2>3, <2>4, <3>1
  <2>5. CASE todo # Nodes
    BY <1>5, <2>1, <2>2, <2>3, <2>5 DEF WipeNode, ScriptInv, CleanupFromFirst, IsFirst
  <2>. QED
    BY <2>4, <2>5
<1>6. CASE Server
  BY <1>6, ServerNeedsSessions, ServerLeavesScript DEF CleanupFromFirst, Destroys, ScriptInv
<1>7. CASE UNCHANGED vars
  BY <1>7 DEF vars, CleanupFromFirst, Destroys, ScriptInv
<1>. QED
  BY <1>1, <1>2, <1>3, <1>4, <1>5, <1>6, <1>7 DEF Next, Script

LEMMA NothingToDoStep == TypeOK /\ ScriptInv /\ [Next]_vars => NothingToDo'
<1> SUFFICES ASSUME TypeOK, ScriptInv, [Next]_vars PROVE NothingToDo'
  OBVIOUS
<1>1. CASE Script
  BY <1>1 DEF Script, Manage, Deploy, Begin, StopNode, Stopped, WipeNode, Wiped, Check, Cleaned,
              MakeToken, Launch, Launched, Fail, NothingToDo
<1>2. CASE Server \/ UNCHANGED vars
  BY <1>2, ServerLeavesScript DEF vars, NothingToDo, ScriptInv
<1>. QED
  BY <1>1, <1>2 DEF Next

-----------------------------------------------------------------------------
(* What a start has done so far *)

LEMMA FromHereStep ==
  ASSUME TypeOK, TokenRoom, NothingToDo, LaunchedFromHere, [Next]_vars
  PROVE  LaunchedFromHere'
<1>. USE DEF TypeOK, LaunchedFromHere, WentWell
<1>1. CASE Manage \/ Deploy
  BY <1>1 DEF Manage, Deploy, Begin
<1>2. CASE StopNode \/ WipeNode \/ Cleaned
  BY <1>2 DEF StopNode, WipeNode, Cleaned
<1>3. CASE Stopped \/ Wiped \/ Fail
  BY <1>3 DEF Stopped, Wiped, Fail, Starts
<1>4. CASE Check \/ MakeToken
  BY <1>4 DEF Check, MakeToken, Targets
<1>5. CASE Launch
  BY <1>5 DEF Launch, NewSession, StartsNode, Targets
<1>6. CASE Launched
  BY <1>6 DEF Launched, Targets
<1>7. CASE Server
  <2>1. \A n \in Nodes : running'[n] \in {0, running[n]}
    BY <1>7 DEF Server, Bootstrap, Join, Crash
  <2>. QED
    BY <1>7, <2>1, ServerLeavesScript DEF Targets, Starts
<1>8. CASE UNCHANGED vars
  BY <1>8 DEF vars, Targets, Starts
<1>. QED
  BY <1>1, <1>2, <1>3, <1>4, <1>5, <1>6, <1>7, <1>8 DEF Next, Script

LEMMA WithTokenStep ==
  ASSUME TypeOK, TokenRoom, LaunchedWithToken, [Next]_vars
  PROVE  LaunchedWithToken'
<1>. USE DEF TypeOK, LaunchedWithToken, WentWell
<1>1. CASE Manage \/ Deploy
  BY <1>1 DEF Manage, Deploy, Begin
<1>2. CASE StopNode \/ WipeNode \/ Cleaned
  BY <1>2 DEF StopNode, WipeNode, Cleaned
<1>3. CASE Stopped \/ Wiped \/ Fail
  BY <1>3 DEF Stopped, Wiped, Fail, Starts
<1>4. CASE Check \/ MakeToken
  BY <1>4 DEF Check, MakeToken, Targets
<1>5. CASE Launch
  BY <1>5 DEF Launch, NewSession, StartsNode, TokenFor
<1>6. CASE Launched
  BY <1>6 DEF Launched
<1>7. CASE Server
  <2>1. \A n \in Nodes :
          running'[n] = dir /\ (waits[n] = token \/ identity[dir][n] # 0) /\ token # 0
            => running[n] = dir /\ (waits'[n] = token \/ identity'[dir][n] # 0)
    <3>1. CASE Bootstrap
      BY <3>1 DEF Bootstrap, Waiting, Tokens
    <3>2. CASE Join
      BY <3>2 DEF Join
    <3>3. CASE Crash
      BY <3>3 DEF Crash, Dirs
    <3>. QED
      BY <1>7, <3>1, <3>2, <3>3 DEF Server
  <2>2. \A n \in Nodes : running'[n] = dir => running[n] = dir
    BY <1>7 DEF Server, Bootstrap, Join, Crash, Dirs
  <2>. QED
    BY <1>7, <2>1, <2>2, ServerLeavesScript DEF Starts
<1>8. CASE UNCHANGED vars
  BY <1>8 DEF vars, Starts
<1>. QED
  BY <1>1, <1>2, <1>3, <1>4, <1>5, <1>6, <1>7, <1>8 DEF Next, Script

-----------------------------------------------------------------------------
(* Tokens.  A token belongs to the directory it was made for: its nodes wait *)
(* with it or carry it, and the script that launches them holds it.          *)

CarriedIn(d, t) ==
  \/ \E n \in Nodes : identity[d][n] = t \/ (running[n] = d /\ waits[n] = t)
  \/ pc = "launch" /\ dir = d /\ token = t

OneHome ==
  \A d, e \in Dirs, t \in Tokens : CarriedIn(d, t) /\ CarriedIn(e, t) => d = e

TokensIssued == \A d \in Dirs, t \in Tokens : CarriedIn(d, t) => t <= issued

FileIsNew == pc \notin {"idle", "launch"} => token = 0

TokenInv == OneHome /\ TokensIssued /\ FileIsNew

LEMMA FileIsNewStep == FileIsNew /\ [Next]_vars => FileIsNew'
<1> SUFFICES ASSUME FileIsNew, [Next]_vars PROVE FileIsNew'
  OBVIOUS
<1>1. CASE Script
  BY <1>1 DEF Script, Manage, Deploy, Begin, StopNode, Stopped, WipeNode, Wiped, Check, Cleaned,
              MakeToken, Launch, Launched, Fail, FileIsNew
<1>2. CASE Server \/ UNCHANGED vars
  BY <1>2, ServerLeavesScript DEF vars, FileIsNew
<1>. QED
  BY <1>1, <1>2 DEF Next

(* A token comes to a directory only where gdm-admin has just made it for    *)
(* the script that is about to launch the nodes there.                       *)
LEMMA CarriedBefore ==
  ASSUME TypeOK, FileIsNew, [Next]_vars, NEW d \in Dirs, NEW t \in Tokens, CarriedIn(d, t)'
  PROVE  CarriedIn(d, t) \/ (MakeToken /\ d = dir /\ t = issued + 1)
<1>. USE DEF TypeOK
<1>0. t # 0 /\ d # 0 /\ dir # 0
  BY DEF Tokens, Dirs
<1>1. CASE Manage \/ Deploy
  BY <1>1 DEF Manage, Deploy, Begin, CarriedIn
<1>2. CASE StopNode
  BY <1>0, <1>2 DEF StopNode, CarriedIn
<1>3. CASE Stopped \/ Wiped \/ Cleaned \/ Launched \/ Fail
  BY <1>3 DEF Stopped, Wiped, Cleaned, Launched, Fail, CarriedIn
<1>4. CASE WipeNode
  <2>1. PICK k \in Nodes : identity' = RemovesData(k)
    BY <1>4 DEF WipeNode
  <2>2. \A n \in Nodes : identity'[d][n] \in {0, identity[d][n]}
    BY <2>1 DEF RemovesData
  <2>. QED
    BY <1>0, <1>4, <2>2 DEF WipeNode, CarriedIn
<1>5. CASE Check
  BY <1>0, <1>5 DEF Check, CarriedIn, FileIsNew
<1>6. CASE MakeToken
  BY <1>0, <1>6 DEF MakeToken, CarriedIn, FileIsNew
<1>7. CASE Launch
  <2>1. PICK k \in Nodes : NewSession(k)
    BY <1>7 DEF Launch
  <2>2. \A n \in Nodes : running'[n] = d /\ waits'[n] = t =>
          (running[n] = d /\ waits[n] = t) \/ (d = dir /\ t = token)
    BY <1>0, <2>1 DEF NewSession, StartsNode, TokenFor
  <2>. QED
    BY <1>7, <2>2 DEF Launch, CarriedIn
<1>8. CASE Server
  <2>1. \A n \in Nodes : running'[n] = d /\ waits'[n] = t => running[n] = d /\ waits[n] = t
    BY <1>0, <1>8 DEF Server, Bootstrap, Join, Crash
  <2>2. \A n \in Nodes : identity'[d][n] = t =>
          \E m \in Nodes : identity[d][m] = t \/ (running[m] = d /\ waits[m] = t)
    <3>1. CASE Bootstrap
      BY <3>1 DEF Bootstrap, Waiting
    <3>2. CASE Join
      BY <3>2 DEF Join
    <3>3. CASE Crash
      BY <3>3 DEF Crash
    <3>. QED
      BY <1>8, <3>1, <3>2, <3>3 DEF Server
  <2>. QED
    BY <1>8, <2>1, <2>2, ServerLeavesScript DEF CarriedIn
<1>9. CASE UNCHANGED vars
  BY <1>9 DEF vars, CarriedIn
<1>. QED
  BY <1>1, <1>2, <1>3, <1>4, <1>5, <1>6, <1>7, <1>8, <1>9 DEF Next, Script

LEMMA TokenStep == TypeOK /\ TokenInv /\ [Next]_vars => TokenInv'
<1> SUFFICES ASSUME TypeOK, TokenInv, [Next]_vars PROVE TokenInv'
  OBVIOUS
<1>1. FileIsNew'
  BY FileIsNewStep DEF TokenInv
<1>2. /\ issued \in Nat
      /\ issued' = issued \/ issued' = issued + 1
      /\ MakeToken => issued' = issued + 1
  <2>1. CASE Script
    BY <2>1 DEF Script, Manage, Deploy, Begin, StopNode, Stopped, WipeNode, Wiped, Check, Cleaned,
                MakeToken, Launch, Launched, Fail, TypeOK
  <2>2. CASE Server \/ UNCHANGED vars
    <3>1. UNCHANGED <<issued, pc>>
      BY <2>2, ServerLeavesScript DEF vars
    <3>. QED
      BY <3>1 DEF MakeToken, TypeOK
  <2>. QED
    BY <2>1, <2>2 DEF Next
<1>3. ASSUME NEW d \in Dirs, NEW t \in Tokens, CarriedIn(d, t)'
      PROVE  CarriedIn(d, t) \/ (MakeToken /\ d = dir /\ t = issued + 1)
  BY <1>3, CarriedBefore DEF TokenInv
<1>4. ASSUME NEW t \in Tokens PROVE t \in Nat
  BY DEF Tokens
<1>5. TokensIssued'
  <2> SUFFICES ASSUME NEW d \in Dirs, NEW t \in Tokens, CarriedIn(d, t)'
               PROVE  t <= issued'
    BY DEF TokensIssued
  <2>1. CASE CarriedIn(d, t)
    BY <1>2, <1>4, <2>1 DEF TokenInv, TokensIssued
  <2>2. CASE MakeToken /\ t = issued + 1
    BY <1>2, <2>2
  <2>. QED
    BY <1>3, <2>1, <2>2
<1>6. OneHome'
  <2> SUFFICES ASSUME NEW d \in Dirs, NEW e \in Dirs, NEW t \in Tokens,
                      CarriedIn(d, t)', CarriedIn(e, t)'
               PROVE  d = e
    BY DEF OneHome
  <2>1. CASE t = issued + 1
    <3>1. ~CarriedIn(d, t) /\ ~CarriedIn(e, t)
      BY <1>2, <2>1 DEF TokenInv, TokensIssued
    <3>. QED
      BY <1>3, <3>1
  <2>2. CASE t # issued + 1
    BY <1>3, <2>2 DEF TokenInv, OneHome
  <2>. QED
    BY <2>1, <2>2
<1>. QED
  BY <1>1, <1>5, <1>6 DEF TokenInv

-----------------------------------------------------------------------------
(* The theorems *)

Inv == TypeOK /\ TokenRoom /\ ClusterInv /\ ScriptInv /\ StartInv /\ TokenInv

LEMMA InitInv == Init => Inv
<1> SUFFICES ASSUME Init PROVE Inv
  OBVIOUS
<1>1. TypeOK /\ TokenRoom
  BY InitType
<1>2. /\ \A d \in Dirs, n \in Nodes : identity[d][n] = 0 /\ running[n] = 0 /\ waits[n] = 0
      /\ pc = "idle" /\ todo = {} /\ exit = "none"
  BY DEF Init
<1>3. ClusterInv
  BY <1>2, FirstNode DEF ClusterInv, IdentitiesAgree, WaitersAreNew, FirstIsSettled,
     RunningIsSettled, Init
<1>4. ScriptInv /\ StartInv
  BY <1>2 DEF ScriptInv, StartInv, LaunchIsSettled, CleanupFromFirst, NothingToDo,
     LaunchedFromHere, LaunchedWithToken, WentWell
<1>5. TokenInv
  <2>1. \A d \in Dirs, t \in Tokens : ~CarriedIn(d, t)
    BY <1>2 DEF CarriedIn, Tokens
  <2>. QED
    BY <1>2, <2>1 DEF TokenInv, OneHome, TokensIssued, FileIsNew
<1>. QED
  BY <1>1, <1>3, <1>4, <1>5 DEF Inv

LEMMA NextInv == Inv /\ [Next]_vars => Inv'
<1> SUFFICES ASSUME Inv, [Next]_vars PROVE Inv'
  OBVIOUS
<1>. USE DEF Inv
<1>1. TypeOK' /\ TokenRoom'
  BY NextType
<1>2. ClusterInv'
  BY ClusterStep
<1>3. ScriptInv'
  BY LaunchSettledStep, CleanupStep, NothingToDoStep DEF ScriptInv
<1>4. StartInv'
  BY FromHereStep, WithTokenStep DEF StartInv, ScriptInv
<1>5. TokenInv'
  BY TokenStep
<1>. QED
  BY <1>1, <1>2, <1>3, <1>4, <1>5

LEMMA Invariance == Spec => []Inv
BY InitInv, NextInv, PTL DEF Spec

(* The nodes of a directory never carry two identities, whichever calls      *)
(* failed and whichever scripts were run, unless one of them disturbed it.   *)
THEOREM IdentitiesAlwaysAgree == Spec => []IdentitiesAgree
<1>1. Inv => IdentitiesAgree
  BY DEF Inv, ClusterInv
<1>. QED
  BY <1>1, Invariance, PTL

(* A start that ends well has no node of an older deployment among its own.  *)
THEOREM StartsRunFromHere == Spec => []StartedFromHere
<1>1. Inv => StartedFromHere
  BY DEF Inv, ScriptInv, StartInv, NothingToDo, LaunchedFromHere, WentWell, StartedFromHere
<1>. QED
  BY <1>1, Invariance, PTL

LEMMA QuorumFromInv == Inv => FormsQuorum
<1>. DEFINE Sharing(t) == {n \in Nodes : t \in {identity[dir][n], waits[n]}}
<1> SUFFICES ASSUME Inv, WentWell, job.node = 0, token # 0, dir \notin disturbed,
                    \A n \in Nodes : running[n] = dir
             PROVE  \E t \in Tokens : IsMajority(Sharing(t))
  BY DEF FormsQuorum, WentWell
<1>. USE DEF Inv, TypeOK
<1>1. \A n \in Nodes : waits[n] = token \/ identity[dir][n] # 0
  BY DEF ScriptInv, StartInv, NothingToDo, LaunchedWithToken, WentWell
<1>2. CASE \E m \in Nodes : identity[dir][m] # 0
  <2>1. PICK m \in Nodes : identity[dir][m] # 0
    BY <1>2
  <2>2. Settled(dir) /\ identity[dir][m] \in Tokens
    BY <2>1 DEF ScriptInv, LaunchIsSettled
  <2>3. \A n \in HasIdentity(dir) : identity[dir][n] = identity[dir][m]
    BY <2>1 DEF HasIdentity, ClusterInv, IdentitiesAgree
  <2>4. HasIdentity(dir) \in SUBSET Sharing(identity[dir][m])
    BY <2>3 DEF HasIdentity
  <2>5. IsMajority(Sharing(identity[dir][m]))
    BY <2>2, <2>4, LargerMajority DEF Settled
  <2>. HIDE DEF Sharing
  <2>. QED
    BY <2>2, <2>5
<1>3. CASE \A n \in Nodes : identity[dir][n] = 0
  <2>1. Sharing(token) = Nodes
    BY <1>1, <1>3
  <2>. HIDE DEF Sharing
  <2>. QED
    BY <2>1, AllAreMajority
<1>. QED
  BY <1>2, <1>3

(* A start of the whole cluster that ends well leaves nodes that can form    *)
(* it: all of them wait with the token, or a majority shares an identity.    *)
THEOREM StartsFormQuorums == Spec => []FormsQuorum
BY Invariance, QuorumFromInv, PTL

-----------------------------------------------------------------------------
(* Refinement.  The identities are those ClusterIdentity speaks of, and the  *)
(* disturbed directories the lost ones.  Most steps change neither.          *)

LEMMA ClusterStutter ==
  UNCHANGED <<identity, disturbed>> => UNCHANGED Cluster!vars
BY DEF Cluster!vars

LEMMA ClusterInit == Init => Cluster!Init
BY DEF Init, Cluster!Init

(* Whatever happens in a disturbed directory, its nodes take an identity     *)
(* from no other: their tokens are its own.                                  *)
LEMMA StepLoses ==
  ASSUME TypeOK', OneHome', NEW d \in Dirs, disturbed' = disturbed \union {d},
         \A e \in Dirs \ {d} : identity'[e] = identity[e]
  PROVE  Cluster!Lose(d)
<1>1. identity' \in [Dirs -> [Nodes -> Tokens \union {0}]]
  BY DEF TypeOK
<1>2. ASSUME NEW n \in Nodes, identity'[d][n] # 0, NEW e \in Dirs \ {d}, NEW m \in Nodes,
             identity[e][m] = identity'[d][n]
      PROVE  FALSE
  <2>1. PICK t \in Tokens : t = identity'[d][n] /\ t = identity'[e][m]
    BY <1>1, <1>2
  <2>2. CarriedIn(d, t)' /\ CarriedIn(e, t)'
    BY <2>1 DEF CarriedIn
  <2>. QED
    BY <1>2, <2>2 DEF OneHome
<1>. QED
  BY <1>1, <1>2 DEF Cluster!Lose, Cluster!Elsewhere

LEMMA WipeErases ==
  ASSUME Inv, Inv', WipeNode
  PROVE  [Cluster!Next]_(Cluster!vars)
<1>. USE DEF Inv, TypeOK
<1>1. PICK k \in Nodes : IsFirst(k) /\ identity' = RemovesData(k) /\ todo' = todo \ {k}
  BY DEF WipeNode
<1>2. identity' = [identity EXCEPT ![dir][k] = 0]
  BY <1>1 DEF RemovesData
<1>3. CASE dir \in disturbed'
  <2>1. disturbed' = disturbed \union {dir}
    BY <1>3 DEF WipeNode
  <2>2. Cluster!Lose(dir)
    BY <1>2, <2>1, StepLoses DEF TokenInv
  <2>. QED
    BY <2>2 DEF Cluster!Next
<1>4. CASE dir \notin disturbed' /\ identity[dir][k] = 0
  <2>1. UNCHANGED <<identity, disturbed>>
    BY <1>2, <1>4 DEF WipeNode
  <2>. QED
    BY <2>1, ClusterStutter
<1>5. CASE dir \notin disturbed' /\ identity[dir][k] # 0
  <2>1. UNCHANGED disturbed /\ ~Destroys
    BY <1>5 DEF WipeNode
  <2>2. identity[dir][1] # 0 => k = 1
    BY <1>1, <1>5, <2>1, FirstNode DEF ScriptInv, CleanupFromFirst, WipeNode, IsFirst
  <2>3. Cluster!Erase(dir, k)
    BY <1>2, <1>5, <2>1, <2>2 DEF Cluster!Erase, Cluster!Carriers
  <2>. QED
    BY <2>3 DEF Cluster!Next
<1>. QED
  BY <1>3, <1>4, <1>5

LEMMA BootstrapForms ==
  ASSUME Inv, Inv', Bootstrap
  PROVE  [Cluster!Next]_(Cluster!vars)
<1>. USE DEF Inv, TypeOK
<1>1. PICK d \in Dirs, t \in Tokens : \E Q \in SUBSET Waiting(d, t) :
        /\ IsMajority(Q)
        /\ identity' = [identity EXCEPT ![d] = [n \in Nodes |-> IF n \in Q THEN t ELSE @[n]]]
        /\ waits' = [n \in Nodes |-> IF n \in Q THEN 0 ELSE waits[n]]
  BY DEF Bootstrap
<1>2. PICK Q \in SUBSET Waiting(d, t) :
        /\ IsMajority(Q)
        /\ identity' = [identity EXCEPT ![d] = [n \in Nodes |-> IF n \in Q THEN t ELSE @[n]]]
        /\ waits' = [n \in Nodes |-> IF n \in Q THEN 0 ELSE waits[n]]
  BY <1>1
<1>3. UNCHANGED disturbed /\ Q \in Majorities
  BY <1>2 DEF Bootstrap, Waiting, Majorities
<1>4. CASE d \in disturbed
  <2>1. Cluster!Lose(d)
    BY <1>2, <1>3, <1>4, StepLoses DEF TokenInv
  <2>. QED
    BY <2>1 DEF Cluster!Next
<1>5. CASE d \notin disturbed
  <2>1. \A n \in Nodes : identity[d][n] = 0
    BY <1>2, <1>5, BootstrapFromNothing
  <2>2. PICK k \in Nodes : running[k] = d /\ waits[k] = t
    <3>1. Q \cap Q # {} /\ Q \in SUBSET Nodes
      BY <1>2, <1>3, MajoritiesMeet DEF Majorities
    <3>. QED
      BY <3>1 DEF Waiting
  <2>3. ~Cluster!Elsewhere(d, t)
    BY <2>2 DEF Cluster!Elsewhere, CarriedIn, TokenInv, OneHome
  <2>4. identity' = [identity EXCEPT ![d] = [n \in Nodes |-> IF n \in Q THEN t ELSE 0]]
    BY <1>2, <2>1
  <2>5. Cluster!Form(d, t)
    BY <1>3, <1>5, <2>1, <2>3, <2>4 DEF Cluster!Form, Cluster!Carriers
  <2>. QED
    BY <2>5 DEF Cluster!Next
<1>. QED
  BY <1>4, <1>5

LEMMA JoinJoins ==
  ASSUME Inv, Inv', Join
  PROVE  [Cluster!Next]_(Cluster!vars)
<1>. USE DEF Inv, TypeOK
<1>1. PICK m \in Nodes, k \in Nodes :
        /\ running[k] # 0 /\ running[m] = running[k]
        /\ waits[k] # 0 /\ identity[running[k]][m] = waits[k]
        /\ identity' = [identity EXCEPT ![running[k]][k] = waits[k]]
  BY DEF Join
<1>. DEFINE d == running[k]
<1>2. UNCHANGED disturbed /\ d \in Dirs /\ identity[d][k] = 0
  BY <1>1 DEF Join, ClusterInv, WaitersAreNew
<1>3. CASE d \in disturbed
  <2>1. Cluster!Lose(d)
    BY <1>1, <1>2, <1>3, StepLoses DEF TokenInv
  <2>. QED
    BY <1>2, <2>1 DEF Cluster!Next
<1>4. CASE d \notin disturbed
  <2>1. Settled(d)
    BY <1>1, <1>2, <1>4 DEF ClusterInv, RunningIsSettled
  <2>2. HasIdentity(d) \in Majorities /\ HasIdentity(d) = Cluster!Carriers(d)
    BY <2>1 DEF Settled, HasIdentity, Majorities, Cluster!Carriers
  <2>3. Cluster!Stands(d)
    BY <2>2 DEF Cluster!Stands
  <2>4. m \in Cluster!Carriers(d) /\ identity' = [identity EXCEPT ![d][k] = identity[d][m]]
    BY <1>1 DEF Cluster!Carriers
  <2>5. Cluster!Join(d, k)
    BY <1>2, <1>4, <2>3, <2>4 DEF Cluster!Join
  <2>. QED
    BY <1>2, <2>5 DEF Cluster!Next
<1>. QED
  BY <1>3, <1>4

LEMMA ClusterNext == Inv /\ Inv' /\ [Next]_vars => [Cluster!Next]_(Cluster!vars)
<1> SUFFICES ASSUME Inv, Inv', [Next]_vars PROVE [Cluster!Next]_(Cluster!vars)
  OBVIOUS
<1>1. CASE UNCHANGED <<identity, disturbed>>
  BY <1>1, ClusterStutter
<1>2. CASE WipeNode
  BY <1>2, WipeErases
<1>3. CASE Bootstrap
  BY <1>3, BootstrapForms
<1>4. CASE Join
  BY <1>4, JoinJoins
<1>. QED
  BY <1>1, <1>2, <1>3, <1>4
  DEF vars, Next, Script, Server, Manage, Deploy, Begin, StopNode, Stopped, Wiped, Check,
      Cleaned, MakeToken, Launch, Launched, Fail, Crash

(* The scripts, with the nodes they manage, implement ClusterIdentity: in a  *)
(* directory they have not disturbed a cluster is formed out of nothing and  *)
(* by a quorum, joined while a quorum carries it, and taken apart from       *)
(* node1; and no identity is that of two directories.                        *)
THEOREM ScriptsImplementCluster == Spec => ImplementsCluster
BY ClusterInit, ClusterNext, Invariance, PTL DEF Spec, ImplementsCluster, Cluster!Spec
=============================================================================
