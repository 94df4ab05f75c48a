---------------------------- MODULE ClusterDeploy ----------------------------
(***************************************************************************)
(* The deployment scripts and the cluster they manage: deploy.sh and       *)
(* manage.sh of src/scripts/deploy, one script at a time, one remote call  *)
(* per action.  Any call may fail, which ends the script (set -e) and      *)
(* leaves what it did so far; the next script finds that.  What the nodes  *)
(* do meanwhile, bootstrap with a token, join, die, is external.           *)
(***************************************************************************)
EXTENDS Integers, FiniteSets

CONSTANTS
  N,             (* Nodes of the cluster: TMUX_CLUSTER_SESSIONS.            *)
  MaxDirs,       (* Bound: deployment directories.                          *)
  MaxTokens      (* Bound: bootstrap tokens.                                *)

ASSUME ClusterConstants ==
  N \in Nat \ {0} /\ MaxDirs \in Nat \ {0} /\ MaxTokens \in Nat \ {0}

Nodes == 1..N
Dirs == 1..MaxDirs
Tokens == 1..MaxTokens

VARIABLES
  running,       (* Directory each node's tmux session runs from, or 0.     *)
  waits,         (* Token with which a node awaits the bootstrap, or 0.     *)
  identity,      (* Token each directory's node was bootstrapped with, or 0.*)
  deployed,      (* Directories created so far.                             *)
  pc,            (* What the script does; "idle" between scripts.           *)
  job,           (* Command of the last script, its -n and --force-clean.   *)
  dir,           (* Its base_dir.                                           *)
  todo,          (* Nodes its present loop has not reached.                 *)
  token,         (* Content of its token file, 0 if there is none.          *)
  issued,        (* Tokens generated so far.                                *)
  exit,          (* How the last script ended.                              *)
  disturbed      (* History: directories wiped under a running node, or in  *)
                 (* part by destroy -n.                                     *)

cluster == <<running, waits, identity>>
script == <<pc, job, dir, todo, token, exit>>
vars == <<cluster, deployed, script, issued, disturbed>>

TypeOK ==
  /\ running \in [Nodes -> Dirs \union {0}]
  /\ waits \in [Nodes -> Tokens \union {0}]
  /\ identity \in [Dirs -> [Nodes -> Tokens \union {0}]]
  /\ deployed \in 0..MaxDirs
  /\ pc \in {"idle", "stop", "wipe", "check", "clean", "token", "launch"}
  /\ job \in [verb : {"start", "stop", "restart", "destroy", "deploy"},
              node : Nodes \union {0}, force : BOOLEAN]
  /\ dir \in Dirs
  /\ todo \in SUBSET Nodes
  /\ token \in Tokens \union {0}
  /\ issued \in 0..MaxTokens
  /\ exit \in {"none", "ok", "failed"}
  /\ disturbed \in SUBSET Dirs

Init ==
  /\ running = [n \in Nodes |-> 0]
  /\ waits = [n \in Nodes |-> 0]
  /\ identity = [d \in Dirs |-> [n \in Nodes |-> 0]]
  /\ deployed = 0
  /\ pc = "idle"
  /\ job = [verb |-> "stop", node |-> 0, force |-> FALSE]
  /\ dir = 1
  /\ todo = {}
  /\ token = 0
  /\ issued = 0
  /\ exit = "none"
  /\ disturbed = {}

-----------------------------------------------------------------------------
(* A script begins *)

(* Nodes the command names: all, or the one of -n.                         *)
Targets == IF job.node = 0 THEN Nodes ELSE {job.node}
Starts == job.verb \in {"start", "restart", "deploy"}

(* A script names its token file after the second in which it begins, so   *)
(* that it never reads what an older one wrote.  The mutation: all scripts *)
(* share one file.                                                         *)
OldTokenFile == UNCHANGED token
NewTokenFile == token' = 0

Begin(verb, node, force, d, stops) ==
  /\ pc = "idle"
  /\ verb \in {"start", "restart", "deploy"} => issued < MaxTokens
  /\ job' = [verb |-> verb, node |-> node, force |-> force]
  /\ dir' = d
  /\ pc' = "stop"
  /\ todo' = stops
  /\ NewTokenFile
  /\ exit' = "none"
  /\ UNCHANGED <<cluster, issued, disturbed>>

(* manage.sh on the newest directory or the one of -d.  Only a start of     *)
(* all nodes reads --force-clean: with -n cmd_start returns before it.     *)
Manage ==
  /\ \E verb \in {"start", "stop", "restart", "destroy"}, node \in Nodes \union {0},
        force \in BOOLEAN, d \in 1..deployed :
       /\ force => verb \in {"start", "restart"} /\ node = 0
       /\ Begin(verb, node, force, d,
                IF verb = "start" THEN {} ELSE IF node = 0 THEN Nodes ELSE {node})
  /\ UNCHANGED deployed

(* deploy.sh installs into a directory that does not exist; a test -d that *)
(* fails for another reason makes it take one that does.                   *)
DeployDirs == {d \in Dirs : d <= deployed + 1}

Deploy ==
  \E force \in BOOLEAN, stops \in {Nodes, {}}, d \in DeployDirs :
    /\ Begin("deploy", 0, force, d, stops)
    /\ deployed' = IF d > deployed THEN d ELSE deployed

-----------------------------------------------------------------------------
(* The script's calls *)

(* The scripts walk over the nodes in their order.                         *)
IsLast(n) == n \in todo /\ \A m \in todo : n >= m
IsFirst(n) == n \in todo /\ \A m \in todo : n <= m

Goto(label, nodes) == pc' = label /\ todo' = nodes /\ UNCHANGED exit
Exit(how) == pc' = "idle" /\ todo' = {} /\ exit' = how

(* tmux kill-session || true: whatever directory the session runs from.    *)
StopNode ==
  /\ pc = "stop"
  /\ \E n \in Nodes :
       /\ IsFirst(n)
       /\ running' = [running EXCEPT ![n] = 0]
       /\ waits' = [waits EXCEPT ![n] = 0]
       /\ todo' = todo \ {n}
  /\ UNCHANGED <<identity, deployed, pc, job, dir, token, exit, issued, disturbed>>

ToWipe ==
  IF job.verb = "destroy" THEN Targets
  ELSE IF job.force /\ job.node = 0 THEN Nodes ELSE {}

Stopped ==
  /\ pc = "stop"
  /\ todo = {}
  /\ IF job.verb = "stop" THEN Exit("ok") ELSE Goto("wipe", ToWipe)
  /\ UNCHANGED <<cluster, deployed, job, dir, token, issued, disturbed>>

(* rm -rf of one node's data and logs: cleanup_cluster_data and destroy.   *)
Destroys == job.verb = "destroy" /\ job.node # 0

RemovesNode(n) == [identity EXCEPT ![dir] = [m \in Nodes \ {n} |-> @[m]]]
RemovesData(n) == [identity EXCEPT ![dir][n] = 0]

WipeNode ==
  /\ pc \in {"wipe", "clean"}
  /\ \E n \in Nodes :
       /\ IsFirst(n)
       /\ identity' = RemovesData(n)
       /\ todo' = todo \ {n}
  /\ disturbed' = IF Destroys \/ \E n \in Nodes : running[n] = dir
                  THEN disturbed \union {dir} ELSE disturbed
  /\ UNCHANGED <<running, waits, deployed, pc, job, dir, token, exit, issued>>

Wiped ==
  /\ pc = "wipe"
  /\ todo = {}
  /\ IF Starts THEN Goto("check", {}) ELSE Exit("ok")
  /\ UNCHANGED <<cluster, deployed, job, dir, token, issued, disturbed>>

(* cluster_has_identity asks node1, and takes a call that fails for a no.  *)
(* Starting one node of a cluster that has an identity needs no token.     *)
Check ==
  /\ pc = "check"
  /\ \/ /\ identity[dir][1] # 0
        /\ IF job.node = 0 THEN Goto("token", {}) ELSE Goto("launch", Targets)
     \/ Goto("clean", Nodes)
  /\ UNCHANGED <<cluster, deployed, job, dir, token, issued, disturbed>>

Cleaned ==
  /\ pc = "clean"
  /\ todo = {}
  /\ Goto("token", {})
  /\ UNCHANGED <<cluster, deployed, job, dir, token, issued, disturbed>>

(* gdm-admin cluster init, and the file.  generate_cluster_token runs on   *)
(* the left of ||, where set -e is off: a failed write goes unnoticed.     *)
MakeToken ==
  /\ pc = "token"
  /\ issued' = issued + 1
  /\ token' \in {token, issued'}
  /\ Goto("launch", Targets)
  /\ UNCHANGED <<cluster, deployed, job, dir, disturbed>>

(* tmux new-session fails where the session exists.  A node with an        *)
(* identity ignores the token.                                             *)
FirstGetsToken(n) == IF n = 1 THEN token ELSE 0
TokenFor(n) == token

StartsNode(n) ==
  /\ running' = [running EXCEPT ![n] = dir]
  /\ waits' = [waits EXCEPT ![n] = IF identity[dir][n] = 0 THEN TokenFor(n) ELSE 0]

KeepsSession(n) == IF running[n] = 0 THEN StartsNode(n) ELSE UNCHANGED <<running, waits>>
NewSession(n) == running[n] = 0 /\ StartsNode(n)

Launch ==
  /\ pc = "launch"
  /\ \E n \in Nodes :
       /\ IsFirst(n)
       /\ NewSession(n)
       /\ todo' = todo \ {n}
  /\ UNCHANGED <<identity, deployed, pc, job, dir, token, exit, issued, disturbed>>

Launched ==
  /\ pc = "launch"
  /\ todo = {}
  /\ Exit("ok")
  /\ UNCHANGED <<cluster, deployed, job, dir, token, issued, disturbed>>

(* A call fails, or its answer is lost after it took effect.               *)
Fail ==
  /\ pc # "idle"
  /\ Exit("failed")
  /\ UNCHANGED <<cluster, deployed, job, dir, token, issued, disturbed>>

-----------------------------------------------------------------------------
(* The nodes *)

IsMajority(Q) == 2 * Cardinality(Q) > N
Majorities == {Q \in SUBSET Nodes : IsMajority(Q)}
Waiting(d, t) == {n \in Nodes : running[n] = d /\ waits[n] = t}

(* A majority that waits with one token commits the cluster's identity.    *)
Bootstrap ==
  /\ \E d \in Dirs, t \in Tokens : \E Q \in SUBSET Waiting(d, t) :
       /\ IsMajority(Q)
       /\ identity' = [identity EXCEPT ![d] =
                         [n \in Nodes |-> IF n \in Q THEN t ELSE @[n]]]
       /\ waits' = [n \in Nodes |-> IF n \in Q THEN 0 ELSE waits[n]]
  /\ UNCHANGED <<running, deployed, script, issued, disturbed>>

(* A node still waiting finds one that its token bootstrapped.             *)
Join ==
  /\ \E m, n \in Nodes :
       /\ running[n] # 0 /\ running[m] = running[n]
       /\ waits[n] # 0 /\ identity[running[n]][m] = waits[n]
       /\ identity' = [identity EXCEPT ![running[n]][n] = waits[n]]
       /\ waits' = [waits EXCEPT ![n] = 0]
  /\ UNCHANGED <<running, deployed, script, issued, disturbed>>

(* A node that gives up waiting, or dies, ends its session.                *)
Crash ==
  /\ \E n \in Nodes :
       /\ running[n] # 0
       /\ running' = [running EXCEPT ![n] = 0]
       /\ waits' = [waits EXCEPT ![n] = 0]
  /\ UNCHANGED <<identity, deployed, script, issued, disturbed>>

Script ==
  \/ Manage \/ Deploy \/ StopNode \/ Stopped \/ WipeNode \/ Wiped
  \/ Check \/ Cleaned \/ MakeToken \/ Launch \/ Launched \/ Fail

Server == Bootstrap \/ Join \/ Crash

Next == Script \/ Server

Spec == Init /\ [][Next]_vars

-----------------------------------------------------------------------------
(* Properties *)

(* Whatever calls failed, and however often scripts were run again, the    *)
(* nodes of a directory never carry two identities, unless a script wiped  *)
(* it under running nodes or destroy -n took one node's data away.  This   *)
(* is why cleanup starts with node1, the node the identity check asks.     *)
IdentitiesAgree ==
  \A d \in Dirs \ disturbed : \A m, n \in Nodes :
    identity[d][m] # 0 /\ identity[d][n] # 0 => identity[d][m] = identity[d][n]

(* A start that ends well has its nodes running from its own directory: a  *)
(* session of an older deployment makes it fail, and does not pass for the *)
(* new one.                                                                *)
StartedFromHere ==
  pc = "idle" /\ exit = "ok" /\ Starts =>
    \A n \in Targets : running[n] \in {0, dir}

(* A start of the whole cluster that ends well leaves nodes that can form  *)
(* it: while none has died, a majority shares an identity or waits with    *)
(* one token.  The token file must have been written.                      *)
FormsQuorum ==
  pc = "idle" /\ exit = "ok" /\ Starts /\ job.node = 0 /\ token # 0
    /\ dir \notin disturbed /\ (\A n \in Nodes : running[n] = dir)
  => \E t \in Tokens : IsMajority({n \in Nodes : t \in {identity[dir][n], waits[n]}})

(* The scripts implement what ClusterIdentity promises: among others that  *)
(* an identity is formed only where none is left of an older cluster, and  *)
(* with a token no other directory's cluster has, although a script that   *)
(* failed leaves directories half cleaned, nodes that wait with its token, *)
(* and the file it wrote that to.                                          *)
Cluster == INSTANCE ClusterIdentity WITH
  None <- 0,
  Founder <- 1,
  Quorums <- Majorities,
  carries <- identity,
  lost <- disturbed

ImplementsCluster == Cluster!Spec

(* The help of manage.sh (line 18): -n operates on the given node only.  A *)
(* script with -n removes no other node's data.                            *)
NodeOptionTouchesItsNode ==
  [][\A d \in Dirs, n \in Nodes :
       identity[d][n] # 0 /\ identity'[d][n] = 0 => job.node \in {0, n}]_vars

=============================================================================
