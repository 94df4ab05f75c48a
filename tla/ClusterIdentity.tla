--------------------------- MODULE ClusterIdentity ---------------------------
(***************************************************************************)
(* What the deployment scripts promise about the identities of clusters.   *)
(* A directory carries one cluster at a time.  A quorum of its nodes forms *)
(* it at once, out of a directory no node of which carries an identity and *)
(* with one that no directory carries; the other nodes join it while a     *)
(* quorum carries it.  It is taken apart beginning with the founder, the   *)
(* node that is asked whether there is a cluster.  Of a directory that is  *)
(* lost, only that it takes no other directory's identity.                 *)
(***************************************************************************)

CONSTANTS
  Nodes, Dirs,
  Tokens,        (* What a cluster may be identified by.                    *)
  None,          (* Not a token: what a node without an identity carries.   *)
  Founder,       (* The node that is asked for the identity.                *)
  Quorums        (* Sets of nodes.                                          *)

VARIABLES
  carries,       (* Identity each node of a directory carries, or None.     *)
  lost           (* Directories in which nodes may disagree.                *)

vars == <<carries, lost>>

Carriers(d) == {n \in Nodes : carries[d][n] # None}
Stands(d) == \E Q \in Quorums : Q \subseteq Carriers(d)
Elsewhere(d, t) == \E e \in Dirs \ {d}, n \in Nodes : carries[e][n] = t

Init ==
  /\ carries = [d \in Dirs |-> [n \in Nodes |-> None]]
  /\ lost = {}

Form(d, t) ==
  /\ d \notin lost
  /\ Carriers(d) = {}
  /\ ~Elsewhere(d, t)
  /\ \E Q \in Quorums :
       carries' = [carries EXCEPT ![d] = [n \in Nodes |-> IF n \in Q THEN t ELSE None]]
  /\ UNCHANGED lost

Join(d, n) ==
  /\ d \notin lost
  /\ carries[d][n] = None
  /\ \E m \in Carriers(d) : carries' = [carries EXCEPT ![d][n] = carries[d][m]]
  /\ Stands(d)
  /\ UNCHANGED lost

Erase(d, n) ==
  /\ d \notin lost
  /\ n \in Carriers(d)
  /\ Founder \in Carriers(d) => n = Founder
  /\ carries' = [carries EXCEPT ![d][n] = None]
  /\ UNCHANGED lost

Lose(d) ==
  /\ lost' = lost \union {d}
  /\ \A e \in Dirs \ {d} : carries'[e] = carries[e]
  /\ carries' \in [Dirs -> [Nodes -> Tokens \union {None}]]
  /\ \A n \in Nodes : carries'[d][n] # None => ~Elsewhere(d, carries'[d][n])

Next ==
  \E d \in Dirs :
    \/ \E t \in Tokens : Form(d, t)
    \/ \E n \in Nodes : Join(d, n) \/ Erase(d, n)
    \/ Lose(d)

Spec == Init /\ [][Next]_vars
=============================================================================
