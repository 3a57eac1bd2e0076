------------------------------ MODULE SpecTree ------------------------------
(***************************************************************************)
(* Tree speculative decoding for one request: build_dynamic_tree turns the *)
(* parents of a draft tree into first-child and next-sibling pointers, and *)
(* spec_verify_tree walks the tree from the root, accepts drafts with the  *)
(* probability the target model gives them, and ends with one token drawn  *)
(* from what the target has left.                                          *)
(*                                                                         *)
(* The lanes of the simdgroup share the nodes out.  Here each node is a    *)
(* thread of its own, which allows every order the lanes can produce.  The *)
(* walk is lane 0's alone.                                                 *)
(*                                                                         *)
(* A probability is a number of grains out of Mass, and the uniform coin,  *)
(* 24 bits in the code, is one of 0 .. Mass-1.  Drawing a token by Gumbel  *)
(* noise is a free choice among the tokens of positive probability.        *)
(***************************************************************************)
EXTENDS Integers, Sequences, FiniteSets, Functions

CONSTANTS
  TreeNodes,  \* nodes of the tree; node 0 is the root, the last accepted token
  TreeV,      \* tokens
  Mass,       \* grains of probability
  TreeInputs  \* [parents, draft, prob, tree_valid]

Node      == 0 .. TreeNodes-1
TreeToken == 0 .. TreeV-1
TreeCoin  == 0 .. Mass-1
NoNode    == -1

\* Parents come before their children; node 0 alone has none.
Topological(p) ==
  /\ p \in [Node -> {NoNode} \cup Node]
  /\ p[0] = NoNode /\ \A c \in 1 .. TreeNodes-1 : p[c] \in 0 .. c-1

\* The probabilities of a node are all of the mass.
TreeAssumption ==
  /\ {TreeNodes, TreeV, Mass} \subseteq Nat \ {0}
  /\ \A x \in TreeInputs :
       /\ Topological(x.parents)
       /\ x.draft \in [1 .. TreeNodes-1 -> TreeToken]
       /\ x.prob \in [Node -> [TreeToken -> 0 .. Mass]]
       /\ \A n \in Node : SumFunctionOnSet(x.prob[n], TreeToken) = Mass
       /\ x.tree_valid \in BOOLEAN

VARIABLES
  parents, tree_draft, prob, tree_valid,  \* inputs
  retrieve_next_token,                \* first child of each node
  retrieve_next_sibling,
  tree_positions,                     \* depth of each node
  cleared, built,                     \* nodes the lanes are done with
  filled,                             \* nodes whose outputs hold sentinels
  accept_index, accept_token, accept_num,
  j, last, num_acc, term,             \* registers of lane 0
  tree_pc                             \* what lane 0 does next

tree_input    == <<parents, tree_draft, prob, tree_valid>>
tree_pointers == <<retrieve_next_token, retrieve_next_sibling, tree_positions, cleared, built>>
walk          == <<j, last, num_acc, term>>
accepted      == <<accept_index, accept_token, accept_num>>
treeVars      == <<tree_input, tree_pointers, filled, accepted, walk, tree_pc>>

\* What freshly allocated memory holds: no pointer, position or token.
Unset == -7

TreeInit ==
  /\ \E x \in TreeInputs : /\ parents = x.parents /\ tree_draft = x.draft
                           /\ prob = x.prob /\ tree_valid = x.tree_valid
  /\ retrieve_next_token = [c \in Node |-> Unset]
  /\ retrieve_next_sibling = [c \in Node |-> Unset]
  /\ tree_positions = [c \in Node |-> Unset]
  /\ cleared = {} /\ built = {} /\ filled = {}
  /\ accept_index = [i \in Node |-> Unset]
  /\ accept_token = [i \in Node |-> Unset]
  /\ accept_num = Unset
  /\ j = 1 /\ last = 0 /\ num_acc = 0 /\ term = "none" /\ tree_pc = "begin"

ClearNode(c) ==
  /\ c \notin cleared
  /\ retrieve_next_token' = [retrieve_next_token EXCEPT ![c] = NoNode]
  /\ retrieve_next_sibling' = [retrieve_next_sibling EXCEPT ![c] = NoNode]
  /\ cleared' = cleared \cup {c}
  /\ UNCHANGED <<tree_input, tree_positions, built, filled, accepted, walk, tree_pc>>

\* Faulty variant: no barrier after the clearing.
AllClearedUnchecked == TRUE

\* simdgroup_barrier after the clearing.
AllCleared == cleared = Node

\* The nearest of nodes S, None if there is none.
Nearest(S) == IF S = {} THEN NoNode ELSE CHOOSE c \in S : \A d \in S : c <= d

\* The number of ancestors of c.
Depth(c) ==
  LET up[x \in Node] == IF parents[x] < 0 THEN 0 ELSE 1 + up[parents[x]] IN up[c]

(***************************************************************************)
(* A lane's turn for node c.  It writes c's own sibling pointer, and its   *)
(* parent's child pointer if c is the first child: no two nodes write one  *)
(* word.                                                                   *)
(***************************************************************************)
BuildNode(c) ==
  /\ AllCleared
  /\ c \in cleared \ built
  /\ tree_positions' = [tree_positions EXCEPT ![c] = Depth(c)]
  /\ LET p       == parents[c]
         later   == {d \in c+1 .. TreeNodes-1 : parents[d] = p}
         earlier == {d \in 1 .. c-1 : parents[d] = p}
     IN  IF p < 0
         THEN UNCHANGED <<retrieve_next_token, retrieve_next_sibling>>
         ELSE /\ retrieve_next_sibling' =
                   [retrieve_next_sibling EXCEPT ![c] = Nearest(later)]
              /\ retrieve_next_token' =
                   IF earlier = {} THEN [retrieve_next_token EXCEPT ![p] = c]
                                   ELSE retrieve_next_token
  /\ built' = built \cup {c}
  /\ UNCHANGED <<tree_input, cleared, filled, accepted, walk, tree_pc>>

(***************************************************************************)
(* spec_verify_tree is the next dispatch.  Its lanes fill the outputs with *)
(* sentinels.                                                              *)
(***************************************************************************)
FillOutput(i) ==
  /\ built = Node /\ cleared = Node
  /\ i \notin filled
  /\ accept_index' = [accept_index EXCEPT ![i] = NoNode]
  /\ accept_token' = [accept_token EXCEPT ![i] = NoNode]
  /\ filled' = filled \cup {i}
  /\ UNCHANGED <<tree_input, tree_pointers, accept_num, walk, tree_pc>>

\* Faulty variant: lane 0 does not wait for the sentinels.
AllFilledUnchecked == built = Node

\* simdgroup_barrier after the filling.
AllFilled == filled = Node

(***************************************************************************)
(* Lane 0 enters the root; a request without a tree goes straight to a     *)
(* sample of the target at the root.                                       *)
(***************************************************************************)
EnterRoot ==
  /\ tree_pc = "begin" /\ AllFilled
  /\ accept_index' = [accept_index EXCEPT ![0] = 0]
  /\ IF tree_valid THEN tree_pc' = "walk" /\ UNCHANGED term
                   ELSE tree_pc' = "terminal" /\ term' = "bonus"
  /\ UNCHANGED <<tree_input, tree_pointers, filled, accept_token, accept_num, j, last, num_acc>>

\* The siblings from child c on, along the pointers.
Siblings(c) ==
  LET chain[d \in {NoNode} \cup Node] ==
        IF d = NoNode THEN <<>> ELSE <<d>> \o chain[retrieve_next_sibling[d]]
  IN  chain[c]

\* Faulty variant: a sibling's probability is not added to its elders'.
AcceptedChildAlone(coin) ==
  LET kids == Siblings(retrieve_next_token[last])
      hit  == {i \in DOMAIN kids : coin <= prob[last][tree_draft[kids[i]]]}
  IN  IF hit = {} THEN NoNode ELSE kids[Nearest(hit)]

(***************************************************************************)
(* The first child of `last` at which the probabilities of the children so *)
(* far reach the coin, None if they never do.                              *)
(***************************************************************************)
AcceptedChild(coin) ==
  LET kids == Siblings(retrieve_next_token[last])
      probAcc[i \in 0 .. Len(kids)] ==
        IF i = 0 THEN 0 ELSE probAcc[i-1] + prob[last][tree_draft[kids[i]]]
      hit  == {i \in DOMAIN kids : coin <= probAcc[i]}
  IN  IF hit = {} THEN NoNode ELSE kids[Nearest(hit)]

(***************************************************************************)
(* One turn of the loop over depths.  At a leaf the bonus token follows,   *)
(* after a rejection of all children a token of the residual.              *)
(***************************************************************************)
Descend ==
  /\ tree_pc = "walk" /\ j < TreeNodes
  /\ IF retrieve_next_token[last] = NoNode
     THEN /\ term' = "bonus" /\ tree_pc' = "terminal"
          /\ UNCHANGED <<accepted, j, last, num_acc>>
     ELSE \E coin \in TreeCoin :
            LET child == AcceptedChild(coin)
            IN  IF child = NoNode
                THEN /\ term' = "residual" /\ tree_pc' = "terminal"
                     /\ UNCHANGED <<accepted, j, last, num_acc>>
                ELSE /\ accept_token' = [accept_token EXCEPT ![num_acc] = tree_draft[child]]
                     /\ accept_index' = [accept_index EXCEPT ![num_acc + 1] = child]
                     /\ num_acc' = num_acc + 1 /\ last' = child /\ j' = j + 1
                     /\ UNCHANGED <<accept_num, term, tree_pc>>
  /\ UNCHANGED <<tree_input, tree_pointers, filled>>

\* The loop is over: every node but the root has had its turn.
LeaveLoop ==
  /\ tree_pc = "walk" /\ j >= TreeNodes
  /\ tree_pc' = "terminal"
  /\ UNCHANGED <<tree_input, tree_pointers, filled, accepted, walk>>

\* The tokens of the rejected children, found along the pointers again.
Tried ==
  IF term = "residual"
  THEN LET kids == Siblings(retrieve_next_token[last])
       IN  {tree_draft[kids[i]] : i \in DOMAIN kids}
  ELSE {}

(***************************************************************************)
(* All lanes draw the last token together, from the target at `last`       *)
(* without the tokens tried; lane 0 stores it and the count.               *)
(***************************************************************************)
EmitLast ==
  /\ tree_pc = "terminal"
  /\ LET left == {v \in TreeToken : prob[last][v] > 0} \ Tried
     IN  IF term = "none"
         THEN UNCHANGED accept_token
         ELSE \E v \in IF left = {} THEN {NoNode} ELSE left :
                accept_token' = [accept_token EXCEPT ![num_acc] = v]
  /\ accept_num' = num_acc
  /\ tree_pc' = "done"
  /\ UNCHANGED <<tree_input, tree_pointers, filled, accept_index, walk>>

TreeNext ==
  \/ \E c \in Node : ClearNode(c) \/ BuildNode(c) \/ FillOutput(c)
  \/ EnterRoot \/ Descend \/ LeaveLoop \/ EmitLast

TreeSpec == TreeInit /\ [][TreeNext]_treeVars
-----------------------------------------------------------------------------
(***************************************************************************)
(* spec_build_tree_pointers, the host's builder, which appends the nodes   *)
(* one by one to their parents' lists.                                     *)
(***************************************************************************)
HostPointers ==
  LET start == [tok |-> [c \in Node |-> NoNode], sib |-> [c \in Node |-> NoNode],
                tail |-> [c \in Node |-> NoNode]]
      add(h, c) ==
        LET p == parents[c]
        IN  [tok  |-> IF h.tail[p] < 0 THEN [h.tok EXCEPT ![p] = c] ELSE h.tok,
             sib  |-> IF h.tail[p] < 0 THEN h.sib ELSE [h.sib EXCEPT ![h.tail[p]] = c],
             tail |-> [h.tail EXCEPT ![p] = c]]
      build[c \in Node] == IF c = 0 THEN start ELSE add(build[c-1], c)
  IN  build[TreeNodes-1]

(***************************************************************************)
(* The lanes, each looking at the parents alone and in any order, build    *)
(* the pointers the host builds by appending; a node's position is one     *)
(* more than its parent's, and the root's is 0.                            *)
(***************************************************************************)
PointersMatchHost ==
  built = Node =>
    /\ retrieve_next_token = HostPointers.tok
    /\ retrieve_next_sibling = HostPointers.sib
    /\ tree_positions[0] = 0
    /\ \A c \in 1 .. TreeNodes-1 : tree_positions[c] = tree_positions[parents[c]] + 1

(***************************************************************************)
(* What a request returns is a path of the tree from the root, with the    *)
(* draft tokens along it, and sentinels behind the last token.             *)
(***************************************************************************)
AcceptedPath ==
  tree_pc = "done" =>
    /\ accept_index[0] = 0
    /\ \A i \in 1 .. accept_num :
         /\ accept_index[i] \in 1 .. TreeNodes-1
         /\ parents[accept_index[i]] = accept_index[i-1]
         /\ accept_token[i-1] = tree_draft[accept_index[i]]
    /\ \A i \in accept_num+1 .. TreeNodes-1 : accept_index[i] = NoNode /\ accept_token[i] = NoNode

(***************************************************************************)
(* The last token is one the target can produce after the path, and not    *)
(* one of the drafts that were offered there and rejected; only a tree     *)
(* that is a single chain, accepted in full, ends without it.              *)
(***************************************************************************)
CorrectionOfTarget ==
  tree_pc = "done" =>
    LET tok     == accept_token[accept_num]
        end     == accept_index[accept_num]
        offered == {tree_draft[c] : c \in {d \in 1 .. TreeNodes-1 : parents[d] = end}}
    IN  IF tok = NoNode THEN accept_num = TreeNodes-1
        ELSE prob[end][tok] > 0 /\ (tree_valid => tok \notin offered)

(***************************************************************************)
(* At every node of the walk a child is accepted for as many coins as its  *)
(* token has grains, but for the one grain by which <= differs from <: the *)
(* drafts are accepted with the target's own probability.                  *)
(***************************************************************************)
AcceptanceOfTarget ==
  tree_pc = "walk" =>
    LET kids == {c \in 1 .. TreeNodes-1 : parents[c] = last}
        coins(c) == Cardinality({coin \in TreeCoin : AcceptedChild(coin) = c})
    IN  (\A c, d \in kids : tree_draft[c] = tree_draft[d] => c = d) =>
          \A c \in kids : coins(c) - prob[last][tree_draft[c]] \in {-1, 0, 1}

(***************************************************************************)
(* What a walk down the tree emits is distributed as the target's tokens:  *)
(* by how it accepts and by what it emits at its end.                      *)
(***************************************************************************)
TreeFollowsTarget == CorrectionOfTarget /\ AcceptanceOfTarget

(***************************************************************************)
(* "at a leaf, emit the bonus token sampled from the full target at the    *)
(* last node" (comment on spec_verify_tree).  The code emits none after a  *)
(* chain of N-1 accepted drafts: its loop ends before it sees the leaf.    *)
(***************************************************************************)
BonusAtLeaf ==
  tree_pc = "done" /\ retrieve_next_token[last] = NoNode => accept_token[accept_num] # NoNode
=============================================================================
