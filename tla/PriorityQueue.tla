---------------------------- MODULE PriorityQueue ----------------------------
(***************************************************************************)
(* What a heap promises to the trade controller: a set of nodes, of which  *)
(* the best one (by price, then by age) can be looked at, removed or have  *)
(* its amount changed.  A command takes effect in one step between its     *)
(* call and its return.                                                    *)
(***************************************************************************)
EXTENDS Integers

CONSTANTS
  Precedes(_, _),   \* Precedes(a, b): a is to leave the queue before b
  NoNode            \* no argument, no answer

VARIABLES
  queue,     \* the nodes
  pending,   \* "none", the command called but not yet executed, or "done"
  arg,       \* its argument
  answer     \* what a POP or PEEK that is done answers

pqVars == <<queue, pending, arg, answer>>

\* The node no other one precedes.
First == CHOOSE n \in queue : \A m \in queue \ {n} : Precedes(n, m)

SameKeys(a, b) == a.price = b.price /\ a.ts = b.ts

Init == queue = {} /\ pending = "none" /\ arg = NoNode /\ answer = NoNode

Call(op) ==
  /\ pending = "none"
  /\ pending' = op
  /\ (arg' = NoNode) <=> (op \in {"OP_POP", "OP_PEEK"})
  /\ UNCHANGED <<queue, answer>>

Push ==
  /\ pending = "OP_PUSH"
  /\ queue' = queue \cup {arg}
  /\ pending' = "done"
  /\ UNCHANGED <<arg, answer>>

\* A POP or PEEK of an empty queue changes nothing and may answer anything.
Pop ==
  /\ pending = "OP_POP"
  /\ queue # {} => answer' = First
  /\ queue' = IF queue = {} THEN {} ELSE queue \ {First}
  /\ pending' = "done"
  /\ UNCHANGED arg

Peek ==
  /\ pending \in {"none", "OP_PEEK"}
  /\ queue # {} => answer' = First
  /\ pending' = "done"
  /\ UNCHANGED <<queue, arg>>

Update ==
  /\ pending = "OP_UPDATE"
  /\ SameKeys(arg, First)
  /\ queue' = (queue \ {First}) \cup {arg}
  /\ pending' = "done"
  /\ UNCHANGED <<arg, answer>>

\* An update that is not for the first node is refused when it is called.
RefuseUpdate ==
  /\ pending = "none"
  /\ arg' # NoNode /\ ~SameKeys(arg', First)
  /\ pending' = "done"
  /\ UNCHANGED <<queue, answer>>

Return ==
  /\ pending = "done"
  /\ pending' = "none" /\ arg' = NoNode /\ answer' = NoNode
  /\ UNCHANGED queue

Reset == queue' = {} /\ pending' = "none" /\ arg' = NoNode /\ answer' = NoNode

Next ==
  \/ \E op \in {"OP_PUSH", "OP_POP", "OP_PEEK", "OP_UPDATE"} : Call(op)
  \/ Push \/ Pop \/ Peek \/ Update \/ RefuseUpdate \/ Return \/ Reset

Spec == Init /\ [][Next]_pqVars
=============================================================================
