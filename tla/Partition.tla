----------------------------- MODULE Partition -----------------------------
(***************************************************************************)
(* What ygm::container::disjoint_set promises: the sets are those that the *)
(* unions asked for have joined, each union ends having joined two sets or *)
(* having found its items in one, and nothing else changes a set.          *)
(***************************************************************************)
CONSTANTS Items, Calls

VARIABLES
  classes,  \* the sets, a partition of Items
  verdict   \* of each union: "none", "open" once called, "joined" or "same"

Class(i) == CHOOSE S \in classes : i \in S

Set(c, old, new) == verdict[c] = old /\ verdict' = [verdict EXCEPT ![c] = new]

\* Earlier unions have made some sets.
Init ==
  /\ UNION classes = Items /\ {} \notin classes
  /\ \A S, T \in classes : S = T \/ S \cap T = {}
  /\ verdict = [c \in Calls |-> "none"]

\* The union c is called.
Ask(c) == Set(c, "none", "open") /\ UNCHANGED classes

\* c joins the sets of its items ...
Join(c) ==
  /\ Set(c, "open", "joined") /\ Class(c.a) # Class(c.b)
  /\ classes' = (classes \ {Class(c.a), Class(c.b)}) \cup {Class(c.a) \cup Class(c.b)}

\* ... or finds them in one set.
Same(c) == Set(c, "open", "same") /\ Class(c.a) = Class(c.b) /\ UNCHANGED classes

\* All unions are over and the sets are dissolved.
Clear ==
  /\ \A c \in Calls : verdict[c] # "open"
  /\ classes' = {{i} : i \in Items}
  /\ UNCHANGED verdict

Next == (\E c \in Calls : Ask(c) \/ Join(c) \/ Same(c)) \/ Clear

Spec == Init /\ [][Next]_<<classes, verdict>>
=============================================================================
