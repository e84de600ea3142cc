----------------------------- MODULE IntegerSet ------------------------------
(***************************************************************************)
(* What an intset promises: a set of integers that can be read in order.   *)
(***************************************************************************)
EXTENDS Integers, FiniteSets

CONSTANTS Members, Positions

VARIABLES members, call, answer

setvars == <<members, call, answer>>

Replies(f, arg, ok, v) == call' = <<f, arg>> /\ answer' = [ok |-> ok, value |-> v]

SetInit == members = {} /\ call = <<"new", 0>> /\ answer = [ok |-> TRUE, value |-> 0]

Add(v) == Replies("add", v, v \notin members, 0) /\ members' = members \cup {v}
Remove(v) == Replies("remove", v, v \in members, 0) /\ members' = members \ {v}
Find(v) == Replies("find", v, v \in members, 0) /\ UNCHANGED members

\* The value that pos members are smaller than.
Get(pos) == /\ UNCHANGED members
            /\ \/ /\ pos >= Cardinality(members)
                  /\ Replies("get", pos, FALSE, 0)
               \/ \E v \in members : /\ Cardinality({m \in members : m < v}) = pos
                                     /\ Replies("get", pos, TRUE, v)

Random == UNCHANGED members /\ \E v \in members : Replies("random", 0, TRUE, v)

SetNext == \/ \E v \in Members : Add(v) \/ Remove(v) \/ Find(v)
           \/ \E pos \in Positions : Get(pos)
           \/ Random

SetSpec == SetInit /\ [][SetNext]_setvars
=============================================================================
