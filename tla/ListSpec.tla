------------------------------ MODULE ListSpec -------------------------------
(***************************************************************************)
(* What a list promises its callers: one sequence of values and no nodes,  *)
(* the last call with its arguments, the value it answered, and at most    *)
(* one traversal, of which only what is still ahead matters.               *)
(* QuickList.tla and ZipList.tla are shown to implement it.                *)
(***************************************************************************)
EXTENDS Integers, Sequences

CONSTANTS Values, Nothing, Starts

VARIABLES
  list,     \* the values, head first
  ahead,    \* what the open traversal has still to return, in its order
  trav,     \* [open, forward, current]: current says the last value may be deleted
  call,     \* the last call: its name and where it was asked to act
  answer    \* the value it returned

lsvars == <<list, ahead, trav, call, answer>>

Closed == [open |-> FALSE, forward |-> TRUE, current |-> FALSE]

Backwards(s) == [i \in 1..Len(s) |-> s[Len(s) + 1 - i]]
Cut(s, i, n) == SubSeq(s, 1, i - 1) \o SubSeq(s, i + n, Len(s))
With(s, i, v) == SubSeq(s, 1, i - 1) \o <<v>> \o SubSeq(s, i, Len(s))

\* The position an index names: from the head when it is not negative, from
\* the tail when it is; 0 when there is no such value.
Position(s, idx) == LET i == IF idx >= 0 THEN idx + 1 ELSE Len(s) + 1 + idx
                    IN  IF i \in 1..Len(s) THEN i ELSE 0

\* Where the value the traversal returned last stands in the list.
Here == IF trav.forward THEN Len(list) - Len(ahead) ELSE Len(ahead) + 1

LSInit == /\ list = <<>> /\ ahead = <<>> /\ trav = Closed
          /\ call = <<"new", 0>> /\ answer = Nothing

\* A call made while no traversal is open.
Atomic(f, arg, a) == /\ call' = <<f, arg>>
                     /\ ~trav.open
                     /\ answer' = a
                     /\ UNCHANGED <<ahead, trav>>

Push(where) == /\ Atomic("push", where, Nothing)
               /\ \E v \in Values : list' = IF where = 0 THEN <<v>> \o list ELSE Append(list, v)

AppendMany == /\ Atomic("append", -1, Nothing)
              /\ list = SubSeq(list', 1, Len(list))

Pop(where) == LET i == Position(list, where)
              IN  IF i = 0 THEN Atomic("pop", where, Nothing) /\ UNCHANGED list
                  ELSE Atomic("pop", where, list[i]) /\ list' = Cut(list, i, 1)

Rotate == /\ Atomic("rotate", 0, Nothing)
          /\ list' = IF list = <<>> THEN list
                     ELSE <<list[Len(list)]>> \o SubSeq(list, 1, Len(list) - 1)

Index(idx) == LET i == Position(list, idx)
              IN  /\ Atomic("index", idx, IF i = 0 THEN Nothing ELSE list[i])
                  /\ UNCHANGED list

Replace(idx) == LET i == Position(list, idx)
                IN  /\ Atomic("replace", idx, Nothing)
                    /\ \E v \in Values : list' = IF i = 0 THEN list ELSE [list EXCEPT ![i] = v]

\* n values go from the one idx names on, or as many as there are.
DelRange(idx, n) == LET i == Position(list, idx)
                    IN  /\ Atomic("del", <<idx, n>>, Nothing)
                        /\ list' = IF i = 0 THEN list ELSE Cut(list, i, n)

\* A value goes in before (after = 0) or after (1) the one idx names.
Insert(idx, after) == LET i == Position(list, idx)
                      IN  /\ Atomic("insert", <<idx, after>>, Nothing)
                          /\ i # 0
                          /\ \E v \in Values : list' = With(list, i + after, v)

Dup == Atomic("dup", 0, Nothing) /\ UNCHANGED list
Release == Atomic("new", 0, Nothing) /\ list' = <<>>

\* A traversal from the value idx names to the tail, or back to the head; it
\* is not opened when there is no such value.
Start(forward, idx) ==
  LET i == Position(list, idx)
  IN  /\ call' = <<"start", <<forward, idx>>>>
      /\ ~trav.open
      /\ answer' = Nothing
      /\ trav' = IF i = 0 THEN Closed
                 ELSE [open |-> TRUE, forward |-> forward, current |-> FALSE]
      /\ ahead' = IF i = 0 THEN <<>>
                  ELSE IF forward THEN SubSeq(list, i, Len(list))
                  ELSE Backwards(SubSeq(list, 1, i))
      /\ UNCHANGED list

Step == /\ call' = <<"next", 0>>
        /\ trav.open
        /\ answer' = IF ahead = <<>> THEN Nothing ELSE ahead[1]
        /\ ahead' = IF ahead = <<>> THEN <<>> ELSE Tail(ahead)
        /\ trav' = IF ahead = <<>> THEN Closed ELSE [trav EXCEPT !.current = TRUE]
        /\ UNCHANGED list

\* The value returned last goes; the traversal continues behind it.
DelEntry == /\ call' = <<"delentry", 0>>
            /\ trav.open /\ trav.current
            /\ list' = Cut(list, Here, 1)
            /\ trav' = [trav EXCEPT !.current = FALSE]
            /\ answer' = Nothing
            /\ UNCHANGED ahead

Stop == /\ call' = <<"stop", 0>>
        /\ trav.open
        /\ trav' = Closed /\ ahead' = <<>> /\ answer' = Nothing
        /\ UNCHANGED list

LSNext == \/ \E where \in {0, -1} : Push(where) \/ Pop(where)
          \/ AppendMany \/ Rotate \/ Dup \/ Release \/ Step \/ DelEntry \/ Stop
          \/ \E idx \in Starts : \/ Index(idx) \/ Replace(idx)
                                 \/ \E n \in Starts : DelRange(idx, n)
                                 \/ \E after \in {0, 1} : Insert(idx, after)
                                 \/ \E forward \in BOOLEAN : Start(forward, idx)

LSSpec == LSInit /\ [][LSNext]_lsvars
=============================================================================
