----------------------------- MODULE MCRequests ------------------------------
EXTENDS Requests

(* The parser. *)

\* Arguments of no, one, three (big) and four (big) bytes, one of them with
\* bytes the protocol uses.
Multi(args) == [form |-> "multibulk", args |-> args]
Negative == [form |-> "negative", args |-> <<>>]
Inline(args) == [form |-> "inline", args |-> args]
Malformed(bytes) == [form |-> "malformed", args |-> bytes]

Small == <<"a">>
Tricky == <<"CR", "LF">>
Big == <<"a", "b", "CR", "*">>
MCWellformed ==
  { Multi(<<Small>>), Multi(<<Small, <<>>, Tricky>>), Multi(<<Big, Small>>), Multi(<<Small, Big>>),
    Multi(<<>>), Negative, Inline(<<Small, Small>>), Inline(<<>>) }
MCMalformed ==
  { Malformed(<<"*", "x", "CR", "LF">>),
    Malformed(<<"*", "1", "CR", "LF", "x", "1", "CR", "LF">>),
    Malformed(<<"*", "1", "CR", "LF", "$", "x", "CR", "LF">>),
    Malformed(<<"*", "1", "CR", "LF", "$", "-", "1", "CR", "LF">>),
    Malformed(<<"*", "1", "1", "1", "1", "1", "1", "1", "1", "1">>),
    Malformed(<<"*", "1", "CR", "LF", "$", "1", "1", "1", "1", "1", "1", "1", "1">>),
    Malformed(<<"QUOTE", "x", "CR", "LF">>),
    Malformed(<<"x", "x", "x", "x", "x", "x", "x", "x", "x">>) }

\* A line that ends with LF alone.
Line(args) == [form |-> "line", args |-> args]

\* Two requests, the second possibly malformed or ended by LF alone; three
\* small ones.
MCScripts ==
  {<<r, s>> : r \in MCWellformed, s \in MCWellformed \cup MCMalformed \cup {Line(<<Small>>)}}
  \cup {<<Inline(<<Small>>), r, Multi(<<Small>>)>> : r \in MCWellformed}

(* Transactions. *)

\* One key, and one key named twice.
MCArguments == {<<"a">>, <<"a", "a">>}

\* Only Transactions mentions clients, and it tells none apart.
ClientSymmetry == Permutations(Client)

(* The keyspace. *)

\* DEL of one key, of two, and of one key named twice.
MCDelLists == {<<"a">>, <<"a", "b">>, <<"b", "b">>}
MCTimes == {0, 1, 30}
=============================================================================
