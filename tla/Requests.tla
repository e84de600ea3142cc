------------------------------ MODULE Requests -------------------------------
(***************************************************************************)
(* What a request goes through, side by side: it is cut out of the stream  *)
(* (QueryBuffer), queued or called under the rules of transactions         *)
(* (Transactions), and a SET, GET or DEL acts on the keyspace (Keyspace).  *)
(* One of the three is exercised in a behaviour.                           *)
(***************************************************************************)
EXTENDS Keyspace, QueryBuffer, Transactions

VARIABLE stage    \* which one

reqvars == <<stage, vars, qbvars, transvars>>

ReqInit == /\ stage \in {"parse", "dispatch", "execute"}
           /\ Init /\ TransactionsInit
           /\ QBInit
           /\ stage # "parse" => script = CHOOSE s \in Scripts : TRUE

\* A connection on which everything has arrived, or that is given up.
Quiet == at = "read" /\ (stream = <<>> \/ q.closing)

ReqNext ==
  \/ stage = "parse" /\ QBNext /\ UNCHANGED <<stage, vars, transvars>>
  \/ stage = "parse" /\ Quiet /\ UNCHANGED reqvars
  \/ stage = "dispatch" /\ TransactionsNext /\ UNCHANGED <<stage, vars, qbvars>>
  \/ stage = "execute" /\ Next /\ UNCHANGED <<stage, qbvars, transvars>>

ReqSpec == ReqInit /\ [][ReqNext]_reqvars
=============================================================================
