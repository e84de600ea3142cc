------------------------------ MODULE FiniteMap ------------------------------
(***************************************************************************)
(* What a dictionary promises its callers, with no tables in it: a finite  *)
(* set of bindings, at most one per key, and the last call with its answer.  *)
(* Dict.tla is shown to implement this specification.                      *)
(***************************************************************************)
CONSTANTS Key, Val

VARIABLES
  bindings,   \* the entries: records [key, val]
  call,       \* the last call, with its arguments
  ret         \* its answer: [ok, found]

fmvars == <<bindings, call, ret>>

BindingsOf(k) == {b \in bindings : b.key = k}
Bind(k, v) == [key |-> k, val |-> v]
Answer(ok, found) == [ok |-> ok, found |-> found]

Init == bindings = {} /\ call = <<"clear">> /\ ret = Answer(TRUE, {})

\* Insert a new binding; refused when the key is bound.
Add(k, v) ==
  /\ call' = <<"add", k, v>>
  /\ ret' = Answer(BindingsOf(k) = {}, {})
  /\ bindings' = IF BindingsOf(k) = {} THEN bindings \cup {Bind(k, v)} ELSE bindings

\* Bind the key to v, whether it was bound or not; says whether it was new.
Replace(k, v) ==
  /\ call' = <<"replace", k, v>>
  /\ ret' = Answer(BindingsOf(k) = {}, {})
  /\ bindings' = (bindings \ BindingsOf(k)) \cup {Bind(k, v)}

Delete(k) ==
  /\ call' = <<"delete", k>>
  /\ ret' = Answer(BindingsOf(k) # {}, {})
  /\ bindings' = bindings \ BindingsOf(k)

Find(k) ==
  /\ call' = <<"find", k>>
  /\ ret' = Answer(BindingsOf(k) # {}, BindingsOf(k))
  /\ UNCHANGED bindings

\* One of the bindings is drawn whenever there is one.
RandomKey ==
  /\ call' = <<"random">>
  /\ IF bindings = {} THEN ret' = Answer(FALSE, {})
     ELSE \E b \in bindings : ret' = Answer(TRUE, {b})
  /\ UNCHANGED bindings

Clear ==
  /\ call' = <<"clear">>
  /\ ret' = Answer(TRUE, {})
  /\ bindings' = {}

Next ==
  \/ \E k \in Key, v \in Val : Add(k, v) \/ Replace(k, v)
  \/ \E k \in Key : Delete(k) \/ Find(k)
  \/ RandomKey
  \/ Clear

Spec == Init /\ [][Next]_fmvars
=============================================================================
