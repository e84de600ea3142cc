---------------------------- MODULE MCNetworking -----------------------------
EXTENDS Networking

\* A string the reply list owns, one that is also in the database and has spare
\* room there, and one embedded in its object.
Raw(n) == [len |-> n, kind |-> RAW, alloc |-> n]
Value(n) == [len |-> n, kind |-> SHARED, alloc |-> n + 1]
Emb(n) == [len |-> n, kind |-> EMBSTR, alloc |-> n]

\* With a static buffer and chunks of two bytes: a reply that fits, one that
\* spills to the list (with an empty element in the middle), one whose length
\* is filled in last and whose first element is a value of the database, and the
\* requests that end a connection.
StreamRequest ==
  { [kind |-> "command",   reply |-> <<Raw(1)>>],
    [kind |-> "command",   reply |-> <<Emb(1), Emb(0), Raw(3)>>],
    [kind |-> "multibulk", reply |-> <<Value(1), Raw(1)>>],
    [kind |-> "quit",      reply |-> <<Raw(1)>>],
    [kind |-> "bad",       reply |-> <<Raw(1)>>],
    [kind |-> "empty",     reply |-> <<>>] }

\* For the life of several clients: a reply the socket cannot take at once,
\* and a request that ends the connection.
LifeRequest ==
  { [kind |-> "command", reply |-> <<Raw(1), Raw(1)>>],
    [kind |-> "quit",    reply |-> <<Raw(1)>>] }

\* No definition tells two clients apart when none is remote.
ClientSymmetry == Permutations(Client)
=============================================================================
