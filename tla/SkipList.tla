------------------------------ MODULE SkipList -------------------------------
(***************************************************************************)
(* The skip list of t_zset.c.  A node is named by the object it holds,     *)
(* which its callers insert at most once (they look it up in the sorted    *)
(* set's hash table first); HEADER names the header.  Objects are integers *)
(* here, in the order compareStringObjects gives them.                     *)
(***************************************************************************)
EXTENDS Integers, Sequences, FiniteSets, FiniteSetsExt

CONSTANTS
  Objs,                 \* the objects: a finite set of positive integers
  Scores,
  ZSKIPLIST_MAXLEVEL,   \* 32
  Bounds                \* the ends of the score ranges asked for

ASSUME ObjsAssumption == Objs \subseteq Nat \ {0}
ASSUME MaxLevelAssumption == ZSKIPLIST_MAXLEVEL \in Nat \ {0}

VARIABLES
  zsl,     \* [level, length, tail, node]; node: name -> [score, backward, level]
  zslRet   \* what the last call returned

slvars == <<zsl, zslRet>>

HEADER == 0
NIL == -1    \* the NULL of forward and backward pointers

NilLevels(n) == [i \in 1..n |-> [forward |-> NIL, span |-> 0]]

zslCreate ==
  [level |-> 1, length |-> 0, tail |-> NIL,
   node |-> [x \in {HEADER} |-> [score |-> 0, backward |-> NIL, level |-> NilLevels(ZSKIPLIST_MAXLEVEL)]]]

Forward(z, x, i) == z.node[x].level[i].forward
Span(z, x, i) == z.node[x].level[i].span

\* Follow the forward pointers of level i from x while the node ahead
\* is in skip: the node reached, and the spans crossed on the way.
Walk(z, x, i, skip) ==
  LET to[y \in DOMAIN z.node] ==
        IF Forward(z, y, i) \in skip THEN to[Forward(z, y, i)] ELSE y
  IN  to[x]
Crossed(z, x, i, skip) ==
  LET sum[y \in DOMAIN z.node] ==
        IF Forward(z, y, i) \in skip THEN Span(z, y, i) + sum[Forward(z, y, i)] ELSE 0
  IN  sum[x]

\* From the header at the top level down to level i: the node reached and the
\* rank it has.
Descend(z, i, skip) ==
  LET at[k \in i..z.level] ==
        LET from == IF k = z.level THEN [x |-> HEADER, rank |-> 0] ELSE at[k + 1]
        IN  [x |-> Walk(z, from.x, k, skip), rank |-> from.rank + Crossed(z, from.x, k, skip)]
  IN  at[i]

\* Nodes before the place of (score, obj).
Before(z, score, obj) ==
  {y \in DOMAIN z.node : z.node[y].score < score \/ (z.node[y].score = score /\ y < obj)}

\* Fault: a level the new node does not reach keeps its span.
SpanKept(l) == l

\* A level the new node does not reach crosses it.
SpanGrown(l) == [l EXCEPT !.span = @ + 1]

\* zslInsert, with the level zslRandomLevel chose.
zslInsert(z, score, obj, level) ==
  LET less == Before(z, score, obj)
      top == Max({z.level, level})
      update == [i \in 1..top |-> IF i <= z.level THEN Descend(z, i, less).x ELSE HEADER]
      rank == [i \in 1..top |-> IF i <= z.level THEN Descend(z, i, less).rank ELSE 0]
      spanAt(i) == IF i <= z.level THEN Span(z, update[i], i) ELSE z.length
      x == [score |-> score,
            backward |-> IF update[1] = HEADER THEN NIL ELSE update[1],
            level |-> [i \in 1..level |-> [forward |-> Forward(z, update[i], i),
                                           span |-> spanAt(i) - (rank[1] - rank[i])]]]
      relinked(y, i) ==
        IF i > top \/ update[i] # y THEN z.node[y].level[i]
        ELSE IF i <= level THEN [forward |-> obj, span |-> rank[1] - rank[i] + 1]
        ELSE SpanGrown(z.node[y].level[i])
      next == x.level[1].forward
      old(y) == [z.node[y] EXCEPT !.level = [i \in DOMAIN @ |-> relinked(y, i)],
                                  !.backward = IF y = next THEN obj ELSE @]
  IN  [level |-> top, length |-> z.length + 1,
       tail |-> IF next = NIL THEN obj ELSE z.tail,
       node |-> [y \in DOMAIN z.node \cup {obj} |-> IF y = obj THEN x ELSE old(y)]]

\* The levels that are empty now are given up, the first one excepted.
LoweredLevel(level, node) == Max({1} \cup {i \in 1..level : node[HEADER].level[i].forward # NIL})

\* zslDeleteNode on the node x found by zslDelete.
zslDeleteNode(z, x, update) ==
  LET n == z.node[x]
      relinked(y, i) ==
        LET l == z.node[y].level[i]
        IN  IF i > z.level \/ update[i] # y THEN l
            ELSE IF l.forward = x THEN [forward |-> n.level[i].forward, span |-> l.span + n.level[i].span - 1]
            ELSE [l EXCEPT !.span = @ - 1]
      next == n.level[1].forward
      kept(y) == [z.node[y] EXCEPT !.level = [i \in DOMAIN @ |-> relinked(y, i)],
                                   !.backward = IF y = next THEN n.backward ELSE @]
      node == [y \in DOMAIN z.node \ {x} |-> kept(y)]
  IN  [level |-> LoweredLevel(z.level, node),
       length |-> z.length - 1,
       tail |-> IF next = NIL THEN n.backward ELSE z.tail,
       node |-> node]

\* Fault: the node is taken for its score alone.
FoundByScore(z, score, obj) ==
  LET less == Before(z, score, obj)
      x == Forward(z, Descend(z, 1, less).x, 1)
  IN  IF x # NIL /\ z.node[x].score = score THEN x ELSE NIL

\* The node zslDelete finds for (score, obj): NIL when there is none.
FoundNode(z, score, obj) ==
  LET less == Before(z, score, obj)
      x == Forward(z, Descend(z, 1, less).x, 1)
  IN  IF x # NIL /\ z.node[x].score = score /\ x = obj THEN x ELSE NIL

zslDelete(z, score, obj) ==
  LET less == Before(z, score, obj)
      x == FoundNode(z, score, obj)
  IN  IF x = NIL THEN z
      ELSE zslDeleteNode(z, x, [i \in 1..z.level |-> Descend(z, i, less).x])

\* Score ranges: [min, max, minex, maxex].
zslValueGteMin(value, r) == IF r.minex THEN value > r.min ELSE value >= r.min
zslValueLteMax(value, r) == IF r.maxex THEN value < r.max ELSE value <= r.max

zslIsInRange(z, r) ==
  /\ ~(r.min > r.max \/ (r.min = r.max /\ (r.minex \/ r.maxex)))
  /\ z.tail # NIL /\ zslValueGteMin(z.node[z.tail].score, r)
  /\ Forward(z, HEADER, 1) # NIL /\ zslValueLteMax(z.node[Forward(z, HEADER, 1)].score, r)

zslFirstInRange(z, r) ==
  LET out == {y \in DOMAIN z.node : ~zslValueGteMin(z.node[y].score, r)}
      x == Forward(z, Descend(z, 1, out).x, 1)
  IN  IF zslIsInRange(z, r) /\ zslValueLteMax(z.node[x].score, r) THEN x ELSE NIL

zslLastInRange(z, r) ==
  LET in == {y \in DOMAIN z.node : zslValueLteMax(z.node[y].score, r)}
      x == Descend(z, 1, in).x
  IN  IF zslIsInRange(z, r) /\ zslValueGteMin(z.node[x].score, r) THEN x ELSE NIL

(* ---- the machine ------------------------------------------------------ *)

SLInit == zsl = zslCreate /\ zslRet = TRUE

ZslInsert(score, obj) ==
  /\ obj \notin DOMAIN zsl.node
  /\ \E level \in 1..ZSKIPLIST_MAXLEVEL : zsl' = zslInsert(zsl, score, obj, level)
  /\ zslRet' = TRUE

ZslDelete(score, obj) ==
  /\ zslRet' = (FoundNode(zsl, score, obj) # NIL)
  /\ zsl' = zslDelete(zsl, score, obj)

SLNext == \E score \in Scores, obj \in Objs : ZslInsert(score, obj) \/ ZslDelete(score, obj)

SLSpec == SLInit /\ [][SLNext]_slvars

(* ---- properties ------------------------------------------------------- *)

Stored == DOMAIN zsl.node \ {HEADER}
Precedes(x, y) == zsl.node[x].score < zsl.node[y].score \/ (zsl.node[x].score = zsl.node[y].score /\ x < y)

\* The node's position by score and object: 0 for the header.
RankOf(x) == IF x = HEADER THEN 0 ELSE Cardinality({y \in Stored : Precedes(y, x)}) + 1
LevelsOf(x) == IF x = HEADER THEN 1..zsl.level ELSE DOMAIN zsl.node[x].level

\* Every level is the sorted list of the nodes tall enough for it, and behind
\* the last of them the span counts what is left.
LevelsExact ==
  \A x \in DOMAIN zsl.node : \A i \in LevelsOf(x) :
    LET later == {y \in Stored : i \in LevelsOf(y) /\ RankOf(y) > RankOf(x)}
        next == CHOOSE y \in later : \A w \in later : RankOf(y) <= RankOf(w)
    IN  IF later = {} THEN zsl.node[x].level[i] = [forward |-> NIL, span |-> zsl.length - RankOf(x)]
        ELSE zsl.node[x].level[i] = [forward |-> next, span |-> RankOf(next) - RankOf(x)]

\* The list read backwards from the tail is the list read forwards.
BackwardExact ==
  /\ zsl.length = Cardinality(Stored)
  /\ zsl.tail = IF Stored = {} THEN NIL ELSE CHOOSE x \in Stored : RankOf(x) = zsl.length
  /\ \A x \in Stored : zsl.node[x].backward =
       IF RankOf(x) = 1 THEN NIL ELSE CHOOSE y \in Stored : RankOf(y) = RankOf(x) - 1

\* After any inserts and deletes, with any choice of levels, a forward pointer
\* leads to the next node of its level, so nothing is lost at any of them; the
\* span next to it is exactly the number of nodes it crosses (the rank from
\* which zslInsert computes new spans); backward pointers and the tail mirror
\* level one; and no level above the tallest node is searched.
LinksExact ==
  /\ LevelsExact /\ BackwardExact
  /\ zsl.level = Max({1} \cup {Len(zsl.node[x].level) : x \in Stored})

\* A range query, started at the top level, returns the first and the last
\* element of the range, and none exactly when the range holds none.
RangesExact ==
  \A r \in [min : Bounds, max : Bounds, minex : BOOLEAN, maxex : BOOLEAN] :
    LET in == {x \in Stored : zslValueGteMin(zsl.node[x].score, r) /\ zslValueLteMax(zsl.node[x].score, r)}
    IN  IF in = {} THEN zslFirstInRange(zsl, r) = NIL /\ zslLastInRange(zsl, r) = NIL
        ELSE /\ zslFirstInRange(zsl, r) = CHOOSE x \in in : \A y \in in : RankOf(x) <= RankOf(y)
             /\ zslLastInRange(zsl, r) = CHOOSE x \in in : \A y \in in : RankOf(x) >= RankOf(y)

\* Both: the links are exact and a search over them answers exactly.
SearchExact == LinksExact /\ RangesExact

\* A delete says it found its element exactly when the list held it, and takes
\* away that element and no other.
DeletesExact ==
  [][\A score \in Scores, obj \in Objs :
       ZslDelete(score, obj) =>
         LET held == obj \in Stored /\ zsl.node[obj].score = score
         IN  /\ zslRet' = held
             /\ Stored' = IF held THEN Stored \ {obj} ELSE Stored]_slvars
=============================================================================
