------------------------------ MODULE Encodings ------------------------------
(***************************************************************************)
(* The encodings an object of the server may have, side by side: an object *)
(* is given one of them when it is created and is then used through the    *)
(* operations of that one alone, the way redis_test.c exercises them.      *)
(***************************************************************************)
EXTENDS Dict, QuickList, ZipList, IntSet, SkipList

VARIABLE encoding    \* the encoding of the object

encvars == <<encoding, vars, qlvars, zlvars, isvars, slvars>>

\* createSetObject, createQuicklistObject, createZiplistObject,
\* createIntsetObject, createZsetObject
EncInit == /\ encoding \in {"hashtable", "quicklist", "ziplist", "intset", "skiplist"}
           /\ Init /\ QLInit /\ ZLInit /\ ISInit /\ SLInit

EncNext ==
  \/ encoding = "hashtable" /\ Next /\ UNCHANGED <<encoding, qlvars, zlvars, isvars, slvars>>
  \/ encoding = "quicklist" /\ QLNext /\ UNCHANGED <<encoding, vars, zlvars, isvars, slvars>>
  \/ encoding = "ziplist" /\ ZLNext /\ UNCHANGED <<encoding, vars, qlvars, isvars, slvars>>
  \/ encoding = "intset" /\ ISNext /\ UNCHANGED <<encoding, vars, qlvars, zlvars, slvars>>
  \/ encoding = "skiplist" /\ SLNext /\ UNCHANGED <<encoding, vars, qlvars, zlvars, isvars>>

EncSpec == EncInit /\ [][EncNext]_encvars
=============================================================================
