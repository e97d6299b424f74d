--------------------------- MODULE PathORAMProofs ---------------------------
(***************************************************************************)
(* The invariant of Path ORAM holds, and PathORAM implements a memory of   *)
(* blocks, for every tree, bucket size, stash limit and set of blocks.     *)
(***************************************************************************)
EXTENDS PathORAM, FiniteSetTheorems, FunctionTheorems, TLAPS

(* The blocks a round on the given paths leaves alone. *)
Off(L) == UNION {tree[n] : n \in Nodes \ MergedPath(L)}

(* The inductive invariant.  NeverMissing follows from PathInvariant one   *)
(* step earlier, PathInvariant from itself.                                *)
OramInv == TypeOK /\ PathInvariant /\ NeverMissing

(* The paths consist of nodes, and none of them is the mark NoNode. *)
LEMMA PathNodes ==
    ASSUME NEW L \in SUBSET Leaves
    PROVE  MergedPath(L) \subseteq Nodes /\ NoNode \notin MergedPath(L)
BY NodeAssumption DEF MergedPath, Nodes

(* What an eviction leaves behind unless it throws: every block of S is in *)
(* the stash or in one bucket of the paths, and that bucket is on its own  *)
(* path; the other buckets are as before.                                  *)
LEMMA EvictResult ==
    ASSUME TypeOK, failure = "none",
           NEW S \in SUBSET Blocks, NEW L \in SUBSET Leaves, Evict(S, L)
    PROVE  /\ failure' \in {"none", "overflow"}
           /\ stash' \subseteq S
           /\ tree' \in [Nodes -> SUBSET Blocks]
           /\ failure' = "none" =>
                /\ \A n \in MergedPath(L) :
                     /\ tree'[n] \subseteq S /\ tree'[n] \cap stash' = {}
                     /\ \A b \in tree'[n] : n \in Path(b.leaf)
                /\ \A m, n \in MergedPath(L) :
                     m # n => tree'[m] \cap tree'[n] = {}
                /\ \A n \in Nodes \ MergedPath(L) : tree'[n] = tree[n]
                /\ \A b \in S :
                     b \in stash' \/ \E n \in MergedPath(L) : b \in tree'[n]
<1>1. PICK p \in Placements(S, L) :
        /\ stash' = Bucket(p, NoNode)
        /\ IF Cardinality(Bucket(p, NoNode)) > StashMax
           THEN tree' = tree /\ failure' = "overflow"
           ELSE /\ tree' = [n \in Nodes |-> IF n \in MergedPath(L)
                                            THEN Bucket(p, n) ELSE tree[n]]
                /\ failure' = failure
  BY DEF Evict
<1>2. /\ DOMAIN p = S
      /\ \A b \in S : p[b] \in MergedPath(L) \cup {NoNode}
      /\ \A b \in S : p[b] \in (Path(b.leaf) \cap MergedPath(L)) \cup {NoNode}
  BY DEF Placements, Eligible
<1>3. \A n : Bucket(p, n) \subseteq S
  BY <1>2 DEF Bucket
<1>4. MergedPath(L) \subseteq Nodes /\ NoNode \notin MergedPath(L)
  BY PathNodes
<1>5. CASE Cardinality(Bucket(p, NoNode)) > StashMax
  BY <1>1, <1>3, <1>5 DEF TypeOK
<1>6. CASE ~(Cardinality(Bucket(p, NoNode)) > StashMax)
  <2>1. /\ tree' = [n \in Nodes |-> IF n \in MergedPath(L)
                                    THEN Bucket(p, n) ELSE tree[n]]
        /\ failure' = "none"
    BY <1>1, <1>6
  <2>2. tree' \in [Nodes -> SUBSET Blocks]
    BY <2>1, <1>3 DEF TypeOK
  <2>3. \A n \in MergedPath(L) : tree'[n] = Bucket(p, n)
    BY <2>1, <1>4
  <2>4. \A n \in Nodes \ MergedPath(L) : tree'[n] = tree[n]
    BY <2>1
  <2>5. \A n \in MergedPath(L) :
          /\ tree'[n] \subseteq S /\ tree'[n] \cap stash' = {}
          /\ \A b \in tree'[n] : n \in Path(b.leaf)
    BY <2>3, <1>1, <1>2, <1>3, <1>4 DEF Bucket
  <2>6. \A m, n \in MergedPath(L) : m # n => tree'[m] \cap tree'[n] = {}
    BY <2>3 DEF Bucket
  <2>7. \A b \in S : b \in stash' \/ \E n \in MergedPath(L) : b \in tree'[n]
    BY <2>3, <1>1, <1>2 DEF Bucket
  <2> QED BY <1>1, <1>3, <2>1, <2>2, <2>4, <2>5, <2>6, <2>7
<1> QED BY <1>5, <1>6

(* A round on the paths L keeps the invariant if the blocks it evicts, the *)
(* held ones and those off the paths are consistent with each other.       *)
LEMMA RoundKeeps ==
    ASSUME TypeOK, PathInvariant, failure = "none",
           NEW S \in SUBSET Blocks, NEW L \in SUBSET Leaves, Evict(S, L),
           held' \subseteq Blocks,
           \A b, c \in S \cup held' \cup Off(L) : b.key = c.key => b = c,
           S \cap held' = {}, S \cap Off(L) = {}, held' \cap Off(L) = {},
           \A b \in S \cup held' \cup Off(L) : b.leaf = posMap'[b.key],
           owned' = {b.key : b \in S \cup held' \cup Off(L)}
    PROVE  /\ PathInvariant'
           /\ failure' = "none" => Stored' = S \cup held' \cup Off(L)
<1> SUFFICES ASSUME failure' = "none"
             PROVE  /\ (OneCopy /\ OnItsPath /\ NothingLost)'
                    /\ Stored' = S \cup held' \cup Off(L)
  BY DEF PathInvariant
<1> DEFINE M == MergedPath(L)
<1>1. M \subseteq Nodes
  BY PathNodes
<1>2. /\ stash' \subseteq S
      /\ tree' \in [Nodes -> SUBSET Blocks]
      /\ \A n \in M : /\ tree'[n] \subseteq S /\ tree'[n] \cap stash' = {}
                      /\ \A b \in tree'[n] : n \in Path(b.leaf)
      /\ \A m, n \in M : m # n => tree'[m] \cap tree'[n] = {}
      /\ \A n \in Nodes \ M : tree'[n] = tree[n]
      /\ \A b \in S : b \in stash' \/ \E n \in M : b \in tree'[n]
  BY EvictResult
<1>3. \A n \in Nodes \ M : tree[n] \subseteq Off(L)
  BY DEF Off
<1> HIDE DEF M
<1>4. Stored' = S \cup held' \cup Off(L)
  <2>1. Stored' = stash' \cup held' \cup UNION {tree'[n] : n \in Nodes}
    BY DEF Stored
  <2>2. Off(L) = UNION {tree'[n] : n \in Nodes \ M}
    BY <1>2 DEF Off, M
  <2>3. S = stash' \cup UNION {tree'[n] : n \in M}
    BY <1>2
  <2>4. UNION {tree'[n] : n \in Nodes} =
          (UNION {tree'[n] : n \in M}) \cup (UNION {tree'[n] : n \in Nodes \ M})
    BY <1>1
  <2> QED BY <2>1, <2>2, <2>3, <2>4
<1>5. OneCopy'
  <2>1. \A b, c \in Stored' : b.key = c.key => b = c
    BY <1>4
  <2>2. \A m, n \in Nodes : m # n => tree'[m] \cap tree'[n] = {}
    <3> SUFFICES ASSUME NEW m \in Nodes, NEW n \in Nodes, m # n
                 PROVE  tree'[m] \cap tree'[n] = {}
      OBVIOUS
    <3>1. CASE m \in M /\ n \in M
      BY <3>1, <1>2
    <3>2. CASE m \notin M /\ n \notin M
      BY <3>2, <1>2 DEF PathInvariant, OneCopy
    <3>3. CASE m \in M /\ n \notin M
      BY <3>3, <1>2, <1>3
    <3>4. CASE m \notin M /\ n \in M
      BY <3>4, <1>2, <1>3
    <3> QED BY <3>1, <3>2, <3>3, <3>4
  <2>3. \A n \in Nodes : tree'[n] \cap (stash' \cup held') = {}
    <3> SUFFICES ASSUME NEW n \in Nodes
                 PROVE  tree'[n] \cap (stash' \cup held') = {}
      OBVIOUS
    <3>1. CASE n \in M
      BY <3>1, <1>2
    <3>2. CASE n \notin M
      BY <3>2, <1>2, <1>3
    <3> QED BY <3>1, <3>2
  <2>4. stash' \cap held' = {}
    BY <1>2
  <2> QED BY <2>1, <2>2, <2>3, <2>4 DEF OneCopy
<1>6. OnItsPath'
  <2>1. \A n \in Nodes : \A b \in tree'[n] : n \in Path(b.leaf)
    BY <1>2 DEF PathInvariant, OnItsPath
  <2>2. \A b \in Stored' : b.leaf = posMap'[b.key]
    BY <1>4
  <2> QED BY <2>1, <2>2 DEF OnItsPath
<1>7. NothingLost'
  BY <1>4 DEF NothingLost
<1> QED BY <1>4, <1>5, <1>6, <1>7

(* What reading paths into the stash yields: the stash, the held blocks    *)
(* and the blocks off the paths are all there is, and do not overlap.      *)
LEMMA ReadPaths ==
    ASSUME TypeOK, PathInvariant, failure = "none", NEW L \in SUBSET Leaves
    PROVE  /\ WithPaths(L) \subseteq Blocks
           /\ Stored = WithPaths(L) \cup held \cup Off(L)
           /\ WithPaths(L) \cap held = {} /\ WithPaths(L) \cap Off(L) = {}
           /\ held \cap Off(L) = {}
<1> DEFINE M == MergedPath(L)
<1>1. M \subseteq Nodes
  BY PathNodes
<1>2. WithPaths(L) = stash \cup UNION {tree[n] : n \in M}
  BY DEF WithPaths
<1>3. Off(L) = UNION {tree[n] : n \in Nodes \ M}
  BY DEF Off
<1> HIDE DEF M
<1>4. UNION {tree[n] : n \in Nodes} =
        (UNION {tree[n] : n \in M}) \cup (UNION {tree[n] : n \in Nodes \ M})
  BY <1>1
<1>5. OneCopy
  BY DEF PathInvariant
<1>6. WithPaths(L) \subseteq Blocks
  BY <1>1, <1>2 DEF TypeOK
<1>7. Stored = WithPaths(L) \cup held \cup Off(L)
  BY <1>2, <1>3, <1>4 DEF Stored
<1>8. WithPaths(L) \cap held = {} /\ held \cap Off(L) = {}
  BY <1>1, <1>2, <1>3, <1>5 DEF OneCopy
<1>9. WithPaths(L) \cap Off(L) = {}
  BY <1>1, <1>2, <1>3, <1>5 DEF OneCopy
<1> QED BY <1>6, <1>7, <1>8, <1>9

(* A block the caller has stored and does not hold is found by reading the *)
(* path its position map entry names.                                      *)
LEMMA FoundOnPath ==
    ASSUME TypeOK, PathInvariant, failure = "none",
           NEW k \in owned \ HeldKeys
    PROVE  /\ posMap[k] \in Leaves
           /\ \A L \in SUBSET Leaves :
                posMap[k] \in L => \E b \in WithPaths(L) : b.key = k
<1>1. PICK b \in Stored : b.key = k
  BY DEF PathInvariant, NothingLost
<1>2. b \notin held
  BY <1>1 DEF HeldKeys
<1>3. b \in Blocks
  BY <1>1 DEF Stored, TypeOK
<1>4. b.leaf = posMap[k] /\ b.leaf \in Leaves
  BY <1>1, <1>3 DEF PathInvariant, OnItsPath, Blocks
<1>5. SUFFICES ASSUME NEW L \in SUBSET Leaves, posMap[k] \in L
               PROVE  b \in WithPaths(L)
  BY <1>1, <1>4
<1>6. CASE b \in stash
  BY <1>6 DEF WithPaths
<1>7. CASE b \notin stash
  <2>1. PICK n \in Nodes : b \in tree[n]
    BY <1>1, <1>2, <1>7 DEF Stored
  <2>2. n \in Path(posMap[k])
    BY <1>4, <2>1 DEF PathInvariant, OnItsPath
  <2>3. n \in MergedPath(L)
    BY <2>2, <1>5 DEF MergedPath
  <2> QED BY <2>1, <2>3 DEF WithPaths
<1> QED BY <1>6, <1>7

(* The leaf sets of a round. *)
LEMMA RoundLeaves ==
    ASSUME NEW l \in Leaves, NEW L \in Rounds(l)
    PROVE  L \in SUBSET Leaves /\ l \in L
BY DEF Rounds

(* The state access evicts from: the block under its new leaf. *)
LEMMA AccessKeeps ==
    ASSUME OramInv, NEW k \in Keys, NEW w \in Values \cup {NoWrite},
           access(k, w)
    PROVE  /\ OramInv'
           /\ \E b \in Stored, c \in Blocks :
                /\ b.key = k /\ c.key = k /\ result' = b.val
                /\ c.val = IF w = NoWrite THEN b.val ELSE w
                /\ failure' = "none" => Stored' = (Stored \ {b}) \cup {c}
<1> USE DEF OramInv
<1>1. /\ failure = "none" /\ k \in owned \ HeldKeys
      /\ owned' = owned
  BY DEF access
<1>2. /\ posMap[k] \in Leaves
      /\ \A L \in SUBSET Leaves :
            posMap[k] \in L => \E b \in WithPaths(L) : b.key = k
  BY <1>1, FoundOnPath
<1> DEFINE L == {posMap[k]}
           W == WithPaths(L)
<1>3. PICK new \in Leaves, b \in W :
        /\ b.key = k /\ result' = b.val
        /\ posMap' = [posMap EXCEPT ![k] = new]
        /\ Evict((W \ {b}) \cup
                 {[key |-> k, leaf |-> new,
                   val |-> IF w = NoWrite THEN b.val ELSE w]}, L)
        /\ held' = held
  BY <1>1, <1>2 DEF access
<1> DEFINE c == [key |-> k, leaf |-> new,
                 val |-> IF w = NoWrite THEN b.val ELSE w]
           S == (W \ {b}) \cup {c}
<1>4. L \in SUBSET Leaves
  BY <1>2
<1> HIDE DEF L
<1>5. /\ W \subseteq Blocks /\ Stored = W \cup held \cup Off(L)
      /\ W \cap held = {} /\ W \cap Off(L) = {} /\ held \cap Off(L) = {}
  BY <1>1, <1>4, ReadPaths
<1> HIDE DEF W
<1>6. b \in Blocks /\ b \in Stored /\ b.val \in Values
  BY <1>5 DEF Blocks
<1>7. c \in Blocks /\ c.key = k /\ c.leaf = new
      /\ c.val = (IF w = NoWrite THEN b.val ELSE w)
  BY <1>6 DEF Blocks
<1>8. Evict(S, L)
  BY <1>3
<1> HIDE DEF c
<1>9. S \in SUBSET Blocks
  BY <1>5, <1>7
<1>10. \A x, y \in Stored : x.key = y.key => x = y
  BY <1>1 DEF PathInvariant, OneCopy
<1>11. S \cup held \cup Off(L) = (Stored \ {b}) \cup {c}
  BY <1>5
<1>12. \A x \in Stored \ {b} : x.key # k
  BY <1>3, <1>6, <1>10
<1>13. \A x, y \in S \cup held' \cup Off(L) : x.key = y.key => x = y
  BY <1>3, <1>7, <1>10, <1>11, <1>12
<1>14. S \cap held' = {} /\ S \cap Off(L) = {} /\ held' \cap Off(L) = {}
  <2>1. c \notin held \cup Off(L)
    BY <1>3, <1>5, <1>7, <1>12
  <2> QED BY <1>3, <1>5, <2>1
<1>15. \A x \in S \cup held' \cup Off(L) : x.leaf = posMap'[x.key]
  <2>1. \A x \in Stored : x.leaf = posMap[x.key] /\ x.key \in Keys
    BY <1>1 DEF PathInvariant, OnItsPath, Stored, TypeOK, Blocks
  <2>2. posMap'[k] = new /\ \A j \in Keys : j # k => posMap'[j] = posMap[j]
    BY <1>3 DEF TypeOK
  <2> QED BY <1>3, <1>7, <1>11, <1>12, <2>1, <2>2
<1>16. owned' = {x.key : x \in S \cup held' \cup Off(L)}
  <2>1. owned = {x.key : x \in Stored}
    BY <1>1 DEF PathInvariant, NothingLost
  <2>2. {x.key : x \in (Stored \ {b}) \cup {c}} = {x.key : x \in Stored}
    BY <1>3, <1>6, <1>7
  <2> QED BY <1>1, <1>3, <1>11, <2>1, <2>2
<1> HIDE DEF S
<1>17. PathInvariant' /\ (failure' = "none" => Stored' = S \cup held' \cup Off(L))
  <2>1. held' \subseteq Blocks
    BY <1>3 DEF TypeOK
  <2> QED BY <1>1, <1>4, <1>8, <1>9, <1>13, <1>14, <1>15, <1>16, <2>1, RoundKeeps
<1>18. TypeOK' /\ NeverMissing'
  <2>1. /\ failure' \in {"none", "overflow"} /\ stash' \subseteq S
        /\ tree' \in [Nodes -> SUBSET Blocks]
    BY <1>1, <1>4, <1>8, <1>9, EvictResult
  <2>2. posMap' \in [Keys -> Leaves \cup {NoLeaf}]
    BY <1>3 DEF TypeOK
  <2> QED BY <1>1, <1>3, <1>6, <1>9, <2>1, <2>2 DEF TypeOK, NeverMissing
<1>19. failure' = "none" => Stored' = (Stored \ {b}) \cup {c}
  BY <1>3, <1>11, <1>17 DEF S
<1> QED BY <1>3, <1>6, <1>7, <1>17, <1>18, <1>19

(* A dummy access moves blocks between the stash and the paths it reads. *)
LEMMA DummyKeeps ==
    ASSUME OramInv, dummy_access
    PROVE  /\ OramInv' /\ result' = result
           /\ failure' = "none" => Stored' = Stored
<1> USE DEF OramInv
<1>1. /\ failure = "none"
      /\ posMap' = posMap /\ held' = held /\ owned' = owned /\ result' = result
  BY DEF dummy_access
<1>2. PICK leaf \in Leaves : \E L \in Rounds(leaf) : Evict(WithPaths(L), L)
  BY DEF dummy_access
<1>2a. PICK L \in Rounds(leaf) : Evict(WithPaths(L), L)
  BY <1>2
<1>3. L \in SUBSET Leaves
  BY RoundLeaves
<1> DEFINE W == WithPaths(L)
<1>4. /\ W \subseteq Blocks /\ Stored = W \cup held \cup Off(L)
      /\ W \cap held = {} /\ W \cap Off(L) = {} /\ held \cap Off(L) = {}
  BY <1>1, <1>3, ReadPaths
<1>5. Evict(W, L)
  BY <1>2a
<1> HIDE DEF W
<1>6. /\ failure' \in {"none", "overflow"} /\ stash' \subseteq W
      /\ tree' \in [Nodes -> SUBSET Blocks]
  BY <1>1, <1>3, <1>4, <1>5, EvictResult
<1>7. OneCopy /\ OnItsPath /\ NothingLost
  BY <1>1 DEF PathInvariant
<1>8. PathInvariant' /\ (failure' = "none" => Stored' = W \cup held' \cup Off(L))
  <2>1. held' \subseteq Blocks
    BY <1>1 DEF TypeOK
  <2>2. \A b, c \in W \cup held' \cup Off(L) : b.key = c.key => b = c
    BY <1>1, <1>4, <1>7 DEF OneCopy
  <2>3. \A b \in W \cup held' \cup Off(L) : b.leaf = posMap'[b.key]
    BY <1>1, <1>4, <1>7 DEF OnItsPath
  <2>4. owned' = {b.key : b \in W \cup held' \cup Off(L)}
    BY <1>1, <1>4, <1>7 DEF NothingLost
  <2> QED BY <1>1, <1>3, <1>4, <1>5, <2>1, <2>2, <2>3, <2>4, RoundKeeps
<1>9. TypeOK' /\ NeverMissing'
  BY <1>1, <1>4, <1>6 DEF TypeOK, NeverMissing
<1> QED BY <1>1, <1>4, <1>8, <1>9

(* Extracting a block moves it, unchanged, from the ORAM to the caller. *)
LEMMA ExtractKeeps ==
    ASSUME OramInv, NEW k \in Keys, Extract(k)
    PROVE  /\ OramInv'
           /\ \E b \in Stored : b.key = k /\ result' = b.val
           /\ failure' = "none" => Stored' = Stored
<1> USE DEF OramInv
<1>1. /\ failure = "none" /\ k \in owned \ HeldKeys
      /\ posMap' = posMap /\ owned' = owned
  BY DEF Extract
<1>2. /\ posMap[k] \in Leaves
      /\ \A L \in SUBSET Leaves :
            posMap[k] \in L => \E b \in WithPaths(L) : b.key = k
  BY <1>1, FoundOnPath
<1>3. \A L \in Rounds(posMap[k]) : L \in SUBSET Leaves /\ posMap[k] \in L
  BY <1>2, RoundLeaves
<1>4a. PICK L \in Rounds(posMap[k]) : \E b \in WithPaths(L) :
        /\ b.key = k /\ result' = b.val
        /\ held' = held \cup {b}
        /\ Evict(WithPaths(L) \ {b}, L)
  BY <1>2, <1>3 DEF Extract
<1>4. PICK b \in WithPaths(L) :
        /\ b.key = k /\ result' = b.val
        /\ held' = held \cup {b}
        /\ Evict(WithPaths(L) \ {b}, L)
  BY <1>4a
<1>5. L \in SUBSET Leaves
  BY <1>3
<1> DEFINE W == WithPaths(L)
           S == W \ {b}
<1>6. /\ W \subseteq Blocks /\ Stored = W \cup held \cup Off(L)
      /\ W \cap held = {} /\ W \cap Off(L) = {} /\ held \cap Off(L) = {}
  BY <1>1, <1>5, ReadPaths
<1>7. Evict(S, L) /\ b \in W
  BY <1>4
<1> HIDE DEF W
<1>8. b \in Blocks /\ b \in Stored /\ b.val \in Values
  BY <1>6, <1>7 DEF Blocks
<1>9. S \in SUBSET Blocks /\ held' \subseteq Blocks
  BY <1>4, <1>6, <1>8 DEF TypeOK
<1>10. Stored = S \cup held' \cup Off(L)
  BY <1>4, <1>6, <1>7
<1>11. S \cap held' = {} /\ S \cap Off(L) = {} /\ held' \cap Off(L) = {}
  BY <1>4, <1>6, <1>7
<1> HIDE DEF S
<1>12. OneCopy /\ OnItsPath /\ NothingLost
  BY <1>1 DEF PathInvariant
<1>13. PathInvariant' /\ (failure' = "none" => Stored' = S \cup held' \cup Off(L))
  <2>1. \A x, y \in S \cup held' \cup Off(L) : x.key = y.key => x = y
    BY <1>10, <1>12 DEF OneCopy
  <2>2. \A x \in S \cup held' \cup Off(L) : x.leaf = posMap'[x.key]
    BY <1>1, <1>10, <1>12 DEF OnItsPath
  <2>3. owned' = {x.key : x \in S \cup held' \cup Off(L)}
    BY <1>1, <1>10, <1>12 DEF NothingLost
  <2> QED BY <1>1, <1>5, <1>7, <1>9, <1>11, <2>1, <2>2, <2>3, RoundKeeps
<1>14. TypeOK' /\ NeverMissing'
  <2>1. /\ failure' \in {"none", "overflow"} /\ stash' \subseteq S
        /\ tree' \in [Nodes -> SUBSET Blocks]
    BY <1>1, <1>5, <1>7, <1>9, EvictResult
  <2> QED BY <1>1, <1>4, <1>8, <1>9, <2>1 DEF TypeOK, NeverMissing
<1> QED BY <1>4, <1>8, <1>10, <1>13, <1>14

(* A step that leaves the tree alone and replaces the blocks "out", held   *)
(* by the caller, by the blocks "add" in the stash.                        *)
LEMMA StashKeeps ==
    ASSUME OramInv, failure = "none", failure' = "none", tree' = tree,
           NEW out \in SUBSET held, NEW add \in SUBSET Blocks,
           held' = held \ out, stash' = stash \cup add,
           result' = result, owned' \subseteq Keys,
           posMap' \in [Keys -> Leaves \cup {NoLeaf}],
           \A b \in Stored \ out, c \in add : b.key # c.key,
           \A b, c \in add : b = c,
           \A b \in (Stored \ out) \cup add : b.leaf = posMap'[b.key],
           owned' = {b.key : b \in (Stored \ out) \cup add}
    PROVE  OramInv' /\ Stored' = (Stored \ out) \cup add
<1> USE DEF OramInv
<1>1. OneCopy /\ OnItsPath /\ NothingLost
  BY DEF PathInvariant
<1> DEFINE T == UNION {tree[n] : n \in Nodes}
<1>2. Stored = stash \cup held \cup T /\ Stored' = stash' \cup held' \cup T
  BY DEF Stored
<1>3. stash \cap held = {} /\ T \cap (stash \cup held) = {}
  BY <1>1 DEF OneCopy
<1>4. \A n \in Nodes : tree[n] \subseteq T
  OBVIOUS
<1> HIDE DEF T
<1>5. Stored' = (Stored \ out) \cup add
  BY <1>2, <1>3
<1>6. OneCopy'
  <2>1. add \cap (Stored \ out) = {}
    OBVIOUS
  <2>2. stash' \cap held' = {} /\ T \cap (stash' \cup held') = {}
    BY <1>2, <1>3, <2>1
  <2>3. \A b, c \in Stored' : b.key = c.key => b = c
    BY <1>1, <1>5 DEF OneCopy
  <2>4. \A m, n \in Nodes : m # n => tree'[m] \cap tree'[n] = {}
    BY <1>1 DEF OneCopy
  <2>5. \A n \in Nodes : tree'[n] \cap (stash' \cup held') = {}
    BY <1>4, <2>2
  <2> QED BY <2>2, <2>3, <2>4, <2>5 DEF OneCopy
<1>7. OnItsPath'
  BY <1>1, <1>5 DEF OnItsPath
<1>8. NothingLost'
  BY <1>5 DEF NothingLost
<1>9. TypeOK' /\ NeverMissing'
  BY DEF TypeOK, NeverMissing
<1> QED BY <1>5, <1>6, <1>7, <1>8, <1>9 DEF PathInvariant

(* A held block goes back to the stash with a new leaf and perhaps a new   *)
(* payload.                                                                *)
LEMMA GiveBackKeeps ==
    ASSUME OramInv, NEW k \in Keys, NEW w \in Values \cup {NoWrite},
           GiveBack(k, w)
    PROVE  /\ OramInv' /\ failure' = "none" /\ result' = result
           /\ \E b \in Stored, c \in Blocks :
                /\ b.key = k /\ c.key = k
                /\ c.val = IF w = NoWrite THEN b.val ELSE w
                /\ Stored' = (Stored \ {b}) \cup {c}
<1> USE DEF OramInv
<1>1. PICK b \in held, new \in Leaves :
        /\ b.key = k /\ held' = held \ {b}
        /\ posMap' = [posMap EXCEPT ![k] = new]
        /\ stash' = stash \cup {[key |-> k, leaf |-> new,
                                 val |-> IF w = NoWrite THEN b.val ELSE w]}
  BY DEF GiveBack
<1>2. /\ failure = "none" /\ failure' = "none" /\ tree' = tree
      /\ owned' = owned /\ result' = result
  BY DEF GiveBack
<1> DEFINE c == [key |-> k, leaf |-> new,
                 val |-> IF w = NoWrite THEN b.val ELSE w]
<1>3. b \in Blocks /\ b \in Stored /\ b.val \in Values
  BY DEF TypeOK, Stored, Blocks
<1>4. c \in Blocks /\ c.key = k /\ c.leaf = new
      /\ c.val = (IF w = NoWrite THEN b.val ELSE w)
  BY <1>3 DEF Blocks
<1>5. stash' = stash \cup {c}
  BY <1>1
<1> HIDE DEF c
<1>6. OneCopy /\ OnItsPath /\ NothingLost
  BY <1>2 DEF PathInvariant
<1>7. \A x \in Stored \ {b} : x.key # k
  BY <1>1, <1>3, <1>6 DEF OneCopy
<1>8. \A x \in (Stored \ {b}) \cup {c} : x.leaf = posMap'[x.key]
  <2>1. \A x \in Stored : x.leaf = posMap[x.key] /\ x.key \in Keys
    BY <1>6 DEF OnItsPath, Stored, TypeOK, Blocks
  <2>2. posMap'[k] = new /\ \A j \in Keys : j # k => posMap'[j] = posMap[j]
    BY <1>1 DEF TypeOK
  <2> QED BY <1>4, <1>7, <2>1, <2>2
<1>9. owned' = {x.key : x \in (Stored \ {b}) \cup {c}}
  <2>1. {x.key : x \in (Stored \ {b}) \cup {c}} = {x.key : x \in Stored}
    BY <1>1, <1>3, <1>4
  <2> QED BY <1>2, <1>6, <2>1 DEF NothingLost
<1>10. OramInv' /\ Stored' = (Stored \ {b}) \cup {c}
  <2>1. posMap' \in [Keys -> Leaves \cup {NoLeaf}] /\ owned' \subseteq Keys
    BY <1>1, <1>2 DEF TypeOK
  <2>2. \A x \in Stored \ {b}, y \in {c} : x.key # y.key
    BY <1>4, <1>7
  <2>3. {b} \in SUBSET held /\ {c} \in SUBSET Blocks
    BY <1>4
  <2> QED BY <1>1, <1>2, <1>5, <1>8, <1>9, <2>1, <2>2, <2>3, StashKeeps
<1> QED BY <1>1, <1>2, <1>3, <1>4, <1>10

(* A new block enters the stash. *)
LEMMA AddNewKeeps ==
    ASSUME OramInv, NEW k \in Keys, NEW v \in Values, AddNew(k, v)
    PROVE  /\ OramInv' /\ failure' = "none" /\ result' = result
           /\ \A b \in Stored : b.key # k
           /\ \E c \in Blocks : /\ c.key = k /\ c.val = v
                               /\ Stored' = Stored \cup {c}
<1> USE DEF OramInv
<1>1. PICK new \in Leaves :
        /\ posMap' = [posMap EXCEPT ![k] = new]
        /\ stash' = stash \cup {[key |-> k, leaf |-> new, val |-> v]}
  BY DEF AddNew
<1>2. /\ failure = "none" /\ failure' = "none" /\ tree' = tree
      /\ k \notin owned /\ owned' = owned \cup {k} /\ result' = result
      /\ held' = held
  BY DEF AddNew
<1> DEFINE c == [key |-> k, leaf |-> new, val |-> v]
<1>3. c \in Blocks /\ c.key = k /\ c.leaf = new /\ c.val = v
  BY DEF Blocks
<1>4. stash' = stash \cup {c}
  BY <1>1
<1> HIDE DEF c
<1>5. OneCopy /\ OnItsPath /\ NothingLost
  BY <1>2 DEF PathInvariant
<1>6. \A x \in Stored : x.key # k
  BY <1>2, <1>5 DEF NothingLost
<1>7. \A x \in Stored \cup {c} : x.leaf = posMap'[x.key]
  <2>1. \A x \in Stored : x.leaf = posMap[x.key] /\ x.key \in Keys
    BY <1>5 DEF OnItsPath, Stored, TypeOK, Blocks
  <2>2. posMap'[k] = new /\ \A j \in Keys : j # k => posMap'[j] = posMap[j]
    BY <1>1 DEF TypeOK
  <2> QED BY <1>3, <1>6, <2>1, <2>2
<1>8. owned' = {x.key : x \in Stored \cup {c}}
  BY <1>2, <1>3, <1>5 DEF NothingLost
<1>9. OramInv' /\ Stored' = Stored \cup {c}
  <2>1. posMap' \in [Keys -> Leaves \cup {NoLeaf}] /\ owned' \subseteq Keys
    BY <1>1, <1>2 DEF TypeOK
  <2>2. Stored \ {} = Stored /\ held' = held \ {}
    BY <1>2
  <2>3. \A x \in Stored \ {}, y \in {c} : x.key # y.key
    BY <1>3, <1>6
  <2>4. {} \in SUBSET held /\ {c} \in SUBSET Blocks
    BY <1>3
  <2>5. OramInv' /\ Stored' = (Stored \ {}) \cup {c}
    BY <1>2, <1>4, <1>7, <1>8, <2>1, <2>2, <2>3, <2>4, StashKeeps
  <2> QED BY <2>2, <2>5
<1> QED BY <1>2, <1>3, <1>6, <1>9

(* A held block is given up. *)
LEMMA DropKeeps ==
    ASSUME OramInv, NEW k \in Keys, Drop(k)
    PROVE  /\ OramInv' /\ failure' = "none" /\ result' = result
           /\ \E b \in Stored : b.key = k /\ Stored' = Stored \ {b}
<1> USE DEF OramInv
<1>1. PICK b \in held : b.key = k /\ held' = held \ {b}
  BY DEF Drop
<1>2. /\ failure = "none" /\ failure' = "none" /\ tree' = tree /\ stash' = stash
      /\ owned' = owned \ {k} /\ result' = result /\ posMap' = posMap
  BY DEF Drop
<1>3. OneCopy /\ OnItsPath /\ NothingLost /\ b \in Stored
  BY <1>2 DEF PathInvariant, Stored
<1>4. owned' = {x.key : x \in Stored \ {b}}
  <2>1. \A x \in Stored : x.key = k <=> x = b
    BY <1>1, <1>3 DEF OneCopy
  <2> QED BY <1>2, <1>3, <2>1 DEF NothingLost
<1>5. OramInv' /\ Stored' = (Stored \ {b}) \cup {}
  <2>1. (Stored \ {b}) \cup {} = Stored \ {b} /\ stash' = stash \cup {}
    BY <1>2
  <2>2. \A x \in Stored \ {b} : x.leaf = posMap'[x.key]
    BY <1>2, <1>3 DEF OnItsPath
  <2>3. posMap' \in [Keys -> Leaves \cup {NoLeaf}] /\ owned' \subseteq Keys
    BY <1>2 DEF TypeOK
  <2>4. {b} \in SUBSET held /\ {} \in SUBSET Blocks
    OBVIOUS
  <2> QED BY <1>1, <1>2, <1>4, <2>1, <2>2, <2>3, <2>4, StashKeeps
<1> QED BY <1>1, <1>2, <1>3, <1>5

(* init puts every block on its path or into the stash. *)
LEMMA OramInit == ASSUME Init PROVE OramInv
<1>1. PICK pos \in [InitKeys -> Leaves], v \in Values :
        LET blocks == {[key |-> k, leaf |-> pos[k], val |-> v] : k \in InitKeys}
        IN  \E p \in Placements(blocks, Leaves) :
              /\ tree = [n \in Nodes |-> Bucket(p, n)]
              /\ stash = Bucket(p, NoNode)
              /\ posMap = [k \in Keys |-> IF k \in InitKeys THEN pos[k]
                                          ELSE NoLeaf]
              /\ held = {} /\ owned = InitKeys
              /\ result = NoVal /\ failure = "none"
  BY DEF Init
<1> DEFINE B == {[key |-> k, leaf |-> pos[k], val |-> v] : k \in InitKeys}
<1>2. PICK p \in Placements(B, Leaves) :
              /\ tree = [n \in Nodes |-> Bucket(p, n)]
              /\ stash = Bucket(p, NoNode)
              /\ posMap = [k \in Keys |-> IF k \in InitKeys THEN pos[k]
                                          ELSE NoLeaf]
              /\ held = {} /\ owned = InitKeys
              /\ result = NoVal /\ failure = "none"
  BY <1>1
<1>3. InitKeys \subseteq Keys
  BY OramAssumption
<1>4. B \subseteq Blocks
  BY <1>3 DEF Blocks
<1>5. /\ \A b \in B : b.key \in InitKeys /\ b.leaf = pos[b.key]
      /\ \A b, c \in B : b.key = c.key => b = c
      /\ {b.key : b \in B} = InitKeys
  <2>1. \A b \in B : b.key \in InitKeys /\ b.leaf = pos[b.key]
                     /\ b = [key |-> b.key, leaf |-> pos[b.key], val |-> v]
    OBVIOUS
  <2>2. \A b, c \in B : b.key = c.key => b = c
    BY <2>1
  <2>3. \A k \in InitKeys : \E b \in B : b.key = k
    <3> TAKE k \in InitKeys
    <3> WITNESS [key |-> k, leaf |-> pos[k], val |-> v] \in B
    <3> QED OBVIOUS
  <2> HIDE DEF B
  <2>4. {b.key : b \in B} = InitKeys
    BY <2>1, <2>3
  <2> QED BY <2>1, <2>2, <2>4
<1> HIDE DEF B
<1>6. /\ DOMAIN p = B
      /\ \A b \in B : p[b] \in Nodes \cup {NoNode}
      /\ \A b \in B : p[b] \in Path(b.leaf) \cup {NoNode}
  BY DEF Placements, Eligible, MergedPath, Nodes
<1>7. NoNode \notin Nodes
  BY NodeAssumption
<1>8. \A n : Bucket(p, n) = {b \in B : p[b] = n}
  BY <1>6 DEF Bucket
<1>9. \A n \in Nodes : tree[n] = {b \in B : p[b] = n}
  BY <1>2, <1>8
<1>10. Stored = B
  <2>1. stash = {b \in B : p[b] = NoNode}
    BY <1>2, <1>8
  <2> QED BY <1>2, <1>6, <1>9, <2>1 DEF Stored
<1>11. TypeOK
  <2>1. tree \in [Nodes -> SUBSET Blocks] /\ stash \subseteq Blocks
    BY <1>2, <1>4, <1>8
  <2>2. posMap \in [Keys -> Leaves \cup {NoLeaf}]
    BY <1>2
  <2> QED BY <1>2, <1>3, <2>1, <2>2 DEF TypeOK
<1>12. OneCopy
  BY <1>2, <1>5, <1>7, <1>8, <1>9, <1>10 DEF OneCopy
<1>13. OnItsPath
  <2>1. \A b \in Stored : b.leaf = posMap[b.key]
    BY <1>2, <1>3, <1>5, <1>10
  <2>2. \A n \in Nodes : \A b \in tree[n] : n \in Path(b.leaf)
    BY <1>6, <1>7, <1>9
  <2> QED BY <2>1, <2>2 DEF OnItsPath
<1>14. NothingLost
  BY <1>2, <1>5, <1>10 DEF NothingLost
<1> QED BY <1>2, <1>11, <1>12, <1>13, <1>14 DEF OramInv, PathInvariant, NeverMissing

(* Every step keeps the invariant. *)
LEMMA OramStep == ASSUME OramInv, [Next]_vars PROVE OramInv'
<1>1. CASE UNCHANGED vars
  BY <1>1 DEF vars, OramInv, TypeOK, PathInvariant, NeverMissing, OneCopy,
              OnItsPath, NothingLost, Stored
<1>2. CASE \E k \in Keys, w \in Values \cup {NoWrite} : access(k, w)
  BY <1>2, AccessKeeps
<1>3. CASE dummy_access
  BY <1>3, DummyKeeps
<1>4. CASE \E k \in Keys : Extract(k)
  BY <1>4, ExtractKeeps
<1>5. CASE \E k \in Keys, w \in Values \cup {NoWrite} : GiveBack(k, w)
  BY <1>5, GiveBackKeeps
<1>6. CASE \E k \in Keys, v \in Values : AddNew(k, v)
  BY <1>6, AddNewKeeps
<1>7. CASE \E k \in Keys : Drop(k)
  BY <1>7, DropKeeps
<1> QED BY <1>1, <1>2, <1>3, <1>4, <1>5, <1>6, <1>7 DEF Next

(* PathORAM keeps every block exactly once, in the stash, with the caller  *)
(* or on the path its position map entry names, until an overflow is       *)
(* thrown: for every tree, bucket size, stash limit and set of blocks.     *)
THEOREM PathInvariantHolds == Spec => []PathInvariant
<1>1. Init => OramInv
  BY OramInit
<1>2. OramInv /\ [Next]_vars => OramInv'
  BY OramStep
<1>3. OramInv => PathInvariant
  BY DEF OramInv
<1> QED BY <1>1, <1>2, <1>3, PTL DEF Spec

(* PathORAM::access and extract_from_stash never throw "not found" for a   *)
(* block the caller has stored.                                            *)
THEOREM BlocksAreFound == Spec => [](TypeOK /\ NeverMissing)
<1>1. Init => OramInv
  BY OramInit
<1>2. OramInv /\ [Next]_vars => OramInv'
  BY OramStep
<1>3. OramInv => TypeOK /\ NeverMissing
  BY DEF OramInv
<1> QED BY <1>1, <1>2, <1>3, PTL DEF Spec

-----------------------------------------------------------------------------
(* The memory of blocks the caller sees. *)
Mem == [k \in Keys |-> ValueOf(k)]

MemFacts ==
    /\ Mem \in [Keys -> Values \cup {NoVal}]
    /\ \A b \in Stored : Mem[b.key] = b.val /\ b.key \in Keys /\ b.val \in Values
    /\ \A k \in Keys : (\A b \in Stored : b.key # k) => Mem[k] = NoVal

(* The memory holds, for each id, the payload of its one block. *)
LEMMA MemIs == TypeOK /\ OneCopy => MemFacts
<1> SUFFICES ASSUME TypeOK, OneCopy PROVE MemFacts
  OBVIOUS
<1>1. Stored \subseteq Blocks
  BY DEF TypeOK, Stored
<1>2. \A b \in Stored : b.key \in Keys /\ b.val \in Values
  BY <1>1 DEF Blocks
<1>3. \A b \in Stored : ValueOf(b.key) = b.val
  BY DEF ValueOf, OneCopy
<1>4. \A k : (\A b \in Stored : b.key # k) => ValueOf(k) = NoVal
  BY DEF ValueOf
<1>5. \A k \in Keys : ValueOf(k) \in Values \cup {NoVal}
  BY <1>2, <1>3, <1>4
<1> QED BY <1>2, <1>3, <1>4, <1>5 DEF Mem, MemFacts

(* The same after a step. *)
LEMMA MemIsNext == TypeOK' /\ OneCopy' => MemFacts'
BY MemIs, PTL

(* The contents are of the right type even after an exception. *)
LEMMA MemType == TypeOK => Mem \in [Keys -> Values \cup {NoVal}]
<1> SUFFICES ASSUME TypeOK PROVE Mem \in [Keys -> Values \cup {NoVal}]
  OBVIOUS
<1>1. \A b \in Stored : b.val \in Values
  BY DEF TypeOK, Stored, Blocks
<1>2. ASSUME NEW k \in Keys PROVE ValueOf(k) \in Values \cup {NoVal}
  BY <1>1 DEF ValueOf
<1> QED BY <1>2 DEF Mem

(* The same after a step. *)
LEMMA MemTypeNext == TypeOK' => Mem' \in [Keys -> Values \cup {NoVal}]
<1>1. TypeOK' => (Mem \in [Keys -> Values \cup {NoVal}])'
  BY MemType, PTL
<1> QED BY <1>1

(* One block is replaced by another of the same id: one cell changes. *)
LEMMA MemReplace ==
    ASSUME TypeOK, OneCopy, TypeOK', OneCopy', NEW k \in Keys,
           NEW b \in Stored, NEW c \in Blocks, b.key = k, c.key = k,
           Stored' = (Stored \ {b}) \cup {c}
    PROVE  Mem' = [Mem EXCEPT ![k] = c.val] /\ Mem[k] = b.val
<1>1. /\ Mem \in [Keys -> Values \cup {NoVal}]
      /\ \A x \in Stored : Mem[x.key] = x.val
      /\ \A j \in Keys : (\A x \in Stored : x.key # j) => Mem[j] = NoVal
  BY MemIs DEF MemFacts
<1>2. /\ Mem' \in [Keys -> Values \cup {NoVal}]
      /\ \A x \in Stored' : Mem'[x.key] = x.val
      /\ \A j \in Keys : (\A x \in Stored' : x.key # j) => Mem'[j] = NoVal
  BY MemIsNext DEF MemFacts
<1>3. Mem'[k] = c.val
  BY <1>2
<1>4. ASSUME NEW j \in Keys, j # k PROVE Mem'[j] = Mem[j]
  <2>1. CASE \E x \in Stored : x.key = j
    BY <2>1, <1>1, <1>2, <1>4
  <2>2. CASE \A x \in Stored : x.key # j
    BY <2>2, <1>1, <1>2, <1>4
  <2> QED BY <2>1, <2>2
<1> HIDE DEF Mem
<1> QED BY <1>1, <1>2, <1>3, <1>4

(* A step that throws breaks the memory. *)
LEMMA BreakStep ==
    ASSUME OramInv, OramInv', failure = "none", failure' # "none"
    PROVE  BS!Break
<1>1. Mem' \in [Keys -> Values \cup {NoVal}]
  <2>1. TypeOK'
    BY DEF OramInv
  <2> QED BY <2>1, MemTypeNext
<1> QED BY <1>1 DEF BS!Break, Mem, OramInv, TypeOK

(* Every step is a step of the memory of blocks, or invisible in it. *)
LEMMA StoreStep ==
    ASSUME OramInv, OramInv', [Next]_vars
    PROVE  [BS!BSNext]_(BS!bsVars)
<1> SUFFICES ASSUME Next PROVE BS!BSNext \/ UNCHANGED <<Mem, result, failure>>
  <2>1. ASSUME UNCHANGED vars PROVE UNCHANGED <<Mem, result, failure>>
    BY <2>1 DEF vars, Mem, ValueOf, Stored
  <2> QED BY <2>1 DEF BS!bsVars, Mem
<1>1. failure = "none"
  BY DEF Next, access, dummy_access, Extract, GiveBack, AddNew, Drop
<1>2. CASE failure' # "none"
  BY <1>1, <1>2, BreakStep DEF BS!BSNext
<1>3. CASE failure' = "none"
  <2>1. TypeOK /\ OneCopy
    BY <1>1 DEF OramInv, PathInvariant
  <2>2. TypeOK' /\ OneCopy'
    BY <1>3 DEF OramInv, PathInvariant
  <2>3. NoVal \notin Values /\ NoWrite \notin Values
    BY OramAssumption
  <2>4. ASSUME NEW k \in Keys, NEW w \in Values \cup {NoWrite}, access(k, w)
        PROVE  BS!BSNext
    <3>1. PICK b \in Stored, c \in Blocks :
                /\ b.key = k /\ c.key = k /\ result' = b.val
                /\ c.val = IF w = NoWrite THEN b.val ELSE w
                /\ Stored' = (Stored \ {b}) \cup {c}
      BY <1>3, <2>4, AccessKeeps
    <3>2. Mem' = [Mem EXCEPT ![k] = c.val] /\ Mem[k] = b.val
      BY <2>1, <2>2, <3>1, MemReplace
    <3>3. Mem \in [Keys -> Values \cup {NoVal}] /\ b.val \in Values
      BY <2>1, <3>1, MemIs DEF MemFacts
    <3>4. Mem' = IF w = NoWrite THEN Mem ELSE [Mem EXCEPT ![k] = w]
      BY <3>1, <3>2, <3>3
    <3>5. BS!Access(k, w)
      BY <1>1, <1>3, <2>3, <3>1, <3>2, <3>3, <3>4 DEF BS!Access, Mem
    <3> QED BY <3>5 DEF BS!BSNext
  <2>5. ASSUME dummy_access PROVE UNCHANGED <<Mem, result, failure>>
    BY <1>1, <1>3, <2>5, DummyKeeps DEF Mem, ValueOf
  <2>6. ASSUME NEW k \in Keys, Extract(k) PROVE BS!BSNext
    <3>1. PICK b \in Stored : b.key = k /\ result' = b.val
      BY <2>6, ExtractKeeps
    <3>2. Mem' = Mem
      BY <1>3, <2>6, ExtractKeeps DEF Mem, ValueOf
    <3>3. Mem[k] = b.val /\ b.val \in Values
      BY <2>1, <3>1, MemIs DEF MemFacts
    <3>4. BS!Access(k, NoWrite)
      BY <1>1, <1>3, <2>3, <3>1, <3>2, <3>3 DEF BS!Access, Mem
    <3> QED BY <3>4 DEF BS!BSNext
  <2>7. ASSUME NEW k \in Keys, NEW w \in Values \cup {NoWrite}, GiveBack(k, w)
        PROVE  BS!BSNext
    <3>1. PICK b \in Stored, c \in Blocks :
                /\ b.key = k /\ c.key = k
                /\ Stored' = (Stored \ {b}) \cup {c}
      BY <2>7, GiveBackKeeps
    <3>2. Mem' = [Mem EXCEPT ![k] = c.val] /\ c.val \in Values
      BY <2>1, <2>2, <3>1, MemReplace DEF Blocks
    <3>3. BS!Put(k, c.val)
      BY <1>1, <1>3, <2>7, <3>2, GiveBackKeeps DEF BS!Put, Mem
    <3> QED BY <3>2, <3>3 DEF BS!BSNext
  <2>8. ASSUME NEW k \in Keys, NEW v \in Values, AddNew(k, v)
        PROVE  BS!BSNext
    <3>1. PICK c \in Blocks : c.key = k /\ c.val = v /\ Stored' = Stored \cup {c}
      BY <2>8, AddNewKeeps
    <3>2. \A b \in Stored : b.key # k
      BY <2>8, AddNewKeeps
    <3>3. Mem' = [Mem EXCEPT ![k] = v]
      <4>1. /\ Mem \in [Keys -> Values \cup {NoVal}]
            /\ \A x \in Stored : Mem[x.key] = x.val
            /\ \A j \in Keys : (\A x \in Stored : x.key # j) => Mem[j] = NoVal
        BY <2>1, MemIs DEF MemFacts
      <4>2. /\ Mem' \in [Keys -> Values \cup {NoVal}]
            /\ \A x \in Stored' : Mem'[x.key] = x.val
            /\ \A j \in Keys : (\A x \in Stored' : x.key # j) => Mem'[j] = NoVal
        BY <2>2, MemIsNext DEF MemFacts
      <4>3. Mem'[k] = v
        BY <3>1, <4>2
      <4>4. ASSUME NEW j \in Keys, j # k PROVE Mem'[j] = Mem[j]
        BY <3>1, <4>1, <4>2, <4>4
      <4> QED BY <4>1, <4>2, <4>3, <4>4
    <3>4. BS!Put(k, v)
      BY <1>1, <1>3, <2>8, <3>3, AddNewKeeps DEF BS!Put, Mem
    <3> QED BY <3>4 DEF BS!BSNext
  <2>9. ASSUME NEW k \in Keys, Drop(k) PROVE BS!BSNext
    <3>1. PICK b \in Stored : b.key = k /\ Stored' = Stored \ {b}
      BY <2>9, DropKeeps
    <3>2. Mem' = [Mem EXCEPT ![k] = NoVal]
      <4>1. /\ Mem \in [Keys -> Values \cup {NoVal}]
            /\ \A x \in Stored : Mem[x.key] = x.val
            /\ \A j \in Keys : (\A x \in Stored : x.key # j) => Mem[j] = NoVal
        BY <2>1, MemIs DEF MemFacts
      <4>2. /\ Mem' \in [Keys -> Values \cup {NoVal}]
            /\ \A x \in Stored' : Mem'[x.key] = x.val
            /\ \A j \in Keys : (\A x \in Stored' : x.key # j) => Mem'[j] = NoVal
        BY <2>2, MemIsNext DEF MemFacts
      <4>3. Mem'[k] = NoVal
        BY <2>1, <3>1, <4>2 DEF OneCopy
      <4>4. ASSUME NEW j \in Keys, j # k PROVE Mem'[j] = Mem[j]
        <5>1. CASE \E x \in Stored : x.key = j
          BY <5>1, <3>1, <4>1, <4>2, <4>4
        <5>2. CASE \A x \in Stored : x.key # j
          BY <5>2, <3>1, <4>1, <4>2, <4>4
        <5> QED BY <5>1, <5>2
      <4> QED BY <4>1, <4>2, <4>3, <4>4
    <3>3. BS!Put(k, NoVal)
      BY <1>1, <1>3, <2>9, <3>2, DropKeeps DEF BS!Put, Mem
    <3> QED BY <3>3 DEF BS!BSNext
  <2> QED BY <2>4, <2>5, <2>6, <2>7, <2>8, <2>9 DEF Next
<1> QED BY <1>2, <1>3

(* PathORAM implements BlockStore: whatever paths, leaves and evictions    *)
(* happen inside, the caller reads what it wrote last.                     *)
THEOREM ImplementsMemory == Spec => ImplementsBlockStore
<1>1. Init => OramInv
  BY OramInit
<1>2. OramInv /\ [Next]_vars => OramInv'
  BY OramStep
<1>3. Init => BS!BSInit
  <2> SUFFICES ASSUME Init PROVE BS!BSInit
    OBVIOUS
  <2>1. Mem \in [Keys -> Values \cup {NoVal}]
    BY <1>1, MemType DEF OramInv
  <2>2. result = NoVal /\ failure = "none"
    BY DEF Init
  <2> QED BY <2>1, <2>2 DEF BS!BSInit, Mem
<1>4. OramInv /\ OramInv' /\ [Next]_vars => [BS!BSNext]_(BS!bsVars)
  BY StoreStep
<1> QED BY <1>1, <1>2, <1>3, <1>4, PTL DEF Spec, ImplementsBlockStore, BS!BSSpec

------------------------------------------------------------------------------
(* Numbers and paths.  Induction over the numbers is used in the form of   *)
(* the least number: a property of some number that fails, fails first     *)
(* somewhere.                                                              *)
LEMMA LeastNumber ==
    ASSUME NEW T \in SUBSET Nat, T # {}
    PROVE  \E x \in T : \A y \in T : x <= y
<1> DEFINE R == {ss \in Nat \X Nat : ss[1] < ss[2]}
<1>1. IsWellFoundedOn(R, Nat)
  BY NatLessThanWellFounded DEF OpToRel
<1> HIDE DEF R
<1>2. PICK x \in T : \A y \in T : ~(<<y, x>> \in R)
  BY <1>1, WFMin
<1>3. ASSUME NEW y \in T PROVE x <= y
  <2>1. ~(<<y, x>> \in R) /\ x \in Nat /\ y \in Nat
    BY <1>2
  <2>2. <<y, x>> \in Nat \X Nat /\ <<y, x>>[1] = y /\ <<y, x>>[2] = x
    BY <2>1
  <2>3. ~(y < x)
    BY <2>1, <2>2 DEF R
  <2> QED BY <2>1, <2>3
<1> QED BY <1>3

(* A power of two is a positive number: it counts subsets. *)
LEMMA PowerPositive ==
    ASSUME NEW n \in Nat
    PROVE  2 ^ n \in Nat \ {0}
<1>1. IsFiniteSet(1 .. n) /\ Cardinality(1 .. n) = n
  BY FS_Interval
<1>2. Cardinality(SUBSET (1 .. n)) = 2 ^ n /\ IsFiniteSet(SUBSET (1 .. n))
  BY <1>1, FS_SUBSET
<1>3. Cardinality(SUBSET (1 .. n)) \in Nat
  BY <1>2, FS_CardinalityType
<1>4. Cardinality(SUBSET (1 .. n)) # 0
  BY <1>2, FS_EmptySet
<1> QED BY <1>2, <1>3, <1>4

(* What UpFrom says of number i, given g for the numbers before it. *)
Up(g, i)   == {i} \cup (IF i = 0 THEN {} ELSE g[(i - 1) \div 2])
UpTo(g, n) == g = [i \in 0 .. n |-> Up(g, i)]

(* The parent of a node comes before it. *)
LEMMA ParentBefore ==
    ASSUME NEW i \in Nat, i # 0
    PROVE  (i - 1) \div 2 \in Nat /\ (i - 1) \div 2 < i
OBVIOUS

(* UpTo(g, n) is the equation of UpFrom for the numbers up to n. *)
LEMMA UpToAt ==
    ASSUME NEW g, NEW n \in Nat, UpTo(g, n), NEW i \in Nat, i <= n
    PROVE  g[i] = Up(g, i)
<1> DEFINE F == [j \in 0 .. n |-> Up(g, j)]
<1>1. F[i] = Up(g, i)
  OBVIOUS
<1>2. g = F
  BY DEF UpTo
<1> HIDE DEF F
<1> QED BY <1>1, <1>2

(* It determines g. *)
LEMMA UpToAgree ==
    ASSUME NEW g, NEW h, NEW m \in Nat, NEW n \in Nat, UpTo(g, m), UpTo(h, n),
           NEW i \in Nat, i <= m, i <= n
    PROVE  g[i] = h[i]
<1> DEFINE T == {j \in Nat : j <= m /\ j <= n /\ g[j] # h[j]}
<1>1. SUFFICES ASSUME T # {} PROVE FALSE
  OBVIOUS
<1>2. PICK x \in T : \A y \in T : x <= y
  BY <1>1, LeastNumber
<1>3. g[x] = Up(g, x) /\ h[x] = Up(h, x)
  BY <1>2, UpToAt
<1>4. x # 0 => (x - 1) \div 2 \in Nat /\ (x - 1) \div 2 < x
  BY ParentBefore
<1>5. x # 0 => g[(x - 1) \div 2] = h[(x - 1) \div 2]
  BY <1>2, <1>4
<1> QED BY <1>2, <1>3, <1>5 DEF Up

(* It has a solution. *)
LEMMA UpToExists == ASSUME NEW n \in Nat PROVE \E g : UpTo(g, n)
<1> DEFINE T == {m \in Nat : ~\E g : UpTo(g, m)}
<1>1. SUFFICES ASSUME T # {} PROVE FALSE
  OBVIOUS
<1>2. PICK x \in T : \A y \in T : x <= y
  BY <1>1, LeastNumber
<1>3. CASE x = 0
  <2> DEFINE g == [i \in 0 .. 0 |-> {0}]
  <2>1. g = [i \in 0 .. 0 |-> Up(g, i)]
    BY DEF Up
  <2> QED BY <1>2, <1>3, <2>1 DEF UpTo
<1>4. CASE x # 0
  <2>1. x - 1 \in Nat /\ x - 1 \notin T
    BY <1>2, <1>4
  <2>2. PICK g : UpTo(g, x - 1)
    BY <2>1
  <2> DEFINE h == [i \in 0 .. x |-> IF i = x THEN Up(g, i) ELSE g[i]]
  <2>3. ASSUME NEW i \in 0 .. x PROVE h[i] = Up(h, i)
    <3>1. i # 0 => (i - 1) \div 2 \in 0 .. x - 1
      BY <1>2, ParentBefore
    <3>2. i # 0 => h[(i - 1) \div 2] = g[(i - 1) \div 2]
      BY <3>1, <1>2
    <3>3. Up(h, i) = Up(g, i)
      BY <3>2 DEF Up
    <3>4. i # x => g[i] = Up(g, i)
      BY <2>1, <2>2, <1>2, UpToAt
    <3> QED BY <3>3, <3>4
  <2> HIDE DEF h
  <2>4. h = [i \in 0 .. x |-> Up(h, i)]
    BY <2>3 DEF h
  <2> QED BY <1>2, <2>4 DEF UpTo
<1> QED BY <1>3, <1>4

(* So UpFrom is the function its equation describes. *)
LEMMA UpFromIs == UpFrom = [i \in Nat |-> Up(UpFrom, i)]
<1> DEFINE F(i) == CHOOSE g : UpTo(g, i)
           f == [i \in Nat |-> F(i)[i]]
<1>1. \A i \in Nat : UpTo(F(i), i)
  BY UpToExists
<1> HIDE DEF F
<1>2. ASSUME NEW i \in Nat PROVE f[i] = Up(f, i)
  <2>1. F(i)[i] = Up(F(i), i)
    BY <1>1 DEF UpTo
  <2>2. CASE i = 0
    BY <2>1, <2>2 DEF Up
  <2>3. CASE i # 0
    <3> DEFINE q == (i - 1) \div 2
    <3>1. q \in Nat /\ q <= i /\ q <= q
      BY <2>3, ParentBefore
    <3> HIDE DEF q
    <3>2. F(q)[q] = F(i)[q]
      BY <1>1, <3>1, UpToAgree
    <3>3. f[q] = F(i)[q]
      BY <3>1, <3>2
    <3>4. Up(f, i) = Up(F(i), i)
      BY <3>3, <2>3 DEF Up, q
    <3> QED BY <2>1, <3>4
  <2> QED BY <2>2, <2>3
<1> HIDE DEF f
<1>3. f = [i \in Nat |-> Up(f, i)]
  BY <1>2 DEF f
<1>4. UpFrom = CHOOSE g : g = [i \in Nat |-> Up(g, i)]
  BY DEF UpFrom, Up
<1> QED BY <1>3, <1>4

(* From a node on the way up from x, the way goes on as it does from x. *)
LEMMA UpFromDown ==
    ASSUME NEW x \in Nat
    PROVE /\ x \in UpFrom[x]
          /\ \A n \in UpFrom[x] :
             /\ n \in Nat /\ n <= x
             /\ UpFrom[n] \subseteq UpFrom[x]
             /\ \A m \in UpFrom[x] : m <= n => m \in UpFrom[n]
<1> DEFINE P(j) == \A n \in UpFrom[j] :
             /\ n \in Nat /\ n <= j
             /\ UpFrom[n] \subseteq UpFrom[j]
             /\ \A m \in UpFrom[j] : m <= n => m \in UpFrom[n]
           T == {j \in Nat : ~P(j)}
<1>0. \A j \in Nat : UpFrom[j] = {j} \cup (IF j = 0 THEN {} ELSE UpFrom[(j - 1) \div 2])
  BY UpFromIs DEF Up
<1>1. SUFFICES ASSUME T # {} PROVE FALSE
  BY <1>0
<1>2. PICK j \in T : \A y \in T : j <= y
  BY <1>1, LeastNumber
<1>3. CASE j = 0
  BY <1>0, <1>2, <1>3
<1>4. CASE j # 0
  <2> DEFINE q == (j - 1) \div 2
  <2>1. q \in Nat /\ q < j
    BY <1>4, ParentBefore
  <2>2. P(q)
    BY <2>1, <1>2
  <2>3. UpFrom[j] = {j} \cup UpFrom[q]
    BY <1>0, <1>4
  <2> HIDE DEF q
  <2>4. P(j)
    BY <2>1, <2>2, <2>3
  <2> QED BY <2>4, <1>2
<1> QED BY <1>3, <1>4

(* Two paths are the same above a node they share. *)
LEMMA PathsMerge ==
    ASSUME NEW k \in Leaves, NEW l \in Leaves, NEW n \in Path(k) \cap Path(l),
           NEW m \in Path(k), m <= n
    PROVE  m \in Path(l)
<1>1. LeafRange \in Nat \ {0}
  BY PowerPositive, OramAssumption DEF LeafRange
<1>2. LeafRange - 1 + k \in Nat /\ LeafRange - 1 + l \in Nat
  BY <1>1 DEF Leaves
<1>3. Path(k) = UpFrom[LeafRange - 1 + k] /\ Path(l) = UpFrom[LeafRange - 1 + l]
  BY DEF Path, PathOf
<1>4. m \in UpFrom[n]
  BY <1>2, <1>3, UpFromDown
<1>5. UpFrom[n] \subseteq Path(l)
  BY <1>2, <1>3, UpFromDown
<1> QED BY <1>4, <1>5

(* Nodes are numbers. *)
LEMMA PathsNumbered ==
    ASSUME NEW l \in Leaves
    PROVE  Path(l) \subseteq Nat
<1>1. LeafRange \in Nat \ {0}
  BY PowerPositive, OramAssumption DEF LeafRange
<1>2. LeafRange - 1 + l \in Nat
  BY <1>1 DEF Leaves
<1> QED BY <1>2, UpFromDown DEF Path, PathOf

------------------------------------------------------------------------------
(* A finite set fits into one that is at least as large. *)
LEMMA FitsInto ==
    ASSUME NEW A, NEW B, IsFiniteSet(A), IsFiniteSet(B), Cardinality(A) <= Cardinality(B)
    PROVE  \E f \in [A -> B] : \A x, y \in A : f[x] = f[y] => x = y
<1> DEFINE m == Cardinality(A)
           n == Cardinality(B)
<1>1. m \in Nat /\ n \in Nat /\ ExistsBijection(1 .. m, A) /\ ExistsBijection(1 .. n, B)
  BY FS_CardinalityType
<1>1a. m <= n
  OBVIOUS
<1> HIDE DEF m, n
<1>2. ExistsBijection(A, 1 .. m)
  BY <1>1, Fun_ExistsBijSymmetric
<1>3. PICK f \in Bijection(A, 1 .. m) : TRUE
  BY <1>2, Fun_ExistsBij
<1>4. PICK g \in Bijection(1 .. n, B) : TRUE
  BY <1>1, Fun_ExistsBij
<1>5. f \in [A -> 1 .. m] /\ \A x, y \in A : f[x] = f[y] => x = y
  BY <1>3, Fun_BijectionProperties
<1>6. g \in [1 .. n -> B] /\ \A i, j \in 1 .. n : g[i] = g[j] => i = j
  BY <1>4, Fun_BijectionProperties
<1>7. \A x \in A : f[x] \in 1 .. n
  BY <1>1, <1>1a, <1>5
<1> DEFINE h == [x \in A |-> g[f[x]]]
<1>8. h \in [A -> B] /\ \A x, y \in A : h[x] = h[y] => x = y
  BY <1>5, <1>6, <1>7
<1> HIDE DEF h
<1> QED BY <1>8

(* No set that fits into a finite one is larger. *)
LEMMA NotLarger ==
    ASSUME NEW A, NEW B, IsFiniteSet(B), NEW f \in [A -> B],
           \A x, y \in A : f[x] = f[y] => x = y
    PROVE  IsFiniteSet(A) /\ Cardinality(A) <= Cardinality(B)
<1>1. f \in Injection(A, B)
  BY Fun_IsInj
<1> QED BY <1>1, FS_Injection

(* The buckets that are full on the whole way a block could take: every    *)
(* block that could lie in one of them and found no room there, or lies in *)
(* one, has only such buckets on its way.                                  *)
FullWays(S, L, p) ==
    {n \in MergedPath(L) :
        \E c \in S : /\ n \in Eligible(c, L)
                     /\ \A m \in Eligible(c, L) : Cardinality(Bucket(p, m)) = Z}

(* A block in such a bucket, or left over, could lie in no other bucket. *)
LEMMA FullWaysClosed ==
    ASSUME NEW S, \A b \in S : b.leaf \in Leaves, NEW L \in SUBSET Leaves,
           NEW p \in Placements(S, L), NEW c \in S,
           p[c] = NoNode \/ p[c] \in FullWays(S, L, p)
    PROVE  Eligible(c, L) \subseteq FullWays(S, L, p)
<1>1. \A n \in Eligible(c, L) :
         p[c] = NoNode \/ n > p[c] => Cardinality(Bucket(p, n)) = Z
  BY DEF Placements
<1>2. p[c] \in Eligible(c, L) \cup {NoNode}
  BY DEF Placements
<1>3. Eligible(c, L) \subseteq MergedPath(L)
  BY DEF Eligible
<1>4. ASSUME NEW n \in Eligible(c, L)
      PROVE  Cardinality(Bucket(p, n)) = Z
  <2>1. CASE p[c] = NoNode
    BY <1>1, <2>1
  <2>2. CASE p[c] # NoNode
    <3>1. p[c] \in Eligible(c, L) /\ p[c] \in FullWays(S, L, p)
      BY <1>2, <2>2
    <3>2. PICK d \in S : /\ p[c] \in Eligible(d, L)
                         /\ \A m \in Eligible(d, L) : Cardinality(Bucket(p, m)) = Z
      BY <3>1 DEF FullWays
    <3>3. /\ c.leaf \in Leaves /\ d.leaf \in Leaves
          /\ n \in Path(c.leaf) /\ p[c] \in Path(c.leaf) \cap Path(d.leaf)
          /\ n \in MergedPath(L)
      BY <3>1, <3>2 DEF Eligible
    <3>4. n \in Nat /\ p[c] \in Nat
      BY <3>3, PathsNumbered
    <3>5. CASE n > p[c]
      BY <1>1, <3>5
    <3>6. CASE n <= p[c]
      <4>1. n \in Path(d.leaf)
        BY <3>3, <3>6, PathsMerge
      <4> QED BY <3>2, <3>3, <4>1 DEF Eligible
    <3> QED BY <3>4, <3>5, <3>6
  <2> QED BY <2>1, <2>2
<1> QED BY <1>3, <1>4 DEF FullWays

(* The eviction wastes no room.  Let the blocks of Q have had places o in  *)
(* the buckets of the paths.  Then no more blocks are left over than there *)
(* are blocks outside Q: each block of Q whose place was in FullWays can   *)
(* be charged to a block that now fills that bucket, and every other one   *)
(* is placed itself, outside FullWays.                                     *)
LEMMA NoRoomWasted ==
    ASSUME NEW S, IsFiniteSet(S), \A b \in S : b.leaf \in Leaves,
           NEW L \in SUBSET Leaves, NEW p \in Placements(S, L),
           NEW Q \in SUBSET S, NEW o \in [Q -> MergedPath(L)],
           \A r \in Q : o[r] \in Path(r.leaf),
           \A n \in MergedPath(L) : Cardinality({r \in Q : o[r] = n}) <= Z
    PROVE  Cardinality(Bucket(p, NoNode)) <= Cardinality(S \ Q)
<1> DEFINE M == MergedPath(L)
           H == FullWays(S, L, p)
           U == Bucket(p, NoNode)
           F(n) == [{r \in Q : o[r] = n} -> Bucket(p, n)]
           g(n) == CHOOSE f \in F(n) : \A x, y \in {r \in Q : o[r] = n} : f[x] = f[y] => x = y
           G == [r \in Q |-> IF o[r] \in H THEN g(o[r])[r] ELSE r]
<1>1. /\ DOMAIN p = S
      /\ \A b \in S : p[b] \in Eligible(b, L) \cup {NoNode}
  BY DEF Placements
<1>2. NoNode \notin M /\ M \subseteq Nodes
  BY PathNodes
<1>3. \A n : Bucket(p, n) = {b \in S : p[b] = n}
  BY <1>1 DEF Bucket
<1>4. \A n : IsFiniteSet(Bucket(p, n)) /\ IsFiniteSet({r \in Q : o[r] = n})
  <2>1. \A n : Bucket(p, n) \in SUBSET S /\ {r \in Q : o[r] = n} \in SUBSET S
    BY <1>3
  <2> QED BY <2>1, FS_Subset
<1>5. H \subseteq M /\ \A n \in H : Cardinality(Bucket(p, n)) = Z
  BY DEF FullWays
<1>6. ASSUME NEW n \in H
      PROVE  /\ g(n) \in F(n)
             /\ \A x, y \in {r \in Q : o[r] = n} : g(n)[x] = g(n)[y] => x = y
  <2>1. Cardinality({r \in Q : o[r] = n}) <= Cardinality(Bucket(p, n))
    BY <1>5
  <2> DEFINE A == {r \in Q : o[r] = n}
             B == Bucket(p, n)
  <2>2. IsFiniteSet(A) /\ IsFiniteSet(B) /\ Cardinality(A) <= Cardinality(B)
    BY <1>4, <2>1
  <2> HIDE DEF A, B
  <2>3. \E f \in [A -> B] : \A x, y \in A : f[x] = f[y] => x = y
    BY <2>2, FitsInto
  <2> QED BY <2>3 DEF A, B
<1> HIDE DEF g, H
<1>7. ASSUME NEW r \in Q, o[r] \in H
      PROVE  G[r] \in S /\ p[G[r]] = o[r]
  <2>1. g(o[r]) \in F(o[r]) /\ r \in {q \in Q : o[q] = o[r]}
    BY <1>6, <1>7
  <2>2. G[r] \in Bucket(p, o[r])
    BY <2>1, <1>7
  <2> QED BY <2>2, <1>3
<1>8. ASSUME NEW r \in Q, o[r] \notin H
      PROVE  G[r] = r /\ p[r] # NoNode /\ p[r] \notin H
  <2>1. o[r] \in Eligible(r, L)
    BY DEF Eligible
  <2>2. ~(Eligible(r, L) \subseteq H)
    BY <1>8, <2>1
  <2> QED BY <1>8, <2>2, FullWaysClosed DEF H
<1>9. G \in [Q -> S \ U]
  <2>1. ASSUME NEW r \in Q PROVE G[r] \in S \ U
    BY <1>2, <1>3, <1>5, <1>7, <1>8
  <2> QED BY <2>1
<1>10. ASSUME NEW q \in Q, NEW r \in Q, G[q] = G[r]
       PROVE  q = r
  <2>1. CASE o[q] \in H /\ o[r] \in H
    <3>1. o[q] = o[r]
      BY <1>7, <1>10, <2>1
    <3>2. g(o[r])[q] = g(o[r])[r]
      BY <3>1, <1>10, <2>1
    <3> QED BY <3>1, <3>2, <1>6, <2>1
  <2>2. CASE o[q] \notin H /\ o[r] \notin H
    BY <1>8, <1>10, <2>2
  <2>3. CASE o[q] \in H /\ o[r] \notin H
    BY <1>7, <1>8, <1>10, <2>3
  <2>4. CASE o[q] \notin H /\ o[r] \in H
    BY <1>7, <1>8, <1>10, <2>4
  <2> QED BY <2>1, <2>2, <2>3, <2>4
<1> HIDE DEF G
<1>11. /\ U \in SUBSET S /\ IsFiniteSet(S \ U) /\ S \cap U = U /\ S \cap Q = Q
       /\ Cardinality(S \ U) = Cardinality(S) - Cardinality(U)
       /\ Cardinality(S \ Q) = Cardinality(S) - Cardinality(Q)
  <2>1. U \in SUBSET S
    BY <1>3
  <2>2. S \cap U = U /\ S \cap Q = Q
    BY <2>1
  <2> QED BY <2>1, <2>2, FS_Difference
<1>12. Cardinality(Q) <= Cardinality(S \ U)
  BY <1>9, <1>10, <1>11, NotLarger
<1>13. /\ Cardinality(S) \in Nat /\ Cardinality(U) \in Nat /\ Cardinality(Q) \in Nat
  <2>1. IsFiniteSet(U) /\ IsFiniteSet(Q)
    BY <1>11, FS_Subset
  <2> QED BY <2>1, FS_CardinalityType
<1> QED BY <1>11, <1>12, <1>13

(* The same with the blocks that had a place given bucket by bucket. *)
LEMMA LeftOver ==
    ASSUME NEW S, IsFiniteSet(S), \A b \in S : b.leaf \in Leaves,
           NEW L \in SUBSET Leaves, NEW p \in Placements(S, L), NEW w,
           \A n \in MergedPath(L) : /\ IsFiniteSet(w[n]) /\ Cardinality(w[n]) <= Z
                                    /\ \A r \in w[n] : n \in Path(r.leaf)
    PROVE  Cardinality(Bucket(p, NoNode)) <= Cardinality(S \ UNION {w[n] : n \in MergedPath(L)})
<1> DEFINE M == MergedPath(L)
           W == UNION {w[n] : n \in M}
           Q == S \cap W
           o == [r \in Q |-> CHOOSE n \in M : r \in w[n]]
<1>1. \A r \in Q : o[r] \in M /\ r \in w[o[r]]
  <2> TAKE r \in Q
  <2>1. \E n \in M : r \in w[n]
    OBVIOUS
  <2> QED BY <2>1
<1>2. Q \in SUBSET S /\ S \ Q = S \ W
  OBVIOUS
<1> HIDE DEF W, Q
<1>3. o \in [Q -> M]
  BY <1>1
<1>4. \A r \in Q : o[r] \in Path(r.leaf)
  BY <1>1
<1>5. ASSUME NEW n \in M
      PROVE  Cardinality({r \in Q : o[r] = n}) <= Z
  <2> DEFINE A == {r \in Q : o[r] = n}
             B == w[n]
  <2>1. A \in SUBSET B
    BY <1>1
  <2>2. IsFiniteSet(B) /\ Cardinality(B) <= Z
    BY <1>5
  <2> HIDE DEF A, B
  <2>3. Cardinality(A) <= Cardinality(B) /\ IsFiniteSet(A)
    BY <2>1, <2>2, FS_Subset
  <2>4. Cardinality(A) \in Nat /\ Cardinality(B) \in Nat /\ Z \in Nat
    BY <2>2, <2>3, FS_CardinalityType, OramAssumption
  <2>5. Cardinality(A) <= Z
    BY <2>2, <2>3, <2>4
  <2> QED BY <2>5 DEF A
<1> HIDE DEF o
<1>6. Cardinality(Bucket(p, NoNode)) <= Cardinality(S \ Q)
  BY <1>2, <1>3, <1>4, <1>5, NoRoomWasted
<1> QED BY <1>2, <1>6 DEF W

------------------------------------------------------------------------------
(* Every bucket holds at most Z blocks. *)
BucketsHold == \A n \in Nodes : Cardinality(tree[n]) <= Z

(* There are finitely many blocks: one for an id. *)
LEMMA StoredFinite ==
    ASSUME OramInv, failure = "none"
    PROVE  IsFiniteSet(Stored) /\ IsFiniteSet(stash) /\ \A n \in Nodes : IsFiniteSet(tree[n])
<1> DEFINE f == [b \in Stored |-> b.key]
<1>1. OneCopy /\ TypeOK
  BY DEF OramInv, PathInvariant
<1>2. f \in [Stored -> Keys]
  <2>1. Stored \subseteq Blocks
    BY <1>1 DEF TypeOK, Stored
  <2> QED BY <2>1 DEF Blocks
<1>3. \A b, c \in Stored : f[b] = f[c] => b = c
  BY <1>1 DEF OneCopy
<1> HIDE DEF f
<1>4. IsFiniteSet(Stored)
  BY <1>2, <1>3, NotLarger, OramAssumption
<1>5. stash \in SUBSET Stored /\ \A n \in Nodes : tree[n] \in SUBSET Stored
  BY DEF Stored
<1> QED BY <1>4, <1>5, FS_Subset

(* The buckets after an eviction. *)
LEMMA EvictHolds ==
    ASSUME BucketsHold, NEW S, NEW L \in SUBSET Leaves, Evict(S, L)
    PROVE  BucketsHold'
<1>1. PICK p \in Placements(S, L) :
        \/ tree' = tree
        \/ tree' = [n \in Nodes |-> IF n \in MergedPath(L) THEN Bucket(p, n) ELSE tree[n]]
  BY DEF Evict
<1>2. \A n \in MergedPath(L) : Cardinality(Bucket(p, n)) <= Z
  BY DEF Placements
<1> QED BY <1>1, <1>2 DEF BucketsHold

(* No step puts more blocks into a bucket. *)
LEMMA HoldsStep ==
    ASSUME OramInv, BucketsHold, [Next]_vars
    PROVE  BucketsHold'
<1>1. \A l \in Leaves : \A L \in Rounds(l) : L \in SUBSET Leaves
  BY RoundLeaves
<1>2. ASSUME NEW k \in owned \ HeldKeys, failure = "none"
      PROVE  posMap[k] \in Leaves
  BY <1>2, FoundOnPath DEF OramInv
<1>3. CASE \E k \in Keys, w \in Values \cup {NoWrite} : access(k, w)
  <2>1. PICK k \in Keys, w \in Values \cup {NoWrite} : access(k, w)
    BY <1>3
  <2>2. posMap[k] \in Leaves
    BY <1>2, <2>1 DEF access
  <2>3. \/ tree' = tree
        \/ \E S : Evict(S, {posMap[k]})
    BY <2>1 DEF access, Missing
  <2> QED BY <2>2, <2>3, EvictHolds DEF BucketsHold
<1>4. CASE dummy_access
  BY <1>1, <1>4, EvictHolds DEF dummy_access
<1>5. CASE \E k \in Keys : Extract(k)
  <2>1. PICK k \in Keys : Extract(k)
    BY <1>5
  <2>2. posMap[k] \in Leaves
    BY <1>2, <2>1 DEF Extract
  <2>3. \/ tree' = tree
        \/ \E L \in Rounds(posMap[k]) : \E S : Evict(S, L)
    BY <2>1 DEF Extract, Missing
  <2> QED BY <1>1, <2>2, <2>3, EvictHolds DEF BucketsHold
<1> QED BY <1>3, <1>4, <1>5 DEF Next, vars, GiveBack, AddNew, Drop, BucketsHold

(* When the overflow is thrown, the blocks that are evicted and were not   *)
(* in a bucket before are too many for the stash.  w says what blocks are  *)
(* counted as having been in the buckets.                                  *)
LEMMA ThrownForStash ==
    ASSUME NEW S \in SUBSET Blocks, IsFiniteSet(S), NEW L \in SUBSET Leaves,
           failure = "none", Evict(S, L), failure' = "overflow", NEW w,
           \A n \in MergedPath(L) : /\ IsFiniteSet(w[n]) /\ Cardinality(w[n]) <= Z
                                    /\ \A r \in w[n] : n \in Path(r.leaf),
           NEW T, IsFiniteSet(T), S \ UNION {w[n] : n \in MergedPath(L)} \subseteq T
    PROVE  Cardinality(T) > StashMax
<1> DEFINE D == S \ UNION {w[n] : n \in MergedPath(L)}
<1>1. PICK p \in Placements(S, L) : Cardinality(Bucket(p, NoNode)) > StashMax
  BY DEF Evict
<1>2. Cardinality(Bucket(p, NoNode)) <= Cardinality(D)
  BY LeftOver DEF Blocks
<1>3. D \in SUBSET T
  OBVIOUS
<1> HIDE DEF D
<1>4. Cardinality(D) <= Cardinality(T) /\ IsFiniteSet(D)
  BY <1>3, FS_Subset
<1>5. Bucket(p, NoNode) \in SUBSET S
  BY DEF Placements, Bucket
<1>6. Cardinality(D) \in Nat /\ Cardinality(T) \in Nat /\ Cardinality(Bucket(p, NoNode)) \in Nat
  <2>1. IsFiniteSet(Bucket(p, NoNode))
    BY <1>5, FS_Subset
  <2> QED BY <1>4, <2>1, FS_CardinalityType
<1> QED BY <1>1, <1>2, <1>4, <1>6, OramAssumption

(* What a round reads, with every block counted in the bucket it was in. *)
LEMMA ReadBuckets ==
    ASSUME OramInv, BucketsHold, failure = "none", NEW L \in SUBSET Leaves
    PROVE  /\ WithPaths(L) \subseteq Blocks /\ IsFiniteSet(WithPaths(L)) /\ IsFiniteSet(stash)
           /\ WithPaths(L) = stash \cup UNION {tree[n] : n \in MergedPath(L)}
           /\ \A n \in MergedPath(L) : /\ IsFiniteSet(tree[n]) /\ Cardinality(tree[n]) <= Z
                                       /\ \A r \in tree[n] : n \in Path(r.leaf)
<1>1. OneCopy /\ OnItsPath /\ TypeOK /\ PathInvariant
  BY DEF OramInv, PathInvariant
<1>2. IsFiniteSet(Stored) /\ IsFiniteSet(stash) /\ \A n \in Nodes : IsFiniteSet(tree[n])
  BY StoredFinite
<1>3. MergedPath(L) \subseteq Nodes
  BY PathNodes
<1>4. WithPaths(L) \subseteq Blocks /\ WithPaths(L) \in SUBSET Stored
  BY <1>1, ReadPaths
<1>5. IsFiniteSet(WithPaths(L))
  BY <1>2, <1>4, FS_Subset
<1> QED BY <1>1, <1>2, <1>3, <1>4, <1>5 DEF WithPaths, OnItsPath, BucketsHold

(* A dummy access overflows a stash that was over its limit. *)
LEMMA DummyOverflows ==
    ASSUME OramInv, BucketsHold, dummy_access, failure' = "overflow"
    PROVE  Cardinality(stash) > StashMax
<1>1. PICK leaf \in Leaves : \E L \in Rounds(leaf) : Evict(WithPaths(L), L)
  BY DEF dummy_access
<1>2. PICK L \in Rounds(leaf) : Evict(WithPaths(L), L)
  BY <1>1
<1>3. L \in SUBSET Leaves /\ failure = "none"
  BY RoundLeaves DEF dummy_access
<1>4. /\ WithPaths(L) \in SUBSET Blocks /\ IsFiniteSet(WithPaths(L)) /\ IsFiniteSet(stash)
      /\ WithPaths(L) \ UNION {tree[n] : n \in MergedPath(L)} \subseteq stash
      /\ \A n \in MergedPath(L) : /\ IsFiniteSet(tree[n]) /\ Cardinality(tree[n]) <= Z
                                  /\ \A r \in tree[n] : n \in Path(r.leaf)
  BY <1>3, ReadBuckets
<1> QED BY <1>2, <1>3, <1>4, ThrownForStash

(* So does taking a block out. *)
LEMMA ExtractOverflows ==
    ASSUME OramInv, BucketsHold, NEW k \in Keys, Extract(k), failure' = "overflow"
    PROVE  Cardinality(stash) > StashMax
<1>1. failure = "none" /\ k \in owned \ HeldKeys
  BY DEF Extract
<1>2. posMap[k] \in Leaves
  BY <1>1, FoundOnPath DEF OramInv
<1>3. PICK L \in Rounds(posMap[k]) :
         \/ failure' = "missing"
         \/ \E b \in WithPaths(L) : Evict(WithPaths(L) \ {b}, L)
  BY DEF Extract, Missing
<1>4. PICK b \in WithPaths(L) : Evict(WithPaths(L) \ {b}, L)
  BY <1>3
<1>5. L \in SUBSET Leaves
  BY <1>2, RoundLeaves
<1>6. /\ WithPaths(L) \in SUBSET Blocks /\ IsFiniteSet(WithPaths(L)) /\ IsFiniteSet(stash)
      /\ WithPaths(L) \ UNION {tree[n] : n \in MergedPath(L)} \subseteq stash
      /\ \A n \in MergedPath(L) : /\ IsFiniteSet(tree[n]) /\ Cardinality(tree[n]) <= Z
                                  /\ \A r \in tree[n] : n \in Path(r.leaf)
  BY <1>1, <1>5, ReadBuckets
<1>7. IsFiniteSet(WithPaths(L) \ {b})
  BY <1>6, FS_RemoveElement
<1> DEFINE S == WithPaths(L) \ {b}
<1>8. /\ S \in SUBSET Blocks /\ IsFiniteSet(S) /\ Evict(S, L)
      /\ S \ UNION {tree[n] : n \in MergedPath(L)} \subseteq stash
  BY <1>4, <1>6, <1>7
<1> HIDE DEF S
<1> QED BY <1>1, <1>5, <1>6, <1>8, ThrownForStash

(* An access overflows a stash that was over its limit, or at it if the    *)
(* block changes its leaf.  A block that keeps its leaf is counted where   *)
(* it was.                                                                 *)
LEMMA AccessOverflows ==
    ASSUME OramInv, BucketsHold, NEW k \in Keys, NEW w \in Values \cup {NoWrite},
           access(k, w), failure' = "overflow"
    PROVE  \/ Cardinality(stash) > StashMax
           \/ Cardinality(stash) = StashMax /\ posMap' # posMap
<1>1. failure = "none" /\ k \in owned \ HeldKeys
  BY DEF access
<1>2. posMap[k] \in Leaves /\ OneCopy /\ OnItsPath /\ TypeOK
  BY <1>1, FoundOnPath DEF OramInv, PathInvariant
<1> DEFINE L == {posMap[k]}
           R == UNION {tree[n] : n \in MergedPath(L)}
           C(new, b) == [key |-> k, leaf |-> new, val |-> IF w = NoWrite THEN b.val ELSE w]
           S(new, b) == (WithPaths(L) \ {b}) \cup {C(new, b)}
<1>3. PICK new \in Leaves :
         /\ posMap' = [posMap EXCEPT ![k] = new]
         /\ \/ failure' = "missing"
            \/ \E b \in WithPaths(L) : b.key = k /\ Evict(S(new, b), L)
  BY DEF access, Missing
<1>4. PICK b \in WithPaths(L) : b.key = k /\ Evict(S(new, b), L)
  BY <1>3
<1>5. L \in SUBSET Leaves
  BY <1>2
<1>6. /\ WithPaths(L) \in SUBSET Blocks /\ IsFiniteSet(WithPaths(L)) /\ IsFiniteSet(stash)
      /\ WithPaths(L) = stash \cup R
      /\ \A n \in MergedPath(L) : /\ IsFiniteSet(tree[n]) /\ Cardinality(tree[n]) <= Z
                                  /\ \A r \in tree[n] : n \in Path(r.leaf)
  BY <1>1, <1>5, ReadBuckets
<1>b. b \in WithPaths(L)
  BY <1>4
<1> DEFINE c == C(new, b)
           A == S(new, b)
<1>7. A = (WithPaths(L) \ {b}) \cup {c} /\ Evict(A, L) /\ c.leaf = new /\ c \in Blocks
  BY <1>4, <1>6 DEF Blocks
<1>u. R = UNION {tree[n] : n \in MergedPath(L)}
  OBVIOUS
<1> HIDE DEF C, S, c, A, L, R
<1>8. IsFiniteSet(A) /\ A \in SUBSET Blocks
  <2>1. IsFiniteSet(WithPaths(L) \ {b})
    BY <1>6, FS_RemoveElement
  <2> QED BY <1>6, <1>7, <2>1, FS_AddElement
<1>9. Cardinality(stash) \in Nat /\ StashMax \in Nat /\ Z \in Nat
  BY <1>6, FS_CardinalityType, OramAssumption
<1>10. IsFiniteSet(stash \cup {c}) /\ Cardinality(stash \cup {c}) <= Cardinality(stash) + 1
  <2>1. /\ IsFiniteSet(stash \cup {c})
        /\ Cardinality(stash \cup {c}) = IF c \in stash THEN Cardinality(stash)
                                         ELSE Cardinality(stash) + 1
    BY <1>6, FS_AddElement
  <2> QED BY <1>9, <2>1
<1>11. Cardinality(stash) + 1 > StashMax
  <2>1. A \ UNION {tree[n] : n \in MergedPath(L)} \subseteq stash \cup {c}
    BY <1>6, <1>7, <1>u
  <2>2. Cardinality(stash \cup {c}) > StashMax
    BY <1>1, <1>5, <1>6, <1>7, <1>8, <1>10, <2>1, ThrownForStash
  <2>3. Cardinality(stash \cup {c}) \in Nat
    BY <1>10, FS_CardinalityType
  <2> QED BY <1>9, <1>10, <2>2, <2>3
<1>12. ASSUME posMap' = posMap PROVE Cardinality(stash) > StashMax
  <2>1. posMap[k] = new
    BY <1>2, <1>3, <1>12 DEF TypeOK
  <2>2. b \in Stored
    <3>1. MergedPath(L) \subseteq Nodes
      BY <1>5, PathNodes
    <3> QED BY <1>6, <1>u, <1>b, <3>1 DEF Stored
  <2>3. b.leaf = new
    BY <1>2, <1>4, <2>1, <2>2 DEF OnItsPath
  <2>4. CASE b \in stash
    <3>1. /\ IsFiniteSet((stash \ {b}) \cup {c})
          /\ Cardinality((stash \ {b}) \cup {c}) <= Cardinality(stash)
      <4>1. IsFiniteSet(stash \ {b}) /\ Cardinality(stash \ {b}) = Cardinality(stash) - 1
        BY <1>6, <2>4, FS_RemoveElement
      <4>2. /\ IsFiniteSet((stash \ {b}) \cup {c})
            /\ Cardinality((stash \ {b}) \cup {c}) = IF c \in stash \ {b} THEN Cardinality(stash \ {b})
                                                    ELSE Cardinality(stash \ {b}) + 1
        BY <4>1, FS_AddElement
      <4> QED BY <1>9, <4>1, <4>2
    <3>2. A \ UNION {tree[n] : n \in MergedPath(L)} \subseteq (stash \ {b}) \cup {c}
      BY <1>6, <1>7, <1>u
    <3>3. Cardinality((stash \ {b}) \cup {c}) > StashMax
      BY <1>1, <1>5, <1>6, <1>7, <1>8, <3>1, <3>2, ThrownForStash
    <3>4. Cardinality((stash \ {b}) \cup {c}) \in Nat
      BY <3>1, FS_CardinalityType
    <3> QED BY <1>9, <3>1, <3>3, <3>4
  <2>5. CASE b \notin stash
    <3>1. PICK m \in MergedPath(L) : b \in tree[m]
      BY <1>6, <1>u, <1>b, <2>5
    <3> DEFINE V(n) == IF n = m THEN (tree[m] \ {b}) \cup {c} ELSE tree[n]
               v == [n \in MergedPath(L) |-> V(n)]
    <3>2. IsFiniteSet((tree[m] \ {b}) \cup {c}) /\ Cardinality((tree[m] \ {b}) \cup {c}) <= Z
      <4>1. IsFiniteSet(tree[m] \ {b}) /\ Cardinality(tree[m] \ {b}) = Cardinality(tree[m]) - 1
        BY <1>6, <3>1, FS_RemoveElement
      <4>2. /\ IsFiniteSet((tree[m] \ {b}) \cup {c})
            /\ Cardinality((tree[m] \ {b}) \cup {c}) =
                 IF c \in tree[m] \ {b} THEN Cardinality(tree[m] \ {b})
                 ELSE Cardinality(tree[m] \ {b}) + 1
        BY <4>1, FS_AddElement
      <4>3. Cardinality(tree[m]) \in Nat /\ Cardinality(tree[m]) <= Z
        BY <1>6, <3>1, FS_CardinalityType
      <4> QED BY <1>9, <4>1, <4>2, <4>3
    <3>3. m \in Path(c.leaf)
      BY <1>6, <1>7, <2>3, <3>1
    <3>4. \A n \in MergedPath(L) : /\ IsFiniteSet(v[n]) /\ Cardinality(v[n]) <= Z
                                   /\ \A r \in v[n] : n \in Path(r.leaf)
      BY <1>6, <3>2, <3>3
    <3>5. A \ UNION {v[n] : n \in MergedPath(L)} \subseteq stash
      <4>1. c \in v[m]
        BY <3>1
      <4>2. \A n \in MergedPath(L) : tree[n] \ {b} \subseteq v[n]
        OBVIOUS
      <4> HIDE DEF v, V
      <4> SUFFICES ASSUME NEW r \in A, r \notin stash
                   PROVE  \E n \in MergedPath(L) : r \in v[n]
        OBVIOUS
      <4>3. CASE r = c
        BY <3>1, <4>1, <4>3
      <4>4. CASE r # c
        <5>1. r \in R /\ r # b
          BY <1>6, <1>7, <4>4
        <5> QED BY <1>u, <4>2, <5>1
      <4> QED BY <4>3, <4>4
    <3>6. \A n \in MergedPath(L) : v[n] \in SUBSET Blocks
      <4>1. MergedPath(L) \subseteq Nodes
        BY <1>5, PathNodes
      <4> QED BY <1>2, <1>7, <4>1 DEF TypeOK
    <3> HIDE DEF v, V
    <3> QED BY <1>1, <1>5, <1>6, <1>7, <1>8, <3>4, <3>5, ThrownForStash
  <2> QED BY <2>4, <2>5
<1> QED BY <1>9, <1>11, <1>12

(* The overflow exception is thrown only by a call that found the stash at *)
(* its limit (an access that moves its block) or over it: an eviction      *)
(* leaves no more blocks in the stash than were there, and the one added.  *)
THEOREM OverflowsOnlyWhenFull == Spec => OverflowOnlyWhenFull
<1> DEFINE A == failure = "none" /\ failure' = "overflow" =>
                  \/ Cardinality(stash) > StashMax
                  \/ Cardinality(stash) = StashMax /\ posMap' # posMap
<1>1. Init => OramInv /\ BucketsHold
  <2>1. Init => OramInv
    BY OramInit
  <2>2. Init => BucketsHold
    <3> SUFFICES ASSUME Init PROVE BucketsHold
      OBVIOUS
    <3>1. PICK S : \E p \in Placements(S, Leaves) : tree = [n \in Nodes |-> Bucket(p, n)]
      BY DEF Init
    <3>2. MergedPath(Leaves) = Nodes
      BY DEF MergedPath, Nodes
    <3> QED BY <3>1, <3>2 DEF Placements, BucketsHold
  <2> QED BY <2>1, <2>2
<1>2. OramInv /\ BucketsHold /\ [Next]_vars => (OramInv /\ BucketsHold)'
  BY OramStep, HoldsStep
<1>3. OramInv /\ BucketsHold /\ [Next]_vars => [A]_vars
  <2> SUFFICES ASSUME OramInv, BucketsHold, Next, failure = "none", failure' = "overflow"
               PROVE  A
    OBVIOUS
  <2>1. CASE \E k \in Keys, w \in Values \cup {NoWrite} : access(k, w)
    BY <2>1, AccessOverflows
  <2>2. CASE dummy_access
    BY <2>2, DummyOverflows
  <2>3. CASE \E k \in Keys : Extract(k)
    BY <2>3, ExtractOverflows
  <2>4. failure' = failure => FALSE
    OBVIOUS
  <2> HIDE DEF A
  <2> QED BY <2>1, <2>2, <2>3, <2>4 DEF Next, GiveBack, AddNew, Drop
<1> QED BY <1>1, <1>2, <1>3, PTL DEF Spec, OverflowOnlyWhenFull
=============================================================================
