---------------------- MODULE InterleavedRoundsProofs ----------------------
(***************************************************************************)
(* The data ORAM in the loop of interleaved_access, as long as no two data *)
(* paths meet in one batch: every block stays in one place, under the leaf *)
(* that its reader is going to ask for.                                    *)
(***************************************************************************)
EXTENDS InterleavedRounds, FiniteSetTheorems, TLAPS

(* The main path is read in the round after its trigger, the dummy path    *)
(* (full-oblivious mode) in the one after that, the scan's in the round    *)
(* after its own trigger: these are different rounds.  If they are not,    *)
(* two paths of one tree are evicted from one stash one after the other.   *)
RoundsApart ==
    \A m \in MainRounds, s \in ScanRounds : s # m /\ (FullObliv => s # m + 1)

(* The state of the access under way. *)
Copy  == [key : Keys, leaf : Leaves, val : Values, n : {0}]
Paths == [st : DSteps, blk : Keys \cup {NoBlock},
          leaf : Leaves \cup {NoLeaf}, new : Leaves \cup {NoLeaf}]
Plans == [blk : Keys \cup {NoBlock}, w : Values \cup {NoWrite}, at : MainRounds \cup {0},
          scanBlk : Keys \cup {NoBlock}, scanAt : ScanRounds \cup {0}]

Typed ==
    /\ tree \in [P!Nodes -> SUBSET Copy] /\ stash \in SUBSET Copy
    /\ posMap \in [Keys -> Leaves] /\ mem \in [Keys -> Values]
    /\ round \in Nat /\ plan \in Plans
    /\ main \in Paths /\ dd \in Paths /\ scan \in Paths

(* When a path is idle, read, and done. *)
OnTime(x, at) ==
    /\ x.st = "IDLE" => round <= at
    /\ x.st = "NEED_READ" => round = at + 1
    /\ x.st = "DONE" => round > at

(* What a path that is to be read asks for. *)
Asks(x, blk) ==
    x.st = "NEED_READ" =>
        /\ x.blk = blk /\ x.leaf \in Leaves
        /\ blk # NoBlock => x.new = posMap[blk]

(* The plan of the access and the progress of its three paths. *)
Scheduled ==
    /\ {main.st, dd.st, scan.st} \subseteq {"IDLE", "NEED_READ", "DONE"}
    /\ Idle => main.st = "DONE" /\ dd.st = "DONE" /\ scan.st = "DONE"
    /\ ~Idle =>
         /\ plan.at \in MainRounds /\ OnTime(main, plan.at) /\ Asks(main, plan.blk)
         /\ plan.scanBlk = NoBlock <=> plan.scanAt = 0
         /\ plan.scanBlk = plan.blk /\ plan.blk # NoBlock => plan.scanAt < plan.at
         /\ OnTime(scan, plan.scanAt) /\ Asks(scan, plan.scanBlk)
         /\ dd.st # "DONE" => FullObliv
         /\ dd.st = "NEED_READ" =>
              /\ main.st = "DONE" /\ dd.leaf \in Leaves
              /\ round = plan.at + 2 \/ plan.at = OmapRounds
         /\ plan.blk # NoBlock /\ plan.w # NoWrite => mem[plan.blk] = plan.w

Answered == main.st = "DONE" /\ plan.blk # NoBlock => got = mem[plan.blk]

(* Every block exists once, in the stash or in one bucket on the path of   *)
(* the leaf it carries.                                                    *)
Whole ==
    /\ \A b, c \in AllCopies : b.key = c.key => b = c
    /\ \A m, n \in P!Nodes : m # n => tree[m] \cap tree[n] = {}
    /\ \A n \in P!Nodes : tree[n] \cap stash = {}
    /\ \A n \in P!Nodes : \A b \in tree[n] : n \in P!Path(b.leaf)
    /\ \A k \in Keys : \E b \in AllCopies : b.key = k

(* The leaf under which a block is: that of the path which is going to     *)
(* read it, although the position map has the next one already.            *)
LeafOf(k) ==
    IF main.st = "NEED_READ" /\ main.blk = k THEN main.leaf
    ELSE IF scan.st = "NEED_READ" /\ scan.blk = k THEN scan.leaf ELSE posMap[k]

(* The block an access under way has still to write. *)
Unwritten(k) == main.st # "DONE" /\ plan.blk = k /\ plan.w # NoWrite

Placed == \A b \in AllCopies : /\ b.leaf = LeafOf(b.key)
                               /\ b.val = mem[b.key] \/ Unwritten(b.key)

RoundsInv ==
    /\ failure \in {"none", "overflow"}
    /\ failure = "none" => Typed /\ Scheduled /\ Answered /\ Whole /\ Placed

-----------------------------------------------------------------------------
(* What is read, changed in the stash and written back.                    *)

(* The path of a leaf is in the tree, and the paths of one leaf are one.   *)
LEMMA OnePath ==
    ASSUME NEW leaf \in Leaves
    PROVE  P!Path(leaf) \subseteq P!Nodes /\ P!MergedPath({leaf}) = P!Path(leaf)
BY DEF Leaves, P!Nodes, P!MergedPath

(* All that a round sees of the tree after reading the path of leaf. *)
Seen(leaf) == stash \cup UNION {tree[m] : m \in P!Path(leaf)}

(* Copies of a block in a set that holds it once. *)
LEMMA OneOfEach ==
    ASSUME NEW S \in SUBSET Copy, \A x, y \in S : x.key = y.key => x = y, NEW b \in S
    PROVE  Copies(S, b) = {b}
BY DEF Copies, Copy

(* A stash without the block has no copy of it. *)
LEMMA NoneOfIt ==
    ASSUME NEW S, NEW b, \A c \in S : c.key # b.key
    PROVE  Copies(S, b) = {}
BY DEF Copies

(* Reading a path doubles nothing: the stash and the buckets of the path   *)
(* share no block, so every number of copies is one.                       *)
LEMMA ReadOnce ==
    ASSUME Typed, Whole, NEW leaf \in Leaves
    PROVE  ApplyFetchedPath(stash, leaf) = Seen(leaf)
<1> DEFINE path == P!Path(leaf)
           read == UNION {tree[m] : m \in path}
           In(b) == {mc \in path \X Copies(read, b) : mc[2] \in tree[mc[1]]}
           count(b) == Cardinality(Copies(stash, b)) + Cardinality(In(b))
<1>1. path \subseteq P!Nodes
  BY OnePath
<1>2. stash \in SUBSET Copy /\ read \in SUBSET Copy /\ stash \cup read \subseteq AllCopies
  BY <1>1 DEF Typed, AllCopies
<1>3. \A x, y \in stash \cup read : x.key = y.key => x = y
  BY <1>2 DEF Whole
<1>4. ASSUME NEW b \in stash \cup read PROVE count(b) = 1
  <2>1. CASE b \in stash
    <3>1. b \notin read
      BY <1>1, <2>1 DEF Whole
    <3> HIDE DEF read
    <3>2. \A c \in read : c.key # b.key
      BY <1>3, <3>1, <2>1
    <3>3. Copies(stash, b) = {b}
      BY <1>2, <1>3, <2>1, OneOfEach
    <3>4. Copies(read, b) = {}
      BY <3>2, NoneOfIt
    <3>5. In(b) = {}
      BY <3>4
    <3> HIDE DEF In
    <3> QED BY <3>3, <3>5, FS_EmptySet, FS_Singleton
  <2>2. CASE b \notin stash
    <3>1. PICK m \in path : b \in tree[m]
      BY <2>2
    <3>2. \A n \in path : b \in tree[n] => n = m
      BY <1>1, <3>1 DEF Whole
    <3>u. b \in read
      BY <2>2
    <3> HIDE DEF read, path
    <3>3. \A c \in stash : c.key # b.key
      BY <1>3, <2>2
    <3>4. Copies(stash, b) = {}
      BY <3>3, NoneOfIt
    <3>5. Copies(read, b) = {b}
      BY <1>2, <1>3, <3>u, OneOfEach
    <3>6. In(b) = {<<m, b>>}
      BY <3>1, <3>2, <3>5
    <3>7. Cardinality(Copies(stash, b)) = 0
      BY <3>4, FS_EmptySet
    <3>8. Cardinality(In(b)) = 1
      <4> HIDE DEF In
      <4> DEFINE mb == <<m, b>>
      <4>1. In(b) = {mb}
        BY <3>6
      <4> HIDE DEF mb
      <4> QED BY <4>1, FS_Singleton
    <3> HIDE DEF In
    <3> QED BY <3>7, <3>8
  <2> QED BY <2>1, <2>2
<1>5. ApplyFetchedPath(stash, leaf) =
        UNION {{[b EXCEPT !.n = i] : i \in 0 .. count(b) - 1} : b \in stash \cup read}
  BY DEF ApplyFetchedPath
<1>6. \A b \in stash \cup read : {[b EXCEPT !.n = i] : i \in 0 .. count(b) - 1} = {b}
  <2> HIDE DEF count, read
  <2> SUFFICES ASSUME NEW b \in stash \cup read
               PROVE  {[b EXCEPT !.n = i] : i \in 0 .. count(b) - 1} = {b}
    OBVIOUS
  <2>1. b \in Copy /\ count(b) = 1
    BY <1>2, <1>4
  <2>2. 0 .. count(b) - 1 = {0}
    BY <2>1
  <2>3. [b EXCEPT !.n = 0] = b
    BY <2>1 DEF Copy
  <2> QED BY <2>2, <2>3
<1> HIDE DEF count, In
<1>7. UNION {{[b EXCEPT !.n = i] : i \in 0 .. count(b) - 1} : b \in stash \cup read}
        = stash \cup read
  BY <1>6
<1> QED BY <1>5, <1>7 DEF Seen

(* Taking a block out and putting it back under its new leaf leaves one of *)
(* each key.                                                               *)
LEMMA RewrittenOnce ==
    ASSUME NEW S \in SUBSET Copy, \A x, y \in S : x.key = y.key => x = y,
           NEW k \in Keys, NEW new \in Leaves, NEW w \in Values \cup {NoWrite},
           NEW A \in Rewritten(S, k, new, w)
    PROVE  \E b \in S : /\ b.key = k
                        /\ A = (S \ {b}) \cup {[key |-> k, leaf |-> new, n |-> 0,
                                               val |-> IF w = NoWrite THEN b.val ELSE w]}
<1>1. PICK b \in S : /\ b.key = k
                     /\ A = Push(S \ {b}, [key |-> k, leaf |-> new, n |-> 0,
                                           val |-> IF w = NoWrite THEN b.val ELSE w])
  BY DEF Rewritten
<1> DEFINE c == [key |-> k, leaf |-> new, n |-> 0, val |-> IF w = NoWrite THEN b.val ELSE w]
<1>2. \A x \in S \ {b} : x.key # c.key
  BY <1>1
<1>3. [c EXCEPT !.n = 0] = c
  OBVIOUS
<1> HIDE DEF c
<1>4. Copies(S \ {b}, c) = {}
  BY <1>2, NoneOfIt
<1>5. Cardinality(Copies(S \ {b}, c)) = 0
  BY <1>4, FS_EmptySet
<1>6. (CHOOSE i \in 0 .. 0 : \A x \in {} : x.n # i) = 0
  OBVIOUS
<1>7. Push(S \ {b}, c) = (S \ {b}) \cup {c}
  BY <1>3, <1>4, <1>5, <1>6 DEF Push
<1> QED BY <1>1, <1>7 DEF c

(* The block that is to be rewritten is there. *)
LEMMA RewrittenSome ==
    ASSUME NEW S, NEW k, \E b \in S : b.key = k, NEW new, NEW w
    PROVE  Rewritten(S, k, new, w) # {}
BY DEF Rewritten

(* Writing the path back: what was in the stash (the path included) goes   *)
(* to one place each, on its own path; the other buckets keep what no one  *)
(* in the stash is a copy of.                                              *)
LEMMA WrittenBack ==
    ASSUME Typed, Whole, NEW leaf \in Leaves,
           NEW S \in SUBSET Copy, \A x, y \in S : x.key = y.key => x = y,
           \A k \in Keys : (\E b \in S : b.key = k) <=> (\E b \in Seen(leaf) : b.key = k),
           NEW c \in PrepareEviction([stash |-> S, bad |-> FALSE, tree |-> tree], leaf),
           stash' = c.stash, tree' = c.tree
    PROVE  /\ stash' \in SUBSET Copy /\ tree' \in [P!Nodes -> SUBSET Copy]
           /\ Whole'
           /\ \A b \in AllCopies' : b \in S \/ (b \in AllCopies /\ \A x \in S : x.key # b.key)
<1> DEFINE path == P!Path(leaf)
           c0 == [stash |-> S, bad |-> FALSE, tree |-> tree]
<1>0. c0.stash = S /\ c0.tree = tree
  OBVIOUS
<1>1. PICK p \in P!Placements(S, {leaf}) :
         /\ c.stash = P!Bucket(p, NoNode)
         /\ c.tree = [n \in P!Nodes |-> IF n \in path THEN P!Bucket(p, n) ELSE tree[n]]
  <2> HIDE DEF c0
  <2>1. c \in PrepareEviction(c0, leaf)
    BY DEF c0
  <2>2. PICK p \in P!Placements(c0.stash, {leaf}) :
          c = [stash |-> P!Bucket(p, NoNode),
               bad |-> c0.bad \/ Cardinality(P!Bucket(p, NoNode)) > StashMax,
               tree |-> [n \in P!Nodes |-> IF n \in P!Path(leaf) THEN P!Bucket(p, n)
                                           ELSE c0.tree[n]]]
    BY <2>1 DEF PrepareEviction
  <2> QED BY <1>0, <2>2
<1>2. path \subseteq P!Nodes /\ P!MergedPath({leaf}) = path
  BY OnePath
<1>3. /\ p \in [S -> path \cup {NoNode}]
      /\ \A b \in S : p[b] = NoNode \/ (p[b] \in path /\ p[b] \in P!Path(b.leaf))
  BY <1>2 DEF P!Placements, P!Eligible
<1>4. NoNode \notin P!Nodes
  BY RoundsAssumption
<1> HIDE DEF path
<1>5. \A n : P!Bucket(p, n) = {b \in S : p[b] = n}
  BY <1>3 DEF P!Bucket
<1>6. stash' = {b \in S : p[b] = NoNode}
  BY <1>1, <1>5
<1>7. tree' = [n \in P!Nodes |-> IF n \in path THEN {b \in S : p[b] = n} ELSE tree[n]]
  <2>1. tree' = [n \in P!Nodes |-> IF n \in path THEN P!Bucket(p, n) ELSE tree[n]]
    BY <1>1 DEF path
  <2>2. \A n \in P!Nodes : (IF n \in path THEN P!Bucket(p, n) ELSE tree[n])
                            = IF n \in path THEN {b \in S : p[b] = n} ELSE tree[n]
    BY <1>5
  <2> QED BY <2>1, <2>2
<1>8. /\ \A n \in path : tree'[n] = {b \in S : p[b] = n}
      /\ \A n \in P!Nodes \ path : tree'[n] = tree[n]
  BY <1>2, <1>7
<1>9. stash' \in SUBSET Copy /\ tree' \in [P!Nodes -> SUBSET Copy]
  BY <1>6, <1>7 DEF Typed
<1>10. \A n \in P!Nodes \ path : \A b \in tree[n], x \in S : x.key # b.key
  <2> SUFFICES ASSUME NEW n \in P!Nodes \ path, NEW b \in tree[n], NEW x \in S, x.key = b.key
               PROVE  FALSE
    OBVIOUS
  <2>1. x.key \in Keys
    BY DEF Copy
  <2>2. PICK y \in Seen(leaf) : y.key = b.key
    BY <2>1
  <2>3. y \in AllCopies /\ b \in AllCopies
    BY <1>2, <2>2 DEF Seen, AllCopies, path
  <2>4. y = b
    BY <2>2, <2>3 DEF Whole
  <2>5. CASE y \in stash
    BY <2>4, <2>5 DEF Whole
  <2>6. CASE y \notin stash
    <3>1. PICK m \in path : y \in tree[m]
      BY <2>2, <2>6 DEF Seen, path
    <3> QED BY <1>2, <2>4, <3>1 DEF Whole
  <2> QED BY <2>5, <2>6
<1>11. \A b \in AllCopies' : \/ b \in S
                             \/ (b \in AllCopies /\ \A x \in S : x.key # b.key)
  <2> SUFFICES ASSUME NEW b \in AllCopies', b \notin S
               PROVE  b \in AllCopies /\ \A x \in S : x.key # b.key
    OBVIOUS
  <2>1. PICK n \in P!Nodes : b \in tree'[n]
    BY <1>6 DEF AllCopies
  <2>2. n \notin path /\ b \in tree[n]
    BY <1>8, <2>1
  <2> QED BY <1>10, <2>2 DEF AllCopies
<1>12. Whole'
  <2>1. \A b, d \in AllCopies' : b.key = d.key => b = d
    BY <1>11 DEF Whole
  <2>2. \A m, n \in P!Nodes : m # n => tree'[m] \cap tree'[n] = {}
    <3> SUFFICES ASSUME NEW m \in P!Nodes, NEW n \in P!Nodes, m # n,
                        NEW b \in tree'[m], b \in tree'[n]
                 PROVE  FALSE
      OBVIOUS
    <3>1. m \in path \/ n \in path
      BY <1>8 DEF Whole
    <3>2. ~(m \in path /\ n \in path)
      BY <1>8
    <3>3. b \in S
      BY <1>8, <3>1
    <3> QED BY <1>8, <1>10, <3>1, <3>2, <3>3
  <2>3. \A n \in P!Nodes : tree'[n] \cap stash' = {}
    <3> SUFFICES ASSUME NEW n \in P!Nodes, NEW b \in tree'[n], b \in stash'
                 PROVE  FALSE
      OBVIOUS
    <3>1. b \in S /\ p[b] = NoNode
      BY <1>6
    <3>2. n \notin path
      BY <1>2, <1>4, <1>8, <3>1
    <3> QED BY <1>8, <1>10, <3>1, <3>2
  <2>4. \A n \in P!Nodes : \A b \in tree'[n] : n \in P!Path(b.leaf)
    <3> SUFFICES ASSUME NEW n \in P!Nodes, NEW b \in tree'[n] PROVE n \in P!Path(b.leaf)
      OBVIOUS
    <3>1. CASE n \in path
      BY <1>2, <1>3, <1>4, <1>8, <3>1
    <3>2. CASE n \notin path
      BY <1>8, <3>2 DEF Whole
    <3> QED BY <3>1, <3>2
  <2>5. \A k \in Keys : \E b \in AllCopies' : b.key = k
    <3> SUFFICES ASSUME NEW k \in Keys PROVE \E b \in AllCopies' : b.key = k
      OBVIOUS
    <3>0. \A b \in S : b \in AllCopies'
      <4> SUFFICES ASSUME NEW b \in S PROVE b \in AllCopies'
        OBVIOUS
      <4>1. CASE p[b] = NoNode
        BY <1>6, <4>1 DEF AllCopies
      <4>2. CASE p[b] # NoNode
        <5>1. p[b] \in path /\ b \in tree'[p[b]]
          BY <1>3, <1>8, <4>2
        <5> QED BY <1>2, <5>1 DEF AllCopies
      <4> QED BY <4>1, <4>2
    <3>1. PICK b \in AllCopies : b.key = k
      BY DEF Whole
    <3>2. CASE b \in Seen(leaf)
      BY <3>0, <3>1, <3>2
    <3>3. CASE b \notin Seen(leaf)
      <4>1. PICK n \in P!Nodes : b \in tree[n]
        BY <3>3 DEF AllCopies, Seen
      <4>2. n \notin path
        BY <3>3, <4>1 DEF Seen, path
      <4> QED BY <1>8, <3>1, <4>1, <4>2 DEF AllCopies
    <3> QED BY <3>2, <3>3
  <2> QED BY <2>1, <2>2, <2>3, <2>4, <2>5 DEF Whole
<1> QED BY <1>9, <1>11, <1>12

-----------------------------------------------------------------------------
(* The schedule.                                                           *)

(* No two paths are read in one round. *)
LEMMA OneAtATime ==
    ASSUME RoundsApart, Typed, Scheduled, ~Idle
    PROVE  /\ ~(main.st = "NEED_READ" /\ dd.st = "NEED_READ")
           /\ ~(main.st = "NEED_READ" /\ scan.st = "NEED_READ")
           /\ ~(dd.st = "NEED_READ" /\ scan.st = "NEED_READ")
<1>1. /\ plan.at \in MainRounds /\ plan.at \in 1 .. OmapRounds
      /\ plan.scanAt = 0 \/ (plan.scanAt \in ScanRounds /\ plan.scanAt \in 1 .. OmapRounds)
      /\ OmapRounds \in Nat /\ round \in Nat
  BY RoundsAssumption DEF Typed, Plans, Scheduled
<1>2. plan.scanAt # 0 => plan.scanAt # plan.at /\ (FullObliv => plan.scanAt # plan.at + 1)
  BY <1>1 DEF RoundsApart
<1> QED BY <1>1, <1>2 DEF Scheduled, OnTime

(* A path that was read has been written when the round is over. *)
LEMMA WrittenIs ==
    ASSUME NEW x \in Paths
    PROVE  /\ Written(x) \in Paths
           /\ Written(x).st = IF x.st = "NEED_READ" THEN "DONE" ELSE x.st
BY DEF Written, Paths, DSteps

(* What a trigger does: the path asks for the leaf the block is under, and *)
(* the position map gets the new one.                                      *)
Triggered(t, pos, blk, new) ==
    /\ t.x \in Paths /\ t.x.st = "NEED_READ" /\ t.x.blk = blk
    /\ t.x.leaf \in Leaves /\ t.x.new = new
    /\ blk # NoBlock => t.x.leaf = pos[blk]
    /\ t.pos \in [Keys -> Leaves]
    /\ \A k \in Keys : t.pos[k] = IF k = blk THEN new ELSE pos[k]

(* What starting a path does to it and to the position map. *)
LEMMA TriggerIs ==
    ASSUME NEW pos \in [Keys -> Leaves], NEW x, NEW blk \in Keys \cup {NoBlock},
           NEW new \in Leaves
    PROVE  Triggered(Trigger(pos, x, blk, new), pos, blk, new)
BY RoundsAssumption DEF Triggered, Trigger, Paths, DSteps

(* The effect of a round on the three paths and the position map. *)
MainMoves(m) ==
    /\ main' \in Paths
    /\ round = plan.at => /\ main'.st = "NEED_READ" /\ main'.blk = plan.blk
                          /\ main'.leaf \in Leaves /\ main'.new = m
                          /\ plan.blk # NoBlock => main'.leaf = posMap[plan.blk]
    /\ round # plan.at => main'.st = IF main.st = "NEED_READ" THEN "DONE" ELSE main.st

ScanMoves(s) ==
    /\ scan' \in Paths
    /\ round = plan.scanAt =>
         /\ scan'.st = "NEED_READ" /\ scan'.blk = plan.scanBlk
         /\ scan'.leaf \in Leaves /\ scan'.new = s
         /\ plan.scanBlk # NoBlock /\ round # plan.at => scan'.leaf = posMap[plan.scanBlk]
    /\ round # plan.scanAt => scan'.st = IF scan.st = "NEED_READ" THEN "DONE" ELSE scan.st

Remapped(m, s) ==
    /\ posMap' \in [Keys -> Leaves]
    /\ \A k \in Keys :
         posMap'[k] = IF round = plan.scanAt /\ k = plan.scanBlk THEN s
                      ELSE IF round = plan.at /\ k = plan.blk THEN m ELSE posMap[k]

DummyMoves ==
    /\ dd' \in Paths
    /\ IF dd.st = "IDLE" /\ main.st = "NEED_READ"
       THEN dd'.st = "NEED_READ" /\ dd'.leaf \in Leaves
       ELSE dd'.st = IF dd.st = "NEED_READ" THEN "DONE" ELSE dd.st

(* A round moves the paths so. *)
LEMMA RoundMoves ==
    ASSUME Typed, Round
    PROVE  /\ \E m, s \in Leaves : MainMoves(m) /\ ScanMoves(s) /\ Remapped(m, s)
           /\ DummyMoves
<1>1. PICK leaf \in Leaves, m \in Leaves, s \in Leaves :
         /\ posMap' = ScanNext(MainNext(m).pos, s).pos
         /\ main' = MainNext(m).x
         /\ scan' = ScanNext(MainNext(m).pos, s).x
         /\ dd' = DummyNext(leaf)
  BY DEF Round
<1>2. /\ posMap \in [Keys -> Leaves] /\ main \in Paths /\ scan \in Paths /\ dd \in Paths
      /\ plan.blk \in Keys \cup {NoBlock} /\ plan.scanBlk \in Keys \cup {NoBlock}
  BY DEF Typed, Plans
<1> DEFINE pos == MainNext(m).pos
<1>3. /\ MainMoves(m) /\ pos \in [Keys -> Leaves]
      /\ \A k \in Keys : pos[k] = IF round = plan.at /\ k = plan.blk THEN m ELSE posMap[k]
  <2>1. CASE round = plan.at
    <3>1. MainNext(m) = Trigger(posMap, main, plan.blk, m)
      BY <2>1 DEF MainNext
    <3>2. Triggered(MainNext(m), posMap, plan.blk, m)
      BY <1>2, <3>1, TriggerIs
    <3> QED BY <1>1, <1>2, <2>1, <3>2 DEF MainMoves, Triggered
  <2>2. CASE round # plan.at
    <3>1. pos = posMap /\ main' = Written(main)
      BY <1>1, <2>2 DEF MainNext
    <3> QED BY <1>2, <2>2, <3>1, WrittenIs DEF MainMoves
  <2> QED BY <2>1, <2>2
<1> HIDE DEF pos
<1>4. ScanMoves(s) /\ Remapped(m, s)
  <2>0. posMap' = ScanNext(pos, s).pos /\ scan' = ScanNext(pos, s).x
    BY <1>1 DEF pos
  <2>1. CASE round = plan.scanAt
    <3>1. ScanNext(pos, s) = Trigger(pos, scan, plan.scanBlk, s)
      BY <2>1 DEF ScanNext
    <3>2. /\ scan' \in Paths /\ scan'.st = "NEED_READ" /\ scan'.blk = plan.scanBlk
          /\ scan'.leaf \in Leaves /\ scan'.new = s
          /\ plan.scanBlk # NoBlock => scan'.leaf = pos[plan.scanBlk]
          /\ posMap' \in [Keys -> Leaves]
          /\ \A k \in Keys : posMap'[k] = IF k = plan.scanBlk THEN s ELSE pos[k]
      <4>1. Triggered(ScanNext(pos, s), pos, plan.scanBlk, s)
        BY <1>2, <1>3, <3>1, TriggerIs
      <4> QED BY <2>0, <4>1 DEF Triggered
    <3> QED BY <1>2, <1>3, <2>1, <3>2 DEF ScanMoves, Remapped
  <2>2. CASE round # plan.scanAt
    <3>1. posMap' = pos /\ scan' = Written(scan)
      BY <2>0, <2>2 DEF ScanNext
    <3> QED BY <1>2, <1>3, <2>2, <3>1, WrittenIs DEF ScanMoves, Remapped
  <2> QED BY <2>1, <2>2
<1>5. DummyMoves
  <2>1. CASE dd.st = "IDLE" /\ main.st = "NEED_READ"
    <3>1. dd' = [dd EXCEPT !.st = "NEED_READ", !.leaf = leaf]
      BY <1>1, <2>1 DEF DummyNext
    <3>2. dd' \in Paths /\ dd'.st = "NEED_READ" /\ dd'.leaf \in Leaves
      BY <1>2, <3>1 DEF Paths, DSteps
    <3> QED BY <2>1, <3>2 DEF DummyMoves
  <2>2. CASE ~(dd.st = "IDLE" /\ main.st = "NEED_READ")
    <3>1. dd' = Written(dd)
      BY <1>1, <2>2 DEF DummyNext
    <3> QED BY <1>2, <2>2, <3>1, WrittenIs DEF DummyMoves
  <2> QED BY <2>1, <2>2
<1> QED BY <1>3, <1>4, <1>5

(* The plan is kept to. *)
LEMMA StaysOnTime ==
    ASSUME RoundsApart, Typed, Scheduled, Round
    PROVE  /\ Scheduled' /\ round' \in Nat /\ plan' = plan /\ mem' = mem
           /\ posMap' \in [Keys -> Leaves]
           /\ main' \in Paths /\ dd' \in Paths /\ scan' \in Paths
<1>1. PICK m \in Leaves, s \in Leaves : MainMoves(m) /\ ScanMoves(s) /\ Remapped(m, s)
  BY RoundMoves
<1>2. DummyMoves
  BY RoundMoves
<1>3. /\ plan' = plan /\ mem' = mem /\ ~Idle
      /\ round' = IF round > OmapRounds THEN round ELSE round + 1
  BY DEF Round
<1>4. /\ plan.at \in MainRounds /\ plan.at \in 1 .. OmapRounds
      /\ plan.scanAt = 0 \/ (plan.scanAt \in ScanRounds /\ plan.scanAt \in 1 .. OmapRounds)
      /\ OmapRounds \in Nat /\ round \in Nat /\ round # 0
  BY <1>3, RoundsAssumption DEF Typed, Plans, Scheduled, Idle
<1>5. round' \in Nat /\ round' # 0 /\ ~Idle'
  BY <1>3, <1>4 DEF Idle
<1>6. plan.scanAt # plan.at
  BY <1>4 DEF RoundsApart
<1>7. {main'.st, dd'.st, scan'.st} \subseteq {"IDLE", "NEED_READ", "DONE"}
  BY <1>1, <1>2 DEF MainMoves, ScanMoves, DummyMoves, Scheduled
<1>8. OnTime(main, plan.at)' /\ OnTime(scan, plan.scanAt)'
  BY <1>1, <1>3, <1>4 DEF MainMoves, ScanMoves, OnTime, Scheduled
<1>9. Asks(main, plan.blk)'
  <2>1. plan.blk # NoBlock => plan.blk \in Keys
    BY DEF Typed, Plans
  <2> QED BY <1>1, <1>3, <1>6, <2>1 DEF MainMoves, Remapped, Asks
<1>10. Asks(scan, plan.scanBlk)'
  <2>1. plan.scanBlk # NoBlock => plan.scanBlk \in Keys
    BY DEF Typed, Plans
  <2> QED BY <1>1, <1>3, <1>6, <2>1 DEF ScanMoves, Remapped, Asks
<1>11. dd'.st # "DONE" => FullObliv
  BY <1>2, <1>3 DEF DummyMoves, Scheduled
<1>12. dd'.st = "NEED_READ" =>
         /\ main'.st = "DONE" /\ dd'.leaf \in Leaves
         /\ round' = plan.at + 2 \/ plan.at = OmapRounds
  BY <1>1, <1>2, <1>3, <1>4 DEF DummyMoves, MainMoves, Scheduled, OnTime
<1>13. /\ plan.scanBlk = NoBlock <=> plan.scanAt = 0
       /\ plan.scanBlk = plan.blk /\ plan.blk # NoBlock => plan.scanAt < plan.at
       /\ plan.blk # NoBlock /\ plan.w # NoWrite => mem[plan.blk] = plan.w
  BY <1>3 DEF Scheduled
<1>14. Scheduled'
  BY <1>3, <1>4, <1>5, <1>7, <1>8, <1>9, <1>10, <1>11, <1>12, <1>13 DEF Scheduled
<1> QED BY <1>1, <1>2, <1>3, <1>5, <1>14 DEF MainMoves, ScanMoves, DummyMoves, Remapped

(* After a round every block is asked for under the leaf the position map  *)
(* had for it before: what was read in the round has been moved there, and *)
(* what the round triggered is read from there.                            *)
LEMMA AskedWhereMapped ==
    ASSUME RoundsApart, Typed, Scheduled, Round
    PROVE  \A k \in Keys : /\ LeafOf(k)' = posMap[k]
                           /\ Unwritten(k) /\ main.st # "NEED_READ" => Unwritten(k)'
<1>1. PICK m \in Leaves, s \in Leaves : MainMoves(m) /\ ScanMoves(s) /\ Remapped(m, s)
  BY RoundMoves
<1>2. plan' = plan /\ ~Idle
  BY DEF Round
<1>3. /\ plan.at \in MainRounds /\ plan.at \in 1 .. OmapRounds
      /\ plan.scanAt = 0 \/ (plan.scanAt \in ScanRounds /\ plan.scanAt \in 1 .. OmapRounds)
      /\ OmapRounds \in Nat /\ round \in Nat /\ round # 0
  BY <1>2, RoundsAssumption DEF Typed, Plans, Scheduled, Idle
<1>4. plan.scanAt # plan.at
  BY <1>3 DEF RoundsApart
<1>5. /\ main.st # "NEED_WRITE" /\ scan.st # "NEED_WRITE"
      /\ main'.st = "NEED_READ" <=> round = plan.at
      /\ scan'.st = "NEED_READ" <=> round = plan.scanAt
  BY <1>1, <1>3 DEF MainMoves, ScanMoves, Scheduled
<1> SUFFICES ASSUME NEW k \in Keys
             PROVE  /\ LeafOf(k)' = posMap[k]
                    /\ Unwritten(k) /\ main.st # "NEED_READ" => Unwritten(k)'
  OBVIOUS
<1>6. k # NoBlock
  BY RoundsAssumption
<1>7. LeafOf(k)' = posMap[k]
  <2>1. CASE round = plan.at /\ plan.blk = k
    BY <1>1, <1>5, <1>6, <2>1 DEF LeafOf, MainMoves
  <2>2. CASE round = plan.scanAt /\ plan.scanBlk = k
    BY <1>1, <1>4, <1>5, <1>6, <2>2 DEF LeafOf, ScanMoves
  <2>3. CASE ~(round = plan.at /\ plan.blk = k) /\ ~(round = plan.scanAt /\ plan.scanBlk = k)
    <3>1. ~(main'.st = "NEED_READ" /\ main'.blk = k) /\ ~(scan'.st = "NEED_READ" /\ scan'.blk = k)
      BY <1>1, <1>5, <2>3 DEF MainMoves, ScanMoves
    <3>2. posMap'[k] = posMap[k]
      BY <1>1, <2>3 DEF Remapped
    <3> QED BY <3>1, <3>2 DEF LeafOf
  <2> QED BY <2>1, <2>2, <2>3
<1>8. Unwritten(k) /\ main.st # "NEED_READ" => Unwritten(k)'
  BY <1>1, <1>2 DEF Unwritten, MainMoves
<1> QED BY <1>7, <1>8

-----------------------------------------------------------------------------
(* The data of a round.                                                    *)

(* A path that is read only to be written back: no block changes. *)
LEMMA PathOnly ==
    ASSUME Typed, Whole, NEW leaf \in Leaves,
           NEW c \in PrepareEviction([stash |-> Seen(leaf), bad |-> FALSE, tree |-> tree], leaf),
           stash' = c.stash, tree' = c.tree
    PROVE  /\ stash' \in SUBSET Copy /\ tree' \in [P!Nodes -> SUBSET Copy]
           /\ Whole' /\ AllCopies' \subseteq AllCopies
<1>1. Seen(leaf) \in SUBSET Copy /\ Seen(leaf) \subseteq AllCopies
  BY OnePath DEF Seen, AllCopies, Typed
<1>2. \A x, y \in Seen(leaf) : x.key = y.key => x = y
  BY <1>1 DEF Whole
<1> QED BY <1>1, <1>2, WrittenBack

(* A path that is read for a block: that block changes, and no other. *)
LEMMA PathRewritten ==
    ASSUME Typed, Whole, NEW leaf \in Leaves, NEW k \in Keys, NEW new \in Leaves,
           NEW w \in Values \cup {NoWrite},
           NEW A \in Rewritten(Seen(leaf), k, new, w),
           NEW c \in PrepareEviction([stash |-> A, bad |-> FALSE, tree |-> tree], leaf),
           stash' = c.stash, tree' = c.tree
    PROVE  /\ stash' \in SUBSET Copy /\ tree' \in [P!Nodes -> SUBSET Copy]
           /\ Whole'
           /\ \A x \in AllCopies' :
                \/ x.key # k /\ x \in AllCopies
                \/ /\ x.key = k /\ x.leaf = new
                   /\ \E b \in AllCopies : b.key = k /\ x.val = IF w = NoWrite THEN b.val ELSE w
<1>1. Seen(leaf) \in SUBSET Copy /\ Seen(leaf) \subseteq AllCopies
  BY OnePath DEF Seen, AllCopies, Typed
<1>2. \A x, y \in Seen(leaf) : x.key = y.key => x = y
  BY <1>1 DEF Whole
<1>3. PICK b \in Seen(leaf) :
        /\ b.key = k
        /\ A = (Seen(leaf) \ {b}) \cup {[key |-> k, leaf |-> new, n |-> 0,
                                        val |-> IF w = NoWrite THEN b.val ELSE w]}
  BY <1>1, <1>2, RewrittenOnce
<1> DEFINE d == [key |-> k, leaf |-> new, n |-> 0, val |-> IF w = NoWrite THEN b.val ELSE w]
<1>4. d \in Copy /\ d.key = k /\ d.leaf = new /\ d.val = IF w = NoWrite THEN b.val ELSE w
  BY <1>1 DEF Copy
<1>5. A = (Seen(leaf) \ {b}) \cup {d}
  BY <1>3
<1> HIDE DEF d
<1>6. A \in SUBSET Copy /\ \A x, y \in A : x.key = y.key => x = y
  BY <1>1, <1>2, <1>3, <1>4, <1>5
<1>7. \A i \in Keys : (\E x \in A : x.key = i) <=> (\E x \in Seen(leaf) : x.key = i)
  BY <1>3, <1>4, <1>5
<1>8. /\ stash' \in SUBSET Copy /\ tree' \in [P!Nodes -> SUBSET Copy] /\ Whole'
      /\ \A x \in AllCopies' : x \in A \/ (x \in AllCopies /\ \A y \in A : y.key # x.key)
  BY <1>6, <1>7, WrittenBack
<1>9. ASSUME NEW x \in AllCopies'
      PROVE  \/ x.key # k /\ x \in AllCopies
             \/ /\ x.key = k /\ x.leaf = new
                /\ \E y \in AllCopies : y.key = k /\ x.val = IF w = NoWrite THEN y.val ELSE w
  <2>1. CASE x.key = k
    <3>1. d \in A
      BY <1>5
    <3>2. x = d
      BY <1>4, <1>6, <1>8, <2>1, <3>1
    <3> QED BY <1>1, <1>3, <1>4, <2>1, <3>2
  <2>2. CASE x.key # k
    BY <1>1, <1>4, <1>5, <1>8, <2>2
  <2> QED BY <2>1, <2>2
<1> QED BY <1>8, <1>9

(* What a round reads, what processing makes of it, and the batch's end. *)
ReadStash == Fetched(scan, Fetched(dd, Fetched(main, stash)))
Results   == UNION {Processed(scan, A, NoWrite) : A \in Processed(main, ReadStash, plan.w)}

(* What one round does to answers, stash and tree. *)
LEMMA RoundData ==
    ASSUME Round
    PROVE  /\ got' = Answer(ReadStash)
           /\ \/ Results = {}
              \/ \E A \in Results : \E c \in EvictAll(A) :
                   /\ stash' = c.stash /\ tree' = c.tree
                   /\ failure' = IF c.bad THEN "overflow" ELSE "none"
BY DEF Round, ReadStash, Results

(* A path that is not to be read takes no part. *)
LEMMA NotRead ==
    ASSUME NEW x, x.st # "NEED_READ"
    PROVE  /\ \A S : Fetched(x, S) = S
           /\ \A S, w : Processed(x, S, w) = {S}
           /\ \A cs : Evicted(x, cs) = cs
BY DEF Fetched, Processed, Evicted

(* A path that waits for its read, when the batch has come. *)
LEMMA IsRead ==
    ASSUME NEW x, x.st = "NEED_READ"
    PROVE  /\ \A S : Fetched(x, S) = ApplyFetchedPath(S, x.leaf)
           /\ \A S, w : Processed(x, S, w) = IF x.blk = NoBlock THEN {S}
                                            ELSE Rewritten(S, x.blk, x.new, w)
           /\ \A c : Evicted(x, {c}) = PrepareEviction(c, x.leaf)
BY DEF Fetched, Processed, Evicted

(* A round has moved what it read: every block is whole, under the leaf    *)
(* that the position map had for it when the round began, and written if   *)
(* it was to be written.                                                   *)
Moved ==
    /\ failure' \in {"none", "overflow"}
    /\ stash' \in SUBSET Copy /\ tree' \in [P!Nodes -> SUBSET Copy] /\ Whole'
    /\ \A b \in AllCopies' :
         /\ b.leaf = posMap[b.key]
         /\ b.val = mem[b.key] \/ (Unwritten(b.key) /\ main.st # "NEED_READ")

(* A round without a data path. *)
LEMMA RoundOfNone ==
    ASSUME Typed, Scheduled, Whole, Placed, Round,
           main.st # "NEED_READ", dd.st # "NEED_READ", scan.st # "NEED_READ"
    PROVE  Moved
<1>1. ReadStash = stash
  BY NotRead DEF ReadStash
<1>2. Results = {stash}
  <2>1. Processed(main, ReadStash, plan.w) = {stash} /\ Processed(scan, stash, NoWrite) = {stash}
    BY <1>1, NotRead
  <2> QED BY <2>1 DEF Results
<1>3. \A A : EvictAll(A) = {[stash |-> A, bad |-> FALSE, tree |-> tree]}
  BY NotRead DEF EvictAll
<1>4. stash' = stash /\ tree' = tree /\ failure' = "none"
  BY <1>2, <1>3, RoundData
<1>5. AllCopies' = AllCopies /\ Whole'
  BY <1>4 DEF AllCopies, Whole
<1>6. \A k \in Keys : LeafOf(k) = posMap[k]
  BY DEF LeafOf
<1>7. AllCopies \subseteq Copy
  BY DEF AllCopies, Typed
<1>8. \A b \in AllCopies : b.key \in Keys
  BY <1>7 DEF Copy
<1> QED BY <1>4, <1>5, <1>6, <1>8 DEF Moved, Placed, Typed

(* The dummy path, or a path for no block. *)
LEMMA RoundOfNoBlock ==
    ASSUME Typed, Scheduled, Whole, Placed, Round, NEW leaf \in Leaves,
           ReadStash = ApplyFetchedPath(stash, leaf), Results = {ReadStash},
           \A A : EvictAll(A) =
                    PrepareEviction([stash |-> A, bad |-> FALSE, tree |-> tree], leaf),
           \A k \in Keys : LeafOf(k) = posMap[k],
           main.st = "NEED_READ" => \A k \in Keys : ~Unwritten(k)
    PROVE  Moved
<1>1. ReadStash = Seen(leaf)
  BY ReadOnce
<1>2. PICK c \in PrepareEviction([stash |-> Seen(leaf), bad |-> FALSE, tree |-> tree], leaf) :
        /\ stash' = c.stash /\ tree' = c.tree
        /\ failure' = IF c.bad THEN "overflow" ELSE "none"
  BY <1>1, RoundData
<1>3. /\ stash' \in SUBSET Copy /\ tree' \in [P!Nodes -> SUBSET Copy]
      /\ Whole' /\ AllCopies' \subseteq AllCopies
  BY <1>2, PathOnly
<1>4. AllCopies \subseteq Copy
  BY DEF AllCopies, Typed
<1>5. \A b \in AllCopies : b.key \in Keys
  BY <1>4 DEF Copy
<1>6. failure' \in {"none", "overflow"}
  BY <1>2
<1> QED BY <1>3, <1>5, <1>6 DEF Moved, Placed

(* A path that is read for a block finds it. *)
LEMMA RoundOfBlock ==
    ASSUME Typed, Scheduled, Whole, Placed, Round, NEW leaf \in Leaves,
           NEW k \in Keys, LeafOf(k) = leaf, posMap[k] \in Leaves,
           NEW w \in Values \cup {NoWrite}, w # NoWrite => mem[k] = w,
           ReadStash = ApplyFetchedPath(stash, leaf),
           Results = Rewritten(ReadStash, k, posMap[k], w),
           \A A : EvictAll(A) =
                    PrepareEviction([stash |-> A, bad |-> FALSE, tree |-> tree], leaf),
           \A i \in Keys \ {k} : LeafOf(i) = posMap[i],
           w = NoWrite /\ main.st = "NEED_READ" => ~Unwritten(k),
           main.st = "NEED_READ" => \A i \in Keys \ {k} : ~Unwritten(i)
    PROVE  Moved /\ \E b \in ReadStash : b.key = k
<1>1. ReadStash = Seen(leaf)
  BY ReadOnce
<1>2. \E b \in Seen(leaf) : b.key = k
  <2>1. PICK b \in AllCopies : b.key = k
    BY DEF Whole
  <2>2. b.leaf = leaf
    BY <2>1 DEF Placed
  <2> QED BY <2>1, <2>2 DEF AllCopies, Seen, Whole
<1>3. Results # {}
  BY <1>1, <1>2, RewrittenSome
<1>4. PICK A \in Rewritten(Seen(leaf), k, posMap[k], w) :
        \E c \in PrepareEviction([stash |-> A, bad |-> FALSE, tree |-> tree], leaf) :
           /\ stash' = c.stash /\ tree' = c.tree
           /\ failure' = IF c.bad THEN "overflow" ELSE "none"
  BY <1>1, <1>3, RoundData
<1>5. PICK c \in PrepareEviction([stash |-> A, bad |-> FALSE, tree |-> tree], leaf) :
        /\ stash' = c.stash /\ tree' = c.tree
        /\ failure' = IF c.bad THEN "overflow" ELSE "none"
  BY <1>4
<1>6. /\ stash' \in SUBSET Copy /\ tree' \in [P!Nodes -> SUBSET Copy] /\ Whole'
      /\ \A x \in AllCopies' :
           \/ x.key # k /\ x \in AllCopies
           \/ /\ x.key = k /\ x.leaf = posMap[k]
              /\ \E b \in AllCopies : b.key = k /\ x.val = IF w = NoWrite THEN b.val ELSE w
  BY <1>5, PathRewritten
<1>7. AllCopies \subseteq Copy
  BY DEF AllCopies, Typed
<1>8. \A b \in AllCopies : b.key \in Keys
  BY <1>7 DEF Copy
<1>9. ASSUME NEW x \in AllCopies'
      PROVE  /\ x.leaf = posMap[x.key]
             /\ x.val = mem[x.key] \/ (Unwritten(x.key) /\ main.st # "NEED_READ")
  <2>1. CASE x.key # k /\ x \in AllCopies
    BY <1>8, <2>1 DEF Placed
  <2>2. CASE /\ x.key = k /\ x.leaf = posMap[k]
             /\ \E b \in AllCopies : b.key = k /\ x.val = IF w = NoWrite THEN b.val ELSE w
    BY <2>2 DEF Placed
  <2> QED BY <1>6, <2>1, <2>2
<1>10. failure' \in {"none", "overflow"}
  BY <1>5
<1> QED BY <1>1, <1>2, <1>6, <1>9, <1>10 DEF Moved

(* Whichever path a round reads, and it reads at most one, its data is     *)
(* moved; and the main path has the answer.                                *)
LEMMA RoundMovesData ==
    ASSUME RoundsApart, Typed, Scheduled, Whole, Placed, Round
    PROVE  /\ Moved
           /\ main.st = "NEED_READ" /\ plan.blk # NoBlock => got' = mem[plan.blk]
<1>1. ~Idle /\ \A k \in Keys : k # NoBlock
  BY RoundsAssumption DEF Round
<1>2. /\ ~(main.st = "NEED_READ" /\ dd.st = "NEED_READ")
      /\ ~(main.st = "NEED_READ" /\ scan.st = "NEED_READ")
      /\ ~(dd.st = "NEED_READ" /\ scan.st = "NEED_READ")
  BY <1>1, OneAtATime
<1>3. \A k \in Keys : posMap[k] \in Leaves
  BY DEF Typed
<1>4. /\ plan.blk \in Keys \cup {NoBlock} /\ plan.scanBlk \in Keys \cup {NoBlock}
      /\ plan.w \in Values \cup {NoWrite}
  BY DEF Typed, Plans
<1> DEFINE WritesBack(x) ==
             \A A : EvictAll(A) = PrepareEviction([stash |-> A, bad |-> FALSE, tree |-> tree],
                                                  x.leaf)
<1>5. CASE main.st # "NEED_READ" /\ dd.st # "NEED_READ" /\ scan.st # "NEED_READ"
  BY <1>5, RoundOfNone
<1>6. CASE main.st = "NEED_READ"
  <2>1. dd.st # "NEED_READ" /\ scan.st # "NEED_READ"
    BY <1>2, <1>6
  <2>2. main.blk = plan.blk /\ main.leaf \in Leaves /\ (plan.blk # NoBlock => main.new = posMap[plan.blk])
    BY <1>1, <1>6 DEF Scheduled, Asks
  <2>3. ReadStash = ApplyFetchedPath(stash, main.leaf)
    BY <1>6, <2>1, NotRead, IsRead DEF ReadStash
  <2>4. WritesBack(main)
    BY <1>6, <2>1, NotRead, IsRead DEF EvictAll
  <2>5. Results = Processed(main, ReadStash, plan.w)
    <3>1. \A A : Processed(scan, A, NoWrite) = {A}
      BY <2>1, NotRead
    <3> QED BY <3>1 DEF Results
  <2>6. CASE plan.blk = NoBlock
    <3>1. Results = {ReadStash}
      BY <1>6, <2>2, <2>5, <2>6, IsRead
    <3>2. \A k \in Keys : LeafOf(k) = posMap[k] /\ ~Unwritten(k)
      BY <1>1, <2>1, <2>2, <2>6 DEF LeafOf, Unwritten
    <3> QED BY <2>2, <2>3, <2>4, <2>6, <3>1, <3>2, RoundOfNoBlock
  <2>7. CASE plan.blk # NoBlock
    <3>1. Results = Rewritten(ReadStash, plan.blk, posMap[plan.blk], plan.w)
      BY <1>6, <2>2, <2>5, <2>7, IsRead
    <3>2. /\ LeafOf(plan.blk) = main.leaf
          /\ \A i \in Keys \ {plan.blk} : LeafOf(i) = posMap[i] /\ ~Unwritten(i)
          /\ plan.w = NoWrite => ~Unwritten(plan.blk)
      BY <1>6, <2>1, <2>2 DEF LeafOf, Unwritten
    <3>3. plan.w # NoWrite => mem[plan.blk] = plan.w
      BY <1>1, <2>7 DEF Scheduled
    <3>4. plan.blk \in Keys
      BY <1>4, <2>7
    <3>5. Moved /\ \E b \in ReadStash : b.key = plan.blk
      BY <1>3, <1>4, <2>2, <2>3, <2>4, <3>1, <3>2, <3>3, <3>4, RoundOfBlock
    <3>6. got' = mem[plan.blk]
      <4>1. ReadStash = Seen(main.leaf)
        BY <2>2, <2>3, ReadOnce
      <4>2. Seen(main.leaf) \subseteq AllCopies
        BY <2>2, OnePath DEF Seen, AllCopies
      <4>3. \A b \in ReadStash : b.key = plan.blk /\ plan.w = NoWrite => b.val = mem[plan.blk]
        BY <3>2, <4>1, <4>2 DEF Placed
      <4> DEFINE B == {c \in ReadStash : c.key = main.blk}
      <4>4. B # {} /\ \A b \in B : plan.w = NoWrite => b.val = mem[plan.blk]
        BY <2>2, <3>5, <4>3
      <4>5. got' = IF plan.w # NoWrite THEN plan.w ELSE (CHOOSE c \in B : TRUE).val
        BY <1>6, <4>4, RoundData DEF Answer
      <4> HIDE DEF B
      <4> QED BY <3>3, <4>4, <4>5
    <3> QED BY <3>5, <3>6
  <2> QED BY <2>6, <2>7
<1>7. CASE dd.st = "NEED_READ"
  <2>1. main.st # "NEED_READ" /\ scan.st # "NEED_READ"
    BY <1>2, <1>7
  <2>2. dd.leaf \in Leaves
    BY <1>1, <1>7 DEF Scheduled
  <2>3. ReadStash = ApplyFetchedPath(stash, dd.leaf)
    BY <1>7, <2>1, NotRead, IsRead DEF ReadStash
  <2>4. WritesBack(dd)
    <3> SUFFICES ASSUME NEW A
                 PROVE  EvictAll(A) = PrepareEviction([stash |-> A, bad |-> FALSE, tree |-> tree],
                                                      dd.leaf)
      OBVIOUS
    <3> DEFINE c == [stash |-> A, bad |-> FALSE, tree |-> tree]
    <3>1. EvictAll(A) = Evicted(scan, Evicted(dd, Evicted(main, {c})))
      BY DEF EvictAll
    <3> HIDE DEF c
    <3>2. Evicted(dd, {c}) = PrepareEviction(c, dd.leaf)
      BY <1>7, IsRead
    <3>3. Evicted(main, {c}) = {c} /\ \A cs : Evicted(scan, cs) = cs
      BY <2>1, NotRead
    <3>4. EvictAll(A) = PrepareEviction(c, dd.leaf)
      BY <3>1, <3>2, <3>3
    <3> QED BY <3>4 DEF c
  <2>5. Results = {ReadStash}
    <3>1. /\ Processed(main, ReadStash, plan.w) = {ReadStash}
          /\ Processed(scan, ReadStash, NoWrite) = {ReadStash}
      BY <2>1, NotRead
    <3> QED BY <3>1 DEF Results
  <2>6. \A k \in Keys : LeafOf(k) = posMap[k]
    BY <2>1 DEF LeafOf
  <2> QED BY <2>1, <2>2, <2>3, <2>4, <2>5, <2>6, RoundOfNoBlock
<1>8. CASE scan.st = "NEED_READ"
  <2>1. main.st # "NEED_READ" /\ dd.st # "NEED_READ"
    BY <1>2, <1>8
  <2>2. /\ scan.blk = plan.scanBlk /\ scan.leaf \in Leaves
        /\ plan.scanBlk # NoBlock => scan.new = posMap[plan.scanBlk]
    BY <1>1, <1>8 DEF Scheduled, Asks
  <2>3. ReadStash = ApplyFetchedPath(stash, scan.leaf)
    BY <1>8, <2>1, NotRead, IsRead DEF ReadStash
  <2>4. WritesBack(scan)
    <3> SUFFICES ASSUME NEW A
                 PROVE  EvictAll(A) = PrepareEviction([stash |-> A, bad |-> FALSE, tree |-> tree],
                                                      scan.leaf)
      OBVIOUS
    <3> DEFINE c == [stash |-> A, bad |-> FALSE, tree |-> tree]
    <3>1. EvictAll(A) = Evicted(scan, Evicted(dd, Evicted(main, {c})))
      BY DEF EvictAll
    <3> HIDE DEF c
    <3>2. Evicted(scan, {c}) = PrepareEviction(c, scan.leaf)
      BY <1>8, IsRead
    <3>3. Evicted(main, {c}) = {c} /\ \A cs : Evicted(dd, cs) = cs
      BY <2>1, NotRead
    <3>4. EvictAll(A) = PrepareEviction(c, scan.leaf)
      BY <3>1, <3>2, <3>3
    <3> QED BY <3>4 DEF c
  <2>5. Results = Processed(scan, ReadStash, NoWrite)
    <3>1. Processed(main, ReadStash, plan.w) = {ReadStash}
      BY <2>1, NotRead
    <3> QED BY <3>1 DEF Results
  <2>6. CASE plan.scanBlk = NoBlock
    <3>1. Results = {ReadStash}
      BY <1>8, <2>2, <2>5, <2>6, IsRead
    <3>2. \A k \in Keys : LeafOf(k) = posMap[k]
      BY <1>1, <2>1, <2>2, <2>6 DEF LeafOf
    <3> QED BY <2>1, <2>2, <2>3, <2>4, <3>1, <3>2, RoundOfNoBlock
  <2>7. CASE plan.scanBlk # NoBlock
    <3>1. Results = Rewritten(ReadStash, plan.scanBlk, posMap[plan.scanBlk], NoWrite)
      BY <1>8, <2>2, <2>5, <2>7, IsRead
    <3>2. /\ LeafOf(plan.scanBlk) = scan.leaf
          /\ \A i \in Keys \ {plan.scanBlk} : LeafOf(i) = posMap[i]
      BY <1>8, <2>1, <2>2 DEF LeafOf
    <3> QED BY <1>3, <1>4, <2>1, <2>2, <2>3, <2>4, <2>7, <3>1, <3>2, RoundOfBlock
  <2> QED BY <2>6, <2>7
<1> QED BY <1>5, <1>6, <1>7, <1>8

-----------------------------------------------------------------------------
(* The theorems.                                                           *)

LEMMA RoundsInit == Init => RoundsInv
<1> SUFFICES ASSUME Init PROVE RoundsInv
  OBVIOUS
<1>1. PICK pos \in [Keys -> Leaves], v \in Values :
        \E p \in P!Placements({[key |-> k, leaf |-> pos[k], val |-> v, n |-> 0] : k \in Keys},
                              Leaves) :
          /\ tree = [n \in P!Nodes |-> P!Bucket(p, n)]
          /\ stash = P!Bucket(p, NoNode)
          /\ posMap = pos /\ mem = [k \in Keys |-> v]
  BY DEF Init
<1> DEFINE B(k) == [key |-> k, leaf |-> pos[k], val |-> v, n |-> 0]
           S == {B(k) : k \in Keys}
<1>2. PICK p \in P!Placements(S, Leaves) : /\ tree = [n \in P!Nodes |-> P!Bucket(p, n)]
                                           /\ stash = P!Bucket(p, NoNode)
  BY <1>1
<1>3. /\ \A k \in Keys : B(k) \in S /\ B(k).key = k /\ B(k) \in Copy
      /\ \A b \in S : b.key \in Keys /\ b = B(b.key) /\ b.leaf = pos[b.key] /\ b.val = v
  BY <1>1 DEF Copy
<1> HIDE DEF S, B
<1>4. P!MergedPath(Leaves) = P!Nodes
  BY DEF P!MergedPath, P!Nodes, Leaves
<1>5. /\ DOMAIN p = S
      /\ \A b \in S : p[b] = NoNode \/ (p[b] \in P!Nodes /\ p[b] \in P!Path(b.leaf))
  BY <1>2, <1>4 DEF P!Placements, P!Eligible
<1>6. /\ stash = {b \in S : p[b] = NoNode}
      /\ \A n \in P!Nodes : tree[n] = {b \in S : p[b] = n}
  BY <1>2, <1>5 DEF P!Bucket
<1>7. AllCopies = S
  BY <1>5, <1>6 DEF AllCopies
<1>8. S \subseteq Copy
  BY <1>3
<1>9. /\ round = 0 /\ plan = NoPlan /\ failure = "none" /\ main.st = "DONE"
      /\ main = Step("DONE") /\ dd = Step("DONE") /\ scan = Step("DONE")
  BY DEF Init, Step
<1>10. Typed
  <2>1. Step("DONE") \in Paths
    BY DEF Step, Paths, DSteps
  <2>2. NoPlan \in Plans
    BY DEF NoPlan, Plans
  <2>3. tree \in [P!Nodes -> SUBSET Copy]
    <3>1. \A n \in P!Nodes : P!Bucket(p, n) \in SUBSET Copy
      BY <1>5, <1>8 DEF P!Bucket
    <3> QED BY <1>2, <3>1
  <2> QED BY <1>1, <1>6, <1>8, <1>9, <2>1, <2>2, <2>3 DEF Typed
<1>11. Scheduled /\ Answered
  <2>1. plan.blk = NoBlock /\ Idle
    BY <1>9 DEF NoPlan, Idle
  <2> QED BY <1>9, <2>1 DEF Scheduled, Answered, Step
<1>12. Whole
  <2>1. \A b, c \in AllCopies : b.key = c.key => b = c
    BY <1>3, <1>7
  <2>2. \A n \in P!Nodes : NoNode # n
    BY RoundsAssumption
  <2> QED BY <1>3, <1>5, <1>6, <1>7, <2>1, <2>2 DEF Whole
<1>13. Placed
  <2>1. \A k \in Keys : LeafOf(k) = pos[k]
    BY <1>1, <1>9 DEF LeafOf, Step
  <2> QED BY <1>1, <1>3, <1>7, <2>1 DEF Placed
<1> QED BY <1>9, <1>10, <1>11, <1>12, <1>13 DEF RoundsInv

(* The start of an access, with its plan. *)
LEMMA BeginKeeps ==
    ASSUME RoundsInv, NEW blk \in Keys \cup {NoBlock}, NEW w \in Values \cup {NoWrite},
           NEW at \in MainRounds, NEW s \in Keys \cup {NoBlock},
           NEW scanAt \in ScanRounds \cup {0}, Begin(blk, w, at, s, scanAt)
    PROVE  RoundsInv'
<1>1. /\ failure = "none" /\ Typed /\ Scheduled /\ Whole /\ Placed /\ Idle
      /\ failure' = failure /\ tree' = tree /\ stash' = stash /\ posMap' = posMap
      /\ round' = 1
  BY DEF Begin, RoundsInv
<1>2. /\ plan' = [blk |-> blk, w |-> w, at |-> at, scanBlk |-> s, scanAt |-> scanAt]
      /\ main' = Step("IDLE")
      /\ dd' = Step(IF FullObliv THEN "IDLE" ELSE "DONE")
      /\ scan' = Step(IF s = NoBlock THEN "DONE" ELSE "IDLE")
      /\ mem' = IF blk = NoBlock \/ w = NoWrite THEN mem ELSE [mem EXCEPT ![blk] = w]
  BY DEF Begin
<1>3. /\ main'.st = "IDLE" /\ dd'.st = (IF FullObliv THEN "IDLE" ELSE "DONE")
      /\ scan'.st = (IF s = NoBlock THEN "DONE" ELSE "IDLE")
      /\ main' \in Paths /\ dd' \in Paths /\ scan' \in Paths
  BY <1>2 DEF Step, Paths, DSteps
<1>4. /\ plan'.blk = blk /\ plan'.w = w /\ plan'.at = at /\ plan'.scanBlk = s
      /\ plan'.scanAt = scanAt /\ plan' \in Plans
  BY <1>2 DEF Plans
<1>5. /\ at \in 1 .. OmapRounds /\ (scanAt = 0 \/ scanAt \in 1 .. OmapRounds)
      /\ OmapRounds \in Nat
  BY RoundsAssumption
<1>6. /\ s = NoBlock <=> scanAt = 0
      /\ s = blk /\ s # NoBlock => scanAt < at
  BY DEF Begin
<1>7. /\ mem' \in [Keys -> Values]
      /\ \A k \in Keys : mem'[k] = IF k = blk /\ w # NoWrite THEN w ELSE mem[k]
  BY <1>1, <1>2, RoundsAssumption DEF Typed
<1>8. Typed'
  BY <1>1, <1>3, <1>4, <1>7 DEF Typed
<1>9. Scheduled'
  <2>1. OnTime(main, plan.at)' /\ OnTime(scan, plan.scanAt)'
    BY <1>1, <1>3, <1>4, <1>5, <1>6 DEF OnTime
  <2>2. Asks(main, plan.blk)' /\ Asks(scan, plan.scanBlk)'
    BY <1>3 DEF Asks
  <2>3. blk # NoBlock /\ w # NoWrite => mem'[blk] = w
    BY <1>7
  <2>4. ~Idle'
    BY <1>1 DEF Idle
  <2> QED BY <1>1, <1>3, <1>4, <1>6, <2>1, <2>2, <2>3, <2>4 DEF Scheduled
<1>10. Answered'
  BY <1>3 DEF Answered
<1>11. AllCopies' = AllCopies /\ Whole'
  BY <1>1 DEF AllCopies, Whole
<1>12. Placed'
  <2>1. AllCopies \subseteq Copy
    BY <1>1 DEF AllCopies, Typed
  <2>2. \A k \in Keys : LeafOf(k)' = LeafOf(k) /\ ~Unwritten(k)
    BY <1>1, <1>3 DEF LeafOf, Unwritten, Scheduled
  <2>3. \A k \in Keys : mem'[k] = mem[k] \/ Unwritten(k)'
    BY <1>3, <1>4, <1>7 DEF Unwritten
  <2>4. \A b \in AllCopies : b.key \in Keys
    BY <2>1 DEF Copy
  <2> QED BY <1>1, <1>11, <2>2, <2>3, <2>4 DEF Placed
<1> QED BY <1>1, <1>8, <1>9, <1>10, <1>11, <1>12 DEF RoundsInv

(* A round. *)
LEMMA RoundKeeps ==
    ASSUME RoundsApart, RoundsInv, Round
    PROVE  RoundsInv'
<1>1. /\ failure = "none" /\ Typed /\ Scheduled /\ Answered /\ Whole /\ Placed
  BY DEF Round, RoundsInv
<1>2. /\ Moved
      /\ main.st = "NEED_READ" /\ plan.blk # NoBlock => got' = mem[plan.blk]
  BY <1>1, RoundMovesData
<1>3. /\ Scheduled' /\ round' \in Nat /\ plan' = plan /\ mem' = mem
      /\ posMap' \in [Keys -> Leaves]
      /\ main' \in Paths /\ dd' \in Paths /\ scan' \in Paths
  BY <1>1, StaysOnTime
<1>4. \A k \in Keys : /\ LeafOf(k)' = posMap[k]
                      /\ Unwritten(k) /\ main.st # "NEED_READ" => Unwritten(k)'
  BY <1>1, AskedWhereMapped
<1>5. Typed'
  BY <1>1, <1>2, <1>3 DEF Typed, Moved
<1>6. Placed'
  <2>1. AllCopies' \subseteq Copy
    BY <1>2 DEF AllCopies, Moved
  <2>2. \A b \in AllCopies' : b.key \in Keys
    BY <2>1 DEF Copy
  <2> QED BY <1>2, <1>3, <1>4, <2>2 DEF Moved, Placed
<1>7. Answered'
  <2>1. main.st # "NEED_READ" /\ main'.st = "DONE" => main.st = "DONE" /\ got' = got
    <3>1. PICK m \in Leaves, s \in Leaves : MainMoves(m)
      BY <1>1, RoundMoves
    <3>2. main.st # "NEED_READ" => got' = got
      BY RoundData DEF Answer
    <3> QED BY <3>1, <3>2 DEF MainMoves
  <2> QED BY <1>1, <1>2, <1>3, <2>1 DEF Answered
<1> QED BY <1>2, <1>3, <1>5, <1>6, <1>7 DEF RoundsInv, Moved

(* The end of an access. *)
LEMMA EndKeeps ==
    ASSUME RoundsInv, End
    PROVE  RoundsInv'
<1>1. /\ failure = "none" /\ Typed /\ Scheduled /\ Answered /\ Whole /\ Placed
      /\ round' = 0
      /\ UNCHANGED <<tree, stash, posMap, failure, plan, main, dd, scan, got, mem>>
  BY DEF End, RoundsInv
<1>2. main.st = "DONE" /\ dd.st = "DONE" /\ scan.st = "DONE"
  BY DEF End, Done
<1>3. Typed' /\ Answered'
  BY <1>1 DEF Typed, Answered
<1>4. Scheduled'
  BY <1>1, <1>2 DEF Scheduled, Idle
<1>5. AllCopies' = AllCopies /\ Whole' /\ \A k : LeafOf(k)' = LeafOf(k) /\ (Unwritten(k)' <=> Unwritten(k))
  BY <1>1 DEF AllCopies, Whole, LeafOf, Unwritten
<1>6. Placed'
  BY <1>1, <1>5 DEF Placed
<1> QED BY <1>1, <1>3, <1>4, <1>5, <1>6 DEF RoundsInv

(* The invariant holds throughout. *)
LEMMA RoundsInvariant ==
    ASSUME RoundsApart
    PROVE  Spec => []RoundsInv
<1>1. RoundsInv /\ [Next]_vars => RoundsInv'
  <2> SUFFICES ASSUME RoundsInv, [Next]_vars PROVE RoundsInv'
    OBVIOUS
  <2>1. CASE Next
    BY <2>1, BeginKeeps, RoundKeeps, EndKeeps DEF Next
  <2>2. CASE UNCHANGED vars
    BY <2>2 DEF vars, RoundsInv, Typed, Scheduled, Answered, Whole, Placed, AllCopies, LeafOf,
             Unwritten, Idle, OnTime, Asks
  <2> QED BY <2>1, <2>2
<1> QED BY <1>1, RoundsInit, PTL DEF Spec

(* "block not found" (path_oram.cpp:273) is never thrown by the loop: the  *)
(* data path that is read for a block is the one the block is on.          *)
THEOREM RoundsFindData ==
    ASSUME RoundsApart
    PROVE  Spec => []DataFound
<1>1. RoundsInv => DataFound
  BY DEF RoundsInv, DataFound
<1> QED BY <1>1, RoundsInvariant, PTL

(* Between two accesses every data block exists exactly once, on its path, *)
(* under the leaf of the position map, with the payload last written.      *)
THEOREM RoundsKeepData ==
    ASSUME RoundsApart
    PROVE  Spec => []DataIntact
<1>1. RoundsInv => DataIntact
  <2> SUFFICES ASSUME RoundsInv, Idle, failure = "none" PROVE DataIntact
    BY DEF DataIntact
  <2>1. Typed /\ Scheduled /\ Whole /\ Placed
    BY DEF RoundsInv
  <2>2. \A k \in Keys : LeafOf(k) = posMap[k] /\ ~Unwritten(k)
    BY <2>1 DEF Scheduled, LeafOf, Unwritten
  <2>3. AllCopies \subseteq Copy
    BY <2>1 DEF AllCopies, Typed
  <2>4. \A k \in Keys :
           /\ \E b \in AllCopies : b.key = k /\ b.leaf = posMap[k] /\ b.val = mem[k]
           /\ \A b, c \in AllCopies : b.key = k /\ c.key = k => b = c
    BY <2>1, <2>2 DEF Whole, Placed
  <2>5. ASSUME NEW b \in AllCopies
        PROVE  Cardinality({n \in P!Nodes : b \in tree[n]}) + (IF b \in stash THEN 1 ELSE 0) = 1
    <3>1. CASE b \in stash
      <4>1. {n \in P!Nodes : b \in tree[n]} = {}
        BY <2>1, <3>1 DEF Whole
      <4> QED BY <3>1, <4>1, FS_EmptySet
    <3>2. CASE b \notin stash
      <4>1. PICK m \in P!Nodes : b \in tree[m]
        BY <3>2 DEF AllCopies
      <4>2. {n \in P!Nodes : b \in tree[n]} = {m}
        BY <2>1, <4>1 DEF Whole
      <4> QED BY <3>2, <4>2, FS_Singleton
    <3> QED BY <3>1, <3>2
  <2> QED BY <2>1, <2>4, <2>5 DEF DataIntact, Whole
<1> QED BY <1>1, RoundsInvariant, PTL

(* A finished access has the payload of its block: the one found, or the   *)
(* one it was to write.                                                    *)
THEOREM RoundsAnswer ==
    ASSUME RoundsApart
    PROVE  Spec => []DataAnswered
<1>1. RoundsInv => DataAnswered
  BY DEF RoundsInv, Scheduled, Answered, DataAnswered
<1> QED BY <1>1, RoundsInvariant, PTL
=============================================================================
