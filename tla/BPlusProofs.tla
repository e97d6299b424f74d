---------------------------- MODULE BPlusProofs ----------------------------
(***************************************************************************)
(* A theorem about BPlusOmap's access pattern, for every object with one   *)
(* ORAM: a call's accesses tell it from no other call.                     *)
(***************************************************************************)
EXTENDS BPlusOmap, SequenceTheorems, WellFoundedInduction, TLAPS

-----------------------------------------------------------------------------
(* The objects the theorem is about.  In split mode a leaf right above the *)
(* split costs the upper ORAM one access more than its share.              *)
Unsplit == \A i \in DOMAIN Configs : Configs[i].split = 0

(* What the code computes from the constructor's arguments. *)
LEMMA ObjectBuilt ==
    ASSUME Unsplit, conf \in DOMAIN Configs
    PROVE  /\ SplitDepth = 0 /\ split_upper_budget = 0
           /\ MaxHeight \in Nat /\ Budget = 3 * MaxHeight
<1>1. Object = Constructed(Configs[conf])
  BY DEF Object, Objects
<1>2. Configs[conf].split = 0 /\ Configs[conf].height \in Nat
  BY BPlusAssumption DEF Unsplit
<1> QED  BY <1>1, <1>2 DEF SplitDepth, split_upper_budget, MaxHeight, Budget, Constructed

(* A step that leaves conf alone leaves the object's parameters alone. *)
LEMMA SameObject ==
    ASSUME conf' = conf
    PROVE  Budget' = Budget /\ split_upper_budget' = split_upper_budget
BY DEF Budget, split_upper_budget, Object, Objects

-----------------------------------------------------------------------------
(* The recursive functions of the model.  Each takes a value n times one   *)
(* step on; which step is kept in x, so that one argument serves both.     *)
Onward(x, v, n) ==
    CASE x[1] = "walk"      -> Level(v, x[2], n - 1)
      [] x[1] = "underflow" -> Underflow(v, x[2] + 1 - n)
At(g, x, c, n) == IF n = 0 THEN c ELSE Onward(x, g[n - 1], n)
Upto(g, x, c, n) == g = [i \in 0..n |-> At(g, x, c, i)]
Runs(g, x, c) == g = [n \in Nat |-> At(g, x, c, n)]

(* Every non-empty set of numbers has a least one. *)
LEMMA LeastNumber ==
    ASSUME NEW T \in SUBSET Nat, T # {}
    PROVE  \E x \in T : \A y \in T : x <= y
<1> DEFINE R == OpToRel(<, Nat)
<1>1. IsWellFoundedOn(R, Nat)
  BY NatLessThanWellFounded
<1> HIDE DEF R
<1>2. PICK x \in T : \A y \in T : ~(<<y, x>> \in R)
  BY <1>1, WFMin
<1>3. ASSUME NEW y \in T PROVE x <= y
  <2>1. <<y, x>> \notin R
    BY <1>2
  <2>2. y < x => <<y, x>> \in R
    BY DEF R, OpToRel
  <2> QED BY <2>1, <2>2
<1> QED BY <1>2, <1>3

(* An element of a prefix. *)
LEMMA UptoAt ==
    ASSUME NEW g, NEW x, NEW c, NEW n \in Nat, Upto(g, x, c, n), NEW i \in 0..n
    PROVE  g[i] = At(g, x, c, i)
<1> DEFINE F == [j \in 0..n |-> At(g, x, c, j)]
<1>1. F[i] = At(g, x, c, i) /\ g = F
  BY DEF Upto
<1> HIDE DEF F
<1> QED  BY <1>1

(* Two prefixes agree where both are defined. *)
LEMMA UptoAgree ==
    ASSUME NEW g, NEW h, NEW x, NEW c, NEW m \in Nat, NEW n \in Nat,
           Upto(g, x, c, m), Upto(h, x, c, n), NEW i \in Nat, i <= m, i <= n
    PROVE  g[i] = h[i]
<1> DEFINE T == {j \in Nat : j <= m /\ j <= n /\ g[j] # h[j]}
<1> SUFFICES ASSUME T # {} PROVE FALSE
  OBVIOUS
<1>1. PICK j \in T : \A y \in T : j <= y
  BY LeastNumber
<1>2. g[j] = At(g, x, c, j) /\ h[j] = At(h, x, c, j)
  BY <1>1, UptoAt
<1>3. j # 0 => g[j - 1] = h[j - 1]
  BY <1>1
<1> QED  BY <1>1, <1>2, <1>3 DEF At

(* Every prefix exists. *)
LEMMA UptoExists ==
    ASSUME NEW x, NEW c, NEW n \in Nat
    PROVE  \E g : Upto(g, x, c, n)
<1> DEFINE T == {m \in Nat : ~\E g : Upto(g, x, c, m)}
<1> SUFFICES ASSUME T # {} PROVE FALSE
  OBVIOUS
<1>1. PICK m \in T : \A y \in T : m <= y
  BY LeastNumber
<1>2. CASE m = 0
  <2> DEFINE g == [i \in 0..0 |-> c]
  <2>1. g = [i \in 0..0 |-> At(g, x, c, i)]
    BY DEF At
  <2> QED  BY <1>1, <1>2, <2>1 DEF Upto
<1>3. CASE m # 0
  <2>1. PICK g : Upto(g, x, c, m - 1)
    BY <1>1, <1>3
  <2> DEFINE h == [i \in 0..m |-> IF i = m THEN At(g, x, c, i) ELSE g[i]]
  <2>2. ASSUME NEW i \in 0..m PROVE h[i] = At(h, x, c, i)
    <3>1. i # 0 => h[i - 1] = g[i - 1]
      BY <1>1
    <3>2. At(h, x, c, i) = At(g, x, c, i)
      BY <3>1 DEF At
    <3>3. i # m => g[i] = At(g, x, c, i)
      BY <1>1, <1>3, <2>1, UptoAt
    <3> QED  BY <3>2, <3>3
  <2> HIDE DEF h
  <2>3. h = [i \in 0..m |-> At(h, x, c, i)]
    BY <2>2 DEF h
  <2> QED  BY <1>1, <2>3 DEF Upto
<1> QED  BY <1>2, <1>3

(* The recursion has a solution on all numbers. *)
LEMMA RunsExists == ASSUME NEW x, NEW c PROVE \E f : Runs(f, x, c)
<1> DEFINE F(i) == CHOOSE g : Upto(g, x, c, i)
           f == [i \in Nat |-> F(i)[i]]
<1>1. \A i \in Nat : Upto(F(i), x, c, i)
  BY UptoExists
<1> HIDE DEF F
<1>2. ASSUME NEW i \in Nat PROVE f[i] = At(f, x, c, i)
  <2>1. F(i)[i] = At(F(i), x, c, i)
    BY <1>1, UptoAt
  <2>2. i # 0 => i - 1 \in Nat /\ F(i - 1)[i - 1] = F(i)[i - 1]
    BY <1>1, UptoAgree
  <2> QED  BY <2>1, <2>2 DEF At
<1> HIDE DEF f
<1>3. f = [i \in Nat |-> At(f, x, c, i)]
  BY <1>2 DEF f
<1> QED  BY <1>3 DEF Runs

(* traverse_with_siblings: one level after the other. *)
LEMMA TraverseRuns ==
    ASSUME NEW m, NEW key, NEW at
    PROVE  \E f : /\ f[0] = [m |-> m, at |-> at]
                  /\ \A n \in Nat : f[n + 1] = Level(f[n], key, (n + 1) - 1)
                  /\ Traverse(m, key, at) = f[MaxHeight].m
<1> DEFINE Body(g) == [n \in Nat |-> IF n = 0 THEN [m |-> m, at |-> at]
                                     ELSE Level(g[n - 1], key, n - 1)]
           down == CHOOSE g : g = Body(g)
           x == <<"walk", key>>
           c == [m |-> m, at |-> at]
<1>1. \E g : g = Body(g)
  <2>1. PICK f : Runs(f, x, c)
    BY RunsExists
  <2>2. \A n \in Nat : n # 0 => Onward(x, f[n - 1], n) = Level(f[n - 1], key, n - 1)
    BY DEF Onward
  <2> HIDE DEF x, c
  <2>3. [n \in Nat |-> At(f, x, c, n)] = Body(f)
    BY <2>2 DEF At, c
  <2> QED  BY <2>1, <2>3 DEF Runs
<1>2. down = Body(down)
  BY <1>1
<1>3. Traverse(m, key, at) = down[MaxHeight].m
  BY DEF Traverse
<1> HIDE DEF down
<1>4. down[0] = [m |-> m, at |-> at]
  BY <1>2
<1>5. \A n \in Nat : down[n + 1] = Level(down[n], key, (n + 1) - 1)
  <2> TAKE n \in Nat
  <2>1. n + 1 \in Nat /\ n + 1 # 0 /\ (n + 1) - 1 = n
    OBVIOUS
  <2>2. Body(down)[n + 1] = Level(down[(n + 1) - 1], key, (n + 1) - 1)
    BY <2>1
  <2> HIDE DEF Body
  <2> QED  BY <1>2, <2>1, <2>2
<1> QED  BY <1>3, <1>4, <1>5

(* The underflows along the path. *)
LEMMA UnderflowRuns ==
    ASSUME NEW m
    PROVE  \E f : /\ f[0] = m
                  /\ \A n \in Nat : f[n + 1] = Underflow(f[n], Len(m.local) + 1 - (n + 1))
                  /\ UnderflowPath(m) = f[Len(m.local) - 1]
<1> DEFINE Body(g) == [n \in Nat |-> IF n = 0 THEN m
                                     ELSE Underflow(g[n - 1], Len(m.local) + 1 - n)]
           up == CHOOSE g : g = Body(g)
           x == <<"underflow", Len(m.local)>>
<1>1. \E g : g = Body(g)
  <2>1. PICK f : Runs(f, x, m)
    BY RunsExists
  <2>2. \A n \in Nat : n # 0 =>
           Onward(x, f[n - 1], n) = Underflow(f[n - 1], Len(m.local) + 1 - n)
    BY DEF Onward
  <2> HIDE DEF x
  <2>3. [n \in Nat |-> At(f, x, m, n)] = Body(f)
    BY <2>2 DEF At
  <2> QED  BY <2>1, <2>3 DEF Runs
<1>2. up = Body(up)
  BY <1>1
<1>3. UnderflowPath(m) = up[Len(m.local) - 1]
  BY DEF UnderflowPath
<1> HIDE DEF up
<1>4. up[0] = m
  BY <1>2
<1>5. \A n \in Nat : up[n + 1] = Underflow(up[n], Len(m.local) + 1 - (n + 1))
  <2> TAKE n \in Nat
  <2>1. n + 1 \in Nat /\ n + 1 # 0 /\ (n + 1) - 1 = n
    OBVIOUS
  <2>2. Body(up)[n + 1] = Underflow(up[(n + 1) - 1], Len(m.local) + 1 - (n + 1))
    BY <2>1
  <2> HIDE DEF Body
  <2> QED  BY <1>2, <2>1, <2>2
<1> QED  BY <1>3, <1>4, <1>5

-----------------------------------------------------------------------------
(* Sequences, of whatever elements. *)
Listed(s) == \E n \in Nat : DOMAIN s = 1..n /\ s = [i \in 1..n |-> s[i]]

(* A list is a sequence over its own elements. *)
LEMMA ListIsSeq ==
    ASSUME NEW s, NEW n \in Nat, DOMAIN s = 1..n, s = [i \in 1..n |-> s[i]]
    PROVE  /\ s \in Seq({s[i] : i \in 1..n}) /\ Len(s) = n /\ Listed(s)
<1> DEFINE S == {s[i] : i \in 1..n}
<1>1. s \in [1..n -> S]
  OBVIOUS
<1>2. s \in Seq(S)
  BY <1>1 DEF Seq
<1> HIDE DEF S
<1>3. Len(s) = n
  <2>1. Len(s) \in Nat /\ DOMAIN s = 1..Len(s)
    BY <1>2, LenProperties
  <2> QED  BY <2>1
<1> QED  BY <1>2, <1>3 DEF Listed, S

(* The length and the elements of a list. *)
LEMMA ListedIs ==
    ASSUME NEW s, Listed(s)
    PROVE  /\ Len(s) \in Nat /\ DOMAIN s = 1..Len(s)
           /\ s \in Seq({s[i] : i \in 1..Len(s)})
           /\ s = [i \in 1..Len(s) |-> s[i]]
BY ListIsSeq DEF Listed

(* Every sequence is a list. *)
LEMMA SeqIsListed ==
    ASSUME NEW S, NEW s \in Seq(S)
    PROVE  Listed(s)
BY LenProperties DEF Listed

(* Elements change, the length does not. *)
LEMMA ChangedListed ==
    ASSUME NEW s, Listed(s), NEW t, DOMAIN t = DOMAIN s, t = [i \in DOMAIN s |-> t[i]]
    PROVE  Listed(t) /\ Len(t) = Len(s)
BY ListedIs, ListIsSeq

(* One element changes. *)
LEMMA ExceptListed ==
    ASSUME NEW s, Listed(s), NEW i, NEW e
    PROVE  Listed([s EXCEPT ![i] = e]) /\ Len([s EXCEPT ![i] = e]) = Len(s)
BY ChangedListed

(* One element more. *)
LEMMA AppendListed ==
    ASSUME NEW s, Listed(s), NEW e
    PROVE  /\ Listed(Append(s, e)) /\ Len(Append(s, e)) = Len(s) + 1
           /\ Append(s, e)[Len(s) + 1] = e
<1> DEFINE S == {s[i] : i \in 1..Len(s)} \cup {e}
<1>1. s \in Seq({s[i] : i \in 1..Len(s)}) /\ Len(s) \in Nat
  BY ListedIs
<1>2. {s[i] : i \in 1..Len(s)} \subseteq S
  OBVIOUS
<1>3. s \in Seq(S) /\ e \in S
  <2> HIDE DEF S
  <2> QED  BY <1>1, <1>2, SeqMonotonic DEF S
<1> HIDE DEF S
<1>4. Append(s, e) \in Seq(S) /\ Len(Append(s, e)) = Len(s) + 1 /\ Append(s, e)[Len(s) + 1] = e
  BY <1>1, <1>3, AppendProperties
<1> QED  BY <1>4, SeqIsListed
(* The accesses of a call.                                                 *)
Working(m) ==
    /\ DOMAIN m = {"up", "lo", "root", "next", "local", "sibs", "bad", "forgotten", "ops"}
    /\ m.ops \in [{"up", "lo"} -> Nat]

(* The step from m to w is made without reading. *)
Keeps(m, w) == Working(m) => Working(w) /\ w.ops = m.ops

(* Steps without reads in a row. *)
LEMMA KeepsAll ==
    ASSUME NEW m, NEW v, NEW w, Keeps(m, v), Keeps(v, w)
    PROVE  Keeps(m, w)
BY DEF Keeps

(* reassign_all_leaves reads nothing. *)
LEMMA ReassignKept == ASSUME NEW m, NEW lf PROVE Keeps(m, ReassignAllLeaves(m, lf))
BY DEF ReassignAllLeaves, Keeps, Working

(* flush_all_to_stash reads nothing. *)
LEMMA FlushKept == ASSUME NEW m PROVE Keeps(m, FlushAllToStash(m))
BY DEF FlushAllToStash, Keeps, Working

(* handle_delete_underflow works on what was read. *)
LEMMA UnderflowKept == ASSUME NEW m, NEW i PROVE Keeps(m, Underflow(m, i))
BY DEF Underflow, Keeps, Working

(* So does the change of the root. *)
LEMMA CollapseKept == ASSUME NEW m PROVE Keeps(m, Collapse(m))
BY DEF Collapse, Keeps, Working

(* And a split. *)
LEMMA SplitKept == ASSUME NEW m, NEW i, NEW leaf PROVE Keeps(m, SplitIfFull(m, i, leaf))
<1>1. Keeps(m, m)
  BY DEF Keeps
<1>2. Keeps(m, SplitLeaf(m, i, leaf))
  BY DEF SplitLeaf, Keeps, Working
<1>3. ASSUME NEW v PROVE Keeps(v, ParentOfSplit(v, i, leaf))
  BY DEF ParentOfSplit, Keeps, Working
<1> QED  BY <1>1, <1>2, <1>3, KeepsAll DEF SplitIfFull

(* A search updates what it found. *)
LEMMA UpdatedKept == ASSUME NEW m, NEW key, NEW u PROVE Keeps(m, Updated(m, key, u))
BY DEF Updated, Keeps, Working

(* An insert changes the leaf it reached. *)
LEMMA InsertedKept ==
    ASSUME NEW m, NEW key, NEW v, NEW leaf
    PROVE  Keeps(m, InsertedBelow(m, key, v, leaf))
<1>1. Keeps(m, m)
  BY DEF Keeps
<1>2. ASSUME NEW w PROVE Keeps(m, [m EXCEPT !.local[Len(m.local)].node = w])
  BY DEF Keeps, Working
<1> QED  BY <1>1, <1>2, SplitKept, KeepsAll DEF InsertedBelow

(* The underflows of a path. *)
LEMMA UnderflowPathKept ==
    ASSUME NEW m, Len(m.local) \in Nat, Len(m.local) > 0
    PROVE  Keeps(m, UnderflowPath(m))
<1>1. PICK f : /\ f[0] = m
               /\ \A n \in Nat : f[n + 1] = Underflow(f[n], Len(m.local) + 1 - (n + 1))
               /\ UnderflowPath(m) = f[Len(m.local) - 1]
  BY UnderflowRuns
<1> DEFINE T == {n \in Nat : ~Keeps(m, f[n])}
<1>2. T = {}
  <2> SUFFICES ASSUME T # {} PROVE FALSE
    OBVIOUS
  <2>1. PICK n \in T : \A k \in T : n <= k
    BY LeastNumber
  <2>2. n # 0
    BY <1>1, <2>1 DEF Keeps
  <2>3. n - 1 \in Nat /\ n - 1 \notin T
    BY <2>1, <2>2
  <2>4. PICK i : f[n] = Underflow(f[n - 1], i)
    <3>1. f[(n - 1) + 1] = Underflow(f[n - 1], Len(m.local) + 1 - ((n - 1) + 1))
      BY <1>1, <2>3
    <3>2. (n - 1) + 1 = n
      BY <2>1
    <3> QED  BY <3>1, <3>2
  <2>5. Keeps(m, f[n])
    BY <2>3, <2>4, UnderflowKept, KeepsAll
  <2> QED  BY <2>1, <2>5
<1>3. Keeps(m, f[Len(m.local) - 1])
  BY <1>2
<1> QED  BY <1>1, <1>3

(* A delete from the leaf that was reached, up to the root. *)
LEMMA RemovedKept ==
    ASSUME NEW m, NEW key, Working(m), Listed(m.local)
    PROVE  Keeps(m, RemovedBelow(m, key))
<1>1. CASE m.bad \/ m.local = <<>>
  BY <1>1 DEF RemovedBelow, Keeps
<1>2. CASE ~(m.bad \/ m.local = <<>>)
  <2> DEFINE l == [m.local EXCEPT ![Len(m.local)].node = RemovedFromLeaf(LastOf(m).node, key)]
             w == [m EXCEPT !.local = l]
  <2>1. RemovedBelow(m, key) = Collapse(UnderflowPath(w))
    BY <1>2 DEF RemovedBelow, Working
  <2>2. DOMAIN l = DOMAIN m.local /\ l = [i \in DOMAIN m.local |-> l[i]]
    BY ListedIs
  <2> HIDE DEF l
  <2>3. Listed(l) /\ Len(l) = Len(m.local)
    BY <2>2, ChangedListed
  <2>4. Len(m.local) \in Nat /\ Len(m.local) # 0
    BY <1>2, ListedIs, EmptySeq
  <2>5. w.local = l /\ Keeps(m, w)
    BY DEF Working, Keeps
  <2> HIDE DEF w
  <2>6. Keeps(w, UnderflowPath(w))
    BY <2>3, <2>4, <2>5, UnderflowPathKept
  <2> QED  BY <2>1, <2>5, <2>6, CollapseKept, KeepsAll
<1> QED  BY <1>1, <1>2

-----------------------------------------------------------------------------
(* Walking down: after n levels at most two accesses per level.            *)
Path(m, n) ==
    /\ Working(m) /\ Listed(m.local)
    /\ n \in Nat /\ m.ops.up = 0 /\ m.ops.lo <= 2 * n

(* At most c accesses, all of the one ORAM. *)
Spent(m, c) == Working(m) /\ Listed(m.local) /\ m.ops.up = 0 /\ m.ops.lo <= c

(* A dummy access. *)
LEMMA CountOne ==
    ASSUME SplitDepth = 0, NEW m, NEW c \in Nat, Spent(m, c), NEW d
    PROVE  Spent(Count(m, d), c + 1)
<1>1. Count(m, d) = [m EXCEPT !.ops["lo"] = m.ops["lo"] + 1]
  BY DEF Count, OramForDepth
<1> DEFINE w == [m EXCEPT !.ops["lo"] = m.ops["lo"] + 1]
<1>2. /\ Working(w) /\ w.local = m.local
      /\ w.ops.up = m.ops.up /\ w.ops.lo = m.ops.lo + 1
  BY DEF Spent, Working
<1>3. m.ops.lo \in Nat
  BY DEF Spent, Working
<1> HIDE DEF w
<1>4. Spent(w, c + 1)
  BY <1>2, <1>3 DEF Spent
<1> QED  BY <1>1, <1>4 DEF w

(* An exception costs nothing. *)
LEMMA ThrownSpent ==
    ASSUME NEW m, NEW c \in Nat, Spent(m, c)
    PROVE  Spent([m EXCEPT !.bad = TRUE], c) /\ Spent([m EXCEPT !.bad = TRUE], c + 1)
<1> DEFINE w == [m EXCEPT !.bad = TRUE]
<1>1. Working(w) /\ w.local = m.local /\ w.ops = m.ops /\ m.ops.lo \in Nat
  BY DEF Spent, Working
<1> HIDE DEF w
<1>2. Spent(w, c) /\ Spent(w, c + 1)
  BY <1>1 DEF Spent
<1> QED  BY <1>2 DEF w

(* A node read into local_. *)
LEMMA MoveSpent ==
    ASSUME SplitDepth = 0, NEW m, NEW c \in Nat, Spent(m, c), NEW at, NEW par, NEW d
    PROVE  Spent(MoveToLocal(m, at, par, d), c + 1)
<1>1. CASE ~Readable(m, at, d)
  BY <1>1, ThrownSpent DEF MoveToLocal
<1>2. CASE Readable(m, at, d)
  <2>1. OramForDepth(d) = "lo"
    BY DEF OramForDepth
  <2> DEFINE e == [id |-> at.id, leaf |-> at.leaf, par |-> par, depth |-> d, node |-> m["lo"][at.id].node]
             w == [Taken(m, at, d) EXCEPT !.local = Append(m.local, e)]
  <2>2. MoveToLocal(m, at, par, d) = Count(w, d)
    BY <1>2, <2>1 DEF MoveToLocal
  <2>3. Working(w) /\ w.ops = m.ops /\ w.local = Append(m.local, e)
    BY <2>1 DEF Taken, Spent, Working
  <2> HIDE DEF w, e
  <2>4. Spent(w, c)
    BY <2>3, AppendListed DEF Spent
  <2> QED  BY <2>2, <2>4, CountOne
<1> QED  BY <1>1, <1>2

(* A sibling read, or a dummy access. *)
LEMMA SiblingSpent ==
    ASSUME SplitDepth = 0, NEW m, NEW c \in Nat, Spent(m, c), NEW node, NEW ci, NEW d
    PROVE  Spent(ReadSibling(m, node, ci, d), c + 1)
<1>1. ASSUME NEW at, NEW ploc, NEW cidx
      PROVE  Spent(MoveToSiblingCache(m, at, ploc, cidx, d), c + 1)
  <2>1. CASE ~Readable(m, at, d)
    BY <2>1, ThrownSpent DEF MoveToSiblingCache
  <2>2. CASE Readable(m, at, d)
    <3>1. OramForDepth(d) = "lo"
      BY DEF OramForDepth
    <3> DEFINE e == [id |-> at.id, leaf |-> at.leaf, ploc |-> ploc, cidx |-> cidx,
                     depth |-> d, node |-> m["lo"][at.id].node]
               w == [Taken(m, at, d) EXCEPT !.sibs = Append(m.sibs, e)]
    <3>2. MoveToSiblingCache(m, at, ploc, cidx, d) = Count(w, d)
      BY <2>2, <3>1 DEF MoveToSiblingCache
    <3>3. Working(w) /\ w.ops = m.ops /\ w.local = m.local
      BY <3>1 DEF Taken, Spent, Working
    <3> HIDE DEF w, e
    <3>4. Spent(w, c)
      BY <3>3 DEF Spent
    <3> QED  BY <3>2, <3>4, CountOne
  <2> QED  BY <2>1, <2>2
<1> QED  BY <1>1, CountOne DEF ReadSibling

(* A level: a node, and a sibling of the next one or a dummy. *)
LEMMA LevelPath ==
    ASSUME SplitDepth = 0, NEW w, NEW n, Path(w.m, n), NEW key, NEW d
    PROVE  Path(Level(w, key, d).m, n + 1)
<1>1. n \in Nat /\ 2 * n \in Nat /\ Spent(w.m, 2 * n) /\ w.m.ops.lo \in Nat
  BY DEF Path, Spent, Working
<1>2. ASSUME NEW m, Spent(m, 2 * n + 1) PROVE Spent(Below(m, key, d).m, 2 * n + 2)
  <2>1. 2 * n + 1 \in Nat /\ (2 * n + 1) + 1 = 2 * n + 2
    BY <1>1
  <2>2. CASE m.bad
    <3>1. Below(m, key, d).m = m
      BY <2>2 DEF Below
    <3>2. m.ops.lo \in Nat
      BY <1>2 DEF Spent, Working
    <3> QED  BY <1>1, <1>2, <3>1, <3>2 DEF Spent
  <2>3. CASE ~m.bad
    <3>1. \/ Below(m, key, d).m = Count(m, d)
          \/ \E node, ci : Below(m, key, d).m = ReadSibling(m, node, ci, d + 1)
      BY <2>3 DEF Below
    <3> QED  BY <1>2, <2>1, <3>1, CountOne, SiblingSpent
  <2> QED  BY <2>2, <2>3
<1>3. Spent(Level(w, key, d).m, 2 * n + 2)
  <2>1. CASE w.at.id = NoId \/ w.m.bad
    <3>1. Level(w, key, d) = w
      BY <2>1 DEF Level
    <3> QED  BY <1>1, <3>1 DEF Spent
  <2>2. CASE ~(w.at.id = NoId \/ w.m.bad)
    <3>1. PICK par : Level(w, key, d) = Below(MoveToLocal(w.m, w.at, par, d), key, d)
      BY <2>2 DEF Level
    <3>2. Spent(MoveToLocal(w.m, w.at, par, d), 2 * n + 1)
      BY <1>1, MoveSpent
    <3> QED  BY <1>2, <3>1, <3>2
  <2> QED  BY <2>1, <2>2
<1>4. 2 * n + 2 = 2 * (n + 1) /\ n + 1 \in Nat
  BY <1>1
<1> QED  BY <1>3, <1>4 DEF Path, Spent

(* The walk to a leaf. *)
LEMMA TraversePath ==
    ASSUME SplitDepth = 0, MaxHeight \in Nat, NEW m, Path(m, 0), NEW key, NEW at
    PROVE  Path(Traverse(m, key, at), MaxHeight)
<1>1. PICK f : /\ f[0] = [m |-> m, at |-> at]
               /\ \A n \in Nat : f[n + 1] = Level(f[n], key, (n + 1) - 1)
               /\ Traverse(m, key, at) = f[MaxHeight].m
  BY TraverseRuns
<1> DEFINE T == {n \in Nat : ~Path(f[n].m, n)}
<1>2. T = {}
  <2> SUFFICES ASSUME T # {} PROVE FALSE
    OBVIOUS
  <2>1. PICK n \in T : \A k \in T : n <= k
    BY LeastNumber
  <2>2. n # 0
    BY <1>1, <2>1
  <2>3. n - 1 \in Nat /\ n - 1 \notin T /\ (n - 1) + 1 = n
    BY <2>1, <2>2
  <2>4. PICK d : f[n] = Level(f[n - 1], key, d)
    <3>1. f[(n - 1) + 1] = Level(f[n - 1], key, ((n - 1) + 1) - 1)
      BY <1>1, <2>3
    <3> QED  BY <2>3, <3>1
  <2>5. Path(f[n - 1].m, n - 1)
    BY <2>3
  <2>6. Path(f[n].m, (n - 1) + 1)
    BY <2>4, <2>5, LevelPath
  <2> QED  BY <2>1, <2>3, <2>6
<1> QED  BY <1>1, <1>2

-----------------------------------------------------------------------------
(* The calls.                                                              *)
Share == [up |-> 0, lo |-> Budget]
RoundsInv == conf \in DOMAIN Configs /\ RoundsHidden

(* A call that leaves room for padding. *)
Affordable(m) == Working(m) /\ m.ops.up = 0 /\ m.ops.lo <= Budget

(* A walk and what reads nothing after it. *)
LEMMA PathAffordable ==
    ASSUME Unsplit, conf \in DOMAIN Configs, NEW m, Path(m, MaxHeight), NEW w, Keeps(m, w)
    PROVE  Affordable(w)
<1>1. MaxHeight \in Nat /\ Budget = 3 * MaxHeight
  BY ObjectBuilt
<1>2. m.ops.lo \in Nat
  BY DEF Path, Working
<1> QED  BY <1>1, <1>2 DEF Path, Keeps, Affordable

(* After pad_to_budget the ORAM was accessed as often as the budget says. *)
LEMMA PaddedToBudget ==
    ASSUME Unsplit, conf \in DOMAIN Configs, NEW m, Affordable(m)
    PROVE  PadToBudget(m).ops = Share
<1>1. SplitDepth = 0 /\ Budget \in Nat
  BY ObjectBuilt
<1>2. PadToBudget(m) = [m EXCEPT !.ops.lo = Bigger(m.ops.lo, Budget)]
  BY <1>1 DEF PadToBudget
<1>3. m.ops.lo \in Nat /\ m.ops.lo <= Budget /\ m.ops.up = 0
  BY DEF Affordable, Working
<1>4. Bigger(m.ops.lo, Budget) = Budget
  BY <1>1, <1>3 DEF Bigger
<1> DEFINE o == PadToBudget(m).ops
<1>5. DOMAIN o = {"up", "lo"} /\ o = [x \in DOMAIN o |-> o[x]] /\ o.up = 0 /\ o.lo = Budget
  BY <1>2, <1>3, <1>4 DEF Affordable, Working
<1> HIDE DEF o
<1>6. o = Share
  BY <1>5 DEF Share
<1> QED  BY <1>6 DEF o

(* The end of every call. *)
LEMMA CommitHides ==
    ASSUME Unsplit, conf \in DOMAIN Configs, NEW op, NEW m, NEW r, Commit(op, m, r), m.ops = Share
    PROVE  RoundsHidden'
<1>1. conf' = conf /\ last'.ops = Share
  BY DEF Commit
<1>2. split_upper_budget = 0 /\ Budget \in Nat
  BY ObjectBuilt
<1>3. Budget' = Budget /\ split_upper_budget' = split_upper_budget
  BY <1>1, SameObject
<1> QED  BY <1>1, <1>2, <1>3 DEF RoundsHidden, Share

(* A search, an insert or a remove that leaves room is padded. *)
LEMMA FinishHides ==
    ASSUME Unsplit, conf \in DOMAIN Configs, NEW op, NEW m, Affordable(m), NEW r, Finish(op, m, r)
    PROVE  RoundsHidden'
<1>1. PICK lf : Commit(op, Store(m, lf), r)
  BY DEF Finish
<1> DEFINE w == FlushAllToStash(ReassignAllLeaves(m, lf))
<1>2. Keeps(m, w)
  BY ReassignKept, FlushKept, KeepsAll
<1>3. Store(m, lf) = PadToBudget(w)
  BY DEF Store
<1> HIDE DEF w
<1>4. Affordable(w)
  BY <1>2 DEF Affordable, Keeps
<1>5. Store(m, lf).ops = Share
  BY <1>3, <1>4, PaddedToBudget
<1> QED  BY <1>1, <1>5, CommitHides

(* A call starts without accesses. *)
LEMMA StartPath ==
    ASSUME Unsplit, conf \in DOMAIN Configs
    PROVE  Path(Start, 0) /\ Affordable(Start)
<1>1. <<>> \in Seq({}) /\ Len(<<>>) = 0
  BY EmptySeq
<1>2. Listed(<<>>)
  BY <1>1, SeqIsListed
<1>3. Start.local = <<>> /\ Working(Start) /\ Start.ops.up = 0 /\ Start.ops.lo = 0
  BY DEF Start, NoOps, Working
<1>4. Budget \in Nat
  BY ObjectBuilt
<1> HIDE DEF Start
<1> QED  BY <1>2, <1>3, <1>4 DEF Path, Affordable

(* Every call, one by one. *)
LEMMA CallHides ==
    ASSUME Unsplit, conf \in DOMAIN Configs, Next
    PROVE  RoundsHidden' /\ conf' = conf
<1>1. Path(Start, 0) /\ Affordable(Start) /\ SplitDepth = 0 /\ MaxHeight \in Nat
  BY StartPath, ObjectBuilt
<1>2. ASSUME NEW key, NEW at PROVE Path(Traverse(Start, key, at), MaxHeight)
  BY <1>1, TraversePath
<1>3. ASSUME NEW op, NEW m, NEW r, Finish(op, m, r), Affordable(m) PROVE RoundsHidden' /\ conf' = conf
  BY <1>3, FinishHides DEF Finish, Commit
<1>4. ASSUME NEW k, NEW u, Search(k, u) PROVE RoundsHidden' /\ conf' = conf
  <2> DEFINE m == Traverse(Start, k, root)
  <2>1. PICK r : Finish("search", Updated(m, k, u), r)
    BY <1>4 DEF Search, FinishSearch
  <2>2. Path(m, MaxHeight)
    BY <1>2
  <2> HIDE DEF m
  <2>3. Affordable(Updated(m, k, u))
    BY <2>2, UpdatedKept, PathAffordable
  <2> QED  BY <1>3, <2>1, <2>3
<1>5. ASSUME NEW k, NEW v, Insert(k, v) PROVE RoundsHidden' /\ conf' = conf
  <2>1. PICK leaf : Finish("insert", Inserted(Start, k, v, leaf), <<>>)
    BY <1>5 DEF Insert
  <2>2. CASE Start.root.id = NoId
    <3>1. OramForDepth(0) = "lo"
      BY <1>1 DEF OramForDepth
    <3>2. Keeps(Start, InsertedRoot(Start, k, v, leaf))
      BY <3>1 DEF InsertedRoot, Keeps, Working
    <3>3. Inserted(Start, k, v, leaf) = InsertedRoot(Start, k, v, leaf)
      BY <2>2 DEF Inserted
    <3>4. Affordable(Inserted(Start, k, v, leaf))
      BY <1>1, <3>2, <3>3 DEF Affordable, Keeps
    <3> QED  BY <1>3, <2>1, <3>4
  <2>3. CASE Start.root.id # NoId
    <3> DEFINE m == Traverse(Start, k, Start.root)
    <3>1. Inserted(Start, k, v, leaf) = InsertedBelow(m, k, v, leaf)
      BY <2>3 DEF Inserted
    <3>2. Path(m, MaxHeight)
      BY <1>2
    <3> HIDE DEF m
    <3>3. Affordable(InsertedBelow(m, k, v, leaf))
      BY <3>2, InsertedKept, PathAffordable
    <3> QED  BY <1>3, <2>1, <3>1, <3>3
  <2> QED  BY <2>2, <2>3
<1>6. ASSUME NEW k, Remove(k) PROVE RoundsHidden' /\ conf' = conf
  <2> DEFINE m == Traverse(Start, k, Start.root)
  <2>1. Finish("remove", RemovedBelow(m, k), <<>>)
    BY <1>6 DEF Remove, Removed
  <2>2. Path(m, MaxHeight)
    BY <1>2
  <2> HIDE DEF m
  <2>3. Keeps(m, RemovedBelow(m, k))
    BY <2>2, RemovedKept DEF Path
  <2>4. Affordable(RemovedBelow(m, k))
    BY <2>2, <2>3, PathAffordable
  <2> QED  BY <1>3, <2>1, <2>4
<1>7. ASSUME DummyAccess \/ PartialDummyAccess PROVE RoundsHidden' /\ conf' = conf
  <2>1. Commit("dummy", PadToBudget(Start), <<>>)
    BY <1>1, <1>7 DEF DummyAccess, PartialDummyAccess
  <2>2. PadToBudget(Start).ops = Share
    BY <1>1, PaddedToBudget
  <2>3. conf' = conf
    BY <2>1 DEF Commit
  <2> QED  BY <2>1, <2>2, <2>3, CommitHides
<1> QED  BY <1>4, <1>5, <1>6, <1>7 DEF Next

(* Every call makes exactly the budget's accesses: the walk with siblings  *)
(* reads two nodes per level, splitting, borrowing and merging work on     *)
(* what was read, and pad_to_budget supplies the rest.                     *)
THEOREM RoundsAreHidden == Unsplit => (Spec => []RoundsHidden)
<1> SUFFICES ASSUME Unsplit PROVE Spec => []RoundsHidden
  OBVIOUS
<1>1. Init => RoundsInv
  BY DEF Init, RoundsInv, RoundsHidden
<1>2. RoundsInv /\ [Next]_vars => RoundsInv'
  <2> SUFFICES ASSUME RoundsInv, [Next]_vars PROVE RoundsInv'
    OBVIOUS
  <2>1. CASE Next
    BY <2>1, CallHides DEF RoundsInv
  <2>2. CASE UNCHANGED vars
    <3>1. conf' = conf /\ last' = last
      BY <2>2 DEF vars
    <3> QED  BY <3>1, SameObject DEF RoundsInv, RoundsHidden
  <2> QED  BY <2>1, <2>2
<1>3. RoundsInv => RoundsHidden
  BY DEF RoundsInv
<1> QED  BY <1>1, <1>2, <1>3, PTL DEF Spec
=============================================================================
