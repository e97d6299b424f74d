---------------------------- MODULE DAOramProofs ----------------------------
(***************************************************************************)
(* Every block of the DAORAM is where its counters say, for all sizes and  *)
(* numbers of levels, unless a piggyback left a copy of it behind.         *)
(***************************************************************************)
EXTENDS DAOram, TLAPS

(* A counter block of group g of tree t: marked keys have an earlier       *)
(* generation to belong to, and no counter can be used up while one is     *)
(* marked.                                                                 *)
GoodBlock(b, t, g) ==
    /\ b \in CounterBlocks
    /\ \A i \in Offsets : b.backup[i] => b.gc > 0
    /\ \A i \in Marked(b, t, g), o \in Offsets : ~b.backup[o] => b.ic[o] < i

(* The same while an access has counted and not yet moved a marked block. *)
CountedBlock(b, t, g) ==
    /\ b \in CounterBlocks
    /\ \A i \in Offsets : b.backup[i] => b.gc > 0
    /\ \A i \in Marked(b, t, g), o \in Offsets : ~b.backup[o] => b.ic[o] <= i

(* Division by the number of counters per block. *)
LEMMA Division ==
    /\ \A k \in Nat : Group(k) \in Nat /\ Offset(k) \in Offsets
                      /\ k = Group(k) * NumIc + Offset(k)
    /\ \A g \in Nat, i \in Offsets : Group(g * NumIc + i) = g
    /\ \A g \in Nat, i \in Offsets : Offset(g * NumIc + i) = i
    /\ \A t \in Trees : \A k \in KeysOf(t) : Group(k) \in Groups(t)
<1> USE CounterAssumption
<1>1. ASSUME NEW k \in Nat PROVE Group(k) \in Nat /\ Offset(k) \in Offsets
  BY DEF Group, Offset, Offsets
<1>2. ASSUME NEW k \in Nat PROVE k = Group(k) * NumIc + Offset(k)
  BY DEF Group, Offset
<1>3. ASSUME NEW g \in Nat, NEW i \in Offsets PROVE Group(g * NumIc + i) = g
  BY DEF Group, Offsets
<1>4. ASSUME NEW g \in Nat, NEW i \in Offsets PROVE Offset(g * NumIc + i) = i
  BY DEF Offset, Offsets
<1>5. ASSUME NEW t \in Trees, NEW k \in KeysOf(t) PROVE Group(k) \in Groups(t)
  <2>1. Size[t] \in Nat \ {0}
    BY GeometryAssumption
  <2> QED  BY <2>1 DEF Group, Groups, KeysOf
<1> QED  BY <1>1, <1>2, <1>3, <1>4, <1>5

(* The key at an offset of a group belongs to that group. *)
LEMMA KeyOfOffset ==
    ASSUME NEW t \in Trees, NEW g \in Groups(t), NEW i \in Offsets
    PROVE  g \in Nat /\ Group(g * NumIc + i) = g /\ Offset(g * NumIc + i) = i
<1>1. g \in Nat
  BY DEF Groups
<1> QED  BY <1>1, Division

(* Counting an access: only the accessed key gets another leaf, a later    *)
(* one.  When its counter is used up no key of the group is marked, so     *)
(* marking all of them is right.                                           *)
LEMMA Update ==
    ASSUME NEW t \in Trees, NEW g \in Groups(t), NEW b, GoodBlock(b, t, g),
           NEW o \in Offsets, g * NumIc + o \in KeysOf(t)
    PROVE  LET u == update_counter_in(b, o) IN
           /\ CountedBlock(u, t, g)
           /\ ~u.backup[o]
           /\ Tag(b, o) \in Tags /\ Tag(u, o) \in Tags /\ Later(Tag(u, o), Tag(b, o))
           /\ \A i \in Offsets \ {o} :
                g * NumIc + i \in KeysOf(t) => Tag(u, i) = Tag(b, i)
<1> DEFINE u == update_counter_in(b, o)
<1> USE CounterAssumption
<1>0. /\ b.gc \in Nat /\ b.ic \in [Offsets -> 0 .. IcMax - 1]
      /\ b.backup \in [Offsets -> BOOLEAN] /\ IcMax \in Nat /\ NumIc \in Nat
      /\ b = [gc |-> b.gc, ic |-> b.ic, backup |-> b.backup]
      /\ IcMax > 0 /\ IcMax >= NumIc
  BY DEF GoodBlock, CounterBlocks
<1>1. CASE b.backup[o]
  <2>1. u = [gc |-> b.gc, ic |-> [b.ic EXCEPT ![o] = 0],
             backup |-> [b.backup EXCEPT ![o] = FALSE]]
    BY <1>0, <1>1 DEF update_counter_in
  <2>2. u \in CounterBlocks
    BY <2>1, <1>0 DEF CounterBlocks
  <2>3. \A i \in Offsets : u.backup[i] => u.gc > 0
    BY <2>1, <1>0, <1>1 DEF GoodBlock
  <2>4. ASSUME NEW i \in Marked(u, t, g), NEW p \in Offsets, ~u.backup[p]
        PROVE  u.ic[p] <= i
    <3>1. i \in Marked(b, t, g) /\ i \in Offsets /\ i # o
      BY <2>1, <1>0 DEF Marked
    <3>2. CASE p = o
      <4>1. u.ic[o] = 0 /\ i \in Nat
        BY <3>1, <2>1, <1>0 DEF Offsets
      <4>2. u.ic[p] = 0
        BY <4>1, <3>2
      <4> QED  BY <4>1, <4>2
    <3>3. CASE p # o
      <4>1. ~b.backup[p] /\ u.ic[p] = b.ic[p] /\ b.ic[p] \in Nat /\ i \in Nat
        BY <3>3, <2>1, <2>4, <1>0, <3>1 DEF Offsets
      <4>2. b.ic[p] < i
        BY <4>1, <3>1 DEF GoodBlock
      <4> QED  BY <4>1, <4>2
    <3> QED  BY <3>2, <3>3
  <2>5. Tag(u, o) = <<b.gc, 0>> /\ Tag(b, o) = <<b.gc - 1, b.ic[o]>>
    BY <2>1, <1>0, <1>1 DEF Tag
  <2>6. /\ Tag(b, o) \in Tags /\ Tag(u, o) \in Tags /\ Later(Tag(u, o), Tag(b, o))
    <3>1. b.gc > 0 /\ b.ic[o] \in 0 .. IcMax - 1
      BY <1>1, <1>0 DEF GoodBlock
    <3> QED  BY <2>5, <3>1, <1>0 DEF Tags, Later
  <2>7. \A i \in Offsets \ {o} : Tag(u, i) = Tag(b, i)
    BY <2>1, <1>0 DEF Tag
  <2>8. ~u.backup[o]
    BY <2>1, <1>0
  <2> QED  BY <2>2, <2>3, <2>4, <2>6, <2>7, <2>8 DEF CountedBlock
<1>2. CASE ~b.backup[o] /\ b.ic[o] + 1 >= IcMax
  <2>1. u = [gc |-> b.gc + 1, ic |-> [b.ic EXCEPT ![o] = 0],
             backup |-> [i \in Offsets |-> i # o \/ b.backup[i]]]
    BY <1>2 DEF update_counter_in
  <2>a. \A i \in Offsets : u.backup[i] <=> (i # o \/ b.backup[i])
    <3>1. u.backup = [i \in Offsets |-> i # o \/ b.backup[i]]
      BY <2>1
    <3> QED  BY <3>1, Zenon
  <2>2. Marked(b, t, g) = {}
    <3> SUFFICES ASSUME NEW i \in Marked(b, t, g) PROVE FALSE
      OBVIOUS
    <3>1. i \in Offsets /\ b.ic[o] < i
      BY <1>2 DEF GoodBlock, Marked
    <3>2. b.ic[o] \in Nat
      BY <1>0
    <3> QED  BY <3>1, <3>2, <1>0, <1>2 DEF Offsets
  <2>3. u \in CounterBlocks
    BY <2>1, <1>0 DEF CounterBlocks
  <2>4. \A i \in Offsets : u.backup[i] => u.gc > 0
    BY <2>1, <1>0
  <2>5. ASSUME NEW i \in Marked(u, t, g), NEW p \in Offsets, ~u.backup[p]
        PROVE  u.ic[p] <= i
    <3>1. p = o
      BY <2>a, <2>5
    <3>2. u.ic[o] = 0 /\ i \in Nat
      BY <2>1, <1>0 DEF Marked, Offsets
    <3> QED  BY <3>1, <3>2
  <2>6. ~u.backup[o]
    BY <2>a, <1>2
  <2>7. Tag(u, o) = <<b.gc + 1, 0>> /\ Tag(b, o) = <<b.gc, b.ic[o]>>
    BY <2>1, <2>6, <1>0, <1>2 DEF Tag
  <2>8. /\ Tag(b, o) \in Tags /\ Tag(u, o) \in Tags /\ Later(Tag(u, o), Tag(b, o))
    <3>1. b.ic[o] \in 0 .. IcMax - 1
      BY <1>0
    <3> QED  BY <2>7, <3>1, <1>0 DEF Tags, Later
  <2>9. ASSUME NEW i \in Offsets \ {o}, g * NumIc + i \in KeysOf(t)
        PROVE  Tag(u, i) = Tag(b, i)
    <3>1. ~b.backup[i]
      BY <2>2, <2>9 DEF Marked
    <3>2. u.gc - 1 = b.gc /\ u.ic[i] = b.ic[i]
      BY <2>1, <1>0
    <3>3. u.backup[i]
      BY <2>a
    <3> QED  BY <3>1, <3>2, <3>3 DEF Tag
  <2> QED  BY <2>3, <2>4, <2>5, <2>6, <2>8, <2>9 DEF CountedBlock
<1>3. CASE ~b.backup[o] /\ ~(b.ic[o] + 1 >= IcMax)
  <2>1. u = [gc |-> b.gc, ic |-> [b.ic EXCEPT ![o] = b.ic[o] + 1],
             backup |-> b.backup]
    BY <1>0, <1>3 DEF update_counter_in
  <2>0. b.ic[o] \in 0 .. IcMax - 1 /\ b.ic[o] + 1 \in 0 .. IcMax - 1
    BY <1>0, <1>3
  <2>2. u \in CounterBlocks
    BY <2>1, <1>0, <2>0 DEF CounterBlocks
  <2>3. \A i \in Offsets : u.backup[i] => u.gc > 0
    BY <2>1 DEF GoodBlock
  <2>4. ASSUME NEW i \in Marked(u, t, g), NEW p \in Offsets, ~u.backup[p]
        PROVE  u.ic[p] <= i
    <3>1. i \in Marked(b, t, g) /\ i \in Nat /\ ~b.backup[p]
      BY <2>1, <2>4 DEF Marked, Offsets
    <3>2. b.ic[p] < i /\ b.ic[p] \in Nat
      BY <3>1, <1>0 DEF GoodBlock
    <3>3. u.ic[p] \in {b.ic[p], b.ic[p] + 1}
      BY <2>1, <1>0
    <3> QED  BY <3>1, <3>2, <3>3
  <2>5. Tag(u, o) = <<b.gc, b.ic[o] + 1>> /\ Tag(b, o) = <<b.gc, b.ic[o]>>
    BY <2>1, <1>0, <1>3 DEF Tag
  <2>6. /\ Tag(b, o) \in Tags /\ Tag(u, o) \in Tags /\ Later(Tag(u, o), Tag(b, o))
    BY <2>5, <2>0, <1>0 DEF Tags, Later
  <2>7. \A i \in Offsets \ {o} : Tag(u, i) = Tag(b, i)
    BY <2>1, <1>0 DEF Tag
  <2> QED  BY <2>1, <1>3, <2>2, <2>3, <2>4, <2>6, <2>7 DEF CountedBlock
<1> QED  BY <1>1, <1>2, <1>3

(* Moving the first marked key: it alone gets another leaf, a later one,   *)
(* and the remaining marked keys are far enough ahead of all counters.     *)
LEMMA Reset ==
    ASSUME NEW t \in Trees, NEW g \in Groups(t), NEW b, CountedBlock(b, t, g),
           NEW r \in perform_reset_in(b, t, g)
    PROVE  /\ GoodBlock(r.cb, t, g)
           /\ r.key = NoKey => r.cb = b
           /\ r.key # NoKey =>
                \E i \in Offsets :
                    /\ r.key = g * NumIc + i /\ r.key \in KeysOf(t) /\ b.backup[i]
                    /\ r.cur = Tag(b, i) /\ r.new = Tag(r.cb, i)
                    /\ r.cur \in Tags /\ r.new \in Tags /\ Later(r.new, r.cur)
                    /\ \A j \in Offsets \ {i} : Tag(r.cb, j) = Tag(b, j)
<1> USE CounterAssumption
<1>0. /\ b.gc \in Nat /\ b.ic \in [Offsets -> 0 .. IcMax - 1]
      /\ b.backup \in [Offsets -> BOOLEAN] /\ IcMax \in Nat /\ IcMax > 0
      /\ b = [gc |-> b.gc, ic |-> b.ic, backup |-> b.backup]
  BY DEF CountedBlock, CounterBlocks
<1>1. CASE Marked(b, t, g) = {}
  <2>1. r = [cb |-> b, key |-> NoKey, cur |-> None, new |-> None]
    BY <1>1 DEF perform_reset_in
  <2> QED  BY <2>1, <1>1 DEF GoodBlock, CountedBlock
<1>2. CASE Marked(b, t, g) # {}
  <2>1. PICK i \in Marked(b, t, g) :
            /\ \A m \in Marked(b, t, g) : i <= m
            /\ r = [cb  |-> [b EXCEPT !.ic[i] = 0, !.backup[i] = FALSE],
                    key |-> g * NumIc + i, cur |-> Tag(b, i), new |-> <<b.gc, 0>>]
    BY <1>2 DEF perform_reset_in
  <2> DEFINE c == [gc |-> b.gc, ic |-> [b.ic EXCEPT ![i] = 0],
                   backup |-> [b.backup EXCEPT ![i] = FALSE]]
  <2>2. r.cb = c
    BY <2>1, <1>0
  <2>3. /\ i \in Offsets /\ i \in Nat /\ b.backup[i] /\ g * NumIc + i \in KeysOf(t)
    BY DEF Marked, Offsets
  <2>4. c \in CounterBlocks
    BY <1>0, <2>3 DEF CounterBlocks
  <2>5. \A j \in Offsets : c.backup[j] => c.gc > 0
    BY <1>0, <2>3 DEF CountedBlock
  <2>6. ASSUME NEW m \in Marked(c, t, g), NEW o \in Offsets, ~c.backup[o]
        PROVE  c.ic[o] < m
    <3>1. m \in Marked(b, t, g) /\ m # i /\ m \in Nat
      BY <1>0, <2>3 DEF Marked, Offsets
    <3>2. i < m
      BY <3>1, <2>1, <2>3
    <3>3. CASE o = i
      <4>1. c.ic[o] = 0
        BY <3>3, <1>0
      <4> QED  BY <4>1, <3>2, <3>1, <2>3
    <3>4. CASE o # i
      <4>1. ~b.backup[o] /\ c.ic[o] = b.ic[o] /\ b.ic[o] \in Nat
        BY <3>4, <1>0, <2>6
      <4>2. b.ic[o] <= i
        BY <4>1 DEF CountedBlock
      <4> QED  BY <4>1, <4>2, <3>2, <3>1, <2>3
    <3> QED  BY <3>3, <3>4
  <2>7. GoodBlock(c, t, g)
    BY <2>4, <2>5, <2>6 DEF GoodBlock
  <2>8. \A j \in Offsets \ {i} : Tag(c, j) = Tag(b, j)
    BY <1>0 DEF Tag
  <2>9. Tag(c, i) = <<b.gc, 0>> /\ Tag(b, i) = <<b.gc - 1, b.ic[i]>>
    BY <1>0, <2>3 DEF Tag
  <2>10. /\ Tag(b, i) \in Tags /\ Tag(c, i) \in Tags /\ Later(Tag(c, i), Tag(b, i))
    <3>1. b.gc > 0 /\ b.ic[i] \in 0 .. IcMax - 1
      BY <1>0, <2>3 DEF CountedBlock
    <3> QED  BY <3>1, <2>9, <1>0 DEF Tags, Later
  <2>11. r.key # NoKey
    BY <2>1, <2>3 DEF KeysOf, NoKey
  <2>12. r.key = g * NumIc + i /\ r.cur = Tag(b, i) /\ r.new = Tag(c, i)
    BY <2>1, <2>9
  <2> HIDE DEF c
  <2> QED  BY <2>2, <2>3, <2>7, <2>8, <2>10, <2>11, <2>12
<1> QED  BY <1>1, <1>2

-----------------------------------------------------------------------------
(* Whole trees of blocks.                                                  *)

BlocksGood(cbs) ==
    /\ cbs = [t \in Trees |-> cbs[t]]
    /\ \A t \in Trees : cbs[t] = [g \in Groups(t) |-> cbs[t][g]]
    /\ \A t \in Trees : \A g \in Groups(t) : GoodBlock(cbs[t][g], t, g)

(* The leaves of a tree agree with its counters, but for the keys in X. *)
Agree(lf, cbs, t, X) ==
    /\ lf \in [KeysOf(t) -> Tags]
    /\ \A k \in KeysOf(t) \ X : lf[k] = Tag(cbs[t][Group(k)], Offset(k))

MovedAll(lf, op, t) == Moved(lf, op, t, KeysOf(t))

(* The access asks for its blocks under the leaves lf, but for the keys in *)
(* X, and will give them later ones.                                       *)
Asked(op, lf, t, X) ==
    Works(op) =>
        /\ op.key \in KeysOf(0) /\ (Target(op, t) \notin X => lf[Target(op, t)] = op.cur)
        /\ op.new \in Tags /\ Later(op.new, op.cur)
        /\ op.rkey # NoKey =>
            /\ op.rkey \in KeysOf(t) /\ op.rkey # Target(op, t)
            /\ op.rkey \notin X => lf[op.rkey] = op.rcur
            /\ op.rnew \in Tags /\ Later(op.rnew, op.rcur)

(* The position-map keys of a data key are keys of their trees; keys are    *)
(* numbers, and NoKey is none.                                              *)
LEMMA KeyFacts ==
    /\ \A k \in KeysOf(0), t \in Trees : PmKeys[k][t] \in KeysOf(t)
    /\ \A t \in Trees : KeysOf(t) \subseteq Nat /\ NoKey \notin KeysOf(t)
<1>1. \A t \in Trees : Size[t] \in Nat
  BY GeometryAssumption
<1> QED  BY <1>1, GeometryAssumption DEF KeysOf, NoKey

(* An access that reaches the counters of tree t asks for its blocks under *)
(* their leaves, and once they are moved all leaves agree with the         *)
(* counters again.                                                         *)
LEMMA CountedResult ==
    ASSUME NEW t \in Trees, NEW cbs, BlocksGood(cbs), NEW lf, NEW X, Agree(lf, cbs, t, X),
           NEW k \in KeysOf(0), NEW c \in Counted(cbs, k, t)
    PROVE  /\ Works(c.op) /\ c.op.on /\ c.op.key = k
           /\ BlocksGood(c.cbs) /\ \A s \in Trees \ {t} : c.cbs[s] = cbs[s]
           /\ Asked(c.op, lf, t, X)
           /\ Agree(MovedAll(lf, c.op, t), c.cbs, t, X)
<1> DEFINE key == PmKeys[k][t]
           g   == Group(key)
           o   == Offset(key)
           old == cbs[t][g]
           upd == update_counter_in(old, o)
<1>1. key \in KeysOf(t) /\ key \in Nat
  BY KeyFacts
<1>2. g \in Groups(t) /\ o \in Offsets /\ key = g * NumIc + o /\ g \in Nat
  BY <1>1, Division
<1>3. GoodBlock(old, t, g)
  BY <1>2 DEF BlocksGood
<1>4. /\ CountedBlock(upd, t, g) /\ ~upd.backup[o]
      /\ Tag(old, o) \in Tags /\ Tag(upd, o) \in Tags
      /\ Later(Tag(upd, o), Tag(old, o))
      /\ \A i \in Offsets \ {o} :
            g * NumIc + i \in KeysOf(t) => Tag(upd, i) = Tag(old, i)
  <2>1. g * NumIc + o \in KeysOf(t)
    BY <1>1, <1>2
  <2> HIDE DEF g, o, old
  <2> QED  BY <2>1, <1>2, <1>3, Update
<1>5. PICK r \in perform_reset_in(upd, t, g) :
        c = [cbs |-> [cbs EXCEPT ![t][g] = r.cb],
             op  |-> [on |-> TRUE, dummy |-> FALSE, key |-> k,
                      cur |-> Tag(old, o), new |-> Tag(upd, o),
                      rkey |-> r.key, rcur |-> r.cur, rnew |-> r.new]]
  BY DEF Counted
<1> HIDE DEF upd, old
<1>6. /\ GoodBlock(r.cb, t, g)
      /\ r.key = NoKey => r.cb = upd
      /\ r.key # NoKey =>
            \E i \in Offsets :
                /\ r.key = g * NumIc + i /\ r.key \in KeysOf(t) /\ upd.backup[i]
                /\ r.cur = Tag(upd, i) /\ r.new = Tag(r.cb, i)
                /\ r.cur \in Tags /\ r.new \in Tags /\ Later(r.new, r.cur)
                /\ \A j \in Offsets \ {i} : Tag(r.cb, j) = Tag(upd, j)
  BY <1>2, <1>4, Reset
<1> HIDE DEF g, o, key
<1>7. /\ Works(c.op) /\ c.op.on /\ c.op.key = k
      /\ c.op.cur = Tag(old, o) /\ c.op.new = Tag(upd, o)
      /\ c.op.rkey = r.key /\ c.op.rcur = r.cur /\ c.op.rnew = r.new
      /\ c.cbs = [cbs EXCEPT ![t][g] = r.cb]
  BY <1>5 DEF Works
<1>8. /\ c.cbs = [s \in Trees |-> c.cbs[s]]
      /\ \A s \in Trees \ {t} : c.cbs[s] = cbs[s]
      /\ c.cbs[t] = [cbs[t] EXCEPT ![g] = r.cb]
  BY <1>7 DEF BlocksGood
<1>9. /\ c.cbs[t] = [h \in Groups(t) |-> c.cbs[t][h]]
      /\ c.cbs[t][g] = r.cb
      /\ \A h \in Groups(t) \ {g} : c.cbs[t][h] = cbs[t][h]
  BY <1>8, <1>2 DEF BlocksGood
<1>10. BlocksGood(c.cbs)
  <2>1. \A s \in Trees : c.cbs[s] = [h \in Groups(s) |-> c.cbs[s][h]]
    BY <1>8, <1>9 DEF BlocksGood
  <2>2. ASSUME NEW s \in Trees, NEW h \in Groups(s) PROVE GoodBlock(c.cbs[s][h], s, h)
    <3>1. CASE s = t /\ h = g
      BY <3>1, <1>9, <1>6
    <3>2. CASE ~(s = t /\ h = g)
      <4>1. c.cbs[s][h] = cbs[s][h]
        BY <3>2, <1>8, <1>9
      <4> QED  BY <4>1 DEF BlocksGood
    <3> QED  BY <3>1, <3>2
  <2> QED  BY <2>1, <2>2, <1>8 DEF BlocksGood
<1>11. Target(c.op, t) = key /\ (key \notin X => lf[key] = Tag(old, o))
  BY <1>7, <1>1 DEF Target, Agree, key, old, g, o
<1>12. r.key # NoKey =>
        /\ r.key \in KeysOf(t) /\ r.key # key /\ (r.key \notin X => lf[r.key] = r.cur)
        /\ r.new \in Tags /\ Later(r.new, r.cur)
  <2> SUFFICES ASSUME r.key # NoKey
               PROVE  /\ r.key \in KeysOf(t) /\ r.key # key
                      /\ r.key \notin X => lf[r.key] = r.cur
                      /\ r.new \in Tags /\ Later(r.new, r.cur)
    OBVIOUS
  <2>1. PICK i \in Offsets :
            /\ r.key = g * NumIc + i /\ r.key \in KeysOf(t) /\ upd.backup[i]
            /\ r.cur = Tag(upd, i)
            /\ r.cur \in Tags /\ r.new \in Tags /\ Later(r.new, r.cur)
    BY <1>6
  <2>2. i # o
    BY <2>1, <1>4
  <2>3. Group(r.key) = g /\ Offset(r.key) = i
    BY <2>1, <1>2, Division
  <2>4. r.key # key
    BY <2>3, <2>2 DEF o
  <2>5. r.key \notin X => lf[r.key] = Tag(old, i)
    BY <2>3, <2>1 DEF Agree, old
  <2>6. Tag(upd, i) = Tag(old, i)
    BY <2>1, <2>2, <1>4
  <2> QED  BY <2>1, <2>4, <2>5, <2>6
<1>13. Asked(c.op, lf, t, X)
  BY <1>7, <1>11, <1>12, <1>4 DEF Asked
<1>14. Agree(MovedAll(lf, c.op, t), c.cbs, t, X)
  <2> DEFINE mv == [j \in KeysOf(t) |->
                      IF j = r.key THEN r.new
                      ELSE IF j = key THEN Tag(upd, o) ELSE lf[j]]
  <2>1. MovedAll(lf, c.op, t) = mv
    <3>1. DOMAIN lf = KeysOf(t)
      BY DEF Agree
    <3> QED  BY <3>1, <1>7, <1>11 DEF MovedAll, Moved
  <2>2. mv \in [KeysOf(t) -> Tags]
    BY <1>12, <1>4, KeyFacts DEF Agree
  <2>3. ASSUME NEW j \in KeysOf(t) \ X PROVE mv[j] = Tag(c.cbs[t][Group(j)], Offset(j))
    <3>1. /\ Group(j) \in Groups(t) /\ Offset(j) \in Offsets /\ j \in Nat
          /\ j = Group(j) * NumIc + Offset(j) /\ j # NoKey
      BY Division, KeyFacts
    <3>2. CASE Group(j) # g
      <4>1. j # key /\ c.cbs[t][Group(j)] = cbs[t][Group(j)]
        BY <3>2, <3>1, <1>9 DEF g
      <4>2. j # r.key
        BY <3>2, <3>1, <1>6, <1>2, Division
      <4> QED  BY <4>1, <4>2 DEF Agree
    <3>3. CASE Group(j) = g /\ r.key = NoKey
      <4>1. r.cb = upd /\ j # r.key
        BY <1>6, <3>3, <3>1
      <4>2. CASE j = key
        BY <4>1, <4>2, <3>3, <1>9 DEF o
      <4>3. CASE j # key
        <5>1. Offset(j) # o
          BY <4>3, <3>3, <3>1, <1>2
        <5>2. Tag(upd, Offset(j)) = Tag(old, Offset(j))
          BY <5>1, <1>4, <3>1, <3>3
        <5> QED  BY <4>1, <4>3, <5>2, <3>3, <1>9 DEF Agree, old
      <4> QED  BY <4>2, <4>3
    <3>4. CASE Group(j) = g /\ r.key # NoKey
      <4>1. PICK i \in Offsets :
                /\ r.key = g * NumIc + i /\ upd.backup[i]
                /\ r.new = Tag(r.cb, i)
                /\ \A m \in Offsets \ {i} : Tag(r.cb, m) = Tag(upd, m)
        BY <1>6, <3>4
      <4>2. i # o
        BY <4>1, <1>4
      <4>3. CASE j = r.key
        <5>1. Offset(j) = i
          BY <4>3, <4>1, <1>2, Division
        <5> QED  BY <5>1, <4>1, <4>3, <3>4, <1>9
      <4>4. CASE j # r.key
        <5>1. Offset(j) # i
          BY <4>4, <4>1, <3>4, <3>1
        <5>2. Tag(r.cb, Offset(j)) = Tag(upd, Offset(j))
          BY <5>1, <4>1, <3>1
        <5>3. CASE j = key
          BY <5>2, <5>3, <4>4, <3>4, <1>9 DEF o
        <5>4. CASE j # key
          <6>1. Offset(j) # o
            BY <5>4, <3>4, <3>1, <1>2
          <6>2. Tag(upd, Offset(j)) = Tag(old, Offset(j))
            BY <6>1, <1>4, <3>1, <3>4
          <6> QED  BY <5>2, <6>2, <5>4, <4>4, <3>4, <1>9 DEF Agree, old
        <5> QED  BY <5>3, <5>4
      <4> QED  BY <4>3, <4>4
    <3> QED  BY <3>2, <3>3, <3>4
  <2> HIDE DEF mv
  <2> QED  BY <2>1, <2>2, <2>3 DEF Agree
<1> QED  BY <1>7, <1>8, <1>10, <1>13, <1>14

(* The same for the next tree down, whether or not the access is a dummy. *)
LEMMA BelowResult ==
    ASSUME NEW s \in Trees, NEW cbs, BlocksGood(cbs), NEW lf, NEW X, Agree(lf, cbs, s, X),
           NEW op, Works(op) => op.key \in KeysOf(0), NEW m \in Below(cbs, op, s + 1)
    PROVE  /\ m.op.on <=> op.on
           /\ BlocksGood(m.cbs) /\ \A r \in Trees \ {s} : m.cbs[r] = cbs[r]
           /\ Asked(m.op, lf, s, X)
           /\ Agree(MovedAll(lf, m.op, s), m.cbs, s, X)
<1>1. CASE Works(op)
  <2>1. s \in Int
    BY DEF Trees
  <2>2. m \in Counted(cbs, op.key, s)
    <3>1. (s + 1) - 1 = s
      BY <2>1
    <3> QED  BY <1>1, <3>1 DEF Below
  <2>3. op.key \in KeysOf(0) /\ op.on
    BY <1>1 DEF Works
  <2> QED  BY <2>2, <2>3, CountedResult
<1>2. CASE ~Works(op)
  <2>1. m.op = op /\ m.cbs = cbs
    BY <1>2 DEF Below
  <2>2. MovedAll(lf, op, s) = lf
    BY <1>2 DEF MovedAll, Moved
  <2> QED  BY <1>2, <2>1, <2>2 DEF Asked
<1> QED  BY <1>1, <1>2

(* Moved blocks get later leaves, the others keep theirs.                  *)
LEMMA MovesLater ==
    ASSUME NEW t \in Trees, NEW lf \in [KeysOf(t) -> Tags], NEW op, NEW X,
           Asked(op, lf, t, X)
    PROVE  /\ MovedAll(lf, op, t) \in [KeysOf(t) -> Tags]
           /\ \A k \in KeysOf(t) \ X :
                MovedAll(lf, op, t)[k] = lf[k] \/ Later(MovedAll(lf, op, t)[k], lf[k])
           /\ \A k \in KeysOf(t) \ Wanted(op, t) : MovedAll(lf, op, t)[k] = lf[k]
<1>1. CASE ~Works(op)
  BY <1>1 DEF MovedAll, Moved
<1>2. CASE Works(op)
  <2> DEFINE mv == [k \in KeysOf(t) |->
                      IF k = op.rkey THEN op.rnew
                      ELSE IF k = Target(op, t) THEN op.new ELSE lf[k]]
  <2>1. MovedAll(lf, op, t) = mv
    BY <1>2 DEF MovedAll, Moved
  <2>2. \A k \in KeysOf(t) : k = op.rkey => op.rkey # NoKey
    BY KeyFacts
  <2>3. mv \in [KeysOf(t) -> Tags]
    BY <1>2, <2>2 DEF Asked
  <2>4. \A k \in KeysOf(t) \ X : mv[k] = lf[k] \/ Later(mv[k], lf[k])
    BY <1>2, <2>2 DEF Asked
  <2>5. \A k \in KeysOf(t) \ Wanted(op, t) : mv[k] = lf[k]
    BY <1>2, <2>2 DEF Wanted
  <2> QED  BY <2>1, <2>3, <2>4, <2>5
<1> QED  BY <1>1, <1>2

(* What an access wants, it asks for under the right leaf.                 *)
LEMMA WantedAsked ==
    ASSUME NEW t \in Trees, NEW lf, NEW op, NEW X, Asked(op, lf, t, X)
    PROVE  \A k \in Wanted(op, t) \ X : k \in KeysOf(t) /\ <<k, lf[k]>> \in Asks(op, t)
<1>1. Works(op) => Target(op, t) \in KeysOf(t)
  BY KeyFacts DEF Asked, Target
<1> QED  BY <1>1 DEF Asked, Wanted, Asks

(* A wanted block that is found is moved.                                  *)
LEMMA MovedWhereFound ==
    ASSUME NEW t \in Trees, NEW f \in [KeysOf(t) -> Tags], NEW lf, NEW op, NEW X,
           Asked(op, lf, t, X), NEW found
    PROVE  /\ Moved(f, op, t, found) \in [KeysOf(t) -> Tags]
           /\ \A k \in KeysOf(t), g \in [KeysOf(t) -> Tags] :
                f[k] = g[k] /\ (k \in Wanted(op, t) => k \in found) =>
                    Moved(f, op, t, found)[k] = MovedAll(g, op, t)[k]
<1>1. CASE ~Works(op)
  BY <1>1 DEF MovedAll, Moved
<1>2. CASE Works(op)
  <2>1. \A k \in KeysOf(t) : k = op.rkey => op.rkey # NoKey /\ k \in Wanted(op, t)
    BY <1>2, KeyFacts DEF Wanted
  <2>2. /\ op.new \in Tags
        /\ op.rkey # NoKey => op.rnew \in Tags
    BY <1>2 DEF Asked
  <2> DEFINE mv == [k \in KeysOf(t) |->
                      IF k = op.rkey /\ k \in found THEN op.rnew
                      ELSE IF k = Target(op, t) THEN op.new ELSE f[k]]
  <2>3. Moved(f, op, t, found) = mv
    BY <1>2 DEF Moved
  <2>4. mv \in [KeysOf(t) -> Tags]
    BY <2>1, <2>2
  <2>5. ASSUME NEW k \in KeysOf(t), NEW g \in [KeysOf(t) -> Tags], f[k] = g[k],
               k \in Wanted(op, t) => k \in found
        PROVE  mv[k] = MovedAll(g, op, t)[k]
    BY <1>2, <2>1, <2>5 DEF MovedAll, Moved
  <2> QED  BY <2>3, <2>4, <2>5
<1> QED  BY <1>1, <1>2

-----------------------------------------------------------------------------
(* The invariant: in every tree but the one to be read next the leaves     *)
(* agree with the counters; in that one they will, once main access and    *)
(* piggyback, in this order, have moved the blocks they ask for.  Copied   *)
(* blocks of the data tree are excepted.                                   *)

InFlight(a, b, lf, cbs, t, X) ==
    /\ Asked(a, lf, t, X)
    /\ Asked(b, MovedAll(lf, a, t), t, X)
    /\ Agree(MovedAll(MovedAll(lf, a, t), b, t), cbs, t, X)

DaInv ==
    /\ BlocksGood(cb)
    /\ leaf = [t \in Trees |-> leaf[t]]
    /\ \A t \in Trees : leaf[t] \in [KeysOf(t) -> Tags]
    /\ BlocksFound
    /\ tree \in -1 .. NumLevels
    /\ ~step.on => tree = -1 /\ ~pb.on
    /\ \A t \in Trees \ {tree} : Agree(leaf[t], cb, t, Copied(t))
    /\ tree \in Trees => InFlight(step, pb, leaf[tree], cb, tree, Copied(tree))

(* In such a round only copied blocks can be missing.                      *)
LEMMA AllFound ==
    ASSUME NEW t \in Trees, NEW lf \in [KeysOf(t) -> Tags], NEW a, NEW b, NEW cbs,
           NEW X, InFlight(a, b, lf, cbs, t, X),
           NEW found \in SUBSET (Wanted(a, t) \cup Wanted(b, t)),
           {k \in (Wanted(a, t) \cup Wanted(b, t)) \ X :
                <<k, lf[k]>> \in Asks(a, t) \cup Asks(b, t)} \subseteq found
    PROVE  /\ \A op \in {a, b} : Works(op) /\ Target(op, t) \notin X => Target(op, t) \in found
           /\ LET mv == Moved(Moved(lf, a, t, found), b, t, found)
              IN  /\ \A k \in KeysOf(t) \ X :
                        mv[k] = MovedAll(MovedAll(lf, a, t), b, t)[k]
                  /\ Agree(mv, cbs, t, X)
<1> DEFINE one == MovedAll(lf, a, t)
           two == Moved(lf, a, t, found)
<1>1. Asked(a, lf, t, X) /\ Asked(b, one, t, X)
  BY DEF InFlight
<1>2. Wanted(a, t) \ X \subseteq found
  BY <1>1, WantedAsked
<1>3. Wanted(b, t) \ X \subseteq found
  <2> SUFFICES ASSUME NEW k \in Wanted(b, t) \ X, k \notin Wanted(a, t) PROVE k \in found
    BY <1>2
  <2>1. k \in KeysOf(t) /\ <<k, one[k]>> \in Asks(b, t)
    BY <1>1, WantedAsked
  <2>2. one[k] = lf[k]
    BY <2>1, <1>1, MovesLater
  <2> QED  BY <2>1, <2>2
<1>4. one \in [KeysOf(t) -> Tags]
  BY <1>1, MovesLater
<1>5. two \in [KeysOf(t) -> Tags] /\ \A k \in KeysOf(t) \ X : two[k] = one[k]
  BY <1>1, <1>2, MovedWhereFound
<1> HIDE DEF one, two
<1>6. /\ Moved(two, b, t, found) \in [KeysOf(t) -> Tags]
      /\ \A k \in KeysOf(t) \ X : Moved(two, b, t, found)[k] = MovedAll(one, b, t)[k]
  BY <1>1, <1>3, <1>4, <1>5, MovedWhereFound
<1>7. \A op \in {a, b} : Works(op) /\ Target(op, t) \notin X => Target(op, t) \in found
  BY <1>2, <1>3 DEF Wanted
<1> QED  BY <1>6, <1>7 DEF InFlight, Agree, one, two

(* Whether leaves agree with counters depends on this tree's counters only. *)
LEMMA AgreeSame ==
    ASSUME NEW t, NEW lf, NEW c1, NEW c2, NEW X, Agree(lf, c1, t, X), c1[t] = c2[t]
    PROVE  Agree(lf, c2, t, X)
  BY DEF Agree

(* An operation that is not at work asks for nothing and moves nothing. *)
LEMMA NotAtWork ==
    ASSUME NEW op, ~Works(op), NEW t, NEW lf, NEW X
    PROVE  Asked(op, lf, t, X) /\ MovedAll(lf, op, t) = lf
  BY DEF Asked, MovedAll, Moved

(* The trees are numbered from the data tree up to the last level. *)
LEMMA TreeFacts ==
    /\ NumLevels \in Trees /\ 0 \in Trees /\ -1 \notin Trees
    /\ \A t \in -1 .. NumLevels : t >= 0 => t \in Trees
    /\ \A t \in Trees : t # 0 => t - 1 \in Trees /\ (t - 1) + 1 = t /\ t - 1 # t
    /\ \A t \in Trees : t - 1 \in -1 .. NumLevels
  BY GeometryAssumption DEF Trees

(* A new DAORAM: every leaf is computed from the first counters. *)
LEMMA InitDaInv == Init => DaInv
<1> SUFFICES ASSUME Init PROVE DaInv
  OBVIOUS
<1> USE CounterAssumption
<1>1. FreshBlock \in CounterBlocks
  BY DEF FreshBlock, CounterBlocks
<1>2. \A t \in Trees : \A g \in Groups(t) : GoodBlock(FreshBlock, t, g)
  BY <1>1 DEF GoodBlock, FreshBlock, Marked
<1>3. BlocksGood(cb)
  BY <1>2 DEF Init, BlocksGood
<1>4. <<0, 0>> \in Tags
  BY DEF Tags
<1>5. \A t \in Trees : Agree(leaf[t], cb, t, Copied(t))
  <2> SUFFICES ASSUME NEW t \in Trees PROVE Agree(leaf[t], cb, t, Copied(t))
    OBVIOUS
  <2>1. leaf[t] = [k \in KeysOf(t) |-> <<0, 0>>]
    BY DEF Init
  <2>2. ASSUME NEW k \in KeysOf(t)
        PROVE  Tag(cb[t][Group(k)], Offset(k)) = <<0, 0>>
    <3>1. Group(k) \in Groups(t) /\ Offset(k) \in Offsets
      BY Division, KeyFacts
    <3>2. cb[t][Group(k)] = FreshBlock
      BY <3>1 DEF Init
    <3> QED  BY <3>1, <3>2 DEF FreshBlock, Tag
  <2> QED  BY <2>1, <2>2, <1>4 DEF Agree
<1>6. \A t \in Trees : leaf[t] \in [KeysOf(t) -> Tags]
  BY <1>5 DEF Agree
<1>7. leaf = [t \in Trees |-> leaf[t]]
  BY DEF Init
<1>8. tree = -1 /\ tree \in -1 .. NumLevels /\ tree \notin Trees
  BY GeometryAssumption, TreeFacts DEF Init
<1>9. BlocksFound /\ ~step.on /\ ~pb.on
  BY DEF Init, Idle, BlocksFound
<1> QED  BY <1>3, <1>5, <1>6, <1>7, <1>8, <1>9 DEF DaInv

(* A main access or a piggyback begins in the topmost tree.                *)
LEMMA BeginsKeep ==
    DaInv /\ (\/ \E k \in KeysOf(0) : begin_step_access(k) \/ begin_piggyback_access(k)
              \/ begin_step_dummy \/ begin_piggyback_dummy) => DaInv'
<1> DEFINE X == Copied(NumLevels)
<1>0. status' = "ok" /\ copied' = copied =>
        BlocksFound' /\ \A t \in Trees : Copied(t)' = Copied(t)
  BY DEF BlocksFound, Copied
<1>1. ASSUME DaInv, NEW k \in KeysOf(0), begin_step_access(k) PROVE DaInv'
  <2>1. PICK c \in Counted(cb, k, NumLevels) : cb' = c.cbs /\ step' = c.op
    BY <1>1 DEF begin_step_access
  <2>2. /\ ~step.on /\ ~pb.on /\ tree' = NumLevels /\ UNCHANGED <<leaf, pb, copied, status>>
        /\ status = "ok"
        /\ \A t \in Trees : Agree(leaf[t], cb, t, Copied(t))
    BY <1>1, TreeFacts DEF begin_step_access, MayBegin, Ready, DaInv
  <2>3. /\ c.op.on /\ BlocksGood(c.cbs)
        /\ \A s \in Trees \ {NumLevels} : c.cbs[s] = cb[s]
        /\ Asked(c.op, leaf[NumLevels], NumLevels, X)
        /\ Agree(MovedAll(leaf[NumLevels], c.op, NumLevels), c.cbs, NumLevels, X)
    BY <1>1, <2>2, TreeFacts, CountedResult DEF DaInv
  <2>4. \A t \in Trees \ {NumLevels} : Agree(leaf[t], c.cbs, t, Copied(t))
    BY <2>2, <2>3, AgreeSame
  <2>5. ~Works(pb)
    BY <2>2 DEF Works
  <2>6. InFlight(c.op, pb, leaf[NumLevels], c.cbs, NumLevels, X)
    BY <2>3, <2>5, NotAtWork DEF InFlight
  <2>7. NumLevels \in -1 .. NumLevels
    BY GeometryAssumption
  <2> QED  BY <1>0, <1>1, <2>1, <2>2, <2>3, <2>4, <2>6, <2>7 DEF DaInv
<1>2. ASSUME DaInv, NEW k \in KeysOf(0), begin_piggyback_access(k) PROVE DaInv'
  <2>1. PICK c \in Counted(cb, k, NumLevels) : cb' = c.cbs /\ pb' = c.op
    BY <1>2 DEF begin_piggyback_access
  <2>2. /\ step.on /\ ~pb.on /\ tree = NumLevels
        /\ UNCHANGED <<leaf, step, tree, copied, status>> /\ status = "ok"
        /\ InFlight(step, pb, leaf[NumLevels], cb, NumLevels, X)
    BY <1>2, TreeFacts DEF begin_piggyback_access, MayPiggyback, DaInv
  <2> DEFINE lf == MovedAll(leaf[NumLevels], step, NumLevels)
  <2>3. Agree(lf, cb, NumLevels, X) /\ Asked(step, leaf[NumLevels], NumLevels, X)
    <3>1. ~Works(pb)
      BY <2>2 DEF Works
    <3> QED  BY <2>2, <3>1, NotAtWork DEF InFlight
  <2>4. /\ BlocksGood(c.cbs)
        /\ \A s \in Trees \ {NumLevels} : c.cbs[s] = cb[s]
        /\ Asked(c.op, lf, NumLevels, X)
        /\ Agree(MovedAll(lf, c.op, NumLevels), c.cbs, NumLevels, X)
    <3> HIDE DEF lf
    <3> QED  BY <1>2, <2>3, TreeFacts, CountedResult DEF DaInv
  <2>5. \A t \in Trees \ {NumLevels} : Agree(leaf[t], c.cbs, t, Copied(t))
    BY <1>2, <2>2, <2>4, AgreeSame DEF DaInv
  <2>6. InFlight(step, c.op, leaf[NumLevels], c.cbs, NumLevels, X)
    BY <2>3, <2>4 DEF InFlight
  <2> HIDE DEF lf
  <2> QED  BY <1>0, <1>2, <2>1, <2>2, <2>4, <2>5, <2>6 DEF DaInv
<1>3. ASSUME DaInv, begin_step_dummy PROVE DaInv'
  <2>1. /\ ~step.on /\ ~pb.on /\ tree' = NumLevels /\ UNCHANGED <<cb, leaf, pb, copied, status>>
        /\ status = "ok"
        /\ step' = Dummy /\ \A t \in Trees : Agree(leaf[t], cb, t, Copied(t))
    BY <1>3, TreeFacts DEF begin_step_dummy, MayBegin, Ready, DaInv
  <2>2. ~Works(Dummy) /\ Dummy.on /\ ~Works(pb)
    BY <2>1 DEF Dummy, Idle, Works
  <2>3. InFlight(Dummy, pb, leaf[NumLevels], cb, NumLevels, X)
    BY <2>1, <2>2, NotAtWork, TreeFacts DEF InFlight
  <2>4. NumLevels \in -1 .. NumLevels
    BY GeometryAssumption
  <2> QED  BY <1>0, <1>3, <2>1, <2>2, <2>3, <2>4 DEF DaInv
<1>4. ASSUME DaInv, begin_piggyback_dummy PROVE DaInv'
  <2>1. /\ step.on /\ ~pb.on /\ tree = NumLevels
        /\ UNCHANGED <<cb, leaf, step, tree, copied, status>> /\ status = "ok"
        /\ pb' = Dummy /\ InFlight(step, pb, leaf[NumLevels], cb, NumLevels, X)
    BY <1>4, TreeFacts DEF begin_piggyback_dummy, MayPiggyback, DaInv
  <2>2. ~Works(Dummy) /\ ~Works(pb)
    BY <2>1 DEF Dummy, Idle, Works
  <2>3. InFlight(step, Dummy, leaf[NumLevels], cb, NumLevels, X)
    BY <2>1, <2>2, NotAtWork DEF InFlight
  <2> QED  BY <1>0, <1>4, <2>1, <2>3 DEF DaInv
<1> QED  BY <1>1, <1>2, <1>3, <1>4

(* A round either misses a data block of which there are copies, or moves  *)
(* the blocks it is to move, but for the copied ones.                      *)
LEMMA RoundResult ==
    ASSUME DaInv, Round
    PROVE  /\ tree \in Trees /\ step.on /\ status = "ok"
           /\ \/ status' = "missing" /\ BlocksFound' /\ Unchanged
              \/ \E found \in SUBSET (Wanted(step, tree) \cup Wanted(pb, tree)) :
                    LET all == MovedAll(MovedAll(leaf[tree], step, tree), pb, tree)
                        mv  == Moved(Moved(leaf[tree], step, tree, found), pb, tree, found)
                    IN  /\ tree' = tree - 1 /\ status' = status
                        /\ \A k \in KeysOf(tree) \ Copied(tree) : mv[k] = all[k]
                        /\ Agree(mv, cb, tree, Copied(tree))
                        /\ IF tree = 0 THEN DataRound(found) ELSE CounterRound(found)
<1>1. tree \in Trees /\ step.on /\ status = "ok"
  BY TreeFacts DEF Round, DaInv
<1> DEFINE X       == Copied(tree)
           wanted  == Wanted(step, tree) \cup Wanted(pb, tree)
           asked   == Asks(step, tree) \cup Asks(pb, tree)
           targets == {Target(op, tree) : op \in {o \in {step, pb} : Works(o)}}
<1>2. PICK found \in SUBSET wanted :
        /\ {k \in wanted \ X : <<k, leaf[tree][k]>> \in asked} \subseteq found
        /\ IF targets \subseteq found
           THEN /\ IF tree = 0 THEN DataRound(found) ELSE CounterRound(found)
                /\ tree' = tree - 1 /\ status' = status
           ELSE status' = "missing" /\ Unchanged
  BY DEF Round
<1>3. leaf[tree] \in [KeysOf(tree) -> Tags] /\ InFlight(step, pb, leaf[tree], cb, tree, X)
  BY <1>1 DEF DaInv
<1> DEFINE mv  == Moved(Moved(leaf[tree], step, tree, found), pb, tree, found)
           all == MovedAll(MovedAll(leaf[tree], step, tree), pb, tree)
<1>4. /\ \A op \in {step, pb} :
            Works(op) /\ Target(op, tree) \notin X => Target(op, tree) \in found
      /\ \A k \in KeysOf(tree) \ X : mv[k] = all[k]
      /\ Agree(mv, cb, tree, X)
  <2> HIDE DEF X
  <2> QED  BY <1>1, <1>2, <1>3, AllFound
<1>5. CASE targets \subseteq found
  <2> HIDE DEF targets, mv, all, X
  <2>1. /\ tree' = tree - 1 /\ status' = status
        /\ IF tree = 0 THEN DataRound(found) ELSE CounterRound(found)
    BY <1>2, <1>5
  <2> QED  BY <1>1, <1>4, <2>1 DEF mv, all, X
<1>6. CASE ~(targets \subseteq found)
  <2>1. status' = "missing" /\ Unchanged
    BY <1>2, <1>6
  <2>2. PICK op \in {step, pb} : Works(op) /\ Target(op, tree) \notin found
    BY <1>6
  <2>3. Target(op, tree) \in Copied(tree)
    BY <1>4, <2>2
  <2>4. tree = 0 /\ Target(op, 0) \in copied
    BY <2>3 DEF Copied
  <2>5. op.key \in KeysOf(0)
    BY <1>3, <2>2 DEF InFlight, Asked
  <2>6. op.key \in copied
    BY <2>4, <2>5, GeometryAssumption DEF Target
  <2>7. BlocksFound'
    BY <2>1, <2>2, <2>4, <2>6 DEF BlocksFound, Unchanged, Works
  <2> QED  BY <1>1, <2>1, <2>7
<1> QED  BY <1>5, <1>6

(* Leaves that agree but for some blocks agree but for more of them. *)
LEMMA AgreeFewer ==
    ASSUME NEW t, NEW lf, NEW cbs, NEW X, NEW Y, X \subseteq Y, Agree(lf, cbs, t, X)
    PROVE  Agree(lf, cbs, t, Y)
  BY DEF Agree

(* One round, with main access and piggyback in the code's order. *)
LEMMA RoundKeeps == DaInv /\ Round => DaInv'
<1> SUFFICES ASSUME DaInv, Round PROVE DaInv'
  OBVIOUS
<1>1. tree \in Trees /\ step.on /\ status = "ok"
  BY RoundResult
<1>2. CASE status' = "missing" /\ BlocksFound' /\ Unchanged
  BY <1>2 DEF DaInv, Unchanged, Copied
<1>3. ASSUME NEW found \in SUBSET (Wanted(step, tree) \cup Wanted(pb, tree)),
             tree' = tree - 1, status' = status,
             Agree(Moved(Moved(leaf[tree], step, tree, found), pb, tree, found),
                   cb, tree, Copied(tree)),
             IF tree = 0 THEN DataRound(found) ELSE CounterRound(found)
      PROVE  DaInv'
  <2> DEFINE mv == Moved(Moved(leaf[tree], step, tree, found), pb, tree, found)
  <2>1. Agree(mv, cb, tree, Copied(tree)) /\ mv \in [KeysOf(tree) -> Tags]
    BY <1>3 DEF Agree
  <2>2. tree' \in -1 .. NumLevels
    BY <1>1, <1>3, TreeFacts
  <2>3. BlocksFound'
    BY <1>1, <1>3 DEF BlocksFound
  <2>4. InFlight(step, pb, leaf[tree], cb, tree, Copied(tree))
    BY <1>1 DEF DaInv
  <2>5. /\ Works(step) => step.key \in KeysOf(0)
        /\ Works(pb) => pb.key \in KeysOf(0)
    BY <2>4 DEF InFlight, Asked
  <2>6. CASE tree = 0
    <3>1. /\ leaf' = [leaf EXCEPT ![tree] = mv] /\ copied \subseteq copied'
          /\ UNCHANGED <<cb, step, pb>>
      BY <1>3, <2>6 DEF DataRound
    <3> HIDE DEF mv
    <3>2. /\ leaf' = [t \in Trees |-> leaf'[t]]
          /\ leaf'[tree] = mv /\ \A t \in Trees \ {tree} : leaf'[t] = leaf[t]
      BY <1>1, <3>1 DEF DaInv
    <3>3. \A t \in Trees : Agree(leaf'[t], cb', t, Copied(t))
      BY <2>1, <3>1, <3>2 DEF DaInv
    <3>4. \A t \in Trees : Copied(t) \subseteq Copied(t)'
      BY <3>1 DEF Copied
    <3>5. \A t \in Trees : Agree(leaf'[t], cb', t, Copied(t)')
      BY <3>3, <3>4, AgreeFewer
    <3>6. tree' \notin Trees
      BY <1>3, <2>6, TreeFacts
    <3>7. \A t \in Trees : leaf'[t] \in [KeysOf(t) -> Tags]
      BY <3>2, <2>1 DEF DaInv
    <3>8. BlocksGood(cb)' /\ step'.on
      BY <3>1, <1>1 DEF DaInv, BlocksGood
    <3> QED  BY <2>2, <2>3, <3>2, <3>5, <3>6, <3>7, <3>8 DEF DaInv
  <2>7. CASE tree # 0
    <3>1. PICK m \in Below(cb, step, tree) : \E p \in Below(m.cbs, pb, tree) :
              /\ leaf' = [leaf EXCEPT ![tree] = mv]
              /\ cb' = p.cbs /\ step' = m.op /\ pb' = p.op
              /\ UNCHANGED copied
      BY <1>3, <2>7 DEF CounterRound
    <3> HIDE DEF mv
    <3>2. PICK p \in Below(m.cbs, pb, tree) :
              /\ leaf' = [leaf EXCEPT ![tree] = mv]
              /\ cb' = p.cbs /\ step' = m.op /\ pb' = p.op
              /\ UNCHANGED copied
      BY <3>1
    <3> DEFINE u == tree - 1
    <3>3. u \in Trees /\ u + 1 = tree /\ u # tree
      BY <1>1, <2>7, TreeFacts
    <3>4. Agree(leaf[u], cb, u, Copied(u)) /\ BlocksGood(cb)
      BY <3>3 DEF DaInv
    <3>12. tree' = u
      BY <1>3
    <3> HIDE DEF u
    <3>5. /\ m.op.on <=> step.on
          /\ BlocksGood(m.cbs) /\ \A r \in Trees \ {u} : m.cbs[r] = cb[r]
          /\ Asked(m.op, leaf[u], u, Copied(u))
          /\ Agree(MovedAll(leaf[u], m.op, u), m.cbs, u, Copied(u))
      BY <3>1, <3>3, <3>4, <2>5, BelowResult
    <3>6. /\ BlocksGood(p.cbs) /\ \A r \in Trees \ {u} : p.cbs[r] = m.cbs[r]
          /\ Asked(p.op, MovedAll(leaf[u], m.op, u), u, Copied(u))
          /\ Agree(MovedAll(MovedAll(leaf[u], m.op, u), p.op, u), p.cbs, u, Copied(u))
      BY <3>2, <3>3, <3>5, <2>5, BelowResult
    <3>7. /\ leaf' = [t \in Trees |-> leaf'[t]]
          /\ leaf'[tree] = mv /\ \A t \in Trees \ {tree} : leaf'[t] = leaf[t]
      BY <1>1, <3>2 DEF DaInv
    <3>8. \A t \in Trees \ {u} : Agree(leaf'[t], cb, t, Copied(t))
      BY <3>7, <2>1 DEF DaInv
    <3>9. \A t \in Trees \ {u} : Agree(leaf'[t], p.cbs, t, Copied(t))
      BY <3>8, <3>5, <3>6, AgreeSame
    <3>10. InFlight(m.op, p.op, leaf'[u], p.cbs, u, Copied(u))
      BY <3>3, <3>5, <3>6, <3>7 DEF InFlight
    <3>11. \A t \in Trees : leaf'[t] \in [KeysOf(t) -> Tags]
      BY <3>7, <2>1 DEF DaInv
    <3>13. \A t \in Trees : Copied(t)' = Copied(t)
      BY <3>2 DEF Copied
    <3>14. step'.on
      BY <1>1, <3>2, <3>5
    <3> QED  BY <1>1, <2>2, <2>3, <3>2, <3>3, <3>6, <3>7, <3>9, <3>10, <3>11, <3>12,
                <3>13, <3>14 DEF DaInv
  <2> QED  BY <2>6, <2>7
<1> QED  BY <1>2, <1>3, RoundResult

(* Every step keeps the invariant. *)
LEMMA NextKeeps == DaInv /\ [Next]_davars => DaInv'
<1> SUFFICES ASSUME DaInv, [Next]_davars PROVE DaInv'
  OBVIOUS
<1>1. CASE Round
  BY <1>1, RoundKeeps
<1>2. CASE \/ \E k \in KeysOf(0) : begin_step_access(k) \/ begin_piggyback_access(k)
           \/ begin_step_dummy \/ begin_piggyback_dummy
  BY <1>2, BeginsKeep
<1>3. CASE step_finish
  <2>1. /\ tree = -1 /\ UNCHANGED <<cb, leaf, tree, copied, status>> /\ status = "ok"
        /\ ~step'.on /\ ~pb'.on
    BY <1>3 DEF step_finish, Idle
  <2> QED  BY <2>1, TreeFacts DEF DaInv, BlocksFound, Copied
<1>4. CASE Overflow
  <2>1. status' = "overflow" /\ Unchanged
    BY <1>4 DEF Overflow
  <2> QED  BY <2>1 DEF Unchanged, DaInv, BlocksFound, Copied
<1>5. CASE UNCHANGED davars
  BY <1>5 DEF davars, DaInv, BlocksFound, Copied
<1> QED  BY <1>1, <1>2, <1>3, <1>4, <1>5 DEF Next

(* The invariant holds throughout. *)
LEMMA AlwaysDaInv == Spec => []DaInv
<1>1. DaInv /\ [Next]_davars => DaInv'
  BY NextKeeps
<1> QED  BY <1>1, InitDaInv, PTL DEF Spec

-----------------------------------------------------------------------------
(* The results, for the order in which DaOstOmap::step_process finishes a  *)
(* piggyback: copies of data blocks may stay behind.                       *)

(* step_process, traverse_pos_maps: no access and no piggyback misses a    *)
(* counter block, and none ends with "block not found" for a data block of *)
(* which no copy was left behind.                                          *)
THEOREM NothingMissing == Spec => []BlocksFound
<1>1. DaInv => BlocksFound
  BY DEF DaInv
<1> QED  BY <1>1, AlwaysDaInv, PTL

(* update_counter_in, perform_reset_in: between accesses every block of    *)
(* every tree has the leaf its counters stand for, but for data blocks of  *)
(* which piggyback_finish before step_get_writes left a copy behind.       *)
THEOREM LeavesAreCounted == Spec => []LeavesCounted
<1>1. DaInv => LeavesCounted
  <2> SUFFICES ASSUME DaInv, Ready, NEW t \in Trees, NEW k \in KeysOf(t) \ Copied(t)
               PROVE  leaf[t][k] = Tag(cb[t][Group(k)], Offset(k))
    BY DEF LeavesCounted
  <2>1. t # tree
    BY TreeFacts DEF DaInv, Ready
  <2> QED  BY <2>1 DEF DaInv, Agree
<1> QED  BY <1>1, AlwaysDaInv, PTL

(* perform_reset_in: a marked block is moved before a counter of its group *)
(* can be used up, copies or not.                                          *)
THEOREM ResetsInTime == Spec => []ResetInTime
<1>1. DaInv => ResetInTime
  <2> SUFFICES ASSUME DaInv, NEW t \in Trees, NEW g \in Groups(t),
                      NEW i \in Marked(cb[t][g], t, g), NEW o \in Offsets,
                      ~cb[t][g].backup[o]
               PROVE  cb[t][g].ic[o] < i
    BY DEF ResetInTime
  <2>1. GoodBlock(cb[t][g], t, g)
    BY DEF DaInv, BlocksGood
  <2> QED  BY <2>1 DEF GoodBlock
<1> QED  BY <1>1, AlwaysDaInv, PTL

(* Counters that come later than later ones come later. *)
LEMMA LaterTransitive ==
    ASSUME NEW a \in Tags, NEW b \in Tags, NEW c \in Tags, Later(b, a), Later(c, b)
    PROVE  Later(c, a)
<1>1. /\ a[1] \in Nat /\ b[1] \in Nat /\ c[1] \in Nat
      /\ a[2] \in Nat /\ b[2] \in Nat /\ c[2] \in Nat
  BY CounterAssumption DEF Tags
<1> QED  BY <1>1 DEF Later

(* A block never gets the counters of an earlier leaf again, also when     *)
(* main access and piggyback move it in the same round, unless there are   *)
(* copies of it.                                                           *)
THEOREM LeavesStayFresh == Spec => LeavesFresh
<1> DEFINE Fresh == \A t \in Trees : \A k \in KeysOf(t) \ Copied(t) :
                      leaf'[t][k] # leaf[t][k] => Later(leaf'[t][k], leaf[t][k])
<1>1. DaInv /\ [Next]_davars => [Fresh]_davars
  <2> SUFFICES ASSUME DaInv, Next PROVE Fresh
    BY DEF davars
  <2>1. CASE Round
    <3>1. CASE Unchanged
      BY <3>1 DEF Unchanged
    <3>2. ASSUME NEW found \in SUBSET (Wanted(step, tree) \cup Wanted(pb, tree)),
                 \A k \in KeysOf(tree) \ Copied(tree) :
                    Moved(Moved(leaf[tree], step, tree, found), pb, tree, found)[k]
                        = MovedAll(MovedAll(leaf[tree], step, tree), pb, tree)[k],
                 IF tree = 0 THEN DataRound(found) ELSE CounterRound(found)
          PROVE  Fresh
      <4> DEFINE one == MovedAll(leaf[tree], step, tree)
                 two == MovedAll(one, pb, tree)
                 mv  == Moved(Moved(leaf[tree], step, tree, found), pb, tree, found)
                 X   == Copied(tree)
      <4>1. tree \in Trees
        BY <2>1, RoundResult
      <4>2. leaf' = [leaf EXCEPT ![tree] = mv]
        BY <3>2 DEF DataRound, CounterRound
      <4>3. \A k \in KeysOf(tree) \ X : mv[k] = two[k]
        BY <3>2
      <4>4. /\ leaf[tree] \in [KeysOf(tree) -> Tags]
            /\ Asked(step, leaf[tree], tree, X) /\ Asked(pb, one, tree, X)
        BY <4>1 DEF DaInv, InFlight
      <4> HIDE DEF mv, X
      <4>5. /\ one \in [KeysOf(tree) -> Tags]
            /\ \A k \in KeysOf(tree) \ X :
                    one[k] = leaf[tree][k] \/ Later(one[k], leaf[tree][k])
        BY <4>1, <4>4, MovesLater
      <4> HIDE DEF one
      <4>6. /\ two \in [KeysOf(tree) -> Tags]
            /\ \A k \in KeysOf(tree) \ X : two[k] = one[k] \/ Later(two[k], one[k])
        BY <4>1, <4>4, <4>5, MovesLater
      <4> HIDE DEF two
      <4>7. ASSUME NEW t \in Trees, NEW k \in KeysOf(t) \ Copied(t), leaf'[t][k] # leaf[t][k]
            PROVE  Later(leaf'[t][k], leaf[t][k])
        <5>1. t = tree /\ leaf'[t] = mv /\ k \in KeysOf(tree) \ X
          BY <4>7, <4>2, <4>1 DEF DaInv, X
        <5>2. leaf'[t][k] = two[k]
          BY <5>1, <4>3
        <5>3. leaf[t][k] \in Tags /\ one[k] \in Tags /\ two[k] \in Tags
          BY <5>1, <4>4, <4>5, <4>6
        <5> QED  BY <5>1, <5>2, <5>3, <4>5, <4>6, <4>7, LaterTransitive
      <4> QED  BY <4>7
    <3> QED  BY <2>1, <3>1, <3>2, RoundResult
  <2>2. CASE ~Round
    <3>1. UNCHANGED leaf
      BY <2>2 DEF Next, begin_step_access, begin_step_dummy, begin_piggyback_access,
                  begin_piggyback_dummy, step_finish, Overflow, Unchanged
    <3> QED  BY <3>1
  <2> QED  BY <2>1, <2>2
<1> HIDE DEF Fresh
<1>2. Spec => [][Fresh]_davars
  BY <1>1, AlwaysDaInv, PTL DEF Spec
<1> QED  BY <1>2 DEF LeavesFresh, Fresh
=============================================================================
